# tool402 in TLA+

TLA+ models of [tool402](../src/README.md), the TLC configurations that check
them on small instances, and TLAPS proofs of what holds for every instance.

tool402 is a marketplace for paid tools on Hedera testnet. Providers publish
tools and back them with an on-chain asset; backers pay into an offering with
their own wallet; agents buy tool calls over x402. A Convex backend keeps the
durable records. The browser and the wallet hold the keys, the server never
sends money, and the public ledger is the only evidence a payment happened.

## The system

Convex *mutations* are serializable transactions over the tables: one mutation
is one atomic step. Convex *actions* are not transactions: they read, wait for
the network, and call mutations later, while everything else goes on. The
browser talks to the backend through Next.js routes. Almost every hard
behaviour below is a gap between two such steps.

| component | state | operations | talks to |
| --- | --- | --- | --- |
| Backing intents, accounts (`convex/backing_intents.ts`, `self_service_accounts.ts`) | frozen intents, hourly rate rows, account status, the self-service flag | prepare an intent, provision an account, change its status | payment record (reads intents), operators |
| Backing payment record (`backing_payment_store.ts`, `backing_payment_records.ts`) | claims: signer, offering, amount, state, hash, verified hash | reserve, dispatch, attach, verify, re-verify | browser, ledger, intents, attempts |
| Command admission (`external_prepare_command_admission.ts`, `wallet_command_replay.ts`) | attempts, replay claims, idempotency records | admit ATS_CREATE or HEDERA_FUNDING | dispatch, offerings, intents |
| Wallet commands (`signature-dialog.tsx`, `command-relay.ts`, `command_dispatch.ts`, the normaliser) | dialogs, envelopes, claimed nonces | sign, relay, claim, authorise, admit, answer | admission, wallet |
| Session ingress (`provider_session_ingress.ts`, `src/ingress/*`, `backing-payment-server.ts`) | nonces | assert a session, claim a nonce, run the mutation | every write of the dashboard |
| Offerings and ATS issuance (`offerings.ts`, `ats_candidate_receipts.ts`, `ats_receipt_verification.ts`) | offering state, asset candidate, receipt attempts | draft, create, attach candidate, corroborate, open | directory, admission, ledger |
| Directory (`directory_versions.ts`) | numbered versions, one active | append, supersede | offerings |
| Provider tools (`provider_tools.ts`, `provider_tool_authority.ts`, `provider_tool_receipts.ts`) | tools, deployments | create, deploy, verify | offerings |
| Backing page (`backing-flow.tsx`, `backing-state.ts`) | view of each tab, local storage, permit | prepare, sign, reserve, send, record, recover | wallet, session ingress |
| Stage-B page (`ats-create-action.tsx`, `stage-b-recovery.ts`, `stage-b-browser-provider-bridge.ts`) | a record in local storage under a Web Lock | reserve, ask MetaMask, persist, recover | wallet, mirror node |
| Deploy wizard (`provider-deploy-*.tsx`, `deploy-stage-signing.tsx`) | page, acknowledgement, results of four stages, the open request | edit, advance, resume, recheck, sign | wallet commands |
| Dashboard session (`dashboard-session-sync.tsx`, `dashboard-auth.ts`) | one sealed cookie, a Web Lock, the view of each tab | sign in, log out, follow the wallet | wallet |
| x402 route (`x402-protected-route.ts`, `riskscan-settlement-evidence.ts`) | cached handler, registrations with timeouts, bounded sink; all in memory | verify, run, register, settle, record | facilitator, x402 server |
| RiskScan ledger (`riskscan_settlement_*.ts`, `riskscan_requests.ts`, `riskscan_pending_*.ts`) | requests, attempts, records | write each once, select, read pending | - |
| EntityCheck (`entity-check-sources.ts`, `entity-check-x402.ts`, `entity-check.ts`) | a cache of the sanctions list | read two sources, assess | registry, sanctions list |
| Paying agent (`apps/agent`) | one run, an evidence file | discover, judge the quote, sign, pay, export | x402 route |
| Core states (`packages/core/src/*-lifecycle.ts`, `risk-scan.ts`) | objects known by identity | issue, transition, consume | - |
| Core computations (`offering-economics.ts`, `requirements-offering-quote.ts`) | none | terms, allocation, split; canonical text, digest | - |

What is hard, and what makes each part correct:

* *Backing payments.* A backer must never pay twice by reload, retry or second
  tab; one transaction must never prove two backings; CONFIRMED must rest on a
  ledger transfer of the right amount between the right parties; late results
  must not undo a closed claim; money that was sent must be accounted for even
  when the backer is suspended or the offering closed in between.
* *Intents and sessions.* Quotas must hold under concurrent preparation, expiry,
  window roll-over, suspension and reactivation, for posts that are repeated
  because their answer was lost.
* *Commands.* A replay, a retry after a lost answer, a delivery that arrives
  twice and a conflicting reuse of a key must be told apart, across steps that
  each may be the last of their handler.
* *Offerings, ATS, directory.* An offering opens once, on a corroborated asset,
  under the directory version that was current; each step may crash after the
  one before it.
* *Browser pages.* Two tabs, a reload under an open MetaMask request or a moved
  wallet must not send twice, lose a hash, sign what is not shown or end the
  session of another tab.
* *x402 route.* A settlement must be credited to the answer it paid for and to
  no other, once; timeouts, cancellations and failed starts must leave nothing
  behind that hits a later request.
* *RiskScan, EntityCheck, agent, core.* A transfer settles one attempt; a state
  object is used once; a list is recent; an agent that says it paid nothing
  paid nothing; equal requirements have one digest.

`PROJECT.json` lists the hazards line by line with the properties that watch
them. Known cases no property is about: with more than 128 unresolved claims
without an offering the legacy scan gives up and refuses (the model has it);
two drafts of the legacy subject block every ATS_CREATE of it, and a wrong
candidate is never replaced, as specified (the model has both); the selector of
pending reconciliations refuses for ever once two attempts are due at once, but
nothing calls it yet; one quote may start several purchases; records of the
company registry that cannot be read are dropped, so an ambiguous name may
become unique; a process that ends between a settlement and its hook keeps no
record of the payment.

## Modules

### BackingIntents

One backer signs in (`EnsureSelfServiceAccount`), then prepares intents
(`FreezeBackingIntent`); operators suspend and reactivate accounts, flip the
flag, edit offerings and seeded authorities; the clock ticks. `intents` and
`rateLimits` are the two tables, keyed by idempotency key and by signer and
window. The terms sheet of an offering stands for its digest, so a frozen
intent keeps the terms the backer reviewed.

An intent's amount is `units * price`. The recipient of an offering does not
change. Legacy intents (for `riskscan_revenue_note_demo`) are outside both
quotas, though they fill the pending count of their signer, so `PendingQuota`
and `HourlyQuota` speak of self-service intents.

### BackingPayments

Extends `BackingIntents` with attempts, claims, the Send permit each browser
holds, the ledger and the verification jobs.

| code | action |
| --- | --- |
| `admitExternalPrepareCommand` (HEDERA_FUNDING) | `AdmitFunding` |
| `reserveBackingPayment` | `ReserveBackingPayment` |
| `beginBackingPaymentDispatch` | `BeginBackingPaymentDispatch` |
| wallet call in `backing-flow.tsx` | `WalletSend`, `PermitLost` |
| `confirm` (attach a hash, start verification) | `ConfirmBackingPayment` |
| `reverifyOffering`, `reverify`, the legacy page | `ReverifyOffering`, `ReverifyBacker`, `ReverifyLegacyRiskScan` |
| the ledger read of a job | `ReadReceipt` |
| `recordBackingPayment` at the end of a job | `FinishJob` |
| an action that crashes or times out | `JobCrash` |
| Hedera | `ForeignTransfer`, `Mine` |

A job keeps only its key, its hash and what it read: everything else it uses is
immutable. `PayInit` may start with *historic* attempts and claims, written
before intents and offering scopes existed, in every state an earlier release
may have left them; the code has a branch for each of them. `origin` in a
transaction is history for `OneSend` only.

The attempt row stays `PREPARED` through a payment, so only the claim has a
state.

### BackingPromise

What the record promises, without claims, jobs or retries: an attempt is
opened, then closed once, as REJECTED, or as CONFIRMED by a settled transfer
that closes no other attempt. `BackingPayments` implements it under the mapping
`PromisedStatus`, `PromisedProof`, `Settled`: reserving is a stutter,
dispatching opens, only `FinishJob` closes.

### ClaimRecord

What the pages count on: how the record of an attempt moves (admitted,
prepared, dispatched or submitted, resolved), that a dispatch starts from a
reservation and has no unresolved sibling of the same backer and offering, and
that a hash once attached stays. It has no intents, operators, jobs or ledger.
`BackingPayments` implements it (`KeepsRecord`; `RecordStatus`, `RecordedHash`
and `RecordScope` read it off the tables), and `BackingFlow` uses its
operators for the server. So what is assumed of the server there is shown of
the server here. The backend may refuse more than the record does (hashes
others own, expiry, closed offerings): to a page a refusal is a lost answer.

### ProviderTools

Who may act as an issuer, and what issuers allocate. A signer acts under a
seeded `commandAuthorities` row (`rows`), or under a self-service account
(`accounts`, and the flag `selfService`), or holds both; operators change all
three. `AllocateForIssuer` is the whole of `allocateForIssuer`: identity,
replay by request id, quota, insert. The eight random draws of an identity are
one choice of an unused one. A replay writes nothing, so it is no action.

### OfferingLifecycle

Extends `ProviderTools` with everything between a draft and a listing.

| code | action |
| --- | --- |
| `admitOfferingCreate` | `AdmitOfferingCreate` |
| `admitAtsCreateAndMarkAssetPending` and the link it makes | `AdmitAtsCreate` |
| `attachAtsCandidateReceipt`, and the job dispatched after it | `AttachCandidate`, `ReattachCandidate` |
| `recheckOwnedToolDeployment` | `RecheckOwnedTool` |
| the two reads of `verifyReceipt` | `ReadCandidate` |
| `corroborateSelectedProviderToolAtsReceipt` | `Corroborate` |
| an action that crashes or times out | `JobCrash` |
| `admitDirectoryPublish` | `AdmitDirectoryPublish` |
| the ATS factory | `DeployAsset` |

Commands enter with a role that ingress has already checked; `Authorised` is
the check each mutation repeats. Nonces are not kept one by one: `claims`
counts how many were spent on each kind of answer, and a spent nonce changes
nothing. A payload stands for the signed digest; a tool's payload also fixes
the title, and so the configuration its asset is deployed with.

A tool has one offering, named after it, so `Tools` doubles as the set of their
offerings. The legacy subject is in the seeded row of one issuer only, and may
have several offerings; those become ready on the announced candidate, which
nobody reads. `HistoricPending` are legacy offerings an earlier release left
pending although their attempt already carried a candidate, the state
`ReattachCandidate` repairs. Public ids of legacy offerings are never spelled
like a tool's.

A candidate has two readings (`Candidates`): the id `claimAtsReceiptBinding`
makes canonical, and the transaction the mirror node finds. They differ only
for ids with short nanoseconds (`ShortSpellings`).

### DeploymentRecord

What the deploy wizard counts on: a deployment is drafted by one issuer,
prepared once with an attempt no other deployment has, gets one candidate, is
ready with it and opens once; no stage is left out or taken back, and what was
recorded stays. It has no commands, jobs, bindings or versions. `DeployWizard`
uses its operators for the server, and starts from any record that is
`WellRecorded`; that is shown to be all the backend can hold
(`WellRecordedHolds`). Legacy candidates are not read on the ledger: attaching
one makes the deployment ready (`Unread`), but an earlier release could leave
it pending, which `RecordAsset` repairs.

### ListingPromise

Extends `DeploymentRecord`: an offering becomes ready with a proof no other
offering uses, and opening makes it the current offering of its service.
`OfferingLifecycle` implements it (`KeepsListing`; `StageOf`, `IssuerOf`,
`PreparedOf` and `AttachedTo` read the record off the rows): retries, jobs,
claims, replays and replaced versions are stutters or steps of it. So what is
assumed of the server by the wizard is shown of the server here.

### SettlementObserver and SettlementPromise

The paid RiskScan route in one web process with one configuration.

| code | action |
| --- | --- |
| `handleRiskScanPost`, `getCachedRiskScanProtectedHandler` | `Arrive`, `Unavailable`, `ForgetFailed` |
| `createX402ProtectedHandler` | `HandlerReady`, `HandlerFails` |
| `evaluateRiskScanQuick` | `Evaluate` |
| `observeProtectedResponse`, its timeout | `Observe`, `ObserveThrows`, `TimerFires` |
| the validated `settle` | `SettleAnswers` |
| `onAfterSettle` with the default recorder | `AfterSettle` |
| `onSettleFailure`, `onVerifiedPaymentCanceled` | `Refuse` |
| the x402 server and the facilitator | `Verified`, `VerifyRefused`, the choice in `SettleAnswers` |
| the process ends | `Restart` |

Each `await` separates two actions. A header stands for its digest and for the
transaction of its payment, an input for the bytes of its assessment, so equal
digests are equal inputs. A facilitator may verify and settle one header
several times, as the route's tests let it. An entry is the request that
registered it. The default recorder is synchronous, so discarding the entry
and recording are one action; a consumer that throws changes nothing more.
`issued`, `sinkFrom`, `genuine` and `missed` are history.

A facilitator result is a failure, a genuine success, or a malformed success.
The two later checks in `onAfterSettle` of network and transaction can then
not fail, and are not repeated.

`SettlementPromise` knows no handlers, observers or timeouts: a request comes
with a payment, is paid for, and has its answer released once. A release leaves
exactly one proof, which names the request's own input and transaction, unless
the registration of the request lapsed or another request came with the same
payment. No request has two proofs, no registration gives two, and the newest
proofs are shown until the process ends. `SettlementObserver` implements it
(`KeepsSettlement`): what a request came with, `settled` requests, those whose
registration expired or threw (`missed`), those released, `issued` with the
request it answers and the registration it was taken from, and the sink.

### CommandIngress and CommandPromise

A signed command on its way. `PageStep` is a dialog (sign, wait, ask again,
give up), `RelayPost` the web server that wraps the body, `HandlerStep` the
backend: claim the envelope, read the authority, admit; each is a transaction,
and a handler may end between any two. Bodies and envelopes may be lost,
delayed and duplicated. `serves` counts the handlers that ever went to work on an
envelope and `decisions` the decisions ever taken on a body; both are history, and no
guard reads them. Membership comes from `ProviderTools`: operators change
it between the read of the authority and the admission. FUNDING, ASSET and
ATTACH stand for the dispatch table.

`CommandPromise` is what the page may rely on: a command is recorded once, only
while its signer is entitled to it, and a dialog is told "accepted" or
"replayed" only when the record is of its own operation.

### SessionIngress

The dashboard's calls: an assertion of the session (`ForwardAssertion`, with the
drift of the web server's clock), the claim of its nonce (`ReceivePost`), and
the calls behind it, each in transactions of its own. It composes
`ProviderTools` (allocation) and `BackingIntents` (preparation) over one table
of accounts. A post goes on when the session has ended.

### DashboardCalls

Composes `SessionIngress` and `DeployWizard`, which share no row: a behaviour is
one of either (`site`).

### BackingFlow, StageBCreate and BrowserPages

`BackingFlow` has the tabs of one backer and one offering, local storage, and
the server as `ClaimRecord` describes it. Each `await` of
`backing-flow.tsx` ends an action, a call may be served late (`ServeLate`), and
MetaMask may be answered after the page that asked is gone (`ApproveOrphan`).
`StageBCreate` has the same for the creation of a note: `BeginRecovery`,
`PersistRecovery`, `ReconcileRecovery` and `ReleaseReservation` are the four
changes of the stored record, made under the lock. `BrowserPages` composes them:
they share neither keys nor locks, so a behaviour is one of either.

Local storage of a backer's browser may be full or denied (`failing`). Every write
and removal of `backing-flow.tsx` is then either made or not (`Stored`). An
attempt that could not be stored is used and forgotten (`Hold`). A hash that
could not be stored is `refused`: the page that got it goes on to record it and
shows it, and it is `lost` when that page is left first. `OneTransfer` holds in
spite of it, and `ShownIsRetained` says exactly when such a hash may be gone
(`HeldByPage`). The deploy page goes no further when a write fails, which is an
outcome of `BeginRecovery`, `Persist` and `SaveRecovery`.

### DeployWizard

Five pages, then four signed commands for the target shown, the legacy campaign
or a tool. `ShowTarget` and `ChangeWallet` start a new session of the page, and
`RenewWallet` is a new connection of the same account, after which the answer to
an open signature request is ignored; loads, rechecks and relays that were under
way answer later. What a server does is a step of the `DeploymentRecord` of the
target; it may also refuse, for any reason, or answer and be lost. So
`StagesInOrder` needs no exception for the legacy campaign: its candidate,
attached or attached once more, makes it ready in the same step.

### DashboardSession

Tabs that share one cookie. `SwitchWallet` is noticed by each tab in its own
time, `Begin` is a lock that is granted, `Proceed` an effect that runs or an
answer that arrives. A session is an account and a serial number, which stands
for its issue time. `LockFree` is the exclusive Web Lock: a browser without Web
Locks, where `dashboard-session-sync.tsx:11` runs everything at once, is not
modelled, and `LogoutEndsOwn` does not hold in it (`NoLocks`).

### SettlementLedger

The three writers, the selector of due attempts and the reader of a pending
settlement. `answer` is the last call with what it answered, so that a call made
again can be compared. References are taken with the spaces a caller wrote
(`Spellings`), since admission trims them.

### OneUseStates and RiskScanStates

Objects are numbered as they are issued. In `OneUseStates` a transition begins
and settles in two steps, since a paid task awaits a digest, and reading the
event of the other two may run a caller's code; an object is `transitioning` in
between and `consumed` afterwards. In `RiskScanStates` nothing is consumed, and
settlements and receipts are joined by identity.

### EntityChecks

Checks of one process that overlap in time. A check reads its clock once; the
registry and then the list are read, each with its own deadline; the cache is
shared. Records of companies and lists are what the sources may serve, with the
fields that are wrong named.

### AgentPayment

Runs of the agent against a service that may change its price at any time,
answer anything, and settle whether or not its answer arrives. `phase` is the
progress a run reports when it fails. Two runs may export to one path.

### RequirementsCanon

Objects are heaps of numbered containers, so that parts can be shared or hold
one another; strings are sequences of UTF-16 units. Capture, emission and limits
are recursive functions over them; the limits are constants. A digest stands for
the text it is of. Reference definitions say which requirements are the same
(`SameRequirements`), which objects are JSON data (`Wellformed`) and which are
within the limits on depth, nodes, keys, items and bytes (`WithinLimits`):
an object has a digest exactly when it is both.

### OfferingEconomics

The four functions of `offering-economics.ts`, called by a caller that adds what
they answer to its sums before it calls again.

### SeparateParts

`DashboardSession`, `SettlementLedger`, `OneUseStates`, `RiskScanStates`,
`EntityChecks`, `AgentPayment` and `OfferingEconomics` share no state with one
another nor with the record of backings. A behaviour is one of any of them;
each is explored from all of its initial states (the dashboard up to the names
of accounts), and none multiplies the states of another. `MCSeparateParts` adds
`RequirementsCanon` to them in the same way.

## Runs

| run | instance | shows |
| --- | --- | --- |
| `payments_race` | 2 attempts, 2 jobs, 2 hashes, transfers made by hand; or 2 historic claims in any state and one new attempt | all safety of the record, across both formats of claims, and the refinements of the promise and of the record the pages count on |
| `payments_reconcile` | 1 attempt while operators intervene and terms change, or 2 attempts on one offering; crashes | `Reconciled` under fairness |
| `hash_claims_one_attempt` | 2 attempts | a documented rule the code does not keep (a finding) |
| `offerings` | a tool and a legacy offering, 2 jobs, operators; or 2 legacy offerings, one historic, with repeats | evidence, exclusivity across both kinds, repairs, replays, one version in force, refinement of the listing promise |
| `offer_recovery` | a tool of a supervised self-service issuer, crashes | `Corroborated` under fairness |
| `one_spelling` | 2 legacy offerings, one id read two ways | one transaction under two offerings (a finding) |
| `settlement_observer` | 3 requests, 2 headers, 2 inputs, 2 handlers, a sink of 1, 1 restart | evidence, one entry per header, timeouts, the sink, that neither a dead handler nor a dead registration stays, and the refinement of the settlement promise |
| `command_ingress` | 4 commands of one signer, 2 nonces, 2 envelopes, 2 handlers, a lost membership | one handler ever for an envelope and one decision for a body, claims that match records, the promise to the page |
| `session_ingress` | 2 signers, 3 posts, clocks that drift, quotas of 1; or the deploy wizard | quotas, tools and accounts under posts that are lost, late and repeated; and, with a tool and the campaign, the draft that is signed and the order of its stages |
| `browser_pages` | 2 tabs of either page, 2 hashes, 2 attempts and a legacy one, 2 disturbances | one creation, one transfer, no hash replaced, and none lost unless storage refused it |
| `separate_parts` | each part of `SeparateParts`, or the quote of `RequirementsCanon` | the properties of the parts, among them that dashboards follow the wallet (liveness) |
| `late_result` | 2 accounts, a tool and the campaign | a stale result that is taken (a finding) |

`payments_race` and `offerings` hold two instances of one module, with variables
of their own for the second (`old...`): today's rows, and rows an earlier
release left. A behaviour is one of either (`era`). `session_ingress` holds the
calls of a dashboard and the deploy wizard in the same way (`site`), as they
share no row.

Two attempts, two hashes and two jobs are enough for the races: every property
relates at most two claims, and each claim can be at a different point of its
life with a job of its own. Three keys appear where a new attempt meets two
historic claims. The clock takes two values in `payments_race`, so an intent
may expire before its dispatch. `CHECK_DEADLOCK FALSE` is set because the
bounded clock, keys and operators run out; the program itself then waits for
requests. Symmetry is used in safety runs only, and only over values the
configuration treats alike.

Each property of the offering modules relates at most two offerings, two
attempts or two bindings, so two of each, and one job per attempt, show every
race. `MaxRepeats` caps how often one kind of replay or conflict is recorded,
and `FewRepeats` how many kinds meet in one behaviour: one is enough to see that
it is not counted as new. `Supervised` limits whose membership operators change,
and `Jobs` how many verifications are in flight. Two directory versions are
needed for one to replace the other.

Three requests are enough for the observer: one registers, one removes the
registration, one registers again before the first is settled. Requests are
numbered as they arrive and the first has a fixed header and input
(`FirstCall`), which loses nothing since headers and inputs are
interchangeable. A sink of one evicts at the second settlement; the order of
several settlements in a larger sink is a theorem (`SinkIsNewest`, for every
size), and not met in this run.

`OnePage` keeps a behaviour to one page, a backer's or an issuer's, whose
commands are built at time 0 and which loses one outcome; the two pages meet in
no command. `OneFamily` keeps it to one signer and to allocations or
preparations, since no row is shared between signers or between tools and
intents. `SecondRequest` lets the wizard open a second signature request when
nothing changed since the wallet connected; around a single request there may be
one more change. Two envelopes and two handlers give a duplicate that arrives
while its twin works, or after it died, and a body that travels twice. Three
posts give a third that runs while two are past every check. `Outcomes` is
`CONFIRMED` in `browser_pages`, since no page tells one resolved outcome, or one
unresolved one, from another; the theorems have all of them. Two tabs and two
disturbances (`MaxEvents`) give a reload under an open request together with a
moved wallet; no property of the pages relates more than two tabs. A storage
that fails counts as one disturbance, and does so where no earlier release
admitted a payment (`MCPagesInit`), which keeps the run within two and a half
million states; `ShownIsRetainedHolds` and `OneTransferHolds` have neither
bound.

In `separate_parts` the lifetimes and timeouts are one or two ticks, so that
each may pass within a behaviour and exactly at its end. The objects given to
`RequirementsCanon` have up to three containers, two keys and every kind of
value, and others that reach each limit and pass it. Two runs of the agent name
one file, so that their exports meet; two checks of an entity overlap in the
shared cache.

### Fairness

`FairPaySpec`: backers come back to their payment page infinitely often, which
re-verifies; a running verification action finishes; the RPC node answers now
and then. All are strong where a crash or a failed read may undo them: a page
reload starts a fresh verification. Nothing is assumed of wallets, miners or
operators. `Reconciled` names what the code lets hold a payment up (`HeldUp`):
another claim owns the hash, an older unresolved claim of the same backer is in
front of it, or the legacy scan gives up. Such an older claim may have lost its
hash for ever; then everything behind it waits, by the code's design, for the
backer to attach one.

`OfferFairness`: the owner keeps asking for a recheck (the deployment page does
on every load), a mirror that has the documents eventually returns them, and
not every job is dropped between its steps. All strong, since a crash or a
failed read disables what follows. Nothing is assumed of issuers, operators or
publications. `Corroborated` leaves out tools of the seeded issuer, whose row
an operator may disable for good, and candidates somebody else bound first
(`Outrun`).

`ObserverFairness` is weak and asks only that a process runs its timers and
the reaction to a rejected promise; nothing is assumed of the facilitator.

`DashFairness`: effects run and answers arrive (weak), and the browser grants a
lock that is asked for again and again (strong). Nobody has to answer MetaMask;
`DashboardFollowsWallet` excepts a tab that waits for it, and a dashboard that
keeps showing that its logout failed.

### Findings

**One hash, two attempts.** `docs/specs/m58-verified-backing-record.md:43` says
one hash claims exactly one attempt. `recordBackingPayment` compares a hash with
verified or historic CONFIRMED claims only, so two unconfirmed claims may carry
the same hash. What holds instead, and is checked, is that only one of them is
ever CONFIRMED (`HashExclusive`).

**One transaction, two spellings.** A candidate id may have one to nine
nanosecond digits (`docs/specs/m10-exact-value-boundary.md:49`). The receipt
binding pads short nanoseconds on the right
(`convex/provider_tool_receipts.ts:39`), while the browser's normaliser pads
on the left, which is what the digits mean. `0.0.7@1.5` and
`0.0.7-1-000000005` are one transaction with two canonical forms, and each can
back a legacy offering (with different announced assets), where the binding is
meant to reject cross-offering claims. Tools are not affected: their binding
also carries the EVM hash read from the ledger (`ReceiptExclusive`).

**A late result.** `deploy-stage-signing.tsx:239` accepts a result when the
wallet and the tool are those the open request was made for; it does not ask
which request the result answers. The dialog can be closed while the relay
waits, and another stage of the same tool opened; the first answer is then
booked under the second stage. `apps/web/tests/deploy-stage-signing.test.mjs:229`
asks that a stale result not update the selected tool. `DraftSignedInOrder`
holds up to that point, and speaks of pages no late result has reached.

## Proofs

Each module of proofs shows its theorems for every value of the constants that
satisfies the assumption TLC evaluates on the runs, and so for any number of
keys, signers, jobs, hashes, requests, tabs and rows left by earlier releases:

| module | assumption | theorem | states |
| --- | --- | --- | --- |
| `BackingIntentsProofs` | `IntentConstants` | `TypeCorrect`, `HourlyQuotaHolds`, `PendingQuotaHolds` | the intents module is type correct and keeps both quotas |
| `BackingPaymentsProofs` | `PaymentConstants` | `PayTypeCorrect`, `PayInvariant` | the inductive invariant of the payment record |
| | | `HashExclusiveHolds`, `ConfirmedOnEvidenceHolds`, `OneSendHolds`, `OneOpenDispatchHolds` | the safety properties the runs check |
| | | `ClaimsOnlyAdvanceHolds` | no step reopens, rewrites or deletes a claim |
| | | `KeepsPromiseHolds` | the payment record implements `BackingPromise` |
| | | `KeepsRecordHolds` | the backend implements the record that the pages are modelled against |
| `ProviderToolsProofs` | `ToolConstants` | `ToolInvariant`, `OneToolPerRequestHolds`, `ToolQuotaHolds` | a request makes one tool, and no signer exceeds the quota |
| | | `ToolsKeptHolds` | an allocated tool keeps its signer, identity and request |
| `IngressProofs` | `IngressConstants`, `ToolConstants` | `ChannelInvariant` | what bodies, envelopes, handlers and records hold was signed by a page |
| | | `HandledOnceHolds`, `ClaimsMatchRecordsHolds` | one handler ever for an envelope, one decision for a body; nonces and records belong to each other |
| | | `KeepsCommandPromiseHolds` | the path of a command implements `CommandPromise` |
| | `SessionConstants` | `SessionInvariant`, `QuotasHold`, `EnsureNeverRevivesHolds` | the calls of a session keep the quotas and revive nobody |
| | | `WizardInvariant`, `DraftSignedInOrderHolds` | the wizard signs its draft acknowledged and its stages in order |
| `OfferingLifecycleProofs` | `LifecycleConstants` | `OfferInvariant` | the inductive invariant of offerings, attempts, jobs, bindings and versions |
| | | `AttemptsLinkedHolds`, `CorroboratedAssetHolds`, `ReceiptExclusiveHolds`, `OneListingHolds`, `OneNewClaimHolds` | the safety properties the runs check |
| | | `WellRecordedHolds` | the rows, read as records of deployments, always belong together |
| | | `KeepsListingHolds` | offerings implement `ListingPromise`, and the record that the wizard is modelled against |
| `SettlementObserverProofs` | `ObserverConstants` | `ObserverInvariant`, `ObserverTypes` | the inductive invariant of the route, its types, the bound of the sink |
| | | `EvidenceIsFaithful`, `IssuedAtMostOnce`, `ReleasedIsPaid` | what a settlement is credited to |
| | | `EntryPerHeader`, `TimersAreOfEntries`, `SinkIsNewest`, `ConsistencyHolds` | registrations, timeouts and the sink |
| | | `UndisturbedRecordedHolds` | a settlement nobody interfered with is recorded once |
| | | `KeepsSettlementHolds` | the route implements `SettlementPromise` |
| `SeparatePartsProofs` | `PartsConstants` | `CompletedIsProvenHolds`, `UsedOnceHolds`, `SettledOnceHolds` | one-use states, the states of a scan, the ledger |
| | | `EntityAnsweredHolds`, `AgentAccountsHolds`, `LogoutEndsOwnHolds` | entity checks, the paying agent, the end of a session |
| | `EconomyAssumption` | `EconomyWithinTerms` | what is sold, raised, reserved and paid stays within the terms |
| `BrowserPagesProofs` | `PagesConstants` | `PagesInvariant` | the inductive invariants of the deploy page and of the backing page |
| | | `OneCreateHolds`, `OneTransferHolds` | at most one creation and one transfer is out without an answer |
| | | `ShownIsRetainedHolds`, `EvidenceKeptHolds` | what is shown of a hash is kept, or was refused by storage and is held by the page until it is left; it is never replaced |

The assumptions say that limits and times are numbers, that sets that are
counted are finite, that markers such as `None` and `NoHash` are no data, and
what the rows of earlier releases look like (historic claims have no scope and
carry a hash when they are closed). `LegacyRespected` and `HistoryRespected` of
the MC modules are properties of this table in a second instance, where the
constants describe a deployment with such rows; the theorems hold for those
constants as for any other, and TLC evaluates the theorems' assumptions for them
too (`LegacyDeployment`, `HistoricDeployment`).

*Quotas.* The hourly count of intents and the rate row are two states; the
invariant says they are equal, and preparation adds one to both. Pending
intents are at most those prepared while the guard held, and expiry only
removes.

*Payments.* `HashExclusive` and `OneOpenDispatch` protect themselves once the
types are known. The evidence of a CONFIRMED claim is not inductive: a job
forms its verdict several steps before it writes it. `PayInv` adds what
connects those steps. `HistoryKept`: historic rows stay outside today's
intents. `ClaimsOwned`: a claim belongs to an admitted attempt and repeats the
offering and amount that were frozen. `AttemptsBound`: a self-service attempt
is bound to the recipient of its intent. `JobsGrounded`: a job's hash is still
the hash of its claim, and a positive verdict is still true on the ledger,
because a claim never changes its hash once it has one and a mined receipt
never changes. `PermitsSpent`: a transaction sent for an attempt has used up
its permit. Each part is preserved by one case per kind of step. The refinement
maps claims to promises; only the dispatch and the recording of an outcome are
steps of the promise, where `JobsGrounded` supplies the evidence it asks for
and `HashExclusive` that the transaction is fresh. The refinement of
`ClaimRecord` has one lemma per handler. It needs to know where the scope of an
attempt can be read (`ScopesKnown`): in its intent, or, for a historic claim
that names no offering, in the release that wrote it. Then the sibling check of
a dispatch, which looks at claims, sees every attempt of the scope
(`NoSiblingInScope`). `ClaimsOnlyAdvance`, that no step reopens, rewrites or
deletes a claim, is proved but not run by itself: `KeepsRecord` asks for more.

*Tools.* `ToolInv` says that rows are well formed, that a request of a signer has
one row at most, and that no signer has more self-service rows than the quota,
counted over all its accounts. A new row is made only when its signer has none
for the request and fewer than the quota. `ToolsKept` is an action property of
its own: a row, once there, keeps its signer, identity and request. Suspending
or reviving an account changes no row.

*Commands.* What is signed, posted and recorded only grows, so each thing that
travels keeps the reason it had when it left: a body was signed by its page
(`WireSound`), a record sits under the key its command names and its nonce was
answered NEW for it (`RecordsSound`). `Counted` ties the histories to the claims
that the backend keeps: an envelope was ever served as often as it is claimed,
and a body decided upon as often as its nonce is spent. So a delivery that
arrives after its handler died finds the claim, and a second envelope of the
same body finds the nonce, whoever worked on the first. A handler reads again
what is recorded before it writes, and nothing runs in between, so it never
writes over what another handler recorded. Every action either leaves the
promise unchanged or is one of its steps.

*Session calls.* An allocation is one of `ProviderTools`, a preparation one of
`BackingIntents`, and every other step leaves what they count alone, so
`SessionInv` cites the lemmas of both. `ServedPosts` supplies the inputs: a
handler that goes on has a post, whose signer and call were signed. Another
handler may have run since the account was provisioned; the quota is counted
again in the transaction that prepares.

*Wizard.* A command is signed in order because what a page shows as done is
recorded on the server (`DoneRecorded`). Reads of an earlier session are
cancelled (`LoadsCurrent`), an ACCEPTED answer speaks of what the server recorded
and, unless it is late, of the target shown (`FlowsTruthful`), and the server
only goes forward. The dialog covers the page (`RequestShown`), so the
acknowledgement that led to the last page (`ReviewReached`) stays while a draft
is signed.

*Offerings.* Most actions are one of five moves on the rows (an offering and its
attempt created, an attempt moved on, a candidate attached or repaired, an
offering backed, a version published) and the proof goes once through the moves
and then shows which move an action is. `AllLinked` pairs attempts with
offerings in both directions. `ReceiptExclusive` needs a witness: every backed
offering owns a binding of its attempt, transaction, hash and asset, and no other
binding conflicts with it (`AllBound`). `CorroboratedAsset` needs the row of the
ledger a tool was backed by (`AllCorroborated`).
`OneListing` needs that a version in force is the one its offering points at
(`AllListed`).

The refinement of `ListingPromise` takes the same moves: each is shown to be one
step of one row of the record (`OneRow`) and to leave the rows of other
offerings alone, since an attempt is linked from one offering only (`OtherRow`).
Readiness of a tool needs the candidate to be attached before, of a legacy
offering that it is attached now or was left pending (`BackedListing`); that no
other offering uses the proof comes from the bindings. `WellRecordedHolds` needs
no step of its own: it is read off the invariant (`RecordFormed`).

*Settlement observer.* `ObserverInv` connects the process-wide handler with the
maps inside it. `OneObserver`: a handler that is being built or ready is the
cached one, so requests that run together share one map. `OwnEntries`: an entry
sits under the header of its request, in the handler that serves it, and its
request is past the only place where it can register; hence no two entries are
the same request, a timeout belongs to one entry, and removing an entry removes
exactly its timeout. `IssuedOnce`: what a settlement was issued from is
registered no more and never will be. The sink is shown equal to a suffix of
all settlements, element by element (`RecordingKeepsNewest`).
`UndisturbedRecorded` speaks of a past: `RegistrationStays` says that an entry
nobody disturbed is still there until its request is released, in the handler the
request runs in; a released one was issued a settlement (`ReleasedRecorded`), and
no request is issued two (`RecordedOnce`). The refinement goes through the
actions: what happens to handlers and timeouts is a stutter, and the release is
the step that matters. With an entry under its header it appends one proof
(`RecordingAppends`), which is new because a registration is removed when it is
used; without one, `RegistrationStays` gives the excuse the promise asks for.

*Separate parts.* A behaviour stays in the part it starts in (`OnePartMoves`), and
each part has an invariant of its own. `OneUseInv`: an object under transition is
not consumed and not a second time under transition. `ScanInv`: a state points to
the states it was made from. `LedgerInv`: whoever holds a transfer was admitted
with its request. `EntityInv`: a check's clock is not ahead, its deadlines are not
passed while it waits, and the cached list was assessable when stored. `AgentInv`:
one conjunct per point of a run, saying what was read and paid by then. `DashInv`:
who holds the lock is the only tab that changes the cookie, and its target is the
session it read under the lock.

*Pages.* Either the deploy page or the backing page runs; each has an invariant.
On the deploy page the reservation in local storage is a token. There are more
claim ids than tabs, so a fresh one exists for whoever reserves, and only one
tab acts on a reservation of its own (`OneReserves`). Who holds it and has not
sent has asked the wallet nothing; the request or the hash it makes is the only
one (`SentOnce`), and what a tab observes or offers for retry is in the record
(`HashesRetained`). On the backing page a permit can be spent only while its
attempt has no transfer, is past its dispatch and is in no other hands
(`WalletOK`), and every hash that a tab, a late call, the storage or the server
holds is the one the wallet gave (`Given`). So recording a hash never takes an
attempt back to where it could be sent again (`CommitGoesOn`, `OneUnresolved`).
A step that stores a hash keeps it or moves it to `refused`, shown by the page
that made it (`HeldOn`), and a page that lets go of a refused hash adds it to
`lost` (`HeldElsewhere`, `Retained`).

*Economics.* `WithinTerms` bounds payments by the target, which is not
inductive: payments are tied to the units sold (`raised` is `confirmed` times the
price), and units to the capacity whose price fits the target. A reserve share
is at most what is left of the cap.

Only model-checked: `Reconciled`, `Corroborated`, `DashboardFollowsWallet`,
`EntriesExpire` and `FailedStartForgotten`, the two conjuncts of `EntryLifecycle`
(liveness under fairness is out of the prover's reach, as are ENABLED and
induction over data); `DigestFaithful`,
since what `RequirementsCanon` computes is defined by RECURSIVE operators, which
is why `MCSeparateParts` instances that module and no module with a theorem
reaches it.

## Plan

Done: intents, the payment record and its promise; tools, offerings and
listings; the paid route; commands on their way to the record; the calls of a
session; the deploy wizard; the ledger, checks, agent, dashboard and core
computations; the pages that send and create; all of these with their proofs.
The promises (`BackingPromise`, `ListingPromise`, `CommandPromise`,
`SettlementPromise`) and the records that pages are modelled against
(`ClaimRecord`, `DeploymentRecord`) came after the components they are kept by.

## Not modelled

Cryptography (signatures, cookies, EIP-712, digests) is taken as a payload being
itself. The validation of the fields of a body, and of single rows, is a
precondition of the handlers, except in the modules that are about it
(`EntityChecks`, `AgentPayment`, `RequirementsCanon`, `SettlementLedger`). The
score of a scan is a pure function of one input with no state; its unit tests
are the right tool. Layout, copy, focus and the public projections change
nothing. Browsers without Web Locks are left out of `DashboardSession`, and so
is the expiry of a cookie: an expired session is one the server no longer finds.
The World verification route is one stateless call. Hedera, the mirror node, the
JSON-RPC node, wallets, the x402 libraries and operators are external, and
modelled by what the code may observe of them.
