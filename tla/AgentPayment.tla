---------------------------- MODULE AgentPayment ----------------------------
(***************************************************************************)
(* The paying agent: command line runs that read the directory of a        *)
(* service, ask for a RiskScan, sign the payment the challenge names and   *)
(* repeat the request with it. A run may also only probe the service, with *)
(* --preflight or as runRiskScanQuickFlow. The service changes its price   *)
(* when it likes, answers anything, and settles a signed payment whether   *)
(* or not its answer arrives. A paid run keeps its evidence in a file that *)
(* another run may be about to write.                                      *)
(***************************************************************************)
EXTENDS Integers

CONSTANTS
    Runs,      \* processes
    Paths,     \* evidence files; runs may name the same one
    Amounts,   \* prices, natural numbers
    Maximum,   \* the maximum amount of the caller's policy
    None

VARIABLES
    price,    \* what the directory advertises
    run,      \* for each run: mode, step, path, quote, amount signed and sent, phase, diagnostic, exported
    charged,  \* payments settled: run and amount
    files     \* evidence on disk: the run that wrote it

agentVars == <<price, run, charged, files>>

Modes == {"pay", "preflight", "flow"}
Steps == {"start", "directory", "initial", "sign", "retry", "settle", "body", "end"}
Fresh == [mode |-> "pay", step |-> "start", path |-> None, quote |-> 0, signed |-> 0, sent |-> FALSE,
          phase |-> "initial_request", diagnostic |-> None, exported |-> FALSE]

AgentInit ==
    /\ price \in Amounts
    /\ run = [p \in Runs |-> Fresh]
    /\ charged = {}
    /\ files = [f \in Paths |-> None]

Environment == <<price, charged>>
At(p, step) == run[p].step = step

(***************************************************************************)
(* What the run tells its caller. A run of the library prints nothing.     *)
(***************************************************************************)
Diagnostic(phase) ==
    CASE phase = "configuration" -> "CONFIGURATION_INVALID"
      [] phase = "directory" -> "DIRECTORY_FAILED"
      [] phase = "quote" -> "QUOTE_DECLINED"
      [] phase = "initial_request" -> "INITIAL_REQUEST_OR_CHALLENGE_FAILED"
      [] phase = "payment_payload" -> "PAYMENT_PAYLOAD_OR_SIGNING_FAILED"
      [] phase = "signed_retry" -> "SIGNED_RETRY_FAILED"
      [] phase \in {"settlement", "result"} -> "SETTLEMENT_OR_RESULT_FAILED"
      [] phase = "terminal" -> "TERMINAL_UNEXPECTED_FAILURE"
      [] phase = "preflight_guard" -> "PREFLIGHT_GUARD_REACHED"
      [] phase = "paid" -> "PAID"

End(p, phase) ==
    run' = [run EXCEPT ![p].step = "end", ![p].phase = phase, ![p].diagnostic = Diagnostic(phase)]

\* Any other outcome is reported by the phase the run had reached.
Fail(p) == End(p, run[p].phase)

Go(p, step, phase) == run' = [run EXCEPT ![p].step = step, ![p].phase = phase]

(***************************************************************************)
(* Configuration and directory                                             *)
(***************************************************************************)

\* readRuntimeConfiguration: what the environment may hold.
Environments == [service : BOOLEAN, payer : BOOLEAN]
Configured(mode, env) == env.service /\ (mode = "pay" => env.payer)

\* evidenceExport: the destination must not exist when the run starts.
Destination(path) == path = None \/ files[path] = None

Main(p) ==
    /\ At(p, "start")
    /\ \E mode \in Modes, path \in Paths \cup {None}, env \in Environments :
        LET named == [run EXCEPT ![p].mode = mode, ![p].path = path]
        IN  IF Destination(path) /\ Configured(mode, env)
            THEN run' = [named EXCEPT ![p].step = "directory"]
            ELSE run' = [named EXCEPT ![p].step = "end", ![p].diagnostic = Diagnostic("configuration")]
    /\ UNCHANGED <<Environment, files>>

\* validDirectory: the tool of the service and how it is paid, or no directory.
Documents == [payment : {"malformed", "configuration_required", "evm", "hedera"}, amount : {price}]
ValidDirectory(document) == document.payment /= "malformed"

\* evaluateRiskScanNativeQuote: a policy that cannot be parsed accepts nothing.
Policies == {Maximum, None}
Eligible(policy, amount) == policy /= None /\ amount > 0 /\ amount <= policy

Quoted(p, amount) == run' = [run EXCEPT ![p].step = "initial", ![p].quote = amount]

\* snapshotQuickInput: exactly the fields, each trimmed text within its length.
Inputs == [fields : {"exact", "other"}, blank : BOOLEAN]
SnapshotQuickInput(input) == input.fields = "exact" /\ ~input.blank

\* The caller's input is checked before the directory is asked, by the flow after it.
Discover(p) ==
    /\ At(p, "directory")
    /\ \/ \E input \in Inputs : ~SnapshotQuickInput(input) /\ End(p, "configuration")
       \/ End(p, "directory")
       \/ \E document \in Documents, policy \in Policies :
            CASE ~ValidDirectory(document) -> End(p, "directory")
              [] run[p].mode = "flow" -> Quoted(p, document.amount)
              [] document.payment /= "hedera" -> End(p, "directory")
              [] Eligible(policy, document.amount) -> Quoted(p, document.amount)
              [] OTHER -> End(p, "quote")
    /\ UNCHANGED <<Environment, files>>

(***************************************************************************)
(* The two requests                                                        *)
(***************************************************************************)

\* Mutant of RequestPhase: the first request is not told from the second.
AlwaysInitial(first) == "initial_request"
RequestPhase(first) == IF first THEN "initial_request" ELSE "signed_retry"

\* "exact": version 2, one requirement, its scheme, network and asset those of the quote.
Challenges == [terms : {"exact", "other"}, amount : Amounts]

\* Mutant of MatchingChallenge: any amount the service asks is accepted.
MatchingNetwork(challenge, quote) == challenge.terms = "exact"
MatchingChallenge(challenge, quote) == challenge.terms = "exact" /\ challenge.amount = quote
MatchesPreflight(challenge, quote) == challenge.terms = "exact" /\ challenge.amount = quote

\* requestRiskScanQuickChallenge: whatever the service answers, the flow ends.
InitialFlow(p) ==
    /\ At(p, "initial") /\ run[p].mode = "flow"
    /\ End(p, "initial_request")
    /\ UNCHANGED <<Environment, files>>

\* Lost, not answered with 402, or with a challenge that is not the quote's.
InitialPreflight(p) ==
    /\ At(p, "initial") /\ run[p].mode = "preflight"
    /\ \/ End(p, "initial_request")
       \/ \E challenge \in Challenges :
            /\ MatchesPreflight(challenge, run[p].quote)
            /\ End(p, "preflight_guard")
    /\ UNCHANGED <<Environment, files>>

\* The unsigned request is refused, unavailable or lost, the client cannot be
\* built, or the answer holds a challenge, which is compared with the quote.
InitialPay(p) ==
    /\ At(p, "initial") /\ run[p].mode = "pay"
    /\ \/ End(p, RequestPhase(TRUE))
       \/ End(p, "terminal")
       \/ \E challenge \in Challenges :
            IF MatchingChallenge(challenge, run[p].quote)
            THEN run' = [run EXCEPT ![p].step = "sign", ![p].signed = challenge.amount, ![p].phase = "payment_payload"]
            ELSE End(p, "initial_request")
    /\ UNCHANGED <<Environment, files>>

\* createPaymentPayload and encodePaymentSignatureHeader; the headers they give
\* are copied, and must be plain strings.
SignatureHeaders == BOOLEAN
Sign(p) ==
    /\ At(p, "sign")
    /\ \E valid \in SignatureHeaders :
        IF valid THEN run' = [run EXCEPT ![p].step = "retry", ![p].sent = TRUE, ![p].phase = RequestPhase(FALSE)]
        ELSE Fail(p)
    /\ UNCHANGED <<Environment, files>>

Signed(p) == [run |-> p, amount |-> run[p].signed]

\* The facilitator settles the payment of a signed request, even of one whose
\* caller has already given up.
SettlePayment(p) ==
    /\ run[p].sent
    /\ Signed(p) \notin charged
    /\ charged' = charged \cup {Signed(p)}
    /\ UNCHANGED <<price, run, files>>

\* 200 means settled; every other answer, and none, ends the run.
AnswerSigned(p) ==
    /\ At(p, "retry")
    /\ \/ Fail(p)
       \/ Signed(p) \in charged /\ Go(p, "settle", "settlement")
    /\ UNCHANGED <<Environment, files>>

Settlements == [success : BOOLEAN, network : {"hedera:testnet", "other"}, transaction : BOOLEAN]
SuccessfulSettlement(s) == s.success /\ s.network = "hedera:testnet" /\ s.transaction

\* The settlement header must report success on the network of the quote.
ReadSettlement(p) ==
    /\ At(p, "settle")
    /\ \E s \in Settlements : IF SuccessfulSettlement(s) THEN Go(p, "body", "result") ELSE Fail(p)
    /\ UNCHANGED <<Environment, files>>

\* The answer must be the assessment the client computes itself.
Assessments == {"expected", "other", "unreadable"}
MatchesAssessment(assessment) == assessment = "expected"

\* createRiskScanPaymentEvidence refuses a settlement, asset or recipient that
\* is not a Hedera identifier.
Evidence == {"complete", "refused"}

\* Mutant of MayWrite: an existing file is replaced.
AnyFile(path) == path /= None
MayWrite(path) == path /= None /\ files[path] = None

\* Evidence is written after the payment; that it cannot be is only printed.
ReadAssessment(p) ==
    /\ At(p, "body")
    /\ \E assessment \in Assessments, evidence \in Evidence :
        LET exported == MayWrite(run[p].path) /\ evidence = "complete"
        IN  IF MatchesAssessment(assessment)
            THEN /\ files' = IF exported THEN [files EXCEPT ![run[p].path] = p] ELSE files
                 /\ run' = [run EXCEPT ![p].step = "end", ![p].phase = "paid",
                                       ![p].diagnostic = Diagnostic("paid"), ![p].exported = exported]
            ELSE Fail(p) /\ UNCHANGED files
    /\ UNCHANGED Environment

ChangePrice ==
    /\ price' \in Amounts
    /\ UNCHANGED <<run, charged, files>>

AgentNext ==
    \/ ChangePrice
    \/ \E p \in Runs :
        \/ Main(p)
        \/ Discover(p)
        \/ InitialFlow(p)
        \/ InitialPreflight(p)
        \/ InitialPay(p)
        \/ Sign(p)
        \/ SettlePayment(p)
        \/ AnswerSigned(p)
        \/ ReadSettlement(p)
        \/ ReadAssessment(p)

AgentSpec == AgentInit /\ [][AgentNext]_agentVars

(***************************************************************************)
(* Properties                                                              *)
(***************************************************************************)

AgentTypeOK ==
    /\ price \in Amounts
    /\ \A p \in Runs : run[p].mode \in Modes /\ run[p].step \in Steps /\ run[p].path \in Paths \cup {None}
    /\ charged \subseteq [run : Runs, amount : Amounts]
    /\ files \in [Paths -> Runs \cup {None}]

Early == {"CONFIGURATION_INVALID", "DIRECTORY_FAILED", "QUOTE_DECLINED",
          "INITIAL_REQUEST_OR_CHALLENGE_FAILED", "PAYMENT_PAYLOAD_OR_SIGNING_FAILED",
          "TERMINAL_UNEXPECTED_FAILURE", "PREFLIGHT_GUARD_REACHED"}

\* A caller whose run failed before the signed request may try again: that run
\* is never charged, now or later. Only the later diagnostics leave it open.
EarlyFailureIsFree ==
    \A p \in Runs : run[p].diagnostic \in Early => \A c \in charged : c.run /= p

\* A run pays what the directory advertised when it looked, which its policy
\* accepted, although the price may have changed before the challenge.
ChargedAsQuoted ==
    \A c \in charged : c.amount = run[c.run].quote /\ c.amount <= Maximum

\* Evidence a run has exported stays on disk and is of a payment that was
\* made, although another run found the same path free before it.
ExportedIsKept ==
    \A p \in Runs : run[p].exported => files[run[p].path] = p /\ Signed(p) \in charged
=============================================================================
