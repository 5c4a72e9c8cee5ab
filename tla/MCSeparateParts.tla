-------------------------- MODULE MCSeparateParts --------------------------
(***************************************************************************)
(* Small instances of the separate parts, and of the requirements of a     *)
(* quote, which share no state with them either.                           *)
(***************************************************************************)
EXTENDS SeparateParts, TLC

CONSTANTS
    r, padded, blank, empty, plain, accented, other,
    MaxDepth, MaxValues, MaxProperties, MaxItems, MaxBytes  \* limits of requirements

\* References as callers write them; one of them is only spaces.
MCSpellings == {r, padded, blank}
MCTrimmed == r :> r @@ padded :> r @@ blank :> empty

\* Companies: two of one name but for the accents, one whose seat has an address
\* that is no text, one born on a day that does not exist.
MCNormal == plain :> plain @@ accented :> plain @@ other :> other
Day(y, m, d) == [year |-> y, month |-> m, day |-> d]
Company(siren, name, created, wrong) ==
    [siren |-> siren, name |-> name, created |-> created, wrong |-> wrong]
MCRecords ==
    {Company(1, accented, Day(2000, 2, 29), {}), Company(2, other, Day(2023, 4, 30), {}),
     Company(1, plain, Day(2023, 4, 30), {"siege"}), Company(2, other, Day(1900, 2, 29), {})}
Header(form, exact) == [form |-> form, date |-> Day(2024, 12, 31), exact |-> exact]
List(names, wrong, header) == [names |-> names, wrong |-> wrong, header |-> header]
MCLists ==
    {List({plain}, {}, Header("imf", TRUE)), List({other}, {"columns"}, Header("absent", FALSE))}

Terms(goal, unit, maximum, minimum) ==
    [fundingTarget |-> goal, unitPrice |-> unit, maximumUnits |-> maximum,
     minimumUnits |-> minimum, reserveBps |-> 2000, issuerBps |-> 8000, feeBps |-> 0,
     payoutCap |-> (goal * 3) \div 2]
MCTerms == {Terms(t, p, m, n) : t \in {4, 6, 7}, p \in {1, 2}, m \in {2, 4}, n \in {1, 2, 3}}

\* Objects of up to two keys, one of them escaped, one of a surrogate pair,
\* with scalars, shared parts, parts that hold the root or one another, holes
\* and accessors; and objects that reach each limit and pass it.
Scalar(kind, units) == [kind |-> kind, units |-> units]
Null == Scalar("null", <<>>)
Part(n) == [kind |-> "ref", node |-> n]
Container(kind, entries) == [kind |-> kind, entries |-> entries]
Entry(key, value) == [key |-> key, plain |-> TRUE, value |-> value]
Item(value) == Entry(<<>>, value)
Letter == <<97>>
Escaped == <<34, 1>>
Pair == <<55357, 56832>>
Halves == <<56832, 233>>
Values == {Null, Scalar("true", <<>>), Scalar("false", <<>>), Scalar("number", <<49>>),
           Scalar("string", <<49>>)}
Flat ==
    {Container("object", <<Entry(k, v)>>) : k \in {Letter, Escaped, Pair, Halves}, v \in Values}
    \cup {Container("object", <<Entry(p[1], v), Entry(p[2], w)>>) :
            p \in {<<Letter, Escaped>>, <<Escaped, Letter>>, <<Pair, Letter>>, <<Letter, Pair>>},
            v \in Values, w \in Values}
    \cup {Container("object", <<>>), Container("array", <<Item(Null)>>),
          Container("object", <<[Entry(Letter, Null) EXCEPT !.plain = FALSE]>>),
          Container("object", <<Entry(Letter, [kind |-> "unsafe"])>>)}
Shared ==
    {Container("array", <<Item(Null)>>), Container("object", <<Entry(Letter, Null)>>),
     Container("object", <<>>), Container("array", <<Item(Part(1))>>),
     Container("array", <<Item([kind |-> "hole"])>>),
     Container("array", <<Item(Null), Item(Part(2))>>), Container("exotic", <<>>)}
Root(value) == Container("object", <<Entry(Letter, value)>>)
Chain(value) == Container("array", <<Item(value)>>)
Nulls(n) == [i \in 1 .. n |-> Item(Null)]
Hole == Item([kind |-> "hole"])
Limits ==
    {<<Root(Part(2)), Chain(Part(3)), Chain(Null)>>,
     <<Root(Part(2)), Chain(Part(3)), Chain(Part(4)), Chain(Null)>>,
     <<Root(Part(2)), Container("array", Nulls(3))>>,
     <<Root(Part(2)), Container("array", <<Item(Null), Hole, Hole>>)>>,
     <<Root(Part(2)), Container("array", <<Hole, Hole, Item(Null)>>)>>,
     <<Container("object", <<Entry(Letter, Null), Entry(Escaped, Null), Entry(Pair, Null)>>)>>,
     <<Container("object", <<Entry(Letter, Part(2)), Entry(Escaped, Null)>>),
       Container("array", <<Item(Null), Item(Part(3))>>), Chain(Null)>>,
     <<Container("object", <<Entry(Letter, Part(2)), Entry(Escaped, Part(2))>>),
       Container("array", Nulls(2))>>}
MCInputs ==
    Limits
    \cup {<<o>> : o \in Flat}
    \cup {<<Container("object", <<Entry(Letter, Part(2))>>), p>> : p \in Shared}
    \cup {<<Container("object", <<Entry(Letter, Part(2)), Entry(Escaped, Part(2))>>), p>> : p \in Shared}
    \cup {<<Container("object", <<Entry(Escaped, Part(2)), Entry(Letter, Part(3))>>), p, p>> : p \in Shared}

VARIABLES quoting, quoted, digest, submitted, matches

Canon == INSTANCE RequirementsCanon WITH Inputs <- MCInputs
canonVars == <<quoted, digest, submitted, matches>>

\* A behaviour is of one of the parts, or of one quote.
AllInit ==
    /\ PartsInit /\ Canon!CanonInit
    /\ quoting \in BOOLEAN /\ (quoting => part = "one use")

AllNext ==
    /\ UNCHANGED quoting
    /\ \/ quoting /\ Canon!CanonNext /\ UNCHANGED partsVars
       \/ ~quoting /\ PartsNext /\ UNCHANGED canonVars

AllSpec == AllInit /\ [][AllNext]_<<quoting, partsVars, canonVars>> /\ PartsFairness

\* The digest tells requirements apart exactly as their definition does.
DigestFaithful == Canon!DigestFaithful
=============================================================================
