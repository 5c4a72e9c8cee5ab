--------------------------- MODULE RequirementsCanon ---------------------------
(***************************************************************************)
(* The requirements of a quote. The seller's object is captured, brought   *)
(* into one canonical text and digested; later the buyer's object, built   *)
(* elsewhere, is digested the same way and must match. An object may share *)
(* a part, contain itself, have its keys in any order, have holes or       *)
(* exceed the limits. A string is a sequence of UTF-16 code units.         *)
(***************************************************************************)
EXTENDS Integers, Sequences, SequencesExt

CONSTANTS
    Inputs,         \* the objects: containers by number, 1 the root
    MaxDepth,       \* MAX_CONTAINER_DEPTH
    MaxValues,      \* MAX_JSON_VALUES
    MaxProperties,  \* MAX_OBJECT_PROPERTIES
    MaxItems,       \* MAX_ARRAY_ITEMS
    MaxBytes,       \* MAX_CANONICAL_BYTES
    None

VARIABLES
    quoted,    \* the seller's object
    digest,    \* requirementsDigest of the quote
    submitted, \* the buyer's object
    matches    \* matchesQuotedRequirements

canonVars == <<quoted, digest, submitted, matches>>

(***************************************************************************)
(* Strings                                                                 *)
(***************************************************************************)

Short == {34, 92, 8, 12, 10, 13, 9}   \* quote, backslash, \b \f \n \r \t
High(unit) == unit \in 55296 .. 56319
Low(unit) == unit \in 56320 .. 57343
PairAt(s, i) == High(s[i]) /\ i < Len(s) /\ Low(s[i + 1])
SecondOfPair(s, i) == i > 1 /\ PairAt(s, i - 1)

\* Mutant of CountedBytes: both halves of a pair are counted as escapes.
CountedUnits(s, i) == IF s[i] \in Short THEN 2 ELSE IF s[i] < 32 \/ High(s[i]) \/ Low(s[i]) THEN 6
    ELSE IF s[i] <= 127 THEN 1 ELSE IF s[i] <= 2047 THEN 2 ELSE 3
\* What preflightCanonicalKey counts for the unit at i.
CountedBytes(s, i) ==
    IF s[i] \in Short THEN 2
    ELSE IF s[i] < 32 THEN 6
    ELSE IF PairAt(s, i) THEN 4
    ELSE IF SecondOfPair(s, i) THEN 0
    ELSE IF High(s[i]) \/ Low(s[i]) THEN 6
    ELSE IF s[i] <= 127 THEN 1 ELSE IF s[i] <= 2047 THEN 2 ELSE 3

Total(counts) == FoldLeft(LAMBDA a, b : a + b, 0, counts)
PreflightCanonicalKey(s) == 2 + Total([i \in DOMAIN s |-> CountedBytes(s, i)])

\* The canonical text is a sequence of tokens, each with its bytes in UTF-8.
Token(form, units, bytes) == [form |-> form, units |-> units, bytes |-> bytes]
Mark(text) == <<Token(text, <<>>, 1)>>
EmitUnicodeEscape(unit) == Token("hex", <<unit>>, 6)

EmitUnit(s, i) ==
    IF s[i] \in Short THEN <<Token("short", <<s[i]>>, 2)>>
    ELSE IF s[i] < 32 THEN <<EmitUnicodeEscape(s[i])>>
    ELSE IF PairAt(s, i) THEN <<Token("raw", <<s[i], s[i + 1]>>, 4)>>
    ELSE IF SecondOfPair(s, i) THEN <<>>
    ELSE IF High(s[i]) \/ Low(s[i]) THEN <<EmitUnicodeEscape(s[i])>>
    ELSE <<Token("raw", <<s[i]>>, IF s[i] <= 127 THEN 1 ELSE IF s[i] <= 2047 THEN 2 ELSE 3)>>

EmitJsonString(s) == Mark("quote") \o FlattenSeq([i \in DOMAIN s |-> EmitUnit(s, i)]) \o Mark("quote")

Bytes(tokens) == Total([i \in DOMAIN tokens |-> tokens[i].bytes])

\* Code units are compared in turn, a shorter string before its extensions.
Before(s, t) ==
    LET differs == {i \in 1 .. Len(s) : i > Len(t) \/ s[i] /= t[i]}
    IN  IF differs = {} THEN Len(s) < Len(t)
        ELSE LET i == CHOOSE i \in differs : \A j \in differs : i <= j
             IN  i <= Len(t) /\ s[i] < t[i]

\* Mutant of Ordered: the properties stay in the order they were defined.
AsDefined(properties) == properties
Ordered(properties) == SortSeq(properties, LAMBDA a, b : Before(a.key, b.key))

(***************************************************************************)
(* Capturing: the first thing wrong ends it.                               *)
(***************************************************************************)

Failed(error, count) == [error |-> error, count |-> count, value |-> None]
Captured(value, count) == [error |-> "none", count |-> count, value |-> value]

Sum(entries) == Total([i \in DOMAIN entries |-> PreflightCanonicalKey(entries[i].key)])

RECURSIVE SnapshotValue(_, _, _, _, _)

\* Each entry adds its value; "plain" is an enumerable data property.
SnapshotEntries(heap, entries, depth, count, active) ==
    FoldLeft(LAMBDA acc, e :
                IF acc.error /= "none" THEN acc
                ELSE IF ~e.plain THEN Failed("malformed", acc.count)
                ELSE LET s == SnapshotValue(heap, e.value, depth + 1, acc.count, active)
                     IN  IF s.error /= "none" THEN s
                         ELSE Captured(Append(acc.value, [key |-> e.key, value |-> s.value]), s.count),
             Captured(<<>>, count), entries)

SnapshotObject(heap, node, depth, count, active) ==
    LET entries == heap[node].entries
        s == SnapshotEntries(heap, entries, depth, count, active \cup {node})
    IN  IF Len(entries) > MaxProperties \/ Sum(entries) > MaxBytes THEN Failed("limit", count)
        ELSE IF s.error /= "none" THEN s
        ELSE IF depth = 1 /\ entries = <<>> THEN Failed("malformed", s.count)
        ELSE Captured([kind |-> "object", properties |-> Ordered(s.value)], s.count)

\* An item whose place lies beyond the limit is no item. A hole is found once
\* the items that are there have been captured.
SnapshotArray(heap, node, depth, count, active) ==
    LET entries == heap[node].entries
        items == SelectSeq(entries, LAMBDA e : e.value.kind /= "hole")
        s == SnapshotEntries(heap, items, depth, count, active \cup {node})
    IN  IF Len(items) > MaxItems THEN Failed("limit", count)
        ELSE IF \E i \in DOMAIN entries : i > MaxItems /\ entries[i].value.kind /= "hole"
        THEN Failed("malformed", count)
        ELSE IF s.error /= "none" THEN s
        ELSE IF Len(entries) > MaxItems THEN Failed("limit", s.count)
        ELSE IF items /= entries THEN Failed("malformed", s.count)
        ELSE Captured([kind |-> "array", properties |-> s.value], s.count)

\* The root, at depth 1, must be an object.
SnapshotValue(heap, v, depth, count, active) ==
    IF count + 1 > MaxValues THEN Failed("limit", count + 1)
    ELSE IF v.kind = "unsafe" THEN Failed("malformed", count + 1)
    ELSE IF v.kind /= "ref" THEN IF depth = 1 THEN Failed("malformed", count + 1) ELSE Captured(v, count + 1)
    ELSE IF heap[v.node].kind = "exotic" \/ (depth = 1 /\ heap[v.node].kind = "array") THEN Failed("malformed", count + 1)
    ELSE IF depth > MaxDepth THEN Failed("limit", count + 1)
    ELSE IF v.node \in active THEN Failed("malformed", count + 1)
    ELSE IF heap[v.node].kind = "object" THEN SnapshotObject(heap, v.node, depth, count + 1, active)
    ELSE SnapshotArray(heap, v.node, depth, count + 1, active)

(***************************************************************************)
(* Emitting                                                                *)
(***************************************************************************)

RECURSIVE EmitCapturedValue(_)

EmitProperty(kind, p) == (IF kind = "object" THEN EmitJsonString(p.key) \o Mark(":") ELSE <<>>) \o EmitCapturedValue(p.value)

EmitCaptured(v) ==
    LET parts == [i \in DOMAIN v.properties |->
                    (IF i > 1 THEN Mark(",") ELSE <<>>) \o EmitProperty(v.kind, v.properties[i])]
    IN  Mark(v.kind) \o FlattenSeq(parts) \o Mark("end")

EmitCapturedValue(v) ==
    CASE v.kind = "string" -> EmitJsonString(v.units)
      [] v.kind \in {"object", "array"} -> EmitCaptured(v)
      [] v.kind = "number" -> <<Token("raw", v.units, Len(v.units))>>
      [] v.kind \in {"null", "true"} -> <<Token(v.kind, <<>>, 4)>>
      [] v.kind = "false" -> <<Token("false", <<>>, 5)>>

Canonicalize(heap) ==
    LET s == SnapshotValue(heap, [kind |-> "ref", node |-> 1], 1, 0, {})
        text == EmitCapturedValue(s.value)
    IN  IF s.error /= "none" THEN [error |-> s.error, text |-> <<>>]
        ELSE IF Bytes(text) > MaxBytes THEN [error |-> "limit", text |-> <<>>]
        ELSE [error |-> "none", text |-> text]

(***************************************************************************)
(* The quote and the buyer                                                 *)
(***************************************************************************)

\* SHA-256 is taken to tell texts apart, so the text stands for its digest.
RequirementsDigest(heap) == Canonicalize(heap)

CanonInit == quoted = None /\ digest = None /\ submitted = None /\ matches = None

CreateQuote ==
    /\ quoted = None
    /\ \E input \in Inputs :
        /\ quoted' = input
        /\ digest' = RequirementsDigest(input)
    /\ UNCHANGED <<submitted, matches>>

MatchesQuotedRequirements ==
    /\ quoted /= None /\ digest.error = "none" /\ submitted = None
    /\ \E input \in Inputs :
        /\ submitted' = input
        /\ matches' = (RequirementsDigest(input) = digest)
    /\ UNCHANGED <<quoted, digest>>

CanonNext == CreateQuote \/ MatchesQuotedRequirements

CanonSpec == CanonInit /\ [][CanonNext]_canonVars

(***************************************************************************)
(* Reference definitions and properties                                    *)
(***************************************************************************)

\* The containers reached from the root, and whether one of them reaches itself.
Parts(heap, n) == {heap[n].entries[i].value.node : i \in {j \in DOMAIN heap[n].entries : heap[n].entries[j].value.kind = "ref"}}
RECURSIVE Below(_, _, _)
Below(heap, from, steps) ==
    IF steps = 0 THEN from ELSE Below(heap, from \cup UNION {Parts(heap, n) : n \in from}, steps - 1)
Reached(heap) == Below(heap, {1}, Len(heap))
Cyclic(heap) == \E n \in Reached(heap) : n \in Below(heap, Parts(heap, n), Len(heap))

\* What JSON an object means: its keys have values, in no order; its items have places.
RECURSIVE Meaning(_, _)
Meaning(heap, v) ==
    IF v.kind /= "ref" THEN [kind |-> v.kind, units |-> v.units, members |-> {}]
    ELSE LET c == heap[v.node]
             name(i) == IF c.kind = "array" THEN <<i>> ELSE c.entries[i].key
         IN  [kind |-> c.kind, units |-> <<>>,
              members |-> {<<name(i), Meaning(heap, c.entries[i].value)>> : i \in DOMAIN c.entries}]
JSON(heap) == Meaning(heap, [kind |-> "ref", node |-> 1])

Wellformed(heap) ==
    /\ heap[1].kind = "object" /\ heap[1].entries /= <<>>
    /\ ~Cyclic(heap)
    /\ \A n \in Reached(heap) :
        /\ heap[n].kind /= "exotic"
        /\ \A i \in DOMAIN heap[n].entries :
            heap[n].entries[i].plain /\ heap[n].entries[i].value.kind \notin {"hole", "unsafe"}

\* How much an object is: values and bytes with shared parts repeated, depth.
RECURSIVE Measure(_, _)
Measure(heap, v) ==
    IF v.kind /= "ref" THEN [values |-> 1, depth |-> 0, bytes |-> Bytes(EmitCapturedValue(v))]
    ELSE LET c == heap[v.node]
             add(acc, e) ==
                LET m == Measure(heap, e.value)
                IN  [values |-> acc.values + m.values,
                     depth |-> IF m.depth + 1 > acc.depth THEN m.depth + 1 ELSE acc.depth,
                     bytes |-> acc.bytes + m.bytes +
                        (IF c.kind = "object" THEN Bytes(EmitJsonString(e.key)) + 1 ELSE 0)]
             commas == IF c.entries = <<>> THEN 0 ELSE Len(c.entries) - 1
         IN  FoldLeft(add, [values |-> 1, depth |-> 1, bytes |-> 2 + commas], c.entries)

WithinLimits(heap) ==
    LET m == Measure(heap, [kind |-> "ref", node |-> 1])
    IN  /\ m.values <= MaxValues /\ m.depth <= MaxDepth /\ m.bytes <= MaxBytes
        /\ \A n \in Reached(heap) :
            Len(heap[n].entries) <= IF heap[n].kind = "object" THEN MaxProperties ELSE MaxItems

\* A buyer's object matches the quote exactly when it means the same JSON,
\* however its keys are ordered and whether its parts are shared or repeated.
MatchesSameRequirements ==
    submitted /= None =>
        (matches <=> Wellformed(submitted) /\ Canonicalize(submitted).error = "none" /\ JSON(submitted) = JSON(quoted))

\* An object is accepted exactly when it is JSON within the limits, and only one
\* that is not JSON is refused as malformed; the bytes counted for the keys
\* beforehand are those the emitter then writes.
CaptureFaithful ==
    quoted /= None =>
        /\ digest.error = "none" <=> Wellformed(quoted) /\ WithinLimits(quoted)
        /\ digest.error = "malformed" => ~Wellformed(quoted)
        /\ \A n \in DOMAIN quoted : \A i \in DOMAIN quoted[n].entries :
            quoted[n].kind = "object" =>
                PreflightCanonicalKey(quoted[n].entries[i].key) = Bytes(EmitJsonString(quoted[n].entries[i].key))

\* The digest tells requirements apart exactly as their definition does.
DigestFaithful == MatchesSameRequirements /\ CaptureFaithful
=============================================================================
