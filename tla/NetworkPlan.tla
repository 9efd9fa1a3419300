----------------------------- MODULE NetworkPlan -----------------------------
(***************************************************************************)
(* The network planner (internal/networkplan/plan.go, Build): the networks *)
(* entered for a customer become prefixes, lose their overlaps and are     *)
(* packed into scan targets. One step is one round of one of its loops.    *)
(* Names, hashes and the texts of errors are left out.                     *)
(***************************************************************************)
EXTENDS Integers, Sequences, FiniteSets

CONSTANTS
    Space,        \* number of addresses (2^32 in the code)
    Sizes,        \* sizes of prefixes (the powers of two up to Space)
    Block,        \* size of a /24
    Private,      \* RFC1918 addresses
    Special,      \* addresses that are not scanned
    Limit,        \* maximum of addresses in a target (4095)
    MaxExpanded,  \* maxExpandedPrefixes (65536)
    MaxTargets,   \* maxTargetsPerPlan (1024)
    MaxInputs     \* bound: networks entered

ASSUME AddressAssumption ==
    /\ Space \in Nat \ {0}
    /\ Sizes \subseteq Nat \ {0}
    /\ \A a, b \in Sizes : a <= b => \E k \in 1 .. b : b = k * a
    /\ Block \in Sizes
    /\ Private \subseteq 0 .. Space - 1
    /\ Special \subseteq 0 .. Space - 1
    /\ Limit \in Nat /\ Block <= Limit
    /\ MaxExpanded \in Nat /\ MaxTargets \in Nat /\ MaxInputs \in Nat

Addresses == 0 .. Space - 1

\* Private and special space are made of whole blocks.
ASSUME ClassAssumption ==
    \A k \in Addresses : \A x, y \in k * Block .. k * Block + Block - 1 :
        /\ x \in Private <=> y \in Private
        /\ x \in Special <=> y \in Special

\* An input is a range of addresses; a CIDR and a single address are ranges too.
Networks == {r \in [first : Addresses, last : Addresses] : r.first <= r.last}

\* CIDRs begin at a multiple of their size.
Cidrs ==
    {p \in [start : Addresses, size : Sizes] :
        /\ \E k \in Addresses : p.start = k * p.size
        /\ p.start + p.size <= Space}

End(p) == p.start + p.size - 1
Covers(p) == p.start .. End(p)
Coverage(prefixes_) == UNION {Covers(p) : p \in prefixes_}

Classes == {"PrivateIP", "WAN"}
Target == [class : Classes, sequence : Nat, prefixes : SUBSET Cidrs, count : Nat]

VARIABLES
    inputs,    \* Input.Networks
    pc,        \* where Build is
    input,     \* the input that is expanded
    at,        \* its next address
    blocks,    \* what Expand returned: prefixes with the input they come from
    prefixes,  \* expanded and split
    expanded,  \* their number, repetitions included
    left,      \* prefixes the current loop has to visit, in order
    covered,   \* coveredThrough, -1: no coverage yet
    kept,      \* prefixes without overlaps
    class,     \* the class that is packed
    current,   \* prefixes of the target being filled
    held,      \* their addresses
    sequence,  \* its sequence number
    targets

expansion == <<input, at, blocks, prefixes, expanded>>
packing == <<class, current, held, sequence, targets>>
vars == <<inputs, pc, expansion, left, covered, kept, packing>>

Init ==
    /\ \E n \in 1 .. MaxInputs : inputs \in [1 .. n -> Networks]
    /\ pc = "expand"
    /\ input = 1 /\ at = inputs[1].first
    /\ blocks = {} /\ prefixes = {} /\ expanded = 0
    /\ left = {} /\ covered = -1 /\ kept = {}
    /\ class = "PrivateIP" /\ current = {} /\ held = 0 /\ sequence = 1 /\ targets = {}

-----------------------------------------------------------------------------
(* parseAndExpand *)

\* parseRange grows a block while it stays aligned and within the range.
IsLargest(p, first, last) ==
    /\ p.start = first /\ End(p) <= last
    /\ \A q \in Cidrs : q.start = first /\ End(q) <= last => q.size <= p.size

\* A prefix broader than a /24 is split into /24.
Split(p) ==
    IF p.size <= Block THEN {p}
    ELSE {q \in Cidrs : q.size = Block /\ Covers(q) \subseteq Covers(p)}

Expand ==
    /\ pc = "expand" /\ at <= inputs[input].last
    /\ \E p \in Cidrs :
           /\ IsLargest(p, at, inputs[input].last)
           /\ expanded + Cardinality(Split(p)) <= MaxExpanded
           /\ prefixes' = prefixes \union Split(p)
           /\ expanded' = expanded + Cardinality(Split(p))
           /\ blocks' = blocks \union {[input |-> input, prefix |-> p]}
           /\ at' = at + p.size
    /\ UNCHANGED <<inputs, pc, input, left, covered, kept, packing>>

ExpandTooMuch ==
    /\ pc = "expand" /\ at <= inputs[input].last
    /\ \E p \in Cidrs :
           /\ IsLargest(p, at, inputs[input].last)
           /\ expanded + Cardinality(Split(p)) > MaxExpanded
    /\ pc' = "rejected"
    /\ UNCHANGED <<inputs, expansion, left, covered, kept, packing>>

NextInput ==
    /\ pc = "expand" /\ at > inputs[input].last
    /\ input < Len(inputs)
    /\ input' = input + 1
    /\ at' = inputs[input + 1].first
    /\ UNCHANGED <<inputs, pc, blocks, prefixes, expanded, left, covered, kept, packing>>

Expanded ==
    /\ pc = "expand" /\ at > inputs[input].last
    /\ input = Len(inputs)
    /\ pc' = "overlaps"
    /\ left' = prefixes
    /\ UNCHANGED <<inputs, expansion, covered, kept, packing>>

-----------------------------------------------------------------------------
(* removeOverlaps *)

\* Mutant of IsFirst: narrow prefixes first.
IsFirstNarrow(p, set) ==
    /\ p \in set
    /\ \A q \in set : p.start < q.start \/ (p.start = q.start /\ p.size <= q.size)

\* The order of the sort: by address, broad prefixes first.
IsFirst(p, set) ==
    /\ p \in set
    /\ \A q \in set : p.start < q.start \/ (p.start = q.start /\ p.size >= q.size)

Keep(p) ==
    /\ pc = "overlaps" /\ IsFirst(p, left)
    /\ p.start > covered
    /\ kept' = kept \union {p}
    /\ covered' = End(p)
    /\ left' = left \ {p}
    /\ UNCHANGED <<inputs, pc, expansion, packing>>

Skip(p) ==
    /\ pc = "overlaps" /\ IsFirst(p, left)
    /\ p.start <= covered
    /\ left' = left \ {p}
    /\ UNCHANGED <<inputs, pc, expansion, covered, kept, packing>>

-----------------------------------------------------------------------------
(* classify *)

\* Only the first and the last address are looked at.
ClassOf(p) ==
    IF {p.start, End(p)} \subseteq Private THEN "PrivateIP"
    ELSE IF {p.start, End(p)} \cap Special # {} THEN "unknown"
    ELSE "WAN"

OfClass(c) == {p \in kept : ClassOf(p) = c}

Classify ==
    /\ pc = "overlaps" /\ left = {}
    /\ IF OfClass("unknown") # {}
       THEN pc' = "rejected" /\ UNCHANGED left
       ELSE pc' = "pack" /\ left' = OfClass("PrivateIP")
    /\ UNCHANGED <<inputs, expansion, covered, kept, packing>>

-----------------------------------------------------------------------------
(* pack *)

\* Mutant of Full: it is compared before the prefix is counted.
FullTooLate(p) == held > 0 /\ held > Limit

\* A target with prefixes is full when the next one would exceed the limit.
Full(p) == held > 0 /\ held + p.size > Limit

Flushed ==
    IF current = {} THEN targets
    ELSE targets \union
         {[class |-> class, sequence |-> sequence, prefixes |-> current, count |-> held]}

Add(p) ==
    /\ pc = "pack" /\ IsFirst(p, left) /\ ~Full(p)
    /\ current' = current \union {p}
    /\ held' = held + p.size
    /\ left' = left \ {p}
    /\ UNCHANGED <<inputs, pc, expansion, covered, kept, class, sequence, targets>>

Flush(p) ==
    /\ pc = "pack" /\ IsFirst(p, left) /\ Full(p)
    /\ targets' = Flushed
    /\ sequence' = sequence + 1
    /\ current' = {p}
    /\ held' = p.size
    /\ left' = left \ {p}
    /\ UNCHANGED <<inputs, pc, expansion, covered, kept, class>>

EndClass ==
    /\ pc = "pack" /\ left = {} /\ class = "PrivateIP"
    /\ targets' = Flushed
    /\ class' = "WAN" /\ left' = OfClass("WAN")
    /\ current' = {} /\ held' = 0 /\ sequence' = 1
    /\ UNCHANGED <<inputs, pc, expansion, covered, kept>>

EndPlan ==
    /\ pc = "pack" /\ left = {} /\ class = "WAN"
    /\ targets' = Flushed
    /\ current' = {} /\ held' = 0
    /\ pc' = IF Cardinality(Flushed) > MaxTargets THEN "rejected" ELSE "built"
    /\ UNCHANGED <<inputs, expansion, left, covered, kept, class, sequence>>

-----------------------------------------------------------------------------
Next ==
    \/ Expand
    \/ ExpandTooMuch
    \/ NextInput
    \/ Expanded
    \/ \E p \in left : Keep(p) \/ Skip(p) \/ Add(p) \/ Flush(p)
    \/ Classify
    \/ EndClass
    \/ EndPlan

Spec == Init /\ [][Next]_vars
=============================================================================
