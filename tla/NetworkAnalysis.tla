--------------------------- MODULE NetworkAnalysis ---------------------------
(***************************************************************************)
(* What is made of a plan: the warnings of the review page (Analyze) and   *)
(* the host ranges sent to the scanner (gmpHostSpecifications,             *)
(* internal/reconcile/reconciler.go).                                      *)
(***************************************************************************)
EXTENDS NetworkPlan

Before(p, q) == p.start < q.start \/ (p.start = q.start /\ p.size > q.size)

\* Blocks that an earlier input has as well.
Repeats(b, c) == b.prefix = c.prefix /\ c.input < b.input
Originals == {b \in blocks : \A c \in blocks : ~Repeats(b, c)}
Duplicates ==
    {[input |-> pair[1].input, related |-> pair[2].input] :
        pair \in {pair \in blocks \X Originals : Repeats(pair[1], pair[2])}}

\* covered, when the loop over the sorted intervals comes to b: of those that
\* came earlier, the first that reaches farthest.
Earlier(b) == {c \in Originals : Before(c.prefix, b.prefix)}
IsFarthest(c, set) ==
    /\ c \in set
    /\ \A d \in set : End(d.prefix) <= End(c.prefix)
    /\ \A d \in set : End(d.prefix) = End(c.prefix) => ~Before(d.prefix, c.prefix)

\* Mutant of Overlapped: the last covered address does not count.
OverlappedBeforeEnd(b, c) ==
    /\ IsFarthest(c, Earlier(b))
    /\ b.prefix.start < End(c.prefix)

Overlapped(b, c) ==
    /\ IsFarthest(c, Earlier(b))
    /\ b.prefix.start <= End(c.prefix)

Overlaps ==
    {[input |-> pair[1].input, related |-> pair[2].input] :
        pair \in {pair \in Originals \X Originals : Overlapped(pair[1], pair[2])}}

Diagnostics == Duplicates \union Overlaps

\* Mutant of Merged: a range that is touched keeps its end.
MergedWithoutEnd(ranges, p) ==
    LET range == [first |-> p.start, last |-> End(p)]
        n == Len(ranges)
    IN IF n > 0 /\ range.first <= ranges[n].last + 1 THEN ranges ELSE Append(ranges, range)

\* One round of gmpHostSpecifications: ranges that touch become one.
Merged(ranges, p) ==
    LET range == [first |-> p.start, last |-> End(p)]
        n == Len(ranges)
    IN CASE n = 0 -> <<range>>
         [] n > 0 /\ range.first > ranges[n].last + 1 -> Append(ranges, range)
         [] n > 0 /\ range.first <= ranges[n].last + 1 ->
                [ranges EXCEPT ![n].last = IF range.last > @ THEN range.last ELSE @]

\* The loop over the sorted prefixes, address by address; of those that begin at
\* one address, the narrower ones follow and change nothing.
HostRanges(set) ==
    LET From(a) == {p \in set : p.start = a}
        upTo[a \in 0 .. Space] ==
            IF a = 0 THEN <<>>
            ELSE IF From(a - 1) = {} THEN upTo[a - 1]
            ELSE Merged(upTo[a - 1], CHOOSE p \in From(a - 1) : IsFirst(p, From(a - 1)))
    IN upTo[Space]

-----------------------------------------------------------------------------
(* What a plan must be *)

Entered == UNION {inputs[i].first .. inputs[i].last : i \in DOMAIN inputs}

\* A plan scans exactly the addresses that were entered, each in one target, no
\* special one, and private and public ones in targets of their own: splitting,
\* nested and repeated networks and the coverage kept as a single number lose and
\* add nothing. README.md:77 "Duplicate and overlapping coverage is scanned once".
PlanScansTheScope ==
    pc = "built" =>
        /\ UNION {Coverage(t.prefixes) : t \in targets} = Entered
        /\ \A t, u \in targets : t # u => Coverage(t.prefixes) \cap Coverage(u.prefixes) = {}
        /\ \A t \in targets :
               IF t.class = "PrivateIP" THEN Coverage(t.prefixes) \subseteq Private
               ELSE Coverage(t.prefixes) \cap Special = {}

\* A target counts its addresses right, stays within the limit, and has its own
\* number in its class. README.md:84 "never more than 4,095 unique IPs".
TargetsStayInLimit ==
    \A t \in targets :
        /\ t.count = Cardinality(Coverage(t.prefixes)) /\ t.count <= Limit
        /\ \A u \in targets : t.class = u.class /\ t.sequence = u.sequence => t = u

\* The review page warns of a network exactly if it shares addresses with another
\* one, and what it names shares addresses.
Shares(i, j) == inputs[i].first <= inputs[j].last /\ inputs[j].first <= inputs[i].last
DiagnosticsAreExact ==
    pc = "built" =>
        /\ \A d \in Diagnostics : d.input # d.related /\ Shares(d.input, d.related)
        /\ \A i, j \in DOMAIN inputs : i # j /\ Shares(i, j) =>
               \E d \in Diagnostics : i \in {d.input, d.related}

\* The scanner gets the addresses of a target as the fewest ranges: sorted, apart
\* from each other, without losing or adding an address.
HostRangesAreExact ==
    pc = "built" => \A t \in targets :
        LET ranges == HostRanges(t.prefixes)
        IN /\ UNION {ranges[i].first .. ranges[i].last : i \in DOMAIN ranges}
                  = Coverage(t.prefixes)
           /\ \A i \in 1 .. Len(ranges) - 1 : ranges[i + 1].first > ranges[i].last + 1
=============================================================================
