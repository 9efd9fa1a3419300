------------------------- MODULE NetworkPlanProofs -------------------------
(***************************************************************************)
(* Proofs about the network planner, for every address space, every set of *)
(* sizes that divide each other and every limit.                           *)
(***************************************************************************)
EXTENDS NetworkAnalysis, NaturalRecursion, FiniteSetTheorems, TLAPS

-----------------------------------------------------------------------------
(* Multiplication *)

\* A multiple below the end of a block of multiples ends within the block.
LEMMA MultipleFits ==
  ASSUME NEW s \in Nat \ {0}, NEW b \in Nat, NEW m \in Nat, b * s < m * s
  PROVE  b * s + s <= m * s
<1>1. b < m
  <2>1. SUFFICES ASSUME b >= m
                 PROVE  FALSE
    OBVIOUS
  <2>2. PICK d \in Nat : b = m + d
    BY <2>1
  <2>3. b * s = m * s + d * s
    BY <2>2
  <2>4. d * s \in Nat /\ m * s \in Nat
    OBVIOUS
  <2> QED
    BY <2>3, <2>4
<1>2. PICK d \in Nat : m = b + 1 + d
  BY <1>1
<1>3. m * s = b * s + s + d * s
  BY <1>2
<1>4. d * s \in Nat /\ b * s \in Nat
  OBVIOUS
<1> QED
  BY <1>3, <1>4

\* A multiple of a multiple, and the next one.
LEMMA Multiples ==
  ASSUME NEW s \in Nat, NEW j \in Nat, NEW m \in Nat
  PROVE  /\ j * m \in Nat /\ j * m + m \in Nat
         /\ j * (m * s) = (j * m) * s
         /\ j * (m * s) + m * s = (j * m + m) * s
OBVIOUS

LEMMA Divides ==
  ASSUME NEW a \in Sizes, NEW b \in Sizes, a <= b
  PROVE  \E k \in Nat : b = k * a
<1>1. b \in Nat
  BY AddressAssumption
<1>2. PICK k \in 1 .. b : b = k * a
  BY AddressAssumption
<1> QED
  BY <1>1, <1>2

\* Aligned blocks whose sizes divide each other are nested or apart.
LEMMA Aligned ==
  ASSUME NEW p \in [start : Nat, size : Sizes], NEW q \in [start : Nat, size : Sizes],
         \E j \in Nat : p.start = j * p.size,
         \E k \in Nat : q.start = k * q.size,
         p.start <= q.start, q.start <= End(p),
         p.start = q.start => p.size >= q.size
  PROVE  Covers(q) \subseteq Covers(p)
<1>1. p.size \in Nat \ {0} /\ q.size \in Nat \ {0}
  BY AddressAssumption
<1>2. PICK j \in Nat : p.start = j * p.size
  OBVIOUS
<1>3. PICK k \in Nat : q.start = k * q.size
  OBVIOUS
<1>4. CASE q.size <= p.size
  <2>1. PICK m \in Nat : p.size = m * q.size
    BY <1>4, Divides
  <2>3. p.start + p.size = (j * m + m) * q.size
    BY <1>1, <1>2, <2>1, Multiples
  <2>4. j * m + m \in Nat
    BY Multiples
  <2>5. k * q.size < (j * m + m) * q.size
    BY <1>1, <1>3, <2>3 DEF End
  <2>6. k * q.size + q.size <= (j * m + m) * q.size
    BY <1>1, <2>4, <2>5, MultipleFits
  <2> QED
    BY <1>1, <1>3, <2>3, <2>6 DEF Covers, End
<1>5. CASE q.size > p.size
  <2>1. PICK m \in Nat : q.size = m * p.size
    BY <1>1, <1>5, Divides
  <2>2. q.start = (k * m) * p.size
    BY <1>1, <1>3, <2>1, Multiples
  <2>3. k * m \in Nat
    BY Multiples
  <2>4. p.start # q.start
    BY <1>1, <1>5
  <2>5. j * p.size < (k * m) * p.size
    BY <1>1, <1>2, <2>2, <2>4
  <2>6. j * p.size + p.size <= (k * m) * p.size
    BY <1>1, <2>3, <2>5, MultipleFits
  <2> QED
    BY <1>1, <1>2, <2>2, <2>6 DEF End
<1> QED
  BY <1>1, <1>4, <1>5

LEMMA CidrIsAligned ==
  ASSUME NEW p \in Cidrs
  PROVE  /\ p \in [start : Nat, size : Sizes]
         /\ p.size \in Nat \ {0}
         /\ \E j \in Nat : p.start = j * p.size
         /\ p.start \in Nat /\ End(p) \in Nat /\ p.start <= End(p) /\ End(p) < Space
<1>1. /\ p \in [start : Addresses, size : Sizes]
      /\ \E k \in Addresses : p.start = k * p.size
      /\ p.start + p.size <= Space
  BY DEF Cidrs
<1>2. Addresses \subseteq Nat /\ Space \in Nat /\ Sizes \subseteq Nat \ {0}
  BY AddressAssumption DEF Addresses
<1>3. p.start \in Nat /\ p.size \in Nat \ {0}
  BY <1>1, <1>2
<1>4. p \in [start : Nat, size : Sizes]
  BY <1>1, <1>2
<1>5. \E j \in Nat : p.start = j * p.size
  BY <1>1, <1>2
<1> QED
  BY <1>1, <1>2, <1>3, <1>4, <1>5 DEF End

\* Splitting keeps the addresses and leaves nothing broader than a block.
LEMMA SplitKeepsAddresses ==
  ASSUME NEW p \in Cidrs
  PROVE  /\ Split(p) \subseteq Cidrs
         /\ \A q \in Split(p) : q.size <= Block
         /\ Coverage(Split(p)) = Covers(p)
<1>1. /\ p.size \in Nat \ {0} /\ p.start \in Nat
      /\ Block \in Nat \ {0} /\ Space \in Nat
      /\ p.start + p.size <= Space
  BY AddressAssumption, CidrIsAligned DEF Cidrs
<1>2. CASE p.size <= Block
  BY <1>1, <1>2 DEF Split, Coverage
<1>3. CASE p.size > Block
  <2>1. /\ Split(p) \subseteq Cidrs
        /\ \A q \in Split(p) : q.size <= Block
        /\ Coverage(Split(p)) \subseteq Covers(p)
    BY <1>1, <1>3 DEF Split, Coverage
  <2>2. ASSUME NEW x \in Covers(p)
        PROVE  x \in Coverage(Split(p))
    <3>1. PICK j \in Nat : p.start = j * p.size
      BY CidrIsAligned
    <3>2. PICK m \in Nat : p.size = m * Block
      BY <1>1, <1>3, AddressAssumption, Divides DEF Cidrs
    <3> DEFINE c == x \div Block
               q == [start |-> c * Block, size |-> Block]
    <3>3. x \in Nat /\ p.start <= x /\ x < p.start + p.size
      BY <1>1, <2>2 DEF Covers, End
    <3>4. /\ c \in Nat
          /\ c * Block <= x /\ x < c * Block + Block
      BY <1>1, <3>3
    <3>5. p.start = (j * m) * Block /\ j * m \in Nat
      BY <1>1, <3>1, <3>2, Multiples
    <3>6. p.start + p.size = (j * m + m) * Block /\ j * m + m \in Nat
      BY <1>1, <3>1, <3>2, Multiples
    <3>7. c * Block < (j * m + m) * Block
      BY <1>1, <3>3, <3>4, <3>6
    <3>8. c * Block + Block <= p.start + p.size
      BY <1>1, <3>4, <3>6, <3>7, MultipleFits
    <3>9. p.start <= c * Block
      <4>1. SUFFICES ASSUME c * Block < (j * m) * Block
                     PROVE  FALSE
        BY <1>1, <3>4, <3>5
      <4>2. c * Block + Block <= (j * m) * Block
        BY <1>1, <3>4, <3>5, <4>1, MultipleFits
      <4> QED
        BY <1>1, <3>3, <3>4, <3>5, <4>2
    <3>10. c \in Addresses /\ c * Block \in Addresses
      <4>1. c * Block \in Nat /\ c * Block < Space
        BY <1>1, <3>4, <3>8
      <4>2. c <= c * Block
        BY <1>1, <3>4
      <4> QED
        BY <1>1, <3>4, <4>1, <4>2 DEF Addresses
    <3>11. q \in Cidrs
      <4>1. q \in [start : Addresses, size : Sizes]
        BY <3>10, AddressAssumption
      <4>2. \E k \in Addresses : q.start = k * q.size
        BY <3>10
      <4>3. q.start + q.size <= Space
        BY <1>1, <3>4, <3>8
      <4> QED
        BY <4>1, <4>2, <4>3 DEF Cidrs
    <3>12. Covers(q) \subseteq Covers(p) /\ x \in Covers(q)
      BY <1>1, <3>3, <3>4, <3>8, <3>9 DEF Covers, End
    <3> QED
      BY <1>1, <1>3, <3>11, <3>12 DEF Split, Coverage
  <2> QED
    BY <2>1, <2>2
<1> QED
  BY <1>1, <1>2, <1>3

\* Private and special space treats the addresses of a prefix alike, which is why
\* classify may look at the first and the last one only.
LEMMA PrefixHasOneClass ==
  ASSUME NEW p \in Cidrs, p.size <= Block, NEW x \in Covers(p), NEW y \in Covers(p)
  PROVE  /\ x \in Private <=> y \in Private
         /\ x \in Special <=> y \in Special
<1> DEFINE c == p.start \div Block
           b == [start |-> c * Block, size |-> Block]
<1>1. /\ p.start \in Nat /\ p.start < Space /\ Space \in Nat
      /\ Block \in Nat \ {0} /\ Block \in Sizes
  BY AddressAssumption, CidrIsAligned
<1>2. /\ c \in Nat /\ c * Block \in Nat
      /\ c * Block <= p.start /\ p.start < c * Block + Block
  BY <1>1
<1>3. c <= c * Block
  BY <1>1, <1>2
<1>4. c \in Addresses
  BY <1>1, <1>2, <1>3 DEF Addresses
<1>5. Covers(p) \subseteq Covers(b)
  <2>1. b \in [start : Nat, size : Sizes] /\ \E j \in Nat : b.start = j * b.size
    BY <1>1, <1>2
  <2>2. /\ b.start <= p.start /\ p.start <= End(b)
        /\ b.start = p.start => b.size >= p.size
    BY <1>1, <1>2 DEF End
  <2> QED
    BY <2>1, <2>2, CidrIsAligned, Aligned
<1>6. Covers(b) = c * Block .. c * Block + Block - 1
  BY DEF Covers, End
<1>7. x \in c * Block .. c * Block + Block - 1 /\ y \in c * Block .. c * Block + Block - 1
  BY <1>5, <1>6
<1> QED
  BY <1>4, <1>7, ClassAssumption

-----------------------------------------------------------------------------
(* Coverage *)

LEMMA CoverageOfUnion ==
  ASSUME NEW S, NEW T
  PROVE  Coverage(S \union T) = Coverage(S) \union Coverage(T)
BY DEF Coverage

LEMMA CoverageOfOne ==
  ASSUME NEW p
  PROVE  Coverage({p}) = Covers(p)
BY DEF Coverage

LEMMA IntervalCounts ==
  ASSUME NEW a \in Nat, NEW b \in Nat, a <= b
  PROVE  IsFiniteSet(a .. b) /\ Cardinality(a .. b) = b - a + 1
<1>1. IsFiniteSet(a .. b) /\ Cardinality(a .. b) = IF a > b THEN 0 ELSE b - a + 1
  BY FS_Interval
<1>2. ~(a > b)
  OBVIOUS
<1> QED
  BY <1>1, <1>2

LEMMA ApartCounts ==
  ASSUME NEW S, NEW T, IsFiniteSet(S), IsFiniteSet(T), S \cap T = {}
  PROVE  IsFiniteSet(S \union T) /\ Cardinality(S \union T) = Cardinality(S) + Cardinality(T)
<1>1. /\ IsFiniteSet(S \union T)
      /\ Cardinality(S \union T) = Cardinality(S) + Cardinality(T) - Cardinality(S \cap T)
  BY FS_Union
<1>2. Cardinality(S \cap T) = 0
  BY FS_EmptySet
<1>3. Cardinality(S) \in Nat /\ Cardinality(T) \in Nat
  BY FS_CardinalityType
<1> QED
  BY <1>1, <1>2, <1>3

LEMMA CoversCounts ==
  ASSUME NEW p \in Cidrs
  PROVE  /\ IsFiniteSet(Covers(p)) /\ Cardinality(Covers(p)) = p.size
         /\ p.start \in Covers(p)
<1>1. p.start \in Nat /\ End(p) \in Nat /\ p.size \in Nat \ {0}
  BY CidrIsAligned
<1>2. p.start <= End(p) /\ End(p) - p.start + 1 = p.size
  BY <1>1 DEF End
<1>3. IsFiniteSet(Covers(p)) /\ Cardinality(Covers(p)) = End(p) - p.start + 1
  BY <1>1, <1>2, IntervalCounts DEF Covers
<1>4. p.start \in Covers(p)
  BY <1>1, <1>2 DEF Covers
<1> QED
  BY <1>2, <1>3, <1>4

\* A prefix apart from others adds its size to their number of addresses.
LEMMA CoverageGrows ==
  ASSUME NEW S, IsFiniteSet(Coverage(S)), NEW p \in Cidrs,
         Coverage(S) \cap Covers(p) = {}
  PROVE  /\ IsFiniteSet(Coverage(S \union {p}))
         /\ Cardinality(Coverage(S \union {p})) = Cardinality(Coverage(S)) + p.size
<1>1. Coverage(S \union {p}) = Coverage(S) \union Covers(p)
  BY DEF Coverage
<1>2. IsFiniteSet(Covers(p)) /\ Cardinality(Covers(p)) = p.size
  BY CoversCounts
<1>3. /\ IsFiniteSet(Coverage(S) \union Covers(p))
      /\ Cardinality(Coverage(S) \union Covers(p)) =
             Cardinality(Coverage(S)) + Cardinality(Covers(p))
  BY <1>2, ApartCounts
<1> QED
  BY <1>1, <1>2, <1>3

-----------------------------------------------------------------------------
(* The invariant *)

\* The order in which the loops visit prefixes.
Precedes(p, q) == p.start < q.start \/ (p.start = q.start /\ p.size >= q.size)

Apart(set) == \A p, q \in set : p # q => Covers(p) \cap Covers(q) = {}

\* What the inputs before the n-th contain.
EnteredBefore(n) == UNION {inputs[i].first .. inputs[i].last : i \in {j \in DOMAIN inputs : j < n}}

PackedIn(set, c) == UNION {t.prefixes : t \in {u \in set : u.class = c}}

TypeInv ==
    /\ \E n \in Nat \ {0} : inputs \in [1 .. n -> Networks]
    /\ pc \in {"expand", "overlaps", "pack", "built", "rejected"}
    /\ input \in DOMAIN inputs
    /\ at \in Nat
    /\ prefixes \subseteq Cidrs /\ \A p \in prefixes : p.size <= Block
    /\ left \subseteq prefixes /\ kept \subseteq prefixes
    /\ covered \in Int
    /\ class \in Classes
    /\ current \subseteq Cidrs
    /\ held \in Nat /\ sequence \in Nat
    /\ targets \subseteq Target

NothingPacked ==
    targets = {} /\ current = {} /\ held = 0 /\ class = "PrivateIP"

ExpandInv ==
    /\ kept = {} /\ covered = -1 /\ NothingPacked
    /\ inputs[input].first <= at /\ at <= inputs[input].last + 1
    /\ Coverage(prefixes) = EnteredBefore(input) \union (inputs[input].first .. at - 1)

OverlapsInv ==
    /\ NothingPacked
    /\ Coverage(kept) \union Coverage(left) = Entered
    /\ Apart(kept)
    /\ \A q \in kept : End(q) <= covered
    /\ \/ covered = -1
       \/ \E q \in kept : End(q) = covered /\ \A p \in left : Precedes(q, p)

KeptInv ==
    /\ Coverage(kept) = Entered
    /\ Apart(kept)
    /\ OfClass("unknown") = {}

\* What holds of the targets that are finished.
TargetsAre(set) ==
    /\ set \subseteq Target
    /\ \A t \in set :
           /\ t.prefixes \subseteq OfClass(t.class)
           /\ t.count = Cardinality(Coverage(t.prefixes)) /\ t.count <= Limit
    /\ \A t, u \in set : t # u => t.prefixes \cap u.prefixes = {}
    /\ \A t, u \in set : t.class = u.class /\ t.sequence = u.sequence => t = u

\* The class that is packed is shared out between its targets, the one that is
\* filled and what is left, and the target that is filled has room.
PackInv ==
    /\ OfClass(class) = PackedIn(targets, class) \union current \union left
    /\ current \cap left = {}
    /\ class = "WAN" => PackedIn(targets, "PrivateIP") = OfClass("PrivateIP")
    /\ \A t \in targets :
           /\ class = "PrivateIP" => t.class = "PrivateIP"
           /\ t.class = class =>
                  t.sequence < sequence /\ t.prefixes \cap (current \union left) = {}
    /\ IsFiniteSet(Coverage(current))
    /\ held = Cardinality(Coverage(current)) /\ held <= Limit
    /\ held = 0 => current = {}

PlanInv ==
    /\ TypeInv
    /\ TargetsAre(targets)
    /\ pc = "expand" => ExpandInv
    /\ pc = "overlaps" => OverlapsInv
    /\ pc \in {"pack", "built"} => KeptInv
    /\ pc = "pack" => PackInv
    /\ pc = "built" => \A c \in Classes : PackedIn(targets, c) = OfClass(c)

-----------------------------------------------------------------------------
(* Expansion *)

LEMMA NoTargets == TargetsAre({})
BY DEF TargetsAre

LEMMA InputsAre ==
  ASSUME TypeInv
  PROVE  /\ Len(inputs) \in Nat /\ DOMAIN inputs = 1 .. Len(inputs)
         /\ \A i \in DOMAIN inputs :
                /\ inputs[i].first \in Nat /\ inputs[i].last \in Nat
                /\ inputs[i].first <= inputs[i].last
<1>1. PICK n \in Nat \ {0} : inputs \in [1 .. n -> Networks]
  BY DEF TypeInv
<1>2. inputs \in Seq(Networks) /\ Len(inputs) = n /\ DOMAIN inputs = 1 .. n
  BY <1>1
<1>3. Addresses \subseteq Nat
  BY AddressAssumption DEF Addresses
<1>4. \A i \in DOMAIN inputs : inputs[i] \in Networks
  BY <1>1
<1> QED
  BY <1>2, <1>3, <1>4 DEF Networks

LEMMA InitPlan == Init => PlanInv
<1> SUFFICES ASSUME Init PROVE PlanInv
  OBVIOUS
<1>1. PICK n \in 1 .. MaxInputs : inputs \in [1 .. n -> Networks]
  BY DEF Init
<1>2. n \in Nat \ {0} /\ DOMAIN inputs = 1 .. n /\ inputs[1] \in Networks
  BY <1>1, AddressAssumption
<1>3. inputs[1].first \in Nat /\ inputs[1].last \in Nat /\ inputs[1].first <= inputs[1].last
  BY <1>2, AddressAssumption DEF Networks, Addresses
<1>4. TypeInv
  BY <1>1, <1>2, <1>3 DEF Init, TypeInv, Classes
<1>5. EnteredBefore(1) = {}
  BY <1>2 DEF EnteredBefore
<1>6. Coverage({}) = {} /\ inputs[1].first .. inputs[1].first - 1 = {}
  BY <1>3 DEF Coverage
<1>7. ExpandInv
  BY <1>3, <1>5, <1>6 DEF Init, ExpandInv, NothingPacked
<1> QED
  BY <1>4, <1>7, NoTargets DEF Init, PlanInv

LEMMA ExpandKeepsPlan ==
  ASSUME PlanInv, Expand
  PROVE  PlanInv'
<1>1. TypeInv /\ ExpandInv
  BY DEF PlanInv, Expand
<1>2. PICK p \in Cidrs :
          /\ IsLargest(p, at, inputs[input].last)
          /\ prefixes' = prefixes \union Split(p)
          /\ at' = at + p.size
  BY DEF Expand
<1>3. /\ inputs' = inputs /\ pc' = "expand" /\ pc = "expand" /\ input' = input
      /\ left' = left /\ covered' = covered /\ kept' = kept
      /\ class' = class /\ current' = current /\ held' = held
      /\ sequence' = sequence /\ targets' = targets
  BY DEF Expand, packing
<1>4. /\ p.start = at /\ End(p) <= inputs[input].last /\ p.size \in Nat \ {0}
      /\ at \in Nat /\ inputs[input].first \in Nat /\ inputs[input].last \in Nat
  BY <1>1, <1>2, CidrIsAligned, InputsAre DEF IsLargest, TypeInv
<1>5. TypeInv'
  BY <1>1, <1>2, <1>3, <1>4, SplitKeepsAddresses DEF TypeInv
<1>6. Coverage(prefixes') = Coverage(prefixes) \union Covers(p)
  BY <1>2, CoverageOfUnion, SplitKeepsAddresses
<1>7. (inputs[input].first .. at - 1) \union Covers(p) = inputs[input].first .. at' - 1
  BY <1>1, <1>2, <1>4 DEF ExpandInv, Covers, End
<1>8. EnteredBefore(input)' = EnteredBefore(input)
  BY <1>3 DEF EnteredBefore
<1>9. ExpandInv'
  <2>1. Coverage(prefixes') = EnteredBefore(input) \union (inputs[input].first .. at' - 1)
    BY <1>1, <1>6, <1>7 DEF ExpandInv
  <2>2. inputs[input].first <= at' /\ at' <= inputs[input].last + 1
    BY <1>1, <1>2, <1>4 DEF ExpandInv, End
  <2> QED
    BY <1>1, <1>3, <1>8, <2>1, <2>2 DEF ExpandInv, NothingPacked, Coverage
<1>10. targets' = {}
  BY <1>1, <1>3 DEF ExpandInv, NothingPacked
<1>11. TargetsAre(targets)'
  BY <1>10 DEF TargetsAre
<1> QED
  BY <1>3, <1>5, <1>9, <1>11 DEF PlanInv

LEMMA NextInputKeepsPlan ==
  ASSUME PlanInv, NextInput
  PROVE  PlanInv'
<1>1. TypeInv /\ ExpandInv
  BY DEF PlanInv, NextInput
<1>2. /\ inputs' = inputs /\ pc' = "expand" /\ pc = "expand"
      /\ left' = left /\ covered' = covered /\ kept' = kept /\ prefixes' = prefixes
      /\ class' = class /\ current' = current /\ held' = held
      /\ sequence' = sequence /\ targets' = targets
      /\ input < Len(inputs) /\ input' = input + 1 /\ at > inputs[input].last
      /\ at' = inputs[input + 1].first
  BY DEF NextInput, packing
<1>3. /\ Len(inputs) \in Nat /\ DOMAIN inputs = 1 .. Len(inputs)
      /\ input \in 1 .. Len(inputs) /\ input + 1 \in 1 .. Len(inputs)
      /\ inputs[input].first \in Nat /\ inputs[input].last \in Nat
      /\ inputs[input + 1].first \in Nat /\ inputs[input + 1].last \in Nat
      /\ inputs[input + 1].first <= inputs[input + 1].last
  <2>1. /\ Len(inputs) \in Nat /\ DOMAIN inputs = 1 .. Len(inputs)
        /\ input \in 1 .. Len(inputs) /\ input + 1 \in 1 .. Len(inputs)
    BY <1>1, <1>2, InputsAre DEF TypeInv
  <2> QED
    BY <1>1, <2>1, InputsAre
<1>4. TypeInv'
  BY <1>1, <1>2, <1>3 DEF TypeInv
<1>5. at \in Nat /\ at = inputs[input].last + 1
  BY <1>1, <1>2, <1>3 DEF ExpandInv, TypeInv
<1>6. inputs[input].first .. at - 1 = inputs[input].first .. inputs[input].last
  BY <1>3, <1>5
<1>7. {j \in DOMAIN inputs : j < input + 1} = {j \in DOMAIN inputs : j < input} \union {input}
  BY <1>3
<1>8. EnteredBefore(input + 1) =
          EnteredBefore(input) \union (inputs[input].first .. inputs[input].last)
  BY <1>7 DEF EnteredBefore
<1>9. inputs[input + 1].first .. at' - 1 = {}
  BY <1>2, <1>3
<1>10. Coverage(prefixes) = EnteredBefore(input + 1) \union (inputs[input + 1].first .. at' - 1)
  BY <1>1, <1>6, <1>8, <1>9 DEF ExpandInv
<1>11. EnteredBefore(input)' = EnteredBefore(input + 1)
  BY <1>2 DEF EnteredBefore
<1>12. ExpandInv'
  <2>1. inputs'[input'].first <= at' /\ at' <= inputs'[input'].last + 1
    BY <1>2, <1>3
  <2>2. Coverage(prefixes)' = Coverage(prefixes)
    BY <1>2 DEF Coverage
  <2> QED
    BY <1>1, <1>2, <1>10, <1>11, <2>1, <2>2 DEF ExpandInv, NothingPacked
<1>13. targets' = {}
  BY <1>1, <1>2 DEF ExpandInv, NothingPacked
<1>14. TargetsAre(targets)'
  BY <1>13 DEF TargetsAre
<1> QED
  BY <1>2, <1>4, <1>12, <1>14 DEF PlanInv

LEMMA ExpandedKeepsPlan ==
  ASSUME PlanInv, Expanded
  PROVE  PlanInv'
<1>1. TypeInv /\ ExpandInv
  BY DEF PlanInv, Expanded
<1>2. /\ inputs' = inputs /\ pc' = "overlaps" /\ left' = prefixes /\ prefixes' = prefixes
      /\ covered' = covered /\ kept' = kept /\ input' = input /\ at' = at
      /\ class' = class /\ current' = current /\ held' = held
      /\ sequence' = sequence /\ targets' = targets
      /\ input = Len(inputs) /\ at > inputs[input].last
  BY DEF Expanded, expansion, packing
<1>3. /\ Len(inputs) \in Nat /\ DOMAIN inputs = 1 .. Len(inputs)
      /\ input \in DOMAIN inputs
      /\ inputs[input].first \in Nat /\ inputs[input].last \in Nat
  BY <1>1, InputsAre DEF TypeInv
<1>4. TypeInv'
  BY <1>1, <1>2 DEF TypeInv
<1>5. inputs[input].first .. at - 1 = inputs[input].first .. inputs[input].last
  BY <1>1, <1>2, <1>3 DEF ExpandInv, TypeInv
<1>6. DOMAIN inputs = {j \in DOMAIN inputs : j < input} \union {input}
  BY <1>2, <1>3
<1>7. Entered = EnteredBefore(input) \union (inputs[input].first .. inputs[input].last)
  BY <1>6 DEF Entered, EnteredBefore
<1>8. Coverage(prefixes) = Entered
  BY <1>1, <1>5, <1>7 DEF ExpandInv
<1>9. OverlapsInv'
  <2>1. kept' = {} /\ covered' = -1 /\ NothingPacked'
    BY <1>1, <1>2 DEF ExpandInv, NothingPacked
  <2>2. (Coverage(kept) \union Coverage(left) = Entered)'
    BY <1>2, <1>8, <2>1 DEF Coverage, Entered
  <2> QED
    BY <2>1, <2>2 DEF OverlapsInv, Apart
<1>10. targets' = {}
  BY <1>1, <1>2 DEF ExpandInv, NothingPacked
<1>11. TargetsAre(targets)'
  BY <1>10 DEF TargetsAre
<1> QED
  BY <1>2, <1>4, <1>9, <1>11 DEF PlanInv

-----------------------------------------------------------------------------
(* Overlaps *)

\* The first prefix of a set comes before every other one.
LEMMA FirstPrecedes ==
  ASSUME NEW set \in SUBSET Cidrs, NEW p, IsFirst(p, set)
  PROVE  p \in Cidrs /\ \A q \in set : Precedes(p, q)
BY DEF IsFirst, Precedes

LEMMA KeepKeepsPlan ==
  ASSUME PlanInv, NEW p \in left, Keep(p)
  PROVE  PlanInv'
<1>1. TypeInv /\ OverlapsInv
  BY DEF PlanInv, Keep
<1>2. /\ inputs' = inputs /\ pc' = "overlaps" /\ prefixes' = prefixes
      /\ input' = input /\ at' = at
      /\ kept' = kept \union {p} /\ covered' = End(p) /\ left' = left \ {p}
      /\ class' = class /\ current' = current /\ held' = held
      /\ sequence' = sequence /\ targets' = targets
      /\ p.start > covered /\ IsFirst(p, left)
  BY DEF Keep, expansion, packing
<1>3. /\ p \in Cidrs /\ p.start \in Nat /\ End(p) \in Nat /\ p.start <= End(p)
      /\ \A q \in kept : q \in Cidrs /\ q.start \in Nat /\ End(q) \in Nat
      /\ covered \in Int
  BY <1>1, CidrIsAligned DEF TypeInv
<1>4. TypeInv'
  BY <1>1, <1>2, <1>3 DEF TypeInv
<1>5. \A q \in kept : Covers(q) \cap Covers(p) = {}
  BY <1>1, <1>2, <1>3 DEF OverlapsInv, Covers
<1>6. Apart(kept')
  BY <1>1, <1>2, <1>5 DEF OverlapsInv, Apart
<1>7. \A q \in kept' : End(q) <= covered'
  BY <1>1, <1>2, <1>3 DEF OverlapsInv
<1>8. \A q \in left' : Precedes(p, q)
  BY <1>1, <1>2, FirstPrecedes DEF TypeInv
<1>9. Coverage(kept') \union Coverage(left') = Coverage(kept) \union Coverage(left)
  BY <1>2 DEF Coverage
<1>10. OverlapsInv'
  <2>1. NothingPacked' /\ Entered' = Entered
    BY <1>1, <1>2 DEF OverlapsInv, NothingPacked, Entered
  <2>2. (Coverage(kept) \union Coverage(left) = Entered)'
    BY <1>1, <1>9, <2>1 DEF OverlapsInv, Coverage
  <2> QED
    BY <1>2, <1>6, <1>7, <1>8, <2>1, <2>2 DEF OverlapsInv, Apart
<1>11. TargetsAre(targets)'
  BY <1>1, <1>2 DEF OverlapsInv, NothingPacked, TargetsAre
<1> QED
  BY <1>2, <1>4, <1>10, <1>11 DEF PlanInv

LEMMA SkipKeepsPlan ==
  ASSUME PlanInv, NEW p \in left, Skip(p)
  PROVE  PlanInv'
<1>1. TypeInv /\ OverlapsInv
  BY DEF PlanInv, Skip
<1>2. /\ inputs' = inputs /\ pc' = "overlaps" /\ prefixes' = prefixes
      /\ input' = input /\ at' = at
      /\ kept' = kept /\ covered' = covered /\ left' = left \ {p}
      /\ class' = class /\ current' = current /\ held' = held
      /\ sequence' = sequence /\ targets' = targets
      /\ p.start <= covered /\ IsFirst(p, left)
  BY DEF Skip, expansion, packing
<1>3. p \in Cidrs /\ p.start \in Nat
  BY <1>1, CidrIsAligned DEF TypeInv
<1>4. TypeInv'
  BY <1>1, <1>2 DEF TypeInv
<1>5. PICK q \in kept : End(q) = covered /\ \A r \in left : Precedes(q, r)
  BY <1>1, <1>2, <1>3 DEF OverlapsInv
<1>6. Covers(p) \subseteq Covers(q)
  <2>1. q \in Cidrs /\ Precedes(q, p) /\ p.start <= End(q)
    BY <1>1, <1>2, <1>5 DEF TypeInv
  <2>2. q.start <= p.start /\ (q.start = p.start => q.size >= p.size)
    BY <1>3, <2>1, CidrIsAligned DEF Precedes
  <2> QED
    BY <1>3, <2>1, <2>2, CidrIsAligned, Aligned
<1>7. Coverage(kept) \union Coverage(left') = Coverage(kept) \union Coverage(left)
  BY <1>2, <1>5, <1>6 DEF Coverage
<1>8. OverlapsInv'
  <2>1. NothingPacked' /\ Entered' = Entered
    BY <1>1, <1>2 DEF OverlapsInv, NothingPacked, Entered
  <2>2. (Coverage(kept) \union Coverage(left) = Entered)'
    BY <1>1, <1>2, <1>7, <2>1 DEF OverlapsInv, Coverage
  <2>3. \A r \in left' : Precedes(q, r)
    BY <1>2, <1>5
  <2> QED
    BY <1>1, <1>2, <1>5, <2>1, <2>2, <2>3 DEF OverlapsInv, Apart
<1>9. TargetsAre(targets)'
  BY <1>1, <1>2 DEF OverlapsInv, NothingPacked, TargetsAre
<1> QED
  BY <1>2, <1>4, <1>8, <1>9 DEF PlanInv

LEMMA ClassifyKeepsPlan ==
  ASSUME PlanInv, Classify
  PROVE  PlanInv'
<1>1. TypeInv /\ OverlapsInv
  BY DEF PlanInv, Classify
<1>2. /\ inputs' = inputs /\ prefixes' = prefixes /\ input' = input /\ at' = at
      /\ kept' = kept /\ covered' = covered
      /\ class' = class /\ current' = current /\ held' = held
      /\ sequence' = sequence /\ targets' = targets /\ left = {}
      /\ IF OfClass("unknown") # {} THEN pc' = "rejected" /\ left' = left
         ELSE pc' = "pack" /\ left' = OfClass("PrivateIP")
  BY DEF Classify, expansion, packing
<1>3. TypeInv'
  BY <1>1, <1>2 DEF TypeInv, OfClass
<1>4. targets = {} /\ current = {} /\ held = 0 /\ class = "PrivateIP"
  BY <1>1 DEF OverlapsInv, NothingPacked
<1>5. TargetsAre(targets)'
  BY <1>2, <1>4 DEF TargetsAre
<1>6. \A c : OfClass(c)' = OfClass(c)
  BY <1>2 DEF OfClass
<1>7. CASE pc' = "rejected"
  BY <1>3, <1>5, <1>7 DEF PlanInv
<1>8. CASE pc' = "pack"
  <2>1. OfClass("unknown") = {} /\ left' = OfClass("PrivateIP")
    BY <1>2, <1>8
  <2>2. KeptInv'
    BY <1>1, <1>2, <1>6, <2>1 DEF OverlapsInv, KeptInv, Coverage, Apart, Entered
  <2>3. /\ IsFiniteSet(Coverage({})) /\ Cardinality(Coverage({})) = 0
        /\ Limit \in Nat
    <3>1. Coverage({}) = {}
      BY DEF Coverage
    <3> QED
      BY <3>1, FS_EmptySet, AddressAssumption
  <2>4. PackInv'
    <3>1. PackedIn(targets, class)' = {}
      BY <1>2, <1>4 DEF PackedIn
    <3>2. Coverage(current)' = Coverage({})
      BY <1>2, <1>4 DEF Coverage
    <3> QED
      BY <1>2, <1>4, <1>6, <2>1, <2>3, <3>1, <3>2 DEF PackInv
  <2> QED
    BY <1>3, <1>5, <1>8, <2>2, <2>4 DEF PlanInv
<1> QED
  BY <1>2, <1>7, <1>8

-----------------------------------------------------------------------------
(* Packing *)

\* What the loop of a class visits is kept, no broader than a block, and apart.
LEMMA PackedIsKept ==
  ASSUME TypeInv, PackInv
  PROVE  /\ current \subseteq kept /\ left \subseteq kept
         /\ \A p \in kept : p \in Cidrs /\ p.size <= Block
BY DEF TypeInv, PackInv, OfClass

LEMMA AddKeepsPlan ==
  ASSUME PlanInv, NEW p \in left, Add(p)
  PROVE  PlanInv'
<1>1. TypeInv /\ KeptInv /\ PackInv /\ TargetsAre(targets)
  BY DEF PlanInv, Add
<1>2. /\ inputs' = inputs /\ pc' = "pack" /\ prefixes' = prefixes
      /\ input' = input /\ at' = at /\ kept' = kept /\ covered' = covered
      /\ class' = class /\ sequence' = sequence /\ targets' = targets
      /\ current' = current \union {p} /\ held' = held + p.size /\ left' = left \ {p}
      /\ ~Full(p)
  BY DEF Add, expansion
<1>3. /\ p \in Cidrs /\ p \in kept /\ p \notin current
      /\ p.size \in Nat \ {0} /\ p.size <= Block /\ Block \in Nat /\ Block <= Limit
      /\ held \in Nat /\ Limit \in Nat
  BY <1>1, PackedIsKept, CidrIsAligned, AddressAssumption DEF TypeInv, PackInv
<1>4. TypeInv'
  BY <1>1, <1>2, <1>3 DEF TypeInv
<1>5. \A c : OfClass(c)' = OfClass(c)
  BY <1>2 DEF OfClass
<1>6. Coverage(current) \cap Covers(p) = {}
  BY <1>1, <1>3, PackedIsKept DEF KeptInv, Apart, Coverage
<1>7. /\ IsFiniteSet(Coverage(current'))
      /\ Cardinality(Coverage(current')) = held'
  BY <1>1, <1>2, <1>3, <1>6, CoverageGrows DEF PackInv
<1>8. held' <= Limit /\ held' # 0
  BY <1>2, <1>3 DEF Full
<1>9. PackInv'
  <2>1. (OfClass(class) = PackedIn(targets, class) \union current \union left)'
    BY <1>1, <1>2, <1>5 DEF PackInv, PackedIn
  <2>2. (current \cap left = {})'
    BY <1>1, <1>2 DEF PackInv
  <2>3. (class = "WAN" => PackedIn(targets, "PrivateIP") = OfClass("PrivateIP"))'
    BY <1>1, <1>2, <1>5 DEF PackInv, PackedIn
  <2>4. current' \union left' = current \union left
    BY <1>2
  <2> QED
    BY <1>1, <1>2, <1>7, <1>8, <2>1, <2>2, <2>3, <2>4 DEF PackInv, Coverage
<1>10. KeptInv'
  BY <1>1, <1>2, <1>5 DEF KeptInv, Coverage, Apart, Entered
<1>11. TargetsAre(targets)'
  BY <1>1, <1>2, <1>5 DEF TargetsAre, Coverage
<1> QED
  BY <1>2, <1>4, <1>9, <1>10, <1>11 DEF PlanInv

\* Finishing the target that is filled keeps what holds of targets.
LEMMA FlushedAre ==
  ASSUME TypeInv, PackInv, TargetsAre(targets)
  PROVE  /\ TargetsAre(Flushed)
         /\ PackedIn(Flushed, class) = PackedIn(targets, class) \union current
         /\ \A c : c # class => PackedIn(Flushed, c) = PackedIn(targets, c)
         /\ \A t \in Flushed :
                /\ class = "PrivateIP" => t.class = "PrivateIP"
                /\ t.class = class => t.sequence <= sequence /\ t.prefixes \cap left = {}
<1>1. CASE current = {}
  <2>1. Flushed = targets
    BY <1>1 DEF Flushed
  <2>2. \A t \in targets : t.sequence \in Nat
    BY DEF TargetsAre, Target
  <2> QED
    BY <1>1, <2>1, <2>2 DEF PackInv, TypeInv
<1>2. CASE current # {}
  <2> DEFINE new == [class |-> class, sequence |-> sequence, prefixes |-> current, count |-> held]
  <2>1. Flushed = targets \union {new}
    BY <1>2 DEF Flushed
  <2>2. new \in Target
    BY DEF TypeInv, Target
  <2>3. /\ new.prefixes \subseteq OfClass(new.class)
        /\ new.count = Cardinality(Coverage(new.prefixes)) /\ new.count <= Limit
    BY DEF PackInv
  <2>4. \A t \in targets :
            /\ t \in Target /\ t.sequence \in Nat
            /\ t.prefixes \subseteq OfClass(t.class)
            /\ t.class = class => t.sequence < sequence /\ t.prefixes \cap (current \union left) = {}
    BY DEF TargetsAre, Target, PackInv
  <2>5. \A t \in targets : t.prefixes \cap new.prefixes = {}
    <3>1. SUFFICES ASSUME NEW t \in targets, t.class # class
                   PROVE  t.prefixes \cap current = {}
      BY <2>4
    <3>2. OfClass(t.class) \cap OfClass(class) = {}
      BY <3>1 DEF OfClass
    <3> QED
      BY <2>3, <2>4, <3>2
  <2>6. \A t \in targets : t.class = new.class => t.sequence # new.sequence
    BY <2>4 DEF TypeInv
  <2>7. TargetsAre(Flushed)
    <3>1. Flushed \subseteq Target
      BY <2>1, <2>2 DEF TargetsAre
    <3>2. ASSUME NEW t \in Flushed
          PROVE  /\ t.prefixes \subseteq OfClass(t.class)
                 /\ t.count = Cardinality(Coverage(t.prefixes)) /\ t.count <= Limit
      <4>1. CASE t \in targets
        BY <4>1 DEF TargetsAre
      <4>2. CASE t = new
        BY <2>3, <4>2
      <4> QED
        BY <2>1, <4>1, <4>2
    <3>3. ASSUME NEW t \in Flushed, NEW u \in Flushed, t # u
          PROVE  /\ t.prefixes \cap u.prefixes = {}
                 /\ ~(t.class = u.class /\ t.sequence = u.sequence)
      <4> HIDE DEF new
      <4>1. CASE t \in targets /\ u \in targets
        BY <3>3, <4>1 DEF TargetsAre
      <4>2. CASE t \in targets /\ u = new
        BY <2>5, <2>6, <4>2
      <4>3. CASE t = new /\ u \in targets
        BY <2>5, <2>6, <4>3
      <4> QED
        BY <2>1, <3>3, <4>1, <4>2, <4>3
    <3> QED
      BY <3>1, <3>2, <3>3 DEF TargetsAre
  <2>8. PackedIn(Flushed, class) = PackedIn(targets, class) \union current
    <3>1. {u \in Flushed : u.class = class} = {u \in targets : u.class = class} \union {new}
      BY <2>1
    <3>2. new.prefixes = current
      OBVIOUS
    <3> HIDE DEF new
    <3> QED
      BY <3>1, <3>2 DEF PackedIn
  <2>9. ASSUME NEW c, c # class
        PROVE  PackedIn(Flushed, c) = PackedIn(targets, c)
    BY <2>1, <2>9 DEF PackedIn
  <2>10. ASSUME NEW t \in Flushed
         PROVE  /\ class = "PrivateIP" => t.class = "PrivateIP"
                /\ t.class = class => t.sequence <= sequence /\ t.prefixes \cap left = {}
    <3>1. CASE t \in targets
      BY <2>4, <3>1 DEF PackInv, TypeInv
    <3>2. CASE t = new
      BY <3>2 DEF PackInv, TypeInv
    <3> QED
      BY <2>1, <3>1, <3>2
  <2> QED
    BY <2>7, <2>8, <2>9, <2>10
<1> QED
  BY <1>1, <1>2

LEMMA FlushKeepsPlan ==
  ASSUME PlanInv, NEW p \in left, Flush(p)
  PROVE  PlanInv'
<1>1. TypeInv /\ KeptInv /\ PackInv /\ TargetsAre(targets)
  BY DEF PlanInv, Flush
<1>2. /\ inputs' = inputs /\ pc' = "pack" /\ prefixes' = prefixes
      /\ input' = input /\ at' = at /\ kept' = kept /\ covered' = covered
      /\ class' = class /\ sequence' = sequence + 1 /\ targets' = Flushed
      /\ current' = {p} /\ held' = p.size /\ left' = left \ {p}
  BY DEF Flush, expansion
<1>3. /\ p \in Cidrs /\ p \in kept /\ p \notin current
      /\ p.size \in Nat \ {0} /\ p.size <= Block /\ Block \in Nat /\ Block <= Limit
      /\ Limit \in Nat /\ sequence \in Nat
  BY <1>1, PackedIsKept, CidrIsAligned, AddressAssumption DEF TypeInv, PackInv
<1>4. /\ TargetsAre(Flushed)
      /\ PackedIn(Flushed, class) = PackedIn(targets, class) \union current
      /\ \A c : c # class => PackedIn(Flushed, c) = PackedIn(targets, c)
      /\ \A t \in Flushed :
             /\ class = "PrivateIP" => t.class = "PrivateIP"
             /\ t.class = class => t.sequence <= sequence /\ t.prefixes \cap left = {}
  BY <1>1, FlushedAre
<1>5. \A c : OfClass(c)' = OfClass(c)
  BY <1>2 DEF OfClass
<1>6. /\ \A c : PackedIn(targets, c)' = PackedIn(Flushed, c)
  BY <1>2 DEF PackedIn
<1>7. TargetsAre(targets)'
  BY <1>2, <1>4, <1>5 DEF TargetsAre, Coverage
<1>8. TypeInv'
  BY <1>1, <1>2, <1>3, <1>4 DEF TypeInv, TargetsAre
<1>9. PackInv'
  <2>1. (OfClass(class) = PackedIn(targets, class) \union current \union left)'
    BY <1>1, <1>2, <1>4, <1>5, <1>6 DEF PackInv
  <2>2. (class = "WAN" => PackedIn(targets, "PrivateIP") = OfClass("PrivateIP"))'
    BY <1>1, <1>2, <1>4, <1>5, <1>6 DEF PackInv
  <2>3. ASSUME NEW t \in Flushed, t.class = class
        PROVE  t.sequence < sequence' /\ t.prefixes \cap (current' \union left') = {}
    BY <1>2, <1>3, <1>4, <2>3 DEF TargetsAre, Target
  <2>4. Coverage(current)' = Covers(p)
    BY <1>2, CoverageOfOne DEF Coverage
  <2>5. IsFiniteSet(Covers(p)) /\ Cardinality(Covers(p)) = p.size
    BY <1>3, CoversCounts
  <2> QED
    BY <1>2, <1>3, <1>4, <2>1, <2>2, <2>3, <2>4, <2>5 DEF PackInv
<1>10. KeptInv'
  BY <1>1, <1>2, <1>5 DEF KeptInv, Coverage, Apart, Entered
<1> QED
  BY <1>2, <1>7, <1>8, <1>9, <1>10 DEF PlanInv

LEMMA EndClassKeepsPlan ==
  ASSUME PlanInv, EndClass
  PROVE  PlanInv'
<1>1. TypeInv /\ KeptInv /\ PackInv /\ TargetsAre(targets)
  BY DEF PlanInv, EndClass
<1>2. /\ inputs' = inputs /\ pc' = "pack" /\ prefixes' = prefixes
      /\ input' = input /\ at' = at /\ kept' = kept /\ covered' = covered
      /\ class = "PrivateIP" /\ class' = "WAN" /\ sequence' = 1 /\ targets' = Flushed
      /\ current' = {} /\ held' = 0 /\ left = {} /\ left' = OfClass("WAN")
  BY DEF EndClass, expansion
<1>3. /\ TargetsAre(Flushed)
      /\ PackedIn(Flushed, "PrivateIP") = PackedIn(targets, "PrivateIP") \union current
      /\ \A t \in Flushed : t.class = "PrivateIP"
  BY <1>1, <1>2, FlushedAre
<1>4. \A c : OfClass(c)' = OfClass(c)
  BY <1>2 DEF OfClass
<1>5. \A c : PackedIn(targets, c)' = PackedIn(Flushed, c)
  BY <1>2 DEF PackedIn
<1>6. TargetsAre(targets)'
  BY <1>2, <1>3, <1>4 DEF TargetsAre, Coverage
<1>7. TypeInv'
  BY <1>1, <1>2, <1>3 DEF TypeInv, TargetsAre, OfClass, Classes
<1>8. PackInv'
  <2>1. PackedIn(Flushed, "WAN") = {}
    BY <1>3 DEF PackedIn
  <2>2. PackedIn(Flushed, "PrivateIP") = OfClass("PrivateIP")
    BY <1>1, <1>2, <1>3 DEF PackInv
  <2>3. Coverage(current)' = {}
    BY <1>2 DEF Coverage
  <2>4. IsFiniteSet({}) /\ Cardinality({}) = 0 /\ Limit \in Nat
    BY FS_EmptySet, AddressAssumption
  <2>5. /\ (OfClass(class) = PackedIn(targets, class) \union current \union left)'
        /\ (class = "WAN" => PackedIn(targets, "PrivateIP") = OfClass("PrivateIP"))'
        /\ (current \cap left = {})'
    BY <1>2, <1>4, <1>5, <2>1, <2>2
  <2>6. (\A t \in targets :
            /\ class = "PrivateIP" => t.class = "PrivateIP"
            /\ t.class = class =>
                   t.sequence < sequence /\ t.prefixes \cap (current \union left) = {})'
    BY <1>2, <1>3
  <2>7. /\ IsFiniteSet(Coverage(current))'
        /\ (held = Cardinality(Coverage(current)) /\ held <= Limit)'
        /\ (held = 0 => current = {})'
    BY <1>2, <2>3, <2>4
  <2> QED
    BY <2>5, <2>6, <2>7 DEF PackInv
<1>9. KeptInv'
  BY <1>1, <1>2, <1>4 DEF KeptInv, Coverage, Apart, Entered
<1> QED
  BY <1>2, <1>6, <1>7, <1>8, <1>9 DEF PlanInv

LEMMA EndPlanKeepsPlan ==
  ASSUME PlanInv, EndPlan
  PROVE  PlanInv'
<1>1. TypeInv /\ KeptInv /\ PackInv /\ TargetsAre(targets)
  BY DEF PlanInv, EndPlan
<1>2. /\ inputs' = inputs /\ pc' \in {"built", "rejected"} /\ prefixes' = prefixes
      /\ input' = input /\ at' = at /\ kept' = kept /\ covered' = covered
      /\ class = "WAN" /\ class' = class /\ sequence' = sequence /\ targets' = Flushed
      /\ current' = {} /\ held' = 0 /\ left = {} /\ left' = left
  BY DEF EndPlan, expansion
<1>3. /\ TargetsAre(Flushed)
      /\ PackedIn(Flushed, "WAN") = PackedIn(targets, "WAN") \union current
      /\ PackedIn(Flushed, "PrivateIP") = PackedIn(targets, "PrivateIP")
  BY <1>1, <1>2, FlushedAre
<1>4. \A c : OfClass(c)' = OfClass(c)
  BY <1>2 DEF OfClass
<1>5. TargetsAre(targets)'
  BY <1>2, <1>3, <1>4 DEF TargetsAre, Coverage
<1>6. TypeInv'
  BY <1>1, <1>2, <1>3 DEF TypeInv, TargetsAre
<1>7. \A c \in Classes : PackedIn(Flushed, c) = OfClass(c)
  BY <1>1, <1>2, <1>3 DEF PackInv, Classes
<1>8. (\A c \in Classes : PackedIn(targets, c) = OfClass(c))'
  BY <1>2, <1>4, <1>7 DEF PackedIn
<1>9. KeptInv'
  BY <1>1, <1>2, <1>4 DEF KeptInv, Coverage, Apart, Entered
<1> QED
  BY <1>2, <1>5, <1>6, <1>8, <1>9 DEF PlanInv

-----------------------------------------------------------------------------
(* Theorems *)

LEMMA NextKeepsPlan == PlanInv /\ [Next]_vars => PlanInv'
<1> SUFFICES ASSUME PlanInv, [Next]_vars PROVE PlanInv'
  OBVIOUS
<1>1. CASE ExpandTooMuch
  <2>1. TypeInv /\ TargetsAre(targets)
    BY DEF PlanInv
  <2>2. TypeInv'
    BY <1>1, <2>1 DEF ExpandTooMuch, TypeInv, expansion, packing
  <2>3. TargetsAre(targets)'
    BY <1>1, <2>1 DEF ExpandTooMuch, TargetsAre, packing, OfClass, Coverage
  <2> QED
    BY <1>1, <2>2, <2>3 DEF ExpandTooMuch, PlanInv
<1>2. CASE UNCHANGED vars
  <2>1. /\ inputs' = inputs /\ pc' = pc /\ prefixes' = prefixes /\ input' = input /\ at' = at
        /\ left' = left /\ kept' = kept /\ covered' = covered
        /\ class' = class /\ current' = current /\ held' = held
        /\ sequence' = sequence /\ targets' = targets
    BY <1>2 DEF vars, expansion, packing
  <2>2. TypeInv' <=> TypeInv
    BY <2>1 DEF TypeInv
  <2>3. TargetsAre(targets)' <=> TargetsAre(targets)
    BY <2>1 DEF TargetsAre, OfClass, Coverage
  <2>4. ExpandInv' <=> ExpandInv
    BY <2>1 DEF ExpandInv, NothingPacked, EnteredBefore, Coverage
  <2>5. OverlapsInv' <=> OverlapsInv
    BY <2>1 DEF OverlapsInv, NothingPacked, Entered, Coverage, Apart
  <2>6. KeptInv' <=> KeptInv
    BY <2>1 DEF KeptInv, Entered, Coverage, Apart, OfClass
  <2>7. PackInv' <=> PackInv
    BY <2>1 DEF PackInv, OfClass, PackedIn, Coverage
  <2>8. \A c : (PackedIn(targets, c) = OfClass(c))' <=> PackedIn(targets, c) = OfClass(c)
    BY <2>1 DEF OfClass, PackedIn
  <2> QED
    BY <2>1, <2>2, <2>3, <2>4, <2>5, <2>6, <2>7, <2>8 DEF PlanInv
<1> QED
  BY <1>1, <1>2, ExpandKeepsPlan, NextInputKeepsPlan, ExpandedKeepsPlan, KeepKeepsPlan,
     SkipKeepsPlan, ClassifyKeepsPlan, AddKeepsPlan, FlushKeepsPlan, EndClassKeepsPlan,
     EndPlanKeepsPlan DEF Next

LEMMA PlanAlways == Spec => []PlanInv
BY InitPlan, NextKeepsPlan, PTL DEF Spec

LEMMA PlanScans == PlanInv => PlanScansTheScope
<1> SUFFICES ASSUME PlanInv, pc = "built" PROVE PlanScansTheScope
  BY DEF PlanScansTheScope
<1>1. /\ TypeInv /\ KeptInv /\ TargetsAre(targets)
      /\ PackedIn(targets, "PrivateIP") = OfClass("PrivateIP")
      /\ PackedIn(targets, "WAN") = OfClass("WAN")
  BY DEF PlanInv, Classes
<1>2. \A t \in targets : t.class \in Classes /\ t.prefixes \subseteq OfClass(t.class)
  BY <1>1 DEF TargetsAre, Target
<1>3. kept = OfClass("PrivateIP") \union OfClass("WAN")
  BY <1>1 DEF KeptInv, OfClass, ClassOf
<1>4. UNION {Coverage(t.prefixes) : t \in targets} = Entered
  <2>1. ASSUME NEW x \in UNION {Coverage(t.prefixes) : t \in targets}
        PROVE  x \in Coverage(kept)
    BY <1>2, <1>3 DEF Coverage, OfClass
  <2>2. ASSUME NEW x \in Coverage(kept)
        PROVE  x \in UNION {Coverage(t.prefixes) : t \in targets}
    <3>1. PICK p \in kept : x \in Covers(p)
      BY DEF Coverage
    <3>2. p \in PackedIn(targets, "PrivateIP") \/ p \in PackedIn(targets, "WAN")
      BY <1>1, <1>3
    <3>3. PICK t \in targets : p \in t.prefixes
      BY <3>2 DEF PackedIn
    <3> QED
      BY <3>1, <3>3 DEF Coverage
  <2> QED
    BY <1>1, <2>1, <2>2 DEF KeptInv
<1>5. ASSUME NEW t \in targets, NEW u \in targets, t # u
      PROVE  Coverage(t.prefixes) \cap Coverage(u.prefixes) = {}
  <2>1. t.prefixes \cap u.prefixes = {} /\ t.prefixes \subseteq kept /\ u.prefixes \subseteq kept
    BY <1>1, <1>2, <1>5 DEF TargetsAre, OfClass
  <2> QED
    BY <1>1, <2>1 DEF KeptInv, Apart, Coverage
<1>6. ASSUME NEW t \in targets, NEW x \in Coverage(t.prefixes)
      PROVE  IF t.class = "PrivateIP" THEN x \in Private ELSE x \notin Special
  <2>1. PICK p \in t.prefixes : x \in Covers(p)
    BY DEF Coverage
  <2>2. p \in kept /\ ClassOf(p) = t.class /\ p \in Cidrs /\ p.size <= Block
    BY <1>1, <1>2 DEF OfClass, TypeInv
  <2>3. p.start \in Covers(p)
    BY <2>2, CoversCounts
  <2>4. /\ x \in Private <=> p.start \in Private
        /\ x \in Special <=> p.start \in Special
    BY <2>1, <2>2, <2>3, PrefixHasOneClass
  <2>5. CASE t.class = "PrivateIP"
    BY <2>2, <2>4, <2>5 DEF ClassOf
  <2>6. CASE t.class = "WAN"
    BY <2>2, <2>4, <2>6 DEF ClassOf
  <2> QED
    BY <1>2, <2>5, <2>6 DEF Classes
<1> QED
  BY <1>4, <1>5, <1>6 DEF PlanScansTheScope

\* Whatever networks are entered, a plan that is built scans exactly their
\* addresses, each in one target, no special one, and private and public ones in
\* targets of their own (PlanScansTheScope).
THEOREM ScopeIsScanned == Spec => []PlanScansTheScope
BY PlanAlways, PlanScans, PTL

\* The targets of a plan count their addresses right, stay within the limit and
\* have their own numbers, at every step of packing (TargetsStayInLimit).
THEOREM LimitIsKept == Spec => []TargetsStayInLimit
<1>1. PlanInv => TargetsStayInLimit
  BY DEF PlanInv, TargetsAre, TargetsStayInLimit
<1> QED
  BY <1>1, PlanAlways, PTL

-----------------------------------------------------------------------------
(* The review of a plan *)

HasBlock(i, x) == \E b \in blocks : b.input = i /\ x \in Covers(b.prefix)

\* Blocks lie within their input, those of one input are apart, and they cover
\* what has been expanded.
BlocksInv ==
    /\ blocks \subseteq [input : DOMAIN inputs, prefix : Cidrs]
    /\ \A b \in blocks :
           inputs[b.input].first <= b.prefix.start /\ End(b.prefix) <= inputs[b.input].last
    /\ \A b, c \in blocks :
           b.input = c.input /\ b # c => Covers(b.prefix) \cap Covers(c.prefix) = {}
    /\ pc = "expand" =>
           \A b \in blocks : b.input < input \/ (b.input = input /\ End(b.prefix) < at)
    /\ \A i \in DOMAIN inputs : \A x \in inputs[i].first .. inputs[i].last :
           pc \in {"overlaps", "pack", "built"} \/ i < input \/ (i = input /\ x < at)
               => HasBlock(i, x)

LEMMA InitBlocks == Init => BlocksInv
<1> SUFFICES ASSUME Init PROVE BlocksInv
  OBVIOUS
<1>1. TypeInv
  BY InitPlan DEF PlanInv
<1>2. ASSUME NEW i \in DOMAIN inputs, NEW x \in inputs[i].first .. inputs[i].last
      PROVE  ~(pc \in {"overlaps", "pack", "built"} \/ i < input \/ (i = input /\ x < at))
  BY <1>1, InputsAre DEF Init
<1> QED
  BY <1>2 DEF Init, BlocksInv

LEMMA ExpandKeepsBlocks ==
  ASSUME PlanInv, BlocksInv, Expand
  PROVE  BlocksInv'
<1>1. TypeInv /\ ExpandInv
  BY DEF PlanInv, Expand
<1>2. PICK p \in Cidrs :
          /\ IsLargest(p, at, inputs[input].last)
          /\ blocks' = blocks \union {[input |-> input, prefix |-> p]}
          /\ at' = at + p.size
  BY DEF Expand
<1> DEFINE n == [input |-> input, prefix |-> p]
<1>3. inputs' = inputs /\ pc' = "expand" /\ pc = "expand" /\ input' = input
  BY DEF Expand
<1>4. /\ p.start = at /\ End(p) <= inputs[input].last /\ p.size \in Nat \ {0}
      /\ End(p) \in Nat /\ End(p) < at' /\ at' \in Nat /\ at \in Nat /\ at < at'
      /\ input \in DOMAIN inputs
      /\ inputs[input].first \in Nat /\ inputs[input].last \in Nat
      /\ inputs[input].first <= at
      /\ Covers(p) = at .. at' - 1
  <2>1. p.start = at /\ End(p) <= inputs[input].last
    BY <1>2 DEF IsLargest
  <2>2. p.size \in Nat \ {0} /\ End(p) \in Nat /\ p.start \in Nat
    BY CidrIsAligned
  <2>3. /\ input \in DOMAIN inputs /\ inputs[input].first <= at
        /\ inputs[input].first \in Nat /\ inputs[input].last \in Nat
    BY <1>1, InputsAre DEF TypeInv, ExpandInv
  <2>4. End(p) = at' - 1 /\ at' \in Nat /\ at < at' /\ End(p) < at'
    BY <1>2, <2>1, <2>2 DEF End
  <2> QED
    BY <2>1, <2>2, <2>3, <2>4 DEF Covers
<1>5. n.input = input /\ n.prefix = p /\ n \in [input : DOMAIN inputs, prefix : Cidrs]
  BY <1>4
<1> HIDE DEF n
<1>6. blocks' = blocks \union {n}
  BY <1>2 DEF n
<1>7. \A b \in blocks : /\ b \in [input : DOMAIN inputs, prefix : Cidrs]
                        /\ b.input \in Int /\ b.input <= input
                        /\ End(b.prefix) \in Nat /\ b.prefix.start \in Nat
                        /\ b.input = input => End(b.prefix) < at
  <2>1. ASSUME NEW b \in blocks
        PROVE  /\ b \in [input : DOMAIN inputs, prefix : Cidrs]
               /\ b.input \in DOMAIN inputs /\ b.prefix \in Cidrs
               /\ b.input < input \/ (b.input = input /\ End(b.prefix) < at)
    BY <1>3 DEF BlocksInv
  <2>2. DOMAIN inputs \subseteq Int
    BY <1>1, InputsAre
  <2> QED
    <3>1. ASSUME NEW b \in blocks
          PROVE  /\ b \in [input : DOMAIN inputs, prefix : Cidrs]
                 /\ b.input \in Int /\ b.input <= input
                 /\ End(b.prefix) \in Nat /\ b.prefix.start \in Nat
                 /\ b.input = input => End(b.prefix) < at
      <4>1. b.input \in Int /\ input \in Int
        BY <1>4, <2>1, <2>2
      <4>2. End(b.prefix) \in Nat /\ b.prefix.start \in Nat
        BY <2>1, CidrIsAligned
      <4> QED
        BY <2>1, <4>1, <4>2
    <3> QED
      BY <3>1
<1>8. blocks' \subseteq [input : DOMAIN inputs', prefix : Cidrs]
  BY <1>3, <1>5, <1>6, <1>7
<1>9. \A b \in blocks' : /\ inputs[b.input].first <= b.prefix.start
                         /\ End(b.prefix) <= inputs[b.input].last
  BY <1>4, <1>5, <1>6 DEF BlocksInv
<1>10. ASSUME NEW b \in blocks', NEW c \in blocks', b.input = c.input, b # c
       PROVE  Covers(b.prefix) \cap Covers(c.prefix) = {}
  <2>1. ASSUME NEW d \in blocks, d.input = input PROVE Covers(d.prefix) \cap Covers(p) = {}
    BY <1>4, <1>7, <2>1 DEF Covers
  <2> QED
    BY <1>5, <1>6, <1>10, <2>1 DEF BlocksInv
<1>11. \A b \in blocks' : b.input < input \/ (b.input = input /\ End(b.prefix) < at')
  <2>1. ASSUME NEW b \in blocks
        PROVE  b.input < input \/ (b.input = input /\ End(b.prefix) < at')
    BY <1>3, <1>4, <1>7, <2>1 DEF BlocksInv
  <2> QED
    BY <1>4, <1>5, <1>6, <2>1
<1>12. ASSUME NEW i \in DOMAIN inputs, NEW x \in inputs[i].first .. inputs[i].last,
              i < input \/ (i = input /\ x < at')
       PROVE  HasBlock(i, x)'
  <2>1. CASE i < input \/ (i = input /\ x < at)
    <3>1. PICK b \in blocks : b.input = i /\ x \in Covers(b.prefix)
      BY <2>1 DEF BlocksInv, HasBlock
    <3> QED
      BY <1>6, <3>1 DEF HasBlock, Covers, End
  <2>2. CASE i = input /\ x >= at /\ x < at'
    <3>1. x \in Covers(p)
      <4>1. x \in Int /\ at \in Int /\ at' \in Int
        BY <1>4, <2>2
      <4>2. x \in at .. at' - 1
        BY <2>2, <4>1
      <4>3. Covers(p) = at .. at' - 1
        BY <1>4
      <4> QED
        BY <4>2, <4>3, Zenon
    <3> QED
      BY <1>5, <1>6, <2>2, <3>1 DEF HasBlock, Covers, End
  <2>3. i \in Int /\ x \in Int /\ input \in Int
    BY <1>1, <1>4, InputsAre
  <2> QED
    BY <1>4, <1>12, <2>1, <2>2, <2>3
<1> QED
  BY <1>3, <1>8, <1>9, <1>10, <1>11, <1>12 DEF BlocksInv, Covers, End

LEMMA NextInputKeepsBlocks ==
  ASSUME PlanInv, BlocksInv, NextInput
  PROVE  BlocksInv'
<1>1. TypeInv /\ ExpandInv
  BY DEF PlanInv, NextInput
<1>2. /\ inputs' = inputs /\ pc' = "expand" /\ pc = "expand" /\ blocks' = blocks
      /\ at > inputs[input].last /\ input' = input + 1 /\ at' = inputs[input + 1].first
      /\ input < Len(inputs)
  BY DEF NextInput
<1>3. /\ DOMAIN inputs \subseteq Int /\ input \in DOMAIN inputs /\ input + 1 \in DOMAIN inputs
      /\ \A i \in DOMAIN inputs : inputs[i].first \in Nat /\ inputs[i].last \in Nat
      /\ at \in Nat
  BY <1>1, <1>2, InputsAre DEF TypeInv
<1>4. ASSUME NEW i \in DOMAIN inputs, NEW x \in inputs[i].first .. inputs[i].last,
             i < input + 1 \/ (i = input + 1 /\ x < inputs[input + 1].first)
      PROVE  HasBlock(i, x)
  <2>1. i < input \/ i = input
    BY <1>3, <1>4
  <2>2. i = input => x < at
    BY <1>2, <1>3
  <2> QED
    BY <2>1, <2>2 DEF BlocksInv
<1>5. \A b \in blocks : b.input \in DOMAIN inputs
  BY DEF BlocksInv
<1>6. \A b \in blocks : b.input < input + 1
  BY <1>2, <1>3, <1>5 DEF BlocksInv
<1>7. \A i, x : HasBlock(i, x)' <=> HasBlock(i, x)
  BY <1>2 DEF HasBlock, Covers, End
<1> QED
  BY <1>2, <1>4, <1>6, <1>7 DEF BlocksInv, Covers, End

LEMMA ExpandedKeepsBlocks ==
  ASSUME PlanInv, BlocksInv, Expanded
  PROVE  BlocksInv'
<1>1. TypeInv /\ ExpandInv
  BY DEF PlanInv, Expanded
<1>2. /\ inputs' = inputs /\ pc' = "overlaps" /\ blocks' = blocks
      /\ at > inputs[input].last /\ input = Len(inputs)
  BY DEF Expanded, expansion
<1>3. /\ DOMAIN inputs = 1 .. input /\ input \in Nat
      /\ \A i \in DOMAIN inputs : inputs[i].first \in Nat /\ inputs[i].last \in Nat
      /\ at \in Nat
  BY <1>1, <1>2, InputsAre DEF TypeInv
<1>4. ASSUME NEW i \in DOMAIN inputs, NEW x \in inputs[i].first .. inputs[i].last
      PROVE  HasBlock(i, x)
  <2>1. i < input \/ (i = input /\ x < at)
    BY <1>2, <1>3
  <2> QED
    BY <2>1 DEF BlocksInv
<1>5. \A i, x : HasBlock(i, x)' <=> HasBlock(i, x)
  BY <1>2 DEF HasBlock, Covers, End
<1> QED
  BY <1>2, <1>4, <1>5 DEF BlocksInv, Covers, End

\* The later loops leave the blocks alone.
LEMMA NextKeepsBlocks == PlanInv /\ BlocksInv /\ [Next]_vars => BlocksInv'
<1> SUFFICES ASSUME PlanInv, BlocksInv, [Next]_vars PROVE BlocksInv'
  OBVIOUS
<1>1. ASSUME inputs' = inputs, UNCHANGED expansion,
             pc' # "expand", pc' \in {"overlaps", "pack", "built"} =>
                                 pc \in {"overlaps", "pack", "built"}
      PROVE  BlocksInv'
  <2>1. blocks' = blocks /\ input' = input /\ at' = at
    BY <1>1 DEF expansion
  <2>2. \A i, x : HasBlock(i, x)' <=> HasBlock(i, x)
    BY <2>1 DEF HasBlock, Covers, End
  <2> QED
    BY <1>1, <2>1, <2>2 DEF BlocksInv, Covers, End
<1>2. CASE ExpandTooMuch \/ Classify \/ EndClass \/ EndPlan
  BY <1>1, <1>2 DEF ExpandTooMuch, Classify, EndClass, EndPlan
<1>3. ASSUME NEW p \in left, Keep(p) \/ Skip(p) \/ Add(p) \/ Flush(p) PROVE BlocksInv'
  BY <1>1, <1>3 DEF Keep, Skip, Add, Flush
<1>4. CASE UNCHANGED vars
  <2>1. blocks' = blocks /\ input' = input /\ at' = at /\ inputs' = inputs /\ pc' = pc
    BY <1>4 DEF vars, expansion
  <2>2. \A i, x : HasBlock(i, x)' <=> HasBlock(i, x)
    BY <2>1 DEF HasBlock, Covers, End
  <2> QED
    BY <2>1, <2>2 DEF BlocksInv, Covers, End
<1> QED
  BY <1>2, <1>3, <1>4, ExpandKeepsBlocks, NextInputKeepsBlocks, ExpandedKeepsBlocks DEF Next

LEMMA BlockParts ==
  ASSUME TypeInv, BlocksInv, NEW b \in blocks
  PROVE  /\ b = [input |-> b.input, prefix |-> b.prefix]
         /\ b.input \in Nat /\ b.input \in DOMAIN inputs /\ b.prefix \in Cidrs
         /\ b.prefix.start \in Nat /\ b.prefix.size \in Nat /\ End(b.prefix) \in Nat
         /\ b.prefix.start <= End(b.prefix) /\ End(b.prefix) < Space
         /\ inputs[b.input].first \in Nat /\ inputs[b.input].last \in Nat
         /\ inputs[b.input].first <= b.prefix.start /\ End(b.prefix) <= inputs[b.input].last
<1>1. b \in [input : DOMAIN inputs, prefix : Cidrs]
  BY DEF BlocksInv
<1>2. DOMAIN inputs \subseteq Nat
  BY InputsAre
<1>3. b.input \in DOMAIN inputs /\ b.prefix \in Cidrs /\ b.input \in Nat
      /\ b = [input |-> b.input, prefix |-> b.prefix]
  BY <1>1, <1>2
<1>4. inputs[b.input].first <= b.prefix.start /\ End(b.prefix) <= inputs[b.input].last
  BY DEF BlocksInv
<1>5. inputs[b.input].first \in Nat /\ inputs[b.input].last \in Nat
  BY <1>3, InputsAre
<1> QED
  BY <1>3, <1>4, <1>5, CidrIsAligned

\* Of two prefixes that share an address, the one that comes later is the narrower.
LEMMA LaterIsNested ==
  ASSUME NEW p \in Cidrs, NEW q \in Cidrs, NEW x, x \in Covers(p), x \in Covers(q), Before(p, q)
  PROVE  p.start <= q.start /\ q.start <= End(p) /\ End(q) <= End(p)
<1>1. /\ p.start \in Nat /\ q.start \in Nat /\ p.size \in Nat /\ q.size \in Nat
      /\ End(p) \in Nat /\ End(q) \in Nat /\ q.start <= End(q)
  BY CidrIsAligned
<1>2. p.start <= q.start /\ (p.start = q.start => p.size >= q.size)
  BY <1>1 DEF Before
<1>3. q.start <= End(p)
  BY <1>1 DEF Covers
<1>4. Covers(q) \subseteq Covers(p)
  BY <1>2, <1>3, CidrIsAligned, Aligned
<1>5. End(q) \in Covers(q)
  BY <1>1 DEF Covers
<1> QED
  BY <1>1, <1>2, <1>3, <1>4, <1>5 DEF Covers

LEMMA OneComesFirst ==
  ASSUME NEW p \in Cidrs, NEW q \in Cidrs, p # q
  PROVE  Before(p, q) \/ Before(q, p)
<1>1. p \in [start : Nat, size : Sizes] /\ q \in [start : Nat, size : Sizes]
  BY CidrIsAligned
<1>2. p.start \in Nat /\ q.start \in Nat /\ p.size \in Nat /\ q.size \in Nat
  BY CidrIsAligned
<1>3. p.start # q.start \/ p.size # q.size
  BY <1>1
<1> QED
  BY <1>2, <1>3 DEF Before

\* Every block is an original or repeats one.
LEMMA OriginalOf ==
  ASSUME TypeInv, BlocksInv, NEW b \in blocks
  PROVE  \E o \in Originals : o.prefix = b.prefix /\ (o = b \/ Repeats(b, o))
<1> DEFINE same == {c \in blocks : c.prefix = b.prefix}
           T == {c.input : c \in same}
<1>1. T \in SUBSET Nat /\ T # {}
  BY BlockParts
<1>2. PICK m \in T : \A n \in T : m <= n
  BY <1>1, LeastElement
<1>3. PICK o \in same : o.input = m
  BY <1>2
<1>4. \A c \in same : o.input <= c.input
  BY <1>2, <1>3
<1>5. o \in blocks /\ o.prefix = b.prefix /\ o.input \in Nat /\ b.input \in Nat
  BY <1>3, BlockParts
<1>6. ASSUME NEW c \in blocks, Repeats(o, c) PROVE FALSE
  <2>1. c \in same /\ c.input < o.input /\ c.input \in Nat
    BY <1>5, <1>6, BlockParts DEF Repeats
  <2> QED
    BY <1>4, <1>5, <2>1
<1>7. o.input = b.input => o = b
  BY <1>5, BlockParts
<1>8. o.input # b.input => Repeats(b, o)
  BY <1>4, <1>5 DEF Repeats
<1> QED
  BY <1>5, <1>6, <1>7, <1>8 DEF Originals

\* Two originals have different prefixes.
LEMMA OriginalsDiffer ==
  ASSUME TypeInv, BlocksInv, NEW b \in Originals, NEW c \in Originals, b # c
  PROVE  b.prefix # c.prefix
<1>1. b \in blocks /\ c \in blocks /\ ~Repeats(b, c) /\ ~Repeats(c, b)
  BY DEF Originals
<1>2. b.input \in Nat /\ c.input \in Nat
  BY <1>1, BlockParts
<1>3. SUFFICES ASSUME b.prefix = c.prefix PROVE FALSE
  OBVIOUS
<1>4. b.input = c.input
  BY <1>1, <1>2, <1>3 DEF Repeats
<1> QED
  BY <1>1, <1>3, <1>4, BlockParts

LEMMA OneIsFarthest ==
  ASSUME TypeInv, BlocksInv, NEW set \in SUBSET blocks, set # {}
  PROVE  \E c \in set : IsFarthest(c, set)
<1> DEFINE T == {Space - 1 - End(c.prefix) : c \in set}
<1>1. \A c \in set : /\ End(c.prefix) \in Nat /\ End(c.prefix) <= Space - 1
                     /\ c.prefix.start \in Nat /\ c.prefix.size \in Nat
  BY BlockParts, AddressAssumption
<1>2. T \in SUBSET Nat /\ T # {}
  BY <1>1, AddressAssumption
<1>3. PICK m \in T : \A n \in T : m <= n
  BY <1>2, LeastElement
<1>4. PICK f \in set : m = Space - 1 - End(f.prefix)
  BY <1>3
<1>5. \A d \in set : End(d.prefix) <= End(f.prefix)
  <2>1. ASSUME NEW d \in set PROVE End(d.prefix) <= End(f.prefix)
    <3>1. m <= Space - 1 - End(d.prefix)
      BY <1>3
    <3> QED
      BY <1>1, <1>4, <3>1, AddressAssumption
  <2> QED
    BY <2>1
<1> DEFINE far == {d \in set : End(d.prefix) = End(f.prefix)}
           S == {d.prefix.start : d \in far}
<1>6. S \in SUBSET Nat /\ S # {}
  BY <1>1
<1>7. PICK k \in S : \A n \in S : k <= n
  BY <1>6, LeastElement
<1>8. PICK c \in far : c.prefix.start = k
  BY <1>7
<1>9. ASSUME NEW d \in set, End(d.prefix) = End(c.prefix) PROVE ~Before(d.prefix, c.prefix)
  <2>1. c.prefix.start <= d.prefix.start
    BY <1>7, <1>8, <1>9
  <2> QED
    BY <1>1, <1>8, <1>9, <2>1 DEF Before, End
<1>10. \A d \in set : End(d.prefix) <= End(c.prefix)
  BY <1>5, <1>8
<1> QED
  BY <1>8, <1>9, <1>10 DEF IsFarthest

\* An original that shares an address with an earlier one is warned of.
LEMMA LaterIsNamed ==
  ASSUME TypeInv, BlocksInv, NEW b \in Originals, NEW c \in Originals,
         NEW x, x \in Covers(b.prefix), x \in Covers(c.prefix), Before(c.prefix, b.prefix)
  PROVE  \E d \in Diagnostics : d.input = b.input
<1>1. Originals \subseteq blocks /\ Earlier(b) \in SUBSET blocks /\ c \in Earlier(b)
  BY DEF Originals, Earlier
<1>2. PICK e \in Earlier(b) : IsFarthest(e, Earlier(b))
  BY <1>1, OneIsFarthest
<1>3. e \in Originals /\ End(c.prefix) <= End(e.prefix)
  BY <1>1, <1>2 DEF Earlier, IsFarthest
<1>4. b.prefix \in Cidrs /\ c.prefix \in Cidrs
      /\ b.prefix.start \in Nat /\ End(c.prefix) \in Nat /\ End(e.prefix) \in Nat
  BY <1>1, <1>3, BlockParts
<1>5. b.prefix.start <= End(c.prefix)
  BY <1>4, LaterIsNested
<1>6. Overlapped(b, e)
  BY <1>2, <1>3, <1>4, <1>5 DEF Overlapped
<1>7. [input |-> b.input, related |-> e.input] \in Overlaps
  <2>1. <<b, e>> \in {pair \in Originals \X Originals : Overlapped(pair[1], pair[2])}
    BY <1>3, <1>6
  <2> QED
    BY <2>1 DEF Overlaps
<1> QED
  BY <1>7 DEF Diagnostics

\* So is one that shares an address with a later one: for itself, or by the later
\* one, which it then covers farthest.
LEMMA EarlierIsNamed ==
  ASSUME TypeInv, BlocksInv, NEW b \in Originals, NEW c \in Originals,
         NEW x, x \in Covers(b.prefix), x \in Covers(c.prefix), Before(b.prefix, c.prefix)
  PROVE  \E d \in Diagnostics : b.input \in {d.input, d.related}
<1>1. Originals \subseteq blocks /\ Earlier(c) \in SUBSET blocks /\ b \in Earlier(c)
  BY DEF Originals, Earlier
<1>2. PICK e \in Earlier(c) : IsFarthest(e, Earlier(c))
  BY <1>1, OneIsFarthest
<1>3. e \in Originals /\ Before(e.prefix, c.prefix) /\ End(b.prefix) <= End(e.prefix)
      /\ (End(b.prefix) = End(e.prefix) => ~Before(b.prefix, e.prefix))
  BY <1>1, <1>2 DEF Earlier, IsFarthest
<1>4. /\ b.prefix \in Cidrs /\ c.prefix \in Cidrs /\ e.prefix \in Cidrs
      /\ b.prefix.start \in Nat /\ c.prefix.start \in Nat /\ e.prefix.start \in Nat
      /\ End(b.prefix) \in Nat /\ End(e.prefix) \in Nat
  BY <1>1, <1>3, BlockParts
<1>5. b.prefix.start <= c.prefix.start /\ c.prefix.start <= End(b.prefix)
  BY <1>4, LaterIsNested
<1>6. e.prefix.start <= c.prefix.start
  BY <1>3, <1>4 DEF Before
<1>7. c.prefix.start \in Covers(b.prefix) /\ c.prefix.start \in Covers(e.prefix)
  BY <1>3, <1>4, <1>5, <1>6 DEF Covers
<1>8. CASE e = b
  <2>1. Overlapped(c, b)
    BY <1>2, <1>5, <1>8 DEF Overlapped
  <2>2. <<c, b>> \in {pair \in Originals \X Originals : Overlapped(pair[1], pair[2])}
    BY <2>1
  <2>3. [input |-> c.input, related |-> b.input] \in Overlaps
    BY <2>2 DEF Overlaps
  <2> QED
    BY <2>3 DEF Diagnostics
<1>9. CASE e # b
  <2>1. Before(e.prefix, b.prefix) \/ Before(b.prefix, e.prefix)
    BY <1>3, <1>4, <1>9, OriginalsDiffer, OneComesFirst
  <2>2. CASE Before(e.prefix, b.prefix)
    BY <1>3, <1>7, <2>2, LaterIsNamed
  <2>3. CASE Before(b.prefix, e.prefix)
    <3>1. End(e.prefix) <= End(b.prefix)
      BY <1>4, <1>7, <2>3, LaterIsNested
    <3> QED
      BY <1>3, <1>4, <2>3, <3>1
  <2> QED
    BY <2>1, <2>2, <2>3
<1> QED
  BY <1>8, <1>9

LEMMA DuplicateIsNamed ==
  ASSUME NEW b \in blocks, NEW o \in Originals, Repeats(b, o)
  PROVE  [input |-> b.input, related |-> o.input] \in Diagnostics
<1>1. <<b, o>> \in {pair \in blocks \X Originals : Repeats(pair[1], pair[2])}
  OBVIOUS
<1> QED
  BY <1>1 DEF Duplicates, Diagnostics

\* What is named shares addresses.
LEMMA NamedShares ==
  ASSUME TypeInv, BlocksInv, NEW d \in Diagnostics
  PROVE  d.input # d.related /\ Shares(d.input, d.related)
<1>1. Originals \subseteq blocks
  BY DEF Originals
<1>2. CASE d \in Duplicates
  <2>1. PICK b \in blocks, o \in Originals :
            Repeats(b, o) /\ d = [input |-> b.input, related |-> o.input]
    BY <1>2 DEF Duplicates
  <2>2. o \in blocks /\ b.prefix = o.prefix /\ o.input < b.input
    BY <1>1, <2>1 DEF Repeats
  <2>3. o.input \in Nat /\ b.input \in Nat
    BY <2>2, BlockParts
  <2>4. Shares(b.input, o.input)
    <3>1. /\ inputs[b.input].first <= b.prefix.start /\ End(b.prefix) <= inputs[b.input].last
          /\ inputs[b.input].first \in Nat /\ inputs[b.input].last \in Nat
          /\ b.prefix.start \in Nat /\ End(b.prefix) \in Nat /\ b.prefix.start <= End(b.prefix)
      BY BlockParts
    <3>2. /\ inputs[o.input].first <= b.prefix.start /\ End(b.prefix) <= inputs[o.input].last
          /\ inputs[o.input].first \in Nat /\ inputs[o.input].last \in Nat
      BY <2>2, BlockParts
    <3> QED
      BY <3>1, <3>2 DEF Shares
  <2> QED
    BY <2>1, <2>2, <2>3, <2>4
<1>3. CASE d \in Overlaps
  <2>1. PICK b \in Originals, c \in Originals :
            Overlapped(b, c) /\ d = [input |-> b.input, related |-> c.input]
    BY <1>3 DEF Overlaps
  <2>2. b \in blocks /\ c \in blocks /\ Before(c.prefix, b.prefix)
        /\ b.prefix.start <= End(c.prefix)
    BY <1>1, <2>1 DEF Overlapped, IsFarthest, Earlier
  <2>3. /\ inputs[b.input].first <= b.prefix.start /\ End(b.prefix) <= inputs[b.input].last
        /\ inputs[b.input].first \in Nat /\ inputs[b.input].last \in Nat
        /\ b.prefix.start \in Nat /\ End(b.prefix) \in Nat /\ b.prefix.start <= End(b.prefix)
    BY <2>2, BlockParts
  <2>4. /\ inputs[c.input].first <= c.prefix.start /\ End(c.prefix) <= inputs[c.input].last
        /\ inputs[c.input].first \in Nat /\ inputs[c.input].last \in Nat
        /\ c.prefix.start \in Nat /\ End(c.prefix) \in Nat /\ c.prefix.size \in Nat
    BY <2>2, BlockParts
  <2>5. c.prefix.start <= b.prefix.start /\ c # b
    BY <2>2, <2>3, <2>4 DEF Before
  <2>6. Shares(b.input, c.input)
    BY <2>2, <2>3, <2>4, <2>5 DEF Shares
  <2>7. b.prefix.start \in Covers(b.prefix) /\ b.prefix.start \in Covers(c.prefix)
    BY <2>2, <2>3, <2>4, <2>5 DEF Covers
  <2>8. b.input # c.input
    BY <2>2, <2>5, <2>7 DEF BlocksInv
  <2> QED
    BY <2>1, <2>6, <2>8
<1> QED
  BY <1>2, <1>3 DEF Diagnostics

\* What shares addresses is named.
LEMMA SharedIsNamed ==
  ASSUME TypeInv, BlocksInv, pc = "built",
         NEW i \in DOMAIN inputs, NEW j \in DOMAIN inputs, i # j, Shares(i, j)
  PROVE  \E d \in Diagnostics : i \in {d.input, d.related}
<1>1. /\ inputs[i].first \in Nat /\ inputs[i].last \in Nat /\ inputs[i].first <= inputs[i].last
      /\ inputs[j].first \in Nat /\ inputs[j].last \in Nat /\ inputs[j].first <= inputs[j].last
  BY InputsAre
<1>2. PICK x : x \in inputs[i].first .. inputs[i].last /\ x \in inputs[j].first .. inputs[j].last
  <2>1. CASE inputs[i].first <= inputs[j].first
    <3>1. /\ inputs[j].first \in inputs[i].first .. inputs[i].last
          /\ inputs[j].first \in inputs[j].first .. inputs[j].last
      BY <1>1, <2>1 DEF Shares
    <3> QED
      BY <3>1
  <2>2. CASE inputs[j].first <= inputs[i].first
    <3>1. /\ inputs[i].first \in inputs[i].first .. inputs[i].last
          /\ inputs[i].first \in inputs[j].first .. inputs[j].last
      BY <1>1, <2>2 DEF Shares
    <3> QED
      BY <3>1
  <2> QED
    BY <1>1, <2>1, <2>2
<1>3. HasBlock(i, x) /\ HasBlock(j, x)
  BY <1>2 DEF BlocksInv
<1>4. PICK b \in blocks : b.input = i /\ x \in Covers(b.prefix)
  BY <1>3 DEF HasBlock
<1>5. PICK c \in blocks : c.input = j /\ x \in Covers(c.prefix)
  BY <1>3 DEF HasBlock
<1>6. PICK o \in Originals : o.prefix = b.prefix /\ (o = b \/ Repeats(b, o))
  BY OriginalOf
<1>7. PICK q \in Originals : q.prefix = c.prefix /\ (q = c \/ Repeats(c, q))
  BY OriginalOf
<1>8. CASE o # b
  <2>1. [input |-> b.input, related |-> o.input] \in Diagnostics
    BY <1>6, <1>8, DuplicateIsNamed
  <2> QED
    BY <1>4, <2>1
<1>9. CASE o = b /\ q = b
  <2>1. Repeats(c, b)
    BY <1>4, <1>5, <1>7, <1>9
  <2>2. [input |-> c.input, related |-> b.input] \in Diagnostics
    BY <1>6, <1>9, <2>1, DuplicateIsNamed
  <2> QED
    BY <1>4, <2>2
<1>10. CASE o = b /\ q # b
  <2>1. b.prefix # q.prefix /\ b \in Originals
    BY <1>6, <1>10, OriginalsDiffer
  <2>2. b.prefix \in Cidrs /\ q.prefix \in Cidrs
    BY <1>7, BlockParts
  <2>3. Before(b.prefix, q.prefix) \/ Before(q.prefix, b.prefix)
    BY <2>1, <2>2, OneComesFirst
  <2>4. x \in Covers(b.prefix) /\ x \in Covers(q.prefix)
    BY <1>4, <1>5, <1>7
  <2>5. CASE Before(b.prefix, q.prefix)
    BY <1>4, <1>7, <2>1, <2>4, <2>5, EarlierIsNamed
  <2>6. CASE Before(q.prefix, b.prefix)
    <3>1. \E d \in Diagnostics : d.input = b.input
      BY <1>7, <2>1, <2>4, <2>6, LaterIsNamed
    <3> QED
      BY <1>4, <3>1
  <2> QED
    BY <2>3, <2>5, <2>6
<1> QED
  BY <1>8, <1>9, <1>10

\* The review page warns of a network exactly if it shares addresses with another
\* one, and what it names shares addresses (DiagnosticsAreExact).
THEOREM ReviewIsExact == Spec => []DiagnosticsAreExact
<1>1. Init => PlanInv /\ BlocksInv
  BY InitPlan, InitBlocks
<1>2. PlanInv /\ BlocksInv /\ [Next]_vars => (PlanInv /\ BlocksInv)'
  BY NextKeepsPlan, NextKeepsBlocks
<1>3. PlanInv /\ BlocksInv => DiagnosticsAreExact
  BY NamedShares, SharedIsNamed DEF PlanInv, DiagnosticsAreExact
<1> QED
  BY <1>1, <1>2, <1>3, PTL DEF Spec

-----------------------------------------------------------------------------
(* The host ranges of a target *)

HostRange == [first : Nat, last : Nat]
InRanges(ranges) == UNION {ranges[i].first .. ranges[i].last : i \in DOMAIN ranges}
Lengthened(ranges, last) == [ranges EXCEPT ![Len(ranges)].last = last]

LEMMA RangesAre ==
  ASSUME NEW r \in Seq(HostRange)
  PROVE  /\ Len(r) \in Nat /\ DOMAIN r = 1 .. Len(r)
         /\ \A i \in 1 .. Len(r) : r[i] \in HostRange /\ r[i].first \in Nat /\ r[i].last \in Nat
<1>1. Len(r) \in Nat /\ DOMAIN r = 1 .. Len(r)
  OBVIOUS
<1>2. \A i \in 1 .. Len(r) : r[i] \in HostRange
  BY <1>1
<1> QED
  BY <1>1, <1>2 DEF HostRange

\* A prefix is appended, or makes the last range longer.
LEMMA MergedIs ==
  ASSUME NEW r \in Seq(HostRange), NEW p \in Cidrs
  PROVE  /\ Len(r) = 0 \/ p.start > r[Len(r)].last + 1 =>
                Merged(r, p) = Append(r, [first |-> p.start, last |-> End(p)])
         /\ Len(r) > 0 /\ p.start <= r[Len(r)].last + 1 =>
                \E e \in Nat :
                    /\ e >= r[Len(r)].last /\ e >= End(p)
                    /\ e \in {r[Len(r)].last, End(p)}
                    /\ Merged(r, p) = Lengthened(r, e)
<1> DEFINE n == Len(r)
           range == [first |-> p.start, last |-> End(p)]
<1>1. p.start \in Nat /\ End(p) \in Nat
  BY CidrIsAligned
<1>2. n \in Nat /\ (n > 0 => r[n].last \in Nat)
  BY RangesAre
<1>3. CASE n = 0
  <2>1. r = <<>>
    BY <1>3
  <2>2. Merged(r, p) = <<range>>
    BY <1>3 DEF Merged
  <2>3. Append(<<>>, range) = <<range>>
    OBVIOUS
  <2> QED
    BY <1>3, <2>1, <2>2, <2>3
<1>4. CASE n > 0 /\ p.start > r[n].last + 1
  <2>1. Merged(r, p) = Append(r, range)
    BY <1>1, <1>2, <1>4 DEF Merged
  <2> QED
    BY <1>1, <1>2, <1>4, <2>1
<1>5. CASE n > 0 /\ p.start <= r[n].last + 1
  <2> DEFINE e == IF End(p) > r[n].last THEN End(p) ELSE r[n].last
  <2>1. Merged(r, p) = Lengthened(r, e)
    BY <1>1, <1>2, <1>5 DEF Merged, Lengthened
  <2>2. e \in Nat /\ e >= r[n].last /\ e >= End(p) /\ e \in {r[n].last, End(p)}
    BY <1>1, <1>2, <1>5
  <2> QED
    BY <1>1, <1>2, <1>5, <2>1, <2>2
<1> QED
  BY <1>2, <1>3, <1>4, <1>5

LEMMA AppendRange ==
  ASSUME NEW r \in Seq(HostRange), NEW h \in HostRange
  PROVE  /\ Append(r, h) \in Seq(HostRange) /\ Len(Append(r, h)) = Len(r) + 1
         /\ \A i \in 1 .. Len(r) : Append(r, h)[i] = r[i]
         /\ Append(r, h)[Len(r) + 1] = h
OBVIOUS

LEMMA LongerRange ==
  ASSUME NEW r \in Seq(HostRange), NEW e \in Nat, Len(r) > 0,
         NEW s, s = Lengthened(r, e)
  PROVE  /\ s \in Seq(HostRange) /\ Len(s) = Len(r)
         /\ \A i \in 1 .. Len(r) - 1 : s[i] = r[i]
         /\ s[Len(r)].first = r[Len(r)].first /\ s[Len(r)].last = e
<1> DEFINE n == Len(r)
           h == [r[n] EXCEPT !.last = e]
<1>1. n \in Nat /\ n \in 1 .. n /\ DOMAIN r = 1 .. n /\ r[n] \in HostRange
  BY RangesAre
<1>2. h \in HostRange /\ h.first = r[n].first /\ h.last = e
  BY <1>1 DEF HostRange
<1> HIDE DEF h
<1>3. s = [r EXCEPT ![n] = h]
  BY DEF h, Lengthened
<1>4. s \in Seq(HostRange) /\ Len(s) = n
  BY <1>1, <1>2, <1>3
<1>5. s[n] = h /\ \A i \in 1 .. n - 1 : s[i] = r[i]
  BY <1>1, <1>3
<1> QED
  BY <1>2, <1>4, <1>5

\* Ranges that hold a set of addresses, sorted and apart, which begin before a.
RangesHold(r, a, addresses) ==
    /\ r \in Seq(HostRange)
    /\ InRanges(r) = addresses
    /\ \A i \in 1 .. Len(r) : r[i].first <= r[i].last /\ r[i].first < a
    /\ \A i \in 1 .. Len(r) - 1 : r[i + 1].first > r[i].last + 1

LEMMA MergedHolds ==
  ASSUME NEW a \in Nat, NEW p \in Cidrs, p.start = a, NEW addresses, NEW r,
         RangesHold(r, a, addresses)
  PROVE  RangesHold(Merged(r, p), a + 1, addresses \union Covers(p))
<1> DEFINE n == Len(r)
           m == Merged(r, p)
           h == [first |-> p.start, last |-> End(p)]
<1>1. p.start \in Nat /\ End(p) \in Nat /\ p.start <= End(p)
  BY CidrIsAligned
<1>2. /\ r \in Seq(HostRange) /\ n \in Nat /\ DOMAIN r = 1 .. n
      /\ \A i \in 1 .. n : r[i].first \in Nat /\ r[i].last \in Nat
      /\ \A i \in 1 .. n : r[i].first <= r[i].last /\ r[i].first < a
      /\ \A i \in 1 .. n - 1 : r[i + 1].first > r[i].last + 1
      /\ InRanges(r) = addresses
  BY RangesAre DEF RangesHold
<1>3. h \in HostRange /\ h.first = p.start /\ h.last = End(p)
  BY <1>1 DEF HostRange
<1> HIDE DEF n
<1>4. CASE n = 0 \/ p.start > r[n].last + 1
  <2>1. m = Append(r, h)
    BY <1>2, <1>4, MergedIs DEF n
  <2> HIDE DEF h, m
  <2>2. /\ m \in Seq(HostRange) /\ Len(m) = n + 1 /\ DOMAIN m = 1 .. n + 1
        /\ \A i \in 1 .. n : m[i] = r[i]
        /\ m[n + 1] = h
    BY <1>2, <1>3, <2>1, AppendRange, RangesAre DEF n
  <2>3. InRanges(m) = addresses \union Covers(p)
    <3>1. ASSUME NEW x \in InRanges(m) PROVE x \in addresses \union Covers(p)
      <4>1. PICK i \in 1 .. n + 1 : x \in m[i].first .. m[i].last
        BY <2>2 DEF InRanges
      <4>2. CASE i \in 1 .. n
        BY <1>2, <2>2, <4>1, <4>2 DEF InRanges
      <4>3. CASE i = n + 1
        BY <1>3, <2>2, <4>1, <4>3 DEF Covers
      <4> QED
        BY <1>2, <4>2, <4>3
    <3>2. ASSUME NEW x \in addresses PROVE x \in InRanges(m)
      <4>1. PICK i \in 1 .. n : x \in r[i].first .. r[i].last
        BY <1>2 DEF InRanges
      <4>2. i \in 1 .. n + 1 /\ x \in m[i].first .. m[i].last
        BY <1>2, <2>2, <4>1
      <4> QED
        BY <2>2, <4>2 DEF InRanges
    <3>3. ASSUME NEW x \in Covers(p) PROVE x \in InRanges(m)
      <4>1. n + 1 \in 1 .. n + 1 /\ x \in m[n + 1].first .. m[n + 1].last
        BY <1>2, <1>3, <2>2 DEF Covers
      <4> QED
        BY <2>2, <4>1 DEF InRanges
    <3> QED
      BY <3>1, <3>2, <3>3
  <2>4. ASSUME NEW i \in 1 .. n + 1 PROVE m[i].first <= m[i].last /\ m[i].first < a + 1
    <3>1. CASE i \in 1 .. n
      <4>1. m[i] = r[i] /\ r[i].first \in Nat /\ r[i].first <= r[i].last /\ r[i].first < a
        BY <1>2, <2>2, <3>1
      <4> QED
        BY <4>1
    <3>2. CASE i = n + 1
      BY <1>1, <1>3, <2>2, <3>2
    <3> QED
      BY <1>2, <3>1, <3>2
  <2>5. ASSUME NEW i \in 1 .. n PROVE m[i + 1].first > m[i].last + 1
    <3>1. CASE i \in 1 .. n - 1
      <4>1. i + 1 \in 1 .. n /\ i \in 1 .. n
        BY <1>2, <3>1
      <4> QED
        BY <1>2, <2>2, <3>1, <4>1
    <3>2. CASE i = n
      BY <1>2, <1>3, <1>4, <2>2, <3>2
    <3> QED
      BY <1>2, <3>1, <3>2
  <2>6. Len(m) - 1 = n
    BY <1>2, <2>2
  <2> QED
    BY <2>2, <2>3, <2>4, <2>5, <2>6 DEF RangesHold, m
<1>5. CASE n > 0 /\ p.start <= r[n].last + 1
  <2>1. PICK e \in Nat : /\ e >= r[n].last /\ e >= End(p) /\ e \in {r[n].last, End(p)}
                         /\ m = Lengthened(r, e)
    BY <1>2, <1>5, MergedIs DEF n
  <2> HIDE DEF h, m
  <2>2. /\ m \in Seq(HostRange) /\ Len(m) = n /\ DOMAIN m = 1 .. n
        /\ \A i \in 1 .. n - 1 : m[i] = r[i]
        /\ m[n].first = r[n].first /\ m[n].last = e
    BY <1>2, <1>5, <2>1, LongerRange, RangesAre DEF n
  <2>3. n \in 1 .. n /\ r[n].first \in Nat /\ r[n].last \in Nat
        /\ r[n].first <= r[n].last /\ r[n].first < a
    BY <1>2, <1>5
  <2>4. m[n].first .. m[n].last = (r[n].first .. r[n].last) \union Covers(p)
    BY <1>1, <1>5, <2>1, <2>2, <2>3 DEF Covers
  <2>5. InRanges(m) = addresses \union Covers(p)
    <3>1. ASSUME NEW x \in InRanges(m) PROVE x \in addresses \union Covers(p)
      <4>1. PICK i \in 1 .. n : x \in m[i].first .. m[i].last
        BY <2>2 DEF InRanges
      <4>2. CASE i \in 1 .. n - 1
        BY <1>2, <2>2, <4>1, <4>2 DEF InRanges
      <4>3. CASE i = n
        BY <1>2, <2>4, <4>1, <4>3 DEF InRanges
      <4> QED
        BY <1>2, <4>2, <4>3
    <3>2. ASSUME NEW x \in addresses PROVE x \in InRanges(m)
      <4>1. PICK i \in 1 .. n : x \in r[i].first .. r[i].last
        BY <1>2 DEF InRanges
      <4>2. CASE i \in 1 .. n - 1
        BY <2>2, <4>1, <4>2 DEF InRanges
      <4>3. CASE i = n
        BY <2>2, <2>4, <4>1, <4>3 DEF InRanges
      <4> QED
        BY <1>2, <4>2, <4>3
    <3>3. ASSUME NEW x \in Covers(p) PROVE x \in InRanges(m)
      BY <2>2, <2>3, <2>4 DEF InRanges
    <3> QED
      BY <3>1, <3>2, <3>3
  <2>6. ASSUME NEW i \in 1 .. n PROVE m[i].first <= m[i].last /\ m[i].first < a + 1
    <3>1. CASE i \in 1 .. n - 1
      BY <1>2, <2>2, <3>1
    <3>2. CASE i = n
      BY <2>1, <2>2, <2>3, <3>2
    <3> QED
      BY <1>2, <3>1, <3>2
  <2>7. ASSUME NEW i \in 1 .. n - 1 PROVE m[i + 1].first > m[i].last + 1
    <3>1. m[i + 1].first = r[i + 1].first
      <4>1. i + 1 \in 1 .. n - 1 \/ i + 1 = n
        BY <1>2
      <4> QED
        BY <2>2, <4>1
    <3> QED
      BY <1>2, <2>2, <3>1
  <2> QED
    BY <2>2, <2>5, <2>6, <2>7 DEF RangesHold, m
<1> QED
  BY <1>2, <1>4, <1>5

StartsBefore(set, a) == {p \in set : p.start < a}

\* The ranges of prefixes that are apart hold their addresses.
LEMMA HostRangesHold ==
  ASSUME NEW set \in SUBSET Cidrs, Apart(set)
  PROVE  RangesHold(HostRanges(set), Space, Coverage(set))
<1> DEFINE From(a) == {p \in set : p.start = a}
           first(a) == CHOOSE p \in From(a) : IsFirst(p, From(a))
           Step(r, i) == IF From(i - 1) = {} THEN r ELSE Merged(r, first(i - 1))
           Recursion(f) == f = [i \in 0 .. Space |-> IF i = 0 THEN <<>> ELSE Step(f[i - 1], i)]
           upTo == CHOOSE f : Recursion(f)
<1>1. Space \in Nat /\ HostRanges(set) = upTo[Space]
  BY AddressAssumption DEF HostRanges
<1>2. ASSUME NEW i \in 1 .. Space, From(i - 1) # {}
      PROVE  /\ first(i - 1) \in Cidrs /\ first(i - 1).start = i - 1
             /\ From(i - 1) = {first(i - 1)}
  <2>1. PICK p \in set : p.start = i - 1
    BY <1>2
  <2>2. p \in Cidrs /\ p.start \in Covers(p) /\ p.size \in Nat
    BY CidrIsAligned DEF Covers
  <2>3. \A q \in From(i - 1) : q = p
    <3>1. ASSUME NEW q \in set, q.start = i - 1 PROVE q = p
      <4>1. q.start \in Covers(q)
        BY CidrIsAligned DEF Covers
      <4> QED
        BY <2>1, <2>2, <3>1, <4>1 DEF Apart
    <3> QED
      BY <3>1
  <2>4. p \in From(i - 1) /\ IsFirst(p, From(i - 1))
    BY <2>1, <2>2, <2>3 DEF IsFirst
  <2>5. first(i - 1) \in From(i - 1)
    BY <2>4
  <2>6. first(i - 1) = p
    BY <2>3, <2>5
  <2> QED
    BY <2>1, <2>2, <2>3, <2>4, <2>6
<1>3. ASSUME NEW i \in 1 .. Space, NEW r \in Seq(HostRange) PROVE Step(r, i) \in Seq(HostRange)
  <2>1. CASE From(i - 1) # {}
    <3> DEFINE p == first(i - 1)
    <3>1. p \in Cidrs
      BY <1>2, <2>1
    <3> HIDE DEF p
    <3>2. p.start \in Nat /\ End(p) \in Nat
      BY <3>1, CidrIsAligned
    <3>3. [first |-> p.start, last |-> End(p)] \in HostRange
      BY <3>2 DEF HostRange
    <3>4. Len(r) \in Nat /\ (Len(r) > 0 => r[Len(r)].last \in Nat)
      BY RangesAre
    <3>5. CASE Len(r) = 0 \/ p.start > r[Len(r)].last + 1
      <4>1. Merged(r, p) \in Seq(HostRange)
        BY <3>1, <3>3, <3>5, MergedIs, AppendRange
      <4> QED
        BY <2>1, <4>1 DEF p
    <3>6. CASE Len(r) > 0 /\ p.start <= r[Len(r)].last + 1
      <4>1. PICK e \in Nat : Merged(r, p) = Lengthened(r, e)
        BY <3>1, <3>6, MergedIs
      <4>2. Merged(r, p) \in Seq(HostRange)
        BY <3>6, <4>1, LongerRange
      <4> QED
        BY <2>1, <4>2 DEF p
    <3> QED
      BY <3>2, <3>4, <3>5, <3>6
  <2> QED
    BY <2>1
<1> HIDE DEF Step
<1>4. \E f : Recursion(f)
  <2> DEFINE step == [i \in 1 .. Space |-> [r \in Seq(HostRange) |-> Step(r, i)]]
  <2>1. step \in Steps(Space, Seq(HostRange))
    BY <1>3 DEF Steps
  <2>2. \A i \in 1 .. Space, r \in Seq(HostRange) : step[i][r] = Step(r, i)
    OBVIOUS
  <2> HIDE DEF step
  <2>3. PICK f \in [0 .. Space -> Seq(HostRange)] : Runs(f, Space, <<>>, step)
    <3>1. <<>> \in Seq(HostRange)
      OBVIOUS
    <3>2. HasRun(Space, Seq(HostRange), <<>>, step)
      BY <1>1, <2>1, <3>1, RecursionOverInterval
    <3> QED
      BY <3>2 DEF HasRun
  <2>4. \A i \in 1 .. Space : f[i] = Step(f[i - 1], i)
    BY <1>1, <2>2, <2>3 DEF Runs
  <2>5. f = [i \in 0 .. Space |-> IF i = 0 THEN <<>> ELSE Step(f[i - 1], i)]
    BY <1>1, <2>3, <2>4 DEF Runs
  <2> QED
    BY <2>5
<1>5. Recursion(upTo)
  BY <1>4
<1> HIDE DEF upTo
<1>6. upTo[0] = <<>> /\ \A i \in 1 .. Space : upTo[i] = Step(upTo[i - 1], i)
  BY <1>1, <1>5
<1> DEFINE good == {i \in 0 .. Space : RangesHold(upTo[i], i, Coverage(StartsBefore(set, i)))}
<1>7. 0 \in good
  <2>1. Coverage(StartsBefore(set, 0)) = {}
    BY CidrIsAligned DEF Coverage, StartsBefore
  <2>2. RangesHold(<<>>, 0, {})
    BY DEF RangesHold, InRanges
  <2>3. RangesHold(upTo[0], 0, Coverage(StartsBefore(set, 0)))
    BY <1>6, <2>1, <2>2, Zenon
  <2> QED
    BY <1>1, <2>3
<1>8. ASSUME NEW i \in 1 .. Space, i - 1 \in good PROVE i \in good
  <2>1. RangesHold(upTo[i - 1], i - 1, Coverage(StartsBefore(set, i - 1))) /\ i - 1 \in Nat
    BY <1>8
  <2>2. upTo[i] = Step(upTo[i - 1], i)
    BY <1>6
  <2>3. StartsBefore(set, i) = StartsBefore(set, i - 1) \union From(i - 1)
    BY CidrIsAligned DEF StartsBefore
  <2>4. CASE From(i - 1) = {}
    <3>1. upTo[i] = upTo[i - 1] /\ Coverage(StartsBefore(set, i)) = Coverage(StartsBefore(set, i - 1))
      BY <2>2, <2>3, <2>4 DEF Step
    <3>2. RangesHold(upTo[i - 1], i, Coverage(StartsBefore(set, i - 1)))
      <4>1. \A k \in 1 .. Len(upTo[i - 1]) : upTo[i - 1][k].first \in Nat
        BY <2>1, RangesAre DEF RangesHold
      <4> QED
        BY <2>1, <4>1 DEF RangesHold
    <3> QED
      BY <3>1, <3>2
  <2>5. CASE From(i - 1) # {}
    <3> DEFINE p == first(i - 1)
    <3>1. p \in Cidrs /\ p.start = i - 1 /\ From(i - 1) = {p}
      BY <1>2, <2>5
    <3>2. upTo[i] = Merged(upTo[i - 1], p)
      BY <2>2, <2>5 DEF Step
    <3> HIDE DEF p
    <3>3. Coverage(StartsBefore(set, i)) = Coverage(StartsBefore(set, i - 1)) \union Covers(p)
      <4>1. Coverage(StartsBefore(set, i)) = Coverage(StartsBefore(set, i - 1)) \union Coverage(From(i - 1))
        BY <2>3, CoverageOfUnion
      <4> QED
        BY <3>1, <4>1, CoverageOfOne
    <3>4. RangesHold(Merged(upTo[i - 1], p), (i - 1) + 1, Coverage(StartsBefore(set, i - 1)) \union Covers(p))
      BY <2>1, <3>1, MergedHolds
    <3> QED
      BY <3>2, <3>3, <3>4
  <2> QED
    BY <2>4, <2>5
<1> HIDE DEF good
<1>9. Space \in good
  BY <1>1, <1>7, <1>8, UpTo
<1>10. Coverage(StartsBefore(set, Space)) = Coverage(set)
  <2>1. \A p \in set : p.start < Space
    BY CidrIsAligned, AddressAssumption
  <2>2. StartsBefore(set, Space) = set
    BY <2>1 DEF StartsBefore
  <2> QED
    BY <2>2
<1> QED
  BY <1>1, <1>9, <1>10 DEF good

\* The scanner gets the addresses of a target as the fewest ranges: sorted, apart
\* from each other, without losing or adding an address (HostRangesAreExact).
THEOREM ScannerGetsTheTargets == Spec => []HostRangesAreExact
<1>1. ASSUME PlanInv, pc = "built", NEW t \in targets
      PROVE  LET ranges == HostRanges(t.prefixes)
             IN /\ UNION {ranges[i].first .. ranges[i].last : i \in DOMAIN ranges}
                       = Coverage(t.prefixes)
                /\ \A i \in 1 .. Len(ranges) - 1 : ranges[i + 1].first > ranges[i].last + 1
  <2>1. TypeInv /\ KeptInv /\ TargetsAre(targets)
    BY <1>1 DEF PlanInv
  <2>2. t.prefixes \in SUBSET Cidrs /\ t.prefixes \subseteq kept
    BY <2>1 DEF TargetsAre, OfClass, TypeInv
  <2>3. Apart(t.prefixes)
    BY <2>1, <2>2 DEF KeptInv, Apart
  <2>4. RangesHold(HostRanges(t.prefixes), Space, Coverage(t.prefixes))
    BY <2>2, <2>3, HostRangesHold
  <2> QED
    BY <2>4 DEF RangesHold, InRanges
<1>2. PlanInv => HostRangesAreExact
  BY <1>1 DEF HostRangesAreExact
<1> QED
  BY <1>2, PlanAlways, PTL
=============================================================================
