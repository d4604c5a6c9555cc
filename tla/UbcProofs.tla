------------------------------ MODULE UbcProofs ------------------------------
(***************************************************************************)
(* The filter is right for every block where its tables are.  A form       *)
(* decides for a DV by the conditions it tests for it, in whatever order   *)
(* and however spread over lanes, accumulators, prefix and tail; and sets  *)
(* of conditions with one span hold of the same schedules.  That each of   *)
(* the tables spans the rules of the C original is left to be computed.    *)
(***************************************************************************)
EXTENDS UbcCheck, TLAPS, FiniteSetTheorems, WellFoundedInduction

(* A set of numbers that is not empty has a least one.                     *)
LEMMA LeastElement ==
  ASSUME NEW S \in SUBSET Nat, S # {}
  PROVE  \E m \in S : \A k \in S : m <= k
<1>1. \E m \in S : \A k \in S : ~ (<<k, m>> \in OpToRel(<, Nat))
  BY NatLessThanWellFounded, WFMin
<1>2. ASSUME NEW k \in Nat, NEW m \in Nat, k < m
      PROVE  <<k, m>> \in OpToRel(<, Nat)
  <2> DEFINE p == <<k, m>>
  <2>1. p \in Nat \X Nat /\ p[1] = k /\ p[2] = m
    OBVIOUS
  <2> HIDE DEF p
  <2>2. p[1] < p[2]
    BY <2>1, <1>2
  <2>3. p \in OpToRel(<, Nat)
    BY <2>1, <2>2 DEF OpToRel
  <2> QED BY <2>3 DEF p
<1>3. \A m \in Nat : \A k \in Nat : ~ (k < m) => m <= k
  OBVIOUS
<1> QED BY <1>1, <1>2, <1>3

-----------------------------------------------------------------------------
(* The XOR of two bits, by way of a third.                                 *)
LEMMA BitXorFacts ==
  ASSUME NEW s, NEW x, NEW y, NEW z
  PROVE  /\ BitXor(s, x, y) \in {0, 1}
         /\ BitXor(s, x, x) = 0
         /\ BitXor(s, x, y) = BitXor(s, y, x)
         /\ BitXor(s, x, z) = IF BitXor(s, x, y) = BitXor(s, y, z) THEN 0 ELSE 1
BY DEF BitXor, Bit

(* Ties over the bits of D, each bit tied to one that is tied to itself.   *)
Canonical(D, ties) ==
  /\ ties \in [D -> D \X {0, 1}]
  /\ \A x \in D : ties[ties[x][1]] = <<ties[x][1], 0>>

(* The schedules that ties leave possible.                                 *)
Means(s, ties) ==
  /\ ties # Contradiction
  /\ \A x \in DOMAIN ties : BitXor(s, x, ties[x][1]) = ties[x][2]

(* Such ties are no contradiction, and cover their bits.                   *)
LEMMA CanonicalIsPossible ==
  ASSUME NEW D, NEW ties, Canonical(D, ties)
  PROVE  ties # Contradiction /\ DOMAIN ties = D
<1>1. ties \in [D -> D \X {0, 1}]
  BY DEF Canonical
<1>2. ASSUME ties = Contradiction PROVE FALSE
  <2>1. DOMAIN ties = {0} /\ ties[0] = <<0, 2>>
    BY <1>2 DEF Contradiction
  <2>2. ties[0] \in D \X {0, 1}
    BY <1>1, <2>1
  <2>3. ties[0][2] = 2 /\ ties[0][2] \in {0, 1}
    BY <2>1, <2>2
  <2> QED BY <2>3
<1> QED BY <1>1, <1>2

Merged(D, ties, kept, lost, odd) ==
  [x \in D |-> IF ties[x][1] = lost THEN <<kept, (ties[x][2] + odd) % 2>> ELSE ties[x]]

(* Two trees become one: what hung on the lost root hangs on the kept one. *)
LEMMA MergedTies ==
  ASSUME NEW D, NEW ties, Canonical(D, ties), NEW kept \in D, NEW lost \in D, kept # lost,
         ties[kept] = <<kept, 0>>, ties[lost] = <<lost, 0>>, NEW odd \in {0, 1}
  PROVE  /\ Canonical(D, Merged(D, ties, kept, lost, odd))
         /\ \A s : Means(s, Merged(D, ties, kept, lost, odd)) <=>
                     Means(s, ties) /\ BitXor(s, lost, kept) = odd
<1> DEFINE new == Merged(D, ties, kept, lost, odd)
<1>1. /\ ties \in [D -> D \X {0, 1}]
      /\ \A x \in D : ties[x][1] \in D /\ ties[x][2] \in {0, 1}
  BY DEF Canonical
<1>2. ASSUME NEW x \in D
      PROVE  /\ ties[x][1] = lost => /\ new[x][1] = kept /\ new[x][2] \in {0, 1}
                                     /\ new[x] = <<kept, new[x][2]>>
                                     /\ new[x][2] = IF ties[x][2] = odd THEN 0 ELSE 1
             /\ ties[x][1] # lost => new[x] = ties[x]
  <2>1. ties[x][2] \in {0, 1}
    BY <1>1
  <2>2. (ties[x][2] + odd) % 2 = IF ties[x][2] = odd THEN 0 ELSE 1
    BY <2>1
  <2> QED BY <2>1, <2>2 DEF Merged
<1>3. Canonical(D, new)
  <2>1. new \in [D -> D \X {0, 1}]
    <3>1. \A x \in D : new[x] \in D \X {0, 1}
      BY <1>1, <1>2
    <3> QED BY <3>1 DEF Merged
  <2>2. ASSUME NEW x \in D PROVE new[new[x][1]] = <<new[x][1], 0>>
    <3>1. CASE ties[x][1] = lost
      <4>1. new[x][1] = kept
        BY <1>2, <3>1
      <4>2. new[kept] = ties[kept]
        BY <1>2
      <4> QED BY <4>1, <4>2
    <3>2. CASE ties[x][1] # lost
      <4> DEFINE r == ties[x][1]
      <4>1. r \in D /\ new[x][1] = r /\ ties[r] = <<r, 0>>
        BY <1>1, <1>2, <3>2 DEF Canonical
      <4>2. ties[r][1] # lost
        BY <4>1, <3>2
      <4>3. new[r] = ties[r]
        BY <4>1, <4>2, <1>2
      <4> QED BY <4>1, <4>3
    <3> QED BY <3>1, <3>2
  <2> HIDE DEF new
  <2> QED BY <2>1, <2>2 DEF Canonical
<1>4. ASSUME NEW s
      PROVE  Means(s, new) <=> Means(s, ties) /\ BitXor(s, lost, kept) = odd
  <2>1. /\ Means(s, new) <=> \A x \in D : BitXor(s, x, new[x][1]) = new[x][2]
        /\ Means(s, ties) <=> \A x \in D : BitXor(s, x, ties[x][1]) = ties[x][2]
    BY <1>3, CanonicalIsPossible DEF Means
  <2>2. ASSUME Means(s, new) PROVE BitXor(s, lost, kept) = odd
    <3>1. new[lost][1] = kept /\ new[lost][2] = IF 0 = odd THEN 0 ELSE 1
      BY <1>2
    <3> QED BY <2>1, <2>2, <3>1
  <2>3. ASSUME BitXor(s, lost, kept) = odd, NEW x \in D
        PROVE  BitXor(s, x, new[x][1]) = new[x][2] <=> BitXor(s, x, ties[x][1]) = ties[x][2]
    <3>1. CASE ties[x][1] # lost
      BY <3>1, <1>2
    <3>2. CASE ties[x][1] = lost
      <4>1. /\ BitXor(s, x, lost) \in {0, 1}
            /\ BitXor(s, x, kept) = IF BitXor(s, x, lost) = odd THEN 0 ELSE 1
        BY <2>3, BitXorFacts
      <4>2. new[x][1] = kept /\ new[x][2] = (IF ties[x][2] = odd THEN 0 ELSE 1) /\ ties[x][2] \in {0, 1}
        BY <3>2, <1>1, <1>2
      <4> QED BY <4>1, <4>2, <3>2
    <3> QED BY <3>1, <3>2
  <2> HIDE DEF new
  <2> QED BY <2>1, <2>2, <2>3
<1> QED BY <1>3, <1>4

(* One more condition: the ties say what they said, and it.                *)
LEMMA TieMeans ==
  ASSUME NEW D \in SUBSET Nat, NEW cond \in D \X D \X {0, 1}, NEW ties, Canonical(D, ties)
  PROVE  /\ Tie(cond, ties) = Contradiction \/ Canonical(D, Tie(cond, ties))
         /\ \A s : Means(s, Tie(cond, ties)) <=> Means(s, ties) /\ Holds(s, cond)
<1> DEFINE u == cond[1]
           v == cond[2]
           c == cond[3]
           a == ties[u]
           b == ties[v]
           odd == (a[2] + b[2] + c) % 2
<1>1. u \in D /\ v \in D /\ c \in {0, 1}
  OBVIOUS
<1>2. /\ a \in D \X {0, 1} /\ b \in D \X {0, 1}
      /\ ties[a[1]] = <<a[1], 0>> /\ ties[b[1]] = <<b[1], 0>>
  BY <1>1 DEF Canonical
<1>3. ties # Contradiction /\ DOMAIN ties = D
  BY CanonicalIsPossible
<1>4. Tie(cond, ties) =
        LET kept == IF a[1] < b[1] THEN a[1] ELSE b[1]
        IN IF a[1] = b[1]
           THEN IF odd = 0 THEN ties ELSE Contradiction
           ELSE [x \in D |->
                  IF ties[x][1] \in {a[1], b[1]} \ {kept}
                  THEN <<kept, (ties[x][2] + odd) % 2>> ELSE ties[x]]
  BY <1>3 DEF Tie
<1>5. \A s : Holds(s, cond) <=> BitXor(s, u, v) = c
  BY DEF Holds
<1> DEFINE p == a[1]
           q == b[1]
           i == a[2]
           j == b[2]
<1>6. p \in D /\ q \in D /\ i \in {0, 1} /\ j \in {0, 1} /\ p \in Nat /\ q \in Nat
  BY <1>2
<1>7. odd \in {0, 1} /\ (odd = 0 <=> (i = j <=> c = 0))
  <2>1. \A x, y, z \in {0, 1} :
          (x + y + z) % 2 \in {0, 1} /\ ((x + y + z) % 2 = 0 <=> (x = y <=> z = 0))
    OBVIOUS
  <2> QED BY <2>1, <1>1, <1>6
<1>8. ASSUME NEW s, Means(s, ties)
      PROVE  /\ BitXor(s, u, p) = i /\ BitXor(s, v, q) = j
             /\ Holds(s, cond) <=> BitXor(s, p, q) = odd
             /\ BitXor(s, p, q) = BitXor(s, q, p)
  <2>1. BitXor(s, u, p) = i /\ BitXor(s, v, q) = j
    BY <1>1, <1>3, <1>8 DEF Means
  <2>2. /\ BitXor(s, p, q) \in {0, 1} /\ BitXor(s, p, q) = BitXor(s, q, p)
        /\ BitXor(s, u, q) = IF BitXor(s, u, p) = BitXor(s, p, q) THEN 0 ELSE 1
        /\ BitXor(s, u, v) = IF BitXor(s, u, q) = BitXor(s, q, v) THEN 0 ELSE 1
        /\ BitXor(s, q, v) = BitXor(s, v, q)
    BY BitXorFacts
  <2> HIDE DEF i, j, c, p, q, u, v, odd
  <2>3. BitXor(s, u, v) = c <=> BitXor(s, p, q) = odd
    BY <2>1, <2>2, <1>1, <1>6, <1>7
  <2> QED BY <2>1, <2>2, <2>3, <1>5
<1>9. CASE p = q
  <2>1. Tie(cond, ties) = IF odd = 0 THEN ties ELSE Contradiction
    BY <1>4, <1>9
  <2>2. \A s : BitXor(s, p, q) = 0
    BY <1>9, BitXorFacts
  <2>3. \A s : ~ Means(s, Contradiction)
    BY DEF Means
  <2> HIDE DEF i, j, c, p, q, u, v, odd
  <2>4. CASE odd = 0
    BY <2>1, <2>2, <2>4, <1>8
  <2>5. CASE odd # 0
    BY <2>1, <2>2, <2>3, <2>5, <1>8
  <2> QED BY <2>4, <2>5
<1>10. CASE p # q
  <2> DEFINE kept == IF p < q THEN p ELSE q
             lost == IF p < q THEN q ELSE p
  <2>1. /\ {p, q} \ {kept} = {lost} /\ kept # lost /\ kept \in D /\ lost \in D
        /\ (kept = p /\ lost = q) \/ (kept = q /\ lost = p)
    BY <1>6, <1>10
  <2>2. Tie(cond, ties) = Merged(D, ties, kept, lost, odd)
    BY <1>4, <1>10, <2>1 DEF Merged
  <2>3. ties[kept] = <<kept, 0>> /\ ties[lost] = <<lost, 0>>
    BY <1>2
  <2> HIDE DEF i, j, c, p, q, u, v, odd, kept, lost
  <2>4. /\ Canonical(D, Tie(cond, ties))
        /\ \A s : Means(s, Tie(cond, ties)) <=> Means(s, ties) /\ BitXor(s, lost, kept) = odd
    BY <2>1, <2>2, <2>3, <1>7, MergedTies
  <2>5. ASSUME NEW s, Means(s, ties)
        PROVE  BitXor(s, lost, kept) = BitXor(s, p, q)
    BY <2>1, <2>5, <1>8
  <2> QED BY <2>4, <2>5, <1>8
<1> QED BY <1>9, <1>10
-----------------------------------------------------------------------------
(* The fold of Tie over a set of conditions, in the order FoldSet picks.   *)
Bits(conds) == UNION {{cond[1], cond[2]} : cond \in conds}
Untied(conds) == [x \in Bits(conds) |-> <<x, 0>>]
Taken(conds) == CHOOSE cond \in conds : TRUE

Folds(conds, g) ==
  g = [t \in SUBSET conds |->
        IF t = {} THEN Untied(conds) ELSE Tie(Taken(t), g[t \ {Taken(t)}])]

(* A span is such a fold.                                                  *)
LEMMA SpanIsFold ==
  ASSUME NEW conds, \E g : Folds(conds, g)
  PROVE  \E g : Folds(conds, g) /\ Span(conds) = g[conds]
<1> DEFINE g == CHOOSE g : Folds(conds, g)
<1>1. Folds(conds, g)
  OBVIOUS
<1>2. Span(conds) = g[conds]
  BY DEF Span, FoldSet, MapThenFoldSet, Folds, Untied, Bits, Taken
<1> QED BY <1>1, <1>2

(* Such a fold exists: over sets of up to m conditions, for every m.       *)
LEMMA FoldExists ==
  ASSUME NEW conds, IsFiniteSet(conds)
  PROVE  \E g : Folds(conds, g)
<1> DEFINE Small(m) == {t \in SUBSET conds : Cardinality(t) <= m}
           Upto(m, g) == \A t \in Small(m) :
             g[t] = IF t = {} THEN Untied(conds) ELSE Tie(Taken(t), g[t \ {Taken(t)}])
           Without == {m \in Nat : ~ \E g : Upto(m, g)}
<1>1. ASSUME NEW t \in SUBSET conds
      PROVE  /\ IsFiniteSet(t) /\ Cardinality(t) \in Nat
             /\ t # {} => /\ t \ {Taken(t)} \in SUBSET conds
                         /\ Cardinality(t \ {Taken(t)}) = Cardinality(t) - 1
             /\ Cardinality(t) = 0 => t = {}
  <2>1. IsFiniteSet(t) /\ Cardinality(t) \in Nat /\ (Cardinality(t) = 0 => t = {})
    BY FS_Subset, FS_CardinalityType, FS_EmptySet
  <2>2. t # {} => Taken(t) \in t
    BY DEF Taken
  <2> QED BY <2>1, <2>2, FS_RemoveElement
<1>2. ASSUME NEW m \in Nat, NEW g, Upto(m, g)
      PROVE  \E h : Upto(m + 1, h)
  <2> DEFINE h == [t \in SUBSET conds |->
                    IF t = {} THEN Untied(conds) ELSE Tie(Taken(t), g[t \ {Taken(t)}])]
  <2>1. ASSUME NEW t \in Small(m) PROVE h[t] = g[t]
    BY <1>2
  <2>2. ASSUME NEW t \in Small(m + 1), t # {}
        PROVE  t \ {Taken(t)} \in Small(m)
    BY <1>1, <2>2
  <2>3. ASSUME NEW t \in Small(m + 1)
        PROVE  h[t] = IF t = {} THEN Untied(conds) ELSE Tie(Taken(t), h[t \ {Taken(t)}])
    BY <2>1, <2>2
  <2> QED BY <2>3
<1>3. \E g : Upto(0, g)
  <2> DEFINE g == [t \in SUBSET conds |-> Untied(conds)]
  <2>1. ASSUME NEW t \in Small(0) PROVE t = {}
    <3>1. t \in SUBSET conds /\ Cardinality(t) <= 0
      OBVIOUS
    <3>2. Cardinality(t) \in Nat /\ (Cardinality(t) = 0 => t = {})
      BY <3>1, <1>1
    <3>3. Cardinality(t) = 0
      BY <3>1, <3>2
    <3> QED BY <3>2, <3>3
  <2>2. \A t \in SUBSET conds : g[t] = Untied(conds)
    OBVIOUS
  <2>3. Upto(0, g)
    BY <2>1, <2>2
  <2> HIDE DEF Upto, g
  <2> QED BY <2>3
<1> HIDE DEF Upto
<1>4. Without = {}
  <2> SUFFICES ASSUME Without # {} PROVE FALSE
    OBVIOUS
  <2>1. PICK m \in Without : \A k \in Without : m <= k
    BY LeastElement
  <2>2. m # 0
    BY <2>1, <1>3
  <2>3. PICK k \in Nat : m = k + 1
    <3>1. m \in Nat /\ m - 1 \in Nat /\ m = (m - 1) + 1
      BY <2>1, <2>2
    <3> QED BY <3>1
  <2>4. k \notin Without
    BY <2>1, <2>3
  <2>5. PICK g : Upto(k, g)
    BY <2>3, <2>4
  <2>6. \E h : Upto(k + 1, h)
    BY <2>3, <2>5, <1>2
  <2> QED BY <2>1, <2>3, <2>6
<1> DEFINE m == Cardinality(conds)
<1>5. m \in Nat
  BY <1>1
<1>6. PICK g : Upto(m, g)
  BY <1>4, <1>5
<1> USE DEF Upto
<1> DEFINE f == [t \in SUBSET conds |-> g[t]]
<1>7. \A t \in SUBSET conds : t \in Small(m)
  BY FS_Subset
<1>8. \A t \in SUBSET conds : t # {} => t \ {Taken(t)} \in SUBSET conds
  OBVIOUS
<1>9. \A t \in SUBSET conds :
        f[t] = IF t = {} THEN Untied(conds) ELSE Tie(Taken(t), f[t \ {Taken(t)}])
  BY <1>6, <1>7, <1>8
<1>10. Folds(conds, f)
  BY <1>9 DEF Folds
<1> QED BY <1>10

(* What a set of conditions spans is what the schedules that meet it are.  *)
THEOREM SpanMeans ==
  ASSUME NEW conds, IsFiniteSet(conds), conds \subseteq Nat \X Nat \X {0, 1}, NEW s
  PROVE  Means(s, Span(conds)) <=> \A cond \in conds : Holds(s, cond)
<1> DEFINE D == Bits(conds)
<1>1. PICK g : Folds(conds, g) /\ Span(conds) = g[conds]
  BY FoldExists, SpanIsFold
<1>2. D \in SUBSET Nat /\ \A cond \in conds : cond \in D \X D \X {0, 1}
  BY DEF Bits
<1> DEFINE Right(t) == /\ g[t] = Contradiction \/ Canonical(D, g[t])
                       /\ Means(s, g[t]) <=> \A cond \in t : Holds(s, cond)
           Wrong == {t \in SUBSET conds : ~ Right(t)}
           Sizes == {Cardinality(t) : t \in Wrong}
<1>3. Right({})
  <2>1. g[{}] = Untied(conds)
    BY <1>1 DEF Folds
  <2>2. Canonical(D, Untied(conds))
    BY DEF Canonical, Untied
  <2>3. Means(s, Untied(conds))
    BY <2>2, CanonicalIsPossible, BitXorFacts DEF Means, Untied
  <2> QED BY <2>1, <2>2, <2>3
<1>4. ASSUME NEW t \in SUBSET conds, t # {}, Right(t \ {Taken(t)})
      PROVE  Right(t)
  <2> DEFINE cond == Taken(t)
             less == t \ {cond}
             ties == g[less]
  <2>1. cond \in t /\ cond \in D \X D \X {0, 1} /\ less \in SUBSET conds
    BY <1>2, <1>4 DEF Taken
  <2>2. g[t] = Tie(cond, ties)
    BY <1>1, <1>4, <2>1 DEF Folds
  <2>3. (\A e \in t : Holds(s, e)) <=> (\A e \in less : Holds(s, e)) /\ Holds(s, cond)
    BY <2>1
  <2>4. /\ ties = Contradiction \/ Canonical(D, ties)
        /\ Means(s, ties) <=> \A e \in less : Holds(s, e)
    BY <1>4
  <2> HIDE DEF cond, less, ties, D
  <2>5. CASE ties = Contradiction
    <3>1. Tie(cond, ties) = Contradiction /\ ~ Means(s, ties) /\ ~ Means(s, Contradiction)
      BY <2>5 DEF Tie, Means
    <3> QED BY <3>1, <2>2, <2>3, <2>4
  <2>6. CASE Canonical(D, ties)
    <3>1. /\ Tie(cond, ties) = Contradiction \/ Canonical(D, Tie(cond, ties))
          /\ Means(s, Tie(cond, ties)) <=> Means(s, ties) /\ Holds(s, cond)
      BY <2>1, <2>6, <1>2, TieMeans
    <3> QED BY <3>1, <2>2, <2>3, <2>4
  <2> QED BY <2>4, <2>5, <2>6
<1>5. ASSUME NEW t \in SUBSET conds, t # {}
      PROVE  /\ t \ {Taken(t)} \in SUBSET conds /\ Cardinality(t) \in Nat
             /\ Cardinality(t \ {Taken(t)}) \in Nat /\ Cardinality(t \ {Taken(t)}) < Cardinality(t)
  <2>1. Taken(t) \in t
    BY <1>5 DEF Taken
  <2>2. IsFiniteSet(t) /\ Cardinality(t) \in Nat
    BY FS_Subset, FS_CardinalityType
  <2>3. IsFiniteSet(t \ {Taken(t)}) /\ Cardinality(t \ {Taken(t)}) = Cardinality(t) - 1
    BY <2>1, <2>2, FS_RemoveElement
  <2> QED BY <2>2, <2>3, FS_CardinalityType
<1> HIDE DEF Right
<1>6. Wrong = {}
  <2> SUFFICES ASSUME Wrong # {} PROVE FALSE
    OBVIOUS
  <2>1. Sizes \in SUBSET Nat /\ Sizes # {}
    BY <1>3, <1>5
  <2>2. PICK k \in Sizes : \A j \in Sizes : k <= j
    BY <2>1, LeastElement
  <2>3. PICK t \in Wrong : k = Cardinality(t)
    OBVIOUS
  <2>4. t # {} /\ t \ {Taken(t)} \in Wrong
    BY <2>3, <1>3, <1>4, <1>5
  <2>5. Cardinality(t) <= Cardinality(t \ {Taken(t)})
    BY <2>2, <2>3, <2>4
  <2> QED BY <2>3, <2>4, <2>5, <1>5
<1>7. Right(conds)
  BY <1>6
<1> QED BY <1>1, <1>7 DEF Right
-----------------------------------------------------------------------------
(* The inductive invariant.                                                *)
Forms == {"scalar", "neon", "sse2", "avx2"}

(* What a statement of the scalar prefix, and a lane of a group, clears.   *)
ScalarClears(k, dv) == dv \in ScalarPrefix[k][6] /\ ~Holds(w, Condition(ScalarPrefix[k]))

LaneClears(k, lane, dv) ==
  /\ dv \in Prefix[form][k].dvs[Listed(form, lane)]
  /\ ~Holds(w, LaneCondition(form, Prefix[form][k], lane))

Clears(k, dv) ==
  IF form = "scalar" THEN ScalarClears(k, dv)
  ELSE \E lane \in 0 .. Width[form] - 1 : LaneClears(k, lane, dv)

Survivors == {dv \in DVs : \A k \in 1 .. Len(Prefix[form]) : ~Clears(k, dv)}

(* In the scalar prefix the mask has lost what the statements so far clear *)
(* and nothing else; in a vector prefix each accumulator has, lane by      *)
(* lane, what the groups before clear that are its own.                    *)
ScalarInv ==
  pc = "prefix" /\ form = "scalar" =>
    mask = {dv \in DVs : \A k \in 1 .. n - 1 : ~ScalarClears(k, dv)}

VectorInv ==
  pc = "prefix" /\ form # "scalar" =>
    /\ mask = DVs
    /\ DOMAIN acc = {1, 2}
    /\ \A i \in {1, 2} :
         /\ DOMAIN acc[i] = 0 .. Width[form] - 1
         /\ \A lane \in 0 .. Width[form] - 1 : \A dv :
              dv \in acc[i][lane] <=>
                \E k \in 1 .. n - 1 : i = 2 - (k % 2) /\ LaneClears(k, lane, dv)

(* After it the mask stays what the prefix left, and the tail has cleared  *)
(* of it those it is done with that fail a check of theirs.                *)
MaskInv == pc # "prefix" => mask = Survivors

TableInv ==
  pc = "tail" /\ form # "neon" =>
    /\ rest \subseteq mask
    /\ out = {dv \in mask : dv \in rest \/ \A cond \in TailOf(form, dv) : Holds(w, cond)}

NeonInv ==
  pc = "tail" /\ form = "neon" =>
    /\ n \in 1 .. Len(NeonTail) + 1
    /\ out = {dv \in mask : \A k \in 1 .. n - 1 : NeonTail[k][1] = dv => ~Fails(NeonTail[k])}

ReturnInv ==
  pc = "returned" =>
    out = {dv \in DVs : \A cond \in Tests(form, dv) : Holds(w, cond)}

(* All of it, with where a call can be.                                    *)
IInv ==
  /\ form \in Forms /\ pc \in {"prefix", "tail", "returned"}
  /\ pc = "prefix" => n \in 1 .. Len(Prefix[form]) + 1
  /\ ScalarInv /\ VectorInv /\ MaskInv /\ TableInv /\ NeonInv /\ ReturnInv

-----------------------------------------------------------------------------
(* What a DV is tested for is what can clear it.                           *)
LEMMA TestsClear ==
  ASSUME form \in Forms, NEW dv
  PROVE  (\A cond \in PrefixTests(form, dv) : Holds(w, cond)) <=>
         (\A k \in 1 .. Len(Prefix[form]) : ~Clears(k, dv))
<1>1. form \in DOMAIN Prefix
  BY DEF Forms, Prefix
<1>2. DOMAIN Prefix[form] = 1 .. Len(Prefix[form])
  BY <1>1, UbcTablesAssumption
<1>3. CASE form = "scalar"
  <2>1. Prefix[form] = ScalarPrefix
    BY <1>3 DEF Prefix
  <2>2. PrefixTests(form, dv) =
          {Condition(ScalarPrefix[k]) : k \in {k \in DOMAIN ScalarPrefix : dv \in ScalarPrefix[k][6]}}
    BY <1>3 DEF PrefixTests
  <2>3. \A k : Clears(k, dv) <=> ScalarClears(k, dv)
    BY <1>3 DEF Clears
  <2> QED BY <1>2, <2>1, <2>2, <2>3 DEF ScalarClears
<1>4. CASE form # "scalar"
  <2> DEFINE Lanes(k) == {lane \in 0 .. Width[form] - 1 : dv \in Prefix[form][k].dvs[Listed(form, lane)]}
             Group1(k) == {LaneCondition(form, Prefix[form][k], lane) : lane \in Lanes(k)}
  <2>1. PrefixTests(form, dv) = UNION {Group1(k) : k \in DOMAIN Prefix[form]}
    BY <1>4 DEF PrefixTests
  <2>2. ASSUME NEW k
        PROVE  (\A cond \in Group1(k) : Holds(w, cond)) <=> ~Clears(k, dv)
    BY <1>4 DEF Clears, LaneClears
  <2>3. (\A cond \in PrefixTests(form, dv) : Holds(w, cond)) <=>
          \A k \in DOMAIN Prefix[form] : \A cond \in Group1(k) : Holds(w, cond)
    BY <2>1
  <2> HIDE DEF Group1
  <2> QED BY <1>2, <2>2, <2>3
<1> QED BY <1>3, <1>4

(* NEON's tail tests of a DV what the rows of it do.                       *)
LEMMA NeonTailFails ==
  ASSUME form = "neon", NEW dv
  PROVE  (\A cond \in TailTests(form, dv) : Holds(w, cond)) <=>
         (\A k \in 1 .. Len(NeonTail) : NeonTail[k][1] = dv => ~Fails(NeonTail[k]))
<1> DEFINE Of(k) == {Condition(NeonTail[k][2][i]) : i \in DOMAIN NeonTail[k][2]}
           Rows == {k \in DOMAIN NeonTail : NeonTail[k][1] = dv}
<1>1. TailTests(form, dv) = UNION {Of(k) : k \in Rows}
  BY DEF TailTests
<1>2. ASSUME NEW k
      PROVE  (\A cond \in Of(k) : Holds(w, cond)) <=> ~Fails(NeonTail[k])
  BY DEF Fails
<1>3. (\A cond \in TailTests(form, dv) : Holds(w, cond)) <=>
        \A k \in Rows : \A cond \in Of(k) : Holds(w, cond)
  BY <1>1
<1>4. DOMAIN NeonTail = 1 .. Len(NeonTail)
  BY UbcTablesAssumption
<1> HIDE DEF Of
<1> QED BY <1>2, <1>3, <1>4

(* One lane with all of them ORed into it.                                 *)
LEMMA FoldedMeans ==
  ASSUME NEW f \in {"neon", "sse2", "avx2"}, NEW v, DOMAIN v = 0 .. Width[f] - 1, NEW dv
  PROVE  dv \in Folded(f, v) <=> \E lane \in 0 .. Width[f] - 1 : dv \in v[lane]
<1>1. \A x, from : /\ OrShuffled(x, from)[0] = x[0] \cup x[from[1]]
                   /\ OrShuffled(x, from)[1] = x[1] \cup x[from[2]]
                   /\ OrShuffled(x, from)[2] = x[2] \cup x[from[3]]
                   /\ OrShuffled(x, from)[3] = x[3] \cup x[from[4]]
  BY DEF OrShuffled
<1> DEFINE Whole(x) == OrShuffled(OrShuffled(x, <<2, 3, 0, 1>>), <<1, 0, 3, 2>>)[0]
<1>2. ASSUME NEW x PROVE Whole(x) = (x[0] \cup x[2]) \cup (x[1] \cup x[3])
  <2> DEFINE y == OrShuffled(x, <<2, 3, 0, 1>>)
  <2>1. y[0] = x[0] \cup x[2] /\ y[1] = x[1] \cup x[3]
    BY <1>1
  <2> HIDE DEF y
  <2>2. OrShuffled(y, <<1, 0, 3, 2>>)[0] = y[0] \cup y[1]
    BY <1>1
  <2> QED BY <2>1, <2>2 DEF y
<1>3. CASE f = "neon"
  <2>1. Folded(f, v) = (v[0] \cup v[2]) \cup (v[1] \cup v[3]) /\ Width[f] = 4
    BY <1>3 DEF Folded, Width
  <2> QED BY <2>1
<1>4. CASE f = "sse2"
  <2>1. Folded(f, v) = Whole(v) /\ Width[f] = 4
    BY <1>4 DEF Folded, Width
  <2> HIDE DEF Whole
  <2>2. Whole(v) = (v[0] \cup v[2]) \cup (v[1] \cup v[3])
    BY <1>2
  <2> QED BY <2>1, <2>2
<1>5. CASE f = "avx2"
  <2> DEFINE x == [lane \in 0..3 |-> v[lane] \cup v[lane + 4]]
  <2>1. Folded(f, v) = Whole(x) /\ Width[f] = 8
    BY <1>5 DEF Folded, Width
  <2>2. Whole(x) = (x[0] \cup x[2]) \cup (x[1] \cup x[3])
    BY <1>2
  <2>3. x[0] = v[0] \cup v[4] /\ x[1] = v[1] \cup v[5] /\ x[2] = v[2] \cup v[6] /\ x[3] = v[3] \cup v[7]
    OBVIOUS
  <2> HIDE DEF Whole, x
  <2> QED BY <2>1, <2>2, <2>3
<1> QED BY <1>3, <1>4, <1>5

(* Before the first group nothing is cleared.                              *)
LEMMA InitIInv == Init => IInv
<1> SUFFICES ASSUME Init PROVE IInv
  OBVIOUS
<1>1. form \in Forms
  BY DEF Init, Dispatch, Forms
<1>2. form \in DOMAIN Prefix
  BY <1>1 DEF Forms, Prefix
<1>3. n \in 1 .. Len(Prefix[form]) + 1
  BY <1>2, UbcTablesAssumption DEF Init
<1>4. ScalarInv
  BY DEF Init, ScalarInv
<1>5. VectorInv
  <2> SUFFICES ASSUME form # "scalar" PROVE VectorInv
    BY DEF VectorInv
  <2>1. acc = [i \in 1..2 |-> [lane \in 0 .. Width[form] - 1 |-> {}]] /\ mask = DVs /\ n = 1
    BY DEF Init
  <2>2. DOMAIN acc = {1, 2}
    BY <2>1
  <2>3. \A i \in {1, 2} : acc[i] = [lane \in 0 .. Width[form] - 1 |-> {}]
    BY <2>1
  <2> QED BY <2>1, <2>2, <2>3 DEF VectorInv
<1> QED BY <1>1, <1>3, <1>4, <1>5 DEF Init, IInv, MaskInv, TableInv, NeonInv, ReturnInv

(* A statement of the scalar prefix clears from the mask what fails it.    *)
LEMMA ScalarStatementIInv ==
  ASSUME IInv, ScalarStatement
  PROVE  IInv'
<1>1. /\ form = "scalar" /\ pc = "prefix" /\ n \in 1 .. Len(Prefix[form])
      /\ UNCHANGED <<form, w, pc, acc, rest, out>> /\ n' = n + 1
      /\ mask' = IF Holds(w, Condition(ScalarPrefix[n])) THEN mask ELSE mask \ ScalarPrefix[n][6]
  <2>1. Prefix["scalar"] = ScalarPrefix
    BY DEF Prefix
  <2> QED BY <2>1 DEF ScalarStatement, IInv
<1>2. form \in DOMAIN Prefix
  BY DEF IInv, Forms, Prefix
<1>3. n \in Nat /\ n' \in 1 .. Len(Prefix[form]) + 1
  BY <1>1, <1>2, UbcTablesAssumption
<1>4. \A dv \in DVs : dv \in mask' <=> dv \in mask /\ ~ScalarClears(n, dv)
  BY <1>1 DEF ScalarClears
<1>5. mask = {dv \in DVs : \A k \in 1 .. n - 1 : ~ScalarClears(k, dv)}
  BY <1>1 DEF IInv, ScalarInv
<1>6. mask' \subseteq DVs
  BY <1>1, <1>5
<1>7. \A k, dv : ScalarClears(k, dv)' <=> ScalarClears(k, dv)
  BY <1>1 DEF ScalarClears
<1>8. \A k \in 1 .. n' - 1 : k \in 1 .. n - 1 \/ k = n
  BY <1>1, <1>3
<1>9. n \in 1 .. n' - 1 /\ 1 .. n - 1 \subseteq 1 .. n' - 1
  BY <1>1, <1>3
<1>10. mask' = {dv \in DVs : \A k \in 1 .. n' - 1 : ~ScalarClears(k, dv)}
  BY <1>4, <1>5, <1>6, <1>8, <1>9
<1>11. ScalarInv'
  BY <1>7, <1>10 DEF ScalarInv
<1> QED BY <1>1, <1>3, <1>11 DEF IInv, VectorInv, MaskInv, TableInv, NeonInv, ReturnInv

(* A group adds what it clears to one of two accumulators.                 *)
LEMMA VectorGroupIInv ==
  ASSUME IInv, VectorGroup
  PROVE  IInv'
<1> DEFINE g == Prefix[form][n]
           i == 2 - (n % 2)
           missed(lane) == IF Holds(w, LaneCondition(form, g, lane))
                           THEN {} ELSE g.dvs[Listed(form, lane)]
           Lanes == 0 .. Width[form] - 1
<1>1. /\ form # "scalar" /\ pc = "prefix" /\ n \in 1 .. Len(Prefix[form])
      /\ UNCHANGED <<form, w, pc, mask, rest, out>> /\ n' = n + 1
      /\ acc' = [acc EXCEPT ![i] = [lane \in DOMAIN acc[1] |-> acc[i][lane] \cup missed(lane)]]
  BY DEF VectorGroup, IInv
<1>2. form \in DOMAIN Prefix
  BY DEF IInv, Forms, Prefix
<1>3. n \in Nat /\ n' \in 1 .. Len(Prefix[form]) + 1
  BY <1>1, <1>2, UbcTablesAssumption
<1>4. /\ mask = DVs /\ DOMAIN acc = {1, 2}
      /\ \A j \in {1, 2} : DOMAIN acc[j] = Lanes
      /\ \A j \in {1, 2} : \A lane \in Lanes : \A dv :
           dv \in acc[j][lane] <=> \E k \in 1 .. n - 1 : j = 2 - (k % 2) /\ LaneClears(k, lane, dv)
  BY <1>1 DEF IInv, VectorInv
<1>5. \A lane, dv : dv \in missed(lane) <=> LaneClears(n, lane, dv)
  BY DEF LaneClears
<1>6. i \in {1, 2}
  BY <1>3
<1> HIDE DEF i, missed, Lanes
<1>7. /\ DOMAIN acc' = {1, 2}
      /\ \A j \in {1, 2} : j # i => acc'[j] = acc[j]
      /\ DOMAIN acc'[i] = Lanes
      /\ \A lane \in Lanes : acc'[i][lane] = acc[i][lane] \cup missed(lane)
  BY <1>1, <1>4, <1>6
<1>8. \A k, lane, dv : LaneClears(k, lane, dv)' <=> LaneClears(k, lane, dv)
  BY <1>1 DEF LaneClears
<1>9. ASSUME NEW j \in {1, 2}, NEW lane \in Lanes, NEW dv
      PROVE  dv \in acc'[j][lane] <=>
               \E k \in 1 .. n' - 1 : j = 2 - (k % 2) /\ LaneClears(k, lane, dv)
  <2>1. \A k : k \in 1 .. n' - 1 <=> k \in 1 .. n - 1 \/ k = n
    BY <1>1, <1>3
  <2>2. dv \in acc[j][lane] <=> \E k \in 1 .. n - 1 : j = 2 - (k % 2) /\ LaneClears(k, lane, dv)
    BY <1>4
  <2>3. CASE j = i
    <3>1. dv \in acc'[j][lane] <=> dv \in acc[j][lane] \/ LaneClears(n, lane, dv)
      BY <1>5, <1>7, <2>3
    <3>2. j = 2 - (n % 2)
      BY <2>3 DEF i
    <3> QED BY <2>1, <2>2, <3>1, <3>2
  <2>4. CASE j # i
    <3>1. acc'[j][lane] = acc[j][lane]
      BY <1>7, <2>4
    <3>2. j # 2 - (n % 2)
      BY <2>4 DEF i
    <3> QED BY <2>1, <2>2, <3>1, <3>2
  <2> QED BY <2>3, <2>4
<1>10. VectorInv'
  <2>1. DOMAIN acc' = {1, 2} /\ mask' = DVs
    BY <1>1, <1>4, <1>7
  <2>2. ASSUME NEW j \in {1, 2}
        PROVE  DOMAIN acc'[j] = Lanes
    BY <1>4, <1>7
  <2>3. Lanes' = Lanes /\ form' = form
    BY <1>1 DEF Lanes
  <2>4. \A j \in {1, 2} : \A lane \in Lanes : \A dv :
          dv \in acc'[j][lane] <=> \E k \in 1 .. n' - 1 : j = 2 - (k % 2) /\ LaneClears(k, lane, dv)'
    BY <1>8, <1>9
  <2> QED BY <2>1, <2>2, <2>3, <2>4 DEF VectorInv, Lanes
<1> QED BY <1>1, <1>3, <1>10 DEF IInv, ScalarInv, MaskInv, TableInv, NeonInv, ReturnInv

(* What a prefix leaves is what nothing in it clears.                      *)
LEMMA PrefixLeaves ==
  ASSUME IInv, PrefixEnd
  PROVE  mask' = Survivors
<1>1. /\ pc = "prefix" /\ n > Len(Prefix[form])
      /\ mask' = IF form = "scalar" THEN mask
                 ELSE DVs \ Folded(form, [lane \in DOMAIN acc[1] |-> acc[1][lane] \cup acc[2][lane]])
  BY DEF PrefixEnd
<1>2. form \in DOMAIN Prefix
  BY DEF IInv, Forms, Prefix
<1>3. n - 1 = Len(Prefix[form]) /\ n \in Nat
  BY <1>1, <1>2, UbcTablesAssumption DEF IInv
<1>4. CASE form = "scalar"
  <2>1. mask = {dv \in DVs : \A k \in 1 .. n - 1 : ~ScalarClears(k, dv)}
    BY <1>1, <1>4 DEF IInv, ScalarInv
  <2>2. \A k, dv : Clears(k, dv) <=> ScalarClears(k, dv)
    BY <1>4 DEF Clears
  <2> QED BY <1>1, <1>3, <1>4, <2>1, <2>2 DEF Survivors
<1>5. CASE form # "scalar"
  <2> DEFINE Lanes == 0 .. Width[form] - 1
             v == [lane \in DOMAIN acc[1] |-> acc[1][lane] \cup acc[2][lane]]
  <2>1. /\ DOMAIN acc[1] = Lanes
        /\ \A j \in {1, 2} : \A lane \in Lanes : \A dv :
             dv \in acc[j][lane] <=> \E k \in 1 .. n - 1 : j = 2 - (k % 2) /\ LaneClears(k, lane, dv)
    BY <1>1, <1>5 DEF IInv, VectorInv
  <2>2. form \in {"neon", "sse2", "avx2"}
    BY <1>5 DEF IInv, Forms
  <2>3. DOMAIN v = Lanes /\ \A lane \in Lanes : v[lane] = acc[1][lane] \cup acc[2][lane]
    BY <2>1
  <2> HIDE DEF v
  <2>4. \A dv : dv \in Folded(form, v) <=> \E lane \in Lanes : dv \in v[lane]
    BY <2>2, <2>3, FoldedMeans
  <2>5. ASSUME NEW lane \in Lanes, NEW dv
        PROVE  dv \in v[lane] <=> \E k \in 1 .. n - 1 : LaneClears(k, lane, dv)
    <3>1. /\ dv \in acc[1][lane] <=> \E k \in 1 .. n - 1 : 1 = 2 - (k % 2) /\ LaneClears(k, lane, dv)
          /\ dv \in acc[2][lane] <=> \E k \in 1 .. n - 1 : 2 = 2 - (k % 2) /\ LaneClears(k, lane, dv)
      BY <2>1
    <3>2. \A k \in 1 .. n - 1 : 1 = 2 - (k % 2) \/ 2 = 2 - (k % 2)
      BY <1>3
    <3> QED BY <2>3, <3>1, <3>2
  <2>6. \A k, dv : Clears(k, dv) <=> \E lane \in Lanes : LaneClears(k, lane, dv)
    BY <1>5 DEF Clears
  <2>7. mask' = DVs \ Folded(form, v)
    BY <1>1, <1>5 DEF v
  <2> HIDE DEF Lanes
  <2>8. \A dv : dv \in Folded(form, v) <=> \E k \in 1 .. n - 1 : Clears(k, dv)
    BY <2>4, <2>5, <2>6
  <2> QED BY <1>3, <2>7, <2>8 DEF Survivors
<1> QED BY <1>4, <1>5

(* A DV passes every test where the prefix and the tail both leave it.     *)
LEMMA TestsAre ==
  ASSUME form \in Forms
  PROVE  {dv \in DVs : \A cond \in Tests(form, dv) : Holds(w, cond)}
         = {dv \in Survivors : \A cond \in TailTests(form, dv) : Holds(w, cond)}
<1>1. \A dv : (\A cond \in PrefixTests(form, dv) : Holds(w, cond)) <=>
              (\A k \in 1 .. Len(Prefix[form]) : ~Clears(k, dv))
  BY TestsClear
<1>2. \A dv : (\A cond \in Tests(form, dv) : Holds(w, cond)) <=>
              /\ \A cond \in PrefixTests(form, dv) : Holds(w, cond)
              /\ \A cond \in TailTests(form, dv) : Holds(w, cond)
  BY DEF Tests
<1> QED BY <1>1, <1>2 DEF Survivors

(* Both accumulators, folded, are what all groups clear.                   *)
LEMMA PrefixEndIInv ==
  ASSUME IInv, PrefixEnd
  PROVE  IInv'
<1>1. /\ pc = "prefix" /\ out' = mask' /\ n' = 1
      /\ rest' = IF form = "neon" THEN {} ELSE mask'
      /\ pc' = IF mask' = {} THEN "returned" ELSE "tail"
      /\ UNCHANGED <<form, w, acc>>
  BY DEF PrefixEnd
<1>2. form \in Forms /\ form' = form
  BY <1>1 DEF IInv
<1>3. mask' = Survivors
  BY PrefixLeaves
<1>4. Survivors' = Survivors
  <2>1. \A k, dv : Clears(k, dv)' <=> Clears(k, dv)
    BY <1>1 DEF Clears, ScalarClears, LaneClears
  <2> QED BY <1>1, <2>1 DEF Survivors
<1>5. MaskInv'
  BY <1>3, <1>4 DEF MaskInv
<1>6. TableInv'
  BY <1>1 DEF TableInv
<1>7. NeonInv'
  <2>1. FirstRare \in 1 .. Len(NeonTail)
    BY UbcTablesAssumption
  <2>2. 1 \in 1 .. Len(NeonTail) + 1 /\ 1 .. 1 - 1 = {}
    BY <2>1
  <2> QED BY <1>1, <2>2 DEF NeonInv
<1>8. ReturnInv'
  <2> SUFFICES ASSUME mask' = {} PROVE ReturnInv'
    BY <1>1 DEF ReturnInv
  <2>1. {dv \in DVs : \A cond \in Tests(form, dv) : Holds(w, cond)} = {}
    BY <1>2, <1>3, TestsAre
  <2> QED BY <1>1, <2>1 DEF ReturnInv
<1> QED BY <1>1, <1>2, <1>5, <1>6, <1>7, <1>8 DEF IInv, ScalarInv, VectorInv

(* In a tail the mask, and so what the prefix left, stays.                 *)
LEMMA SurvivorsStay ==
  ASSUME UNCHANGED <<form, w>>
  PROVE  Survivors' = Survivors
<1>1. \A k, dv : Clears(k, dv)' <=> Clears(k, dv)
  BY DEF Clears, ScalarClears, LaneClears
<1> QED BY <1>1 DEF Survivors

(* A candidate of a table's tail stays if all its checks hold.             *)
LEMMA TableTailIInv ==
  ASSUME IInv, TableTail
  PROVE  IInv'
<1> DEFINE dv == Min(rest)
           Lives(d) == \A cond \in TailOf(form, d) : Holds(w, cond)
<1>1. /\ pc = "tail" /\ form # "neon" /\ rest # {}
      /\ rest' = rest \ {dv} /\ out' = IF ~Lives(dv) THEN out \ {dv} ELSE out
      /\ UNCHANGED <<form, w, pc, n, acc, mask>>
  BY DEF TableTail
<1>2. mask = Survivors /\ rest \subseteq mask
      /\ out = {d \in mask : d \in rest \/ Lives(d)}
  BY <1>1 DEF IInv, MaskInv, TableInv
<1>3. dv \in rest
  <2>1. rest \in SUBSET Nat
    BY <1>2 DEF Survivors, DVs
  <2>2. \E m \in rest : \A k \in rest : m <= k
    BY <1>1, <2>1, LeastElement
  <2> QED BY <2>2 DEF Min
<1>4. \A d : Lives(d)' <=> Lives(d)
  BY <1>1
<1> HIDE DEF dv, Lives
<1>5. rest' \subseteq mask' /\ out' = {d \in mask : d \in rest' \/ Lives(d)}
  BY <1>1, <1>2, <1>3
<1>6. TableInv'
  BY <1>1, <1>5 DEF TableInv, Lives
<1>7. MaskInv'
  BY <1>1, <1>2, SurvivorsStay DEF MaskInv
<1> QED BY <1>1, <1>6, <1>7 DEF IInv, ScalarInv, VectorInv, NeonInv, ReturnInv

(* A row of NEON's tail clears its DV if a check of it fails.              *)
LEMMA NeonBlockIInv ==
  ASSUME IInv, NeonBlock
  PROVE  IInv'
<1> DEFINE row == NeonTail[n]
<1>1. /\ pc = "tail" /\ form = "neon" /\ n <= Len(NeonTail) /\ n' = n + 1
      /\ out' = IF row[1] \in mask /\ Fails(row) THEN out \ {row[1]} ELSE out
      /\ UNCHANGED <<form, w, pc, acc, mask, rest>>
  BY DEF NeonBlock
<1>2. /\ mask = Survivors /\ n \in 1 .. Len(NeonTail) + 1
      /\ out = {dv \in mask : \A k \in 1 .. n - 1 : NeonTail[k][1] = dv => ~Fails(NeonTail[k])}
  BY <1>1 DEF IInv, MaskInv, NeonInv
<1>3. \A k : Fails(NeonTail[k])' <=> Fails(NeonTail[k])
  BY <1>1 DEF Fails
<1>4. Len(NeonTail) \in Nat
  BY <1>1, <1>2, UbcTablesAssumption
<1>5. n' \in 1 .. Len(NeonTail) + 1 /\ \A k : k \in 1 .. n' - 1 <=> k \in 1 .. n - 1 \/ k = n
  BY <1>1, <1>2, <1>4
<1>6. \A dv : dv \in out' <=> dv \in out /\ (row[1] = dv => ~Fails(row))
  BY <1>1, <1>2
<1>7. out' = {dv \in mask : \A k \in 1 .. n' - 1 : NeonTail[k][1] = dv => ~Fails(NeonTail[k])}
  BY <1>2, <1>5, <1>6
<1>8. NeonInv'
  BY <1>1, <1>3, <1>5, <1>7 DEF NeonInv
<1>9. MaskInv'
  BY <1>1, <1>2, SurvivorsStay DEF MaskInv
<1> QED BY <1>1, <1>8, <1>9 DEF IInv, ScalarInv, VectorInv, TableInv, ReturnInv

(* Skipping the rows of the rare DVs skips no DV that is left.             *)
LEMMA NeonSkipRareIInv ==
  ASSUME IInv, NeonSkipRare
  PROVE  IInv'
<1>1. /\ pc = "tail" /\ form = "neon" /\ n = FirstRare /\ mask \cap NeonRare = {}
      /\ n' = Len(NeonTail) + 1
      /\ UNCHANGED <<form, w, pc, acc, mask, rest, out>>
  BY DEF NeonSkipRare
<1>2. /\ mask = Survivors /\ n \in 1 .. Len(NeonTail) + 1
      /\ out = {dv \in mask : \A k \in 1 .. n - 1 : NeonTail[k][1] = dv => ~Fails(NeonTail[k])}
  BY <1>1 DEF IInv, MaskInv, NeonInv
<1>3. \A k : Fails(NeonTail[k])' <=> Fails(NeonTail[k])
  BY <1>1 DEF Fails
<1>4. n \in 1 .. Len(NeonTail)
  BY <1>1, UbcTablesAssumption
<1>5. \A k \in n .. Len(NeonTail) : NeonTail[k][1] \notin mask
  BY <1>1, UbcTablesAssumption
<1>6. /\ n' \in 1 .. Len(NeonTail) + 1
      /\ \A k \in 1 .. n' - 1 : k \in 1 .. n - 1 \/ k \in n .. Len(NeonTail)
      /\ \A k \in 1 .. n - 1 : k \in 1 .. n' - 1
  BY <1>1, <1>4
<1>7. out' = {dv \in mask : \A k \in 1 .. n' - 1 : NeonTail[k][1] = dv => ~Fails(NeonTail[k])}
  BY <1>1, <1>2, <1>5, <1>6
<1>8. NeonInv'
  BY <1>1, <1>3, <1>6, <1>7 DEF NeonInv
<1>9. MaskInv'
  BY <1>1, <1>2, SurvivorsStay DEF MaskInv
<1> QED BY <1>1, <1>8, <1>9 DEF IInv, ScalarInv, VectorInv, TableInv, ReturnInv

(* When the tail is through, every test of every DV is made.               *)
LEMMA TailEndIInv ==
  ASSUME IInv, TailEnd
  PROVE  IInv'
<1>1. /\ pc = "tail" /\ (IF form = "neon" THEN n > Len(NeonTail) ELSE rest = {})
      /\ pc' = "returned" /\ UNCHANGED <<form, w, n, acc, mask, rest, out>>
  BY DEF TailEnd
<1>2. form \in Forms /\ mask = Survivors
  BY <1>1 DEF IInv, MaskInv
<1>3. out = {dv \in Survivors : \A cond \in TailTests(form, dv) : Holds(w, cond)}
  <2>1. CASE form = "neon"
    <3>1. /\ n \in 1 .. Len(NeonTail) + 1
          /\ out = {dv \in mask : \A k \in 1 .. n - 1 : NeonTail[k][1] = dv => ~Fails(NeonTail[k])}
      BY <1>1, <2>1 DEF IInv, NeonInv
    <3>2. n - 1 = Len(NeonTail)
      BY <1>1, <2>1, <3>1, UbcTablesAssumption
    <3>3. \A dv : (\A cond \in TailTests(form, dv) : Holds(w, cond)) <=>
                  (\A k \in 1 .. Len(NeonTail) : NeonTail[k][1] = dv => ~Fails(NeonTail[k]))
      BY <2>1, NeonTailFails
    <3> QED BY <1>2, <3>1, <3>2, <3>3
  <2>2. CASE form # "neon"
    <3>1. out = {dv \in mask : dv \in rest \/ \A cond \in TailOf(form, dv) : Holds(w, cond)}
      BY <1>1, <2>2 DEF IInv, TableInv
    <3>2. \A dv : TailTests(form, dv) = TailOf(form, dv)
      BY <2>2 DEF TailTests
    <3> QED BY <1>1, <1>2, <2>2, <3>1, <3>2
  <2> QED BY <2>1, <2>2
<1>4. out = {dv \in DVs : \A cond \in Tests(form, dv) : Holds(w, cond)}
  BY <1>2, <1>3, TestsAre
<1>5. ReturnInv'
  BY <1>1, <1>4 DEF ReturnInv
<1>6. MaskInv'
  BY <1>1, <1>2, SurvivorsStay DEF MaskInv
<1> QED BY <1>1, <1>5, <1>6 DEF IInv, ScalarInv, VectorInv, TableInv, NeonInv

(* The inductive invariant holds in every state of a check.                *)
THEOREM SpecIInv == Spec => []IInv
<1>1. IInv /\ [Next]_vars => IInv'
  <2> SUFFICES ASSUME IInv, [Next]_vars PROVE IInv'
    OBVIOUS
  <2>1. CASE UNCHANGED vars
    <3>1. UNCHANGED <<form, w, pc, n, acc, mask, rest, out>>
      BY <2>1 DEF vars
    <3>2. Survivors' = Survivors
      BY <3>1, SurvivorsStay
    <3>3. MaskInv'
      BY <3>1, <3>2 DEF IInv, MaskInv
    <3>4. VectorInv' /\ ScalarInv' /\ NeonInv' /\ TableInv' /\ ReturnInv'
      BY <3>1 DEF IInv, ScalarInv, VectorInv, TableInv, NeonInv, ReturnInv,
                  ScalarClears, LaneClears, Fails
    <3> QED BY <3>1, <3>3, <3>4 DEF IInv
  <2> QED BY <2>1, ScalarStatementIInv, VectorGroupIInv, PrefixEndIInv, TableTailIInv,
             NeonBlockIInv, NeonSkipRareIInv, TailEndIInv DEF Next
<1> QED BY <1>1, InitIInv, PTL DEF Spec

-----------------------------------------------------------------------------
(* Where a form tests a span of the rules, its tests hold where they do.   *)
LEMMA SpansDecide ==
  ASSUME form \in Forms, SpansTheRules, NEW dv \in DVs
  PROVE  (\A cond \in Tests(form, dv) : Holds(w, cond)) <=>
         (\A cond \in RulesFor[dv] : Holds(w, cond))
<1>1. form \in DOMAIN Prefix
  BY DEF Forms, Prefix
<1>5. /\ IsFiniteSet(Tests(form, dv)) /\ Tests(form, dv) \subseteq Nat \X Nat \X {0, 1}
      /\ IsFiniteSet(RulesFor[dv]) /\ RulesFor[dv] \subseteq Nat \X Nat \X {0, 1}
  BY <1>1, UbcTablesAssumption
<1>6. Span(Tests(form, dv)) = Span(RulesFor[dv])
  <2>1. FormsSpan[form] = SpanOf([d \in DVs |-> Tests(form, d)])
    BY <1>1 DEF FormsSpan
  <2>2. FormsSpan[form][dv] = Span(Tests(form, dv))
    BY <2>1 DEF SpanOf
  <2>3. RulesSpan[dv] = Span(RulesFor[dv])
    BY DEF RulesSpan, SpanOf
  <2> QED BY <2>2, <2>3 DEF SpansTheRules
<1>7. /\ Means(w, Span(Tests(form, dv))) <=> \A cond \in Tests(form, dv) : Holds(w, cond)
      /\ Means(w, Span(RulesFor[dv])) <=> \A cond \in RulesFor[dv] : Holds(w, cond)
  BY <1>5, SpanMeans
<1> QED BY <1>6, <1>7

(* The C original keeps the DVs all of whose tests in a form hold.          *)
LEMMA KeptAre ==
  ASSUME form \in Forms, SpansTheRules
  PROVE  upstream_mask(w) = {dv \in DVs : \A cond \in Tests(form, dv) : Holds(w, cond)}
<1>1. \A dv \in DVs : (\A cond \in Tests(form, dv) : Holds(w, cond)) <=>
                      (\A cond \in RulesFor[dv] : Holds(w, cond))
  BY SpansDecide
<1> QED BY <1>1 DEF upstream_mask

(* A form whose tables span the C original's rules returns its mask, for   *)
(* every block (ubc_check).                                                *)
THEOREM FormsKeepExactly == Spec => [](SpansTheRules => KeepsExactly)
<1>1. ASSUME IInv, SpansTheRules PROVE KeepsExactly
  BY <1>1, KeptAre DEF IInv, ReturnInv, KeepsExactly
<1> QED BY <1>1, SpecIInv, PTL

(* On the way it loses none the rules keep, and keeps no other of those    *)
(* the tail is done with (the prefix and tail of each form).               *)
THEOREM FormsSettleInOrder == Spec => [](SpansTheRules => SettlesInOrder)
<1>1. ASSUME IInv, SpansTheRules PROVE SettlesInOrder
  <2> DEFINE Kept == upstream_mask(w)
  <2>1. form \in Forms /\ form \in DOMAIN Prefix /\ pc \in {"prefix", "tail", "returned"}
    BY <1>1 DEF IInv, Forms, Prefix
  <2>2. Kept = {dv \in Survivors : \A cond \in TailTests(form, dv) : Holds(w, cond)}
    BY <1>1, <2>1, KeptAre, TestsAre
  <2>3. Kept \subseteq DVs /\ Kept \subseteq Survivors
        /\ \A dv \in Kept : \A k \in 1 .. Len(Prefix[form]) : ~Clears(k, dv)
    BY <2>2 DEF Survivors
  <2> HIDE DEF Kept
  <2>4. ASSUME pc = "prefix" PROVE \A k \in 1 .. n - 1 : k \in 1 .. Len(Prefix[form])
    BY <1>1, <2>1, <2>4, UbcTablesAssumption DEF IInv
  <2>5. Kept \subseteq mask
    <3>1. CASE pc = "prefix" /\ form = "scalar"
      <4>1. mask = {dv \in DVs : \A k \in 1 .. n - 1 : ~ScalarClears(k, dv)}
        BY <1>1, <3>1 DEF IInv, ScalarInv
      <4>2. \A k, dv : Clears(k, dv) <=> ScalarClears(k, dv)
        BY <3>1 DEF Clears
      <4> QED BY <2>3, <2>4, <3>1, <4>1, <4>2
    <3>2. CASE pc = "prefix" /\ form # "scalar"
      BY <1>1, <2>3, <3>2 DEF IInv, VectorInv
    <3>3. CASE pc # "prefix"
      BY <1>1, <2>3, <3>3 DEF IInv, MaskInv
    <3> QED BY <3>1, <3>2, <3>3
  <2>6. ASSUME pc = "prefix", form # "scalar", NEW i \in 1..2, NEW lane \in DOMAIN acc[i]
        PROVE  acc[i][lane] \cap Kept = {}
    <3>0. i \in {1, 2} /\ VectorInv
      BY <1>1, <2>6 DEF IInv
    <3>1. /\ lane \in 0 .. Width[form] - 1
          /\ \A dv : dv \in acc[i][lane] => \E k \in 1 .. n - 1 : LaneClears(k, lane, dv)
      <4>1. DOMAIN acc[i] = 0 .. Width[form] - 1
        BY <2>6, <3>0 DEF VectorInv
      <4>2. lane \in 0 .. Width[form] - 1
        BY <4>1
      <4>3. \A dv : dv \in acc[i][lane] <=>
              \E k \in 1 .. n - 1 : i = 2 - (k % 2) /\ LaneClears(k, lane, dv)
        BY <2>6, <3>0, <4>2 DEF VectorInv
      <4> QED BY <4>2, <4>3
    <3>2. \A k, dv : LaneClears(k, lane, dv) => Clears(k, dv)
      BY <2>6, <3>1 DEF Clears
    <3> QED BY <2>3, <2>4, <2>6, <3>1, <3>2
  <2>7. ASSUME pc = "tail" PROVE Kept \subseteq out /\ Settled \cap out \subseteq Kept
    <3>1. mask = Survivors
      BY <1>1, <2>7 DEF IInv, MaskInv
    <3>2. CASE form = "neon"
      <4>1. /\ n \in 1 .. Len(NeonTail) + 1
            /\ out = {dv \in mask : \A k \in 1 .. n - 1 : NeonTail[k][1] = dv => ~Fails(NeonTail[k])}
        BY <1>1, <2>7, <3>2 DEF IInv, NeonInv
      <4>2. \A k \in 1 .. n - 1 : k \in 1 .. Len(NeonTail)
        BY <4>1, UbcTablesAssumption
      <4>3. \A k \in 1 .. Len(NeonTail) : k \in 1 .. n - 1 \/ k \in n .. Len(NeonTail)
        BY <4>1, UbcTablesAssumption
      <4>4. \A dv : (\A cond \in TailTests(form, dv) : Holds(w, cond)) <=>
                    (\A k \in 1 .. Len(NeonTail) : NeonTail[k][1] = dv => ~Fails(NeonTail[k]))
        BY <3>2, NeonTailFails
      <4>5. Settled = mask \ {NeonTail[k][1] : k \in n .. Len(NeonTail)}
        BY <3>2 DEF Settled
      <4>6. Kept \subseteq out
        BY <2>2, <3>1, <4>1, <4>2, <4>4
      <4>7. ASSUME NEW dv \in Settled \cap out PROVE dv \in Kept
        <5>1. \A k \in 1 .. Len(NeonTail) : NeonTail[k][1] = dv => ~Fails(NeonTail[k])
          BY <4>1, <4>3, <4>5
        <5> QED BY <2>2, <3>1, <4>1, <4>4, <5>1
      <4> QED BY <4>6, <4>7
    <3>3. CASE form # "neon"
      <4>1. out = {dv \in mask : dv \in rest \/ \A cond \in TailOf(form, dv) : Holds(w, cond)}
        BY <1>1, <2>7, <3>3 DEF IInv, TableInv
      <4>2. \A dv : TailTests(form, dv) = TailOf(form, dv)
        BY <3>3 DEF TailTests
      <4>3. Settled = mask \ rest
        BY <3>3 DEF Settled
      <4> QED BY <2>2, <3>1, <4>1, <4>2, <4>3
    <3> QED BY <3>2, <3>3
  <2> QED BY <2>5, <2>6, <2>7 DEF SettlesInOrder, Kept
<1> QED BY <1>1, SpecIInv, PTL

(* With differences that cover the rules, a block and the one an attack    *)
(* pairs with it are judged alike, for every block (attacked).             *)
THEOREM PartnersMeetTheSame ==
  ASSUME DifferencesCoverRules
  PROVE  Spec => [](SpansTheRules => PartnerMeetsTheSame)
<1>1. ASSUME IInv, SpansTheRules PROVE PartnerMeetsTheSame
  <2> SUFFICES ASSUME pc = "returned", NEW dv \in DVs
               PROVE  dv \in out <=> \A cond \in RulesFor[dv] :
                        (BitXor(w, cond[1], cond[2]) + BitXor(SHA1_DVS[dv], cond[1], cond[2])) % 2 = cond[3]
    BY <1>1 DEF PartnerMeetsTheSame
  <2>1. dv \in out <=> \A cond \in RulesFor[dv] : Holds(w, cond)
    BY <1>1, KeptAre DEF IInv, ReturnInv, upstream_mask
  <2>2. ASSUME NEW cond \in RulesFor[dv]
        PROVE  (BitXor(w, cond[1], cond[2]) + BitXor(SHA1_DVS[dv], cond[1], cond[2])) % 2
               = BitXor(w, cond[1], cond[2])
    <3> DEFINE x == BitXor(w, cond[1], cond[2])
    <3>1. Bit(SHA1_DVS[dv], cond[1]) /\ Bit(SHA1_DVS[dv], cond[2])
      BY DEF DifferencesCoverRules
    <3>4. BitXor(SHA1_DVS[dv], cond[1], cond[2]) = 0
      BY <3>1 DEF BitXor, Bit
    <3>2. x \in {0, 1}
      BY BitXorFacts
    <3> HIDE DEF x
    <3>3. (x + 0) % 2 = x
      BY <3>2
    <3> QED BY <3>4, <3>3 DEF x
  <2> DEFINE Same(cond) ==
        (BitXor(w, cond[1], cond[2]) + BitXor(SHA1_DVS[dv], cond[1], cond[2])) % 2 = cond[3]
  <2>3. \A cond \in RulesFor[dv] : Holds(w, cond) <=> Same(cond)
    BY <2>2 DEF Holds
  <2>4. dv \in out <=> \A cond \in RulesFor[dv] : Same(cond)
    <3> HIDE DEF Same
    <3> QED BY <2>1, <2>3
  <2> QED BY <2>4
<1> QED BY <1>1, SpecIInv, PTL
=============================================================================
