----------------------------- MODULE SearchProofs -----------------------------
(***************************************************************************)
(* The search implements what it promises: whatever it takes out and puts  *)
(* in, the plan it ends with keeps every DV for exactly the schedules the  *)
(* published conditions keep it for, its forests and ranks are those of    *)
(* its units, and no bound makes it miss the best unit there is.  For any  *)
(* message bits, DVs, published conditions, targets and settings.          *)
(***************************************************************************)
EXTENDS Search, FiniteSetTheorems, WellFoundedInduction, TLAPS

(* XOR on bits.                                                            *)
LEMMA XorTable ==
  /\ Xor(0, 0) = 0 /\ Xor(0, 1) = 1 /\ Xor(1, 0) = 1 /\ Xor(1, 1) = 0
BY SMT DEF Xor

LEMMA XorBit ==
  ASSUME NEW o \in Bit, NEW q \in Bit
  PROVE  /\ Xor(o, q) \in Bit
         /\ Xor(o, q) = Xor(q, o)
         /\ Xor(o, o) = 0 /\ Xor(o, 0) = o /\ Xor(0, o) = o
BY XorTable DEF Bit

LEMMA XorAssociative ==
  ASSUME NEW o \in Bit, NEW q \in Bit, NEW r \in Bit
  PROVE  Xor(Xor(o, q), r) = Xor(o, Xor(q, r))
BY XorTable DEF Bit

-----------------------------------------------------------------------------
Findings == [Vertex -> [root : Vertex, xor : Bit]]

(* g is what Find's recursion asks for.                                    *)
Solves(f, g) ==
  g = [x \in Vertex |-> IF f.parent[x] = x THEN [root |-> x, xor |-> 0]
                        ELSE [root |-> g[f.parent[x]].root,
                              xor |-> Xor(f.parity[x], g[f.parent[x]].xor)]]

(* Heights that fall from every bit to its parent: there are no cycles.    *)
Descends(f, h) ==
  /\ h \in [Vertex -> Nat]
  /\ \A x \in Vertex : f.parent[x] # x => h[f.parent[x]] < h[x]

(* The parities of a tree, taken one edge at a time.                       *)
EdgesHold(f, w) ==
  \A x \in Vertex : f.parent[x] # x => Xor(w[x], w[f.parent[x]]) = f.parity[x]

(* A forest that takes in the conditions S for the DV d.                   *)
Grown(f, S, d) ==
  /\ f \in Forest
  /\ \E h : Descends(f, h)
  /\ \E g \in Findings : Solves(f, g)
  /\ \A w \in Schedules : Keeps(w, S, d) => EdgesHold(f, w)

(* Induction from the roots: a set of bits that holds every root, and every *)
(* bit whose parent it holds, holds them all.                              *)
LEMMA FromTheRoots ==
  ASSUME NEW f \in Forest, NEW h, Descends(f, h), NEW P \in SUBSET Vertex,
         \A x \in Vertex : f.parent[x] = x \/ f.parent[x] \in P => x \in P
  PROVE  P = Vertex
<1> DEFINE T == { h[x] : x \in Vertex \ P }
           R == OpToRel(<, Nat)
<1> SUFFICES ASSUME Vertex \ P # {} PROVE FALSE
  OBVIOUS
<1>1. T \subseteq Nat /\ T # {}
  BY DEF Descends
<1>2. PICK n \in T : \A m \in T : ~(<<m, n>> \in R)
  <2> HIDE DEF T, R
  <2>1. IsWellFoundedOn(R, Nat)
    BY NatLessThanWellFounded DEF R
  <2> QED
    BY <1>1, <2>1, WFMin
<1>3. PICK x \in Vertex \ P : n = h[x]
  BY <1>2
<1>4. f.parent[x] \in Vertex \ P /\ f.parent[x] # x
  BY <1>3 DEF Forest
<1>5. h[f.parent[x]] \in T /\ h[f.parent[x]] < n /\ n \in Nat /\ h[f.parent[x]] \in Nat
  BY <1>3, <1>4 DEF Descends
<1>6. <<h[f.parent[x]], n>> \in R
  BY <1>5 DEF OpToRel
<1> QED
  BY <1>2, <1>5, <1>6

(* The recursion, bit by bit.                                              *)
LEMMA AtRoot ==
  ASSUME NEW f, NEW g, Solves(f, g), NEW x \in Vertex, f.parent[x] = x
  PROVE  g[x] = [root |-> x, xor |-> 0]
BY DEF Solves

LEMMA AtParent ==
  ASSUME NEW f, NEW g, Solves(f, g), NEW x \in Vertex, f.parent[x] # x
  PROVE  g[x] = [root |-> g[f.parent[x]].root, xor |-> Xor(f.parity[x], g[f.parent[x]].xor)]
BY DEF Solves

(* There is one answer to what Find asks for, and so it is Find's.         *)
LEMMA OneSolution ==
  ASSUME NEW f \in Forest, NEW h, Descends(f, h), NEW g1, NEW g2, Solves(f, g1), Solves(f, g2)
  PROVE  g1 = g2
<1> DEFINE P == { x \in Vertex : g1[x] = g2[x] }
<1>1. ASSUME NEW x \in Vertex, f.parent[x] = x \/ f.parent[x] \in P PROVE x \in P
  <2>1. CASE f.parent[x] = x
    <3>1. g1[x] = [root |-> x, xor |-> 0] /\ g2[x] = [root |-> x, xor |-> 0]
      BY <2>1, AtRoot
    <3> QED
      BY <3>1
  <2>2. CASE f.parent[x] # x
    <3>1. g1[f.parent[x]] = g2[f.parent[x]]
      BY <1>1, <2>2
    <3>2. /\ g1[x] = [root |-> g1[f.parent[x]].root, xor |-> Xor(f.parity[x], g1[f.parent[x]].xor)]
          /\ g2[x] = [root |-> g2[f.parent[x]].root, xor |-> Xor(f.parity[x], g2[f.parent[x]].xor)]
      BY <2>2, AtParent
    <3> QED
      BY <3>1, <3>2
  <2> QED
    BY <2>1, <2>2
<1>2. P = Vertex
  <2> HIDE DEF P
  <2>1. P \in SUBSET Vertex
    BY DEF P
  <2> QED
    BY <1>1, <2>1, FromTheRoots
<1>3. \A x \in Vertex : g1[x] = g2[x]
  BY <1>2
<1>4. g1 = [x \in Vertex |-> g1[x]] /\ g2 = [x \in Vertex |-> g2[x]]
  BY DEF Solves
<1> QED
  BY <1>3, <1>4

LEMMA FindIs ==
  ASSUME NEW f \in Forest, NEW h, Descends(f, h), NEW g, Solves(f, g)
  PROVE  Find(f) = g
<1>1. Solves(f, Find(f))
  BY DEF Find, Solves
<1> QED
  BY <1>1, OneSolution

(* What Find gives back.                                                   *)
LEMMA FindFacts ==
  ASSUME NEW f, NEW S, NEW d, Grown(f, S, d)
  PROVE  /\ Find(f) \in Findings
         /\ Solves(f, Find(f))
<1>1. PICK h : Descends(f, h)
  BY DEF Grown
<1>2. PICK g \in Findings : Solves(f, g)
  BY DEF Grown
<1>3. Find(f) = g
  BY <1>1, <1>2, FindIs DEF Grown
<1> QED
  BY <1>2, <1>3

(* A root is its own.                                                      *)
LEMMA RootIsRoot ==
  ASSUME NEW f, NEW S, NEW d, Grown(f, S, d), NEW x \in Vertex
  PROVE  LET r == Find(f)[x].root
         IN r \in Vertex /\ f.parent[r] = r /\ Find(f)[r] = [root |-> r, xor |-> 0]
<1> DEFINE G == Find(f)
           P == { y \in Vertex : f.parent[G[y].root] = G[y].root }
<1>1. G \in Findings /\ Solves(f, G)
  BY FindFacts
<1> HIDE DEF G
<1>3. ASSUME NEW y \in Vertex, f.parent[y] = y \/ f.parent[y] \in P PROVE y \in P
  <2>1. CASE f.parent[y] = y
    <3>0. G[y] = [root |-> y, xor |-> 0]
      BY <1>1, <2>1, AtRoot
    <3>1. G[y].root = y
      BY <3>0
    <3> QED
      BY <2>1, <3>1
  <2>2. CASE f.parent[y] # y
    <3>0. G[y] = [root |-> G[f.parent[y]].root, xor |-> Xor(f.parity[y], G[f.parent[y]].xor)]
      BY <1>1, <2>2, AtParent
    <3>1. G[y].root = G[f.parent[y]].root
      BY <3>0
    <3> QED
      BY <1>3, <2>2, <3>1
  <2> QED
    BY <2>1, <2>2
<1>4. P = Vertex
  <2>1. PICK h : Descends(f, h)
    BY DEF Grown
  <2>2. P \in SUBSET Vertex /\ f \in Forest
    BY DEF Grown
  <2> HIDE DEF P
  <2> QED
    BY <1>3, <2>1, <2>2, FromTheRoots
<1>5. G[x].root \in Vertex
  BY <1>1 DEF Findings
<1>6. f.parent[G[x].root] = G[x].root
  BY <1>4
<1>7. G[G[x].root] = [root |-> G[x].root, xor |-> 0]
  BY <1>1, <1>5, <1>6, AtRoot
<1> QED
  BY <1>5, <1>6, <1>7 DEF G

(* What a forest says of a bit and its root holds wherever the conditions  *)
(* it has taken in do.                                                     *)
LEMMA RootXor ==
  ASSUME NEW f, NEW S, NEW d, Grown(f, S, d), NEW w \in Schedules, Keeps(w, S, d),
         NEW x \in Vertex
  PROVE  Xor(w[x], w[Find(f)[x].root]) = Find(f)[x].xor
<1> DEFINE G == Find(f)
           P == { y \in Vertex : Xor(w[y], w[G[y].root]) = G[y].xor }
<1>1. G \in Findings /\ Solves(f, G)
  BY FindFacts
<1> HIDE DEF G
<1>a. f \in Forest /\ EdgesHold(f, w)
  BY DEF Grown
<1>b. \A y \in Vertex : w[y] \in Bit /\ G[y].root \in Vertex /\ G[y].xor \in Bit /\ f.parent[y] \in Vertex
                        /\ f.parity[y] \in Bit
  BY <1>1, <1>a DEF Findings, Schedules, Forest
<1>3. ASSUME NEW y \in Vertex, f.parent[y] = y \/ f.parent[y] \in P PROVE y \in P
  <2>1. CASE f.parent[y] = y
    <3>0. G[y] = [root |-> y, xor |-> 0]
      BY <1>1, <2>1, AtRoot
    <3>1. G[y].root = y /\ G[y].xor = 0
      BY <3>0
    <3>2. Xor(w[y], w[y]) = 0
      BY <1>b, XorBit
    <3> QED
      BY <3>1, <3>2
  <2>2. CASE f.parent[y] # y
    <3> DEFINE z == f.parent[y]
    <3>0. G[y] = [root |-> G[f.parent[y]].root, xor |-> Xor(f.parity[y], G[f.parent[y]].xor)]
      BY <1>1, <2>2, AtParent
    <3>1. G[y].root = G[z].root /\ G[y].xor = Xor(f.parity[y], G[z].xor)
      BY <3>0
    <3>2. Xor(w[y], w[z]) = f.parity[y]
      BY <1>a, <2>2 DEF EdgesHold
    <3>3. Xor(w[z], w[G[z].root]) = G[z].xor
      BY <1>3, <2>2
    <3>4. w[y] \in Bit /\ w[z] \in Bit /\ w[G[z].root] \in Bit
      BY <1>b
    <3>5. Xor(w[y], w[G[z].root]) = Xor(Xor(w[y], w[z]), Xor(w[z], w[G[z].root]))
      <4> HIDE DEF z
      <4> QED
        BY <3>4, XorTable DEF Bit
    <3> QED
      BY <3>1, <3>2, <3>3, <3>5
  <2> QED
    BY <2>1, <2>2
<1>4. P = Vertex
  <2>1. PICK h : Descends(f, h)
    BY DEF Grown
  <2>2. P \in SUBSET Vertex
    OBVIOUS
  <2> HIDE DEF P
  <2> QED
    BY <1>a, <1>3, <2>1, <2>2, FromTheRoots
<1> QED
  BY <1>4 DEF G

(* Two bits of one tree have the XOR the forest says.                      *)
LEMMA ConnectedXor ==
  ASSUME NEW f, NEW S, NEW d, Grown(f, S, d), NEW w \in Schedules, Keeps(w, S, d),
         NEW x \in Vertex, NEW y \in Vertex, Connected(f, x, y)
  PROVE  Xor(w[x], w[y]) = Xor(Find(f)[x].xor, Find(f)[y].xor)
<1> DEFINE G == Find(f)
           r == G[x].root
<1>1. G \in Findings
  BY FindFacts
<1>2. r = G[y].root /\ r \in Vertex /\ w[x] \in Bit /\ w[y] \in Bit /\ w[r] \in Bit
  BY <1>1 DEF Connected, Findings, Schedules
<1>3. Xor(w[x], w[r]) = G[x].xor
  BY RootXor
<1>4. Xor(w[y], w[r]) = G[y].xor
  BY <1>2, RootXor
<1> HIDE DEF G, r
<1>5. Xor(w[x], w[y]) = Xor(Xor(w[x], w[r]), Xor(w[y], w[r]))
  BY <1>2, XorTable DEF Bit
<1> QED
  BY <1>3, <1>4, <1>5 DEF G

-----------------------------------------------------------------------------
(* Where Find's answers go when the tree of b is hung below a.             *)
Rehung(g, b, a, xor) ==
  [x \in Vertex |-> IF g[x].root = b THEN [root |-> a, xor |-> Xor(g[x].xor, xor)] ELSE g[x]]

LEMMA HungForest ==
  ASSUME NEW f \in Forest, NEW a \in Vertex, NEW b \in Vertex, NEW xor \in Bit
  PROVE  /\ Hung(f, b, a, xor) \in Forest
         /\ Hung(f, b, a, xor).parent = [f.parent EXCEPT ![b] = a]
         /\ Hung(f, b, a, xor).parity = [f.parity EXCEPT ![b] = xor]
<1>1. f.size[a] + f.size[b] \in Nat \ {0}
  <2>1. f.size[a] \in Nat \ {0} /\ f.size[b] \in Nat \ {0}
    BY DEF Forest
  <2> QED
    BY <2>1
<1> QED
  BY <1>1 DEF Hung, Forest

LEMMA HungSolves ==
  ASSUME NEW f, NEW S, NEW d, Grown(f, S, d),
         NEW a \in Vertex, NEW b \in Vertex, a # b, f.parent[a] = a, f.parent[b] = b,
         NEW xor \in Bit
  PROVE  /\ Rehung(Find(f), b, a, xor) \in Findings
         /\ Solves(Hung(f, b, a, xor), Rehung(Find(f), b, a, xor))
<1> DEFINE g == Find(f)
           h == Rehung(g, b, a, xor)
           k == Hung(f, b, a, xor)
<1>1. f \in Forest /\ g \in Findings /\ Solves(f, g)
  BY FindFacts DEF Grown
<1>2. k.parent = [f.parent EXCEPT ![b] = a] /\ k.parity = [f.parity EXCEPT ![b] = xor]
  BY <1>1, HungForest
<1> HIDE DEF g, k
<1>3. \A x \in Vertex : g[x].root \in Vertex /\ g[x].xor \in Bit /\ g[x] \in [root : Vertex, xor : Bit]
  BY <1>1 DEF Findings
<1>4. \A x \in Vertex : f.parent[x] \in Vertex /\ f.parity[x] \in Bit
  BY <1>1 DEF Forest
<1>5. h \in Findings
  <2>1. ASSUME NEW x \in Vertex PROVE Xor(g[x].xor, xor) \in Bit
    BY <1>3, XorBit
  <2> QED
    BY <1>3, <2>1 DEF Findings, Rehung
<1>6. \A x \in Vertex :
        h[x] = IF g[x].root = b THEN [root |-> a, xor |-> Xor(g[x].xor, xor)] ELSE g[x]
  BY DEF Rehung
<1> HIDE DEF h
<1>7. g[a] = [root |-> a, xor |-> 0] /\ g[b] = [root |-> b, xor |-> 0]
  BY <1>1, AtRoot
<1>8. ASSUME NEW x \in Vertex
      PROVE  h[x] = IF k.parent[x] = x THEN [root |-> x, xor |-> 0]
                    ELSE [root |-> h[k.parent[x]].root, xor |-> Xor(k.parity[x], h[k.parent[x]].xor)]
  <2>1. CASE x = b
    <3>1. k.parent[x] = a /\ k.parity[x] = xor
      BY <1>1, <1>2, <2>1 DEF Forest
    <3>2. h[a] = [root |-> a, xor |-> 0]
      <4>1. g[a].root = a
        BY <1>7
      <4> QED
        BY <1>6, <1>7, <4>1
    <3>3. h[x] = [root |-> a, xor |-> Xor(0, xor)]
      BY <1>6, <1>7, <2>1
    <3>4. Xor(0, xor) = Xor(xor, 0)
      BY XorTable DEF Bit
    <3>5. h[a].root = a /\ h[a].xor = 0
      BY <3>2
    <3> QED
      BY <2>1, <3>1, <3>3, <3>4, <3>5
  <2>2. CASE x # b /\ f.parent[x] = x
    <3>1. k.parent[x] = x
      BY <1>1, <1>2, <2>2 DEF Forest
    <3>2. g[x] = [root |-> x, xor |-> 0]
      BY <1>1, <2>2, AtRoot
    <3>3. g[x].root # b
      BY <2>2, <3>2
    <3> QED
      BY <1>6, <3>1, <3>2, <3>3
  <2>3. CASE x # b /\ f.parent[x] # x
    <3> DEFINE y == f.parent[x]
    <3>1. k.parent[x] = y /\ k.parity[x] = f.parity[x] /\ y # x /\ y \in Vertex
      BY <1>1, <1>2, <1>4, <2>3 DEF Forest
    <3>2. g[x] = [root |-> g[y].root, xor |-> Xor(f.parity[x], g[y].xor)]
      BY <1>1, <2>3, AtParent
    <3>3. g[x].root = g[y].root /\ g[x].xor = Xor(f.parity[x], g[y].xor)
      BY <3>2
    <3>4. CASE g[y].root = b
      <4>1. h[y] = [root |-> a, xor |-> Xor(g[y].xor, xor)]
        BY <1>6, <3>1, <3>4
      <4>2. h[y].root = a /\ h[y].xor = Xor(g[y].xor, xor)
        BY <4>1
      <4>3. h[x] = [root |-> a, xor |-> Xor(Xor(f.parity[x], g[y].xor), xor)]
        BY <1>6, <3>3, <3>4
      <4>4. Xor(Xor(f.parity[x], g[y].xor), xor) = Xor(f.parity[x], Xor(g[y].xor, xor))
        BY <1>3, <1>4, <3>1, XorAssociative
      <4> QED
        BY <3>1, <4>2, <4>3, <4>4
    <3>5. CASE g[y].root # b
      <4>1. h[y] = g[y] /\ h[x] = g[x]
        BY <1>6, <3>1, <3>3, <3>5
      <4> QED
        BY <3>1, <3>2, <4>1
    <3> QED
      BY <3>4, <3>5
  <2> QED
    BY <2>1, <2>2, <2>3
<1>9. h = [x \in Vertex |-> h[x]]
  BY DEF h, Rehung
<1>10. Solves(k, h)
  <2> HIDE DEF h
  <2> QED
    BY <1>8, <1>9 DEF Solves
<1> QED
  BY <1>5, <1>10 DEF h, k, g

LEMMA HungDescends ==
  ASSUME NEW f, NEW S, NEW d, Grown(f, S, d),
         NEW a \in Vertex, NEW b \in Vertex, a # b, f.parent[a] = a, f.parent[b] = b,
         NEW xor \in Bit
  PROVE  \E h : Descends(Hung(f, b, a, xor), h)
<1> DEFINE g == Find(f)
           k == Hung(f, b, a, xor)
<1>1. f \in Forest /\ g \in Findings /\ Solves(f, g)
  BY FindFacts DEF Grown
<1>2. k.parent = [f.parent EXCEPT ![b] = a] /\ k.parity = [f.parity EXCEPT ![b] = xor]
  BY <1>1, HungForest
<1>3. PICK h : Descends(f, h)
  BY DEF Grown
<1> DEFINE l == [x \in Vertex |-> IF g[x].root = b THEN h[x] + h[a] + 1 ELSE h[x]]
<1> HIDE DEF g, k
<1>4. \A x \in Vertex : h[x] \in Nat
  BY <1>3 DEF Descends
<1>5. l \in [Vertex -> Nat]
  BY <1>4
<1>6. ASSUME NEW x \in Vertex, k.parent[x] # x PROVE l[k.parent[x]] < l[x]
  <2>1. CASE x = b
    <3>1. k.parent[x] = a
      BY <1>1, <1>2, <2>1 DEF Forest
    <3>2. g[a] = [root |-> a, xor |-> 0] /\ g[b] = [root |-> b, xor |-> 0]
      BY <1>1, AtRoot
    <3>3. g[a].root = a /\ g[b].root = b
      BY <3>2
    <3>4. l[a] = h[a] /\ l[x] = h[b] + h[a] + 1
      BY <2>1, <3>3
    <3> QED
      BY <1>4, <3>1, <3>4
  <2>2. CASE x # b
    <3> DEFINE y == f.parent[x]
    <3>1. k.parent[x] = y /\ y # x /\ y \in Vertex
      BY <1>1, <1>2, <1>6, <2>2 DEF Forest
    <3>2. g[x] = [root |-> g[y].root, xor |-> Xor(f.parity[x], g[y].xor)]
      BY <1>1, <3>1, AtParent
    <3>3. g[x].root = g[y].root
      BY <3>2
    <3>4. h[y] < h[x] /\ h[y] \in Nat /\ h[x] \in Nat /\ h[a] \in Nat
      BY <1>3, <1>4, <3>1 DEF Descends
    <3>5. l[y] = (IF g[x].root = b THEN h[y] + h[a] + 1 ELSE h[y])
          /\ l[x] = (IF g[x].root = b THEN h[x] + h[a] + 1 ELSE h[x])
      BY <3>1, <3>3
    <3> HIDE DEF l, y
    <3> QED
      BY <3>1, <3>4, <3>5
  <2> QED
    BY <2>1, <2>2
<1>7. Descends(k, l)
  <2> HIDE DEF l
  <2> QED
    BY <1>5, <1>6 DEF Descends
<1> QED
  BY <1>7 DEF k

(* The tree of b hung below a, where T implies what the new edge says.     *)
LEMMA HungGrown ==
  ASSUME NEW f, NEW S, NEW T, NEW d, Grown(f, S, d),
         NEW a \in Vertex, NEW b \in Vertex, a # b, f.parent[a] = a, f.parent[b] = b,
         NEW xor \in Bit,
         \A w \in Schedules : Keeps(w, T, d) => Keeps(w, S, d) /\ Xor(w[b], w[a]) = xor
  PROVE  LET k == Hung(f, b, a, xor)
         IN /\ Grown(k, T, d)
            /\ \A x, y \in Vertex : Connected(f, x, y) => Connected(k, x, y)
            /\ \A x, y \in Vertex :
                 Find(f)[x].root = b /\ Find(f)[y].root = a => Connected(k, x, y) /\ Connected(k, y, x)
<1> DEFINE k == Hung(f, b, a, xor)
           g == Find(f)
           h == Rehung(g, b, a, xor)
<1>1. f \in Forest
  BY DEF Grown
<1>2. k \in Forest /\ k.parent = [f.parent EXCEPT ![b] = a] /\ k.parity = [f.parity EXCEPT ![b] = xor]
  BY <1>1, HungForest
<1>3. h \in Findings /\ Solves(k, h)
  BY HungSolves
<1>4. \E i : Descends(k, i)
  BY HungDescends
<1>5. ASSUME NEW w \in Schedules, Keeps(w, T, d) PROVE EdgesHold(k, w)
  <2>1. EdgesHold(f, w) /\ Xor(w[b], w[a]) = xor
    BY <1>5 DEF Grown
  <2> HIDE DEF k
  <2>2. ASSUME NEW x \in Vertex, k.parent[x] # x PROVE Xor(w[x], w[k.parent[x]]) = k.parity[x]
    <3>1. CASE x = b
      <4>1. k.parent[x] = a /\ k.parity[x] = xor
        BY <1>1, <1>2, <3>1 DEF Forest
      <4> QED
        BY <2>1, <3>1, <4>1
    <3>2. CASE x # b
      <4>1. k.parent[x] = f.parent[x] /\ k.parity[x] = f.parity[x]
        BY <1>1, <1>2, <3>2 DEF Forest
      <4> QED
        BY <2>1, <2>2, <4>1 DEF EdgesHold
    <3> QED
      BY <3>1, <3>2
  <2> QED
    BY <2>2 DEF EdgesHold
<1>6. Grown(k, T, d)
  BY <1>2, <1>3, <1>4, <1>5 DEF Grown
<1>7. Find(k) = h
  BY <1>2, <1>3, <1>4, FindIs
<1>8. \A x \in Vertex : Find(k)[x].root = IF g[x].root = b THEN a ELSE g[x].root
  <2> HIDE DEF g
  <2> SUFFICES ASSUME NEW x \in Vertex PROVE h[x].root = IF g[x].root = b THEN a ELSE g[x].root
    BY <1>7
  <2>1. h[x] = IF g[x].root = b THEN [root |-> a, xor |-> Xor(g[x].xor, xor)] ELSE g[x]
    BY DEF Rehung
  <2>2. CASE g[x].root = b
    BY <2>1, <2>2
  <2>3. CASE g[x].root # b
    BY <2>1, <2>3
  <2> QED
    BY <2>2, <2>3
<1>9. \A x, y \in Vertex : Connected(f, x, y) => Connected(k, x, y)
  <2> HIDE DEF k
  <2> QED
    BY <1>8 DEF Connected
<1>10. \A x, y \in Vertex :
         g[x].root = b /\ g[y].root = a => Connected(k, x, y) /\ Connected(k, y, x)
  <2> HIDE DEF k
  <2> QED
    BY <1>8 DEF Connected
<1> QED
  BY <1>6, <1>9, <1>10

(* Union, with a condition that T implies: nothing falls apart, and the    *)
(* two bits are in one tree.                                               *)
LEMMA UnionGrown ==
  ASSUME NEW f, NEW S, NEW T, NEW d, Grown(f, S, d),
         NEW x \in Vertex, NEW y \in Vertex, NEW c \in Bit,
         \A w \in Schedules : Keeps(w, T, d) => Keeps(w, S, d) /\ Xor(w[x], w[y]) = c
  PROVE  LET k == Union(f, x, y, c)
         IN /\ Grown(k, T, d)
            /\ \A o, q \in Vertex : Connected(f, o, q) => Connected(k, o, q)
            /\ Connected(k, x, y)
<1> DEFINE g == Find(f)
           a == g[x].root
           b == g[y].root
           xor == Xor(Xor(g[x].xor, g[y].xor), c)
           k == Union(f, x, y, c)
<1>1. g \in Findings
  BY FindFacts
<1>2. a \in Vertex /\ b \in Vertex /\ g[x].xor \in Bit /\ g[y].xor \in Bit
  <2> HIDE DEF g
  <2> QED
    BY <1>1 DEF Findings
<1>3. f.parent[a] = a /\ f.parent[b] = b
  BY RootIsRoot
<1>4. xor \in Bit
  <2>1. Xor(g[x].xor, g[y].xor) \in Bit
    BY <1>2, XorBit
  <2> QED
    BY <2>1, XorBit
<1>5. ASSUME NEW w \in Schedules, Keeps(w, T, d)
      PROVE  Keeps(w, S, d) /\ Xor(w[a], w[b]) = xor /\ Xor(w[b], w[a]) = xor
  <2>1. Keeps(w, S, d) /\ Xor(w[x], w[y]) = c
    BY <1>5
  <2>2. Xor(w[x], w[a]) = g[x].xor /\ Xor(w[y], w[b]) = g[y].xor
    BY <2>1, RootXor
  <2>3. w[x] \in Bit /\ w[y] \in Bit /\ w[a] \in Bit /\ w[b] \in Bit
    BY <1>2 DEF Schedules
  <2> HIDE DEF g, a, b
  <2>4. Xor(w[a], w[b]) = Xor(Xor(Xor(w[x], w[a]), Xor(w[y], w[b])), Xor(w[x], w[y]))
    BY <2>3, XorTable DEF Bit
  <2>5. Xor(w[b], w[a]) = Xor(w[a], w[b])
    BY <2>3, XorBit
  <2> QED
    BY <2>1, <2>2, <2>4, <2>5
<1>6. k = IF a = b THEN f
          ELSE IF f.size[a] < f.size[b] THEN Hung(f, a, b, xor) ELSE Hung(f, b, a, xor)
  BY DEF Union
<1>7. CASE a = b
  <2>1. k = f
    BY <1>6, <1>7
  <2>2. Grown(f, T, d)
    BY <1>5 DEF Grown
  <2>3. Connected(f, x, y)
    BY <1>7 DEF Connected
  <2> QED
    BY <2>1, <2>2, <2>3
<1>8. CASE a # b /\ f.size[a] < f.size[b]
  <2>1. k = Hung(f, a, b, xor)
    BY <1>6, <1>8
  <2>2. g[x].root = a /\ g[y].root = b
    OBVIOUS
  <2> HIDE DEF a, b, xor
  <2> QED
    BY <1>2, <1>3, <1>4, <1>5, <1>8, <2>1, <2>2, HungGrown, SMTT(30)
<1>9. CASE a # b /\ ~(f.size[a] < f.size[b])
  <2>1. k = Hung(f, b, a, xor)
    BY <1>6, <1>9
  <2>2. g[x].root = a /\ g[y].root = b
    OBVIOUS
  <2> HIDE DEF a, b, xor
  <2> QED
    BY <1>2, <1>3, <1>4, <1>5, <1>9, <2>1, <2>2, HungGrown, SMTT(30)
<1> QED
  BY <1>7, <1>8, <1>9

LEMMA AppliedGrown ==
  ASSUME NEW forests \in [Dv -> Forest], NEW S, NEW c \in Cond,
         \A d \in Dv : Grown(forests[d], S, d),
         NEW d \in Dv
  PROVE  /\ Grown(Applied(forests, c)[d], S \cup {c}, d)
         /\ \A x, y \in Vertex : Connected(forests[d], x, y) => Connected(Applied(forests, c)[d], x, y)
         /\ d \in c.dvs => Connected(Applied(forests, c)[d], c.u, c.v)
<1> DEFINE T == S \cup {c}
           f == forests[d]
           k == Applied(forests, c)[d]
<1>1. c.u \in Vertex /\ c.v \in Vertex /\ c.c \in Bit
  BY DEF Cond
<1>2. ASSUME NEW w \in Schedules, Keeps(w, T, d)
      PROVE  Keeps(w, S, d) /\ (d \in c.dvs => Xor(w[c.u], w[c.v]) = c.c)
  BY <1>2 DEF Keeps, Holds
<1>3. CASE d \in c.dvs
  <2>1. k = Union(f, c.u, c.v, c.c)
    BY <1>3 DEF Applied
  <2>2. Grown(f, S, d)
    OBVIOUS
  <2> HIDE DEF T, f, k
  <2>3. \A w \in Schedules : Keeps(w, T, d) => Keeps(w, S, d) /\ Xor(w[c.u], w[c.v]) = c.c
    BY <1>2, <1>3
  <2>4. LET l == Union(f, c.u, c.v, c.c)
        IN /\ Grown(l, T, d)
           /\ \A x, y \in Vertex : Connected(f, x, y) => Connected(l, x, y)
           /\ Connected(l, c.u, c.v)
    BY <1>1, <2>2, <2>3, UnionGrown
  <2> QED
    BY <2>1, <2>4 DEF T, f, k
<1>4. CASE d \notin c.dvs
  <2>1. k = f
    BY <1>4 DEF Applied
  <2>2. Grown(f, T, d)
    BY <1>2 DEF Grown
  <2> QED
    BY <1>4, <2>1, <2>2
<1> QED
  BY <1>3, <1>4

LEMMA AppliedForests ==
  ASSUME NEW forests \in [Dv -> Forest], NEW S, NEW c \in Cond,
         \A d \in Dv : Grown(forests[d], S, d)
  PROVE  Applied(forests, c) \in [Dv -> Forest]
<1>1. \A d \in Dv : Applied(forests, c)[d] \in Forest
  BY AppliedGrown DEF Grown
<1>2. Applied(forests, c) = [d \in Dv |-> Applied(forests, c)[d]]
  BY DEF Applied
<1> QED
  BY <1>1, <1>2

LEMMA NoForestsGrown ==
  ASSUME NEW d \in Dv
  PROVE  NoForests \in [Dv -> Forest] /\ Grown(NoForests[d], {}, d)
<1> DEFINE f == NewForest
           g == [x \in Vertex |-> [root |-> x, xor |-> 0]]
<1>1. f \in Forest /\ \A x \in Vertex : f.parent[x] = x
  BY DEF NewForest, Forest, Bit
<1>2. Descends(f, [x \in Vertex |-> 0])
  BY <1>1 DEF Descends
<1>3. g \in Findings
  BY DEF Findings, Bit
<1>4. Solves(f, g)
  <2> HIDE DEF f
  <2>1. g = [x \in Vertex |-> IF f.parent[x] = x THEN [root |-> x, xor |-> 0]
                              ELSE [root |-> g[f.parent[x]].root, xor |-> Xor(f.parity[x], g[f.parent[x]].xor)]]
    BY <1>1
  <2> QED
    BY <2>1 DEF Solves
<1>5. \A w : EdgesHold(f, w)
  BY <1>1 DEF EdgesHold
<1>6. NoForests = [e \in Dv |-> f]
  BY DEF NoForests
<1> HIDE DEF f, g
<1> QED
  BY <1>1, <1>2, <1>3, <1>4, <1>5, <1>6 DEF Grown

-----------------------------------------------------------------------------
LEMMA CandidateFacts ==
  ASSUME NEW forests, NEW c \in Candidates(forests)
  PROVE  /\ c \in Cond
         /\ \A d \in c.dvs : d \in Dv /\ Tied(forests, d, c.u, c.v, c.c)
<1>1. PICK x \in Vertex, y \in Vertex, bit \in Bit :
        c = [u |-> x, v |-> y, c |-> bit, dvs |-> { d \in Dv : Tied(forests, d, x, y, bit) }]
  BY DEF Candidates, Entry
<1>2. c.u = x /\ c.v = y /\ c.c = bit /\ c.dvs = { d \in Dv : Tied(forests, d, x, y, bit) }
  BY <1>1
<1>3. c \in Cond
  <2> DEFINE D == { d \in Dv : Tied(forests, d, x, y, bit) }
  <2>1. D \in SUBSET Dv
    OBVIOUS
  <2> HIDE DEF D
  <2> QED
    BY <1>1, <2>1 DEF Cond, D
<1> QED
  BY <1>2, <1>3

(* A candidate of d with these two bits.                                   *)
Offered(forests, d, x, y) ==
  \E c \in Candidates(forests) :
    d \in c.dvs /\ ((c.u = x /\ c.v = y) \/ (c.u = y /\ c.v = x))

(* What a span holds is a candidate, one way round or the other.           *)
LEMMA CandidateFor ==
  ASSUME NEW forests, NEW S, NEW d \in Dv, Grown(forests[d], S, d),
         NEW x \in Vertex, NEW y \in Vertex, x # y, NEW bit \in Bit, Tied(forests, d, x, y, bit)
  PROVE  Offered(forests, d, x, y)
<1>1. Before(x, y) \/ Before(y, x)
  <2>1. x \in Nat \X Nat /\ y \in Nat \X Nat
    BY VertexAssumption
  <2>2. x = <<x[1], x[2]>> /\ y = <<y[1], y[2]>> /\ {x[1], x[2], y[1], y[2]} \subseteq Nat
    BY <2>1
  <2>3. x[1] # y[1] \/ x[2] # y[2]
    BY <2>2
  <2> QED
    BY <2>2, <2>3 DEF Before
<1>2. Tied(forests, d, y, x, bit)
  <2> DEFINE G == Find(forests[d])
  <2>1. G[x].xor \in Bit /\ G[y].xor \in Bit
    <3>1. G \in Findings
      BY FindFacts
    <3> HIDE DEF G
    <3> QED
      BY <3>1 DEF Findings
  <2>2. Xor(G[x].xor, G[y].xor) = Xor(G[y].xor, G[x].xor)
    BY <2>1, XorBit
  <2> QED
    BY <2>2 DEF Tied, Connected
<1>3. ASSUME NEW o \in Vertex, NEW q \in Vertex, Before(o, q), Tied(forests, d, o, q, bit)
      PROVE  \E c \in Candidates(forests) : d \in c.dvs /\ c.u = o /\ c.v = q
  <2> DEFINE e == Entry(forests, o, q, bit)
             D == { n \in Dv : Tied(forests, n, o, q, bit) }
  <2>1. d \in D
    BY <1>3
  <2>2. e.u = o /\ e.v = q /\ e.dvs = D
    BY DEF Entry
  <2>3. e \in Candidates(forests)
    <3>1. e \in { Entry(forests, s, t, b) : s \in Vertex, t \in Vertex, b \in Bit }
      OBVIOUS
    <3>2. Before(e.u, e.v) /\ e.dvs # {}
      BY <1>3, <2>1, <2>2
    <3> HIDE DEF e
    <3> QED
      BY <3>1, <3>2 DEF Candidates
  <2> QED
    BY <2>1, <2>2, <2>3
<1> QED
  BY <1>1, <1>2, <1>3 DEF Offered
-----------------------------------------------------------------------------
(* Numbers, orders and folds.                                              *)
LEMMA LeastElement ==
  ASSUME NEW S \in SUBSET Nat, S # {}
  PROVE  \E n \in S : \A m \in S : n <= m
<1> DEFINE less == OpToRel(<, Nat)
<1>1. IsWellFoundedOn(less, Nat)
  BY NatLessThanWellFounded
<1>2. PICK n \in S : \A m \in S : ~(<<m, n>> \in less)
  <2> HIDE DEF less
  <2> QED
    BY <1>1, WFMin
<1>3. ASSUME NEW m \in S PROVE n <= m
  <2>1. <<m, n>> \notin less
    BY <1>2
  <2>2. m \in Nat /\ n \in Nat
    OBVIOUS
  <2>3. ~(m < n)
    BY <2>1, <2>2 DEF OpToRel
  <2> QED
    BY <2>2, <2>3
<1> QED
  BY <1>3

(* Induction over the natural numbers, for a set of them.                  *)
LEMMA AllNumbers ==
  ASSUME NEW S \in SUBSET Nat, 0 \in S, \A n \in S : n + 1 \in S
  PROVE  S = Nat
<1> SUFFICES ASSUME Nat \ S # {} PROVE FALSE
  OBVIOUS
<1>1. PICK n \in Nat \ S : \A m \in Nat \ S : n <= m
  BY LeastElement
<1>2. n # 0 /\ n - 1 \in Nat
  BY <1>1
<1>3. n - 1 \in S
  BY <1>1, <1>2
<1>4. (n - 1) + 1 \in S
  BY <1>3
<1> QED
  BY <1>1, <1>4

(* Up to n.                                                                *)
LEMMA UpTo ==
  ASSUME NEW n \in Nat, NEW S, 0 \in S, \A k \in 0 .. n - 1 : k \in S => k + 1 \in S
  PROVE  0 .. n \subseteq S
<1> DEFINE N == { k \in Nat : k <= n => k \in S }
<1>1. 0 \in N
  OBVIOUS
<1>2. ASSUME NEW k \in N PROVE k + 1 \in N
  <2>1. k \in Nat /\ (k <= n => k \in S)
    OBVIOUS
  <2>2. CASE k + 1 <= n
    <3>1. k \in 0 .. n - 1 /\ k \in S
      BY <2>1, <2>2
    <3> QED
      BY <2>1, <3>1
  <2>3. CASE ~(k + 1 <= n)
    BY <2>1, <2>3
  <2> QED
    BY <2>2, <2>3
<1>3. N = Nat
  <2> HIDE DEF N
  <2>1. N \in SUBSET Nat
    BY DEF N
  <2> QED
    BY <1>1, <1>2, <2>1, AllNumbers
<1>4. ASSUME NEW k \in 0 .. n PROVE k \in S
  <2>1. k \in N /\ k <= n
    BY <1>3
  <2> QED
    BY <2>1
<1> QED
  BY <1>4

(* Induction over a finite set: one element taken from what is left, as ch *)
(* chooses.                                                                *)
LEMMA AllSubsets ==
  ASSUME NEW S, IsFiniteSet(S), NEW ch, \A s \in SUBSET S : s # {} => ch[s] \in s,
         NEW G, {} \in G, \A s \in SUBSET S : s # {} /\ s \ {ch[s]} \in G => s \in G
  PROVE  SUBSET S \subseteq G
<1> DEFINE N == { n \in Nat : \A s \in SUBSET S : Cardinality(s) = n => s \in G }
<1>0. \A s \in SUBSET S : IsFiniteSet(s) /\ Cardinality(s) \in Nat
  BY FS_Subset, FS_CardinalityType
<1>1. 0 \in N
  BY <1>0, FS_EmptySet
<1>2. ASSUME NEW n \in N PROVE n + 1 \in N
  <2> SUFFICES ASSUME NEW s \in SUBSET S, Cardinality(s) = n + 1 PROVE s \in G
    OBVIOUS
  <2>1. s # {}
    <3>1. n + 1 # 0
      OBVIOUS
    <3> QED
      BY <3>1, FS_EmptySet
  <2>2. ch[s] \in s
    BY <2>1
  <2>3. Cardinality(s \ {ch[s]}) = Cardinality(s) - 1
    BY <1>0, <2>2, FS_RemoveElement
  <2>4. Cardinality(s \ {ch[s]}) = n /\ s \ {ch[s]} \in SUBSET S
    BY <2>3
  <2> QED
    BY <2>1, <2>4
<1>3. N = Nat
  <2> HIDE DEF N
  <2>1. N \in SUBSET Nat
    BY DEF N
  <2> QED
    BY <1>1, <1>2, <2>1, AllNumbers
<1>4. ASSUME NEW s \in SUBSET S PROVE s \in G
  <2>1. Cardinality(s) \in N
    BY <1>0, <1>3
  <2> QED
    BY <2>1
<1> QED
  BY <1>4

(* What a fold recurs on.                                                  *)
Folds(S, ch, base, op, it) ==
  \A s \in SUBSET S : it[s] = IF s = {} THEN base ELSE op[<<ch[s], it[s \ {ch[s]}]>>]

(* A fold's recursion has an answer, with every value in V.                *)
LEMMA FoldExists ==
  ASSUME NEW S, IsFiniteSet(S), NEW ch, \A s \in SUBSET S : s # {} => ch[s] \in s,
         NEW V, NEW base \in V, NEW op \in [S \X V -> V]
  PROVE  \E it \in [SUBSET S -> V] : Folds(S, ch, base, op, it)
<1> DEFINE Below(s) == { u \in SUBSET S : u \subseteq s }
           Answers(it, s) ==
             \A u \in SUBSET s : it[u] = IF u = {} THEN base ELSE op[<<ch[u], it[u \ {ch[u]}]>>]
           N == { n \in Nat : \E it \in [SUBSET S -> V] :
                    \A u \in SUBSET S : Cardinality(u) <= n =>
                      it[u] = IF u = {} THEN base ELSE op[<<ch[u], it[u \ {ch[u]}]>>] }
<1>0. \A s \in SUBSET S : IsFiniteSet(s) /\ Cardinality(s) \in Nat
  BY FS_Subset, FS_CardinalityType
<1>9. \A u \in SUBSET S : u # {} => u \ {ch[u]} \in SUBSET S /\ Cardinality(u \ {ch[u]}) = Cardinality(u) - 1
  BY <1>0, FS_RemoveElement
<1>1. 0 \in N
  <2> DEFINE it == [u \in SUBSET S |-> base]
  <2>1. it \in [SUBSET S -> V]
    OBVIOUS
  <2>2. ASSUME NEW u \in SUBSET S, Cardinality(u) <= 0 PROVE u = {} /\ it[u] = base
    <3>1. Cardinality(u) = 0
      BY <1>0, <2>2
    <3> QED
      BY <1>0, <3>1, FS_EmptySet
  <2> HIDE DEF it
  <2> QED
    BY <2>1, <2>2
<1>2. ASSUME NEW n \in N PROVE n + 1 \in N
  <2>1. PICK g \in [SUBSET S -> V] : \A u \in SUBSET S : Cardinality(u) <= n =>
          g[u] = IF u = {} THEN base ELSE op[<<ch[u], g[u \ {ch[u]}]>>]
    OBVIOUS
  <2> DEFINE it == [u \in SUBSET S |-> IF u = {} THEN base ELSE op[<<ch[u], g[u \ {ch[u]}]>>]]
  <2>2. \A u \in SUBSET S : u # {} => <<ch[u], g[u \ {ch[u]}]>> \in S \X V
    BY <1>9
  <2>3. it \in [SUBSET S -> V]
    BY <2>2
  <2>4. \A u \in SUBSET S : it[u] = IF u = {} THEN base ELSE op[<<ch[u], g[u \ {ch[u]}]>>]
    OBVIOUS
  <2> HIDE DEF it
  <2>5. ASSUME NEW u \in SUBSET S, Cardinality(u) <= n PROVE it[u] = g[u]
    <3>1. g[u] = IF u = {} THEN base ELSE op[<<ch[u], g[u \ {ch[u]}]>>]
      BY <2>1, <2>5
    <3>2. it[u] = IF u = {} THEN base ELSE op[<<ch[u], g[u \ {ch[u]}]>>]
      BY <2>4
    <3> QED
      BY <3>1, <3>2
  <2>6. n \in Nat
    OBVIOUS
  <2>7. ASSUME NEW u \in SUBSET S, Cardinality(u) <= n + 1
        PROVE  it[u] = IF u = {} THEN base ELSE op[<<ch[u], it[u \ {ch[u]}]>>]
    <3>1. CASE u = {}
      BY <2>4, <3>1
    <3>2. CASE u # {}
      <4>1. Cardinality(u \ {ch[u]}) <= n /\ u \ {ch[u]} \in SUBSET S
        BY <1>0, <1>9, <2>6, <2>7, <3>2
      <4>2. it[u \ {ch[u]}] = g[u \ {ch[u]}]
        BY <2>5, <4>1
      <4> QED
        BY <2>4, <3>2, <4>2
    <3> QED
      BY <3>1, <3>2
  <2>8. \E jt \in [SUBSET S -> V] : \A u \in SUBSET S : Cardinality(u) <= n + 1 =>
          jt[u] = IF u = {} THEN base ELSE op[<<ch[u], jt[u \ {ch[u]}]>>]
    BY <2>3, <2>7
  <2>9. n + 1 \in Nat
    BY <2>6
  <2> HIDE <2>1, <2>4, <2>5, <2>7
  <2> QED
    BY ONLY <2>8, <2>9, Zenon
<1>3. N = Nat
  <2> HIDE DEF N
  <2>1. N \in SUBSET Nat
    BY DEF N
  <2> QED
    BY <1>1, <1>2, <2>1, AllNumbers
<1>4. Cardinality(S) \in Nat
  BY <1>0
<1>5. PICK it \in [SUBSET S -> V] : \A u \in SUBSET S : Cardinality(u) <= Cardinality(S) =>
          it[u] = IF u = {} THEN base ELSE op[<<ch[u], it[u \ {ch[u]}]>>]
  BY <1>3, <1>4
<1>6. \A u \in SUBSET S : Cardinality(u) <= Cardinality(S)
  BY FS_Subset
<1> QED
  BY <1>5, <1>6 DEF Folds

(* A finite set has a minimal element, in any order.                       *)
LEMMA Minimal ==
  ASSUME NEW T, NEW less, \A x \in T : <<x, x>> \notin less,
         \A x, y, z \in T : <<x, y>> \in less /\ <<y, z>> \in less => <<x, z>> \in less,
         IsFiniteSet(T), T # {}
  PROVE  \E x \in T : \A y \in T : <<y, x>> \notin less
<1> DEFINE G == { s \in SUBSET T : s = {} \/ \E x \in s : \A y \in s : <<y, x>> \notin less }
           ch == [s \in SUBSET T |-> CHOOSE x \in s : TRUE]
<1>1. \A s \in SUBSET T : s # {} => ch[s] \in s
  OBVIOUS
<1> HIDE DEF ch
<1>2. {} \in G
  OBVIOUS
<1>3. ASSUME NEW s \in SUBSET T, s # {}, s \ {ch[s]} \in G PROVE s \in G
  <2> DEFINE a == ch[s]
             r == s \ {a}
  <2>1. a \in s /\ a \in T /\ r \subseteq T /\ s = r \cup {a}
    BY <1>1, <1>3
  <2>2. r = {} \/ \E x \in r : \A y \in r : <<y, x>> \notin less
    BY <1>3
  <2> HIDE DEF a, r
  <2>3. CASE r = {}
    BY <2>1, <2>3
  <2>4. CASE r # {}
    <3>1. PICK x \in r : \A y \in r : <<y, x>> \notin less
      BY <2>2, <2>4
    <3>2. CASE <<a, x>> \in less
      <4>1. \A y \in r : <<y, a>> \notin less
        BY <2>1, <3>1, <3>2
      <4>2. \A y \in s : <<y, a>> \notin less
        BY <2>1, <4>1
      <4> QED
        BY <2>1, <4>2
    <3>3. CASE <<a, x>> \notin less
      BY <2>1, <3>1, <3>3
    <3> QED
      BY <3>2, <3>3
  <2> QED
    BY <2>3, <2>4
<1>4. SUBSET T \subseteq G
  <2> HIDE DEF G
  <2> QED
    BY <1>1, <1>2, <1>3, AllSubsets
<1> QED
  BY <1>4

LEMMA MinOf ==
  ASSUME NEW S \in SUBSET Int, IsFiniteSet(S), S # {}
  PROVE  Min(S) \in S /\ \A n \in S : Min(S) <= n
<1> DEFINE less == { m \in S \X S : m[1] < m[2] }
<1>1. \A x, y \in S : <<x, y>> \in less <=> x < y
  OBVIOUS
<1> HIDE DEF less
<1>2. PICK x \in S : \A y \in S : <<y, x>> \notin less
  <2>1. \A y \in S : <<y, y>> \notin less
    BY <1>1
  <2>2. ASSUME NEW u \in S, NEW v \in S, NEW w \in S, <<u, v>> \in less, <<v, w>> \in less
        PROVE  <<u, w>> \in less
    <3>1. u < v /\ v < w /\ u \in Int /\ v \in Int /\ w \in Int
      BY <1>1, <2>2
    <3>2. u < w
      BY <3>1
    <3> QED
      BY <1>1, <3>2
  <2>3. \A u, v, w \in S : <<u, v>> \in less /\ <<v, w>> \in less => <<u, w>> \in less
    BY <2>2
  <2> QED
    BY ONLY <2>1, <2>3, IsFiniteSet(S), S # {}, Minimal
<1>3. ASSUME NEW y \in S PROVE x <= y
  <2>1. x \in Int /\ y \in Int
    OBVIOUS
  <2>2. ~(y < x)
    BY <1>1, <1>2
  <2> QED
    BY <2>1, <2>2
<1> QED
  BY <1>3 DEF Min

LEMMA MaxOf ==
  ASSUME NEW S \in SUBSET Int, IsFiniteSet(S), S # {}
  PROVE  Max(S) \in S /\ \A n \in S : n <= Max(S)
<1> DEFINE less == { m \in S \X S : m[1] > m[2] }
<1>1. \A x, y \in S : <<x, y>> \in less <=> x > y
  OBVIOUS
<1> HIDE DEF less
<1>2. PICK x \in S : \A y \in S : <<y, x>> \notin less
  <2>1. \A y \in S : <<y, y>> \notin less
    BY <1>1
  <2>2. ASSUME NEW u \in S, NEW v \in S, NEW w \in S, <<u, v>> \in less, <<v, w>> \in less
        PROVE  <<u, w>> \in less
    <3>1. u > v /\ v > w /\ u \in Int /\ v \in Int /\ w \in Int
      BY <1>1, <2>2
    <3>2. u > w
      BY <3>1
    <3> QED
      BY <1>1, <3>2
  <2>3. \A u, v, w \in S : <<u, v>> \in less /\ <<v, w>> \in less => <<u, w>> \in less
    BY <2>2
  <2> QED
    BY ONLY <2>1, <2>3, IsFiniteSet(S), S # {}, Minimal
<1>3. ASSUME NEW y \in S PROVE x >= y
  <2>1. x \in Int /\ y \in Int
    OBVIOUS
  <2>2. ~(y > x)
    BY <1>1, <1>2
  <2> QED
    BY <2>1, <2>2
<1> QED
  BY <1>3 DEF Max

(* The order of tuples is one.                                             *)
LEMMA LessOrders ==
  ASSUME NEW n \in Nat, NEW s \in [1 .. n -> Int], NEW t \in [1 .. n -> Int], NEW u \in [1 .. n -> Int]
  PROVE  /\ ~Less(s, s)
         /\ Less(s, t) /\ Less(t, u) => Less(s, u)
<1>1. \A k \in 1 .. n : s[k] \in Int /\ t[k] \in Int /\ u[k] \in Int
  OBVIOUS
<1>2. ~Less(s, s)
  BY <1>1 DEF Less
<1>3. ASSUME Less(s, t), Less(t, u) PROVE Less(s, u)
  <2>1. PICK a \in 1 .. n : s[a] < t[a] /\ \A m \in 1 .. a - 1 : s[m] = t[m]
    BY <1>3 DEF Less
  <2>2. PICK b \in 1 .. n : t[b] < u[b] /\ \A m \in 1 .. b - 1 : t[m] = u[m]
    BY <1>3 DEF Less
  <2>3. CASE a < b
    <3>1. t[a] = u[a] /\ \A m \in 1 .. a - 1 : t[m] = u[m]
      BY <2>2, <2>3
    <3>2. s[a] < u[a] /\ \A m \in 1 .. a - 1 : s[m] = u[m]
      BY <2>1, <3>1
    <3> QED
      BY <3>2 DEF Less
  <2>4. CASE b < a
    <3>1. s[b] = t[b] /\ \A m \in 1 .. b - 1 : s[m] = t[m]
      BY <2>1, <2>4
    <3>2. s[b] < u[b] /\ \A m \in 1 .. b - 1 : s[m] = u[m]
      BY <2>2, <3>1
    <3> QED
      BY <3>2 DEF Less
  <2>5. CASE a = b
    <3>1. s[a] < u[a] /\ \A m \in 1 .. a - 1 : s[m] = u[m]
      <4>1. s[a] < t[a] /\ t[a] < u[a]
        BY <2>1, <2>2, <2>5
      <4>2. s[a] < u[a]
        BY <1>1, <4>1
      <4>3. \A m \in 1 .. a - 1 : s[m] = u[m]
        BY <2>1, <2>2, <2>5
      <4> QED
        BY <4>2, <4>3
    <3> QED
      BY <3>1 DEF Less
  <2> QED
    BY <2>3, <2>4, <2>5
<1> QED
  BY <1>2, <1>3
-----------------------------------------------------------------------------
(* A score is a number.                                                    *)
Ranks == [Dv -> Nat]

LEMMA NumberFold ==
  ASSUME NEW S, IsFiniteSet(S), NEW ch, \A s \in SUBSET S : s # {} => ch[s] \in s,
         NEW base \in Int, NEW op \in [S \X Int -> Int]
  PROVE  \E it \in [SUBSET S -> Int] : Folds(S, ch, base, op, it)
<1> PICK V : V = Int
  OBVIOUS
<1>1. base \in V /\ op \in [S \X V -> V]
  OBVIOUS
<1>2. \E it \in [SUBSET S -> V] : Folds(S, ch, base, op, it)
  <2>1. base \in V /\ op \in [S \X V -> V] /\ IsFiniteSet(S) /\ \A s \in SUBSET S : s # {} => ch[s] \in s
    BY <1>1
  <2> QED
    BY ONLY <2>1, FoldExists
<1> QED
  BY <1>2

LEMMA DvFinite == IsFiniteSet(Dv)
BY FiniteAssumption

LEMMA MinOfTwo ==
  ASSUME NEW m \in Int, NEW n \in Int
  PROVE  Min({m, n}) = IF m <= n THEN m ELSE n
<1>1. IsFiniteSet({m, n})
  <2>1. IsFiniteSet({n}) /\ {m, n} = {n} \cup {m}
    BY FS_Singleton
  <2> QED
    BY <2>1, FS_AddElement
<1>2. Min({m, n}) \in {m, n} /\ \A k \in {m, n} : Min({m, n}) <= k
  BY <1>1, MinOf
<1> QED
  BY <1>2

LEMMA AliveType ==
  ASSUME NEW rank \in Nat
  PROVE  Alive(rank) \in Int
<1>1. RANKS \in Nat
  BY UbcsAssumption
<1>2. Min({rank, RANKS}) = IF rank <= RANKS THEN rank ELSE RANKS
  BY <1>1, MinOfTwo
<1>3. RANKS - Min({rank, RANKS}) \in Nat
  BY <1>1, <1>2
<1> HIDE <1>2
<1> QED
  BY <1>3 DEF Alive

(* The product that random makes.                                          *)
ProductOf(ranks) == FoldSet(LAMBDA d, product : product * (2 ^ RANKS - Alive(ranks[d])), 1, Dv)

(* What the sum and the product recur on.                                  *)
SumEq(ranks, it) ==
  it = [s \in SUBSET Dv |->
         IF s = {} THEN 0 ELSE Alive(ranks[CHOOSE x \in s : TRUE]) + it[s \ {CHOOSE x \in s : TRUE}]]

ProductEq(ranks, it) ==
  it = [s \in SUBSET Dv |->
         IF s = {} THEN 1
         ELSE it[s \ {CHOOSE x \in s : TRUE}] * (2 ^ RANKS - Alive(ranks[CHOOSE x \in s : TRUE]))]

LEMMA SumRuns ==
  ASSUME NEW ranks \in Ranks
  PROVE  \E it \in [SUBSET Dv -> Int] : SumEq(ranks, it) /\ Survivors(ranks) = it[Dv]
<1> DEFINE ch == [s \in SUBSET Dv |-> CHOOSE x \in s : TRUE]
           op == [m \in Dv \X Int |-> Alive(ranks[m[1]]) + m[2]]
           it == CHOOSE jt : SumEq(ranks, jt)
           G == { s \in SUBSET Dv : it[s] \in Int }
<1>1. Survivors(ranks) = it[Dv]
  BY Zenon DEF Survivors, MapThenSumSet, MapThenFoldSet, SumEq
<1>2. \A s \in SUBSET Dv : s # {} => ch[s] \in s
  OBVIOUS
<1>3. \A x \in Dv : Alive(ranks[x]) \in Int
  BY AliveType DEF Ranks
<1>4. op \in [Dv \X Int -> Int]
  BY <1>3
<1>5. \A x \in Dv, n \in Int : op[<<x, n>>] = Alive(ranks[x]) + n
  OBVIOUS
<1>6. PICK g \in [SUBSET Dv -> Int] : Folds(Dv, ch, 0, op, g)
  <2> HIDE DEF op, ch
  <2> PICK base : base = 0
    OBVIOUS
  <2>1. base \in Int
    OBVIOUS
  <2> QED
    BY <1>2, <1>4, <2>1, DvFinite, NumberFold
<1>7. SumEq(ranks, g)
  <2>1. ASSUME NEW s \in SUBSET Dv, s # {}
        PROVE  g[s] = Alive(ranks[CHOOSE x \in s : TRUE]) + g[s \ {CHOOSE x \in s : TRUE}]
    <3>1. ch[s] = CHOOSE x \in s : TRUE
      OBVIOUS
    <3> HIDE DEF op, ch
    <3>2. ch[s] \in Dv /\ s \ {ch[s]} \in SUBSET Dv
      BY <1>2, <2>1
    <3>3. g[s \ {ch[s]}] \in Int
      BY <3>2
    <3>4. g[s] = op[<<ch[s], g[s \ {ch[s]}]>>]
      BY <1>6, <2>1 DEF Folds
    <3>5. g[s] = Alive(ranks[ch[s]]) + g[s \ {ch[s]}]
      BY <1>5, <3>2, <3>3, <3>4
    <3> QED
      BY <3>1, <3>5
  <2>2. g[{}] = 0
    BY <1>6 DEF Folds
  <2>3. g = [s \in SUBSET Dv |-> g[s]]
    OBVIOUS
  <2> QED
    BY <2>1, <2>2, <2>3 DEF SumEq
<1>8. SumEq(ranks, it)
  BY <1>7
<1> HIDE DEF it
<1>9. \A s \in SUBSET Dv : it[s] = IF s = {} THEN 0 ELSE Alive(ranks[ch[s]]) + it[s \ {ch[s]}]
  BY <1>8 DEF SumEq
<1> HIDE DEF ch
<1>10. {} \in G /\ \A s \in SUBSET Dv : s # {} /\ s \ {ch[s]} \in G => s \in G
  <2>1. {} \in G
    <3>1. it[{}] = 0
      BY <1>9
    <3> QED
      BY <3>1
  <2>2. ASSUME NEW s \in SUBSET Dv, s # {}, s \ {ch[s]} \in G PROVE s \in G
    <3>1. ch[s] \in Dv
      BY <1>2, <2>2
    <3>2. Alive(ranks[ch[s]]) \in Int /\ it[s \ {ch[s]}] \in Int
      BY <1>3, <2>2, <3>1
    <3>3. it[s] = Alive(ranks[ch[s]]) + it[s \ {ch[s]}]
      BY <1>9, <2>2
    <3>4. it[s] \in Int
      BY ONLY <3>2, <3>3
    <3> QED
      BY <3>4
  <2> QED
    BY <2>1, <2>2
<1>11. SUBSET Dv \subseteq G
  <2> HIDE DEF G
  <2> QED
    BY ONLY <1>2, <1>10, DvFinite, AllSubsets
<1>12. it \in [SUBSET Dv -> Int]
  BY <1>8, <1>11 DEF SumEq
<1> QED
  BY <1>1, <1>8, <1>12

LEMMA ProductRuns ==
  ASSUME NEW ranks \in Ranks
  PROVE  \E it \in [SUBSET Dv -> Int] : ProductEq(ranks, it) /\ ProductOf(ranks) = it[Dv]
<1> DEFINE ch == [s \in SUBSET Dv |-> CHOOSE x \in s : TRUE]
           op == [m \in Dv \X Int |-> m[2] * (2 ^ RANKS - Alive(ranks[m[1]]))]
           it == CHOOSE jt : ProductEq(ranks, jt)
           G == { s \in SUBSET Dv : it[s] \in Int }
<1>1. ProductOf(ranks) = it[Dv]
  BY Zenon DEF ProductOf, FoldSet, MapThenFoldSet, ProductEq
<1>2. \A s \in SUBSET Dv : s # {} => ch[s] \in s
  OBVIOUS
<1>3. \A x \in Dv : 2 ^ RANKS - Alive(ranks[x]) \in Int
  BY AliveType, UbcsAssumption DEF Ranks
<1>4. op \in [Dv \X Int -> Int]
  BY <1>3
<1>5. \A x \in Dv, n \in Int : op[<<x, n>>] = n * (2 ^ RANKS - Alive(ranks[x]))
  OBVIOUS
<1>6. PICK g \in [SUBSET Dv -> Int] : Folds(Dv, ch, 1, op, g)
  <2> HIDE DEF op, ch
  <2> PICK base : base = 1
    OBVIOUS
  <2>1. base \in Int
    OBVIOUS
  <2> QED
    BY <1>2, <1>4, <2>1, DvFinite, NumberFold
<1>7. ProductEq(ranks, g)
  <2>1. ASSUME NEW s \in SUBSET Dv, s # {}
        PROVE  g[s] = g[s \ {CHOOSE x \in s : TRUE}] * (2 ^ RANKS - Alive(ranks[CHOOSE x \in s : TRUE]))
    <3>1. ch[s] = CHOOSE x \in s : TRUE
      OBVIOUS
    <3> HIDE DEF op, ch
    <3>2. ch[s] \in Dv /\ s \ {ch[s]} \in SUBSET Dv
      BY <1>2, <2>1
    <3>3. g[s \ {ch[s]}] \in Int
      BY <3>2
    <3>4. g[s] = op[<<ch[s], g[s \ {ch[s]}]>>]
      BY <1>6, <2>1 DEF Folds
    <3>5. g[s] = g[s \ {ch[s]}] * (2 ^ RANKS - Alive(ranks[ch[s]]))
      BY <1>5, <3>2, <3>3, <3>4
    <3> QED
      BY <3>1, <3>5
  <2>2. g[{}] = 1
    BY <1>6 DEF Folds
  <2>3. g = [s \in SUBSET Dv |-> g[s]]
    OBVIOUS
  <2> QED
    BY <2>1, <2>2, <2>3 DEF ProductEq
<1>8. ProductEq(ranks, it)
  BY <1>7
<1> HIDE DEF it
<1>9. \A s \in SUBSET Dv :
        it[s] = IF s = {} THEN 1 ELSE it[s \ {ch[s]}] * (2 ^ RANKS - Alive(ranks[ch[s]]))
  BY <1>8 DEF ProductEq
<1> HIDE DEF ch
<1>10. {} \in G /\ \A s \in SUBSET Dv : s # {} /\ s \ {ch[s]} \in G => s \in G
  <2>1. {} \in G
    <3>1. it[{}] = 1
      BY <1>9
    <3> QED
      BY <3>1
  <2>2. ASSUME NEW s \in SUBSET Dv, s # {}, s \ {ch[s]} \in G PROVE s \in G
    <3>1. ch[s] \in Dv
      BY <1>2, <2>2
    <3>2. 2 ^ RANKS - Alive(ranks[ch[s]]) \in Int /\ it[s \ {ch[s]}] \in Int
      BY <1>3, <2>2, <3>1
    <3>3. \A m, n \in Int : m * n \in Int
      OBVIOUS
    <3>4. it[s] = it[s \ {ch[s]}] * (2 ^ RANKS - Alive(ranks[ch[s]]))
      BY ONLY <1>9, <2>2
    <3>5. it[s] \in Int
      BY ONLY <3>2, <3>3, <3>4
    <3> QED
      BY <3>5
  <2> QED
    BY <2>1, <2>2
<1>11. SUBSET Dv \subseteq G
  <2> HIDE DEF G
  <2> QED
    BY ONLY <1>2, <1>10, DvFinite, AllSubsets
<1>12. it \in [SUBSET Dv -> Int]
  BY <1>8, <1>11 DEF ProductEq
<1> QED
  BY <1>1, <1>8, <1>12

LEMMA SurvivorsType ==
  ASSUME NEW ranks \in Ranks
  PROVE  Survivors(ranks) \in Int
BY SumRuns

LEMMA ProductType ==
  ASSUME NEW ranks \in Ranks
  PROVE  ProductOf(ranks) \in Int
BY ProductRuns

LEMMA ScoreType ==
  ASSUME NEW target, NEW ranks \in Ranks
  PROVE  Score(target, ranks) \in Int
<1>1. Survivors(ranks) \in Int
  BY SurvivorsType
<1>2. Random(ranks) \in Int
  <2> DEFINE n == Cardinality(Dv)
             product == ProductOf(ranks)
  <2>1. Random(ranks) = 2 ^ (RANKS * n) - product + Survivors(ranks) * 2 ^ (RANKS * (n - 1))
    BY DEF Random, ProductOf
  <2>3. n \in Nat /\ n - 1 \in Nat /\ RANKS \in Nat
    <3>1. n \in Nat /\ n # 0
      BY FiniteAssumption, FS_CardinalityType, FS_EmptySet
    <3> HIDE DEF n
    <3> QED
      BY <3>1, UbcsAssumption
  <2>4. product \in Int
    BY ProductType
  <2> HIDE DEF n, product
  <2>5. 2 ^ (RANKS * n) \in Int /\ 2 ^ (RANKS * (n - 1)) \in Int
    <3>1. \A k, l \in Nat : k * l \in Nat
      OBVIOUS
    <3>2. RANKS * n \in Nat /\ RANKS * (n - 1) \in Nat
      BY <2>3, <3>1
    <3>3. \A k \in Nat : 2 ^ k \in Int
      OBVIOUS
    <3> QED
      BY ONLY <3>2, <3>3
  <2>6. \A a, b, c, d \in Int : a - b + c * d \in Int
    OBVIOUS
  <2> QED
    BY <1>1, <2>1, <2>4, <2>5, <2>6
<1> QED
  BY <1>1, <1>2 DEF Score
-----------------------------------------------------------------------------
(* What a condition joins.                                                 *)
LEMMA HungRoots ==
  ASSUME NEW f, NEW S, NEW d, Grown(f, S, d),
         NEW a \in Vertex, NEW b \in Vertex, a # b, f.parent[a] = a, f.parent[b] = b,
         NEW xor \in Bit, NEW x \in Vertex
  PROVE  Find(Hung(f, b, a, xor))[x].root = IF Find(f)[x].root = b THEN a ELSE Find(f)[x].root
<1> DEFINE k == Hung(f, b, a, xor)
           g == Find(f)
           h == Rehung(g, b, a, xor)
<1>1. f \in Forest
  BY DEF Grown
<1>2. k \in Forest /\ h \in Findings /\ Solves(k, h)
  BY <1>1, HungForest, HungSolves
<1>3. \E i : Descends(k, i)
  BY HungDescends
<1>4. Find(k) = h
  BY <1>2, <1>3, FindIs
<1>5. h[x] = IF g[x].root = b THEN [root |-> a, xor |-> Xor(g[x].xor, xor)] ELSE g[x]
  BY DEF Rehung
<1> HIDE DEF g, h, k
<1>6. CASE g[x].root = b
  BY <1>4, <1>5, <1>6 DEF g, k
<1>7. CASE g[x].root # b
  BY <1>4, <1>5, <1>7 DEF g, k
<1> QED
  BY <1>6, <1>7

LEMMA UnionConnects ==
  ASSUME NEW f, NEW S, NEW d, Grown(f, S, d), NEW x \in Vertex, NEW y \in Vertex, NEW c \in Bit,
         NEW o \in Vertex, NEW q \in Vertex
  PROVE  Connected(Union(f, x, y, c), o, q) <=>
           \/ Connected(f, o, q)
           \/ Connected(f, o, x) /\ Connected(f, q, y)
           \/ Connected(f, o, y) /\ Connected(f, q, x)
<1> DEFINE g == Find(f)
           a == g[x].root
           b == g[y].root
           xor == Xor(Xor(g[x].xor, g[y].xor), c)
           k == Union(f, x, y, c)
<1>1. g \in Findings
  BY FindFacts
<1>2. a \in Vertex /\ b \in Vertex /\ g[x].xor \in Bit /\ g[y].xor \in Bit
  <2> HIDE DEF g
  <2> QED
    BY <1>1 DEF Findings
<1>3. f.parent[a] = a /\ f.parent[b] = b
  BY RootIsRoot
<1>4. xor \in Bit
  <2>1. Xor(g[x].xor, g[y].xor) \in Bit
    BY <1>2, XorBit
  <2> QED
    BY <2>1, XorBit
<1>5. k = IF a = b THEN f
          ELSE IF f.size[a] < f.size[b] THEN Hung(f, a, b, xor) ELSE Hung(f, b, a, xor)
  BY DEF Union
<1>6. CASE a = b
  <2>1. k = f
    BY <1>5, <1>6
  <2> QED
    BY <1>6, <2>1 DEF Connected
<1>7. CASE a # b
  <2>1. \E e, r \in {a, b} :
          /\ e # r
          /\ \A z \in Vertex : Find(k)[z].root = IF g[z].root = e THEN r ELSE g[z].root
    <3>1. CASE f.size[a] < f.size[b]
      <4>1. k = Hung(f, a, b, xor)
        BY <1>5, <1>7, <3>1
      <4> HIDE DEF a, b, xor, k
      <4>2. \A z \in Vertex : Find(k)[z].root = IF g[z].root = a THEN b ELSE g[z].root
        BY <1>2, <1>3, <1>4, <1>7, <4>1, HungRoots
      <4> QED
        BY <1>7, <4>2
    <3>2. CASE ~(f.size[a] < f.size[b])
      <4>1. k = Hung(f, b, a, xor)
        BY <1>5, <1>7, <3>2
      <4> HIDE DEF a, b, xor, k
      <4>2. \A z \in Vertex : Find(k)[z].root = IF g[z].root = b THEN a ELSE g[z].root
        BY <1>2, <1>3, <1>4, <1>7, <4>1, HungRoots
      <4> QED
        BY <1>7, <4>2
    <3> QED
      BY <3>1, <3>2
  <2>2. PICK e \in {a, b}, r \in {a, b} :
          /\ e # r
          /\ \A z \in Vertex : Find(k)[z].root = IF g[z].root = e THEN r ELSE g[z].root
    BY <2>1
  <2>3. Connected(k, o, q) <=> Find(k)[o].root = Find(k)[q].root
    BY DEF Connected
  <2>4. /\ Connected(f, o, q) <=> g[o].root = g[q].root
        /\ Connected(f, o, x) <=> g[o].root = a
        /\ Connected(f, q, x) <=> g[q].root = a
        /\ Connected(f, o, y) <=> g[o].root = b
        /\ Connected(f, q, y) <=> g[q].root = b
    BY DEF Connected
  <2> HIDE DEF g, a, b, k
  <2>5. Find(k)[o].root = IF g[o].root = e THEN r ELSE g[o].root
    BY <2>2
  <2>6. Find(k)[q].root = IF g[q].root = e THEN r ELSE g[q].root
    BY <2>2
  <2> QED
    BY <2>2, <2>3, <2>4, <2>5, <2>6 DEF k
<1> QED
  BY <1>6, <1>7

(* A tree that a fill knows.                                               *)
Tree(f, x) == { y \in Vertex : Connected(f, x, y) }

LEMMA TreesAre ==
  ASSUME NEW live
  PROVE  TreesOf(live) = { <<d, Tree(live[d], x)>> : d \in Dv, x \in Vertex }
BY DEF TreesOf, Tree

(* A tree is that of each of its bits, and bits are in it or not together. *)
LEMMA TreeFacts ==
  ASSUME NEW f, NEW x \in Vertex
  PROVE  /\ x \in Tree(f, x)
         /\ \A y \in Tree(f, x) : y \in Vertex /\ Tree(f, y) = Tree(f, x)
BY DEF Tree, Connected

LEMMA AddsGained ==
  ASSUME NEW live, NEW c \in Cond
  PROVE  Adds(TreesOf(live), c) = Gained(live, c)
<1>1. c.u \in Vertex /\ c.v \in Vertex /\ c.dvs \subseteq Dv
  BY DEF Cond
<1>2. ASSUME NEW d \in Dv
      PROVE  (\E t \in TreesOf(live) : t[1] = d /\ c.u \in t[2] /\ c.v \in t[2])
               <=> Connected(live[d], c.u, c.v)
  <2>1. ASSUME NEW t \in TreesOf(live), t[1] = d, c.u \in t[2], c.v \in t[2]
        PROVE  Connected(live[d], c.u, c.v)
    <3>1. PICK e \in Dv, x \in Vertex : t = <<e, Tree(live[e], x)>>
      BY TreesAre
    <3>2. e = d /\ c.u \in Tree(live[d], x) /\ c.v \in Tree(live[d], x)
      BY <2>1, <3>1
    <3> QED
      BY <3>2 DEF Tree, Connected
  <2>2. ASSUME Connected(live[d], c.u, c.v)
        PROVE  \E t \in TreesOf(live) : t[1] = d /\ c.u \in t[2] /\ c.v \in t[2]
    <3> DEFINE t == <<d, Tree(live[d], c.u)>>
    <3>1. t \in TreesOf(live)
      BY <1>1, TreesAre
    <3>2. c.u \in Tree(live[d], c.u) /\ c.v \in Tree(live[d], c.u)
      BY <1>1, <2>2 DEF Tree, Connected
    <3>3. t[1] = d /\ t[2] = Tree(live[d], c.u)
      OBVIOUS
    <3> HIDE DEF t
    <3> QED
      BY <3>1, <3>2, <3>3
  <2> QED
    BY <2>1, <2>2
<1>3. \A d \in c.dvs : d \in Adds(TreesOf(live), c) <=> d \in Gained(live, c)
  BY <1>1, <1>2 DEF Adds, Gained
<1>4. Adds(TreesOf(live), c) \subseteq c.dvs /\ Gained(live, c) \subseteq c.dvs
  BY DEF Adds, Gained
<1> QED
  BY <1>3, <1>4

(* The trees after a condition was taken in.                               *)
LEMMA AppliedTrees ==
  ASSUME NEW live, NEW S, NEW c \in Cond, NEW d \in Dv, Grown(live[d], S, d), NEW x \in Vertex
  PROVE  Tree(Applied(live, c)[d], x) =
           IF d \in Gained(live, c) /\ (c.u \in Tree(live[d], x) \/ c.v \in Tree(live[d], x))
           THEN Tree(live[d], c.u) \cup Tree(live[d], c.v) ELSE Tree(live[d], x)
<1> DEFINE f == live[d]
           k == Applied(live, c)[d]
<1>1. c.u \in Vertex /\ c.v \in Vertex /\ c.c \in Bit
  BY DEF Cond
<1>2. k = IF d \in c.dvs THEN Union(f, c.u, c.v, c.c) ELSE f
  BY DEF Applied
<1>3. d \in Gained(live, c) <=> d \in c.dvs /\ ~Connected(f, c.u, c.v)
  BY DEF Gained
<1>4. Grown(f, S, d)
  OBVIOUS
<1> HIDE DEF f, k
<1>5. \A y \in Vertex : Connected(f, x, y) <=> Connected(f, y, x)
  BY DEF Connected
<1>6. CASE d \notin c.dvs
  BY <1>2, <1>3, <1>6 DEF f, k
<1>7. CASE d \in c.dvs
  <2>1. \A y \in Vertex :
          Connected(k, x, y) <=>
            \/ Connected(f, x, y)
            \/ Connected(f, x, c.u) /\ Connected(f, y, c.v)
            \/ Connected(f, x, c.v) /\ Connected(f, y, c.u)
    BY <1>1, <1>2, <1>4, <1>7, UnionConnects
  <2>2. CASE Connected(f, c.u, c.v)
    <3>1. \A y \in Vertex : Connected(k, x, y) <=> Connected(f, x, y)
      BY <2>1, <2>2 DEF Connected
    <3>2. Tree(k, x) = Tree(f, x)
      BY <3>1 DEF Tree
    <3> QED
      BY <1>3, <2>2, <3>2 DEF f, k
  <2>3. CASE ~Connected(f, c.u, c.v)
    <3>1. /\ c.u \in Tree(f, x) <=> Connected(f, x, c.u)
          /\ c.v \in Tree(f, x) <=> Connected(f, x, c.v)
      BY <1>1 DEF Tree
    <3>2. CASE Connected(f, x, c.u) \/ Connected(f, x, c.v)
      <4>1. \A y \in Vertex : Connected(k, x, y) <=> Connected(f, c.u, y) \/ Connected(f, c.v, y)
        BY <2>1, <2>3, <3>2 DEF Connected
      <4>2. Tree(k, x) = Tree(f, c.u) \cup Tree(f, c.v)
        BY <4>1 DEF Tree
      <4> QED
        BY <1>3, <1>7, <2>3, <3>1, <3>2, <4>2 DEF f, k
    <3>3. CASE ~Connected(f, x, c.u) /\ ~Connected(f, x, c.v)
      <4>1. \A y \in Vertex : Connected(k, x, y) <=> Connected(f, x, y)
        BY <2>1, <3>3
      <4>2. Tree(k, x) = Tree(f, x)
        BY <4>1 DEF Tree
      <4> QED
        BY <1>3, <3>1, <3>3, <4>2 DEF f, k
    <3> QED
      BY <3>2, <3>3
  <2> QED
    BY <2>2, <2>3
<1> QED
  BY <1>6, <1>7

(* The trees a fill moves on are those of the forests it would make.       *)
LEMMA JoinedTrees ==
  ASSUME NEW live, NEW S, NEW c \in Cond, \A d \in Dv : Grown(live[d], S, d)
  PROVE  Joined(TreesOf(live), c) = TreesOf(Applied(live, c))
<1> DEFINE trees == TreesOf(live)
           gained == Gained(live, c)
           after == Applied(live, c)
           Apart(t) == t[1] \notin gained \/ {c.u, c.v} \cap t[2] = {}
           Both(d) == Tree(live[d], c.u) \cup Tree(live[d], c.v)
           Met(d) == { t \in trees : t[1] = d /\ ~Apart(t) }
<1>1. c.u \in Vertex /\ c.v \in Vertex /\ gained \subseteq Dv
  BY DEF Cond, Gained
<1>2. Joined(trees, c) =
        { t \in trees : Apart(t) } \cup { <<d, UNION { t[2] : t \in Met(d) }>> : d \in gained }
  BY AddsGained DEF Joined
<1>3. \A t : t \in trees <=> \E d \in Dv, x \in Vertex : t = <<d, Tree(live[d], x)>>
  BY TreesAre
<1>4. \A t : t \in TreesOf(after) <=> \E d \in Dv, x \in Vertex : t = <<d, Tree(after[d], x)>>
  BY TreesAre
<1>5. ASSUME NEW d \in Dv, NEW x \in Vertex
      PROVE  Tree(after[d], x) =
               IF d \in gained /\ (c.u \in Tree(live[d], x) \/ c.v \in Tree(live[d], x))
               THEN Both(d) ELSE Tree(live[d], x)
  BY AppliedTrees
<1> HIDE DEF trees, gained, after
<1>6. ASSUME NEW d \in gained PROVE UNION { t[2] : t \in Met(d) } = Both(d)
  <2> DEFINE at_u == <<d, Tree(live[d], c.u)>>
             at_v == <<d, Tree(live[d], c.v)>>
  <2>1. at_u \in trees /\ at_v \in trees
    BY <1>1, <1>3
  <2>2. c.u \in Tree(live[d], c.u) /\ c.v \in Tree(live[d], c.v)
    BY <1>1, TreeFacts
  <2>3. at_u[1] = d /\ at_u[2] = Tree(live[d], c.u) /\ at_v[1] = d /\ at_v[2] = Tree(live[d], c.v)
    OBVIOUS
  <2>4. at_u \in Met(d) /\ at_v \in Met(d)
    <3> HIDE DEF at_u, at_v
    <3> QED
      BY <2>1, <2>2, <2>3
  <2>5. ASSUME NEW t \in Met(d) PROVE t[2] = Tree(live[d], c.u) \/ t[2] = Tree(live[d], c.v)
    <3>1. PICK e \in Dv, x \in Vertex : t = <<e, Tree(live[e], x)>>
      BY <1>3
    <3>2. e = d /\ t[2] = Tree(live[d], x)
      BY <3>1
    <3>3. c.u \in Tree(live[d], x) \/ c.v \in Tree(live[d], x)
      BY <3>2
    <3> QED
      BY <3>2, <3>3, TreeFacts
  <2> HIDE DEF Met, at_u, at_v
  <2>6. ASSUME NEW y PROVE y \in UNION { t[2] : t \in Met(d) } <=> y \in Both(d)
    <3>1. y \in UNION { t[2] : t \in Met(d) } <=> \E t \in Met(d) : y \in t[2]
      OBVIOUS
    <3> QED
      BY <2>3, <2>4, <2>5, <3>1
  <2> QED
    BY <2>6
<1> DEFINE left == { t \in trees : Apart(t) } \cup { <<d, Both(d)>> : d \in gained }
<1>7. Joined(trees, c) = left
  <2> HIDE DEF Both, Met
  <2>1. { <<d, UNION { t[2] : t \in Met(d) }>> : d \in gained } = { <<d, Both(d)>> : d \in gained }
    BY <1>6
  <2> QED
    BY <1>2, <2>1
<1> HIDE DEF Both
<1>8. ASSUME NEW t \in left PROVE t \in TreesOf(after)
  <2>1. CASE t \in trees /\ Apart(t)
    <3>1. PICK d \in Dv, x \in Vertex : t = <<d, Tree(live[d], x)>>
      BY <1>3, <2>1
    <3>2. ~(d \in gained /\ (c.u \in Tree(live[d], x) \/ c.v \in Tree(live[d], x)))
      BY <2>1, <3>1
    <3>3. t = <<d, Tree(after[d], x)>>
      BY <1>5, <3>1, <3>2
    <3> QED
      BY <1>4, <3>3
  <2>2. CASE \E d \in gained : t = <<d, Both(d)>>
    <3>1. PICK d \in gained : t = <<d, Both(d)>>
      BY <2>2
    <3>2. c.u \in Tree(live[d], c.u) /\ d \in Dv
      BY <1>1, TreeFacts
    <3>3. t = <<d, Tree(after[d], c.u)>>
      BY <1>1, <1>5, <3>1, <3>2
    <3> QED
      BY <1>1, <1>4, <3>2, <3>3
  <2> QED
    BY <2>1, <2>2
<1>9. ASSUME NEW t \in TreesOf(after) PROVE t \in left
  <2>1. PICK d \in Dv, x \in Vertex : t = <<d, Tree(after[d], x)>>
    BY <1>4
  <2>2. CASE d \in gained /\ (c.u \in Tree(live[d], x) \/ c.v \in Tree(live[d], x))
    <3>1. t = <<d, Both(d)>>
      BY <1>5, <2>1, <2>2
    <3> QED
      BY <2>2, <3>1
  <2>3. CASE ~(d \in gained /\ (c.u \in Tree(live[d], x) \/ c.v \in Tree(live[d], x)))
    <3>1. t = <<d, Tree(live[d], x)>>
      BY <1>5, <2>1, <2>3
    <3>2. t \in trees
      BY <1>3, <3>1
    <3>3. t[1] = d /\ t[2] = Tree(live[d], x)
      BY <3>1
    <3>4. Apart(t)
      BY <2>3, <3>3
    <3> QED
      BY <3>2, <3>4
  <2> QED
    BY <2>2, <2>3
<1>10. left = TreesOf(after)
  <2> HIDE DEF left
  <2> QED
    BY <1>8, <1>9
<1> QED
  BY <1>7, <1>10 DEF trees, after
-----------------------------------------------------------------------------
(* Sequences.                                                              *)
LEMMA AppendFacts ==
  ASSUME NEW X, NEW s \in Seq(X), NEW x \in X
  PROVE  LET t == Append(s, x)
         IN /\ t \in Seq(X) /\ Len(t) = Len(s) + 1 /\ DOMAIN t = 1 .. Len(s) + 1
            /\ DOMAIN s = 1 .. Len(s)
            /\ t[Len(s) + 1] = x /\ \A k \in 1 .. Len(s) : t[k] = s[k]
            /\ Range(t) = Range(s) \cup {x}
<1> DEFINE t == Append(s, x)
<1>1. /\ t \in Seq(X) /\ Len(t) = Len(s) + 1 /\ DOMAIN t = 1 .. Len(s) + 1
      /\ DOMAIN s = 1 .. Len(s)
      /\ t[Len(s) + 1] = x /\ \A k \in 1 .. Len(s) : t[k] = s[k]
  OBVIOUS
<1>2. Len(s) \in Nat
  OBVIOUS
<1> HIDE DEF t
<1>3. Range(t) = Range(s) \cup {x}
  <2>1. ASSUME NEW y PROVE y \in Range(t) <=> y \in Range(s) \cup {x}
    <3>1. y \in Range(t) <=> \E k \in 1 .. Len(s) + 1 : y = t[k]
      BY <1>1 DEF Range
    <3>2. y \in Range(s) <=> \E k \in 1 .. Len(s) : y = s[k]
      BY <1>1 DEF Range
    <3>3. 1 .. Len(s) + 1 = (1 .. Len(s)) \cup {Len(s) + 1}
      BY <1>2
    <3>4. (\E k \in 1 .. Len(s) + 1 : y = t[k]) <=> (\E k \in 1 .. Len(s) : y = t[k]) \/ y = t[Len(s) + 1]
      BY <3>3
    <3> QED
      BY <1>1, <3>1, <3>2, <3>4
  <2> QED
    BY <2>1
<1> QED
  BY <1>1, <1>3 DEF t

LEMMA LastOff ==
  ASSUME NEW X, NEW n \in Nat, NEW s \in Seq(X), Len(s) = n + 1
  PROVE  \E r \in Seq(X), x \in X : s = Append(r, x) /\ Len(r) = n
<1> DEFINE r == SubSeq(s, 1, n)
<1>1. r \in Seq(X) /\ Len(r) = n /\ s[n + 1] \in X /\ s = Append(r, s[n + 1])
  OBVIOUS
<1> QED
  BY <1>1

(* Induction over the sequences, for a set of them.                        *)
LEMMA AllSequences ==
  ASSUME NEW X, NEW G, << >> \in G, \A s \in Seq(X), x \in X : s \in G => Append(s, x) \in G
  PROVE  Seq(X) \subseteq G
<1> DEFINE N == { n \in Nat : \A s \in Seq(X) : Len(s) = n => s \in G }
<1>1. 0 \in N
  <2>1. \A s \in Seq(X) : Len(s) = 0 => s = << >>
    OBVIOUS
  <2> QED
    BY <2>1
<1>2. ASSUME NEW n \in N PROVE n + 1 \in N
  <2>1. n \in Nat /\ \A s \in Seq(X) : Len(s) = n => s \in G
    OBVIOUS
  <2> SUFFICES ASSUME NEW s \in Seq(X), Len(s) = n + 1 PROVE s \in G
    BY <2>1
  <2> HIDE DEF N
  <2>2. PICK r \in Seq(X), x \in X : s = Append(r, x) /\ Len(r) = n
    BY <2>1, LastOff
  <2>3. r \in G
    BY <2>1, <2>2
  <2> QED
    BY <2>2, <2>3
<1>3. N = Nat
  <2> HIDE DEF N
  <2>1. N \in SUBSET Nat
    BY DEF N
  <2> QED
    BY <1>1, <1>2, <2>1, AllNumbers
<1>4. ASSUME NEW s \in Seq(X) PROVE s \in G
  <2>1. Len(s) \in N
    <3>1. Len(s) \in Nat
      OBVIOUS
    <3> QED
      BY <1>3, <3>1
  <2> QED
    BY <2>1
<1> QED
  BY <1>4

(* The greatest of what is left of a sequence's positions.                 *)
LEMMA Positions ==
  ASSUME NEW n \in Nat
  PROVE  /\ IsFiniteSet(1 .. n)
         /\ \A u \in SUBSET (1 .. n) : u # {} => Max(u) \in u
         /\ Max(1 .. n + 1) = n + 1 /\ (1 .. n + 1) \ {n + 1} = 1 .. n
         /\ 1 .. n + 1 # {} /\ 1 .. n \subseteq 1 .. n + 1
<1>1. \A m \in Nat : IsFiniteSet(1 .. m)
  BY FS_Interval
<1>2. ASSUME NEW u \in SUBSET (1 .. n), u # {} PROVE Max(u) \in u
  <2>0. IsFiniteSet(1 .. n) /\ u \subseteq 1 .. n
    BY <1>1, <1>2
  <2>1a. IsFiniteSet(u)
    BY ONLY <2>0, FS_Subset
  <2>1b. 1 .. n \subseteq Int
    OBVIOUS
  <2>1. IsFiniteSet(u) /\ u \in SUBSET Int
    BY ONLY <2>0, <2>1a, <2>1b
  <2> QED
    BY <1>2, <2>1, MaxOf
<1>3. Max(1 .. n + 1) = n + 1
  <2> DEFINE u == 1 .. n + 1
  <2>1. IsFiniteSet(u) /\ u \in SUBSET Int /\ n + 1 \in u
    BY <1>1
  <2>2. \A k \in u : k <= n + 1
    OBVIOUS
  <2> HIDE DEF u
  <2>3. Max(u) \in u /\ \A k \in u : k <= Max(u)
    BY <2>1, MaxOf
  <2>4. Max(u) \in Int /\ n + 1 \in Int /\ Max(u) <= n + 1 /\ n + 1 <= Max(u)
    BY <2>1, <2>2, <2>3
  <2>5. Max(u) = n + 1
    BY <2>4
  <2> QED
    BY <2>5 DEF u
<1>4. (1 .. n + 1) \ {n + 1} = 1 .. n /\ 1 .. n + 1 # {} /\ 1 .. n \subseteq 1 .. n + 1
  <2>1. ASSUME NEW k PROVE k \in (1 .. n + 1) \ {n + 1} <=> k \in 1 .. n
    OBVIOUS
  <2>2. n + 1 \in 1 .. n + 1
    OBVIOUS
  <2>3. (1 .. n + 1) \ {n + 1} = 1 .. n
    BY ONLY <2>1
  <2>4. 1 .. n \subseteq 1 .. n + 1
    BY ONLY <2>3
  <2> QED
    BY ONLY <2>2, <2>3, <2>4
<1> QED
  BY <1>1, <1>2, <1>3, <1>4

-----------------------------------------------------------------------------
(* Where conditions stand when they are added one by one to nothing.       *)
StateAfter(conds) == FoldLeft(Added, NoState, conds)

(* The states that come of it.                                             *)
States ==
  { s \in [live : [Dv -> Forest], ranks : Ranks] :
      \E T \in SUBSET Cond : \A d \in Dv : Grown(s.live[d], T, d) }

LEMMA AddedGrown ==
  ASSUME NEW s \in [live : [Dv -> Forest], ranks : Ranks], NEW T \in SUBSET Cond,
         \A d \in Dv : Grown(s.live[d], T, d), NEW c \in Cond
  PROVE  /\ Added(s, c) \in States
         /\ Added(s, c).live = Applied(s.live, c)
         /\ Added(s, c).ranks = PlusGained(s.ranks, Gained(s.live, c))
         /\ \A d \in Dv : Grown(Added(s, c).live[d], T \cup {c}, d)
<1>1. Added(s, c).live = Applied(s.live, c) /\ Added(s, c).ranks = PlusGained(s.ranks, Gained(s.live, c))
  BY DEF Added
<1>2. s.live \in [Dv -> Forest] /\ s.ranks \in Ranks
  OBVIOUS
<1>3. Applied(s.live, c) \in [Dv -> Forest] /\ \A d \in Dv : Grown(Applied(s.live, c)[d], T \cup {c}, d)
  BY <1>2, AppliedForests, AppliedGrown
<1>4. PlusGained(s.ranks, Gained(s.live, c)) \in Ranks
  <2> DEFINE g == Gained(s.live, c)
  <2> HIDE DEF g
  <2>1. \A d \in Dv : s.ranks[d] \in Nat
    BY <1>2 DEF Ranks
  <2>2. PlusGained(s.ranks, g) \in Ranks
    BY <2>1 DEF PlusGained, Ranks
  <2> QED
    BY <2>2 DEF g
<1>5. Added(s, c) \in [live : [Dv -> Forest], ranks : Ranks]
  BY <1>3, <1>4 DEF Added
<1>6. T \cup {c} \in SUBSET Cond
  OBVIOUS
<1> QED
  BY <1>1, <1>3, <1>5, <1>6 DEF States

LEMMA NoStateGood == NoState \in States /\ \A d \in Dv : Grown(NoState.live[d], {}, d)
<1>1. NoForests \in [Dv -> Forest] /\ \A d \in Dv : Grown(NoForests[d], {}, d)
  BY NoForestsGrown, FiniteAssumption
<1>2. NoState.live = NoForests /\ NoState \in [live : [Dv -> Forest], ranks : Ranks]
  BY <1>1 DEF NoState, Ranks
<1> QED
  BY <1>1, <1>2 DEF States

(* What the fold over conditions recurs on.                                *)
StateEq(conds, it) ==
  it = [u \in SUBSET DOMAIN conds |->
          IF u = {} THEN NoState ELSE Added(it[u \ {Max(u)}], conds[Max(u)])]

LEMMA StateRuns ==
  ASSUME NEW conds \in Seq(Cond)
  PROVE  \E it \in [SUBSET DOMAIN conds -> States] :
           StateEq(conds, it) /\ StateAfter(conds) = it[DOMAIN conds]
<1> DEFINE S == DOMAIN conds
           ch == [u \in SUBSET S |-> Max(u)]
           op == [m \in S \X States |-> Added(m[2], conds[m[1]])]
           it == CHOOSE jt : StateEq(conds, jt)
           G == { u \in SUBSET S : it[u] \in States }
<1>1. StateAfter(conds) = it[S]
  BY Zenon DEF StateAfter, FoldLeft, MapThenFoldSet, StateEq
<1>2. IsFiniteSet(S) /\ \A u \in SUBSET S : u # {} => ch[u] \in u
  <2>1. S = 1 .. Len(conds) /\ Len(conds) \in Nat
    OBVIOUS
  <2> QED
    BY <2>1, Positions
<1>3. ASSUME NEW k \in S, NEW s \in States PROVE Added(s, conds[k]) \in States
  <2>1. conds[k] \in Cond
    OBVIOUS
  <2>2. PICK T \in SUBSET Cond : \A d \in Dv : Grown(s.live[d], T, d)
    BY DEF States
  <2>3. s \in [live : [Dv -> Forest], ranks : Ranks]
    BY DEF States
  <2> QED
    BY <2>1, <2>2, <2>3, AddedGrown
<1>4. op \in [S \X States -> States]
  BY <1>3
<1>5. \A k \in S, s \in States : op[<<k, s>>] = Added(s, conds[k])
  OBVIOUS
<1>0. \A u \in SUBSET S : ch[u] = Max(u)
  OBVIOUS
<1> HIDE DEF S, op, ch
<1>6. PICK g \in [SUBSET S -> States] : Folds(S, ch, NoState, op, g)
  BY <1>2, <1>4, NoStateGood, FoldExists
<1>7. StateEq(conds, g)
  <2>1. ASSUME NEW u \in SUBSET S, u # {}
        PROVE  g[u] = Added(g[u \ {Max(u)}], conds[Max(u)])
    <3>1. ch[u] = Max(u) /\ ch[u] \in S /\ u \ {ch[u]} \in SUBSET S
      BY <1>0, <1>2, <2>1
    <3>2. g[u \ {ch[u]}] \in States
      BY <3>1
    <3>3. g[u] = op[<<ch[u], g[u \ {ch[u]}]>>]
      BY <1>6, <2>1 DEF Folds
    <3> QED
      BY <1>5, <3>1, <3>2, <3>3
  <2>2. g[{}] = NoState
    BY <1>6 DEF Folds
  <2>3. g = [u \in SUBSET S |-> g[u]]
    OBVIOUS
  <2> QED
    BY <2>1, <2>2, <2>3 DEF StateEq, S
<1>8. StateEq(conds, it)
  BY <1>7
<1> HIDE DEF it
<1>9. it = [u \in SUBSET S |-> IF u = {} THEN NoState ELSE Added(it[u \ {Max(u)}], conds[Max(u)])]
  BY <1>8 DEF StateEq, S
<1>10. {} \in G /\ \A u \in SUBSET S : u # {} /\ u \ {ch[u]} \in G => u \in G
  <2>1. {} \in G
    BY <1>9, NoStateGood
  <2>2. ASSUME NEW u \in SUBSET S, u # {}, u \ {ch[u]} \in G PROVE u \in G
    <3>1. ch[u] = Max(u) /\ ch[u] \in S
      BY <1>0, <1>2, <2>2
    <3>2. it[u] = Added(it[u \ {ch[u]}], conds[ch[u]])
      BY <1>9, <2>2, <3>1
    <3>3. it[u] \in States
      BY <1>3, <2>2, <3>1, <3>2
    <3> QED
      BY <3>3
  <2> QED
    BY <2>1, <2>2
<1>11. SUBSET S \subseteq G
  <2> HIDE DEF G
  <2> QED
    BY <1>2, <1>10, AllSubsets, SMTT(30)
<1>12. it \in [SUBSET S -> States]
  BY <1>9, <1>11
<1> QED
  BY <1>1, <1>8, <1>12 DEF S

LEMMA StateOfNone == StateAfter(<< >>) = NoState
<1>1. << >> \in Seq(Cond) /\ DOMAIN << >> = {}
  OBVIOUS
<1>2. PICK it : StateEq(<< >>, it) /\ StateAfter(<< >>) = it[{}]
  BY <1>1, StateRuns
<1>3. it[{}] = NoState
  BY <1>1, <1>2 DEF StateEq
<1> QED
  BY <1>2, <1>3

(* Induction over a finite set, as one fact.                               *)
Inductive(S, ch, G) ==
  /\ IsFiniteSet(S)
  /\ \A s \in SUBSET S : s # {} => ch[s] \in s
  /\ {} \in G
  /\ \A s \in SUBSET S : s # {} /\ s \ {ch[s]} \in G => s \in G

LEMMA Induction ==
  ASSUME NEW S, NEW ch, NEW G, Inductive(S, ch, G)
  PROVE  SUBSET S \subseteq G
<1>1. IsFiniteSet(S) /\ \A s \in SUBSET S : s # {} => ch[s] \in s
  BY DEF Inductive
<1>2. {} \in G /\ \A s \in SUBSET S : s # {} /\ s \ {ch[s]} \in G => s \in G
  BY DEF Inductive
<1> QED
  BY <1>1, <1>2, AllSubsets

LEMMA StateOfOneMore ==
  ASSUME NEW conds \in Seq(Cond), NEW c \in Cond
  PROVE  StateAfter(Append(conds, c)) = Added(StateAfter(conds), c)
<1> DEFINE more == Append(conds, c)
           n == Len(conds)
<1>1. /\ more \in Seq(Cond) /\ DOMAIN more = 1 .. n + 1 /\ DOMAIN conds = 1 .. n
      /\ more[n + 1] = c /\ \A k \in 1 .. n : more[k] = conds[k]
  BY AppendFacts
<1>2. n \in Nat
  OBVIOUS
<1> HIDE DEF more, n
<1>3. PICK it \in [SUBSET DOMAIN conds -> States] : StateEq(conds, it) /\ StateAfter(conds) = it[DOMAIN conds]
  BY StateRuns
<1>4. PICK jt \in [SUBSET DOMAIN more -> States] : StateEq(more, jt) /\ StateAfter(more) = jt[DOMAIN more]
  BY <1>1, StateRuns
<1> DEFINE S == 1 .. n
           ch == [u \in SUBSET S |-> Max(u)]
           G == { u \in SUBSET S : it[u] = jt[u] }
<1>5. IsFiniteSet(S) /\ \A u \in SUBSET S : u # {} => Max(u) \in u
  BY <1>2, Positions
<1>5a. \A u \in SUBSET S : u # {} => ch[u] \in u
  BY <1>5
<1>5b. \A u \in SUBSET S : ch[u] = Max(u)
  OBVIOUS
<1>6. \A u \in SUBSET S : it[u] = IF u = {} THEN NoState ELSE Added(it[u \ {Max(u)}], conds[Max(u)])
  BY <1>1, <1>3 DEF StateEq
<1>7. \A u \in SUBSET (1 .. n + 1) :
        jt[u] = IF u = {} THEN NoState ELSE Added(jt[u \ {Max(u)}], more[Max(u)])
  BY <1>1, <1>4 DEF StateEq
<1>8. S \subseteq 1 .. n + 1 /\ 1 .. n + 1 # {} /\ Max(1 .. n + 1) = n + 1 /\ (1 .. n + 1) \ {n + 1} = S
  BY <1>2, Positions
<1> HIDE DEF S, ch
<1>9. {} \in G /\ \A u \in SUBSET S : u # {} /\ u \ {ch[u]} \in G => u \in G
  <2>1. {} \in G
    BY <1>6, <1>7
  <2>2. ASSUME NEW u \in SUBSET S, u # {}, u \ {ch[u]} \in G PROVE u \in G
    <3>1. ch[u] = Max(u) /\ Max(u) \in S /\ it[u \ {Max(u)}] = jt[u \ {Max(u)}]
      BY <1>5, <1>5b, <2>2
    <3>2. more[Max(u)] = conds[Max(u)]
      BY <1>1, <3>1 DEF S
    <3>3. it[u] = jt[u]
      BY <1>6, <1>7, <1>8, <2>2, <3>1, <3>2
    <3> QED
      BY <3>3
  <2> QED
    BY <2>1, <2>2
<1>10. it[S] = jt[S]
  <2>1. SUBSET S \subseteq G
    <3> HIDE DEF G
    <3>1. IsFiniteSet(S)
      BY <1>5
    <3>2. {} \in G
      BY <1>9
    <3>3. \A u \in SUBSET S : u # {} /\ u \ {ch[u]} \in G => u \in G
      BY <1>9
    <3>4. Inductive(S, ch, G)
      BY ONLY <3>1, <1>5a, <3>2, <3>3 DEF Inductive
    <3> QED
      BY ONLY <3>4, Induction
  <2> QED
    BY <2>1
<1>11. jt[1 .. n + 1] = Added(jt[S], c)
  BY <1>1, <1>7, <1>8
<1> QED
  BY <1>1, <1>3, <1>4, <1>10, <1>11 DEF more, S

(* What it comes to: forests of just these conditions.                     *)
LEMMA StateFacts ==
  ASSUME NEW conds \in Seq(Cond)
  PROVE  /\ StateAfter(conds) \in [live : [Dv -> Forest], ranks : Ranks]
         /\ \A d \in Dv : Grown(StateAfter(conds).live[d], Range(conds), d)
<1> DEFINE G == { s \in Seq(Cond) :
                    /\ StateAfter(s) \in [live : [Dv -> Forest], ranks : Ranks]
                    /\ \A d \in Dv : Grown(StateAfter(s).live[d], Range(s), d) }
<1>1. << >> \in G
  <2>1. << >> \in Seq(Cond) /\ Range(<< >>) = {}
    BY DEF Range
  <2>2. NoState \in [live : [Dv -> Forest], ranks : Ranks]
    BY NoStateGood DEF States
  <2> QED
    BY <2>1, <2>2, NoStateGood, StateOfNone
<1>2. ASSUME NEW s \in Seq(Cond), NEW c \in Cond, s \in G PROVE Append(s, c) \in G
  <2> DEFINE t == StateAfter(s)
             T == Range(s)
  <2>1. /\ t \in [live : [Dv -> Forest], ranks : Ranks]
        /\ \A d \in Dv : Grown(t.live[d], T, d)
    BY <1>2
  <2>2. T \in SUBSET Cond
    BY DEF Range
  <2>3. Append(s, c) \in Seq(Cond) /\ Range(Append(s, c)) = T \cup {c}
    BY AppendFacts
  <2>4. StateAfter(Append(s, c)) = Added(t, c)
    BY StateOfOneMore
  <2> HIDE DEF t, T
  <2>5. Added(t, c) \in States /\ \A d \in Dv : Grown(Added(t, c).live[d], T \cup {c}, d)
    BY <2>1, <2>2, AddedGrown
  <2>6. Added(t, c) \in [live : [Dv -> Forest], ranks : Ranks]
    BY <2>5 DEF States
  <2> QED
    BY <2>3, <2>4, <2>5, <2>6
<1>3. Seq(Cond) \subseteq G
  <2> HIDE DEF G
  <2> QED
    BY <1>1, <1>2, AllSequences
<1> QED
  BY <1>3
-----------------------------------------------------------------------------
(* What a function makes of a finite set is finite.                        *)
LEMMA FiniteImage ==
  ASSUME NEW S, IsFiniteSet(S), NEW f, DOMAIN f = S, f = [x \in S |-> f[x]]
  PROVE  IsFiniteSet({ f[x] : x \in S })
<1> DEFINE T == { f[x] : x \in S }
<1>1. f \in [S -> T]
  OBVIOUS
<1>2. \A t \in T : \E x \in S : f[x] = t
  OBVIOUS
<1> HIDE DEF T
<1>3. f \in Surjection(S, T)
  BY ONLY <1>1, <1>2 DEF Surjection
<1>4. IsFiniteSet(T)
  BY ONLY <1>3, FS_Surjection, IsFiniteSet(S)
<1> QED
  BY <1>4 DEF T

(* The first of some conditions is one of them.                            *)
LEMMA FirstIsOne ==
  ASSUME NEW C \in SUBSET Cond, IsFiniteSet(C), C # {}
  PROVE  FirstOf(C) \in C
<1> DEFINE less == { m \in C \X C : Less(Place(m[1]), Place(m[2])) }
           Fives == [1 .. 5 -> Int]
<1>1. ASSUME NEW c \in C PROVE Place(c) \in Fives
  <2>1. c.u \in Nat \X Nat /\ c.v \in Nat \X Nat /\ c.c \in Int
    BY VertexAssumption DEF Cond, Bit
  <2>2. c.u[1] \in Int /\ c.u[2] \in Int /\ c.v[1] \in Int /\ c.v[2] \in Int
    BY <2>1
  <2> QED
    BY <2>1, <2>2 DEF Place, I, A, J, B
<1>2. \A x, y \in C : <<x, y>> \in less <=> Less(Place(x), Place(y))
  OBVIOUS
<1> HIDE DEF less
<1>3. PICK n \in Nat : n = 5
  OBVIOUS
<1>4. \A s, t, u \in Fives : ~Less(s, s) /\ (Less(s, t) /\ Less(t, u) => Less(s, u))
  BY <1>3, LessOrders
<1> HIDE DEF Fives
<1>5. \A x \in C : <<x, x>> \notin less
  BY <1>1, <1>2, <1>4
<1>6. \A x, y, z \in C : <<x, y>> \in less /\ <<y, z>> \in less => <<x, z>> \in less
  BY ONLY <1>1, <1>2, <1>4
<1>7. PICK x \in C : \A y \in C : <<y, x>> \notin less
  BY ONLY <1>5, <1>6, IsFiniteSet(C), C # {}, Minimal
<1>8. \A y \in C : ~Less(Place(y), Place(x))
  BY <1>2, <1>7
<1> QED
  BY <1>8 DEF FirstOf

-----------------------------------------------------------------------------
(* What a fill has tried, from where the conditions of base stand.         *)
FillAt(target, base, g) ==
  [group |-> g, trees |-> TreesOf(StateAfter(base \o g).live),
   ranks |-> StateAfter(base \o g).ranks, score |-> Score(target, StateAfter(base \o g).ranks)]

Fillings(target, base, C) == {None} \cup { FillAt(target, base, g) : g \in Seq(C) }

LEMMA Concatenated ==
  ASSUME NEW X, NEW s \in Seq(X), NEW t \in Seq(X), NEW x \in X
  PROVE  /\ s \o t \in Seq(X) /\ s \o << >> = s
         /\ s \o Append(t, x) = Append(s \o t, x)
OBVIOUS

LEMMA FillGrows ==
  ASSUME NEW target, NEW base \in Seq(Cond), NEW g \in Seq(Cond), NEW c \in Cond
  PROVE  LET f == FillAt(target, base, g)
             ranks == PlusGained(f.ranks, Adds(f.trees, c))
         IN /\ f.ranks \in Ranks /\ ranks \in Ranks
            /\ [group |-> Append(f.group, c), trees |-> Joined(f.trees, c),
                ranks |-> ranks, score |-> Score(target, ranks)] = FillAt(target, base, Append(g, c))
<1> DEFINE s == StateAfter(base \o g)
           f == FillAt(target, base, g)
<1>1. base \o g \in Seq(Cond) /\ base \o Append(g, c) = Append(base \o g, c)
  BY Concatenated
<1>2. s \in [live : [Dv -> Forest], ranks : Ranks] /\ \A d \in Dv : Grown(s.live[d], Range(base \o g), d)
  BY <1>1, StateFacts
<1>3. Range(base \o g) \in SUBSET Cond
  BY <1>1 DEF Range
<1>4. StateAfter(base \o Append(g, c)) = Added(s, c)
  BY <1>1, StateOfOneMore
<1> HIDE DEF s
<1>5. /\ Added(s, c) \in States
      /\ Added(s, c).live = Applied(s.live, c)
      /\ Added(s, c).ranks = PlusGained(s.ranks, Gained(s.live, c))
  BY <1>2, <1>3, AddedGrown
<1>6. Added(s, c).ranks \in Ranks
  BY <1>5 DEF States
<1>7. Adds(TreesOf(s.live), c) = Gained(s.live, c) /\ Joined(TreesOf(s.live), c) = TreesOf(Applied(s.live, c))
  BY <1>2, AddsGained, JoinedTrees
<1>8. f = [group |-> g, trees |-> TreesOf(s.live), ranks |-> s.ranks, score |-> Score(target, s.ranks)]
  BY DEF FillAt, s
<1>9. f.group = g /\ f.trees = TreesOf(s.live) /\ f.ranks = s.ranks
  BY ONLY <1>8
<1>10. FillAt(target, base, Append(g, c)) =
         [group |-> Append(g, c), trees |-> TreesOf(Added(s, c).live),
          ranks |-> Added(s, c).ranks, score |-> Score(target, Added(s, c).ranks)]
  BY <1>4 DEF FillAt
<1> HIDE DEF f
<1>11. s.ranks \in Ranks
  BY <1>2
<1> QED
  BY ONLY <1>5, <1>6, <1>7, <1>9, <1>10, <1>11 DEF f

(* What one lane leaves of a fill: the fill as it was, or a better one with *)
(* one of the lane's options.                                              *)
Picked(target, base, g, options) ==
  {FillAt(target, base, g)}
    \cup { FillAt(target, base, Append(g, c)) :
             c \in { e \in options : FillAt(target, base, Append(g, e)).score < FillAt(target, base, g).score } }

LEMMA PickIs ==
  ASSUME NEW target, NEW base \in Seq(Cond), NEW C \in SUBSET Cond, NEW g \in Seq(C),
         NEW options \in SUBSET C, IsFiniteSet(options)
  PROVE  PickLane(target, FillAt(target, base, g), options) \in Picked(target, base, g, options)
<1> DEFINE f == FillAt(target, base, g)
           with == [c \in options |-> Score(target, PlusGained(f.ranks, Adds(f.trees, c)))]
           better == { c \in options : with[c] < f.score }
           scores == { with[c] : c \in better }
           lowest == Min(scores)
           firsts == { c \in better : with[c] = lowest }
           pick == FirstOf(firsts)
<1>0. g \in Seq(Cond)
  OBVIOUS
<1>1. CASE better = {}
  <2>1. PickLane(target, f, options) = f
    BY <1>1 DEF PickLane
  <2>2. f \in Picked(target, base, g, options)
    BY DEF Picked
  <2> QED
    BY <2>1, <2>2
<1>2. CASE better # {}
  <2>1. ASSUME NEW c \in options PROVE with[c] \in Int
    <3>1. c \in Cond
      OBVIOUS
    <3>2. PlusGained(f.ranks, Adds(f.trees, c)) \in Ranks
      BY <1>0, <3>1, FillGrows
    <3> HIDE DEF f
    <3>3. Score(target, PlusGained(f.ranks, Adds(f.trees, c))) \in Int
      BY ONLY <3>2, ScoreType
    <3> QED
      BY <3>3
  <2>2. better \subseteq options /\ IsFiniteSet(better)
    BY FS_Subset
  <2>3. scores \subseteq Int /\ scores # {}
    BY <1>2, <2>1, <2>2
  <2>4. IsFiniteSet(scores)
    <3> DEFINE h == [c \in better |-> with[c]]
    <3>1. IsFiniteSet({ h[c] : c \in better })
      <4> HIDE DEF better, with
      <4>1. DOMAIN h = better /\ h = [c \in better |-> h[c]]
        OBVIOUS
      <4> HIDE DEF h
      <4> QED
        BY ONLY <2>2, <4>1, FiniteImage
    <3>2. { h[c] : c \in better } = scores
      OBVIOUS
    <3> QED
      BY <3>1, <3>2
  <2>5. lowest \in scores
    BY <2>3, <2>4, MinOf
  <2>6. firsts # {}
    BY <2>5
  <2>7. firsts \subseteq better
    OBVIOUS
  <2>8. IsFiniteSet(firsts)
    BY ONLY <2>2, <2>7, FS_Subset
  <2>9. firsts \in SUBSET Cond
    BY <2>2, <2>7
  <2>10. pick \in firsts
    BY ONLY <2>6, <2>8, <2>9, FirstIsOne
  <2>11. pick \in C /\ pick \in Cond /\ with[pick] = lowest /\ pick \in options
    BY <2>2, <2>7, <2>10
  <2>12. PickLane(target, f, options) =
           [group |-> Append(f.group, pick), trees |-> Joined(f.trees, pick),
            ranks |-> PlusGained(f.ranks, Adds(f.trees, pick)), score |-> lowest]
    <3>1. better = { c \in options : Score(target, PlusGained(f.ranks, Adds(f.trees, c))) < f.score }
      OBVIOUS
    <3>2. scores = { Score(target, PlusGained(f.ranks, Adds(f.trees, c))) : c \in better }
      <4>1. \A c \in better : with[c] = Score(target, PlusGained(f.ranks, Adds(f.trees, c)))
        OBVIOUS
      <4> HIDE DEF better, with
      <4> QED
        BY <4>1
    <3>3. firsts = { c \in better : Score(target, PlusGained(f.ranks, Adds(f.trees, c))) = lowest }
      <4>1. \A c \in better : with[c] = Score(target, PlusGained(f.ranks, Adds(f.trees, c)))
        OBVIOUS
      <4> HIDE DEF better, with, lowest
      <4> QED
        BY <4>1
    <3> HIDE DEF better, f, scores, firsts
    <3>4. lowest = Min({ Score(target, PlusGained(f.ranks, Adds(f.trees, c))) : c \in better })
      BY <3>2
    <3>5. pick = FirstOf({ c \in better : Score(target, PlusGained(f.ranks, Adds(f.trees, c))) = lowest })
      BY <3>3
    <3> HIDE DEF lowest, pick
    <3> QED
      BY ONLY <1>2, <3>1, <3>4, <3>5 DEF PickLane
  <2>13. lowest = Score(target, PlusGained(f.ranks, Adds(f.trees, pick)))
    BY <2>11
  <2>14. lowest < f.score
    BY <2>7, <2>10, <2>11
  <2> HIDE DEF pick, lowest, with
  <2>15. PickLane(target, f, options) = FillAt(target, base, Append(g, pick))
    BY <1>0, <2>11, <2>12, <2>13, FillGrows, SMTT(30)
  <2>16. FillAt(target, base, Append(g, pick)).score < f.score
    <3>1. PickLane(target, f, options).score = lowest
      BY ONLY <2>12
    <3> QED
      BY ONLY <2>14, <2>15, <3>1
  <2>17. FillAt(target, base, Append(g, pick)) \in Picked(target, base, g, options)
    BY ONLY <2>11, <2>16 DEF Picked, f
  <2> HIDE DEF f
  <2> QED
    BY <2>15, <2>17 DEF f
<1> QED
  BY <1>1, <1>2

LEMMA PickKeeps ==
  ASSUME NEW target, NEW base \in Seq(Cond), NEW C \in SUBSET Cond, NEW g \in Seq(C),
         NEW options \in SUBSET C, IsFiniteSet(options)
  PROVE  PickLane(target, FillAt(target, base, g), options) \in Fillings(target, base, C)
<1>1. PickLane(target, FillAt(target, base, g), options) \in Picked(target, base, g, options)
  BY PickIs
<1>2. \A c \in options : Append(g, c) \in Seq(C)
  OBVIOUS
<1> QED
  BY ONLY <1>1, <1>2, g \in Seq(C) DEF Picked, Fillings

-----------------------------------------------------------------------------
(* A recursion that follows op as long as it is in V stays in V.           *)
Follows(S, ch, V, base, op, it) ==
  /\ IsFiniteSet(S)
  /\ \A s \in SUBSET S : s # {} => ch[s] \in s
  /\ base \in V /\ op \in [S \X V -> V]
  /\ it = [s \in SUBSET S |-> it[s]]
  /\ it[{}] = base
  /\ \A s \in SUBSET S : s # {} /\ it[s \ {ch[s]}] \in V => it[s] = op[<<ch[s], it[s \ {ch[s]}]>>]

LEMMA FoldStays ==
  ASSUME NEW S, NEW ch, NEW V, NEW base, NEW op, NEW it, Follows(S, ch, V, base, op, it)
  PROVE  it \in [SUBSET S -> V]
<1> DEFINE G == { s \in SUBSET S : it[s] \in V }
<1>1. {} \in G
  BY DEF Follows
<1>2. ASSUME NEW s \in SUBSET S, s # {}, s \ {ch[s]} \in G PROVE s \in G
  <2>1. it[s \ {ch[s]}] \in V /\ ch[s] \in S
    BY <1>2 DEF Follows
  <2>2. it[s] = op[<<ch[s], it[s \ {ch[s]}]>>] /\ op \in [S \X V -> V]
    BY <1>2, <2>1 DEF Follows
  <2>3. it[s] \in V
    BY ONLY <2>1, <2>2
  <2> QED
    BY <2>3
<1> HIDE DEF G
<1>3. IsFiniteSet(S) /\ \A s \in SUBSET S : s # {} => ch[s] \in s
  BY DEF Follows
<1>4. Inductive(S, ch, G)
  BY ONLY <1>1, <1>2, <1>3 DEF Inductive
<1>5. SUBSET S \subseteq G
  BY ONLY <1>4, Induction
<1> QED
  BY <1>5 DEF G, Follows

(* And there is one, where op is all it follows.                           *)
LEMMA FollowsExists ==
  ASSUME NEW S, IsFiniteSet(S), NEW ch, \A s \in SUBSET S : s # {} => ch[s] \in s,
         NEW V, NEW base \in V, NEW op \in [S \X V -> V]
  PROVE  \E it \in [SUBSET S -> V] : Follows(S, ch, V, base, op, it)
<1>1. PICK it \in [SUBSET S -> V] : Folds(S, ch, base, op, it)
  BY FoldExists
<1>2. it[{}] = base
  BY <1>1 DEF Folds
<1>3. \A s \in SUBSET S : s # {} => it[s] = op[<<ch[s], it[s \ {ch[s]}]>>]
  BY <1>1 DEF Folds
<1> QED
  BY ZenonT(30), <1>2, <1>3 DEF Follows

-----------------------------------------------------------------------------
(* A recursion over positions, as a walk from the first to the last.       *)
Latest(n) == [u \in SUBSET (1 .. n) |-> Max(u)]

Steps(n, base, op, f) == f[0] = base /\ \A k \in 1 .. n : f[k] = op[<<k, f[k - 1]>>]

LEMMA SeqWalks ==
  ASSUME NEW n \in Nat, NEW V, NEW base, NEW op, NEW it,
         Follows(1 .. n, Latest(n), V, base, op, it)
  PROVE  \E f \in [0 .. n -> V] : Steps(n, base, op, f) /\ it[1 .. n] = f[n]
<1> DEFINE ch == Latest(n)
           f == [k \in 0 .. n |-> it[1 .. k]]
<1>1. \A u \in SUBSET (1 .. n) : ch[u] = Max(u)
  BY DEF Latest
<1> HIDE DEF ch
<1>2. Follows(1 .. n, ch, V, base, op, it)
  BY DEF ch
<1>3. it \in [SUBSET (1 .. n) -> V]
  BY ONLY <1>2, FoldStays
<1>4. \A k \in 0 .. n : 1 .. k \in SUBSET (1 .. n)
  OBVIOUS
<1>5. f \in [0 .. n -> V]
  BY <1>3, <1>4
<1>6. f[0] = base
  <2>1. 1 .. 0 = {}
    OBVIOUS
  <2>2. it[{}] = base
    BY <1>2 DEF Follows
  <2> QED
    BY <2>1, <2>2
<1>7. ASSUME NEW k \in 1 .. n PROVE f[k] = op[<<k, f[k - 1]>>]
  <2>1. PICK m \in Nat : k = m + 1 /\ m \in 0 .. n /\ k \in 0 .. n
    <3>1. k - 1 \in Nat /\ k = (k - 1) + 1 /\ k - 1 \in 0 .. n /\ k \in 0 .. n
      OBVIOUS
    <3> QED
      BY <3>1
  <2>2. Max(1 .. m + 1) = m + 1 /\ (1 .. m + 1) \ {m + 1} = 1 .. m /\ 1 .. m + 1 # {}
    BY Positions
  <2>3. 1 .. k \in SUBSET (1 .. n) /\ 1 .. m \in SUBSET (1 .. n)
    BY <1>4, <2>1
  <2>4. ch[1 .. k] = k /\ (1 .. k) \ {k} = 1 .. m /\ 1 .. k # {}
    BY <1>1, <2>1, <2>2, <2>3
  <2>5. it[1 .. m] \in V
    BY <1>3, <2>3
  <2>6. it[1 .. k] = op[<<k, it[1 .. m]>>]
    <3>1. \A u \in SUBSET (1 .. n) :
            u # {} /\ it[u \ {ch[u]}] \in V => it[u] = op[<<ch[u], it[u \ {ch[u]}]>>]
      BY <1>2 DEF Follows
    <3>2. PICK u \in SUBSET (1 .. n) : u = 1 .. k
      BY <2>3
    <3>3. u # {} /\ ch[u] = k /\ u \ {ch[u]} = 1 .. m
      BY <2>4, <3>2
    <3>4. it[u] = op[<<k, it[1 .. m]>>]
      BY ONLY <2>5, <3>1, <3>3, u \in SUBSET (1 .. n)
    <3> QED
      BY ONLY <3>2, <3>4
  <2>7. k - 1 = m /\ f[k] = it[1 .. k] /\ f[m] = it[1 .. m]
    BY <2>1
  <2> QED
    BY <2>6, <2>7
<1>8. f[n] = it[1 .. n]
  OBVIOUS
<1> HIDE DEF f
<1>9. Steps(n, base, op, f)
  BY <1>6, <1>7 DEF Steps
<1> QED
  BY <1>5, <1>8, <1>9

(* What never falls from one position to the next does not fall at all.    *)
LEMMA NeverFalls ==
  ASSUME NEW n \in Nat, NEW a \in [0 .. n -> Int], \A k \in 1 .. n : a[k - 1] <= a[k],
         NEW i \in 0 .. n
  PROVE  \A k \in i .. n : a[i] <= a[k]
<1> DEFINE S == { k \in 0 .. n : i <= k => a[i] <= a[k] }
<1>1. 0 \in S
  OBVIOUS
<1>2. ASSUME NEW k \in 0 .. n - 1, k \in S PROVE k + 1 \in S
  <2>1. k + 1 \in 1 .. n /\ (k + 1) - 1 = k /\ k \in 0 .. n /\ k + 1 \in 0 .. n
    OBVIOUS
  <2>2. a[k] <= a[k + 1] /\ a[k] \in Int /\ a[k + 1] \in Int /\ a[i] \in Int
    BY <2>1
  <2>3. i <= k => a[i] <= a[k]
    BY <1>2
  <2>4. i <= k + 1 => a[i] <= a[k + 1]
    BY <2>1, <2>2, <2>3
  <2> QED
    BY <2>1, <2>4
<1>3. 0 .. n \subseteq S
  <2> HIDE DEF S
  <2> QED
    BY ONLY <1>1, <1>2, n \in Nat, UpTo
<1> QED
  BY <1>3

-----------------------------------------------------------------------------
(* Lanes of candidates.                                                    *)
LanesOf(C, lanes) ==
  /\ Len(lanes) \in Nat
  /\ \A k \in 1 .. Len(lanes) : lanes[k] \in SUBSET C /\ IsFiniteSet(lanes[k])

(* What fill's recursion asks for.                                         *)
FillEq(target, start, grouped, cut, lanes, it) ==
  it = [u \in SUBSET DOMAIN [k \in 1 .. Len(lanes) |-> k] |->
          IF u = {} THEN start
          ELSE IF it[u \ {Max(u)}] = None
                  \/ GivesUp(target, start, grouped, cut, lanes, it[u \ {Max(u)}], [k \in 1 .. Len(lanes) |-> k][Max(u)])
               THEN None
               ELSE PickLane(target, it[u \ {Max(u)}], lanes[[k \in 1 .. Len(lanes) |-> k][Max(u)]])]

LEMMA FillRuns ==
  ASSUME NEW target, NEW start, NEW grouped, NEW cut, NEW lanes
  PROVE  LET filled == (CHOOSE it : FillEq(target, start, grouped, cut, lanes, it))
                         [DOMAIN [k \in 1 .. Len(lanes) |-> k]]
         IN Fill(target, start, grouped, cut, lanes) = IF filled.group = << >> THEN None ELSE filled
BY Zenon DEF Fill, FoldLeft, MapThenFoldSet, FillEq

(* A fill, lane by lane, and what it comes to.                             *)
Laned(target, start, grouped, cut, lanes, f) ==
  /\ f[0] = start
  /\ \A k \in 1 .. Len(lanes) :
       f[k] = IF f[k - 1] = None \/ GivesUp(target, start, grouped, cut, lanes, f[k - 1], k)
              THEN None ELSE PickLane(target, f[k - 1], lanes[k])
  /\ Fill(target, start, grouped, cut, lanes) =
       IF f[Len(lanes)].group = << >> THEN None ELSE f[Len(lanes)]

LEMMA FillWalks ==
  ASSUME NEW target, NEW base \in Seq(Cond), NEW C \in SUBSET Cond,
         NEW grouped, NEW cut, NEW lanes, LanesOf(C, lanes)
  PROVE  \E f \in [0 .. Len(lanes) -> Fillings(target, base, C)] :
           Laned(target, FillAt(target, base, << >>), grouped, cut, lanes, f)
<1> DEFINE start == FillAt(target, base, << >>)
           V == Fillings(target, base, C)
           S == 1 .. Len(lanes)
           ch == [u \in SUBSET S |-> Max(u)]
           OneLane(k, f) == IF f = None \/ GivesUp(target, start, grouped, cut, lanes, f, k)
                         THEN None ELSE PickLane(target, f, lanes[k])
           op == [m \in S \X V |-> OneLane(m[1], m[2])]
           it == CHOOSE jt : FillEq(target, start, grouped, cut, lanes, jt)
<1>1. DOMAIN [k \in 1 .. Len(lanes) |-> k] = S /\ \A k \in S : [j \in 1 .. Len(lanes) |-> j][k] = k
  OBVIOUS
<1>2. IsFiniteSet(S) /\ \A u \in SUBSET S : u # {} => Max(u) \in u
  BY Positions DEF LanesOf
<1>3. \A u \in SUBSET S : ch[u] = Max(u)
  OBVIOUS
<1>4. start \in V /\ None \in V
  <2>1. << >> \in Seq(C)
    OBVIOUS
  <2> QED
    BY <2>1 DEF Fillings
<1>5. ASSUME NEW k \in S, NEW f \in V PROVE OneLane(k, f) \in V
  <2>1. CASE f = None \/ GivesUp(target, start, grouped, cut, lanes, f, k)
    BY <1>4, <2>1
  <2>2. CASE ~(f = None \/ GivesUp(target, start, grouped, cut, lanes, f, k))
    <3>1. f # None
      BY <2>2
    <3>2. PICK g \in Seq(C) : f = FillAt(target, base, g)
      BY <3>1 DEF Fillings
    <3>3. lanes[k] \in SUBSET C /\ IsFiniteSet(lanes[k])
      BY DEF LanesOf
    <3> HIDE DEF start, V, S
    <3>4. PickLane(target, f, lanes[k]) \in V
      BY <3>2, <3>3, PickKeeps DEF V
    <3> QED
      BY <2>2, <3>4
  <2> QED
    BY <2>1, <2>2
<1> HIDE DEF start, V, S, OneLane
<1>6. op \in [S \X V -> V] /\ \A k \in S, f \in V : op[<<k, f>>] = OneLane(k, f)
  <2>1. \A m \in S \X V : m[1] \in S /\ m[2] \in V
    OBVIOUS
  <2>2. \A m \in S \X V : OneLane(m[1], m[2]) \in V
    BY <1>5, <2>1
  <2> QED
    BY <2>2
<1> HIDE DEF op, ch
<1>7. \E g \in [SUBSET S -> V] : Follows(S, ch, V, start, op, g)
  <2>1. \A u \in SUBSET S : u # {} => ch[u] \in u
    BY <1>2, <1>3
  <2>2. IsFiniteSet(S) /\ start \in V /\ op \in [S \X V -> V]
    BY <1>2, <1>4, <1>6
  <2> QED
    BY ONLY <2>1, <2>2, FollowsExists
<1>8. PICK g \in [SUBSET S -> V] : Follows(S, ch, V, start, op, g)
  BY <1>7
<1>9. FillEq(target, start, grouped, cut, lanes, g)
  <2>1. ASSUME NEW u \in SUBSET S, u # {}
        PROVE  g[u] = OneLane(Max(u), g[u \ {Max(u)}])
    <3>1. ch[u] = Max(u) /\ ch[u] \in S /\ u \ {ch[u]} \in SUBSET S
      BY <1>2, <1>3, <2>1
    <3>2. g[u \ {ch[u]}] \in V
      BY <3>1
    <3>3. g[u] = op[<<ch[u], g[u \ {ch[u]}]>>]
      BY <1>8, <2>1, <3>2 DEF Follows
    <3> QED
      BY <1>6, <3>1, <3>2, <3>3
  <2>2. g[{}] = start
    BY <1>8 DEF Follows
  <2>3. g = [u \in SUBSET S |-> g[u]]
    OBVIOUS
  <2>4. \A u \in SUBSET S : u # {} => [k \in 1 .. Len(lanes) |-> k][Max(u)] = Max(u)
    BY <1>1, <1>2
  <2>5. \A u \in SUBSET S : u # {} =>
          g[u] = IF g[u \ {Max(u)}] = None
                    \/ GivesUp(target, start, grouped, cut, lanes, g[u \ {Max(u)}], [k \in 1 .. Len(lanes) |-> k][Max(u)])
                 THEN None
                 ELSE PickLane(target, g[u \ {Max(u)}], lanes[[k \in 1 .. Len(lanes) |-> k][Max(u)]])
    BY <2>1, <2>4 DEF OneLane
  <2> QED
    BY ONLY <1>1, <2>2, <2>3, <2>5 DEF FillEq
<1>10. FillEq(target, start, grouped, cut, lanes, it)
  BY <1>9
<1> HIDE DEF it
<1>11. Follows(S, ch, V, start, op, it)
  <2>1. \A u \in SUBSET S :
          it[u] = IF u = {} THEN start
                  ELSE IF it[u \ {Max(u)}] = None
                          \/ GivesUp(target, start, grouped, cut, lanes, it[u \ {Max(u)}], [k \in 1 .. Len(lanes) |-> k][Max(u)])
                       THEN None
                       ELSE PickLane(target, it[u \ {Max(u)}], lanes[[k \in 1 .. Len(lanes) |-> k][Max(u)]])
    BY <1>1, <1>10 DEF FillEq
  <2>2. \A u \in SUBSET S : u # {} => [k \in 1 .. Len(lanes) |-> k][Max(u)] = Max(u)
    BY <1>1, <1>2
  <2>3. ASSUME NEW u \in SUBSET S, u # {}, it[u \ {ch[u]}] \in V
        PROVE  it[u] = op[<<ch[u], it[u \ {ch[u]}]>>]
    <3>1. ch[u] = Max(u) /\ ch[u] \in S
      BY <1>2, <1>3, <2>3
    <3>2. it[u] = OneLane(Max(u), it[u \ {Max(u)}])
      BY <2>1, <2>2, <2>3 DEF OneLane
    <3> QED
      BY <1>6, <2>3, <3>1, <3>2
  <2>4. it = [u \in SUBSET S |-> it[u]]
    BY <1>1, <1>10 DEF FillEq
  <2>5. it[{}] = start
    BY <2>1
  <2>6. \A u \in SUBSET S : u # {} => ch[u] \in u
    BY <1>2, <1>3
  <2> QED
    BY ONLY <1>2, <1>4, <1>6, <2>3, <2>4, <2>5, <2>6 DEF Follows
<1>12. ch = Latest(Len(lanes)) /\ S = 1 .. Len(lanes)
  BY DEF ch, S, Latest
<1>13. PICK f \in [0 .. Len(lanes) -> V] :
         Steps(Len(lanes), start, op, f) /\ it[1 .. Len(lanes)] = f[Len(lanes)]
  <2>1. Follows(1 .. Len(lanes), Latest(Len(lanes)), V, start, op, it)
    BY ONLY <1>11, <1>12
  <2>2. Len(lanes) \in Nat
    BY DEF LanesOf
  <2> QED
    BY ONLY <2>1, <2>2, SeqWalks
<1>14. Fill(target, start, grouped, cut, lanes) = IF it[S].group = << >> THEN None ELSE it[S]
  BY <1>1, FillRuns DEF it
<1>15. ASSUME NEW k \in 1 .. Len(lanes) PROVE f[k] = OneLane(k, f[k - 1])
  <2>1. k \in S /\ k - 1 \in 0 .. Len(lanes) /\ f[k - 1] \in V
    BY <1>13 DEF S, LanesOf
  <2>2. f[k] = op[<<k, f[k - 1]>>]
    BY <1>13 DEF Steps
  <2> QED
    BY <1>6, <2>1, <2>2
<1>16. f[0] = start
  BY <1>13 DEF Steps
<1>17. Laned(target, start, grouped, cut, lanes, f)
  BY <1>12, <1>13, <1>14, <1>15, <1>16 DEF Laned, OneLane
<1> QED
  BY <1>17 DEF start, V

(* Whatever bound stops it, a fill is where its group leads.               *)
LEMMA FillKeeps ==
  ASSUME NEW target, NEW base \in Seq(Cond), NEW C \in SUBSET Cond,
         NEW grouped, NEW cut, NEW lanes, LanesOf(C, lanes)
  PROVE  Fill(target, FillAt(target, base, << >>), grouped, cut, lanes) \in Fillings(target, base, C)
<1> DEFINE V == Fillings(target, base, C)
           start == FillAt(target, base, << >>)
<1>1. PICK f \in [0 .. Len(lanes) -> V] : Laned(target, start, grouped, cut, lanes, f)
  BY FillWalks
<1>2. None \in V
  BY DEF Fillings
<1> HIDE DEF V, start
<1>3. f[Len(lanes)] \in V
  BY DEF LanesOf
<1>4. Fill(target, start, grouped, cut, lanes) \in V
  BY <1>1, <1>2, <1>3 DEF Laned
<1> QED
  BY <1>4 DEF V, start

-----------------------------------------------------------------------------
(* Slots of candidates, with their places.                                 *)
Places == [1 .. 6 -> Int]

GoodSlot(C, slot) == LanesOf(C, slot.lanes) /\ slot.place \in Places

GoodSlots(C, slots) == IsFiniteSet(slots) /\ \A slot \in slots : GoodSlot(C, slot)

GoodStart(start) == start.ranks \in Ranks /\ start.score \in Int

LEMMA LowType ==
  ASSUME NEW target, NEW ranks \in Ranks, NEW trees, NEW C, NEW lanes, LanesOf(C, lanes)
  PROVE  Low(target, ranks, trees, lanes, 1) \in Int
<1> DEFINE On(d) == { l \in 1 .. Len(lanes) : d \in Hits(trees, lanes[l]) }
           most == [d \in Dv |-> ranks[d] + Cardinality(On(d))]
<1>1. ASSUME NEW d \in Dv PROVE ranks[d] + Cardinality(On(d)) \in Nat
  <2>1. IsFiniteSet(1 .. Len(lanes))
    BY Positions DEF LanesOf
  <2>2. On(d) \subseteq 1 .. Len(lanes)
    OBVIOUS
  <2> HIDE DEF On
  <2>3. IsFiniteSet(On(d))
    BY ONLY <2>1, <2>2, FS_Subset
  <2>4. Cardinality(On(d)) \in Nat
    BY ONLY <2>3, FS_CardinalityType
  <2>5. ranks[d] \in Nat
    BY DEF Ranks
  <2> QED
    BY ONLY <2>4, <2>5
<1>2. most \in Ranks
  <2> HIDE DEF On
  <2> QED
    BY <1>1 DEF Ranks
<1>3. Low(target, ranks, trees, lanes, 1) = Score(target, most)
  BY DEF Low
<1> HIDE DEF most
<1>4. Score(target, most) \in Int
  BY ONLY <1>2, ScoreType
<1> QED
  BY ONLY <1>3, <1>4

(* A slot's turn is an order's.                                            *)
Sevens == [1 .. 7 -> Int]

LEMMA TurnType ==
  ASSUME NEW target, NEW start, GoodStart(start), NEW grouped, NEW C, NEW slot, GoodSlot(C, slot)
  PROVE  /\ Bounded(target, start, grouped, slot).turn \in Sevens
         /\ Bounded(target, start, grouped, slot).slot = slot
<1> DEFINE low == Low(target, start.ranks, start.trees, slot.lanes, 1)
           bound == IF grouped THEN 2 * (low - start.score) ELSE low
           at == slot.place
           b == Bounded(target, start, grouped, slot)
<1>1. low \in Int
  BY LowType DEF GoodStart, GoodSlot
<1> HIDE DEF low
<1>2. bound \in Int
  BY <1>1 DEF GoodStart
<1>3. b = [slot |-> slot, bound |-> bound, turn |-> <<bound, at[1], at[2], at[3], at[4], at[5], at[6]>>]
  BY DEF Bounded, low
<1> HIDE DEF bound
<1>4. at[1] \in Int /\ at[2] \in Int /\ at[3] \in Int /\ at[4] \in Int /\ at[5] \in Int /\ at[6] \in Int
  BY DEF Places, GoodSlot
<1> HIDE DEF at
<1>5. <<bound, at[1], at[2], at[3], at[4], at[5], at[6]>> \in Sevens
  BY <1>2, <1>4 DEF Sevens
<1> HIDE DEF b
<1> QED
  BY ONLY <1>3, <1>5 DEF b

LEMMA LastIsOne ==
  ASSUME NEW S, IsFiniteSet(S), S # {}, \A b \in S : b.turn \in Sevens
  PROVE  LastInTurn(S) \in S
<1> DEFINE less == { m \in S \X S : Less(m[2].turn, m[1].turn) }
<1>1. \A x, y \in S : <<x, y>> \in less <=> Less(y.turn, x.turn)
  OBVIOUS
<1> HIDE DEF less
<1>2. PICK n \in Nat : n = 7
  OBVIOUS
<1>3. \A s, t, u \in Sevens : ~Less(s, s) /\ (Less(s, t) /\ Less(t, u) => Less(s, u))
  BY <1>2, LessOrders DEF Sevens
<1>4. \A x \in S : <<x, x>> \notin less
  BY <1>1, <1>3
<1>5. \A x, y, z \in S : <<x, y>> \in less /\ <<y, z>> \in less => <<x, z>> \in less
  BY ONLY <1>1, <1>3, \A b \in S : b.turn \in Sevens
<1>6. PICK x \in S : \A y \in S : <<y, x>> \notin less
  BY ONLY <1>4, <1>5, IsFiniteSet(S), S # {}, Minimal
<1>7. \A y \in S : ~Less(x.turn, y.turn)
  BY <1>1, <1>6
<1> QED
  BY <1>7 DEF LastInTurn

-----------------------------------------------------------------------------
(* What best's walk over the slots in order recurs on.                     *)
BestEq(target, start, free, grouped, S, it) ==
  it = [s \in SUBSET S |->
         IF s = {} THEN NoBest
         ELSE IF LastInTurn(s).bound > it[s \ {LastInTurn(s)}].rank THEN it[s \ {LastInTurn(s)}]
              ELSE Against(target, start, free, grouped, it[s \ {LastInTurn(s)}], LastInTurn(s).slot,
                           Fill(target, start, grouped, it[s \ {LastInTurn(s)}].rank, LastInTurn(s).slot.lanes))]

Turns(target, start, free, grouped, slots) ==
  { Bounded(target, start, grouped, slot) : slot \in Fitting(target, slots, free) }

LEMMA BestRuns ==
  ASSUME NEW target, NEW slots, NEW s, NEW free, NEW grouped
  PROVE  LET start == StartAt(target, s)
             S == Turns(target, start, free, grouped, slots)
         IN Best(target, slots, s, free, grouped) =
              (CHOOSE it : BestEq(target, start, free, grouped, S, it))[S].fill
BY Zenon DEF Best, MapThenFoldSet, BestEq, Turns

(* What best can have found so far.                                        *)
Entries(ranks, places, fills) ==
  { [rank |-> r, place |-> q, fill |-> f] : r \in ranks, q \in places, f \in fills }

RanksOf(target, base, C, grouped) ==
  {Infinity} \cup
    { Rank(grouped, FillAt(target, base, << >>).score, f.score, Cost(f.group, target.width)) :
        f \in Fillings(target, base, C) }

PlacesOf(slots) == {<< >>} \cup { slot.place : slot \in slots }

Found(target, base, C, slots, grouped) ==
  Entries(RanksOf(target, base, C, grouped), PlacesOf(slots), Fillings(target, base, C))

LEMMA EntryFacts ==
  ASSUME NEW ranks, NEW places, NEW fills
  PROVE  /\ \A r \in ranks, q \in places, f \in fills :
              [rank |-> r, place |-> q, fill |-> f] \in Entries(ranks, places, fills)
         /\ \A m \in Entries(ranks, places, fills) : m.fill \in fills
BY DEF Entries

LEMMA AgainstKeeps ==
  ASSUME NEW target, NEW base, NEW C, NEW slots, NEW slot \in slots, NEW free, NEW grouped,
         NEW best \in Found(target, base, C, slots, grouped), NEW f \in Fillings(target, base, C)
  PROVE  Against(target, FillAt(target, base, << >>), free, grouped, best, slot, f)
           \in Found(target, base, C, slots, grouped)
<1> DEFINE start == FillAt(target, base, << >>)
           rank == Rank(grouped, start.score, f.score, Cost(f.group, target.width))
           other == [rank |-> rank, place |-> slot.place, fill |-> f]
<1>0. rank \in RanksOf(target, base, C, grouped)
  <2> HIDE DEF start
  <2>1. rank \in { Rank(grouped, start.score, h.score, Cost(h.group, target.width)) : h \in Fillings(target, base, C) }
    OBVIOUS
  <2> QED
    BY <2>1 DEF RanksOf, start
<1>0a. slot.place \in PlacesOf(slots)
  BY DEF PlacesOf
<1>1. other \in Found(target, base, C, slots, grouped)
  <2> HIDE DEF rank
  <2> QED
    BY <1>0, <1>0a, EntryFacts DEF Found
<1> HIDE DEF start
<1>2. \/ Against(target, start, free, grouped, best, slot, f) = best
      \/ Against(target, start, free, grouped, best, slot, f) = other
  BY DEF Against
<1> QED
  BY <1>1, <1>2 DEF start

(* One slot of best's walk.                                                *)
InTurn(target, start, free, grouped, b, m) ==
  IF b.bound > m.rank THEN m
  ELSE Against(target, start, free, grouped, m, b.slot, Fill(target, start, grouped, m.rank, b.slot.lanes))

(* best's walk, slot by slot.                                              *)
BestWalk(target, base, C, slots, s, free, grouped, it) ==
  LET start == FillAt(target, base, << >>)
      S == Turns(target, start, free, grouped, slots)
  IN /\ IsFiniteSet(S)
     /\ it \in [SUBSET S -> Found(target, base, C, slots, grouped)]
     /\ it[{}] = NoBest
     /\ \A u \in SUBSET S : u # {} =>
          /\ LastInTurn(u) \in u
          /\ it[u] = InTurn(target, start, free, grouped, LastInTurn(u), it[u \ {LastInTurn(u)}])
     /\ Best(target, slots, s, free, grouped) = it[S].fill

LEMMA BestWalks ==
  ASSUME NEW target, NEW base \in Seq(Cond), NEW C \in SUBSET Cond, NEW slots, GoodSlots(C, slots),
         NEW s, s.ranks = StateAfter(base).ranks, TreesOf(s.live) = TreesOf(StateAfter(base).live),
         NEW free, NEW grouped
  PROVE  \E it : BestWalk(target, base, C, slots, s, free, grouped, it)
<1> DEFINE start == FillAt(target, base, << >>)
           V == Found(target, base, C, slots, grouped)
           S == Turns(target, start, free, grouped, slots)
           ch == [u \in SUBSET S |-> LastInTurn(u)]
           OneSlot(b, best) == InTurn(target, start, free, grouped, b, best)
           op == [m \in S \X V |-> OneSlot(m[1], m[2])]
           it == CHOOSE jt : BestEq(target, start, free, grouped, S, jt)
<1>1. StartAt(target, s) = start
  <2>1. base \o << >> = base
    OBVIOUS
  <2> QED
    BY <2>1 DEF StartAt, FillAt
<1>2. start.ranks \in Ranks /\ start.score \in Int
  <2>1. base \o << >> = base
    OBVIOUS
  <2>2. StateAfter(base).ranks \in Ranks
    BY StateFacts
  <2>3. start.ranks = StateAfter(base).ranks /\ start.score = Score(target, StateAfter(base).ranks)
    BY <2>1 DEF FillAt
  <2>4. Score(target, StateAfter(base).ranks) \in Int
    BY ONLY <2>2, ScoreType
  <2> QED
    BY <2>2, <2>3, <2>4
<1>3. ASSUME NEW b \in S PROVE b.turn \in Sevens /\ b.slot \in slots
  <2>1. PICK slot \in slots : b = Bounded(target, start, grouped, slot)
    BY DEF Turns, Fitting
  <2>2. GoodSlot(C, slot)
    BY DEF GoodSlots
  <2>2a. PICK from : from = start
    OBVIOUS
  <2> HIDE DEF start
  <2>2b. GoodStart(from)
    BY <1>2, <2>2a DEF GoodStart
  <2>2c. Bounded(target, from, grouped, slot).turn \in Sevens /\ Bounded(target, from, grouped, slot).slot = slot
    BY ONLY <2>2, <2>2b, TurnType
  <2>3. b.turn \in Sevens /\ b.slot = slot
    BY ONLY <2>1, <2>2a, <2>2c
  <2> QED
    BY <2>3
<1>4. IsFiniteSet(S)
  <2> DEFINE F == Fitting(target, slots, free)
             h == [slot \in F |-> Bounded(target, start, grouped, slot)]
  <2>1. F \subseteq slots /\ IsFiniteSet(slots)
    BY DEF Fitting, GoodSlots
  <2>2. IsFiniteSet(F)
    BY ONLY <2>1, FS_Subset
  <2>3. S = { h[slot] : slot \in F }
    BY DEF Turns
  <2>4. DOMAIN h = F /\ h = [slot \in F |-> h[slot]]
    OBVIOUS
  <2> HIDE DEF h, F, S
  <2>5. IsFiniteSet({ h[slot] : slot \in F })
    BY ONLY <2>2, <2>4, FiniteImage
  <2> QED
    BY ONLY <2>3, <2>5
<1>5. \A u \in SUBSET S : ch[u] = LastInTurn(u)
  OBVIOUS
<1> HIDE DEF S
<1>6. \A u \in SUBSET S : u # {} => ch[u] \in u /\ LastInTurn(u) \in u
  <2> SUFFICES ASSUME NEW u \in SUBSET S, u # {} PROVE LastInTurn(u) \in u
    BY <1>5
  <2>1. IsFiniteSet(u)
    BY <1>4, FS_Subset
  <2>2. \A b \in u : b.turn \in Sevens
    BY <1>3
  <2> QED
    BY ONLY <2>1, <2>2, u # {}, LastIsOne
<1>7. NoBest \in V
  <2>1. None \in Fillings(target, base, C) /\ Infinity \in RanksOf(target, base, C, grouped) /\ << >> \in PlacesOf(slots)
    BY DEF Fillings, RanksOf, PlacesOf
  <2>2. [rank |-> Infinity, place |-> << >>, fill |-> None] \in Found(target, base, C, slots, grouped)
    BY ONLY <2>1, EntryFacts DEF Found
  <2> QED
    BY ONLY <2>2 DEF NoBest, V
<1>8. ASSUME NEW b \in S, NEW best \in V PROVE OneSlot(b, best) \in V
  <2>1. b.slot \in slots /\ LanesOf(C, b.slot.lanes)
    BY <1>3 DEF GoodSlots, GoodSlot
  <2>2. Fill(target, start, grouped, best.rank, b.slot.lanes) \in Fillings(target, base, C)
    <3>1. PICK lanes : lanes = b.slot.lanes
      OBVIOUS
    <3>2. PICK cut : cut = best.rank
      OBVIOUS
    <3>3. Fill(target, start, grouped, cut, lanes) \in Fillings(target, base, C)
      BY <2>1, <3>1, FillKeeps
    <3> QED
      BY ONLY <3>1, <3>2, <3>3
  <2>3. Against(target, start, free, grouped, best, b.slot, Fill(target, start, grouped, best.rank, b.slot.lanes)) \in V
    <3>1. PICK slot \in slots : slot = b.slot
      BY <2>1
    <3>2. PICK f \in Fillings(target, base, C) : f = Fill(target, start, grouped, best.rank, b.slot.lanes)
      BY <2>2
    <3>3. Against(target, start, free, grouped, best, slot, f) \in V
      BY AgainstKeeps
    <3> QED
      BY ONLY <3>1, <3>2, <3>3
  <2> QED
    BY <2>3 DEF InTurn
<1> HIDE DEF start, V, OneSlot
<1>9. op \in [S \X V -> V] /\ \A k \in S, f \in V : op[<<k, f>>] = OneSlot(k, f)
  <2>1. \A m \in S \X V : m[1] \in S /\ m[2] \in V
    OBVIOUS
  <2>2. \A m \in S \X V : OneSlot(m[1], m[2]) \in V
    BY <1>8, <2>1
  <2> QED
    BY <2>2
<1> HIDE DEF op, ch
<1>10. \E g \in [SUBSET S -> V] : Follows(S, ch, V, NoBest, op, g)
  <2>1. \A u \in SUBSET S : u # {} => ch[u] \in u
    BY <1>6
  <2>2. PICK none \in V : none = NoBest
    BY <1>7
  <2>3. IsFiniteSet(S) /\ op \in [S \X V -> V]
    BY <1>4, <1>9
  <2>4. \E g \in [SUBSET S -> V] : Follows(S, ch, V, none, op, g)
    BY ONLY <2>1, <2>2, <2>3, FollowsExists
  <2> QED
    BY ONLY <2>2, <2>4
<1>11. PICK g \in [SUBSET S -> V] : Follows(S, ch, V, NoBest, op, g)
  BY <1>10
<1>12. BestEq(target, start, free, grouped, S, g)
  <2>1. ASSUME NEW u \in SUBSET S, u # {}
        PROVE  g[u] = OneSlot(LastInTurn(u), g[u \ {LastInTurn(u)}])
    <3>1. ch[u] = LastInTurn(u) /\ ch[u] \in S /\ u \ {ch[u]} \in SUBSET S
      BY <1>5, <1>6, <2>1
    <3>2. g[u \ {ch[u]}] \in V
      BY <3>1
    <3>3. g[u] = op[<<ch[u], g[u \ {ch[u]}]>>]
      BY <1>11, <2>1, <3>2 DEF Follows
    <3> QED
      BY <1>9, <3>1, <3>2, <3>3
  <2>2. g[{}] = NoBest
    BY <1>11 DEF Follows
  <2>3. g = [u \in SUBSET S |-> g[u]]
    OBVIOUS
  <2>4. \A u \in SUBSET S : u # {} =>
          g[u] = IF LastInTurn(u).bound > g[u \ {LastInTurn(u)}].rank THEN g[u \ {LastInTurn(u)}]
                 ELSE Against(target, start, free, grouped, g[u \ {LastInTurn(u)}], LastInTurn(u).slot,
                              Fill(target, start, grouped, g[u \ {LastInTurn(u)}].rank, LastInTurn(u).slot.lanes))
    BY <2>1 DEF OneSlot, InTurn
  <2> QED
    BY ONLY <2>2, <2>3, <2>4 DEF BestEq
<1>13. BestEq(target, start, free, grouped, S, it)
  BY <1>12
<1> HIDE DEF it
<1>14. Follows(S, ch, V, NoBest, op, it)
  <2>1. \A u \in SUBSET S :
          it[u] = IF u = {} THEN NoBest
                  ELSE IF LastInTurn(u).bound > it[u \ {LastInTurn(u)}].rank THEN it[u \ {LastInTurn(u)}]
                       ELSE Against(target, start, free, grouped, it[u \ {LastInTurn(u)}], LastInTurn(u).slot,
                                    Fill(target, start, grouped, it[u \ {LastInTurn(u)}].rank, LastInTurn(u).slot.lanes))
    BY <1>13 DEF BestEq
  <2>3. ASSUME NEW u \in SUBSET S, u # {}, it[u \ {ch[u]}] \in V
        PROVE  it[u] = op[<<ch[u], it[u \ {ch[u]}]>>]
    <3>1. ch[u] = LastInTurn(u) /\ ch[u] \in S
      BY <1>5, <1>6, <2>3
    <3>2. it[u] = OneSlot(LastInTurn(u), it[u \ {LastInTurn(u)}])
      BY <2>1, <2>3 DEF OneSlot, InTurn
    <3> QED
      BY <1>9, <2>3, <3>1, <3>2
  <2>4. it = [u \in SUBSET S |-> it[u]]
    BY <1>13 DEF BestEq
  <2>5. it[{}] = NoBest
    BY <2>1
  <2>6. \A u \in SUBSET S : u # {} => ch[u] \in u
    BY <1>6
  <2> QED
    BY ONLY <1>4, <1>7, <1>9, <2>3, <2>4, <2>5, <2>6 DEF Follows
<1>15. it \in [SUBSET S -> V]
  BY ONLY <1>14, FoldStays
<1>16. Best(target, slots, s, free, grouped) = it[S].fill
  BY <1>1, BestRuns DEF it, S
<1>17. ASSUME NEW u \in SUBSET S, u # {}
       PROVE  LastInTurn(u) \in u /\ it[u] = InTurn(target, start, free, grouped, LastInTurn(u), it[u \ {LastInTurn(u)}])
  <2>1. ch[u] = LastInTurn(u) /\ ch[u] \in S /\ u \ {ch[u]} \in SUBSET S
    BY <1>5, <1>6, <1>17
  <2>2. it[u \ {ch[u]}] \in V
    BY <1>15, <2>1
  <2>3. it[u] = op[<<ch[u], it[u \ {ch[u]}]>>]
    BY <1>14, <1>17, <2>2 DEF Follows
  <2> QED
    BY <1>6, <1>9, <1>17, <2>1, <2>2, <2>3 DEF OneSlot
<1>18. it[{}] = NoBest
  BY <1>14 DEF Follows
<1>19. BestWalk(target, base, C, slots, s, free, grouped, it)
  BY <1>4, <1>15, <1>16, <1>17, <1>18 DEF BestWalk, start, S, V
<1> QED
  BY <1>19

(* What best finds is where its group leads, whatever bounds cut it short. *)
LEMMA BestKeeps ==
  ASSUME NEW target, NEW base \in Seq(Cond), NEW C \in SUBSET Cond, NEW slots, GoodSlots(C, slots),
         NEW s, s.ranks = StateAfter(base).ranks, TreesOf(s.live) = TreesOf(StateAfter(base).live),
         NEW free, NEW grouped
  PROVE  Best(target, slots, s, free, grouped) \in Fillings(target, base, C)
<1> DEFINE start == FillAt(target, base, << >>)
           S == Turns(target, start, free, grouped, slots)
           V == Found(target, base, C, slots, grouped)
<1>0. PICK it : BestWalk(target, base, C, slots, s, free, grouped, it)
  BY BestWalks
<1>1. it \in [SUBSET S -> V] /\ Best(target, slots, s, free, grouped) = it[S].fill
  BY <1>0 DEF BestWalk
<1>2. it[S] \in V
  BY <1>1
<1>3. \A m \in V : m.fill \in Fillings(target, base, C)
  BY EntryFacts DEF Found
<1> QED
  BY <1>1, <1>2, <1>3

-----------------------------------------------------------------------------
(* There are so many candidates, and so many slots of them.                *)
LEMMA BitFinite == IsFiniteSet(Bit)
<1>1. PICK zero \in Int : zero = 0
  OBVIOUS
<1>2. PICK one \in Int : one = 1
  OBVIOUS
<1>3. IsFiniteSet(zero .. one)
  BY ONLY FS_Interval
<1>4. zero .. one = Bit
  BY <1>1, <1>2 DEF Bit
<1> QED
  BY <1>3, <1>4

LEMMA CandidatesFinite ==
  ASSUME NEW forests
  PROVE  Candidates(forests) \in SUBSET Cond /\ IsFiniteSet(Candidates(forests))
<1> DEFINE S == (Vertex \X Vertex) \X Bit
           h == [m \in S |-> Entry(forests, m[1][1], m[1][2], m[2])]
           T == { h[m] : m \in S }
<1>1. IsFiniteSet(Vertex \X Vertex)
  BY FiniteAssumption, FS_Product
<1>2. IsFiniteSet(S)
  BY <1>1, BitFinite, FS_Product
<1>3. DOMAIN h = S /\ h = [m \in S |-> h[m]]
  OBVIOUS
<1>4. \A x, y \in Vertex, bit \in Bit : Entry(forests, x, y, bit) \in T
  <2> SUFFICES ASSUME NEW x \in Vertex, NEW y \in Vertex, NEW bit \in Bit
               PROVE  Entry(forests, x, y, bit) \in T
    OBVIOUS
  <2>1. <<<<x, y>>, bit>> \in S
    OBVIOUS
  <2>2. h[<<<<x, y>>, bit>>] = Entry(forests, x, y, bit)
    BY <2>1
  <2> HIDE DEF h, S
  <2> QED
    BY <2>1, <2>2
<1> HIDE DEF h, S
<1>5. IsFiniteSet(T)
  BY ONLY <1>2, <1>3, FiniteImage
<1>6. Candidates(forests) \subseteq T
  <2> HIDE DEF T
  <2> QED
    BY <1>4 DEF Candidates
<1> HIDE DEF T
<1>7. IsFiniteSet(Candidates(forests))
  BY ONLY <1>5, <1>6, FS_Subset
<1>8. Candidates(forests) \in SUBSET Cond
  BY CandidateFacts
<1> QED
  BY <1>7, <1>8

LEMMA NumbersOf ==
  ASSUME NEW c \in Cond
  PROVE  c.c \in Int /\ I(c) \in Int /\ A(c) \in Int /\ J(c) \in Int /\ B(c) \in Int
<1>1. c.u \in Nat \X Nat /\ c.v \in Nat \X Nat /\ c.c \in Int
  BY VertexAssumption DEF Cond, Bit
<1>2. c.u[1] \in Int /\ c.u[2] \in Int /\ c.v[1] \in Int /\ c.v[2] \in Int
  BY <1>1
<1> QED
  BY <1>1, <1>2 DEF I, J, A, B

Key4(key) == key[1] \in Int /\ key[2] \in Int /\ key[3] \in Int /\ key[4] \in Int

LEMMA KeyType ==
  ASSUME NEW target, NEW c \in Cond
  PROVE  Key4(Key(target, c))
<1>1. c.c \in Int /\ I(c) \in Int /\ A(c) \in Int /\ J(c) \in Int /\ B(c) \in Int
  BY NumbersOf
<1>2. Gap(c) \in Int /\ B(c) - A(c) \in Int
  BY <1>1 DEF Gap
<1> HIDE DEF Gap, A, B
<1>3. CASE target.lane_bit
  BY <1>1, <1>2, <1>3 DEF Key, Key4
<1>4. CASE ~target.lane_bit
  BY <1>1, <1>2, <1>4 DEF Key, Key4
<1> QED
  BY <1>3, <1>4

(* A slot is told by a condition in its first window, where in the window  *)
(* it is and how many windows there are.                                   *)
SlotFor(target, c, n, l) == [key |-> Key(target, c), windows |-> n, base |-> I(c) - l]

LEMMA SlotIs ==
  ASSUME NEW target, target.width \in Nat \ {0}, NEW C \in SUBSET Cond, NEW slot \in SlotsOf(target, C)
  PROVE  \E c \in C, n \in 1 .. WINDOWS, l \in 0 .. target.width - 1 : slot = SlotFor(target, c, n, l)
<1>1. WINDOWS \in Nat \ {0}
  BY SlotsAssumption
<1>2. \E key \in { Key(target, c) : c \in C }, n \in 1 .. WINDOWS, base \in Int :
        slot = [key |-> key, windows |-> n, base |-> base]
  <2> DEFINE Members(key) == { c \in C : Key(target, c) = key }
             Least(key, n) == Max({0, Min({ I(c) : c \in Members(key) }) - (n * target.width - 1)})
             Most(key) == Max({ I(c) : c \in Members(key) })
             At(key, n) == { [key |-> key, windows |-> n, base |-> base] : base \in Least(key, n) .. Most(key) }
             Widths == IF target.width > 1 THEN 1 .. WINDOWS ELSE {1}
             Keys == { Key(target, c) : c \in C }
             All == UNION { At(key, n) : key \in Keys, n \in Widths }
  <2>0. SlotsOf(target, C) =
          { s \in All : UsesWindow(target, C, s, 0) /\ UsesWindow(target, C, s, s.windows - 1) }
    BY DEF SlotsOf
  <2>2. Widths \subseteq 1 .. WINDOWS
    BY <1>1
  <2> HIDE DEF Widths, Keys, At
  <2>1a. \A x \in All : \E key \in Keys, n \in Widths : x \in At(key, n)
    OBVIOUS
  <2> HIDE DEF All
  <2>1. slot \in All
    BY <2>0
  <2>3. PICK key \in Keys, n \in Widths : slot \in At(key, n)
    BY ONLY <2>1, <2>1a
  <2> HIDE DEF Least, Most
  <2>4. PICK low, high : low = Least(key, n) /\ high = Most(key)
    OBVIOUS
  <2>5. slot \in { [key |-> key, windows |-> n, base |-> base] : base \in low .. high }
    BY <2>3, <2>4 DEF At
  <2>6. PICK base \in low .. high : slot = [key |-> key, windows |-> n, base |-> base]
    BY <2>5
  <2>7. base \in Int
    OBVIOUS
  <2> QED
    BY <2>2, <2>6, <2>7 DEF Keys
<1>3. UsesWindow(target, C, slot, 0)
  BY DEF SlotsOf
<1>4. PICK key \in { Key(target, c) : c \in C }, n \in 1 .. WINDOWS, base \in Int :
        slot = [key |-> key, windows |-> n, base |-> base]
  BY <1>2
<1>6. PICK l \in 0 .. target.width - 1 : Lane(target, C, slot, l) # {}
  BY <1>3 DEF UsesWindow
<1>7. PICK c \in C : Key(target, c) = slot.key /\ I(c) = slot.base + l
  BY <1>6 DEF Lane
<1>8. base = I(c) - l
  BY <1>4, <1>6, <1>7, NumbersOf
<1> QED
  BY <1>4, <1>7, <1>8 DEF SlotFor

LEMMA SlotsFinite ==
  ASSUME NEW target, target.width \in Nat \ {0}, NEW C \in SUBSET Cond, IsFiniteSet(C)
  PROVE  IsFiniteSet(SlotsOf(target, C))
<1> DEFINE Q == 0 .. target.width - 1
           S == (C \X (1 .. WINDOWS)) \X Q
           h == [m \in S |-> SlotFor(target, m[1][1], m[1][2], m[2])]
           T == { h[m] : m \in S }
<1>1. IsFiniteSet(1 .. WINDOWS)
  BY SlotsAssumption, Positions
<1>2. IsFiniteSet(Q)
  <2>1. PICK low \in Int, high \in Int : low = 0 /\ high = target.width - 1
    OBVIOUS
  <2>2. IsFiniteSet(low .. high)
    BY ONLY FS_Interval
  <2> QED
    BY <2>1, <2>2
<1>3. IsFiniteSet(C \X (1 .. WINDOWS))
  BY <1>1, FS_Product
<1> HIDE DEF Q
<1>4. IsFiniteSet(S)
  BY ONLY <1>2, <1>3, FS_Product
<1>5. DOMAIN h = S /\ h = [m \in S |-> h[m]]
  OBVIOUS
<1>6. \A c \in C, n \in 1 .. WINDOWS, l \in Q : SlotFor(target, c, n, l) \in T
  <2> SUFFICES ASSUME NEW c \in C, NEW n \in 1 .. WINDOWS, NEW l \in Q
               PROVE  SlotFor(target, c, n, l) \in T
    OBVIOUS
  <2>1. <<<<c, n>>, l>> \in S
    OBVIOUS
  <2>2. h[<<<<c, n>>, l>>] = SlotFor(target, c, n, l)
    BY <2>1
  <2> HIDE DEF h, S
  <2> QED
    BY <2>1, <2>2
<1> HIDE DEF h, S
<1>7. IsFiniteSet(T)
  BY ONLY <1>4, <1>5, FiniteImage
<1> HIDE DEF T
<1>8. SlotsOf(target, C) \subseteq T
  BY <1>6, SlotIs DEF Q
<1> QED
  BY ONLY <1>7, <1>8, FS_Subset

LEMMA SlotLanesGood ==
  ASSUME NEW target, target.width \in Nat \ {0}, NEW C \in SUBSET Cond, IsFiniteSet(C)
  PROVE  GoodSlots(C, SlotLanes(target, C))
<1> DEFINE F == SlotsOf(target, C)
           lanes(slot) == [k \in 1 .. slot.windows * target.width |-> Lane(target, C, slot, k - 1)]
           h == [slot \in F |-> [place |-> SlotPlace(slot), lanes |-> lanes(slot)]]
<1>1. ASSUME NEW slot \in F PROVE GoodSlot(C, [place |-> SlotPlace(slot), lanes |-> lanes(slot)])
  <2>1. PICK c \in C, n \in 1 .. WINDOWS, l \in 0 .. target.width - 1 : slot = SlotFor(target, c, n, l)
    BY SlotIs
  <2>2. n \in Nat /\ l \in Int
    BY <2>1, SlotsAssumption
  <2>3. slot.key = Key(target, c) /\ slot.windows = n /\ slot.base = I(c) - l
    BY <2>1 DEF SlotFor
  <2>4. Key4(slot.key) /\ slot.base \in Int
    BY <2>2, <2>3, KeyType, NumbersOf
  <2>5. SlotPlace(slot) \in Places
    BY <2>2, <2>3, <2>4 DEF SlotPlace, Places, Key4
  <2>6. slot.windows * target.width \in Nat
    BY <2>2, <2>3
  <2>7. ASSUME NEW k \in 1 .. slot.windows * target.width
        PROVE  Lane(target, C, slot, k - 1) \in SUBSET C /\ IsFiniteSet(Lane(target, C, slot, k - 1))
    <3>1. Lane(target, C, slot, k - 1) \subseteq C
      BY DEF Lane
    <3> QED
      BY ONLY <3>1, IsFiniteSet(C), FS_Subset
  <2>8. LanesOf(C, lanes(slot))
    <3> DEFINE all == slot.windows * target.width
    <3> HIDE DEF all
    <3>1. all \in Nat
      BY <2>6 DEF all
    <3>2. lanes(slot) = [k \in 1 .. all |-> Lane(target, C, slot, k - 1)]
      BY DEF all
    <3> HIDE DEF lanes
    <3>3. Len(lanes(slot)) = all
      BY <3>1, <3>2
    <3>4. \A k \in 1 .. all : lanes(slot)[k] \in SUBSET C /\ IsFiniteSet(lanes(slot)[k])
      BY <2>7, <3>2 DEF all
    <3> QED
      BY ONLY <3>1, <3>3, <3>4 DEF LanesOf
  <2> HIDE DEF lanes
  <2> QED
    BY <2>5, <2>8 DEF GoodSlot
<1>2. IsFiniteSet(F)
  BY SlotsFinite
<1>3. DOMAIN h = F /\ h = [slot \in F |-> h[slot]]
  OBVIOUS
<1>4. SlotLanes(target, C) = { h[slot] : slot \in F }
  BY DEF SlotLanes
<1>5. \A slot \in F : GoodSlot(C, h[slot])
  BY <1>1
<1> HIDE DEF h, F
<1>6. IsFiniteSet({ h[slot] : slot \in F })
  BY ONLY <1>2, <1>3, FiniteImage
<1> QED
  BY ONLY <1>4, <1>5, <1>6 DEF GoodSlots
-----------------------------------------------------------------------------
(* The conditions of units, one unit after the other.                      *)
FlatEq(us, f) ==
  f = [i \in 1 .. Len(us) |-> IF i = 1 THEN us[i] ELSE f[i - 1] \o us[i]]

LEMMA CondsRuns ==
  ASSUME NEW us
  PROVE  Conds(us) = IF Len(us) = 0 THEN us ELSE (CHOOSE f : FlatEq(us, f))[Len(us)]
BY Zenon DEF Conds, FlattenSeq, FlatEq

LEMMA FlatExists ==
  ASSUME NEW X, NEW us \in Seq(X)
  PROVE  \E f : FlatEq(us, f)
<1> DEFINE G == { vs \in Seq(X) : \E f : FlatEq(vs, f) }
<1>1. << >> \in G
  <2>1. FlatEq(<< >>, [i \in 1 .. 0 |-> i])
    BY DEF FlatEq
  <2>2. << >> \in Seq(X)
    OBVIOUS
  <2> QED
    BY <2>1, <2>2
<1>2. ASSUME NEW vs \in Seq(X), NEW u \in X, vs \in G PROVE Append(vs, u) \in G
  <2> DEFINE more == Append(vs, u)
             n == Len(vs)
  <2>1. PICK f : FlatEq(vs, f)
    BY <1>2
  <2>2. /\ more \in Seq(X) /\ Len(more) = n + 1 /\ more[n + 1] = u
        /\ \A k \in 1 .. n : more[k] = vs[k]
    BY AppendFacts
  <2>3. n \in Nat
    OBVIOUS
  <2> HIDE DEF more, n
  <2> DEFINE g == [i \in 1 .. n + 1 |-> IF i = n + 1 THEN (IF n = 0 THEN u ELSE f[n] \o u) ELSE f[i]]
  <2>4. \A i \in 1 .. n : f[i] = IF i = 1 THEN vs[i] ELSE f[i - 1] \o vs[i]
    BY <2>1 DEF FlatEq, n
  <2>5. ASSUME NEW i \in 1 .. n + 1
        PROVE  g[i] = IF i = 1 THEN more[i] ELSE g[i - 1] \o more[i]
    <3>1. CASE i = n + 1 /\ n = 0
      BY <2>2, <3>1
    <3>2. CASE i = n + 1 /\ n # 0
      <4>1. i # 1 /\ i - 1 = n /\ n \in 1 .. n + 1 /\ n # n + 1
        BY <2>3, <3>2
      <4>2. g[i] = f[n] \o u /\ g[n] = f[n]
        BY <3>2, <4>1
      <4> QED
        BY <2>2, <3>2, <4>1, <4>2
    <3>3. CASE i # n + 1
      <4>1. i \in 1 .. n
        BY <2>3, <3>3
      <4>2. g[i] = f[i] /\ more[i] = vs[i]
        BY <2>2, <3>3, <4>1
      <4>3. CASE i = 1
        BY <2>4, <4>1, <4>2, <4>3
      <4>4. CASE i # 1
        <5>1. i - 1 \in 1 .. n /\ i - 1 \in 1 .. n + 1 /\ i - 1 # n + 1
          BY <2>3, <4>1, <4>4
        <5>2. g[i - 1] = f[i - 1]
          BY <5>1
        <5> QED
          BY <2>4, <4>1, <4>2, <4>4, <5>2
      <4> QED
        BY <4>3, <4>4
    <3> QED
      BY <3>1, <3>2, <3>3
  <2>6. g = [i \in 1 .. n + 1 |-> g[i]]
    OBVIOUS
  <2> HIDE DEF g
  <2>7. FlatEq(more, g)
    BY <2>2, <2>5, <2>6 DEF FlatEq
  <2> QED
    BY <2>2, <2>7 DEF more
<1>3. Seq(X) \subseteq G
  <2> HIDE DEF G
  <2> QED
    BY <1>1, <1>2, AllSequences
<1> QED
  BY <1>3

FlatStep(us, f, i) == f[i] = IF i = 1 THEN us[i] ELSE f[i - 1] \o us[i]

LEMMA FlatAt ==
  ASSUME NEW us, NEW f, FlatEq(us, f), NEW i \in 1 .. Len(us)
  PROVE  FlatStep(us, f, i)
<1>2. [j \in 1 .. Len(us) |-> IF j = 1 THEN us[j] ELSE f[j - 1] \o us[j]][i] = IF i = 1 THEN us[i] ELSE f[i - 1] \o us[i]
  OBVIOUS
<1>3. f = [j \in 1 .. Len(us) |-> IF j = 1 THEN us[j] ELSE f[j - 1] \o us[j]]
  BY DEF FlatEq
<1> QED
  BY ONLY <1>2, <1>3 DEF FlatStep

(* As far as units agree, so do the conditions.                            *)
Agree(us, vs) ==
  /\ Len(us) \in Nat /\ Len(vs) \in Nat /\ Len(us) <= Len(vs)
  /\ \A i \in 1 .. Len(us) : us[i] = vs[i]

LEMMA FlatAgrees ==
  ASSUME NEW us, NEW vs, Agree(us, vs), NEW f, NEW g, FlatEq(us, f), FlatEq(vs, g)
  PROVE  \A i \in 1 .. Len(us) : f[i] = g[i]
<1>a. PICK n \in Nat, m \in Nat : n = Len(us) /\ m = Len(vs) /\ n <= m /\ \A i \in 1 .. n : us[i] = vs[i]
  BY DEF Agree
<1> DEFINE S == { i \in 0 .. n : i = 0 \/ f[i] = g[i] }
<1>1. 0 \in S
  OBVIOUS
<1>2. ASSUME NEW k \in 0 .. n - 1, k \in S PROVE k + 1 \in S
  <2>1. k + 1 \in 1 .. n /\ k + 1 \in 1 .. m /\ k + 1 - 1 = k
    BY <1>a
  <2>1a. PICK i : i = k + 1
    OBVIOUS
  <2>1b. i \in 1 .. n /\ i \in 1 .. m
    BY <2>1, <2>1a
  <2>1c. i \in 1 .. Len(us) /\ i \in 1 .. Len(vs)
    BY <1>a, <2>1b
  <2>2. f[i] = (IF i = 1 THEN us[i] ELSE f[i - 1] \o us[i])
    BY ONLY <2>1c, FlatEq(us, f), FlatAt DEF FlatStep
  <2>3. g[i] = (IF i = 1 THEN vs[i] ELSE g[i - 1] \o vs[i])
    BY ONLY <2>1c, FlatEq(vs, g), FlatAt DEF FlatStep
  <2>4. us[k + 1] = vs[k + 1]
    BY <1>a, <2>1
  <2>5. k = 0 \/ f[k] = g[k]
    BY <1>2
  <2>6. f[k + 1] = g[k + 1]
    BY <2>1, <2>1a, <2>2, <2>3, <2>4, <2>5
  <2> QED
    BY <2>1, <2>6
<1> HIDE DEF S
<1>3. 0 .. n \subseteq S
  BY <1>1, <1>2, UpTo
<1>4. ASSUME NEW i \in 1 .. n PROVE f[i] = g[i]
  <2>1. i \in 0 .. n /\ i # 0
    OBVIOUS
  <2> QED
    BY <1>3, <2>1 DEF S
<1> QED
  BY <1>a, <1>4

LEMMA CondsOfNone == Conds(<< >>) = << >>
BY CondsRuns

LEMMA CondsOfOneMore ==
  ASSUME NEW X, NEW us \in Seq(Seq(X)), NEW u \in Seq(X)
  PROVE  Conds(Append(us, u)) = Conds(us) \o u
<1> DEFINE more == Append(us, u)
           n == Len(us)
           f == CHOOSE h : FlatEq(us, h)
           g == CHOOSE h : FlatEq(more, h)
<1>1. /\ more \in Seq(Seq(X)) /\ Len(more) = n + 1 /\ more[n + 1] = u
      /\ \A k \in 1 .. n : more[k] = us[k]
  BY AppendFacts
<1>2. n \in Nat
  OBVIOUS
<1>3. FlatEq(us, f) /\ FlatEq(more, g)
  <2>1. \E h : FlatEq(us, h)
    BY FlatExists
  <2> HIDE DEF more
  <2>2. \E h : FlatEq(more, h)
    BY <1>1, FlatExists
  <2> QED
    BY <2>1, <2>2
<1> HIDE DEF more, n, f, g
<1>4. n + 1 \in 1 .. n + 1 /\ n + 1 - 1 = n /\ n + 1 # 0 /\ n + 1 \in Nat /\ n <= n + 1
  BY <1>2
<1>5. Conds(more) = g[n + 1]
  BY <1>1, <1>4, CondsRuns DEF g
<1>6. g[n + 1] = IF n + 1 = 1 THEN more[n + 1] ELSE g[n + 1 - 1] \o more[n + 1]
  <2>1. PICK m, i : m = n + 1 /\ i = n + 1
    OBVIOUS
  <2>2. i \in 1 .. Len(more)
    BY <1>1, <1>4, <2>1
  <2>3. g[i] = IF i = 1 THEN more[i] ELSE g[i - 1] \o more[i]
    BY ONLY <1>3, <2>2, FlatAt DEF FlatStep
  <2> QED
    BY <1>2, <2>1, <2>3
<1>7. CASE n = 0
  <2>1. us = << >>
    BY <1>7 DEF n
  <2>2. Conds(us) = << >>
    BY <2>1, CondsOfNone
  <2>3. << >> \o u = u
    OBVIOUS
  <2> QED
    BY <1>1, <1>5, <1>6, <1>7, <2>2, <2>3 DEF more
<1>8. CASE n # 0
  <2>1. Conds(us) = f[n]
    BY <1>8, CondsRuns DEF f, n
  <2>2. n \in 1 .. n /\ n + 1 # 1
    BY <1>2, <1>8
  <2>3. PICK m \in Nat : m = n + 1
    BY <1>4
  <2>4. \A i \in 1 .. n : f[i] = g[i]
    <3>1. Agree(us, more)
      BY <1>1, <1>2, <1>4 DEF Agree, n
    <3> QED
      BY ONLY <1>3, <3>1, FlatAgrees DEF n
  <2>5. f[n] = g[n]
    BY <2>2, <2>4
  <2> QED
    BY <1>1, <1>4, <1>5, <1>6, <2>1, <2>2, <2>5 DEF more
<1> QED
  BY <1>7, <1>8

LEMMA CondsType ==
  ASSUME NEW X, NEW us \in Seq(Seq(X))
  PROVE  Conds(us) \in Seq(X)
<1> DEFINE G == { vs \in Seq(Seq(X)) : Conds(vs) \in Seq(X) }
<1>1. << >> \in G
  <2>1. << >> \in Seq(Seq(X)) /\ << >> \in Seq(X)
    OBVIOUS
  <2>2. Conds(<< >>) \in Seq(X)
    BY ONLY <2>1, CondsOfNone
  <2> QED
    BY <2>1, <2>2
<1>2. ASSUME NEW vs \in Seq(Seq(X)), NEW u \in Seq(X), vs \in G PROVE Append(vs, u) \in G
  <2>1. Conds(Append(vs, u)) = Conds(vs) \o u
    BY CondsOfOneMore
  <2>2. Conds(vs) \o u \in Seq(X)
    BY <1>2
  <2>3. Append(vs, u) \in Seq(Seq(X))
    OBVIOUS
  <2>4. Conds(Append(vs, u)) \in Seq(X)
    BY ONLY <2>1, <2>2
  <2> QED
    BY <2>3, <2>4
<1>3. Seq(Seq(X)) \subseteq G
  <2> HIDE DEF G
  <2>1. PICK Y : Y = Seq(X)
    OBVIOUS
  <2> QED
    BY <1>1, <1>2, <2>1, AllSequences
<1> QED
  BY <1>3

-----------------------------------------------------------------------------
(* Units less some of them.                                                *)
WithoutEq(us, out, it) ==
  it = [u \in SUBSET DOMAIN [n \in 1 .. Len(us) |-> n] |->
         IF u = {} THEN << >>
         ELSE IF [n \in 1 .. Len(us) |-> n][Max(u)] \in out THEN it[u \ {Max(u)}]
              ELSE Append(it[u \ {Max(u)}], us[[n \in 1 .. Len(us) |-> n][Max(u)]])]

LEMMA WithoutRuns ==
  ASSUME NEW us, NEW out
  PROVE  Without(us, out) = (CHOOSE it : WithoutEq(us, out, it))[DOMAIN [n \in 1 .. Len(us) |-> n]]
BY Zenon DEF Without, FoldLeft, MapThenFoldSet, WithoutEq

LEMMA WithoutType ==
  ASSUME NEW X, NEW us \in Seq(X), NEW out
  PROVE  Without(us, out) \in Seq(X)
<1> DEFINE V == Seq(X)
           S == 1 .. Len(us)
           ch == [u \in SUBSET S |-> Max(u)]
           Kept1(k, rest) == IF k \in out THEN rest ELSE Append(rest, us[k])
           op == [m \in S \X V |-> Kept1(m[1], m[2])]
           it == CHOOSE jt : WithoutEq(us, out, jt)
<1>1. DOMAIN [k \in 1 .. Len(us) |-> k] = S /\ \A k \in S : [j \in 1 .. Len(us) |-> j][k] = k
  OBVIOUS
<1>2. IsFiniteSet(S) /\ \A u \in SUBSET S : u # {} => Max(u) \in u
  <2>1. Len(us) \in Nat
    OBVIOUS
  <2> QED
    BY <2>1, Positions
<1>3. \A u \in SUBSET S : ch[u] = Max(u)
  OBVIOUS
<1>4. << >> \in V
  OBVIOUS
<1>5. ASSUME NEW k \in S, NEW rest \in V PROVE Kept1(k, rest) \in V
  OBVIOUS
<1> HIDE DEF V, S, Kept1
<1>6. op \in [S \X V -> V] /\ \A k \in S, rest \in V : op[<<k, rest>>] = Kept1(k, rest)
  <2>1. \A m \in S \X V : m[1] \in S /\ m[2] \in V
    OBVIOUS
  <2>2. \A m \in S \X V : Kept1(m[1], m[2]) \in V
    BY <1>5, <2>1
  <2> QED
    BY <2>2
<1> HIDE DEF op, ch
<1>7. PICK none \in V : none = << >>
  BY <1>4
<1>8. PICK g \in [SUBSET S -> V] : Follows(S, ch, V, none, op, g)
  <2>1. \A u \in SUBSET S : u # {} => ch[u] \in u
    BY <1>2, <1>3
  <2>2. IsFiniteSet(S) /\ op \in [S \X V -> V]
    BY <1>2, <1>6
  <2> QED
    BY ONLY <1>7, <2>1, <2>2, FollowsExists
<1>9. WithoutEq(us, out, g)
  <2>1. ASSUME NEW u \in SUBSET S, u # {}
        PROVE  g[u] = Kept1(Max(u), g[u \ {Max(u)}])
    <3>1. ch[u] = Max(u) /\ ch[u] \in S /\ u \ {ch[u]} \in SUBSET S
      BY <1>2, <1>3, <2>1
    <3>2. g[u \ {ch[u]}] \in V
      BY <3>1
    <3>3. g[u] = op[<<ch[u], g[u \ {ch[u]}]>>]
      BY <1>8, <2>1, <3>2 DEF Follows
    <3> QED
      BY <1>6, <3>1, <3>2, <3>3
  <2>2. g[{}] = << >>
    BY <1>7, <1>8 DEF Follows
  <2>3. g = [u \in SUBSET S |-> g[u]]
    OBVIOUS
  <2>4. \A u \in SUBSET S : u # {} => [k \in 1 .. Len(us) |-> k][Max(u)] = Max(u)
    BY <1>1, <1>2
  <2>5. \A u \in SUBSET S : u # {} =>
          g[u] = IF [n \in 1 .. Len(us) |-> n][Max(u)] \in out THEN g[u \ {Max(u)}]
                 ELSE Append(g[u \ {Max(u)}], us[[n \in 1 .. Len(us) |-> n][Max(u)]])
    BY <2>1, <2>4 DEF Kept1
  <2> QED
    BY ONLY <1>1, <2>2, <2>3, <2>5 DEF WithoutEq
<1>10. WithoutEq(us, out, it)
  BY <1>9
<1> HIDE DEF it
<1>11. Follows(S, ch, V, none, op, it)
  <2>1. \A u \in SUBSET S :
          it[u] = IF u = {} THEN << >>
                  ELSE IF [n \in 1 .. Len(us) |-> n][Max(u)] \in out THEN it[u \ {Max(u)}]
                       ELSE Append(it[u \ {Max(u)}], us[[n \in 1 .. Len(us) |-> n][Max(u)]])
    BY <1>1, <1>10 DEF WithoutEq
  <2>2. \A u \in SUBSET S : u # {} => [k \in 1 .. Len(us) |-> k][Max(u)] = Max(u)
    BY <1>1, <1>2
  <2>3. ASSUME NEW u \in SUBSET S, u # {}, it[u \ {ch[u]}] \in V
        PROVE  it[u] = op[<<ch[u], it[u \ {ch[u]}]>>]
    <3>1. ch[u] = Max(u) /\ ch[u] \in S
      BY <1>2, <1>3, <2>3
    <3>2. it[u] = Kept1(Max(u), it[u \ {Max(u)}])
      BY <2>1, <2>2, <2>3 DEF Kept1
    <3> QED
      BY <1>6, <2>3, <3>1, <3>2
  <2>4. it = [u \in SUBSET S |-> it[u]]
    BY <1>1, <1>10 DEF WithoutEq
  <2>5. it[{}] = none
    BY <1>7, <2>1
  <2>6. \A u \in SUBSET S : u # {} => ch[u] \in u
    BY <1>2, <1>3
  <2> QED
    BY ONLY <1>2, <1>7, <1>6, <2>3, <2>4, <2>5, <2>6 DEF Follows
<1>12. it \in [SUBSET S -> V]
  BY ONLY <1>11, FoldStays
<1>13. it[S] \in V
  BY <1>12
<1>14. Without(us, out) = it[S]
  BY <1>1, WithoutRuns DEF it
<1> QED
  BY <1>13, <1>14 DEF V
-----------------------------------------------------------------------------
LEMMA SameFind == \A f : Basis!Find(f) = Find(f)
BY Zenon DEF Basis!Find, Find, Basis!Xor, Xor

LEMMA SameUnion == \A f, x, y, c : Basis!Union(f, x, y, c) = Union(f, x, y, c)
<1>1. \A f, x, y, c : Basis!Hung(f, x, y, c) = Hung(f, x, y, c)
  BY ZenonT(30) DEF Basis!Hung, Hung
<1>2. \A x, y : Basis!Xor(x, y) = Xor(x, y)
  BY Zenon DEF Basis!Xor, Xor
<1> QED
  BY SameFind, <1>1, <1>2 DEF Basis!Union, Union

LEMMA SameApplied == \A f, c : Basis!Applied(f, c) = Applied(f, c)
BY SameUnion, Zenon DEF Basis!Applied, Applied

LEMMA SameConnected == \A f, x, y : Basis!Connected(f, x, y) <=> Connected(f, x, y)
BY SameFind, Zenon DEF Basis!Connected, Connected

LEMMA SameGained == \A f, c : Basis!Gained(f, c) = Gained(f, c)
BY SameConnected, Zenon DEF Basis!Gained, Gained

LEMMA SameCandidates == \A f : Basis!Candidates(f) = Candidates(f)
<1>1. \A f, d, x, y, c : Basis!Tied(f, d, x, y, c) <=> Tied(f, d, x, y, c)
  BY SameFind, SameConnected, ZenonT(30) DEF Basis!Tied, Tied, Basis!Xor, Xor
<1>2. \A f, x, y, c : Basis!Entry(f, x, y, c) = Entry(f, x, y, c)
  BY <1>1, Zenon DEF Basis!Entry, Entry
<1> QED
  <2>1. Basis!Bit = Bit /\ \A x, y : Basis!Before(x, y) <=> Before(x, y)
    BY Zenon DEF Basis!Bit, Bit, Basis!Before, Before
  <2> SUFFICES ASSUME NEW f, NEW c PROVE c \in Basis!Candidates(f) <=> c \in Candidates(f)
    OBVIOUS
  <2>2. c \in Basis!Candidates(f) <=>
          /\ \E x \in Vertex, y \in Vertex, bit \in Basis!Bit : c = Basis!Entry(f, x, y, bit)
          /\ Basis!Before(c.u, c.v) /\ c.dvs # {}
    BY DEF Basis!Candidates
  <2>3. c \in Candidates(f) <=>
          /\ \E x \in Vertex, y \in Vertex, bit \in Bit : c = Entry(f, x, y, bit)
          /\ Before(c.u, c.v) /\ c.dvs # {}
    BY DEF Candidates
  <2> QED
    BY <1>2, <2>1, <2>2, <2>3
-----------------------------------------------------------------------------
(* Ranks count as far as RANKS, and so no ranks score Infinity.            *)
Capped(ranks) == [d \in Dv |-> Min({ranks[d], RANKS})]

LEMMA CappedFacts ==
  ASSUME NEW ranks \in Ranks
  PROVE  /\ Capped(ranks) \in [Dv -> 0 .. RANKS]
         /\ \A d \in Dv : Alive(Capped(ranks)[d]) = Alive(ranks[d])
<1>1. RANKS \in Nat
  BY UbcsAssumption
<1>2. ASSUME NEW d \in Dv
      PROVE  Capped(ranks)[d] \in 0 .. RANKS /\ Alive(Capped(ranks)[d]) = Alive(ranks[d])
  <2>1. ranks[d] \in Nat
    BY DEF Ranks
  <2>2. PICK r \in Nat : r = ranks[d]
    BY <2>1
  <2>3. Min({r, RANKS}) = IF r <= RANKS THEN r ELSE RANKS
    BY <1>1, MinOfTwo
  <2>4. PICK m \in Nat : m = Min({r, RANKS})
    BY <1>1, <2>3
  <2>5. Min({m, RANKS}) = IF m <= RANKS THEN m ELSE RANKS
    BY <1>1, MinOfTwo
  <2>6. m \in 0 .. RANKS /\ Min({m, RANKS}) = m
    BY <1>1, <2>3, <2>4, <2>5
  <2>7. Alive(m) = Alive(r)
    BY <2>4, <2>6 DEF Alive
  <2>8. Capped(ranks)[d] = m
    BY <2>2, <2>4 DEF Capped
  <2> QED
    BY ONLY <2>2, <2>6, <2>7, <2>8
<1> QED
  BY <1>2 DEF Capped

LEMMA SameSurvivors ==
  ASSUME NEW r, NEW s, \A d \in Dv : Alive(r[d]) = Alive(s[d])
  PROVE  Survivors(r) = Survivors(s)
<1>1. Survivors(r) = (CHOOSE it : SumEq(r, it))[Dv] /\ Survivors(s) = (CHOOSE it : SumEq(s, it))[Dv]
  BY Zenon DEF Survivors, MapThenSumSet, MapThenFoldSet, SumEq
<1>2. ASSUME NEW it PROVE SumEq(r, it) <=> SumEq(s, it)
  <2>1. ASSUME NEW u \in SUBSET Dv
        PROVE  (IF u = {} THEN 0 ELSE Alive(r[CHOOSE x \in u : TRUE]) + it[u \ {CHOOSE x \in u : TRUE}])
             = (IF u = {} THEN 0 ELSE Alive(s[CHOOSE x \in u : TRUE]) + it[u \ {CHOOSE x \in u : TRUE}])
    <3>1. u # {} => (CHOOSE x \in u : TRUE) \in Dv
      OBVIOUS
    <3> QED
      BY <3>1
  <2> QED
    BY <2>1 DEF SumEq
<1> QED
  BY <1>1, <1>2

LEMMA SameProduct ==
  ASSUME NEW r, NEW s, \A d \in Dv : Alive(r[d]) = Alive(s[d])
  PROVE  ProductOf(r) = ProductOf(s)
<1>1. FoldSet(LAMBDA d, product : product * (2 ^ RANKS - Alive(r[d])), 1, Dv) = (CHOOSE it : ProductEq(r, it))[Dv]
  BY Zenon DEF FoldSet, MapThenFoldSet, ProductEq
<1>2. FoldSet(LAMBDA d, product : product * (2 ^ RANKS - Alive(s[d])), 1, Dv) = (CHOOSE it : ProductEq(s, it))[Dv]
  BY Zenon DEF FoldSet, MapThenFoldSet, ProductEq
<1>3. ASSUME NEW it PROVE ProductEq(r, it) <=> ProductEq(s, it)
  <2>1. ASSUME NEW u \in SUBSET Dv
        PROVE  (IF u = {} THEN 1
                ELSE it[u \ {CHOOSE x \in u : TRUE}] * (2 ^ RANKS - Alive(r[CHOOSE x \in u : TRUE])))
             = (IF u = {} THEN 1
                ELSE it[u \ {CHOOSE x \in u : TRUE}] * (2 ^ RANKS - Alive(s[CHOOSE x \in u : TRUE])))
    <3>1. u # {} => (CHOOSE x \in u : TRUE) \in Dv
      OBVIOUS
    <3> QED
      BY <3>1
  <2> QED
    BY <2>1 DEF ProductEq
<1>4. (CHOOSE it : ProductEq(r, it)) = CHOOSE it : ProductEq(s, it)
  BY <1>3
<1> QED
  BY ONLY <1>1, <1>2, <1>4 DEF ProductOf

LEMMA ScoreBelow ==
  ASSUME NEW target \in Params, NEW ranks \in Ranks
  PROVE  Score(target, ranks) < Infinity
<1> DEFINE capped == Capped(ranks)
<1>1. capped \in [Dv -> 0 .. RANKS] /\ \A d \in Dv : Alive(capped[d]) = Alive(ranks[d])
  BY CappedFacts
<1> HIDE DEF capped
<1>2. Survivors(capped) = Survivors(ranks)
  BY ONLY <1>1, SameSurvivors
<1>3. ProductOf(capped) = ProductOf(ranks)
  BY ONLY <1>1, SameProduct
<1>4. Random(capped) = Random(ranks)
  BY ONLY <1>2, <1>3 DEF Random, ProductOf
<1>5. Score(target, capped) = Score(target, ranks)
  BY ONLY <1>2, <1>4 DEF Score
<1>6. Score(target, capped) < Infinity
  BY <1>1, InfinityAssumption
<1> QED
  BY ONLY <1>5, <1>6

-----------------------------------------------------------------------------
(* Scores and ranks: the higher the ranks, the better the score.           *)
(* Powers of two count the subsets of a set: they grow.                    *)
LEMMA PowersGrow ==
  ASSUME NEW m \in Nat, NEW n \in Nat, m <= n
  PROVE  2 ^ m \in Nat /\ 2 ^ n \in Nat /\ 1 <= 2 ^ m /\ 2 ^ m <= 2 ^ n
<1>1. ASSUME NEW k \in Nat
      PROVE  /\ IsFiniteSet(SUBSET (1 .. k)) /\ Cardinality(SUBSET (1 .. k)) = 2 ^ k
             /\ Cardinality(SUBSET (1 .. k)) \in Nat
  <2>1. IsFiniteSet(1 .. k) /\ Cardinality(1 .. k) = k
    <3>1. 1 \in Int /\ k \in Int
      OBVIOUS
    <3>2. Cardinality(1 .. k) = IF 1 > k THEN 0 ELSE k - 1 + 1
      BY <3>1, FS_Interval
    <3>3. Cardinality(1 .. k) = k
      BY <3>2
    <3> QED
      BY <3>1, <3>3, FS_Interval
  <2>2. IsFiniteSet(SUBSET (1 .. k)) /\ Cardinality(SUBSET (1 .. k)) = 2 ^ Cardinality(1 .. k)
    BY <2>1, FS_SUBSET
  <2> QED
    BY <2>1, <2>2, FS_CardinalityType
<1>2. SUBSET (1 .. m) \subseteq SUBSET (1 .. n)
  <2>1. 1 .. m \subseteq 1 .. n
    OBVIOUS
  <2> QED
    BY ONLY <2>1
<1>3. Cardinality(SUBSET (1 .. m)) <= Cardinality(SUBSET (1 .. n))
  BY <1>1, <1>2, FS_Subset
<1>4. Cardinality(SUBSET (1 .. m)) # 0
  <2>1. {} \in SUBSET (1 .. m)
    OBVIOUS
  <2> QED
    BY <1>1, <2>1, FS_EmptySet
<1>5. PICK x \in Nat, y \in Nat : x = 2 ^ m /\ y = 2 ^ n /\ x <= y /\ x # 0
  BY <1>1, <1>3, <1>4
<1> QED
  BY <1>5

LEMMA AliveFalls ==
  ASSUME NEW q \in Nat, NEW r \in Nat, q <= r
  PROVE  /\ Alive(q) \in Nat /\ Alive(r) \in Nat /\ Alive(r) <= Alive(q)
         /\ 2 ^ RANKS \in Nat /\ Alive(q) <= 2 ^ RANKS
<1>1. RANKS \in Nat
  BY UbcsAssumption
<1>2. Min({q, RANKS}) = (IF q <= RANKS THEN q ELSE RANKS) /\ Min({r, RANKS}) = IF r <= RANKS THEN r ELSE RANKS
  BY <1>1, MinOfTwo
<1>3. PICK a \in Nat, b \in Nat : a = RANKS - Min({q, RANKS}) /\ b = RANKS - Min({r, RANKS}) /\ b <= a /\ a <= RANKS
  <2>1. RANKS - Min({q, RANKS}) \in Nat /\ RANKS - Min({r, RANKS}) \in Nat
    BY <1>1, <1>2
  <2>2. RANKS - Min({r, RANKS}) <= RANKS - Min({q, RANKS}) /\ RANKS - Min({q, RANKS}) <= RANKS
    BY <1>1, <1>2
  <2> QED
    BY <2>1, <2>2
<1>4. Alive(q) = 2 ^ a /\ Alive(r) = 2 ^ b
  BY <1>3 DEF Alive
<1>5. 2 ^ a \in Nat /\ 2 ^ b \in Nat /\ 2 ^ b <= 2 ^ a
  BY <1>3, PowersGrow
<1>6. 2 ^ RANKS \in Nat /\ 2 ^ a <= 2 ^ RANKS
  BY <1>1, <1>3, PowersGrow
<1> QED
  BY ONLY <1>4, <1>5, <1>6

LEMMA Product ==
  ASSUME NEW m \in Nat, NEW n \in Nat, NEW k \in Nat, NEW l \in Nat, m <= n, k <= l
  PROVE  m * k \in Nat /\ n * l \in Nat /\ m * k <= n * l
<1>1. m * k \in Nat /\ n * l \in Nat /\ n * k \in Nat
  OBVIOUS
<1>2. PICK i \in Nat, j \in Nat : n = m + i /\ l = k + j
  <2>1. n - m \in Nat /\ l - k \in Nat /\ n = m + (n - m) /\ l = k + (l - k)
    OBVIOUS
  <2> QED
    BY <2>1
<1>3. (m + i) * (k + j) = m * k + m * j + i * k + i * j
  OBVIOUS
<1>4. m * j \in Nat /\ i * k \in Nat /\ i * j \in Nat
  OBVIOUS
<1> QED
  BY <1>1, <1>2, <1>3, <1>4

(* With higher ranks fewer survive.                                        *)
LEMMA SurvivorsFall ==
  ASSUME NEW r \in Ranks, NEW s \in Ranks, \A d \in Dv : r[d] <= s[d]
  PROVE  Survivors(s) \in Nat /\ Survivors(r) \in Nat /\ Survivors(s) <= Survivors(r)
<1>1. PICK it \in [SUBSET Dv -> Int] : SumEq(r, it) /\ Survivors(r) = it[Dv]
  BY SumRuns
<1>2. PICK jt \in [SUBSET Dv -> Int] : SumEq(s, jt) /\ Survivors(s) = jt[Dv]
  BY SumRuns
<1> DEFINE ch == [u \in SUBSET Dv |-> CHOOSE x \in u : TRUE]
           G == { u \in SUBSET Dv : it[u] \in Nat /\ jt[u] \in Nat /\ jt[u] <= it[u] }
<1>3. \A u \in SUBSET Dv : u # {} => ch[u] \in u
  OBVIOUS
<1>4. \A u \in SUBSET Dv : it[u] = IF u = {} THEN 0 ELSE Alive(r[ch[u]]) + it[u \ {ch[u]}]
  BY <1>1 DEF SumEq
<1>5. \A u \in SUBSET Dv : jt[u] = IF u = {} THEN 0 ELSE Alive(s[ch[u]]) + jt[u \ {ch[u]}]
  BY <1>2 DEF SumEq
<1> HIDE DEF ch
<1>6. {} \in G
  <2>1. it[{}] = 0 /\ jt[{}] = 0
    BY <1>4, <1>5
  <2> QED
    BY <2>1
<1>7. ASSUME NEW u \in SUBSET Dv, u # {}, u \ {ch[u]} \in G PROVE u \in G
  <2>1. ch[u] \in Dv
    BY <1>3, <1>7
  <2>2. r[ch[u]] \in Nat /\ s[ch[u]] \in Nat /\ r[ch[u]] <= s[ch[u]]
    BY <2>1 DEF Ranks
  <2>3. Alive(r[ch[u]]) \in Nat /\ Alive(s[ch[u]]) \in Nat /\ Alive(s[ch[u]]) <= Alive(r[ch[u]])
    BY ONLY <2>2, AliveFalls
  <2>4. it[u] = Alive(r[ch[u]]) + it[u \ {ch[u]}] /\ jt[u] = Alive(s[ch[u]]) + jt[u \ {ch[u]}]
    BY <1>4, <1>5, <1>7
  <2>5. LET v == u \ {ch[u]} IN it[v] \in Nat /\ jt[v] \in Nat /\ jt[v] <= it[v]
    BY <1>7
  <2>6. it[u] \in Nat /\ jt[u] \in Nat /\ jt[u] <= it[u]
    BY ONLY <2>3, <2>4, <2>5
  <2> QED
    BY <2>6
<1>8. Dv \in G
  <2> HIDE DEF G
  <2>1. Inductive(Dv, ch, G)
    BY ONLY <1>3, <1>6, <1>7, DvFinite DEF Inductive
  <2> QED
    BY ONLY <2>1, Induction
<1> QED
  BY <1>1, <1>2, <1>8

LEMMA ProductRises ==
  ASSUME NEW r \in Ranks, NEW s \in Ranks, \A d \in Dv : r[d] <= s[d]
  PROVE  ProductOf(r) \in Nat /\ ProductOf(s) \in Nat /\ ProductOf(r) <= ProductOf(s)
<1>1. PICK it \in [SUBSET Dv -> Int] : ProductEq(r, it) /\ ProductOf(r) = it[Dv]
  BY ProductRuns
<1>2. PICK jt \in [SUBSET Dv -> Int] : ProductEq(s, jt) /\ ProductOf(s) = jt[Dv]
  BY ProductRuns
<1> DEFINE ch == [u \in SUBSET Dv |-> CHOOSE x \in u : TRUE]
           G == { u \in SUBSET Dv : it[u] \in Nat /\ jt[u] \in Nat /\ it[u] <= jt[u] }
<1>3. \A u \in SUBSET Dv : u # {} => ch[u] \in u
  OBVIOUS
<1>4. \A u \in SUBSET Dv : it[u] = IF u = {} THEN 1 ELSE it[u \ {ch[u]}] * (2 ^ RANKS - Alive(r[ch[u]]))
  BY <1>1 DEF ProductEq
<1>5. \A u \in SUBSET Dv : jt[u] = IF u = {} THEN 1 ELSE jt[u \ {ch[u]}] * (2 ^ RANKS - Alive(s[ch[u]]))
  BY <1>2 DEF ProductEq
<1> HIDE DEF ch
<1>6. {} \in G
  <2>1. it[{}] = 1 /\ jt[{}] = 1
    BY <1>4, <1>5
  <2> QED
    BY <2>1
<1>7. ASSUME NEW u \in SUBSET Dv, u # {}, u \ {ch[u]} \in G PROVE u \in G
  <2>1. ch[u] \in Dv
    BY <1>3, <1>7
  <2>2. r[ch[u]] \in Nat /\ s[ch[u]] \in Nat /\ r[ch[u]] <= s[ch[u]]
    BY <2>1 DEF Ranks
  <2>3. /\ Alive(r[ch[u]]) \in Nat /\ Alive(s[ch[u]]) \in Nat /\ Alive(s[ch[u]]) <= Alive(r[ch[u]])
        /\ 2 ^ RANKS \in Nat /\ Alive(r[ch[u]]) <= 2 ^ RANKS
    BY ONLY <2>2, AliveFalls
  <2>4. /\ it[u] = it[u \ {ch[u]}] * (2 ^ RANKS - Alive(r[ch[u]]))
        /\ jt[u] = jt[u \ {ch[u]}] * (2 ^ RANKS - Alive(s[ch[u]]))
    BY <1>4, <1>5, <1>7
  <2>5. PICK m \in Nat, n \in Nat : m = it[u \ {ch[u]}] /\ n = jt[u \ {ch[u]}] /\ m <= n
    BY <1>7
  <2>6. PICK k \in Nat, l \in Nat : k = 2 ^ RANKS - Alive(r[ch[u]]) /\ l = 2 ^ RANKS - Alive(s[ch[u]]) /\ k <= l
    <3>1. PICK a \in Nat, b \in Nat, c \in Nat :
            a = Alive(r[ch[u]]) /\ b = Alive(s[ch[u]]) /\ c = 2 ^ RANKS /\ b <= a /\ a <= c
      BY <2>3
    <3>2. c - a \in Nat /\ c - b \in Nat /\ c - a <= c - b
      BY <3>1
    <3> QED
      BY <3>1, <3>2
  <2>7. m * k \in Nat /\ n * l \in Nat /\ m * k <= n * l
    BY ONLY <2>5, <2>6, Product
  <2>8. it[u] = m * k /\ jt[u] = n * l
    BY ONLY <2>4, <2>5, <2>6
  <2> QED
    BY <2>7, <2>8
<1>8. Dv \in G
  <2> HIDE DEF G
  <2>1. Inductive(Dv, ch, G)
    BY ONLY <1>3, <1>6, <1>7, DvFinite DEF Inductive
  <2> QED
    BY ONLY <2>1, Induction
<1> QED
  BY <1>1, <1>2, <1>8

(* More ranks never make a score worse.                                    *)
LEMMA ScoreFalls ==
  ASSUME NEW target, NEW r \in Ranks, NEW s \in Ranks, \A d \in Dv : r[d] <= s[d]
  PROVE  Score(target, s) <= Score(target, r) /\ Score(target, s) \in Int /\ Score(target, r) \in Int
<1>1. Survivors(s) \in Nat /\ Survivors(r) \in Nat /\ Survivors(s) <= Survivors(r)
  BY SurvivorsFall
<1>2. ProductOf(r) \in Nat /\ ProductOf(s) \in Nat /\ ProductOf(r) <= ProductOf(s)
  BY ProductRises
<1>3. PICK n \in Nat : n = Cardinality(Dv) /\ n # 0
  BY FiniteAssumption, FS_CardinalityType, FS_EmptySet
<1>4. RANKS \in Nat
  BY UbcsAssumption
<1>5. RANKS * n \in Nat /\ RANKS * (n - 1) \in Nat
  <2>1. n - 1 \in Nat
    BY <1>3
  <2>2. \A k, l \in Nat : k * l \in Nat
    OBVIOUS
  <2> QED
    BY <1>4, <2>1, <2>2
<1>6. PICK a \in Nat, b \in Nat : a = 2 ^ (RANKS * n) /\ b = 2 ^ (RANKS * (n - 1))
  BY <1>5, PowersGrow
<1>7. Random(r) = a - ProductOf(r) + Survivors(r) * b /\ Random(s) = a - ProductOf(s) + Survivors(s) * b
  BY <1>3, <1>6 DEF Random, ProductOf
<1>8. Survivors(s) * b \in Nat /\ Survivors(r) * b \in Nat /\ Survivors(s) * b <= Survivors(r) * b
  BY <1>1, Product
<1>9. Random(s) <= Random(r)
  <2>1. PICK x \in Nat, y \in Nat : x = Survivors(s) * b /\ y = Survivors(r) * b /\ x <= y
    BY <1>8
  <2>2. Random(r) = a - ProductOf(r) + y /\ Random(s) = a - ProductOf(s) + x
    BY <1>7, <2>1
  <2> QED
    BY ONLY <1>2, <2>1, <2>2
<1>10. Score(target, s) \in Int /\ Score(target, r) \in Int
  BY ScoreType
<1> QED
  BY <1>1, <1>9, <1>10 DEF Score

-----------------------------------------------------------------------------
(* The lanes from k on that can still raise a DV's rank, and the ranks if  *)
(* they all do.                                                            *)
Raising(trees, lanes, k, d) == { l \in k .. Len(lanes) : d \in Hits(trees, lanes[l]) }

Reached(ranks, trees, lanes, k) == [d \in Dv |-> ranks[d] + Cardinality(Raising(trees, lanes, k, d))]

LEMMA LowIs ==
  ASSUME NEW target, NEW ranks, NEW trees, NEW lanes, NEW k
  PROVE  Low(target, ranks, trees, lanes, k) = Score(target, Reached(ranks, trees, lanes, k))
BY DEF Low, Reached, Raising

LEMMA RaisingFinite ==
  ASSUME NEW trees, NEW C, NEW lanes, LanesOf(C, lanes), NEW k \in Nat, NEW d
  PROVE  IsFiniteSet(Raising(trees, lanes, k, d)) /\ Cardinality(Raising(trees, lanes, k, d)) \in Nat
<1>1. Len(lanes) \in Int /\ k \in Int
  BY DEF LanesOf
<1>2. IsFiniteSet(k .. Len(lanes))
  BY <1>1, FS_Interval
<1>3. Raising(trees, lanes, k, d) \subseteq k .. Len(lanes)
  BY DEF Raising
<1>4. IsFiniteSet(Raising(trees, lanes, k, d))
  BY ONLY <1>2, <1>3, FS_Subset
<1> QED
  BY ONLY <1>4, FS_CardinalityType

LEMMA ReachedType ==
  ASSUME NEW ranks \in Ranks, NEW trees, NEW C, NEW lanes, LanesOf(C, lanes), NEW k \in Nat
  PROVE  Reached(ranks, trees, lanes, k) \in Ranks
<1>1. ASSUME NEW d \in Dv PROVE ranks[d] + Cardinality(Raising(trees, lanes, k, d)) \in Nat
  <2>1. ranks[d] \in Nat
    BY DEF Ranks
  <2>2. Cardinality(Raising(trees, lanes, k, d)) \in Nat
    BY RaisingFinite
  <2> QED
    BY <2>1, <2>2
<1> QED
  BY <1>1 DEF Reached, Ranks

(* A lane that raises what it can hit, and nothing else, leaves no more to *)
(* be reached than there was.                                              *)
LEMMA ReachedStep ==
  ASSUME NEW r \in Ranks, NEW s \in Ranks, NEW trees, NEW C, NEW lanes, LanesOf(C, lanes),
         NEW k \in 1 .. Len(lanes),
         \A d \in Dv : s[d] <= r[d] + IF d \in Hits(trees, lanes[k]) THEN 1 ELSE 0
  PROVE  \A d \in Dv : Reached(s, trees, lanes, k + 1)[d] <= Reached(r, trees, lanes, k)[d]
<1> SUFFICES ASSUME NEW d \in Dv
             PROVE  Reached(s, trees, lanes, k + 1)[d] <= Reached(r, trees, lanes, k)[d]
  OBVIOUS
<1> DEFINE now == Raising(trees, lanes, k, d)
           next == Raising(trees, lanes, k + 1, d)
<1>0. Len(lanes) \in Nat /\ k \in Nat /\ k + 1 \in Nat
  BY DEF LanesOf
<1>1. IsFiniteSet(now) /\ IsFiniteSet(next) /\ Cardinality(now) \in Nat /\ Cardinality(next) \in Nat
  BY <1>0, RaisingFinite
<1>2. s[d] <= r[d] + (IF d \in Hits(trees, lanes[k]) THEN 1 ELSE 0) /\ s[d] \in Nat /\ r[d] \in Nat
  BY DEF Ranks
<1>3. /\ Reached(s, trees, lanes, k + 1)[d] = s[d] + Cardinality(next)
      /\ Reached(r, trees, lanes, k)[d] = r[d] + Cardinality(now)
  BY DEF Reached
<1>4. k .. Len(lanes) = (k + 1 .. Len(lanes)) \cup {k} /\ k \notin k + 1 .. Len(lanes)
  BY <1>0
<1>5. CASE d \in Hits(trees, lanes[k])
  <2>1. now = next \cup {k} /\ k \notin next
    BY <1>4, <1>5 DEF Raising
  <2> HIDE DEF now, next
  <2>2. Cardinality(now) = Cardinality(next) + 1
    BY ONLY <1>1, <2>1, FS_AddElement
  <2> QED
    BY <1>1, <1>2, <1>3, <1>5, <2>2
<1>6. CASE d \notin Hits(trees, lanes[k])
  <2>1. now = next
    BY <1>4, <1>6 DEF Raising
  <2> HIDE DEF now, next
  <2> QED
    BY <1>1, <1>2, <1>3, <1>6, <2>1
<1> QED
  BY <1>5, <1>6

(* Past the last lane nothing is left.                                     *)
LEMMA ReachedAtEnd ==
  ASSUME NEW ranks \in Ranks, NEW trees, NEW C, NEW lanes, LanesOf(C, lanes)
  PROVE  Reached(ranks, trees, lanes, Len(lanes) + 1) = ranks
<1>1. \A d \in Dv : Raising(trees, lanes, Len(lanes) + 1, d) = {}
  BY DEF Raising, LanesOf
<1>2. \A d \in Dv : ranks[d] + 0 = ranks[d]
  BY DEF Ranks
<1>3. Cardinality({}) = 0
  BY FS_EmptySet
<1> QED
  BY <1>1, <1>2, <1>3 DEF Reached, Ranks

-----------------------------------------------------------------------------
(* Trees only grow together.                                               *)
Covers(trees, after) == \A t \in trees : \E m \in after : m[1] = t[1] /\ t[2] \subseteq m[2]

LEMMA CoversFacts ==
  ASSUME NEW trees, NEW after, NEW later
  PROVE  /\ Covers(trees, trees)
         /\ Covers(trees, after) /\ Covers(after, later) => Covers(trees, later)
BY DEF Covers

LEMMA JoinedCovers ==
  ASSUME NEW trees, NEW c
  PROVE  Covers(trees, Joined(trees, c))
<1> DEFINE Apart(t) == t[1] \notin Adds(trees, c) \/ {c.u, c.v} \cap t[2] = {}
           whole(d) == <<d, UNION { t[2] : t \in { m \in trees : m[1] = d /\ ~Apart(m) } }>>
<1>1. Joined(trees, c) = { t \in trees : Apart(t) } \cup { whole(d) : d \in Adds(trees, c) }
  BY DEF Joined
<1>2. ASSUME NEW t \in trees
      PROVE  \E m \in Joined(trees, c) : m[1] = t[1] /\ t[2] \subseteq m[2]
  <2>1. CASE Apart(t)
    BY <1>1, <2>1
  <2>2. CASE ~Apart(t)
    <3>1. t[1] \in Adds(trees, c)
      BY <2>2
    <3>2. whole(t[1]) \in Joined(trees, c)
      BY <1>1, <3>1
    <3>3. whole(t[1])[1] = t[1] /\ t[2] \subseteq whole(t[1])[2]
      BY <2>2
    <3> QED
      BY ONLY <3>2, <3>3
  <2> QED
    BY <2>1, <2>2
<1> QED
  BY <1>2 DEF Covers

(* So a condition adds to no more of the DVs than it did.                  *)
LEMMA AddsFewer ==
  ASSUME NEW trees, NEW after, Covers(trees, after), NEW c
  PROVE  Adds(after, c) \subseteq Adds(trees, c)
<1> SUFFICES ASSUME NEW d \in c.dvs, NEW t \in trees, t[1] = d, c.u \in t[2], c.v \in t[2]
             PROVE  \E m \in after : m[1] = d /\ c.u \in m[2] /\ c.v \in m[2]
  BY DEF Adds
<1> QED
  BY DEF Covers

-----------------------------------------------------------------------------
(* The groups a walk over members makes, member by member.                 *)
Group == [base : Int, n : Int]

Grouped(done, i, width, offset) ==
  IF done # << >> /\ i < Last(done).base + width
  THEN Front(done) \o <<[Last(done) EXCEPT !.n = @ + 1]>>
  ELSE Append(done, [base |-> Base(i, width, offset), n |-> 1])

LEMMA GroupedFacts ==
  ASSUME NEW done \in Seq(Group), NEW i \in Int, NEW width \in Int, NEW offset \in Int
  PROVE  /\ Grouped(done, i, width, offset) \in Seq(Group)
         /\ Len(done) <= Len(Grouped(done, i, width, offset))
         /\ 1 <= Len(Grouped(done, i, width, offset))
<1>1. Base(i, width, offset) \in Int
  <2>1. PICK m \in Int : m = SCHEDULE - width - offset
    BY SlotsAssumption
  <2>2. Min({i, m}) \in Int
    BY MinOfTwo
  <2> QED
    BY <2>1, <2>2 DEF Base
<1>2. CASE done # << >> /\ i < Last(done).base + width
  <2>1. PICK e \in Group : e = Last(done)
    BY <1>2 DEF Last
  <2>2. [e EXCEPT !.n = @ + 1] \in Group
    BY DEF Group
  <2>3. PICK x \in Group : x = [Last(done) EXCEPT !.n = @ + 1]
    BY <2>1, <2>2
  <2>4. Front(done) \in Seq(Group) /\ Len(Front(done)) = Len(done) - 1 /\ Len(done) \in Nat /\ Len(done) # 0
    <3>1. PICK n \in Nat : Len(done) = n + 1 /\ Len(done) - 1 = n
      <4>1. Len(done) - 1 \in Nat /\ Len(done) = (Len(done) - 1) + 1
        BY <1>2
      <4> QED
        BY <4>1
    <3>2. SubSeq(done, 1, n) \in Seq(Group) /\ Len(SubSeq(done, 1, n)) = n
      BY <3>1
    <3> QED
      BY <3>1, <3>2 DEF Front
  <2>5. PICK front \in Seq(Group) : front = Front(done) /\ Len(front) = Len(done) - 1
    BY <2>4
  <2>6. front \o <<x>> \in Seq(Group) /\ Len(front \o <<x>>) = Len(front) + 1
    OBVIOUS
  <2>7. Grouped(done, i, width, offset) = front \o <<x>>
    BY <1>2, <2>3, <2>5 DEF Grouped
  <2> QED
    BY <2>4, <2>5, <2>6, <2>7
<1>3. CASE ~(done # << >> /\ i < Last(done).base + width)
  <2>1. PICK x \in Group : x = [base |-> Base(i, width, offset), n |-> 1]
    <3>1. PICK b \in Int : b = Base(i, width, offset)
      BY <1>1
    <3>2. [base |-> b, n |-> 1] \in Group
      BY DEF Group
    <3> QED
      BY <3>1, <3>2
  <2>2. Grouped(done, i, width, offset) = Append(done, x)
    BY <1>3, <2>1 DEF Grouped
  <2>3. Append(done, x) \in Seq(Group) /\ Len(Append(done, x)) = Len(done) + 1 /\ Len(done) \in Nat
    OBVIOUS
  <2> QED
    BY <2>2, <2>3
<1> QED
  BY <1>2, <1>3

WindowsEq(is, width, offset, it) ==
  it = [u \in SUBSET DOMAIN is |->
         IF u = {} THEN << >> ELSE Grouped(it[u \ {Max(u)}], is[Max(u)], width, offset)]

LEMMA WindowsRuns ==
  ASSUME NEW is, NEW width, NEW offset
  PROVE  WindowsOf(is, width, offset) = (CHOOSE it : WindowsEq(is, width, offset, it))[DOMAIN is]
BY Zenon DEF WindowsOf, FoldLeft, MapThenFoldSet, WindowsEq, Grouped

Windowed(is, width, offset, f) ==
  /\ f[0] = << >>
  /\ \A k \in 1 .. Len(is) : f[k] = Grouped(f[k - 1], is[k], width, offset)
  /\ WindowsOf(is, width, offset) = f[Len(is)]

LEMMA WindowsWalk ==
  ASSUME NEW is \in Seq(Int), NEW width \in Int, NEW offset \in Int
  PROVE  \E f \in [0 .. Len(is) -> Seq(Group)] : Windowed(is, width, offset, f)
<1> DEFINE V == Seq(Group)
           n == Len(is)
           S == 1 .. n
           ch == Latest(n)
           op == [m \in S \X V |-> Grouped(m[2], is[m[1]], width, offset)]
           it == CHOOSE jt : WindowsEq(is, width, offset, jt)
<1>1. n \in Nat /\ DOMAIN is = S /\ \A k \in S : is[k] \in Int
  OBVIOUS
<1>2. << >> \in V
  OBVIOUS
<1>3. \A u \in SUBSET S : ch[u] = Max(u)
  BY DEF Latest
<1> HIDE DEF ch, n
<1>4. IsFiniteSet(S) /\ \A u \in SUBSET S : u # {} => Max(u) \in u
  BY <1>1, Positions
<1>5. ASSUME NEW k \in S, NEW done \in V PROVE Grouped(done, is[k], width, offset) \in V
  BY <1>1, GroupedFacts
<1> HIDE DEF S, V
<1>6. op \in [S \X V -> V] /\ \A k \in S, done \in V : op[<<k, done>>] = Grouped(done, is[k], width, offset)
  <2>1. \A m \in S \X V : m[1] \in S /\ m[2] \in V
    OBVIOUS
  <2>2. \A m \in S \X V : Grouped(m[2], is[m[1]], width, offset) \in V
    BY <1>5, <2>1
  <2> QED
    BY <2>2
<1> HIDE DEF op
<1>7. \A u \in SUBSET S : u # {} => ch[u] \in u
  BY <1>3, <1>4
<1>8. \E g \in [SUBSET S -> V] : Follows(S, ch, V, << >>, op, g)
  <2>1. PICK none \in V : none = << >>
    BY <1>2
  <2>2. \E g \in [SUBSET S -> V] : Follows(S, ch, V, none, op, g)
    BY ONLY <1>4, <1>6, <1>7, FollowsExists
  <2> QED
    BY ONLY <2>1, <2>2
<1>9. PICK g \in [SUBSET S -> V] : Follows(S, ch, V, << >>, op, g)
  BY <1>8
<1>10. WindowsEq(is, width, offset, g)
  <2>1. ASSUME NEW u \in SUBSET S, u # {}
        PROVE  g[u] = Grouped(g[u \ {Max(u)}], is[Max(u)], width, offset)
    <3>1. ch[u] = Max(u) /\ ch[u] \in S /\ u \ {ch[u]} \in SUBSET S
      BY <1>3, <1>4, <2>1
    <3>2. g[u \ {ch[u]}] \in V
      BY <3>1
    <3>3. g[u] = op[<<ch[u], g[u \ {ch[u]}]>>]
      BY <1>9, <2>1, <3>2 DEF Follows
    <3> QED
      BY <1>6, <3>1, <3>2, <3>3
  <2>2. g[{}] = << >>
    BY <1>9 DEF Follows
  <2>3. g = [u \in SUBSET S |-> g[u]]
    OBVIOUS
  <2> QED
    BY ONLY <1>1, <2>1, <2>2, <2>3 DEF WindowsEq
<1>11. WindowsEq(is, width, offset, it)
  BY <1>10
<1> HIDE DEF it
<1>12. Follows(S, ch, V, << >>, op, it)
  <2>1. it = [u \in SUBSET S |->
               IF u = {} THEN << >> ELSE Grouped(it[u \ {Max(u)}], is[Max(u)], width, offset)]
    BY <1>1, <1>11 DEF WindowsEq
  <2>2. ASSUME NEW u \in SUBSET S, u # {}, it[u \ {ch[u]}] \in V
        PROVE  it[u] = op[<<ch[u], it[u \ {ch[u]}]>>]
    <3>1. ch[u] = Max(u) /\ ch[u] \in S
      BY <1>3, <1>4, <2>2
    <3>2. it[u] = Grouped(it[u \ {Max(u)}], is[Max(u)], width, offset)
      BY <2>1, <2>2
    <3> QED
      BY <1>6, <2>2, <3>1, <3>2
  <2>3. it = [u \in SUBSET S |-> it[u]]
    BY <2>1
  <2>4. it[{}] = << >>
    BY <2>1
  <2> QED
    BY ONLY <1>2, <1>4, <1>6, <1>7, <2>2, <2>3, <2>4 DEF Follows
<1>13. PICK f \in [0 .. n -> V] : Steps(n, << >>, op, f) /\ it[1 .. n] = f[n]
  <2>1. Follows(1 .. n, Latest(n), V, << >>, op, it)
    BY <1>12 DEF S, ch
  <2> QED
    BY ONLY <1>1, <2>1, SeqWalks
<1>14. ASSUME NEW k \in S PROVE f[k] = Grouped(f[k - 1], is[k], width, offset)
  <2>1. k - 1 \in 0 .. n /\ f[k - 1] \in V
    BY <1>1, <1>13 DEF S
  <2>2. f[k] = op[<<k, f[k - 1]>>]
    BY <1>13 DEF Steps, S
  <2> QED
    BY <1>6, <2>1, <2>2
<1>15. WindowsOf(is, width, offset) = it[S]
  BY <1>1, WindowsRuns DEF it
<1>16. Windowed(is, width, offset, f)
  BY <1>13, <1>14, <1>15 DEF Windowed, Steps, S, n
<1> QED
  BY <1>16 DEF V, n

(* One member more makes no fewer groups.                                  *)
LEMMA WindowsGrow ==
  ASSUME NEW is \in Seq(Int), NEW i \in Int, NEW width \in Int, NEW offset \in Int
  PROVE  /\ WindowsOf(is, width, offset) \in Seq(Group)
         /\ WindowsOf(Append(is, i), width, offset) = Grouped(WindowsOf(is, width, offset), i, width, offset)
<1> DEFINE n == Len(is)
           more == Append(is, i)
<1>1. more \in Seq(Int) /\ Len(more) = n + 1 /\ more[n + 1] = i /\ \A k \in 1 .. n : more[k] = is[k]
  OBVIOUS
<1>2. n \in Nat
  OBVIOUS
<1>3. PICK f \in [0 .. Len(is) -> Seq(Group)] : Windowed(is, width, offset, f)
  BY WindowsWalk
<1> HIDE DEF more
<1>4. PICK g \in [0 .. Len(more) -> Seq(Group)] : Windowed(more, width, offset, g)
  BY <1>1, WindowsWalk
<1> DEFINE Same == { k \in 0 .. n : f[k] = g[k] }
<1>5. 0 \in Same
  BY <1>3, <1>4 DEF Windowed
<1>6. ASSUME NEW k \in 0 .. n - 1, k \in Same PROVE k + 1 \in Same
  <2>1. PICK j : j = k + 1 /\ j \in 1 .. n /\ j - 1 = k /\ j \in 0 .. n /\ j \in 1 .. n + 1
    BY <1>2
  <2>2. f[j] = Grouped(f[j - 1], is[j], width, offset)
    BY <1>3, <2>1 DEF Windowed
  <2>3. g[j] = Grouped(g[j - 1], more[j], width, offset)
    BY <1>1, <1>4, <2>1 DEF Windowed
  <2>4. f[k] = g[k] /\ more[j] = is[j]
    BY <1>1, <1>6, <2>1
  <2>5. f[j] = g[j]
    BY ONLY <2>1, <2>2, <2>3, <2>4
  <2> QED
    BY <2>1, <2>5
<1>7. n \in Same
  <2> HIDE DEF Same, n
  <2>1. 0 .. n \subseteq Same
    BY ONLY <1>2, <1>5, <1>6, UpTo
  <2> QED
    BY <1>2, <2>1
<1>8. g[n + 1] = Grouped(g[n], i, width, offset)
  <2>1. n + 1 \in 1 .. Len(more) /\ (n + 1) - 1 = n
    BY <1>1, <1>2
  <2> QED
    BY <1>1, <1>4, <2>1 DEF Windowed
<1>9. WindowsOf(is, width, offset) = f[n] /\ WindowsOf(more, width, offset) = g[n + 1]
  BY <1>1, <1>3, <1>4 DEF Windowed
<1>10. f[n] \in Seq(Group)
  BY <1>2, <1>3, SMTT(30)
<1> QED
  BY <1>7, <1>8, <1>9, <1>10 DEF more

LEMMA CostGrows ==
  ASSUME NEW C \in SUBSET Cond, NEW g \in Seq(C), NEW c \in C, NEW width \in Int
  PROVE  /\ Cost(Append(g, c), width) \in Nat /\ 1 <= Cost(Append(g, c), width)
         /\ g # << >> => Cost(g, width) <= Cost(Append(g, c), width)
<1> DEFINE more == Append(g, c)
           is(unit) == [n \in DOMAIN unit |-> I(unit[n])]
<1>1. ASSUME NEW unit \in Seq(C), NEW k \in DOMAIN unit PROVE I(unit[k]) \in Int /\ Gap(unit[k]) \in Int
  <2>1. unit[k] \in Cond
    OBVIOUS
  <2> QED
    BY <2>1, NumbersOf DEF Gap
<1>2. ASSUME NEW unit \in Seq(C)
      PROVE  is(unit) \in Seq(Int) /\ Len(is(unit)) = Len(unit) /\ \A k \in 1 .. Len(unit) : is(unit)[k] = I(unit[k])
  BY <1>1, SMTT(30)
<1>3. /\ more \in Seq(C) /\ Len(more) = Len(g) + 1 /\ more[Len(g) + 1] = c
      /\ \A k \in 1 .. Len(g) : more[k] = g[k]
  OBVIOUS
<1>4. I(c) \in Int
  BY NumbersOf
<1>5. is(more) = Append(is(g), I(c))
  <2> HIDE DEF more, is
  <2>1. PICK s \in Seq(Int), t \in Seq(Int) : s = is(more) /\ t = is(g)
    BY <1>2, <1>3
  <2>2. Len(s) = Len(g) + 1 /\ Len(t) = Len(g) /\ Len(g) \in Nat
    BY <1>2, <1>3, <2>1, SMTT(30)
  <2>3. s[Len(g) + 1] = I(c) /\ \A k \in 1 .. Len(g) : s[k] = t[k]
    BY <1>2, <1>3, <2>1
  <2>4. s = Append(t, I(c))
    BY <1>4, <2>2, <2>3
  <2> QED
    BY <2>1, <2>4
<1>6. is(g) \in Seq(Int)
  BY <1>2
<1>7. Gap(more[1]) \in Int /\ (g # << >> => more[1] = g[1])
  <2>1. 1 \in DOMAIN more
    BY <1>3
  <2>2. Gap(more[1]) \in Int
    BY <1>1, <1>3, <2>1
  <2>3. g # << >> => 1 \in 1 .. Len(g)
    OBVIOUS
  <2> QED
    BY <1>3, <2>2, <2>3
<1>8. PICK offset \in Int : offset = Gap(more[1])
  BY <1>7
<1>9. /\ WindowsOf(is(g), width, offset) \in Seq(Group)
      /\ WindowsOf(Append(is(g), I(c)), width, offset) = Grouped(WindowsOf(is(g), width, offset), I(c), width, offset)
  BY <1>4, <1>6, <1>8, WindowsGrow
<1> HIDE DEF is
<1>10. PICK done \in Seq(Group) : done = WindowsOf(is(g), width, offset)
  BY <1>9
<1>11. PICK after \in Seq(Group) : after = Grouped(done, I(c), width, offset) /\ Len(done) <= Len(after) /\ 1 <= Len(after)
  BY <1>4, <1>8, GroupedFacts
<1>12. Cost(more, width) = Len(after)
  BY <1>5, <1>8, <1>9, <1>10, <1>11 DEF Cost, is
<1>13. g # << >> => Cost(g, width) = Len(done)
  BY <1>7, <1>8, <1>10 DEF Cost, is
<1>14. Len(done) \in Nat /\ Len(after) \in Nat
  OBVIOUS
<1> QED
  BY <1>11, <1>12, <1>13, <1>14

LEMMA CostType ==
  ASSUME NEW C \in SUBSET Cond, NEW g \in Seq(C), g # << >>, NEW width \in Int
  PROVE  Cost(g, width) \in Nat /\ 1 <= Cost(g, width)
<1>1. PICK n \in Nat : Len(g) = n + 1
  <2>1. Len(g) - 1 \in Nat /\ Len(g) = (Len(g) - 1) + 1
    OBVIOUS
  <2> QED
    BY <2>1
<1>2. PICK r \in Seq(C), c \in C : g = Append(r, c)
  <2>1. SubSeq(g, 1, n) \in Seq(C) /\ g[n + 1] \in C /\ g = Append(SubSeq(g, 1, n), g[n + 1])
    BY <1>1
  <2> QED
    BY <2>1
<1> QED
  BY <1>2, CostGrows

-----------------------------------------------------------------------------
(* A lane raises only what its options hit, and only for a lower score.    *)
Moves(target, options, f, h) ==
  /\ f.ranks \in Ranks /\ h.ranks \in Ranks
  /\ f.score = Score(target, f.ranks) /\ h.score = Score(target, h.ranks)
  /\ \A d \in Dv : h.ranks[d] <= f.ranks[d] + IF d \in Hits(f.trees, options) THEN 1 ELSE 0
  /\ Covers(f.trees, h.trees)
  /\ \/ f = h
     \/ h.score < f.score /\ \E c \in options : h.group = Append(f.group, c)

LEMMA PickMoves ==
  ASSUME NEW target, NEW base \in Seq(Cond), NEW C \in SUBSET Cond, NEW g \in Seq(C),
         NEW options \in SUBSET C, IsFiniteSet(options)
  PROVE  Moves(target, options, FillAt(target, base, g), PickLane(target, FillAt(target, base, g), options))
<1> DEFINE f == FillAt(target, base, g)
           h == PickLane(target, f, options)
<1> SUFFICES Moves(target, options, f, h)
  OBVIOUS
<1>1. h \in Picked(target, base, g, options)
  BY PickIs
<1>2. g \in Seq(Cond) /\ f.group = g
  BY DEF FillAt
<1>3. ASSUME NEW u \in Seq(Cond)
      PROVE  FillAt(target, base, u).ranks \in Ranks /\ FillAt(target, base, u).score = Score(target, FillAt(target, base, u).ranks)
  <2>1. base \o u \in Seq(Cond)
    OBVIOUS
  <2>2. StateAfter(base \o u).ranks \in Ranks
    BY <2>1, StateFacts
  <2> QED
    BY <2>2 DEF FillAt
<1>4. CASE h = f
  <2>1. \A d \in Dv : f.ranks[d] <= f.ranks[d] + IF d \in Hits(f.trees, options) THEN 1 ELSE 0
    <3>1. \A d \in Dv : f.ranks[d] \in Nat
      BY <1>2, <1>3 DEF Ranks
    <3> HIDE DEF f
    <3> QED
      BY <3>1
  <2>2. Covers(f.trees, f.trees)
    BY CoversFacts
  <2>3. f.ranks \in Ranks /\ f.score = Score(target, f.ranks)
    BY <1>2, <1>3
  <2> HIDE DEF f, h
  <2>4. Moves(target, options, f, f)
    BY ONLY <2>1, <2>2, <2>3 DEF Moves
  <2> QED
    BY ONLY <1>4, <2>4
<1>5. CASE h # f
  <2>1. PICK c \in options : h = FillAt(target, base, Append(g, c)) /\ h.score < f.score
    BY <1>1, <1>5 DEF Picked
  <2> HIDE DEF h
  <2>2. c \in Cond /\ Append(g, c) \in Seq(Cond)
    BY <1>2
  <2>3. h.ranks \in Ranks /\ h.score = Score(target, h.ranks) /\ h.group = Append(g, c)
    BY <1>3, <2>1, <2>2 DEF FillAt
  <2>4. PICK ranks, trees : ranks = f.ranks /\ trees = f.trees
    OBVIOUS
  <2>5. h.ranks = PlusGained(ranks, Adds(trees, c)) /\ h.trees = Joined(trees, c)
    <3>1. [group |-> Append(f.group, c), trees |-> Joined(f.trees, c),
           ranks |-> PlusGained(f.ranks, Adds(f.trees, c)), score |-> Score(target, PlusGained(f.ranks, Adds(f.trees, c)))]
             = FillAt(target, base, Append(g, c))
      BY <1>2, <2>2, FillGrows
    <3> HIDE DEF f
    <3> QED
      BY ONLY <2>1, <2>4, <3>1
  <2>6. ASSUME NEW d \in Dv
        PROVE  h.ranks[d] <= ranks[d] + IF d \in Hits(trees, options) THEN 1 ELSE 0
    <3>1. d \in Adds(trees, c) => d \in Hits(trees, options)
      BY DEF Hits
    <3>2. ranks[d] \in Nat
      BY <1>2, <1>3, <2>4 DEF Ranks
    <3>3. h.ranks[d] = IF d \in Adds(trees, c) THEN ranks[d] + 1 ELSE ranks[d]
      BY <2>5 DEF PlusGained
    <3> QED
      BY ONLY <3>1, <3>2, <3>3
  <2>7. Covers(trees, h.trees)
    BY <2>5, JoinedCovers
  <2>8. f.ranks \in Ranks /\ f.score = Score(target, f.ranks)
    BY <1>2, <1>3
  <2>9. h.score < f.score /\ h.group = Append(f.group, c)
    BY <1>2, <2>1, <2>3
  <2> HIDE DEF f
  <2> QED
    BY ONLY <2>3, <2>4, <2>6, <2>7, <2>8, <2>9, c \in options DEF Moves
<1> QED
  BY <1>4, <1>5

-----------------------------------------------------------------------------
(* A fill that no bound stops.                                             *)
Runs(target, base, C, lanes, f) ==
  /\ f[0] = FillAt(target, base, << >>)
  /\ \A k \in 0 .. Len(lanes) : \E g \in Seq(C) : f[k] = FillAt(target, base, g)
  /\ \A k \in 1 .. Len(lanes) : f[k] = PickLane(target, f[k - 1], lanes[k])

Ends(target, base, C, grouped, lanes, f) ==
  /\ Runs(target, base, C, lanes, f)
  /\ Fill(target, FillAt(target, base, << >>), grouped, Infinity, lanes) =
       IF f[Len(lanes)].group = << >> THEN None ELSE f[Len(lanes)]

LEMMA SomeFill ==
  ASSUME NEW target, NEW base, NEW g
  PROVE  FillAt(target, base, g) # None
<1>1. DOMAIN None = {"group"}
  BY DEF None
<1>2. "score" \in DOMAIN FillAt(target, base, g)
  BY DEF FillAt
<1>3. "score" # "group"
  OBVIOUS
<1> QED
  BY ONLY <1>1, <1>2, <1>3

LEMMA FullRuns ==
  ASSUME NEW target, NEW base \in Seq(Cond), NEW C \in SUBSET Cond, NEW grouped, NEW lanes, LanesOf(C, lanes)
  PROVE  \E f \in [0 .. Len(lanes) -> Fillings(target, base, C)] : Ends(target, base, C, grouped, lanes, f)
<1> DEFINE start == FillAt(target, base, << >>)
           n == Len(lanes)
<1>1. PICK f \in [0 .. n -> Fillings(target, base, C)] : Laned(target, start, grouped, Infinity, lanes, f)
  BY FillWalks
<1>2. \A g, k : ~GivesUp(target, start, grouped, Infinity, lanes, g, k)
  <2>1. ~(Infinity < Infinity)
    BY InfinityAssumption
  <2> QED
    BY <2>1 DEF GivesUp
<1>3. n \in Nat
  BY DEF LanesOf
<1> HIDE DEF start, n
<1>4. ASSUME NEW k \in 1 .. n, f[k - 1] # None PROVE f[k] = PickLane(target, f[k - 1], lanes[k])
  BY <1>1, <1>2, <1>4 DEF Laned, n
<1>5. ASSUME NEW k \in 0 .. n, f[k] # None PROVE \E g \in Seq(C) : f[k] = FillAt(target, base, g)
  BY <1>5 DEF Fillings
<1>6. f[0] = start
  BY <1>1 DEF Laned
<1> DEFINE T == { k \in 0 .. n : f[k] # None }
<1>7. 0 \in T
  BY <1>3, <1>6, SomeFill DEF start
<1>8. ASSUME NEW k \in 0 .. n - 1, k \in T PROVE k + 1 \in T
  <2>1. PICK j : j = k + 1 /\ j \in 1 .. n /\ j - 1 = k /\ k \in 0 .. n /\ j \in 0 .. n
    BY <1>3
  <2>2. f[k] # None
    BY <1>8
  <2>3. PICK g \in Seq(C) : f[k] = FillAt(target, base, g)
    BY <1>5, <2>1, <2>2
  <2>4. lanes[j] \in SUBSET C /\ IsFiniteSet(lanes[j])
    BY <2>1 DEF LanesOf, n
  <2>5. f[j] = PickLane(target, FillAt(target, base, g), lanes[j])
    BY <1>4, <2>1, <2>2, <2>3
  <2>6. f[j] \in Picked(target, base, g, lanes[j])
    BY <2>4, <2>5, PickIs
  <2>7. f[j] # None
    BY <2>6, SomeFill DEF Picked
  <2> QED
    BY <2>1, <2>7
<1>9. \A k \in 0 .. n : f[k] # None
  <2>1. 0 .. n \subseteq T
    <3> HIDE DEF T
    <3> QED
      BY ONLY <1>3, <1>7, <1>8, UpTo
  <2> QED
    BY <2>1
<1>10. \A k \in 1 .. n : k - 1 \in 0 .. n
  BY <1>3
<1>11. Runs(target, base, C, lanes, f)
  BY <1>4, <1>5, <1>6, <1>9, <1>10 DEF Runs, start, n
<1>12. Fill(target, start, grouped, Infinity, lanes) = IF f[n].group = << >> THEN None ELSE f[n]
  BY <1>1 DEF Laned, n
<1>13. Ends(target, base, C, grouped, lanes, f)
  BY <1>11, <1>12 DEF Ends, start, n
<1> QED
  BY <1>13 DEF n

LEMMA RunsMove ==
  ASSUME NEW target, NEW base \in Seq(Cond), NEW C \in SUBSET Cond, NEW lanes, LanesOf(C, lanes),
         NEW f, Runs(target, base, C, lanes, f)
  PROVE  \A k \in 1 .. Len(lanes) : Moves(target, lanes[k], f[k - 1], f[k])
<1> SUFFICES ASSUME NEW k \in 1 .. Len(lanes) PROVE Moves(target, lanes[k], f[k - 1], f[k])
  OBVIOUS
<1>1. k - 1 \in 0 .. Len(lanes)
  BY DEF LanesOf
<1>2. PICK g \in Seq(C) : f[k - 1] = FillAt(target, base, g)
  BY <1>1 DEF Runs
<1>3. lanes[k] \in SUBSET C /\ IsFiniteSet(lanes[k])
  BY DEF LanesOf
<1>4. f[k] = PickLane(target, FillAt(target, base, g), lanes[k])
  BY <1>2 DEF Runs
<1> QED
  BY <1>2, <1>3, <1>4, PickMoves

LEMMA RunsCover ==
  ASSUME NEW target, NEW base \in Seq(Cond), NEW C \in SUBSET Cond, NEW lanes, LanesOf(C, lanes),
         NEW f, Runs(target, base, C, lanes, f)
  PROVE  \A k \in 0 .. Len(lanes) : Covers(f[0].trees, f[k].trees)
<1> DEFINE n == Len(lanes)
           S == { k \in 0 .. n : Covers(f[0].trees, f[k].trees) }
<1>1. n \in Nat
  BY DEF LanesOf
<1> HIDE DEF n
<1>2. 0 \in S
  BY <1>1, CoversFacts
<1>3. ASSUME NEW k \in 0 .. n - 1, k \in S PROVE k + 1 \in S
  <2>1. PICK j : j = k + 1 /\ j \in 1 .. n /\ j - 1 = k /\ j \in 0 .. n
    BY <1>1
  <2>2. Moves(target, lanes[j], f[j - 1], f[j])
    BY <2>1, RunsMove DEF n
  <2>3. Covers(f[k].trees, f[j].trees)
    BY <2>1, <2>2 DEF Moves
  <2>4. Covers(f[0].trees, f[k].trees)
    BY <1>3
  <2>5. Covers(f[0].trees, f[j].trees)
    BY <2>3, <2>4, CoversFacts
  <2> QED
    BY <2>1, <2>5
<1>4. 0 .. n \subseteq S
  <2> HIDE DEF S
  <2> QED
    BY ONLY <1>1, <1>2, <1>3, UpTo
<1> QED
  BY <1>4 DEF n

-----------------------------------------------------------------------------
(* A rank is the higher the less is gained, and the more it costs.         *)
LEMMA Halves ==
  ASSUME NEW n \in Nat, 1 <= n
  PROVE  2 \div n = IF n = 1 THEN 2 ELSE IF n = 2 THEN 1 ELSE 0
<1>1. CASE n = 1
  BY <1>1
<1>2. CASE n = 2
  BY <1>2
<1>3. CASE n > 2
  BY <1>3
<1> QED
  BY <1>1, <1>2, <1>3

LEMMA RankGrows ==
  ASSUME NEW grouped, NEW before \in Int, NEW low \in Int, NEW score \in Int, low <= score, score <= before,
         NEW m \in Nat, NEW n \in Nat, 1 <= m, m <= n
  PROVE  /\ Rank(grouped, before, low, m) \in Int /\ Rank(grouped, before, score, n) \in Int
         /\ Rank(grouped, before, low, m) <= Rank(grouped, before, score, n)
<1>1. PICK k \in Nat, l \in Nat : k = before - score /\ l = before - low /\ k <= l
  <2>1. before - score \in Nat /\ before - low \in Nat /\ before - score <= before - low
    OBVIOUS
  <2> QED
    BY <2>1
<1>2. PICK i \in Nat, j \in Nat : i = 2 \div n /\ j = 2 \div m /\ i <= j
  <2>1. 1 <= n
    OBVIOUS
  <2>2. 2 \div n = (IF n = 1 THEN 2 ELSE IF n = 2 THEN 1 ELSE 0) /\ 2 \div m = IF m = 1 THEN 2 ELSE IF m = 2 THEN 1 ELSE 0
    BY <2>1, Halves
  <2>3. 2 \div n \in Nat /\ 2 \div m \in Nat /\ 2 \div n <= 2 \div m
    BY <2>2
  <2> QED
    BY <2>3
<1>3. k * i \in Nat /\ l * j \in Nat /\ k * i <= l * j
  BY <1>1, <1>2, Product
<1>4. Rank(grouped, before, low, m) = (IF grouped THEN 0 - l * j ELSE low)
  <2>1. Rank(grouped, before, low, m) = IF grouped THEN 0 - (before - low) * (2 \div m) ELSE low
    BY DEF Rank
  <2> QED
    BY ONLY <1>1, <1>2, <2>1
<1>5. Rank(grouped, before, score, n) = (IF grouped THEN 0 - k * i ELSE score)
  <2>1. Rank(grouped, before, score, n) = IF grouped THEN 0 - (before - score) * (2 \div n) ELSE score
    BY DEF Rank
  <2> QED
    BY ONLY <1>1, <1>2, <2>1
<1>6. PICK x \in Nat, y \in Nat : x = k * i /\ y = l * j /\ x <= y
  BY <1>3
<1>7. CASE grouped
  BY <1>4, <1>5, <1>6, <1>7
<1>8. CASE ~grouped
  BY <1>4, <1>5, <1>8
<1> QED
  BY <1>7, <1>8

(* Along a fill the score falls and the cost grows, and what the lanes that *)
(* are left could reach never gets better.                                 *)
SpentOn(f, width) == IF f.group = << >> THEN 1 ELSE Cost(f.group, width)

LowAfter(target, lanes, f, k) == Low(target, f[k].ranks, f[0].trees, lanes, k + 1)

LEMMA RunsRise ==
  ASSUME NEW target \in Params, NEW base \in Seq(Cond), NEW C \in SUBSET Cond, NEW lanes, LanesOf(C, lanes),
         NEW f, Runs(target, base, C, lanes, f), NEW k \in 1 .. Len(lanes)
  PROVE  /\ LowAfter(target, lanes, f, k - 1) \in Int /\ LowAfter(target, lanes, f, k) \in Int
         /\ LowAfter(target, lanes, f, k - 1) <= LowAfter(target, lanes, f, k)
         /\ SpentOn(f[k - 1], target.width) \in Nat /\ SpentOn(f[k], target.width) \in Nat
         /\ SpentOn(f[k - 1], target.width) <= SpentOn(f[k], target.width)
         /\ 1 <= SpentOn(f[k - 1], target.width)
         /\ f[k - 1].score \in Int /\ f[k].score \in Int
         /\ f[k] = f[k - 1] \/ (f[k].group # << >> /\ f[k].score < f[k - 1].score)
<1> DEFINE j == k - 1
<1>1. j \in 0 .. Len(lanes) /\ j \in Nat /\ k \in Nat /\ k + 1 \in Nat /\ j + 1 = k /\ Len(lanes) \in Nat
  BY DEF LanesOf
<1> SUFFICES /\ LowAfter(target, lanes, f, j) \in Int /\ LowAfter(target, lanes, f, k) \in Int
             /\ LowAfter(target, lanes, f, j) <= LowAfter(target, lanes, f, k)
             /\ SpentOn(f[j], target.width) \in Nat /\ SpentOn(f[k], target.width) \in Nat
             /\ SpentOn(f[j], target.width) <= SpentOn(f[k], target.width)
             /\ 1 <= SpentOn(f[j], target.width)
             /\ f[j].score \in Int /\ f[k].score \in Int
             /\ f[k] = f[j] \/ (f[k].group # << >> /\ f[k].score < f[j].score)
  OBVIOUS
<1>2. Moves(target, lanes[k], f[j], f[k])
  BY RunsMove
<1>3. Covers(f[0].trees, f[j].trees)
  BY <1>1, RunsCover
<1>4. PICK g \in Seq(C) : f[j] = FillAt(target, base, g)
  BY <1>1 DEF Runs
<1>5. f[j].group = g
  BY <1>4 DEF FillAt
<1>6. target.width \in Int
  BY SlotsAssumption
<1>7. lanes[k] \in SUBSET C
  BY DEF LanesOf
<1> HIDE DEF j
<1>8. f[j].ranks \in Ranks /\ f[k].ranks \in Ranks
  BY <1>2 DEF Moves
<1>9. f[j].score \in Int /\ f[k].score \in Int
  BY <1>2, <1>8, ScoreType DEF Moves
<1>10. LowAfter(target, lanes, f, j) \in Int /\ LowAfter(target, lanes, f, k) \in Int /\ LowAfter(target, lanes, f, j) <= LowAfter(target, lanes, f, k)
  <2>0. PICK trees : trees = f[0].trees
    OBVIOUS
  <2>0a. PICK r \in Ranks : r = f[j].ranks
    BY <1>8
  <2>0b. PICK s \in Ranks : s = f[k].ranks
    BY <1>8
  <2>1. r = f[j].ranks /\ s = f[k].ranks /\ trees = f[0].trees
    BY <2>0, <2>0a, <2>0b
  <2>2. ASSUME NEW d \in Dv PROVE s[d] <= r[d] + IF d \in Hits(trees, lanes[k]) THEN 1 ELSE 0
    <3>1. s[d] <= r[d] + IF d \in Hits(f[j].trees, lanes[k]) THEN 1 ELSE 0
      BY <1>2, <2>1 DEF Moves
    <3>2. d \in Hits(f[j].trees, lanes[k]) => d \in Hits(trees, lanes[k])
      BY <1>3, <2>1, AddsFewer DEF Hits
    <3>3. r[d] \in Nat /\ s[d] \in Nat
      BY DEF Ranks
    <3> QED
      BY ONLY <3>1, <3>2, <3>3
  <2>3. \A d \in Dv : Reached(s, trees, lanes, k + 1)[d] <= Reached(r, trees, lanes, k)[d]
    BY <2>2, ReachedStep
  <2>4. Reached(s, trees, lanes, k + 1) \in Ranks /\ Reached(r, trees, lanes, k) \in Ranks
    BY <1>1, ReachedType
  <2>5. PICK x \in Ranks, y \in Ranks : x = Reached(s, trees, lanes, k + 1) /\ y = Reached(r, trees, lanes, k)
    BY <2>4
  <2>6. Score(target, y) <= Score(target, x) /\ Score(target, y) \in Int /\ Score(target, x) \in Int
    BY <2>3, <2>5, ScoreFalls
  <2>7. LowAfter(target, lanes, f, j) = Score(target, y)
    BY <1>1, <2>1, <2>5, LowIs DEF LowAfter
  <2>8. LowAfter(target, lanes, f, k) = Score(target, x)
    BY <2>1, <2>5, LowIs DEF LowAfter
  <2> QED
    BY <2>6, <2>7, <2>8
<1>11. SpentOn(f[j], target.width) \in Nat /\ 1 <= SpentOn(f[j], target.width)
  <2>1. g # << >> => Cost(g, target.width) \in Nat /\ 1 <= Cost(g, target.width)
    BY <1>6, CostType
  <2> QED
    BY <1>5, <2>1 DEF SpentOn
<1>12. CASE f[k] = f[j]
  BY <1>9, <1>10, <1>11, <1>12
<1>13. CASE f[k] # f[j]
  <2>1. PICK c \in lanes[k] : f[k].group = Append(g, c)
    BY <1>2, <1>5, <1>13 DEF Moves
  <2>2. f[k].score < f[j].score
    BY <1>2, <1>13 DEF Moves
  <2>3. c \in C
    BY <1>7
  <2>4. Append(g, c) # << >>
    OBVIOUS
  <2>5. /\ Cost(Append(g, c), target.width) \in Nat /\ 1 <= Cost(Append(g, c), target.width)
        /\ g # << >> => Cost(g, target.width) <= Cost(Append(g, c), target.width)
    BY <1>6, <2>3, CostGrows
  <2>6. SpentOn(f[k], target.width) = Cost(Append(g, c), target.width)
    BY <2>1, <2>4 DEF SpentOn
  <2>7. SpentOn(f[j], target.width) = IF g = << >> THEN 1 ELSE Cost(g, target.width)
    BY <1>5 DEF SpentOn
  <2>8. SpentOn(f[k], target.width) \in Nat /\ SpentOn(f[j], target.width) <= SpentOn(f[k], target.width)
    BY <2>5, <2>6, <2>7
  <2> QED
    BY <1>9, <1>10, <1>11, <2>1, <2>2, <2>4, <2>8
<1> QED
  BY <1>12, <1>13

LEMMA RunsEnd ==
  ASSUME NEW target \in Params, NEW base \in Seq(Cond), NEW C \in SUBSET Cond, NEW lanes, LanesOf(C, lanes),
         NEW f, Runs(target, base, C, lanes, f), NEW i \in 0 .. Len(lanes)
  PROVE  LET n == Len(lanes)
         IN /\ LowAfter(target, lanes, f, i) \in Int /\ f[n].score \in Int /\ f[0].score \in Int
            /\ LowAfter(target, lanes, f, i) <= f[n].score
            /\ SpentOn(f[i], target.width) \in Nat /\ SpentOn(f[n], target.width) \in Nat
            /\ 1 <= SpentOn(f[i], target.width)
            /\ SpentOn(f[i], target.width) <= SpentOn(f[n], target.width)
            /\ f[n].group # << >> => f[n].score < f[0].score
<1> DEFINE n == Len(lanes)
           w == target.width
           a == [k \in 0 .. n |-> LowAfter(target, lanes, f, k)]
           b == [k \in 0 .. n |-> SpentOn(f[k], w)]
           T == { k \in 0 .. n : f[k].score <= f[0].score /\ (f[k].group # << >> => f[k].score < f[0].score) }
<1>1. n \in Nat
  BY DEF LanesOf
<1>2. ASSUME NEW k \in 1 .. n
      PROVE  /\ LowAfter(target, lanes, f, k - 1) \in Int /\ LowAfter(target, lanes, f, k) \in Int
             /\ LowAfter(target, lanes, f, k - 1) <= LowAfter(target, lanes, f, k)
             /\ SpentOn(f[k - 1], w) \in Nat /\ SpentOn(f[k], w) \in Nat
             /\ SpentOn(f[k - 1], w) <= SpentOn(f[k], w)
             /\ 1 <= SpentOn(f[k - 1], w)
             /\ f[k - 1].score \in Int /\ f[k].score \in Int
             /\ f[k] = f[k - 1] \/ (f[k].group # << >> /\ f[k].score < f[k - 1].score)
  BY RunsRise
<1>3. ASSUME NEW k \in 0 .. n
      PROVE  /\ f[k].ranks \in Ranks /\ f[k].score = Score(target, f[k].ranks)
             /\ SpentOn(f[k], w) \in Nat /\ 1 <= SpentOn(f[k], w)
             /\ LowAfter(target, lanes, f, k) \in Int
  <2>1. PICK g \in Seq(C) : f[k] = FillAt(target, base, g)
    BY DEF Runs
  <2>2. g \in Seq(Cond) /\ base \o g \in Seq(Cond)
    OBVIOUS
  <2>3. StateAfter(base \o g).ranks \in Ranks
    BY <2>2, StateFacts
  <2>4. f[k].ranks \in Ranks /\ f[k].score = Score(target, f[k].ranks) /\ f[k].group = g
    BY <2>1, <2>3 DEF FillAt
  <2>5. w \in Int
    BY SlotsAssumption
  <2>6. g # << >> => Cost(g, w) \in Nat /\ 1 <= Cost(g, w)
    BY <2>5, CostType
  <2>7. SpentOn(f[k], w) \in Nat /\ 1 <= SpentOn(f[k], w)
    BY <2>4, <2>6 DEF SpentOn
  <2>8. k + 1 \in Nat
    OBVIOUS
  <2>9a. PICK r \in Ranks : r = f[k].ranks
    BY <2>4
  <2>9b. PICK trees : trees = f[0].trees
    OBVIOUS
  <2>9. r = f[k].ranks /\ trees = f[0].trees
    BY <2>9a, <2>9b
  <2>10. Reached(r, trees, lanes, k + 1) \in Ranks
    BY <2>8, ReachedType
  <2>11. Score(target, Reached(r, trees, lanes, k + 1)) \in Int
    BY <2>10, ScoreType
  <2>12. LowAfter(target, lanes, f, k) \in Int
    BY <2>9, <2>11, LowIs DEF LowAfter
  <2> QED
    BY <2>4, <2>7, <2>12
<1>4. a[i] <= a[n]
  <2>1. a \in [0 .. n -> Int]
    BY <1>3
  <2>2. \A k \in 1 .. n : a[k - 1] <= a[k]
    <3> SUFFICES ASSUME NEW k \in 1 .. n PROVE a[k - 1] <= a[k]
      OBVIOUS
    <3>1. k \in 0 .. n /\ k - 1 \in 0 .. n
      BY <1>1
    <3> QED
      BY <1>2, <3>1
  <2>3. n \in i .. n
    BY <1>1
  <2> HIDE DEF a, n
  <2> QED
    BY <1>1, <2>1, <2>2, <2>3, NeverFalls DEF n
<1>5. b[i] <= b[n]
  <2>1. b \in [0 .. n -> Int]
    BY <1>3
  <2>2. \A k \in 1 .. n : b[k - 1] <= b[k]
    <3> SUFFICES ASSUME NEW k \in 1 .. n PROVE b[k - 1] <= b[k]
      OBVIOUS
    <3>1. k \in 0 .. n /\ k - 1 \in 0 .. n
      BY <1>1
    <3> QED
      BY <1>2, <3>1
  <2>3. n \in i .. n
    BY <1>1
  <2> HIDE DEF b, n
  <2> QED
    BY <1>1, <2>1, <2>2, <2>3, NeverFalls DEF n
<1>6. n \in 0 .. n /\ 0 \in 0 .. n
  BY <1>1
<1>7. LowAfter(target, lanes, f, n) = f[n].score
  <2>1a. PICK r \in Ranks : r = f[n].ranks
    BY <1>3, <1>6
  <2>1b. PICK trees : trees = f[0].trees
    OBVIOUS
  <2>1. r = f[n].ranks /\ trees = f[0].trees
    BY <2>1a, <2>1b
  <2>2. Reached(r, trees, lanes, Len(lanes) + 1) = r
    BY ReachedAtEnd
  <2>3. LowAfter(target, lanes, f, n) = Score(target, r)
    BY <2>1, <2>2, LowIs DEF LowAfter
  <2> QED
    BY <1>3, <1>6, <2>1, <2>3
<1>8. f[n].score \in Int /\ f[0].score \in Int
  BY <1>3, <1>6, ScoreType
<1>9. f[n].group # << >> => f[n].score < f[0].score
  <2>1. 0 \in T
    <3>1. f[0].group = << >>
      BY DEF Runs, FillAt
    <3> QED
      BY <1>6, <1>8, <3>1
  <2>2. ASSUME NEW k \in 0 .. n - 1, k \in T PROVE k + 1 \in T
    <3>1. PICK j : j = k + 1 /\ j \in 1 .. n /\ j - 1 = k /\ j \in 0 .. n /\ k \in 0 .. n
      BY <1>1
    <3>2. f[k].score \in Int /\ f[j].score \in Int /\ (f[j] = f[k] \/ (f[j].group # << >> /\ f[j].score < f[k].score))
      BY <1>2, <3>1
    <3>3. f[k].score <= f[0].score /\ (f[k].group # << >> => f[k].score < f[0].score)
      BY <2>2
    <3>4. f[j].score <= f[0].score /\ (f[j].group # << >> => f[j].score < f[0].score)
      BY <1>8, <3>2, <3>3
    <3> QED
      BY <3>1, <3>4
  <2>3. 0 .. n \subseteq T
    <3> HIDE DEF T, n
    <3> QED
      BY ONLY <1>1, <2>1, <2>2, UpTo
  <2> QED
    BY <1>6, <2>3
<1>10. a[i] = LowAfter(target, lanes, f, i) /\ a[n] = LowAfter(target, lanes, f, n) /\ b[i] = SpentOn(f[i], w) /\ b[n] = SpentOn(f[n], w)
  BY <1>6
<1> HIDE DEF a, b
<1> QED
  BY <1>3, <1>4, <1>5, <1>6, <1>7, <1>8, <1>9, <1>10

(* Where a fill is given up, it would have led to nothing, or to no rank   *)
(* within the cut.                                                         *)
Ranked(target, start, grouped, f) == Rank(grouped, start.score, f.score, Cost(f.group, target.width))

LEMMA GivingUpLosesNothing ==
  ASSUME NEW target \in Params, NEW base \in Seq(Cond), NEW C \in SUBSET Cond, NEW lanes, LanesOf(C, lanes),
         NEW grouped, NEW cut \in Int, NEW f, Runs(target, base, C, lanes, f), NEW k \in 1 .. Len(lanes),
         GivesUp(target, f[0], grouped, cut, lanes, f[k - 1], k)
  PROVE  f[Len(lanes)].group = << >> \/ cut < Ranked(target, f[0], grouped, f[Len(lanes)])
<1> DEFINE n == Len(lanes)
           i == k - 1
           w == target.width
           low == LowAfter(target, lanes, f, i)
<1>0. n \in Nat /\ i \in 0 .. n /\ i + 1 = k
  BY DEF LanesOf
<1> SUFFICES ASSUME f[n].group # << >> PROVE cut < Ranked(target, f[0], grouped, f[n])
  OBVIOUS
<1>1. /\ low \in Int /\ f[n].score \in Int /\ f[0].score \in Int
      /\ low <= f[n].score
      /\ SpentOn(f[i], w) \in Nat /\ SpentOn(f[n], w) \in Nat
      /\ 1 <= SpentOn(f[i], w)
      /\ SpentOn(f[i], w) <= SpentOn(f[n], w)
      /\ f[n].group # << >> => f[n].score < f[0].score
  <2>1. PICK j \in 0 .. Len(lanes) : j = i
    BY <1>0
  <2>2. LET m == Len(lanes)
        IN /\ LowAfter(target, lanes, f, j) \in Int /\ f[m].score \in Int /\ f[0].score \in Int
           /\ LowAfter(target, lanes, f, j) <= f[m].score
           /\ SpentOn(f[j], target.width) \in Nat /\ SpentOn(f[m], target.width) \in Nat
           /\ 1 <= SpentOn(f[j], target.width)
           /\ SpentOn(f[j], target.width) <= SpentOn(f[m], target.width)
           /\ f[m].group # << >> => f[m].score < f[0].score
    BY RunsEnd
  <2> QED
    BY <2>1, <2>2
<1>2. low = Low(target, f[i].ranks, f[0].trees, lanes, k)
  BY <1>0 DEF LowAfter
<1>3. low >= f[0].score \/ Rank(grouped, f[0].score, low, SpentOn(f[i], w)) > cut
  BY <1>2 DEF GivesUp, SpentOn
<1> HIDE DEF low, n, i
<1>4. low < f[0].score /\ f[n].score < f[0].score
  BY <1>1
<1>5. PICK before \in Int, l \in Int, score \in Int, m \in Nat, c \in Nat :
        before = f[0].score /\ l = low /\ score = f[n].score /\ m = SpentOn(f[i], w) /\ c = SpentOn(f[n], w)
  BY <1>1
<1>6. /\ Rank(grouped, before, l, m) \in Int /\ Rank(grouped, before, score, c) \in Int
      /\ Rank(grouped, before, l, m) <= Rank(grouped, before, score, c)
  <2>1. l <= score /\ score <= before /\ 1 <= m /\ m <= c
    BY <1>1, <1>4, <1>5
  <2> QED
    BY ONLY <2>1, RankGrows, before \in Int, l \in Int, score \in Int, m \in Nat, c \in Nat
<1>7. Rank(grouped, before, l, m) > cut
  BY <1>1, <1>3, <1>4, <1>5
<1>8. c = Cost(f[n].group, w)
  BY <1>5 DEF SpentOn
<1>9. cut < Rank(grouped, before, score, c)
  BY ONLY <1>6, <1>7, cut \in Int
<1> QED
  BY <1>5, <1>8, <1>9 DEF Ranked

(* So a bound leaves a fill as it is, or takes one away that does not rank *)
(* within it.                                                              *)
LEMMA CutFill ==
  ASSUME NEW target \in Params, NEW base \in Seq(Cond), NEW C \in SUBSET Cond, NEW lanes, LanesOf(C, lanes),
         NEW grouped, NEW cut \in Int
  PROVE  LET start == FillAt(target, base, << >>)
             full == Fill(target, start, grouped, Infinity, lanes)
             cutShort == Fill(target, start, grouped, cut, lanes)
         IN cutShort = full \/ (cutShort = None /\ full # None /\ cut < Ranked(target, start, grouped, full))
<1> DEFINE start == FillAt(target, base, << >>)
           n == Len(lanes)
           full == Fill(target, start, grouped, Infinity, lanes)
           short == Fill(target, start, grouped, cut, lanes)
<1>0. PICK f \in [0 .. n -> Fillings(target, base, C)] : Ends(target, base, C, grouped, lanes, f)
  BY FullRuns
<1>1. Runs(target, base, C, lanes, f) /\ full = IF f[n].group = << >> THEN None ELSE f[n]
  BY <1>0 DEF Ends
<1>2. PICK g \in [0 .. n -> Fillings(target, base, C)] : Laned(target, start, grouped, cut, lanes, g)
  BY FillWalks
<1>3. n \in Nat
  BY DEF LanesOf
<1>4. f[0] = start
  BY <1>1 DEF Runs
<1> HIDE DEF start, n, full, short
<1> DEFINE Lost == f[n].group = << >> \/ cut < Ranked(target, start, grouped, f[n])
           T == { k \in 0 .. n : g[k] = f[k] \/ (g[k] = None /\ Lost) }
<1>5. 0 \in T
  BY <1>2, <1>3, <1>4 DEF Laned
<1>6. ASSUME NEW k \in 0 .. n - 1, k \in T PROVE k + 1 \in T
  <2>1. PICK j : j = k + 1 /\ j \in 1 .. n /\ j - 1 = k /\ j \in 0 .. n /\ k \in 0 .. n
    BY <1>3
  <2>2. g[j] = IF g[k] = None \/ GivesUp(target, start, grouped, cut, lanes, g[k], j)
               THEN None ELSE PickLane(target, g[k], lanes[j])
    BY <1>2, <2>1 DEF Laned, n
  <2>3. f[j] = PickLane(target, f[k], lanes[j])
    BY <1>1, <2>1 DEF Runs, n
  <2>4. CASE g[k] = None /\ Lost
    BY <2>1, <2>2, <2>4
  <2>5. CASE g[k] = f[k] /\ GivesUp(target, start, grouped, cut, lanes, f[k], j)
    <3>1. GivesUp(target, f[0], grouped, cut, lanes, f[j - 1], j)
      BY <1>4, <2>1, <2>5
    <3>2. Lost
      BY <1>1, <1>4, <2>1, <3>1, GivingUpLosesNothing DEF n
    <3> HIDE DEF Lost
    <3> QED
      BY <2>1, <2>2, <2>5, <3>2
  <2>6. CASE g[k] = f[k] /\ ~GivesUp(target, start, grouped, cut, lanes, f[k], j)
    <3>1. f[k] # None
      BY <1>1, <2>1, SomeFill DEF Runs, n
    <3> HIDE DEF Lost
    <3> QED
      BY <2>1, <2>2, <2>3, <2>6, <3>1
  <2> QED
    BY <1>6, <2>4, <2>5, <2>6
<1>7. g[n] = f[n] \/ (g[n] = None /\ Lost)
  <2>1. 0 .. n \subseteq T
    <3> HIDE DEF T
    <3> QED
      BY ONLY <1>3, <1>5, <1>6, UpTo
  <2>2. n \in 0 .. n
    BY <1>3
  <2> QED
    BY <2>1, <2>2
<1>8. short = IF g[n].group = << >> THEN None ELSE g[n]
  BY <1>2 DEF Laned, n, short
<1>9. None.group = << >>
  BY DEF None
<1>10. f[n] # None
  <2>1. n \in 0 .. n
    BY <1>3
  <2> QED
    BY <1>1, <2>1, SomeFill DEF Runs, n
<1>11. CASE g[n] = f[n]
  BY <1>1, <1>8, <1>11 DEF start, full, short
<1>12. CASE g[n] = None /\ f[n].group = << >>
  BY <1>1, <1>8, <1>9, <1>12 DEF start, full, short
<1>13. CASE g[n] = None /\ f[n].group # << >> /\ Lost
  <2>1. full = f[n] /\ short = None
    BY <1>1, <1>8, <1>9, <1>13
  <2>2. cut < Ranked(target, start, grouped, full)
    BY <1>13, <2>1
  <2> QED
    BY <1>10, <2>1, <2>2 DEF start, full, short
<1> QED
  BY <1>7, <1>11, <1>12, <1>13

(* And no fill of a slot ranks below the slot's bound.                     *)
LEMMA FullFacts ==
  ASSUME NEW target \in Params, NEW base \in Seq(Cond), NEW C \in SUBSET Cond, NEW slot, LanesOf(C, slot.lanes),
         NEW grouped, Fill(target, FillAt(target, base, << >>), grouped, Infinity, slot.lanes) # None
  PROVE  LET start == FillAt(target, base, << >>)
             full == Fill(target, start, grouped, Infinity, slot.lanes)
         IN /\ Ranked(target, start, grouped, full) \in Int
            /\ Ranked(target, start, grouped, full) < Infinity
            /\ Bounded(target, start, grouped, slot).bound \in Int
            /\ Bounded(target, start, grouped, slot).bound <= Ranked(target, start, grouped, full)
<1> DEFINE start == FillAt(target, base, << >>)
           lanes == slot.lanes
           n == Len(lanes)
           full == Fill(target, start, grouped, Infinity, lanes)
           w == target.width
<1>0. PICK f \in [0 .. n -> Fillings(target, base, C)] : Ends(target, base, C, grouped, lanes, f)
  BY FullRuns
<1>1. Runs(target, base, C, lanes, f) /\ full = IF f[n].group = << >> THEN None ELSE f[n]
  BY <1>0 DEF Ends
<1>2. full = f[n] /\ f[n].group # << >>
  BY <1>1
<1>3. n \in Nat /\ 0 \in 0 .. n /\ n \in 0 .. n
  BY DEF LanesOf
<1>4. f[0] = start /\ f[0].group = << >>
  BY <1>1 DEF Runs, FillAt
<1>5. /\ LowAfter(target, lanes, f, 0) \in Int /\ f[n].score \in Int /\ f[0].score \in Int
      /\ LowAfter(target, lanes, f, 0) <= f[n].score
      /\ SpentOn(f[0], w) \in Nat /\ SpentOn(f[n], w) \in Nat
      /\ 1 <= SpentOn(f[0], w)
      /\ SpentOn(f[0], w) <= SpentOn(f[n], w)
      /\ f[n].group # << >> => f[n].score < f[0].score
  BY <1>1, <1>3, RunsEnd
<1>6. SpentOn(f[0], w) = 1 /\ SpentOn(f[n], w) = Cost(full.group, w)
  BY <1>2, <1>4 DEF SpentOn
<1>7. LowAfter(target, lanes, f, 0) = Low(target, start.ranks, start.trees, lanes, 1)
  BY <1>4 DEF LowAfter
<1>8. f[n].score < Infinity
  <2>1. PICK g \in Seq(C) : f[n] = FillAt(target, base, g)
    BY <1>1, <1>3 DEF Runs
  <2>2. g \in Seq(Cond) /\ base \o g \in Seq(Cond)
    OBVIOUS
  <2>3. StateAfter(base \o g).ranks \in Ranks
    BY <2>2, StateFacts
  <2>4. f[n].score = Score(target, StateAfter(base \o g).ranks)
    BY <2>1 DEF FillAt
  <2> QED
    BY <2>3, <2>4, ScoreBelow
<1>9. PICK before \in Int, l \in Int, score \in Int, c \in Nat :
        /\ before = start.score /\ l = LowAfter(target, lanes, f, 0) /\ score = full.score
        /\ c = Cost(full.group, w) /\ 1 <= c /\ l <= score /\ score < before /\ score < Infinity
  <2> HIDE DEF start, full, lanes, n, w
  <2>1. /\ start.score \in Int /\ LowAfter(target, lanes, f, 0) \in Int /\ full.score \in Int /\ Cost(full.group, w) \in Nat
        /\ 1 <= Cost(full.group, w) /\ LowAfter(target, lanes, f, 0) <= full.score /\ full.score < start.score
        /\ full.score < Infinity
    BY <1>2, <1>4, <1>5, <1>6, <1>8
  <2> QED
    BY ONLY <2>1
<1>10. Ranked(target, start, grouped, full) = Rank(grouped, before, score, c)
  BY <1>9 DEF Ranked
<1>11. Bounded(target, start, grouped, slot).bound = IF grouped THEN 2 * (l - before) ELSE l
  BY <1>7, <1>9 DEF Bounded
<1> HIDE DEF start, full, lanes, n, w
<1>12. Rank(grouped, before, l, 1) = IF grouped THEN 2 * (l - before) ELSE l
  <2>1. 2 \div 1 = 2
    OBVIOUS
  <2>2. 0 - (before - l) * 2 = 2 * (l - before)
    OBVIOUS
  <2> QED
    BY <2>1, <2>2 DEF Rank
<1>13. 1 \in Nat /\ l <= score /\ score <= before /\ 1 <= c
  BY <1>9
<1>14. /\ Rank(grouped, before, l, 1) \in Int /\ Rank(grouped, before, score, c) \in Int
       /\ Rank(grouped, before, l, 1) <= Rank(grouped, before, score, c)
  <2>1. PICK one \in Nat : one = 1
    OBVIOUS
  <2>2. 1 <= one /\ one <= c
    BY <1>13, <2>1
  <2>3. /\ Rank(grouped, before, l, one) \in Int /\ Rank(grouped, before, score, c) \in Int
        /\ Rank(grouped, before, l, one) <= Rank(grouped, before, score, c)
    BY ONLY <1>13, <2>2, RankGrows, before \in Int, l \in Int, score \in Int, c \in Nat, one \in Nat
  <2> QED
    BY ONLY <2>1, <2>3
<1>15. Rank(grouped, before, score, c) < Infinity
  <2>1. Infinity \in Nat /\ 0 < Infinity
    BY InfinityAssumption
  <2>2. CASE ~grouped
    <3>1. Rank(grouped, before, score, c) = score
      BY <2>2 DEF Rank
    <3> QED
      BY <1>9, <3>1
  <2>3. CASE grouped
    <3>1. 2 \div c \in Nat
      <4>1. 2 \div c = IF c = 1 THEN 2 ELSE IF c = 2 THEN 1 ELSE 0
        BY <1>9, Halves
      <4> QED
        BY <4>1
    <3>2. PICK k \in Nat, i \in Nat : k = before - score /\ i = 2 \div c
      <4>1. before - score \in Nat
        BY <1>9
      <4> QED
        BY <3>1, <4>1
    <3>3. Rank(grouped, before, score, c) = 0 - k * i
      BY <2>3, <3>2 DEF Rank
    <3>4. k * i \in Nat
      OBVIOUS
    <3> QED
      BY <2>1, <3>3, <3>4
  <2> QED
    BY <2>2, <2>3
<1>16. Bounded(target, start, grouped, slot).bound = Rank(grouped, before, l, 1)
  BY ONLY <1>11, <1>12
<1>17. /\ Ranked(target, start, grouped, full) \in Int
       /\ Ranked(target, start, grouped, full) < Infinity
       /\ Bounded(target, start, grouped, slot).bound \in Int
       /\ Bounded(target, start, grouped, slot).bound <= Ranked(target, start, grouped, full)
  BY ONLY <1>10, <1>14, <1>15, <1>16
<1> QED
  BY <1>17 DEF start, full, lanes

-----------------------------------------------------------------------------
(* One slot of the walk that stops nowhere.                                *)
FullOf(target, start, grouped, slot) == Fill(target, start, grouped, Infinity, slot.lanes)

InFull(target, start, free, grouped, slot, m) ==
  Against(target, start, free, grouped, m, slot, FullOf(target, start, grouped, slot))

LEMMA AgainstIs ==
  ASSUME NEW target, NEW start, NEW free, NEW grouped, NEW m, NEW slot, NEW f
  PROVE  /\ Against(target, start, free, grouped, m, slot, None) = m
         /\ f # None =>
              Against(target, start, free, grouped, m, slot, f) =
                IF Cost(f.group, target.width) > free THEN m
                ELSE IF \/ Ranked(target, start, grouped, f) < m.rank
                        \/ Ranked(target, start, grouped, f) = m.rank /\ Less(slot.place, m.place)
                     THEN [rank |-> Ranked(target, start, grouped, f), place |-> slot.place, fill |-> f]
                     ELSE m
BY DEF Against, Ranked

(* A slot that is passed over, and a fill that is cut short, would have    *)
(* changed nothing.                                                        *)
Asked(target, base, C, start, grouped, slot, b, m) ==
  /\ target \in Params /\ base \in Seq(Cond) /\ C \in SUBSET Cond /\ LanesOf(C, slot.lanes)
  /\ start = FillAt(target, base, << >>) /\ b = Bounded(target, start, grouped, slot) /\ m.rank \in Int

LEMMA SameTurn ==
  ASSUME NEW target, NEW base, NEW C, NEW start, NEW free, NEW grouped, NEW slot, NEW b, NEW m,
         Asked(target, base, C, start, grouped, slot, b, m)
  PROVE  InTurn(target, start, free, grouped, b, m) = InFull(target, start, free, grouped, slot, m)
<1> DEFINE full == FullOf(target, start, grouped, slot)
           lanes == slot.lanes
           cutShort == Fill(target, start, grouped, m.rank, lanes)
           rank == Ranked(target, start, grouped, full)
<1>0. /\ target \in Params /\ base \in Seq(Cond) /\ C \in SUBSET Cond /\ LanesOf(C, lanes)
      /\ start = FillAt(target, base, << >>) /\ b = Bounded(target, start, grouped, slot) /\ m.rank \in Int
  BY DEF Asked
<1>1. cutShort = full \/ (cutShort = None /\ full # None /\ m.rank < rank)
  <2>0. PICK cut \in Int : cut = m.rank
    BY <1>0
  <2>0a. PICK x : x = slot.lanes
    OBVIOUS
  <2>1. x = slot.lanes /\ cut = m.rank
    BY <2>0, <2>0a
  <2>2. LanesOf(C, x)
    BY <1>0, <2>1
  <2>3. LET from == FillAt(target, base, << >>)
            filled == Fill(target, from, grouped, Infinity, x)
            less == Fill(target, from, grouped, cut, x)
        IN less = filled \/ (less = None /\ filled # None /\ cut < Ranked(target, from, grouped, filled))
    BY <1>0, <2>2, CutFill
  <2> QED
    BY <1>0, <2>1, <2>3 DEF FullOf
<1>2. full # None => /\ rank \in Int
                     /\ b.bound \in Int
                     /\ b.bound <= rank
  BY <1>0, FullFacts DEF FullOf
<1>3. b.slot = slot
  BY <1>0 DEF Bounded
<1> HIDE DEF full, cutShort, rank
<1>4. InTurn(target, start, free, grouped, b, m) =
        IF b.bound > m.rank THEN m ELSE Against(target, start, free, grouped, m, slot, cutShort)
  BY <1>3 DEF InTurn, cutShort
<1>5. InFull(target, start, free, grouped, slot, m) = Against(target, start, free, grouped, m, slot, full)
  BY DEF InFull, full
<1>6. Against(target, start, free, grouped, m, slot, None) = m
  BY AgainstIs
<1>7. CASE full = None
  BY <1>1, <1>4, <1>5, <1>6, <1>7
<1>8. ASSUME full # None, m.rank < rank
      PROVE  Against(target, start, free, grouped, m, slot, full) = m
  <2>1. ~(rank < m.rank) /\ rank # m.rank
    BY <1>0, <1>2, <1>8
  <2> QED
    BY <1>8, <2>1, AgainstIs DEF rank
<1>9. CASE full # None /\ b.bound > m.rank
  <2>1. m.rank < rank
    BY <1>0, <1>2, <1>9
  <2> QED
    BY <1>4, <1>5, <1>8, <1>9, <2>1
<1>10. CASE full # None /\ ~(b.bound > m.rank)
  BY <1>1, <1>4, <1>5, <1>6, <1>8, <1>10
<1> QED
  BY <1>7, <1>9, <1>10

-----------------------------------------------------------------------------
(* Two places are one, or one of them comes first.                         *)
LEMMA LessDecides ==
  ASSUME NEW s \in Places, NEW t \in Places, ~Less(s, t), ~Less(t, s)
  PROVE  s = t
<1> SUFFICES ASSUME s # t PROVE FALSE
  OBVIOUS
<1> DEFINE Differ == { k \in 1 .. 6 : s[k] # t[k] }
<1>1. \A k \in 1 .. 6 : s[k] \in Int /\ t[k] \in Int
  BY DEF Places
<1>2. Differ # {}
  BY DEF Places
<1>3. Differ \in SUBSET Nat
  OBVIOUS
<1>4. PICK n \in Differ : \A m \in Differ : n <= m
  <2> HIDE DEF Differ
  <2> QED
    BY <1>2, <1>3, LeastElement
<1>5. \A m \in 1 .. n - 1 : s[m] = t[m]
  <2> SUFFICES ASSUME NEW m \in 1 .. n - 1, s[m] # t[m] PROVE FALSE
    OBVIOUS
  <2>1. m \in Differ /\ m < n
    OBVIOUS
  <2> QED
    BY <1>4, <2>1
<1>6. n \in 1 .. 6 /\ s[n] # t[n]
  OBVIOUS
<1>7. DOMAIN s = 1 .. 6 /\ DOMAIN t = 1 .. 6
  BY DEF Places
<1>8. s[n] < t[n] \/ t[n] < s[n]
  BY <1>1, <1>6
<1> QED
  BY <1>5, <1>6, <1>7, <1>8 DEF Less

(* What a slot stands for, and when one slot is ahead of another.          *)
Counts(target, start, free, grouped, slot) ==
  LET full == FullOf(target, start, grouped, slot)
  IN full # None /\ ~(Cost(full.group, target.width) > free)

RankOf(target, start, grouped, slot) == Ranked(target, start, grouped, FullOf(target, start, grouped, slot))

Standing(target, start, grouped, slot) ==
  [rank |-> RankOf(target, start, grouped, slot), place |-> slot.place, fill |-> FullOf(target, start, grouped, slot)]

Ahead(target, start, grouped, r, s) ==
  \/ RankOf(target, start, grouped, r) < RankOf(target, start, grouped, s)
  \/ RankOf(target, start, grouped, r) = RankOf(target, start, grouped, s) /\ Less(r.place, s.place)

(* m stands for the slot of T that none of T is ahead of.                  *)
Leads(target, start, free, grouped, T, m) ==
  \/ m = NoBest /\ \A r \in T : ~Counts(target, start, free, grouped, r)
  \/ \E s \in T : /\ Counts(target, start, free, grouped, s) /\ m = Standing(target, start, grouped, s)
                  /\ \A r \in T : Counts(target, start, free, grouped, r) => ~Ahead(target, start, grouped, r, s)

(* Slots that are all different, and all on candidates.                    *)
Field(C, F) == (\A s \in F : GoodSlot(C, s)) /\ \A r, s \in F : r.place = s.place => r = s

LEMMA RankIs ==
  ASSUME NEW target \in Params, NEW base \in Seq(Cond), NEW C \in SUBSET Cond, NEW s, GoodSlot(C, s),
         NEW free, NEW grouped, Counts(target, FillAt(target, base, << >>), free, grouped, s)
  PROVE  /\ RankOf(target, FillAt(target, base, << >>), grouped, s) \in Int
         /\ RankOf(target, FillAt(target, base, << >>), grouped, s) < Infinity
<1>1. LanesOf(C, s.lanes)
  BY DEF GoodSlot
<1>2. Fill(target, FillAt(target, base, << >>), grouped, Infinity, s.lanes) # None
  BY DEF Counts, FullOf
<1> QED
  BY <1>1, <1>2, FullFacts DEF RankOf, FullOf

LEMMA LeadsOn ==
  ASSUME NEW target \in Params, NEW base \in Seq(Cond), NEW C \in SUBSET Cond, NEW F, Field(C, F),
         NEW free, NEW grouped, NEW T \in SUBSET F, NEW slot \in F,
         NEW m, Leads(target, FillAt(target, base, << >>), free, grouped, T, m)
  PROVE  Leads(target, FillAt(target, base, << >>), free, grouped, T \cup {slot},
               InFull(target, FillAt(target, base, << >>), free, grouped, slot, m))
<1> PICK start : start = FillAt(target, base, << >>)
  OBVIOUS
<1> DEFINE on == InFull(target, start, free, grouped, slot, m)
           Ok(s) == Counts(target, start, free, grouped, s)
           R(s) == RankOf(target, start, grouped, s)
           E(s) == Standing(target, start, grouped, s)
           Ahd(r, s) == Ahead(target, start, grouped, r, s)
<1> SUFFICES Leads(target, start, free, grouped, T \cup {slot}, on)
  OBVIOUS
<1>1. \A s \in F : Ok(s) => R(s) \in Int /\ R(s) < Infinity
  BY RankIs DEF Field
<1>2. Infinity \in Int
  BY InfinityAssumption
<1>3. \A s \in F : s.place \in Places
  BY DEF Field, GoodSlot
<1>4. \A x, y, z \in Places : ~Less(x, x) /\ (Less(x, y) /\ Less(y, z) => Less(x, z))
  <2>1. PICK n \in Nat : n = 6
    OBVIOUS
  <2> QED
    BY <2>1, LessOrders DEF Places
<1>5. Leads(target, start, free, grouped, T, m)
  OBVIOUS
<1>6. ~Ok(slot) => on = m
  BY AgainstIs DEF InFull, Counts
<1>7. Ok(slot) => on = IF R(slot) < m.rank \/ (R(slot) = m.rank /\ Less(slot.place, m.place)) THEN E(slot) ELSE m
  <2> SUFFICES ASSUME Ok(slot)
               PROVE  on = IF R(slot) < m.rank \/ (R(slot) = m.rank /\ Less(slot.place, m.place)) THEN E(slot) ELSE m
    OBVIOUS
  <2>1. PICK full : full = FullOf(target, start, grouped, slot)
    OBVIOUS
  <2>2. full # None /\ ~(Cost(full.group, target.width) > free)
    BY <2>1 DEF Counts
  <2>3. on = Against(target, start, free, grouped, m, slot, full)
    BY <2>1 DEF InFull
  <2>4. R(slot) = Ranked(target, start, grouped, full) /\ E(slot) = [rank |-> R(slot), place |-> slot.place, fill |-> full]
    BY <2>1 DEF RankOf, Standing
  <2> HIDE DEF on, R, E
  <2> QED
    BY ONLY <2>2, <2>3, <2>4, AgainstIs
<1>8. \A r, s \in F : Ahd(r, s) <=> R(r) < R(s) \/ (R(r) = R(s) /\ Less(r.place, s.place))
  BY DEF Ahead
<1>9. \A s \in F : E(s).rank = R(s) /\ E(s).place = s.place
  BY DEF Standing
<1> HIDE DEF on, Ok, R, E, Ahd
<1>10. \A s \in F : Ok(s) => ~Ahd(s, s)
  BY <1>1, <1>3, <1>4, <1>8
<1>11. \A r, s, t \in F : Ok(r) /\ Ok(s) /\ Ok(t) /\ Ahd(r, s) /\ Ahd(s, t) => Ahd(r, t)
  <2> SUFFICES ASSUME NEW r \in F, NEW s \in F, NEW t \in F, Ok(r), Ok(s), Ok(t), Ahd(r, s), Ahd(s, t)
               PROVE  Ahd(r, t)
    OBVIOUS
  <2>1. R(r) \in Int /\ R(s) \in Int /\ R(t) \in Int
    BY <1>1
  <2>2. Less(r.place, s.place) /\ Less(s.place, t.place) => Less(r.place, t.place)
    BY <1>3, <1>4
  <2> QED
    BY <1>8, <2>1, <2>2
<1>12. CASE ~Ok(slot)
  BY <1>5, <1>6, <1>12 DEF Leads, Ok, E, Ahd
<1>13. CASE Ok(slot) /\ m = NoBest /\ \A r \in T : ~Ok(r)
  <2>1. on = E(slot)
    BY <1>1, <1>7, <1>13 DEF NoBest
  <2>2. \A r \in T \cup {slot} : Ok(r) => ~Ahd(r, slot)
    BY <1>10, <1>13
  <2> QED
    BY <1>13, <2>1, <2>2 DEF Leads, Ok, E, Ahd, on
<1>14. ASSUME Ok(slot), NEW s \in T, Ok(s), m = E(s), \A r \in T : Ok(r) => ~Ahd(r, s)
       PROVE  Leads(target, start, free, grouped, T \cup {slot}, on)
  <2>1. s \in F
    OBVIOUS
  <2>2. on = IF Ahd(slot, s) THEN E(slot) ELSE m
    BY <1>7, <1>8, <1>9, <1>14, <2>1
  <2>3. CASE Ahd(slot, s)
    <3>1. \A r \in T \cup {slot} : Ok(r) => ~Ahd(r, slot)
      BY <1>10, <1>11, <1>14, <2>1, <2>3
    <3> QED
      BY <1>14, <2>2, <2>3, <3>1 DEF Leads, Ok, E, Ahd
  <2>4. CASE ~Ahd(slot, s)
    <3>1. \A r \in T \cup {slot} : Ok(r) => ~Ahd(r, s)
      BY <1>14, <2>4
    <3> QED
      BY <1>14, <2>2, <2>4, <3>1 DEF Leads, Ok, E, Ahd
  <2> QED
    BY <2>3, <2>4
<1>15. \/ m = NoBest /\ \A r \in T : ~Ok(r)
       \/ \E s \in T : Ok(s) /\ m = E(s) /\ \A r \in T : Ok(r) => ~Ahd(r, s)
  BY <1>5 DEF Leads, Ok, E, Ahd
<1> QED
  BY <1>12, <1>13, <1>14, <1>15 DEF on

(* And there is only one such.                                             *)
LEMMA LeadsOne ==
  ASSUME NEW target \in Params, NEW base \in Seq(Cond), NEW C \in SUBSET Cond, NEW F, Field(C, F),
         NEW free, NEW grouped,
         NEW m, Leads(target, FillAt(target, base, << >>), free, grouped, F, m),
         NEW n, Leads(target, FillAt(target, base, << >>), free, grouped, F, n)
  PROVE  m = n
<1> PICK start : start = FillAt(target, base, << >>)
  OBVIOUS
<1> DEFINE Ok(s) == Counts(target, start, free, grouped, s)
           R(s) == RankOf(target, start, grouped, s)
<1>1. \A s \in F : Ok(s) => R(s) \in Int
  BY RankIs DEF Field
<1>2. \A s \in F : s.place \in Places
  BY DEF Field, GoodSlot
<1>3. \A r, s \in F : r.place = s.place => r = s
  BY DEF Field
<1>4. CASE \E r \in F : Ok(r)
  <2>1. PICK r \in F : Ok(r) /\ m = Standing(target, start, grouped, r) /\ \A t \in F : Ok(t) => ~Ahead(target, start, grouped, t, r)
    BY <1>4 DEF Leads
  <2>2. PICK s \in F : Ok(s) /\ n = Standing(target, start, grouped, s) /\ \A t \in F : Ok(t) => ~Ahead(target, start, grouped, t, s)
    BY <1>4 DEF Leads
  <2>3. ~Ahead(target, start, grouped, r, s) /\ ~Ahead(target, start, grouped, s, r)
    BY <2>1, <2>2
  <2>4. R(r) \in Int /\ R(s) \in Int
    BY <1>1, <2>1, <2>2
  <2> HIDE DEF Ok
  <2>5. R(r) = R(s) /\ ~Less(r.place, s.place) /\ ~Less(s.place, r.place)
    BY <2>3, <2>4 DEF Ahead
  <2>6. r.place = s.place
    BY <1>2, <2>5, LessDecides
  <2> QED
    BY <1>3, <2>1, <2>2, <2>6
<1>5. CASE \A r \in F : ~Ok(r)
  BY <1>5 DEF Leads
<1> QED
  BY <1>4, <1>5

(* What leads has a rank.                                                  *)
LEMMA LeadsRank ==
  ASSUME NEW target \in Params, NEW base \in Seq(Cond), NEW C \in SUBSET Cond, NEW F, Field(C, F),
         NEW free, NEW grouped, NEW T \in SUBSET F,
         NEW m, Leads(target, FillAt(target, base, << >>), free, grouped, T, m)
  PROVE  m.rank \in Int
<1> PICK start : start = FillAt(target, base, << >>)
  OBVIOUS
<1>1. CASE m = NoBest
  BY <1>1, InfinityAssumption DEF NoBest
<1>2. CASE m # NoBest
  <2>1. PICK s \in T : Counts(target, start, free, grouped, s) /\ m = Standing(target, start, grouped, s)
    BY <1>2 DEF Leads
  <2>2. GoodSlot(C, s)
    BY DEF Field
  <2>3. RankOf(target, start, grouped, s) \in Int
    BY <2>1, <2>2, RankIs
  <2> QED
    BY <2>1, <2>3 DEF Standing
<1> QED
  BY <1>1, <1>2

(* And the walk that stops nowhere.                                        *)
AllEq(target, start, free, grouped, F, it) ==
  it = [u \in SUBSET F |->
         IF u = {} THEN NoBest
         ELSE InFull(target, start, free, grouped, CHOOSE x \in u : TRUE, it[u \ {CHOOSE x \in u : TRUE}])]

LEMMA AllRuns ==
  ASSUME NEW target, NEW slots, NEW s, NEW free, NEW grouped
  PROVE  BestOfAll(target, slots, s, free, grouped) =
           (CHOOSE it : AllEq(target, StartAt(target, s), free, grouped, Fitting(target, slots, free), it))
             [Fitting(target, slots, free)].fill
BY Zenon DEF BestOfAll, FoldSet, MapThenFoldSet, AllEq, InFull, FullOf

AllWalk(target, base, C, slots, s, free, grouped, it) ==
  LET start == FillAt(target, base, << >>)
      F == Fitting(target, slots, free)
  IN /\ IsFiniteSet(F)
     /\ it \in [SUBSET F -> Found(target, base, C, slots, grouped)]
     /\ it[{}] = NoBest
     /\ \A u \in SUBSET F : u # {} =>
          /\ (CHOOSE x \in u : TRUE) \in u
          /\ it[u] = InFull(target, start, free, grouped, CHOOSE x \in u : TRUE, it[u \ {CHOOSE x \in u : TRUE}])
     /\ BestOfAll(target, slots, s, free, grouped) = it[F].fill

LEMMA AllWalks ==
  ASSUME NEW target, NEW base \in Seq(Cond), NEW C \in SUBSET Cond, NEW slots, GoodSlots(C, slots),
         NEW s, s.ranks = StateAfter(base).ranks, TreesOf(s.live) = TreesOf(StateAfter(base).live),
         NEW free, NEW grouped
  PROVE  \E it : AllWalk(target, base, C, slots, s, free, grouped, it)
<1> DEFINE start == FillAt(target, base, << >>)
           V == Found(target, base, C, slots, grouped)
           F == Fitting(target, slots, free)
           ch == [u \in SUBSET F |-> CHOOSE x \in u : TRUE]
           On(x, m) == InFull(target, start, free, grouped, x, m)
           op == [m \in F \X V |-> On(m[1], m[2])]
           it == CHOOSE jt : AllEq(target, start, free, grouped, F, jt)
<1>1. StartAt(target, s) = start
  <2>1. base \o << >> = base
    OBVIOUS
  <2> QED
    BY <2>1 DEF StartAt, FillAt
<1>2. F \subseteq slots /\ IsFiniteSet(F)
  <2>1. F \subseteq slots /\ IsFiniteSet(slots)
    BY DEF Fitting, GoodSlots
  <2> QED
    BY ONLY <2>1, FS_Subset
<1>3. \A u \in SUBSET F : u # {} => ch[u] \in u /\ (CHOOSE x \in u : TRUE) \in u
  OBVIOUS
<1>4. \A u \in SUBSET F : ch[u] = CHOOSE x \in u : TRUE
  OBVIOUS
<1>5. NoBest \in V
  <2>1. None \in Fillings(target, base, C) /\ Infinity \in RanksOf(target, base, C, grouped) /\ << >> \in PlacesOf(slots)
    BY DEF Fillings, RanksOf, PlacesOf
  <2>2. [rank |-> Infinity, place |-> << >>, fill |-> None] \in Found(target, base, C, slots, grouped)
    BY ONLY <2>1, EntryFacts DEF Found
  <2> QED
    BY ONLY <2>2 DEF NoBest, V
<1>6. ASSUME NEW x \in F, NEW m \in V PROVE On(x, m) \in V
  <2>1. PICK slot \in slots : slot = x
    BY <1>2
  <2>2. LanesOf(C, slot.lanes)
    BY DEF GoodSlots, GoodSlot
  <2>3. PICK lanes : lanes = slot.lanes
    OBVIOUS
  <2>4. Fill(target, start, grouped, Infinity, lanes) \in Fillings(target, base, C)
    BY <2>2, <2>3, FillKeeps
  <2>5. PICK f \in Fillings(target, base, C) : f = FullOf(target, start, grouped, slot)
    BY <2>3, <2>4 DEF FullOf
  <2>6. Against(target, start, free, grouped, m, slot, f) \in V
    BY AgainstKeeps
  <2> QED
    BY <2>1, <2>5, <2>6 DEF InFull
<1> HIDE DEF start, V, On, F
<1>7. op \in [F \X V -> V] /\ \A x \in F, m \in V : op[<<x, m>>] = On(x, m)
  <2>1. \A m \in F \X V : m[1] \in F /\ m[2] \in V
    OBVIOUS
  <2>2. \A m \in F \X V : On(m[1], m[2]) \in V
    BY <1>6, <2>1
  <2> QED
    BY <2>2
<1> HIDE DEF op, ch
<1>8. \E g \in [SUBSET F -> V] : Follows(F, ch, V, NoBest, op, g)
  <2>1. \A u \in SUBSET F : u # {} => ch[u] \in u
    BY <1>3
  <2>2. PICK none \in V : none = NoBest
    BY <1>5
  <2>3. IsFiniteSet(F) /\ op \in [F \X V -> V]
    BY <1>2, <1>7
  <2>4. \E g \in [SUBSET F -> V] : Follows(F, ch, V, none, op, g)
    BY ONLY <2>1, <2>2, <2>3, FollowsExists
  <2> QED
    BY ONLY <2>2, <2>4
<1>9. PICK g \in [SUBSET F -> V] : Follows(F, ch, V, NoBest, op, g)
  BY <1>8
<1>10. AllEq(target, start, free, grouped, F, g)
  <2>1. ASSUME NEW u \in SUBSET F, u # {}
        PROVE  g[u] = InFull(target, start, free, grouped, CHOOSE x \in u : TRUE, g[u \ {CHOOSE x \in u : TRUE}])
    <3>1. ch[u] = (CHOOSE x \in u : TRUE) /\ ch[u] \in F /\ u \ {ch[u]} \in SUBSET F
      BY <1>3, <1>4, <2>1
    <3>2. g[u \ {ch[u]}] \in V
      BY <3>1
    <3>3. g[u] = op[<<ch[u], g[u \ {ch[u]}]>>]
      BY <1>9, <2>1, <3>2 DEF Follows
    <3> QED
      BY <1>7, <3>1, <3>2, <3>3 DEF On
  <2>2. g[{}] = NoBest
    BY <1>9 DEF Follows
  <2>3. g = [u \in SUBSET F |-> g[u]]
    OBVIOUS
  <2> QED
    BY ONLY <2>1, <2>2, <2>3 DEF AllEq
<1>11. AllEq(target, start, free, grouped, F, it)
  BY <1>10
<1> HIDE DEF it
<1>12. Follows(F, ch, V, NoBest, op, it)
  <2>1. \A u \in SUBSET F :
          it[u] = IF u = {} THEN NoBest
                  ELSE InFull(target, start, free, grouped, CHOOSE x \in u : TRUE, it[u \ {CHOOSE x \in u : TRUE}])
    BY <1>11 DEF AllEq
  <2>2. ASSUME NEW u \in SUBSET F, u # {}, it[u \ {ch[u]}] \in V
        PROVE  it[u] = op[<<ch[u], it[u \ {ch[u]}]>>]
    <3>1. ch[u] = (CHOOSE x \in u : TRUE) /\ ch[u] \in F
      BY <1>3, <1>4, <2>2
    <3>2. it[u] = On(ch[u], it[u \ {ch[u]}])
      BY <2>1, <2>2, <3>1 DEF On
    <3> QED
      BY <1>7, <2>2, <3>1, <3>2
  <2>3. it = [u \in SUBSET F |-> it[u]]
    BY <1>11 DEF AllEq
  <2>4. it[{}] = NoBest
    BY <2>1
  <2>5. \A u \in SUBSET F : u # {} => ch[u] \in u
    BY <1>3
  <2> QED
    BY ONLY <1>2, <1>5, <1>7, <2>2, <2>3, <2>4, <2>5 DEF Follows
<1>13. it \in [SUBSET F -> V]
  BY ONLY <1>12, FoldStays
<1>14. BestOfAll(target, slots, s, free, grouped) = it[F].fill
  BY <1>1, AllRuns DEF it, F
<1>15. ASSUME NEW u \in SUBSET F, u # {}
       PROVE  it[u] = InFull(target, start, free, grouped, CHOOSE x \in u : TRUE, it[u \ {CHOOSE x \in u : TRUE}])
  BY <1>11, <1>15 DEF AllEq
<1>16. it[{}] = NoBest
  BY <1>12 DEF Follows
<1>17. AllWalk(target, base, C, slots, s, free, grouped, it)
  BY <1>2, <1>3, <1>13, <1>14, <1>15, <1>16 DEF AllWalk, start, F, V
<1> QED
  BY <1>17

-----------------------------------------------------------------------------
(* Both end with the slot that no other is ahead of.                       *)
LEMMA AllLeads ==
  ASSUME NEW target \in Params, NEW base \in Seq(Cond), NEW C \in SUBSET Cond, NEW slots, Field(C, slots),
         NEW s, NEW free, NEW grouped, NEW it, AllWalk(target, base, C, slots, s, free, grouped, it)
  PROVE  Leads(target, FillAt(target, base, << >>), free, grouped, Fitting(target, slots, free),
               it[Fitting(target, slots, free)])
<1> DEFINE start == FillAt(target, base, << >>)
           F == Fitting(target, slots, free)
           ch == [u \in SUBSET F |-> CHOOSE x \in u : TRUE]
           G == { u \in SUBSET F : Leads(target, start, free, grouped, u, it[u]) }
<1>0. F \subseteq slots /\ Field(C, F)
  BY DEF Fitting, Field
<1>1. IsFiniteSet(F) /\ it[{}] = NoBest
  BY DEF AllWalk
<1>2. ASSUME NEW u \in SUBSET F, u # {}
      PROVE  ch[u] \in u /\ it[u] = InFull(target, start, free, grouped, ch[u], it[u \ {ch[u]}])
  BY <1>2 DEF AllWalk
<1> HIDE DEF F, ch
<1>3. {} \in G
  BY <1>1 DEF Leads
<1>4. ASSUME NEW u \in SUBSET F, u # {}, u \ {ch[u]} \in G PROVE u \in G
  <2>1. PICK T \in SUBSET F : T = u \ {ch[u]}
    OBVIOUS
  <2>2. PICK x \in F : x = ch[u]
    BY <1>2, <1>4
  <2>3. PICK m : m = it[T]
    OBVIOUS
  <2>4. Leads(target, start, free, grouped, T, m)
    BY <1>4, <2>1, <2>3
  <2>5. Leads(target, start, free, grouped, T \cup {x}, InFull(target, start, free, grouped, x, m))
    BY <1>0, <2>4, LeadsOn
  <2>6. T \cup {x} = u
    BY <1>2, <1>4, <2>1, <2>2
  <2>7. it[u] = InFull(target, start, free, grouped, x, m)
    BY <1>2, <1>4, <2>1, <2>2, <2>3
  <2> QED
    BY <2>5, <2>6, <2>7
<1> HIDE DEF G
<1>5. Inductive(F, ch, G)
  BY <1>1, <1>2, <1>3, <1>4 DEF Inductive
<1>6. SUBSET F \subseteq G
  BY ONLY <1>5, Induction
<1> QED
  BY <1>6 DEF F, G

LEMMA BestLeads ==
  ASSUME NEW target \in Params, NEW base \in Seq(Cond), NEW C \in SUBSET Cond, NEW slots, Field(C, slots),
         NEW s, NEW free, NEW grouped, NEW it, BestWalk(target, base, C, slots, s, free, grouped, it)
  PROVE  Leads(target, FillAt(target, base, << >>), free, grouped, Fitting(target, slots, free),
               it[Turns(target, FillAt(target, base, << >>), free, grouped, slots)])
<1> DEFINE start == FillAt(target, base, << >>)
           F == Fitting(target, slots, free)
           S == Turns(target, start, free, grouped, slots)
           ch == [u \in SUBSET S |-> LastInTurn(u)]
           SlotsIn(u) == { b.slot : b \in u }
           G == { u \in SUBSET S : Leads(target, start, free, grouped, SlotsIn(u), it[u]) }
<1>0. F \subseteq slots /\ Field(C, F)
  BY DEF Fitting, Field
<1>1. IsFiniteSet(S) /\ it[{}] = NoBest
  BY DEF BestWalk
<1>2. ASSUME NEW u \in SUBSET S, u # {}
      PROVE  ch[u] \in u /\ it[u] = InTurn(target, start, free, grouped, ch[u], it[u \ {ch[u]}])
  BY <1>2 DEF BestWalk
<1>3. \A b \in S : b.slot \in F /\ b = Bounded(target, start, grouped, b.slot)
  BY DEF Turns, Bounded
<1>3a. \A x \in F : \E b \in S : b.slot = x
  <2> SUFFICES ASSUME NEW x \in F PROVE \E b \in S : b.slot = x
    OBVIOUS
  <2>1. Bounded(target, start, grouped, x) \in S
    BY DEF Turns
  <2>2. Bounded(target, start, grouped, x).slot = x
    BY DEF Bounded
  <2> QED
    BY <2>1, <2>2
<1> HIDE DEF F, S, ch
<1>4. {} \in G
  <2>1. SlotsIn({}) = {}
    OBVIOUS
  <2> QED
    BY <1>1, <2>1 DEF Leads
<1>5. ASSUME NEW u \in SUBSET S, u # {}, u \ {ch[u]} \in G PROVE u \in G
  <2>1. PICK b \in S : b = ch[u] /\ b \in u
    BY <1>2, <1>5
  <2>2. PICK x \in F : x = b.slot
    BY <1>3
  <2>3. PICK T \in SUBSET F : T = SlotsIn(u \ {ch[u]})
    <3>1. SlotsIn(u \ {ch[u]}) \in SUBSET F
      BY <1>3
    <3> QED
      BY <3>1
  <2>4. PICK m : m = it[u \ {ch[u]}]
    OBVIOUS
  <2>5. Leads(target, start, free, grouped, T, m)
    BY <1>5, <2>3, <2>4
  <2>6. SlotsIn(u) = T \cup {x}
    BY <2>1, <2>2, <2>3
  <2> HIDE DEF SlotsIn
  <2>7. m.rank \in Int
    BY <1>0, <2>5, LeadsRank
  <2>8. LanesOf(C, x.lanes)
    BY <1>0 DEF Field, GoodSlot
  <2>9. b = Bounded(target, start, grouped, x)
    BY <1>3, <2>2
  <2>10. it[u] = InTurn(target, start, free, grouped, b, m)
    BY <1>2, <1>5, <2>1, <2>4
  <2>11. it[u] = InFull(target, start, free, grouped, x, m)
    <3>1. Asked(target, base, C, start, grouped, x, b, m)
      BY <2>7, <2>8, <2>9 DEF Asked
    <3>2. InTurn(target, start, free, grouped, b, m) = InFull(target, start, free, grouped, x, m)
      BY <3>1, SameTurn
    <3> QED
      BY <2>10, <3>2
  <2>12. Leads(target, start, free, grouped, T \cup {x}, InFull(target, start, free, grouped, x, m))
    BY <1>0, <2>5, LeadsOn
  <2> QED
    BY <2>6, <2>11, <2>12
<1> HIDE DEF G
<1>6. Inductive(S, ch, G)
  BY <1>1, <1>2, <1>4, <1>5 DEF Inductive
<1>7. SUBSET S \subseteq G
  BY ONLY <1>6, Induction
<1>8. Leads(target, start, free, grouped, SlotsIn(S), it[S])
  BY <1>7 DEF G
<1>9. SlotsIn(S) = F
  BY <1>3, <1>3a
<1> HIDE DEF SlotsIn
<1> QED
  BY <1>8, <1>9 DEF F, S

(* So best finds the best there is.                                        *)
LEMMA NothingLost ==
  ASSUME NEW target \in Params, NEW base \in Seq(Cond), NEW C \in SUBSET Cond,
         NEW slots, GoodSlots(C, slots), Field(C, slots),
         NEW s, s.ranks = StateAfter(base).ranks, TreesOf(s.live) = TreesOf(StateAfter(base).live),
         NEW free, NEW grouped
  PROVE  Best(target, slots, s, free, grouped) = BestOfAll(target, slots, s, free, grouped)
<1> DEFINE start == FillAt(target, base, << >>)
           F == Fitting(target, slots, free)
           S == Turns(target, start, free, grouped, slots)
<1>1. PICK it : BestWalk(target, base, C, slots, s, free, grouped, it)
  BY BestWalks
<1>2. PICK jt : AllWalk(target, base, C, slots, s, free, grouped, jt)
  BY AllWalks
<1>3. Best(target, slots, s, free, grouped) = it[S].fill
  BY <1>1 DEF BestWalk
<1>4. BestOfAll(target, slots, s, free, grouped) = jt[F].fill
  BY <1>2 DEF AllWalk
<1>5. Leads(target, start, free, grouped, F, it[S])
  BY <1>1, BestLeads
<1>6. Leads(target, start, free, grouped, F, jt[F])
  BY <1>2, AllLeads
<1>7. PICK m, n, T : m = it[S] /\ n = jt[F] /\ T = F
  OBVIOUS
<1>8. Field(C, T)
  BY <1>7 DEF Field, Fitting
<1> HIDE DEF F, S
<1>9. m = n
  BY <1>5, <1>6, <1>7, <1>8, LeadsOne
<1> QED
  BY <1>3, <1>4, <1>7, <1>9

(* A slot is told by its place.                                            *)
LEMMA SlotsApart ==
  ASSUME NEW target, target.width \in Nat \ {0}, NEW C \in SUBSET Cond, IsFiniteSet(C)
  PROVE  Field(C, SlotLanes(target, C))
<1> DEFINE LanesAt(slot) == [k \in 1 .. slot.windows * target.width |-> Lane(target, C, slot, k - 1)]
<1>1. \A x \in SlotLanes(target, C) : GoodSlot(C, x)
  BY SlotLanesGood DEF GoodSlots
<1>2. ASSUME NEW slot \in SlotsOf(target, C)
      PROVE  slot = [key |-> slot.key, windows |-> slot.windows, base |-> slot.base]
             /\ slot.key = <<slot.key[1], slot.key[2], slot.key[3], slot.key[4]>>
  <2>1. PICK c \in C, n \in 1 .. WINDOWS, l \in 0 .. target.width - 1 : slot = SlotFor(target, c, n, l)
    BY SlotIs
  <2>2. slot = [key |-> slot.key, windows |-> slot.windows, base |-> slot.base] /\ slot.key = Key(target, c)
    BY <2>1 DEF SlotFor
  <2>3. Key(target, c) = <<Key(target, c)[1], Key(target, c)[2], Key(target, c)[3], Key(target, c)[4]>>
    BY DEF Key
  <2> QED
    BY <2>2, <2>3
<1>3. ASSUME NEW r \in SlotsOf(target, C), NEW s \in SlotsOf(target, C), SlotPlace(r) = SlotPlace(s)
      PROVE  r = s
  <2>1. /\ r.key[1] = s.key[1] /\ r.key[2] = s.key[2] /\ r.key[3] = s.key[3] /\ r.key[4] = s.key[4]
        /\ r.windows = s.windows /\ r.base = s.base
    BY <1>3 DEF SlotPlace
  <2>2. r.key = s.key
    BY <1>2, <2>1
  <2> QED
    BY <1>2, <2>1, <2>2
<1>4. \A x \in SlotLanes(target, C) : \E slot \in SlotsOf(target, C) :
        x = [place |-> SlotPlace(slot), lanes |-> LanesAt(slot)]
  BY DEF SlotLanes
<1> HIDE DEF LanesAt
<1>5. ASSUME NEW x \in SlotLanes(target, C), NEW y \in SlotLanes(target, C), x.place = y.place PROVE x = y
  <2>1. PICK r \in SlotsOf(target, C) : x = [place |-> SlotPlace(r), lanes |-> LanesAt(r)]
    BY <1>4
  <2>2. PICK s \in SlotsOf(target, C) : y = [place |-> SlotPlace(s), lanes |-> LanesAt(s)]
    BY <1>4
  <2>3. SlotPlace(r) = SlotPlace(s)
    BY <1>5, <2>1, <2>2
  <2> QED
    BY <1>3, <2>1, <2>2, <2>3
<1> QED
  BY <1>1, <1>5 DEF Field

-----------------------------------------------------------------------------
(* What comes before the end of a sequence.                                *)
LEMMA AllBut ==
  ASSUME NEW X, NEW s \in Seq(X), NEW t \in Seq(X)
  PROVE  SubSeq(s \o t, 1, Len(s \o t) - Len(t)) = s
<1> DEFINE all == s \o t
           n == Len(s)
<1>1. all \in Seq(X) /\ Len(all) = n + Len(t) /\ n \in Nat /\ Len(t) \in Nat /\ \A k \in 1 .. n : all[k] = s[k]
  OBVIOUS
<1>2. s = [k \in 1 .. n |-> s[k]]
  OBVIOUS
<1> HIDE DEF all, n
<1>3. Len(all) - Len(t) = n
  BY <1>1
<1>4. SubSeq(all, 1, n) = [k \in 1 .. n |-> all[k]]
  BY <1>1
<1>5. SubSeq(all, 1, n) = s
  BY <1>1, <1>2, <1>4
<1> QED
  BY ONLY <1>3, <1>5 DEF all

LEMMA HeadTail ==
  ASSUME NEW X, NEW s \in Seq(X), NEW t \in Seq(X), t # << >>
  PROVE  /\ Head(t) \in X /\ Tail(t) \in Seq(X)
         /\ s \o t = Append(s, Head(t)) \o Tail(t)
<1>1. Head(t) \in X /\ Tail(t) \in Seq(X) /\ t = <<Head(t)>> \o Tail(t)
  OBVIOUS
<1>2. s \o t = Append(s, Head(t)) \o Tail(t)
  BY <1>1
<1> QED
  BY <1>1, <1>2

-----------------------------------------------------------------------------
(* What is taken, in order: the prefix, less what is still to be applied.  *)
AllOf == Conds(units) \o fill.group \o tail.conds
TakenSeq == SubSeq(AllOf, 1, Len(AllOf) - Len(todo))

Units(C) == Seq(Seq(C))

(* What is read is in the spans, and what can be taken comes from them.    *)
ReadSet == { Ubcs[n] : n \in 1 .. read }

SpansHold ==
  /\ search.spans \in [Dv -> Forest]
  /\ \A d \in Dv : Grown(search.spans[d], ReadSet, d)
  /\ \A c \in ReadSet : \A d \in c.dvs : Connected(search.spans[d], c.u, c.v)

SearchHolds ==
  /\ p \in Params /\ read \in 0 .. Len(Ubcs)
  /\ search = [spans |-> search.spans, cands |-> search.cands, slots |-> search.slots]
  /\ pc = "read" => read < Len(Ubcs) /\ search.cands = {} /\ goal = "greedy"
  /\ pc # "read" =>
       /\ read = Len(Ubcs)
       /\ search.cands = Candidates(search.spans) /\ search.slots = SlotLanes(p, search.cands)

(* The sequences there are, of candidates.                                 *)
UnitsHold ==
  /\ units \in Units(search.cands)
  /\ fill.group \in Seq(search.cands) /\ tail.conds \in Seq(search.cands) /\ todo \in Seq(search.cands)
  /\ descent = [units |-> descent.units, best |-> descent.best, current |-> descent.current,
                score |-> descent.score, idle |-> descent.idle]
  /\ descent.units \in Units(search.cands) /\ descent.current \in Units(search.cands)
  /\ vns = [units |-> vns.units, best |-> vns.best, k |-> vns.k, idle |-> vns.idle]
  /\ vns.units \in Units(search.cands)

(* Which of them are empty when.                                           *)
PhaseHolds ==
  /\ pc \in {"read", "add", "best", "commit", "full", "descend", "vns", "tail", "plan", "failed", "emitted"}
  /\ pc = "add" => goal # "greedy"
  /\ todo # << >> => pc \in {"add", "commit"}
  /\ fill # None => pc = "commit"
  /\ tail.conds # << >> => pc \in {"tail", "plan", "failed", "emitted"}

(* The forests are those of what is taken, and the ranks too until the     *)
(* tail; while a fill is committed the ranks are still those of before.    *)
StateHolds ==
  /\ state = [live |-> state.live, ranks |-> state.ranks]
  /\ AllOf = TakenSeq \o todo /\ TakenSeq \in Seq(search.cands)
  /\ state.live = StateAfter(TakenSeq).live
  /\ pc \notin {"commit", "tail", "plan", "failed", "emitted"} => state.ranks = StateAfter(TakenSeq).ranks
  /\ pc = "commit" =>
       /\ state.ranks = StateAfter(Conds(units)).ranks
       /\ fill = FillAt(p, Conds(units), fill.group)
  /\ pc \in {"plan", "failed", "emitted"} => \A c \in search.cands : Gained(state.live, c) = {}

(* Scores kept are those of the units they are kept for.                   *)
ScoresHold ==
  pc = "descend" \/ goal = "round" =>
    descent.score = ScoreOf(descent.current) /\ descent.best = ScoreOf(descent.units)

BestsHold ==
  /\ pc \in {"read", "best", "commit", "full"} /\ goal = "greedy" => vns.units = << >> /\ vns.best = Infinity
  /\ vns.best # Infinity => vns.best = ScoreOf(vns.units)
  /\ (pc = "descend" \/ goal = "round") /\ vns.best = Infinity =>
       descent.units = vns.units \/ ScoreOf(descent.units) < ScoreOf(vns.units)
  /\ pc = "vns" \/ goal = "shake" => vns.best # Infinity

IInv ==
  SpansHold /\ SearchHolds /\ UnitsHold /\ PhaseHolds /\ StateHolds /\ ScoresHold /\ BestsHold

LEMMA MoreSeq ==
  ASSUME NEW S, NEW T, S \subseteq T
  PROVE  Seq(S) \subseteq Seq(T)
OBVIOUS

LEMMA Empties == None.group = << >> /\ \A X : << >> \in Seq(X)
BY DEF None

LEMMA CandsFacts ==
  ASSUME IInv
  PROVE  search.cands \in SUBSET Cond /\ IsFiniteSet(search.cands) /\ Seq(search.cands) \subseteq Seq(Cond)
<1>1. search.cands \in SUBSET Cond /\ IsFiniteSet(search.cands)
  <2>1. CASE pc = "read"
    BY <2>1, FS_EmptySet DEF IInv, SearchHolds
  <2>2. CASE pc # "read"
    BY <2>2, CandidatesFinite DEF IInv, SearchHolds
  <2> QED
    BY <2>1, <2>2
<1> QED
  BY <1>1, MoreSeq

LEMMA AllType ==
  ASSUME IInv
  PROVE  Conds(units) \in Seq(search.cands) /\ AllOf \in Seq(search.cands)
<1>1. Conds(units) \in Seq(search.cands)
  BY CondsType DEF IInv, UnitsHold, Units
<1>2. fill.group \in Seq(search.cands) /\ tail.conds \in Seq(search.cands)
  BY DEF IInv, UnitsHold
<1>0. PICK X : X = search.cands
  OBVIOUS
<1>3. PICK a \in Seq(X), b \in Seq(X), c \in Seq(X) :
        a = Conds(units) /\ b = fill.group /\ c = tail.conds
  BY <1>0, <1>1, <1>2
<1>4. a \o b \o c \in Seq(X)
  OBVIOUS
<1> QED
  BY <1>0, <1>1, <1>3, <1>4 DEF AllOf

(* With nothing to apply, all is taken.                                    *)
LEMMA AllTaken ==
  ASSUME IInv, todo = << >>
  PROVE  TakenSeq = AllOf
<1>1. TakenSeq \in Seq(search.cands) /\ AllOf = TakenSeq \o todo
  BY DEF IInv, StateHolds
<1> QED
  BY <1>1

(* Between the steps that build a prefix, its units are all there is.      *)
LEMMA AtRest ==
  ASSUME IInv, pc \in {"best", "full", "descend", "vns"}
  PROVE  /\ todo = << >> /\ fill = None /\ tail.conds = << >>
         /\ AllOf = Conds(units) /\ TakenSeq = Conds(units)
         /\ state.live = StateAfter(Conds(units)).live
         /\ state.ranks = StateAfter(Conds(units)).ranks
<1>1. todo = << >> /\ fill = None /\ tail.conds = << >>
  BY DEF IInv, PhaseHolds
<1>2. AllOf = Conds(units)
  BY <1>1, Empties, AllType DEF AllOf
<1>3. TakenSeq = AllOf
  BY <1>1, AllTaken
<1> QED
  BY <1>1, <1>2, <1>3 DEF IInv, StateHolds

LEMMA SameTaken ==
  ASSUME UNCHANGED <<units, fill, tail, todo>>
  PROVE  AllOf' = AllOf /\ TakenSeq' = TakenSeq
BY DEF AllOf, TakenSeq

(* Begun again.                                                            *)
LEMMA BuildHolds ==
  ASSUME IInv, pc # "read", tail.conds = << >>, UNCHANGED <<p, search, tail, read>>,
         NEW us \in Units(search.cands), NEW for, for # "greedy", Build(us, for)
  PROVE  /\ AllOf' = todo' /\ TakenSeq' = << >>
         /\ state' = NoState /\ pc' = "add" /\ goal' = for
         /\ units' \in Units(search'.cands) /\ fill' = None /\ todo' \in Seq(search'.cands)
         /\ StateHolds' /\ SearchHolds' /\ PhaseHolds'
<1>1. Conds(us) \in Seq(search.cands)
  BY CondsType DEF Units
<1>2. units' = us /\ state' = NoState /\ todo' = Conds(us) /\ fill' = None /\ goal' = for /\ pc' = "add"
  BY DEF Build
<1>3. AllOf' = Conds(us)
  <2>1. AllOf' = Conds(units') \o fill'.group \o tail'.conds
    BY DEF AllOf
  <2>2. fill'.group = << >> /\ tail'.conds = << >>
    BY <1>2, Empties
  <2> QED
    BY <1>1, <1>2, <2>1, <2>2
<1>4. TakenSeq' = << >>
  <2>1. TakenSeq' = SubSeq(AllOf', 1, Len(AllOf') - Len(todo'))
    BY DEF TakenSeq
  <2>2. PICK X, c : X = search.cands /\ c = Conds(us)
    OBVIOUS
  <2>3. << >> \in Seq(X) /\ c \in Seq(X) /\ << >> \o c = c
    BY <1>1, <2>2
  <2>4. SubSeq(c, 1, Len(c) - Len(c)) = << >>
    BY <2>3
  <2> QED
    BY <1>2, <1>3, <2>1, <2>2, <2>4
<1>5. StateHolds'
  <2>1. NoState = [live |-> NoState.live, ranks |-> NoState.ranks]
    BY DEF NoState
  <2>2. AllOf' = TakenSeq' \o todo' /\ TakenSeq' \in Seq(search'.cands)
    BY <1>1, <1>2, <1>3, <1>4
  <2>3. StateAfter(TakenSeq') = NoState
    BY <1>4, StateOfNone
  <2> QED
    BY <1>2, <2>1, <2>2, <2>3 DEF StateHolds
<1>6. SearchHolds'
  BY <1>2 DEF IInv, SearchHolds
<1>7. PhaseHolds'
  BY <1>2 DEF IInv, PhaseHolds
<1> QED
  BY <1>1, <1>2, <1>3, <1>4, <1>5, <1>6, <1>7
-----------------------------------------------------------------------------
LEMMA InitIInv ==
  ASSUME Init
  PROVE  IInv
<1>1. units = << >> /\ state = NoState /\ todo = << >> /\ fill = None /\ tail.conds = << >> /\ read = 0 /\ pc = "read"
  BY DEF Init
<1>2. AllOf = << >>
  <2>1. << >> \o << >> \o << >> = << >>
    OBVIOUS
  <2> QED
    BY <1>1, <2>1, CondsOfNone, Empties DEF AllOf
<1>3. TakenSeq = << >>
  <2>1. SubSeq(<< >>, 1, Len(<< >>) - Len(<< >>)) = << >>
    OBVIOUS
  <2> QED
    BY <1>1, <1>2, <2>1 DEF TakenSeq
<1>4. SpansHold
  <2>1. search.spans = NoForests
    BY DEF Init
  <2>2. ReadSet = {}
    BY <1>1 DEF ReadSet
  <2>3. NoForests \in [Dv -> Forest] /\ \A d \in Dv : Grown(NoForests[d], {}, d)
    BY NoForestsGrown, FiniteAssumption
  <2> QED
    BY <2>1, <2>2, <2>3 DEF SpansHold
<1>5. SearchHolds
  <2>1. Len(Ubcs) \in Nat /\ Len(Ubcs) > 0
    BY UbcsAssumption
  <2> QED
    BY <2>1 DEF Init, SearchHolds
<1>6. UnitsHold
  BY Empties DEF Init, UnitsHold, Units, Nothing
<1>7. PhaseHolds
  BY DEF Init, PhaseHolds
<1>8. StateHolds
  <2>1. NoState = [live |-> NoState.live, ranks |-> NoState.ranks]
    BY DEF NoState
  <2>2. AllOf = TakenSeq \o todo /\ TakenSeq \in Seq(search.cands)
    BY <1>1, <1>2, <1>3, Empties
  <2> QED
    BY <1>1, <1>3, <2>1, <2>2, StateOfNone DEF StateHolds
<1>9. ScoresHold
  BY DEF Init, ScoresHold
<1>10. BestsHold
  BY DEF Init, BestsHold
<1> QED
  BY <1>4, <1>5, <1>6, <1>7, <1>8, <1>9, <1>10 DEF IInv

(* Another published condition in the spans.                               *)
LEMMA ReadSpans ==
  ASSUME IInv, Read
  PROVE  /\ SpansHold' /\ read' = read + 1 /\ read' \in 1 .. Len(Ubcs)
         /\ search'.spans = Applied(search.spans, Ubcs[read'])
<1>1. read \in 0 .. Len(Ubcs) /\ read < Len(Ubcs) /\ read' = read + 1
  BY DEF Read, IInv, SearchHolds
<1>2. Len(Ubcs) \in Nat
  BY UbcsAssumption
<1>3. read' \in 1 .. Len(Ubcs) /\ read \in Nat
  BY <1>1, <1>2
<1>4. Ubcs[read'] \in Published
  BY <1>3, UbcsAssumption
<1>5. PICK c \in Cond : c = Ubcs[read']
  BY <1>4, PublishedAssumption
<1>6. search'.spans = Applied(search.spans, Ubcs[read'])
  BY DEF Read, IInv, SearchHolds
<1>7. ReadSet' = ReadSet \cup {c}
  <2>1. ReadSet' = { Ubcs[n] : n \in 1 .. read + 1 }
    BY <1>1 DEF ReadSet
  <2>2. 1 .. read + 1 = (1 .. read) \cup {read + 1}
    BY <1>3
  <2> QED
    BY <1>1, <1>5, <2>1, <2>2 DEF ReadSet
<1>8. PICK forests : forests = search.spans
  OBVIOUS
<1>9. PICK S : S = ReadSet
  OBVIOUS
<1>10. /\ forests \in [Dv -> Forest] /\ \A d \in Dv : Grown(forests[d], S, d)
       /\ \A e \in S : \A d \in e.dvs : Connected(forests[d], e.u, e.v)
  BY <1>8, <1>9 DEF IInv, SpansHold
<1>11. Applied(forests, c) \in [Dv -> Forest]
  BY ONLY <1>10, AppliedForests
<1>12. \A d \in Dv :
         /\ Grown(Applied(forests, c)[d], S \cup {c}, d)
         /\ \A x, y \in Vertex : Connected(forests[d], x, y) => Connected(Applied(forests, c)[d], x, y)
         /\ d \in c.dvs => Connected(Applied(forests, c)[d], c.u, c.v)
  BY <1>10, AppliedGrown
<1>13. ASSUME NEW e \in S \cup {c}, NEW d \in e.dvs
       PROVE  Connected(Applied(forests, c)[d], e.u, e.v)
  <2>1. e \in Cond
    <3>1. CASE e = c
      BY <3>1
    <3>2. CASE e \in S
      <4>1. \A n \in 1 .. read : n \in DOMAIN Ubcs
        BY <1>1, <1>2, UbcsAssumption
      <4>2. S \subseteq Published
        BY <1>9, <4>1, UbcsAssumption DEF ReadSet
      <4> QED
        BY <3>2, <4>2, PublishedAssumption
    <3> QED
      BY <3>1, <3>2
  <2>2. d \in Dv /\ e.u \in Vertex /\ e.v \in Vertex
    BY <2>1 DEF Cond
  <2>3. CASE e = c
    BY <1>12, <2>2, <2>3
  <2>4. CASE e \in S
    BY <1>10, <1>12, <2>2, <2>4
  <2> QED
    BY <2>3, <2>4
<1>14. SpansHold'
  <2>1. search'.spans = Applied(forests, c) /\ ReadSet' = S \cup {c}
    BY <1>5, <1>6, <1>7, <1>8, <1>9
  <2> QED
    BY ONLY <1>11, <1>12, <1>13, <2>1 DEF SpansHold
<1> QED
  BY <1>1, <1>3, <1>6, <1>14

LEMMA ReadHolds ==
  ASSUME IInv, Read
  PROVE  IInv'
<1>1. /\ SpansHold' /\ read' = read + 1 /\ read' \in 1 .. Len(Ubcs)
      /\ search'.spans = Applied(search.spans, Ubcs[read'])
  BY ReadSpans
<1>2. /\ pc = "read" /\ pc' \in {"read", "best"}
      /\ UNCHANGED <<p, stall, goal, per_group, units, state, todo, fill, descent, vns, tail, plan, form>>
  BY DEF Read
<1>3. search.cands = {} /\ goal = "greedy"
  BY <1>2 DEF IInv, SearchHolds
<1>4. Len(Ubcs) \in Nat
  BY UbcsAssumption
<1>5. SearchHolds'
  <2>1. p' \in Params /\ read' \in 0 .. Len(Ubcs)
    BY <1>1, <1>2, <1>4 DEF IInv, SearchHolds
  <2>2. CASE read' < Len(Ubcs)
    <3>1. search' = [search EXCEPT !.spans = Applied(search.spans, Ubcs[read'])] /\ pc' = "read"
      BY <2>2 DEF Read
    <3>2. search = [spans |-> search.spans, cands |-> search.cands, slots |-> search.slots]
      BY DEF IInv, SearchHolds
    <3>3. /\ search' = [spans |-> search'.spans, cands |-> search'.cands, slots |-> search'.slots]
          /\ search'.cands = {}
      BY <1>3, <3>1, <3>2
    <3> QED
      BY <1>2, <1>3, <2>1, <2>2, <3>1, <3>3 DEF SearchHolds
  <2>3. CASE ~(read' < Len(Ubcs))
    <3>1. /\ search' = [spans |-> search'.spans, cands |-> Candidates(search'.spans),
                        slots |-> SlotLanes(p, Candidates(search'.spans))]
          /\ pc' = "best"
      BY <2>3 DEF Read
    <3>2. read' = Len(Ubcs)
      BY <1>1, <1>4, <2>3
    <3> QED
      BY <1>2, <2>1, <3>1, <3>2 DEF SearchHolds
  <2> QED
    BY <2>2, <2>3
<1>6. Seq(search.cands) \subseteq Seq(search'.cands) /\ Units(search.cands) \subseteq Units(search'.cands)
  <2>1. PICK S, T, U, V : S = search.cands /\ T = search'.cands /\ U = Seq(S) /\ V = Seq(T)
    OBVIOUS
  <2>2. S \subseteq T
    BY <1>3, <2>1
  <2>3. U \subseteq V
    BY <2>1, <2>2, MoreSeq
  <2>4. Seq(U) \subseteq Seq(V)
    BY <2>3, MoreSeq
  <2> QED
    BY <2>1, <2>3, <2>4 DEF Units
<1>7. UnitsHold'
  BY <1>2, <1>6 DEF IInv, UnitsHold
<1>8. PhaseHolds'
  BY <1>2 DEF IInv, PhaseHolds
<1>9. StateHolds'
  <2>1. AllOf' = AllOf /\ TakenSeq' = TakenSeq
    BY <1>2, SameTaken
  <2>2. TakenSeq \in Seq(search'.cands)
    BY <1>6 DEF IInv, StateHolds
  <2> QED
    BY <1>2, <2>1, <2>2 DEF IInv, StateHolds
<1>10. ScoresHold'
  BY <1>2, <1>3 DEF ScoresHold
<1>11. BestsHold'
  <2>1. vns.units = << >> /\ vns.best = Infinity
    BY <1>2, <1>3 DEF IInv, BestsHold
  <2> QED
    BY <1>2, <1>3, <2>1 DEF BestsHold
<1> QED
  BY <1>1, <1>5, <1>7, <1>8, <1>9, <1>10, <1>11 DEF IInv
-----------------------------------------------------------------------------
(* One condition more is taken.                                            *)
LEMMA TakesOne ==
  ASSUME IInv, todo # << >>, UNCHANGED <<units, fill, tail, search>>, todo' = Tail(todo)
  PROVE  /\ Head(todo) \in search.cands /\ Head(todo) \in Cond /\ TakenSeq \in Seq(Cond)
         /\ AllOf' = AllOf /\ TakenSeq' = Append(TakenSeq, Head(todo))
         /\ AllOf' = TakenSeq' \o todo' /\ TakenSeq' \in Seq(search'.cands) /\ todo' \in Seq(search'.cands)
         /\ StateAfter(TakenSeq') = Added(StateAfter(TakenSeq), Head(todo))
         /\ StateAfter(TakenSeq).live = state.live
<1>1. AllOf' = AllOf
  BY DEF AllOf
<1>2. PICK X : X = search.cands
  OBVIOUS
<1>3. TakenSeq \in Seq(X) /\ todo \in Seq(X) /\ AllOf = TakenSeq \o todo
  BY <1>2 DEF IInv, UnitsHold, StateHolds
<1>4. PICK t \in Seq(X), r \in Seq(X) : t = TakenSeq /\ r = todo
  BY <1>3
<1>5. r # << >>
  BY <1>4
<1>6. Head(r) \in X /\ Tail(r) \in Seq(X) /\ t \o r = Append(t, Head(r)) \o Tail(r)
  BY ONLY <1>4, <1>5, HeadTail
<1>7. Append(t, Head(r)) \in Seq(X)
  BY <1>6
<1>8. PICK more \in Seq(X), rest \in Seq(X) : more = Append(t, Head(r)) /\ rest = Tail(r)
  BY <1>6, <1>7
<1>9. SubSeq(more \o rest, 1, Len(more \o rest) - Len(rest)) = more
  BY ONLY <1>8, AllBut
<1>10. AllOf' = more \o rest /\ todo' = rest
  BY <1>1, <1>3, <1>4, <1>6, <1>8
<1>11. TakenSeq' = more
  BY ONLY <1>9, <1>10 DEF TakenSeq
<1>12. X \in SUBSET Cond /\ Seq(X) \subseteq Seq(Cond)
  BY <1>2, CandsFacts
<1>13. t \in Seq(Cond) /\ Head(r) \in Cond
  BY <1>6, <1>12
<1>14. StateAfter(Append(t, Head(r))) = Added(StateAfter(t), Head(r))
  BY ONLY <1>13, StateOfOneMore
<1>15. StateAfter(TakenSeq).live = state.live
  BY DEF IInv, StateHolds
<1> QED
  BY <1>1, <1>2, <1>4, <1>6, <1>8, <1>10, <1>11, <1>13, <1>14, <1>15

LEMMA AddHolds ==
  ASSUME IInv, Add
  PROVE  IInv'
<1>1. /\ pc = "add" /\ todo # << >> /\ state' = Added(state, Head(todo)) /\ todo' = Tail(todo)
      /\ UNCHANGED <<p, stall, read, search, pc, goal, per_group, units, fill, descent, vns, tail, plan, form>>
  BY DEF Add
<1>2. /\ Head(todo) \in search.cands /\ Head(todo) \in Cond /\ TakenSeq \in Seq(Cond)
      /\ AllOf' = AllOf /\ TakenSeq' = Append(TakenSeq, Head(todo))
      /\ AllOf' = TakenSeq' \o todo' /\ TakenSeq' \in Seq(search'.cands) /\ todo' \in Seq(search'.cands)
      /\ StateAfter(TakenSeq') = Added(StateAfter(TakenSeq), Head(todo))
      /\ StateAfter(TakenSeq).live = state.live
  BY <1>1, TakesOne
<1>3. state = StateAfter(TakenSeq)
  <2>1. StateAfter(TakenSeq) \in [live : [Dv -> Forest], ranks : Ranks]
    BY <1>2, StateFacts
  <2>2. state = [live |-> state.live, ranks |-> state.ranks] /\ state.ranks = StateAfter(TakenSeq).ranks
    BY <1>1 DEF IInv, StateHolds
  <2> QED
    BY <1>2, <2>1, <2>2
<1>4. StateHolds'
  <2>1. state' = StateAfter(TakenSeq')
    BY <1>1, <1>2, <1>3
  <2>2. state' = [live |-> state'.live, ranks |-> state'.ranks]
    BY <1>1 DEF Added
  <2> QED
    BY <1>1, <1>2, <2>1, <2>2 DEF StateHolds
<1>5. SpansHold' /\ SearchHolds'
  BY <1>1 DEF IInv, SpansHold, SearchHolds, ReadSet
<1>6. UnitsHold' /\ PhaseHolds'
  BY <1>1, <1>2 DEF IInv, UnitsHold, PhaseHolds
<1>7. ScoresHold' /\ BestsHold'
  BY <1>1 DEF IInv, ScoresHold, BestsHold, ScoreOf
<1> QED
  BY <1>4, <1>5, <1>6, <1>7 DEF IInv

LEMMA AddEndsHolds ==
  ASSUME IInv, AddEnds
  PROVE  IInv'
<1>1. /\ pc = "add" /\ pc' = (IF goal = "plan" THEN "tail" ELSE "best") /\ todo = << >>
      /\ UNCHANGED <<p, stall, read, search, goal, per_group, units, state, todo, fill, descent, vns, tail, plan, form>>
  BY DEF AddEnds
<1>2. AllOf' = AllOf /\ TakenSeq' = TakenSeq
  BY <1>1, SameTaken
<1>3. pc' \in {"tail", "best"}
  BY <1>1
<1>4. SpansHold' /\ SearchHolds'
  BY <1>1, <1>3 DEF IInv, SpansHold, SearchHolds, ReadSet
<1>5. UnitsHold' /\ PhaseHolds'
  BY <1>1, <1>3 DEF IInv, UnitsHold, PhaseHolds
<1>6. StateHolds'
  BY <1>1, <1>2, <1>3 DEF IInv, StateHolds
<1>7. ScoresHold' /\ BestsHold'
  BY <1>1, <1>3 DEF IInv, ScoresHold, BestsHold, ScoreOf, PhaseHolds
<1> QED
  BY <1>4, <1>5, <1>6, <1>7 DEF IInv

LEMMA PickUnitHolds ==
  ASSUME IInv, PickUnit
  PROVE  IInv' /\ TakenSeq' = TakenSeq
<1>1. /\ pc = "best" /\ todo' = fill'.group
      /\ fill' = Best(p, search.slots, state, Free, per_group)
      /\ pc' = (IF fill' = None THEN "full" ELSE "commit")
      /\ UNCHANGED <<p, stall, read, search, goal, per_group, units, state, descent, vns, tail, plan, form>>
  BY DEF PickUnit
<1>2. /\ todo = << >> /\ fill = None /\ tail.conds = << >>
      /\ AllOf = Conds(units) /\ TakenSeq = Conds(units)
      /\ state.live = StateAfter(Conds(units)).live
      /\ state.ranks = StateAfter(Conds(units)).ranks
  BY <1>1, AtRest
<1>3. /\ search.cands \in SUBSET Cond /\ IsFiniteSet(search.cands) /\ Seq(search.cands) \subseteq Seq(Cond)
      /\ Conds(units) \in Seq(search.cands)
  BY CandsFacts, AllType
<1>4. PICK C, base, target, slots, s, free, flip :
        /\ C = search.cands /\ base = Conds(units) /\ target = p /\ slots = search.slots /\ s = state
        /\ free = Free /\ flip = per_group
  OBVIOUS
<1>5. target \in Params /\ target.width \in Nat \ {0}
  BY <1>4, SlotsAssumption DEF IInv, SearchHolds
<1>6. slots = SlotLanes(target, C)
  BY <1>1, <1>4 DEF IInv, SearchHolds
<1>7. C \in SUBSET Cond /\ IsFiniteSet(C) /\ base \in Seq(C) /\ base \in Seq(Cond)
  BY <1>3, <1>4
<1>8. GoodSlots(C, slots)
  BY ONLY <1>5, <1>6, <1>7, SlotLanesGood
<1>9. s.ranks = StateAfter(base).ranks /\ TreesOf(s.live) = TreesOf(StateAfter(base).live)
  BY <1>2, <1>4
<1>10. Best(target, slots, s, free, flip) \in Fillings(target, base, C)
  BY ONLY <1>7, <1>8, <1>9, BestKeeps
<1>11. fill' \in Fillings(target, base, C)
  BY <1>1, <1>4, <1>10
<1>12. fill'.group \in Seq(C) /\ (fill' # None => fill' = FillAt(target, base, fill'.group))
  <2>1. CASE fill' = None
    BY <2>1, Empties
  <2>2. CASE fill' # None
    <3>1. PICK g \in Seq(C) : fill' = FillAt(target, base, g)
      BY <1>11, <2>2 DEF Fillings
    <3>2. FillAt(target, base, g).group = g
      BY DEF FillAt
    <3> QED
      BY <3>1, <3>2
  <2> QED
    BY <2>1, <2>2
<1>13. AllOf' = base \o fill'.group
  <2>1. PICK g \in Seq(C) : g = fill'.group
    BY <1>12
  <2>2. AllOf' = base \o g \o << >>
    BY <1>1, <1>2, <1>4, <2>1 DEF AllOf
  <2>3. base \o g \o << >> = base \o g
    BY <1>7
  <2> QED
    BY ONLY <2>1, <2>2, <2>3
<1>14. TakenSeq' = base
  <2>1. PICK g \in Seq(C) : g = fill'.group
    BY <1>12
  <2>2. SubSeq(base \o g, 1, Len(base \o g) - Len(g)) = base
    BY ONLY <1>7, <2>1, AllBut
  <2> QED
    BY <1>1, <1>13, <2>1, <2>2 DEF TakenSeq
<1>15. pc' \in {"full", "commit"}
  BY <1>1
<1>16. StateHolds'
  <2>1. AllOf' = TakenSeq' \o todo' /\ TakenSeq' \in Seq(search'.cands)
    BY <1>1, <1>4, <1>7, <1>13, <1>14
  <2>2. pc' = "commit" =>
          state'.ranks = StateAfter(Conds(units')).ranks /\ fill' = FillAt(p', Conds(units'), fill'.group)
    BY <1>1, <1>2, <1>4, <1>12
  <2>3. state' = [live |-> state'.live, ranks |-> state'.ranks]
    BY <1>1 DEF IInv, StateHolds
  <2> QED
    BY <1>1, <1>2, <1>4, <1>14, <1>15, <2>1, <2>2, <2>3 DEF StateHolds
<1>17. SpansHold' /\ SearchHolds'
  BY <1>1, <1>15 DEF IInv, SpansHold, SearchHolds, ReadSet
<1>18. UnitsHold'
  BY <1>1, <1>4, <1>12 DEF IInv, UnitsHold
<1>19. PhaseHolds'
  <2>1. todo' # << >> => pc' = "commit"
    BY <1>1, Empties
  <2> QED
    BY <1>1, <1>2, <1>15, <2>1 DEF PhaseHolds
<1>20. ScoresHold' /\ BestsHold'
  BY <1>1, <1>15 DEF IInv, ScoresHold, BestsHold, ScoreOf
<1> QED
  BY <1>2, <1>4, <1>14, <1>16, <1>17, <1>18, <1>19, <1>20 DEF IInv

LEMMA ApplyHolds ==
  ASSUME IInv, Apply
  PROVE  IInv'
<1>1. /\ pc = "commit" /\ todo # << >> /\ state' = [state EXCEPT !.live = Applied(state.live, Head(todo))]
      /\ todo' = Tail(todo)
      /\ UNCHANGED <<p, stall, read, search, pc, goal, per_group, units, fill, descent, vns, tail, plan, form>>
  BY DEF Apply
<1>2. /\ Head(todo) \in search.cands /\ Head(todo) \in Cond /\ TakenSeq \in Seq(Cond)
      /\ AllOf' = AllOf /\ TakenSeq' = Append(TakenSeq, Head(todo))
      /\ AllOf' = TakenSeq' \o todo' /\ TakenSeq' \in Seq(search'.cands) /\ todo' \in Seq(search'.cands)
      /\ StateAfter(TakenSeq') = Added(StateAfter(TakenSeq), Head(todo))
      /\ StateAfter(TakenSeq).live = state.live
  BY <1>1, TakesOne
<1>3. StateHolds'
  <2>1. state = [live |-> state.live, ranks |-> state.ranks]
    BY DEF IInv, StateHolds
  <2>2. state' = [live |-> Applied(state.live, Head(todo)), ranks |-> state.ranks]
    BY <1>1, <2>1
  <2>3. state' = [live |-> state'.live, ranks |-> state'.ranks] /\ state'.ranks = state.ranks
        /\ state'.live = Applied(state.live, Head(todo))
    BY <2>2
  <2>4. StateAfter(TakenSeq').live = Applied(state.live, Head(todo))
    BY <1>2 DEF Added
  <2> QED
    BY <1>1, <1>2, <2>3, <2>4 DEF IInv, StateHolds
<1>4. SpansHold' /\ SearchHolds'
  BY <1>1 DEF IInv, SpansHold, SearchHolds, ReadSet
<1>5. UnitsHold' /\ PhaseHolds'
  BY <1>1, <1>2 DEF IInv, UnitsHold, PhaseHolds
<1>6. ScoresHold' /\ BestsHold'
  BY <1>1 DEF IInv, ScoresHold, BestsHold, ScoreOf
<1> QED
  BY <1>3, <1>4, <1>5, <1>6 DEF IInv

LEMMA CommitHolds ==
  ASSUME IInv, Commit
  PROVE  IInv' /\ TakenSeq' = TakenSeq
<1>1. /\ pc = "commit" /\ todo = << >> /\ units' = Append(units, fill.group)
      /\ state' = [state EXCEPT !.ranks = fill.ranks] /\ fill' = None /\ pc' = "best"
      /\ UNCHANGED <<p, stall, read, search, goal, per_group, todo, descent, vns, tail, plan, form>>
  BY DEF Commit, Committed
<1>2. tail.conds = << >>
  BY <1>1 DEF IInv, PhaseHolds
<1>3. PICK C : C = search.cands
  OBVIOUS
<1>4. units \in Seq(Seq(C)) /\ fill.group \in Seq(C)
  BY <1>3 DEF IInv, UnitsHold, Units
<1>5. PICK us \in Seq(Seq(C)), g \in Seq(C) : us = units /\ g = fill.group
  BY <1>4
<1>6. Conds(Append(us, g)) = Conds(us) \o g /\ Conds(us) \in Seq(C)
  BY CondsOfOneMore, CondsType
<1>7. AllOf = Conds(us) \o g
  <2>1. PICK a \in Seq(C) : a = Conds(us)
    BY <1>6
  <2>2. AllOf = a \o g \o << >>
    BY <1>2, <1>5, <2>1 DEF AllOf
  <2>3. a \o g \o << >> = a \o g
    OBVIOUS
  <2> QED
    BY ONLY <2>1, <2>2, <2>3
<1>8. AllOf' = Conds(us) \o g
  <2>0. PICK b \in Seq(C) : b = Conds(us)
    BY <1>6
  <2>0a. b \o g \in Seq(C)
    OBVIOUS
  <2>1. PICK a \in Seq(C) : a = Conds(us) \o g
    BY ONLY <2>0, <2>0a
  <2>2. AllOf' = a \o << >> \o << >>
    BY <1>1, <1>2, <1>5, <1>6, <2>1, Empties DEF AllOf
  <2>3. a \o << >> \o << >> = a
    OBVIOUS
  <2> QED
    BY ONLY <2>1, <2>2, <2>3
<1>9. TakenSeq' = TakenSeq
  BY <1>1, <1>7, <1>8 DEF TakenSeq
<1>10. TakenSeq = Conds(us) \o g
  BY <1>1, <1>7, AllTaken
<1>11. fill.ranks = StateAfter(TakenSeq).ranks
  <2>1. fill = FillAt(p, Conds(us), g)
    BY <1>1, <1>5 DEF IInv, StateHolds
  <2>2. FillAt(p, Conds(us), g).ranks = StateAfter(Conds(us) \o g).ranks
    BY DEF FillAt
  <2> QED
    BY <1>10, <2>1, <2>2
<1>12. StateHolds'
  <2>1. state = [live |-> state.live, ranks |-> state.ranks]
    BY DEF IInv, StateHolds
  <2>2. state' = [live |-> state.live, ranks |-> fill.ranks]
    BY <1>1, <2>1
  <2>3. state' = [live |-> state'.live, ranks |-> state'.ranks] /\ state'.live = state.live /\ state'.ranks = fill.ranks
    BY <2>2
  <2>4. AllOf' = TakenSeq' \o todo' /\ TakenSeq' \in Seq(search'.cands)
    BY <1>1, <1>7, <1>8, <1>9 DEF IInv, StateHolds
  <2>5. state'.live = StateAfter(TakenSeq').live
    BY <1>9, <2>3 DEF IInv, StateHolds
  <2> QED
    BY <1>1, <1>9, <1>11, <2>3, <2>4, <2>5 DEF StateHolds
<1>13. UnitsHold'
  <2>1. units' \in Units(search'.cands)
    <3>1. Append(us, g) \in Seq(Seq(C))
      OBVIOUS
    <3> QED
      BY <1>1, <1>3, <1>5, <3>1 DEF Units
  <2> QED
    BY <1>1, <2>1, Empties DEF IInv, UnitsHold
<1>14. SpansHold' /\ SearchHolds'
  BY <1>1 DEF IInv, SpansHold, SearchHolds, ReadSet
<1>15. PhaseHolds'
  BY <1>1 DEF IInv, PhaseHolds
<1>16. ScoresHold' /\ BestsHold'
  BY <1>1 DEF IInv, ScoresHold, BestsHold, ScoreOf
<1> QED
  BY <1>9, <1>12, <1>13, <1>14, <1>15, <1>16 DEF IInv
-----------------------------------------------------------------------------
Rest == {"best", "full", "descend", "vns"}

(* Where only the pc moves, between prefixes.                              *)
LEMMA StillHolds ==
  ASSUME IInv, pc \in Rest, pc' \in Rest, UNCHANGED <<p, read, search, units, state, todo, fill, tail>>
  PROVE  SpansHold' /\ SearchHolds' /\ StateHolds' /\ PhaseHolds'
<1>1. AllOf' = AllOf /\ TakenSeq' = TakenSeq
  BY SameTaken
<1>2. SpansHold'
  BY DEF IInv, SpansHold, ReadSet
<1>3. SearchHolds'
  BY DEF IInv, SearchHolds, Rest
<1>4. StateHolds'
  BY <1>1 DEF IInv, StateHolds, Rest
<1>5. PhaseHolds'
  BY DEF IInv, PhaseHolds, Rest
<1> QED
  BY <1>2, <1>3, <1>4, <1>5

LEMMA ScoreFacts ==
  ASSUME IInv, NEW us \in Units(search.cands)
  PROVE  ScoreOf(us) \in Int /\ ScoreOf(us) < Infinity
<1>1. Conds(us) \in Seq(search.cands)
  BY CondsType DEF Units
<1>2. Conds(us) \in Seq(Cond)
  BY <1>1, CandsFacts
<1>3. StateOf(us).ranks \in Ranks
  BY <1>2, StateFacts DEF StateOf, StateAfter
<1>4. p \in Params
  BY DEF IInv, SearchHolds
<1> QED
  BY ONLY <1>3, <1>4, ScoreType, ScoreBelow DEF ScoreOf

LEMMA ScoreHere ==
  ASSUME IInv, pc \in Rest
  PROVE  Score(p, state.ranks) = ScoreOf(units)
BY AtRest DEF Rest, ScoreOf, StateOf, StateAfter

LEMMA GreedyEndsHolds ==
  ASSUME IInv, GreedyEnds
  PROVE  IInv'
<1>1. /\ pc = "full" /\ goal = "greedy" /\ vns' = [vns EXCEPT !.units = units]
      /\ UNCHANGED <<p, stall, read, search, per_group, tail, plan, form>>
      /\ \/ Build(units, "plan") /\ UNCHANGED descent
         \/ Descend(units) /\ pc' = "descend" /\ UNCHANGED <<goal, units, state, todo, fill>>
  BY DEF GreedyEnds, Full
<1>2. units \in Units(search.cands) /\ tail.conds = << >>
  BY <1>1, AtRest DEF IInv, UnitsHold
<1>3. vns' = [units |-> units, best |-> vns.best, k |-> vns.k, idle |-> vns.idle] /\ vns.best = Infinity
  BY <1>1 DEF IInv, UnitsHold, BestsHold
<1>4. vns' = [units |-> vns'.units, best |-> vns'.best, k |-> vns'.k, idle |-> vns'.idle]
      /\ vns'.units = units /\ vns'.best = Infinity
  BY <1>3
<1>5. SpansHold'
  BY <1>1 DEF IInv, SpansHold, ReadSet
<1>6. CASE Build(units, "plan") /\ UNCHANGED descent
  <2>1. PICK us \in Units(search.cands) : us = units
    BY <1>2
  <2>0. PICK for : for = "plan"
    OBVIOUS
  <2>2. pc # "read" /\ for # "greedy" /\ Build(us, for)
    BY <1>1, <1>6, <2>0, <2>1
  <2>3. /\ pc' = "add" /\ goal' = for
        /\ units' \in Units(search'.cands) /\ fill' = None /\ todo' \in Seq(search'.cands)
        /\ StateHolds' /\ SearchHolds' /\ PhaseHolds'
    BY <1>1, <1>2, <2>2, BuildHolds
  <2>4. UnitsHold'
    BY <1>1, <1>2, <1>4, <1>6, <2>3, Empties DEF IInv, UnitsHold
  <2>5. ScoresHold' /\ BestsHold'
    BY <1>4, <2>0, <2>3 DEF ScoresHold, BestsHold
  <2> QED
    BY <1>5, <2>3, <2>4, <2>5 DEF IInv
<1>7. CASE Descend(units) /\ pc' = "descend" /\ UNCHANGED <<goal, units, state, todo, fill>>
  <2>1. SearchHolds' /\ StateHolds' /\ PhaseHolds'
    BY <1>1, <1>7, StillHolds DEF Rest
  <2>2. descent' = [units |-> units, best |-> ScoreOf(units), current |-> units, score |-> ScoreOf(units), idle |-> 0]
    BY <1>7 DEF Descend
  <2>3. UnitsHold'
    BY <1>1, <1>2, <1>4, <1>7, <2>2 DEF IInv, UnitsHold
  <2>4. ScoresHold'
    BY <1>1, <1>7, <2>2 DEF ScoresHold, ScoreOf
  <2>5. BestsHold'
    BY <1>1, <1>4, <1>7, <2>2 DEF BestsHold
  <2> QED
    BY <1>5, <2>1, <2>3, <2>4, <2>5 DEF IInv
<1> QED
  BY <1>1, <1>6, <1>7

(* Units shaken out, whichever they are.                                   *)
LEMMA ShakeHolds ==
  ASSUME IInv, pc \in {"descend", "vns"}, UNCHANGED <<p, read, search, descent, vns, tail>>,
         NEW us \in Units(search.cands), NEW k, NEW for, for # "greedy", Shake(us, k, for)
  PROVE  /\ pc' = "add" /\ goal' = for
         /\ SpansHold' /\ SearchHolds' /\ UnitsHold' /\ PhaseHolds' /\ StateHolds'
<1>1. PICK out, flip : per_group' = flip /\ Build(Without(us, out), for)
  BY DEF Shake
<1>2. Without(us, out) \in Units(search.cands)
  <2>1. PICK X : X = Seq(search.cands)
    OBVIOUS
  <2>2. us \in Seq(X)
    BY <2>1 DEF Units
  <2>3. Without(us, out) \in Seq(X)
    BY ONLY <2>2, WithoutType
  <2> QED
    BY <2>1, <2>3 DEF Units
<1>3. PICK vs \in Units(search.cands) : vs = Without(us, out)
  BY <1>2
<1>4. pc # "read" /\ tail.conds = << >> /\ Build(vs, for)
  BY <1>1, <1>3, AtRest
<1>5. /\ pc' = "add" /\ goal' = for
      /\ units' \in Units(search'.cands) /\ fill' = None /\ todo' \in Seq(search'.cands)
      /\ StateHolds' /\ SearchHolds' /\ PhaseHolds'
  BY <1>4, BuildHolds
<1>6. SpansHold'
  BY DEF IInv, SpansHold, ReadSet
<1>7. UnitsHold'
  BY <1>5, Empties DEF IInv, UnitsHold
<1> QED
  BY <1>5, <1>6, <1>7

LEMMA RoundHolds ==
  ASSUME IInv, Round
  PROVE  IInv'
<1>1. pc = "descend" /\ UNCHANGED <<p, stall, read, search, descent, vns, tail, plan, form>>
  BY DEF Round
<1>2. PICK k : Shake(descent.current, k, "round")
  BY DEF Round
<1>3. PICK us \in Units(search.cands) : us = descent.current
  BY DEF IInv, UnitsHold
<1>0. PICK for : for = "round"
  OBVIOUS
<1>4. for # "greedy" /\ Shake(us, k, for)
  BY <1>0, <1>2, <1>3
<1>5. /\ pc' = "add" /\ goal' = for
      /\ SpansHold' /\ SearchHolds' /\ UnitsHold' /\ PhaseHolds' /\ StateHolds'
  BY <1>1, <1>4, ShakeHolds
<1>6. ScoresHold' /\ BestsHold'
  BY <1>0, <1>1, <1>5 DEF IInv, ScoresHold, BestsHold, ScoreOf
<1> QED
  BY <1>5, <1>6 DEF IInv

LEMMA JumpHolds ==
  ASSUME IInv, Jump
  PROVE  IInv'
<1>1. pc = "vns" /\ UNCHANGED <<p, stall, read, search, descent, vns, tail, plan, form>>
  BY DEF Jump
<1>2. PICK k : Shake(vns.units, k, "shake")
  BY DEF Jump
<1>3. PICK us \in Units(search.cands) : us = vns.units
  BY DEF IInv, UnitsHold
<1>0. PICK for : for = "shake"
  OBVIOUS
<1>4. for # "greedy" /\ Shake(us, k, for)
  BY <1>0, <1>2, <1>3
<1>5. /\ pc' = "add" /\ goal' = for
      /\ SpansHold' /\ SearchHolds' /\ UnitsHold' /\ PhaseHolds' /\ StateHolds'
  BY <1>1, <1>4, ShakeHolds
<1>6. ScoresHold' /\ BestsHold'
  BY <1>0, <1>1, <1>5 DEF IInv, ScoresHold, BestsHold, ScoreOf
<1> QED
  BY <1>5, <1>6 DEF IInv

LEMMA SearchEndsHolds ==
  ASSUME IInv, SearchEnds
  PROVE  IInv'
<1>1. pc = "vns" /\ Build(vns.units, "plan") /\ UNCHANGED <<p, stall, read, search, per_group, descent, vns, tail, plan, form>>
  BY DEF SearchEnds
<1>2. PICK us \in Units(search.cands) : us = vns.units
  BY DEF IInv, UnitsHold
<1>0. PICK for : for = "plan"
  OBVIOUS
<1>3. pc # "read" /\ for # "greedy" /\ Build(us, for) /\ tail.conds = << >>
  BY <1>0, <1>1, <1>2, AtRest
<1>4. /\ pc' = "add" /\ goal' = for
      /\ units' \in Units(search'.cands) /\ fill' = None /\ todo' \in Seq(search'.cands)
      /\ StateHolds' /\ SearchHolds' /\ PhaseHolds'
  BY <1>1, <1>3, BuildHolds
<1>5. SpansHold'
  BY <1>1 DEF IInv, SpansHold, ReadSet
<1>6. UnitsHold'
  BY <1>1, <1>4, Empties DEF IInv, UnitsHold
<1>7. ScoresHold' /\ BestsHold'
  BY <1>0, <1>1, <1>4 DEF IInv, ScoresHold, BestsHold, ScoreOf
<1> QED
  BY <1>4, <1>5, <1>6, <1>7 DEF IInv

LEMMA JumpEndsHolds ==
  ASSUME IInv, JumpEnds
  PROVE  IInv'
<1>1. /\ pc = "full" /\ goal = "shake" /\ Descend(units) /\ pc' = "descend"
      /\ UNCHANGED <<p, stall, read, search, goal, per_group, units, state, todo, fill, vns, tail, plan, form>>
  BY DEF JumpEnds, Full
<1>2. SpansHold' /\ SearchHolds' /\ StateHolds' /\ PhaseHolds'
  BY <1>1, StillHolds DEF Rest
<1>3. descent' = [units |-> units, best |-> ScoreOf(units), current |-> units, score |-> ScoreOf(units), idle |-> 0]
  BY <1>1 DEF Descend
<1>4. UnitsHold'
  BY <1>1, <1>3 DEF IInv, UnitsHold
<1>5. ScoresHold'
  BY <1>1, <1>3 DEF ScoresHold, ScoreOf
<1>6. BestsHold'
  BY <1>1 DEF IInv, BestsHold, ScoreOf
<1> QED
  BY <1>2, <1>4, <1>5, <1>6 DEF IInv

LEMMA RoundEndsHolds ==
  ASSUME IInv, RoundEnds
  PROVE  IInv'
<1>1. /\ pc = "full" /\ goal = "round" /\ descent' = Judged(descent, units, Score(p, state.ranks)) /\ pc' = "descend"
      /\ UNCHANGED <<p, stall, read, search, goal, per_group, units, state, todo, fill, vns, tail, plan, form>>
  BY DEF RoundEnds, Full
<1>2. SpansHold' /\ SearchHolds' /\ StateHolds' /\ PhaseHolds'
  BY <1>1, StillHolds DEF Rest
<1>3. Score(p, state.ranks) = ScoreOf(units)
  BY <1>1, ScoreHere DEF Rest
<1>4. /\ units \in Units(search.cands) /\ descent.units \in Units(search.cands) /\ descent.current \in Units(search.cands)
      /\ descent = [units |-> descent.units, best |-> descent.best, current |-> descent.current,
                    score |-> descent.score, idle |-> descent.idle]
  BY DEF IInv, UnitsHold
<1>5. descent.score = ScoreOf(descent.current) /\ descent.best = ScoreOf(descent.units)
  BY <1>1 DEF IInv, ScoresHold
<1>6. \A us : ScoreOf(us)' = ScoreOf(us)
  BY <1>1 DEF ScoreOf
<1>7. \/ /\ descent'.units = descent.units /\ descent'.best = descent.best
         /\ descent'.current = descent.current /\ descent'.score = descent.score
      \/ /\ descent'.units = units /\ descent'.best = ScoreOf(units)
         /\ descent'.current = units /\ descent'.score = ScoreOf(units)
         /\ ScoreOf(units) < descent.best
      \/ /\ descent'.units = descent.units /\ descent'.best = descent.best
         /\ descent'.current = units /\ descent'.score = ScoreOf(units)
  BY <1>1, <1>3, <1>4 DEF Judged
<1>8. descent' = [units |-> descent'.units, best |-> descent'.best, current |-> descent'.current,
                  score |-> descent'.score, idle |-> descent'.idle]
  BY <1>1, <1>4 DEF Judged
<1>9. UnitsHold'
  BY <1>1, <1>4, <1>7, <1>8 DEF IInv, UnitsHold
<1>10. descent'.score = ScoreOf(descent'.current) /\ descent'.best = ScoreOf(descent'.units)
  BY <1>5, <1>7
<1>11. ScoresHold'
  BY <1>1, <1>10 DEF ScoresHold, ScoreOf
<1>12. vns.best = Infinity =>
         descent'.units = vns.units \/ ScoreOf(descent'.units) < ScoreOf(vns.units)
  <2> SUFFICES ASSUME vns.best = Infinity
               PROVE  descent'.units = vns.units \/ ScoreOf(descent'.units) < ScoreOf(vns.units)
    OBVIOUS
  <2>1. descent.units = vns.units \/ ScoreOf(descent.units) < ScoreOf(vns.units)
    BY <1>1 DEF IInv, BestsHold
  <2>2. vns.units \in Units(search.cands)
    BY DEF IInv, UnitsHold
  <2>3. ScoreOf(units) \in Int /\ ScoreOf(descent.units) \in Int /\ ScoreOf(vns.units) \in Int
    BY <1>4, <2>2, ScoreFacts
  <2>4. CASE descent'.units = descent.units
    BY <2>1, <2>4
  <2>5. CASE descent'.units = units /\ ScoreOf(units) < descent.best
    <3>1. ScoreOf(units) < ScoreOf(descent.units)
      BY <1>5, <2>5
    <3> QED
      BY <2>1, <2>3, <2>5, <3>1
  <2> QED
    BY <1>7, <2>4, <2>5
<1>13. BestsHold'
  BY <1>1, <1>12 DEF IInv, BestsHold, ScoreOf
<1> QED
  BY <1>2, <1>9, <1>11, <1>13 DEF IInv

LEMMA DescentEndsHolds ==
  ASSUME IInv, DescentEnds
  PROVE  /\ IInv'
         /\ vns.units # << >> /\ vns'.units # vns.units => ScoreOf(vns'.units) < ScoreOf(vns.units)
<1>1. /\ pc = "descend" /\ vns' = Kept(vns, descent) /\ pc' = "vns"
      /\ UNCHANGED <<p, stall, read, search, goal, per_group, units, state, todo, fill, descent, tail, plan, form>>
  BY DEF DescentEnds
<1>2. SpansHold' /\ SearchHolds' /\ StateHolds' /\ PhaseHolds'
  BY <1>1, StillHolds DEF Rest
<1>3. /\ descent.units \in Units(search.cands) /\ vns.units \in Units(search.cands)
      /\ vns = [units |-> vns.units, best |-> vns.best, k |-> vns.k, idle |-> vns.idle]
  BY DEF IInv, UnitsHold
<1>4. descent.best = ScoreOf(descent.units)
  BY <1>1 DEF IInv, ScoresHold
<1>5. /\ ScoreOf(descent.units) \in Int /\ ScoreOf(descent.units) < Infinity
      /\ ScoreOf(vns.units) \in Int /\ ScoreOf(vns.units) < Infinity
  BY <1>3, ScoreFacts
<1>6. ScoreOf(descent.units) # Infinity /\ ScoreOf(vns.units) # Infinity
  BY <1>5, InfinityAssumption
<1>7. /\ vns' = [units |-> vns'.units, best |-> vns'.best, k |-> vns'.k, idle |-> vns'.idle]
      /\ \/ vns.best = Infinity /\ vns'.units = descent.units /\ vns'.best = descent.best
         \/ /\ vns.best # Infinity /\ descent.best < vns.best
            /\ vns'.units = descent.units /\ vns'.best = descent.best
         \/ vns.best # Infinity /\ vns'.units = vns.units /\ vns'.best = vns.best
  BY <1>1, <1>3 DEF Kept
<1>8. vns.best # Infinity => vns.best = ScoreOf(vns.units)
  BY DEF IInv, BestsHold
<1>9. vns'.best # Infinity /\ vns'.best = ScoreOf(vns'.units)
  BY <1>4, <1>6, <1>7, <1>8
<1>10. UnitsHold'
  BY <1>1, <1>3, <1>7 DEF IInv, UnitsHold
<1>11. ScoresHold'
  BY <1>1 DEF IInv, ScoresHold, ScoreOf
<1>12. BestsHold'
  BY <1>1, <1>9 DEF BestsHold, ScoreOf
<1>13. vns.units # << >> /\ vns'.units # vns.units => ScoreOf(vns'.units) < ScoreOf(vns.units)
  <2>1. vns.best = Infinity => descent.units = vns.units \/ ScoreOf(descent.units) < ScoreOf(vns.units)
    BY <1>1 DEF IInv, BestsHold
  <2> QED
    BY <1>4, <1>7, <1>8, <2>1
<1> QED
  BY <1>2, <1>10, <1>11, <1>12, <1>13 DEF IInv
-----------------------------------------------------------------------------
(* What a candidate adds to the forests, counted.                          *)
LEMMA GainFacts ==
  ASSUME IInv, NEW c \in search.cands
  PROVE  Gain(c) \in Nat /\ (Gain(c) = 0 <=> Gained(state.live, c) = {})
<1>1. c \in Cond
  BY CandsFacts
<1>2. Gained(state.live, c) \subseteq Dv
  BY <1>1 DEF Gained, Cond
<1>3. PICK G : G = Gained(state.live, c)
  OBVIOUS
<1>4. IsFiniteSet(G)
  BY <1>2, <1>3, FiniteAssumption, FS_Subset
<1>5. Cardinality(G) \in Nat /\ (Cardinality(G) = 0 <=> G = {})
  BY ONLY <1>4, FS_CardinalityType, FS_EmptySet
<1> QED
  BY <1>3, <1>5 DEF Gain

(* The condition the tail takes.                                           *)
LEMMA TailTakes ==
  ASSUME IInv, PickTail
  PROVE  \E pick \in search.cands :
           /\ state' = [state EXCEPT !.live = Applied(state.live, pick)]
           /\ tail'.conds = Append(tail.conds, pick)
<1> DEFINE gain == [c \in search.cands |-> Gain(c)]
           gaining == { c \in search.cands : gain[c] > 0 }
           gains == { gain[c] : c \in gaining }
           most == Max(gains)
           firsts == { c \in gaining : gain[c] = most }
           pick == FirstOf(firsts)
<1>1. search.cands \in SUBSET Cond /\ IsFiniteSet(search.cands)
  BY CandsFacts
<1>2. \A c \in search.cands : gain[c] = Gain(c)
  OBVIOUS
<1>3. \A c \in search.cands : gain[c] \in Nat
  BY GainFacts
<1>4. /\ gaining # {}
      /\ state' = [state EXCEPT !.live = Applied(state.live, pick)]
      /\ tail'.conds = Append(tail.conds, pick)
  <2>1. gaining = { c \in search.cands : Gain(c) > 0 }
    OBVIOUS
  <2>2. gains = { Gain(c) : c \in gaining }
    OBVIOUS
  <2>3. firsts = { c \in gaining : Gain(c) = most }
    OBVIOUS
  <2> HIDE DEF gaining, gains, firsts
  <2>4. PICK more : tail' = [conds |-> Append(tail.conds, pick), added |-> more]
    BY <2>1, <2>2, <2>3 DEF PickTail
  <2> QED
    BY <2>1, <2>2, <2>3, <2>4 DEF PickTail
<1>5. gaining \in SUBSET search.cands /\ IsFiniteSet(gaining)
  BY <1>1, FS_Subset
<1>6. gains \in SUBSET Int /\ gains # {} /\ IsFiniteSet(gains)
  <2>1. gains \in SUBSET Int /\ gains # {}
    <3>1. \A c \in gaining : gain[c] \in Int
      BY <1>3
    <3> HIDE DEF gaining, gain
    <3> QED
      BY ONLY <1>4, <3>1
  <2>2. PICK h : h = [c \in gaining |-> gain[c]]
    OBVIOUS
  <2>3. IsFiniteSet({ h[c] : c \in gaining })
    <3>1. DOMAIN h = gaining /\ h = [c \in gaining |-> h[c]]
      BY <2>2
    <3> HIDE DEF gaining
    <3> QED
      BY ONLY <1>5, <3>1, FiniteImage
  <2>4. { h[c] : c \in gaining } = gains
    BY <2>2
  <2> QED
    BY <2>1, <2>3, <2>4
<1>7. most \in gains
  <2> HIDE DEF gains
  <2> QED
    BY ONLY <1>6, MaxOf
<1>8. firsts # {}
  <2> HIDE DEF most
  <2> QED
    BY <1>7
<1>9. firsts \in SUBSET Cond /\ IsFiniteSet(firsts) /\ firsts \subseteq search.cands
  <2>1. firsts \subseteq gaining
    OBVIOUS
  <2> HIDE DEF firsts, gaining
  <2> QED
    BY <1>1, <1>5, <2>1, FS_Subset
<1>10. pick \in firsts
  <2> HIDE DEF firsts
  <2> QED
    BY ONLY <1>8, <1>9, FirstIsOne
<1>11. pick \in search.cands
  BY <1>9, <1>10
<1> HIDE DEF pick
<1> QED
  BY <1>4, <1>11

LEMMA TailTaken ==
  ASSUME IInv, pc = "tail", NEW pick \in search.cands,
         UNCHANGED <<units, fill, todo>>, tail'.conds = Append(tail.conds, pick)
  PROVE  TakenSeq' = Append(TakenSeq, pick) /\ AllOf' = TakenSeq' /\ todo = << >>
<1>1. todo = << >> /\ fill = None
  BY DEF IInv, PhaseHolds
<1>2. PICK X : X = search.cands
  OBVIOUS
<1>3. Conds(units) \in Seq(X) /\ tail.conds \in Seq(X)
  BY <1>2, AllType DEF IInv, UnitsHold
<1>4. PICK a \in Seq(X), c \in Seq(X), x \in X : a = Conds(units) /\ c = tail.conds /\ x = pick
  BY <1>2, <1>3
<1>5. /\ a \o << >> \o c = a \o c
      /\ a \o << >> \o Append(c, x) = Append(a \o c, x)
      /\ a \o c \in Seq(X) /\ Append(a \o c, x) \in Seq(X)
  OBVIOUS
<1>6. AllOf = a \o c
  BY <1>1, <1>4, <1>5, Empties DEF AllOf
<1>7. AllOf' = Append(a \o c, x)
  BY <1>1, <1>4, <1>5, Empties DEF AllOf
<1>8. TakenSeq = a \o c
  BY <1>1, <1>6, AllTaken
<1>9. PICK all \in Seq(X) : all = Append(a \o c, x)
  BY <1>5
<1>10. SubSeq(all, 1, Len(all) - Len(<< >>)) = all
  OBVIOUS
<1>11. TakenSeq' = all
  BY <1>1, <1>7, <1>9, <1>10 DEF TakenSeq
<1> QED
  BY <1>1, <1>4, <1>7, <1>8, <1>9, <1>11

LEMMA PickTailHolds ==
  ASSUME IInv, PickTail
  PROVE  IInv'
<1>1. /\ pc = "tail"
      /\ UNCHANGED <<p, stall, read, search, pc, goal, per_group, units, todo, fill, descent, vns, plan, form>>
  BY DEF PickTail
<1>2. PICK pick \in search.cands :
        /\ state' = [state EXCEPT !.live = Applied(state.live, pick)]
        /\ tail'.conds = Append(tail.conds, pick)
  BY TailTakes
<1>3. TakenSeq' = Append(TakenSeq, pick) /\ AllOf' = TakenSeq' /\ todo = << >>
  BY <1>1, <1>2, TailTaken
<1>4. /\ search.cands \in SUBSET Cond /\ Seq(search.cands) \subseteq Seq(Cond)
      /\ TakenSeq \in Seq(search.cands) /\ state.live = StateAfter(TakenSeq).live
  BY CandsFacts DEF IInv, StateHolds
<1>5. TakenSeq' \in Seq(search.cands) /\ tail'.conds \in Seq(search.cands) /\ TakenSeq \in Seq(Cond) /\ pick \in Cond
  <2>1. PICK X : X = search.cands
    OBVIOUS
  <2>2. PICK a \in Seq(X), b \in Seq(X), x \in X : a = TakenSeq /\ b = tail.conds /\ x = pick
    BY <1>4, <2>1 DEF IInv, UnitsHold
  <2>3. Append(a, x) \in Seq(X) /\ Append(b, x) \in Seq(X)
    OBVIOUS
  <2> QED
    BY <1>2, <1>3, <1>4, <2>1, <2>2, <2>3
<1>6. StateHolds'
  <2>1. StateAfter(TakenSeq') = Added(StateAfter(TakenSeq), pick)
    BY <1>3, <1>5, StateOfOneMore
  <2>2. state' = [live |-> Applied(state.live, pick), ranks |-> state.ranks]
    BY <1>2 DEF IInv, StateHolds
  <2>3. state' = [live |-> state'.live, ranks |-> state'.ranks] /\ state'.live = Applied(state.live, pick)
    BY <2>2
  <2>4. state'.live = StateAfter(TakenSeq').live
    BY <1>4, <2>1, <2>3 DEF Added
  <2>5. AllOf' = TakenSeq' \o todo'
    <3>1. PICK a \in Seq(search.cands) : a = TakenSeq'
      BY <1>5
    <3>2. a \o << >> = a
      OBVIOUS
    <3> QED
      BY <1>1, <1>3, <3>1, <3>2
  <2> QED
    BY <1>1, <1>5, <2>3, <2>4, <2>5 DEF StateHolds
<1>7. SpansHold' /\ SearchHolds'
  BY <1>1 DEF IInv, SpansHold, SearchHolds, ReadSet
<1>8. UnitsHold' /\ PhaseHolds'
  BY <1>1, <1>5 DEF IInv, UnitsHold, PhaseHolds
<1>9. ScoresHold' /\ BestsHold'
  BY <1>1 DEF IInv, ScoresHold, BestsHold, ScoreOf
<1> QED
  BY <1>6, <1>7, <1>8, <1>9 DEF IInv

LEMMA PlanHolds ==
  ASSUME IInv, Plan
  PROVE  IInv'
<1>1. /\ pc = "tail" /\ pc' \in {"plan", "failed"}
      /\ UNCHANGED <<p, stall, read, search, goal, per_group, units, state, todo, fill, descent, vns, tail, form>>
  BY DEF Plan
<1>2. \A c \in search.cands : Gained(state.live, c) = {}
  BY GainFacts DEF Plan, NothingGains
<1>3. AllOf' = AllOf /\ TakenSeq' = TakenSeq
  BY <1>1, SameTaken
<1>4. StateHolds'
  BY <1>1, <1>2, <1>3 DEF IInv, StateHolds
<1>5. SpansHold' /\ SearchHolds'
  BY <1>1 DEF IInv, SpansHold, SearchHolds, ReadSet
<1>6. UnitsHold' /\ PhaseHolds'
  BY <1>1 DEF IInv, UnitsHold, PhaseHolds
<1>7. ScoresHold' /\ BestsHold'
  BY <1>1 DEF IInv, ScoresHold, BestsHold, ScoreOf
<1> QED
  BY <1>4, <1>5, <1>6, <1>7 DEF IInv

LEMMA EmitHolds ==
  ASSUME IInv, Emit
  PROVE  IInv'
<1>1. /\ pc = "plan" /\ pc' = "emitted"
      /\ UNCHANGED <<p, stall, read, search, goal, per_group, units, state, todo, fill, descent, vns, tail, plan>>
  BY DEF Emit
<1>2. AllOf' = AllOf /\ TakenSeq' = TakenSeq
  BY <1>1, SameTaken
<1>3. StateHolds'
  BY <1>1, <1>2 DEF IInv, StateHolds
<1>4. SpansHold' /\ SearchHolds'
  BY <1>1 DEF IInv, SpansHold, SearchHolds, ReadSet
<1>5. UnitsHold' /\ PhaseHolds'
  BY <1>1 DEF IInv, UnitsHold, PhaseHolds
<1>6. ScoresHold' /\ BestsHold'
  BY <1>1 DEF IInv, ScoresHold, BestsHold, ScoreOf
<1> QED
  BY <1>3, <1>4, <1>5, <1>6 DEF IInv

LEMMA StaysHolds ==
  ASSUME IInv, UNCHANGED vars
  PROVE  IInv'
<1>1. UNCHANGED <<p, stall, read, search, pc, goal, per_group, units, state, todo, fill, descent, vns, tail, plan, form>>
  BY DEF vars
<1>2. AllOf' = AllOf /\ TakenSeq' = TakenSeq
  BY <1>1, SameTaken
<1>3. StateHolds'
  BY <1>1, <1>2 DEF IInv, StateHolds
<1>4. SpansHold' /\ SearchHolds'
  BY <1>1 DEF IInv, SpansHold, SearchHolds, ReadSet
<1>5. UnitsHold' /\ PhaseHolds'
  BY <1>1 DEF IInv, UnitsHold, PhaseHolds
<1>6. ScoresHold' /\ BestsHold'
  BY <1>1 DEF IInv, ScoresHold, BestsHold, ScoreOf
<1> QED
  BY <1>3, <1>4, <1>5, <1>6 DEF IInv

LEMMA NextHolds ==
  ASSUME IInv, [Next]_vars
  PROVE  IInv'
<1>1. CASE Read
  BY <1>1, ReadHolds
<1>2. CASE Add
  BY <1>2, AddHolds
<1>3. CASE AddEnds
  BY <1>3, AddEndsHolds
<1>4. CASE PickUnit
  BY <1>4, PickUnitHolds
<1>5. CASE Apply
  BY <1>5, ApplyHolds
<1>6. CASE Commit
  BY <1>6, CommitHolds
<1>7. CASE GreedyEnds
  BY <1>7, GreedyEndsHolds
<1>8. CASE Round
  BY <1>8, RoundHolds
<1>9. CASE RoundEnds
  BY <1>9, RoundEndsHolds
<1>10. CASE DescentEnds
  BY <1>10, DescentEndsHolds
<1>11. CASE Jump
  BY <1>11, JumpHolds
<1>12. CASE JumpEnds
  BY <1>12, JumpEndsHolds
<1>13. CASE SearchEnds
  BY <1>13, SearchEndsHolds
<1>14. CASE PickTail
  BY <1>14, PickTailHolds
<1>15. CASE Plan
  BY <1>15, PlanHolds
<1>16. CASE Emit
  BY <1>16, EmitHolds
<1>17. CASE Done \/ UNCHANGED vars
  BY <1>17, StaysHolds DEF Done
<1> QED
  BY <1>1, <1>2, <1>3, <1>4, <1>5, <1>6, <1>7, <1>8, <1>9, <1>10, <1>11, <1>12, <1>13, <1>14, <1>15, <1>16, <1>17
     DEF Next

(* Through a whole search, whatever is taken out and put in: the spans and *)
(* the forests say no more and no less than the conditions they were made  *)
(* from, ranks and kept scores are those of the units they stand for, and  *)
(* what is planned gains nothing more (Search::state, commit, descend,     *)
(* vns, tail).                                                             *)
THEOREM SpecIInv == Spec => []IInv
<1>1. Init => IInv
  BY InitIInv
<1>2. IInv /\ [Next]_vars => IInv'
  BY NextHolds
<1> QED
  BY <1>1, <1>2, PTL DEF Spec
-----------------------------------------------------------------------------
(* A step of the search is a step of what it promises, or none.            *)
LEMMA TakenIs == Taken = Range(TakenSeq) /\ Taken' = Range(TakenSeq')
BY Zenon DEF Taken, TakenSeq, AllOf

LEMMA SameNoForests == Basis!NoForests = NoForests
BY Zenon DEF Basis!NoForests, NoForests, Basis!NewForest, NewForest

Unread == { Ubcs[n] : n \in read + 1 .. Len(Ubcs) }
Planned == pc \in {"plan", "emitted", "failed"}

LEMMA AllIsRead ==
  ASSUME IInv, pc # "read"
  PROVE  Unread = {} /\ read = Len(Ubcs) /\ ReadSet = Published
<1>1. read = Len(Ubcs) /\ Len(Ubcs) \in Nat /\ DOMAIN Ubcs = 1 .. Len(Ubcs)
  BY UbcsAssumption DEF IInv, SearchHolds
<1>2. read + 1 .. Len(Ubcs) = {}
  BY <1>1
<1> QED
  BY <1>1, <1>2, UbcsAssumption DEF Unread, ReadSet

LEMMA MapsInit ==
  ASSUME Init
  PROVE  Basis!Init
<1>1. IInv
  BY InitIInv
<1>2. TakenSeq = << >>
  <2>1. AllOf = TakenSeq \o todo /\ TakenSeq \in Seq(search.cands) /\ search.cands = {}
    BY <1>1 DEF IInv, StateHolds, Init
  <2>2. \A s \in Seq({}) : s = << >>
    <3> SUFFICES ASSUME NEW s \in Seq({}), s # << >> PROVE FALSE
      OBVIOUS
    <3>1. Head(s) \in {}
      OBVIOUS
    <3> QED
      BY <3>1
  <2> QED
    BY <2>1, <2>2
<1>3. Taken = {}
  BY <1>2, TakenIs DEF Range
<1>4. Unread = Published
  <2>1. read = 0 /\ DOMAIN Ubcs = 1 .. Len(Ubcs)
    BY UbcsAssumption DEF Init
  <2>2. read + 1 .. Len(Ubcs) = 1 .. Len(Ubcs)
    BY <2>1
  <2> QED
    BY <2>1, <2>2, UbcsAssumption DEF Unread
<1> QED
  BY <1>3, <1>4, SameNoForests DEF Init, NoState, Basis!Init, Unread

LEMMA MapsRead ==
  ASSUME IInv, Read
  PROVE  Basis!Next
<1>1. /\ read' = read + 1 /\ read' \in 1 .. Len(Ubcs)
      /\ search'.spans = Applied(search.spans, Ubcs[read'])
  BY ReadSpans
<1>2. /\ pc = "read" /\ pc' \in {"read", "best"}
      /\ UNCHANGED <<units, state, todo, fill, tail>>
  BY DEF Read
<1>3. Taken' = Taken
  BY <1>2, SameTaken, TakenIs
<1>4. PICK c : c = Ubcs[read + 1]
  OBVIOUS
<1>5. read \in Nat /\ Len(Ubcs) \in Nat /\ read + 1 <= Len(Ubcs) /\ DOMAIN Ubcs = 1 .. Len(Ubcs)
  BY <1>1, UbcsAssumption DEF IInv, SearchHolds
<1>6. c \in Unread
  BY <1>4, <1>5 DEF Unread
<1>7. Unread' = Unread \ {c}
  <2>1. Unread' = { Ubcs[n] : n \in read + 2 .. Len(Ubcs) }
    BY <1>1, <1>5 DEF Unread
  <2>2. read + 1 .. Len(Ubcs) = {read + 1} \cup (read + 2 .. Len(Ubcs))
    BY <1>5
  <2>3. \A n \in read + 2 .. Len(Ubcs) : Ubcs[n] # c
    <3>1. ASSUME NEW n \in read + 2 .. Len(Ubcs) PROVE Ubcs[n] # c
      <4>1. n \in DOMAIN Ubcs /\ read + 1 \in DOMAIN Ubcs /\ n # read + 1
        BY <1>5
      <4> QED
        BY <1>4, <4>1, UbcsAssumption
    <3> QED
      BY <3>1
  <2> QED
    BY <1>4, <2>1, <2>2, <2>3 DEF Unread
<1>8. Basis!Read(c)
  <2>1. search'.spans = Basis!Applied(search.spans, c)
    BY <1>1, <1>4, SameApplied
  <2>2. { Ubcs[n] : n \in read + 1 .. Len(Ubcs) }' = { Ubcs[n] : n \in read + 1 .. Len(Ubcs) } \ {c}
    BY <1>7, Zenon DEF Unread
  <2>3. UNCHANGED (pc \in {"plan", "emitted", "failed"}) /\ UNCHANGED (state.live)
    BY <1>2
  <2> QED
    BY <1>2, <1>3, <2>1, <2>2, <2>3, Zenon DEF Basis!Read
<1> QED
  BY <1>6, <1>8 DEF Basis!Next, Unread

LEMMA MapsTake ==
  ASSUME IInv, UNCHANGED <<read, search>>, pc # "read", ~Planned, ~Planned', NEW c \in search.cands,
         TakenSeq' = Append(TakenSeq, c), state'.live = Applied(state.live, c)
  PROVE  Basis!Next
<1>1. Unread = {} /\ Unread' = Unread
  BY AllIsRead DEF Unread
<1>2. PICK X : X = search.cands
  OBVIOUS
<1>3. PICK t \in Seq(X), x \in X : t = TakenSeq /\ x = c
  BY <1>2 DEF IInv, StateHolds
<1>4. Range(Append(t, x)) = Range(t) \cup {x}
  BY ONLY <1>3, AppendFacts
<1>5. Taken' = Taken \cup {c}
  <2>1. Taken' = Range(TakenSeq')
    BY TakenIs
  <2> QED
    BY <1>3, <1>4, <2>1, TakenIs
<1>6. c \in Basis!Candidates(search.spans)
  BY SameCandidates DEF IInv, SearchHolds
<1>7. Basis!Take(c)
  <2>1. state'.live = Basis!Applied(state.live, c)
    BY SameApplied
  <2>2. /\ { Ubcs[n] : n \in read + 1 .. Len(Ubcs) } = {}
        /\ UNCHANGED { Ubcs[n] : n \in read + 1 .. Len(Ubcs) }
    BY <1>1, Zenon DEF Unread
  <2>3. ~(pc \in {"plan", "emitted", "failed"}) /\ UNCHANGED (pc \in {"plan", "emitted", "failed"})
    BY DEF Planned
  <2> QED
    BY <1>5, <2>1, <2>2, <2>3, Zenon DEF Basis!Take
<1> QED
  BY <1>6, <1>7 DEF Basis!Next

LEMMA MapsRestart ==
  ASSUME UNCHANGED <<read, search>>, ~Planned, ~Planned', TakenSeq' = << >>, state' = NoState
  PROVE  Basis!Next
<1>1. Taken' = {}
  <2>1. Taken' = Range(TakenSeq')
    BY TakenIs
  <2> QED
    BY <2>1 DEF Range
<1>2. state'.live = Basis!NoForests
  BY SameNoForests DEF NoState
<1>3. Basis!Restart
  BY <1>1, <1>2 DEF Basis!Restart, Planned
<1> QED
  BY <1>3 DEF Basis!Next

LEMMA MapsBuild ==
  ASSUME IInv, pc \in Rest, UNCHANGED <<p, search, tail, read>>,
         NEW us \in Units(search.cands), NEW for, for # "greedy", Build(us, for)
  PROVE  Basis!Next
<1>1. pc # "read" /\ tail.conds = << >>
  BY AtRest DEF Rest
<1>2. TakenSeq' = << >> /\ state' = NoState /\ pc' = "add"
  BY <1>1, BuildHolds
<1> QED
  BY <1>2, MapsRestart DEF Rest, Planned

LEMMA MapsStutter ==
  ASSUME UNCHANGED <<read, search>>, TakenSeq' = TakenSeq, state'.live = state.live, Planned' = Planned
  PROVE  UNCHANGED Basis!vars
<1>1. Taken' = Taken
  <2>1. Taken' = Range(TakenSeq')
    BY TakenIs
  <2> QED
    BY <2>1, TakenIs
<1>2. Unread' = Unread
  BY DEF Unread
<1> QED
  BY <1>1, <1>2 DEF Basis!vars, Unread, Planned

LEMMA MapsPlan ==
  ASSUME IInv, Plan
  PROVE  Basis!Next
<1>1. /\ pc = "tail" /\ pc' \in {"plan", "failed"}
      /\ UNCHANGED <<read, search, units, state, todo, fill, tail>>
  BY DEF Plan
<1>2. Unread = {} /\ Unread' = Unread
  BY <1>1, AllIsRead DEF Unread
<1>3. Taken' = Taken
  <2>1. Taken' = Range(TakenSeq')
    BY TakenIs
  <2> QED
    BY <1>1, <2>1, TakenIs, SameTaken
<1>4. search.cands = Basis!Candidates(search.spans)
  BY <1>1, SameCandidates DEF IInv, SearchHolds
<1>5. \A c \in Basis!Candidates(search.spans) : Basis!Gained(state.live, c) = {}
  BY <1>4, GainFacts, SameGained DEF Plan, NothingGains
<1>6. Basis!Plan
  BY <1>1, <1>2, <1>3, <1>5 DEF Basis!Plan, Unread
<1> QED
  BY <1>6 DEF Basis!Next

LEMMA MapsShake ==
  ASSUME IInv, pc \in Rest, UNCHANGED <<p, search, tail, read>>,
         NEW us \in Units(search.cands), NEW k, NEW for, for # "greedy", Shake(us, k, for)
  PROVE  Basis!Next
<1>1. PICK out, flip : per_group' = flip /\ Build(Without(us, out), for)
  BY DEF Shake
<1>2. PICK X : X = Seq(search.cands)
  OBVIOUS
<1>3. us \in Seq(X)
  BY <1>2 DEF Units
<1>4. Without(us, out) \in Seq(X)
  BY ONLY <1>3, WithoutType
<1>5. PICK vs \in Units(search.cands) : vs = Without(us, out)
  BY <1>2, <1>4 DEF Units
<1>6. Build(vs, for)
  BY <1>1, <1>5
<1> QED
  BY <1>6, MapsBuild

LEMMA MapsNext ==
  ASSUME IInv, [Next]_vars
  PROVE  [Basis!Next]_(Basis!vars)
<1>1. CASE Read
  BY <1>1, MapsRead
<1>2. CASE Add \/ Apply
  <2>1. /\ pc \in {"add", "commit"} /\ todo # << >> /\ todo' = Tail(todo)
        /\ UNCHANGED <<read, search, pc, units, fill, tail>>
    BY <1>2 DEF Add, Apply
  <2>2. state'.live = Applied(state.live, Head(todo))
    <3>1. state = [live |-> state.live, ranks |-> state.ranks]
      BY DEF IInv, StateHolds
    <3> QED
      BY <1>2, <3>1 DEF Add, Apply, Added
  <2>3. Head(todo) \in search.cands /\ TakenSeq' = Append(TakenSeq, Head(todo))
    BY <2>1, TakesOne
  <2>4. pc # "read" /\ ~Planned /\ ~Planned'
    BY <2>1 DEF Planned
  <2> QED
    BY <2>1, <2>2, <2>3, <2>4, MapsTake
<1>3. CASE AddEnds \/ RoundEnds \/ DescentEnds \/ JumpEnds \/ Emit \/ Done \/ UNCHANGED vars
  <2>1. UNCHANGED <<read, search, units, state, todo, fill, tail>> /\ Planned' = Planned
    BY <1>3 DEF AddEnds, RoundEnds, DescentEnds, JumpEnds, Emit, Done, vars, Planned, Full
  <2>2. TakenSeq' = TakenSeq
    BY <2>1, SameTaken
  <2> QED
    BY <2>1, <2>2, MapsStutter
<1>4. CASE PickUnit
  <2>1. /\ UNCHANGED <<read, search, state, units, tail>> /\ Planned' = Planned /\ pc = "best" /\ pc' \in {"full", "commit"}
    BY <1>4 DEF PickUnit, Planned
  <2>2. TakenSeq' = TakenSeq
    BY <1>4, <2>1, PickUnitHolds
  <2> QED
    BY <2>1, <2>2, MapsStutter
<1>5. CASE Commit
  <2>1. UNCHANGED <<read, search>> /\ Planned' = Planned /\ state'.live = state.live
    <3>1. state = [live |-> state.live, ranks |-> state.ranks]
      BY DEF IInv, StateHolds
    <3> QED
      BY <1>5, <3>1 DEF Commit, Committed, Planned
  <2>2. TakenSeq' = TakenSeq
    BY <1>5, CommitHolds
  <2> QED
    BY <2>1, <2>2, MapsStutter
<1>6. CASE GreedyEnds
  <2>1. /\ pc = "full" /\ UNCHANGED <<p, read, search, tail>>
        /\ \/ Build(units, "plan")
           \/ pc' = "descend" /\ UNCHANGED <<units, state, todo, fill>>
    BY <1>6 DEF GreedyEnds, Full
  <2>2. CASE Build(units, "plan")
    <3>1. PICK us \in Units(search.cands) : us = units
      BY DEF IInv, UnitsHold
    <3>2. PICK for : for = "plan"
      OBVIOUS
    <3>3. pc \in Rest /\ for # "greedy" /\ Build(us, for)
      BY <2>1, <2>2, <3>1, <3>2 DEF Rest
    <3> QED
      BY <2>1, <3>3, MapsBuild
  <2>3. CASE pc' = "descend" /\ UNCHANGED <<units, state, todo, fill>>
    <3>1. TakenSeq' = TakenSeq /\ Planned' = Planned
      BY <2>1, <2>3, SameTaken DEF Planned
    <3> QED
      BY <2>1, <2>3, <3>1, MapsStutter
  <2> QED
    BY <2>1, <2>2, <2>3
<1>7. CASE Round
  <2>1. pc \in Rest /\ UNCHANGED <<p, read, search, tail>>
    BY <1>7 DEF Round, Rest
  <2>2. PICK k : Shake(descent.current, k, "round")
    BY <1>7 DEF Round
  <2>3. PICK us \in Units(search.cands) : us = descent.current
    BY DEF IInv, UnitsHold
  <2>4. PICK for : for = "round"
    OBVIOUS
  <2>5. for # "greedy" /\ Shake(us, k, for)
    BY <2>2, <2>3, <2>4
  <2> QED
    BY <2>1, <2>5, MapsShake
<1>8. CASE Jump
  <2>1. pc \in Rest /\ UNCHANGED <<p, read, search, tail>>
    BY <1>8 DEF Jump, Rest
  <2>2. PICK k : Shake(vns.units, k, "shake")
    BY <1>8 DEF Jump
  <2>3. PICK us \in Units(search.cands) : us = vns.units
    BY DEF IInv, UnitsHold
  <2>4. PICK for : for = "shake"
    OBVIOUS
  <2>5. for # "greedy" /\ Shake(us, k, for)
    BY <2>2, <2>3, <2>4
  <2> QED
    BY <2>1, <2>5, MapsShake
<1>9. CASE SearchEnds
  <2>1. pc \in Rest /\ UNCHANGED <<p, read, search, tail>> /\ Build(vns.units, "plan")
    BY <1>9 DEF SearchEnds, Rest
  <2>3. PICK us \in Units(search.cands) : us = vns.units
    BY DEF IInv, UnitsHold
  <2>4. PICK for : for = "plan"
    OBVIOUS
  <2>5. for # "greedy" /\ Build(us, for)
    BY <2>1, <2>3, <2>4
  <2> QED
    BY <2>1, <2>5, MapsBuild
<1>10. CASE PickTail
  <2>1. pc = "tail" /\ UNCHANGED <<pc, read, search, units, todo, fill>>
    BY <1>10 DEF PickTail
  <2>2. PICK pick \in search.cands :
          /\ state' = [state EXCEPT !.live = Applied(state.live, pick)]
          /\ tail'.conds = Append(tail.conds, pick)
    BY <1>10, TailTakes
  <2>3. TakenSeq' = Append(TakenSeq, pick)
    BY <2>1, <2>2, TailTaken
  <2>4. state'.live = Applied(state.live, pick)
    BY <2>2 DEF IInv, StateHolds
  <2>5. pc # "read" /\ ~Planned /\ ~Planned'
    BY <2>1 DEF Planned
  <2> QED
    BY <2>1, <2>3, <2>4, <2>5, MapsTake
<1>11. CASE Plan
  BY <1>11, MapsPlan
<1> QED
  BY <1>1, <1>2, <1>3, <1>4, <1>5, <1>6, <1>7, <1>8, <1>9, <1>10, <1>11 DEF Next

(* The search takes candidates and nothing else, starts again from nothing *)
(* with every prefix, and calls a prefix and a tail a plan only when no    *)
(* candidate adds to them (Search::state, refill, tail), for any DVs,      *)
(* published conditions, targets and settings.                             *)
THEOREM SpecImplementsBasis == Spec => ImplementsBasis
<1>1. Init => Basis!Init
  BY MapsInit
<1>2. IInv /\ [Next]_vars => [Basis!Next]_(Basis!vars)
  BY MapsNext
<1> QED
  BY <1>1, <1>2, SpecIInv, PTL DEF Spec, ImplementsBasis, Basis!Spec
-----------------------------------------------------------------------------
(* A candidate holds wherever the published conditions do.                 *)
LEMMA PublishedKeepsTaken ==
  ASSUME IInv, pc # "read", NEW d \in Dv, NEW w \in Schedules, Keeps(w, Published, d)
  PROVE  Keeps(w, Range(TakenSeq), d)
<1>1. Grown(search.spans[d], Published, d)
  BY AllIsRead DEF IInv, SpansHold
<1>2. TakenSeq \in Seq(search.cands) /\ search.cands = Candidates(search.spans)
  BY DEF IInv, StateHolds, SearchHolds
<1>3. ASSUME NEW c \in Range(TakenSeq), d \in c.dvs PROVE Holds(w, c)
  <2>1. c \in Candidates(search.spans)
    BY <1>2 DEF Range
  <2>2. c \in Cond /\ Tied(search.spans, d, c.u, c.v, c.c)
    BY <1>3, <2>1, CandidateFacts
  <2>3. c.u \in Vertex /\ c.v \in Vertex
    BY <2>2 DEF Cond
  <2>0. PICK f : f = search.spans[d]
    OBVIOUS
  <2>4. PICK x \in Vertex, y \in Vertex : x = c.u /\ y = c.v
    BY <2>3
  <2>5. Connected(f, x, y) /\ Xor(Find(f)[x].xor, Find(f)[y].xor) = c.c /\ Grown(f, Published, d)
    BY <1>1, <2>0, <2>2, <2>4 DEF Tied
  <2>6. Xor(w[x], w[y]) = Xor(Find(f)[x].xor, Find(f)[y].xor)
    BY <2>5, ConnectedXor
  <2> QED
    BY <2>4, <2>5, <2>6 DEF Holds
<1> QED
  BY <1>3 DEF Keeps

(* What nothing adds to says all that is published.                        *)
LEMMA TakenKeepsPublished ==
  ASSUME IInv, Planned, NEW d \in Dv, NEW w \in Schedules, Keeps(w, Range(TakenSeq), d)
  PROVE  Keeps(w, Published, d)
<1>0. PICK spans, live, S : spans = search.spans /\ live = state.live /\ S = Range(TakenSeq)
  OBVIOUS
<1>1. /\ pc # "read" /\ Grown(spans[d], Published, d)
      /\ \A o \in Published : d \in o.dvs => Connected(spans[d], o.u, o.v)
  BY <1>0, AllIsRead DEF IInv, SpansHold, Planned
<1>2. Grown(live[d], S, d)
  <2>1. TakenSeq \in Seq(Cond) /\ state.live = StateAfter(TakenSeq).live
    BY CandsFacts DEF IInv, StateHolds
  <2> QED
    BY <1>0, <2>1, StateFacts
<1>3. \A c \in Candidates(spans) : Gained(live, c) = {}
  BY <1>0, <1>1 DEF IInv, StateHolds, SearchHolds, Planned
<1>4. PICK w0 \in Schedules : Keeps(w0, Published, d)
  BY ConsistentAssumption
<1>5. Keeps(w0, S, d)
  BY <1>0, <1>1, <1>4, PublishedKeepsTaken
<1>6. Keeps(w, S, d)
  BY <1>0
<1>7. ASSUME NEW o \in Published, d \in o.dvs PROVE Holds(w, o)
  <2> DEFINE x == o.u
             y == o.v
  <2>1. o \in Cond /\ x \in Vertex /\ y \in Vertex /\ o.c \in Bit
    BY PublishedAssumption DEF Cond
  <2>2. Xor(w0[x], w0[y]) = o.c
    BY <1>4, <1>7 DEF Keeps, Holds
  <2>3. w[x] \in Bit /\ w[y] \in Bit /\ w0[x] \in Bit /\ w0[y] \in Bit
    BY <2>1 DEF Schedules
  <2>4. CASE x = y
    <3>1. Xor(w[x], w[y]) = 0 /\ Xor(w0[x], w0[y]) = 0
      BY <2>3, <2>4, XorBit
    <3> QED
      BY <2>2, <3>1 DEF Holds
  <2>5. CASE x # y
    <3>1. Connected(spans[d], x, y)
      BY <1>1, <1>7
    <3>2. Xor(Find(spans[d])[x].xor, Find(spans[d])[y].xor) = o.c
      BY <1>1, <1>4, <2>1, <2>2, <3>1, ConnectedXor
    <3>3. Tied(spans, d, x, y, o.c)
      BY <3>1, <3>2 DEF Tied
    <3>4. PICK c \in Candidates(spans) :
            d \in c.dvs /\ ((c.u = x /\ c.v = y) \/ (c.u = y /\ c.v = x))
      <4>1. PICK a \in Vertex, b \in Vertex, bit \in Bit : a = x /\ b = y /\ bit = o.c
        BY <2>1
      <4>2. d \in Dv /\ Grown(spans[d], Published, d) /\ Tied(spans, d, a, b, bit) /\ a # b
        BY <1>1, <2>5, <3>3, <4>1
      <4>3. Offered(spans, d, a, b)
        BY ONLY <4>1, <4>2, CandidateFor
      <4> QED
        BY <4>1, <4>3 DEF Offered
    <3>5. Connected(live[d], c.u, c.v)
      BY <1>3, <3>4 DEF Gained
    <3>6. Connected(live[d], x, y)
      BY <3>4, <3>5 DEF Connected
    <3>7. /\ Xor(w[x], w[y]) = Xor(Find(live[d])[x].xor, Find(live[d])[y].xor)
          /\ Xor(w0[x], w0[y]) = Xor(Find(live[d])[x].xor, Find(live[d])[y].xor)
      BY <1>2, <1>5, <1>6, <2>1, <3>6, ConnectedXor
    <3> QED
      BY <2>2, <3>7 DEF Holds
  <2> QED
    BY <2>4, <2>5
<1> QED
  BY <1>7 DEF Keeps

LEMMA SameKeeps == \A w, S, d : Basis!Keeps(w, S, d) <=> Keeps(w, S, d)
BY Zenon DEF Basis!Keeps, Keeps, Basis!Holds, Holds, Basis!Xor, Xor

LEMMA SameSchedules == Basis!Schedules = Schedules
BY Zenon DEF Basis!Schedules, Schedules, Basis!Bit, Bit

(* The plan a search comes to keeps every DV for exactly the schedules the *)
(* published conditions keep it for, whatever units were taken out and put *)
(* in and whatever the tail took (plan, tail).                             *)
THEOREM SpecPlanKeepsPublished == Spec => []PlanKeepsPublished
<1>1. IInv => PlanKeepsPublished
  <2> SUFFICES ASSUME IInv, Planned, NEW d \in Dv, NEW w \in Schedules
               PROVE  Keeps(w, Taken, d) <=> Keeps(w, Published, d)
    BY SameKeeps, SameSchedules DEF PlanKeepsPublished, Basis!PlanKeepsPublished, Planned
  <2>1. pc # "read"
    BY DEF Planned
  <2> QED
    BY <2>1, TakenIs, PublishedKeepsTaken, TakenKeepsPublished
<1> QED
  BY <1>1, SpecIInv, PTL

(* Forests and ranks that fills and commits moved on are those the units   *)
(* give when they are added one by one to nothing, and the scores that a   *)
(* descent keeps are those of its units (commit, Search::state, descend).  *)
THEOREM SpecStateIsThatOfUnits == Spec => []StateIsThatOfUnits
<1>1. IInv => StateIsThatOfUnits
  <2> SUFFICES ASSUME IInv PROVE StateIsThatOfUnits
    OBVIOUS
  <2>1. StateOf(units) = StateAfter(Conds(units))
    BY DEF StateOf, StateAfter
  <2>2. pc = "best" =>
          state.ranks = StateOf(units).ranks /\ state.live = StateOf(units).live
    BY <2>1, AtRest
  <2>3. pc = "descend" =>
          descent.score = ScoreOf(descent.current) /\ descent.best = ScoreOf(descent.units)
    BY DEF IInv, ScoresHold
  <2> QED
    BY <2>2, <2>3 DEF StateIsThatOfUnits
<1> QED
  BY <1>1, SpecIInv, PTL

(* The bounds that stop a fill and the walk over the slots lose nothing:   *)
(* what best finds is the best there is, the first among equals (best,     *)
(* fill, reach); for a vector target by the score on random data, without  *)
(* the share of the last blocks.                                           *)
THEOREM SpecPruningLosesNothing == Spec => []PruningLosesNothing
<1>1. IInv => PruningLosesNothing
  <2> SUFFICES ASSUME IInv, pc = "best"
               PROVE  Best(p, search.slots, state, Free, per_group) = BestOfAll(p, search.slots, state, Free, per_group)
    BY DEF PruningLosesNothing
  <2>1. PICK C, base, target, slots, s, free, flip :
          /\ C = search.cands /\ base = Conds(units) /\ target = p /\ slots = search.slots /\ s = state
          /\ free = Free /\ flip = per_group
    OBVIOUS
  <2>2. target \in Params /\ target.width \in Nat \ {0}
    BY <2>1, SlotsAssumption DEF IInv, SearchHolds
  <2>3. slots = SlotLanes(target, C)
    BY <2>1 DEF IInv, SearchHolds
  <2>4. C \in SUBSET Cond /\ IsFiniteSet(C) /\ base \in Seq(Cond)
    BY <2>1, CandsFacts, AllType
  <2>5. GoodSlots(C, slots) /\ Field(C, slots)
    BY ONLY <2>2, <2>3, <2>4, SlotLanesGood, SlotsApart
  <2>6. s.ranks = StateAfter(base).ranks /\ TreesOf(s.live) = TreesOf(StateAfter(base).live)
    BY <2>1, AtRest
  <2>7. Best(target, slots, s, free, flip) = BestOfAll(target, slots, s, free, flip)
    BY ONLY <2>2, <2>4, <2>5, <2>6, NothingLost
  <2> QED
    BY <2>1, <2>7
<1> QED
  BY <1>1, SpecIInv, PTL

(* From the greedy on, the prefix a plan would be made of only changes for *)
(* one with a better score (descend, vns).                                 *)
THEOREM SpecOnlyBetterIsKept == Spec => OnlyBetterIsKept
<1> DEFINE Better == vns.units # << >> /\ vns'.units # vns.units => ScoreOf(vns'.units) < ScoreOf(vns.units)
<1>1. ASSUME IInv, [Next]_vars PROVE Better
  <2>1. CASE UNCHANGED vns
    BY <2>1
  <2>2. CASE GreedyEnds
    BY <1>1, <2>2 DEF IInv, BestsHold, GreedyEnds, Full
  <2>3. CASE DescentEnds
    BY <1>1, <2>3, DescentEndsHolds
  <2>4. UNCHANGED vns \/ GreedyEnds \/ DescentEnds
    BY <1>1 DEF Next, vars, Read, Add, AddEnds, PickUnit, Apply, Commit, Round, RoundEnds, Jump, JumpEnds,
                SearchEnds, PickTail, Plan, Emit, Done
  <2> QED
    BY <2>1, <2>2, <2>3, <2>4
<1>2. IInv /\ [Next]_vars => [Better]_vars
  BY <1>1
<1> QED
  BY <1>2, SpecIInv, PTL DEF Spec, OnlyBetterIsKept
=============================================================================
