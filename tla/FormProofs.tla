------------------------------ MODULE FormProofs ------------------------------
(***************************************************************************)
(* What is emitted is what the search planned: its groups fit the budget   *)
(* and the schedule, and either form of it keeps a DV for exactly the       *)
(* schedules that the published conditions keep it for.  For any message   *)
(* bits, DVs, published conditions, targets and settings.                  *)
(***************************************************************************)
EXTENDS SearchProofs

(* A fold from the left over a sequence, by a function op on V.            *)
Folded(s, V, base, op, it) ==
  /\ it \in [SUBSET DOMAIN s -> V]
  /\ it[{}] = base
  /\ \A u \in SUBSET DOMAIN s : u # {} => it[u] = op[<<it[u \ {Max(u)}], s[Max(u)]>>]

(* By position.                                                            *)
ByPosition(s, X, V, op) == [m \in (1 .. Len(s)) \X V |-> op[<<m[2], s[m[1]]>>]]

Positioned(s, V, op, n, ch, at) ==
  /\ n \in Nat /\ DOMAIN s = 1 .. n /\ IsFiniteSet(1 .. n)
  /\ at \in [(1 .. n) \X V -> V]
  /\ \A k \in 1 .. n, a \in V : at[<<k, a>>] = op[<<a, s[k]>>]
  /\ \A u \in SUBSET (1 .. n) : u # {} => Max(u) \in u /\ ch[u] = Max(u) /\ ch[u] \in u

LEMMA PositionFacts ==
  ASSUME NEW X, NEW s \in Seq(X), NEW V, NEW op \in [V \X X -> V]
  PROVE  Positioned(s, V, op, Len(s), Latest(Len(s)), ByPosition(s, X, V, op))
<1> DEFINE S == 1 .. Len(s)
<1>1. Len(s) \in Nat /\ DOMAIN s = S /\ \A k \in S : s[k] \in X
  OBVIOUS
<1>2. IsFiniteSet(S) /\ \A u \in SUBSET S : u # {} => Max(u) \in u
  BY <1>1, Positions
<1>3. \A u \in SUBSET S : Latest(Len(s))[u] = Max(u)
  BY DEF Latest
<1>4. \A k \in S, a \in V : ByPosition(s, X, V, op)[<<k, a>>] = op[<<a, s[k]>>]
  BY DEF ByPosition
<1>5. ByPosition(s, X, V, op) \in [S \X V -> V]
  <2>1. \A m \in S \X V : m[1] \in S /\ m[2] \in V /\ <<m[2], s[m[1]]>> \in V \X X
    BY <1>1
  <2>2. \A m \in S \X V : op[<<m[2], s[m[1]]>>] \in V
    BY <2>1
  <2> QED
    BY <2>2 DEF ByPosition
<1> QED
  BY <1>1, <1>2, <1>3, <1>4, <1>5 DEF Positioned

LEMMA FoldedFollows ==
  ASSUME NEW X, NEW s \in Seq(X), NEW V, NEW base \in V, NEW op \in [V \X X -> V], NEW it,
         it = [u \in SUBSET DOMAIN s |-> it[u]], it[{}] = base,
         \A u \in SUBSET DOMAIN s :
           u # {} /\ it[u \ {Max(u)}] \in V => it[u] = op[<<it[u \ {Max(u)}], s[Max(u)]>>]
  PROVE  /\ Follows(1 .. Len(s), Latest(Len(s)), V, base, ByPosition(s, X, V, op), it)
         /\ Folded(s, V, base, op, it)
<1> DEFINE S == 1 .. Len(s)
           ch == Latest(Len(s))
           opp == ByPosition(s, X, V, op)
<1>1. /\ DOMAIN s = S /\ IsFiniteSet(S) /\ opp \in [S \X V -> V]
      /\ \A k \in S, a \in V : opp[<<k, a>>] = op[<<a, s[k]>>]
      /\ \A u \in SUBSET S : u # {} => Max(u) \in u /\ ch[u] = Max(u) /\ ch[u] \in u
  <2>1. Positioned(s, V, op, Len(s), Latest(Len(s)), ByPosition(s, X, V, op))
    BY ONLY s \in Seq(X), op \in [V \X X -> V], PositionFacts
  <2> QED
    BY ONLY <2>1 DEF Positioned
<1> HIDE DEF S, ch, opp
<1>2. it = [u \in SUBSET S |-> it[u]]
  BY <1>1
<1>3. ASSUME NEW u \in SUBSET S, u # {}, it[u \ {ch[u]}] \in V
      PROVE  it[u] = opp[<<ch[u], it[u \ {ch[u]}]>>]
  <2>1. ch[u] = Max(u) /\ ch[u] \in S
    BY <1>1, <1>3
  <2>2. it[u] = op[<<it[u \ {Max(u)}], s[Max(u)]>>]
    BY <1>1, <1>3, <2>1
  <2>3. opp[<<ch[u], it[u \ {ch[u]}]>>] = op[<<it[u \ {ch[u]}], s[ch[u]]>>]
    BY ONLY <1>1, <1>3, <2>1
  <2> QED
    BY ONLY <2>1, <2>2, <2>3
<1>4. Follows(S, ch, V, base, opp, it)
  BY ONLY <1>1, <1>2, <1>3, base \in V, it[{}] = base DEF Follows
<1>5. it \in [SUBSET S -> V]
  BY ONLY <1>4, FoldStays
<1>6. Folded(s, V, base, op, it)
  <2>1. ASSUME NEW u \in SUBSET S, u # {} PROVE it[u] = op[<<it[u \ {Max(u)}], s[Max(u)]>>]
    <3>1. u \ {Max(u)} \in SUBSET S
      OBVIOUS
    <3>2. it[u \ {Max(u)}] \in V
      BY <1>5, <3>1
    <3> QED
      BY <1>1, <2>1, <3>2
  <2> QED
    BY <1>1, <1>5, <2>1 DEF Folded
<1> QED
  BY <1>4, <1>6 DEF S, ch, opp

LEMMA FoldedExists ==
  ASSUME NEW X, NEW s \in Seq(X), NEW V, NEW base \in V, NEW op \in [V \X X -> V]
  PROVE  \E it : Folded(s, V, base, op, it)
<1> DEFINE S == 1 .. Len(s)
           ch == Latest(Len(s))
           opp == ByPosition(s, X, V, op)
<1>1. /\ DOMAIN s = S /\ IsFiniteSet(S) /\ opp \in [S \X V -> V]
      /\ \A k \in S, a \in V : opp[<<k, a>>] = op[<<a, s[k]>>]
      /\ \A u \in SUBSET S : u # {} => Max(u) \in u /\ ch[u] = Max(u) /\ ch[u] \in u
  <2>1. Positioned(s, V, op, Len(s), Latest(Len(s)), ByPosition(s, X, V, op))
    BY ONLY s \in Seq(X), op \in [V \X X -> V], PositionFacts
  <2> QED
    BY ONLY <2>1 DEF Positioned
<1> HIDE DEF S, ch, opp
<1>2. \A u \in SUBSET S : u # {} => ch[u] \in u
  BY <1>1
<1>3. PICK it \in [SUBSET S -> V] : Follows(S, ch, V, base, opp, it)
  BY ONLY <1>1, <1>2, base \in V, FollowsExists
<1>4. ASSUME NEW u \in SUBSET S, u # {} PROVE it[u] = op[<<it[u \ {Max(u)}], s[Max(u)]>>]
  <2>1. ch[u] = Max(u) /\ ch[u] \in S /\ u \ {ch[u]} \in SUBSET S
    BY <1>1, <1>4
  <2>2. it[u \ {ch[u]}] \in V
    BY <1>3, <2>1
  <2>3. it[u] = opp[<<ch[u], it[u \ {ch[u]}]>>]
    BY <1>3, <1>4, <2>2 DEF Follows
  <2> QED
    BY <1>1, <2>1, <2>2, <2>3
<1>5. it[{}] = base
  BY <1>3 DEF Follows
<1> QED
  BY <1>1, <1>3, <1>4, <1>5 DEF Folded

Walk(s, V, base, op, end, f) ==
  /\ f \in [0 .. Len(s) -> V] /\ f[0] = base /\ f[Len(s)] = end
  /\ \A k \in 1 .. Len(s) : f[k] = op[<<f[k - 1], s[k]>>]

LEMMA FoldedWalks ==
  ASSUME NEW X, NEW s \in Seq(X), NEW V, NEW base \in V, NEW op \in [V \X X -> V], NEW it,
         Folded(s, V, base, op, it)
  PROVE  \E f : Walk(s, V, base, op, it[DOMAIN s], f)
<1> DEFINE n == Len(s)
           opp == ByPosition(s, X, V, op)
<1>1. n \in Nat /\ DOMAIN s = 1 .. n /\ \A k \in 1 .. n, a \in V : opp[<<k, a>>] = op[<<a, s[k]>>]
  <2>1. Positioned(s, V, op, Len(s), Latest(Len(s)), ByPosition(s, X, V, op))
    BY ONLY s \in Seq(X), op \in [V \X X -> V], PositionFacts
  <2> QED
    BY ONLY <2>1 DEF Positioned
<1>2. Follows(1 .. n, Latest(n), V, base, opp, it)
  <2>1. it = [u \in SUBSET DOMAIN s |-> it[u]] /\ it[{}] = base
    BY DEF Folded
  <2>2. \A u \in SUBSET DOMAIN s :
          u # {} /\ it[u \ {Max(u)}] \in V => it[u] = op[<<it[u \ {Max(u)}], s[Max(u)]>>]
    BY DEF Folded
  <2> QED
    BY ONLY <2>1, <2>2, s \in Seq(X), base \in V, op \in [V \X X -> V], FoldedFollows
<1> HIDE DEF n, opp
<1>3. PICK f \in [0 .. n -> V] : Steps(n, base, opp, f) /\ it[1 .. n] = f[n]
  BY ONLY <1>1, <1>2, SeqWalks
<1>4. ASSUME NEW k \in 1 .. n PROVE f[k] = op[<<f[k - 1], s[k]>>]
  <2>1. k - 1 \in 0 .. n
    BY <1>1
  <2>2. f[k] = opp[<<k, f[k - 1]>>] /\ f[k - 1] \in V
    BY <1>3, <2>1 DEF Steps
  <2> QED
    BY <1>1, <2>2
<1>5. f[0] = base
  BY <1>3 DEF Steps
<1> QED
  BY <1>1, <1>3, <1>4, <1>5 DEF n, Walk

(* One element more is one step more.                                      *)
Folding(X, s, V, base, op, it) ==
  /\ s \in Seq(X) /\ base \in V /\ op \in [V \X X -> V]
  /\ Folded(s, V, base, op, it)

Extends(X, s, x, t) == x \in X /\ t = Append(s, x)
NextOf(s, x, t, op, it, jt) == jt[DOMAIN t] = op[<<it[DOMAIN s], x>>]

LEMMA FoldedMore ==
  ASSUME NEW X, NEW V, NEW base, NEW op, NEW s, NEW it, Folding(X, s, V, base, op, it),
         NEW t, NEW jt, Folding(X, t, V, base, op, jt), NEW x, Extends(X, s, x, t)
  PROVE  NextOf(s, x, t, op, it, jt)
<1>0. /\ s \in Seq(X) /\ base \in V /\ op \in [V \X X -> V]
      /\ Folded(s, V, base, op, it) /\ Folded(t, V, base, op, jt) /\ x \in X /\ t = Append(s, x)
  BY DEF Folding, Extends
<1> DEFINE n == Len(s)
<1>1. /\ t \in Seq(X) /\ Len(t) = n + 1 /\ t[n + 1] = x /\ n \in Nat
      /\ \A k \in 1 .. n : t[k] = s[k]
  BY <1>0
<1> HIDE DEF n
<1>2. PICK f \in [0 .. n -> V] :
        /\ f[0] = base /\ f[n] = it[DOMAIN s]
        /\ \A k \in 1 .. n : f[k] = op[<<f[k - 1], s[k]>>]
  <2>1. \E f : Walk(s, V, base, op, it[DOMAIN s], f)
    BY ONLY <1>0, FoldedWalks
  <2> QED
    BY ONLY <2>1 DEF n, Walk
<1>4. PICK g \in [0 .. n + 1 -> V] :
        /\ g[0] = base /\ g[n + 1] = jt[DOMAIN t]
        /\ \A k \in 1 .. n + 1 : g[k] = op[<<g[k - 1], t[k]>>]
  <2>1. \E g : Walk(t, V, base, op, jt[DOMAIN t], g)
    BY ONLY <1>0, <1>1, FoldedWalks
  <2> QED
    BY ONLY <1>1, <2>1 DEF Walk
<1> DEFINE Same == { k \in 0 .. n : f[k] = g[k] }
<1>5. 0 \in Same
  BY <1>1, <1>2, <1>4
<1>6. ASSUME NEW k \in 0 .. n - 1, k \in Same PROVE k + 1 \in Same
  <2>1. PICK j : j = k + 1 /\ j \in 1 .. n /\ j - 1 = k /\ j \in 0 .. n /\ j \in 1 .. n + 1
    BY <1>1
  <2>2. f[j] = op[<<f[k], s[j]>>] /\ g[j] = op[<<g[k], t[j]>>]
    BY <1>2, <1>4, <2>1
  <2>3. f[k] = g[k] /\ t[j] = s[j]
    BY <1>1, <1>6, <2>1
  <2> QED
    BY <2>1, <2>2, <2>3
<1>7. f[n] = g[n]
  <2> HIDE DEF Same
  <2>1. 0 .. n \subseteq Same
    BY ONLY <1>1, <1>5, <1>6, UpTo
  <2>2. n \in Same
    BY <1>1, <2>1
  <2> QED
    BY <2>2 DEF Same
<1>8. g[n + 1] = op[<<g[n], x>>]
  <2>1. n + 1 \in 1 .. n + 1 /\ (n + 1) - 1 = n
    BY <1>1
  <2> QED
    BY <1>1, <1>4, <2>1
<1> QED
  BY <1>2, <1>4, <1>7, <1>8 DEF NextOf

(* What the fold of costs recurs on.                                       *)
CostsEq(us, width, it) ==
  it = [u \in SUBSET DOMAIN us |-> IF u = {} THEN 0 ELSE it[u \ {Max(u)}] + Cost(us[Max(u)], width)]

LEMMA SpentRuns ==
  ASSUME NEW us, NEW width
  PROVE  Spent(us, width) = (CHOOSE it : CostsEq(us, width, it))[DOMAIN us]
BY Zenon DEF Spent, FoldLeft, MapThenFoldSet, CostsEq

Nonempty(C) == Seq(C) \ {<< >>}

PlusCost(C, width) == [m \in Nat \X Nonempty(C) |-> m[1] + Cost(m[2], width)]

LEMMA PlusCostType ==
  ASSUME NEW C \in SUBSET Cond, NEW width \in Int
  PROVE  /\ PlusCost(C, width) \in [Nat \X Nonempty(C) -> Nat]
         /\ \A a \in Nat, u \in Nonempty(C) : PlusCost(C, width)[<<a, u>>] = a + Cost(u, width)
<1>1. \A u \in Nonempty(C) : Cost(u, width) \in Nat
  BY CostType DEF Nonempty
<1>2. \A m \in Nat \X Nonempty(C) : m[1] \in Nat /\ m[2] \in Nonempty(C)
  OBVIOUS
<1>3. \A m \in Nat \X Nonempty(C) : m[1] + Cost(m[2], width) \in Nat
  BY <1>1, <1>2
<1> QED
  BY <1>3 DEF PlusCost

LEMMA SpentFolds ==
  ASSUME NEW C \in SUBSET Cond, NEW width \in Int, NEW us \in Seq(Nonempty(C))
  PROVE  \E it : /\ Folded(us, Nat, 0, PlusCost(C, width), it)
                 /\ Spent(us, width) = it[DOMAIN us]
<1> DEFINE X == Nonempty(C)
           op == PlusCost(C, width)
           it == CHOOSE jt : CostsEq(us, width, jt)
<1>1. op \in [Nat \X X -> Nat] /\ \A a \in Nat, u \in X : op[<<a, u>>] = a + Cost(u, width)
  BY PlusCostType
<1>2. 0 \in Nat /\ us \in Seq(X)
  OBVIOUS
<1>3. \A u \in SUBSET DOMAIN us : u # {} => us[Max(u)] \in X
  <2>1. PICK n \in Nat : n = Len(us)
    OBVIOUS
  <2>2. \A u \in SUBSET (1 .. n) : u # {} => Max(u) \in u
    BY Positions
  <2> QED
    BY <2>1, <2>2
<1> HIDE DEF op, X
<1>4. PICK jt : Folded(us, Nat, 0, op, jt)
  BY ONLY <1>1, <1>2, FoldedExists
<1>5. CostsEq(us, width, jt)
  <2>1. ASSUME NEW u \in SUBSET DOMAIN us, u # {}
        PROVE  jt[u] = jt[u \ {Max(u)}] + Cost(us[Max(u)], width)
    <3>1. jt[u \ {Max(u)}] \in Nat
      BY <1>4 DEF Folded
    <3>2. jt[u] = op[<<jt[u \ {Max(u)}], us[Max(u)]>>]
      BY <1>4, <2>1 DEF Folded
    <3> QED
      BY <1>1, <1>3, <2>1, <3>1, <3>2
  <2>2. jt = [u \in SUBSET DOMAIN us |-> jt[u]] /\ jt[{}] = 0
    BY <1>4 DEF Folded
  <2> QED
    BY ONLY <2>1, <2>2 DEF CostsEq
<1>6. CostsEq(us, width, it)
  BY <1>5
<1> HIDE DEF it
<1>7. Folded(us, Nat, 0, op, it)
  <2>1. it = [u \in SUBSET DOMAIN us |-> it[u]] /\ it[{}] = 0
    BY <1>6 DEF CostsEq
  <2>2. ASSUME NEW u \in SUBSET DOMAIN us, u # {}, it[u \ {Max(u)}] \in Nat
        PROVE  it[u] = op[<<it[u \ {Max(u)}], us[Max(u)]>>]
    <3>1. it[u] = it[u \ {Max(u)}] + Cost(us[Max(u)], width)
      BY <1>6, <2>2 DEF CostsEq
    <3> QED
      BY <1>1, <1>3, <2>2, <3>1
  <2> QED
    BY ONLY <1>1, <1>2, <2>1, <2>2, FoldedFollows
<1>8. Spent(us, width) = it[DOMAIN us]
  BY SpentRuns DEF it
<1> QED
  BY <1>7, <1>8 DEF op

LEMMA SpentGrows ==
  ASSUME NEW C \in SUBSET Cond, NEW width \in Int, NEW us \in Seq(Nonempty(C))
  PROVE  /\ Spent(us, width) \in Nat
         /\ \A u \in Nonempty(C) : Spent(Append(us, u), width) = Spent(us, width) + Cost(u, width)
<1> DEFINE X == Nonempty(C)
           op == PlusCost(C, width)
<1>1. op \in [Nat \X X -> Nat] /\ \A a \in Nat, u \in X : op[<<a, u>>] = a + Cost(u, width)
  BY PlusCostType
<1>2. PICK it : Folded(us, Nat, 0, op, it) /\ Spent(us, width) = it[DOMAIN us]
  BY SpentFolds
<1>3. Spent(us, width) \in Nat
  BY <1>2 DEF Folded
<1>4. ASSUME NEW u \in X PROVE Spent(Append(us, u), width) = Spent(us, width) + Cost(u, width)
  <2>0. Append(us, u) \in Seq(X)
    OBVIOUS
  <2>1. PICK t \in Seq(X) : t = Append(us, u)
    BY <2>0
  <2>2. PICK jt : Folded(t, Nat, 0, op, jt) /\ Spent(t, width) = jt[DOMAIN t]
    BY <2>1, SpentFolds
  <2> HIDE DEF op, X
  <2>3. us \in Seq(X) /\ 0 \in Nat
    BY DEF X
  <2>4. jt[DOMAIN t] = op[<<it[DOMAIN us], u>>]
    <3>1. Folding(X, us, Nat, 0, op, it) /\ Folding(X, t, Nat, 0, op, jt)
      BY <1>1, <1>2, <2>1, <2>2, <2>3 DEF Folding
    <3>2. Extends(X, us, u, t)
      BY <2>1 DEF Extends
    <3>3. NextOf(us, u, t, op, it, jt)
      BY ONLY <3>1, <3>2, FoldedMore
    <3> QED
      BY <3>3 DEF NextOf
  <2> QED
    BY <1>1, <1>2, <1>3, <2>1, <2>2, <2>4
<1> QED
  BY <1>3, <1>4

LEMMA SpentOnNone ==
  ASSUME NEW width \in Int
  PROVE  Spent(<< >>, width) = 0
<1>1. PICK us : us = << >> /\ us \in Seq(Nonempty({})) /\ DOMAIN us = {}
  <2>1. DOMAIN << >> = {} /\ \A X : << >> \in Seq(X)
    OBVIOUS
  <2> QED
    BY <2>1
<1>2. PICK it : Folded(us, Nat, 0, PlusCost({}, width), it) /\ Spent(us, width) = it[DOMAIN us]
  <2>1. {} \in SUBSET Cond
    OBVIOUS
  <2> QED
    BY ONLY <1>1, <2>1, width \in Int, SpentFolds
<1> QED
  BY <1>1, <1>2 DEF Folded

-----------------------------------------------------------------------------
(* The members that come before a group.                                   *)
TakenBy(ws) == FoldLeft(LAMBDA sum, window : sum + window.n, 0, ws)

TakenEq(ws, it) ==
  it = [u \in SUBSET DOMAIN ws |-> IF u = {} THEN 0 ELSE it[u \ {Max(u)}] + ws[Max(u)].n]

LEMMA TakenRuns ==
  ASSUME NEW ws
  PROVE  TakenBy(ws) = (CHOOSE it : TakenEq(ws, it))[DOMAIN ws]
BY Zenon DEF TakenBy, FoldLeft, MapThenFoldSet, TakenEq

PlusMembers == [m \in Int \X Group |-> m[1] + m[2].n]

LEMMA PlusMembersType ==
  /\ PlusMembers \in [Int \X Group -> Int]
  /\ \A a \in Int, g \in Group : PlusMembers[<<a, g>>] = a + g.n
<1>1. \A m \in Int \X Group : m[1] \in Int /\ m[2].n \in Int
  BY DEF Group
<1>2. \A m \in Int \X Group : m[1] + m[2].n \in Int
  BY <1>1
<1> QED
  BY <1>2 DEF PlusMembers

LEMMA TakenFolds ==
  ASSUME NEW ws \in Seq(Group)
  PROVE  \E it : Folded(ws, Int, 0, PlusMembers, it) /\ TakenBy(ws) = it[DOMAIN ws]
<1> DEFINE op == PlusMembers
           it == CHOOSE jt : TakenEq(ws, jt)
<1>1. op \in [Int \X Group -> Int] /\ \A a \in Int, g \in Group : op[<<a, g>>] = a + g.n
  BY PlusMembersType
<1>2. 0 \in Int /\ ws \in Seq(Group)
  OBVIOUS
<1>3. \A u \in SUBSET DOMAIN ws : u # {} => ws[Max(u)] \in Group
  <2>1. PICK n \in Nat : n = Len(ws)
    OBVIOUS
  <2>2. \A u \in SUBSET (1 .. n) : u # {} => Max(u) \in u
    BY Positions
  <2> QED
    BY <2>1, <2>2
<1> HIDE DEF op
<1>4. PICK jt : Folded(ws, Int, 0, op, jt)
  BY ONLY <1>1, <1>2, FoldedExists
<1>5. TakenEq(ws, jt)
  <2>1. ASSUME NEW u \in SUBSET DOMAIN ws, u # {}
        PROVE  jt[u] = jt[u \ {Max(u)}] + ws[Max(u)].n
    <3>1. jt[u \ {Max(u)}] \in Int
      BY <1>4 DEF Folded
    <3>2. jt[u] = op[<<jt[u \ {Max(u)}], ws[Max(u)]>>]
      BY <1>4, <2>1 DEF Folded
    <3> QED
      BY <1>1, <1>3, <2>1, <3>1, <3>2
  <2>2. jt = [u \in SUBSET DOMAIN ws |-> jt[u]] /\ jt[{}] = 0
    BY <1>4 DEF Folded
  <2> QED
    BY ONLY <2>1, <2>2 DEF TakenEq
<1>6. TakenEq(ws, it)
  BY <1>5
<1> HIDE DEF it
<1>7. Folded(ws, Int, 0, op, it)
  <2>1. it = [u \in SUBSET DOMAIN ws |-> it[u]] /\ it[{}] = 0
    BY <1>6 DEF TakenEq
  <2>2. ASSUME NEW u \in SUBSET DOMAIN ws, u # {}, it[u \ {Max(u)}] \in Int
        PROVE  it[u] = op[<<it[u \ {Max(u)}], ws[Max(u)]>>]
    <3>1. it[u] = it[u \ {Max(u)}] + ws[Max(u)].n
      BY <1>6, <2>2 DEF TakenEq
    <3> QED
      BY <1>1, <1>3, <2>2, <3>1
  <2> QED
    BY ONLY <1>1, <1>2, <2>1, <2>2, FoldedFollows
<1>8. TakenBy(ws) = it[DOMAIN ws]
  BY TakenRuns DEF it
<1> QED
  BY <1>7, <1>8 DEF op

LEMMA TakenGrows ==
  ASSUME NEW ws \in Seq(Group)
  PROVE  /\ TakenBy(ws) \in Int
         /\ \A g \in Group : TakenBy(Append(ws, g)) = TakenBy(ws) + g.n
<1> DEFINE op == PlusMembers
<1>1. op \in [Int \X Group -> Int] /\ \A a \in Int, g \in Group : op[<<a, g>>] = a + g.n
  BY PlusMembersType
<1>2. PICK it : Folded(ws, Int, 0, op, it) /\ TakenBy(ws) = it[DOMAIN ws]
  BY TakenFolds
<1>3. TakenBy(ws) \in Int
  BY <1>2 DEF Folded
<1>4. ASSUME NEW g \in Group PROVE TakenBy(Append(ws, g)) = TakenBy(ws) + g.n
  <2>0. Append(ws, g) \in Seq(Group)
    OBVIOUS
  <2>1. PICK t \in Seq(Group) : t = Append(ws, g)
    BY <2>0
  <2>2. PICK jt : Folded(t, Int, 0, op, jt) /\ TakenBy(t) = jt[DOMAIN t]
    BY <2>1, TakenFolds
  <2> HIDE DEF op
  <2>3. ws \in Seq(Group) /\ 0 \in Int
    OBVIOUS
  <2>4. jt[DOMAIN t] = op[<<it[DOMAIN ws], g>>]
    <3>1. Folding(Group, ws, Int, 0, op, it) /\ Folding(Group, t, Int, 0, op, jt)
      BY <1>1, <1>2, <2>1, <2>2, <2>3 DEF Folding
    <3>2. Extends(Group, ws, g, t)
      BY <2>1 DEF Extends
    <3>3. NextOf(ws, g, t, op, it, jt)
      BY ONLY <3>1, <3>2, FoldedMore
    <3> QED
      BY <3>3 DEF NextOf
  <2> QED
    BY <1>1, <1>2, <1>3, <2>1, <2>2, <2>4
<1> QED
  BY <1>3, <1>4

LEMMA TakenByNone == TakenBy(<< >>) = 0
<1>1. << >> \in Seq(Group) /\ DOMAIN << >> = {}
  OBVIOUS
<1>2. PICK it : Folded(<< >>, Int, 0, PlusMembers, it) /\ TakenBy(<< >>) = it[{}]
  BY <1>1, TakenFolds
<1> QED
  BY <1>2 DEF Folded

-----------------------------------------------------------------------------
(* Units as they have to be: members in the order of their words, which    *)
(* all share what a group shares.                                          *)
Sound(target, C) ==
  { u \in Nonempty(C) : \A m, n \in 1 .. Len(u) :
      Key(target, u[m]) = Key(target, u[n]) /\ (m < n => I(u[m]) < I(u[n])) }

(* What the first k lanes of a slot can give.                              *)
InLanes(target, C, slot, k) ==
  { u \in Seq(C) : \A m, n \in 1 .. Len(u) :
      Key(target, u[m]) = slot.key /\ I(u[m]) < slot.base + k /\ (m < n => I(u[m]) < I(u[n])) }

LanesFor(target, C, slot) == [k \in 1 .. slot.windows * target.width |-> Lane(target, C, slot, k - 1)]

LEMMA InLanesGrow ==
  ASSUME NEW target, NEW C \in SUBSET Cond, NEW slot, slot.base \in Int, NEW k \in Nat,
         NEW u \in InLanes(target, C, slot, k)
  PROVE  /\ u \in InLanes(target, C, slot, k + 1)
         /\ \A c \in Lane(target, C, slot, k) : Append(u, c) \in InLanes(target, C, slot, k + 1)
<1>1. u \in Seq(C) /\ \A m, n \in 1 .. Len(u) :
        Key(target, u[m]) = slot.key /\ I(u[m]) < slot.base + k /\ (m < n => I(u[m]) < I(u[n]))
  BY DEF InLanes
<1>2. \A m \in 1 .. Len(u) : I(u[m]) \in Int
  <2>1. \A m \in 1 .. Len(u) : u[m] \in Cond
    BY <1>1
  <2> QED
    BY <2>1, NumbersOf
<1>3. \A m \in 1 .. Len(u) : I(u[m]) < slot.base + (k + 1)
  BY <1>1, <1>2
<1>4. u \in InLanes(target, C, slot, k + 1)
  BY <1>1, <1>3 DEF InLanes
<1>5. ASSUME NEW c \in Lane(target, C, slot, k) PROVE Append(u, c) \in InLanes(target, C, slot, k + 1)
  <2>1. c \in C /\ Key(target, c) = slot.key /\ I(c) = slot.base + k /\ I(c) < slot.base + (k + 1)
    BY DEF Lane
  <2>2. PICK t : t = Append(u, c)
    OBVIOUS
  <2>3. PICK l \in Nat : l = Len(u)
    BY <1>1
  <2>4. t \in Seq(C) /\ Len(t) = l + 1 /\ t[l + 1] = c /\ \A m \in 1 .. l : t[m] = u[m]
    BY <1>1, <2>1, <2>2, <2>3, AppendFacts
  <2>5. ASSUME NEW m \in 1 .. l + 1
        PROVE  Key(target, t[m]) = slot.key /\ I(t[m]) < slot.base + (k + 1)
    <3>1. CASE m = l + 1
      BY <2>1, <2>4, <3>1
    <3>2. CASE m \in 1 .. l
      BY <1>1, <1>3, <2>3, <2>4, <3>2
    <3> QED
      BY <3>1, <3>2
  <2>6. ASSUME NEW m \in 1 .. l + 1, NEW n \in 1 .. l + 1, m < n PROVE I(t[m]) < I(t[n])
    <3>1. m \in 1 .. l /\ t[m] = u[m]
      BY <2>4, <2>6
    <3>2. CASE n = l + 1
      BY <1>1, <2>1, <2>3, <2>4, <3>1, <3>2
    <3>3. CASE n \in 1 .. l
      BY <1>1, <2>3, <2>4, <2>6, <3>1, <3>3
    <3> QED
      BY <3>2, <3>3
  <2>7. t \in InLanes(target, C, slot, k + 1)
    BY <2>4, <2>5, <2>6 DEF InLanes
  <2> QED
    BY <2>2, <2>7
<1> QED
  BY <1>4, <1>5

LEMMA RunsInLanes ==
  ASSUME NEW target, NEW base \in Seq(Cond), NEW C \in SUBSET Cond, NEW slot, slot.base \in Int,
         slot.windows * target.width \in Nat,
         LanesOf(C, LanesFor(target, C, slot)), NEW f, Runs(target, base, C, LanesFor(target, C, slot), f)
  PROVE  f[Len(LanesFor(target, C, slot))].group \in InLanes(target, C, slot, Len(LanesFor(target, C, slot)))
<1> DEFINE lanes == LanesFor(target, C, slot)
           n == Len(lanes)
           S == { k \in 0 .. n : f[k].group \in InLanes(target, C, slot, k) }
<1>0. n = slot.windows * target.width /\ n \in Nat /\ \A k \in 1 .. n : lanes[k] = Lane(target, C, slot, k - 1)
  BY DEF LanesFor
<1>1. f[0].group = << >>
  BY DEF Runs, FillAt
<1>2. ASSUME NEW k \in 1 .. n
      PROVE  f[k].group = f[k - 1].group \/ \E c \in lanes[k] : f[k].group = Append(f[k - 1].group, c)
  <2>1. Moves(target, lanes[k], f[k - 1], f[k])
    BY RunsMove
  <2> QED
    BY <2>1 DEF Moves
<1> HIDE DEF n, lanes
<1>3. 0 \in S
  <2>1. << >> \in InLanes(target, C, slot, 0)
    BY DEF InLanes
  <2> QED
    BY <1>0, <1>1, <2>1
<1>4. ASSUME NEW k \in 0 .. n - 1, k \in S PROVE k + 1 \in S
  <2>1. PICK j : j = k + 1 /\ j \in 1 .. n /\ j \in 0 .. n /\ j - 1 = k /\ k \in Nat
    BY <1>0
  <2>2. PICK u \in InLanes(target, C, slot, k) : u = f[k].group
    BY <1>4
  <2>3. f[j].group = u \/ \E c \in Lane(target, C, slot, k) : f[j].group = Append(u, c)
    BY <1>0, <1>2, <2>1, <2>2
  <2>4. u \in InLanes(target, C, slot, k + 1)
        /\ \A c \in Lane(target, C, slot, k) : Append(u, c) \in InLanes(target, C, slot, k + 1)
    BY <2>1, InLanesGrow
  <2>5. f[j].group \in InLanes(target, C, slot, j)
    BY <2>1, <2>3, <2>4
  <2> QED
    BY <2>1, <2>5
<1>5. 0 .. n \subseteq S
  <2> HIDE DEF S
  <2> QED
    BY ONLY <1>0, <1>3, <1>4, UpTo
<1>6. n \in S
  BY <1>0, <1>5
<1> QED
  BY <1>6 DEF n, lanes

(* Whatever fill best finds is a sound unit that fits.                     *)
Affords(target, C, free, f) == f = None \/ (f.group \in Sound(target, C) /\ Cost(f.group, target.width) <= free)

LEMMA SlotFills ==
  ASSUME NEW target \in Params, NEW base \in Seq(Cond), NEW C \in SUBSET Cond, IsFiniteSet(C), NEW grouped,
         NEW x \in SlotLanes(target, C), FullOf(target, FillAt(target, base, << >>), grouped, x) # None
  PROVE  FullOf(target, FillAt(target, base, << >>), grouped, x).group \in Sound(target, C)
<1>0. target.width \in Nat \ {0}
  BY SlotsAssumption
<1>1. PICK slot \in SlotsOf(target, C) : x = [place |-> SlotPlace(slot), lanes |-> LanesFor(target, C, slot)]
  BY DEF SlotLanes, LanesFor
<1>2. slot.base \in Int /\ slot.windows * target.width \in Nat
  <2>1. PICK c \in C, n \in 1 .. WINDOWS, l \in 0 .. target.width - 1 : slot = SlotFor(target, c, n, l)
    BY <1>0, SlotIs
  <2>2. n \in Nat /\ l \in Int /\ I(c) \in Int
    BY <1>0, <2>1, SlotsAssumption, NumbersOf
  <2>3. slot.base = I(c) - l /\ slot.windows = n
    BY <2>1 DEF SlotFor
  <2> QED
    BY <1>0, <2>2, <2>3
<1> DEFINE lanes == LanesFor(target, C, slot)
<1>3. LanesOf(C, lanes) /\ x.lanes = lanes
  <2>1. GoodSlots(C, SlotLanes(target, C))
    BY <1>0, SlotLanesGood
  <2>2. x.lanes = lanes
    BY <1>1
  <2> QED
    BY <2>1, <2>2 DEF GoodSlots, GoodSlot
<1> HIDE DEF lanes
<1>4. PICK f : Ends(target, base, C, grouped, lanes, f)
  BY <1>3, FullRuns
<1>5. Fill(target, FillAt(target, base, << >>), grouped, Infinity, lanes) = f[Len(lanes)]
      /\ f[Len(lanes)].group # << >>
  BY <1>3, <1>4 DEF Ends, FullOf
<1>6. f[Len(lanes)].group \in InLanes(target, C, slot, Len(lanes))
  BY <1>2, <1>3, <1>4, RunsInLanes DEF Ends, lanes
<1>7. f[Len(lanes)].group \in Sound(target, C)
  BY <1>5, <1>6 DEF InLanes, Sound, Nonempty
<1> QED
  BY <1>3, <1>5, <1>7 DEF FullOf

LEMMA BestAffords ==
  ASSUME NEW target \in Params, NEW base \in Seq(Cond), NEW C \in SUBSET Cond, IsFiniteSet(C),
         NEW s, s.ranks = StateAfter(base).ranks, TreesOf(s.live) = TreesOf(StateAfter(base).live),
         NEW free \in Int, NEW grouped
  PROVE  Affords(target, C, free, Best(target, SlotLanes(target, C), s, free, grouped))
<1> DEFINE slots == SlotLanes(target, C)
           start == FillAt(target, base, << >>)
           S == Turns(target, start, free, grouped, slots)
           F == Fitting(target, slots, free)
<1>1. target.width \in Nat \ {0}
  BY SlotsAssumption
<1>2. GoodSlots(C, slots) /\ Field(C, slots)
  BY <1>1, SlotLanesGood, SlotsApart
<1>3. PICK it : BestWalk(target, base, C, slots, s, free, grouped, it)
  BY <1>2, BestWalks
<1>4. Best(target, slots, s, free, grouped) = it[S].fill
  BY <1>3 DEF BestWalk
<1>5. Leads(target, start, free, grouped, F, it[S])
  BY <1>2, <1>3, BestLeads
<1>6. F \subseteq slots
  BY DEF Fitting
<1> HIDE DEF S, F, start, slots
<1>7. CASE it[S] = NoBest
  <2>1. it[S].fill = None
    BY <1>7 DEF NoBest
  <2> QED
    BY <1>4, <2>1 DEF Affords, slots
<1>8. ASSUME NEW x \in F, Counts(target, start, free, grouped, x), it[S] = Standing(target, start, grouped, x)
      PROVE  Affords(target, C, free, it[S].fill)
  <2>1. PICK full : full = FullOf(target, start, grouped, x)
    OBVIOUS
  <2>2. it[S].fill = full
    BY <1>8, <2>1 DEF Standing
  <2>3. full # None /\ ~(Cost(full.group, target.width) > free)
    BY <1>8, <2>1 DEF Counts
  <2>4. full.group \in Sound(target, C)
    BY <1>6, <2>1, <2>3, SlotFills DEF start, slots
  <2>5. Cost(full.group, target.width) \in Int
    <3>1. full.group \in Seq(C) /\ full.group # << >> /\ target.width \in Int
      BY <1>1, <2>4 DEF Sound, Nonempty
    <3>2. PICK g \in Seq(C), width \in Int : g = full.group /\ width = target.width
      BY <3>1
    <3>3. Cost(g, width) \in Nat
      BY ONLY <3>1, <3>2, C \in SUBSET Cond, CostType
    <3> QED
      BY <3>2, <3>3
  <2>6. Cost(full.group, target.width) <= free
    BY <2>3, <2>5
  <2> QED
    BY <2>2, <2>4, <2>6 DEF Affords
<1>9. Affords(target, C, free, it[S].fill)
  BY <1>5, <1>7, <1>8, <1>4 DEF Leads, slots
<1> QED
  BY <1>4, <1>9 DEF slots

-----------------------------------------------------------------------------
(* What units cost, and what is left of it when some are taken out.        *)
Sums(us, width, g) ==
  /\ g \in [0 .. Len(us) -> Nat] /\ g[0] = 0 /\ g[Len(us)] = Spent(us, width)
  /\ \A k \in 1 .. Len(us) : g[k] = g[k - 1] + Cost(us[k], width)

LEMMA SpentWalks ==
  ASSUME NEW C \in SUBSET Cond, NEW width \in Int, NEW us \in Seq(Nonempty(C))
  PROVE  \E g : Sums(us, width, g)
<1> DEFINE X == Nonempty(C)
           op == PlusCost(C, width)
<1>1. op \in [Nat \X X -> Nat] /\ \A a \in Nat, u \in X : op[<<a, u>>] = a + Cost(u, width)
  BY PlusCostType
<1>2. PICK it : Folded(us, Nat, 0, op, it) /\ Spent(us, width) = it[DOMAIN us]
  BY SpentFolds
<1>3. us \in Seq(X) /\ 0 \in Nat
  OBVIOUS
<1> HIDE DEF op, X
<1>4. PICK g : Walk(us, Nat, 0, op, it[DOMAIN us], g)
  BY ONLY <1>1, <1>2, <1>3, FoldedWalks
<1>5. ASSUME NEW k \in 1 .. Len(us) PROVE g[k] = g[k - 1] + Cost(us[k], width)
  <2>1. k - 1 \in 0 .. Len(us)
    BY <1>3
  <2>2. g[k - 1] \in Nat /\ g[k] = op[<<g[k - 1], us[k]>>]
    BY <1>4, <2>1 DEF Walk
  <2>3. us[k] \in X
    BY <1>3
  <2> QED
    BY <1>1, <2>2, <2>3
<1> QED
  BY <1>2, <1>4, <1>5 DEF Walk, Sums

Keeping(us, out, f) ==
  /\ f[0] = << >> /\ f[Len(us)] = Without(us, out)
  /\ \A k \in 1 .. Len(us) : f[k] = IF k \in out THEN f[k - 1] ELSE Append(f[k - 1], us[k])

LEMMA WithoutWalks ==
  ASSUME NEW X, NEW us \in Seq(X), NEW out
  PROVE  \E f \in [0 .. Len(us) -> Seq(X)] : Keeping(us, out, f)
<1> DEFINE N == 1 .. Len(us)
           s == [n \in 1 .. Len(us) |-> n]
           V == Seq(X)
           op == [m \in V \X N |-> IF m[2] \in out THEN m[1] ELSE Append(m[1], us[m[2]])]
           it == CHOOSE jt : WithoutEq(us, out, jt)
<1>0. PICK l \in Nat : l = Len(us)
  OBVIOUS
<1>1. s \in Seq(N) /\ Len(s) = l /\ DOMAIN s = N /\ N = 1 .. l /\ << >> \in V /\ \A n \in N : s[n] = n
  BY <1>0
<1>2. \A n \in N, r \in V : us[n] \in X /\ Append(r, us[n]) \in V
  OBVIOUS
<1>3. op \in [V \X N -> V]
  <2>1. \A m \in V \X N : m[1] \in V /\ m[2] \in N
    OBVIOUS
  <2>2. \A m \in V \X N : (IF m[2] \in out THEN m[1] ELSE Append(m[1], us[m[2]])) \in V
    <3> HIDE DEF V, N
    <3> QED
      BY <1>2, <2>1
  <2> QED
    BY <2>2
<1>4. \A r \in V, n \in N : op[<<r, n>>] = IF n \in out THEN r ELSE Append(r, us[n])
  OBVIOUS
<1>5. \A u \in SUBSET N : u # {} => Max(u) \in u
  BY <1>1, Positions
<1>6. \A jt : WithoutEq(us, out, jt) <=>
        jt = [u \in SUBSET DOMAIN s |-> IF u = {} THEN << >>
               ELSE IF s[Max(u)] \in out THEN jt[u \ {Max(u)}] ELSE Append(jt[u \ {Max(u)}], us[s[Max(u)]])]
  BY DEF WithoutEq
<1> HIDE DEF op, V, s, N
<1>7. PICK jt : Folded(s, V, << >>, op, jt)
  BY ONLY <1>1, <1>3, FoldedExists
<1>8. WithoutEq(us, out, jt)
  <2>1. ASSUME NEW u \in SUBSET DOMAIN s, u # {}
        PROVE  jt[u] = IF s[Max(u)] \in out THEN jt[u \ {Max(u)}] ELSE Append(jt[u \ {Max(u)}], us[s[Max(u)]])
    <3>1. jt[u \ {Max(u)}] \in V
      BY <1>7 DEF Folded
    <3>2. jt[u] = op[<<jt[u \ {Max(u)}], s[Max(u)]>>]
      BY <1>7, <2>1 DEF Folded
    <3>3. s[Max(u)] \in N
      BY <1>1, <1>5, <2>1
    <3> QED
      BY <1>4, <3>1, <3>2, <3>3
  <2>2. jt = [u \in SUBSET DOMAIN s |-> jt[u]] /\ jt[{}] = << >>
    BY <1>7 DEF Folded
  <2> QED
    BY <1>6, <2>1, <2>2
<1>9. WithoutEq(us, out, it)
  BY <1>8
<1> HIDE DEF it
<1>10. Folded(s, V, << >>, op, it)
  <2>0. it = [u \in SUBSET DOMAIN s |-> IF u = {} THEN << >>
               ELSE IF s[Max(u)] \in out THEN it[u \ {Max(u)}] ELSE Append(it[u \ {Max(u)}], us[s[Max(u)]])]
    BY <1>6, <1>9
  <2>1. it = [u \in SUBSET DOMAIN s |-> it[u]] /\ it[{}] = << >>
    BY <2>0
  <2>2. ASSUME NEW u \in SUBSET DOMAIN s, u # {}, it[u \ {Max(u)}] \in V
        PROVE  it[u] = op[<<it[u \ {Max(u)}], s[Max(u)]>>]
    <3>1. it[u] = IF s[Max(u)] \in out THEN it[u \ {Max(u)}] ELSE Append(it[u \ {Max(u)}], us[s[Max(u)]])
      BY ONLY <2>0, <2>2
    <3>2. s[Max(u)] \in N
      BY <1>1, <1>5, <2>2
    <3> QED
      BY <1>4, <2>2, <3>1, <3>2
  <2> QED
    BY ONLY <1>1, <1>3, <2>1, <2>2, FoldedFollows
<1>11. Without(us, out) = it[DOMAIN s]
  BY WithoutRuns DEF it, s
<1>12. PICK f : Walk(s, V, << >>, op, it[DOMAIN s], f)
  BY ONLY <1>1, <1>3, <1>10, FoldedWalks
<1>13. f \in [0 .. l -> V] /\ f[0] = << >> /\ f[l] = Without(us, out)
  BY <1>1, <1>11, <1>12 DEF Walk
<1>14. ASSUME NEW k \in 1 .. l PROVE f[k] = IF k \in out THEN f[k - 1] ELSE Append(f[k - 1], us[k])
  <2>1. k - 1 \in 0 .. l
    BY <1>0
  <2>2. f[k - 1] \in V /\ f[k] = op[<<f[k - 1], s[k]>>]
    BY <1>1, <1>12, <1>13, <2>1 DEF Walk
  <2> QED
    BY <1>1, <1>4, <2>2
<1> QED
  BY <1>0, <1>13, <1>14 DEF Keeping, V

LEMMA WithoutCosts ==
  ASSUME NEW target, NEW C \in SUBSET Cond, target.width \in Int, NEW us \in Seq(Sound(target, C)), NEW out
  PROVE  /\ Without(us, out) \in Seq(Sound(target, C))
         /\ Spent(Without(us, out), target.width) <= Spent(us, target.width)
<1> DEFINE X == Sound(target, C)
<1>1. PICK width \in Int : width = target.width
  OBVIOUS
<1>2. PICK n \in Nat : n = Len(us)
  OBVIOUS
<1>3. PICK f \in [0 .. n -> Seq(X)] : Keeping(us, out, f)
  <2>1. \E f \in [0 .. Len(us) -> Seq(X)] : Keeping(us, out, f)
    BY WithoutWalks
  <2> QED
    BY <1>2, <2>1
<1>4. X \subseteq Nonempty(C) /\ Seq(X) \subseteq Seq(Nonempty(C))
  <2>1. X \subseteq Nonempty(C)
    BY DEF Sound
  <2> QED
    BY <2>1, MoreSeq
<1>5. PICK g : Sums(us, width, g)
  BY <1>4, SpentWalks
<1>6. us \in Seq(X) /\ \A k \in 1 .. n : us[k] \in X
  BY <1>2
<1> HIDE DEF X
<1> DEFINE S == { k \in 0 .. n : Spent(f[k], width) <= g[k] }
<1>7. 0 \in S
  <2>1. Spent(f[0], width) = 0
    BY <1>3, SpentOnNone DEF Keeping
  <2> QED
    BY <1>2, <1>5, <2>1 DEF Sums
<1>8. ASSUME NEW k \in 0 .. n - 1, k \in S PROVE k + 1 \in S
  <2>1. PICK j : j = k + 1 /\ j \in 1 .. n /\ j - 1 = k /\ j \in 0 .. n /\ k \in 0 .. n
    BY <1>2
  <2>2. f[j] = IF j \in out THEN f[k] ELSE Append(f[k], us[j])
    BY <1>2, <1>3, <2>1 DEF Keeping
  <2>3. g[j] = g[k] + Cost(us[j], width) /\ g[k] \in Nat
    BY <1>2, <1>5, <2>1 DEF Sums
  <2>4. PICK r \in Seq(Nonempty(C)) : r = f[k]
    BY <1>3, <1>4, <2>1
  <2>5. PICK u \in Nonempty(C) : u = us[j]
    BY <1>4, <1>6, <2>1
  <2>6. Spent(r, width) \in Nat /\ Spent(Append(r, u), width) = Spent(r, width) + Cost(u, width)
    BY SpentGrows
  <2>7. Cost(u, width) \in Nat
    BY CostType DEF Nonempty
  <2>8. Spent(r, width) <= g[k]
    BY <1>8, <2>4
  <2>9. Spent(f[j], width) <= g[j]
    BY <2>2, <2>3, <2>4, <2>5, <2>6, <2>7, <2>8
  <2> QED
    BY <2>1, <2>9
<1>9. n \in S
  <2>1. 0 .. n \subseteq S
    <3> HIDE DEF S
    <3> QED
      BY ONLY <1>2, <1>7, <1>8, UpTo
  <2> QED
    BY <1>2, <2>1
<1>10. f[n] = Without(us, out) /\ f[n] \in Seq(X) /\ g[n] = Spent(us, width)
  BY <1>2, <1>3, <1>5 DEF Keeping, Sums
<1> QED
  BY <1>1, <1>9, <1>10 DEF X

-----------------------------------------------------------------------------
(* Every prefix there is, or that was kept, is of sound units and within   *)
(* the budget, also with the unit that is being committed.                 *)
Budgeted == { us \in Seq(Sound(p, search.cands)) : Spent(us, p.width) <= p.groups }

UnitsFit ==
  /\ {units, descent.units, descent.current, vns.units} \subseteq Budgeted
  /\ fill # None =>
       /\ fill.group \in Sound(p, search.cands)
       /\ Spent(units, p.width) + Cost(fill.group, p.width) <= p.groups

(* The plan is of the units, and the form of the plan.                     *)
PlanIs ==
  /\ pc \in {"plan", "emitted", "failed"} => plan = PlanOf(units, tail.conds, state.ranks)
  /\ pc = "emitted" => form = FormOf(plan, p.width)

FInv == IInv /\ UnitsFit /\ PlanIs

LEMMA ParamFacts ==
  ASSUME IInv
  PROVE  p \in Params /\ p.width \in Nat \ {0} /\ p.groups \in Nat /\ search.cands \in SUBSET Cond
<1>1. p \in Params
  BY DEF IInv, SearchHolds
<1> QED
  BY <1>1, CandsFacts, SlotsAssumption

LEMMA BudgetFacts ==
  ASSUME IInv
  PROVE  /\ << >> \in Budgeted
         /\ \A us \in Budgeted : us \in Seq(Nonempty(search.cands)) /\ Spent(us, p.width) \in Nat
         /\ \A us \in Budgeted : \A out : Without(us, out) \in Budgeted
<1> DEFINE X == Sound(p, search.cands)
<1>1. p.width \in Int /\ p.groups \in Nat /\ search.cands \in SUBSET Cond
  BY ParamFacts
<1>2. PICK C \in SUBSET Cond, width \in Int : C = search.cands /\ width = p.width
  BY <1>1
<1>3. X \subseteq Nonempty(C)
  BY <1>2 DEF Sound
<1>4. Seq(X) \subseteq Seq(Nonempty(C))
  BY <1>3, MoreSeq
<1>5. Spent(<< >>, width) = 0 /\ << >> \in Seq(X)
  BY SpentOnNone
<1>6. << >> \in Budgeted
  BY <1>1, <1>2, <1>5 DEF Budgeted
<1>7. ASSUME NEW us \in Budgeted PROVE us \in Seq(Nonempty(C)) /\ Spent(us, width) \in Nat
  <2>1. us \in Seq(Nonempty(C))
    BY <1>4 DEF Budgeted
  <2> QED
    BY <2>1, SpentGrows
<1>8. ASSUME NEW us \in Budgeted, NEW out PROVE Without(us, out) \in Budgeted
  <2>1. us \in Seq(Sound(p, C)) /\ Spent(us, p.width) <= p.groups
    BY <1>2 DEF Budgeted
  <2>2. /\ Without(us, out) \in Seq(Sound(p, C))
        /\ Spent(Without(us, out), p.width) <= Spent(us, p.width)
    BY <1>1, <2>1, WithoutCosts
  <2>3. Without(us, out) \in Seq(Nonempty(C))
    BY <1>2, <1>4, <2>2
  <2>4. Spent(Without(us, out), width) \in Nat /\ Spent(us, width) \in Nat
    BY <1>7, <2>3, SpentGrows
  <2> QED
    BY <1>1, <1>2, <2>1, <2>2, <2>4 DEF Budgeted
<1> QED
  BY <1>2, <1>6, <1>7, <1>8

LEMMA InitFits ==
  ASSUME Init
  PROVE  UnitsFit /\ PlanIs
<1>1. IInv
  BY InitIInv
<1>2. << >> \in Budgeted
  BY <1>1, BudgetFacts
<1>3. units = << >> /\ descent.units = << >> /\ descent.current = << >> /\ vns.units = << >> /\ fill = None
  BY DEF Init, Nothing
<1>4. pc = "read"
  BY DEF Init
<1> QED
  BY <1>2, <1>3, <1>4 DEF UnitsFit, PlanIs

LEMMA ReadFits ==
  ASSUME IInv, UnitsFit, Read
  PROVE  UnitsFit'
<1>1. pc = "read" /\ UNCHANGED <<p, units, fill, descent, vns>> /\ fill = None
  <2>1. pc = "read" /\ UNCHANGED <<p, units, fill, descent, vns>>
    BY DEF Read
  <2> QED
    BY <2>1 DEF IInv, PhaseHolds
<1>2. search.cands = {}
  BY <1>1 DEF IInv, SearchHolds
<1>3. IInv'
  BY ReadHolds
<1>4. << >> \in Budgeted'
  <2>1. p' \in Params /\ p'.width \in Int /\ p'.groups \in Nat
    BY <1>3, ParamFacts, <1>1 DEF IInv, SearchHolds
  <2>2. Spent(<< >>, p'.width) = 0
    BY <2>1, SpentOnNone
  <2>3. << >> \in Seq(Sound(p', search'.cands))
    OBVIOUS
  <2> QED
    BY <2>1, <2>2, <2>3 DEF Budgeted
<1>5. \A us \in Budgeted : us = << >>
  <2>1. Nonempty({}) = {}
    <3>1. \A s \in Seq({}) : s = << >>
      <4> SUFFICES ASSUME NEW s \in Seq({}) PROVE s = << >>
        OBVIOUS
      <4>1. PICK n \in Nat : n = Len(s)
        OBVIOUS
      <4>2. \A k \in 1 .. n : s[k] \in {}
        BY <4>1
      <4>3. n = 0
        BY <4>2
      <4> QED
        BY <4>1, <4>3
    <3> QED
      BY <3>1 DEF Nonempty
  <2>2. Sound(p, search.cands) = {}
    BY <1>2, <2>1 DEF Sound
  <2> SUFFICES ASSUME NEW us \in Budgeted PROVE us = << >>
    OBVIOUS
  <2>3. us \in Seq({})
    BY <2>2 DEF Budgeted
  <2>4. PICK n \in Nat : n = Len(us)
    BY <2>3
  <2>5. \A k \in 1 .. n : us[k] \in {}
    BY <2>3, <2>4
  <2>6. n = 0
    BY <2>5
  <2> QED
    BY <2>3, <2>4, <2>6
<1> QED
  BY <1>1, <1>4, <1>5 DEF UnitsFit

(* A step that only starts or goes on from prefixes there were.            *)
LEMMA SameBudget ==
  ASSUME UNCHANGED <<p, search>>
  PROVE  Budgeted' = Budgeted /\ Sound(p', search'.cands) = Sound(p, search.cands)
BY DEF Budgeted

LEMMA BuildFits ==
  ASSUME UnitsFit, UNCHANGED <<p, search>>, NEW us \in Budgeted, NEW for, Build(us, for),
         {descent'.units, descent'.current, vns'.units} \subseteq Budgeted
  PROVE  UnitsFit'
<1>1. units' = us /\ fill' = None
  BY DEF Build
<1>2. Budgeted' = Budgeted
  BY SameBudget
<1> QED
  BY <1>1, <1>2 DEF UnitsFit

LEMMA ShakeFits ==
  ASSUME IInv, UnitsFit, UNCHANGED <<p, search, descent, vns>>, NEW us \in Budgeted, NEW k, NEW for, Shake(us, k, for)
  PROVE  UnitsFit'
<1>1. PICK out : Build(Without(us, out), for)
  BY DEF Shake
<1>2. Without(us, out) \in Budgeted
  BY BudgetFacts
<1>3. {descent'.units, descent'.current, vns'.units} \subseteq Budgeted
  BY DEF UnitsFit
<1> QED
  BY <1>1, <1>2, <1>3, BuildFits

LEMMA PickUnitFits ==
  ASSUME IInv, UnitsFit, PickUnit
  PROVE  UnitsFit'
<1>0. UNCHANGED <<p, search, units, descent, vns>> /\ pc = "best"
      /\ fill' = Best(p, search.slots, state, Free, per_group)
  BY DEF PickUnit
<1>1. PICK C, base, target, s, free, flip :
        /\ C = search.cands /\ base = Conds(units) /\ target = p /\ s = state
        /\ free = Free /\ flip = per_group
  OBVIOUS
<1>2. target \in Params /\ C \in SUBSET Cond /\ IsFiniteSet(C) /\ base \in Seq(Cond) /\ search.slots = SlotLanes(target, C)
  <2>1. search.slots = SlotLanes(target, C)
    BY <1>0, <1>1 DEF IInv, SearchHolds
  <2> QED
    BY <1>1, <2>1, CandsFacts, AllType, ParamFacts
<1>3. s.ranks = StateAfter(base).ranks /\ TreesOf(s.live) = TreesOf(StateAfter(base).live)
  BY <1>0, <1>1, AtRest
<1>4. Spent(units, p.width) \in Nat /\ p.groups \in Nat /\ free = p.groups - Spent(units, p.width) /\ p.width \in Int
  BY <1>1, BudgetFacts, ParamFacts DEF UnitsFit, Free
<1>5. Affords(target, C, free, Best(target, SlotLanes(target, C), s, free, flip))
  <2>1. free \in Int
    BY <1>4
  <2> QED
    BY ONLY <1>2, <1>3, <2>1, BestAffords
<1>6. Affords(target, C, free, fill')
  BY <1>0, <1>1, <1>2, <1>5
<1>7. fill' # None => fill'.group \in Sound(p, search.cands) /\ Cost(fill'.group, p.width) <= free
  BY <1>1, <1>6 DEF Affords
<1>8. ASSUME fill' # None PROVE Spent(units, p.width) + Cost(fill'.group, p.width) <= p.groups
  <2>1. PICK g \in Seq(C), width \in Int : g = fill'.group /\ width = p.width /\ g # << >>
    BY <1>1, <1>4, <1>7, <1>8 DEF Sound, Nonempty
  <2>2. Cost(g, width) \in Nat
    BY <1>2, <2>1, CostType
  <2> QED
    BY <1>4, <1>7, <1>8, <2>1, <2>2
<1>9. Budgeted' = Budgeted
  BY <1>0, SameBudget
<1> QED
  BY <1>0, <1>7, <1>8, <1>9 DEF UnitsFit

LEMMA CommitFits ==
  ASSUME IInv, UnitsFit, Commit
  PROVE  UnitsFit'
<1>0. UNCHANGED <<p, search, descent, vns>> /\ pc = "commit" /\ units' = Append(units, fill.group) /\ fill' = None
  BY DEF Commit
<1>1. fill # None
  BY <1>0, SomeFill DEF IInv, StateHolds
<1>2. fill.group \in Sound(p, search.cands) /\ Spent(units, p.width) + Cost(fill.group, p.width) <= p.groups
  BY <1>1 DEF UnitsFit
<1>3. PICK C \in SUBSET Cond, width \in Int : C = search.cands /\ width = p.width
  BY ParamFacts
<1>4. units \in Seq(Nonempty(C)) /\ units \in Seq(Sound(p, C)) /\ fill.group \in Nonempty(C)
  BY <1>2, <1>3, BudgetFacts DEF UnitsFit, Budgeted, Sound
<1>5. Spent(Append(units, fill.group), width) = Spent(units, width) + Cost(fill.group, width)
  BY <1>4, SpentGrows
<1>6. Append(units, fill.group) \in Seq(Sound(p, C))
  BY <1>2, <1>3, <1>4
<1>7. units' \in Budgeted
  BY <1>0, <1>2, <1>3, <1>5, <1>6 DEF Budgeted
<1>8. Budgeted' = Budgeted
  BY <1>0, SameBudget
<1> QED
  BY <1>0, <1>7, <1>8 DEF UnitsFit

LEMMA NextFits ==
  ASSUME IInv, UnitsFit, [Next]_vars
  PROVE  UnitsFit'
<1> USE DEF UnitsFit
<1>1. CASE Read
  BY <1>1, ReadFits
<1>2. CASE Add \/ AddEnds \/ Apply
  <2>1. UNCHANGED <<p, search, units, fill, descent, vns>>
    BY <1>2 DEF Add, AddEnds, Apply
  <2> QED
    BY <2>1, SameBudget
<1>3. CASE PickUnit
  BY <1>3, PickUnitFits
<1>4. CASE Commit
  BY <1>4, CommitFits
<1>5. CASE GreedyEnds
  <2>0. UNCHANGED <<p, search>> /\ vns' = [vns EXCEPT !.units = units] /\ vns'.units = units
    <3>1. UNCHANGED <<p, search>> /\ vns' = [vns EXCEPT !.units = units]
      BY <1>5 DEF GreedyEnds
    <3>2. vns'.units = units
      BY <3>1 DEF IInv, UnitsHold
    <3> QED
      BY <3>1, <3>2
  <2>1. CASE Build(units, "plan") /\ UNCHANGED descent
    BY <2>0, <2>1, BuildFits
  <2>2. CASE Descend(units) /\ UNCHANGED <<goal, units, state, todo, fill>>
    <3>1. descent'.units = units /\ descent'.current = units
      BY <2>2 DEF Descend
    <3> QED
      BY <2>0, <2>2, <3>1, SameBudget
  <2> QED
    BY <1>5, <2>1, <2>2 DEF GreedyEnds
<1>6. CASE Round
  <2>1. UNCHANGED <<p, search, descent, vns>> /\ \E k : Shake(descent.current, k, "round")
    BY <1>6 DEF Round
  <2> QED
    BY <2>1, ShakeFits
<1>7. CASE RoundEnds
  <2>1. /\ UNCHANGED <<p, search, units, fill, vns>>
        /\ descent' = Judged(descent, units, Score(p, state.ranks))
    BY <1>7 DEF RoundEnds
  <2>2. descent'.units \in {descent.units, units} /\ descent'.current \in {descent.current, units}
    BY <2>1 DEF Judged, IInv, UnitsHold
  <2> QED
    BY <2>1, <2>2, SameBudget
<1>8. CASE DescentEnds
  <2>1. UNCHANGED <<p, search, units, fill, descent>> /\ vns' = Kept(vns, descent)
    BY <1>8 DEF DescentEnds
  <2>2. vns'.units \in {vns.units, descent.units}
    BY <2>1 DEF Kept, IInv, UnitsHold
  <2> QED
    BY <2>1, <2>2, SameBudget
<1>9. CASE Jump
  <2>1. UNCHANGED <<p, search, descent, vns>> /\ \E k : Shake(vns.units, k, "shake")
    BY <1>9 DEF Jump
  <2> QED
    BY <2>1, ShakeFits
<1>10. CASE JumpEnds
  <2>1. UNCHANGED <<p, search, units, fill, vns>> /\ Descend(units)
    BY <1>10 DEF JumpEnds
  <2>2. descent'.units = units /\ descent'.current = units
    BY <2>1 DEF Descend
  <2> QED
    BY <2>1, <2>2, SameBudget
<1>11. CASE SearchEnds
  <2>1. UNCHANGED <<p, search, descent, vns>> /\ Build(vns.units, "plan")
    BY <1>11 DEF SearchEnds
  <2> QED
    BY <2>1, BuildFits
<1>12. CASE PickTail \/ Plan \/ Emit \/ Done \/ UNCHANGED vars
  <2>1. UNCHANGED <<p, search, units, fill, descent, vns>>
    BY <1>12 DEF PickTail, Plan, Emit, Done, vars
  <2> QED
    BY <2>1, SameBudget
<1> QED
  BY <1>1, <1>2, <1>3, <1>4, <1>5, <1>6, <1>7, <1>8, <1>9, <1>10, <1>11, <1>12 DEF Next

LEMMA NextPlans ==
  ASSUME IInv, PlanIs, [Next]_vars
  PROVE  PlanIs'
<1>1. CASE Plan
  <2>1. /\ plan' = PlanOf(units, tail.conds, state.ranks) /\ UNCHANGED <<units, tail, state>>
        /\ pc' \in {"plan", "failed"}
    BY <1>1 DEF Plan
  <2> QED
    BY <2>1 DEF PlanIs
<1>2. CASE Emit
  <2>1. /\ pc = "plan" /\ form' = FormOf(plan, p.width) /\ UNCHANGED <<p, plan, units, tail, state>>
    BY <1>2 DEF Emit
  <2> QED
    BY <2>1 DEF PlanIs
<1>3. CASE UNCHANGED vars
  BY <1>3 DEF PlanIs, vars
<1>4. ASSUME pc' \notin {"plan", "emitted", "failed"} PROVE PlanIs'
  BY <1>4 DEF PlanIs
<1>5. CASE Read \/ Add \/ AddEnds \/ PickUnit
  <2>1. pc' \notin {"plan", "emitted", "failed"}
    BY <1>5 DEF Read, Add, AddEnds, PickUnit
  <2> QED
    BY <1>4, <2>1
<1>6. CASE Apply \/ Commit \/ RoundEnds \/ DescentEnds \/ JumpEnds
  <2>1. pc' \notin {"plan", "emitted", "failed"}
    BY <1>6 DEF Apply, Commit, RoundEnds, DescentEnds, JumpEnds
  <2> QED
    BY <1>4, <2>1
<1>7. CASE Round \/ Jump \/ SearchEnds \/ GreedyEnds
  <2>1. pc' \notin {"plan", "emitted", "failed"}
    BY <1>7 DEF Round, Jump, SearchEnds, GreedyEnds, Shake, Build
  <2> QED
    BY <1>4, <2>1
<1>8. CASE PickTail
  <2>1. pc' \notin {"plan", "emitted", "failed"}
    BY <1>8 DEF PickTail
  <2> QED
    BY <1>4, <2>1
<1> QED
  BY <1>1, <1>2, <1>3, <1>5, <1>6, <1>7, <1>8 DEF Next, Done

LEMMA SpecFInv == Spec => []FInv
<1>1. Init => FInv
  BY InitIInv, InitFits DEF FInv
<1>2. FInv /\ [Next]_vars => FInv'
  BY NextHolds, NextFits, NextPlans DEF FInv
<1> QED
  BY <1>1, <1>2, PTL DEF Spec

-----------------------------------------------------------------------------
(* The walk over the members makes groups that part them.                  *)
JoinsLast(done, ws, i, width) ==
  LET l == Len(done)
  IN /\ l >= 1 /\ i < done[l].base + width
     /\ ws \in Seq(Group) /\ Len(ws) = l /\ \A n \in 1 .. l - 1 : ws[n] = done[n]
     /\ ws[l].base = done[l].base /\ ws[l].n = done[l].n + 1

BeginsNext(done, ws, i, width, offset) ==
  LET l == Len(done)
  IN /\ ws \in Seq(Group) /\ Len(ws) = l + 1 /\ \A n \in 1 .. l : ws[n] = done[n]
     /\ ws[l + 1].base = Base(i, width, offset) /\ ws[l + 1].n = 1

LEMMA BaseIs ==
  ASSUME NEW i \in Int, NEW width \in Int, NEW offset \in Int
  PROVE  /\ Base(i, width, offset) \in Int
         /\ Base(i, width, offset) = IF i <= SCHEDULE - width - offset THEN i ELSE SCHEDULE - width - offset
<1>1. PICK m \in Int : m = SCHEDULE - width - offset
  BY SlotsAssumption
<1>2. Min({i, m}) = IF i <= m THEN i ELSE m
  BY MinOfTwo
<1> QED
  BY <1>1, <1>2 DEF Base

LEMMA GroupedIs ==
  ASSUME NEW done \in Seq(Group), NEW i \in Int, NEW width \in Int, NEW offset \in Int
  PROVE  \/ JoinsLast(done, Grouped(done, i, width, offset), i, width)
         \/ BeginsNext(done, Grouped(done, i, width, offset), i, width, offset)
<1>0. PICK ws : ws = Grouped(done, i, width, offset)
  OBVIOUS
<1>1. PICK l \in Nat : l = Len(done)
  OBVIOUS
<1>2. CASE done # << >> /\ i < Last(done).base + width
  <2>1. l >= 1
    BY <1>1, <1>2
  <2>2. PICK e \in Group : e = Last(done) /\ e = done[l]
    BY <1>1, <2>1 DEF Last
  <2>3. PICK x \in Group : x = [e EXCEPT !.n = @ + 1]
    <3>1. [e EXCEPT !.n = @ + 1] \in Group
      BY DEF Group
    <3> QED
      BY <3>1
  <2>4. x.base = e.base /\ x.n = e.n + 1
    BY <2>3 DEF Group
  <2>5. PICK front \in Seq(Group) : front = SubSeq(done, 1, l - 1) /\ Len(front) = l - 1 /\ \A n \in 1 .. l - 1 : front[n] = done[n]
    <3>1. SubSeq(done, 1, l - 1) \in Seq(Group) /\ Len(SubSeq(done, 1, l - 1)) = l - 1
          /\ \A n \in 1 .. l - 1 : SubSeq(done, 1, l - 1)[n] = done[n]
      BY <1>1, <2>1
    <3> QED
      BY <3>1
  <2>6. ws = front \o <<x>>
    BY <1>0, <1>1, <1>2, <2>2, <2>3, <2>5 DEF Grouped, Front
  <2>7. ws \in Seq(Group) /\ Len(ws) = l /\ (\A n \in 1 .. l - 1 : ws[n] = front[n]) /\ ws[l] = x
    BY <2>1, <2>5, <2>6
  <2> QED
    BY <1>0, <1>1, <1>2, <2>1, <2>2, <2>4, <2>5, <2>7 DEF JoinsLast
<1>3. CASE ~(done # << >> /\ i < Last(done).base + width)
  <2>1. PICK x \in Group : x = [base |-> Base(i, width, offset), n |-> 1]
    <3>1. PICK b \in Int : b = Base(i, width, offset)
      BY BaseIs
    <3>2. [base |-> b, n |-> 1] \in Group
      BY DEF Group
    <3> QED
      BY <3>1, <3>2
  <2>2. ws = Append(done, x)
    BY <1>0, <1>3, <2>1 DEF Grouped
  <2>3. ws \in Seq(Group) /\ Len(ws) = l + 1 /\ ws[l + 1] = x /\ \A n \in 1 .. l : ws[n] = done[n]
    BY <1>1, <2>2
  <2> QED
    BY <1>0, <1>1, <2>1, <2>3 DEF BeginsNext
<1> QED
  BY <1>2, <1>3

(* Where each group's members begin, and what there is to say of a group.  *)
Offsets(ws, t, k) ==
  /\ t \in [1 .. Len(ws) + 1 -> 0 .. k] /\ t[1] = 0 /\ t[Len(ws) + 1] = k
  /\ \A n \in 1 .. Len(ws) : t[n + 1] = t[n] + ws[n].n

Parts(is, width, offset, ws, t, k) ==
  /\ ws \in Seq(Group)
  /\ \A n \in 1 .. Len(ws) :
       /\ 1 <= ws[n].n /\ 0 <= ws[n].base /\ ws[n].base + width + offset <= SCHEDULE
       /\ \A m \in t[n] + 1 .. t[n + 1] : ws[n].base <= is[m] /\ is[m] < ws[n].base + width
  /\ \A m \in 1 .. k : \E n \in 1 .. Len(ws) : m \in t[n] + 1 .. t[n + 1]

(* Members in order, at words that are there.                              *)
Walkable(is, width, offset) ==
  /\ is \in Seq(Int) /\ width \in Nat \ {0} /\ offset \in Int /\ width + offset <= SCHEDULE
  /\ \A m \in 1 .. Len(is) : 0 <= is[m] /\ is[m] + offset < SCHEDULE
  /\ \A m, n \in 1 .. Len(is) : m < n => is[m] < is[n]

LEMMA PartsJoin ==
  ASSUME NEW is, NEW width, NEW offset, Walkable(is, width, offset), NEW k \in Nat, k + 1 <= Len(is),
         NEW done, NEW t, Offsets(done, t, k), Parts(is, width, offset, done, t, k),
         NEW ws, JoinsLast(done, ws, is[k + 1], width)
  PROVE  \E s : Offsets(ws, s, k + 1) /\ Parts(is, width, offset, ws, s, k + 1)
<1>1. PICK l \in Nat : l = Len(done) /\ l >= 1 /\ Len(ws) = l
  BY DEF Parts, JoinsLast
<1>2. /\ t \in [1 .. l + 1 -> 0 .. k] /\ t[1] = 0 /\ t[l + 1] = k
      /\ \A n \in 1 .. l : t[n + 1] = t[n] + done[n].n
  BY <1>1 DEF Offsets
<1>3. /\ is[k + 1] < done[l].base + width
      /\ ws \in Seq(Group) /\ \A n \in 1 .. l - 1 : ws[n] = done[n]
      /\ ws[l].base = done[l].base /\ ws[l].n = done[l].n + 1
  BY <1>1 DEF JoinsLast
<1>4. \A n \in 1 .. l : done[n] \in Group /\ done[n].n \in Int /\ done[n].base \in Int
  <2>1. \A n \in 1 .. l : done[n] \in Group
    BY <1>1 DEF Parts
  <2>2. \A e \in Group : e.n \in Int /\ e.base \in Int
    BY DEF Group
  <2> QED
    BY <2>1, <2>2
<1>5. /\ width \in Nat \ {0} /\ offset \in Int
      /\ \A m \in 1 .. k + 1 : is[m] \in Int
      /\ \A m, n \in 1 .. k + 1 : m < n => is[m] < is[n]
  <2>1. /\ width \in Nat \ {0} /\ offset \in Int /\ is \in Seq(Int)
        /\ \A m, n \in 1 .. Len(is) : m < n => is[m] < is[n]
    BY DEF Walkable
  <2>2. PICK all \in Nat : all = Len(is)
    BY <2>1
  <2>3. \A m \in 1 .. k + 1 : m \in 1 .. all
    BY <2>2
  <2>4. \A m \in 1 .. all : is[m] \in Int
    BY <2>1, <2>2
  <2> QED
    BY <2>1, <2>2, <2>3, <2>4
<1>6. /\ \A n \in 1 .. l :
           /\ 1 <= done[n].n /\ 0 <= done[n].base /\ done[n].base + width + offset <= SCHEDULE
           /\ \A m \in t[n] + 1 .. t[n + 1] : done[n].base <= is[m] /\ is[m] < done[n].base + width
      /\ \A m \in 1 .. k : \E n \in 1 .. l : m \in t[n] + 1 .. t[n + 1]
  BY <1>1 DEF Parts
<1> DEFINE s == [n \in 1 .. l + 1 |-> IF n = l + 1 THEN k + 1 ELSE t[n]]
<1>7. s[l + 1] = k + 1 /\ \A n \in 1 .. l : s[n] = t[n]
  BY <1>1
<1>8. s \in [1 .. l + 1 -> 0 .. k + 1]
  BY <1>1, <1>2
<1> HIDE DEF s
<1>9. \A n \in 1 .. l : t[n] \in 0 .. k /\ t[n + 1] \in 0 .. k
  BY <1>2
<1>10. \A n \in 1 .. l : s[n + 1] = IF n = l THEN k + 1 ELSE t[n + 1]
  BY <1>7
<1>11. \A n \in 1 .. l : s[n + 1] = s[n] + ws[n].n
  <2> SUFFICES ASSUME NEW n \in 1 .. l PROVE s[n + 1] = s[n] + ws[n].n
    OBVIOUS
  <2>1. CASE n = l
    <3>1. l \in 1 .. l /\ s[l] = t[l] /\ t[l] \in Int /\ t[l + 1] = k /\ s[l + 1] = k + 1
      BY <1>1, <1>2, <1>7, <1>9
    <3>2. t[l + 1] = t[l] + done[l].n /\ done[l].n \in Int
      BY <1>2, <1>4, <3>1
    <3>3. PICK a, b \in Int : a = t[l] /\ b = done[l].n
      BY <3>1, <3>2
    <3>4. k + 1 = a + (b + 1)
      BY <3>1, <3>2, <3>3
    <3> QED
      BY <1>3, <2>1, <3>1, <3>3, <3>4
  <2>2. CASE n \in 1 .. l - 1
    <3>1. n \in 1 .. l /\ n # l /\ ws[n] = done[n]
      BY <1>3, <2>2
    <3>2. s[n + 1] = t[n + 1] /\ s[n] = t[n]
      BY <1>7, <1>10, <3>1
    <3> QED
      BY <1>2, <3>1, <3>2
  <2> QED
    BY <2>1, <2>2
<1>12. Offsets(ws, s, k + 1)
  <2>1. s[1] = 0
    BY <1>1, <1>2, <1>7
  <2> QED
    BY <1>1, <1>7, <1>8, <1>11, <2>1 DEF Offsets
<1>13. ASSUME NEW n \in 1 .. l
       PROVE  /\ 1 <= ws[n].n /\ 0 <= ws[n].base /\ ws[n].base + width + offset <= SCHEDULE
              /\ \A m \in s[n] + 1 .. s[n + 1] : ws[n].base <= is[m] /\ is[m] < ws[n].base + width
  <2>1. CASE n \in 1 .. l - 1
    <3>1. n \in 1 .. l /\ n # l /\ ws[n] = done[n]
      BY <1>3, <2>1
    <3>2. s[n + 1] = t[n + 1] /\ s[n] = t[n]
      BY <1>7, <1>10, <3>1
    <3> QED
      BY <1>6, <3>1, <3>2
  <2>2. CASE n = l
    <3>1. 1 <= ws[n].n /\ 0 <= ws[n].base /\ ws[n].base + width + offset <= SCHEDULE
      BY <1>3, <1>4, <1>6, <2>2
    <3>2. t[l] + done[l].n = k /\ t[l] \in Nat /\ t[l] < k /\ k >= 1
      <4>1. l \in 1 .. l /\ t[l] \in 0 .. k
        BY <1>1, <1>9
      <4>2. t[l + 1] = t[l] + done[l].n /\ done[l].n \in Int /\ 1 <= done[l].n
        BY <1>2, <1>4, <1>6, <4>1, SMTT(30)
      <4>3. PICK a \in Int, b \in Int : a = t[l] /\ b = done[l].n /\ 0 <= a /\ a <= k /\ 1 <= b /\ k = a + b
        BY ONLY <1>2, <4>1, <4>2, k \in Nat
      <4> QED
        BY ONLY <4>3, k \in Nat
    <3>3. done[l].base <= is[k] /\ is[k] < is[k + 1]
      <4>1. k \in t[l] + 1 .. t[l + 1]
        BY <1>2, <3>2
      <4>2. l \in 1 .. l /\ k \in 1 .. k + 1 /\ k + 1 \in 1 .. k + 1
        BY <1>1, <3>2
      <4> QED
        BY <1>5, <1>6, <4>1, <4>2
    <3>4. done[l].base <= is[k + 1]
      BY <1>1, <1>4, <1>5, <3>2, <3>3
    <3>5. ASSUME NEW m \in s[n] + 1 .. s[n + 1] PROVE ws[n].base <= is[m] /\ is[m] < ws[n].base + width
      <4>1. m = k + 1 \/ m \in t[l] + 1 .. t[l + 1]
        BY <1>1, <1>2, <1>7, <1>10, <2>2, <3>2
      <4>2. CASE m = k + 1
        BY <1>3, <2>2, <3>4, <4>2
      <4>3. CASE m \in t[l] + 1 .. t[l + 1]
        BY <1>3, <1>6, <2>2, <4>3
      <4> QED
        BY <4>1, <4>2, <4>3
    <3> QED
      BY <3>1, <3>5
  <2> QED
    BY <2>1, <2>2
<1>14. ASSUME NEW m \in 1 .. k + 1 PROVE \E n \in 1 .. l : m \in s[n] + 1 .. s[n + 1]
  <2>1. CASE m = k + 1
    <3>1. t[l] \in 0 .. k /\ s[l] = t[l] /\ s[l + 1] = k + 1 /\ l \in 1 .. l
      BY <1>1, <1>7, <1>9
    <3> QED
      BY <2>1, <3>1
  <2>2. CASE m \in 1 .. k
    <3>1. PICK n \in 1 .. l : m \in t[n] + 1 .. t[n + 1]
      BY <1>6, <2>2
    <3>2. m \in s[n] + 1 .. s[n + 1]
      BY <1>2, <1>7, <1>9, <1>10, <2>2, <3>1
    <3> QED
      BY <3>2
  <2> QED
    BY <2>1, <2>2
<1>15. Parts(is, width, offset, ws, s, k + 1)
  BY <1>1, <1>3, <1>13, <1>14 DEF Parts
<1> QED
  BY <1>12, <1>15

LEMMA PartsBegin ==
  ASSUME NEW is, NEW width, NEW offset, Walkable(is, width, offset), NEW k \in Nat, k + 1 <= Len(is),
         NEW done, NEW t, Offsets(done, t, k), Parts(is, width, offset, done, t, k),
         NEW ws, BeginsNext(done, ws, is[k + 1], width, offset)
  PROVE  \E s : Offsets(ws, s, k + 1) /\ Parts(is, width, offset, ws, s, k + 1)
<1>1. PICK l \in Nat : l = Len(done) /\ Len(ws) = l + 1
  BY DEF Parts, BeginsNext
<1>2. /\ t \in [1 .. l + 1 -> 0 .. k] /\ t[1] = 0 /\ t[l + 1] = k
      /\ \A n \in 1 .. l : t[n + 1] = t[n] + done[n].n
  BY <1>1 DEF Offsets
<1>3. /\ ws \in Seq(Group) /\ \A n \in 1 .. l : ws[n] = done[n]
      /\ ws[l + 1].base = Base(is[k + 1], width, offset) /\ ws[l + 1].n = 1
  BY <1>1 DEF BeginsNext
<1>5. /\ width \in Nat \ {0} /\ offset \in Int /\ width + offset <= SCHEDULE
      /\ is[k + 1] \in Int /\ 0 <= is[k + 1] /\ is[k + 1] + offset < SCHEDULE
  BY DEF Walkable
<1>6. /\ \A n \in 1 .. l :
           /\ 1 <= done[n].n /\ 0 <= done[n].base /\ done[n].base + width + offset <= SCHEDULE
           /\ \A m \in t[n] + 1 .. t[n + 1] : done[n].base <= is[m] /\ is[m] < done[n].base + width
      /\ \A m \in 1 .. k : \E n \in 1 .. l : m \in t[n] + 1 .. t[n + 1]
  BY <1>1 DEF Parts
<1> DEFINE s == [n \in 1 .. l + 2 |-> IF n = l + 2 THEN k + 1 ELSE t[n]]
<1>7. s[l + 2] = k + 1 /\ \A n \in 1 .. l + 1 : s[n] = t[n]
  BY <1>1
<1>8. s \in [1 .. l + 2 -> 0 .. k + 1]
  BY <1>1, <1>2
<1> HIDE DEF s
<1>9. PICK e \in Int : e = ws[l + 1].base /\ e <= is[k + 1] /\ is[k + 1] < e + width /\ 0 <= e /\ e + width + offset <= SCHEDULE
  <2>0. PICK i \in Int, b \in Int : i = is[k + 1] /\ b = width
    BY <1>5
  <2>a. i \in Int /\ b \in Int /\ offset \in Int
    BY ONLY <1>5, <2>0
  <2>b. /\ Base(i, b, offset) \in Int
        /\ Base(i, b, offset) = IF i <= SCHEDULE - b - offset THEN i ELSE SCHEDULE - b - offset
    BY ONLY <2>a, BaseIs, ZenonT(40)
  <2>1. PICK e \in Int : e = Base(i, b, offset)
    BY ONLY <2>b
  <2>2. e = IF i <= SCHEDULE - b - offset THEN i ELSE SCHEDULE - b - offset
    BY ONLY <2>1, <2>b, ZenonT(40)
  <2>3. SCHEDULE \in Int
    BY SlotsAssumption
  <2> QED
    <3>1. e = ws[l + 1].base
      BY <1>3, <2>0, <2>1
    <3>2. e <= i /\ i < e + b /\ 0 <= e /\ e + b + offset <= SCHEDULE
      <4>1. b >= 1 /\ b + offset <= SCHEDULE /\ 0 <= i /\ i + offset < SCHEDULE
        BY ONLY <1>5, <2>0
      <4> QED BY ONLY <4>1, <2>a, <2>1, <2>2, <2>3, SMTT(30)
    <3> QED
      BY ONLY <3>1, <3>2, <2>0, <2>1
<1>10. \A n \in 1 .. l : s[n] = t[n] /\ s[n + 1] = t[n + 1]
  BY <1>7
<1>10a. s[l + 1] = k /\ s[(l + 1) + 1] = k + 1
  BY <1>2, <1>7
<1>11. \A n \in 1 .. l + 1 : s[n + 1] = s[n] + ws[n].n
  <2> SUFFICES ASSUME NEW n \in 1 .. l + 1 PROVE s[n + 1] = s[n] + ws[n].n
    OBVIOUS
  <2>1. CASE n = l + 1
    BY <1>3, <1>10a, <2>1
  <2>2. CASE n \in 1 .. l
    BY <1>2, <1>3, <1>10, <2>2
  <2> QED
    BY <2>1, <2>2
<1>12. Offsets(ws, s, k + 1)
  <2>1. s[1] = 0
    BY <1>1, <1>2, <1>7
  <2>2. Len(ws) + 1 = l + 2
    BY <1>1
  <2> QED
    BY <1>1, <1>7, <1>8, <1>11, <2>1, <2>2 DEF Offsets
<1>13. ASSUME NEW n \in 1 .. l + 1
       PROVE  /\ 1 <= ws[n].n /\ 0 <= ws[n].base /\ ws[n].base + width + offset <= SCHEDULE
              /\ \A m \in s[n] + 1 .. s[n + 1] : ws[n].base <= is[m] /\ is[m] < ws[n].base + width
  <2>1. CASE n \in 1 .. l
    BY <1>3, <1>6, <1>10, <2>1
  <2>2. CASE n = l + 1
    <3>1. \A m \in s[n] + 1 .. s[n + 1] : m = k + 1
      BY <1>10a, <2>2
    <3> QED
      BY <1>3, <1>9, <2>2, <3>1
  <2> QED
    BY <2>1, <2>2
<1>14. ASSUME NEW m \in 1 .. k + 1 PROVE \E n \in 1 .. l + 1 : m \in s[n] + 1 .. s[n + 1]
  <2>1. CASE m = k + 1
    <3>1. l + 1 \in 1 .. l + 1
      BY <1>1
    <3> QED
      BY <1>10a, <2>1, <3>1
  <2>2. CASE m \in 1 .. k
    <3>1. PICK n \in 1 .. l : m \in t[n] + 1 .. t[n + 1]
      BY <1>6, <2>2
    <3> QED
      BY <1>10, <3>1
  <2> QED
    BY <2>1, <2>2
<1>15. Parts(is, width, offset, ws, s, k + 1)
  BY <1>1, <1>3, <1>13, <1>14 DEF Parts
<1> QED
  BY <1>12, <1>15

LEMMA WindowsPart ==
  ASSUME NEW is, NEW width, NEW offset, Walkable(is, width, offset)
  PROVE  \E t : /\ Offsets(WindowsOf(is, width, offset), t, Len(is))
                /\ Parts(is, width, offset, WindowsOf(is, width, offset), t, Len(is))
<1>1. is \in Seq(Int) /\ width \in Int /\ offset \in Int
  BY DEF Walkable
<1>2. PICK n \in Nat : n = Len(is)
  BY <1>1
<1>3. PICK f \in [0 .. n -> Seq(Group)] : Windowed(is, width, offset, f)
  BY <1>1, <1>2, WindowsWalk
<1> DEFINE S == { k \in 0 .. n : \E t : Offsets(f[k], t, k) /\ Parts(is, width, offset, f[k], t, k) }
<1>4. 0 \in S
  <2>1. f[0] = << >> /\ Len(<< >>) = 0 /\ << >> \in Seq(Group)
    BY <1>3 DEF Windowed
  <2>2. PICK t : t = [m \in 1 .. 0 + 1 |-> 0]
    OBVIOUS
  <2>3. t \in [1 .. 0 + 1 -> 0 .. 0] /\ t[1] = 0 /\ t[0 + 1] = 0
    BY <2>2
  <2>4. Offsets(<< >>, t, 0)
    BY <2>1, <2>3 DEF Offsets
  <2>5. Parts(is, width, offset, << >>, t, 0)
    BY <2>1 DEF Parts
  <2> QED
    BY <1>2, <2>1, <2>4, <2>5
<1>5. ASSUME NEW k \in 0 .. n - 1, k \in S PROVE k + 1 \in S
  <2>1. PICK j : j = k + 1 /\ j \in 1 .. n /\ j - 1 = k /\ j \in 0 .. n /\ k \in 0 .. n /\ k \in Nat
    BY ONLY n \in Nat, k \in 0 .. n - 1
  <2>2. PICK t : Offsets(f[k], t, k) /\ Parts(is, width, offset, f[k], t, k)
    BY <1>5
  <2>3. PICK done \in Seq(Group), i \in Int : done = f[k] /\ i = is[j]
    BY <1>1, <1>2, <1>3, <2>1, SMTT(30)
  <2>4. f[j] = Grouped(done, i, width, offset)
    BY <1>2, <1>3, <2>1, <2>3 DEF Windowed
  <2>5. PICK ws : ws = f[j]
    OBVIOUS
  <2>6. JoinsLast(done, ws, i, width) \/ BeginsNext(done, ws, i, width, offset)
    BY <1>1, <2>4, <2>5, GroupedIs
  <2>7. k + 1 <= Len(is) /\ i = is[k + 1] /\ Offsets(done, t, k) /\ Parts(is, width, offset, done, t, k)
    BY <1>2, <2>1, <2>2, <2>3
  <2>8. \E s : Offsets(ws, s, k + 1) /\ Parts(is, width, offset, ws, s, k + 1)
    <3>1. CASE JoinsLast(done, ws, is[k + 1], width)
      BY ONLY <2>1, <2>7, <3>1, Walkable(is, width, offset), PartsJoin
    <3>2. CASE BeginsNext(done, ws, is[k + 1], width, offset)
      BY ONLY <2>1, <2>7, <3>2, Walkable(is, width, offset), PartsBegin
    <3> QED
      BY <2>6, <2>7, <3>1, <3>2
  <2> QED
    BY <2>1, <2>5, <2>8
<1>6. n \in S
  <2>1. 0 .. n \subseteq S
    <3> HIDE DEF S
    <3> QED
      BY ONLY <1>2, <1>4, <1>5, UpTo
  <2> QED
    BY <1>2, <2>1
<1>7. f[n] = WindowsOf(is, width, offset)
  BY <1>2, <1>3 DEF Windowed
<1> QED
  BY <1>2, <1>6, <1>7

(* What the groups before one have taken is where its members begin.       *)
LEMMA TakenIsOffset ==
  ASSUME NEW ws \in Seq(Group), NEW t, NEW k, Offsets(ws, t, k), NEW n \in 1 .. Len(ws)
  PROVE  TakenBy(SubSeq(ws, 1, n - 1)) = t[n]
<1>1. PICK l \in Nat : l = Len(ws)
  OBVIOUS
<1> DEFINE S == { m \in 0 .. l : TakenBy(SubSeq(ws, 1, m)) = t[m + 1] }
<1>2. 0 \in S
  <2>1. SubSeq(ws, 1, 0) = << >>
    OBVIOUS
  <2>2. t[0 + 1] = 0
    BY DEF Offsets
  <2> QED
    BY <1>1, <2>1, <2>2, TakenByNone, 0 \in 0 .. l
<1>3. ASSUME NEW m \in 0 .. l - 1, m \in S PROVE m + 1 \in S
  <2>1. PICK j : j = m + 1 /\ j \in 1 .. l /\ j \in 0 .. l /\ m \in Nat
    BY ONLY l \in Nat, m \in 0 .. l - 1
  <2>2. PICK r \in Seq(Group), g \in Group : r = SubSeq(ws, 1, m) /\ g = ws[j]
    <3>1. m \in Nat /\ m <= l
      BY ONLY l \in Nat, m \in 0 .. l - 1
    <3>2. SubSeq(ws, 1, m) \in Seq(Group)
      BY ONLY <1>1, <3>1, ws \in Seq(Group)
    <3>3. ws[j] \in Group
      BY ONLY <1>1, <2>1, ws \in Seq(Group)
    <3> QED
      BY <3>2, <3>3
  <2>3. SubSeq(ws, 1, j) = Append(r, g)
    <3>1. PICK q \in Seq(Group) : q = SubSeq(ws, 1, j) /\ Len(q) = j /\ \A i \in 1 .. j : q[i] = ws[i]
      <4>1. SubSeq(ws, 1, j) \in Seq(Group) /\ Len(SubSeq(ws, 1, j)) = j /\ \A i \in 1 .. j : SubSeq(ws, 1, j)[i] = ws[i]
        BY <1>1, <2>1
      <4> QED
        BY <4>1
    <3>2. Len(r) = m /\ \A i \in 1 .. m : r[i] = ws[i]
      BY <1>1, <2>1, <2>2
    <3>3. PICK o \in Seq(Group) : o = Append(r, g) /\ Len(o) = j /\ o[j] = g /\ \A i \in 1 .. m : o[i] = ws[i]
      <4>1. Append(r, g) \in Seq(Group) /\ Len(Append(r, g)) = j /\ Append(r, g)[j] = g /\ \A i \in 1 .. m : Append(r, g)[i] = ws[i]
        BY <2>1, <3>2
      <4> QED
        BY <4>1
    <3>4. \A i \in 1 .. j : q[i] = o[i]
      BY <2>1, <2>2, <3>1, <3>3
    <3>5. q = o
      BY <3>1, <3>3, <3>4
    <3> QED
      BY <3>1, <3>3, <3>5
  <2>4. TakenBy(Append(r, g)) = TakenBy(r) + g.n
    BY TakenGrows
  <2>5. t[j + 1] = t[j] + ws[j].n
    BY <1>1, <2>1 DEF Offsets
  <2>6. TakenBy(r) = t[j]
    BY <1>3, <2>1, <2>2
  <2> QED
    BY <2>1, <2>2, <2>3, <2>4, <2>5, <2>6
<1>4. 0 .. l \subseteq S
  <2> HIDE DEF S
  <2> QED
    BY ONLY <1>1, <1>2, <1>3, UpTo
<1>5. n - 1 \in S /\ (n - 1) + 1 = n
  BY <1>1, <1>4
<1> QED
  BY <1>5

-----------------------------------------------------------------------------
(* An order of a finite set, listed.                                       *)
Below(S, R, x) == { y \in S : <<y, x>> \in R }

Listed(S, R) == [n \in 1 .. Cardinality(S) |-> CHOOSE x \in S : Cardinality(Below(S, R, x)) = n - 1]

Orders(S, R) ==
  /\ IsFiniteSet(S)
  /\ \A x \in S : <<x, x>> \notin R
  /\ \A x, y, z \in S : <<x, y>> \in R /\ <<y, z>> \in R => <<x, z>> \in R
  /\ \A x, y \in S : x = y \/ <<x, y>> \in R \/ <<y, x>> \in R

LEMMA BelowFacts ==
  ASSUME NEW S, NEW R, Orders(S, R), NEW x \in S
  PROVE  /\ IsFiniteSet(Below(S, R, x)) /\ Cardinality(Below(S, R, x)) \in 0 .. Cardinality(S) - 1
         /\ \A y \in S : <<x, y>> \in R => Cardinality(Below(S, R, x)) < Cardinality(Below(S, R, y))
<1>1. IsFiniteSet(S) /\ Cardinality(S) \in Nat
  BY FS_CardinalityType DEF Orders
<1>2. \A y \in S : IsFiniteSet(Below(S, R, y)) /\ Cardinality(Below(S, R, y)) \in Nat
  <2> SUFFICES ASSUME NEW y \in S PROVE IsFiniteSet(Below(S, R, y)) /\ Cardinality(Below(S, R, y)) \in Nat
    OBVIOUS
  <2>1. Below(S, R, y) \subseteq S
    BY DEF Below
  <2> QED
    BY <1>1, <2>1, FS_Subset, FS_CardinalityType
<1>3. ASSUME NEW T, IsFiniteSet(T), Below(S, R, x) \subseteq T, x \in T
      PROVE  Cardinality(Below(S, R, x)) < Cardinality(T)
  <2>1. x \notin Below(S, R, x)
    BY DEF Below, Orders
  <2>2. Below(S, R, x) # T
    BY <1>3, <2>1
  <2>3. Cardinality(Below(S, R, x)) <= Cardinality(T) /\ Cardinality(T) \in Nat
    BY <1>3, FS_Subset, FS_CardinalityType
  <2>4. Cardinality(Below(S, R, x)) # Cardinality(T)
    BY <1>3, <2>2, FS_Subset
  <2> QED
    BY <1>2, <2>3, <2>4
<1>4. Cardinality(Below(S, R, x)) < Cardinality(S)
  <2>1. Below(S, R, x) \subseteq S
    BY DEF Below
  <2> QED
    BY <1>1, <1>3, <2>1
<1>5. ASSUME NEW y \in S, <<x, y>> \in R PROVE Cardinality(Below(S, R, x)) < Cardinality(Below(S, R, y))
  <2>1. Below(S, R, x) \subseteq Below(S, R, y) /\ x \in Below(S, R, y)
    BY <1>5 DEF Below, Orders
  <2> QED
    BY <1>2, <1>3, <2>1
<1> QED
  BY <1>1, <1>2, <1>4, <1>5

LEMMA ListedIs ==
  ASSUME NEW S, NEW R, Orders(S, R)
  PROVE  /\ Listed(S, R) \in [1 .. Cardinality(S) -> S] /\ Cardinality(S) \in Nat
         /\ \A x \in S : \E n \in 1 .. Cardinality(S) : Listed(S, R)[n] = x
         /\ \A m, n \in 1 .. Cardinality(S) : m < n <=> <<Listed(S, R)[m], Listed(S, R)[n]>> \in R
<1>1. PICK N \in Nat : N = Cardinality(S) /\ IsFiniteSet(S)
  BY FS_CardinalityType DEF Orders
<1> DEFINE r == [x \in S |-> Cardinality(Below(S, R, x))]
           T == { r[x] : x \in S }
<1>2. \A x \in S : r[x] \in 0 .. N - 1 /\ \A y \in S : <<x, y>> \in R => r[x] < r[y]
  BY <1>1, BelowFacts
<1>3. \A x, y \in S : r[x] = r[y] => x = y
  <2> SUFFICES ASSUME NEW x \in S, NEW y \in S, r[x] = r[y], x # y PROVE FALSE
    OBVIOUS
  <2>1. <<x, y>> \in R \/ <<y, x>> \in R
    BY DEF Orders
  <2>2. r[x] \in Int /\ r[y] \in Int /\ (r[x] < r[y] \/ r[y] < r[x])
    BY <1>1, <1>2, <2>1
  <2> QED
    BY <2>2
<1>4. \A n \in 0 .. N - 1 : \E x \in S : r[x] = n
  <2>1. T \subseteq 0 .. N - 1
    BY <1>2
  <2>2. IsFiniteSet(0 .. N - 1) /\ Cardinality(0 .. N - 1) = N
    <3>1. PICK a, b \in Int : a = 0 /\ b = N - 1
      BY <1>1
    <3>2. IsFiniteSet(a .. b) /\ Cardinality(a .. b) = IF a > b THEN 0 ELSE b - a + 1
      BY FS_Interval
    <3> QED
      BY <1>1, <3>1, <3>2
  <2>3. r \in Bijection(S, T)
    BY <1>3 DEF Bijection, Injection, Surjection, IsInjective
  <2>4. Cardinality(T) = N
    BY <1>1, <2>3, FS_Bijection DEF ExistsBijection
  <2>5. T = 0 .. N - 1
    BY <2>1, <2>2, <2>4, FS_Subset
  <2> QED
    BY <2>5
<1>5. ASSUME NEW n \in 1 .. N PROVE Listed(S, R)[n] \in S /\ r[Listed(S, R)[n]] = n - 1
  <2>1. n - 1 \in 0 .. N - 1
    BY <1>1
  <2>2. \E x \in S : r[x] = n - 1
    BY <1>4, <2>1
  <2>3. Listed(S, R)[n] = CHOOSE x \in S : r[x] = n - 1
    BY <1>1 DEF Listed
  <2> QED
    BY <2>2, <2>3
<1> HIDE DEF r, T
<1>6. ASSUME NEW x \in S PROVE \E n \in 1 .. N : Listed(S, R)[n] = x
  <2>1. PICK n \in 1 .. N : n = r[x] + 1 /\ n - 1 = r[x]
    BY <1>1, <1>2
  <2>2. Listed(S, R)[n] = x
    BY <1>3, <1>5, <2>1
  <2> QED
    BY <2>2
<1>7. ASSUME NEW m \in 1 .. N, NEW n \in 1 .. N
      PROVE  m < n <=> <<Listed(S, R)[m], Listed(S, R)[n]>> \in R
  <2>1. PICK x, y \in S : x = Listed(S, R)[m] /\ y = Listed(S, R)[n] /\ r[x] = m - 1 /\ r[y] = n - 1
    BY <1>5
  <2>2. <<x, y>> \in R => m < n
    BY <1>1, <1>2, <2>1
  <2>3. ASSUME m < n PROVE <<x, y>> \in R
    <3>1. x # y
      BY <1>1, <2>1, <2>3
    <3>2. <<y, x>> \notin R
      BY <1>1, <1>2, <2>1, <2>3
    <3> QED
      BY <3>1, <3>2 DEF Orders
  <2> QED
    BY <2>1, <2>2, <2>3
<1>8. Listed(S, R) \in [1 .. N -> S]
  BY <1>1, <1>5 DEF Listed
<1> QED
  BY <1>1, <1>6, <1>7, <1>8

-----------------------------------------------------------------------------
(* The groups of a unit: where its members are, and what each lane has.    *)
UnitWords(u) == [n \in DOMAIN u |-> I(u[n])]

WindowsFor(u, width) == WindowsOf(UnitWords(u), width, Gap(u[1]))

LEMMA CondVertex ==
  ASSUME NEW c \in Cond, NEW target \in Params
  PROVE  /\ I(c) \in 0 .. SCHEDULE - 1 /\ J(c) \in 0 .. SCHEDULE - 1 /\ SCHEDULE \in Nat
         /\ A(c) \in Nat /\ B(c) \in Nat /\ c.c \in Bit
         /\ target.width + Gap(c) <= SCHEDULE /\ Gap(c) = J(c) - I(c)
<1>1. c.u \in Vertex /\ c.v \in Vertex /\ c.c \in Bit
  BY DEF Cond
<1>2. \A x \in Vertex : x[1] \in 0 .. SCHEDULE - 1 /\ x[2] \in 0 .. WORD - 1 /\ x[2] \in Nat
  BY ScheduleAssumption, VertexAssumption
<1>3. target.width + (c.v[1] - c.u[1]) <= SCHEDULE
  BY <1>1, ScheduleAssumption
<1>4. SCHEDULE \in Nat
  BY SlotsAssumption
<1> QED
  BY <1>1, <1>2, <1>3, <1>4 DEF I, J, A, B, Gap

LEMMA SoundFacts ==
  ASSUME NEW target, NEW C \in SUBSET Cond, NEW u \in Sound(target, C)
  PROVE  /\ u \in Seq(C) /\ Len(u) \in Nat /\ Len(u) >= 1 /\ DOMAIN u = 1 .. Len(u)
         /\ \A m \in 1 .. Len(u) : u[m] \in Cond
         /\ \A m, n \in 1 .. Len(u) : m < n => I(u[m]) < I(u[n])
         /\ \A m, n \in 1 .. Len(u) : I(u[m]) = I(u[n]) => m = n
         /\ \A m \in 1 .. Len(u) : Gap(u[m]) = Gap(u[1]) /\ B(u[m]) - A(u[m]) = B(u[1]) - A(u[1]) /\ u[m].c = u[1].c
<1>1. u \in Seq(C) /\ u # << >> /\ \A m, n \in 1 .. Len(u) :
        Key(target, u[m]) = Key(target, u[n]) /\ (m < n => I(u[m]) < I(u[n]))
  BY DEF Sound, Nonempty
<1>2. Len(u) \in Nat /\ Len(u) >= 1 /\ DOMAIN u = 1 .. Len(u) /\ \A m \in 1 .. Len(u) : u[m] \in Cond
  BY <1>1
<1>3. ASSUME NEW c \in Cond, NEW e \in Cond, Key(target, c) = Key(target, e)
      PROVE  Gap(c) = Gap(e) /\ B(c) - A(c) = B(e) - A(e) /\ c.c = e.c
  <2>1. \/ /\ Key(target, c) = <<Gap(c), B(c) - A(c), 0, c.c>>
           /\ Key(target, e) = <<Gap(e), B(e) - A(e), 0, e.c>>
        \/ /\ Key(target, c) = <<Gap(c), A(c), B(c), c.c>>
           /\ Key(target, e) = <<Gap(e), A(e), B(e), e.c>>
    BY DEF Key
  <2> QED
    BY <1>3, <2>1
<1>4. \A m \in 1 .. Len(u) : Gap(u[m]) = Gap(u[1]) /\ B(u[m]) - A(u[m]) = B(u[1]) - A(u[1]) /\ u[m].c = u[1].c
  <2>1. 1 \in 1 .. Len(u)
    BY <1>2
  <2> QED
    BY <1>1, <1>2, <1>3, <2>1
<1>5. \A m, n \in 1 .. Len(u) : I(u[m]) = I(u[n]) => m = n
  <2> SUFFICES ASSUME NEW m \in 1 .. Len(u), NEW n \in 1 .. Len(u), I(u[m]) = I(u[n]), m # n PROVE FALSE
    OBVIOUS
  <2>1. m < n \/ n < m
    BY <1>2
  <2>2. I(u[m]) \in Int /\ I(u[n]) \in Int
    BY <1>2, NumbersOf
  <2> QED
    BY <1>1, <2>1, <2>2
<1> QED
  BY <1>1, <1>2, <1>4, <1>5

LEMMA SoundWalks ==
  ASSUME NEW target \in Params, NEW C \in SUBSET Cond, NEW u \in Sound(target, C)
  PROVE  Walkable(UnitWords(u), target.width, Gap(u[1])) /\ Len(UnitWords(u)) = Len(u)
<1>1. PICK n \in Nat : n = Len(u) /\ n >= 1 /\ DOMAIN u = 1 .. n
  BY SoundFacts
<1>2. \A m \in 1 .. n : u[m] \in Cond /\ Gap(u[m]) = Gap(u[1])
  BY <1>1, SoundFacts
<1>3. \A l, m \in 1 .. n : l < m => I(u[l]) < I(u[m])
  BY <1>1, SoundFacts
<1>4. PICK is : is = UnitWords(u)
  OBVIOUS
<1>5. is \in Seq(Int) /\ Len(is) = n /\ \A m \in 1 .. n : is[m] = I(u[m])
  <2>1. is = [m \in 1 .. n |-> I(u[m])]
    BY <1>1, <1>4 DEF UnitWords
  <2>2. \A m \in 1 .. n : I(u[m]) \in Int
    BY <1>2, NumbersOf
  <2> QED
    BY <2>1, <2>2
<1>6. \A m \in 1 .. n : I(u[m]) \in 0 .. SCHEDULE - 1 /\ I(u[m]) + Gap(u[1]) < SCHEDULE
  <2> SUFFICES ASSUME NEW m \in 1 .. n PROVE I(u[m]) \in 0 .. SCHEDULE - 1 /\ I(u[m]) + Gap(u[1]) < SCHEDULE
    OBVIOUS
  <2>1. PICK c \in Cond : c = u[m] /\ Gap(c) = Gap(u[1])
    BY <1>2
  <2>2. I(c) \in 0 .. SCHEDULE - 1 /\ J(c) \in 0 .. SCHEDULE - 1 /\ SCHEDULE \in Nat /\ Gap(c) = J(c) - I(c)
    BY CondVertex
  <2> QED
    BY <2>1, <2>2
<1>7. target.width \in Nat \ {0} /\ Gap(u[1]) \in Int /\ target.width + Gap(u[1]) <= SCHEDULE
  <2>1. PICK c \in Cond : c = u[1]
    BY <1>1, <1>2
  <2>2. I(c) \in 0 .. SCHEDULE - 1 /\ J(c) \in 0 .. SCHEDULE - 1 /\ Gap(c) = J(c) - I(c) /\ target.width + Gap(c) <= SCHEDULE
    BY CondVertex
  <2> QED
    BY <2>1, <2>2, SlotsAssumption
<1>8. \A m \in 1 .. n : 0 <= is[m] /\ is[m] + Gap(u[1]) < SCHEDULE
  BY <1>5, <1>6
<1>9. Walkable(is, target.width, Gap(u[1]))
  BY <1>3, <1>5, <1>7, <1>8 DEF Walkable
<1> QED
  BY <1>1, <1>4, <1>5, <1>9

LEMMA SubRange ==
  ASSUME NEW X, NEW s \in Seq(X), NEW a \in Nat, NEW b \in Nat, b <= Len(s)
  PROVE  Range(SubSeq(s, a + 1, b)) = { s[m] : m \in a + 1 .. b }
<1>1. PICK r : r = SubSeq(s, a + 1, b)
  OBVIOUS
<1>2. CASE a + 1 > b
  <2>1. r = << >> /\ a + 1 .. b = {}
    BY <1>1, <1>2
  <2>2. Range(r) = {}
    BY <2>1 DEF Range
  <2> QED
    BY <1>1, <2>1, <2>2
<1>3. CASE a + 1 <= b
  <2>1. PICK l \in Nat : l = b - a /\ b = a + l
    BY <1>3
  <2>2. DOMAIN r = 1 .. l /\ \A m \in 1 .. l : r[m] = s[a + m]
    BY <1>1, <1>3, <2>1
  <2>3. \A m \in 1 .. l : a + m \in a + 1 .. b
    BY <2>1
  <2>4. \A m \in a + 1 .. b : m - a \in 1 .. l /\ a + (m - a) = m
    BY <2>1
  <2>5. Range(r) = { r[m] : m \in 1 .. l }
    BY <2>2 DEF Range
  <2> QED
    BY <1>1, <2>2, <2>3, <2>4, <2>5
<1> QED
  BY <1>2, <1>3

(* The members of a unit at a word, of those in a group.                   *)
MembersIn(u, from, upto, i) == { m \in from + 1 .. upto : I(u[m]) = i }

LaneOf(u, from, upto, i) ==
  [dvs |-> UNION { u[m].dvs : m \in MembersIn(u, from, upto, i) },
   bits |-> { TestBit(Align(FamilyOf(u)), A(u[m])) : m \in MembersIn(u, from, upto, i) }]

MadeOf(u, width, base, from, upto) ==
  [family |-> FamilyOf(u), base |-> base, lanes |-> [k \in 0 .. width - 1 |-> LaneOf(u, from, upto, base + k)]]

Laying(u, width, gs, t) ==
  /\ Len(gs) \in Nat /\ gs = [n \in 1 .. Len(gs) |-> gs[n]]
  /\ t \in [1 .. Len(gs) + 1 -> 0 .. Len(u)]
  /\ \A n \in 1 .. Len(gs) :
       /\ gs[n] = MadeOf(u, width, gs[n].base, t[n], t[n + 1])
       /\ gs[n].base \in Int /\ 0 <= gs[n].base /\ gs[n].base + width + Gap(u[1]) <= SCHEDULE
       /\ \A m \in t[n] + 1 .. t[n + 1] : gs[n].base <= I(u[m]) /\ I(u[m]) < gs[n].base + width
  /\ \A m \in 1 .. Len(u) : \E n \in 1 .. Len(gs) : m \in t[n] + 1 .. t[n + 1]

StartOf(ws, n) == TakenBy(SubSeq(ws, 1, n - 1))

InGroup(f, ws, n, i) ==
  { m \in Range(SubSeq(f.members, StartOf(ws, n) + 1, StartOf(ws, n) + ws[n].n)) : m.i = i }

LaneGiven(f, ws, n, i) ==
  [dvs |-> UNION { m.dvs : m \in InGroup(f, ws, n, i) },
   bits |-> { TestBit(Align(f), m.a) : m \in InGroup(f, ws, n, i) }]

GroupsGiven(f, ws, width) ==
  [n \in DOMAIN ws |->
    [family |-> f, base |-> ws[n].base, lanes |-> [k \in 0 .. width - 1 |-> LaneGiven(f, ws, n, ws[n].base + k)]]]

LEMMA LaneGroupsExpand ==
  ASSUME NEW u, NEW width
  PROVE  LaneGroups(FamilyOf(u), width) = GroupsGiven(FamilyOf(u), WindowsFor(u, width), width)
<1>1. FamilyOf(u).offset = Gap(u[1])
  BY DEF FamilyOf
<1>2. FamilyOf(u).members = [n \in DOMAIN u |-> [i |-> I(u[n]), a |-> A(u[n]), dvs |-> u[n].dvs]]
  BY DEF FamilyOf
<1>3. [n \in DOMAIN FamilyOf(u).members |-> FamilyOf(u).members[n].i] = UnitWords(u)
  <2>1. DOMAIN FamilyOf(u).members = DOMAIN u
    BY <1>2
  <2>2. \A n \in DOMAIN u : FamilyOf(u).members[n].i = I(u[n])
    BY <1>2
  <2> QED
    BY <2>1, <2>2 DEF UnitWords
<1>4. WindowsOf([n \in DOMAIN FamilyOf(u).members |-> FamilyOf(u).members[n].i], width, FamilyOf(u).offset) = WindowsFor(u, width)
  BY <1>1, <1>3 DEF WindowsFor
<1> QED
  BY ONLY <1>4, ZenonT(40) DEF LaneGroups, GroupsGiven, LaneGiven, InGroup, StartOf, TakenBy

LEMMA LaneGroupsAre ==
  ASSUME NEW target \in Params, NEW C \in SUBSET Cond, NEW u \in Sound(target, C)
  PROVE  /\ Len(LaneGroups(FamilyOf(u), target.width)) = Cost(u, target.width)
         /\ \E t : Laying(u, target.width, LaneGroups(FamilyOf(u), target.width), t)
<1> DEFINE width == target.width
           ws == WindowsFor(u, width)
           f == FamilyOf(u)
           from(n) == StartOf(ws, n)
           at(n, i) == InGroup(f, ws, n, i)
           lane(n, i) == LaneGiven(f, ws, n, i)
           gs == LaneGroups(f, width)
<1>1. gs = [n \in DOMAIN ws |-> [family |-> f, base |-> ws[n].base, lanes |-> [k \in 0 .. width - 1 |-> lane(n, ws[n].base + k)]]]
  <2>1. gs = GroupsGiven(f, ws, width)
    BY LaneGroupsExpand
  <2> HIDE DEF gs, ws, f, width
  <2> QED
    BY ONLY <2>1, Zenon DEF GroupsGiven
<1>2. Walkable(UnitWords(u), width, Gap(u[1])) /\ Len(UnitWords(u)) = Len(u)
  BY SoundWalks
<1>3. PICK t : Offsets(ws, t, Len(u)) /\ Parts(UnitWords(u), width, Gap(u[1]), ws, t, Len(u))
  <2>1. \E t : /\ Offsets(WindowsOf(UnitWords(u), width, Gap(u[1])), t, Len(UnitWords(u)))
               /\ Parts(UnitWords(u), width, Gap(u[1]), WindowsOf(UnitWords(u), width, Gap(u[1])), t, Len(UnitWords(u)))
    BY ONLY <1>2, WindowsPart
  <2> QED
    BY <1>2, <2>1 DEF WindowsFor
<1>4. ws \in Seq(Group)
  BY <1>3 DEF Parts
<1>5. Len(ws) = Cost(u, width)
  BY DEF WindowsFor, Cost, UnitWords
<1>6. PICK N, L \in Nat : N = Len(ws) /\ L = Len(u) /\ DOMAIN ws = 1 .. N /\ DOMAIN u = 1 .. L
  BY <1>4, SoundFacts
<1>7. \A n \in 1 .. N : ws[n].base \in Int /\ from(n) = t[n]
  <2>1. \A n \in 1 .. N : ws[n] \in Group
    BY <1>4, <1>6
  <2>2. \A n \in 1 .. N : from(n) = t[n]
    BY <1>3, <1>4, <1>6, TakenIsOffset DEF StartOf
  <2> QED
    BY <2>1, <2>2 DEF Group
<1>8. f.members = [n \in 1 .. L |-> [i |-> I(u[n]), a |-> A(u[n]), dvs |-> u[n].dvs]]
  BY <1>6 DEF FamilyOf
<1>9. t \in [1 .. N + 1 -> 0 .. L] /\ \A n \in 1 .. N : t[n] + ws[n].n = t[n + 1]
  BY <1>3, <1>6 DEF Offsets
<1>10. /\ \A n \in 1 .. N :
            /\ 0 <= ws[n].base /\ ws[n].base + width + Gap(u[1]) <= SCHEDULE
            /\ \A m \in t[n] + 1 .. t[n + 1] : ws[n].base <= UnitWords(u)[m] /\ UnitWords(u)[m] < ws[n].base + width
       /\ \A m \in 1 .. L : \E n \in 1 .. N : m \in t[n] + 1 .. t[n + 1]
  BY <1>3, <1>6 DEF Parts
<1> HIDE DEF gs, ws, f
<1>11. ASSUME NEW n \in 1 .. N, NEW i
       PROVE  lane(n, i) = LaneOf(u, t[n], t[n + 1], i)
  <2>1. t[n] \in Nat /\ t[n + 1] \in Nat /\ t[n + 1] <= L
    BY <1>9
  <2>2. PICK a, b \in Nat : a = t[n] /\ b = t[n + 1] /\ b <= L
    BY <2>1
  <2>3. \A m \in a + 1 .. b : m \in 1 .. L
    BY <2>2
  <2>4. PICK X : f.members \in Seq(X) /\ Len(f.members) = L
    <3>2. PICK X : X = { f.members[m] : m \in 1 .. L }
      OBVIOUS
    <3>3. \A m \in 1 .. L : f.members[m] \in X
      BY <3>2
    <3>4. PICK r : r = f.members /\ r = [m \in 1 .. L |-> r[m]] /\ \A m \in 1 .. L : r[m] \in X
      BY <1>8, <3>3
    <3>5. r \in Seq(X) /\ Len(r) = L
      BY ONLY L \in Nat, <3>4
    <3> QED
      BY <3>4, <3>5
  <2>5. Range(SubSeq(f.members, a + 1, b)) = { f.members[m] : m \in a + 1 .. b }
    <3>1. PICK r \in Seq(X) : r = f.members /\ Len(r) = L
      BY <2>4
    <3>2. Range(SubSeq(r, a + 1, b)) = { r[m] : m \in a + 1 .. b }
      <4>1. b <= Len(r)
        BY <2>2, <3>1
      <4> QED
        BY ONLY a \in Nat, b \in Nat, r \in Seq(X), <4>1, SubRange
    <3> QED
      BY <3>1, <3>2
  <2>6. \A m \in a + 1 .. b : f.members[m].i = I(u[m]) /\ f.members[m].a = A(u[m]) /\ f.members[m].dvs = u[m].dvs
    BY <1>8, <2>3
  <2>7. at(n, i) = { f.members[m] : m \in MembersIn(u, a, b, i) }
    <3>1. at(n, i) = { m \in Range(SubSeq(f.members, a + 1, b)) : m.i = i }
      BY <1>7, <1>9, <2>2 DEF InGroup
    <3> HIDE DEF at
    <3> QED
      BY <2>5, <2>6, <3>1 DEF MembersIn
  <2>8. \A m \in MembersIn(u, a, b, i) : f.members[m].a = A(u[m]) /\ f.members[m].dvs = u[m].dvs
    BY <2>6 DEF MembersIn
  <2> HIDE DEF at
  <2>9. { m.dvs : m \in at(n, i) } = { u[m].dvs : m \in MembersIn(u, a, b, i) }
    BY <2>7, <2>8
  <2>10. { TestBit(Align(f), m.a) : m \in at(n, i) } = { TestBit(Align(f), A(u[m])) : m \in MembersIn(u, a, b, i) }
    BY <2>7, <2>8
  <2> QED
    BY <2>2, <2>9, <2>10 DEF LaneOf, f, LaneGiven, at
<1> HIDE DEF lane
<1>12. gs = [n \in 1 .. N |-> MadeOf(u, width, ws[n].base, t[n], t[n + 1])]
  <2>1. \A n \in 1 .. N : [family |-> f, base |-> ws[n].base, lanes |-> [k \in 0 .. width - 1 |-> lane(n, ws[n].base + k)]] =
           MadeOf(u, width, ws[n].base, t[n], t[n + 1])
    BY <1>11 DEF MadeOf, f
  <2> QED
    BY <1>1, <1>6, <2>1
<1>13. Len(gs) = N /\ \A n \in 1 .. N : gs[n] = MadeOf(u, width, ws[n].base, t[n], t[n + 1]) /\ gs[n].base = ws[n].base
  BY <1>12 DEF MadeOf
<1>14. \A n \in 1 .. N : \A m \in t[n] + 1 .. t[n + 1] : UnitWords(u)[m] = I(u[m])
  <2>1. \A n \in 1 .. N : t[n] \in 0 .. L /\ t[n + 1] \in 0 .. L
    BY <1>9
  <2>2. \A n \in 1 .. N : \A m \in t[n] + 1 .. t[n + 1] : m \in 1 .. L
    BY <2>1
  <2> QED
    BY <1>6, <2>2 DEF UnitWords
<1>15. Laying(u, width, gs, t)
  <2>1. gs = [n \in 1 .. N |-> gs[n]]
    BY <1>12
  <2>2. \A n \in 1 .. N :
       /\ gs[n] = MadeOf(u, width, gs[n].base, t[n], t[n + 1])
       /\ gs[n].base \in Int /\ 0 <= gs[n].base /\ gs[n].base + width + Gap(u[1]) <= SCHEDULE
       /\ \A m \in t[n] + 1 .. t[n + 1] : gs[n].base <= I(u[m]) /\ I(u[m]) < gs[n].base + width
    BY <1>7, <1>10, <1>13, <1>14
  <2> QED
    BY <1>6, <1>9, <1>10, <1>13, <2>1, <2>2 DEF Laying
<1> QED
  BY <1>5, <1>6, <1>13, <1>15 DEF gs, f

-----------------------------------------------------------------------------
(* The groups of all units, unit by unit, and in the order they are        *)
(* emitted in.                                                             *)
Laid(us, width) == [n \in DOMAIN us |-> LaneGroups(FamilyOf(us[n]), width)]

GroupsOf(u, width) == Range(LaneGroups(FamilyOf(u), width))

Makes(target, C) == UNION { GroupsOf(u, target.width) : u \in Sound(target, C) }

LEMMA FunctionIsSeq ==
  ASSUME NEW X, NEW N \in Nat, NEW f, f = [n \in 1 .. N |-> f[n]], \A n \in 1 .. N : f[n] \in X
  PROVE  f \in Seq(X) /\ Len(f) = N
<1>1. f \in [1 .. N -> X]
  OBVIOUS
<1> QED
  BY <1>1

LEMMA LaidOne ==
  ASSUME NEW target \in Params, NEW C \in SUBSET Cond, NEW u \in Sound(target, C)
  PROVE  LaneGroups(FamilyOf(u), target.width) \in Seq(Makes(target, C))
<1>1. PICK gs : gs = LaneGroups(FamilyOf(u), target.width)
  OBVIOUS
<1>2. PICK t : Laying(u, target.width, gs, t)
  BY <1>1, LaneGroupsAre
<1>3. PICK N \in Nat : N = Len(gs) /\ gs = [n \in 1 .. N |-> gs[n]]
  BY <1>2 DEF Laying
<1>4. \A n \in 1 .. N : gs[n] \in GroupsOf(u, target.width)
  <2>1. DOMAIN gs = 1 .. N
    BY <1>3
  <2> QED
    BY <1>1, <2>1 DEF GroupsOf, Range
<1>5. \A n \in 1 .. N : gs[n] \in Makes(target, C)
  BY <1>4 DEF Makes
<1>6. gs \in Seq(Makes(target, C))
  BY <1>3, <1>5, FunctionIsSeq
<1> QED
  BY <1>1, <1>6

LEMMA LaidMore ==
  ASSUME NEW X, NEW us \in Seq(X), NEW u \in X, NEW width
  PROVE  Laid(Append(us, u), width) = Append(Laid(us, width), LaneGroups(FamilyOf(u), width))
<1> DEFINE g(e) == LaneGroups(FamilyOf(e), width)
<1>0. PICK l \in Nat : l = Len(us)
  OBVIOUS
<1>1. PICK t : l = Len(us) /\ t = Append(us, u)
  BY <1>0
<1>2. t \in Seq(X) /\ DOMAIN t = 1 .. l + 1 /\ DOMAIN us = 1 .. l /\ t[l + 1] = u /\ \A k \in 1 .. l : t[k] = us[k]
  BY <1>1, AppendFacts
<1> HIDE DEF g
<1>3. Laid(t, width) = [n \in 1 .. l + 1 |-> g(t[n])] /\ Laid(us, width) = [n \in 1 .. l |-> g(us[n])]
  BY <1>2 DEF Laid, g
<1>4. PICK Y : g(u) \in Y /\ \A n \in 1 .. l : g(us[n]) \in Y
  <2>1. \A n \in 1 .. l : g(us[n]) \in {g(u)} \cup { g(us[k]) : k \in 1 .. l }
    OBVIOUS
  <2> QED
    BY <2>1
<1>5. PICK s : s = Laid(us, width)
  OBVIOUS
<1>6. s = [n \in 1 .. l |-> s[n]] /\ \A n \in 1 .. l : s[n] = g(us[n]) /\ s[n] \in Y
  BY <1>3, <1>4, <1>5
<1>7. s \in Seq(Y) /\ Len(s) = l
  BY <1>6, FunctionIsSeq
<1>71. PICK y \in Y : y = g(u)
  BY <1>4
<1>8. PICK r : r = Append(s, y)
  OBVIOUS
<1>81. r \in Seq(Y) /\ DOMAIN r = 1 .. l + 1 /\ r[l + 1] = y /\ \A k \in 1 .. l : r[k] = s[k]
  BY <1>7, <1>8, AppendFacts
<1>9. \A n \in 1 .. l + 1 : r[n] = g(t[n])
  <2> SUFFICES ASSUME NEW n \in 1 .. l + 1 PROVE r[n] = g(t[n])
    OBVIOUS
  <2>1. CASE n = l + 1
    BY <1>2, <1>71, <1>81, <2>1
  <2>2. CASE n \in 1 .. l
    BY <1>2, <1>6, <1>81, <2>2
  <2> QED
    BY <2>1, <2>2
<1>91. r = [n \in 1 .. l + 1 |-> r[n]]
  BY <1>81
<1>10. Append(s, g(u)) = Laid(t, width)
  BY <1>3, <1>8, <1>9, <1>91, <1>71
<1> QED
  BY <1>1, <1>5, <1>10 DEF g

LEMMA ConcatRange ==
  ASSUME NEW X, NEW s \in Seq(X), NEW t \in Seq(X)
  PROVE  Range(s \o t) = Range(s) \cup Range(t) /\ Len(s \o t) = Len(s) + Len(t)
<1>1. PICK l, m \in Nat : l = Len(s) /\ m = Len(t)
  OBVIOUS
<1>2. PICK r : r = s \o t
  OBVIOUS
<1>3. DOMAIN r = 1 .. l + m /\ (\A n \in 1 .. l : r[n] = s[n]) /\ (\A n \in l + 1 .. l + m : r[n] = t[n - l])
      /\ DOMAIN s = 1 .. l /\ DOMAIN t = 1 .. m /\ Len(r) = l + m
  BY <1>1, <1>2
<1>4. \A n \in 1 .. m : r[l + n] = t[n] /\ l + n \in 1 .. l + m
  <2> SUFFICES ASSUME NEW n \in 1 .. m PROVE r[l + n] = t[n] /\ l + n \in 1 .. l + m
    OBVIOUS
  <2>1. l + n \in l + 1 .. l + m /\ (l + n) - l = n /\ l + n \in 1 .. l + m
    BY <1>1
  <2> QED
    BY <1>3, <2>1
<1>5. Range(r) \subseteq Range(s) \cup Range(t)
  <2> SUFFICES ASSUME NEW n \in 1 .. l + m PROVE r[n] \in Range(s) \cup Range(t)
    BY <1>3 DEF Range
  <2>1. CASE n \in 1 .. l
    BY <1>3, <2>1 DEF Range
  <2>2. CASE n \in l + 1 .. l + m
    <3>1. n - l \in 1 .. m /\ r[n] = t[n - l]
      BY <1>1, <1>3, <2>2
    <3> QED
      BY <1>3, <3>1 DEF Range
  <2> QED
    BY <1>1, <2>1, <2>2
<1>6. Range(s) \subseteq Range(r)
  <2>1. \A n \in 1 .. l : n \in 1 .. l + m
    BY <1>1
  <2> QED
    BY <1>3, <2>1 DEF Range
<1>7. Range(t) \subseteq Range(r)
  BY <1>3, <1>4, SMTT(30) DEF Range
<1> QED
  BY <1>1, <1>2, <1>3, <1>5, <1>6, <1>7

GroupsOfAll(S, width) == UNION { GroupsOf(u, width) : u \in S }

LEMMA GroupsOfMore ==
  ASSUME NEW S, NEW width
  PROVE  /\ \A u : GroupsOfAll(S \cup {u}, width) = GroupsOfAll(S, width) \cup GroupsOf(u, width)
         /\ GroupsOfAll({}, width) = {}
         /\ \A x : x \in GroupsOfAll(S, width) <=> \E e \in S : x \in GroupsOf(e, width)
<1>1. \A T, x : x \in GroupsOfAll(T, width) <=> \E e \in T : x \in GroupsOf(e, width)
  BY DEF GroupsOfAll
<1>2. \A u, x : x \in GroupsOfAll(S \cup {u}, width) <=> x \in GroupsOfAll(S, width) \cup GroupsOf(u, width)
  BY <1>1
<1> QED
  BY <1>1, <1>2

LaidWell(target, C, us) ==
  /\ Laid(us, target.width) \in Seq(Seq(Makes(target, C)))
  /\ Len(Conds(Laid(us, target.width))) = Spent(us, target.width)
  /\ Range(Conds(Laid(us, target.width))) = GroupsOfAll(Range(us), target.width)

LEMMA LaidAll ==
  ASSUME NEW target \in Params, NEW C \in SUBSET Cond, NEW us \in Seq(Sound(target, C))
  PROVE  LaidWell(target, C, us)
<1> DEFINE X == Sound(target, C)
           width == target.width
           M == Makes(target, C)
           G == { vs \in Seq(X) : LaidWell(target, C, vs) }
<1>0. width \in Int /\ X \subseteq Nonempty(C)
  BY SlotsAssumption DEF Sound
<1>1. << >> \in G
  <2>1. Laid(<< >>, width) = << >>
    BY DEF Laid
  <2>2. Conds(<< >>) = << >> /\ Spent(<< >>, width) = 0
    BY <1>0, CondsOfNone, SpentOnNone
  <2>4. GroupsOfAll({}, width) = {}
    BY GroupsOfMore
  <2>3. Range(<< >>) = {} /\ << >> \in Seq(Seq(M)) /\ Len(<< >>) = 0 /\ << >> \in Seq(X)
    BY DEF Range
  <2> QED
    BY <2>1, <2>2, <2>4, <2>3 DEF LaidWell
<1>2. ASSUME NEW vs \in Seq(X), NEW u \in X, vs \in G PROVE Append(vs, u) \in G
  <2>1. LaidWell(target, C, vs)
    BY <1>2
  <2>2. PICK gs \in Seq(M) : gs = LaneGroups(FamilyOf(u), width) /\ Len(gs) = Cost(u, width) /\ Range(gs) = GroupsOf(u, width)
    BY LaidOne, LaneGroupsAre DEF GroupsOf
  <2>3. PICK all \in Seq(Seq(M)) : all = Laid(vs, width)
    BY <2>1 DEF LaidWell
  <2>4. Laid(Append(vs, u), width) = Append(all, gs)
    BY <2>2, <2>3, LaidMore
  <2>5. Conds(Append(all, gs)) = Conds(all) \o gs
    BY CondsOfOneMore
  <2>6. PICK flat \in Seq(M) : flat = Conds(all)
    BY CondsType
  <2>7. Range(flat \o gs) = Range(flat) \cup Range(gs) /\ Len(flat \o gs) = Len(flat) + Len(gs)
    BY ConcatRange
  <2>8. Spent(Append(vs, u), width) = Spent(vs, width) + Cost(u, width)
    <3>1. vs \in Seq(Nonempty(C)) /\ u \in Nonempty(C)
      BY <1>0, MoreSeq
    <3> QED
      BY <1>0, <3>1, SpentGrows
  <2>9. Range(Append(vs, u)) = Range(vs) \cup {u} /\ Append(vs, u) \in Seq(X)
    BY AppendFacts
  <2>10. Append(all, gs) \in Seq(Seq(M))
    OBVIOUS
  <2>11. Len(flat) = Spent(vs, width) /\ Range(flat) = GroupsOfAll(Range(vs), width)
    BY <2>1, <2>3, <2>6 DEF LaidWell
  <2> HIDE DEF M, X, width
  <2>12. LaidWell(target, C, Append(vs, u))
    <3>1. GroupsOfAll(Range(vs) \cup {u}, width) = GroupsOfAll(Range(vs), width) \cup GroupsOf(u, width)
      BY GroupsOfMore
    <3>2. Len(flat \o gs) = Spent(Append(vs, u), width)
      BY <2>2, <2>7, <2>8, <2>11
    <3>3. Range(flat \o gs) = GroupsOfAll(Range(Append(vs, u)), width)
      BY <2>2, <2>7, <2>9, <2>11, <3>1
    <3> QED
      BY <2>4, <2>5, <2>6, <2>10, <3>2, <3>3 DEF LaidWell, M, width
  <2> QED
    BY <2>9, <2>12 DEF X
<1> HIDE DEF G, X
<1>3. Seq(X) \subseteq G
  BY ONLY <1>1, <1>2, AllSequences
<1> QED
  BY <1>3 DEF G, X

-----------------------------------------------------------------------------
(* The groups in the order in which the words they read are there.         *)
LEMMA GroupFits ==
  ASSUME NEW target \in Params, NEW C \in SUBSET Cond, NEW g \in Makes(target, C)
  PROVE  g.base \in Int /\ 0 <= g.base /\ HighestWord(g) \in Int /\ HighestWord(g) < SCHEDULE
<1>1. PICK u \in Sound(target, C) : g \in GroupsOf(u, target.width)
  BY DEF Makes
<1>2. PICK gs, t : gs = LaneGroups(FamilyOf(u), target.width) /\ Laying(u, target.width, gs, t)
  BY LaneGroupsAre
<1>3. PICK n \in 1 .. Len(gs) : g = gs[n]
  <2>1. DOMAIN gs = 1 .. Len(gs)
    BY <1>2 DEF Laying
  <2> QED
    BY <1>1, <1>2, <2>1 DEF GroupsOf, Range
<1>4. /\ g = MadeOf(u, target.width, g.base, t[n], t[n + 1])
      /\ g.base \in Int /\ 0 <= g.base /\ g.base + target.width + Gap(u[1]) <= SCHEDULE
  BY <1>2, <1>3 DEF Laying
<1>5. PICK base \in Int, gap \in Int, width \in Nat \ {0} :
        base = g.base /\ gap = Gap(u[1]) /\ width = target.width
  <2>1. u[1] \in Cond
    <3>1. 1 \in 1 .. Len(u)
      BY SoundFacts
    <3> QED
      BY <3>1, SoundFacts
  <2>2. Gap(u[1]) \in Int
    BY <2>1, NumbersOf DEF Gap
  <2> QED
    BY <1>4, <2>2, SlotsAssumption
<1>6. g.family.offset = gap /\ DOMAIN g.lanes = 0 .. width - 1
  BY <1>4, <1>5 DEF MadeOf, FamilyOf
<1>7. Cardinality(0 .. width - 1) = width
  <2>1. PICK a, b \in Int : a = 0 /\ b = width - 1
    BY <1>5
  <2>2. Cardinality(a .. b) = IF a > b THEN 0 ELSE b - a + 1
    BY FS_Interval
  <2> QED
    BY <1>5, <2>1, <2>2
<1>8. HighestWord(g) = base + gap + width - 1
  BY <1>5, <1>6, <1>7 DEF HighestWord
<1>9. PICK S \in Int : S = SCHEDULE
  BY SlotsAssumption
<1>10. base + width + gap <= S
  BY <1>4, <1>5, <1>9
<1>11. base + gap + width - 1 \in Int /\ base + gap + width - 1 < S
  BY ONLY <1>10, base \in Int, gap \in Int, width \in Nat, S \in Int
<1> QED
  BY <1>4, <1>8, <1>9, <1>11

(* all_groups, on the groups family by family.                             *)
Emitted(gs) ==
  LET order == Ordered(DOMAIN gs, LAMBDA m, n : Less(<<HighestWord(gs[m]), m>>, <<HighestWord(gs[n]), n>>))
  IN [n \in DOMAIN gs |-> gs[order[n]]]

ReadFirst(gs) ==
  { x \in (DOMAIN gs) \X (DOMAIN gs) :
      Less(<<HighestWord(gs[x[1]]), x[1]>>, <<HighestWord(gs[x[2]]), x[2]>>) }

LEMMA AllGroupsEmitted ==
  ASSUME NEW us, NEW conds, NEW ranks, NEW width
  PROVE  AllGroups(PlanOf(us, conds, ranks), width) = Emitted(Conds(Laid(us, width)))
<1>1. PICK fs : fs = [n \in DOMAIN us |-> FamilyOf(us[n])]
  OBVIOUS
<1>2. PlanOf(us, conds, ranks).families = fs /\ DOMAIN fs = DOMAIN us
  BY <1>1 DEF PlanOf
<1>3. [n \in DOMAIN fs |-> LaneGroups(fs[n], width)] = Laid(us, width)
  BY <1>1 DEF Laid
<1>4. FlattenSeq([n \in DOMAIN PlanOf(us, conds, ranks).families |-> LaneGroups(PlanOf(us, conds, ranks).families[n], width)])
        = Conds(Laid(us, width))
  BY <1>2, <1>3 DEF Conds
<1>5. PICK plan0 : plan0 = PlanOf(us, conds, ranks)
  OBVIOUS
<1>6. AllGroups(plan0, width) =
        Emitted(FlattenSeq([n \in DOMAIN plan0.families |-> LaneGroups(plan0.families[n], width)]))
  BY ONLY Zenon DEF AllGroups, Emitted
<1> QED
  BY <1>4, <1>5, <1>6

LEMMA PairsOrder ==
  ASSUME NEW N \in Nat, NEW h \in [1 .. N -> Int], NEW R,
         R = { x \in (1 .. N) \X (1 .. N) : Less(<<h[x[1]], x[1]>>, <<h[x[2]], x[2]>>) }
  PROVE  Orders(1 .. N, R)
<1>1. IsFiniteSet(1 .. N)
  BY FS_Interval
<1> DEFINE pr(m) == [k \in 1 .. 2 |-> IF k = 1 THEN h[m] ELSE m]
<1>2. \A m \in 1 .. N : pr(m) \in [1 .. 2 -> Int] /\ pr(m) = <<h[m], m>> /\ pr(m)[1] = h[m] /\ pr(m)[2] = m
  OBVIOUS
<1> HIDE DEF pr
<1>3. \A m, n \in 1 .. N : <<m, n>> \in R <=> Less(pr(m), pr(n))
  BY <1>2
<1>4. \A m, n, o \in 1 .. N : ~Less(pr(m), pr(m)) /\ (Less(pr(m), pr(n)) /\ Less(pr(n), pr(o)) => Less(pr(m), pr(o)))
  <2> SUFFICES ASSUME NEW m \in 1 .. N, NEW n \in 1 .. N, NEW o \in 1 .. N
      PROVE ~Less(pr(m), pr(m)) /\ (Less(pr(m), pr(n)) /\ Less(pr(n), pr(o)) => Less(pr(m), pr(o)))
    OBVIOUS
  <2>1. PICK d \in Nat : d = 2
    OBVIOUS
  <2>2. PICK s, t, u \in [1 .. d -> Int] : s = pr(m) /\ t = pr(n) /\ u = pr(o)
    BY <1>2, <2>1
  <2>3. ~Less(s, s) /\ (Less(s, t) /\ Less(t, u) => Less(s, u))
    BY LessOrders
  <2> QED
    BY <2>2, <2>3
<1>5. ASSUME NEW m \in 1 .. N, NEW n \in 1 .. N PROVE m = n \/ Less(pr(m), pr(n)) \/ Less(pr(n), pr(m))
  <2>1. PICK s, t \in [1 .. 2 -> Int] : s = pr(m) /\ t = pr(n) /\ s[1] = h[m] /\ s[2] = m /\ t[1] = h[n] /\ t[2] = n
    BY <1>2
  <2>2. DOMAIN s = 1 .. 2 /\ DOMAIN t = 1 .. 2 /\ 1 .. 2 = {1, 2} /\ 1 .. 1 - 1 = {} /\ 1 .. 2 - 1 = {1}
    BY <2>1
  <2>3. s[1] \in Int /\ t[1] \in Int /\ s[2] \in Int /\ t[2] \in Int
    BY <2>1, <2>2
  <2>4. CASE s[1] < t[1]
    BY <2>2, <2>4, <2>1 DEF Less
  <2>5. CASE t[1] < s[1]
    BY <2>2, <2>5, <2>1 DEF Less
  <2>6. CASE s[1] = t[1] /\ s[2] < t[2]
    BY <2>2, <2>6, <2>1 DEF Less
  <2>7. CASE s[1] = t[1] /\ t[2] < s[2]
    BY <2>2, <2>7, <2>1 DEF Less
  <2> QED
    BY <2>1, <2>3, <2>4, <2>5, <2>6, <2>7
<1> QED
  BY <1>1, <1>3, <1>4, <1>5 DEF Orders

LEMMA EmittedAre ==
  ASSUME NEW target \in Params, NEW C \in SUBSET Cond, NEW gs \in Seq(Makes(target, C))
  PROVE  /\ Emitted(gs) \in Seq(Makes(target, C)) /\ Len(Emitted(gs)) = Len(gs)
         /\ Range(Emitted(gs)) = Range(gs)
<1>1. PICK N \in Nat : N = Len(gs) /\ DOMAIN gs = 1 .. N /\ \A n \in 1 .. N : gs[n] \in Makes(target, C)
  OBVIOUS
<1>2. PICK h : h = [n \in 1 .. N |-> HighestWord(gs[n])]
  OBVIOUS
<1>3. h \in [1 .. N -> Int] /\ \A n \in 1 .. N : h[n] = HighestWord(gs[n])
  <2>1. \A n \in 1 .. N : HighestWord(gs[n]) \in Int
    BY <1>1, GroupFits
  <2> QED
    BY <1>2, <2>1
<1>4. PICK R : R = ReadFirst(gs)
  OBVIOUS
<1>5. R = { x \in (1 .. N) \X (1 .. N) : Less(<<h[x[1]], x[1]>>, <<h[x[2]], x[2]>>) }
  <2>1. \A x \in (1 .. N) \X (1 .. N) : h[x[1]] = HighestWord(gs[x[1]]) /\ h[x[2]] = HighestWord(gs[x[2]])
    BY <1>3
  <2> QED
    BY <1>1, <1>4, <2>1 DEF ReadFirst
<1>6. Orders(1 .. N, R)
  BY <1>3, <1>5, PairsOrder
<1>7. \A m, n \in 1 .. N : <<m, n>> \in R <=> Less(<<HighestWord(gs[m]), m>>, <<HighestWord(gs[n]), n>>)
  BY <1>1, <1>4 DEF ReadFirst
<1>8. \A n \in 1 .. N : { m \in 1 .. N : Less(<<HighestWord(gs[m]), m>>, <<HighestWord(gs[n]), n>>) } = Below(1 .. N, R, n)
  BY <1>7 DEF Below
<1>9. PICK order : order = Ordered(DOMAIN gs, LAMBDA m, n : Less(<<HighestWord(gs[m]), m>>, <<HighestWord(gs[n]), n>>))
  OBVIOUS
<1>10. PICK D : D = DOMAIN gs /\ D = 1 .. N
  BY <1>1
<1>11. order = [k \in 1 .. Cardinality(DOMAIN gs) |->
          CHOOSE x \in DOMAIN gs : Cardinality({ m \in DOMAIN gs : Less(<<HighestWord(gs[m]), m>>, <<HighestWord(gs[x]), x>>) }) = k - 1]
  BY <1>9, Zenon DEF Ordered
<1>12. \A n \in DOMAIN gs : { m \in DOMAIN gs : Less(<<HighestWord(gs[m]), m>>, <<HighestWord(gs[n]), n>>) } = Below(DOMAIN gs, R, n)
  BY <1>8, <1>10
<1>13. \A k : (CHOOSE x \in DOMAIN gs : Cardinality({ m \in DOMAIN gs : Less(<<HighestWord(gs[m]), m>>, <<HighestWord(gs[x]), x>>) }) = k - 1)
              = (CHOOSE x \in DOMAIN gs : Cardinality(Below(DOMAIN gs, R, x)) = k - 1)
  BY <1>12, Zenon
<1>131. order = Listed(DOMAIN gs, R)
  <2>1. DOMAIN order = 1 .. Cardinality(DOMAIN gs) /\ \A k \in 1 .. Cardinality(DOMAIN gs) : order[k] =
          (CHOOSE x \in DOMAIN gs : Cardinality({ m \in DOMAIN gs : Less(<<HighestWord(gs[m]), m>>, <<HighestWord(gs[x]), x>>) }) = k - 1)
    BY <1>11, Zenon
  <2>2. \A k \in 1 .. Cardinality(DOMAIN gs) : order[k] = (CHOOSE x \in DOMAIN gs : Cardinality(Below(DOMAIN gs, R, x)) = k - 1)
    BY <2>1, <1>13, Zenon
  <2>3. order = [k \in 1 .. Cardinality(DOMAIN gs) |-> order[k]]
    BY <1>11, <2>1, Zenon
  <2> QED
    BY <2>2, <2>3, Zenon DEF Listed
<1>132. PICK c \in Nat : c = Cardinality(1 .. N) /\ c = N
  BY FS_Interval
<1>133. PICK L : L = Listed(1 .. N, R) /\ L = order
  BY <1>10, <1>131
<1>134. L \in [1 .. c -> 1 .. N] /\ \A x \in 1 .. N : \E n \in 1 .. c : L[n] = x
  <2>1. Listed(1 .. N, R) \in [1 .. Cardinality(1 .. N) -> 1 .. N] /\ \A x \in 1 .. N : \E n \in 1 .. Cardinality(1 .. N) : Listed(1 .. N, R)[n] = x
    BY <1>6, ListedIs
  <2> QED
    BY <2>1, <1>132, <1>133
<1>14. order \in [1 .. N -> 1 .. N] /\ \A x \in 1 .. N : \E n \in 1 .. N : order[n] = x
  BY <1>132, <1>133, <1>134
<1>15. PICK es : es = Emitted(gs)
  OBVIOUS
<1>16. es = [n \in 1 .. N |-> gs[order[n]]]
  BY <1>1, <1>9, <1>15, Zenon DEF Emitted
<1>17. \A n \in 1 .. N : es[n] = gs[order[n]] /\ es[n] \in Makes(target, C)
  BY <1>1, <1>14, <1>16
<1>18. es = [n \in 1 .. N |-> es[n]]
  BY <1>16
<1>19. es \in Seq(Makes(target, C)) /\ Len(es) = N
  BY <1>17, <1>18, FunctionIsSeq
<1>20. Range(es) = Range(gs)
  <2>1. DOMAIN es = 1 .. N
    BY <1>16
  <2>2. \A n \in 1 .. N : es[n] = gs[order[n]] /\ order[n] \in 1 .. N
    BY <1>14, <1>17
  <2>3. Range(es) \subseteq Range(gs)
    BY <1>1, <2>1, <2>2 DEF Range
  <2>4. Range(gs) \subseteq Range(es)
    BY <1>1, <1>14, <2>1, <2>2 DEF Range
  <2> QED
    BY <2>3, <2>4
<1> QED
  BY <1>1, <1>15, <1>19, <1>20

-----------------------------------------------------------------------------
(* The groups of a plan.                                                   *)
PlansGroups(target, C, us, gs) ==
  /\ gs \in Seq(Makes(target, C)) /\ Len(gs) = Spent(us, target.width)
  /\ Range(gs) = GroupsOfAll(Range(us), target.width)

LEMMA AllGroupsAre ==
  ASSUME NEW target \in Params, NEW C \in SUBSET Cond, NEW us \in Seq(Sound(target, C)), NEW conds, NEW ranks
  PROVE  PlansGroups(target, C, us, AllGroups(PlanOf(us, conds, ranks), target.width))
<1>1. LaidWell(target, C, us)
  BY LaidAll
<1>2. PICK all \in Seq(Seq(Makes(target, C))) : all = Laid(us, target.width)
  BY <1>1 DEF LaidWell
<1>3. PICK flat \in Seq(Makes(target, C)) : flat = Conds(all)
  BY CondsType
<1>4. Emitted(flat) \in Seq(Makes(target, C)) /\ Len(Emitted(flat)) = Len(flat) /\ Range(Emitted(flat)) = Range(flat)
  BY EmittedAre
<1>5. AllGroups(PlanOf(us, conds, ranks), target.width) = Emitted(flat)
  BY <1>2, <1>3, AllGroupsEmitted
<1> QED
  BY <1>1, <1>2, <1>3, <1>4, <1>5 DEF LaidWell, PlansGroups

LEMMA ReadsFit ==
  ASSUME NEW target \in Params, NEW C \in SUBSET Cond, NEW gs \in Seq(Makes(target, C))
  PROVE  HighestRead(gs) < SCHEDULE /\ \A n \in DOMAIN gs : gs[n].base >= 0
<1>1. PICK N \in Nat : N = Len(gs) /\ DOMAIN gs = 1 .. N /\ \A n \in 1 .. N : gs[n] \in Makes(target, C)
  OBVIOUS
<1>2. \A n \in 1 .. N : gs[n].base \in Int /\ 0 <= gs[n].base /\ HighestWord(gs[n]) \in Int /\ HighestWord(gs[n]) < SCHEDULE
  BY <1>1, GroupFits
<1>3. PICK S : S = {0} \cup { HighestWord(gs[n]) : n \in DOMAIN gs }
  OBVIOUS
<1>4. IsFiniteSet(S)
  <2>1. IsFiniteSet(1 .. N)
    BY FS_Interval
  <2> DEFINE h == [n \in 1 .. N |-> HighestWord(gs[n])]
             T == { h[n] : n \in 1 .. N }
  <2>2. h \in Surjection(1 .. N, T)
    BY DEF Surjection
  <2>3. IsFiniteSet(T)
    BY <2>1, <2>2, FS_Surjection
  <2>4. S = T \cup {0}
    BY <1>1, <1>3
  <2> QED
    BY <2>3, <2>4, FS_AddElement
<1>5. S \in SUBSET Int /\ S # {} /\ \A x \in S : x < SCHEDULE
  BY <1>1, <1>2, <1>3, SlotsAssumption
<1>6. Max(S) \in S
  BY <1>4, <1>5, MaxOf
<1>7. HighestRead(gs) = Max(S)
  BY <1>3 DEF HighestRead
<1> QED
  BY <1>1, <1>2, <1>5, <1>6, <1>7

LEMMA EmittedFits ==
  ASSUME FInv, pc = "emitted"
  PROVE  GroupsFit
<1>1. p \in Params /\ p.width \in Nat \ {0} /\ search.cands \in SUBSET Cond
  BY ParamFacts DEF FInv
<1>2. PICK C \in SUBSET Cond : C = search.cands
  BY <1>1
<1>3. units \in Seq(Sound(p, C))
  BY <1>2 DEF FInv, UnitsFit, Budgeted
<1>4. plan = PlanOf(units, tail.conds, state.ranks) /\ form = FormOf(plan, p.width)
  BY DEF FInv, PlanIs
<1>5. PlansGroups(p, C, units, AllGroups(plan, p.width))
  BY <1>1, <1>3, <1>4, AllGroupsAre
<1>6. form.groups = IF p.width = 1 THEN << >> ELSE AllGroups(plan, p.width)
  BY <1>4 DEF FormOf
<1>7. p.width > 1 => Len(form.groups) = Spent(units, p.width)
  BY <1>1, <1>5, <1>6 DEF PlansGroups
<1>8. form.groups \in Seq(Makes(p, C))
  BY <1>5, <1>6 DEF PlansGroups
<1>9. HighestRead(form.groups) < SCHEDULE /\ \A n \in DOMAIN form.groups : form.groups[n].base >= 0
  BY <1>1, <1>8, ReadsFit
<1>10. plan.families = [n \in DOMAIN units |-> FamilyOf(units[n])]
  BY <1>4 DEF PlanOf
<1>11. ASSUME NEW n \in DOMAIN units
       PROVE  \A m \in 1 .. Len(FamilyOf(units[n]).members) - 1 :
                FamilyOf(units[n]).members[m].i < FamilyOf(units[n]).members[m + 1].i
  <2>1. PICK u \in Sound(p, C) : u = units[n]
    BY <1>3
  <2>2. PICK l \in Nat : l = Len(u) /\ DOMAIN u = 1 .. l /\ \A a, b \in 1 .. l : a < b => I(u[a]) < I(u[b])
    BY SoundFacts
  <2>3. PICK ms : ms = FamilyOf(u).members
    OBVIOUS
  <2>4. ms = [m \in 1 .. l |-> [i |-> I(u[m]), a |-> A(u[m]), dvs |-> u[m].dvs]]
    BY <2>2, <2>3 DEF FamilyOf
  <2>5. Len(ms) = l /\ \A m \in 1 .. l : ms[m].i = I(u[m])
    <3>1. ms \in Seq(Range(ms))
      BY <2>4 DEF Range
    <3> QED
      BY <2>4, <3>1
  <2> SUFFICES ASSUME NEW m \in 1 .. l - 1 PROVE ms[m].i < ms[m + 1].i
    BY <2>1, <2>3, <2>5
  <2>6. m \in 1 .. l /\ m + 1 \in 1 .. l /\ m < m + 1
    OBVIOUS
  <2> QED
    BY <2>2, <2>5, <2>6
<1>12. \A n \in DOMAIN plan.families :
         \A m \in 1 .. Len(plan.families[n].members) - 1 :
           plan.families[n].members[m].i < plan.families[n].members[m + 1].i
  BY <1>10, <1>11
<1> QED
  BY <1>7, <1>9, <1>12 DEF GroupsFit

LEMMA FInvFits ==
  ASSUME FInv
  PROVE  GroupsFit
<1>1. CASE pc = "best"
  <2>1. Spent(units, p.width) <= p.groups
    BY DEF FInv, UnitsFit, Budgeted
  <2> QED
    BY <1>1, <2>1 DEF GroupsFit
<1>2. CASE pc = "emitted"
  BY <1>2, EmittedFits
<1> QED
  BY <1>1, <1>2 DEF GroupsFit

(* Whatever the conditions, the ranks and the seed: a prefix never costs    *)
(* more groups than the target's budget, the emitter makes exactly as many  *)
(* groups as the solver counted, each family's members are in order, and no *)
(* load begins before the schedule or passes its end (cost, best, commit,   *)
(* lane_groups, all_groups, highest_read).                                  *)
THEOREM SpecGroupsFit == Spec => []GroupsFit
<1>1. FInv => GroupsFit
  BY FInvFits
<1> QED
  BY <1>1, SpecFInv, PTL

-----------------------------------------------------------------------------
(* A schedule with all its bits, and what a lane tests of it.              *)
AllBits == (0 .. SCHEDULE - 1) \X (0 .. WORD - 1)
Wholes == [AllBits -> Bit]

LEMMA TwoBits ==
  ASSUME NEW a \in Bit, NEW b \in Bit
  PROVE  Xor(a, b) \in Bit
<1>1. a \in {0, 1} /\ b \in {0, 1}
  BY DEF Bit
<1>2. (0 + 0) % 2 = 0 /\ (0 + 1) % 2 = 1 /\ (1 + 0) % 2 = 1 /\ (1 + 1) % 2 = 0
  OBVIOUS
<1> QED
  BY <1>1, <1>2 DEF Xor, Bit

LEMMA BitOf ==
  ASSUME NEW w \in Wholes, NEW c \in Cond
  PROVE  w[c.u] \in Bit /\ w[c.v] \in Bit /\ Xor(w[c.u], w[c.v]) \in Bit
<1>1. c.u \in AllBits /\ c.v \in AllBits
  BY ScheduleAssumption DEF Cond, AllBits
<1>2. w[c.u] \in Bit /\ w[c.v] \in Bit
  BY <1>1 DEF Wholes
<1> QED
  BY <1>2, TwoBits

(* Where the two words of a condition are lined up, its two bits meet.     *)
LEMMA LinesUp ==
  ASSUME NEW w, NEW c \in Cond
  PROVE  LinedUp(w, I(c), Gap(c), B(c) - A(c), TestBit(B(c) - A(c), A(c))) = Xor(w[c.u], w[c.v])
<1>1. PICK i, a, j, b \in Int : i = I(c) /\ a = A(c) /\ j = J(c) /\ b = B(c)
  BY NumbersOf
<1>2. c.u = <<i, a>> /\ c.v = <<j, b>>
  <2>1. c.u \in Nat \X Nat /\ c.v \in Nat \X Nat
    BY VertexAssumption DEF Cond
  <2>2. c.u = <<c.u[1], c.u[2]>> /\ c.v = <<c.v[1], c.v[2]>>
    BY <2>1
  <2> QED
    BY <1>1, <2>2 DEF I, A, J, B
<1>3. PICK gap, shift \in Int : gap = Gap(c) /\ shift = B(c) - A(c) /\ gap = j - i /\ shift = b - a
  BY <1>1 DEF Gap
<1>4. i + gap = j /\ a + shift = b
  BY <1>1, <1>3
<1>5. CASE shift >= 0
  <2>1. Min({shift, 0}) = 0
    <3>1. Min({shift, 0}) = IF shift <= 0 THEN shift ELSE 0
      BY MinOfTwo
    <3> QED
      BY <1>5, <3>1
  <2>2. TestBit(shift, a) = a
    BY <1>1, <2>1 DEF TestBit
  <2>3. LinedUp(w, i, gap, shift, a) = Xor(w[<<i, a>>], w[<<j, b>>])
    BY <1>4, <1>5 DEF LinedUp
  <2> QED
    BY <1>1, <1>2, <1>3, <2>2, <2>3
<1>6. CASE ~(shift >= 0)
  <2>1. Min({shift, 0}) = shift
    <3>1. Min({shift, 0}) = IF shift <= 0 THEN shift ELSE 0
      BY MinOfTwo
    <3> QED
      BY <1>3, <1>6, <3>1
  <2>2. TestBit(shift, a) = b
    BY <1>4, <2>1 DEF TestBit
  <2>3. b - shift = a
    BY <1>1, <1>3
  <2>4. LinedUp(w, i, gap, shift, b) = Xor(w[<<i, a>>], w[<<j, b>>])
    BY <1>4, <1>6, <2>3 DEF LinedUp
  <2> QED
    BY <1>1, <1>2, <1>3, <2>2, <2>4
<1> QED
  BY <1>5, <1>6

(* The bit a member of a unit is tested by, and what it is.                *)
TestedAt(u, m) == TestBit(Align(FamilyOf(u)), A(u[m]))

LEMMA MemberTests ==
  ASSUME NEW target, NEW C \in SUBSET Cond, NEW u \in Sound(target, C), NEW m \in 1 .. Len(u), NEW w \in Wholes
  PROVE  /\ u[m] \in Cond
         /\ LinedUp(w, I(u[m]), FamilyOf(u).offset, Align(FamilyOf(u)), TestedAt(u, m)) = Xor(w[u[m].u], w[u[m].v])
         /\ (Xor(w[u[m].u], w[u[m].v]) = 1 <=> FamilyOf(u).clears_on = 1) <=> ~Holds(w, u[m])
         /\ Xor(w[u[m].u], w[u[m].v]) = FamilyOf(u).clears_on <=> ~Holds(w, u[m])
<1>1. PICK c \in Cond : c = u[m]
  BY SoundFacts
<1>2. Gap(c) = Gap(u[1]) /\ B(c) - A(c) = B(u[1]) - A(u[1]) /\ c.c = u[1].c
  BY <1>1, SoundFacts
<1>3. FamilyOf(u).offset = Gap(c) /\ Align(FamilyOf(u)) = B(c) - A(c) /\ FamilyOf(u).clears_on = 1 - c.c
  BY <1>2 DEF FamilyOf, Align
<1>4. LinedUp(w, I(c), Gap(c), B(c) - A(c), TestBit(B(c) - A(c), A(c))) = Xor(w[c.u], w[c.v])
  BY LinesUp
<1>5. Xor(w[c.u], w[c.v]) \in {0, 1} /\ c.c \in {0, 1}
  BY BitOf DEF Cond, Bit
<1>6. PICK x \in {0, 1} : x = Xor(w[c.u], w[c.v])
  BY <1>5
<1>7. (x = 1 <=> 1 - c.c = 1) <=> x # c.c
  BY <1>5, <1>6
<1>8. x = 1 - c.c <=> x # c.c
  BY <1>5, <1>6
<1>9. ~Holds(w, c) <=> x # c.c
  BY <1>6 DEF Holds
<1> QED
  BY <1>1, <1>3, <1>4, <1>6, <1>7, <1>8, <1>9 DEF TestedAt

-----------------------------------------------------------------------------
(* What the lanes of a group clear.                                        *)
Within(u, from, upto) == from \in 0 .. Len(u) /\ upto \in 0 .. Len(u)

FailsAt(u, from, upto, w, d) == \E m \in from + 1 .. upto : d \in u[m].dvs /\ ~Holds(w, u[m])

LaneMembers(target, C, u, from, upto, i, m) ==
  /\ m \in 1 .. Len(u)
  /\ MembersIn(u, from, upto, i) = {m}
  /\ LaneOf(u, from, upto, i) = [dvs |-> u[m].dvs, bits |-> {TestedAt(u, m)}]

LEMMA OneMember ==
  ASSUME NEW target, NEW C \in SUBSET Cond, NEW u \in Sound(target, C),
         NEW from, NEW upto, Within(u, from, upto), NEW i, NEW m \in MembersIn(u, from, upto, i)
  PROVE  LaneMembers(target, C, u, from, upto, i, m)
<1>1. PICK l \in Nat : l = Len(u) /\ \A a, b \in 1 .. l : I(u[a]) = I(u[b]) => a = b
  BY SoundFacts
<1>2. from \in Int /\ upto \in Int /\ from >= 0 /\ upto <= l
  BY <1>1 DEF Within
<1>3. \A a \in from + 1 .. upto : a \in 1 .. l
  BY <1>1, <1>2
<1>4. m \in from + 1 .. upto /\ I(u[m]) = i
  BY DEF MembersIn
<1>5. \A a \in MembersIn(u, from, upto, i) : a = m
  BY <1>1, <1>3, <1>4 DEF MembersIn
<1>6. MembersIn(u, from, upto, i) = {m}
  BY <1>5
<1>7. UNION { u[a].dvs : a \in {m} } = u[m].dvs
  OBVIOUS
<1>8. { TestBit(Align(FamilyOf(u)), A(u[a])) : a \in {m} } = {TestedAt(u, m)}
  BY DEF TestedAt
<1>9. LaneOf(u, from, upto, i) = [dvs |-> u[m].dvs, bits |-> {TestedAt(u, m)}]
  BY <1>6, <1>7, <1>8 DEF LaneOf
<1> QED
  BY <1>1, <1>3, <1>4, <1>6, <1>9 DEF LaneMembers

LEMMA NoMember ==
  ASSUME NEW u, NEW from, NEW upto, NEW i, MembersIn(u, from, upto, i) = {}
  PROVE  LaneOf(u, from, upto, i).dvs = {}
<1>1. UNION { u[m].dvs : m \in {} } = {}
  OBVIOUS
<1> QED
  BY <1>1 DEF LaneOf

(* All that check test one bit, or each its own.                           *)
LEMMA TestsItsOwn ==
  ASSUME NEW target, NEW C \in SUBSET Cond, NEW u \in Sound(target, C), NEW width \in Nat, NEW base \in Int,
         NEW from, NEW upto, Within(u, from, upto), NEW k \in 0 .. width - 1,
         NEW m \in MembersIn(u, from, upto, base + k), NEW g, g = MadeOf(u, width, base, from, upto)
  PROVE  TestedBits(g, k) = {TestedAt(u, m)}
<1>1. LaneMembers(target, C, u, from, upto, base + k, m)
  BY OneMember
<1>2. DOMAIN g.lanes = 0 .. width - 1 /\ \A n \in 0 .. width - 1 : g.lanes[n] = LaneOf(u, from, upto, base + n)
  BY DEF MadeOf
<1>3. g.lanes[k].bits = {TestedAt(u, m)}
  BY <1>1, <1>2 DEF LaneMembers
<1>4. PICK bits : bits = UNION { g.lanes[n].bits : n \in DOMAIN g.lanes }
  OBVIOUS
<1>5. TestedAt(u, m) \in bits
  BY <1>2, <1>3, <1>4
<1>6. IsFiniteSet(bits)
  <2> DEFINE N == from + 1 .. upto
             f == [a \in N |-> TestedAt(u, a)]
             T == { f[a] : a \in N }
  <2>1. from \in Int /\ upto \in Int
    BY SoundFacts DEF Within
  <2>2. IsFiniteSet(N)
    <3>1. PICK a, b \in Int : a = from + 1 /\ b = upto
      BY <2>1
    <3>2. IsFiniteSet(a .. b)
      BY FS_Interval
    <3> QED
      BY <3>1, <3>2
  <2>3. f \in Surjection(N, T)
    BY DEF Surjection
  <2>4. IsFiniteSet(T)
    BY <2>2, <2>3, FS_Surjection
  <2>5. ASSUME NEW n \in 0 .. width - 1, NEW b \in g.lanes[n].bits PROVE b \in T
    <3>1. b \in { TestBit(Align(FamilyOf(u)), A(u[a])) : a \in MembersIn(u, from, upto, base + n) }
      <4>1. LaneOf(u, from, upto, base + n).bits = { TestBit(Align(FamilyOf(u)), A(u[a])) : a \in MembersIn(u, from, upto, base + n) }
        BY DEF LaneOf
      <4>2. g.lanes[n] = LaneOf(u, from, upto, base + n)
        BY <1>2
      <4> QED
        BY <2>5, <4>1, <4>2
    <3>2. PICK a \in MembersIn(u, from, upto, base + n) : b = TestedAt(u, a)
      BY <3>1 DEF TestedAt
    <3>3. a \in N /\ f[a] = b
      BY <3>2 DEF MembersIn
    <3> QED
      BY <3>3
  <2>6. bits \subseteq T
    BY <1>2, <1>4, <2>5
  <2> QED
    BY <2>4, <2>6, FS_Subset
<1>7. Cardinality(bits) = 1 => bits = {TestedAt(u, m)}
  BY <1>5, <1>6, FS_Singleton
<1>8. TestedBits(g, k) = IF Cardinality(bits) = 1 THEN bits ELSE g.lanes[k].bits
  BY <1>4 DEF TestedBits
<1> QED
  BY <1>3, <1>7, <1>8

LEMMA LaneClearsFailing ==
  ASSUME NEW target, NEW C \in SUBSET Cond, NEW u \in Sound(target, C), NEW w \in Wholes, NEW width \in Nat, NEW base \in Int,
         NEW from, NEW upto, Within(u, from, upto), NEW k \in 0 .. width - 1,
         NEW g, g = MadeOf(u, width, base, from, upto), NEW d
  PROVE  d \in LaneClears(g, w, k) <=>
           \E m \in MembersIn(u, from, upto, base + k) : d \in u[m].dvs /\ ~Holds(w, u[m])
<1>1. g.base = base /\ g.family = FamilyOf(u) /\ g.lanes[k] = LaneOf(u, from, upto, base + k)
  BY DEF MadeOf
<1>2. LaneClears(g, w, k) \in {{}, g.lanes[k].dvs}
  BY DEF LaneClears
<1>3. CASE MembersIn(u, from, upto, base + k) = {}
  <2>1. g.lanes[k].dvs = {}
    BY <1>1, <1>3, NoMember
  <2> QED
    BY <1>2, <1>3, <2>1
<1>4. ASSUME NEW m \in MembersIn(u, from, upto, base + k)
      PROVE  d \in LaneClears(g, w, k) <=>
               \E n \in MembersIn(u, from, upto, base + k) : d \in u[n].dvs /\ ~Holds(w, u[n])
  <2>1. LaneMembers(target, C, u, from, upto, base + k, m)
    BY OneMember
  <2>2. m \in 1 .. Len(u) /\ MembersIn(u, from, upto, base + k) = {m} /\ g.lanes[k].dvs = u[m].dvs
    BY <1>1, <2>1 DEF LaneMembers
  <2>3. TestedBits(g, k) = {TestedAt(u, m)}
    BY TestsItsOwn
  <2>4. I(u[m]) = base + k
    BY DEF MembersIn
  <2>5. PICK x : x = LinedUp(w, base + k, FamilyOf(u).offset, Align(FamilyOf(u)), TestedAt(u, m))
    OBVIOUS
  <2>6. (x = 1 <=> FamilyOf(u).clears_on = 1) <=> ~Holds(w, u[m])
    <3>1. x = Xor(w[u[m].u], w[u[m].v])
      BY <2>2, <2>4, <2>5, MemberTests
    <3> QED
      BY <2>2, <3>1, MemberTests
  <2>7. (\E bit \in TestedBits(g, k) : LinedUp(w, g.base + k, g.family.offset, Align(g.family), bit) = 1) <=> x = 1
    BY <1>1, <2>3, <2>5
  <2>8. LaneClears(g, w, k) = IF x = 1 <=> FamilyOf(u).clears_on = 1 THEN u[m].dvs ELSE {}
    BY <1>1, <2>2, <2>7 DEF LaneClears
  <2> QED
    BY <2>2, <2>6, <2>8
<1> QED
  BY <1>3, <1>4

Cleared(g, w) == UNION { LaneClears(g, w, k) : k \in DOMAIN g.lanes }

LEMMA GroupClearsFailing ==
  ASSUME NEW target, NEW C \in SUBSET Cond, NEW u \in Sound(target, C), NEW w \in Wholes, NEW width \in Nat, NEW base \in Int,
         NEW from, NEW upto, Within(u, from, upto),
         \A m \in from + 1 .. upto : base <= I(u[m]) /\ I(u[m]) < base + width,
         NEW g, g = MadeOf(u, width, base, from, upto), NEW d
  PROVE  d \in Cleared(g, w) <=> FailsAt(u, from, upto, w, d)
<1>1. DOMAIN g.lanes = 0 .. width - 1
  BY DEF MadeOf
<1>2. ASSUME d \in Cleared(g, w) PROVE FailsAt(u, from, upto, w, d)
  <2>1. PICK k \in 0 .. width - 1 : d \in LaneClears(g, w, k)
    BY <1>1, <1>2 DEF Cleared
  <2>2. \E m \in MembersIn(u, from, upto, base + k) : d \in u[m].dvs /\ ~Holds(w, u[m])
    BY <2>1, LaneClearsFailing
  <2> QED
    BY <2>2 DEF FailsAt, MembersIn
<1>3. ASSUME FailsAt(u, from, upto, w, d) PROVE d \in Cleared(g, w)
  <2>1. PICK m \in from + 1 .. upto : d \in u[m].dvs /\ ~Holds(w, u[m])
    BY <1>3 DEF FailsAt
  <2>2. u[m] \in Cond
    <3>1. PICK l \in Nat : l = Len(u) /\ \A a \in 1 .. l : u[a] \in Cond
      BY SoundFacts
    <3>2. from \in Int /\ upto \in Int /\ from >= 0 /\ upto <= l
      BY <3>1 DEF Within
    <3>3. m \in 1 .. l
      BY <3>1, <3>2
    <3> QED
      BY <3>1, <3>3
  <2>3. PICK i \in Int : i = I(u[m]) /\ base <= i /\ i < base + width
    BY <2>2, NumbersOf
  <2>4. PICK k \in 0 .. width - 1 : k = i - base /\ base + k = i
    BY <2>3
  <2>5. m \in MembersIn(u, from, upto, base + k)
    BY <2>3, <2>4 DEF MembersIn
  <2>6. d \in LaneClears(g, w, k)
    BY <2>1, <2>5, LaneClearsFailing
  <2> QED
    BY <1>1, <2>6 DEF Cleared
<1> QED
  BY <1>2, <1>3

-----------------------------------------------------------------------------
(* What the groups of all units clear.                                     *)
FailsOne(u, w, d) == \E c \in Range(u) : d \in c.dvs /\ ~Holds(w, c)

LEMMA UnitClearsFailing ==
  ASSUME NEW target \in Params, NEW C \in SUBSET Cond, NEW u \in Sound(target, C), NEW w \in Wholes, NEW d
  PROVE  (\E g \in GroupsOf(u, target.width) : d \in Cleared(g, w)) <=> FailsOne(u, w, d)
<1>1. PICK gs, t : gs = LaneGroups(FamilyOf(u), target.width) /\ Laying(u, target.width, gs, t)
  BY LaneGroupsAre
<1>2. PICK N \in Nat, l \in Nat, width \in Nat : N = Len(gs) /\ l = Len(u) /\ width = target.width /\ DOMAIN u = 1 .. l
  BY <1>1, SoundFacts, SlotsAssumption, SMTT(30) DEF Laying
<1>3. /\ DOMAIN gs = 1 .. N /\ t \in [1 .. N + 1 -> 0 .. l]
      /\ \A n \in 1 .. N :
           /\ gs[n] = MadeOf(u, width, gs[n].base, t[n], t[n + 1])
           /\ gs[n].base \in Int
           /\ \A m \in t[n] + 1 .. t[n + 1] : gs[n].base <= I(u[m]) /\ I(u[m]) < gs[n].base + width
      /\ \A m \in 1 .. l : \E n \in 1 .. N : m \in t[n] + 1 .. t[n + 1]
  BY <1>1, <1>2 DEF Laying
<1>4. ASSUME NEW n \in 1 .. N
      PROVE  /\ d \in Cleared(gs[n], w) <=> FailsAt(u, t[n], t[n + 1], w, d)
             /\ \A m \in t[n] + 1 .. t[n + 1] : m \in 1 .. l
  <2>1. n \in 1 .. N + 1 /\ n + 1 \in 1 .. N + 1
    BY <1>2
  <2>2. PICK from, upto \in 0 .. l : from = t[n] /\ upto = t[n + 1]
    BY <1>3, <2>1
  <2>30. PICK g : g = gs[n]
    OBVIOUS
  <2>3. PICK base \in Int : g = gs[n] /\ base = g.base /\ g = MadeOf(u, width, base, from, upto)
    BY <1>3, <2>2, <2>30
  <2>4. \A m \in from + 1 .. upto : base <= I(u[m]) /\ I(u[m]) < base + width
    BY <1>3, <2>2, <2>3
  <2>5. Within(u, from, upto)
    BY <1>2, <2>2 DEF Within
  <2>6. d \in Cleared(g, w) <=> FailsAt(u, from, upto, w, d)
    BY <2>3, <2>4, <2>5, GroupClearsFailing
  <2>7. \A m \in from + 1 .. upto : m \in 1 .. l
    BY <1>2, <2>2
  <2> QED
    BY <2>2, <2>3, <2>6, <2>7
<1>5. ASSUME NEW g \in GroupsOf(u, target.width), d \in Cleared(g, w) PROVE FailsOne(u, w, d)
  <2>1. PICK n \in 1 .. N : g = gs[n]
    BY <1>1, <1>3 DEF GroupsOf, Range
  <2>2. FailsAt(u, t[n], t[n + 1], w, d)
    BY <1>4, <1>5, <2>1
  <2>3. PICK m \in t[n] + 1 .. t[n + 1] : d \in u[m].dvs /\ ~Holds(w, u[m])
    BY <2>2 DEF FailsAt
  <2>4. m \in 1 .. l
    BY <1>4, <2>3
  <2> QED
    BY <1>2, <2>3, <2>4 DEF FailsOne, Range
<1>6. ASSUME FailsOne(u, w, d) PROVE \E g \in GroupsOf(u, target.width) : d \in Cleared(g, w)
  <2>1. PICK m \in 1 .. l : d \in u[m].dvs /\ ~Holds(w, u[m])
    BY <1>2, <1>6 DEF FailsOne, Range
  <2>2. PICK n \in 1 .. N : m \in t[n] + 1 .. t[n + 1]
    BY <1>3
  <2>3. FailsAt(u, t[n], t[n + 1], w, d)
    BY <2>1, <2>2 DEF FailsAt
  <2>4. d \in Cleared(gs[n], w)
    BY <1>4, <2>3
  <2>5. gs[n] \in GroupsOf(u, target.width)
    BY <1>1, <1>3 DEF GroupsOf, Range
  <2> QED
    BY <2>4, <2>5
<1> QED
  BY <1>5, <1>6

(* The conditions of all units.                                            *)
LEMMA CondsRange ==
  ASSUME NEW C, NEW us \in Seq(Seq(C))
  PROVE  \A c : c \in Range(Conds(us)) <=> \E u \in Range(us) : c \in Range(u)
<1> DEFINE X == Seq(C)
           G == { vs \in Seq(X) : \A c : c \in Range(Conds(vs)) <=> \E u \in Range(vs) : c \in Range(u) }
<1>1. << >> \in G
  <2>1. Conds(<< >>) = << >>
    BY CondsOfNone
  <2>2. Range(<< >>) = {} /\ << >> \in Seq(X)
    BY DEF Range
  <2> QED
    BY <2>1, <2>2
<1>2. ASSUME NEW vs \in Seq(X), NEW u \in X, vs \in G PROVE Append(vs, u) \in G
  <2>1. Conds(Append(vs, u)) = Conds(vs) \o u /\ Conds(vs) \in Seq(C)
    BY CondsOfOneMore, CondsType
  <2>2. Range(Conds(vs) \o u) = Range(Conds(vs)) \cup Range(u)
    BY <2>1, ConcatRange
  <2>3. Range(Append(vs, u)) = Range(vs) \cup {u} /\ Append(vs, u) \in Seq(X)
    BY AppendFacts
  <2>4. \A c : c \in Range(Conds(vs)) <=> \E e \in Range(vs) : c \in Range(e)
    BY <1>2
  <2>5. \A c : c \in Range(Conds(Append(vs, u))) <=> \E e \in Range(Append(vs, u)) : c \in Range(e)
    BY <2>1, <2>2, <2>3, <2>4
  <2> QED
    BY <2>3, <2>5
<1> HIDE DEF G, X
<1>3. Seq(X) \subseteq G
  BY ONLY <1>1, <1>2, AllSequences
<1> QED
  BY <1>3 DEF G, X

(* The mask of a vector prefix: what its conditions keep.                  *)
LEMMA VectorPrefixIs ==
  ASSUME NEW target \in Params, NEW C \in SUBSET Cond, NEW us \in Seq(Sound(target, C)), NEW gs,
         PlansGroups(target, C, us, gs), NEW w \in Wholes
  PROVE  VectorPrefix(gs, w) = { d \in Dv : Keeps(w, Range(Conds(us)), d) }
<1>1. PICK N \in Nat : N = Len(gs) /\ DOMAIN gs = 1 .. N
  BY DEF PlansGroups
<1>2. Range(gs) = GroupsOfAll(Range(us), target.width)
  BY DEF PlansGroups
<1> DEFINE Clears(n) == UNION { LaneClears(gs[n], w, k) : k \in DOMAIN gs[n].lanes }
           Acc(parity) == UNION { Clears(n) : n \in { m \in DOMAIN gs : (m - 1) % 2 = parity } }
<1>3. VectorPrefix(gs, w) = Dv \ (Acc(0) \cup Acc(1))
  BY DEF VectorPrefix
<1>4. \A n : Clears(n) = Cleared(gs[n], w)
  BY DEF Cleared
<1>5. \A n \in 1 .. N : (n - 1) % 2 \in {0, 1}
  OBVIOUS
<1> HIDE DEF Clears
<1>6. \A d : d \in Acc(0) \cup Acc(1) <=> \E n \in 1 .. N : d \in Clears(n)
  <2>1. \A d, parity : d \in Acc(parity) <=> \E n \in 1 .. N : (n - 1) % 2 = parity /\ d \in Clears(n)
    BY <1>1
  <2> HIDE DEF Acc
  <2> QED
    BY <1>5, <2>1
<1>7. \A d : d \in Acc(0) \cup Acc(1) <=> \E g \in Range(gs) : d \in Cleared(g, w)
  BY <1>1, <1>4, <1>6 DEF Range
<1>8. \A u \in Range(us) : u \in Sound(target, C)
  BY DEF Range
<1>9. \A d : d \in Acc(0) \cup Acc(1) <=> \E u \in Range(us) : FailsOne(u, w, d)
  <2>1. \A g : g \in Range(gs) <=> \E u \in Range(us) : g \in GroupsOf(u, target.width)
    BY <1>2, GroupsOfMore
  <2>2. \A u \in Range(us) : \A d : (\E g \in GroupsOf(u, target.width) : d \in Cleared(g, w)) <=> FailsOne(u, w, d)
    BY <1>8, UnitClearsFailing
  <2> HIDE DEF Acc
  <2> QED
    BY <1>7, <2>1, <2>2
<1>10. us \in Seq(Seq(C))
  <2>1. Sound(target, C) \subseteq Seq(C)
    BY DEF Sound, Nonempty
  <2> QED
    BY <2>1, MoreSeq
<1>11. \A d : (\E u \in Range(us) : FailsOne(u, w, d)) <=> \E c \in Range(Conds(us)) : d \in c.dvs /\ ~Holds(w, c)
  BY <1>10, CondsRange DEF FailsOne
<1>12. \A d : d \in Acc(0) \cup Acc(1) <=> ~Keeps(w, Range(Conds(us)), d)
  <2> HIDE DEF Acc
  <2> QED
    BY <1>9, <1>11 DEF Keeps
<1> HIDE DEF Acc
<1> QED
  BY <1>3, <1>12

-----------------------------------------------------------------------------
(* The scalar prefix: a statement per member, family by family.            *)
FamilyMask(w, mask, f) ==
  FoldLeft(LAMBDA left, m : IF LinedUp(w, m.i, f.offset, Align(f), TestBit(Align(f), m.a)) = f.clears_on
                            THEN left \ m.dvs ELSE left, mask, f.members)

MembersEq(w, mask, f, it) ==
  it = [u \in SUBSET DOMAIN f.members |->
         IF u = {} THEN mask
         ELSE IF LinedUp(w, f.members[Max(u)].i, f.offset, Align(f), TestBit(Align(f), f.members[Max(u)].a)) = f.clears_on
              THEN it[u \ {Max(u)}] \ f.members[Max(u)].dvs ELSE it[u \ {Max(u)}]]

LEMMA FamilyRuns ==
  ASSUME NEW w, NEW mask, NEW f
  PROVE  FamilyMask(w, mask, f) = (CHOOSE it : MembersEq(w, mask, f, it))[DOMAIN f.members]
BY Zenon DEF FamilyMask, FoldLeft, MapThenFoldSet, MembersEq

FamiliesEq(w, fs, it) ==
  it = [u \in SUBSET DOMAIN fs |-> IF u = {} THEN Dv ELSE FamilyMask(w, it[u \ {Max(u)}], fs[Max(u)])]

LEMMA ScalarRuns ==
  ASSUME NEW w, NEW fs
  PROVE  ScalarPrefix(fs, w) = (CHOOSE it : FamiliesEq(w, fs, it))[DOMAIN fs]
BY Zenon DEF ScalarPrefix, FamilyMask, FoldLeft, MapThenFoldSet, FamiliesEq

(* A fold that takes a set away at each position leaves what is in none.   *)
Struck(n, base, q, it) ==
  /\ it[{}] = base
  /\ \A u \in SUBSET (1 .. n) : u # {} => it[u] = it[u \ {Max(u)}] \ q[Max(u)]

Out(q, S) == UNION { q[k] : k \in S }

LEMMA OutMore ==
  ASSUME NEW q, NEW S
  PROVE  /\ \A j : Out(q, S \cup {j}) = Out(q, S) \cup q[j]
         /\ \A x : x \in Out(q, S) <=> \E k \in S : x \in q[k]
<1>1. \A T, x : x \in Out(q, T) <=> \E k \in T : x \in q[k]
  BY DEF Out
<1>2. \A j, x : x \in Out(q, S \cup {j}) <=> x \in Out(q, S) \cup q[j]
  BY <1>1
<1> QED
  BY <1>1, <1>2

LEMMA StrikesAll ==
  ASSUME NEW n \in Nat, NEW base, NEW q, NEW it, Struck(n, base, q, it)
  PROVE  it[1 .. n] = base \ Out(q, 1 .. n)
<1> DEFINE S == { k \in 0 .. n : it[1 .. k] = base \ Out(q, 1 .. k) }
<1>1. 0 \in S
  <2>1. \A x : x \notin Out(q, 1 .. 0)
    <3>1. \A k : k \notin 1 .. 0
      OBVIOUS
    <3> QED
      BY <3>1 DEF Out
  <2>2. base \ Out(q, 1 .. 0) = base
    BY <2>1
  <2>3. 1 .. 0 = {} /\ 0 \in 0 .. n
    OBVIOUS
  <2> QED
    BY <2>2, <2>3 DEF Struck
<1>2. ASSUME NEW k \in 0 .. n - 1, k \in S PROVE k + 1 \in S
  <2>1. PICK j : j = k + 1 /\ j \in 1 .. n /\ j \in 0 .. n /\ 1 .. j \in SUBSET (1 .. n) /\ 1 .. j # {}
    OBVIOUS
  <2>2. 1 .. j = (1 .. k) \cup {j} /\ j \notin 1 .. k
    BY <2>1
  <2>3. Max(1 .. j) = j
    <3>1. Max(1 .. j) \in 1 .. j /\ \A m \in 1 .. j : m <= Max(1 .. j)
      <4>1. IsFiniteSet(1 .. j) /\ 1 .. j \in SUBSET Int
        BY <2>1, FS_Interval
      <4> QED
        BY <2>1, <4>1, MaxOf
    <3>2. j \in 1 .. j
      BY <2>1
    <3>3. PICK m : m = Max(1 .. j) /\ m \in 1 .. j /\ j <= m
      BY <3>1, <3>2
    <3>4. m = j
      BY <2>1, <3>3
    <3> QED
      BY <3>3, <3>4
  <2>4. (1 .. j) \ {j} = 1 .. k
    BY <2>2
  <2>5. it[1 .. j] = it[1 .. k] \ q[j]
    BY <2>1, <2>3, <2>4 DEF Struck
  <2>6. it[1 .. k] = base \ Out(q, 1 .. k)
    BY <1>2
  <2>7. Out(q, 1 .. j) = Out(q, 1 .. k) \cup q[j]
    <3>1. PICK S1, S2 : S1 = 1 .. k /\ S2 = 1 .. j /\ S2 = S1 \cup {j}
      BY <2>2
    <3>2. Out(q, S1 \cup {j}) = Out(q, S1) \cup q[j]
      BY OutMore
    <3> QED
      BY ONLY <3>1, <3>2
  <2>8. it[1 .. j] = base \ Out(q, 1 .. j)
    <3>1. PICK x, y : x = Out(q, 1 .. k) /\ y = q[j]
      OBVIOUS
    <3>2. (base \ x) \ y = base \ (x \cup y)
      OBVIOUS
    <3> QED
      BY ONLY <2>5, <2>6, <2>7, <3>1, <3>2
  <2> QED
    BY <2>1, <2>8
<1> HIDE DEF S
<1>3. 0 .. n \subseteq S
  BY ONLY <1>1, <1>2, n \in Nat, UpTo
<1>4. n \in S
  BY <1>3
<1> QED
  BY <1>4 DEF S

LEMMA StrikesOne ==
  ASSUME NEW n \in Nat, NEW base, NEW q, NEW u \in SUBSET (1 .. n), u # {}
  PROVE  /\ Max(u) \in u /\ u \ {Max(u)} \in SUBSET (1 .. n)
         /\ base \ Out(q, u) = (base \ Out(q, u \ {Max(u)})) \ q[Max(u)]
<1>1. Max(u) \in u
  BY Positions
<1>2. PICK m \in u : m = Max(u)
  BY <1>1
<1>3. Out(q, u) = Out(q, u \ {m}) \cup q[m]
  <2>1. u = (u \ {m}) \cup {m}
    BY m \in u
  <2>2. Out(q, (u \ {m}) \cup {m}) = Out(q, u \ {m}) \cup q[m]
    BY OutMore
  <2> QED
    BY ONLY <2>1, <2>2
<1>4. base \ Out(q, u) = (base \ Out(q, u \ {m})) \ q[m]
  <2>1. PICK x, y : x = Out(q, u \ {m}) /\ y = q[m]
    OBVIOUS
  <2>2. (base \ x) \ y = base \ (x \cup y)
    OBVIOUS
  <2> QED
    BY <1>3, <2>1, <2>2
<1> QED
  BY <1>2, <1>4

-----------------------------------------------------------------------------
(* What the statement of each member of a unit takes away.                 *)
MemberStrikes(u, w) == [k \in 1 .. Len(u) |-> IF Holds(w, u[k]) THEN {} ELSE u[k].dvs]

StrikesEq(n, base, q, it) ==
  it = [s \in SUBSET (1 .. n) |-> IF s = {} THEN base ELSE it[s \ {Max(s)}] \ q[Max(s)]]

(* For a unit: the fold's equation says that it strikes.                   *)
LEMMA MembersStrike ==
  ASSUME NEW target, NEW C \in SUBSET Cond, NEW u \in Sound(target, C), NEW w \in Wholes, NEW mask, NEW it
  PROVE  /\ DOMAIN FamilyOf(u).members = 1 .. Len(u)
         /\ MembersEq(w, mask, FamilyOf(u), it) <=>
              StrikesEq(Len(u), mask, MemberStrikes(u, w), it)
<1>1. PICK n \in Nat : n = Len(u) /\ DOMAIN u = 1 .. n
  BY SoundFacts
<1>2. PICK f : f = FamilyOf(u)
  OBVIOUS
<1>3. PICK q : q = MemberStrikes(u, w)
  OBVIOUS
<1>4. DOMAIN f.members = 1 .. n /\ \A k \in 1 .. n : f.members[k] = [i |-> I(u[k]), a |-> A(u[k]), dvs |-> u[k].dvs]
  BY <1>1, <1>2 DEF FamilyOf
<1>41. \A k \in 1 .. n : f.members[k].i = I(u[k]) /\ f.members[k].a = A(u[k]) /\ f.members[k].dvs = u[k].dvs
  <2> SUFFICES ASSUME NEW k \in 1 .. n
      PROVE f.members[k].i = I(u[k]) /\ f.members[k].a = A(u[k]) /\ f.members[k].dvs = u[k].dvs
    OBVIOUS
  <2>1. PICK m : m = f.members[k] /\ m = [i |-> I(u[k]), a |-> A(u[k]), dvs |-> u[k].dvs]
    BY ONLY <1>4, k \in 1 .. n
  <2> QED
    BY ONLY <2>1
<1>5. \A s \in SUBSET (1 .. n) : s # {} => Max(s) \in 1 .. n
  BY <1>1, Positions
<1>6. ASSUME NEW k \in 1 .. n, NEW left
      PROVE  (IF LinedUp(w, f.members[k].i, f.offset, Align(f), TestBit(Align(f), f.members[k].a)) = f.clears_on
              THEN left \ f.members[k].dvs ELSE left) = left \ q[k]
  <2>1. f.members[k].i = I(u[k]) /\ f.members[k].a = A(u[k]) /\ f.members[k].dvs = u[k].dvs
    BY ONLY <1>41, k \in 1 .. n
  <2>2. PICK x : x = LinedUp(w, f.members[k].i, f.offset, Align(f), TestBit(Align(f), f.members[k].a))
    OBVIOUS
  <2>3. x = f.clears_on <=> ~Holds(w, u[k])
    <3>1. x = LinedUp(w, I(u[k]), FamilyOf(u).offset, Align(FamilyOf(u)), TestedAt(u, k))
      BY <1>2, <2>1, <2>2 DEF TestedAt
    <3>2. k \in 1 .. Len(u)
      BY <1>1
    <3>3. x = Xor(w[u[k].u], w[u[k].v])
      BY <3>1, <3>2, MemberTests
    <3>4. Xor(w[u[k].u], w[u[k].v]) = FamilyOf(u).clears_on <=> ~Holds(w, u[k])
      BY <3>2, MemberTests
    <3> QED
      BY <1>2, <3>3, <3>4
  <2>4. q[k] = IF Holds(w, u[k]) THEN {} ELSE u[k].dvs
    BY <1>1, <1>3 DEF MemberStrikes
  <2>5. left \ {} = left
    OBVIOUS
  <2> QED
    BY <2>1, <2>2, <2>3, <2>4, <2>5
<1>7. \A s \in SUBSET (1 .. n) : s # {} =>
        (IF LinedUp(w, f.members[Max(s)].i, f.offset, Align(f), TestBit(Align(f), f.members[Max(s)].a)) = f.clears_on
         THEN it[s \ {Max(s)}] \ f.members[Max(s)].dvs ELSE it[s \ {Max(s)}]) = it[s \ {Max(s)}] \ q[Max(s)]
  BY ONLY <1>5, <1>6
<1>8. PICK g : g = [s \in SUBSET (1 .. n) |->
         IF s = {} THEN mask
         ELSE IF LinedUp(w, f.members[Max(s)].i, f.offset, Align(f), TestBit(Align(f), f.members[Max(s)].a)) = f.clears_on
              THEN it[s \ {Max(s)}] \ f.members[Max(s)].dvs ELSE it[s \ {Max(s)}]]
  OBVIOUS
<1>9. PICK h : h = [s \in SUBSET (1 .. n) |-> IF s = {} THEN mask ELSE it[s \ {Max(s)}] \ q[Max(s)]]
  OBVIOUS
<1>10. g = h
  <2>1. \A s \in SUBSET (1 .. n) : g[s] = h[s]
    BY <1>7, <1>8, <1>9
  <2> QED
    BY <1>8, <1>9, <2>1
<1>11. MembersEq(w, mask, f, it) <=> it = g
  <2>1. PICK D : D = DOMAIN f.members /\ D = 1 .. n
    BY <1>4
  <2>2. g = [s \in SUBSET D |->
         IF s = {} THEN mask
         ELSE IF LinedUp(w, f.members[Max(s)].i, f.offset, Align(f), TestBit(Align(f), f.members[Max(s)].a)) = f.clears_on
              THEN it[s \ {Max(s)}] \ f.members[Max(s)].dvs ELSE it[s \ {Max(s)}]]
    BY <1>8, <2>1
  <2> QED
    BY ONLY <2>1, <2>2 DEF MembersEq
<1>12. StrikesEq(n, mask, q, it) <=> it = h
  BY ONLY <1>9 DEF StrikesEq
<1> QED
  BY <1>1, <1>2, <1>3, <1>4, <1>10, <1>11, <1>12

(* An equation of this shape has a solution.                               *)
LEMMA StrikesSolved ==
  ASSUME NEW n \in Nat, NEW base, NEW q
  PROVE  /\ \E it : StrikesEq(n, base, q, it)
         /\ \A it : StrikesEq(n, base, q, it) => it[1 .. n] = base \ Out(q, 1 .. n)
<1> DEFINE it == [s \in SUBSET (1 .. n) |-> base \ Out(q, s)]
<1>1. it[{}] = base
  <2>1. \A x : x \notin Out(q, {})
    BY DEF Out
  <2>2. base \ Out(q, {}) = base
    BY <2>1
  <2> QED
    BY <2>2
<1>2. ASSUME NEW s \in SUBSET (1 .. n), s # {} PROVE it[s] = it[s \ {Max(s)}] \ q[Max(s)]
  <2>1. /\ Max(s) \in s /\ s \ {Max(s)} \in SUBSET (1 .. n)
        /\ base \ Out(q, s) = (base \ Out(q, s \ {Max(s)})) \ q[Max(s)]
    BY <1>2, StrikesOne
  <2> QED
    BY <2>1
<1>3. it = [s \in SUBSET (1 .. n) |-> it[s]]
  OBVIOUS
<1> HIDE DEF it
<1>4. StrikesEq(n, base, q, it)
  BY ONLY <1>1, <1>2, <1>3 DEF StrikesEq
<1>5. ASSUME NEW jt, StrikesEq(n, base, q, jt) PROVE jt[1 .. n] = base \ Out(q, 1 .. n)
  <2>1. {} \in SUBSET (1 .. n)
    OBVIOUS
  <2>2. Struck(n, base, q, jt)
    BY <1>5, <2>1 DEF StrikesEq, Struck
  <2> QED
    BY <2>2, StrikesAll
<1> QED
  BY <1>4, <1>5

-----------------------------------------------------------------------------
(* The mask after a family, and after them all.                            *)
UnitStrikes(u, w) == { d \in Dv : FailsOne(u, w, d) }

LEMMA FamilyMaskIs ==
  ASSUME NEW target, NEW C \in SUBSET Cond, NEW u \in Sound(target, C), NEW w \in Wholes, NEW mask
  PROVE  FamilyMask(w, mask, FamilyOf(u)) = mask \ UnitStrikes(u, w)
<1>1. PICK n \in Nat : n = Len(u) /\ DOMAIN u = 1 .. n /\ \A m \in 1 .. n : u[m] \in Cond
  BY SoundFacts
<1>2. PICK q : q = MemberStrikes(u, w)
  OBVIOUS
<1>3. \A it : MembersEq(w, mask, FamilyOf(u), it) <=> StrikesEq(n, mask, q, it)
  <2> SUFFICES ASSUME NEW it PROVE MembersEq(w, mask, FamilyOf(u), it) <=> StrikesEq(n, mask, q, it)
    OBVIOUS
  <2>1. MembersEq(w, mask, FamilyOf(u), it) <=> StrikesEq(Len(u), mask, MemberStrikes(u, w), it)
    BY MembersStrike
  <2> QED
    BY <1>1, <1>2, <2>1
<1>4. PICK it : it = CHOOSE jt : MembersEq(w, mask, FamilyOf(u), jt)
  OBVIOUS
<1>5. StrikesEq(n, mask, q, it)
  <2>1. \E jt : MembersEq(w, mask, FamilyOf(u), jt)
    BY <1>3, StrikesSolved
  <2>2. MembersEq(w, mask, FamilyOf(u), it)
    BY <1>4, <2>1
  <2> QED
    BY <1>3, <2>2
<1>6. it[1 .. n] = mask \ Out(q, 1 .. n)
  BY <1>5, StrikesSolved
<1>7. FamilyMask(w, mask, FamilyOf(u)) = it[DOMAIN FamilyOf(u).members]
  BY <1>4, FamilyRuns
<1>8. DOMAIN FamilyOf(u).members = 1 .. n
  BY <1>1, MembersStrike
<1>9. \A d : d \in Out(q, 1 .. n) <=> d \in UnitStrikes(u, w)
  <2> SUFFICES ASSUME NEW d PROVE d \in Out(q, 1 .. n) <=> d \in UnitStrikes(u, w)
    OBVIOUS
  <2>1. d \in Out(q, 1 .. n) <=> \E k \in 1 .. n : d \in q[k]
    BY OutMore
  <2>2. \A k \in 1 .. n : d \in q[k] <=> d \in u[k].dvs /\ ~Holds(w, u[k])
    BY <1>1, <1>2 DEF MemberStrikes
  <2>3. FailsOne(u, w, d) <=> \E k \in 1 .. n : d \in u[k].dvs /\ ~Holds(w, u[k])
    BY <1>1 DEF FailsOne, Range
  <2>4. \A k \in 1 .. n : d \in u[k].dvs => d \in Dv
    BY <1>1 DEF Cond
  <2> QED
    BY <2>1, <2>2, <2>3, <2>4 DEF UnitStrikes
<1>10. Out(q, 1 .. n) = UnitStrikes(u, w)
  BY <1>9
<1> QED
  BY <1>6, <1>7, <1>8, <1>10

LEMMA ScalarPrefixIs ==
  ASSUME NEW target \in Params, NEW C \in SUBSET Cond, NEW us \in Seq(Sound(target, C)), NEW w \in Wholes
  PROVE  ScalarPrefix([n \in DOMAIN us |-> FamilyOf(us[n])], w) = { d \in Dv : Keeps(w, Range(Conds(us)), d) }
<1>1. PICK N \in Nat : N = Len(us) /\ DOMAIN us = 1 .. N /\ \A n \in 1 .. N : us[n] \in Sound(target, C)
  OBVIOUS
<1>2. PICK fs : fs = [n \in DOMAIN us |-> FamilyOf(us[n])]
  OBVIOUS
<1>3. DOMAIN fs = 1 .. N /\ \A n \in 1 .. N : fs[n] = FamilyOf(us[n])
  BY <1>1, <1>2
<1>4. PICK q : q = [n \in 1 .. N |-> UnitStrikes(us[n], w)]
  OBVIOUS
<1>5. \A s \in SUBSET (1 .. N) : s # {} => Max(s) \in 1 .. N
  BY <1>1, Positions
<1>6. \A n \in 1 .. N : \A mask : FamilyMask(w, mask, fs[n]) = mask \ q[n]
  BY <1>1, <1>3, <1>4, FamilyMaskIs
<1>7. ASSUME NEW it PROVE FamiliesEq(w, fs, it) <=> StrikesEq(N, Dv, q, it)
  <2>1. PICK g : g = [s \in SUBSET (1 .. N) |-> IF s = {} THEN Dv ELSE FamilyMask(w, it[s \ {Max(s)}], fs[Max(s)])]
    OBVIOUS
  <2>2. PICK h : h = [s \in SUBSET (1 .. N) |-> IF s = {} THEN Dv ELSE it[s \ {Max(s)}] \ q[Max(s)]]
    OBVIOUS
  <2>3. g = h
    <3>1. \A s \in SUBSET (1 .. N) : s # {} => FamilyMask(w, it[s \ {Max(s)}], fs[Max(s)]) = it[s \ {Max(s)}] \ q[Max(s)]
      BY ONLY <1>5, <1>6
    <3>2. \A s \in SUBSET (1 .. N) : g[s] = h[s]
      BY <2>1, <2>2, <3>1
    <3> QED
      BY <2>1, <2>2, <3>2
  <2>4. FamiliesEq(w, fs, it) <=> it = g
    <3>1. PICK D : D = DOMAIN fs /\ D = 1 .. N
      BY <1>3
    <3>2. g = [s \in SUBSET D |-> IF s = {} THEN Dv ELSE FamilyMask(w, it[s \ {Max(s)}], fs[Max(s)])]
      BY <2>1, <3>1
    <3> QED
      BY ONLY <3>1, <3>2 DEF FamiliesEq
  <2>5. StrikesEq(N, Dv, q, it) <=> it = h
    BY ONLY <2>2 DEF StrikesEq
  <2> QED
    BY <2>3, <2>4, <2>5
<1>8. PICK it : it = CHOOSE jt : FamiliesEq(w, fs, jt)
  OBVIOUS
<1>9. StrikesEq(N, Dv, q, it)
  <2>1. \E jt : FamiliesEq(w, fs, jt)
    BY <1>7, StrikesSolved
  <2>2. FamiliesEq(w, fs, it)
    BY <1>8, <2>1
  <2> QED
    BY <1>7, <2>2
<1>10. it[1 .. N] = Dv \ Out(q, 1 .. N)
  BY <1>9, StrikesSolved
<1>11. ScalarPrefix(fs, w) = Dv \ Out(q, 1 .. N)
  BY <1>3, <1>8, <1>10, ScalarRuns
<1>12. us \in Seq(Seq(C))
  <2>1. Sound(target, C) \subseteq Seq(C)
    BY DEF Sound, Nonempty
  <2> QED
    BY <2>1, MoreSeq
<1>13. ASSUME NEW d \in Dv PROVE d \in Out(q, 1 .. N) <=> ~Keeps(w, Range(Conds(us)), d)
  <2>1. d \in Out(q, 1 .. N) <=> \E n \in 1 .. N : d \in q[n]
    BY OutMore
  <2>2. d \in Out(q, 1 .. N) <=> \E n \in 1 .. N : FailsOne(us[n], w, d)
    BY <1>4, <2>1 DEF UnitStrikes
  <2>3. d \in Out(q, 1 .. N) <=> \E u \in Range(us) : FailsOne(u, w, d)
    BY <1>1, <2>2 DEF Range
  <2>4. (\E u \in Range(us) : FailsOne(u, w, d)) <=> \E c \in Range(Conds(us)) : d \in c.dvs /\ ~Holds(w, c)
    BY <1>12, CondsRange DEF FailsOne
  <2> QED
    BY <2>3, <2>4 DEF Keeps
<1> QED
  BY <1>2, <1>11, <1>13

-----------------------------------------------------------------------------
(* The checks of a DV are the tail's conditions for it, each once.         *)
TailFor(plan0, d) == { c \in Range(plan0.tail) : d \in c.dvs }
SlotsFor(plan0, d) == { n \in DOMAIN plan0.tail : d \in plan0.tail[n].dvs }
CheckRank(plan0, n) == <<1 - plan0.tail[n].c, I(plan0.tail[n]), A(plan0.tail[n]), n>>

LEMMA ConcatAt ==
  ASSUME NEW X, NEW s \in Seq(X), NEW t \in Seq(X), NEW l \in Nat, NEW m \in Nat, l = Len(s), m = Len(t)
  PROVE  /\ s \o t \in Seq(X) /\ DOMAIN (s \o t) = 1 .. l + m /\ Len(s \o t) = l + m
         /\ \A n \in 1 .. l : (s \o t)[n] = s[n]
         /\ \A n \in 1 .. m : (s \o t)[l + n] = t[n]
         /\ s \o t \in [1 .. l + m -> X]
<1>1. PICK r : r = s \o t
  OBVIOUS
<1>2. /\ r \in Seq(X) /\ DOMAIN r = 1 .. l + m /\ Len(r) = l + m
      /\ (\A n \in 1 .. l : r[n] = s[n]) /\ (\A n \in l + 1 .. l + m : r[n] = t[n - l])
  BY <1>1
<1>3. \A n \in 1 .. m : l + n \in l + 1 .. l + m /\ (l + n) - l = n
  OBVIOUS
<1>4. \A n \in 1 .. m : r[l + n] = t[n]
  BY <1>2, <1>3
<1>5. r \in [1 .. l + m -> X]
  <2>1. r = [n \in 1 .. l + m |-> r[n]] /\ \A n \in 1 .. l + m : r[n] \in X
    BY <1>2
  <2> QED
    BY ONLY <2>1
<1> QED
  BY <1>1, <1>2, <1>4, <1>5

LEMMA FieldsBefore == \A i \in 1 .. 4 : \A l \in 1 .. i - 1 : l \in 1 .. 4 /\ ~(i <= l)
OBVIOUS

(* Tuples that end in their position are ordered, and no two are alike.    *)
LEMMA RanksOrder ==
  ASSUME NEW N \in Nat, NEW P \in SUBSET (1 .. N), NEW h \in [1 .. N -> [1 .. 4 -> Int]],
         \A n \in 1 .. N : h[n][4] = n,
         NEW R, R = { x \in P \X P : Less(h[x[1]], h[x[2]]) }
  PROVE  Orders(P, R)
<1>1. IsFiniteSet(P)
  <2>1. IsFiniteSet(1 .. N)
    BY FS_Interval
  <2> QED
    BY <2>1, FS_Subset
<1>2. \A m, n \in P : <<m, n>> \in R <=> Less(h[m], h[n])
  OBVIOUS
<1>3. \A m, n, o \in P : ~Less(h[m], h[m]) /\ (Less(h[m], h[n]) /\ Less(h[n], h[o]) => Less(h[m], h[o]))
  <2> SUFFICES ASSUME NEW m \in P, NEW n \in P, NEW o \in P
      PROVE ~Less(h[m], h[m]) /\ (Less(h[m], h[n]) /\ Less(h[n], h[o]) => Less(h[m], h[o]))
    OBVIOUS
  <2>1. PICK l \in Nat : l = 4
    OBVIOUS
  <2>2. PICK s, t, u \in [1 .. l -> Int] : s = h[m] /\ t = h[n] /\ u = h[o]
    BY <2>1
  <2>3. ~Less(s, s) /\ (Less(s, t) /\ Less(t, u) => Less(s, u))
    BY LessOrders
  <2> QED
    BY <2>2, <2>3
<1>4. ASSUME NEW m \in P, NEW n \in P PROVE m = n \/ Less(h[m], h[n]) \/ Less(h[n], h[m])
  <2>1. PICK s, t \in [1 .. 4 -> Int] : s = h[m] /\ t = h[n] /\ s[4] = m /\ t[4] = n
    OBVIOUS
  <2>2. ASSUME m # n PROVE Less(s, t) \/ Less(t, s)
    <3>1. PICK Differ : Differ = { k \in 1 .. 4 : s[k] # t[k] }
      OBVIOUS
    <3>2. \A l : l \in Differ <=> l \in 1 .. 4 /\ s[l] # t[l]
      BY <3>1
    <3>21. s[4] # t[4] /\ 4 \in 1 .. 4
      BY <2>1, <2>2
    <3>22. Differ # {} /\ Differ \in SUBSET Nat
      <4>1. 4 \in Differ
        BY ONLY <3>2, <3>21
      <4>2. \A l \in Differ : l \in Nat
        <5>1. \A l : l \in 1 .. 4 => l \in Nat
          OBVIOUS
        <5> QED
          BY ONLY <3>2, <5>1, Zenon
      <4> QED
        BY ONLY <4>1, <4>2, Zenon
    <3>3. PICK k \in Differ : \A l \in Differ : k <= l
      BY <3>22, LeastElement
    <3>4. \A l \in 1 .. k - 1 : s[l] = t[l]
      <4>1. k \in 1 .. 4
        BY ONLY <3>2, k \in Differ
      <4>2. \A l \in 1 .. k - 1 : l \in 1 .. 4 /\ ~(k <= l)
        BY ONLY <4>1, FieldsBefore, Zenon
      <4> QED
        BY ONLY <3>2, <3>3, <4>2
    <3>5. k \in DOMAIN s /\ k \in DOMAIN t /\ (s[k] < t[k] \/ t[k] < s[k])
      <4>1. k \in 1 .. 4 /\ s[k] # t[k]
        BY ONLY <3>2, k \in Differ
      <4>2. DOMAIN s = 1 .. 4 /\ DOMAIN t = 1 .. 4 /\ s[k] \in Int /\ t[k] \in Int
        BY <2>1, <4>1
      <4> QED
        BY ONLY <4>1, <4>2
    <3> QED
      BY <3>4, <3>5 DEF Less
  <2> QED
    BY <2>1, <2>2
<1> QED
  BY <1>1, <1>2, <1>3, <1>4 DEF Orders

-----------------------------------------------------------------------------
LEMMA RangeFinite ==
  ASSUME NEW X, NEW s \in Seq(X)
  PROVE  IsFiniteSet(Range(s)) /\ Range(s) \subseteq X
<1>1. PICK n \in Nat : n = Len(s) /\ DOMAIN s = 1 .. n /\ \A k \in 1 .. n : s[k] \in X
  OBVIOUS
<1>2. IsFiniteSet(1 .. n)
  BY FS_Interval
<1> DEFINE T == { s[k] : k \in 1 .. n }
           h == [k \in 1 .. n |-> s[k]]
<1>3. h \in Surjection(1 .. n, T)
  BY DEF Surjection
<1>4. IsFiniteSet(T)
  BY <1>2, <1>3, FS_Surjection
<1>5. Range(s) = T
  BY <1>1 DEF Range
<1> QED
  BY <1>1, <1>4, <1>5

LEMMA ByDvAre ==
  ASSUME NEW spans, NEW plan0, plan0.tail \in Seq(Candidates(spans)), NEW d
  PROVE  ByDv(plan0, d) \in Seq(TailFor(plan0, d)) /\ Range(ByDv(plan0, d)) = TailFor(plan0, d)
<1>1. PICK N \in Nat : N = Len(plan0.tail) /\ DOMAIN plan0.tail = 1 .. N
                      /\ \A n \in 1 .. N : plan0.tail[n] \in Candidates(spans)
  OBVIOUS
<1>2. PICK P : P = SlotsFor(plan0, d)
  OBVIOUS
<1>3. P \in SUBSET (1 .. N) /\ \A n \in 1 .. N : n \in P <=> d \in plan0.tail[n].dvs
  BY <1>1, <1>2 DEF SlotsFor
<1>4. PICK h : h = [n \in 1 .. N |-> [k \in 1 .. 4 |->
               IF k = 1 THEN 1 - plan0.tail[n].c ELSE IF k = 2 THEN I(plan0.tail[n]) ELSE IF k = 3 THEN A(plan0.tail[n]) ELSE n]]
  OBVIOUS
<1>5. h \in [1 .. N -> [1 .. 4 -> Int]] /\ \A n \in 1 .. N : h[n][4] = n /\ h[n] = CheckRank(plan0, n)
  <2> SUFFICES ASSUME NEW n \in 1 .. N PROVE h[n] \in [1 .. 4 -> Int] /\ h[n][4] = n /\ h[n] = CheckRank(plan0, n)
    BY <1>4
  <2>1. PICK x, i, a \in Int : x = 1 - plan0.tail[n].c /\ i = I(plan0.tail[n]) /\ a = A(plan0.tail[n])
    <3>1. plan0.tail[n] \in Cond
      BY <1>1, CandidateFacts
    <3>2. PICK i, a, z \in Int : i = I(plan0.tail[n]) /\ a = A(plan0.tail[n]) /\ z = plan0.tail[n].c
      BY <3>1, NumbersOf
    <3> QED
      BY <3>2
  <2>2. h[n] = [k \in 1 .. 4 |-> IF k = 1 THEN x ELSE IF k = 2 THEN i ELSE IF k = 3 THEN a ELSE n]
    BY <1>4, <2>1
  <2>3. PICK q : q = h[n]
    OBVIOUS
  <2>4. q \in [1 .. 4 -> Int] /\ q[4] = n /\ q = <<x, i, a, n>>
    BY ONLY <2>2, <2>3, n \in 1 .. N, N \in Nat, x \in Int, i \in Int, a \in Int
  <2> QED
    BY <2>1, <2>3, <2>4 DEF CheckRank
<1>6. PICK R : R = { x \in P \X P : Less(h[x[1]], h[x[2]]) }
  OBVIOUS
<1>7. Orders(P, R)
  BY <1>3, <1>5, <1>6, RanksOrder
<1>8. \A n \in P : { m \in P : Less(CheckRank(plan0, m), CheckRank(plan0, n)) } = Below(P, R, n)
  <2>1. \A m, n \in P : <<m, n>> \in R <=> Less(CheckRank(plan0, m), CheckRank(plan0, n))
    BY <1>3, <1>5, <1>6
  <2> QED
    BY <2>1 DEF Below
<1>9. PICK order : order = Ordered(SlotsFor(plan0, d), LAMBDA m, n : Less(CheckRank(plan0, m), CheckRank(plan0, n)))
  OBVIOUS
<1>10. order = [k \in 1 .. Cardinality(SlotsFor(plan0, d)) |->
          CHOOSE x \in SlotsFor(plan0, d) :
            Cardinality({ m \in SlotsFor(plan0, d) : Less(CheckRank(plan0, m), CheckRank(plan0, x)) }) = k - 1]
  BY <1>9, Zenon DEF Ordered
<1>11. order = [k \in 1 .. Cardinality(P) |->
          CHOOSE x \in P : Cardinality({ m \in P : Less(CheckRank(plan0, m), CheckRank(plan0, x)) }) = k - 1]
  BY ONLY <1>2, <1>10
<1>12. \A k : (CHOOSE x \in P : Cardinality({ m \in P : Less(CheckRank(plan0, m), CheckRank(plan0, x)) }) = k - 1)
              = (CHOOSE x \in P : Cardinality(Below(P, R, x)) = k - 1)
  BY <1>8, Zenon
<1>13. order = Listed(P, R)
  <2>1. DOMAIN order = 1 .. Cardinality(P) /\ \A k \in 1 .. Cardinality(P) : order[k] =
          (CHOOSE x \in P : Cardinality({ m \in P : Less(CheckRank(plan0, m), CheckRank(plan0, x)) }) = k - 1)
    BY <1>11, Zenon
  <2>2. \A k \in 1 .. Cardinality(P) : order[k] = (CHOOSE x \in P : Cardinality(Below(P, R, x)) = k - 1)
    BY <2>1, <1>12, Zenon
  <2>3. order = [k \in 1 .. Cardinality(P) |-> order[k]]
    BY <1>11, <2>1, Zenon
  <2> QED
    BY <2>2, <2>3, Zenon DEF Listed
<1>14. PICK c \in Nat : c = Cardinality(P)
  BY <1>7, ListedIs
<1>15. order \in [1 .. c -> P] /\ \A x \in P : \E n \in 1 .. c : order[n] = x
  <2>1. Listed(P, R) \in [1 .. Cardinality(P) -> P] /\ \A x \in P : \E n \in 1 .. Cardinality(P) : Listed(P, R)[n] = x
    BY <1>7, ListedIs
  <2> QED
    BY <1>13, <1>14, <2>1
<1>16. PICK by : by = ByDv(plan0, d)
  OBVIOUS
<1>17. by = [k \in DOMAIN order |-> plan0.tail[order[k]]]
  BY <1>9, <1>16, Zenon DEF ByDv, SlotsFor, CheckRank
<1>18. by = [k \in 1 .. c |-> plan0.tail[order[k]]] /\ \A k \in 1 .. c : order[k] \in P /\ by[k] = plan0.tail[order[k]]
  BY <1>15, <1>17
<1>19. PICK S : S = TailFor(plan0, d)
  OBVIOUS
<1>20. \A x : x \in S <=> \E n \in P : x = plan0.tail[n]
  BY <1>1, <1>3, <1>19 DEF TailFor, Range
<1>21. \A k \in 1 .. c : by[k] \in S
  BY <1>18, <1>20
<1>22. by \in Seq(S)
  BY <1>18, <1>21, FunctionIsSeq
<1>23. Range(by) = S
  <2>1. \A x \in S : \E k \in 1 .. c : by[k] = x
    BY <1>15, <1>18, <1>20
  <2>2. DOMAIN by = 1 .. c
    BY <1>18
  <2> QED
    BY <1>21, <2>1, <2>2 DEF Range
<1> QED
  BY <1>16, <1>19, <1>22, <1>23

-----------------------------------------------------------------------------
(* The DVs in the order of their bits.                                     *)
Earlier == { x \in Dv \X Dv : x[1] < x[2] }

InOrder(L, N) ==
  /\ N \in Nat /\ DOMAIN L = 1 .. N /\ L \in Seq(Dv) /\ Len(L) = N
  /\ \A d \in Dv : \E n \in 1 .. N : L[n] = d
  /\ \A m, n \in 1 .. N : m < n <=> L[m] < L[n]

LEMMA DvsInOrder == InOrder(InDvOrder, Len(InDvOrder))
<1>1. PICK R : R = Earlier
  OBVIOUS
<1>2. \A x, y \in Dv : <<x, y>> \in R <=> x < y
  BY <1>1 DEF Earlier
<1>3. Orders(Dv, R)
  <2>1. \A x \in Dv : x \in Int
    BY DvAssumption
  <2>2. \A x, y, z \in Dv : ~(x < x) /\ (x < y /\ y < z => x < z) /\ (x = y \/ x < y \/ y < x)
    BY <2>1
  <2> QED
    BY ONLY <1>2, <2>2, FiniteAssumption DEF Orders
<1>4. \A x \in Dv : { y \in Dv : y < x } = Below(Dv, R, x)
  BY <1>2 DEF Below
<1>5. PICK L : L = InDvOrder
  OBVIOUS
<1>6. L = [k \in 1 .. Cardinality(Dv) |-> CHOOSE x \in Dv : Cardinality({ y \in Dv : y < x }) = k - 1]
  BY <1>5, Zenon DEF InDvOrder, Ordered
<1>7. \A k : (CHOOSE x \in Dv : Cardinality({ y \in Dv : y < x }) = k - 1)
              = (CHOOSE x \in Dv : Cardinality(Below(Dv, R, x)) = k - 1)
  BY <1>4, Zenon
<1>8. L = Listed(Dv, R)
  <2>1. DOMAIN L = 1 .. Cardinality(Dv) /\ \A k \in 1 .. Cardinality(Dv) : L[k] =
          (CHOOSE x \in Dv : Cardinality({ y \in Dv : y < x }) = k - 1)
    BY <1>6, Zenon
  <2>2. \A k \in 1 .. Cardinality(Dv) : L[k] = (CHOOSE x \in Dv : Cardinality(Below(Dv, R, x)) = k - 1)
    BY <2>1, <1>7, Zenon
  <2>3. L = [k \in 1 .. Cardinality(Dv) |-> L[k]]
    BY <1>6, <2>1, Zenon
  <2> QED
    BY <2>2, <2>3, Zenon DEF Listed
<1>9. PICK N \in Nat : N = Cardinality(Dv)
  BY FiniteAssumption, FS_CardinalityType
<1>10. /\ L \in [1 .. N -> Dv] /\ \A x \in Dv : \E n \in 1 .. N : L[n] = x
       /\ \A m, n \in 1 .. N : m < n <=> <<L[m], L[n]>> \in R
  <2>1. /\ Listed(Dv, R) \in [1 .. Cardinality(Dv) -> Dv]
        /\ \A x \in Dv : \E n \in 1 .. Cardinality(Dv) : Listed(Dv, R)[n] = x
        /\ \A m, n \in 1 .. Cardinality(Dv) : m < n <=> <<Listed(Dv, R)[m], Listed(Dv, R)[n]>> \in R
    BY <1>3, ListedIs
  <2> QED
    BY <1>8, <1>9, <2>1
<1>11. L \in Seq(Dv) /\ Len(L) = N
  BY <1>10, FunctionIsSeq
<1>12. \A m, n \in 1 .. N : m < n <=> L[m] < L[n]
  <2>1. \A n \in 1 .. N : L[n] \in Dv
    BY <1>10
  <2> QED
    BY <1>2, <1>10, <2>1
<1> QED
  BY <1>5, <1>10, <1>11, <1>12 DEF InOrder

(* Where the checks of a DV begin: the fold of the lengths before it.      *)
StartEq(by_dv, d, it) ==
  it = [u \in SUBSET DOMAIN InDvOrder |->
         IF u = {} THEN 0
         ELSE IF InDvOrder[Max(u)] < d THEN it[u \ {Max(u)}] + Len(by_dv[InDvOrder[Max(u)]]) ELSE it[u \ {Max(u)}]]

LEMMA StartRuns ==
  ASSUME NEW by_dv, NEW d
  PROVE  TailSpan(by_dv, d) = [start |-> (CHOOSE it : StartEq(by_dv, d, it))[DOMAIN InDvOrder], len |-> Len(by_dv[d])]
BY Zenon DEF TailSpan, FoldLeft, MapThenFoldSet, StartEq

StartOp(by_dv, d) == [m \in Nat \X Dv |-> IF m[2] < d THEN m[1] + Len(by_dv[m[2]]) ELSE m[1]]

Checks(by_dv) == \A d \in Dv : Len(by_dv[d]) \in Nat

LEMMA StartFolds ==
  ASSUME NEW by_dv, Checks(by_dv), NEW d \in Dv
  PROVE  \E it : Folded(InDvOrder, Nat, 0, StartOp(by_dv, d), it) /\ TailSpan(by_dv, d).start = it[DOMAIN InDvOrder]
<1> DEFINE op == StartOp(by_dv, d)
           it == CHOOSE jt : StartEq(by_dv, d, jt)
           L == InDvOrder
<1>1. /\ op \in [Nat \X Dv -> Nat]
      /\ \A a \in Nat, e \in Dv : op[<<a, e>>] = IF e < d THEN a + Len(by_dv[e]) ELSE a
  <2>1. \A m \in Nat \X Dv : m[1] \in Nat /\ m[2] \in Dv /\ m[1] + Len(by_dv[m[2]]) \in Nat
    BY DEF Checks
  <2>2. op \in [Nat \X Dv -> Nat]
    BY <2>1 DEF StartOp
  <2>3. \A a \in Nat, e \in Dv : op[<<a, e>>] = IF e < d THEN a + Len(by_dv[e]) ELSE a
    BY DEF StartOp
  <2> QED
    BY <2>2, <2>3
<1>2. 0 \in Nat /\ L \in Seq(Dv)
  BY DvsInOrder DEF InOrder
<1>3. \A u \in SUBSET DOMAIN L : u # {} => L[Max(u)] \in Dv
  <2>1. PICK n \in Nat : n = Len(L) /\ DOMAIN L = 1 .. n /\ \A k \in 1 .. n : L[k] \in Dv
    BY <1>2
  <2>2. \A u \in SUBSET (1 .. n) : u # {} => Max(u) \in u
    BY <2>1, Positions
  <2> QED
    BY <2>1, <2>2
<1> HIDE DEF op, L
<1>4. PICK jt : Folded(L, Nat, 0, op, jt)
  BY ONLY <1>1, <1>2, FoldedExists
<1>5. StartEq(by_dv, d, jt)
  <2>1. ASSUME NEW u \in SUBSET DOMAIN L, u # {}
        PROVE  jt[u] = IF L[Max(u)] < d THEN jt[u \ {Max(u)}] + Len(by_dv[L[Max(u)]]) ELSE jt[u \ {Max(u)}]
    <3>1. jt[u \ {Max(u)}] \in Nat
      BY <1>4 DEF Folded
    <3>2. jt[u] = op[<<jt[u \ {Max(u)}], L[Max(u)]>>]
      BY <1>4, <2>1 DEF Folded
    <3> QED
      BY <1>1, <1>3, <2>1, <3>1, <3>2
  <2>2. jt = [u \in SUBSET DOMAIN L |-> jt[u]] /\ jt[{}] = 0
    BY <1>4 DEF Folded
  <2> QED
    BY ONLY <2>1, <2>2 DEF StartEq, L
<1>6. StartEq(by_dv, d, it)
  BY <1>5
<1> HIDE DEF it
<1>7. Folded(L, Nat, 0, op, it)
  <2>1. it = [u \in SUBSET DOMAIN L |-> it[u]] /\ it[{}] = 0
    BY <1>6 DEF StartEq, L
  <2>2. ASSUME NEW u \in SUBSET DOMAIN L, u # {}, it[u \ {Max(u)}] \in Nat
        PROVE  it[u] = op[<<it[u \ {Max(u)}], L[Max(u)]>>]
    <3>1. it[u] = IF L[Max(u)] < d THEN it[u \ {Max(u)}] + Len(by_dv[L[Max(u)]]) ELSE it[u \ {Max(u)}]
      BY <1>6, <2>2 DEF StartEq, L
    <3>2. PICK a \in Nat : a = it[u \ {Max(u)}]
      BY <2>2
    <3>3. PICK e \in Dv : e = L[Max(u)]
      BY <1>3, <2>2
    <3>4. op[<<a, e>>] = IF e < d THEN a + Len(by_dv[e]) ELSE a
      BY <1>1
    <3> QED
      BY ONLY <3>1, <3>2, <3>3, <3>4
  <2> QED
    BY ONLY <1>1, <1>2, <2>1, <2>2, FoldedFollows
<1>8. TailSpan(by_dv, d).start = it[DOMAIN L]
  BY StartRuns DEF it, L
<1> QED
  BY <1>7, <1>8 DEF op, L

-----------------------------------------------------------------------------
(* A DV's checks are at its span.                                          *)
Placed(row, pre, start) ==
  /\ start \in Nat /\ start + Len(row) <= Len(pre)
  /\ \A i \in 1 .. Len(row) : pre[start + i] = row[i]

LEMMA PlacedMore ==
  ASSUME NEW X, NEW pre \in Seq(X), NEW next \in Seq(X), NEW row \in Seq(X)
  PROVE  /\ \A start : Placed(row, pre, start) => Placed(row, pre \o next, start)
         /\ Placed(row, pre \o row, Len(pre))
<1>1. PICK l \in Nat, m \in Nat, n \in Nat : l = Len(pre) /\ m = Len(next) /\ n = Len(row)
  OBVIOUS
<1>2. ASSUME NEW start, Placed(row, pre, start) PROVE Placed(row, pre \o next, start)
  <2>1. PICK r : r = pre \o next
    OBVIOUS
  <2>2. Len(r) = l + m /\ \A i \in 1 .. l : r[i] = pre[i]
    BY <1>1, <2>1, ConcatAt
  <2>3. start \in Nat /\ start + n <= l /\ \A i \in 1 .. n : pre[start + i] = row[i]
    BY <1>1, <1>2 DEF Placed
  <2>4. \A i \in 1 .. n : start + i \in 1 .. l
    BY <2>3
  <2>5. \A i \in 1 .. n : r[start + i] = row[i]
    BY <2>2, <2>3, <2>4
  <2>6. start + n <= l + m
    BY <2>3
  <2> QED
    BY <1>1, <2>1, <2>2, <2>3, <2>5, <2>6 DEF Placed
<1>3. Placed(row, pre \o row, l)
  <2>1. PICK r : r = pre \o row
    OBVIOUS
  <2>2. Len(r) = l + n /\ \A i \in 1 .. n : r[l + i] = row[i]
    BY <1>1, <2>1, ConcatAt
  <2> QED
    BY <1>1, <2>1, <2>2 DEF Placed
<1> QED
  BY <1>1, <1>2, <1>3

Rows(by_dv, k) == [n \in 1 .. k |-> by_dv[InDvOrder[n]]]

ChecksOf(by_dv, X) == \A d \in Dv : by_dv[d] \in Seq(X)

LEMMA RowsGrow ==
  ASSUME NEW X, NEW by_dv, ChecksOf(by_dv, X), NEW k \in Nat, k < Len(InDvOrder)
  PROVE  /\ Conds(Rows(by_dv, 0)) = << >>
         /\ Conds(Rows(by_dv, k)) \in Seq(X) /\ InDvOrder[k + 1] \in Dv
         /\ Conds(Rows(by_dv, k + 1)) = Conds(Rows(by_dv, k)) \o by_dv[InDvOrder[k + 1]]
<1>1. PICK N \in Nat : N = Len(InDvOrder) /\ \A n \in 1 .. N : InDvOrder[n] \in Dv
  <2>1. PICK L : L = InDvOrder
    OBVIOUS
  <2>2. L \in Seq(Dv) /\ Len(L) \in Nat
    BY <2>1, DvsInOrder DEF InOrder
  <2>3. \A n \in 1 .. Len(L) : L[n] \in Dv
    BY <2>2
  <2> QED
    BY <2>1, <2>2, <2>3
<1>2. PICK s : s = Rows(by_dv, k)
  OBVIOUS
<1>3. \A n \in 1 .. k + 1 : by_dv[InDvOrder[n]] \in Seq(X)
  <2>1. \A n \in 1 .. k + 1 : n \in 1 .. N
    BY <1>1
  <2> QED
    BY <1>1, <2>1 DEF ChecksOf
<1>4. s \in Seq(Seq(X)) /\ Len(s) = k
  <2>1. s = [n \in 1 .. k |-> s[n]] /\ \A n \in 1 .. k : s[n] \in Seq(X)
    <3>1. \A n \in 1 .. k : n \in 1 .. k + 1
      OBVIOUS
    <3> QED
      BY <1>2, <1>3, <3>1 DEF Rows
  <2> QED
    BY <2>1, FunctionIsSeq
<1>5. PICK row \in Seq(X) : row = by_dv[InDvOrder[k + 1]]
  <2>1. k + 1 \in 1 .. k + 1
    OBVIOUS
  <2> QED
    BY <1>3, <2>1
<1>6. Rows(by_dv, k + 1) = Append(s, row)
  <2>1. PICK t, r : t = Append(s, row) /\ r = Rows(by_dv, k + 1)
    OBVIOUS
  <2>2. t \in Seq(Seq(X)) /\ DOMAIN t = 1 .. k + 1 /\ t[k + 1] = row /\ \A n \in 1 .. k : t[n] = s[n]
    BY <1>4, <1>5, <2>1, AppendFacts
  <2>3. t = [n \in 1 .. k + 1 |-> t[n]]
    BY <2>2
  <2>4. \A n \in 1 .. k + 1 : t[n] = by_dv[InDvOrder[n]]
    <3> SUFFICES ASSUME NEW n \in 1 .. k + 1 PROVE t[n] = by_dv[InDvOrder[n]]
      OBVIOUS
    <3>1. CASE n = k + 1
      BY <1>5, <2>2, <3>1
    <3>2. CASE n \in 1 .. k
      <4>1. s[n] = by_dv[InDvOrder[n]]
        BY <1>2, <3>2 DEF Rows
      <4> QED
        BY <2>2, <3>2, <4>1
    <3> QED
      BY <3>1, <3>2
  <2>5. r = [n \in 1 .. k + 1 |-> by_dv[InDvOrder[n]]]
    BY <2>1 DEF Rows
  <2> QED
    BY <2>1, <2>3, <2>4, <2>5
<1>7. Conds(Append(s, row)) = Conds(s) \o row
  BY <1>4, CondsOfOneMore
<1>8. Conds(s) \in Seq(X)
  BY <1>4, CondsType
<1>9. Conds(Rows(by_dv, 0)) = << >>
  <2>1. Rows(by_dv, 0) = << >>
    BY DEF Rows
  <2> QED
    BY <2>1, CondsOfNone
<1>10. InDvOrder[k + 1] \in Dv
  <2>1. k + 1 \in 1 .. N
    BY <1>1
  <2> QED
    BY <1>1, <2>1
<1> QED
  BY <1>2, <1>5, <1>6, <1>7, <1>8, <1>9, <1>10

-----------------------------------------------------------------------------
(* The walk over the lengths, beside the checks laid out so far.           *)
LaidUpTo(by_dv, d, j, f, k) ==
  LET pre == Conds(Rows(by_dv, k))
  IN /\ k < j => f[k] = Len(pre)
     /\ k >= j => Placed(by_dv[d], pre, f[k])

LEMMA TailLaidOut ==
  ASSUME NEW X, NEW by_dv, ChecksOf(by_dv, X), NEW d \in Dv
  PROVE  Placed(by_dv[d], Conds(Rows(by_dv, Len(InDvOrder))), TailSpan(by_dv, d).start)
<1>1. PICK L : L = InDvOrder
  OBVIOUS
<1>2. PICK N \in Nat : N = Len(L) /\ InOrder(L, N)
  BY <1>1, DvsInOrder DEF InOrder
<1>3. /\ DOMAIN L = 1 .. N /\ L \in Seq(Dv) /\ \A n \in 1 .. N : L[n] \in Dv
      /\ \A m, n \in 1 .. N : m < n <=> L[m] < L[n]
  BY <1>2 DEF InOrder
<1>4. PICK j \in 1 .. N : L[j] = d
  BY <1>2 DEF InOrder
<1> DEFINE op == StartOp(by_dv, d)
<1>5. Checks(by_dv)
  BY DEF Checks, ChecksOf
<1>6. PICK it : Folded(L, Nat, 0, op, it) /\ TailSpan(by_dv, d).start = it[DOMAIN L]
  BY <1>1, <1>5, StartFolds
<1>7. /\ op \in [Nat \X Dv -> Nat]
      /\ \A a \in Nat, e \in Dv : op[<<a, e>>] = IF e < d THEN a + Len(by_dv[e]) ELSE a
  <2>1. \A m \in Nat \X Dv : m[1] \in Nat /\ m[2] \in Dv /\ m[1] + Len(by_dv[m[2]]) \in Nat
    BY <1>5 DEF Checks
  <2>2. op \in [Nat \X Dv -> Nat]
    BY <2>1 DEF StartOp
  <2>3. \A a \in Nat, e \in Dv : op[<<a, e>>] = IF e < d THEN a + Len(by_dv[e]) ELSE a
    BY DEF StartOp
  <2> QED
    BY <2>2, <2>3
<1> HIDE DEF op
<1>8. PICK f \in [0 .. N -> Nat] :
        f[0] = 0 /\ f[N] = TailSpan(by_dv, d).start /\ \A k \in 1 .. N : f[k] = op[<<f[k - 1], L[k]>>]
  <2>1. \E f : Walk(L, Nat, 0, op, it[DOMAIN L], f)
    <3>1. 0 \in Nat
      OBVIOUS
    <3> QED
      <4>1. L \in Seq(Dv) /\ op \in [Nat \X Dv -> Nat] /\ Folded(L, Nat, 0, op, it)
        BY <1>3, <1>6, <1>7
      <4> QED
        BY ONLY <3>1, <4>1, FoldedWalks
  <2>2. PICK f : Walk(L, Nat, 0, op, it[DOMAIN L], f)
    BY <2>1
  <2>3. f \in [0 .. N -> Nat] /\ f[0] = 0 /\ f[N] = TailSpan(by_dv, d).start /\ \A k \in 1 .. N : f[k] = op[<<f[k - 1], L[k]>>]
    BY ONLY <1>2, <1>6, <2>2 DEF Walk
  <2> QED
    BY <2>3
<1> DEFINE S == { k \in 0 .. N : LaidUpTo(by_dv, d, j, f, k) }
<1>9. 0 \in S
  <2>1. 0 \in Nat /\ 0 < Len(InDvOrder)
    BY <1>1, <1>2
  <2>2. Conds(Rows(by_dv, 0)) = << >>
    BY <2>1, RowsGrow
  <2> QED
    BY <1>8, <2>2 DEF LaidUpTo
<1>10. ASSUME NEW k \in 0 .. N - 1, k \in S PROVE k + 1 \in S
  <2>1. PICK m \in 1 .. N : m = k + 1 /\ m - 1 = k /\ k < N /\ m \in 0 .. N
    BY <1>2
  <2>2. LaidUpTo(by_dv, d, j, f, k)
    BY <1>10
  <2>3. k \in Nat /\ k < Len(InDvOrder)
    BY <1>1, <1>2, <2>1
  <2>4. Conds(Rows(by_dv, k)) \in Seq(X) /\ Conds(Rows(by_dv, m)) = Conds(Rows(by_dv, k)) \o by_dv[L[m]]
    BY <1>1, <2>1, <2>3, RowsGrow
  <2>5. PICK e \in Dv : e = L[m]
    BY <1>3
  <2>6. PICK pre \in Seq(X) : pre = Conds(Rows(by_dv, k))
    BY <2>4
  <2>7. PICK next \in Seq(X), row \in Seq(X) : next = by_dv[e] /\ row = by_dv[d]
    BY DEF ChecksOf
  <2>8. PICK post : post = Conds(Rows(by_dv, m)) /\ post = pre \o next /\ Len(post) = Len(pre) + Len(next)
    BY <2>4, <2>5, <2>6, <2>7, ConcatRange
  <2>9. PICK a \in Nat : a = f[k]
    BY <1>8, <2>1
  <2>10. f[m] = IF e < d THEN a + Len(next) ELSE a
    <3>1. f[m] = op[<<a, e>>]
      BY <1>8, <2>1, <2>5, <2>9
    <3>2. op[<<a, e>>] = IF e < d THEN a + Len(by_dv[e]) ELSE a
      BY <1>7
    <3> QED
      BY <2>7, <3>1, <3>2
  <2>11. CASE m < j
    <3>1. e < d
      BY <1>3, <1>4, <2>5, <2>11
    <3>2. a = Len(pre)
      <4>1. k < j
        BY <2>1, <2>11
      <4> QED
        BY <2>2, <2>6, <2>9, <4>1 DEF LaidUpTo
    <3>3. f[m] = Len(post)
      BY <2>8, <2>10, <3>1, <3>2
    <3>4. ~(m >= j)
      BY <2>11
    <3>5. LaidUpTo(by_dv, d, j, f, m)
      BY <2>8, <3>3, <3>4 DEF LaidUpTo
    <3> QED
      BY <2>1, <3>5
  <2>12. CASE ~(m < j)
    <3>1. ~(e < d)
      BY <1>3, <1>4, <2>5, <2>12
    <3>2. f[m] = a
      BY <2>10, <3>1
    <3>3. Placed(row, post, a)
      <4>1. CASE m = j
        <5>1. e = d /\ next = row /\ k < j
          BY <1>4, <2>1, <2>5, <2>7, <4>1
        <5>2. a = Len(pre)
          BY <2>2, <2>6, <2>9, <5>1 DEF LaidUpTo
        <5> QED
          BY <2>8, <5>1, <5>2, PlacedMore
      <4>2. CASE m # j
        <5>1. k >= j
          BY <2>1, <2>12, <4>2
        <5>2. Placed(row, pre, a)
          BY <2>2, <2>6, <2>7, <2>9, <5>1 DEF LaidUpTo
        <5> QED
          BY <2>8, <5>2, PlacedMore
      <4> QED
        BY <4>1, <4>2
    <3>4. LaidUpTo(by_dv, d, j, f, m)
      BY <2>7, <2>8, <2>12, <3>2, <3>3 DEF LaidUpTo
    <3> QED
      BY <2>1, <3>4
  <2> QED
    BY <2>11, <2>12
<1>11. N \in S
  <2> HIDE DEF S
  <2>1. 0 .. N \subseteq S
    BY ONLY <1>9, <1>10, N \in Nat, UpTo
  <2> QED
    BY <2>1
<1>12. N >= j
  OBVIOUS
<1> QED
  BY <1>1, <1>2, <1>8, <1>11, <1>12 DEF LaidUpTo

-----------------------------------------------------------------------------
(* The mask of a form, prefix and tail together.                           *)
ByDvs(plan0) == [d \in Dv |-> ByDv(plan0, d)]

RowHolds(w, row) == \A i \in 1 .. Len(row) : Holds(w, row[i])

LEMMA TailChecks ==
  ASSUME NEW spans, NEW plan0, plan0.tail \in Seq(Candidates(spans)), NEW w
  PROVE  /\ ChecksOf(ByDvs(plan0), Candidates(spans))
         /\ \A d \in Dv : RowHolds(w, ByDvs(plan0)[d]) <=> Keeps(w, Range(plan0.tail), d)
<1>1. PICK C : C = Candidates(spans)
  OBVIOUS
<1>2. PICK by : by = ByDvs(plan0)
  OBVIOUS
<1>3. ASSUME NEW d \in Dv PROVE by[d] \in Seq(C) /\ (RowHolds(w, by[d]) <=> Keeps(w, Range(plan0.tail), d))
  <2>1. PICK S : S = TailFor(plan0, d)
    OBVIOUS
  <2>2. by[d] = ByDv(plan0, d)
    BY <1>2 DEF ByDvs
  <2>3. by[d] \in Seq(S) /\ Range(by[d]) = S
    BY <2>1, <2>2, ByDvAre
  <2>4. S \subseteq C
    <3>1. Range(plan0.tail) \subseteq C
      BY <1>1, RangeFinite
    <3> QED
      BY <2>1, <3>1 DEF TailFor
  <2>5. by[d] \in Seq(C)
    BY <2>3, <2>4, MoreSeq
  <2>6. PICK n \in Nat : n = Len(by[d]) /\ DOMAIN by[d] = 1 .. n
    BY <2>3
  <2>7. RowHolds(w, by[d]) <=> \A c \in S : Holds(w, c)
    <3>1. \A c : c \in S <=> \E i \in 1 .. n : by[d][i] = c
      BY <2>3, <2>6 DEF Range
    <3> QED
      BY <2>6, <3>1 DEF RowHolds
  <2>8. Keeps(w, Range(plan0.tail), d) <=> \A c \in S : Holds(w, c)
    BY <2>1 DEF Keeps, TailFor
  <2> QED
    BY <2>5, <2>7, <2>8
<1> QED
  BY <1>1, <1>2, <1>3 DEF ChecksOf

(* What a tail leaves of a mask: the DVs whose checks all hold.            *)
Passing(by, w, mask) == { d \in mask : RowHolds(w, by[d]) }

TailIs(t, by, X, w, mask) ==
  /\ TableTail(t, w, mask) = Passing(by, w, mask)
  /\ by \in [Dv -> Seq(X)] => GuardedTail(t, w, mask) = Passing(by, w, mask)
  /\ t.checks = << >> => mask = Passing(by, w, mask)

LEMMA TailLeaves ==
  ASSUME NEW X, NEW by, ChecksOf(by, X), NEW ranks, NEW w, NEW mask \in SUBSET Dv
  PROVE  TailIs(TailOf(by, ranks), by, X, w, mask)
<1>1. PICK t : t = TailOf(by, ranks)
  OBVIOUS
<1>2. PICK N \in Nat : N = Len(InDvOrder) /\ DOMAIN InDvOrder = 1 .. N
  BY DvsInOrder DEF InOrder
<1>3. t.checks = Conds(Rows(by, N)) /\ t.blocks = by /\ \A d \in Dv : t.spans[d] = TailSpan(by, d)
  <2>1. [n \in DOMAIN InDvOrder |-> by[InDvOrder[n]]] = Rows(by, N)
    BY <1>2 DEF Rows
  <2> QED
    BY <1>1, <2>1 DEF TailOf, Conds
<1>4. ASSUME NEW d \in Dv
      PROVE  /\ (\E n \in t.spans[d].start + 1 .. t.spans[d].start + t.spans[d].len : ~Holds(w, t.checks[n])) <=> ~RowHolds(w, by[d])
             /\ t.checks = << >> => RowHolds(w, by[d])
  <2>1. Placed(by[d], t.checks, TailSpan(by, d).start)
    BY <1>2, <1>3, TailLaidOut
  <2>2. PICK l \in Nat, start \in Nat : l = Len(by[d]) /\ start = TailSpan(by, d).start
    BY <2>1 DEF Placed, ChecksOf
  <2>3. t.spans[d].start = start /\ t.spans[d].len = l
    <3>1. TailSpan(by, d).len = l
      BY <2>2 DEF TailSpan
    <3> QED
      BY <1>3, <2>2, <3>1
  <2>4. start + l <= Len(t.checks) /\ \A i \in 1 .. l : t.checks[start + i] = by[d][i]
    BY <2>1, <2>2 DEF Placed
  <2>5. \A i \in 1 .. l : start + i \in start + 1 .. start + l
    OBVIOUS
  <2>6. \A n \in start + 1 .. start + l : n - start \in 1 .. l /\ start + (n - start) = n
    OBVIOUS
  <2>7. (\E n \in start + 1 .. start + l : ~Holds(w, t.checks[n])) <=> \E i \in 1 .. l : ~Holds(w, by[d][i])
    BY <2>4, <2>5, <2>6
  <2>8. t.checks = << >> => l = 0
    <3>1. Len(<< >>) = 0
      OBVIOUS
    <3> QED
      BY <2>2, <2>4, <3>1
  <2>9. t.checks = << >> => RowHolds(w, by[d])
    BY <2>2, <2>8 DEF RowHolds
  <2> QED
    BY <2>2, <2>3, <2>7, <2>9 DEF RowHolds
<1>5. TableTail(t, w, mask) = { d \in mask : RowHolds(w, by[d]) }
  <2>1. \A d \in mask :
          (\E n \in t.spans[d].start + 1 .. t.spans[d].start + t.spans[d].len : ~Holds(w, t.checks[n])) <=> ~RowHolds(w, by[d])
    BY <1>4
  <2>2. TableTail(t, w, mask) = { d \in mask :
          ~(\E n \in t.spans[d].start + 1 .. t.spans[d].start + t.spans[d].len : ~Holds(w, t.checks[n])) }
    BY DEF TableTail
  <2> QED
    BY <2>1, <2>2
<1>6. ASSUME by \in [Dv -> Seq(X)] PROVE GuardedTail(t, w, mask) = { d \in mask : RowHolds(w, by[d]) }
  <2>1. GuardedTail(t, w, mask) = { d \in mask :
          ~((d \in t.rare => mask \cap t.rare # {}) /\ (d \in mask /\ \E n \in DOMAIN t.blocks[d] : ~Holds(w, t.blocks[d][n]))) }
    BY DEF GuardedTail
  <2>2. \A d \in mask : (\E n \in DOMAIN t.blocks[d] : ~Holds(w, t.blocks[d][n])) <=> ~RowHolds(w, by[d])
    <3> SUFFICES ASSUME NEW d \in mask PROVE (\E n \in DOMAIN t.blocks[d] : ~Holds(w, t.blocks[d][n])) <=> ~RowHolds(w, by[d])
      OBVIOUS
    <3>1. by[d] \in Seq(X) /\ t.blocks[d] = by[d]
      BY <1>3, <1>6
    <3>2. DOMAIN by[d] = 1 .. Len(by[d])
      BY <3>1
    <3> QED
      BY <3>1, <3>2 DEF RowHolds
  <2>3. \A d \in mask : d \in t.rare => mask \cap t.rare # {}
    OBVIOUS
  <2> QED
    BY <2>1, <2>2, <2>3
<1>7. t.checks = << >> => mask = { d \in mask : RowHolds(w, by[d]) }
  BY <1>4
<1> QED
  BY <1>1, <1>5, <1>6, <1>7 DEF TailIs, Passing

-----------------------------------------------------------------------------
LEMMA FormMaskIs ==
  ASSUME NEW target \in Params, NEW spans, NEW us \in Seq(Sound(target, Candidates(spans))),
         NEW conds \in Seq(Candidates(spans)), NEW ranks, NEW plan0, plan0 = PlanOf(us, conds, ranks),
         NEW w \in Wholes, NEW shape \in {"table", "guarded"}
  PROVE  FormMask(FormOf(plan0, target.width), target.width, shape, w)
           = { d \in Dv : Keeps(w, Range(Conds(us)) \cup Range(conds), d) }
<1>1. PICK C \in SUBSET Cond : C = Candidates(spans)
  BY CandidateFacts
<1>2. PICK form0 : form0 = FormOf(plan0, target.width)
  OBVIOUS
<1>3. PICK by : by = ByDvs(plan0)
  OBVIOUS
<1>4. /\ form0.families = plan0.families
      /\ form0.groups = IF target.width = 1 THEN << >> ELSE AllGroups(plan0, target.width)
      /\ form0.tail = TailOf(by, plan0.prefix_ranks)
  BY <1>2, <1>3 DEF FormOf, ByDvs
<1>5. plan0.families = [n \in DOMAIN us |-> FamilyOf(us[n])] /\ plan0.tail = conds
  BY DEF PlanOf
<1>6. us \in Seq(Sound(target, C))
  BY <1>1
<1>7. PICK mask : mask = Prefix(form0, target.width, w)
  OBVIOUS
<1>8. mask = { d \in Dv : Keeps(w, Range(Conds(us)), d) }
  <2>1. CASE target.width = 1
    <3>1. ScalarPrefix([n \in DOMAIN us |-> FamilyOf(us[n])], w) = { d \in Dv : Keeps(w, Range(Conds(us)), d) }
      BY <1>6, ScalarPrefixIs
    <3> QED
      BY <1>4, <1>5, <1>7, <2>1, <3>1 DEF Prefix
  <2>2. CASE target.width # 1
    <3>1. PlansGroups(target, C, us, AllGroups(plan0, target.width))
      BY <1>6, AllGroupsAre
    <3>2. VectorPrefix(AllGroups(plan0, target.width), w) = { d \in Dv : Keeps(w, Range(Conds(us)), d) }
      BY <1>6, <3>1, VectorPrefixIs
    <3> QED
      BY <1>4, <1>7, <2>2, <3>2 DEF Prefix
  <2> QED
    BY <2>1, <2>2
<1>9. ChecksOf(by, C) /\ \A d \in Dv : RowHolds(w, by[d]) <=> Keeps(w, Range(conds), d)
  <2>1. plan0.tail \in Seq(Candidates(spans))
    BY <1>5
  <2> QED
    BY <1>1, <1>3, <1>5, <2>1, TailChecks
<1>10. PICK t : t = TailOf(by, plan0.prefix_ranks)
  OBVIOUS
<1>11. mask \in SUBSET Dv
  BY <1>8
<1>12. by \in [Dv -> Seq(C)]
  <2>1. by = [d \in Dv |-> by[d]]
    BY <1>3 DEF ByDvs
  <2> QED
    BY <1>9, <2>1 DEF ChecksOf
<1>13. /\ TableTail(t, w, mask) = Passing(by, w, mask)
       /\ GuardedTail(t, w, mask) = Passing(by, w, mask)
       /\ t.checks = << >> => mask = Passing(by, w, mask)
  <2>1. PICK r : r = plan0.prefix_ranks
    OBVIOUS
  <2>2. t = TailOf(by, r)
    BY <1>10, <2>1
  <2>3. ChecksOf(by, C)
    BY <1>9
  <2>4. TailIs(TailOf(by, r), by, C, w, mask)
    BY ONLY <1>11, <2>3, TailLeaves
  <2> QED
    BY ONLY <1>12, <2>2, <2>4 DEF TailIs
<1>14. PICK left : left = FormMask(form0, target.width, shape, w)
  OBVIOUS
<1>15. left = Passing(by, w, mask)
  <2>1. left = IF mask = {} \/ t.checks = << >> THEN mask
               ELSE IF shape = "table" THEN TableTail(t, w, mask) ELSE GuardedTail(t, w, mask)
    BY <1>4, <1>7, <1>10, <1>14 DEF FormMask
  <2>2. mask = {} => mask = Passing(by, w, mask)
    BY DEF Passing
  <2> QED
    BY <1>13, <2>1, <2>2
<1>16. \A d \in Dv : Keeps(w, Range(Conds(us)) \cup Range(conds), d) <=>
         Keeps(w, Range(Conds(us)), d) /\ Keeps(w, Range(conds), d)
  BY DEF Keeps
<1>17. left = { d \in Dv : Keeps(w, Range(Conds(us)) \cup Range(conds), d) }
  BY <1>8, <1>9, <1>15, <1>16 DEF Passing
<1> QED
  BY <1>2, <1>14, <1>17

(* A schedule with its other bits filled in.                               *)
LEMMA WholeFacts ==
  ASSUME NEW w \in Schedules, NEW filler \in Bit
  PROVE  /\ Whole(w, filler) \in Wholes
         /\ \A S \in SUBSET Cond : \A d : Keeps(Whole(w, filler), S, d) <=> Keeps(w, S, d)
<1>1. PICK z : z = Whole(w, filler)
  OBVIOUS
<1>2. z = [x \in AllBits |-> IF x \in Vertex THEN w[x] ELSE filler]
  BY <1>1 DEF Whole, AllBits
<1>3. \A x \in Vertex : w[x] \in Bit /\ x \in AllBits
  BY ScheduleAssumption DEF Schedules, AllBits
<1>4. z \in Wholes
  BY <1>2, <1>3 DEF Wholes
<1>5. \A x \in Vertex : z[x] = w[x]
  BY <1>2, <1>3
<1>6. \A c \in Cond : Holds(z, c) <=> Holds(w, c)
  BY <1>5 DEF Holds, Cond
<1>7. \A S \in SUBSET Cond : \A d : Keeps(z, S, d) <=> Keeps(w, S, d)
  BY <1>6 DEF Keeps
<1> QED
  BY <1>1, <1>4, <1>7

LEMMA FInvKeeps ==
  ASSUME FInv
  PROVE  FormKeepsPublished
<1> SUFFICES ASSUME pc = "emitted", NEW w \in Schedules, NEW filler \in Bit, NEW shape \in {"table", "guarded"}
             PROVE  FormMask(form, p.width, shape, Whole(w, filler)) = { d \in Dv : Keeps(w, Published, d) }
  BY DEF FormKeepsPublished
<1>0. IInv
  BY DEF FInv
<1>1. p \in Params /\ search.cands \in SUBSET Cond
  BY <1>0, ParamFacts
<1>2. PICK spans : spans = search.spans /\ search.cands = Candidates(spans)
  BY DEF FInv, IInv, SearchHolds
<1>3. units \in Seq(Sound(p, Candidates(spans)))
  BY <1>2 DEF FInv, UnitsFit, Budgeted
<1>4. tail.conds \in Seq(Candidates(spans))
  BY <1>2 DEF FInv, IInv, UnitsHold
<1>5. plan = PlanOf(units, tail.conds, state.ranks) /\ form = FormOf(plan, p.width)
  BY DEF FInv, PlanIs
<1>6. PICK z \in Wholes : z = Whole(w, filler) /\ \A S \in SUBSET Cond : \A d : Keeps(z, S, d) <=> Keeps(w, S, d)
  BY WholeFacts
<1>7. PICK S : S = Range(Conds(units)) \cup Range(tail.conds)
  OBVIOUS
<1>8. FormMask(form, p.width, shape, z) = { d \in Dv : Keeps(z, S, d) }
  BY <1>1, <1>3, <1>4, <1>5, <1>7, FormMaskIs
<1>9. S = Range(TakenSeq) /\ S \in SUBSET Cond
  <2>1. todo = << >> /\ fill = None
    BY DEF FInv, IInv, PhaseHolds
  <2>2. TakenSeq = AllOf
    BY <1>0, <2>1, AllTaken
  <2>3. Conds(units) \in Seq(search.cands) /\ tail.conds \in Seq(search.cands)
    BY <1>0, AllType DEF IInv, UnitsHold
  <2>4. fill.group = << >>
    BY <2>1, Empties
  <2>5. Conds(units) \o << >> = Conds(units)
    BY <2>3
  <2>6. AllOf = Conds(units) \o tail.conds
    BY <2>4, <2>5 DEF AllOf
  <2>7. Range(Conds(units) \o tail.conds) = Range(Conds(units)) \cup Range(tail.conds)
    BY <2>3, ConcatRange
  <2>8. S \subseteq search.cands
    <3>1. Range(Conds(units)) \subseteq search.cands /\ Range(tail.conds) \subseteq search.cands
      BY <2>3, RangeFinite
    <3> QED
      BY <1>7, <3>1
  <2> QED
    BY <1>1, <1>7, <2>2, <2>6, <2>7, <2>8
<1>10. Planned /\ pc # "read"
  BY DEF Planned
<1>11. \A d \in Dv : Keeps(z, S, d) <=> Keeps(w, Published, d)
  <2>1. \A d \in Dv : Keeps(w, Published, d) => Keeps(w, Range(TakenSeq), d)
    BY <1>0, <1>10, PublishedKeepsTaken
  <2>2. \A d \in Dv : Keeps(w, Range(TakenSeq), d) => Keeps(w, Published, d)
    BY <1>0, <1>10, TakenKeepsPublished
  <2> QED
    BY <1>6, <1>9, <2>1, <2>2
<1> QED
  BY <1>6, <1>8, <1>11

(* For every plan the search can come to, every schedule and either tail:   *)
(* the emitted filter keeps the disturbance vectors that the published       *)
(* conditions keep, no more and no fewer (all_groups, lane_groups, test_bit, *)
(* by_dv, tail spans, guarded).                                              *)
THEOREM SpecFormKeepsPublished == Spec => []FormKeepsPublished
<1>1. FInv => FormKeepsPublished
  BY FInvKeeps
<1> QED
  BY <1>1, SpecFInv, PTL
=============================================================================
