---------------------------- MODULE BlockProofs ----------------------------
(***************************************************************************)
(* Proofs about blocks.  The inductive invariant of BlockDetect holds on   *)
(* every CPU, under every setting, for any DVs and filter that satisfy the *)
(* named assumptions, and BlockDetect implements BlockSpec.  And what a    *)
(* search moves on of its scores of last blocks, in LastBlocks, is what    *)
(* comes out from the start, for any conditions and size of a block.       *)
(***************************************************************************)
EXTENDS BlockDetect, LastBlocks, TLAPS, FiniteSetTheorems, WellFoundedInduction


(* A set of natural numbers that is not empty has a least element.         *)
LEMMA LeastElement ==
  ASSUME NEW S \in SUBSET Nat, S # {}
  PROVE  \E n \in S : \A k \in S : n <= k
<1>1. \E n \in S : \A k \in S : ~ (<<k, n>> \in OpToRel(<, Nat))
  BY NatLessThanWellFounded, WFMin
<1>2. ASSUME NEW k \in Nat, NEW n \in Nat, k < n
      PROVE  <<k, n>> \in OpToRel(<, Nat)
  <2> DEFINE p == <<k, n>>
  <2>1. p \in Nat \X Nat /\ p[1] = k /\ p[2] = n
    OBVIOUS
  <2> HIDE DEF p
  <2>2. p[1] < p[2]
    BY <2>1, <1>2
  <2>3. p \in OpToRel(<, Nat)
    BY <2>1, <2>2 DEF OpToRel
  <2> QED BY <2>3 DEF p
<1>3. \A n \in Nat : \A k \in Nat : ~ (k < n) => n <= k
  OBVIOUS
<1> QED BY <1>1, <1>2, <1>3


LEMMA LowestIsMember ==
  ASSUME NEW set \in SUBSET Dvs, set # {}
  PROVE  Lowest(set) \in set
BY LeastElement, DvAssumption DEF Lowest

LEMMA TodoShrinks ==
  ASSUME NEW s \in Seq(Blocks), s # << >>
  PROVE  Head(s) \in Blocks /\ Tail(s) \in Seq(Blocks)
OBVIOUS

LEMMA StateType ==
  ASSUME NEW hh \in Chaining, NEW b \in Blocks \cup {NoBlock},
         NEW step \in {58, 60, 64, 65},
         NEW form \in {"plain", "reversed", "garbage"}
  PROVE  State(hh, b, step, form) \in Stored
BY DEF State, Stored

LEMMA FinishedType ==
  ASSUME NEW s \in Stored, NEW b, NEW k, NEW need
  PROVE  Finished58(k, s, b, need) \in Stored /\ Finished65(k, s, b) \in Stored
BY DEF Stored, Finished58, Finished65, Moved, Unreversed

(* ensure_states makes each stored state the one its DVs start from,       *)
(* whatever the backend left: step 58 where a candidate needs it.          *)
LEMMA EnsuredStates ==
  ASSUME TypeOK, StoredInv, NEW need \in BOOLEAN
  PROVE  /\ Finished65(backend, state_65, m1) = State(ihv1, m1, 65, "plain")
         /\ need => Finished58(backend, state_58, m1, need)
                      = State(ihv1, m1, 58, "plain")
<1>1. CASE backend \in {"sse2", "scalar"}
  BY <1>1 DEF StoredInv, Finished58, Finished65
<1>2. CASE backend = "armv8"
  BY <1>2 DEF StoredInv, Finished58, Finished65, Moved, State
<1>3. CASE backend = "sha_ni"
  BY <1>3 DEF StoredInv, Finished58, Finished65, Moved, Unreversed, State
<1> QED BY <1>1, <1>2, <1>3 DEF TypeOK, Backends

(* A candidate recompressed from its own state gets the right answer.      *)
LEMMA VerdictIsRight ==
  ASSUME IInv, phase = "walk", NEW dv \in remaining
  PROVE  Verdicts(dv) = {Counts(settings, Kind(ihv1, m1, dv))}
BY DEF IInv, Verdicts

LEMMA CountsBoolean ==
  ASSUME NEW s \in Settings, NEW kind
  PROVE  Counts(s, kind) \in BOOLEAN
BY DEF Counts, Settings
-----------------------------------------------------------------------------
LEMMA InitIInv == Init => IInv
<1> SUFFICES ASSUME Init PROVE IInv
  OBVIOUS
<1>1. TypeOK
  <2>1. backend \in Backends
    BY DEF Init, BackendOf, Backends
  <2>2. state_58 \in Stored /\ state_65 \in Stored
    BY StateType, ChainingAssumption DEF Init
  <2>3. todo \in Seq(Blocks)
    BY DEF Init, BlockInit
  <2>4. remaining \in SUBSET Dvs /\ phase \in Phases /\ found \in BOOLEAN
    BY DEF Init, BlockInit, Phases
  <2>5. h \in Chaining /\ ihv1 \in Chaining /\ settings \in Settings
    BY ChainingAssumption DEF Init, BlockInit
  <2>6. m1 \in Blocks \cup {NoBlock}
    BY DEF Init
  <2> QED BY <2>1, <2>2, <2>3, <2>4, <2>5, <2>6 DEF TypeOK
<1> QED BY <1>1 DEF Init, IInv

LEMMA NextIInv == IInv /\ [Next]_vars => IInv'
<1> SUFFICES ASSUME IInv, [Next]_vars PROVE IInv'
  OBVIOUS
<1> USE DEF IInv
<1>1. CASE UNCHANGED vars
  BY <1>1 DEF vars, scratch, TypeOK, StoredInv, From
<1>2. ASSUME NEW bs \in Inputs, Call(bs) PROVE IInv'
  <2>1. bs \in Seq(Blocks)
    BY InputsAssumption
  <2>2. state_58' \in Stored /\ state_65' \in Stored
    BY <1>2, StateType, ChainingAssumption DEF Call
  <2> QED BY <1>2, <2>1, <2>2 DEF Call, TypeOK
<1>3. CASE Reset
  BY <1>3, ChainingAssumption DEF Reset, scratch, TypeOK
<1>4. CASE CompressSpill
  <2>1. /\ todo # << >> /\ Head(todo) \in Blocks /\ Feed(h, Head(todo)) \in Chaining
    BY <1>4, TodoShrinks, ChainingAssumption DEF CompressSpill, TypeOK
  <2>2. state_58' \in Stored /\ state_65' \in Stored
    BY <1>4, <2>1, StateType DEF CompressSpill, TypeOK
  <2>3. TypeOK'
    BY <1>4, <2>1, <2>2 DEF CompressSpill, TypeOK, Phases
  <2>4. StoredInv'
    BY <1>4 DEF CompressSpill, StoredInv
  <2> QED BY <1>4, <2>1, <2>3, <2>4 DEF CompressSpill
<1>5. CASE RunFilter
  <2>1. /\ todo # << >> /\ m1 = Head(todo) /\ m1 \in Blocks
        /\ Tail(todo) \in Seq(Blocks)
    BY <1>5, TodoShrinks DEF RunFilter, TypeOK
  <2>2. Filtered(m1) \in SUBSET Dvs
    BY <2>1, FilterAssumption DEF Filtered
  <2>3. \A dv \in Dvs : Counts(settings, Kind(ihv1, m1, dv))
                          => dv \in Filtered(m1)
    BY <2>1, FilterAssumption DEF Filtered, Counts, TypeOK
  <2>4. TypeOK'
    BY <1>5, <2>1, <2>2 DEF RunFilter, EndBlock, scratch, TypeOK, Phases
  <2> QED BY <1>5, <2>1, <2>3, <2>4
          DEF RunFilter, EndBlock, scratch, StoredInv
<1>6. CASE EnsureStates
  <2>1. TypeOK'
    BY <1>6, FinishedType DEF EnsureStates, TypeOK, Phases
  <2>2. NeedsStep58(remaining) \in BOOLEAN
    BY DEF NeedsStep58
  <2>3. /\ state_65' = State(ihv1, m1, 65, "plain")
        /\ NeedsStep58(remaining) => state_58' = State(ihv1, m1, 58, "plain")
    BY <1>6, <2>2, EnsuredStates DEF EnsureStates
  <2>4. \A dv \in remaining : DvStep(dv) = 58 \/ DvStep(dv) = 65
    BY StepAssumption DEF TypeOK
  <2>5. \A dv \in remaining' :
          From(dv)' = State(ihv1', m1', DvStep(dv), "plain")
    BY <1>6, <2>3, <2>4 DEF EnsureStates, From, NeedsStep58
  <2> QED BY <1>6, <2>1, <2>5 DEF EnsureStates
<1>7. CASE Dismiss
  <2>1. Lowest(remaining) \in remaining
    BY <1>7, LowestIsMember DEF Dismiss, TypeOK
  <2>2. ~ Counts(settings, Kind(ihv1, m1, Lowest(remaining)))
    BY <1>7, <2>1, VerdictIsRight DEF Dismiss
  <2>3. TypeOK'
    BY <1>7 DEF Dismiss, WithoutLowest, scratch, TypeOK
  <2> QED BY <1>7, <2>2, <2>3
          DEF Dismiss, WithoutLowest, scratch, From, StoredInv
<1>8. CASE Flag
  <2>1. todo # << >> /\ Tail(todo) \in Seq(Blocks)
    BY <1>8, TodoShrinks DEF Flag, TypeOK
  <2>2. TypeOK'
    BY <1>8, <2>1 DEF Flag, EndBlock, scratch, TypeOK, Phases
  <2> QED BY <1>8, <2>2 DEF Flag, EndBlock, scratch
<1>9. CASE NotAttacked
  <2>1. todo # << >> /\ Tail(todo) \in Seq(Blocks)
    BY <1>9, TodoShrinks DEF NotAttacked, TypeOK
  <2>2. TypeOK'
    BY <1>9, <2>1 DEF NotAttacked, EndBlock, scratch, TypeOK, Phases
  <2> QED BY <1>9, <2>2 DEF NotAttacked, EndBlock, scratch
<1>10. CASE Mitigate
  <2>1. /\ todo # << >> /\ Tail(todo) \in Seq(Blocks)
        /\ m1 \in Blocks /\ Feed(h, m1) \in Chaining
    BY <1>10, TodoShrinks, ChainingAssumption DEF Mitigate, TypeOK
  <2>2. TypeOK'
    BY <1>10, <2>1 DEF Mitigate, EndBlock, scratch, TypeOK, Phases
  <2> QED BY <1>10, <2>2 DEF Mitigate, EndBlock, scratch
<1> QED BY <1>1, <1>2, <1>3, <1>4, <1>5, <1>6, <1>7, <1>8, <1>9, <1>10
        DEF Next, Progress

(* What a call has established in each of its phases: the scratch is this  *)
(* block's, and a DV that flags it is still a candidate.                   *)
THEOREM SpecIInv == Spec => []IInv
<1> QED BY InitIInv, NextIInv, PTL DEF Spec

(* Every candidate is recompressed from this block's own state, on every   *)
(* backend.                                                                *)
THEOREM SpecFromOwnState == Spec => []FromOwnState
<1>1. IInv => FromOwnState
  BY DEF IInv, FromOwnState
<1> QED BY <1>1, SpecIInv, PTL

THEOREM SpecTypeOK == Spec => []TypeOK
<1>1. IInv => TypeOK
  BY DEF IInv
<1> QED BY <1>1, SpecIInv, PTL

-----------------------------------------------------------------------------
(***************************************************************************)
(* The refinement.  BlockSpec compresses a block in one step; here that is *)
(* the step that settles what becomes of it: the filter keeping nothing,   *)
(* an attack found, or the last candidate dismissed.                       *)
(***************************************************************************)

(* BlockSpec's own terms mean the same here.                                *)
LEMMA SameTerms ==
  /\ \A s, hh, b : Abstract!Detected(s, hh, b) <=> Detected(s, hh, b)
  /\ \A hh, b : Abstract!Thrice(hh, b) = Thrice(hh, b)
BY DEF Abstract!Detected, Detected, Abstract!Counts, Counts,
       Abstract!Thrice, Thrice

LEMMA InitSeen == Init => Abstract!BlockInit
BY DEF Init, BlockInit, Abstract!BlockInit, SettledTodo, SettledH

LEMMA NextSeen ==
  IInv /\ [Next]_vars => [Abstract!BlockNext]_(Abstract!blockVars)
<1> DEFINE Same == UNCHANGED <<settings, SettledTodo, SettledH, found>>
           Seen == Abstract!BlockNext \/ Same
<1> SUFFICES ASSUME IInv, [Next]_vars PROVE Seen
  BY DEF Abstract!blockVars
<1>1. CASE UNCHANGED vars
  BY <1>1 DEF vars, scratch, SettledTodo, SettledH
<1>2. ASSUME NEW bs \in Inputs, Call(bs) PROVE Seen
  <2>1. Abstract!BlockCall(bs)
    BY <1>2 DEF Call, Abstract!BlockCall, SettledTodo, SettledH
  <2> QED BY <2>1 DEF Abstract!BlockNext
<1>3. CASE Reset
  <2>1. Abstract!BlockReset
    BY <1>3 DEF Reset, scratch, Abstract!BlockReset, SettledTodo, SettledH
  <2> QED BY <2>1 DEF Abstract!BlockNext
<1>4. CASE CompressSpill
  BY <1>4 DEF CompressSpill, SettledTodo, SettledH
<1>5. CASE RunFilter
  <2>1. CASE remaining' # {}
    BY <1>5, <2>1 DEF RunFilter, scratch, SettledTodo, SettledH
  <2>2. CASE remaining' = {}
    <3>1. m1 \in Blocks /\ ihv1 \in Chaining
      BY <1>5, TodoShrinks DEF RunFilter, IInv, TypeOK
    <3>2. \A dv \in Dvs : ~ Counts(settings, Kind(ihv1, m1, dv))
      BY <1>5, <2>2, <3>1, FilterAssumption
         DEF RunFilter, Filtered, Counts
    <3>3. ~ Detected(settings, ihv1, m1)
      BY <3>2 DEF Detected
    <3>4. found \in BOOLEAN
      BY DEF IInv, TypeOK
    <3>5. Abstract!BlockCompress
      BY <1>5, <2>2, <3>3, <3>4, SameTerms
         DEF RunFilter, EndBlock, scratch, IInv, SettledTodo, SettledH,
             Abstract!BlockCompress
    <3> QED BY <3>5 DEF Abstract!BlockNext
  <2> QED BY <2>1, <2>2
<1>6. CASE EnsureStates
  BY <1>6 DEF EnsureStates, SettledTodo, SettledH
<1>7. CASE Dismiss
  BY <1>7 DEF Dismiss, scratch, SettledTodo, SettledH
<1>8. CASE Flag
  <2>1. Lowest(remaining) \in remaining /\ remaining \subseteq Dvs
    BY <1>8, LowestIsMember DEF Flag, IInv, TypeOK
  <2>2. Counts(settings, Kind(ihv1, m1, Lowest(remaining)))
    BY <1>8, <2>1, VerdictIsRight DEF Flag
  <2>3. Detected(settings, ihv1, m1)
    BY <2>1, <2>2 DEF Detected
  <2>4. todo # << >> /\ m1 = Head(todo) /\ h = Feed(ihv1, m1)
    BY <1>8 DEF Flag, IInv
  <2>5. Abstract!BlockCompress
    BY <1>8, <2>3, <2>4, SameTerms
       DEF Flag, EndBlock, scratch, SettledTodo, SettledH, Thrice,
           Abstract!BlockCompress
  <2> QED BY <2>5 DEF Abstract!BlockNext
<1>9. CASE NotAttacked
  <2>1. ~ Detected(settings, ihv1, m1)
    BY <1>9 DEF NotAttacked, IInv, Detected
  <2>2. todo # << >> /\ m1 = Head(todo) /\ h = Feed(ihv1, m1)
        /\ found \in BOOLEAN
    BY <1>9 DEF NotAttacked, IInv, TypeOK
  <2>3. Abstract!BlockCompress
    BY <1>9, <2>1, <2>2, SameTerms
       DEF NotAttacked, EndBlock, scratch, SettledTodo, SettledH,
           Abstract!BlockCompress
  <2> QED BY <2>3 DEF Abstract!BlockNext
<1>10. CASE Mitigate
  BY <1>10 DEF Mitigate, EndBlock, scratch, SettledTodo, SettledH
<1> QED BY <1>1, <1>2, <1>3, <1>4, <1>5, <1>6, <1>7, <1>8, <1>9, <1>10
        DEF Next, Progress

(* block::compress on any backend, with the filter or without, does what   *)
(* testing every DV of every block would do.                               *)
THEOREM SpecImplementsBlockSpec == Spec => ImplementsBlockSpec
<1> QED BY InitSeen, NextSeen, SpecIInv, PTL
        DEF Spec, ImplementsBlockSpec, Abstract!BlockSpecification

-----------------------------------------------------------------------------
(* LastBlocks.  Numbers and folds.                                         *)

(* Induction over the natural numbers, for a set of them.                  *)
LEMMA AllNumbers ==
  ASSUME NEW S \in SUBSET Nat, 0 \in S, \A n \in S : n + 1 \in S
  PROVE  S = Nat
<1> SUFFICES ASSUME Nat \ S # {} PROVE FALSE
  OBVIOUS
<1>1. PICK n \in Nat \ S : \A m \in Nat \ S : n <= m
  BY LeastElement
<1>2. n # 0 /\ n - 1 \in Nat
  BY <1>1
<1>3. n - 1 \in S
  BY <1>1, <1>2
<1>4. (n - 1) + 1 \in S
  BY <1>3
<1> QED
  BY <1>1, <1>4

(* Induction over a finite set: one element taken from what is left, as ch *)
(* chooses.                                                                *)
LEMMA AllSubsets ==
  ASSUME NEW S, IsFiniteSet(S), NEW ch, \A s \in SUBSET S : s # {} => ch[s] \in s,
         NEW G, {} \in G, \A s \in SUBSET S : s # {} /\ s \ {ch[s]} \in G => s \in G
  PROVE  SUBSET S \subseteq G
<1> DEFINE N == { n \in Nat : \A s \in SUBSET S : Cardinality(s) = n => s \in G }
<1>0. \A s \in SUBSET S : IsFiniteSet(s) /\ Cardinality(s) \in Nat
  BY FS_Subset, FS_CardinalityType
<1>1. 0 \in N
  BY <1>0, FS_EmptySet
<1>2. ASSUME NEW n \in N PROVE n + 1 \in N
  <2> SUFFICES ASSUME NEW s \in SUBSET S, Cardinality(s) = n + 1 PROVE s \in G
    OBVIOUS
  <2>1. s # {}
    <3>1. n + 1 # 0
      OBVIOUS
    <3> QED
      BY <3>1, FS_EmptySet
  <2>2. ch[s] \in s
    BY <2>1
  <2>3. Cardinality(s \ {ch[s]}) = Cardinality(s) - 1
    BY <1>0, <2>2, FS_RemoveElement
  <2>4. Cardinality(s \ {ch[s]}) = n /\ s \ {ch[s]} \in SUBSET S
    BY <2>3
  <2> QED
    BY <2>1, <2>4
<1>3. N = Nat
  <2> HIDE DEF N
  <2>1. N \in SUBSET Nat
    BY DEF N
  <2> QED
    BY <1>1, <1>2, <2>1, AllNumbers
<1>4. ASSUME NEW s \in SUBSET S PROVE s \in G
  <2>1. Cardinality(s) \in N
    BY <1>0, <1>3
  <2> QED
    BY <2>1
<1> QED
  BY <1>4

Inductive(S, ch, G) ==
  /\ IsFiniteSet(S)
  /\ \A s \in SUBSET S : s # {} => ch[s] \in s
  /\ {} \in G
  /\ \A s \in SUBSET S : s # {} /\ s \ {ch[s]} \in G => s \in G

LEMMA Induction ==
  ASSUME NEW S, NEW ch, NEW G, Inductive(S, ch, G)
  PROVE  SUBSET S \subseteq G
<1>1. IsFiniteSet(S) /\ \A s \in SUBSET S : s # {} => ch[s] \in s
  BY DEF Inductive
<1>2. {} \in G /\ \A s \in SUBSET S : s # {} /\ s \ {ch[s]} \in G => s \in G
  BY DEF Inductive
<1> QED
  BY <1>1, <1>2, AllSubsets

(* What a fold recurs on.                                                  *)
Folds(S, ch, base, op, it) ==
  \A s \in SUBSET S : it[s] = IF s = {} THEN base ELSE op[<<ch[s], it[s \ {ch[s]}]>>]

(* A fold's recursion has an answer, with every value in V.                *)
LEMMA FoldExists ==
  ASSUME NEW S, IsFiniteSet(S), NEW ch, \A s \in SUBSET S : s # {} => ch[s] \in s,
         NEW V, NEW base \in V, NEW op \in [S \X V -> V]
  PROVE  \E it \in [SUBSET S -> V] : Folds(S, ch, base, op, it)
<1> DEFINE Below(s) == { u \in SUBSET S : u \subseteq s }
           Answers(it, s) ==
             \A u \in SUBSET s : it[u] = IF u = {} THEN base ELSE op[<<ch[u], it[u \ {ch[u]}]>>]
           N == { n \in Nat : \E it \in [SUBSET S -> V] :
                    \A u \in SUBSET S : Cardinality(u) <= n =>
                      it[u] = IF u = {} THEN base ELSE op[<<ch[u], it[u \ {ch[u]}]>>] }
<1>0. \A s \in SUBSET S : IsFiniteSet(s) /\ Cardinality(s) \in Nat
  BY FS_Subset, FS_CardinalityType
<1>9. \A u \in SUBSET S : u # {} => u \ {ch[u]} \in SUBSET S /\ Cardinality(u \ {ch[u]}) = Cardinality(u) - 1
  BY <1>0, FS_RemoveElement
<1>1. 0 \in N
  <2> DEFINE it == [u \in SUBSET S |-> base]
  <2>1. it \in [SUBSET S -> V]
    OBVIOUS
  <2>2. ASSUME NEW u \in SUBSET S, Cardinality(u) <= 0 PROVE u = {} /\ it[u] = base
    <3>1. Cardinality(u) = 0
      BY <1>0, <2>2
    <3> QED
      BY <1>0, <3>1, FS_EmptySet
  <2> HIDE DEF it
  <2> QED
    BY <2>1, <2>2
<1>2. ASSUME NEW n \in N PROVE n + 1 \in N
  <2>1. PICK g \in [SUBSET S -> V] : \A u \in SUBSET S : Cardinality(u) <= n =>
          g[u] = IF u = {} THEN base ELSE op[<<ch[u], g[u \ {ch[u]}]>>]
    OBVIOUS
  <2> DEFINE it == [u \in SUBSET S |-> IF u = {} THEN base ELSE op[<<ch[u], g[u \ {ch[u]}]>>]]
  <2>2. \A u \in SUBSET S : u # {} => <<ch[u], g[u \ {ch[u]}]>> \in S \X V
    BY <1>9
  <2>3. it \in [SUBSET S -> V]
    BY <2>2
  <2>4. \A u \in SUBSET S : it[u] = IF u = {} THEN base ELSE op[<<ch[u], g[u \ {ch[u]}]>>]
    OBVIOUS
  <2> HIDE DEF it
  <2>5. ASSUME NEW u \in SUBSET S, Cardinality(u) <= n PROVE it[u] = g[u]
    <3>1. g[u] = IF u = {} THEN base ELSE op[<<ch[u], g[u \ {ch[u]}]>>]
      BY <2>1, <2>5
    <3>2. it[u] = IF u = {} THEN base ELSE op[<<ch[u], g[u \ {ch[u]}]>>]
      BY <2>4
    <3> QED
      BY <3>1, <3>2
  <2>6. n \in Nat
    OBVIOUS
  <2>7. ASSUME NEW u \in SUBSET S, Cardinality(u) <= n + 1
        PROVE  it[u] = IF u = {} THEN base ELSE op[<<ch[u], it[u \ {ch[u]}]>>]
    <3>1. CASE u = {}
      BY <2>4, <3>1
    <3>2. CASE u # {}
      <4>1. Cardinality(u \ {ch[u]}) <= n /\ u \ {ch[u]} \in SUBSET S
        BY <1>0, <1>9, <2>6, <2>7, <3>2
      <4>2. it[u \ {ch[u]}] = g[u \ {ch[u]}]
        BY <2>5, <4>1
      <4> QED
        BY <2>4, <3>2, <4>2
    <3> QED
      BY <3>1, <3>2
  <2>8. \E jt \in [SUBSET S -> V] : \A u \in SUBSET S : Cardinality(u) <= n + 1 =>
          jt[u] = IF u = {} THEN base ELSE op[<<ch[u], jt[u \ {ch[u]}]>>]
    BY <2>3, <2>7
  <2>9. n + 1 \in Nat
    BY <2>6
  <2> HIDE <2>1, <2>4, <2>5, <2>7
  <2> QED
    BY ONLY <2>8, <2>9, Zenon
<1>3. N = Nat
  <2> HIDE DEF N
  <2>1. N \in SUBSET Nat
    BY DEF N
  <2> QED
    BY <1>1, <1>2, <2>1, AllNumbers
<1>4. Cardinality(S) \in Nat
  BY <1>0
<1>5. PICK it \in [SUBSET S -> V] : \A u \in SUBSET S : Cardinality(u) <= Cardinality(S) =>
          it[u] = IF u = {} THEN base ELSE op[<<ch[u], it[u \ {ch[u]}]>>]
  BY <1>3, <1>4
<1>6. \A u \in SUBSET S : Cardinality(u) <= Cardinality(S)
  BY FS_Subset
<1> QED
  BY <1>5, <1>6 DEF Folds

(* A recursion that follows op as long as it is in V stays in V.           *)
Follows(S, ch, V, base, op, it) ==
  /\ IsFiniteSet(S)
  /\ \A s \in SUBSET S : s # {} => ch[s] \in s
  /\ base \in V /\ op \in [S \X V -> V]
  /\ it = [s \in SUBSET S |-> it[s]]
  /\ it[{}] = base
  /\ \A s \in SUBSET S : s # {} /\ it[s \ {ch[s]}] \in V => it[s] = op[<<ch[s], it[s \ {ch[s]}]>>]

LEMMA FoldStays ==
  ASSUME NEW S, NEW ch, NEW V, NEW base, NEW op, NEW it, Follows(S, ch, V, base, op, it)
  PROVE  it \in [SUBSET S -> V]
<1> DEFINE G == { s \in SUBSET S : it[s] \in V }
<1>1. {} \in G
  BY DEF Follows
<1>2. ASSUME NEW s \in SUBSET S, s # {}, s \ {ch[s]} \in G PROVE s \in G
  <2>1. it[s \ {ch[s]}] \in V /\ ch[s] \in S
    BY <1>2 DEF Follows
  <2>2. it[s] = op[<<ch[s], it[s \ {ch[s]}]>>] /\ op \in [S \X V -> V]
    BY <1>2, <2>1 DEF Follows
  <2>3. it[s] \in V
    BY ONLY <2>1, <2>2
  <2> QED
    BY <2>3
<1> HIDE DEF G
<1>3. IsFiniteSet(S) /\ \A s \in SUBSET S : s # {} => ch[s] \in s
  BY DEF Follows
<1>4. SUBSET S \subseteq G
  BY ONLY <1>1, <1>2, <1>3, AllSubsets
<1> QED
  BY <1>4 DEF G, Follows

(* And there is one, where op is all it follows.                           *)
LEMMA FollowsExists ==
  ASSUME NEW S, IsFiniteSet(S), NEW ch, \A s \in SUBSET S : s # {} => ch[s] \in s,
         NEW V, NEW base \in V, NEW op \in [S \X V -> V]
  PROVE  \E it \in [SUBSET S -> V] : Follows(S, ch, V, base, op, it)
<1>1. PICK it \in [SUBSET S -> V] : Folds(S, ch, base, op, it)
  BY FoldExists
<1>2. it[{}] = base
  BY <1>1 DEF Folds
<1>3. \A s \in SUBSET S : s # {} => it[s] = op[<<ch[s], it[s \ {ch[s]}]>>]
  BY <1>1 DEF Folds
<1> QED
  BY ZenonT(30), <1>2, <1>3 DEF Follows

-----------------------------------------------------------------------------
(* Sets of places in the table, and their greatest.                        *)
Places == DOMAIN Ubcs

LEMMA PlacesAre == IsFiniteSet(Places) /\ Places \in SUBSET Nat
<1>1. Ubcs \in Seq(Published)
  BY UbcsAssumption
<1>2. PICK n \in Nat : n = Len(Ubcs)
  BY <1>1
<1>3. Places = 1 .. n
  BY <1>1, <1>2 DEF Places
<1>4. IsFiniteSet(1 .. n)
  <2>1. 1 \in Int /\ n \in Int
    OBVIOUS
  <2> QED
    BY ONLY <2>1, FS_Interval
<1> QED
  BY <1>3, <1>4

LEMMA GreatestElement ==
  ASSUME NEW s \in SUBSET Nat, IsFiniteSet(s), s # {}
  PROVE  Max(s) \in s /\ \A n \in s : n <= Max(s)
<1> DEFINE ch == [t \in SUBSET s |-> CHOOSE x \in t : TRUE]
           G == { t \in SUBSET s : t # {} => \E m \in t : \A n \in t : n <= m }
<1>1. \A t \in SUBSET s : t # {} => ch[t] \in t
  OBVIOUS
<1> HIDE DEF ch
<1>2. {} \in G
  OBVIOUS
<1>3. ASSUME NEW t \in SUBSET s, t # {}, t \ {ch[t]} \in G PROVE t \in G
  <2>1. PICK a \in t : a = ch[t]
    BY <1>1, <1>3
  <2>2. PICK r \in SUBSET s : r = t \ {a}
    OBVIOUS
  <2>3. a \in Nat /\ t = r \cup {a} /\ r \in SUBSET Nat
    BY <2>2
  <2>4. r # {} => \E m \in r : \A n \in r : n <= m
    BY <1>3, <2>1, <2>2
  <2>5. CASE r = {}
    BY <2>3, <2>5
  <2>6. CASE r # {}
    <3>1. PICK m \in r : \A n \in r : n <= m
      BY <2>4, <2>6
    <3>2. m \in Nat
      BY <2>3
    <3>3. CASE m <= a
      <4>1. \A n \in r : n <= a
        BY <2>3, <3>1, <3>2, <3>3
      <4> QED
        BY <2>3, <4>1
    <3>4. CASE ~(m <= a)
      BY <2>3, <3>1, <3>2, <3>4
    <3> QED
      BY <3>3, <3>4
  <2> QED
    BY <2>5, <2>6
<1> HIDE DEF G
<1>4. SUBSET s \subseteq G
  <2>1. \A t \in SUBSET s : t # {} /\ t \ {ch[t]} \in G => t \in G
    BY <1>3
  <2>2. Inductive(s, ch, G)
    BY ONLY <1>1, <1>2, <2>1, IsFiniteSet(s) DEF Inductive
  <2> QED
    BY ONLY <2>2, Induction
<1>5. PICK m \in s : \A n \in s : n <= m
  BY <1>4 DEF G
<1>6. \A n \in s : m >= n
  BY <1>5
<1>7. Max(s) \in s /\ \A n \in s : Max(s) >= n
  BY <1>6 DEF Max
<1> QED
  BY <1>7

LEMMA Greatest ==
  ASSUME NEW v \in SUBSET Places, v # {}
  PROVE  Max(v) \in v /\ Max(v) \in Nat /\ \A n \in v : n <= Max(v)
<1>1. v \in SUBSET Nat /\ IsFiniteSet(v)
  BY PlacesAre, FS_Subset
<1> QED
  BY ONLY <1>1, v # {}, GreatestElement

(* Adding up stays within the places.                                      *)
LEMMA PlusWithin ==
  ASSUME NEW S, NEW v \in SUBSET S, NEW w \in SUBSET S
  PROVE  Plus(v, w) \in SUBSET S
BY DEF Plus

LEMMA ReduceWithin ==
  ASSUME NEW sub \in SUBSET (SUBSET Places), NEW v \in SUBSET Places
  PROVE  Reduce(sub, v) \in SUBSET Places
<1> DEFINE fs == [row \in { s \in sub : Pivot(s) \in v } |-> row]
<1>1. \A x \in SumOf(fs) : \E row \in sub : x \in row
  BY DEF SumOf, Range
<1> HIDE DEF fs
<1>2. SumOf(fs) \in SUBSET Places
  BY <1>1
<1> QED
  BY <1>2, PlusWithin DEF Reduce, fs

LEMMA InsertWithin ==
  ASSUME NEW sub \in SUBSET (SUBSET Places), NEW v \in SUBSET Places
  PROVE  Insert(sub, v) \in SUBSET (SUBSET Places)
<1>1. PICK rest \in SUBSET Places : rest = Reduce(sub, v)
  BY ReduceWithin
<1>2. \A row \in sub : Plus(row, rest) \in SUBSET Places
  BY PlusWithin
<1>3. Insert(sub, v) =
        IF rest = {} THEN sub
        ELSE { IF Pivot(rest) \in row THEN Plus(row, rest) ELSE row : row \in sub } \cup {rest}
  BY <1>1 DEF Insert
<1> QED
  BY <1>2, <1>3

-----------------------------------------------------------------------------
(* A subspace whose rows are reduced by each other: no row is nothing, and *)
(* no other row has a row's pivot.                                         *)
Clean(sub) ==
  /\ sub \in SUBSET (SUBSET Places) /\ {} \notin sub
  /\ \A row, other \in sub : Pivot(row) \in other => row = other

(* What is reduced has no pivot of a row.                                  *)
LEMMA ReducedOf ==
  ASSUME NEW sub, Clean(sub), NEW v \in SUBSET Places, NEW row \in sub
  PROVE  Pivot(row) \notin Reduce(sub, v)
<1> DEFINE x == Pivot(row)
           rows == { s \in sub : Pivot(s) \in v }
           fs == [s \in rows |-> s]
           at == { s \in DOMAIN fs : x \in fs[s] }
<1>1. x \in row
  BY Greatest DEF Clean, Pivot
<1>2. \A s \in sub : x \in s => s = row
  BY DEF Clean
<1> HIDE DEF x
<1>3. CASE x \in v
  <2>1. row \in rows
    BY <1>3 DEF x
  <2>2. at = {row}
    BY <1>1, <1>2, <2>1
  <2>3. Cardinality(at) = 1
    BY <2>2, FS_Singleton
  <2>4. x \in UNION Range(fs)
    BY <1>1, <2>1 DEF Range
  <2>5. x \in SumOf(fs)
    <3>1. Cardinality(at) % 2 = 1
      BY <2>3
    <3> QED
      BY <2>4, <3>1 DEF SumOf
  <2> HIDE DEF fs
  <2> QED
    BY <1>3, <2>5 DEF Reduce, Plus, fs, x
<1>4. CASE x \notin v
  <2>1. row \notin rows
    BY <1>4 DEF x
  <2>2. x \notin UNION Range(fs)
    BY <1>2, <2>1 DEF Range
  <2>3. x \notin SumOf(fs)
    BY <2>2 DEF SumOf
  <2> HIDE DEF fs
  <2> QED
    BY <1>4, <2>3 DEF Reduce, Plus, fs, x
<1> QED
  BY <1>3, <1>4

(* A row to which something without its pivot is added keeps its pivot, if *)
(* what is added has its own pivot in the row.                             *)
LEMMA PivotStays ==
  ASSUME NEW row \in SUBSET Places, NEW rest \in SUBSET Places, rest # {}, Pivot(rest) \in row,
         Pivot(row) \notin rest
  PROVE  Pivot(Plus(row, rest)) = Pivot(row) /\ Plus(row, rest) # {}
<1>1. /\ Pivot(row) \in row /\ Pivot(row) \in Nat /\ \A n \in row : n <= Pivot(row)
      /\ Pivot(rest) \in rest /\ Pivot(rest) \in Nat /\ \A n \in rest : n <= Pivot(rest)
  BY Greatest DEF Pivot
<1>2. PICK sum \in SUBSET Places : sum = Plus(row, rest)
  BY PlusWithin
<1>3. Pivot(row) \in sum
  BY <1>1, <1>2 DEF Plus
<1>4. \A n \in sum : n \in row \/ n \in rest
  BY <1>2 DEF Plus
<1>5. \A n \in sum : n \in Nat /\ n <= Pivot(row)
  <2>1. \A n \in Places : n \in Nat
    BY PlacesAre
  <2>2. Pivot(rest) <= Pivot(row)
    BY <1>1
  <2> QED
    BY <1>1, <1>4, <2>1, <2>2
<1>6. Max(sum) \in sum /\ Max(sum) \in Nat /\ \A n \in sum : n <= Max(sum)
  BY <1>3, Greatest
<1>7. Max(sum) = Pivot(row)
  BY <1>1, <1>3, <1>5, <1>6
<1> QED
  BY <1>2, <1>3, <1>7 DEF Pivot

(* Inserting keeps a subspace clean, and makes it larger by one row or     *)
(* leaves it.                                                              *)
LEMMA InsertKeeps ==
  ASSUME NEW sub, Clean(sub), NEW v \in SUBSET Places
  PROVE  /\ Clean(Insert(sub, v))
         /\ Rank(Insert(sub, v)) = Rank(sub) + (IF Grows(sub, v) THEN 1 ELSE 0)
<1>1. sub \in SUBSET (SUBSET Places) /\ {} \notin sub
  BY DEF Clean
<1>2. PICK rest \in SUBSET Places : rest = Reduce(sub, v)
  BY <1>1, ReduceWithin
<1>3. \A row \in sub : Pivot(row) \notin rest
  BY <1>2, ReducedOf
<1>4. IsFiniteSet(sub) /\ Cardinality(sub) \in Nat
  BY <1>1, PlacesAre, FS_SUBSET, FS_Subset, FS_CardinalityType
<1>5. CASE rest = {}
  <2>1. Insert(sub, v) = sub /\ ~Grows(sub, v)
    BY <1>2, <1>5 DEF Insert, Grows
  <2> QED
    BY <1>4, <2>1 DEF Rank
<1>6. CASE rest # {}
  <2> DEFINE p == Pivot(rest)
             Cleared(row) == IF p \in row THEN Plus(row, rest) ELSE row
             rows == { Cleared(row) : row \in sub }
  <2>1. p \in rest
    BY <1>6, Greatest DEF Pivot
  <2>2. Insert(sub, v) = rows \cup {rest} /\ Grows(sub, v)
    BY <1>2, <1>6 DEF Insert, Grows
  <2>3. ASSUME NEW row \in sub
        PROVE  /\ Pivot(row) \in row /\ Pivot(Cleared(row)) = Pivot(row) /\ Cleared(row) # {}
               /\ p \notin Cleared(row) /\ Cleared(row) \in SUBSET Places
               /\ \A other \in sub : Pivot(row) \in Cleared(other) => row = other
    <3>1. Pivot(row) \in row /\ row \in SUBSET Places /\ row # {} /\ Pivot(row) \notin rest
      BY <1>1, <1>3, Greatest DEF Pivot
    <3>2. Pivot(Cleared(row)) = Pivot(row) /\ Cleared(row) # {}
      BY <1>6, <3>1, PivotStays
    <3>3. p \notin Cleared(row)
      BY <2>1 DEF Plus
    <3>4. Cleared(row) \in SUBSET Places
      BY <3>1, PlusWithin
    <3>5. ASSUME NEW other \in sub, Pivot(row) \in Cleared(other) PROVE row = other
      <4>1. Pivot(row) \in other
        BY <3>1, <3>5 DEF Plus
      <4> QED
        BY <4>1 DEF Clean
    <3> QED
      BY <3>1, <3>2, <3>3, <3>4, <3>5
  <2> HIDE DEF p, Cleared
  <2>4. Clean(Insert(sub, v))
    <3>1. Insert(sub, v) \in SUBSET (SUBSET Places) /\ {} \notin Insert(sub, v)
      BY <1>6, <2>2, <2>3
    <3>2. ASSUME NEW row \in Insert(sub, v), NEW other \in Insert(sub, v), Pivot(row) \in other
          PROVE  row = other
      <4>1. CASE row = rest
        <5>1. p \in other
          BY <3>2, <4>1 DEF p
        <5> QED
          BY <2>2, <2>3, <4>1, <5>1
      <4>2. CASE row # rest
        <5>1. PICK r \in sub : row = Cleared(r)
          BY <2>2, <4>2
        <5>2. Pivot(r) \in other
          BY <2>3, <3>2, <5>1
        <5>3. other # rest
          BY <1>3, <5>2
        <5>4. PICK o \in sub : other = Cleared(o)
          BY <2>2, <5>3
        <5>5. r = o
          BY <2>3, <5>2, <5>4
        <5> QED
          BY <5>1, <5>4, <5>5
      <4> QED
        BY <4>1, <4>2
    <3> QED
      BY <3>1, <3>2 DEF Clean
  <2>5. Cardinality(rows) = Cardinality(sub) /\ IsFiniteSet(rows)
    <3> DEFINE f == [row \in sub |-> Cleared(row)]
    <3>1. \A x, y \in sub : Cleared(x) = Cleared(y) => x = y
      <4>1. ASSUME NEW x \in sub, NEW y \in sub, Cleared(x) = Cleared(y) PROVE x = y
        <5>1. Pivot(x) \in x /\ Pivot(y) \in y /\ Pivot(x) = Pivot(y)
          BY <2>3, <4>1
        <5> QED
          BY <5>1 DEF Clean
      <4> QED
        BY <4>1
    <3>2. f \in Bijection(sub, rows)
      <4>1. f \in [sub -> rows]
        OBVIOUS
      <4>2. \A x, y \in sub : f[x] = f[y] => x = y
        BY <3>1
      <4>3. \A t \in rows : \E x \in sub : f[x] = t
        OBVIOUS
      <4> QED
        BY <4>1, <4>2, <4>3 DEF Bijection, Injection, Surjection, IsInjective
    <3> HIDE DEF f, rows
    <3> QED
      BY <1>4, <3>2, FS_Bijection DEF ExistsBijection
  <2>6. rest \notin rows
    BY <2>1, <2>3 DEF p
  <2>7. Cardinality(rows \cup {rest}) = Cardinality(rows) + 1
    BY <2>5, <2>6, FS_AddElement
  <2> QED
    BY <2>2, <2>4, <2>5, <2>7 DEF Rank
<1> QED
  BY <1>5, <1>6

-----------------------------------------------------------------------------
(* What a DV's classes are made of are sums of places.                     *)
AnyOf(S) == [s \in SUBSET S |-> CHOOSE x \in s : TRUE]

LEMMA AnyIs ==
  ASSUME NEW S
  PROVE  \A s \in SUBSET S : AnyOf(S)[s] = (CHOOSE x \in s : TRUE) /\ (s # {} => AnyOf(S)[s] \in s)
BY DEF AnyOf

GreatestOf(S) == [s \in SUBSET S |-> Max(s)]

LEMMA GreatestIs ==
  ASSUME NEW S \in SUBSET Nat, IsFiniteSet(S)
  PROVE  \A s \in SUBSET S : GreatestOf(S)[s] = Max(s) /\ (s # {} => GreatestOf(S)[s] \in s)
<1>1. ASSUME NEW s \in SUBSET S, s # {} PROVE Max(s) \in s
  <2>1. s \in SUBSET Nat /\ IsFiniteSet(s)
    BY FS_Subset
  <2> QED
    BY ONLY <1>1, <2>1, GreatestElement
<1> QED
  BY <1>1 DEF GreatestOf

(* What each of the folds recurs on.                                       *)
InsertEq(sub, vs, it) ==
  it = [s \in SUBSET vs |->
          IF s = {} THEN sub
          ELSE Insert(it[s \ {CHOOSE x \in s : TRUE}], CHOOSE x \in s : TRUE)]

LEMMA InsertAllRuns ==
  ASSUME NEW sub, NEW vs
  PROVE  InsertAll(sub, vs) = (CHOOSE it : InsertEq(sub, vs, it))[vs]
BY Zenon DEF InsertAll, FoldSet, MapThenFoldSet, InsertEq

LEMMA InsertAllWithin ==
  ASSUME NEW sub \in SUBSET (SUBSET Places), NEW vs \in SUBSET (SUBSET Places)
  PROVE  InsertAll(sub, vs) \in SUBSET (SUBSET Places)
<1> DEFINE V == SUBSET (SUBSET Places)
           ch == AnyOf(vs)
           op == [m \in vs \X V |-> Insert(m[2], m[1])]
           it == CHOOSE jt : InsertEq(sub, vs, jt)
<1>1. IsFiniteSet(vs)
  BY PlacesAre, FS_SUBSET, FS_Subset
<1>2. \A s \in SUBSET vs : ch[s] = (CHOOSE x \in s : TRUE) /\ (s # {} => ch[s] \in s)
  BY AnyIs
<1>3. \A v \in vs, into \in V : op[<<v, into>>] = Insert(into, v) /\ Insert(into, v) \in V
  BY InsertWithin
<1>4. op \in [vs \X V -> V]
  <2> HIDE DEF V
  <2>1. \A m \in vs \X V : Insert(m[2], m[1]) \in V
    BY <1>3
  <2> QED
    BY ONLY <2>1
<1>5. sub \in V
  OBVIOUS
<1> HIDE DEF V, ch, op
<1>6. PICK g \in [SUBSET vs -> V] : Follows(vs, ch, V, sub, op, g)
  <2>1. \A s \in SUBSET vs : s # {} => ch[s] \in s
    BY <1>2
  <2> QED
    BY ONLY <1>1, <2>1, <1>4, <1>5, FollowsExists
<1>7. InsertEq(sub, vs, g)
  <2>1. ASSUME NEW s \in SUBSET vs, s # {}
        PROVE  g[s] = Insert(g[s \ {CHOOSE x \in s : TRUE}], CHOOSE x \in s : TRUE)
    <3>1. PICK x \in vs : x = ch[s] /\ x = (CHOOSE y \in s : TRUE)
      BY <1>2, <2>1
    <3>2. PICK r \in SUBSET vs : r = s \ {x}
      OBVIOUS
    <3>3. g[s] = op[<<x, g[r]>>] /\ g[r] \in V
      BY <1>6, <2>1, <3>1, <3>2 DEF Follows
    <3>4. g[s] = Insert(g[r], x)
      BY <1>3, <3>3
    <3> QED
      BY <3>1, <3>2, <3>4
  <2>2. g[{}] = sub /\ g = [s \in SUBSET vs |-> g[s]]
    BY <1>6 DEF Follows
  <2> QED
    BY <2>1, <2>2 DEF InsertEq
<1>8. InsertEq(sub, vs, it)
  BY <1>7
<1> HIDE DEF it
<1>9. Follows(vs, ch, V, sub, op, it)
  <2>1. it = [s \in SUBSET vs |-> it[s]] /\ it[{}] = sub
    BY <1>8 DEF InsertEq
  <2>2. ASSUME NEW s \in SUBSET vs, s # {}, it[s \ {ch[s]}] \in V
        PROVE  it[s] = op[<<ch[s], it[s \ {ch[s]}]>>]
    <3>1. PICK x \in vs : x = ch[s] /\ x = (CHOOSE y \in s : TRUE)
      BY <1>2, <2>2
    <3>2. it[s] = Insert(it[s \ {x}], x)
      BY <1>8, <2>2, <3>1 DEF InsertEq
    <3> QED
      BY <1>3, <2>2, <3>1, <3>2
  <2>3. \A s \in SUBSET vs : s # {} => ch[s] \in s
    BY <1>2
  <2> QED
    BY ONLY <1>1, <1>4, <1>5, <2>1, <2>2, <2>3 DEF Follows
<1>10. it[vs] \in V
  <2>1. it \in [SUBSET vs -> V]
    BY ONLY <1>9, FoldStays
  <2> QED
    BY <2>1
<1> QED
  BY <1>10, InsertAllRuns DEF it, V

(* A row of free bits, and the sum it stands for.                          *)
Rows(F) == [row : SUBSET F, tag : SUBSET Places]

LessEq(from, basis, it) ==
  it = [s \in SUBSET DOMAIN basis |->
          IF s = {} THEN from ELSE Less(it[s \ {Max(s)}], basis[Max(s)])]

LEMMA LessRuns ==
  ASSUME NEW from, NEW basis
  PROVE  FoldLeft(Less, from, basis) = (CHOOSE it : LessEq(from, basis, it))[DOMAIN basis]
BY Zenon DEF FoldLeft, MapThenFoldSet, LessEq

LEMMA LessWithin ==
  ASSUME NEW F, NEW at \in Rows(F), NEW b \in Rows(F)
  PROVE  Less(at, b) \in Rows(F)
BY PlusWithin DEF Rows, Less

LEMMA AllLessWithin ==
  ASSUME NEW F, NEW from \in Rows(F), NEW basis \in Seq(Rows(F))
  PROVE  FoldLeft(Less, from, basis) \in Rows(F)
<1> DEFINE V == Rows(F)
           S == DOMAIN basis
           ch == GreatestOf(S)
           op == [m \in S \X V |-> Less(m[2], basis[m[1]])]
           it == CHOOSE jt : LessEq(from, basis, jt)
<1>1. IsFiniteSet(S) /\ S \in SUBSET Nat /\ \A k \in S : basis[k] \in V
  <2>1. PICK n \in Nat : n = Len(basis)
    OBVIOUS
  <2>2. S = 1 .. n /\ \A k \in S : basis[k] \in V
    BY <2>1
  <2>3. IsFiniteSet(1 .. n)
    <3>1. 1 \in Int /\ n \in Int
      OBVIOUS
    <3> QED
      BY ONLY <3>1, FS_Interval
  <2> QED
    BY <2>2, <2>3
<1>2. \A s \in SUBSET S : ch[s] = Max(s) /\ (s # {} => ch[s] \in s)
  <2> HIDE DEF S
  <2> QED
    BY <1>1, GreatestIs
<1>3. \A k \in S, at \in V : op[<<k, at>>] = Less(at, basis[k]) /\ Less(at, basis[k]) \in V
  BY <1>1, LessWithin
<1>4. op \in [S \X V -> V]
  <2> HIDE DEF S, V
  <2>1. \A m \in S \X V : Less(m[2], basis[m[1]]) \in V
    BY <1>3
  <2> QED
    BY ONLY <2>1
<1>5. from \in V
  OBVIOUS
<1> HIDE DEF V, ch, op, S
<1>6. PICK g \in [SUBSET S -> V] : Follows(S, ch, V, from, op, g)
  <2>1. \A s \in SUBSET S : s # {} => ch[s] \in s
    BY <1>2
  <2> QED
    BY ONLY <1>1, <2>1, <1>4, <1>5, FollowsExists
<1>7. LessEq(from, basis, g)
  <2>1. ASSUME NEW s \in SUBSET S, s # {}
        PROVE  g[s] = Less(g[s \ {Max(s)}], basis[Max(s)])
    <3>1. PICK x \in S : x = ch[s] /\ x = Max(s)
      BY <1>2, <2>1
    <3>2. PICK r \in SUBSET S : r = s \ {x}
      OBVIOUS
    <3>3. g[s] = op[<<x, g[r]>>] /\ g[r] \in V
      BY <1>6, <2>1, <3>1, <3>2 DEF Follows
    <3>4. g[s] = Less(g[r], basis[x])
      BY <1>3, <3>3
    <3> QED
      BY <3>1, <3>2, <3>4
  <2>2. g[{}] = from /\ g = [s \in SUBSET S |-> g[s]]
    BY <1>6 DEF Follows
  <2> QED
    BY <2>1, <2>2 DEF LessEq, S
<1>8. LessEq(from, basis, it)
  BY <1>7
<1> HIDE DEF it
<1>9. Follows(S, ch, V, from, op, it)
  <2>1. it = [s \in SUBSET S |-> it[s]] /\ it[{}] = from
    BY <1>8 DEF LessEq, S
  <2>2. ASSUME NEW s \in SUBSET S, s # {}, it[s \ {ch[s]}] \in V
        PROVE  it[s] = op[<<ch[s], it[s \ {ch[s]}]>>]
    <3>1. PICK x \in S : x = ch[s] /\ x = Max(s)
      BY <1>2, <2>2
    <3>2. it[s] = Less(it[s \ {x}], basis[x])
      BY <1>8, <2>2, <3>1 DEF LessEq, S
    <3> QED
      BY <1>3, <2>2, <3>1, <3>2
  <2>3. \A s \in SUBSET S : s # {} => ch[s] \in s
    BY <1>2
  <2> QED
    BY ONLY <1>1, <1>4, <1>5, <2>1, <2>2, <2>3 DEF Follows
<1>10. it[S] \in V
  <2>1. it \in [SUBSET S -> V]
    BY ONLY <1>9, FoldStays
  <2> QED
    BY <2>1
<1> QED
  BY <1>10, LessRuns DEF it, V, S

(* An elimination as far as it has come.                                   *)
Eliminations(F) == [basis : Seq(Rows(F)), fixed : SUBSET (SUBSET Places), wrong : SUBSET Places]

LEMMA EliminationWithin ==
  ASSUME NEW forms, NEW shape, NEW c, NEW at \in Eliminations(shape.free), NEW e \in Places
  PROVE  Elimination(forms, shape, c, at, e) \in Eliminations(shape.free)
<1> DEFINE F == shape.free
           from == [row |-> FormOf(forms, c) \cap F, tag |-> {e}]
<1>1. from \in Rows(F)
  BY DEF Rows
<1>2. at.basis \in Seq(Rows(F)) /\ at.fixed \in SUBSET (SUBSET Places) /\ at.wrong \in SUBSET Places
  BY DEF Eliminations
<1>3. PICK left \in Rows(F) : left = FoldLeft(Less, from, at.basis)
  <2> HIDE DEF from, F
  <2> QED
    BY <1>1, <1>2, AllLessWithin
<1>4. left.tag \in SUBSET Places
  BY DEF Rows
<1>5. Append(at.basis, left) \in Seq(Rows(F)) /\ Insert(at.fixed, left.tag) \in SUBSET (SUBSET Places)
  BY <1>2, <1>4, InsertWithin
<1>6. PICK new : new = Elimination(forms, shape, c, at, e)
  OBVIOUS
<1>7. \E basis, fixed, wrong :
        /\ new = [basis |-> basis, fixed |-> fixed, wrong |-> wrong]
        /\ basis \in {at.basis, Append(at.basis, left)}
        /\ fixed \in {at.fixed, Insert(at.fixed, left.tag)}
        /\ wrong \in {at.wrong, at.wrong \cup {e}}
  <2> HIDE <1>1, <1>2, <1>4, <1>5
  <2> QED
    BY <1>3, <1>6 DEF Elimination
<1> QED
  BY <1>2, <1>5, <1>6, <1>7 DEF Eliminations

Itself(published) == [i \in DOMAIN published |-> i]

EliminatedEq(forms, shape, published, it) ==
  it = [s \in SUBSET DOMAIN Itself(published) |->
          IF s = {} THEN [basis |-> << >>, fixed |-> {}, wrong |-> {}]
          ELSE Elimination(forms, shape, published[Itself(published)[Max(s)]],
                           it[s \ {Max(s)}], Itself(published)[Max(s)])]

LEMMA EliminatedRuns ==
  ASSUME NEW forms, NEW shape, NEW published
  PROVE  Eliminated(forms, shape, published)
           = (CHOOSE it : EliminatedEq(forms, shape, published, it))[DOMAIN Itself(published)]
BY Zenon DEF Eliminated, FoldLeftDomain, FoldLeft, MapThenFoldSet, EliminatedEq, Itself

LEMMA EliminatedWithin ==
  ASSUME NEW forms, NEW shape, NEW published, DOMAIN published \in SUBSET Places
  PROVE  Eliminated(forms, shape, published) \in Eliminations(shape.free)
<1> DEFINE V == Eliminations(shape.free)
           self == Itself(published)
           S == DOMAIN self
           ch == GreatestOf(S)
           op == [m \in S \X V |-> Elimination(forms, shape, published[m[1]], m[2], m[1])]
           from == [basis |-> << >>, fixed |-> {}, wrong |-> {}]
           it == CHOOSE jt : EliminatedEq(forms, shape, published, jt)
<1>1. S \in SUBSET Places /\ \A k \in S : self[k] = k
  BY DEF Itself
<1>0. IsFiniteSet(S) /\ S \in SUBSET Nat
  <2> HIDE DEF S
  <2> QED
    BY <1>1, PlacesAre, FS_Subset
<1>2. \A s \in SUBSET S : ch[s] = Max(s) /\ (s # {} => ch[s] \in s)
  <2> HIDE DEF S
  <2> QED
    BY <1>0, GreatestIs
<1>3. \A k \in S, at \in V : Elimination(forms, shape, published[k], at, k) \in V
  BY <1>1, EliminationWithin
<1> HIDE DEF V, ch, S
<1>4. op \in [S \X V -> V]
  <2>1. \A m \in S \X V : Elimination(forms, shape, published[m[1]], m[2], m[1]) \in V
    BY <1>3
  <2> QED
    BY ONLY <2>1
<1>5. from \in V
  BY DEF V, Eliminations
<1>6. \A k \in S, at \in V : op[<<k, at>>] = Elimination(forms, shape, published[k], at, k)
  OBVIOUS
<1> HIDE DEF op, from
<1>7. PICK g \in [SUBSET S -> V] : Follows(S, ch, V, from, op, g)
  <2>1. \A s \in SUBSET S : s # {} => ch[s] \in s
    BY <1>2
  <2> QED
    BY ONLY <1>0, <2>1, <1>4, <1>5, FollowsExists
<1>8. EliminatedEq(forms, shape, published, g)
  <2>1. ASSUME NEW s \in SUBSET S, s # {}
        PROVE  g[s] = Elimination(forms, shape, published[self[Max(s)]], g[s \ {Max(s)}], self[Max(s)])
    <3>1. PICK x \in S : x = ch[s] /\ x = Max(s)
      BY <1>2, <2>1
    <3>2. PICK r \in SUBSET S : r = s \ {x}
      OBVIOUS
    <3>3. g[s] = op[<<x, g[r]>>] /\ g[r] \in V
      BY <1>7, <2>1, <3>1, <3>2 DEF Follows
    <3>4. g[s] = Elimination(forms, shape, published[x], g[r], x) /\ self[x] = x
      BY <1>1, <1>6, <3>3
    <3> QED
      BY <3>1, <3>2, <3>4
  <2>2. g[{}] = from /\ g = [s \in SUBSET S |-> g[s]]
    BY <1>7 DEF Follows
  <2> QED
    BY <2>1, <2>2 DEF EliminatedEq, S, from
<1>9. EliminatedEq(forms, shape, published, it)
  BY <1>8
<1> HIDE DEF it
<1>10. Follows(S, ch, V, from, op, it)
  <2>1. it = [s \in SUBSET S |-> it[s]] /\ it[{}] = from
    BY <1>9 DEF EliminatedEq, S, from
  <2>2. ASSUME NEW s \in SUBSET S, s # {}, it[s \ {ch[s]}] \in V
        PROVE  it[s] = op[<<ch[s], it[s \ {ch[s]}]>>]
    <3>1. PICK x \in S : x = ch[s] /\ x = Max(s) /\ self[x] = x
      BY <1>1, <1>2, <2>2
    <3>2. it[s] = Elimination(forms, shape, published[self[x]], it[s \ {x}], self[x])
      BY <1>9, <2>2, <3>1 DEF EliminatedEq, S
    <3> QED
      BY <1>6, <2>2, <3>1, <3>2
  <2>3. \A s \in SUBSET S : s # {} => ch[s] \in s
    BY <1>2
  <2> QED
    BY ONLY <1>0, <1>4, <1>5, <2>1, <2>2, <2>3 DEF Follows
<1>11. it[S] \in V
  <2>1. it \in [SUBSET S -> V]
    BY ONLY <1>10, FoldStays
  <2> QED
    BY <2>1
<1> QED
  BY <1>11, EliminatedRuns DEF it, V, S

LEMMA PassingWithin ==
  ASSUME NEW fixed \in SUBSET (SUBSET Places), NEW wrong
  PROVE  Passing(fixed, wrong) \in SUBSET (SUBSET Places)
<1> DEFINE odd == { v \in fixed : Cardinality(v \cap wrong) % 2 = 1 }
           least == Min({ Pivot(v) : v \in odd })
           pairs == { Plus(v, first) : v \in odd, first \in { f \in odd : Pivot(f) = least } }
<1>1. odd \in SUBSET (SUBSET Places)
  OBVIOUS
<1>2. pairs \in SUBSET (SUBSET Places)
  <2> HIDE DEF odd, least
  <2> QED
    BY <1>1, PlusWithin
<1>3. fixed \ odd \in SUBSET (SUBSET Places) /\ pairs \ {{}} \in SUBSET (SUBSET Places)
  <2> HIDE DEF odd, pairs
  <2> QED
    BY <1>2
<1>4. {} \in SUBSET (SUBSET Places)
  OBVIOUS
<1>5. Passing(fixed, wrong) = InsertAll(InsertAll({}, fixed \ odd), pairs \ {{}})
  BY DEF Passing
<1> HIDE DEF odd, pairs
<1>6. InsertAll({}, fixed \ odd) \in SUBSET (SUBSET Places)
  BY <1>3, <1>4, InsertAllWithin
<1> QED
  BY <1>3, <1>5, <1>6, InsertAllWithin

(* A class: the sums that are fixed, and those of them that come out right.*)
Class == [fixed : SUBSET (SUBSET Places), pass : SUBSET (SUBSET Places)]

LEMMA ClassIs ==
  ASSUME NEW d, NEW forms, NEW r
  PROVE  ClassFor(d, forms, r) \in Class
<1>1. DOMAIN PublishedOf(d) \in SUBSET Places
  BY DEF PublishedOf, Places
<1>2. PICK at : at = Eliminated(forms, Shape(r), PublishedOf(d))
  OBVIOUS
<1>3. at.fixed \in SUBSET (SUBSET Places)
  <2>1. at \in Eliminations(Shape(r).free)
    BY <1>1, <1>2, EliminatedWithin
  <2> QED
    BY <2>1 DEF Eliminations
<1>4. ClassFor(d, forms, r) = [fixed |-> at.fixed, pass |-> Passing(at.fixed, at.wrong)]
  BY <1>2 DEF ClassFor
<1> QED
  BY <1>3, <1>4, PassingWithin DEF Class

(* Exact, for one DV.                                                      *)
ExactOf(of, d, its) ==
  /\ its.classes \in SUBSET Class
  /\ \A c \in of : d \in c.dvs => its.sums[c] \in SUBSET Places

LEMMA ExactlyIs ==
  ASSUME NEW d
  PROVE  ExactOf(cands, d, Exactly(d))
<1> DEFINE class_of == ClassesOf(d, linear)
<1>1. \A k \in Range(class_of) : k \in Class
  BY ClassIs DEF ClassesOf, Range
<1>2. \A c : DvSum(d, c) \in SUBSET Places
  BY DEF DvSum, PublishedOf, Places
<1>3. /\ Exactly(d).classes = { k \in Range(class_of) : k.fixed # {} }
      /\ Exactly(d).sums = [c \in { e \in cands : d \in e.dvs } |-> DvSum(d, c)]
  BY DEF Exactly
<1> QED
  BY <1>1, <1>2, <1>3 DEF ExactOf

-----------------------------------------------------------------------------
(* A fill works out a DV's chances without working out what it has then    *)
(* seen: by ranks that grow by one or stay.  They are those of what it has *)
(* then seen.                                                              *)
SeenOf(its, seen) ==
  \A k \in its.classes : Clean(seen.fixed[k]) /\ Clean(seen.pass[k])

(* AliveOf, by what Exact has of the DV.                                   *)
RanksOf(subs) == [k \in DOMAIN subs |-> Rank(subs[k])]

Survival(its, rank, fixed, pass) ==
  [r \in Residue |->
     IF its.class_of[r] \notin its.classes THEN rank
     ELSE IF fixed[its.class_of[r]] = pass[its.class_of[r]] THEN fixed[its.class_of[r]] ELSE Never]

AliveBy(its, seen, rank) == Survival(its, rank, RanksOf(seen.fixed), RanksOf(seen.pass))

LEMMA AliveIs ==
  ASSUME NEW d, NEW seen, NEW rank
  PROVE  AliveOf(seen, d, rank) = AliveBy(exact[d], seen, rank)
BY Zenon DEF AliveOf, AliveBy, Chances, Survival, RanksOf

LEMMA AfterIs ==
  ASSUME NEW d, ExactOf(cands, d, exact[d]), NEW seen, SeenOf(exact[d], seen),
         NEW c \in cands, d \in c.dvs, NEW rank
  PROVE  /\ SeenOf(exact[d], SeenAfter(seen, d, c))
         /\ AliveAfter(seen, d, c, rank) = AliveBy(exact[d], SeenAfter(seen, d, c), rank)
<1> DEFINE v == exact[d].sums[c]
           classes == exact[d].classes
           Fixed(k) == Insert(seen.fixed[k], Reduce(k.fixed, v))
           Pass(k) == Insert(seen.pass[k], Reduce(k.pass, v))
           After(sub, w) == Rank(sub) + (IF Grows(sub, w) THEN 1 ELSE 0)
           fixed == [k \in classes |-> Fixed(k)]
           pass == [k \in classes |-> Pass(k)]
<1>1. v \in SUBSET Places
  BY DEF ExactOf
<1>2. ASSUME NEW k \in classes
      PROVE  /\ Clean(Fixed(k)) /\ Rank(Fixed(k)) = After(seen.fixed[k], Reduce(k.fixed, v))
             /\ Clean(Pass(k)) /\ Rank(Pass(k)) = After(seen.pass[k], Reduce(k.pass, v))
  <2>1. k.fixed \in SUBSET (SUBSET Places) /\ k.pass \in SUBSET (SUBSET Places)
    BY DEF ExactOf, Class
  <2>2. Reduce(k.fixed, v) \in SUBSET Places /\ Reduce(k.pass, v) \in SUBSET Places
    BY <1>1, <2>1, ReduceWithin
  <2>3. Clean(seen.fixed[k]) /\ Clean(seen.pass[k])
    BY DEF SeenOf
  <2> QED
    BY <2>2, <2>3, InsertKeeps
<1> HIDE DEF Fixed, Pass, After, v
<1>3. SeenAfter(seen, d, c) = [fixed |-> fixed, pass |-> pass]
  BY DEF SeenAfter, Fixed, Pass, v
<1>4. SeenOf(exact[d], SeenAfter(seen, d, c))
  BY <1>2, <1>3 DEF SeenOf
<1>5. AliveAfter(seen, d, c, rank)
        = Chances(d, rank, [k \in classes |-> After(seen.fixed[k], Reduce(k.fixed, v))],
                  [k \in classes |-> After(seen.pass[k], Reduce(k.pass, v))])
  BY DEF AliveAfter, After, v
<1>6. AliveOf([fixed |-> fixed, pass |-> pass], d, rank)
        = Chances(d, rank, [k \in DOMAIN fixed |-> Rank(fixed[k])], [k \in DOMAIN pass |-> Rank(pass[k])])
  BY DEF AliveOf
<1>7. /\ [k \in DOMAIN fixed |-> Rank(fixed[k])]
           = [k \in classes |-> After(seen.fixed[k], Reduce(k.fixed, v))]
      /\ [k \in DOMAIN pass |-> Rank(pass[k])]
           = [k \in classes |-> After(seen.pass[k], Reduce(k.pass, v))]
  <2> HIDE DEF classes
  <2> QED
    BY <1>2
<1> QED
  BY <1>3, <1>4, <1>5, <1>6, <1>7, AliveIs

(* Nothing is seen of a DV, and it is certain to survive.                  *)
LEMMA EmptyIs ==
  ASSUME NEW d \in Dv
  PROVE  /\ SeenOf(exact[d], Empty.seen[d])
         /\ Empty.alive[d] = AliveBy(exact[d], Empty.seen[d], 0)
<1> DEFINE none == [k \in exact[d].classes |-> {}]
<1>1. Empty.seen[d] = [fixed |-> none, pass |-> none] /\ Empty.alive[d] = Certain
  BY DEF Empty
<1>2. Clean({}) /\ Rank({}) = 0
  BY FS_EmptySet DEF Clean, Rank
<1>3. SeenOf(exact[d], [fixed |-> none, pass |-> none])
  BY <1>2 DEF SeenOf
<1>4. [k \in DOMAIN none |-> Rank(none[k])] = [k \in exact[d].classes |-> 0]
  BY <1>2
<1> HIDE DEF none
<1>5. AliveOf([fixed |-> none, pass |-> none], d, 0)
        = Chances(d, 0, [k \in exact[d].classes |-> 0], [k \in exact[d].classes |-> 0])
  BY <1>4 DEF AliveOf
<1>6. Chances(d, 0, [k \in exact[d].classes |-> 0], [k \in exact[d].classes |-> 0]) = Certain
  BY DEF Chances, Certain
<1> QED
  BY <1>1, <1>3, <1>5, <1>6, AliveIs

-----------------------------------------------------------------------------
(* Totals: chances can be entered in any order, and taken back.            *)
Total == [none : [1 .. TAKEN -> Int], certain : Int, sum : Int]

LEMMA UnitsAre ==
  ASSUME NEW n
  PROVE  Units(n) \in Int
<1>1. CASE n \in 0 .. TAKEN
  <2>1. TAKEN \in Nat
    BY SizeAssumption
  <2>2. PICK k \in 0 .. TAKEN : k = TAKEN - n
    BY <1>1, <2>1
  <2>3. 2 ^ k \in Nat
    BY PowersAssumption
  <2> QED
    BY <1>1, <2>2, <2>3 DEF Units
<1>2. CASE n \notin 0 .. TAKEN
  BY <1>2 DEF Units
<1> QED
  BY <1>1, <1>2

(* What one entry does.                                                    *)
Counted(k, n, times) == IF k = n THEN times ELSE 0
Weighed(n, times) == times * Units(n)

EntryMakes(at, n, times, to) ==
  /\ to \in Total
  /\ \A k \in 1 .. TAKEN : to.none[k] = at.none[k] + Counted(k, n, times)
  /\ to.certain = at.certain + Counted(0, n, times)
  /\ to.sum = at.sum + Weighed(n, times)

LEMMA EnteredIs ==
  ASSUME NEW at \in Total, NEW n, NEW times \in Int
  PROVE  /\ EntryMakes(at, n, times, Entered(at, n, times))
         /\ \A k : Counted(k, n, times) \in Int
         /\ Weighed(n, times) \in Int
<1>1. PICK none \in [1 .. TAKEN -> Int] : none = at.none
  BY DEF Total
<1>2. at.certain \in Int /\ at.sum \in Int
  BY DEF Total
<1>3. \A k : Counted(k, n, times) \in Int
  BY DEF Counted
<1>4. PICK w \in Int : w = Weighed(n, times)
  <2>1. PICK u \in Int : u = Units(n)
    BY UnitsAre
  <2>2. times * u \in Int
    OBVIOUS
  <2> QED
    BY <2>1, <2>2 DEF Weighed
<1>5. PICK to : to = Entered(at, n, times)
  OBVIOUS
<1>6. /\ to = [none |-> to.none, certain |-> to.certain, sum |-> to.sum]
      /\ to.none = IF n \in 1 .. TAKEN THEN [none EXCEPT ![n] = none[n] + times] ELSE none
      /\ to.certain = IF n = 0 THEN at.certain + times ELSE at.certain
      /\ to.sum = at.sum + w
  <2>1. DOMAIN none = 1 .. TAKEN
    OBVIOUS
  <2> HIDE <1>2, <1>3
  <2> QED
    BY <1>1, <1>4, <1>5, <2>1 DEF Entered, Weighed
<1>7. to.none \in [1 .. TAKEN -> Int] /\ \A k \in 1 .. TAKEN : to.none[k] = none[k] + Counted(k, n, times)
  BY <1>6 DEF Counted
<1>8. to.certain \in Int /\ to.certain = at.certain + Counted(0, n, times)
  BY <1>2, <1>6 DEF Counted
<1>9. to.sum \in Int /\ to.sum = at.sum + Weighed(n, times)
  BY <1>2, <1>4, <1>6
<1>10. to \in Total
  BY <1>6, <1>7, <1>8, <1>9 DEF Total
<1> QED
  BY <1>1, <1>3, <1>4, <1>5, <1>7, <1>8, <1>9, <1>10 DEF EntryMakes

LEMMA SameTotal ==
  ASSUME NEW p \in Total, NEW q \in Total, \A k \in 1 .. TAKEN : p.none[k] = q.none[k],
         p.certain = q.certain, p.sum = q.sum
  PROVE  p = q
<1>1. PICK f \in [1 .. TAKEN -> Int] : f = p.none
  BY DEF Total
<1>2. PICK g \in [1 .. TAKEN -> Int] : g = q.none
  BY DEF Total
<1>3. \A k \in 1 .. TAKEN : f[k] = g[k]
  BY <1>1, <1>2
<1>4. f = g
  <2>1. PICK D : D = 1 .. TAKEN
    OBVIOUS
  <2>2. f = [k \in D |-> f[k]] /\ g = [k \in D |-> g[k]] /\ \A k \in D : f[k] = g[k]
    BY <1>3, <2>1
  <2>3. [k \in D |-> f[k]] = [k \in D |-> g[k]]
    BY ONLY <2>2
  <2> QED
    BY ONLY <2>2, <2>3
<1>5. /\ p = [none |-> p.none, certain |-> p.certain, sum |-> p.sum]
      /\ q = [none |-> q.none, certain |-> q.certain, sum |-> q.sum]
  BY DEF Total
<1> QED
  BY ONLY <1>1, <1>2, <1>4, <1>5, p.certain = q.certain, p.sum = q.sum

LEMMA EnteredSwaps ==
  ASSUME NEW at \in Total, NEW m, NEW n
  PROVE  Entered(Entered(at, m, 1), n, 1) = Entered(Entered(at, n, 1), m, 1)
<1>1. PICK a \in Total : a = Entered(at, m, 1) /\ EntryMakes(at, m, 1, a)
  BY EnteredIs DEF EntryMakes
<1>2. PICK b \in Total : b = Entered(at, n, 1) /\ EntryMakes(at, n, 1, b)
  BY EnteredIs DEF EntryMakes
<1>3. PICK p \in Total : p = Entered(a, n, 1) /\ EntryMakes(a, n, 1, p)
  BY EnteredIs DEF EntryMakes
<1>4. PICK q \in Total : q = Entered(b, m, 1) /\ EntryMakes(b, m, 1, q)
  BY EnteredIs DEF EntryMakes
<1>5. /\ \A k : Counted(k, m, 1) \in Int /\ Counted(k, n, 1) \in Int
      /\ Weighed(m, 1) \in Int /\ Weighed(n, 1) \in Int
  <2>1. Weighed(m, 1) \in Int
    BY EnteredIs
  <2>2. Weighed(n, 1) \in Int
    BY EnteredIs
  <2> QED
    BY <2>1, <2>2 DEF Counted
<1>6. /\ \A k \in 1 .. TAKEN : at.none[k] \in Int
      /\ at.certain \in Int /\ at.sum \in Int
  BY DEF Total
<1>7. ASSUME NEW k \in 1 .. TAKEN PROVE p.none[k] = q.none[k]
  <2>1. PICK i \in Int : i = at.none[k]
    BY <1>6
  <2>2. PICK x \in Int : x = Counted(k, m, 1)
    BY <1>5
  <2>3. PICK y \in Int : y = Counted(k, n, 1)
    BY <1>5
  <2>4. /\ a.none[k] = i + x /\ p.none[k] = a.none[k] + y
        /\ b.none[k] = i + y /\ q.none[k] = b.none[k] + x
    BY <1>1, <1>2, <1>3, <1>4, <2>1, <2>2, <2>3 DEF EntryMakes
  <2> QED
    BY ONLY <2>4, i \in Int, x \in Int, y \in Int
<1>8. p.certain = q.certain
  <2>2. PICK x \in Int : x = Counted(0, m, 1)
    BY <1>5
  <2>3. PICK y \in Int : y = Counted(0, n, 1)
    BY <1>5
  <2>4. /\ a.certain = at.certain + x /\ p.certain = a.certain + y
        /\ b.certain = at.certain + y /\ q.certain = b.certain + x
    BY <1>1, <1>2, <1>3, <1>4, <2>2, <2>3 DEF EntryMakes
  <2> QED
    BY ONLY <2>4, <1>6, x \in Int, y \in Int
<1>9. p.sum = q.sum
  <2>2. PICK x \in Int : x = Weighed(m, 1)
    BY <1>5
  <2>3. PICK y \in Int : y = Weighed(n, 1)
    BY <1>5
  <2>4. /\ a.sum = at.sum + x /\ p.sum = a.sum + y
        /\ b.sum = at.sum + y /\ q.sum = b.sum + x
    BY <1>1, <1>2, <1>3, <1>4, <2>2, <2>3 DEF EntryMakes
  <2> QED
    BY ONLY <2>4, <1>6, x \in Int, y \in Int
<1>10. p = q
  BY ONLY <1>7, <1>8, <1>9, p \in Total, q \in Total, SameTotal
<1> QED
  BY <1>1, <1>2, <1>3, <1>4, <1>10

(* Taking back what was entered leaves what was there.                     *)
LEMMA EnteredBack ==
  ASSUME NEW at \in Total, NEW n
  PROVE  Entered(Entered(at, n, 1), n, -1) = at
<1>1. PICK a \in Total : a = Entered(at, n, 1) /\ EntryMakes(at, n, 1, a)
  BY EnteredIs DEF EntryMakes
<1>0. -1 \in Int
  OBVIOUS
<1>2. PICK p \in Total : p = Entered(a, n, -1) /\ EntryMakes(a, n, -1, p)
  BY <1>0, EnteredIs DEF EntryMakes
<1>3. \A k : Counted(k, n, 1) \in Int /\ Counted(k, n, -1) = -Counted(k, n, 1)
  BY DEF Counted
<1>4. Weighed(n, 1) \in Int /\ Weighed(n, -1) = -Weighed(n, 1)
  <2>1. PICK u \in Int : u = Units(n)
    BY UnitsAre
  <2>2. 1 * u = u /\ (-1) * u = -u
    OBVIOUS
  <2> QED
    BY <2>1, <2>2 DEF Weighed
<1>6. /\ \A k \in 1 .. TAKEN : at.none[k] \in Int
      /\ at.certain \in Int /\ at.sum \in Int
  BY DEF Total
<1>7. ASSUME NEW k \in 1 .. TAKEN PROVE p.none[k] = at.none[k]
  <2>1. PICK i \in Int : i = at.none[k]
    BY <1>6
  <2>2. PICK x \in Int : x = Counted(k, n, 1) /\ -x = Counted(k, n, -1)
    BY <1>3
  <2>4. a.none[k] = i + x /\ p.none[k] = a.none[k] + (-x)
    BY <1>1, <1>2, <2>1, <2>2 DEF EntryMakes
  <2>5. p.none[k] = i
    BY ONLY <2>4, i \in Int, x \in Int
  <2> QED
    BY <2>1, <2>5
<1>8. p.certain = at.certain
  <2>2. PICK x \in Int : x = Counted(0, n, 1) /\ -x = Counted(0, n, -1)
    BY <1>3
  <2>4. a.certain = at.certain + x /\ p.certain = a.certain + (-x)
    BY <1>1, <1>2, <2>2 DEF EntryMakes
  <2> QED
    BY ONLY <2>4, <1>6, x \in Int
<1>9. p.sum = at.sum
  <2>2. PICK x \in Int : x = Weighed(n, 1) /\ -x = Weighed(n, -1)
    BY <1>4
  <2>4. a.sum = at.sum + x /\ p.sum = a.sum + (-x)
    BY <1>1, <1>2, <2>2 DEF EntryMakes
  <2> QED
    BY ONLY <2>4, <1>6, x \in Int
<1>10. p = at
  BY ONLY <1>7, <1>8, <1>9, p \in Total, at \in Total, SameTotal
<1> QED
  BY <1>1, <1>2, <1>10

-----------------------------------------------------------------------------
(* The totals of a residue, one DV after another in an order of no matter. *)
TotalEq(alive, r, it) ==
  it = [s \in SUBSET Dv |->
          IF s = {} THEN NoTotal
          ELSE Entered(it[s \ {CHOOSE x \in s : TRUE}], alive[CHOOSE x \in s : TRUE][r], 1)]

LEMMA TotalIs ==
  ASSUME NEW alive, NEW r \in Residue
  PROVE  TotalsOf(alive)[r] = (CHOOSE it : TotalEq(alive, r, it))[Dv]
<1>1. TotalsOf(alive)[r] = FoldSet(LAMBDA d, at : Entered(at, alive[d][r], 1), NoTotal, Dv)
  BY Zenon DEF TotalsOf
<1>2. FoldSet(LAMBDA d, at : Entered(at, alive[d][r], 1), NoTotal, Dv) = (CHOOSE it : TotalEq(alive, r, it))[Dv]
  BY Zenon DEF FoldSet, MapThenFoldSet, TotalEq
<1> QED
  BY <1>1, <1>2

(* It has every DV as the last one.                                        *)
InAnyOrder(alive, r, it) ==
  /\ it \in [SUBSET Dv -> Total] /\ it[{}] = NoTotal
  /\ \A s \in SUBSET Dv : \A x \in s : it[s] = Entered(it[s \ {x}], alive[x][r], 1)

NextTotal(alive, r) == [m \in Dv \X Total |-> Entered(m[2], alive[m[1]][r], 1)]

LEMMA NextTotalIs ==
  ASSUME NEW alive, NEW r
  PROVE  /\ NextTotal(alive, r) \in [Dv \X Total -> Total]
         /\ \A d \in Dv, at \in Total : NextTotal(alive, r)[<<d, at>>] = Entered(at, alive[d][r], 1)
<1>1. \A m \in Dv \X Total : Entered(m[2], alive[m[1]][r], 1) \in Total
  BY EnteredIs DEF EntryMakes
<1>2. NextTotal(alive, r) \in [Dv \X Total -> Total]
  BY ONLY <1>1 DEF NextTotal
<1> QED
  BY <1>2 DEF NextTotal

LEMMA TotalRuns ==
  ASSUME NEW alive, NEW r
  PROVE  LET it == CHOOSE jt : TotalEq(alive, r, jt)
         IN it \in [SUBSET Dv -> Total] /\ TotalEq(alive, r, it)
<1> DEFINE ch == AnyOf(Dv)
           op == NextTotal(alive, r)
           it == CHOOSE jt : TotalEq(alive, r, jt)
<1>1. IsFiniteSet(Dv) /\ \A s \in SUBSET Dv : ch[s] = (CHOOSE x \in s : TRUE) /\ (s # {} => ch[s] \in s)
  BY AnyIs, FiniteDvAssumption
<1>2. op \in [Dv \X Total -> Total] /\ \A d \in Dv, at \in Total : op[<<d, at>>] = Entered(at, alive[d][r], 1)
  BY NextTotalIs
<1>3. NoTotal \in Total
  BY DEF NoTotal, Total
<1> HIDE DEF ch, op
<1>4. PICK g \in [SUBSET Dv -> Total] : Follows(Dv, ch, Total, NoTotal, op, g)
  <2>1. \A s \in SUBSET Dv : s # {} => ch[s] \in s
    BY <1>1
  <2> QED
    BY ONLY <1>1, <1>2, <1>3, <2>1, FollowsExists
<1>5. TotalEq(alive, r, g)
  <2>1. ASSUME NEW s \in SUBSET Dv, s # {}
        PROVE  g[s] = Entered(g[s \ {CHOOSE x \in s : TRUE}], alive[CHOOSE x \in s : TRUE][r], 1)
    <3>1. PICK x \in Dv : x = ch[s] /\ x = (CHOOSE y \in s : TRUE)
      BY <1>1, <2>1
    <3>2. PICK rest \in SUBSET Dv : rest = s \ {x}
      OBVIOUS
    <3>3. g[s] = op[<<x, g[rest]>>] /\ g[rest] \in Total
      BY <1>4, <2>1, <3>1, <3>2 DEF Follows
    <3>4. g[s] = Entered(g[rest], alive[x][r], 1)
      BY <1>2, <3>3
    <3> QED
      BY <3>1, <3>2, <3>4
  <2>2. g[{}] = NoTotal /\ g = [s \in SUBSET Dv |-> g[s]]
    BY <1>4 DEF Follows
  <2> QED
    BY <2>1, <2>2 DEF TotalEq
<1>6. TotalEq(alive, r, it)
  BY <1>5
<1> HIDE DEF it
<1>7. Follows(Dv, ch, Total, NoTotal, op, it)
  <2>1. it = [s \in SUBSET Dv |-> it[s]] /\ it[{}] = NoTotal
    BY <1>6 DEF TotalEq
  <2>2. ASSUME NEW s \in SUBSET Dv, s # {}, it[s \ {ch[s]}] \in Total
        PROVE  it[s] = op[<<ch[s], it[s \ {ch[s]}]>>]
    <3>1. PICK x \in Dv : x = ch[s] /\ x = (CHOOSE y \in s : TRUE)
      BY <1>1, <2>2
    <3>2. it[s] = Entered(it[s \ {x}], alive[x][r], 1)
      BY <1>6, <2>2, <3>1 DEF TotalEq
    <3> QED
      BY <1>2, <2>2, <3>1, <3>2
  <2>3. \A s \in SUBSET Dv : s # {} => ch[s] \in s
    BY <1>1
  <2> QED
    BY ONLY <1>1, <1>2, <1>3, <2>1, <2>2, <2>3 DEF Follows
<1>8. it \in [SUBSET Dv -> Total]
  BY ONLY <1>7, FoldStays
<1> QED
  BY <1>6, <1>8 DEF it

LEMMA TotalInAnyOrder ==
  ASSUME NEW alive, NEW r, NEW it \in [SUBSET Dv -> Total], TotalEq(alive, r, it)
  PROVE  InAnyOrder(alive, r, it)
<1> DEFINE Ends(s, x) == it[s] = Entered(it[s \ {x}], alive[x][r], 1)
           N == { n \in Nat : \A s \in SUBSET Dv : Cardinality(s) = n => \A x \in s : Ends(s, x) }
<1>0. \A s \in SUBSET Dv : IsFiniteSet(s) /\ Cardinality(s) \in Nat
  BY FiniteDvAssumption, FS_Subset, FS_CardinalityType
<1>1. 0 \in N
  <2>1. \A s \in SUBSET Dv : Cardinality(s) = 0 => s = {}
    BY <1>0, FS_EmptySet
  <2> QED
    BY <2>1
<1>2. ASSUME NEW n \in N PROVE n + 1 \in N
  <2>1. n \in Nat /\ \A s \in SUBSET Dv : Cardinality(s) = n => \A x \in s : Ends(s, x)
    OBVIOUS
  <2>2. ASSUME NEW s \in SUBSET Dv, Cardinality(s) = n + 1, NEW x \in s PROVE Ends(s, x)
    <3>1. PICK c \in s : c = (CHOOSE y \in s : TRUE)
      OBVIOUS
    <3>2. Ends(s, c)
      BY <3>1 DEF TotalEq
    <3>3. CASE x = c
      BY <3>2, <3>3
    <3>4. CASE x # c
      <4>1. PICK without_c \in SUBSET Dv : without_c = s \ {c}
        OBVIOUS
      <4>2. PICK without_x \in SUBSET Dv : without_x = s \ {x}
        OBVIOUS
      <4>3. PICK rest \in SUBSET Dv : rest = s \ {c, x}
        OBVIOUS
      <4>4. Cardinality(without_c) = n /\ Cardinality(without_x) = n
        <5>1. Cardinality(without_c) = Cardinality(s) - 1
          BY <1>0, <4>1, FS_RemoveElement
        <5>2. Cardinality(without_x) = Cardinality(s) - 1
          BY <1>0, <4>2, FS_RemoveElement
        <5> QED
          BY <2>1, <2>2, <5>1, <5>2
      <4>5. x \in without_c /\ without_c \ {x} = rest /\ c \in without_x /\ without_x \ {c} = rest
        BY <3>4, <4>1, <4>2, <4>3
      <4>6. it[without_c] = Entered(it[rest], alive[x][r], 1)
        BY <2>1, <4>4, <4>5
      <4>7. it[without_x] = Entered(it[rest], alive[c][r], 1)
        BY <2>1, <4>4, <4>5
      <4>8. it[s] = Entered(it[without_c], alive[c][r], 1)
        BY <3>2, <4>1
      <4>9. it[rest] \in Total
        OBVIOUS
      <4>10. Entered(Entered(it[rest], alive[x][r], 1), alive[c][r], 1)
               = Entered(Entered(it[rest], alive[c][r], 1), alive[x][r], 1)
        BY ONLY <4>9, EnteredSwaps
      <4> QED
        BY <4>2, <4>6, <4>7, <4>8, <4>10
    <3> QED
      BY <3>3, <3>4
  <2> HIDE DEF Ends
  <2> QED
    BY <2>1, <2>2
<1>3. N = Nat
  <2> HIDE DEF N
  <2>1. N \in SUBSET Nat
    BY DEF N
  <2> QED
    BY <1>1, <1>2, <2>1, AllNumbers
<1>4. ASSUME NEW s \in SUBSET Dv, NEW x \in s PROVE Ends(s, x)
  <2>1. Cardinality(s) \in N
    BY <1>0, <1>3
  <2> QED
    BY <2>1
<1>5. it[{}] = NoTotal
  BY DEF TotalEq
<1> QED
  BY <1>4, <1>5 DEF InAnyOrder

(* DVs with the same chances have the same totals.                         *)
LEMMA SameBelow ==
  ASSUME NEW a, NEW b, NEW r, NEW it, NEW jt, TotalEq(a, r, it), TotalEq(b, r, jt),
         NEW T \in SUBSET Dv, \A d \in T : a[d][r] = b[d][r]
  PROVE  it[T] = jt[T]
<1> DEFINE ch == AnyOf(T)
           G == { s \in SUBSET T : it[s] = jt[s] }
<1>1. IsFiniteSet(T) /\ \A s \in SUBSET T : ch[s] = (CHOOSE x \in s : TRUE) /\ (s # {} => ch[s] \in s)
  BY AnyIs, FiniteDvAssumption, FS_Subset
<1> HIDE DEF ch
<1>2. {} \in G
  BY DEF TotalEq
<1>3. ASSUME NEW s \in SUBSET T, s # {}, s \ {ch[s]} \in G PROVE s \in G
  <2>1. PICK x \in T : x = ch[s] /\ x = (CHOOSE y \in s : TRUE)
    BY <1>1, <1>3
  <2>2. s \in SUBSET Dv
    OBVIOUS
  <2>3. it[s] = Entered(it[s \ {x}], a[x][r], 1)
    BY <1>3, <2>1, <2>2 DEF TotalEq
  <2>4. jt[s] = Entered(jt[s \ {x}], b[x][r], 1)
    BY <1>3, <2>1, <2>2 DEF TotalEq
  <2>5. it[s \ {x}] = jt[s \ {x}] /\ a[x][r] = b[x][r]
    BY <1>3, <2>1
  <2> QED
    BY <2>3, <2>4, <2>5
<1> HIDE DEF G
<1>4. SUBSET T \subseteq G
  <2>1. \A s \in SUBSET T : s # {} /\ s \ {ch[s]} \in G => s \in G
    BY <1>3
  <2>2. Inductive(T, ch, G)
    BY ONLY <1>1, <1>2, <2>1 DEF Inductive
  <2> QED
    BY ONLY <2>2, Induction
<1> QED
  BY <1>4 DEF G

(* A DV's chance taken out and another put in.                             *)
LEMMA TotalsSwap ==
  ASSUME NEW a, NEW b, NEW x \in Dv, \A d \in Dv \ {x} : a[d] = b[d]
  PROVE  TotalsOf(b) = Swap(TotalsOf(a), a[x], b[x])
<1>1. ASSUME NEW r \in Residue PROVE TotalsOf(b)[r] = Step(TotalsOf(a)[r], a[x][r], b[x][r])
  <2> DEFINE it == CHOOSE jt : TotalEq(a, r, jt)
             kt == CHOOSE jt : TotalEq(b, r, jt)
             T == Dv \ {x}
  <2>1. TotalsOf(a)[r] = it[Dv] /\ TotalsOf(b)[r] = kt[Dv]
    BY TotalIs
  <2>2. it \in [SUBSET Dv -> Total] /\ TotalEq(a, r, it)
    BY TotalRuns
  <2>3. kt \in [SUBSET Dv -> Total] /\ TotalEq(b, r, kt)
    BY TotalRuns
  <2> HIDE DEF it, kt
  <2>4. it[Dv] = Entered(it[T], a[x][r], 1)
    <3>1. InAnyOrder(a, r, it)
      BY ONLY <2>2, TotalInAnyOrder
    <3> QED
      BY <3>1 DEF InAnyOrder
  <2>5. kt[Dv] = Entered(kt[T], b[x][r], 1)
    <3>1. InAnyOrder(b, r, kt)
      BY ONLY <2>3, TotalInAnyOrder
    <3> QED
      BY <3>1 DEF InAnyOrder
  <2>6. it[T] = kt[T]
    BY <2>2, <2>3, SameBelow
  <2>7. it[T] \in Total
    BY <2>2
  <2>8. Entered(Entered(it[T], a[x][r], 1), a[x][r], -1) = it[T]
    BY ONLY <2>7, EnteredBack
  <2> QED
    BY <2>1, <2>4, <2>5, <2>6, <2>8 DEF Step
<1>2. TotalsOf(b) = [r \in Residue |-> TotalsOf(b)[r]]
  BY DEF TotalsOf
<1> QED
  BY <1>1, <1>2 DEF Swap

-----------------------------------------------------------------------------
(* A fill's totals, swapped for one DV after another.                      *)
StandsAt == [d \in Dv |-> At(d).alive]

StandsAfter(X, after) == [d \in Dv |-> IF d \in X THEN after[d].alive ELSE At(d).alive]

SwapEq(X, after, base, it) ==
  it = [s \in SUBSET X |->
          IF s = {} THEN base
          ELSE Swap(it[s \ {CHOOSE x \in s : TRUE}], At(CHOOSE x \in s : TRUE).alive,
                    after[CHOOSE x \in s : TRUE].alive)]

LEMMA SwappedIs ==
  ASSUME NEW X \in SUBSET Dv, NEW after, NEW it, SwapEq(X, after, TotalsOf(StandsAt), it)
  PROVE  it[X] = TotalsOf(StandsAfter(X, after))
<1> DEFINE ch == AnyOf(X)
           G == { s \in SUBSET X : it[s] = TotalsOf(StandsAfter(s, after)) }
<1>1. IsFiniteSet(X) /\ \A s \in SUBSET X : ch[s] = (CHOOSE x \in s : TRUE) /\ (s # {} => ch[s] \in s)
  BY AnyIs, FiniteDvAssumption, FS_Subset
<1> HIDE DEF ch
<1>2. {} \in G
  <2>1. StandsAfter({}, after) = StandsAt
    BY DEF StandsAfter, StandsAt
  <2> QED
    BY <2>1 DEF SwapEq
<1>3. ASSUME NEW s \in SUBSET X, s # {}, s \ {ch[s]} \in G PROVE s \in G
  <2>1. PICK x \in X : x = ch[s] /\ x = (CHOOSE y \in s : TRUE)
    BY <1>1, <1>3
  <2>2. PICK rest : rest = s \ {x}
    OBVIOUS
  <2>3. x \in s /\ x \in Dv /\ s \in SUBSET Dv
    BY <1>1, <1>3, <2>1
  <2>4. it[s] = Swap(it[rest], At(x).alive, after[x].alive)
    BY <1>3, <2>1, <2>2 DEF SwapEq
  <2>5. it[rest] = TotalsOf(StandsAfter(rest, after))
    BY <1>3, <2>1, <2>2
  <2>6. PICK a : a = StandsAfter(rest, after)
    OBVIOUS
  <2>7. PICK b : b = StandsAfter(s, after)
    OBVIOUS
  <2>8. a[x] = At(x).alive /\ b[x] = after[x].alive
    BY <2>2, <2>3, <2>6, <2>7 DEF StandsAfter
  <2>9. \A d \in Dv \ {x} : a[d] = b[d]
    BY <2>2, <2>6, <2>7 DEF StandsAfter
  <2>10. TotalsOf(b) = Swap(TotalsOf(a), a[x], b[x])
    BY ONLY <2>3, <2>9, TotalsSwap
  <2>11. it[s] = TotalsOf(b)
    BY ONLY <2>4, <2>5, <2>6, <2>8, <2>10
  <2> QED
    BY <2>7, <2>11
<1> HIDE DEF G
<1>4. SUBSET X \subseteq G
  <2>1. \A s \in SUBSET X : s # {} /\ s \ {ch[s]} \in G => s \in G
    BY <1>3
  <2>2. Inductive(X, ch, G)
    BY ONLY <1>1, <1>2, <2>1 DEF Inductive
  <2> QED
    BY ONLY <2>2, Induction
<1> QED
  BY <1>4 DEF G

(* There is such a recursion: the totals on the way.                       *)
LEMMA SwapEqExists ==
  ASSUME NEW X \in SUBSET Dv, NEW after
  PROVE  \E it : SwapEq(X, after, TotalsOf(StandsAt), it)
<1> DEFINE it == [s \in SUBSET X |-> TotalsOf(StandsAfter(s, after))]
<1>1. ASSUME NEW s \in SUBSET X, s # {}
      PROVE  it[s] = Swap(it[s \ {CHOOSE x \in s : TRUE}], At(CHOOSE x \in s : TRUE).alive,
                          after[CHOOSE x \in s : TRUE].alive)
  <2>1. PICK x \in s : x = (CHOOSE y \in s : TRUE)
    BY <1>1
  <2>2. PICK rest \in SUBSET X : rest = s \ {x}
    OBVIOUS
  <2>6. PICK a : a = StandsAfter(rest, after)
    OBVIOUS
  <2>7. PICK b : b = StandsAfter(s, after)
    OBVIOUS
  <2>3. x \in Dv
    OBVIOUS
  <2>8. a[x] = At(x).alive /\ b[x] = after[x].alive
    BY <2>2, <2>3, <2>6, <2>7 DEF StandsAfter
  <2>9. \A d \in Dv \ {x} : a[d] = b[d]
    BY <2>2, <2>6, <2>7 DEF StandsAfter
  <2>10. TotalsOf(b) = Swap(TotalsOf(a), a[x], b[x])
    BY ONLY <2>3, <2>9, TotalsSwap
  <2>11. it[s] = TotalsOf(b) /\ it[rest] = TotalsOf(a)
    BY <2>6, <2>7
  <2> HIDE DEF it
  <2> QED
    BY <2>1, <2>2, <2>8, <2>10, <2>11
<1>2. it[{}] = TotalsOf(StandsAt)
  <2>1. StandsAfter({}, after) = StandsAt
    BY DEF StandsAfter, StandsAt
  <2>2. {} \in SUBSET X
    OBVIOUS
  <2> QED
    BY <2>1, <2>2
<1>3. it = [s \in SUBSET X |-> it[s]]
  OBVIOUS
<1> HIDE DEF it
<1>4. SwapEq(X, after, TotalsOf(StandsAt), it)
  BY <1>1, <1>2, <1>3 DEF SwapEq
<1> QED
  BY <1>4

LEMMA SwappedRuns ==
  ASSUME NEW totals, NEW after
  PROVE  Swapped(totals, after) = (CHOOSE it : SwapEq(DOMAIN after, after, totals, it))[DOMAIN after]
BY Zenon DEF Swapped, FoldSet, MapThenFoldSet, SwapEq

LEMMA SwappedFollows ==
  ASSUME NEW after, DOMAIN after \in SUBSET Dv
  PROVE  Swapped(TotalsOf(StandsAt), after) = TotalsOf(StandsAfter(DOMAIN after, after))
<1> DEFINE it == CHOOSE jt : SwapEq(DOMAIN after, after, TotalsOf(StandsAt), jt)
<1>1. SwapEq(DOMAIN after, after, TotalsOf(StandsAt), it)
  BY SwapEqExists
<1>2. Swapped(TotalsOf(StandsAt), after) = it[DOMAIN after]
  BY SwappedRuns
<1> HIDE DEF it
<1> QED
  BY <1>1, <1>2, SwappedIs
-----------------------------------------------------------------------------
(* The inductive invariant: chances are those of what was seen and of the  *)
(* ranks, in the state and where a fill stands, and what was seen is       *)
(* clean.                                                                  *)
Accounted(its, at, rank) == SeenOf(its, at.seen) /\ at.alive = AliveBy(its, at.seen, rank)

StateOf(its, at, rs) ==
  /\ at.alive = [d \in Dv |-> at.alive[d]]
  /\ \A d \in Dv : Accounted(its[d], [seen |-> at.seen[d], alive |-> at.alive[d]], rs[d])

FillFollows ==
  /\ fill.totals = TotalsOf(StandsAt)
  /\ fill.means = Means(StandsAt)
  /\ \A d \in Dv : Accounted(exact[d], At(d), fill.ranks[d])

LastInv ==
  /\ \A c \in cands : c.dvs \in SUBSET Dv
  /\ stage = "forms" => DOMAIN exact = {}
  /\ \A d \in DOMAIN exact : ExactOf(cands, d, exact[d])
  /\ stage \in {"add", "ready"} => DOMAIN exact = Dv /\ StateOf(exact, last, ranks)
  /\ stage \in {"ready", "report"} => last.totals = TotalsOf(last.alive)
  /\ fill # NoFill => stage = "ready" /\ FillFollows

LEMMA CandidatesHaveDvs ==
  ASSUME NEW spans, NEW c \in Candidates(spans)
  PROVE  c.dvs \in SUBSET Dv
BY DEF Candidates, Entry

LEMMA InitLast == LastInit => LastInv
<1> SUFFICES ASSUME LastInit PROVE LastInv
  OBVIOUS
<1>1. cands = {} /\ exact = [d \in {} |-> << >>] /\ stage = "forms" /\ fill = NoFill
  BY DEF LastInit
<1> QED
  BY <1>1 DEF LastInv

LEMMA FormsKeep == LastInv /\ MakeForms => LastInv'
<1> SUFFICES ASSUME LastInv, MakeForms PROVE LastInv'
  OBVIOUS
<1>1. stage = "forms" /\ stage' = "new" /\ exact' = exact /\ fill' = fill
  BY DEF MakeForms
<1>2. DOMAIN exact = {} /\ fill = NoFill
  BY <1>1 DEF LastInv
<1>3. \A c \in cands' : c.dvs \in SUBSET Dv
  BY CandidatesHaveDvs DEF MakeForms
<1> QED
  BY <1>1, <1>2, <1>3 DEF LastInv

LEMMA NewKeeps == LastInv /\ New => LastInv'
<1> SUFFICES ASSUME LastInv, New PROVE LastInv'
  OBVIOUS
<1>1. stage = "new" /\ stage' = stage /\ cands' = cands /\ fill' = fill
  BY DEF New
<1>2. PICK next : exact' = [d \in DOMAIN exact \cup {next} |-> IF d = next THEN Exactly(d) ELSE exact[d]]
  BY DEF New
<1>3. fill = NoFill
  BY <1>1 DEF LastInv
<1>4. ASSUME NEW d \in DOMAIN exact' PROVE ExactOf(cands, d, exact'[d])
  <2>1. CASE d = next
    BY <1>2, <2>1, ExactlyIs
  <2>2. CASE d # next
    BY <1>2, <2>2 DEF LastInv
  <2> QED
    BY <2>1, <2>2
<1>5. \A c \in cands : c.dvs \in SUBSET Dv
  BY DEF LastInv
<1> QED
  BY <1>1, <1>3, <1>4, <1>5 DEF LastInv

(* Where nothing of Exact moves.                                           *)
Still == cands' = cands /\ exact' = exact /\ stage' # "forms"

LEMMA StillKeeps ==
  ASSUME LastInv, Still,
         stage' \in {"add", "ready"} => DOMAIN exact = Dv /\ StateOf(exact, last', ranks'),
         stage' \in {"ready", "report"} => last'.totals = TotalsOf(last'.alive),
         (fill # NoFill)' => (stage = "ready" /\ FillFollows)'
  PROVE  LastInv'
<1>1. /\ \A c \in cands' : c.dvs \in SUBSET Dv
      /\ \A d \in DOMAIN exact' : ExactOf(cands', d, exact'[d])
      /\ stage' = "forms" => DOMAIN exact' = {}
      /\ stage' \in {"add", "ready"} => DOMAIN exact' = Dv /\ StateOf(exact', last', ranks')
  BY DEF LastInv, Still
<1> QED
  BY <1>1 DEF LastInv

LEMMA RestartKeeps == LastInv /\ Restart => LastInv'
<1> SUFFICES ASSUME LastInv, Restart PROVE LastInv'
  OBVIOUS
<1>1. /\ stage' = "add" /\ cands' = cands /\ exact' = exact /\ fill' = fill
      /\ ranks' = [d \in Dv |-> 0] /\ last' = Empty
  BY DEF Restart
<1>2. fill = NoFill /\ DOMAIN exact = Dv
  BY DEF Restart, LastInv
<1>3. StateOf(exact, last', ranks')
  <2>1. PICK at : at = Empty
    OBVIOUS
  <2>2. at.alive = [d \in Dv |-> at.alive[d]]
    BY <2>1 DEF Empty
  <2>3. ASSUME NEW d \in Dv PROVE SeenOf(exact[d], at.seen[d]) /\ at.alive[d] = AliveBy(exact[d], at.seen[d], 0)
    BY <2>1, EmptyIs
  <2> QED
    BY <1>1, <2>1, <2>2, <2>3 DEF StateOf, Accounted
<1>4. Still
  BY <1>1 DEF Still
<1> QED
  BY <1>1, <1>2, <1>3, <1>4, StillKeeps

LEMMA GainedAre ==
  ASSUME LastInv, NEW c \in cands, NEW forests
  PROVE  Gained(forests, c) \in SUBSET Dv /\ \A d \in Gained(forests, c) : d \in c.dvs
BY DEF LastInv, Gained

LEMMA AddKeeps == ASSUME LastInv, NEW c \in cands, Add(c) PROVE LastInv'
<1> DEFINE gained == Gained(live, c)
<1>1. /\ stage = "add" /\ stage' = "add" /\ cands' = cands /\ exact' = exact /\ fill' = fill
      /\ ranks' = PlusGained(ranks, gained) /\ last' = Put(last, gained, c, ranks')
  BY DEF Add
<1>2. fill = NoFill /\ DOMAIN exact = Dv /\ StateOf(exact, last, ranks)
  BY <1>1 DEF LastInv
<1>3. gained \in SUBSET Dv /\ \A d \in gained : d \in c.dvs
  BY GainedAre
<1> HIDE DEF gained
<1>4. StateOf(exact, last', ranks')
  <2>1. /\ last'.alive = [d \in Dv |-> IF d \in gained THEN AliveOf(last'.seen[d], d, ranks'[d])
                                       ELSE last.alive[d]]
        /\ \A d \in Dv : last'.seen[d] = IF d \in gained THEN SeenAfter(last.seen[d], d, c) ELSE last.seen[d]
    BY <1>1 DEF Put
  <2>2. ASSUME NEW d \in Dv
        PROVE  SeenOf(exact[d], last'.seen[d]) /\ last'.alive[d] = AliveBy(exact[d], last'.seen[d], ranks'[d])
    <3>1. SeenOf(exact[d], last.seen[d]) /\ last.alive[d] = AliveBy(exact[d], last.seen[d], ranks[d])
      BY <1>2 DEF StateOf, Accounted
    <3>2. CASE d \in gained
      <4>1. ExactOf(cands, d, exact[d])
        BY <1>2 DEF LastInv
      <4>2. SeenOf(exact[d], SeenAfter(last.seen[d], d, c))
        BY <1>3, <3>1, <3>2, <4>1, AfterIs
      <4> QED
        BY <2>1, <3>2, <4>2, AliveIs
    <3>3. CASE d \notin gained
      <4>1. ranks'[d] = ranks[d]
        BY <1>1, <3>3 DEF PlusGained
      <4> QED
        BY <2>1, <3>1, <3>3, <4>1
    <3> QED
      BY <3>2, <3>3
  <2>3. last'.alive = [d \in Dv |-> last'.alive[d]]
    BY <2>1
  <2> QED
    BY <2>2, <2>3 DEF StateOf, Accounted
<1>5. Still
  BY <1>1 DEF Still
<1> QED
  BY <1>1, <1>2, <1>4, <1>5, StillKeeps

LEMMA AddEndsKeeps == LastInv /\ AddEnds => LastInv'
<1> SUFFICES ASSUME LastInv, AddEnds PROVE LastInv'
  OBVIOUS
<1>1. /\ stage = "add" /\ stage' = "ready" /\ cands' = cands /\ exact' = exact /\ fill' = fill
      /\ ranks' = ranks
      /\ last' = [seen |-> last.seen, alive |-> last.alive, totals |-> TotalsOf(last.alive)]
  BY DEF AddEnds, Totalled
<1>2. fill = NoFill /\ DOMAIN exact = Dv /\ StateOf(exact, last, ranks)
  BY <1>1 DEF LastInv
<1>3. StateOf(exact, last', ranks')
  BY <1>1, <1>2 DEF StateOf
<1>4. Still
  BY <1>1 DEF Still
<1> QED
  BY <1>1, <1>2, <1>3, <1>4, StillKeeps

LEMMA BeginFillKeeps == LastInv /\ BeginFill => LastInv'
<1> SUFFICES ASSUME LastInv, BeginFill PROVE LastInv'
  OBVIOUS
<1>1. /\ stage = "ready" /\ stage' = stage /\ cands' = cands /\ exact' = exact
      /\ last' = last /\ ranks' = ranks
      /\ fill'.ranks = ranks /\ fill'.last = [d \in {} |-> << >>]
      /\ fill'.totals = last.totals /\ fill'.means = Means(last.alive)
  BY DEF BeginFill
<1>2. DOMAIN exact = Dv /\ StateOf(exact, last, ranks) /\ last.totals = TotalsOf(last.alive)
  BY <1>1 DEF LastInv
<1>3. \A d : At(d)' = [seen |-> last.seen[d], alive |-> last.alive[d]]
  BY <1>1 DEF At
<1>4. StandsAt' = last.alive
  <2>1. StandsAt' = [d \in Dv |-> last.alive[d]]
    BY <1>3 DEF StandsAt
  <2> QED
    BY <1>2, <2>1 DEF StateOf
<1>5. ASSUME NEW d \in Dv PROVE Accounted(exact[d], At(d)', fill'.ranks[d])
  BY <1>1, <1>2, <1>3 DEF StateOf
<1>6. FillFollows'
  BY <1>1, <1>2, <1>4, <1>5 DEF FillFollows
<1>7. Still
  BY <1>1 DEF Still
<1> QED
  BY <1>1, <1>2, <1>6, <1>7, StillKeeps

LEMMA PickKeeps == ASSUME LastInv, NEW c \in cands, Pick(c) PROVE LastInv'
<1> DEFINE gained == Gained(fill.trial, c)
           rs == PlusGained(fill.ranks, gained)
           after == AfterPick(gained, c, rs)
<1>1. /\ stage = "ready" /\ stage' = stage /\ cands' = cands /\ exact' = exact
      /\ last' = last /\ ranks' = ranks /\ fill # NoFill
      /\ fill'.ranks = rs /\ fill'.totals = Swapped(fill.totals, after)
      /\ fill'.last = [d \in gained \cup DOMAIN fill.last |-> IF d \in gained THEN after[d] ELSE fill.last[d]]
      /\ fill'.means = [d \in Dv |-> IF d \in gained THEN Mean(after[d].alive) ELSE fill.means[d]]
  BY DEF Pick
<1>2. DOMAIN exact = Dv /\ StateOf(exact, last, ranks) /\ last.totals = TotalsOf(last.alive) /\ FillFollows
  BY <1>1 DEF LastInv
<1>3. gained \in SUBSET Dv /\ \A d \in gained : d \in c.dvs
  BY GainedAre
<1> HIDE DEF gained
<1>4. /\ DOMAIN after = gained
      /\ \A d \in gained : after[d] = [seen |-> SeenAfter(At(d).seen, d, c),
                                       alive |-> AliveAfter(At(d).seen, d, c, rs[d])]
  BY DEF AfterPick
<1> HIDE DEF after
<1>5. \A d : At(d)' = IF d \in gained THEN after[d] ELSE At(d)
  BY <1>1 DEF At
<1>6. StandsAt' = StandsAfter(gained, after)
  <2>1. \A d \in Dv : At(d)'.alive = IF d \in gained THEN after[d].alive ELSE At(d).alive
    BY <1>5
  <2> QED
    BY <2>1 DEF StandsAt, StandsAfter
<1>7. fill'.totals = TotalsOf(StandsAt')
  <2>1. fill.totals = TotalsOf(StandsAt)
    BY <1>2 DEF FillFollows
  <2>2. Swapped(TotalsOf(StandsAt), after) = TotalsOf(StandsAfter(DOMAIN after, after))
    BY <1>3, <1>4, SwappedFollows
  <2> QED
    BY <1>1, <1>4, <1>6, <2>1, <2>2
<1>8. fill'.means = Means(StandsAt')
  <2>1. \A d \in Dv : fill.means[d] = Mean(At(d).alive)
    BY <1>2 DEF FillFollows, Means, StandsAt
  <2>2. \A d \in Dv : StandsAt'[d] = IF d \in gained THEN after[d].alive ELSE At(d).alive
    BY <1>6 DEF StandsAfter
  <2>3. \A d \in Dv : fill'.means[d] = Mean(StandsAt'[d])
    BY <1>1, <2>1, <2>2
  <2>4. fill'.means = [d \in Dv |-> fill'.means[d]]
    BY <1>1
  <2> QED
    BY <2>3, <2>4 DEF Means
<1>9. ASSUME NEW d \in Dv PROVE Accounted(exact[d], At(d)', rs[d])
  <2>1. Accounted(exact[d], At(d), fill.ranks[d])
    BY <1>2 DEF FillFollows
  <2>2. CASE d \in gained
    <3>1. ExactOf(cands, d, exact[d]) /\ SeenOf(exact[d], At(d).seen) /\ d \in c.dvs
      BY <1>2, <1>3, <2>1, <2>2 DEF LastInv, Accounted
    <3>2. /\ SeenOf(exact[d], SeenAfter(At(d).seen, d, c))
          /\ AliveAfter(At(d).seen, d, c, rs[d]) = AliveBy(exact[d], SeenAfter(At(d).seen, d, c), rs[d])
      BY <3>1, AfterIs
    <3> QED
      BY <1>4, <1>5, <2>2, <3>2 DEF Accounted
  <2>3. CASE d \notin gained
    <3>1. rs[d] = fill.ranks[d]
      BY <2>3 DEF PlusGained
    <3> QED
      BY <1>5, <2>1, <2>3, <3>1
  <2> QED
    BY <2>2, <2>3
<1>10. FillFollows'
  BY <1>1, <1>7, <1>8, <1>9 DEF FillFollows
<1>11. Still
  BY <1>1 DEF Still
<1> QED
  BY <1>1, <1>2, <1>10, <1>11, StillKeeps

LEMMA DropKeeps == LastInv /\ Drop => LastInv'
<1> SUFFICES ASSUME LastInv, Drop PROVE LastInv'
  OBVIOUS
<1>1. /\ stage = "ready" /\ stage' = stage /\ cands' = cands /\ exact' = exact
      /\ last' = last /\ ranks' = ranks /\ fill' = NoFill
  BY DEF Drop
<1>2. DOMAIN exact = Dv /\ StateOf(exact, last, ranks) /\ last.totals = TotalsOf(last.alive)
  BY <1>1 DEF LastInv
<1>3. Still
  BY <1>1 DEF Still
<1>4. ~(fill # NoFill)'
  BY <1>1 DEF NoFill
<1> QED
  BY <1>1, <1>2, <1>3, <1>4, StillKeeps

LEMMA CommitKeeps == LastInv /\ Commit => LastInv'
<1> SUFFICES ASSUME LastInv, Commit PROVE LastInv'
  OBVIOUS
<1>1. /\ stage = "ready" /\ stage' = stage /\ cands' = cands /\ exact' = exact
      /\ fill # NoFill /\ fill' = NoFill /\ ranks' = fill.ranks
      /\ last' = [seen |-> [d \in Dv |-> At(d).seen], alive |-> [d \in Dv |-> At(d).alive],
                  totals |-> TotalsOf([d \in Dv |-> At(d).alive])]
  BY DEF Commit, Totalled
<1>2. DOMAIN exact = Dv /\ FillFollows
  BY <1>1 DEF LastInv
<1>3. StateOf(exact, last', ranks')
  <2>1. \A d \in Dv : Accounted(exact[d], At(d), fill.ranks[d])
    BY <1>2 DEF FillFollows
  <2>2. \A d \in Dv : last'.seen[d] = At(d).seen /\ last'.alive[d] = At(d).alive
    BY <1>1
  <2>3. last'.alive = [d \in Dv |-> last'.alive[d]]
    BY <1>1
  <2> QED
    BY <1>1, <2>1, <2>2, <2>3 DEF StateOf, Accounted
<1>4. last'.totals = TotalsOf(last'.alive)
  BY <1>1
<1>5. Still
  BY <1>1 DEF Still
<1>6. ~(fill # NoFill)'
  BY <1>1 DEF NoFill
<1> QED
  BY <1>1, <1>2, <1>3, <1>4, <1>5, <1>6, StillKeeps

LEMMA ReportKeeps == LastInv /\ Report => LastInv'
<1> SUFFICES ASSUME LastInv, Report PROVE LastInv'
  OBVIOUS
<1>1. /\ stage' = "report" /\ cands' = cands /\ exact' = exact /\ fill = NoFill /\ fill' = fill
      /\ last' = LastOf(prefix)
  BY DEF Report
<1>2. last'.totals = TotalsOf(last'.alive)
  <2>1. \E at : LastOf(prefix) = Totalled(at)
    BY Zenon DEF LastOf
  <2>2. PICK at : last' = [seen |-> at.seen, alive |-> at.alive, totals |-> TotalsOf(at.alive)]
    BY <1>1, <2>1 DEF Totalled
  <2> QED
    BY <2>2
<1>3. Still
  BY <1>1 DEF Still
<1> QED
  BY <1>1, <1>2, <1>3, StillKeeps

LEMMA NextLast == LastInv /\ [LastNext]_lastVars => LastInv'
<1> SUFFICES ASSUME LastInv, [LastNext]_lastVars PROVE LastInv'
  OBVIOUS
<1>1. CASE MakeForms
  BY <1>1, FormsKeep
<1>2. CASE New
  BY <1>2, NewKeeps
<1>3. CASE Restart
  BY <1>3, RestartKeeps
<1>4. ASSUME NEW c \in cands, Add(c) PROVE LastInv'
  BY <1>4, AddKeeps
<1>5. ASSUME NEW c \in cands, Pick(c) PROVE LastInv'
  BY <1>5, PickKeeps
<1>6. CASE AddEnds
  BY <1>6, AddEndsKeeps
<1>7. CASE BeginFill
  BY <1>7, BeginFillKeeps
<1>8. CASE Drop
  BY <1>8, DropKeeps
<1>9. CASE Commit
  BY <1>9, CommitKeeps
<1>10. CASE Report
  BY <1>10, ReportKeeps
<1>11. CASE UNCHANGED lastVars
  <2>1. /\ stage' = stage /\ cands' = cands /\ exact' = exact /\ last' = last /\ ranks' = ranks
        /\ fill' = fill
    BY <1>11 DEF lastVars
  <2>2. (fill # NoFill)' <=> fill # NoFill
    BY <2>1
  <2>3. \A d : At(d)' = At(d)
    BY <2>1 DEF At
  <2>4. StandsAt' = StandsAt
    BY <2>3 DEF StandsAt
  <2>5. FillFollows => FillFollows'
    BY <2>1, <2>3, <2>4 DEF FillFollows
  <2>6. LastInv'
    BY <2>1, <2>2, <2>5 DEF LastInv
  <2> QED
    BY <2>6
<1>12. CASE LastDone
  BY <1>11, <1>12 DEF LastDone
<1> QED
  BY <1>1, <1>2, <1>3, <1>4, <1>5, <1>6, <1>7, <1>8, <1>9, <1>10, <1>11, <1>12 DEF LastNext

(* What a fill or a state has moved on with each condition is what comes   *)
(* out from the start, for any published conditions, block and table size. *)
THEOREM SpecTotalsFollow == LastSpec => []TotalsFollow
<1>1. LastInv => TotalsFollow
  <2> SUFFICES ASSUME LastInv PROVE TotalsFollow
    OBVIOUS
  <2>1. ASSUME fill # NoFill
        PROVE  /\ fill.totals = TotalsOf([d \in Dv |-> At(d).alive])
               /\ fill.means = Means([d \in Dv |-> At(d).alive])
               /\ \A d \in Dv : [e \in Dv |-> At(e).alive][d] = AliveOf(At(d).seen, d, fill.ranks[d])
    <3>1. FillFollows
      BY <2>1 DEF LastInv
    <3>2. ASSUME NEW d \in Dv PROVE At(d).alive = AliveOf(At(d).seen, d, fill.ranks[d])
      BY <3>1, AliveIs DEF FillFollows, Accounted
    <3> QED
      BY <3>1, <3>2 DEF FillFollows, StandsAt
  <2> QED
    BY <2>1 DEF LastInv, TotalsFollow
<1> QED
  BY <1>1, InitLast, NextLast, PTL DEF LastSpec
=============================================================================
