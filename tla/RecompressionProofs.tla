------------------------ MODULE RecompressionProofs ------------------------
(***************************************************************************)
(* Proofs about testing a candidate, for any words with the laws Steps     *)
(* names, any schedule, difference, state and chaining value: the way back *)
(* finds the partner's own compression, and the hardware's way forward     *)
(* asks the same question.  And about the macro programs it is written in: *)
(* the names they are given always spell the state.                        *)
(***************************************************************************)
EXTENDS Recompression, Rounds, TLAPS

LEMMA TermType ==
  ASSUME NEW q \in 0 .. 3, NEW x \in Word, NEW y \in Word, NEW z \in Word
  PROVE  Term(q, x, y, z) \in Word
<1>1. ch(x, y, z) \in Word /\ parity(x, y, z) \in Word /\ maj(x, y, z) \in Word
  BY WordAssumption DEF ch, parity, maj
<1>2. K[q] \in Word
  BY WordAssumption
<1>3. \A f \in Word : Plus(f, K[q]) \in Word
  BY <1>2, WordAssumption
<1> QED BY <1>1, <1>3 DEF Term

LEMMA AddedType ==
  ASSUME NEW q \in 0 .. 3, NEW a \in Word, NEW x \in Word, NEW y \in Word,
         NEW z \in Word, NEW w \in Word
  PROVE  Added(q, a, x, y, z, w) \in Word
<1>1. Rol(5, a) \in Word
  BY WordAssumption
<1>2. Term(q, x, y, z) \in Word
  BY TermType
<1> QED BY <1>1, <1>2, WordAssumption DEF Added

LEMMA Quarter ==
  ASSUME NEW t \in 0 .. 79
  PROVE  t \div 20 \in 0 .. 3
BY SMT

LEMMA StepType ==
  ASSUME NEW t \in 0 .. 79, NEW s \in State, NEW w \in Word
  PROVE  Step(t, s, w) \in State /\ Unstep(t, s, w) \in State
<1> DEFINE q == t \div 20
<1>1. q \in 0 .. 3
  BY Quarter
<1> HIDE DEF q
<1>2. s[1] \in Word /\ s[2] \in Word /\ s[3] \in Word /\ s[4] \in Word
      /\ s[5] \in Word
  BY DEF State
<1>3. Rol(30, s[2]) \in Word /\ Ror(30, s[3]) \in Word
  BY <1>2, WordAssumption
<1>4. /\ Added(q, s[1], s[2], s[3], s[4], w) \in Word
      /\ Added(q, s[2], Ror(30, s[3]), s[4], s[5], w) \in Word
  BY <1>1, <1>2, <1>3, AddedType
<1>5. /\ Plus(s[5], Added(q, s[1], s[2], s[3], s[4], w)) \in Word
      /\ Minus(s[1], Added(q, s[2], Ror(30, s[3]), s[4], s[5], w)) \in Word
  BY <1>2, <1>4, WordAssumption
<1> QED BY <1>2, <1>3, <1>5 DEF Step, Unstep, State, q

(* A step can be undone, and an undone step done again.                    *)
LEMMA StepInverse ==
  ASSUME NEW t \in 0 .. 79, NEW s \in State, NEW w \in Word
  PROVE  /\ Unstep(t, Step(t, s, w), w) = s
         /\ Step(t, Unstep(t, s, w), w) = s
<1> DEFINE q == t \div 20
           up == Added(q, s[1], s[2], s[3], s[4], w)
           down == Added(q, s[2], Ror(30, s[3]), s[4], s[5], w)
<1>1. q \in 0 .. 3
  BY Quarter
<1>2. /\ s[1] \in Word /\ s[2] \in Word /\ s[3] \in Word /\ s[4] \in Word
      /\ s[5] \in Word /\ s = <<s[1], s[2], s[3], s[4], s[5]>>
  BY DEF State
<1>3. /\ Ror(30, Rol(30, s[2])) = s[2] /\ Rol(30, Ror(30, s[3])) = s[3]
      /\ Ror(30, s[3]) \in Word
  BY <1>2, WordAssumption
<1>4. up \in Word /\ down \in Word
  BY <1>1, <1>2, <1>3, AddedType
<1>5. Step(t, s, w) = <<Plus(s[5], up), s[1], Rol(30, s[2]), s[3], s[4]>>
  BY DEF Step
<1>6. Unstep(t, s, w)
        = <<s[2], Ror(30, s[3]), s[4], s[5], Minus(s[1], down)>>
  BY DEF Unstep
<1>7. Unstep(t, <<Plus(s[5], up), s[1], Rol(30, s[2]), s[3], s[4]>>, w)
        = <<s[1], s[2], s[3], s[4], Minus(Plus(s[5], up), up)>>
  BY <1>3 DEF Unstep
<1>8. Step(t, <<s[2], Ror(30, s[3]), s[4], s[5], Minus(s[1], down)>>, w)
        = <<Plus(Minus(s[1], down), down), s[2], s[3], s[4], s[5]>>
  BY <1>3 DEF Step
<1> HIDE DEF up, down
<1>9. Minus(Plus(s[5], up), up) = s[5] /\ Plus(Minus(s[1], down), down) = s[1]
  BY <1>2, <1>4, WordAssumption
<1> QED BY <1>2, <1>5, <1>6, <1>7, <1>8, <1>9

(* Only one chaining value, added to the state at 80, gives this output.   *)
LEMMA FeedForward ==
  ASSUME NEW s \in State, NEW r \in State, NEW out \in State
  PROVE  /\ Sum(s, r) \in State /\ Difference(out, r) \in State
         /\ Difference(out, r) = s <=> Sum(s, r) = out
<1>1. \A x, y \in Word : Plus(x, y) \in Word /\ Minus(x, y) \in Word
  BY WordAssumption
<1>2. \A x, y, z \in Word : Minus(z, y) = x <=> Plus(x, y) = z
  BY WordAssumption
<1>3. \A k \in 1 .. 5 : s[k] \in Word /\ r[k] \in Word /\ out[k] \in Word
  BY DEF State
<1>4. s = <<s[1], s[2], s[3], s[4], s[5]>>
      /\ out = <<out[1], out[2], out[3], out[4], out[5]>>
  BY DEF State
<1>5. Sum(s, r) \in State /\ Difference(out, r) \in State
  BY <1>1, <1>3 DEF Sum, Difference, State
<1>6. \A k \in 1 .. 5 : Minus(out[k], r[k]) = s[k] <=> Plus(s[k], r[k]) = out[k]
  BY <1>2, <1>3
<1>7. Difference(out, r) = s <=> Sum(s, r) = out
  BY <1>4, <1>6 DEF Sum, Difference
<1> QED BY <1>5, <1>7
-----------------------------------------------------------------------------
LEMMA CandidateType ==
  ASSUME c \in Candidates
  PROVE  /\ c.step \in {58, 65} /\ c.state \in State
         /\ c.chaining_out \in State /\ Boundary \in {60, 64}
         /\ \A t \in 0 .. 79 : Partner(t) \in Word
<1>1. /\ c.step \in {58, 65} /\ c.m1 \in Words /\ c.dm \in Words
      /\ c.state \in State /\ c.chaining_out \in State
  BY CandidatesAssumption
<1>2. \A t \in 0 .. 79 : Partner(t) \in Word
  BY <1>1, WordAssumption DEF Words, Partner
<1> QED BY <1>1, <1>2 DEF Boundary

LEMMA InitIInv == Init => IInv
<1> SUFFICES ASSUME Init PROVE IInv
  OBVIOUS
<1>2. /\ c \in Candidates /\ c.step \in {58, 65} /\ c.state \in State
  BY CandidateType DEF Init
<1>3. c.step \in 0 .. c.step /\ c.step \in c.step .. 80 /\ c.step \in 0 .. 80
  BY <1>2
<1>4. [t \in 0 .. 80 |-> c.state] \in [0 .. 80 -> State]
  BY <1>2
<1>1. TypeOK
  BY <1>2, <1>3, <1>4 DEF Init, TypeOK, Phases
<1> QED BY <1>1, CandidateType
        DEF Init, IInv, IsRun, BoundaryOnTheWay, SameTest

(* The steps of the first test.                                            *)
LEMMA BackIInv == IInv /\ Back => IInv'
<1> SUFFICES ASSUME IInv, Back PROVE IInv'
  OBVIOUS
<1> DEFINE t == back_at - 1
           s == Unstep(t, back, Partner(t))
<1>1. /\ c' = c /\ phase = "walk" /\ phase' = "walk" /\ back' = s
      /\ back_at' = t /\ forth' = forth /\ forth_at' = forth_at
      /\ trail' = [trail EXCEPT ![t] = s]
      /\ UNCHANGED <<ends, hardware>>
  BY DEF Back
<1>2. /\ back \in State /\ back_at \in 0 .. c.step /\ c.step \in {58, 65}
      /\ trail \in [0 .. 80 -> State] /\ forth_at \in c.step .. 80
      /\ \A u \in 0 .. 79 : Partner(u) \in Word
  BY CandidateType DEF IInv, TypeOK
<1>3. t \in 0 .. 79 /\ t < c.step /\ t + 1 = back_at /\ t \in 0 .. c.step
  BY <1>2 DEF Back
<1>4. s \in State /\ Step(t, s, Partner(t)) = back
  BY <1>2, <1>3, StepType, StepInverse
<1> HIDE DEF s, t
<1>5. /\ trail' \in [0 .. 80 -> State]
      /\ trail'[t] = s
      /\ \A u \in 0 .. 80 : u # t => trail'[u] = trail[u]
  BY <1>1, <1>2, <1>3, <1>4
<1>6. TypeOK'
  BY <1>1, <1>3, <1>4, <1>5 DEF IInv, TypeOK, ends, hardware
<1>7. trail'[forth_at] = forth /\ trail'[c.step] = c.state /\ trail'[t + 1] = back
  BY <1>2, <1>3, <1>5 DEF IInv
<1>8. \A u : Partner(u)' = Partner(u)
  BY <1>1 DEF Partner
<1>9. IsRun(back_at, forth_at)'
  <2> SUFFICES ASSUME NEW u \in 0 .. 79, t <= u, u < forth_at
               PROVE  trail'[u + 1] = Step(u, trail'[u], Partner(u))
    BY <1>1, <1>8 DEF IsRun
  <2>1. CASE u = t
    BY <2>1, <1>4, <1>5, <1>7
  <2>2. CASE u # t
    <3>1. back_at <= u /\ u + 1 # t /\ u + 1 \in 0 .. 80
      BY <2>2, <1>2, <1>3
    <3>2. trail[u + 1] = Step(u, trail[u], Partner(u))
      BY <3>1 DEF IInv, IsRun
    <3> QED BY <2>2, <3>1, <3>2, <1>5
  <2> QED BY <2>1, <2>2
<1> QED BY <1>1, <1>5, <1>6, <1>7, <1>9
        DEF IInv, BoundaryOnTheWay, SameTest

LEMMA ForthIInv == IInv /\ Forth => IInv'
<1> SUFFICES ASSUME IInv, Forth PROVE IInv'
  OBVIOUS
<1> DEFINE t == forth_at
           s == Step(t, forth, Partner(t))
<1>1. /\ c' = c /\ phase = "walk" /\ phase' = "walk" /\ forth' = s
      /\ forth_at' = t + 1 /\ back' = back /\ back_at' = back_at
      /\ trail' = [trail EXCEPT ![t + 1] = s]
      /\ UNCHANGED <<ends, hardware>>
  BY DEF Forth
<1>2. /\ forth \in State /\ back_at \in 0 .. c.step /\ c.step \in {58, 65}
      /\ trail \in [0 .. 80 -> State] /\ forth_at \in c.step .. 80
      /\ \A u \in 0 .. 79 : Partner(u) \in Word
  BY CandidateType DEF IInv, TypeOK
<1>3. t \in 0 .. 79 /\ t >= c.step /\ t + 1 \in c.step .. 80
  BY <1>2 DEF Forth
<1>4. s \in State
  BY <1>2, <1>3, StepType
<1>5. trail[t] = forth
  BY DEF IInv
<1>s. s = Step(t, forth, Partner(t))
  OBVIOUS
<1> HIDE DEF s, t
<1>6. /\ trail' \in [0 .. 80 -> State]
      /\ trail'[t + 1] = s
      /\ \A u \in 0 .. 80 : u # t + 1 => trail'[u] = trail[u]
  BY <1>1, <1>2, <1>3, <1>4
<1>7. TypeOK'
  BY <1>1, <1>3, <1>4, <1>6 DEF IInv, TypeOK, ends, hardware
<1>8. trail'[back_at] = back /\ trail'[c.step] = c.state
  BY <1>2, <1>3, <1>6 DEF IInv
<1>9. \A u : Partner(u)' = Partner(u)
  BY <1>1 DEF Partner
<1>10. IsRun(back_at, forth_at)'
  <2> SUFFICES ASSUME NEW u \in 0 .. 79, back_at <= u, u < t + 1
               PROVE  trail'[u + 1] = Step(u, trail'[u], Partner(u))
    BY <1>1, <1>9 DEF IsRun
  <2>1. CASE u = t
    <3>1. trail'[u] = forth
      BY <2>1, <1>3, <1>5, <1>6
    <3> QED BY <2>1, <3>1, <1>6, <1>s
  <2>2. CASE u # t
    <3>1. u < t /\ u + 1 # t + 1 /\ u # t + 1 /\ u + 1 \in 0 .. 80
      BY <2>2, <1>3
    <3>2. trail[u + 1] = Step(u, trail[u], Partner(u))
      BY <3>1 DEF IInv, IsRun, t
    <3> QED BY <3>1, <3>2, <1>6
  <2> QED BY <2>1, <2>2
<1> QED BY <1>1, <1>6, <1>7, <1>8, <1>10
        DEF IInv, BoundaryOnTheWay, SameTest

LEMMA MeetIInv == IInv /\ Meet => IInv'
<1> SUFFICES ASSUME IInv, Meet PROVE IInv'
  OBVIOUS
<1>1. /\ back \in State /\ forth \in State /\ back_at = 0 /\ forth_at = 80
  BY DEF IInv, TypeOK, Meet
<1>2. Sum(back, forth) \in State
  BY <1>1, FeedForward
<1>3. TypeOK'
  BY <1>1, <1>2 DEF IInv, TypeOK, Meet, walk, hardware, Phases
<1>4. IsRun(back_at, forth_at)'
  BY DEF IInv, IsRun, Meet, walk, Partner
<1> QED BY <1>1, <1>3, <1>4
        DEF IInv, Meet, walk, hardware, BoundaryOnTheWay, SameTest

(* partner_boundary arrives on the trail.                                  *)
LEMMA BoundaryIsOnTrail ==
  ASSUME IInv, phase # "walk"
  PROVE  PartnerBoundary(c.state) = trail[Boundary]
<1>1. /\ c.step \in {58, 65} /\ c.state \in State
      /\ \A t \in 0 .. 79 : Partner(t) \in Word
  BY CandidateType DEF IInv, TypeOK
<1>2. \A t \in 0 .. 79 : trail[t + 1] = Step(t, trail[t], Partner(t))
  BY DEF IInv, IsRun
<1>3. trail[c.step] = c.state /\ trail[64] \in State
  BY DEF IInv, TypeOK
<1>4. CASE c.step = 58
  <2>1. trail[59] = Step(58, trail[58], Partner(58))
    BY <1>2
  <2>2. trail[60] = Step(59, trail[59], Partner(59))
    BY <1>2
  <2> QED BY <1>3, <1>4, <2>1, <2>2 DEF PartnerBoundary, Boundary
<1>5. CASE c.step = 65
  <2>1. trail[65] = Step(64, trail[64], Partner(64))
    BY <1>2
  <2>2. Unstep(64, trail[65], Partner(64)) = trail[64]
    BY <1>1, <1>3, <2>1, StepInverse
  <2> QED BY <1>3, <1>5, <2>2 DEF PartnerBoundary, Boundary
<1> QED BY <1>1, <1>4, <1>5

LEMMA FindBoundaryIInv == IInv /\ FindBoundary => IInv'
<1> SUFFICES ASSUME IInv, FindBoundary PROVE IInv'
  OBVIOUS
<1>1. at' = trail[Boundary]
  BY BoundaryIsOnTrail DEF FindBoundary
<1>2. Boundary \in {60, 64} /\ Boundary' = Boundary /\ Boundary \in 0 .. 80
  BY CandidateType DEF IInv, TypeOK, FindBoundary, Boundary
<1>3. TypeOK'
  BY <1>1, <1>2 DEF IInv, TypeOK, FindBoundary, walk, ends, Phases
<1>4. IsRun(back_at, forth_at)'
  BY DEF IInv, IsRun, FindBoundary, walk, Partner
<1> QED BY <1>1, <1>2, <1>3, <1>4
        DEF IInv, FindBoundary, walk, ends, BoundaryOnTheWay, SameTest

LEMMA RunOutIInv == IInv /\ RunOut => IInv'
<1> SUFFICES ASSUME IInv, RunOut PROVE IInv'
  OBVIOUS
<1>1. /\ live_at \in 0 .. 79 /\ live_at + 1 \in 0 .. 80 /\ live \in State
      /\ Boundary \in {60, 64} /\ live_at >= Boundary
      /\ \A t \in 0 .. 79 : Partner(t) \in Word
  BY CandidateType DEF IInv, TypeOK, RunOut
<1>2. live' \in State
  BY <1>1, StepType DEF RunOut
<1>3. trail[live_at + 1] = live'
  BY <1>1 DEF IInv, IsRun, RunOut, BoundaryOnTheWay
<1>4. TypeOK'
  BY <1>1, <1>2 DEF IInv, TypeOK, RunOut, walk, ends, Phases
<1>5. IsRun(back_at, forth_at)' /\ Boundary' = Boundary
  BY DEF IInv, IsRun, RunOut, walk, Partner, Boundary
<1>6. live_at + 1 >= Boundary
  BY <1>1
<1> QED BY <1>3, <1>4, <1>5, <1>6
        DEF IInv, RunOut, walk, ends, BoundaryOnTheWay, SameTest

LEMMA TurnRoundIInv == IInv /\ TurnRound => IInv'
<1> SUFFICES ASSUME IInv, TurnRound PROVE IInv'
  OBVIOUS
<1>1. /\ back_at = 0 /\ forth_at = 80 /\ live = forth
      /\ trail[0] = back /\ forth \in State /\ c.chaining_out \in State
  BY CandidateType DEF IInv, TypeOK, TurnRound, BoundaryOnTheWay
<1>2. live' \in State
  BY <1>1, FeedForward DEF TurnRound
<1>3. TypeOK'
  BY <1>2 DEF IInv, TypeOK, TurnRound, walk, ends, Phases
<1>4. IsRun(back_at, forth_at)' /\ Boundary' = Boundary /\ 0 <= Boundary
  BY DEF IInv, IsRun, TurnRound, walk, Partner, Boundary
<1>5. live' = trail'[0] <=> Difference(c'.chaining_out, forth') = back'
  BY <1>1 DEF TurnRound, walk
<1> QED BY <1>3, <1>4, <1>5
        DEF IInv, TurnRound, walk, ends, BoundaryOnTheWay, SameTest

LEMMA RunInIInv == IInv /\ RunIn => IInv'
<1> SUFFICES ASSUME IInv, RunIn PROVE IInv'
  OBVIOUS
<1>1. /\ Boundary \in {60, 64} /\ live_at \in 0 .. 79 /\ live_at + 1 \in 0 .. 80
      /\ live \in State /\ trail[live_at] \in State
      /\ live_at + 1 <= Boundary
      /\ \A t \in 0 .. 79 : Partner(t) \in Word
  BY CandidateType DEF IInv, TypeOK, RunIn
<1>2. live' \in State
  BY <1>1, StepType DEF RunIn
<1>3. trail[live_at + 1] = Step(live_at, trail[live_at], Partner(live_at))
  BY <1>1 DEF IInv, IsRun, RunIn
<1>4. live' = trail[live_at + 1] <=> live = trail[live_at]
  BY <1>1, <1>3, StepInverse DEF RunIn
<1>5. TypeOK'
  BY <1>1, <1>2 DEF IInv, TypeOK, RunIn, walk, ends, Phases
<1>6. IsRun(back_at, forth_at)' /\ Boundary' = Boundary
  BY DEF IInv, IsRun, RunIn, walk, Partner, Boundary
<1> QED BY <1>1, <1>4, <1>5, <1>6
        DEF IInv, RunIn, walk, ends, BoundaryOnTheWay, SameTest

LEMMA CompareIInv == IInv /\ Compare => IInv'
<1> SUFFICES ASSUME IInv, Compare PROVE IInv'
  OBVIOUS
<1>1. /\ back \in State /\ forth \in State /\ c.chaining_out \in State
      /\ ihvout = Sum(back, forth) /\ at = trail[Boundary]
  BY CandidateType DEF IInv, TypeOK, Compare, BoundaryOnTheWay
<1>2. live = at <=> Difference(c.chaining_out, forth) = back
  BY <1>1 DEF IInv, Compare
<1>3. live = at <=> ihvout = c.chaining_out
  BY <1>1, <1>2, FeedForward
<1>4. TypeOK'
  BY DEF IInv, TypeOK, Compare, walk, ends, Phases
<1>5. IsRun(back_at, forth_at)' /\ Boundary' = Boundary
  BY DEF IInv, IsRun, Compare, walk, Partner, Boundary
<1> QED BY <1>3, <1>4, <1>5
        DEF IInv, Compare, walk, ends, BoundaryOnTheWay, SameTest

LEMMA NextIInv == IInv /\ [Next]_vars => IInv'
<1>1. IInv /\ UNCHANGED vars => IInv'
  BY DEF vars, walk, ends, hardware, IInv, TypeOK, IsRun, BoundaryOnTheWay,
         SameTest, Partner, Boundary
<1> QED BY <1>1, BackIInv, ForthIInv, MeetIInv, FindBoundaryIInv, RunOutIInv,
           TurnRoundIInv, RunInIInv, CompareIInv DEF Next

(* What holds at every step of the two tests.                              *)
THEOREM SpecIInv == Spec => []IInv
<1> QED BY InitIInv, NextIInv, PTL DEF Spec

(* recompression_step finds the chaining values between which compressing  *)
(* the partner passes through the stored state.                            *)
THEOREM SpecAgreesWithCompression == Spec => []AgreesWithCompression
<1>1. IInv => AgreesWithCompression
  BY DEF IInv, AgreesWithCompression
<1> QED BY <1>1, SpecIInv, PTL

(* partner_boundary is on the partner's way, and so is the way out of it.  *)
THEOREM SpecBoundaryOnTheWay == Spec => []BoundaryOnTheWay
<1>1. IInv => BoundaryOnTheWay
  BY DEF IInv
<1> QED BY <1>1, SpecIInv, PTL

(* The hardware backends' test and the way back are the same test.         *)
THEOREM SpecSameTest == Spec => []SameTest
<1>1. IInv => SameTest
  BY DEF IInv
<1> QED BY <1>1, SpecIInv, PTL

-----------------------------------------------------------------------------
(***************************************************************************)
(* The programs of macro calls.  Where a program has brought each of its   *)
(* chains decides everything about the call that may come next: its step   *)
(* and, since every step turns the names by one, the name it is given for  *)
(* A.  A sequence of calls runs from one such place to another when each   *)
(* of its calls fits the place the ones before have led to.                *)
(***************************************************************************)
Kinds == {"step", "unstep", "start", "end", "state_58", "state_65", "boundary"}
Calls == [chain : Chains, kind : Kinds, n : 0 .. 4, t : Int]
Places == [Chains -> 0 .. 80]

At(f, b) == [chain \in Chains |-> IF chain = "f" THEN f ELSE b]

(* The name that holds A when program p has brought a chain to a step.     *)
Turned(p, chain, t) == (StartsAt(p, chain) - t) % 5

Fits(p, call, place) ==
  /\ call.n = Turned(p, call.chain, place[call.chain])
  /\ call.kind = "step" => call.t = place[call.chain] /\ call.t < 80
  /\ call.kind = "unstep" => call.t = place[call.chain] - 1 /\ call.t >= 0
  /\ call.kind \notin {"step", "unstep"} =>
       place[call.chain] = BelongsAt(p, call.kind)

Moved(call, place) ==
  [place EXCEPT ![call.chain] =
     IF call.kind = "step" THEN @ + 1
     ELSE IF call.kind = "unstep" THEN @ - 1 ELSE @]

RunsThrough(p, calls, places) ==
  /\ places \in [0 .. Len(calls) -> Places]
  /\ \A i \in 1 .. Len(calls) :
       /\ Fits(p, calls[i], places[i - 1])
       /\ places[i] = Moved(calls[i], places[i - 1])

Runs(p, calls, from, to) ==
  \E places : /\ RunsThrough(p, calls, places)
              /\ places[0] = from /\ places[Len(calls)] = to

(* Two sequences of calls, one after the other.                            *)
LEMMA RunsOn ==
  ASSUME NEW p, NEW first \in Seq(Calls), NEW second \in Seq(Calls),
         NEW u, NEW v, NEW z,
         Runs(p, first, u, v), Runs(p, second, v, z)
  PROVE  first \o second \in Seq(Calls) /\ Runs(p, first \o second, u, z)
<1>1. PICK pu : RunsThrough(p, first, pu) /\ pu[0] = u /\ pu[Len(first)] = v
  BY DEF Runs
<1>2. PICK pv : RunsThrough(p, second, pv) /\ pv[0] = v /\ pv[Len(second)] = z
  BY DEF Runs
<1> DEFINE m == Len(first)
           l == Len(second)
           both == first \o second
           places == [i \in 0 .. m + l |-> IF i <= m THEN pu[i] ELSE pv[i - m]]
<1>3. m \in Nat /\ l \in Nat
  OBVIOUS
<1>4. /\ both \in Seq(Calls) /\ Len(both) = m + l
      /\ \A i \in 1 .. m + l : both[i] = IF i <= m THEN first[i] ELSE second[i - m]
  OBVIOUS
<1>5. /\ pu \in [0 .. m -> Places]
      /\ \A i \in 1 .. m : Fits(p, first[i], pu[i - 1]) /\ pu[i] = Moved(first[i], pu[i - 1])
      /\ pv \in [0 .. l -> Places]
      /\ \A i \in 1 .. l : Fits(p, second[i], pv[i - 1]) /\ pv[i] = Moved(second[i], pv[i - 1])
  BY <1>1, <1>2 DEF RunsThrough
<1> HIDE DEF m, l, both
<1>6. places \in [0 .. m + l -> Places]
  BY <1>3, <1>5
<1>7. \A i \in 0 .. m + l : places[i] = IF i <= m THEN pu[i] ELSE pv[i - m]
  OBVIOUS
<1> HIDE DEF places
<1>8. ASSUME NEW i \in 1 .. m + l
      PROVE  Fits(p, both[i], places[i - 1]) /\ places[i] = Moved(both[i], places[i - 1])
  <2>1. CASE i <= m
    <3>1. places[i] = pu[i] /\ places[i - 1] = pu[i - 1] /\ both[i] = first[i]
          /\ i \in 1 .. m
      BY <1>3, <1>4, <1>7, <2>1
    <3> QED BY <1>5, <3>1
  <2>2. CASE i > m
    <3> DEFINE k == i - m
    <3>1. k \in 1 .. l /\ both[i] = second[k] /\ places[i] = pv[k]
      BY <1>3, <1>4, <1>7, <2>2
    <3>2. places[i - 1] = pv[k - 1]
      <4>1. CASE k = 1
        <5>1. places[i - 1] = pu[m] /\ k - 1 = 0
          BY <1>3, <1>7, <4>1
        <5> QED BY <1>1, <1>2, <5>1 DEF m
      <4>2. CASE k > 1
        <5>1. ~(i - 1 <= m) /\ i - 1 \in 0 .. m + l /\ i - 1 - m = k - 1
          BY <1>3, <4>2
        <5> QED BY <1>7, <5>1
      <4> QED BY <1>3, <2>2, <4>1, <4>2
    <3> HIDE DEF k
    <3> QED BY <1>5, <3>1, <3>2
  <2> QED BY <1>3, <2>1, <2>2
<1>9. RunsThrough(p, both, places)
  BY <1>4, <1>6, <1>8 DEF RunsThrough, both
<1>10. places[0] = u /\ places[m + l] = z
  <2>1. places[0] = pu[0]
    BY <1>3, <1>7
  <2>2. CASE l = 0
    <3>1. places[m + l] = pu[m]
      BY <1>3, <1>7, <2>2
    <3> QED BY <1>1, <1>2, <2>1, <2>2, <3>1 DEF m, l
  <2>3. CASE l > 0
    <3>1. places[m + l] = pv[l]
      <4>1. PICK j \in 0 .. m + l : j = m + l
        BY <1>3
      <4>2. ~(j <= m) /\ j - m = l
        BY <1>3, <2>3, <4>1
      <4>3. places[j] = pv[j - m]
        BY <1>7, <4>2
      <4> QED BY <4>1, <4>2, <4>3
    <3> QED BY <1>1, <1>2, <2>1, <3>1 DEF l
  <2> QED BY <1>3, <2>2, <2>3
<1>11. Runs(p, both, u, z)
  BY <1>4, <1>9, <1>10 DEF Runs, both
<1> QED BY <1>4, <1>11 DEF both

(* The first of some calls, and the rest of them.                          *)
LEMMA RunsFirst ==
  ASSUME NEW p, NEW calls \in Seq(Calls), calls # << >>, NEW u, NEW z,
         Runs(p, calls, u, z)
  PROVE  /\ calls[1] \in Calls /\ Tail(calls) \in Seq(Calls)
         /\ u \in Places /\ Fits(p, calls[1], u)
         /\ Moved(calls[1], u) \in Places
         /\ Runs(p, Tail(calls), Moved(calls[1], u), z)
<1>1. PICK pu : RunsThrough(p, calls, pu) /\ pu[0] = u /\ pu[Len(calls)] = z
  BY DEF Runs
<1> DEFINE m == Len(calls)
           rest == Tail(calls)
           places == [i \in 0 .. m - 1 |-> pu[i + 1]]
<1>2. /\ m \in Nat /\ m > 0 /\ rest \in Seq(Calls) /\ Len(rest) = m - 1
      /\ \A i \in 1 .. m - 1 : rest[i] = calls[i + 1]
      /\ calls[1] \in Calls
  OBVIOUS
<1>3. /\ pu \in [0 .. m -> Places]
      /\ \A i \in 1 .. m : Fits(p, calls[i], pu[i - 1]) /\ pu[i] = Moved(calls[i], pu[i - 1])
  BY <1>1 DEF RunsThrough
<1> HIDE DEF m, rest
<1>4. places \in [0 .. m - 1 -> Places] /\ places[0] = pu[1] /\ places[m - 1] = pu[m]
  BY <1>2, <1>3
<1>5. \A i \in 1 .. m - 1 : places[i - 1] = pu[i] /\ places[i] = pu[i + 1]
  BY <1>2
<1>6. \A i \in 1 .. m - 1 : i + 1 \in 1 .. m /\ i + 1 - 1 = i
  BY <1>2
<1> HIDE DEF places
<1>7. ASSUME NEW i \in 1 .. m - 1
      PROVE  Fits(p, rest[i], places[i - 1]) /\ places[i] = Moved(rest[i], places[i - 1])
  BY <1>2, <1>3, <1>5, <1>6
<1>8. RunsThrough(p, rest, places)
  BY <1>2, <1>4, <1>7 DEF RunsThrough
<1>9. /\ Fits(p, calls[1], pu[0]) /\ pu[1] = Moved(calls[1], pu[0])
      /\ pu[0] \in Places /\ pu[1] \in Places
  BY <1>2, <1>3
<1>10. Runs(p, rest, Moved(calls[1], u), z)
  BY <1>1, <1>2, <1>4, <1>8, <1>9 DEF Runs, m
<1> QED BY <1>1, <1>2, <1>9, <1>10 DEF rest

(* One call.                                                               *)
LEMMA RunsOnce ==
  ASSUME NEW p, NEW call \in Calls, NEW u \in Places, Fits(p, call, u)
  PROVE  /\ <<call>> \in Seq(Calls) /\ Moved(call, u) \in Places
         /\ Runs(p, <<call>>, u, Moved(call, u))
<1> DEFINE v == Moved(call, u)
           places == [i \in 0 .. 1 |-> IF i = 0 THEN u ELSE v]
<1>1. u[call.chain] \in 0 .. 80 /\ call.chain \in Chains
  BY DEF Places, Calls
<1>2. v \in Places
  <2> DEFINE chain == call.chain
             to == IF call.kind = "step" THEN u[chain] + 1
                   ELSE IF call.kind = "unstep" THEN u[chain] - 1 ELSE u[chain]
  <2>1. to \in 0 .. 80
    BY <1>1 DEF Fits
  <2>2. v = [u EXCEPT ![chain] = to]
    BY <1>1 DEF Moved, Places
  <2> HIDE DEF to, chain
  <2> QED BY <2>1, <2>2 DEF Places
<1> HIDE DEF v
<1>3. <<call>> \in Seq(Calls) /\ Len(<<call>>) = 1 /\ <<call>>[1] = call
  OBVIOUS
<1>4. places \in [0 .. 1 -> Places] /\ places[0] = u /\ places[1] = v
  BY <1>2
<1> HIDE DEF places
<1>5. RunsThrough(p, <<call>>, places)
  <2>1. ASSUME NEW i \in 1 .. 1
        PROVE  i = 1 /\ i - 1 = 0
    OBVIOUS
  <2>2. v = Moved(call, u)
    BY DEF v
  <2> QED BY <1>3, <1>4, <2>1, <2>2 DEF RunsThrough
<1>6. Runs(p, <<call>>, u, v)
  BY <1>3, <1>4, <1>5 DEF Runs
<1> QED BY <1>2, <1>3, <1>6 DEF v

-----------------------------------------------------------------------------
(* What a call in its place does with the places.                          *)
LEMMA StepFits ==
  ASSUME NEW p, NEW f \in Int, NEW g \in Int, NEW b, NEW call, f < 80,
         call.chain = "f", call.kind = "step", call.t = f, g = f + 1,
         call.n = Turned(p, "f", f)
  PROVE  Fits(p, call, At(f, b)) /\ Moved(call, At(f, b)) = At(g, b)
<1>1. At(f, b)["f"] = f
  BY DEF At, Chains
<1>2. Fits(p, call, At(f, b))
  BY <1>1 DEF Fits
<1>3. [At(f, b) EXCEPT !["f"] = f + 1] = At(g, b)
  BY DEF At, Chains
<1> QED BY <1>1, <1>2, <1>3 DEF Moved

LEMMA UnstepFits ==
  ASSUME NEW p, NEW f, NEW b \in Int, NEW g \in Int, NEW call, b > 0,
         call.chain = "b", call.kind = "unstep", call.t = b - 1, g = b - 1,
         call.n = Turned(p, "b", b)
  PROVE  Fits(p, call, At(f, b)) /\ Moved(call, At(f, b)) = At(f, g)
<1>1. At(f, b)["b"] = b
  BY DEF At, Chains
<1>2. Fits(p, call, At(f, b))
  BY <1>1 DEF Fits
<1>3. [At(f, b) EXCEPT !["b"] = b - 1] = At(f, g)
  BY DEF At, Chains
<1> QED BY <1>1, <1>2, <1>3 DEF Moved

LEMMA AtType ==
  ASSUME NEW f \in 0 .. 80, NEW b \in 0 .. 80
  PROVE  At(f, b) \in Places
BY DEF At, Places

LEMMA CallType ==
  ASSUME NEW chain \in Chains, NEW kind \in Kinds, NEW n \in Int, NEW t \in Int,
         NEW call, call = Call(chain, kind, n, t)
  PROVE  /\ call \in Calls
         /\ call.chain = chain /\ call.kind = kind /\ call.n = n % 5 /\ call.t = t
<1> DEFINE m == n % 5
<1>1. m \in 0 .. 4
  OBVIOUS
<1> HIDE DEF m
<1>2. call = [chain |-> chain, kind |-> kind, n |-> m, t |-> t]
  BY DEF Call, m
<1>3. [chain |-> chain, kind |-> kind, n |-> m, t |-> t] \in Calls
  BY <1>1 DEF Calls
<1> QED BY <1>2, <1>3 DEF m

LEMMA IsSeq ==
  ASSUME NEW S, NEW l \in Nat, NEW s, s = [j \in 1 .. l |-> s[j]],
         \A j \in 1 .. l : s[j] \in S
  PROVE  s \in Seq(S) /\ Len(s) = l
OBVIOUS

(* Whole turns do not change the names.                                    *)
LEMMA SameTurn ==
  ASSUME NEW x \in Int, NEW y \in Int, NEW k \in Int, x = y + 5 * k
  PROVE  x % 5 = y % 5
OBVIOUS

(* The turns of a program.  Five names turn one place a step, so that a    *)
(* chain is back at the same name for every turn.                          *)
LEMMA FivesRun ==
  ASSUME NEW p, NEW n \in 0 .. 4, NEW from \in 0 .. 80, NEW to \in 0 .. 80,
         NEW b \in 0 .. 80, StartsAt(p, "f") \in Int,
         from <= to, n = Turned(p, "f", from)
  PROVE  /\ Fives("f", n, from, to) \in Seq(Calls)
         /\ Runs(p, Fives("f", n, from, to), At(from, b), At(to, b))
<1> DEFINE calls == Fives("f", n, from, to)
           m == to - from
           places == [i \in 0 .. m |-> At(from + i, b)]
           start == StartsAt(p, "f")
<1>0. m \in Nat
  OBVIOUS
<1>1. ASSUME NEW i \in 1 .. m
      PROVE  /\ calls[i] \in Calls /\ calls[i].chain = "f" /\ calls[i].kind = "step"
             /\ calls[i].n = (n - (i - 1)) % 5 /\ calls[i].t = from + (i - 1)
  <2> DEFINE k == (i - 1) \div 5
             r == (i - 1) % 5
             nn == n + 6 - (1 + r)
             tt == from + 5 * k + (1 + r) - 1
  <2>1. r \in 0 .. 4 /\ k \in Nat /\ i - 1 = 5 * k + r /\ 1 + r \in 1 .. 5
    BY <1>0
  <2>2. calls[i] = Five("f", n, from + 5 * k)[1 + r]
    BY DEF Fives
  <2> HIDE DEF k, r
  <2>3. calls[i] = Call("f", "step", nn, tt)
    BY <2>1, <2>2 DEF Five
  <2>4. nn % 5 = (n - (i - 1)) % 5 /\ tt = from + (i - 1) /\ nn \in Int /\ tt \in Int
    BY <2>1
  <2>5. "f" \in Chains /\ "step" \in Kinds
    BY DEF Chains, Kinds
  <2> HIDE DEF nn, tt, calls
  <2>6. PICK call : call = calls[i]
    OBVIOUS
  <2>7. /\ call \in Calls /\ call.chain = "f" /\ call.kind = "step"
        /\ call.n = nn % 5 /\ call.t = tt
    <3>1. call = Call("f", "step", nn, tt) /\ nn \in Int /\ tt \in Int
      BY <2>3, <2>4, <2>6
    <3> QED BY ONLY <2>5, <3>1, CallType
  <2> QED BY <2>4, <2>6, <2>7
<1>2. Len(calls) = m /\ calls \in Seq(Calls)
  <2>1. calls = [i \in 1 .. m |-> calls[i]]
    BY DEF Fives
  <2>2. \A i \in 1 .. m : calls[i] \in Calls
    BY <1>1
  <2> HIDE DEF calls, m
  <2> QED BY <1>0, <2>1, <2>2
<1> HIDE DEF calls
<1>3. \A i \in 0 .. m : places[i] = At(from + i, b) /\ from + i \in 0 .. 80
  BY <1>0
<1>5. places \in [0 .. m -> Places]
  BY <1>3, AtType
<1> HIDE DEF places
<1>6. ASSUME NEW i \in 1 .. m
      PROVE  Fits(p, calls[i], places[i - 1]) /\ places[i] = Moved(calls[i], places[i - 1])
  <2>1. PICK t \in 0 .. 79 : t = from + (i - 1)
    BY <1>0
  <2>2. places[i - 1] = At(t, b) /\ places[i] = At(t + 1, b)
    <3>1. i - 1 \in 0 .. m /\ i \in 0 .. m /\ from + i = t + 1
      BY <1>0, <2>1
    <3> QED BY <1>3, <2>1, <3>1
  <2>3. Turned(p, "f", t) = (n - (i - 1)) % 5
    BY <1>0, <2>1 DEF Turned
  <2>4. PICK call : call = calls[i]
    OBVIOUS
  <2>5. /\ call.chain = "f" /\ call.kind = "step" /\ call.t = t
        /\ call.n = Turned(p, "f", t)
    BY <1>1, <2>1, <2>2, <2>3, <2>4
  <2>6. Fits(p, call, At(t, b)) /\ Moved(call, At(t, b)) = At(t + 1, b)
    <3>1. PICK g \in Int : g = t + 1 /\ t \in Int /\ t < 80
      OBVIOUS
    <3>2. Fits(p, call, At(t, b)) /\ Moved(call, At(t, b)) = At(g, b)
      BY <2>5, <3>1, StepFits
    <3> QED BY <3>1, <3>2
  <2> QED BY <2>2, <2>4, <2>6
<1>7. RunsThrough(p, calls, places)
  BY <1>2, <1>5, <1>6 DEF RunsThrough
<1>8. places[0] = At(from, b) /\ places[m] = At(to, b)
  BY <1>0, <1>3
<1>9. Runs(p, calls, At(from, b), At(to, b))
  BY <1>2, <1>7, <1>8 DEF Runs
<1> QED BY <1>2, <1>9 DEF calls

LEMMA UnfivesRun ==
  ASSUME NEW p, NEW n \in 0 .. 4, NEW from \in 0 .. 80, NEW f \in 0 .. 80,
         StartsAt(p, "b") \in Int, n = Turned(p, "b", from)
  PROVE  /\ Unfives("b", n, from) \in Seq(Calls)
         /\ Runs(p, Unfives("b", n, from), At(f, from), At(f, 0))
<1> DEFINE calls == Unfives("b", n, from)
           places == [i \in 0 .. from |-> At(f, from - i)]
<1>1. ASSUME NEW i \in 1 .. from
      PROVE  /\ calls[i] \in Calls /\ calls[i].chain = "b" /\ calls[i].kind = "unstep"
             /\ calls[i].n = (n + (i - 1)) % 5 /\ calls[i].t = from - i
  <2> DEFINE k == (i - 1) \div 5
             r == (i - 1) % 5
             nn == n + (1 + r) - 1
             tt == from - 5 - 5 * k + 5 - (1 + r)
  <2>1. r \in 0 .. 4 /\ k \in Nat /\ i - 1 = 5 * k + r /\ 1 + r \in 1 .. 5
    OBVIOUS
  <2>2. calls[i] = Unfive("b", n, from - 5 - 5 * k)[1 + r]
    BY DEF Unfives
  <2> HIDE DEF k, r
  <2>3. calls[i] = Call("b", "unstep", nn, tt)
    BY <2>1, <2>2 DEF Unfive
  <2>4. nn % 5 = (n + (i - 1)) % 5 /\ tt = from - i /\ nn \in Int /\ tt \in Int
    BY <2>1
  <2>5. "b" \in Chains /\ "unstep" \in Kinds
    BY DEF Chains, Kinds
  <2> HIDE DEF nn, tt, calls
  <2>6. PICK call : call = calls[i]
    OBVIOUS
  <2>7. /\ call \in Calls /\ call.chain = "b" /\ call.kind = "unstep"
        /\ call.n = nn % 5 /\ call.t = tt
    <3>1. call = Call("b", "unstep", nn, tt) /\ nn \in Int /\ tt \in Int
      BY <2>3, <2>4, <2>6
    <3> QED BY ONLY <2>5, <3>1, CallType
  <2> QED BY <2>4, <2>6, <2>7
<1>2. Len(calls) = from /\ calls \in Seq(Calls)
  <2>1. calls = [i \in 1 .. from |-> calls[i]]
    BY DEF Unfives
  <2>2. \A i \in 1 .. from : calls[i] \in Calls
    BY <1>1
  <2>3. from \in Nat
    OBVIOUS
  <2> HIDE DEF calls
  <2> QED BY <2>1, <2>2, <2>3
<1> HIDE DEF calls
<1>3. \A i \in 0 .. from : places[i] = At(f, from - i) /\ from - i \in 0 .. 80
  OBVIOUS
<1>5. places \in [0 .. from -> Places]
  BY <1>3, AtType
<1> HIDE DEF places
<1>6. ASSUME NEW i \in 1 .. from
      PROVE  Fits(p, calls[i], places[i - 1]) /\ places[i] = Moved(calls[i], places[i - 1])
  <2>1. PICK t \in 1 .. 80 : t = from - (i - 1)
    OBVIOUS
  <2>2. places[i - 1] = At(f, t) /\ places[i] = At(f, t - 1) /\ from - i = t - 1
    <3>1. i - 1 \in 0 .. from /\ i \in 0 .. from /\ from - i = t - 1
      BY <2>1
    <3> QED BY <1>3, <2>1, <3>1
  <2>3. Turned(p, "b", t) = (n + (i - 1)) % 5
    BY <2>1 DEF Turned
  <2>4. PICK call : call = calls[i]
    OBVIOUS
  <2>5. /\ call.chain = "b" /\ call.kind = "unstep" /\ call.t = t - 1
        /\ call.n = Turned(p, "b", t)
    BY <1>1, <2>1, <2>2, <2>3, <2>4
  <2>6. Fits(p, call, At(f, t)) /\ Moved(call, At(f, t)) = At(f, t - 1)
    <3>1. PICK g \in Int : g = t - 1 /\ t \in Int /\ t > 0
      OBVIOUS
    <3>2. Fits(p, call, At(f, t)) /\ Moved(call, At(f, t)) = At(f, g)
      BY <2>5, <3>1, UnstepFits
    <3> QED BY <3>1, <3>2
  <2> QED BY <2>2, <2>4, <2>6
<1>7. RunsThrough(p, calls, places)
  BY <1>2, <1>5, <1>6 DEF RunsThrough
<1>8. places[0] = At(f, from) /\ places[from] = At(f, 0)
  BY <1>3
<1>9. Runs(p, calls, At(f, from), At(f, 0))
  BY <1>2, <1>7, <1>8 DEF Runs
<1> QED BY <1>2, <1>9 DEF calls

LEMMA BothWaysRun ==
  ASSUME NEW p, NEW n \in 0 .. 4, NEW from \in 0 .. 80, NEW on \in 0 .. 80,
         StartsAt(p, "f") \in Int, StartsAt(p, "b") \in Int,
         n = Turned(p, "f", on), n = Turned(p, "b", from),
         80 - on <= from, (80 - on) % 5 = 0
  PROVE  /\ BothWays(n, from, on) \in Seq(Calls)
         /\ Runs(p, BothWays(n, from, on), At(on, from), At(80, 0))
<1> DEFINE m == 2 * (80 - on)
           calls == [i \in 1 .. m |->
                       LET turns == 5 * ((i - 1) \div 10) IN
                         (Unfive("b", n, from - 5 - turns)
                            \o Five("f", n, on + turns))[1 + ((i - 1) % 10)]]
           (* How far each chain has got after i calls.                     *)
           fs == [i \in 0 .. m |-> on + 5 * (i \div 10)
                                     + IF i % 10 > 5 THEN (i % 10) - 5 ELSE 0]
           bs == [i \in 0 .. m |-> from - 5 * (i \div 10)
                                     - IF i % 10 > 5 THEN 5 ELSE i % 10]
           places == [i \in 0 .. m |-> At(fs[i], bs[i])]
<1>0. m \in Nat /\ m % 10 = 0
  OBVIOUS
<1>1. ASSUME NEW i \in 0 .. m
      PROVE  /\ fs[i] = on + 5 * (i \div 10) + IF i % 10 > 5 THEN (i % 10) - 5 ELSE 0
             /\ bs[i] = from - 5 * (i \div 10) - IF i % 10 > 5 THEN 5 ELSE i % 10
             /\ fs[i] \in 0 .. 80 /\ bs[i] \in 0 .. 80
             /\ places[i] = At(fs[i], bs[i])
  <2> DEFINE k == i \div 10
             r == i % 10
  <2>1. k \in Nat /\ r \in 0 .. 9 /\ i = 10 * k + r
    BY <1>0
  <2>2. /\ fs[i] = on + 5 * k + IF r > 5 THEN r - 5 ELSE 0
        /\ bs[i] = from - 5 * k - IF r > 5 THEN 5 ELSE r
        /\ places[i] = At(fs[i], bs[i])
    OBVIOUS
  <2>3. 10 * k + r <= 2 * (80 - on) /\ (r > 0 => 10 * k + 10 <= 2 * (80 - on))
    BY <1>0, <2>1
  <2> HIDE DEF fs, bs, places, k, r
  <2>4. fs[i] \in 0 .. 80 /\ bs[i] \in 0 .. 80
    BY <2>1, <2>2, <2>3
  <2> QED BY <2>2, <2>4 DEF k, r
<1>2. ASSUME NEW i \in 1 .. m
      PROVE  /\ calls[i] \in Calls
             /\ \/ /\ calls[i].chain = "b" /\ calls[i].kind = "unstep"
                   /\ calls[i].t = bs[i - 1] - 1 /\ calls[i].n = Turned(p, "b", bs[i - 1])
                   /\ bs[i] = bs[i - 1] - 1 /\ fs[i] = fs[i - 1]
                \/ /\ calls[i].chain = "f" /\ calls[i].kind = "step"
                   /\ calls[i].t = fs[i - 1] /\ calls[i].n = Turned(p, "f", fs[i - 1])
                   /\ fs[i] = fs[i - 1] + 1 /\ bs[i] = bs[i - 1]
  <2> DEFINE k == (i - 1) \div 10
             r == (i - 1) % 10
             back5 == Unfive("b", n, from - 5 - 5 * k)
             on5 == Five("f", n, on + 5 * k)
  <2>1. /\ k \in Nat /\ r \in 0 .. 9 /\ i - 1 = 10 * k + r
        /\ i - 1 \in 0 .. m /\ i \in 0 .. m
        /\ r < 9 => i \div 10 = k /\ i % 10 = r + 1
        /\ r = 9 => i \div 10 = k + 1 /\ i % 10 = 0
    BY <1>0
  <2>2. /\ fs[i - 1] = on + 5 * k + IF r > 5 THEN r - 5 ELSE 0
        /\ bs[i - 1] = from - 5 * k - IF r > 5 THEN 5 ELSE r
    BY <2>1
  <2>3. /\ fs[i] = on + 5 * (i \div 10) + IF i % 10 > 5 THEN (i % 10) - 5 ELSE 0
        /\ bs[i] = from - 5 * (i \div 10) - IF i % 10 > 5 THEN 5 ELSE i % 10
    BY <2>1, <1>1
  <2>4. calls[i] = (back5 \o on5)[1 + r]
    OBVIOUS
  <2>5. /\ \A j \in 1 .. 5 : back5[j] = Call("b", "unstep", n + j - 1, from - 5 - 5 * k + 5 - j)
        /\ \A j \in 1 .. 5 : on5[j] = Call("f", "step", n + 6 - j, on + 5 * k + j - 1)
    BY DEF Five, Unfive
  <2>6. \A j \in 1 .. 5 : /\ (back5 \o on5)[j] = back5[j]
                          /\ (back5 \o on5)[5 + j] = on5[j]
    <3>1. PICK five : five = 5
      OBVIOUS
    <3>2. back5 = [j \in 1 .. five |-> back5[j]] /\ on5 = [j \in 1 .. five |-> on5[j]]
      BY <3>1 DEF Five, Unfive
    <3> HIDE DEF back5, on5
    <3>6. PICK S : \A j \in 1 .. five : back5[j] \in S /\ on5[j] \in S
      <4>1. \A j \in 1 .. five : back5[j] \in {back5[h] : h \in 1 .. five}
                                                  \cup {on5[h] : h \in 1 .. five}
                             /\ on5[j] \in {back5[h] : h \in 1 .. five}
                                                  \cup {on5[h] : h \in 1 .. five}
        OBVIOUS
      <4> QED BY <4>1
    <3>7. five \in Nat
      BY <3>1
    <3>3. /\ back5 \in Seq(S) /\ Len(back5) = five
          /\ on5 \in Seq(S) /\ Len(on5) = five
      <4>1. back5 = [j \in 1 .. five |-> back5[j]] /\ \A j \in 1 .. five : back5[j] \in S
        BY <3>2, <3>6
      <4>2. on5 = [j \in 1 .. five |-> on5[j]] /\ \A j \in 1 .. five : on5[j] \in S
        BY <3>2, <3>6
      <4>3. back5 \in Seq(S) /\ Len(back5) = five
        BY ONLY <3>7, <4>1, IsSeq
      <4>4. on5 \in Seq(S) /\ Len(on5) = five
        BY ONLY <3>7, <4>2, IsSeq
      <4> QED BY <4>3, <4>4
    <3>4. \A j \in 1 .. five + five :
            (back5 \o on5)[j] = IF j <= five THEN back5[j] ELSE on5[j - five]
      BY <3>3, <3>7
    <3>5. ASSUME NEW j \in 1 .. five
          PROVE  (back5 \o on5)[j] = back5[j] /\ (back5 \o on5)[five + j] = on5[j]
      <4>1. PICK h \in 1 .. five + five : h = five + j
        BY <3>1
      <4>2. h - five = j /\ ~(h <= five) /\ j \in 1 .. five + five /\ j <= five
        BY <3>1, <4>1
      <4> QED BY <3>4, <4>1, <4>2
    <3> QED BY <3>1, <3>5
  <2> HIDE DEF k, r, back5, on5, calls, fs, bs, m
  <2>7. CASE r < 5
    <3> DEFINE nn == n + (1 + r) - 1
               tt == from - 5 - 5 * k + 5 - (1 + r)
    <3>0. PICK j \in 1 .. 5 : j = 1 + r
      BY <2>1, <2>7
    <3>1. calls[i] = back5[j]
      BY <2>4, <2>6, <3>0
    <3>5. PICK call : call = calls[i]
      OBVIOUS
    <3>2. call = Call("b", "unstep", nn, tt)
      BY <2>5, <3>0, <3>1, <3>5
    <3>3. /\ bs[i - 1] = from - 5 * k - r /\ fs[i - 1] = on + 5 * k
          /\ bs[i] = from - 5 * k - r - 1 /\ fs[i] = on + 5 * k
      BY <2>1, <2>2, <2>3, <2>7
    <3>7. /\ nn \in Int /\ tt \in Int /\ tt = bs[i - 1] - 1
          /\ bs[i] = bs[i - 1] - 1 /\ fs[i] = fs[i - 1]
      BY <2>1, <3>3
    <3>8. nn % 5 = Turned(p, "b", bs[i - 1])
      BY <2>1, <3>3 DEF Turned
    <3>4. "b" \in Chains /\ "unstep" \in Kinds
      BY DEF Chains, Kinds
    <3> HIDE DEF nn, tt
    <3>6. /\ call \in Calls /\ call.chain = "b" /\ call.kind = "unstep"
          /\ call.t = tt /\ call.n = nn % 5
      BY <3>2, <3>4, <3>7, CallType
    <3> QED BY <3>5, <3>6, <3>7, <3>8
  <2>8. CASE r >= 5
    <3> DEFINE nn == n + 6 - (r - 4)
               tt == on + 5 * k + (r - 4) - 1
    <3>0. PICK j \in 1 .. 5 : j = r - 4
      BY <2>1, <2>8
    <3>1. calls[i] = on5[j]
      <4>1. 1 + r = 5 + j
        BY <2>1, <3>0
      <4> QED BY <2>4, <2>6, <3>0, <4>1
    <3>5. PICK call : call = calls[i]
      OBVIOUS
    <3>2. call = Call("f", "step", nn, tt)
      BY <2>5, <3>0, <3>1, <3>5
    <3>3. /\ bs[i - 1] = from - 5 * k - 5 /\ fs[i - 1] = on + 5 * k + r - 5
          /\ bs[i] = from - 5 * k - 5 /\ fs[i] = on + 5 * k + r - 4
      BY <2>1, <2>2, <2>3, <2>8
    <3>7. /\ nn \in Int /\ tt \in Int /\ tt = fs[i - 1]
          /\ fs[i] = fs[i - 1] + 1 /\ bs[i] = bs[i - 1]
      BY <2>1, <3>3
    <3>8. nn % 5 = Turned(p, "f", fs[i - 1])
      <4> DEFINE q == StartsAt(p, "f") - on
      <4>1. n = q % 5 /\ q \in Int
        BY DEF Turned
      <4>2. nn = n - (r - 5) + 5 /\ StartsAt(p, "f") - fs[i - 1] = q - 5 * k - (r - 5)
        BY <2>1, <3>3
      <4> HIDE DEF q, nn
      <4>3. (n - (r - 5) + 5) % 5 = (q - 5 * k - (r - 5)) % 5
        <5>1. PICK u \in Int : q = 5 * u + n
          BY <4>1
        <5>2. n - (r - 5) + 5 = (q - 5 * k - (r - 5)) + 5 * (k + 1 - u)
          BY <2>1, <4>1, <5>1
        <5> QED BY <2>1, <4>1, <5>1, <5>2, SameTurn
      <4> QED BY <4>2, <4>3 DEF Turned
    <3>4. "f" \in Chains /\ "step" \in Kinds
      BY DEF Chains, Kinds
    <3> HIDE DEF nn, tt
    <3>6. /\ call \in Calls /\ call.chain = "f" /\ call.kind = "step"
          /\ call.t = tt /\ call.n = nn % 5
      BY <3>2, <3>4, <3>7, CallType
    <3> QED BY <3>5, <3>6, <3>7, <3>8
  <2> QED BY <2>1, <2>7, <2>8
<1>3. Len(calls) = m /\ calls \in Seq(Calls)
  <2>1. calls = [i \in 1 .. m |-> calls[i]]
    OBVIOUS
  <2>2. \A i \in 1 .. m : calls[i] \in Calls
    BY <1>2
  <2>3. m \in Nat
    BY <1>0
  <2> HIDE DEF calls, m, places, fs, bs
  <2> QED BY <2>1, <2>2, <2>3
<1>4. BothWays(n, from, on) = calls \o Unfives("b", n, from - (80 - on))
  BY DEF BothWays
<1>5. places \in [0 .. m -> Places]
  BY <1>1, AtType
<1>6. places[0] = At(on, from) /\ places[m] = At(80, from - (80 - on))
  <2>1. fs[0] = on /\ bs[0] = from /\ fs[m] = 80 /\ bs[m] = from - (80 - on)
    BY <1>0, <1>1
  <2>2. 0 \in 0 .. m /\ m \in 0 .. m
    BY <1>0
  <2>3. PICK e \in 0 .. m : e = m
    BY <2>2
  <2>4. places[0] = At(fs[0], bs[0]) /\ places[e] = At(fs[e], bs[e])
    BY <1>1, <2>2, <2>3
  <2> HIDE DEF m, places, fs, bs
  <2> QED BY <2>1, <2>3, <2>4
<1> HIDE DEF calls, places, fs, bs, m
<1>7. ASSUME NEW i \in 1 .. m
      PROVE  Fits(p, calls[i], places[i - 1]) /\ places[i] = Moved(calls[i], places[i - 1])
  <2>1. PICK call : call = calls[i]
    OBVIOUS
  <2>2. i - 1 \in 0 .. m /\ i \in 0 .. m
    BY <1>0
  <2>3. PICK f \in 0 .. 80, b \in 0 .. 80 : f = fs[i - 1] /\ b = bs[i - 1]
    BY <1>1, <2>2
  <2>4. places[i - 1] = At(f, b)
    BY <1>1, <2>2, <2>3
  <2>5. CASE /\ call.chain = "b" /\ call.kind = "unstep" /\ call.t = b - 1
             /\ call.n = Turned(p, "b", b) /\ bs[i] = b - 1 /\ fs[i] = f
    <3>0. bs[i] \in 0 .. 80
      BY <1>1, <2>2
    <3>1. PICK g \in Int : g = b - 1 /\ b \in Int /\ b > 0
      BY <2>5, <3>0
    <3>2. Fits(p, call, At(f, b)) /\ Moved(call, At(f, b)) = At(f, g)
      BY <2>5, <3>1, UnstepFits
    <3>3. places[i] = At(f, g)
      BY <1>1, <2>2, <2>5, <3>1
    <3> QED BY <2>1, <2>4, <3>2, <3>3
  <2>6. CASE /\ call.chain = "f" /\ call.kind = "step" /\ call.t = f
             /\ call.n = Turned(p, "f", f) /\ fs[i] = f + 1 /\ bs[i] = b
    <3>0. fs[i] \in 0 .. 80
      BY <1>1, <2>2
    <3>1. PICK g \in Int : g = f + 1 /\ f \in Int /\ f < 80
      BY <2>6, <3>0
    <3>2. Fits(p, call, At(f, b)) /\ Moved(call, At(f, b)) = At(g, b)
      BY <2>6, <3>1, StepFits
    <3>3. places[i] = At(g, b)
      BY <1>1, <2>2, <2>6, <3>1
    <3> QED BY <2>1, <2>4, <3>2, <3>3
  <2> QED BY <1>2, <2>1, <2>3, <2>5, <2>6
<1>8. RunsThrough(p, calls, places)
  BY <1>3, <1>5, <1>7 DEF RunsThrough
<1>9. PICK left \in 0 .. 80 : left = from - (80 - on)
  OBVIOUS
<1>10. n = Turned(p, "b", left)
  <2>1. PICK k \in Int : 80 - on = 5 * k
    <3>1. (80 - on) \div 5 \in Int /\ 80 - on = 5 * ((80 - on) \div 5)
      OBVIOUS
    <3> QED BY <3>1
  <2>2. left = from - 5 * k
    BY <1>9, <2>1
  <2> QED BY <2>2 DEF Turned
<1>11. /\ Unfives("b", n, left) \in Seq(Calls)
       /\ Runs(p, Unfives("b", n, left), At(80, left), At(80, 0))
  <2>1. 80 \in 0 .. 80
    OBVIOUS
  <2> QED BY <1>10, <2>1, UnfivesRun
<1>12. Runs(p, calls, At(on, from), At(80, left))
  BY <1>3, <1>6, <1>8, <1>9 DEF Runs
<1>13. PICK u, v, z, rest : /\ u = At(on, from) /\ v = At(80, left) /\ z = At(80, 0)
                            /\ rest = Unfives("b", n, left)
  OBVIOUS
<1>14. calls \o rest \in Seq(Calls) /\ Runs(p, calls \o rest, u, z)
  BY <1>3, <1>11, <1>12, <1>13, RunsOn
<1> QED BY <1>4, <1>9, <1>13, <1>14

LEMMA SameSeq ==
  ASSUME NEW S, NEW s \in Seq(S), NEW t \in Seq(S), Len(s) = Len(t),
         \A j \in 1 .. Len(s) : s[j] = t[j]
  PROVE  s = t
OBVIOUS
LEMMA Pair ==
  ASSUME NEW a, NEW b
  PROVE  <<a, b>> = <<a>> \o <<b>>
<1>0. PICK S : a \in S /\ b \in S
  <2>1. a \in {a, b} /\ b \in {a, b}
    OBVIOUS
  <2> QED BY <2>1
<1>1. PICK x : x = <<a>>
  OBVIOUS
<1>2. PICK y : y = <<b>>
  OBVIOUS
<1>3. PICK z : z = <<a, b>>
  OBVIOUS
<1>4. x \in Seq(S) /\ Len(x) = 1 /\ x[1] = a
  BY <1>0, <1>1
<1>5. y \in Seq(S) /\ Len(y) = 1 /\ y[1] = b
  BY <1>0, <1>2
<1>6. z \in Seq(S) /\ Len(z) = 2 /\ z[1] = a /\ z[2] = b
  BY <1>0, <1>3
<1>7. PICK xy \in Seq(S) :
        /\ xy = x \o y /\ Len(xy) = Len(x) + Len(y)
        /\ \A j \in 1 .. Len(x) + Len(y) :
             xy[j] = IF j <= Len(x) THEN x[j] ELSE y[j - Len(x)]
  <2>1. x \in Seq(S) /\ y \in Seq(S)
    BY <1>4, <1>5
  <2>2. x \o y \in Seq(S) /\ Len(x \o y) = Len(x) + Len(y)
    BY <2>1
  <2>3. \A j \in 1 .. Len(x) + Len(y) :
             (x \o y)[j] = IF j <= Len(x) THEN x[j] ELSE y[j - Len(x)]
    BY <2>1
  <2> QED BY <2>2, <2>3
<1>8. Len(xy) = 2
  BY <1>4, <1>5, <1>7
<1>11. xy[1] = a
  BY <1>4, <1>5, <1>7
<1>12. xy[2] = b
  BY <1>4, <1>5, <1>7
<1>9. \A j \in 1 .. Len(z) : z[j] = xy[j]
  <2>1. \A j \in 1 .. Len(z) : j = 1 \/ j = 2
    BY <1>6
  <2> QED BY <2>1, <1>6, <1>11, <1>12
<1>10. z = xy
  BY <1>6, <1>7, <1>8, <1>9, SameSeq
<1> QED BY <1>1, <1>2, <1>3, <1>7, <1>10

-----------------------------------------------------------------------------
(* What a sequence of calls does to where the two chains are.              *)
Leads(p, calls, f, b, g, h) == calls \in Seq(Calls) /\ Runs(p, calls, At(f, b), At(g, h))

LEMMA LeadsOn ==
  ASSUME NEW p, NEW first, NEW second, NEW f, NEW b, NEW g, NEW h, NEW k, NEW l,
         Leads(p, first, f, b, g, h), Leads(p, second, g, h, k, l)
  PROVE  Leads(p, first \o second, f, b, k, l)
<1>1. PICK u, v, z : u = At(f, b) /\ v = At(g, h) /\ z = At(k, l)
  OBVIOUS
<1>2. first \in Seq(Calls) /\ second \in Seq(Calls) /\ Runs(p, first, u, v)
      /\ Runs(p, second, v, z)
  BY <1>1 DEF Leads
<1>3. first \o second \in Seq(Calls) /\ Runs(p, first \o second, u, z)
  BY <1>2, RunsOn
<1> QED BY <1>1, <1>3 DEF Leads

LEMMA OneCall ==
  ASSUME NEW p, NEW call \in Calls, NEW f, NEW b, NEW g, NEW h,
         At(f, b) \in Places, Fits(p, call, At(f, b)),
         Moved(call, At(f, b)) = At(g, h)
  PROVE  Leads(p, <<call>>, f, b, g, h)
<1>1. PICK u : u = At(f, b)
  OBVIOUS
<1>2. u \in Places /\ Fits(p, call, u) /\ Moved(call, u) = At(g, h)
  BY <1>1
<1>3. <<call>> \in Seq(Calls) /\ Runs(p, <<call>>, u, Moved(call, u))
  BY <1>2, RunsOnce
<1> QED BY <1>1, <1>2, <1>3 DEF Leads

LEMMA OneStep ==
  ASSUME NEW p, NEW n \in Int, NEW f \in Int, NEW g \in Int, NEW b \in Int,
         0 <= f, f < 80, g = f + 1, 0 <= b, b <= 80, n % 5 = Turned(p, "f", f)
  PROVE  Leads(p, <<Call("f", "step", n, f)>>, f, b, g, b)
<1>1. "f" \in Chains /\ "step" \in Kinds
  BY DEF Chains, Kinds
<1>2. PICK call : call = Call("f", "step", n, f)
  OBVIOUS
<1>3. call \in Calls /\ call.chain = "f" /\ call.kind = "step" /\ call.n = n % 5
      /\ call.t = f
  BY <1>1, <1>2, CallType
<1>4. Fits(p, call, At(f, b)) /\ Moved(call, At(f, b)) = At(g, b)
  BY <1>3, StepFits
<1>5. At(f, b) \in Places
  BY AtType
<1> QED BY <1>2, <1>3, <1>4, <1>5, OneCall

LEMMA OneUnstep ==
  ASSUME NEW p, NEW n \in Int, NEW f \in Int, NEW g \in Int, NEW b \in Int,
         0 <= f, f <= 80, 0 < b, b <= 80, g = b - 1, n % 5 = Turned(p, "b", b)
  PROVE  Leads(p, <<Call("b", "unstep", n, g)>>, f, b, f, g)
<1>1. "b" \in Chains /\ "unstep" \in Kinds
  BY DEF Chains, Kinds
<1>2. PICK call : call = Call("b", "unstep", n, g)
  OBVIOUS
<1>3. call \in Calls /\ call.chain = "b" /\ call.kind = "unstep" /\ call.n = n % 5
      /\ call.t = g
  BY <1>1, <1>2, CallType
<1>4. Fits(p, call, At(f, b)) /\ Moved(call, At(f, b)) = At(f, g)
  <2>1. call.t = b - 1 /\ b > 0
    BY <1>3
  <2> QED BY <1>3, <2>1, UnstepFits
<1>5. At(f, b) \in Places
  BY AtType
<1> QED BY <1>2, <1>3, <1>4, <1>5, OneCall

LEMMA OneStore ==
  ASSUME NEW p, NEW chain \in Chains, NEW n \in Int, NEW slot \in Kinds,
         slot \notin {"step", "unstep"},
         NEW f \in Int, NEW b \in Int, 0 <= f, f <= 80, 0 <= b, b <= 80,
         BelongsAt(p, slot) = IF chain = "f" THEN f ELSE b,
         n % 5 = Turned(p, chain, IF chain = "f" THEN f ELSE b)
  PROVE  Leads(p, <<Store(chain, n, slot)>>, f, b, f, b)
<1>1. PICK call : call = Store(chain, n, slot)
  OBVIOUS
<1>2. call = Call(chain, slot, n, 0)
  BY <1>1 DEF Store, Call
<1>3. call \in Calls /\ call.chain = chain /\ call.kind = slot /\ call.n = n % 5
  <2>1. 0 \in Int
    OBVIOUS
  <2> QED BY <1>2, <2>1, CallType
<1>4. At(f, b)[chain] = IF chain = "f" THEN f ELSE b
  BY DEF At
<1>5. Fits(p, call, At(f, b))
  BY <1>3, <1>4 DEF Fits
<1>6. Moved(call, At(f, b)) = At(f, b)
  <2>1. [At(f, b) EXCEPT ![chain] = At(f, b)[chain]] = At(f, b)
    BY DEF At
  <2> QED BY <1>3, <2>1 DEF Moved
<1>7. At(f, b) \in Places
  BY AtType
<1> QED BY <1>1, <1>3, <1>5, <1>6, <1>7, OneCall

(* partner_boundary, which takes its one chain back.                       *)
LEMMA OneBack ==
  ASSUME NEW p, StartsAt(p, "f") = 65
  PROVE  Leads(p, <<Call("f", "unstep", 0, 64)>>, 65, 65, 64, 65)
<1>1. "f" \in Chains /\ "unstep" \in Kinds /\ 0 \in Int /\ 64 \in Int /\ 0 % 5 = 0
  BY DEF Chains, Kinds
<1>2. PICK call : call = Call("f", "unstep", 0, 64)
  OBVIOUS
<1>3. call \in Calls /\ call.chain = "f" /\ call.kind = "unstep" /\ call.n = 0
      /\ call.t = 64
  BY <1>1, <1>2, CallType
<1>4. At(65, 65)["f"] = 65
  BY DEF At, Chains
<1>5. Fits(p, call, At(65, 65))
  BY <1>3, <1>4 DEF Fits, Turned
<1>6. [At(65, 65) EXCEPT !["f"] = 65 - 1] = At(64, 65)
  BY DEF At, Chains
<1>7. Moved(call, At(65, 65)) = At(64, 65)
  BY <1>3, <1>4, <1>6 DEF Moved
<1>8. At(65, 65) \in Places
  BY AtType
<1> QED BY <1>2, <1>3, <1>5, <1>7, <1>8, OneCall

Comes(p) ==
  /\ Program(p) \in Seq(Calls)
  /\ \E last : Runs(p, Program(p), [chain \in Chains |-> StartsAt(p, chain)], last)

LEMMA ComesAlong ==
  ASSUME NEW p, NEW f, NEW b, NEW g, NEW h, Leads(p, Program(p), f, b, g, h),
         StartsAt(p, "f") = f, StartsAt(p, "b") = b
  PROVE  Comes(p)
<1>1. [chain \in Chains |-> StartsAt(p, chain)] = At(f, b)
  BY DEF At, Chains
<1> QED BY <1>1 DEF Comes, Leads

LEMMA FivesLead ==
  ASSUME NEW p, NEW from \in Int, NEW to \in Int, NEW b \in Int,
         0 <= from, from <= to, to <= 80, 0 <= b, b <= 80,
         StartsAt(p, "f") \in Int, Turned(p, "f", from) = 0
  PROVE  Leads(p, Fives("f", 0, from, to), from, b, to, b)
<1>1. from \in 0 .. 80 /\ to \in 0 .. 80 /\ b \in 0 .. 80
  OBVIOUS
<1>2. PICK n \in 0 .. 4 : n = 0
  OBVIOUS
<1>3. /\ Fives("f", n, from, to) \in Seq(Calls)
      /\ Runs(p, Fives("f", n, from, to), At(from, b), At(to, b))
  <2>1. /\ n \in 0 .. 4 /\ from \in 0 .. 80 /\ to \in 0 .. 80 /\ b \in 0 .. 80
        /\ StartsAt(p, "f") \in Int /\ from <= to /\ n = Turned(p, "f", from)
    BY <1>1, <1>2
  <2> QED BY ONLY <2>1, FivesRun
<1> QED BY <1>2, <1>3 DEF Leads

LEMMA BothWaysLead ==
  ASSUME NEW p, NEW n \in 0 .. 4, NEW from \in Int, NEW on \in Int,
         0 <= from, from <= 80, 0 <= on, on <= 80,
         StartsAt(p, "f") \in Int, StartsAt(p, "b") \in Int,
         n = Turned(p, "f", on), n = Turned(p, "b", from),
         80 - on <= from, (80 - on) % 5 = 0
  PROVE  Leads(p, BothWays(n, from, on), on, from, 80, 0)
<1>1. from \in 0 .. 80 /\ on \in 0 .. 80
  OBVIOUS
<1>2. /\ BothWays(n, from, on) \in Seq(Calls)
      /\ Runs(p, BothWays(n, from, on), At(on, from), At(80, 0))
  BY <1>1, BothWaysRun
<1> QED BY <1>2 DEF Leads

LEMMA Ints ==
  /\ {0, 1, 2, 3, 4, 54, 55, 56, 57, 58, 59, 60, 64, 65, 80} \subseteq Int
  /\ {"start", "end", "state_58", "state_65", "boundary"} \subseteq Kinds
  /\ {"start", "end", "state_58", "state_65", "boundary"} \cap {"step", "unstep"} = {}
  /\ Chains = {"f", "b"}
BY DEF Kinds, Chains

LEMMA CompressionComes == Comes("compression_w")
<1> DEFINE p == "compression_w"
<1>1. StartsAt(p, "f") = 0 /\ StartsAt(p, "b") = 0
  BY DEF StartsAt
<1>2. Leads(p, Fives("f", 0, 0, 80), 0, 0, 80, 0)
  <2>1. Turned(p, "f", 0) = 0
    BY <1>1 DEF Turned
  <2> QED BY <1>1, <2>1, FivesLead
<1>3. Leads(p, <<Store("f", 0, "end")>>, 80, 0, 80, 0)
  <2>1. Turned(p, "f", 80) = 0 % 5 /\ BelongsAt(p, "end") = 80
    BY <1>1 DEF Turned, BelongsAt
  <2> QED BY <2>1, Ints, OneStore
<1>4. Leads(p, Program(p), 0, 0, 80, 0)
  BY <1>2, <1>3, LeadsOn DEF Program
<1> QED BY <1>1, <1>4, ComesAlong

LEMMA ScalarComes == Comes("scalar")
<1> DEFINE p == "scalar"
           Step55 == Call("f", "step", 0, 55)
           Step56 == Call("f", "step", 4, 56)
           Step57 == Call("f", "step", 3, 57)
           Store58 == Store("f", 2, "state_58")
           Step58 == Call("f", "step", 2, 58)
           Step59 == Call("f", "step", 1, 59)
<1>1. StartsAt(p, "f") = 0 /\ StartsAt(p, "b") = 0
  BY DEF StartsAt
<1>2. /\ Turned(p, "f", 0) = 0 /\ Turned(p, "f", 55) = 0 % 5 /\ Turned(p, "f", 56) = 4 % 5
      /\ Turned(p, "f", 57) = 3 % 5 /\ Turned(p, "f", 58) = 2 % 5
      /\ Turned(p, "f", 59) = 1 % 5 /\ Turned(p, "f", 60) = 0 /\ Turned(p, "f", 65) = 0
      /\ Turned(p, "f", 65) = 0 % 5 /\ Turned(p, "f", 80) = 0 % 5
  BY <1>1 DEF Turned
<1>3. BelongsAt(p, "state_58") = 58 /\ BelongsAt(p, "state_65") = 65
      /\ BelongsAt(p, "end") = 80
  BY DEF BelongsAt
<1>4. Leads(p, Fives("f", 0, 0, 55), 0, 0, 55, 0)
  BY <1>1, <1>2, FivesLead
<1>5. Leads(p, Fives("f", 0, 60, 65), 60, 0, 65, 0)
  BY <1>1, <1>2, FivesLead
<1>6. Leads(p, Fives("f", 0, 65, 80), 65, 0, 80, 0)
  BY <1>1, <1>2, FivesLead
<1>7. Leads(p, <<Step55>>, 55, 0, 56, 0)
  BY <1>2, Ints, OneStep
<1>8. Leads(p, <<Step56>>, 56, 0, 57, 0)
  BY <1>2, Ints, OneStep
<1>9. Leads(p, <<Step57>>, 57, 0, 58, 0)
  BY <1>2, Ints, OneStep
<1>10. Leads(p, <<Store58>>, 58, 0, 58, 0)
  BY <1>2, <1>3, Ints, OneStore
<1>11. Leads(p, <<Step58>>, 58, 0, 59, 0)
  BY <1>2, Ints, OneStep
<1>12. Leads(p, <<Step59>>, 59, 0, 60, 0)
  BY <1>2, Ints, OneStep
<1>13. Leads(p, <<Store("f", 0, "state_65")>>, 65, 0, 65, 0)
  BY <1>2, <1>3, Ints, OneStore
<1>14. Leads(p, <<Store("f", 0, "end")>>, 80, 0, 80, 0)
  BY <1>2, <1>3, Ints, OneStore
<1>15. Program(p)
         = Fives("f", 0, 0, 55)
             \o <<Step55, Step56, Step57, Store58, Step58, Step59>>
             \o Fives("f", 0, 60, 65) \o <<Store("f", 0, "state_65")>>
             \o Fives("f", 0, 65, 80) \o <<Store("f", 0, "end")>>
  BY DEF Program, Scalar
<1> HIDE DEF p, Step55, Step56, Step57, Store58, Step58, Step59
<1>16. Leads(p, <<Step58, Step59>>, 58, 0, 60, 0)
  BY <1>11, <1>12, Pair, LeadsOn
<1>17. Leads(p, <<Store58, Step58, Step59>>, 58, 0, 60, 0)
  <2>1. <<Store58, Step58, Step59>> = <<Store58>> \o <<Step58, Step59>>
    OBVIOUS
  <2> QED BY <1>10, <1>16, <2>1, LeadsOn
<1>18. Leads(p, <<Step57, Store58, Step58, Step59>>, 57, 0, 60, 0)
  <2>1. <<Step57, Store58, Step58, Step59>> = <<Step57>> \o <<Store58, Step58, Step59>>
    OBVIOUS
  <2> QED BY <1>9, <1>17, <2>1, LeadsOn
<1>19. Leads(p, <<Step56, Step57, Store58, Step58, Step59>>, 56, 0, 60, 0)
  <2>1. <<Step56, Step57, Store58, Step58, Step59>>
          = <<Step56>> \o <<Step57, Store58, Step58, Step59>>
    OBVIOUS
  <2> QED BY <1>8, <1>18, <2>1, LeadsOn
<1>20. Leads(p, <<Step55, Step56, Step57, Store58, Step58, Step59>>, 55, 0, 60, 0)
  <2>1. <<Step55, Step56, Step57, Store58, Step58, Step59>>
          = <<Step55>> \o <<Step56, Step57, Store58, Step58, Step59>>
    OBVIOUS
  <2> QED BY <1>7, <1>19, <2>1, LeadsOn
<1>21. Leads(p, Program(p), 0, 0, 80, 0)
  <2> DEFINE middle == <<Step55, Step56, Step57, Store58, Step58, Step59>>
             to55 == Fives("f", 0, 0, 55)
             to65 == Fives("f", 0, 60, 65)
             store65 == <<Store("f", 0, "state_65")>>
             to80 == Fives("f", 0, 65, 80)
             end == <<Store("f", 0, "end")>>
  <2> HIDE DEF middle, to55, to65, store65, to80, end
  <2>1. Program(p) = to55 \o middle \o to65 \o store65 \o to80 \o end
    BY <1>15 DEF middle, to55, to65, store65, to80, end
  <2>2. Leads(p, to55, 0, 0, 55, 0) /\ Leads(p, middle, 55, 0, 60, 0)
    BY <1>4, <1>20 DEF to55, middle
  <2>3. Leads(p, to65, 60, 0, 65, 0) /\ Leads(p, store65, 65, 0, 65, 0)
    BY <1>5, <1>13 DEF to65, store65
  <2>4. Leads(p, to80, 65, 0, 80, 0) /\ Leads(p, end, 80, 0, 80, 0)
    BY <1>6, <1>14 DEF to80, end
  <2>5. Leads(p, to55 \o middle, 0, 0, 60, 0)
    BY <2>2, LeadsOn
  <2>6. Leads(p, to55 \o middle \o to65, 0, 0, 65, 0)
    BY <2>3, <2>5, LeadsOn
  <2>7. Leads(p, to55 \o middle \o to65 \o store65, 0, 0, 65, 0)
    BY <2>3, <2>6, LeadsOn
  <2>8. Leads(p, to55 \o middle \o to65 \o store65 \o to80, 0, 0, 80, 0)
    BY <2>4, <2>7, LeadsOn
  <2>9. Leads(p, to55 \o middle \o to65 \o store65 \o to80 \o end, 0, 0, 80, 0)
    BY <2>4, <2>8, LeadsOn
  <2> QED BY <2>1, <2>9
<1> QED BY <1>1, <1>21, ComesAlong DEF p

LEMMA StatesComes == Comes("states_from_60_64")
<1> DEFINE p == "states_from_60_64"
           Step64 == Call("f", "step", 0, 64)
           Store65 == Store("f", 4, "state_65")
           Step59 == Call("b", "unstep", 0, 59)
           Step58 == Call("b", "unstep", 1, 58)
           Store58 == Store("b", 2, "state_58")
<1>1. StartsAt(p, "f") = 64 /\ StartsAt(p, "b") = 60
  BY DEF StartsAt
<1>2. /\ Turned(p, "f", 64) = 0 % 5 /\ Turned(p, "f", 65) = 4 % 5
      /\ Turned(p, "b", 60) = 0 % 5 /\ Turned(p, "b", 59) = 1 % 5
      /\ Turned(p, "b", 58) = 2 % 5
  BY <1>1 DEF Turned
<1>3. BelongsAt(p, "state_58") = 58 /\ BelongsAt(p, "state_65") = 65
  BY DEF BelongsAt
<1>4. Leads(p, <<Step64>>, 64, 60, 65, 60)
  BY <1>2, Ints, OneStep
<1>5. Leads(p, <<Store65>>, 65, 60, 65, 60)
  BY <1>2, <1>3, Ints, OneStore
<1>6. Leads(p, <<Step59>>, 65, 60, 65, 59)
  <2>1. /\ 65 \in Int /\ 60 \in Int /\ 59 \in Int /\ 0 \in Int /\ 1 \in Int /\ 2 \in Int
        /\ 59 = 60 - 1 /\ 0 < 60 /\ 60 <= 80 /\ 0 <= 65 /\ 65 <= 80
    OBVIOUS
  <2> QED BY <1>2, <2>1, OneUnstep
<1>7. Leads(p, <<Step58>>, 65, 59, 65, 58)
  <2>1. /\ 65 \in Int /\ 59 \in Int /\ 58 \in Int /\ 0 \in Int /\ 1 \in Int /\ 2 \in Int
        /\ 58 = 59 - 1 /\ 0 < 59 /\ 59 <= 80 /\ 0 <= 65 /\ 65 <= 80
    OBVIOUS
  <2> QED BY <1>2, <2>1, OneUnstep
<1>8. Leads(p, <<Store58>>, 65, 58, 65, 58)
  <2>1. "f" # "b" /\ "b" \in Chains /\ 2 \in Int /\ 65 \in Int /\ 58 \in Int
    BY Ints
  <2> QED BY <1>2, <1>3, <2>1, Ints, OneStore
<1>9. Program(p) = <<Step64, Store65, Step59, Step58, Store58>>
  BY DEF Program, StatesFrom6064
<1> HIDE DEF p, Step64, Store65, Step59, Step58, Store58
<1>10. Leads(p, <<Step58, Store58>>, 65, 59, 65, 58)
  BY <1>7, <1>8, Pair, LeadsOn
<1>11. Leads(p, <<Step59, Step58, Store58>>, 65, 60, 65, 58)
  <2>1. <<Step59, Step58, Store58>> = <<Step59>> \o <<Step58, Store58>>
    OBVIOUS
  <2> QED BY <1>6, <1>10, <2>1, LeadsOn
<1>12. Leads(p, <<Store65, Step59, Step58, Store58>>, 65, 60, 65, 58)
  <2>1. <<Store65, Step59, Step58, Store58>> = <<Store65>> \o <<Step59, Step58, Store58>>
    OBVIOUS
  <2> QED BY <1>5, <1>11, <2>1, LeadsOn
<1>13. Leads(p, Program(p), 64, 60, 65, 58)
  <2>1. Program(p) = <<Step64>> \o <<Store65, Step59, Step58, Store58>>
    BY <1>9
  <2> QED BY <1>4, <1>12, <2>1, LeadsOn
<1> QED BY <1>1, <1>13, ComesAlong DEF p

(* Steps 58 and 59, which two programs begin their way on with.            *)
LEMMA Steps58Lead ==
  ASSUME NEW p, NEW b \in Int, 0 <= b, b <= 80, StartsAt(p, "f") = 58
  PROVE  Leads(p, Steps58, 58, b, 60, b)
<1>1. Turned(p, "f", 58) = 0 % 5 /\ Turned(p, "f", 59) = 4 % 5
  BY DEF Turned
<1>2. Leads(p, <<Call("f", "step", 0, 58)>>, 58, b, 59, b)
  BY <1>1, Ints, OneStep
<1>3. Leads(p, <<Call("f", "step", 4, 59)>>, 59, b, 60, b)
  BY <1>1, Ints, OneStep
<1>4. Steps58 = <<Call("f", "step", 0, 58)>> \o <<Call("f", "step", 4, 59)>>
  BY Pair DEF Steps58
<1> QED BY <1>2, <1>3, <1>4, LeadsOn

LEMMA Recompression58Comes == Comes("recompression_58")
<1> DEFINE p == "recompression_58"
           Step57 == Call("b", "unstep", 0, 57)
           Step56 == Call("b", "unstep", 1, 56)
           Step55 == Call("b", "unstep", 2, 55)
           Start == Store("b", 3, "start")
           End == Store("f", 3, "end")
<1>1. StartsAt(p, "f") = 58 /\ StartsAt(p, "b") = 58
  BY DEF StartsAt
<1>2. /\ Turned(p, "b", 58) = 0 % 5 /\ Turned(p, "b", 57) = 1 % 5
      /\ Turned(p, "b", 56) = 2 % 5 /\ Turned(p, "b", 55) = 3 /\ Turned(p, "f", 60) = 3
      /\ Turned(p, "b", 0) = 3 % 5 /\ Turned(p, "f", 80) = 3 % 5
  BY <1>1 DEF Turned
<1>3. BelongsAt(p, "start") = 0 /\ BelongsAt(p, "end") = 80
  BY DEF BelongsAt
<1>4. Leads(p, <<Step57>>, 58, 58, 58, 57)
  <2>1. /\ 58 \in Int /\ 58 \in Int /\ 57 \in Int /\ 0 \in Int /\ 1 \in Int /\ 2 \in Int
        /\ 57 = 58 - 1 /\ 0 < 58 /\ 58 <= 80 /\ 0 <= 58 /\ 58 <= 80
    OBVIOUS
  <2> QED BY <1>2, <2>1, OneUnstep
<1>5. Leads(p, <<Step56>>, 58, 57, 58, 56)
  <2>1. /\ 58 \in Int /\ 57 \in Int /\ 56 \in Int /\ 0 \in Int /\ 1 \in Int /\ 2 \in Int
        /\ 56 = 57 - 1 /\ 0 < 57 /\ 57 <= 80 /\ 0 <= 58 /\ 58 <= 80
    OBVIOUS
  <2> QED BY <1>2, <2>1, OneUnstep
<1>6. Leads(p, <<Step55>>, 58, 56, 58, 55)
  <2>1. /\ 58 \in Int /\ 56 \in Int /\ 55 \in Int /\ 0 \in Int /\ 1 \in Int /\ 2 \in Int
        /\ 55 = 56 - 1 /\ 0 < 56 /\ 56 <= 80 /\ 0 <= 58 /\ 58 <= 80
    OBVIOUS
  <2> QED BY <1>2, <2>1, OneUnstep
<1>7. Leads(p, Steps58, 58, 55, 60, 55)
  BY <1>1, Ints, Steps58Lead
<1>8. Leads(p, BothWays(3, 55, 60), 60, 55, 80, 0)
  BY <1>1, <1>2, BothWaysLead
<1>9. Leads(p, <<Start>>, 80, 0, 80, 0)
  <2>1. "f" # "b"
    OBVIOUS
  <2> QED BY <1>2, <1>3, <2>1, Ints, OneStore
<1>10. Leads(p, <<End>>, 80, 0, 80, 0)
  BY <1>2, <1>3, Ints, OneStore
<1>11. Program(p) = <<Step57, Step56, Step55>> \o Steps58 \o BothWays(3, 55, 60) \o <<Start, End>>
  BY DEF Program, Recompression58
<1> HIDE DEF p, Step57, Step56, Step55, Start, End
<1>12. Leads(p, <<Step56, Step55>>, 58, 57, 58, 55)
  BY <1>5, <1>6, Pair, LeadsOn
<1>13. Leads(p, <<Step57, Step56, Step55>>, 58, 58, 58, 55)
  <2>1. <<Step57, Step56, Step55>> = <<Step57>> \o <<Step56, Step55>>
    OBVIOUS
  <2> QED BY <1>4, <1>12, <2>1, LeadsOn
<1>14. Leads(p, <<Start, End>>, 80, 0, 80, 0)
  BY <1>9, <1>10, Pair, LeadsOn
<1>15. Leads(p, Program(p), 58, 58, 80, 0)
  <2>1. Leads(p, <<Step57, Step56, Step55>> \o Steps58, 58, 58, 60, 55)
    BY <1>7, <1>13, LeadsOn
  <2>2. Leads(p, <<Step57, Step56, Step55>> \o Steps58 \o BothWays(3, 55, 60),
              58, 58, 80, 0)
    BY <1>8, <2>1, LeadsOn
  <2> QED BY <1>11, <1>14, <2>2, LeadsOn
<1> QED BY <1>1, <1>15, ComesAlong DEF p

LEMMA Recompression65Comes == Comes("recompression_65")
<1> DEFINE p == "recompression_65"
           Start == Store("b", 0, "start")
           End == Store("f", 0, "end")
<1>1. StartsAt(p, "f") = 65 /\ StartsAt(p, "b") = 65
  BY DEF StartsAt
<1>2. /\ Turned(p, "b", 65) = 0 /\ Turned(p, "f", 65) = 0
      /\ Turned(p, "b", 0) = 0 % 5 /\ Turned(p, "f", 80) = 0 % 5
  BY <1>1 DEF Turned
<1>3. BelongsAt(p, "start") = 0 /\ BelongsAt(p, "end") = 80
  BY DEF BelongsAt
<1>4. Leads(p, BothWays(0, 65, 65), 65, 65, 80, 0)
  BY <1>1, <1>2, BothWaysLead
<1>5. Leads(p, <<Start>>, 80, 0, 80, 0)
  <2>1. "f" # "b"
    OBVIOUS
  <2> QED BY <1>2, <1>3, <2>1, Ints, OneStore
<1>6. Leads(p, <<End>>, 80, 0, 80, 0)
  BY <1>2, <1>3, Ints, OneStore
<1>7. Program(p) = BothWays(0, 65, 65) \o <<Start, End>>
  BY DEF Program, Recompression65
<1> HIDE DEF p, Start, End
<1>8. Leads(p, <<Start, End>>, 80, 0, 80, 0)
  BY <1>5, <1>6, Pair, LeadsOn
<1>9. Leads(p, Program(p), 65, 65, 80, 0)
  BY <1>4, <1>7, <1>8, LeadsOn
<1> QED BY <1>1, <1>9, ComesAlong DEF p

LEMMA BoundariesCome == Comes("boundary_58") /\ Comes("boundary_65")
<1>1. StartsAt("boundary_58", "f") = 58 /\ StartsAt("boundary_58", "b") = 58
      /\ StartsAt("boundary_65", "f") = 65 /\ StartsAt("boundary_65", "b") = 65
  BY DEF StartsAt
<1>2. Turned("boundary_58", "f", 60) = 3 % 5 /\ Turned("boundary_65", "f", 64) = 1 % 5
  BY <1>1 DEF Turned
<1>3. BelongsAt("boundary_58", "boundary") = 60 /\ BelongsAt("boundary_65", "boundary") = 64
  BY DEF BelongsAt
<1>4. Leads("boundary_58", Steps58, 58, 58, 60, 58)
  BY <1>1, Ints, Steps58Lead
<1>5. Leads("boundary_58", <<Store("f", 3, "boundary")>>, 60, 58, 60, 58)
  BY <1>2, <1>3, Ints, OneStore
<1>6. Leads("boundary_58", Program("boundary_58"), 58, 58, 60, 58)
  BY <1>4, <1>5, LeadsOn DEF Program
<1>7. Leads("boundary_65", <<Call("f", "unstep", 0, 64)>>, 65, 65, 64, 65)
  BY <1>1, OneBack
<1>8. Leads("boundary_65", <<Store("f", 1, "boundary")>>, 64, 65, 64, 65)
  BY <1>2, <1>3, Ints, OneStore
<1>9. Leads("boundary_65", Program("boundary_65"), 65, 65, 64, 65)
  <2>1. Program("boundary_65")
          = <<Call("f", "unstep", 0, 64)>> \o <<Store("f", 1, "boundary")>>
    BY Pair DEF Program
  <2> QED BY <1>7, <1>8, <2>1, LeadsOn
<1>10. Comes("boundary_58")
  BY <1>1, <1>6, ComesAlong
<1>11. Comes("boundary_65")
  BY <1>1, <1>9, ComesAlong
<1> QED BY <1>10, <1>11

LEMMA EveryProgramComes ==
  ASSUME NEW p \in AllPrograms
  PROVE  Comes(p)
BY CompressionComes, ScalarComes, StatesComes, Recompression58Comes,
   Recompression65Comes, BoundariesCome DEF AllPrograms

-----------------------------------------------------------------------------
(* A step writes over one name and rotates another, and the five names one *)
(* place back spell the state after it; the same for a step undone, one    *)
(* place on.                                                               *)
LEMMA StepOnNames ==
  ASSUME NEW five \in [0 .. 4 -> Word], NEW n \in 0 .. 4, NEW t \in 0 .. 79,
         NEW w \in Word
  PROVE  /\ StepOn(five, n, t, w) \in [0 .. 4 -> Word]
         /\ Named(StepOn(five, n, t, w), (n + 4) % 5) = Step(t, Named(five, n), w)
<1> DEFINE q == t \div 20
           n1 == (n + 1) % 5
           n2 == (n + 2) % 5
           n3 == (n + 3) % 5
           n4 == (n + 4) % 5
           added == Added(q, five[n], five[n1], five[n2], five[n3], w)
           last == Plus(five[n4], added)
           turned == Rol(30, five[n1])
           next == StepOn(five, n, t, w)
<1>1. /\ n1 \in 0 .. 4 /\ n2 \in 0 .. 4 /\ n3 \in 0 .. 4 /\ n4 \in 0 .. 4
      /\ (n4 + 1) % 5 = n /\ (n4 + 2) % 5 = n1 /\ (n4 + 3) % 5 = n2 /\ (n4 + 4) % 5 = n3
      /\ n1 # n /\ n2 # n /\ n3 # n /\ n4 # n /\ n2 # n1 /\ n3 # n1 /\ n4 # n1
      /\ n3 # n2 /\ n4 # n2 /\ n4 # n3
  OBVIOUS
<1>2. q \in 0 .. 3
  BY Quarter
<1>3. Named(five, n) = <<five[n], five[n1], five[n2], five[n3], five[n4]>>
  BY DEF Named
<1>4. next = [five EXCEPT ![n4] = last, ![n1] = turned]
  <2>1. next = [five EXCEPT ![n4] = Plus(@, Added(q, five[n], five[n1], five[n2], five[n3], w)),
                            ![n1] = Rol(30, @)]
    BY <1>3 DEF StepOn
  <2> QED BY <1>1, <2>1
<1> HIDE DEF q, n1, n2, n3, n4
<1>5. added \in Word
  BY <1>1, <1>2, AddedType
<1>6. last \in Word /\ turned \in Word
  BY <1>1, <1>5, WordAssumption
<1>7. Step(t, <<five[n], five[n1], five[n2], five[n3], five[n4]>>, w)
        = <<last, five[n], turned, five[n2], five[n3]>>
  BY DEF Step, q
<1> HIDE DEF added, last, turned, next
<1>8. /\ next \in [0 .. 4 -> Word]
      /\ next[n4] = last /\ next[n1] = turned
      /\ next[n] = five[n] /\ next[n2] = five[n2] /\ next[n3] = five[n3]
  BY <1>1, <1>4, <1>6
<1>9. Named(next, n4) = <<last, five[n], turned, five[n2], five[n3]>>
  BY <1>1, <1>8 DEF Named
<1> QED BY <1>3, <1>7, <1>8, <1>9 DEF next, n4

LEMMA UnstepOnNames ==
  ASSUME NEW five \in [0 .. 4 -> Word], NEW n \in 0 .. 4, NEW t \in 0 .. 79,
         NEW w \in Word
  PROVE  /\ UnstepOn(five, n, t, w) \in [0 .. 4 -> Word]
         /\ Named(UnstepOn(five, n, t, w), (n + 1) % 5) = Unstep(t, Named(five, n), w)
<1> DEFINE q == t \div 20
           n1 == (n + 1) % 5
           n2 == (n + 2) % 5
           n3 == (n + 3) % 5
           n4 == (n + 4) % 5
           turned == Ror(30, five[n2])
           added == Added(q, five[n1], turned, five[n3], five[n4], w)
           first == Minus(five[n], added)
           next == UnstepOn(five, n, t, w)
<1>1. /\ n1 \in 0 .. 4 /\ n2 \in 0 .. 4 /\ n3 \in 0 .. 4 /\ n4 \in 0 .. 4
      /\ (n1 + 1) % 5 = n2 /\ (n1 + 2) % 5 = n3 /\ (n1 + 3) % 5 = n4 /\ (n1 + 4) % 5 = n
      /\ n1 # n /\ n2 # n /\ n3 # n /\ n4 # n /\ n2 # n1 /\ n3 # n1 /\ n4 # n1
      /\ n3 # n2 /\ n4 # n2 /\ n4 # n3
  OBVIOUS
<1>2. q \in 0 .. 3
  BY Quarter
<1>3. Named(five, n) = <<five[n], five[n1], five[n2], five[n3], five[n4]>>
  BY DEF Named
<1>4. next = [five EXCEPT ![n2] = turned, ![n] = first]
  <2>1. next = [five EXCEPT ![n2] = turned, ![n] = Minus(@, added)]
    BY <1>3 DEF UnstepOn
  <2> QED BY <1>1, <2>1
<1> HIDE DEF q, n1, n2, n3, n4
<1>5. turned \in Word
  BY <1>1, WordAssumption
<1>7. Unstep(t, <<five[n], five[n1], five[n2], five[n3], five[n4]>>, w)
        = <<five[n1], turned, five[n3], five[n4], first>>
  BY DEF Unstep, q
<1> HIDE DEF turned
<1>6. added \in Word
  BY <1>1, <1>2, <1>5, AddedType
<1>10. first \in Word
  BY <1>1, <1>6, WordAssumption
<1> HIDE DEF added, first, next
<1>8. /\ next \in [0 .. 4 -> Word]
      /\ next[n2] = turned /\ next[n] = first
      /\ next[n1] = five[n1] /\ next[n3] = five[n3] /\ next[n4] = five[n4]
  BY <1>1, <1>4, <1>5, <1>10
<1>9. Named(next, n1) = <<five[n1], turned, five[n3], five[n4], first>>
  BY <1>1, <1>8 DEF Named
<1> QED BY <1>3, <1>7, <1>8, <1>9 DEF next, n1

LEMMA TurnedTurns ==
  ASSUME NEW p \in AllPrograms, NEW chain \in Chains, NEW t \in Int
  PROVE  /\ Turned(p, chain, t) \in 0 .. 4
         /\ Turned(p, chain, t + 1) = (Turned(p, chain, t) + 4) % 5
         /\ Turned(p, chain, t - 1) = (Turned(p, chain, t) + 1) % 5
<1>1. PICK x \in Int : x = StartsAt(p, chain)
  BY DEF StartsAt, AllPrograms, Chains
<1>2. /\ (x - t) % 5 \in 0 .. 4
      /\ (x - (t + 1)) % 5 = (((x - t) % 5) + 4) % 5
      /\ (x - (t - 1)) % 5 = (((x - t) % 5) + 1) % 5
  OBVIOUS
<1> QED BY <1>1, <1>2 DEF Turned

(* The inductive invariant: the names, read from where the steps taken have *)
(* turned them to, spell the state, and the calls to come run on from here. *)
ProgramTypeOK ==
  /\ program \in AllPrograms /\ input.w \in Words
  /\ names \in [Chains -> [0 .. 4 -> Word]]
  /\ plain \in [Chains -> State] /\ reached \in Places

Spelled ==
  \A chain \in Chains :
    Named(names[chain], Turned(program, chain, reached[chain])) = plain[chain]

ProgramIInv ==
  /\ ProgramTypeOK
  /\ Spelled
  /\ todo \in Seq(Calls) /\ \E last : Runs(program, todo, reached, last)

LEMMA ProgramInitIInv == ProgramInit => ProgramIInv
<1> SUFFICES ASSUME ProgramInit PROVE ProgramIInv
  OBVIOUS
<1>1. program \in AllPrograms /\ input \in [w : Words, first : State, second : State]
  BY InputsAssumption DEF ProgramInit
<1>2. plain \in [Chains -> State]
  BY <1>1 DEF ProgramInit
<1>3. \A chain \in Chains : names[chain] = [n \in 0 .. 4 |-> plain[chain][n + 1]]
  BY DEF ProgramInit
<1>4. \A s \in State : /\ [n \in 0 .. 4 |-> s[n + 1]] \in [0 .. 4 -> Word]
                       /\ Named([n \in 0 .. 4 |-> s[n + 1]], 0) = s
  <2> TAKE s \in State
  <2>1. PICK a, b, cc, d, e \in Word : s = <<a, b, cc, d, e>>
    BY DEF State
  <2>2. s[1] = a /\ s[2] = b /\ s[3] = cc /\ s[4] = d /\ s[5] = e
    BY <2>1
  <2> DEFINE five == [n \in 0 .. 4 |-> s[n + 1]]
  <2>3. five[0] = a /\ five[1] = b /\ five[2] = cc /\ five[3] = d /\ five[4] = e
    BY <2>2
  <2>4. five \in [0 .. 4 -> Word]
    BY <2>2
  <2> HIDE DEF five
  <2>5. Named(five, 0) = <<a, b, cc, d, e>>
    BY <2>3 DEF Named
  <2> QED BY <2>1, <2>4, <2>5 DEF five
<1>5. names \in [Chains -> [0 .. 4 -> Word]]
  BY <1>2, <1>4 DEF ProgramInit
<1>6. \A chain \in Chains : reached[chain] = StartsAt(program, chain)
  BY DEF ProgramInit
<1>7. reached \in Places
  BY <1>1, <1>6 DEF ProgramInit, Places, StartsAt, AllPrograms, Chains
<1>8. \A chain \in Chains : Turned(program, chain, reached[chain]) = 0
  <2> TAKE chain \in Chains
  <2>1. PICK x \in Int : x = StartsAt(program, chain)
    BY <1>1 DEF StartsAt, AllPrograms, Chains
  <2> QED BY <1>6, <2>1 DEF Turned
<1>9. Spelled
  BY <1>2, <1>3, <1>4, <1>8 DEF Spelled
<1>10. Comes(program)
  BY <1>1, EveryProgramComes
<1>11. todo \in Seq(Calls) /\ \E last : Runs(program, todo, reached, last)
  BY <1>10 DEF ProgramInit, Comes
<1> QED BY <1>1, <1>2, <1>5, <1>7, <1>9, <1>11 DEF ProgramIInv, ProgramTypeOK

(* What the invariant says of the next call.                               *)
LEMMA NextCall ==
  ASSUME ProgramIInv, todo # << >>
  PROVE  /\ todo[1] \in Calls /\ Fits(program, todo[1], reached)
         /\ Moved(todo[1], reached) \in Places
         /\ Tail(todo) \in Seq(Calls)
         /\ \E last : Runs(program, Tail(todo), Moved(todo[1], reached), last)
<1>1. PICK last : todo \in Seq(Calls) /\ Runs(program, todo, reached, last)
  BY DEF ProgramIInv
<1>2. PICK p, calls, u : p = program /\ calls = todo /\ u = reached
  OBVIOUS
<1>3. /\ calls[1] \in Calls /\ Tail(calls) \in Seq(Calls) /\ Fits(p, calls[1], u)
      /\ Moved(calls[1], u) \in Places /\ Runs(p, Tail(calls), Moved(calls[1], u), last)
  BY <1>1, <1>2, RunsFirst
<1> QED BY <1>2, <1>3

LEMMA RunStepIInv ==
  ASSUME ProgramIInv, RunStep
  PROVE  ProgramIInv'
<1>1. PICK call : call = todo[1]
  OBVIOUS
<1>2. /\ call \in Calls /\ Fits(program, call, reached) /\ Moved(call, reached) \in Places
      /\ Tail(todo) \in Seq(Calls)
      /\ \E last : Runs(program, Tail(todo), Moved(call, reached), last)
  BY <1>1, NextCall DEF RunStep
<1>3. call.kind = "step" /\ call.chain \in Chains /\ call.n \in 0 .. 4
  BY <1>1, <1>2 DEF RunStep, Calls
<1>4. PICK chain \in Chains : chain = call.chain
  BY <1>3
<1>5. PICK t \in 0 .. 79 :
        /\ t = call.t /\ t = reached[chain] /\ call.n = Turned(program, chain, t)
        /\ reached[chain] \in 0 .. 80
  <2>1. reached[chain] \in 0 .. 80
    BY DEF ProgramIInv, ProgramTypeOK, Places
  <2>2. /\ call.t = reached[chain] /\ call.t < 80
        /\ call.n = Turned(program, chain, reached[chain])
    BY <1>2, <1>3, <1>4 DEF Fits
  <2> QED BY <2>1, <2>2
<1>6. PICK n \in 0 .. 4, w \in Word : n = call.n /\ w = input.w[t]
  BY <1>3, <1>5 DEF ProgramIInv, ProgramTypeOK, Words
<1>7. PICK five \in [0 .. 4 -> Word], s \in State : five = names[chain] /\ s = plain[chain]
  BY DEF ProgramIInv, ProgramTypeOK
<1>8. Named(five, n) = s
  BY <1>5, <1>6, <1>7 DEF ProgramIInv, Spelled
<1>9. /\ names' = [names EXCEPT ![chain] = StepOn(five, n, t, w)]
      /\ plain' = [plain EXCEPT ![chain] = Step(t, s, w)]
      /\ reached' = [reached EXCEPT ![chain] = t + 1]
      /\ todo' = Tail(todo) /\ program' = program /\ input' = input
  BY <1>1, <1>4, <1>5, <1>6, <1>7 DEF RunStep, ProgramIInv, ProgramTypeOK, Places
<1>10. /\ StepOn(five, n, t, w) \in [0 .. 4 -> Word]
       /\ Named(StepOn(five, n, t, w), (n + 4) % 5) = Step(t, s, w)
       /\ Step(t, s, w) \in State
  BY <1>8, StepOnNames, StepType
<1>11. reached' = Moved(call, reached)
  BY <1>3, <1>4, <1>5, <1>9 DEF Moved
<1>12. ProgramTypeOK'
  BY <1>2, <1>9, <1>10, <1>11 DEF ProgramIInv, ProgramTypeOK
<1>13. Turned(program, chain, t + 1) = (n + 4) % 5
  <2>1. PICK p \in AllPrograms : p = program
    BY DEF ProgramIInv, ProgramTypeOK
  <2>2. Turned(p, chain, t + 1) = (Turned(p, chain, t) + 4) % 5
    BY TurnedTurns
  <2> QED BY <1>5, <1>6, <2>1, <2>2
<1>14. Spelled'
  <2>1. ASSUME NEW other \in Chains
        PROVE  Named(names'[other], Turned(program', other, reached'[other])) = plain'[other]
    <3>1. CASE other = chain
      <4>1. /\ names'[other] = StepOn(five, n, t, w) /\ plain'[other] = Step(t, s, w)
            /\ reached'[other] = t + 1 /\ program' = program
        BY <1>9, <3>1 DEF ProgramIInv, ProgramTypeOK, Places
      <4> QED BY <1>10, <1>13, <3>1, <4>1
    <3>2. CASE other # chain
      <4>1. /\ names'[other] = names[other] /\ plain'[other] = plain[other]
            /\ reached'[other] = reached[other] /\ program' = program
        BY <1>9, <3>2 DEF ProgramIInv, ProgramTypeOK, Places
      <4> QED BY <4>1 DEF ProgramIInv, Spelled
    <3> QED BY <3>1, <3>2
  <2> QED BY <2>1 DEF Spelled
<1>15. (todo \in Seq(Calls) /\ \E last : Runs(program, todo, reached, last))'
  BY <1>2, <1>9, <1>11
<1> QED BY <1>12, <1>14, <1>15 DEF ProgramIInv

LEMMA RunUnstepIInv ==
  ASSUME ProgramIInv, RunUnstep
  PROVE  ProgramIInv'
<1>1. PICK call : call = todo[1]
  OBVIOUS
<1>2. /\ call \in Calls /\ Fits(program, call, reached) /\ Moved(call, reached) \in Places
      /\ Tail(todo) \in Seq(Calls)
      /\ \E last : Runs(program, Tail(todo), Moved(call, reached), last)
  BY <1>1, NextCall DEF RunUnstep
<1>3. call.kind = "unstep" /\ call.chain \in Chains /\ call.n \in 0 .. 4
  BY <1>1, <1>2 DEF RunUnstep, Calls
<1>4. PICK chain \in Chains : chain = call.chain
  BY <1>3
<1>5. PICK t \in 0 .. 79 :
        /\ t = call.t /\ t = reached[chain] - 1
        /\ call.n = Turned(program, chain, t + 1)
        /\ reached[chain] \in 0 .. 80
  <2>1. reached[chain] \in 0 .. 80
    BY DEF ProgramIInv, ProgramTypeOK, Places
  <2>2. /\ call.t = reached[chain] - 1 /\ call.t >= 0
        /\ call.n = Turned(program, chain, reached[chain])
    BY <1>2, <1>3, <1>4 DEF Fits
  <2>3. PICK t \in 0 .. 79 : t = call.t /\ t = reached[chain] - 1
    BY <2>1, <2>2
  <2>4. t + 1 = reached[chain]
    BY <2>1, <2>3
  <2> QED BY <2>1, <2>2, <2>3, <2>4
<1>6. PICK n \in 0 .. 4, w \in Word : n = call.n /\ w = input.w[t]
  BY <1>3, <1>5 DEF ProgramIInv, ProgramTypeOK, Words
<1>7. PICK five \in [0 .. 4 -> Word], s \in State : five = names[chain] /\ s = plain[chain]
  BY DEF ProgramIInv, ProgramTypeOK
<1>8. Named(five, n) = s
  <2>1. t + 1 = reached[chain]
    BY <1>5
  <2> QED BY <1>5, <1>6, <1>7, <2>1 DEF ProgramIInv, Spelled
<1>9. /\ names' = [names EXCEPT ![chain] = UnstepOn(five, n, t, w)]
      /\ plain' = [plain EXCEPT ![chain] = Unstep(t, s, w)]
      /\ reached' = [reached EXCEPT ![chain] = t]
      /\ todo' = Tail(todo) /\ program' = program /\ input' = input
  BY <1>1, <1>4, <1>5, <1>6, <1>7 DEF RunUnstep, ProgramIInv, ProgramTypeOK, Places
<1>10. /\ UnstepOn(five, n, t, w) \in [0 .. 4 -> Word]
       /\ Named(UnstepOn(five, n, t, w), (n + 1) % 5) = Unstep(t, s, w)
       /\ Unstep(t, s, w) \in State
  BY <1>8, UnstepOnNames, StepType
<1>11. reached' = Moved(call, reached)
  BY <1>3, <1>4, <1>5, <1>9 DEF Moved
<1>12. ProgramTypeOK'
  BY <1>2, <1>9, <1>10, <1>11 DEF ProgramIInv, ProgramTypeOK
<1>13. Turned(program, chain, t) = (n + 1) % 5
  <2>1. PICK p \in AllPrograms : p = program
    BY DEF ProgramIInv, ProgramTypeOK
  <2>2. PICK u \in Int : u = t + 1 /\ u - 1 = t
    OBVIOUS
  <2>3. Turned(p, chain, u - 1) = (Turned(p, chain, u) + 1) % 5
    BY TurnedTurns
  <2> QED BY <1>5, <1>6, <2>1, <2>2, <2>3
<1>14. Spelled'
  <2>1. ASSUME NEW other \in Chains
        PROVE  Named(names'[other], Turned(program', other, reached'[other])) = plain'[other]
    <3>1. CASE other = chain
      <4>1. /\ names'[other] = UnstepOn(five, n, t, w) /\ plain'[other] = Unstep(t, s, w)
            /\ reached'[other] = t /\ program' = program
        BY <1>9, <3>1 DEF ProgramIInv, ProgramTypeOK, Places
      <4> QED BY <1>10, <1>13, <3>1, <4>1
    <3>2. CASE other # chain
      <4>1. /\ names'[other] = names[other] /\ plain'[other] = plain[other]
            /\ reached'[other] = reached[other] /\ program' = program
        BY <1>9, <3>2 DEF ProgramIInv, ProgramTypeOK, Places
      <4> QED BY <4>1 DEF ProgramIInv, Spelled
    <3> QED BY <3>1, <3>2
  <2> QED BY <2>1 DEF Spelled
<1>15. (todo \in Seq(Calls) /\ \E last : Runs(program, todo, reached, last))'
  BY <1>2, <1>9, <1>11
<1> QED BY <1>12, <1>14, <1>15 DEF ProgramIInv

LEMMA RunStoreIInv ==
  ASSUME ProgramIInv, RunStore
  PROVE  ProgramIInv'
<1>1. PICK call : call = todo[1]
  OBVIOUS
<1>2. /\ call \in Calls /\ Tail(todo) \in Seq(Calls)
      /\ \E last : Runs(program, Tail(todo), Moved(call, reached), last)
  BY <1>1, NextCall DEF RunStore
<1>3. call.kind # "step" /\ call.kind # "unstep"
  BY <1>1 DEF RunStore
<1>4. Moved(call, reached) = reached
  BY <1>3 DEF Moved, ProgramIInv, ProgramTypeOK, Places
<1>5. ProgramTypeOK' /\ Spelled'
  BY DEF RunStore, ProgramIInv, ProgramTypeOK, Spelled
<1>6. (todo \in Seq(Calls) /\ \E last : Runs(program, todo, reached, last))'
  BY <1>2, <1>4 DEF RunStore
<1> QED BY <1>5, <1>6 DEF ProgramIInv

LEMMA ProgramNextIInv == ProgramIInv /\ [ProgramNext]_programVars => ProgramIInv'
<1> SUFFICES ASSUME ProgramIInv, [ProgramNext]_programVars PROVE ProgramIInv'
  OBVIOUS
<1>1. CASE RunStep
  BY <1>1, RunStepIInv
<1>2. CASE RunUnstep
  BY <1>2, RunUnstepIInv
<1>3. CASE RunStore
  BY <1>3, RunStoreIInv
<1>4. CASE UNCHANGED programVars
  BY <1>4 DEF programVars, ProgramIInv, ProgramTypeOK, Spelled
<1> QED BY <1>1, <1>2, <1>3, <1>4 DEF ProgramNext

LEMMA IInvLinesUp == ProgramIInv => StepsLineUp
<1> SUFFICES ASSUME ProgramIInv, todo # << >> PROVE StepsLineUp
  BY DEF StepsLineUp
<1>1. PICK call : call = todo[1]
  OBVIOUS
<1>2. call \in Calls /\ Fits(program, call, reached)
  BY <1>1, NextCall
<1>3. call.chain \in Chains /\ reached[call.chain] \in 0 .. 80 /\ call.t \in Int
  BY <1>2 DEF Calls, ProgramIInv, ProgramTypeOK, Places
<1>4. Named(names[call.chain], call.n) = plain[call.chain]
  BY <1>2, <1>3 DEF Fits, ProgramIInv, Spelled
<1>5. reached[call.chain] = CASE call.kind = "step" -> call.t
                              [] call.kind = "unstep" -> call.t + 1
                              [] OTHER -> BelongsAt(program, call.kind)
  <2>1. CASE call.kind = "step"
    BY <1>2, <2>1 DEF Fits
  <2>2. CASE call.kind = "unstep"
    <3>1. call.t = reached[call.chain] - 1
      BY <1>2, <2>2 DEF Fits
    <3>2. reached[call.chain] = call.t + 1
      <4>1. PICK r \in 0 .. 80 : r = reached[call.chain]
        BY <1>3
      <4>2. PICK t \in Int : t = call.t
        BY <1>3
      <4>3. t = r - 1
        BY <3>1, <4>1, <4>2
      <4>4. r = t + 1
        BY ONLY r \in 0 .. 80, t \in Int, <4>3
      <4> QED BY ONLY <4>1, <4>2, <4>4
    <3> QED BY <2>2, <3>2
  <2>3. CASE call.kind \notin {"step", "unstep"}
    BY <1>2, <2>3 DEF Fits
  <2> QED BY <2>1, <2>2, <2>3
<1> QED BY <1>1, <1>4, <1>5 DEF StepsLineUp

(* Every program of macro calls keeps the invariant: what is still to run *)
(* fits where its chains are, and the names spell their states.            *)
THEOREM SpecProgramIInv == ProgramSpec => []ProgramIInv
<1>1. ProgramInit => ProgramIInv
  BY ProgramInitIInv
<1>2. ProgramIInv /\ [ProgramNext]_programVars => ProgramIInv'
  BY ProgramNextIInv
<1> QED BY <1>1, <1>2, PTL DEF ProgramSpec

(* For any words with the laws Steps names, the names every macro call and *)
(* every store is given spell the state at the step it belongs to.         *)
THEOREM SpecStepsLineUp == ProgramSpec => []StepsLineUp
<1>1. ProgramIInv => StepsLineUp
  BY IInvLinesUp
<1> QED BY <1>1, SpecProgramIInv, PTL
=============================================================================
