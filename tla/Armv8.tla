------------------------------- MODULE Armv8 -------------------------------
(***************************************************************************)
(* The ARMv8 backend (src/block/backend/armv8.rs), a group of four rounds  *)
(* at a time.  The schedule runs ahead of the rounds in two halves, in     *)
(* four registers used in turn: when a group runs, vsha1su1 completes the  *)
(* words of three groups on, which vsha1su0 began the group before, and    *)
(* begins those of four on.  The constant is added two groups ahead.       *)
(***************************************************************************)
EXTENDS Schoolbook

VARIABLES
  phase,         (* "compress", "ensure", "start", "out", "in" or "done"    *)
  g,             (* the group to run next                                   *)
  abcd,
  e,             (* e0 and e1, the fifth words of even and of odd groups    *)
  tmp,           (* tmp0 and tmp1, words with their constant                *)
  msg,           (* msg0 .. msg3                                            *)
  w,             (* the Schedule's array                                    *)
  at_60, at_64,  (* once ensure_states is done, of steps 58 and 65          *)
  state,
  at,            (* recompress's own                                        *)
  attack         (* what recompress answers                                 *)

compression == <<tmp, msg, w, state>>
vars == <<input, phase, g, abcd, e, compression, at_60, at_64, at, attack,
          partner, school>>

-----------------------------------------------------------------------------
load_abcd(s) == <<s[1], s[2], s[3], s[4]>>
WithFifth(four, fifth) == <<four[1], four[2], four[3], four[4], fifth>>

Quarter(k) == k \div 5

(* vaddq_u32 of the constant of group k.                                   *)
WithConstant(x, k) ==
  LET c == K[Quarter(k)]
  IN PlusAll(x, <<c, c, c, c>>)

BlockGroup(k) == <<input.m[4 * k + 1], input.m[4 * k + 2],
                   input.m[4 * k + 3], input.m[4 * k + 4]>>

Init ==
  /\ SchoolStarts
  /\ phase = "compress" /\ g = 0
  /\ abcd = load_abcd(input.ihv)
  /\ e = [i \in 0 .. 1 |-> input.ihv[5]]
  /\ msg = [k \in 0 .. 3 |-> BlockGroup(k)]
  /\ tmp = [i \in 0 .. 1 |-> WithConstant(msg[i], i)]
  /\ w = Spilled(FALSE, Spilled(FALSE, Spilled(FALSE, Spilled(FALSE, input.stale,
           0, msg[0]), 4, msg[1]), 8, msg[2]), 12, msg[3])
  /\ state = input.ihv /\ at_60 = state /\ at_64 = state /\ at = state
  /\ attack = FALSE

(* vsha1su1: the words of group k + 3, over those of k - 1.                *)
Completed(k) ==
  IF k \in 1 .. 16 THEN [msg EXCEPT ![(k + 3) % 4] = vsha1su1(@, msg[(k + 2) % 4])] ELSE msg

(* vsha1su0: the words of group k + 4 begun, over those of k.              *)
Begun(regs, k) ==
  IF k < 16
  THEN [regs EXCEPT ![k % 4] = vsha1su0(regs[k % 4], regs[(k + 1) % 4], regs[(k + 2) % 4])]
  ELSE regs

(* Rounds 4g to 4g + 3, and what is done between them and the next.        *)
Rounds ==
  /\ phase = "compress" /\ g < 20
  /\ at_60' = IF g = 15 THEN WithFifth(abcd, e[1]) ELSE at_60
  /\ at_64' = IF g = 16 THEN WithFifth(abcd, e[0]) ELSE at_64
  /\ e' = [e EXCEPT ![(g + 1) % 2] = vsha1h(abcd[1])]
  /\ abcd' = vsha1(abcd, e[g % 2], tmp[g % 2], Quarter(g))
  /\ tmp' = IF g < 18 THEN [tmp EXCEPT ![g % 2] = WithConstant(msg[(g + 2) % 4], g + 2)]
            ELSE tmp
  /\ LET regs == Completed(g) IN
       /\ w' = IF g \in 1 .. 16 THEN Spilled(FALSE, w, 4 * (g + 3), regs[(g + 3) % 4]) ELSE w
       /\ msg' = Begun(regs, g)
  /\ g' = g + 1
  /\ FourStepsOn /\ FourWordsOn
  /\ UNCHANGED <<input, phase, state, at, attack, partner>>

FeedForward ==
  /\ phase = "compress" /\ g = 20
  /\ abcd' = PlusAll(load_abcd(input.ihv), abcd)
  /\ e' = [e EXCEPT ![0] = Plus(e[0], input.ihv[5])]
  /\ state' = WithFifth(abcd', e'[0])
  /\ phase' = "ensure"
  /\ UNCHANGED <<input, g, tmp, msg, w, at_60, at_64, at, attack, partner, school>>

-----------------------------------------------------------------------------
(* Schedule::at.                                                           *)
Stored == [t \in 0 .. 79 |-> w[At(FALSE, t)]]

(* ensure_states: the stored states, for a block with a candidate.         *)
EnsureStates ==
  /\ phase = "ensure"
  /\ LET s == StatesFrom6064(at_60, at_64, Stored) IN
       /\ at_60' = s.state_58
       /\ at_64' = s.state_65
  /\ phase' = "start"
  /\ UNCHANGED <<input, g, abcd, e, compression, at, attack, partner, school>>

(* recompress, as far as the group boundary; its one `e` is e0 here.       *)
StartRecompress ==
  /\ phase = "start"
  /\ at' = BoundaryState(IF input.step = 58 THEN at_60 ELSE at_64, Stored)
  /\ abcd' = load_abcd(at')
  /\ e' = [e EXCEPT ![0] = at'[5]]
  /\ partner' = at'
  /\ phase' = "out" /\ g' = BoundaryStep \div 4
  /\ UNCHANGED <<input, compression, at_60, at_64, attack, school>>

(* wk: the partner's group and its constant.                               *)
wk ==
  WithConstant(XorAll(Loaded(FALSE, w, 4 * g),
                      <<input.dm[4 * g], input.dm[4 * g + 1],
                        input.dm[4 * g + 2], input.dm[4 * g + 3]>>), g)


(* group!                                                                  *)
Group ==
  /\ abcd' = vsha1(abcd, e[0], wk, Quarter(g))
  /\ e' = [e EXCEPT ![0] = vsha1h(abcd[1])]
  /\ g' = g + 1
  /\ PartnerFourOn(4 * g)
  /\ UNCHANGED <<input, phase, compression, at_60, at_64, at, attack, school>>

GroupOut == phase = "out" /\ g < 20 /\ Group
GroupIn == phase = "in" /\ g < BoundaryStep \div 4 /\ Group

TurnRound_FifthOtherWay ==
  /\ phase = "out" /\ g = 20
  /\ abcd' = MinusAll(load_abcd(state), abcd)
  /\ e' = [e EXCEPT ![0] = Minus(e[0], state[5])]
  /\ partner' = Difference(state, partner)
  /\ phase' = "in" /\ g' = 0
  /\ UNCHANGED <<input, compression, at_60, at_64, at, attack, school>>

(* The block's output less the partner's state at 80.                      *)
TurnRound ==
  /\ phase = "out" /\ g = 20
  /\ abcd' = MinusAll(load_abcd(state), abcd)
  /\ e' = [e EXCEPT ![0] = Minus(state[5], e[0])]
  /\ partner' = Difference(state, partner)
  /\ phase' = "in" /\ g' = 0
  /\ UNCHANGED <<input, compression, at_60, at_64, at, attack, school>>

Compare ==
  /\ phase = "in" /\ g = BoundaryStep \div 4
  /\ attack' = (WithFifth(abcd, e[0]) = at)
  /\ phase' = "done"
  /\ UNCHANGED <<input, g, abcd, e, compression, at_60, at_64, at, partner, school>>

Next ==
  \/ Rounds
  \/ FeedForward
  \/ EnsureStates
  \/ StartRecompress
  \/ GroupOut
  \/ TurnRound
  \/ GroupIn
  \/ Compare

Spec == Init /\ [][Next]_vars
-----------------------------------------------------------------------------
(* Between groups the registers spell the state, and the words and the     *)
(* constant of the next two groups are the ones set aside for them: the    *)
(* constant changes at groups 5, 10 and 15, two groups after it is added.  *)
RegistersSpellState ==
  /\ phase = "compress" =>
       /\ WithFifth(abcd, e[g % 2]) = StateAt(4 * g)
       /\ \A k \in g .. (IF g < 19 THEN g + 1 ELSE 19) :
            tmp[k % 2] = [i \in 1 .. 4 |-> Plus(W(4 * k + i - 1), K[Quarter(k)])]
  /\ phase \in {"out", "in"} => WithFifth(abcd, e[0]) = partner

(* Three groups ahead of the rounds, the spill has the schedule so far.    *)
SpilledInStepOrder ==
  \A t \in 0 .. 79 :
    w[At(FALSE, t)] = IF phase # "compress" \/ t < 4 * (IF g = 0 THEN 4 ELSE g + 3) THEN W(t)
                      ELSE input.stale[At(FALSE, t)]

(* The call leaves the digest of the block and, after ensure_states, its   *)
(* states at steps 58 and 65.                                              *)
LeavesDigestAndStates ==
  /\ phase # "compress" => state = Sum(input.ihv, StateAt(80))
  /\ phase \notin {"compress", "ensure"} =>
       /\ input.step = 58 => at_60 = StateAt(58)
       /\ at_64 = StateAt(65)

(* recompress answers what a run of the partner over plain words does.     *)
AnswersForPartner == phase = "done" => (attack <=> partner = at)
=============================================================================
