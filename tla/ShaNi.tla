------------------------------- MODULE ShaNi -------------------------------
(***************************************************************************)
(* The SHA-NI backend (src/block/backend/x86/sha_ni.rs), a group of four   *)
(* rounds at a time: a block compressed and its schedule spilled, the      *)
(* stored states finished (ensure_states, src/block/backend.rs), and a     *)
(* candidate recompressed.                                                 *)
(*                                                                         *)
(* The fifth word is carried in two registers that take turns.  The live   *)
(* one comes in holding the state before the latest group, which           *)
(* sha1nexte takes the word from; the other is where the state is put      *)
(* aside for the group after.                                              *)
(***************************************************************************)
EXTENDS Schoolbook

VARIABLES
  phase,         (* "compress", "ensure", "start", "out", "in" or "done"    *)
  g,             (* the group to run next                                   *)
  abcd, e0, e1,
  v,             (* groups of the schedule, those computed so far           *)
  w,             (* the Schedule's array                                    *)
  at_60, at_64,  (* as held; once ensure_states is done, of steps 58 and 65 *)
  state,
  e_in,          (* the fifth word a run starts from, in the top lane       *)
  at, held,      (* recompress's own                                        *)
  attack         (* what recompress answers                                 *)

compression == <<e0, e1, v, w, state>>
vars == <<input, phase, g, abcd, compression, at_60, at_64, e_in, at, held, attack,
          partner, school>>

-----------------------------------------------------------------------------
(* _mm_set_epi32 of a fifth word.                                          *)
Top(x) == <<Zero, Zero, Zero, x>>

load_abcd(s) == <<s[4], s[3], s[2], s[1]>>

(* store_abcd, and the fifth word behind.                                  *)
InOrder(four, e) == <<four[4], four[3], four[2], four[1], e>>

msg(m, k) == Reversed(<<m[4 * k + 1], m[4 * k + 2], m[4 * k + 3], m[4 * k + 4]>>)

expand_ni(a, b, c, d) == sha1msg2(XorAll(sha1msg1(a, b), c), d)

(* The group four on, by the instructions up to word 31.                   *)
NextGroup ==
  IF g + 4 < 8 THEN expand_ni(v[g], v[g + 1], v[g + 2], v[g + 3])
  ELSE expand_rol2(v[g - 4], v[g - 3], v[g], v[g + 2], v[g + 3])

Quarter(k) == k \div 5

Init ==
  /\ SchoolStarts
  /\ phase = "compress" /\ g = 0
  /\ abcd = load_abcd(input.ihv)
  /\ e_in = Top(input.ihv[5])
  /\ e0 = e_in /\ e1 = e_in
  /\ v = [k \in 0 .. 19 |-> IF k < 4 THEN msg(input.m, k) ELSE Zeros]
  /\ w = input.stale
  /\ state = input.ihv /\ at_60 = state /\ at_64 = state /\ at = state
  /\ held = abcd
  /\ attack = FALSE

(* Rounds 0 to 3: no group came before, so E is added to the words.        *)
FirstGroup ==
  /\ phase = "compress" /\ g = 0
  /\ w' = Spilled(TRUE, w, 0, v[0])
  /\ e0' = PlusAll(e_in, v[0])
  /\ e1' = abcd
  /\ abcd' = sha1rnds4(abcd, e0', 0)
  /\ v' = [v EXCEPT ![4] = NextGroup]
  /\ g' = 1
  /\ FourStepsOn /\ FourWordsOn
  /\ UNCHANGED <<input, phase, at_60, at_64, state, e_in, at, held, attack, partner>>

LiveRegister_Same == e0

(* The register the latest group put its state aside in.                   *)
LiveRegister == IF g % 2 = 1 THEN e1 ELSE e0

(* As held: the state reversed, and E + W behind it.                       *)
AsHeld(four, live) == <<four[1], four[2], four[3], four[4], live[4]>>

(* rounds!                                                                 *)
Rounds ==
  /\ phase = "compress" /\ g \in 1 .. 19
  /\ w' = Spilled(TRUE, w, 4 * g, v[g])
  /\ LET live == sha1nexte(LiveRegister, v[g]) IN
       /\ e0' = IF g % 2 = 1 THEN abcd ELSE live
       /\ e1' = IF g % 2 = 1 THEN live ELSE abcd
       /\ at_60' = IF g = 15 THEN AsHeld(abcd, live) ELSE at_60
       /\ at_64' = IF g = 16 THEN AsHeld(abcd, live) ELSE at_64
       /\ abcd' = sha1rnds4(abcd, live, Quarter(g))
  /\ v' = IF g < 16 THEN [v EXCEPT ![g + 4] = NextGroup] ELSE v
  /\ g' = g + 1
  /\ FourStepsOn /\ FourWordsOn
  /\ UNCHANGED <<input, phase, state, e_in, at, held, attack, partner>>

FeedForward ==
  /\ phase = "compress" /\ g = 20
  /\ e0' = sha1nexte(LiveRegister, e_in)
  /\ abcd' = PlusAll(abcd, load_abcd(input.ihv))
  /\ state' = InOrder(abcd', e0'[4])
  /\ phase' = "ensure"
  /\ UNCHANGED <<input, g, e1, v, w, at_60, at_64, e_in, at, held, attack, partner, school>>

-----------------------------------------------------------------------------
(* Schedule::at.                                                           *)
Stored == [t \in 0 .. 79 |-> w[At(TRUE, t)]]

Unheld_KeepsWord(s, t) == InOrder(s, s[5])

(* A state as held put in order, and its step's word taken off the last.   *)
Unheld(s, t) == InOrder(s, Minus(s[5], Stored[t]))

(* ensure_states: the stored states, for a block with a candidate.         *)
EnsureStates ==
  /\ phase = "ensure"
  /\ LET s == StatesFrom6064(Unheld(at_60, 60), Unheld(at_64, 64), Stored) IN
       /\ at_60' = s.state_58
       /\ at_64' = s.state_65
  /\ phase' = "start"
  /\ UNCHANGED <<input, g, abcd, compression, e_in, at, held, attack, partner, school>>

(* recompress, as far as the group boundary.                               *)
StartRecompress ==
  /\ phase = "start"
  /\ at' = BoundaryState(IF input.step = 58 THEN at_60 ELSE at_64, Stored)
  /\ abcd' = load_abcd(at')
  /\ e_in' = Top(at'[5])
  /\ partner' = at'
  /\ phase' = "out" /\ g' = BoundaryStep \div 4
  /\ UNCHANGED <<input, compression, at_60, at_64, held, attack, school>>

(* words: the partner's group, its own half read back from the spill.      *)
PartnerGroup ==
  XorAll(Loaded(TRUE, w, 4 * g),
         Reversed(<<input.dm[4 * g], input.dm[4 * g + 1],
                    input.dm[4 * g + 2], input.dm[4 * g + 3]>>))

(* group!: the first of a run has no group behind it to carry the fifth    *)
(* word in.                                                                *)
Group(first) ==
  /\ LET live == IF g = first THEN PlusAll(e_in, PartnerGroup)
                 ELSE sha1nexte(held, PartnerGroup)
     IN abcd' = sha1rnds4(abcd, live, Quarter(g))
  /\ held' = abcd
  /\ g' = g + 1
  /\ PartnerFourOn(4 * g)
  /\ UNCHANGED <<input, phase, compression, at_60, at_64, e_in, at, attack, school>>

GroupOut == phase = "out" /\ g < 20 /\ Group(BoundaryStep \div 4)
GroupIn == phase = "in" /\ g < BoundaryStep \div 4 /\ Group(0)


(* The block's output less the partner's state at 80.                      *)
TurnRound ==
  /\ phase = "out" /\ g = 20
  /\ abcd' = MinusAll(load_abcd(state), abcd)
  /\ e_in' = MinusAll(Top(state[5]), sha1nexte(held, Zeros))
  /\ partner' = Difference(state, partner)
  /\ phase' = "in" /\ g' = 0
  /\ UNCHANGED <<input, compression, at_60, at_64, at, held, attack, school>>

Compare ==
  /\ phase = "in" /\ g = BoundaryStep \div 4
  /\ attack' = (InOrder(abcd, sha1nexte(held, Zeros)[4]) = at)
  /\ phase' = "done"
  /\ UNCHANGED <<input, g, abcd, compression, at_60, at_64, e_in, at, held, partner, school>>

Next ==
  \/ FirstGroup
  \/ Rounds
  \/ FeedForward
  \/ EnsureStates
  \/ StartRecompress
  \/ GroupOut
  \/ TurnRound
  \/ GroupIn
  \/ Compare

Spec == Init /\ [][Next]_vars
-----------------------------------------------------------------------------
(* Between groups the registers spell the state: four words reversed, and  *)
(* the fifth where the next group takes it from, which is another place    *)
(* for an odd group, an even one and the first of a run.                   *)
RegistersSpellState ==
  /\ phase = "compress" /\ g > 0 =>
       InOrder(abcd, Rol(30, LiveRegister[4])) = StateAt(4 * g)
  /\ phase \in {"out", "in"} =>
       InOrder(abcd, IF g = 0 \/ (phase = "out" /\ g = BoundaryStep \div 4)
                     THEN e_in[4] ELSE Rol(30, held[4])) = partner

(* "The mirrored layout undoes that for nothing": every word spilled, and  *)
(* only those, is read back at its step, though the groups are computed    *)
(* and stored reversed, four groups ahead and by two recurrences.          *)
SpilledInStepOrder ==
  \A t \in 0 .. 79 :
    w[At(TRUE, t)] = IF phase # "compress" \/ t < 4 * g THEN W(t)
                     ELSE input.stale[At(TRUE, t)]

(* The call leaves the digest of the block and, after ensure_states, its   *)
(* states at steps 58 and 65, though it passed neither of them.            *)
LeavesDigestAndStates ==
  /\ phase # "compress" => state = Sum(input.ihv, StateAt(80))
  /\ phase \notin {"compress", "ensure"} =>
       /\ input.step = 58 => at_60 = StateAt(58)
       /\ at_64 = StateAt(65)

(* recompress answers what a run of the partner over plain words does.     *)
AnswersForPartner == phase = "done" => (attack <=> partner = at)
=============================================================================
