--------------------------- MODULE Recompression ---------------------------
(***************************************************************************)
(* Testing one candidate (src/block/rounds.rs, is_attack of                *)
(* src/block/backend.rs): from the partner's state at step 58 or 65, back  *)
(* to step 0 and on to step 80, and the test the hardware backends make    *)
(* instead, which only ever goes forward: out from the group boundary next *)
(* to that state, in again from the chaining value that would have been    *)
(* needed, and back to the boundary.                                       *)
(*                                                                         *)
(* A state is the tuple (A, B, C, D, E); the renaming that keeps the code  *)
(* from moving it is in Rounds, and the groups of four in Pipelines.  Here *)
(* both tests run on the same candidate, one after the other.              *)
(***************************************************************************)
EXTENDS Steps

CONSTANT Candidates   (* what the tests are asked                           *)

ASSUME CandidatesAssumption ==
  Candidates \subseteq [step : {58, 65}, m1 : Words, dm : Words, state : State,
                        chaining_out : State]

VARIABLES
  c,            (* the candidate                                            *)
  phase,
  back,         (* the chain towards step 0, and the step it has reached    *)
  back_at,
  forth,        (* the chain towards step 80                                *)
  forth_at,
  ihvin,
  ihvout,
  at,           (* the partner's state at the group boundary                *)
  live,         (* the hardware's state, and the step it has reached        *)
  live_at,
  attack,       (* what recompress answers                                  *)
  trail         (* history: the state at every step the first test saw      *)

walk == <<back, back_at, forth, forth_at, trail>>
ends == <<ihvin, ihvout>>
hardware == <<at, live, live_at, attack>>
vars == <<c, phase, walk, ends, hardware>>

-----------------------------------------------------------------------------
(* Xor::at: word t of the partner's schedule.                              *)
Partner(t) == Xor(c.m1[t], c.dm[t])

(* The group boundary next to the stored state.                            *)
Boundary == IF c.step = 58 THEN 60 ELSE 64

PartnerBoundary_OneBack(s) ==
  IF c.step = 58 THEN Step(59, Step(58, s, Partner(58)), Partner(59))
  ELSE Unstep(64, s, Partner(65))

(* partner_boundary                                                        *)
PartnerBoundary(s) ==
  IF c.step = 58 THEN Step(59, Step(58, s, Partner(58)), Partner(59))
  ELSE Unstep(64, s, Partner(64))
-----------------------------------------------------------------------------
Init ==
  /\ c \in Candidates
  /\ phase = "walk"
  /\ back = c.state /\ back_at = c.step
  /\ forth = c.state /\ forth_at = c.step
  /\ trail = [t \in 0 .. 80 |-> c.state]
  /\ ihvin = c.state /\ ihvout = c.state
  /\ at = c.state /\ live = c.state /\ live_at = c.step
  /\ attack = FALSE

(* recompression_step, on its way back ...                                 *)
Back ==
  /\ phase = "walk" /\ back_at > 0
  /\ back' = Unstep(back_at - 1, back, Partner(back_at - 1))
  /\ back_at' = back_at - 1
  /\ trail' = [trail EXCEPT ![back_at - 1] = back']
  /\ UNCHANGED <<c, phase, forth, forth_at, ends, hardware>>

(* ... on its way out ...                                                  *)
Forth ==
  /\ phase = "walk" /\ forth_at < 80
  /\ forth' = Step(forth_at, forth, Partner(forth_at))
  /\ forth_at' = forth_at + 1
  /\ trail' = [trail EXCEPT ![forth_at + 1] = forth']
  /\ UNCHANGED <<c, phase, back, back_at, ends, hardware>>

(* ... and where the two chains meet, in the feed-forward.                 *)
Meet ==
  /\ phase = "walk" /\ back_at = 0 /\ forth_at = 80
  /\ ihvin' = back
  /\ ihvout' = Sum(back, forth)
  /\ phase' = "boundary"
  /\ UNCHANGED <<c, walk, hardware>>

(* recompress: the partner's state at the boundary,                        *)
FindBoundary ==
  /\ phase = "boundary"
  /\ at' = PartnerBoundary(c.state)
  /\ live' = at' /\ live_at' = Boundary
  /\ phase' = "out"
  /\ UNCHANGED <<c, walk, ends, attack>>

(* out to step 80,                                                         *)
RunOut ==
  /\ phase = "out" /\ live_at < 80
  /\ live' = Step(live_at, live, Partner(live_at))
  /\ live_at' = live_at + 1
  /\ UNCHANGED <<c, phase, walk, ends, at, attack>>

TurnRound_KeepsState ==
  /\ phase = "out" /\ live_at = 80
  /\ live' = Difference(c.chaining_out, at)
  /\ live_at' = 0
  /\ phase' = "in"
  /\ UNCHANGED <<c, walk, ends, at, attack>>

(* the one input that would give this block's output,                      *)
TurnRound ==
  /\ phase = "out" /\ live_at = 80
  /\ live' = Difference(c.chaining_out, live)
  /\ live_at' = 0
  /\ phase' = "in"
  /\ UNCHANGED <<c, walk, ends, at, attack>>

(* in from there,                                                          *)
RunIn ==
  /\ phase = "in" /\ live_at < Boundary
  /\ live' = Step(live_at, live, Partner(live_at))
  /\ live_at' = live_at + 1
  /\ UNCHANGED <<c, phase, walk, ends, at, attack>>

(* and whether that arrives where the way out began.                       *)
Compare ==
  /\ phase = "in" /\ live_at = Boundary
  /\ attack' = (live = at)
  /\ phase' = "done"
  /\ UNCHANGED <<c, walk, ends, at, live, live_at>>

Next ==
  \/ Back
  \/ Forth
  \/ Meet
  \/ FindBoundary
  \/ RunOut
  \/ TurnRound
  \/ RunIn
  \/ Compare

Spec == Init /\ [][Next]_vars
-----------------------------------------------------------------------------
Phases == {"walk", "boundary", "out", "in", "done"}

TypeOK ==
  /\ c \in Candidates
  /\ phase \in Phases
  /\ back \in State /\ back_at \in 0 .. c.step
  /\ forth \in State /\ forth_at \in c.step .. 80
  /\ trail \in [0 .. 80 -> State]
  /\ ihvin \in State /\ ihvout \in State
  /\ at \in State /\ live \in State /\ live_at \in 0 .. 80
  /\ attack \in BOOLEAN

(* The states `trail` holds between two steps are a run of compression     *)
(* over the partner's schedule.                                            *)
IsRun(from, to) ==
  \A t \in 0 .. 79 :
    from <= t /\ t < to => trail[t + 1] = Step(t, trail[t], Partner(t))

(* "Running the compression over the partner schedule, from the chaining   *)
(* value the recompression recovered, must land on the one it reports":    *)
(* through the stored state, whatever that is.                             *)
AgreesWithCompression ==
  phase # "walk" =>
    /\ trail[0] = ihvin /\ IsRun(0, 80)
    /\ trail[c.step] = c.state
    /\ ihvout = Sum(ihvin, trail[80])

(* partner_boundary "must be the state the partner's compression reaches   *)
(* at the boundary", and the way out goes the way the walk went.           *)
BoundaryOnTheWay ==
  /\ phase \in {"out", "in", "done"} => at = trail[Boundary]
  /\ phase = "out" => live = trail[live_at]

(* "The steps between are a bijection, so the two are the same test": the  *)
(* hardware flags a candidate exactly when the way back does.              *)
SameTest == phase = "done" => (attack <=> ihvout = c.chaining_out)

(***************************************************************************)
(* The inductive invariant.  On the way in, the hardware is on the trail   *)
(* or off it from the first step to the last, since steps are one to one.  *)
(***************************************************************************)
IInv ==
  /\ TypeOK
  /\ trail[back_at] = back /\ trail[forth_at] = forth
  /\ trail[c.step] = c.state
  /\ IsRun(back_at, forth_at)
  /\ phase # "walk" =>
       /\ back_at = 0 /\ forth_at = 80
       /\ ihvin = back /\ ihvout = Sum(back, forth)
  /\ BoundaryOnTheWay
  /\ phase = "out" => live_at >= Boundary
  /\ phase = "in" =>
       /\ live_at <= Boundary
       /\ live = trail[live_at] <=> Difference(c.chaining_out, forth) = back
  /\ SameTest
=============================================================================
