------------------------------- MODULE Rounds -------------------------------
(***************************************************************************)
(* The programs of src/block/rounds.rs and the portable compressions, as   *)
(* what they are: sequences of macro calls over five names.  A step! does  *)
(* not move the state but writes over its last name, and the caller says   *)
(* which name is which in the call after.  Nothing but those arguments     *)
(* keeps a program right, so they are modelled as the code has them.       *)
(*                                                                         *)
(* A call is a record: its chain of names, its kind, the name it is given  *)
(* for A (the other four follow in turn), and its step.  Names are the     *)
(* numbers 0 .. 4, for a .. e, b0 .. b4 or f0 .. f4.  The function and the *)
(* constant of a call are always those of its step's quarter and are left  *)
(* out.                                                                    *)
(***************************************************************************)
EXTENDS Steps, Sequences

CONSTANTS
  Programs,   (* the programs run, a subset of AllPrograms                  *)
  Inputs      (* what they are run on                                       *)

AllPrograms == {"compression_w", "states_from_60_64", "recompression_58",
                "recompression_65", "boundary_58", "boundary_65", "scalar"}

ASSUME InputsAssumption ==
  /\ Programs \subseteq AllPrograms
  /\ Inputs \subseteq [w : Words, first : State, second : State]

-----------------------------------------------------------------------------
Call(chain, kind, n, t) == [chain |-> chain, kind |-> kind, n |-> n % 5, t |-> t]

Five_OtherWay(chain, n, t) ==
  [i \in 1 .. 5 |-> Call(chain, "step", n + i - 1, t + i - 1)]

(* five!: one turn of the names.                                           *)
Five(chain, n, t) ==
  [i \in 1 .. 5 |-> Call(chain, "step", n + 6 - i, t + i - 1)]

(* unfive!: the same turn in the other order.                              *)
Unfive(chain, n, t) ==
  [i \in 1 .. 5 |-> Call(chain, "unstep", n + i - 1, t + 5 - i)]

(* Turns from step `from` on up to step `to`, and from step `from` back.   *)
Fives(chain, n, from, to) ==
  [i \in 1 .. to - from |->
     Five(chain, n, from + 5 * ((i - 1) \div 5))[1 + ((i - 1) % 5)]]

Unfives(chain, n, from) ==
  [i \in 1 .. from |->
     Unfive(chain, n, from - 5 - 5 * ((i - 1) \div 5))[1 + ((i - 1) % 5)]]

(* The turns of recompression_step, back from `from` and on from `on`: they *)
(* alternate until the way out is done, and the way back goes on alone.    *)
BothWays(n, from, on) ==
  [i \in 1 .. 2 * (80 - on) |->
     LET turns == 5 * ((i - 1) \div 10) IN
       (Unfive("b", n, from - 5 - turns) \o Five("f", n, on + turns))[1 + ((i - 1) % 10)]]
    \o Unfives("b", n, from - (80 - on))

(* *slot = [names from n on].                                              *)
Store(chain, n, slot) == [chain |-> chain, kind |-> slot, n |-> n % 5, t |-> 0]

Steps58 == <<Call("f", "step", 0, 58), Call("f", "step", 4, 59)>>

(* The rounds of scalar::compress_spill, which sse2's are too: the turn of *)
(* step 58 is written out.                                                 *)
Scalar ==
  Fives("f", 0, 0, 55)
    \o <<Call("f", "step", 0, 55), Call("f", "step", 4, 56),
         Call("f", "step", 3, 57), Store("f", 2, "state_58"),
         Call("f", "step", 2, 58), Call("f", "step", 1, 59)>>
    \o Fives("f", 0, 60, 65) \o <<Store("f", 0, "state_65")>>
    \o Fives("f", 0, 65, 80) \o <<Store("f", 0, "end")>>

(* recompression_step from step 58, each chain three names round, and from *)
(* step 65.                                                                *)
Recompression58 ==
  <<Call("b", "unstep", 0, 57), Call("b", "unstep", 1, 56),
    Call("b", "unstep", 2, 55)>>
    \o Steps58 \o BothWays(3, 55, 60) \o <<Store("b", 3, "start"), Store("f", 3, "end")>>

Recompression65 ==
  BothWays(0, 65, 65) \o <<Store("b", 0, "start"), Store("f", 0, "end")>>

(* states_from_60_64, with need_58: state_58 comes at step 60 and is the   *)
(* chain "b", state_65 comes at 64.                                        *)
StatesFrom6064 ==
  <<Call("f", "step", 0, 64), Store("f", 4, "state_65"),
    Call("b", "unstep", 0, 59), Call("b", "unstep", 1, 58),
    Store("b", 2, "state_58")>>

Program(p) ==
  CASE p = "compression_w" -> Fives("f", 0, 0, 80) \o <<Store("f", 0, "end")>>
    [] p = "scalar" -> Scalar
    [] p = "states_from_60_64" -> StatesFrom6064
    [] p = "recompression_58" -> Recompression58
    [] p = "recompression_65" -> Recompression65
    [] p = "boundary_58" -> Steps58 \o <<Store("f", 3, "boundary")>>
    [] p = "boundary_65" -> <<Call("f", "unstep", 0, 64), Store("f", 1, "boundary")>>

(* At which step a program starts each of its chains, and where each thing *)
(* it stores belongs.                                                      *)
StartsAt(p, chain) ==
  CASE p \in {"compression_w", "scalar"} -> 0
    [] p = "states_from_60_64" -> IF chain = "f" THEN 64 ELSE 60
    [] p \in {"recompression_58", "boundary_58"} -> 58
    [] OTHER -> 65

BelongsAt(p, slot) ==
  CASE slot = "start" -> 0
    [] slot = "end" -> 80
    [] slot = "state_58" -> 58
    [] slot = "state_65" -> 65
    [] slot = "boundary" -> IF p = "boundary_58" THEN 60 ELSE 64

-----------------------------------------------------------------------------
VARIABLES
  program,
  input,      (* the schedule, and the states its chains start from         *)
  todo,       (* the macro calls still to come                              *)
  names,      (* chain -> what each of its five names holds                 *)
  plain,      (* history: chain -> its state as state_at has it, the words  *)
              (* moved by hand, ...                                         *)
  reached     (* ... and the step that is the state before                  *)

programVars == <<program, input, todo, names, plain, reached>>

Chains == {"f", "b"}

(* The state that five names from n on spell.                              *)
Named(five, n) == <<five[n], five[(n + 1) % 5], five[(n + 2) % 5],
                    five[(n + 3) % 5], five[(n + 4) % 5]>>

(* step! on the names from n on.                                           *)
StepOn(five, n, t, w) ==
  LET s == Named(five, n)
  IN [five EXCEPT
        ![(n + 4) % 5] = Plus(@, Added(t \div 20, s[1], s[2], s[3], s[4], w)),
        ![(n + 1) % 5] = Rol(30, @)]

(* unstep! on the names from n on.                                         *)
UnstepOn(five, n, t, w) ==
  LET s == Named(five, n)
      b == Ror(30, s[3])
  IN [five EXCEPT
        ![(n + 2) % 5] = b,
        ![n] = Minus(@, Added(t \div 20, s[2], b, s[4], s[5], w))]

ProgramInit ==
  /\ program \in Programs
  /\ input \in Inputs
  /\ todo = Program(program)
  /\ plain = [chain \in Chains |->
                IF program = "states_from_60_64" /\ chain = "b"
                THEN input.second ELSE input.first]
  /\ names = [chain \in Chains |-> [n \in 0 .. 4 |-> plain[chain][n + 1]]]
  /\ reached = [chain \in Chains |-> StartsAt(program, chain)]

RunStep ==
  /\ todo # << >> /\ todo[1].kind = "step"
  /\ LET call == todo[1] IN
       /\ names' = [names EXCEPT ![call.chain] =
                      StepOn(@, call.n, call.t, input.w[call.t])]
       /\ plain' = [plain EXCEPT ![call.chain] =
                      Step(reached[call.chain], @, input.w[reached[call.chain]])]
       /\ reached' = [reached EXCEPT ![call.chain] = @ + 1]
  /\ todo' = Tail(todo)
  /\ UNCHANGED <<program, input>>

RunUnstep ==
  /\ todo # << >> /\ todo[1].kind = "unstep"
  /\ LET call == todo[1] IN
       /\ names' = [names EXCEPT ![call.chain] =
                      UnstepOn(@, call.n, call.t, input.w[call.t])]
       /\ plain' = [plain EXCEPT ![call.chain] =
                      Unstep(reached[call.chain] - 1, @,
                             input.w[reached[call.chain] - 1])]
       /\ reached' = [reached EXCEPT ![call.chain] = @ - 1]
  /\ todo' = Tail(todo)
  /\ UNCHANGED <<program, input>>

(* A state is read off the names; what becomes of it is in Recompression   *)
(* and BlockDetect.                                                        *)
RunStore ==
  /\ todo # << >> /\ todo[1].kind \notin {"step", "unstep"}
  /\ todo' = Tail(todo)
  /\ UNCHANGED <<program, input, names, plain, reached>>

ProgramNext == RunStep \/ RunUnstep \/ RunStore

ProgramSpec == ProgramInit /\ [][ProgramNext]_programVars
-----------------------------------------------------------------------------
(* "A stored state is in the order (A, B, C, D, E) of the step it belongs  *)
(* to", and so is every state a macro call is given: the names the next    *)
(* call passes spell the state that moving the words by hand gives.  Every *)
(* step of a chain is taken once and in order, on its own word, and a      *)
(* state is stored exactly at the step it belongs to.                      *)
StepsLineUp ==
  todo # << >> =>
    LET call == todo[1] IN
      /\ Named(names[call.chain], call.n) = plain[call.chain]
      /\ reached[call.chain] =
           CASE call.kind = "step" -> call.t
             [] call.kind = "unstep" -> call.t + 1
             [] OTHER -> BelongsAt(program, call.kind)
=============================================================================
