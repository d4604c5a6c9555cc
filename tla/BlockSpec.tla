----------------------------- MODULE BlockSpec -----------------------------
(***************************************************************************)
(* What block::compress promises: a block goes into the chaining value     *)
(* once, or three times when it belongs to an attack and the hasher        *)
(* mitigates, and an attack is remembered.  A block belongs to an attack   *)
(* when any disturbance vector at all describes it: neither the filter nor *)
(* the CPU makes a difference.  BlockDetect implements this.               *)
(***************************************************************************)
EXTENDS Naturals, Sequences

CONSTANTS
  Chaining,       (* chaining values: State.h                               *)
  InitialH,       (* INITIAL_H                                              *)
  Blocks,         (* 64-byte blocks                                         *)
  Feed(_, _),     (* the SHA-1 compression of a block into a chaining value *)
  Dvs,            (* the disturbance vectors, by mask bit                   *)
  Kind(_, _, _),  (* after this chaining value, what this block is under    *)
                  (* this DV: "none"; "full", the partner ends on the same  *)
                  (* chaining value; or "reduced", it only starts from the  *)
                  (* same one                                               *)
  Inputs          (* the runs of whole blocks a call is given               *)

ASSUME ChainingAssumption ==
  /\ InitialH \in Chaining
  /\ \A h \in Chaining, b \in Blocks : Feed(h, b) \in Chaining

ASSUME DvAssumption ==
  /\ Dvs \subseteq Nat
  /\ \A h \in Chaining, b \in Blocks, dv \in Dvs :
       Kind(h, b, dv) \in {"none", "full", "reduced"}

ASSUME InputsAssumption == Inputs \subseteq Seq(Blocks)

VARIABLES
  settings,   (* the detection's settings, which never change               *)
  todo,       (* the blocks of the call not yet compressed                  *)
  h,          (* the chaining value                                         *)
  found       (* found_collision                                            *)

blockVars == <<settings, todo, h, found>>

(* What counts as an attack under the settings.                            *)
Counts(s, kind) == kind = "full" \/ (s.reduced /\ kind = "reduced")

Detected(s, hh, b) == \E dv \in Dvs : Counts(s, Kind(hh, b, dv))

Thrice(hh, b) == Feed(Feed(Feed(hh, b), b), b)

BlockInit ==
  /\ todo = << >>
  /\ h = InitialH
  /\ found = FALSE

BlockCall(bs) ==
  /\ todo = << >>
  /\ todo' = bs
  /\ UNCHANGED <<settings, h, found>>

BlockReset ==
  /\ todo = << >>
  /\ h' = InitialH
  /\ found' = FALSE
  /\ UNCHANGED <<settings, todo>>

BlockCompress ==
  LET b == Head(todo)
      detected == Detected(settings, h, b)
  IN /\ todo # << >>
     /\ h' = IF detected /\ settings.safe_hash THEN Thrice(h, b) ELSE Feed(h, b)
     /\ found' = (found \/ detected)
     /\ todo' = Tail(todo)
     /\ UNCHANGED settings

BlockNext ==
  \/ \E bs \in Inputs : BlockCall(bs)
  \/ BlockReset
  \/ BlockCompress

BlockSpecification == BlockInit /\ [][BlockNext]_blockVars
=============================================================================
