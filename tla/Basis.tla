-------------------------------- MODULE Basis --------------------------------
(***************************************************************************)
(* What the plan search promises (codegen/src/solve.rs): from the spans of *)
(* the published conditions it takes candidates in any order, starts again *)
(* as often as it likes, and may call what it has a plan only once no      *)
(* candidate adds to any DV's forest.                                      *)
(***************************************************************************)
EXTENDS Spans

VARIABLES
  unread,    (* published conditions not in the spans yet                   *)
  spans,     (* each DV's forest of published conditions                    *)
  checks,    (* the conditions taken                                        *)
  live,      (* each DV's forest of them                                    *)
  planned

vars == <<unread, spans, checks, live, planned>>

TypeOK ==
  /\ unread \subseteq Published
  /\ spans \in [Dv -> Forest]
  /\ checks \subseteq Cond
  /\ live \in [Dv -> Forest]
  /\ planned \in BOOLEAN

Init ==
  /\ unread = Published /\ spans = NoForests
  /\ checks = {} /\ live = NoForests
  /\ planned = FALSE

(* One condition of the loop of spans.                                     *)
Read(c) ==
  /\ unread' = unread \ {c}
  /\ spans' = Applied(spans, c)
  /\ UNCHANGED <<checks, live, planned>>

(* apply, add, or a pick of tail.                                          *)
Take(c) ==
  /\ unread = {} /\ ~planned
  /\ checks' = checks \cup {c}
  /\ live' = Applied(live, c)
  /\ UNCHANGED <<unread, spans, planned>>

(* Search::state begins from nothing.                                      *)
Restart ==
  /\ ~planned
  /\ checks' = {} /\ live' = NoForests
  /\ UNCHANGED <<unread, spans, planned>>

(* Search::tail finds nothing that gains.                                  *)
Plan ==
  /\ unread = {} /\ ~planned
  /\ \A c \in Candidates(spans) : Gained(live, c) = {}
  /\ planned' = TRUE
  /\ UNCHANGED <<unread, spans, checks, live>>

Next ==
  \/ \E c \in unread : Read(c)
  \/ \E c \in Candidates(spans) : Take(c)
  \/ Restart
  \/ Plan

Spec == Init /\ [][Next]_vars
-----------------------------------------------------------------------------
(* A plan keeps a DV for exactly the schedules the published conditions    *)
(* keep it for: "the span, and so the check, stays upstream's".            *)
PlanKeepsPublished ==
  planned => \A d \in Dv, w \in Schedules : Keeps(w, checks, d) <=> Keeps(w, Published, d)
=============================================================================
