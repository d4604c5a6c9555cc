-------------------------------- MODULE Search --------------------------------
(***************************************************************************)
(* The search for a plan (codegen/src/solve.rs, search): a greedy prefix,  *)
(* then rounds that take units out at random and fill up again, then the   *)
(* tail.  A prefix is built one condition a step.  Every random choice is  *)
(* an arbitrary one.                                                       *)
(***************************************************************************)
EXTENDS Forms

CONSTANTS
  STEP, DESCENT, SHAKE,   (* the search's settings                          *)
  Stalls,                 (* stall, 0 for a quick look                      *)
  WORD                    (* bits of a word                                 *)

ASSUME SearchAssumption == {STEP, DESCENT, SHAKE} \cup Stalls \subseteq Nat /\ STEP > 0

(* A vector as far from the schedule's end as any condition reaches fits.  *)
ASSUME ScheduleAssumption ==
  /\ Vertex \subseteq (0 .. SCHEDULE - 1) \X (0 .. WORD - 1)
  /\ \A target \in Params, x, y \in Vertex : target.width + (y[1] - x[1]) <= SCHEDULE

VARIABLES
  p, stall,   (* what the plan is searched for                              *)
  read,       (* how many published conditions are in the spans             *)
  search,     (* the fields of Search: [spans, cands, slots]                *)
  pc,         (* "read", "add", "best", "commit", "full", "descend", "vns", *)
              (* "tail", "plan", "failed" or "emitted"                      *)
  goal,       (* what the prefix is built for: "greedy", "round", "shake", "plan" *)
  per_group,  (* how refill ranks units                                     *)
  units,      (* the units of the prefix being built                        *)
  state,      (* where they stand: [live, ranks]                            *)
  todo,       (* conditions still to be applied to state                    *)
  fill,       (* the fill being committed                                   *)
  descent,    (* descend: [units, best, current, score, idle]               *)
  vns,        (* vns: [units, best, k, idle]                                *)
  tail,       (* tail: [conds, added]                                       *)
  plan,       (* Plan: [families, tail, prefix_ranks]                       *)
  form        (* what is emitted for it                                     *)

vars == <<p, stall, read, search, pc, goal, per_group, units, state, todo, fill, descent, vns, tail, plan, form>>

Conds(us) == FlattenSeq(us)

NoState == [live |-> NoForests, ranks |-> [d \in Dv |-> 0]]

(* add, one condition: its rank goes up for the DVs it gained.             *)
Added(s, c) ==
  [live |-> Applied(s.live, c), ranks |-> PlusGained(s.ranks, Gained(s.live, c))]

(* Search::state                                                           *)
StateOf(us) == FoldLeft(Added, NoState, Conds(us))

ScoreOf(us) == Score(p, StateOf(us).ranks)

(* state(us), and what it is wanted for.                                   *)
Build(us, for) ==
  /\ units' = us /\ state' = NoState /\ todo' = Conds(us)
  /\ fill' = None
  /\ goal' = for /\ pc' = "add"

Nothing == [units |-> << >>, best |-> 0, current |-> << >>, score |-> 0, idle |-> 0]

Init ==
  /\ p \in Params /\ stall \in Stalls
  /\ read = 0 /\ search = [spans |-> NoForests, cands |-> {}, slots |-> {}]
  /\ pc = "read" /\ goal = "greedy" /\ per_group = TRUE
  /\ units = << >> /\ state = NoState /\ todo = << >> /\ fill = None
  /\ descent = Nothing
  /\ vns = [units |-> << >>, best |-> Infinity, k |-> STEP + 1, idle |-> 0]
  /\ tail = [conds |-> << >>, added |-> 0]
  /\ plan = << >> /\ form = << >>

(* spans, one published condition; and with the last, candidates and slots. *)
Read ==
  /\ pc = "read"
  /\ read' = read + 1
  /\ LET spans == Applied(search.spans, Ubcs[read'])
     IN IF read' < Len(Ubcs)
        THEN search' = [search EXCEPT !.spans = spans] /\ pc' = "read"
        ELSE /\ search' = [spans |-> spans, cands |-> Candidates(spans),
                           slots |-> SlotLanes(p, Candidates(spans))]
             /\ pc' = "best"
  /\ UNCHANGED <<p, stall, goal, per_group, units, state, todo, fill, descent, vns, tail, plan, form>>

(* Search::add, one condition.                                             *)
Add ==
  /\ pc = "add" /\ todo # << >>
  /\ state' = Added(state, Head(todo))
  /\ todo' = Tail(todo)
  /\ UNCHANGED <<p, stall, read, search, pc, goal, per_group, units, fill, descent, vns, tail, plan, form>>

AddEnds ==
  /\ pc = "add" /\ todo = << >>
  /\ pc' = IF goal = "plan" THEN "tail" ELSE "best"
  /\ UNCHANGED <<p, stall, read, search, goal, per_group, units, state, todo, fill, descent, vns, tail, plan, form>>

-----------------------------------------------------------------------------
Free == p.groups - Spent(units, p.width)

(* refill: the best unit is taken in, while there is one.                  *)
PickUnit ==
  /\ pc = "best"
  /\ fill' = Best(p, search.slots, state, Free, per_group)
  /\ todo' = fill'.group
  /\ pc' = IF fill' = None THEN "full" ELSE "commit"
  /\ UNCHANGED <<p, stall, read, search, goal, per_group, units, state, descent, vns, tail, plan, form>>

(* What a fill tried is applied lane by lane.                              *)
Apply ==
  /\ pc = "commit" /\ todo # << >>
  /\ state' = [state EXCEPT !.live = Applied(state.live, Head(todo))]
  /\ todo' = Tail(todo)
  /\ UNCHANGED <<p, stall, read, search, pc, goal, per_group, units, fill, descent, vns, tail, plan, form>>

Committed_KeepsRanks == state
Committed == [state EXCEPT !.ranks = fill.ranks]

(* State::commit, and the unit is in the prefix.                           *)
Commit ==
  /\ pc = "commit" /\ todo = << >>
  /\ units' = Append(units, fill.group)
  /\ state' = Committed
  /\ fill' = None /\ pc' = "best"
  /\ UNCHANGED <<p, stall, read, search, goal, per_group, todo, descent, vns, tail, plan, form>>

Full == pc = "full"

(* descend begins from these units.                                        *)
Descend(us) ==
  descent' = [units |-> us, best |-> ScoreOf(us), current |-> us, score |-> ScoreOf(us), idle |-> 0]

(* greedy: done where it reaches every rank, and a search goes on from it  *)
(* otherwise.                                                              *)
GreedyEnds ==
  /\ Full /\ goal = "greedy"
  /\ vns' = [vns EXCEPT !.units = units]
  /\ IF Total(state.ranks) = Required
     THEN Build(units, "plan") /\ UNCHANGED descent
     ELSE Descend(units) /\ pc' = "descend" /\ UNCHANGED <<goal, units, state, todo, fill>>
  /\ UNCHANGED <<p, stall, read, search, per_group, tail, plan, form>>

-----------------------------------------------------------------------------
Without(us, out) ==
  LET Kept(rest, n) == IF n \in out THEN rest ELSE Append(rest, us[n])
  IN FoldLeft(Kept, << >>, [n \in 1 .. Len(us) |-> n])

(* shake, up to its refill: k units out, at random.                        *)
Shake(us, k, for) ==
  \E out \in kSubset(k, 1 .. Len(us)), flip \in BOOLEAN :
    per_group' = flip /\ Build(Without(us, out), for)

(* descend: a round begins.                                                *)
Round ==
  /\ pc = "descend"
  /\ descent.current # << >> /\ descent.idle <= DESCENT
  /\ \E k \in 1 .. Min({STEP, Len(descent.current)}) : Shake(descent.current, k, "round")
  /\ UNCHANGED <<p, stall, read, search, descent, vns, tail, plan, form>>

Judged_NeverIdle(d, us, s) ==
  IF s > d.score THEN [d EXCEPT !.idle = @ + 1]
  ELSE [units |-> us, best |-> s, current |-> us, score |-> s, idle |-> 1]

(* A prefix that is no worse is gone on from, a better one is kept too.    *)
Judged(d, us, s) ==
  IF s > d.score THEN [d EXCEPT !.idle = @ + 1]
  ELSE IF s < d.best
       THEN [units |-> us, best |-> s, current |-> us, score |-> s, idle |-> 1]
       ELSE [d EXCEPT !.current = us, !.score = s, !.idle = @ + 1]

RoundEnds ==
  /\ Full /\ goal = "round"
  /\ descent' = Judged(descent, units, Score(p, state.ranks))
  /\ pc' = "descend"
  /\ UNCHANGED <<p, stall, read, search, goal, per_group, units, state, todo, fill, vns, tail, plan, form>>

Kept_LastScore(v, d) ==
  IF v.best = Infinity THEN [v EXCEPT !.best = d.best, !.units = d.units]
  ELSE IF d.score <= v.best
       THEN [units |-> d.current, best |-> d.best, k |-> STEP + 1, idle |-> 1]
       ELSE [v EXCEPT !.k = IF v.k >= SHAKE THEN STEP + 1 ELSE v.k + 1, !.idle = @ + 1]

(* vns: only a better prefix is kept, and k begins again.                  *)
Kept(v, d) ==
  IF v.best = Infinity THEN [v EXCEPT !.best = d.best, !.units = d.units]
  ELSE IF d.best < v.best
       THEN [units |-> d.units, best |-> d.best, k |-> STEP + 1, idle |-> 1]
       ELSE [v EXCEPT !.k = IF v.k >= SHAKE THEN STEP + 1 ELSE v.k + 1, !.idle = @ + 1]

DescentEnds ==
  /\ pc = "descend"
  /\ descent.current = << >> \/ descent.idle > DESCENT
  /\ vns' = Kept(vns, descent)
  /\ pc' = "vns"
  /\ UNCHANGED <<p, stall, read, search, goal, per_group, units, state, todo, fill, descent, tail, plan, form>>

(* vns: a round begins, beyond a descent's reach.                          *)
Jump ==
  /\ pc = "vns"
  /\ vns.units # << >> /\ vns.idle <= stall
  /\ Shake(vns.units, Min({vns.k, Len(vns.units)}), "shake")
  /\ UNCHANGED <<p, stall, read, search, descent, vns, tail, plan, form>>

JumpEnds ==
  /\ Full /\ goal = "shake"
  /\ Descend(units)
  /\ pc' = "descend"
  /\ UNCHANGED <<p, stall, read, search, goal, per_group, units, state, todo, fill, vns, tail, plan, form>>

SearchEnds ==
  /\ pc = "vns"
  /\ vns.units = << >> \/ vns.idle > stall
  /\ Build(vns.units, "plan")
  /\ UNCHANGED <<p, stall, read, search, per_group, descent, vns, tail, plan, form>>

-----------------------------------------------------------------------------
(* tail: each time the condition that adds the most rank.                  *)
Gain(c) == Cardinality(Gained(state.live, c))

PickTail ==
  /\ pc = "tail"
  /\ LET gaining == { c \in search.cands : Gain(c) > 0 }
         most == Max({ Gain(c) : c \in gaining })
         pick == FirstOf({ c \in gaining : Gain(c) = most })
     IN /\ gaining # {}
        /\ state' = [state EXCEPT !.live = Applied(state.live, pick)]
        /\ tail' = [conds |-> Append(tail.conds, pick), added |-> tail.added + most]
  /\ UNCHANGED <<p, stall, read, search, pc, goal, per_group, units, todo, fill, descent, vns, plan, form>>

NothingGains_Once == \A c \in search.cands : Gain(c) <= 1

NothingGains == \A c \in search.cands : Gain(c) = 0

(* plan, and its assertion.                                                *)
Plan ==
  /\ pc = "tail" /\ NothingGains
  /\ pc' = IF Total(state.ranks) + tail.added = Required THEN "plan" ELSE "failed"
  /\ plan' = PlanOf(units, tail.conds, state.ranks)
  /\ UNCHANGED <<p, stall, read, search, goal, per_group, units, state, todo, fill, descent, vns, tail, form>>

(* emit::module, for the plan.                                             *)
Emit ==
  /\ pc = "plan"
  /\ form' = FormOf(plan, p.width)
  /\ pc' = "emitted"
  /\ UNCHANGED <<p, stall, read, search, goal, per_group, units, state, todo, fill, descent, vns, tail, plan>>

Ended == pc \in {"emitted", "failed"}
Done == Ended /\ UNCHANGED vars

(* One thread that waits for nothing: it takes steps until it has ended.   *)
(* Weak fairness of Next says the same, since a step is always possible.   *)
GoesOn == <>[]Ended \/ []<><<vars' # vars>>_vars

Next ==
  \/ Read \/ Add \/ AddEnds \/ PickUnit \/ Apply \/ Commit
  \/ GreedyEnds \/ Round \/ RoundEnds \/ DescentEnds \/ Jump \/ JumpEnds \/ SearchEnds
  \/ PickTail \/ Plan \/ Emit \/ Done

Spec == Init /\ [][Next]_vars /\ GoesOn
-----------------------------------------------------------------------------
(* What is in state: the prefix, less what is still to be applied.         *)
Taken ==
  LET all == Conds(units) \o fill.group \o tail.conds
  IN Range(SubSeq(all, 1, Len(all) - Len(todo)))

Basis == INSTANCE Basis WITH
  unread <- { Ubcs[n] : n \in read + 1 .. Len(Ubcs) },
  spans <- search.spans,
  checks <- Taken, live <- state.live, planned <- pc \in {"plan", "emitted", "failed"}

(* The search takes candidates and nothing else, and calls a prefix and a  *)
(* tail a plan only when no candidate adds to them.                        *)
ImplementsBasis == Basis!Spec

(* Prefix and tail keep every DV for exactly the schedules the published   *)
(* conditions keep it for, whatever units were taken out and put in (plan, *)
(* tail).                                                                  *)
PlanKeepsPublished == Basis!PlanKeepsPublished

(* Forests and ranks that fills and commits moved on are those the units   *)
(* give when they are added one by one to nothing, and the scores kept for *)
(* the units of a descent are theirs.                                      *)
StateIsThatOfUnits ==
  /\ pc = "best" =>
       /\ state.ranks = StateOf(units).ranks
       /\ \A d \in Dv, c \in search.cands :
            Connected(state.live[d], c.u, c.v) <=> Connected(StateOf(units).live[d], c.u, c.v)
  /\ pc = "descend" =>
       descent.score = ScoreOf(descent.current) /\ descent.best = ScoreOf(descent.units)

(* A prefix never costs more groups than the target's budget, by the walk  *)
(* that makes the groups; each group's members are in order and no load    *)
(* begins before the schedule or passes its end (cost, lane_groups,        *)
(* highest_read).                                                          *)
GroupsFit ==
  /\ pc = "best" => Spent(units, p.width) <= p.groups
  /\ pc = "emitted" =>
       /\ p.width > 1 => Len(form.groups) = Spent(units, p.width)
       /\ HighestRead(form.groups) < SCHEDULE
       /\ \A n \in DOMAIN form.groups : form.groups[n].base >= 0
       /\ \A n \in DOMAIN plan.families :
            LET members == plan.families[n].members
            IN \A m \in 1 .. Len(members) - 1 : members[m].i < members[m + 1].i

(* The bounds that stop a fill and the walk over the slots lose nothing:   *)
(* what best finds is the best there is, the first among equals.  This is  *)
(* the whole score of the scalar target; of a vector target it is the one  *)
(* on random data, without the share of the last blocks, so that the       *)
(* bounds' last-block means and the skip of options that random data alone *)
(* rules out are not in question here.                                     *)
PruningLosesNothing ==
  pc = "best" => Best(p, search.slots, state, Free, per_group) = BestOfAll(p, search.slots, state, Free, per_group)

(* From the greedy on, the prefix a plan would be made of only changes for *)
(* one with a better score (descend, vns).                                 *)
OnlyBetterIsKept ==
  [][vns.units # << >> /\ vns'.units # vns.units => ScoreOf(vns'.units) < ScoreOf(vns.units)]_vars

(* A schedule on all bits of its words, those of no condition at filler.   *)
Whole(w, filler) ==
  [x \in (0 .. SCHEDULE - 1) \X (0 .. WORD - 1) |-> IF x \in Vertex THEN w[x] ELSE filler]

(* The form emitted from the plan, with either tail, gives the mask of the *)
(* published conditions (lane_groups, test_bit, by_dv, guarded).           *)
FormKeepsPublished ==
  pc = "emitted" =>
    \A w \in Schedules, filler \in Bit, shape \in {"table", "guarded"} :
      FormMask(form, p.width, shape, Whole(w, filler)) = { d \in Dv : Keeps(w, Published, d) }

(* A search ends, and not in the assertion that the ranks of prefix and    *)
(* tail add up to what is published: every round that finds nothing better *)
(* brings it closer, and there are only so many better scores (vns, plan). *)
SearchComesToAPlan == <>(pc = "emitted")
=============================================================================
