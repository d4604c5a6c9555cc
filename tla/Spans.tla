-------------------------------- MODULE Spans --------------------------------
(***************************************************************************)
(* What the plan search knows of a DV (codegen/src/solve.rs, Forest): the  *)
(* message bits its conditions join, as trees in which every bit has its   *)
(* XOR with its parent.  A condition joins the bits u and v, <<word, bit>> *)
(* each, and says that their XOR is c, for the DVs in dvs.                 *)
(***************************************************************************)
EXTENDS Naturals

CONSTANTS
  Vertex,    (* the message bits the published conditions mention           *)
  Dv,        (* the disturbance vectors                                     *)
  Published  (* the published conditions                                    *)

ASSUME VertexAssumption == Vertex \subseteq Nat \X Nat

Bit == {0, 1}
Xor(p, q) == (p + q) % 2

Cond == [u : Vertex, v : Vertex, c : Bit, dvs : SUBSET Dv]

ASSUME PublishedAssumption == Published \subseteq Cond

(* A schedule, as the values of the bits that matter.                      *)
Schedules == [Vertex -> Bit]

Holds(w, c) == Xor(w[c.u], w[c.v]) = c.c

(* The filter with these conditions keeps the DV for this schedule.        *)
Keeps(w, conds, d) == \A c \in conds : d \in c.dvs => Holds(w, c)

(* Each DV's published conditions agree with each other.                   *)
ASSUME ConsistentAssumption == \A d \in Dv : \E w \in Schedules : Keeps(w, Published, d)
-----------------------------------------------------------------------------
Forest == [parent : [Vertex -> Vertex], parity : [Vertex -> Bit], size : [Vertex -> Nat \ {0}]]

NewForest ==
  [parent |-> [x \in Vertex |-> x], parity |-> [x \in Vertex |-> 0], size |-> [x \in Vertex |-> 1]]

(* Forest::find, for every bit: its root and its XOR with the root.        *)
Find(f) ==
  LET find[x \in Vertex] ==
        IF f.parent[x] = x THEN [root |-> x, xor |-> 0]
        ELSE [root |-> find[f.parent[x]].root,
              xor |-> Xor(f.parity[x], find[f.parent[x]].xor)]
  IN find

Connected(f, x, y) == Find(f)[x].root = Find(f)[y].root

(* The tree of the one hung below the root of the other.                   *)
Hung(f, below, above, xor) ==
  [f EXCEPT !.parent[below] = above, !.parity[below] = xor,
            !.size[above] = f.size[above] + f.size[below]]

Union_OfBits(f, x, y, c) ==
  LET at_x == Find(f)[x]
      at_y == Find(f)[y]
  IN IF at_x.root = at_y.root THEN f
     ELSE IF f.size[at_x.root] < f.size[at_y.root]
          THEN Hung(f, at_x.root, at_y.root, c)
          ELSE Hung(f, at_y.root, at_x.root, c)

(* Forest::union.                                                          *)
Union(f, x, y, c) ==
  LET at_x == Find(f)[x]
      at_y == Find(f)[y]
      xor == Xor(Xor(at_x.xor, at_y.xor), c)
  IN IF at_x.root = at_y.root THEN f
     ELSE IF f.size[at_x.root] < f.size[at_y.root]
          THEN Hung(f, at_x.root, at_y.root, xor)
          ELSE Hung(f, at_y.root, at_x.root, xor)

(* A condition taken into the forests of its DVs (apply).                  *)
Applied(forests, c) ==
  [d \in Dv |-> IF d \in c.dvs THEN Union(forests[d], c.u, c.v, c.c) ELSE forests[d]]

(* The DVs whose forest does not connect the bits of c yet.                *)
Gained(forests, c) == { d \in c.dvs : ~Connected(forests[d], c.u, c.v) }

NoForests == [d \in Dv |-> NewForest]

(* The forests say that the XOR of x and y is c, for this DV.              *)
Tied(forests, d, x, y, c) ==
  /\ Connected(forests[d], x, y)
  /\ Xor(Find(forests[d])[x].xor, Find(forests[d])[y].xor) = c

Before(x, y) == x[1] < y[1] \/ (x[1] = y[1] /\ x[2] < y[2])

(* candidates: every XOR of two bits some DV's span holds, for all the DVs *)
(* whose span holds it.  The bits of a pair are in the order of the words. *)
Entry(spans, x, y, bit) ==
  [u |-> x, v |-> y, c |-> bit, dvs |-> { d \in Dv : Tied(spans, d, x, y, bit) }]

Candidates(spans) ==
  { c \in { Entry(spans, x, y, bit) : x \in Vertex, y \in Vertex, bit \in Bit } :
      Before(c.u, c.v) /\ c.dvs # {} }
=============================================================================
