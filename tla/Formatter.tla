---------------------------- MODULE Formatter ----------------------------
(***************************************************************************)
(* rustfmt (codegen/src/main.rs): source goes through a child process by   *)
(* two pipes.  Three parties take part: the thread that calls it, which    *)
(* reads the child's output; the feeding thread, which writes its input;   *)
(* and the child.  A pipe is bounded, so each of them can wait for another.*)
(*                                                                         *)
(* A pipe is modelled by how much is in it, which is all that its order    *)
(* allows to go wrong.  The child is external: a filter that reads and     *)
(* writes in an order of its own, one thing at a time, writes as much as   *)
(* it read, and may fail anywhere.  What it cannot know is that its input  *)
(* was cut short, so it may well succeed on half a source.                 *)
(*                                                                         *)
(* The specification's names begin with Call: GeneratorProofs extends this *)
(* module and Generator, whose threads make such calls.                    *)
(***************************************************************************)
EXTENDS Naturals

CONSTANTS
  PipeSize,    (* what a pipe holds                                         *)
  Length       (* how long the source is                                    *)

ASSUME PipeSizeAssumption == PipeSize \in Nat \ {0}
ASSUME LengthAssumption == Length \in Nat

VARIABLES
  caller,      (* where the calling thread is                               *)
  feeder,      (* where the feeding thread is                               *)
  child,       (* what the child does next, or how it exited                *)
  fed,         (* how much of the source is in the pipe or beyond           *)
  taken,       (* how much of it the child has read                         *)
  written,     (* how much output is in the pipe or beyond                  *)
  out,         (* how much of it the caller has read                        *)
  result       (* what the call returned                                    *)

piped == <<fed, taken, written, out>>
callVars == <<caller, feeder, child, piped, result>>

Callers == {"spawn", "read", "join", "returned"}
Feeders == {"none", "feeding", "done", "failed"}
Children == {"none", "reads", "writes", "flushes", "success", "failure"}
Results == {"none", "ok", "err"}

-----------------------------------------------------------------------------
InStdin == fed - taken
InStdout == written - out

(* The thread owns the child's stdin and drops it when it ends.            *)
StdinClosed == feeder \in {"done", "failed"}

Exited == child \in {"success", "failure"}

CallInit ==
  /\ caller = "spawn" /\ feeder = "none" /\ child = "none"
  /\ fed = 0 /\ taken = 0 /\ written = 0 /\ out = 0
  /\ result = "none"

-----------------------------------------------------------------------------
(* The calling thread.                                                     *)

Return(r) == caller' = "returned" /\ result' = r

(* The child and the feeding thread are started, or there is no rustfmt.   *)
Spawn ==
  /\ caller = "spawn"
  /\ UNCHANGED piped
  /\ \/ /\ caller' = "read" /\ feeder' = "feeding" /\ child' = "reads"
        /\ UNCHANGED result
     \/ Return("err") /\ UNCHANGED <<feeder, child>>

(* Mutants, here and below: each is the definition that follows with a     *)
(* plausible bug, and a run shows which property it breaks.                *)
Collect_Fed ==
  /\ caller = "read" /\ InStdout > 0 /\ StdinClosed
  /\ out' = out + 1
  /\ UNCHANGED <<caller, feeder, child, fed, taken, written, result>>

(* wait_with_output: it reads whatever is there, whoever is still feeding. *)
Collect ==
  /\ caller = "read" /\ InStdout > 0
  /\ out' = out + 1
  /\ UNCHANGED <<caller, feeder, child, fed, taken, written, result>>

(* It ends when the child has exited and all its output is read.           *)
WaitEnds ==
  /\ caller = "read" /\ InStdout = 0 /\ Exited
  /\ caller' = "join"
  /\ UNCHANGED <<feeder, child, piped, result>>

(* A read fails, and the call gives up on the child and on the thread.     *)
WaitFails ==
  /\ caller = "read"
  /\ Return("err")
  /\ UNCHANGED <<feeder, child, piped>>

Outcomes_Unjoined == {"err"} \cup IF child = "success" THEN {"ok"} ELSE {}

(* What the call can say of a joined thread and an exited child.  It still *)
(* fails on an output that is not UTF-8, which is not the model's to tell. *)
Outcomes ==
  {"err"} \cup IF feeder = "done" /\ child = "success" THEN {"ok"} ELSE {}

JoinThread ==
  /\ caller = "join" /\ StdinClosed
  /\ \E r \in Outcomes : Return(r)
  /\ UNCHANGED <<feeder, child, piped>>

-----------------------------------------------------------------------------
(* The feeding thread: write_all, a piece at a time.                       *)

Feed ==
  /\ feeder = "feeding" /\ fed < Length /\ InStdin < PipeSize /\ ~ Exited
  /\ fed' = fed + 1
  /\ UNCHANGED <<caller, feeder, child, taken, written, out, result>>

FeedEnds ==
  /\ feeder = "feeding" /\ fed = Length
  /\ feeder' = "done"
  /\ UNCHANGED <<caller, child, piped, result>>

(* A write to a child that is gone fails, and any other write may.         *)
FeedFails ==
  /\ feeder = "feeding" /\ fed < Length
  /\ feeder' = "failed"
  /\ UNCHANGED <<caller, child, piped, result>>

-----------------------------------------------------------------------------
(* The child.  Once it has chosen to read or to write it waits for that.   *)

NextMove(r, w) == {"reads"} \cup IF w < r THEN {"writes"} ELSE {}

ChildReads ==
  /\ child = "reads" /\ InStdin > 0
  /\ taken' = taken + 1
  /\ child' \in NextMove(taken + 1, written)
  /\ UNCHANGED <<caller, feeder, fed, written, out, result>>

ChildSeesEnd ==
  /\ child = "reads" /\ InStdin = 0 /\ StdinClosed
  /\ child' = "flushes"
  /\ UNCHANGED <<caller, feeder, piped, result>>

ChildWrites ==
  /\ child \in {"writes", "flushes"} /\ written < taken
  /\ InStdout < PipeSize /\ caller # "returned"
  /\ written' = written + 1
  /\ \/ child = "writes" /\ child' \in NextMove(taken, written + 1)
     \/ child = "flushes" /\ UNCHANGED child
  /\ UNCHANGED <<caller, feeder, fed, taken, out, result>>

ChildSucceeds ==
  /\ child = "flushes" /\ written = taken
  /\ child' = "success"
  /\ UNCHANGED <<caller, feeder, piped, result>>

(* It rejects the source, dies, or writes to a caller that is gone.        *)
ChildFails ==
  /\ child \in {"reads", "writes", "flushes"}
  /\ child' = "failure"
  /\ UNCHANGED <<caller, feeder, piped, result>>

(* The write that fails because nobody is left to read.                    *)
ChildHangsUp ==
  /\ child \in {"writes", "flushes"} /\ caller = "returned"
  /\ ChildFails

-----------------------------------------------------------------------------
Call == Spawn \/ Collect \/ WaitEnds \/ WaitFails \/ JoinThread
Feeding == Feed \/ FeedEnds \/ FeedFails
Child == ChildReads \/ ChildSeesEnd \/ ChildWrites \/ ChildSucceeds \/ ChildFails

(* The call has returned and nothing it started is left.                   *)
WoundUp ==
  /\ caller = "returned"
  /\ feeder # "feeding"
  /\ child = "none" \/ Exited

Ends == WoundUp /\ UNCHANGED callVars

CallNext == Call \/ Feeding \/ Child \/ Ends

(* Threads and processes are scheduled: one that can go on does.  None of  *)
(* the failures is owed, except that of a write whose other end is gone.   *)
CallFairness ==
  /\ WF_callVars(Spawn) /\ WF_callVars(Collect)
  /\ WF_callVars(WaitEnds) /\ WF_callVars(JoinThread)
  /\ WF_callVars(Feed) /\ WF_callVars(FeedEnds)
  /\ WF_callVars(Exited /\ FeedFails)
  /\ WF_callVars(ChildReads) /\ WF_callVars(ChildSeesEnd) /\ WF_callVars(ChildWrites)
  /\ WF_callVars(ChildSucceeds) /\ WF_callVars(ChildHangsUp)

CallSpec == CallInit /\ [][CallNext]_callVars /\ CallFairness

-----------------------------------------------------------------------------
(* The values of the variables: neither pipe ever holds more than it can.  *)
CallTypeOK ==
  /\ caller \in Callers /\ feeder \in Feeders
  /\ child \in Children /\ result \in Results
  /\ fed \in 0..Length /\ taken \in 0..fed
  /\ written \in 0..taken /\ out \in 0..written
  /\ InStdin <= PipeSize /\ InStdout <= PipeSize

(* What the feeding thread and the child have done where they say they are *)
(* done, and the caller where it has stopped reading.                      *)
AllFed == feeder = "done" => fed = Length
AllTaken == child \in {"flushes", "success"} => StdinClosed /\ taken = fed
AllWritten == child = "success" => written = taken
AllRead == caller = "join" => Exited /\ out = written

(* What a call returns as formatted is the whole source, formatted by a    *)
(* child that said it was done: not what came out before a failure, nor    *)
(* what a child made of a source that was cut short on the way to it.      *)
OkIsWhole ==
  result = "ok" =>
    /\ out = Length /\ fed = Length
    /\ feeder = "done" /\ child = "success"

(* The inductive invariant: when the caller joins a thread that fed all    *)
(* the source and a child that succeeded, all of it has come through each  *)
(* of the two pipes, and nothing moves afterwards.                         *)
CallIInv ==
  /\ CallTypeOK /\ AllFed /\ AllTaken /\ AllWritten /\ AllRead
  /\ result = "ok" => caller = "returned"
  /\ OkIsWhole

(* A call returns, and leaves neither the thread nor the child behind,     *)
(* however much larger than a pipe the source is: this is why the feeding  *)
(* has a thread of its own (the comment in rustfmt).                       *)
CallWindsUp == <>[]WoundUp
=============================================================================
