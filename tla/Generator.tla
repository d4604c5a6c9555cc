---------------------------- MODULE Generator ----------------------------
(***************************************************************************)
(* The code generator as a program (codegen/src/main.rs): it makes one     *)
(* file per target and one of upstream's rules, each on its own thread,    *)
(* and writes them, or with --check compares them with what is there.      *)
(*                                                                         *)
(* The text of a file is modelled by which file it is of and which version *)
(* of the generator makes it: the search is seeded, so a version always    *)
(* makes the same.  A call of rustfmt is one step, as module Formatter     *)
(* justifies.  Between two commands anyone may edit the files, or change   *)
(* the generator; while one runs nobody does, but it can be killed.        *)
(***************************************************************************)
EXTENDS Naturals, Sequences, Functions

CONSTANTS
  Targets,     (* the names of TARGETS' files, in its order                 *)
  Upstream,    (* the name of the file of upstream's rules                  *)
  Strays,      (* other names of .rs files                                  *)
  Versions,    (* of the generator                                          *)
  Refused(_)   (* the targets whose plan a version refuses: a vector target *)
               (* that sends every message of some length into the tail     *)

Names == Append(Targets, Upstream)
Files == Range(Names)
AllFiles == Files \cup Strays

ASSUME NamesAssumption ==
  /\ Targets \in Seq(Range(Targets))
  /\ IsInjective(Names)
  /\ Files \cap Strays = {}
  /\ "none" \notin Files

ASSUME RefusedAssumption == \A v \in Versions : Refused(v) \subseteq Range(Targets)

VARIABLES
  version,     (* of the generator                                          *)
  dir,         (* what each file holds                                      *)
  command,     (* "write" or "check", the last one given                    *)
  pc,          (* where it is                                               *)
  job,         (* where the thread of each file is                          *)
  forms,       (* the results joined so far, in the order of Names          *)
  leftover,    (* check's: the files listed and not met yet                 *)
  next,        (* the place in Names of the next file to write or compare   *)
  stale,       (* check's: whether a difference was met                     *)
  exit         (* how the command ended                                     *)

threads == <<job, forms>>
progress == <<threads, leftover, next, stale>>
vars == <<version, dir, command, pc, progress, exit>>

Text(f, v) == [file |-> f, version |-> v]
Texts == [file : Files, version : Versions]
Absent == [file |-> "none", version |-> "absent"]
Other == [file |-> "none", version |-> "other"]
Failed == [file |-> "none", version |-> "failed"]

Commands == {"none", "write", "check"}
Pcs == {"idle", "generate", "write", "fill", "compare"}
Jobs == {"none", "search", "format", "done", "failed"}
Exits == {"none", "success", "stale", "error", "killed"}

Init ==
  /\ version \in Versions
  /\ dir = [f \in AllFiles |-> Absent]
  /\ command = "none" /\ pc = "idle"
  /\ job = [f \in Files |-> "none"] /\ forms = <<>>
  /\ leftover = {} /\ next = 1 /\ stale = FALSE
  /\ exit = "none"

-----------------------------------------------------------------------------
(* The program ends, and with it everything but the files.                 *)
End(e) ==
  /\ pc' = "idle" /\ exit' = e
  /\ job' = [f \in Files |-> "none"] /\ forms' = <<>>
  /\ leftover' = {} /\ next' = 1 /\ stale' = FALSE

(* generate: one thread for upstream's rules and one per target.           *)
StartThreads ==
  /\ pc' = "generate" /\ exit' = "none"
  /\ job' = [f \in Files |-> IF f = Upstream THEN "format" ELSE "search"]
  /\ UNCHANGED <<forms, next, stale>>

(* write: create_dir_all may fail, and then generate() is called.          *)
StartWrite ==
  /\ pc = "idle" /\ command' = "write"
  /\ \/ StartThreads /\ UNCHANGED leftover
     \/ End("error")
  /\ UNCHANGED <<version, dir>>

Listed == {f \in AllFiles : dir[f] # Absent}

(* check: read_dir lists the .rs files or fails, and then generate().      *)
StartCheck ==
  /\ pc = "idle" /\ command' = "check"
  /\ \/ StartThreads /\ leftover' = Listed
     \/ End("error")
  /\ UNCHANGED <<version, dir>>

-----------------------------------------------------------------------------
(* A target's thread: plan(), which may refuse what the search found, and  *)
(* then rustfmt.  The thread of upstream's rules begins with rustfmt.      *)
Plan(f) ==
  /\ pc = "generate" /\ job[f] = "search"
  /\ job' = [job EXCEPT ![f] = IF f \in Refused(version) THEN "failed" ELSE "format"]
  /\ UNCHANGED <<version, dir, command, pc, forms, leftover, next, stale, exit>>

Format(f) ==
  /\ pc = "generate" /\ job[f] = "format"
  /\ \E r \in {"done", "failed"} : job' = [job EXCEPT ![f] = r]
  /\ UNCHANGED <<version, dir, command, pc, forms, leftover, next, stale, exit>>

-----------------------------------------------------------------------------
(* Mutants, here and below: each is the definition that follows with a     *)
(* plausible bug, and a run shows which property it breaks.                *)
Joinable_IfDone == {f \in {Names[Len(forms) + 1]} : job[f] = "done"}

(* per_target joins the threads in the order of TARGETS, whatever order    *)
(* they finish in, and generate() the one of upstream's rules after them.  *)
Joinable == {f \in {Names[Len(forms) + 1]} : job[f] \in {"done", "failed"}}

ResultOf(f) == IF job[f] = "done" THEN Text(f, version) ELSE Failed

Join ==
  /\ pc = "generate" /\ Len(forms) < Len(Names)
  /\ \E f \in Joinable : forms' = Append(forms, ResultOf(f))
  /\ UNCHANGED <<version, dir, command, pc, job, leftover, next, stale, exit>>

AnyFailed_OfTargets == \E i \in 1..Len(Targets) : forms[i] = Failed
AnyFailed == \E i \in 1..Len(Names) : forms[i] = Failed

(* Only then do the results become files, or the first failure an error.   *)
Generated ==
  /\ pc = "generate" /\ Len(forms) = Len(Names)
  /\ IF AnyFailed
     THEN End("error")
     ELSE /\ pc' = (IF command = "write" THEN "write" ELSE "compare")
          /\ UNCHANGED <<exit, progress>>
  /\ UNCHANGED <<version, dir, command>>

-----------------------------------------------------------------------------
(* write: fs::write makes or cuts the file, then fills it.  Either may     *)
(* fail, and the files after it are then not reached.                      *)
Truncate ==
  /\ pc = "write" /\ next <= Len(Names)
  /\ \/ /\ dir' = [dir EXCEPT ![Names[next]] = Other]
        /\ pc' = "fill" /\ UNCHANGED <<exit, progress>>
     \/ End("error") /\ UNCHANGED dir
  /\ UNCHANGED <<version, command>>

Fill ==
  /\ pc = "fill"
  /\ \/ /\ dir' = [dir EXCEPT ![Names[next]] = forms[next]]
        /\ pc' = "write" /\ next' = next + 1
        /\ UNCHANGED <<exit, threads, leftover, stale>>
     \/ End("error") /\ UNCHANGED dir
  /\ UNCHANGED <<version, command>>

Written ==
  /\ pc = "write" /\ next > Len(Names)
  /\ End("success")
  /\ UNCHANGED <<version, dir, command>>

-----------------------------------------------------------------------------
(* check: a file that cannot be read is missing, whatever the reason; one  *)
(* that does not read as text is Absent here, and read_to_string's failure *)
(* on a file that is up to date is left out.                               *)
Differs(f, want) == dir[f] # want

Compare ==
  /\ pc = "compare" /\ next <= Len(Names)
  /\ leftover' = leftover \ {Names[next]}
  /\ stale' = (stale \/ Differs(Names[next], forms[next]))
  /\ next' = next + 1
  /\ UNCHANGED <<version, dir, command, pc, threads, exit>>

Stale_Listed == stale
Stale == stale \/ leftover # {}

(* What is left of the listing is no longer generated.                     *)
Compared ==
  /\ pc = "compare" /\ next > Len(Names)
  /\ End(IF Stale THEN "stale" ELSE "success")
  /\ UNCHANGED <<version, dir, command>>

-----------------------------------------------------------------------------
(* The command is killed, with all its threads.                            *)
Kill ==
  /\ pc # "idle"
  /\ End("killed")
  /\ UNCHANGED <<version, dir, command>>

(* Somebody edits, adds or removes a file.                                 *)
Edit(f, c) ==
  /\ pc = "idle" /\ dir[f] # c
  /\ dir' = [dir EXCEPT ![f] = c]
  /\ command' = "none" /\ exit' = "none"
  /\ UNCHANGED <<version, pc, progress>>

(* Somebody edits the generator, or checks out another commit of it.       *)
Upgrade(v) ==
  /\ pc = "idle" /\ version # v
  /\ version' = v
  /\ command' = "none" /\ exit' = "none"
  /\ UNCHANGED <<dir, pc, progress>>

Thread(f) == Plan(f) \/ Format(f)
Main == Join \/ Generated \/ Truncate \/ Fill \/ Written \/ Compare \/ Compared

Next ==
  \/ StartWrite \/ StartCheck
  \/ \E f \in Files : Thread(f)
  \/ Main
  \/ Kill
  \/ \E f \in AllFiles, c \in {Absent, Other} : Edit(f, c)
  \/ \E v \in Versions : Upgrade(v)

(* Every thread goes on while it can, and a call of rustfmt returns.       *)
Fairness ==
  /\ WF_vars(Main)
  /\ \A f \in Files : WF_vars(Thread(f))

Spec == Init /\ [][Next]_vars /\ Fairness

-----------------------------------------------------------------------------
UpToDate(f) == dir[f] = Text(f, version)

(* The values of the variables.                                            *)
TypeOK ==
  /\ version \in Versions /\ dir \in [AllFiles -> Texts \cup {Absent, Other}]
  /\ command \in Commands /\ pc \in Pcs
  /\ job \in [Files -> Jobs]
  /\ forms \in Seq(Texts \cup {Failed}) /\ Len(forms) <= Len(Names)
  /\ leftover \subseteq AllFiles
  /\ next \in 1..(Len(Names) + 1)
  /\ stale \in BOOLEAN /\ exit \in Exits

(* A result that is joined is that of the thread it is taken for, whatever *)
(* order the threads finish in, and no form of the check ends up under     *)
(* another's name (per_target, generate).                                  *)
OwnText ==
  /\ \A i \in DOMAIN forms :
       job[Names[i]] \in {"done", "failed"} /\ forms[i] = ResultOf(Names[i])
  /\ \A f \in AllFiles, g \in Texts : dir[f] = g => f = g.file

(* A command that fails to make one of its files, for a plan it refuses or *)
(* for rustfmt, touches none; one that fails later has the files before    *)
(* that one up to date, and none after it touched (write).                 *)
WritesInTurn ==
  [][ \A f \in Files : pc # "idle" /\ dir'[f] # dir[f] =>
        /\ command = "write" /\ f = Names[next]
        /\ \A g \in Files : job[g] = "done"
        /\ \A i \in 1..(next - 1) : UpToDate(Names[i]) ]_vars

(* --check succeeds exactly on what this generator emits, no more and no   *)
(* less: after any edits, and after a write that was killed half way.  A   *)
(* write that succeeds leaves every file up to date (check, write).        *)
ExitTellsTheTruth ==
  /\ command = "check" /\ exit = "success" =>
       (\A f \in Files : UpToDate(f)) /\ (\A f \in Strays : dir[f] = Absent)
  /\ command = "check" /\ exit = "stale" =>
       (\E f \in Files : ~ UpToDate(f)) \/ (\E f \in Strays : dir[f] # Absent)
  /\ command = "write" /\ exit = "success" => \A f \in Files : UpToDate(f)

(* What a command in progress knows.                                       *)
Fresh == forms = << >> /\ next = 1 /\ stale = FALSE

GenerateInv == next = 1 /\ stale = FALSE /\ (command = "check" => leftover = Listed)

AllMade ==
  Len(forms) = Len(Names) /\ \A i \in DOMAIN Names : forms[i] = Text(Names[i], version)

WriteInv == AllMade /\ \A i \in 1 .. (next - 1) : UpToDate(Names[i])

CompareInv ==
  /\ AllMade
  /\ leftover = Listed \ {Names[i] : i \in 1 .. (next - 1)}
  /\ stale <=> \E i \in 1 .. (next - 1) : ~ UpToDate(Names[i])

(* The inductive invariant: at each point of a command, what it has met of *)
(* the files so far is what they hold, and what it is about to write is    *)
(* theirs.  In the end this makes what it reports true.                    *)
IInv ==
  /\ TypeOK /\ OwnText
  /\ pc = "idle" => Fresh
  /\ pc # "idle" => exit = "none"
  /\ pc = "generate" => command \in {"write", "check"} /\ GenerateInv
  /\ pc \in {"write", "fill"} => command = "write" /\ WriteInv
  /\ pc = "fill" => next <= Len(Names)
  /\ pc = "compare" => command = "check" /\ CompareInv
  /\ ExitTellsTheTruth

(* A command ends, whichever of its threads fail.                          *)
CommandEnds == (pc # "idle") ~> (pc = "idle")
=============================================================================
