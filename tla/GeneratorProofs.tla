---------------------------- MODULE GeneratorProofs ----------------------------
(***************************************************************************)
(* What a command of the generator reports is so, for any targets, stray   *)
(* files and versions, whatever fails on the way; and what it reads off a  *)
(* C original that does nothing but tie bits in pairs is what the C says,  *)
(* for any number of bits, DVs, samples and schedules tried.               *)
(***************************************************************************)
EXTENDS Generator, Formatter, RuleReader, FiniteSetTheorems, WellFoundedInduction, TLAPS

(* The names are listed once each.                                         *)
LEMMA NamesFacts ==
  /\ Len(Names) \in Nat \ {0} /\ DOMAIN Names = 1 .. Len(Names)
  /\ \A i \in 1 .. Len(Names) : Names[i] \in Files /\ Names[i] \in AllFiles
  /\ \A i, j \in 1 .. Len(Names) : Names[i] = Names[j] => i = j
  /\ \A f \in Files : \E i \in 1 .. Len(Names) : f = Names[i]
  /\ Files \subseteq AllFiles /\ Strays \subseteq AllFiles
  /\ AllFiles \ Strays = Files
  /\ Upstream \in Files
<1>1. Targets \in Seq(Range(Targets) \cup {Upstream})
  BY NamesAssumption
<1>2. Names \in Seq(Range(Targets) \cup {Upstream}) /\ Len(Names) = Len(Targets) + 1
      /\ Names[Len(Names)] = Upstream /\ DOMAIN Names = 1 .. Len(Names)
  BY <1>1 DEF Names
<1>3. Len(Targets) \in Nat
  BY <1>1
<1> QED
  BY <1>2, <1>3, NamesAssumption, SMTT(30) DEF Files, AllFiles, Range, IsInjective

(* The marks of a file that is not a generated text are not texts.         *)
LEMMA MarksAreNotTexts ==
  /\ Absent \notin Texts /\ Other \notin Texts /\ Failed \notin Texts
  /\ Absent # Other
  /\ \A f \in Files, v \in Versions :
       Text(f, v) \in Texts /\ Text(f, v).file = f /\ Text(f, v) \notin {Absent, Other, Failed}
BY NamesAssumption DEF Absent, Other, Failed, Texts, Text

LEMMA InitIInv == Init => IInv
<1> SUFFICES ASSUME Init PROVE IInv
  OBVIOUS
<1> USE DEF Init
<1>a. forms \in Seq(Texts \cup {Failed}) /\ Len(forms) <= Len(Names)
  BY NamesFacts
<1>b. next \in 1 .. (Len(Names) + 1)
  BY NamesFacts
<1>1. TypeOK
  BY <1>a, <1>b DEF TypeOK, Commands, Pcs, Jobs, Exits
<1>2. OwnText
  BY MarksAreNotTexts DEF OwnText
<1> QED
  BY <1>1, <1>2 DEF IInv, Fresh, ExitTellsTheTruth

(* Where a command ends, only its report is left to check.                 *)
LEMMA EndIInv ==
  ASSUME IInv, NEW e \in Exits, End(e), UNCHANGED version, command' \in Commands,
         dir' \in [AllFiles -> Texts \cup {Absent, Other}],
         \A f \in AllFiles, g \in Texts : dir'[f] = g => f = g.file,
         ExitTellsTheTruth'
  PROVE  IInv'
<1>a. forms' \in Seq(Texts \cup {Failed}) /\ Len(forms') <= Len(Names)
  BY NamesFacts DEF End
<1>b. next' \in 1 .. (Len(Names) + 1)
  BY NamesFacts DEF End
<1>1. TypeOK'
  BY <1>a, <1>b DEF IInv, TypeOK, End, Pcs, Jobs
<1>2. OwnText'
  BY DEF OwnText, End
<1> QED
  BY <1>1, <1>2 DEF IInv, Fresh, End

(* A command begins, with the listing it has made.                         *)
LEMMA StartIInv ==
  ASSUME IInv, pc = "idle", StartThreads, UNCHANGED <<version, dir>>,
         command' \in {"write", "check"}, leftover' \subseteq AllFiles,
         command' = "check" => leftover' = Listed
  PROVE  IInv'
<1>1. Fresh /\ TypeOK /\ OwnText
  BY DEF IInv
<1>2. TypeOK'
  BY <1>1 DEF TypeOK, StartThreads, Pcs, Jobs, Exits, Commands
<1>3. OwnText'
  BY <1>1 DEF OwnText, StartThreads, Fresh
<1>4. GenerateInv'
  BY <1>1 DEF GenerateInv, StartThreads, Fresh, Listed
<1> QED
  BY <1>2, <1>3, <1>4 DEF IInv, StartThreads, ExitTellsTheTruth

(* A thread that is not joined yet goes on.                                *)
LEMMA ThreadIInv ==
  ASSUME IInv, NEW f \in Files, Thread(f)
  PROVE  IInv'
<1>1. PICK r \in Jobs : job' = [job EXCEPT ![f] = r]
  BY DEF Thread, Plan, Format, Jobs
<1>2. /\ pc = "generate" /\ job[f] \in {"search", "format"}
      /\ UNCHANGED <<version, dir, command, pc, forms, leftover, next, stale, exit>>
  BY DEF Thread, Plan, Format
<1>3. TypeOK'
  BY <1>1, <1>2 DEF IInv, TypeOK
<1>4. OwnText'
  BY <1>1, <1>2, NamesFacts DEF IInv, TypeOK, OwnText, ResultOf
<1> QED
  BY <1>2, <1>3, <1>4 DEF IInv, GenerateInv, Listed, ExitTellsTheTruth

LEMMA JoinIInv == IInv /\ Join => IInv'
<1> SUFFICES ASSUME IInv, Join PROVE IInv'
  OBVIOUS
<1> DEFINE f == Names[Len(forms) + 1]
<1>0. forms \in Seq(Texts \cup {Failed}) /\ Len(forms) \in Nat /\ Len(forms) < Len(Names)
  BY DEF IInv, TypeOK, Join
<1>1. job[f] \in {"done", "failed"} /\ forms' = Append(forms, ResultOf(f)) /\ f \in Files
  BY <1>0, NamesFacts DEF Join, Joinable
<1>2. /\ pc = "generate"
      /\ UNCHANGED <<version, dir, command, pc, job, leftover, next, stale, exit>>
  BY DEF Join
<1>3. ResultOf(f) \in Texts \cup {Failed}
  BY <1>1, MarksAreNotTexts DEF ResultOf, IInv, TypeOK
<1>4. TypeOK'
  BY <1>0, <1>1, <1>2, <1>3, NamesFacts DEF IInv, TypeOK
<1>5. \A i \in DOMAIN forms' : IF i = Len(forms) + 1 THEN forms'[i] = ResultOf(f)
                               ELSE i \in DOMAIN forms /\ forms'[i] = forms[i]
  BY <1>0, <1>1, <1>3
<1>6. OwnText'
  BY <1>1, <1>2, <1>5 DEF IInv, OwnText, ResultOf
<1> QED
  BY <1>2, <1>4, <1>6 DEF IInv, GenerateInv, Listed, ExitTellsTheTruth

(* A file that is made, cut or filled holds what is its own or no text.    *)
LEMMA FileIInv ==
  ASSUME IInv, pc \in {"write", "fill"}, next \in 1 .. Len(Names),
         NEW c \in {Other, forms[next]}, dir' = [dir EXCEPT ![Names[next]] = c]
  PROVE  /\ dir' \in [AllFiles -> Texts \cup {Absent, Other}]
         /\ \A f \in AllFiles, g \in Texts : dir'[f] = g => f = g.file
         /\ \A f \in AllFiles : f # Names[next] => dir'[f] = dir[f]
         /\ dir'[Names[next]] = c
<1>1. AllMade /\ version \in Versions /\ dir \in [AllFiles -> Texts \cup {Absent, Other}]
  BY DEF IInv, WriteInv, TypeOK
<1>2. c = Other \/ c = Text(Names[next], version)
  BY <1>1, NamesFacts DEF AllMade
<1>3. c \in Texts \cup {Other} /\ (c \in Texts => c.file = Names[next])
  BY <1>1, <1>2, NamesFacts, MarksAreNotTexts
<1> QED
  BY <1>1, <1>3, NamesFacts DEF IInv, OwnText

LEMMA GeneratedIInv == IInv /\ Generated => IInv'
<1> SUFFICES ASSUME IInv, Generated PROVE IInv'
  OBVIOUS
<1>1. /\ pc = "generate" /\ Len(forms) = Len(Names) /\ exit = "none"
      /\ command \in {"write", "check"} /\ GenerateInv /\ TypeOK /\ OwnText
  BY DEF IInv, Generated
<1>2. CASE AnyFailed
  <2>1. End("error") /\ UNCHANGED <<version, dir, command>>
    BY <1>2 DEF Generated
  <2>2. ExitTellsTheTruth'
    BY <2>1 DEF End, ExitTellsTheTruth
  <2> QED
    BY <1>1, <2>1, <2>2, EndIInv DEF TypeOK, OwnText, Exits
<1>3. CASE ~ AnyFailed
  <2>1. /\ pc' = (IF command = "write" THEN "write" ELSE "compare")
        /\ UNCHANGED <<version, dir, command, exit, job, forms, leftover, next, stale>>
    BY <1>3 DEF Generated, progress, threads
  <2>2. TypeOK' /\ OwnText'
    BY <1>1, <2>1 DEF TypeOK, OwnText, Pcs, ResultOf
  <2>3. \A i \in 1 .. Len(Names) : forms[i] = Text(Names[i], version)
    <3> SUFFICES ASSUME NEW i \in 1 .. Len(Names) PROVE forms[i] = Text(Names[i], version)
      OBVIOUS
    <3>1. i \in DOMAIN forms /\ forms[i] # Failed
      BY <1>1, <1>3 DEF AnyFailed, TypeOK
    <3> QED
      BY <1>1, <3>1 DEF OwnText, ResultOf
  <2>4. AllMade'
    BY <1>1, <2>1, <2>3, NamesFacts DEF AllMade
  <2>5. next = 1 /\ 1 .. (next - 1) = {}
    BY <1>1 DEF GenerateInv
  <2>6. CASE command = "write"
    BY <1>1, <2>1, <2>2, <2>4, <2>5, <2>6 DEF IInv, WriteInv, ExitTellsTheTruth
  <2>7. CASE command = "check"
    <3>1. CompareInv'
      BY <1>1, <2>1, <2>4, <2>5, <2>7 DEF CompareInv, GenerateInv, Listed
    <3> QED
      BY <1>1, <2>1, <2>2, <2>7, <3>1 DEF IInv, ExitTellsTheTruth
  <2> QED
    BY <1>1, <2>6, <2>7
<1> QED
  BY <1>2, <1>3

LEMMA TruncateIInv == IInv /\ Truncate => IInv'
<1> SUFFICES ASSUME IInv, Truncate PROVE IInv'
  OBVIOUS
<1>1. /\ pc = "write" /\ next \in 1 .. Len(Names) /\ exit = "none"
      /\ command = "write" /\ WriteInv /\ TypeOK /\ OwnText
      /\ UNCHANGED <<version, command>>
  BY NamesFacts DEF IInv, Truncate, TypeOK
<1>2. CASE End("error") /\ UNCHANGED dir
  <2>1. ExitTellsTheTruth'
    BY <1>2 DEF End, ExitTellsTheTruth
  <2> QED
    BY <1>1, <1>2, <2>1, EndIInv DEF TypeOK, OwnText, Exits
<1>3. CASE /\ dir' = [dir EXCEPT ![Names[next]] = Other]
           /\ pc' = "fill" /\ UNCHANGED <<exit, progress>>
  <2>1. /\ dir' \in [AllFiles -> Texts \cup {Absent, Other}]
        /\ \A f \in AllFiles, g \in Texts : dir'[f] = g => f = g.file
        /\ \A f \in AllFiles : f # Names[next] => dir'[f] = dir[f]
    BY <1>1, <1>3, FileIInv
  <2>2. UNCHANGED <<version, command, exit, job, forms, leftover, next, stale>>
    BY <1>1, <1>3 DEF progress, threads
  <2>3. TypeOK' /\ OwnText'
    BY <1>1, <1>3, <2>1, <2>2 DEF TypeOK, OwnText, Pcs, ResultOf
  <2>4. WriteInv'
    BY <1>1, <2>1, <2>2, NamesFacts DEF WriteInv, AllMade, UpToDate
  <2> QED
    BY <1>1, <1>3, <2>2, <2>3, <2>4 DEF IInv, ExitTellsTheTruth
<1> QED
  BY <1>2, <1>3 DEF Truncate

LEMMA FillIInv == IInv /\ Fill => IInv'
<1> SUFFICES ASSUME IInv, Fill PROVE IInv'
  OBVIOUS
<1>1. /\ pc = "fill" /\ next \in 1 .. Len(Names) /\ exit = "none"
      /\ command = "write" /\ WriteInv /\ TypeOK /\ OwnText
      /\ UNCHANGED <<version, command>>
  BY NamesFacts DEF IInv, Fill, TypeOK
<1>2. CASE End("error") /\ UNCHANGED dir
  <2>1. ExitTellsTheTruth'
    BY <1>2 DEF End, ExitTellsTheTruth
  <2> QED
    BY <1>1, <1>2, <2>1, EndIInv DEF TypeOK, OwnText, Exits
<1>3. CASE /\ dir' = [dir EXCEPT ![Names[next]] = forms[next]]
           /\ pc' = "write" /\ next' = next + 1
           /\ UNCHANGED <<exit, threads, leftover, stale>>
  <2>1. /\ dir' \in [AllFiles -> Texts \cup {Absent, Other}]
        /\ \A f \in AllFiles, g \in Texts : dir'[f] = g => f = g.file
        /\ \A f \in AllFiles : f # Names[next] => dir'[f] = dir[f]
        /\ dir'[Names[next]] = forms[next]
    BY <1>1, <1>3, FileIInv
  <2>2. UNCHANGED <<version, command, exit, job, forms, leftover, stale>>
    BY <1>1, <1>3 DEF threads
  <2>3. next' \in 1 .. (Len(Names) + 1)
    BY <1>1, <1>3, NamesFacts
  <2>4. TypeOK' /\ OwnText'
    BY <1>1, <1>3, <2>1, <2>2, <2>3 DEF TypeOK, OwnText, Pcs, ResultOf
  <2>5. \A i \in 1 .. (next' - 1) : UpToDate(Names[i])'
    <3> SUFFICES ASSUME NEW i \in 1 .. next PROVE UpToDate(Names[i])'
      BY <1>1, <1>3, NamesFacts
    <3>1. i \in 1 .. Len(Names)
      BY <1>1, NamesFacts
    <3>2. CASE i = next
      BY <1>1, <2>1, <2>2, <3>1, <3>2, NamesFacts DEF WriteInv, AllMade, UpToDate
    <3>3. CASE i # next
      BY <1>1, <2>1, <2>2, <3>1, <3>3, NamesFacts DEF WriteInv, UpToDate
    <3> QED
      BY <3>2, <3>3
  <2>6. WriteInv'
    BY <1>1, <2>2, <2>5 DEF WriteInv, AllMade
  <2> QED
    BY <1>1, <1>3, <2>2, <2>4, <2>6 DEF IInv, ExitTellsTheTruth
<1> QED
  BY <1>2, <1>3 DEF Fill

(* A write that has gone through all the names has met every file.         *)
LEMMA WrittenIInv == IInv /\ Written => IInv'
<1> SUFFICES ASSUME IInv, Written PROVE IInv'
  OBVIOUS
<1>1. /\ pc = "write" /\ next = Len(Names) + 1 /\ command = "write" /\ WriteInv
      /\ End("success") /\ UNCHANGED <<version, dir, command>> /\ TypeOK /\ OwnText
  BY NamesFacts DEF IInv, Written, TypeOK
<1>2. \A f \in Files : UpToDate(f)
  BY <1>1, NamesFacts DEF WriteInv
<1>3. ExitTellsTheTruth'
  BY <1>1, <1>2 DEF ExitTellsTheTruth, End, UpToDate
<1> QED
  BY <1>1, <1>3, EndIInv DEF TypeOK, OwnText, Exits

LEMMA CompareIInv == IInv /\ Compare => IInv'
<1> SUFFICES ASSUME IInv, Compare PROVE IInv'
  OBVIOUS
<1>1. /\ pc = "compare" /\ next \in 1 .. Len(Names) /\ command = "check" /\ exit = "none"
      /\ CompareInv /\ TypeOK /\ OwnText
      /\ UNCHANGED <<version, dir, command, pc, job, forms, exit>>
      /\ leftover' = leftover \ {Names[next]} /\ next' = next + 1
      /\ stale' = (stale \/ Differs(Names[next], forms[next]))
  BY NamesFacts DEF IInv, Compare, TypeOK, threads
<1>2. next' \in 1 .. (Len(Names) + 1) /\ stale' \in BOOLEAN
  BY <1>1, NamesFacts DEF TypeOK
<1>3. TypeOK' /\ OwnText'
  BY <1>1, <1>2 DEF TypeOK, OwnText, ResultOf
<1>4. 1 .. (next' - 1) = 1 .. (next - 1) \cup {next}
  BY <1>1, NamesFacts
<1>5. Differs(Names[next], forms[next]) <=> ~ UpToDate(Names[next])
  BY <1>1, NamesFacts DEF Differs, UpToDate, CompareInv, AllMade
<1>6. AllMade' /\ Listed' = Listed /\ \A f \in Files : UpToDate(f)' <=> UpToDate(f)
  BY <1>1 DEF CompareInv, AllMade, Listed, UpToDate
<1>7. leftover' = Listed' \ {Names[i] : i \in 1 .. (next' - 1)}
  BY <1>1, <1>4, <1>6 DEF CompareInv
<1>8. stale' <=> \E i \in 1 .. (next' - 1) : ~ UpToDate(Names[i])'
  BY <1>1, <1>4, <1>5 DEF CompareInv, UpToDate
<1>9. CompareInv'
  BY <1>6, <1>7, <1>8 DEF CompareInv
<1> QED
  BY <1>1, <1>3, <1>9 DEF IInv, ExitTellsTheTruth

(* A check that has gone through all the names has met every file, and     *)
(* what is left of its listing are the strays.                             *)
LEMMA ComparedIInv == IInv /\ Compared => IInv'
<1> SUFFICES ASSUME IInv, Compared PROVE IInv'
  OBVIOUS
<1>1. /\ pc = "compare" /\ next = Len(Names) + 1 /\ command = "check" /\ CompareInv
      /\ End(IF Stale THEN "stale" ELSE "success")
      /\ UNCHANGED <<version, dir, command>> /\ TypeOK /\ OwnText
  BY NamesFacts DEF IInv, Compared, TypeOK
<1>2. {Names[i] : i \in 1 .. (next - 1)} = Files
  BY <1>1, NamesFacts
<1>3. stale <=> \E f \in Files : ~ UpToDate(f)
  BY <1>1, NamesFacts DEF CompareInv
<1>4. leftover = {f \in Strays : dir[f] # Absent}
  BY <1>1, <1>2, NamesFacts, NamesAssumption DEF CompareInv, Listed, AllFiles
<1>5. Stale <=> (\E f \in Files : ~ UpToDate(f)) \/ (\E f \in Strays : dir[f] # Absent)
  BY <1>3, <1>4 DEF Stale
<1>6. ExitTellsTheTruth'
  BY <1>1, <1>5 DEF ExitTellsTheTruth, End, UpToDate
<1> QED
  BY <1>1, <1>6, EndIInv DEF TypeOK, OwnText, Exits

(* Every step keeps the invariant.                                         *)
LEMMA NextIInv == IInv /\ [Next]_vars => IInv'
<1> SUFFICES ASSUME IInv, [Next]_vars PROVE IInv'
  OBVIOUS
<1>0. TypeOK /\ OwnText /\ (pc = "idle" => Fresh)
  BY DEF IInv
<1>1. CASE StartWrite
  <2>1. pc = "idle" /\ command' = "write" /\ UNCHANGED <<version, dir>>
    BY <1>1 DEF StartWrite
  <2>2. CASE StartThreads /\ UNCHANGED leftover
    BY <1>0, <2>1, <2>2, StartIInv DEF TypeOK
  <2>3. CASE End("error")
    <3>1. ExitTellsTheTruth'
      BY <2>3 DEF End, ExitTellsTheTruth
    <3> QED
      BY <1>0, <2>1, <2>3, <3>1, EndIInv DEF TypeOK, OwnText, Exits, Commands
  <2> QED
    BY <1>1, <2>2, <2>3 DEF StartWrite
<1>2. CASE StartCheck
  <2>1. pc = "idle" /\ command' = "check" /\ UNCHANGED <<version, dir>>
    BY <1>2 DEF StartCheck
  <2>2. CASE StartThreads /\ leftover' = Listed
    BY <2>1, <2>2, StartIInv DEF Listed
  <2>3. CASE End("error")
    <3>1. ExitTellsTheTruth'
      BY <2>3 DEF End, ExitTellsTheTruth
    <3> QED
      BY <1>0, <2>1, <2>3, <3>1, EndIInv DEF TypeOK, OwnText, Exits, Commands
  <2> QED
    BY <1>2, <2>2, <2>3 DEF StartCheck
<1>3. CASE \E f \in Files : Thread(f)
  BY <1>3, ThreadIInv
<1>4. CASE Main
  BY <1>4, JoinIInv, GeneratedIInv, TruncateIInv, FillIInv, WrittenIInv, CompareIInv,
     ComparedIInv DEF Main
<1>5. CASE Kill
  <2>1. End("killed") /\ UNCHANGED <<version, dir, command>>
    BY <1>5 DEF Kill
  <2>2. ExitTellsTheTruth'
    BY <2>1 DEF End, ExitTellsTheTruth
  <2> QED
    BY <1>0, <2>1, <2>2, EndIInv DEF TypeOK, OwnText, Exits
<1>6. ASSUME NEW f \in AllFiles, NEW c \in {Absent, Other}, Edit(f, c)
      PROVE  IInv'
  <2>1. /\ pc = "idle" /\ dir' = [dir EXCEPT ![f] = c]
        /\ command' = "none" /\ exit' = "none"
        /\ UNCHANGED <<version, pc, job, forms, leftover, next, stale>>
    BY <1>6 DEF Edit, progress, threads
  <2>2. TypeOK'
    BY <1>0, <2>1 DEF TypeOK, Commands, Exits
  <2>3. OwnText'
    BY <1>0, <2>1, MarksAreNotTexts DEF TypeOK, OwnText, ResultOf
  <2> QED
    BY <1>0, <2>1, <2>2, <2>3 DEF IInv, Fresh, ExitTellsTheTruth
<1>7. ASSUME NEW v \in Versions, Upgrade(v)
      PROVE  IInv'
  <2>1. /\ pc = "idle" /\ version' = v /\ command' = "none" /\ exit' = "none"
        /\ UNCHANGED <<dir, pc, job, forms, leftover, next, stale>>
    BY <1>7 DEF Upgrade, progress, threads
  <2>2. TypeOK'
    BY <1>0, <2>1 DEF TypeOK, Commands, Exits
  <2>3. OwnText'
    BY <1>0, <2>1 DEF OwnText, Fresh
  <2> QED
    BY <1>0, <2>1, <2>2, <2>3 DEF IInv, Fresh, ExitTellsTheTruth
<1>8. CASE UNCHANGED vars
  BY <1>8 DEF vars, progress, threads, IInv, TypeOK, OwnText, ResultOf, Fresh, GenerateInv,
     WriteInv, CompareInv, AllMade, Listed, UpToDate, ExitTellsTheTruth
<1> QED
  BY <1>1, <1>2, <1>3, <1>4, <1>5, <1>6, <1>7, <1>8 DEF Next

(* The inductive invariant holds in every state.                           *)
THEOREM SpecIInv == Spec => []IInv
<1>1. Init => IInv
  BY InitIInv
<1>2. IInv /\ [Next]_vars => IInv'
  BY NextIInv
<1> QED
  BY <1>1, <1>2, PTL DEF Spec

(* What a command reports of the files is so (write, check).               *)
THEOREM SpecExitTellsTheTruth == Spec => []ExitTellsTheTruth
<1>1. IInv => ExitTellsTheTruth
  BY DEF IInv
<1> QED
  BY <1>1, SpecIInv, PTL

(* The texts joined are all of finished threads once none is a failure.    *)
LEMMA AllMadeIsDone ==
  ASSUME IInv, AllMade
  PROVE  \A g \in Files : job[g] = "done"
<1>1. \A i \in 1 .. Len(Names) : forms[i] = ResultOf(Names[i]) /\ forms[i] # Failed
  <2>1. DOMAIN forms = 1 .. Len(Names) /\ version \in Versions
    BY NamesFacts DEF AllMade, IInv, TypeOK
  <2> QED
    BY <2>1, NamesFacts, MarksAreNotTexts DEF AllMade, IInv, OwnText
<1>2. \A i \in 1 .. Len(Names) : job[Names[i]] = "done"
  BY <1>1 DEF ResultOf
<1> QED
  BY <1>2, NamesFacts

(* While a command runs only a write touches a file, the one whose turn it *)
(* is, after all of them were made and with those before it up to date     *)
(* (write).                                                                *)
THEOREM SpecWritesInTurn == Spec => WritesInTurn
<1> DEFINE InTurn(f) == /\ command = "write" /\ f = Names[next]
                        /\ \A g \in Files : job[g] = "done"
                        /\ \A i \in 1 .. (next - 1) : UpToDate(Names[i])
<1>1. ASSUME IInv, [Next]_vars
      PROVE  [\A f \in Files : pc # "idle" /\ dir'[f] # dir[f] => InTurn(f)]_vars
  <2> SUFFICES ASSUME NEW f \in Files, pc # "idle", dir'[f] # dir[f]
               PROVE  InTurn(f)
    OBVIOUS
  <2>1. Truncate \/ Fill
    BY <1>1 DEF Next, Main, Thread, StartWrite, StartCheck, Plan, Format, Join, Generated,
       Written, Compare, Compared, Kill, Edit, Upgrade, vars
  <2>2. pc \in {"write", "fill"} /\ dir \in [AllFiles -> Texts \cup {Absent, Other}]
    BY <1>1, <2>1 DEF Truncate, Fill, IInv, TypeOK
  <2>3. command = "write" /\ WriteInv
    BY <1>1, <2>2 DEF IInv
  <2>4. f = Names[next]
    BY <2>1, <2>2, NamesFacts DEF Truncate, Fill
  <2> QED
    BY <1>1, <2>3, <2>4, AllMadeIsDone DEF WriteInv
<1> QED
  BY <1>1, SpecIInv, PTL DEF Spec, WritesInTurn
-----------------------------------------------------------------------------
(* rustfmt, which a thread of a command calls (module Formatter, whose     *)
(* names are a call's): what it returns is the whole formatted source, for *)
(* sources and pipes of any size and any child.                            *)

(* Before a call nothing has moved.                                        *)
LEMMA CallInitIInv ==
  CallInit => CallIInv
BY PipeSizeAssumption, LengthAssumption
   DEF CallInit, CallIInv, CallTypeOK, AllFed, AllTaken,
       AllWritten, AllRead, OkIsWhole, Callers,
       Feeders, Children, Results, InStdin, InStdout

(* Each step of the three parties keeps the invariant.                     *)
LEMMA CallNextIInv ==
  CallIInv /\ [CallNext]_callVars => CallIInv'
<1> SUFFICES ASSUME CallIInv, [CallNext]_callVars PROVE CallIInv'
  OBVIOUS
<1> USE PipeSizeAssumption, LengthAssumption
<1> USE DEF CallIInv, CallTypeOK, AllFed, AllTaken,
            AllWritten, AllRead, OkIsWhole, Callers,
            Feeders, Children, Results, InStdin,
            InStdout, StdinClosed, Exited, piped
<1>1. CASE Spawn
  BY <1>1 DEF Spawn, Return
<1>2. CASE Collect
  BY <1>2 DEF Collect
<1>3. CASE WaitEnds
  BY <1>3 DEF WaitEnds
<1>4. CASE WaitFails
  BY <1>4 DEF WaitFails, Return
<1>5. CASE JoinThread
  <2>1. PICK r \in Outcomes : Return(r)
    BY <1>5 DEF JoinThread
  <2>2. r = "err" \/ (r = "ok" /\ feeder = "done" /\ child = "success")
    BY <2>1 DEF Outcomes
  <2>3. r = "ok" => out = Length /\ fed = Length
    BY <1>5, <2>2 DEF JoinThread
  <2> QED
    BY <1>5, <2>1, <2>2, <2>3 DEF JoinThread, Return
<1>6. CASE Feed
  BY <1>6 DEF Feed
<1>7. CASE FeedEnds
  BY <1>7 DEF FeedEnds
<1>8. CASE FeedFails
  BY <1>8 DEF FeedFails
<1>9. CASE ChildReads
  BY <1>9 DEF ChildReads, NextMove
<1>10. CASE ChildSeesEnd
  BY <1>10 DEF ChildSeesEnd
<1>11. CASE ChildWrites
  BY <1>11 DEF ChildWrites, NextMove
<1>12. CASE ChildSucceeds
  BY <1>12 DEF ChildSucceeds
<1>13. CASE ChildFails
  BY <1>13 DEF ChildFails
<1>14. CASE UNCHANGED callVars
  BY <1>14 DEF callVars
<1> QED
  BY <1>1, <1>2, <1>3, <1>4, <1>5, <1>6, <1>7, <1>8, <1>9, <1>10, <1>11,
     <1>12, <1>13, <1>14 DEF CallNext, Call, Feeding, Child, Ends

(* The inductive invariant holds in every state of a call.                 *)
THEOREM CallSpecIInv ==
  CallSpec => []CallIInv
<1>1. CallInit => CallIInv
  BY CallInitIInv
<1>2. CallIInv /\ [CallNext]_callVars => CallIInv'
  BY CallNextIInv
<1> QED
  BY <1>1, <1>2, PTL DEF CallSpec

(* A text that is returned as formatted is the whole source's (rustfmt).   *)
THEOREM CallSpecOkIsWhole ==
  CallSpec => []OkIsWhole
<1>1. CallIInv => OkIsWhole
  BY DEF CallIInv
<1> QED
  BY <1>1, CallSpecIInv, PTL
-----------------------------------------------------------------------------
(* The reader of upstream's rules.  Rules that get past the flips near     *)
(* each DV's first sample say what the C says everywhere, and only a tie   *)
(* by chance makes the reader fail.                                        *)

(* A set of natural numbers that is not empty has a least element.         *)
LEMMA LeastElement ==
  ASSUME NEW S \in SUBSET Nat, S # {}
  PROVE  \E n \in S : \A k \in S : n <= k
<1>1. \E n \in S : \A k \in S : ~ (<<k, n>> \in OpToRel(<, Nat))
  BY NatLessThanWellFounded, WFMin
<1>2. ASSUME NEW k \in Nat, NEW n \in Nat, k < n
      PROVE  <<k, n>> \in OpToRel(<, Nat)
  <2> DEFINE p == <<k, n>>
  <2>1. p \in Nat \X Nat /\ p[1] = k /\ p[2] = n
    OBVIOUS
  <2> HIDE DEF p
  <2>2. p[1] < p[2]
    BY <2>1, <1>2
  <2>3. p \in OpToRel(<, Nat)
    BY <2>1, <2>2 DEF OpToRel
  <2> QED BY <2>3 DEF p
<1>3. \A n \in Nat : \A k \in Nat : ~ (k < n) => n <= k
  OBVIOUS
<1> QED BY <1>1, <1>2, <1>3


USE RuleReaderAssumption DEF Dv, Schedules

First(d) == kept[d][1]

(* The DVs whose bits were read.                                           *)
DvsRead == IF reader \in {"draw", "read"} THEN 0 .. dv - 1 ELSE Dv

AgreesNear(d) == \A w \in Tried(d) : rules_mask(w) = ubc_check(w)

ReaderTypeOK ==
  /\ upstream \in Upstreams
  /\ reader \in {"draw", "read", "near", "random", "written", "failed"}
  /\ dv \in Nat
  /\ kept \in [Dv -> Seq(Schedules)]
  /\ groups \in [Dv -> SUBSET SUBSET Bits]

ReaderIInv ==
  /\ ReaderTypeOK
  /\ \A d \in Dv : \A n \in 1 .. Len(kept[d]) : d \in ubc_check(kept[d][n])
  /\ reader = "draw" => dv = 0
  /\ reader \in {"read", "near"} => dv \in Dv
  /\ reader # "draw" => \A d \in Dv : Len(kept[d]) = SAMPLES
  /\ \A d \in DvsRead : groups[d] = GroupsOf(d)
  /\ rules = UNION { TiesOf(d) : d \in DvsRead }
  /\ reader = "near" => \A d \in 0 .. dv - 1 : AgreesNear(d)
  /\ reader \in {"random", "written"} => \A d \in Dv : AgreesNear(d)
  /\ reader = "failed" => \E w \in Schedules : rules_mask(w) # ubc_check(w)

-----------------------------------------------------------------------------
(* XOR of two bits of a schedule.                                          *)
LEMMA XorBits ==
  ASSUME NEW w, NEW x, NEW u, NEW v, NEW t
  PROVE  /\ Xor(w, u, v) \in {0, 1} /\ Xor(w, u, u) = 0
         /\ Xor(w, u, v) = Xor(w, v, u)
         /\ Xor(w, u, v) = Xor(x, u, v) /\ Xor(w, u, t) = Xor(x, u, t)
              => Xor(w, v, t) = Xor(x, v, t)
BY DEF Xor

LEMMA OneMore ==
  ASSUME NEW S, NEW x, IsFiniteSet(S), x \notin S
  PROVE  Cardinality(S \cup {x}) = Cardinality(S) + 1
BY FS_AddElement

(* What the C adds up of two bits is their XOR.                            *)
LEMMA AddsPair ==
  ASSUME NEW w, NEW u, NEW v, u # v
  PROVE  Adds(w, {u, v}) = Xor(w, u, v)
<1>1. Cardinality({}) = 0 /\ Cardinality({u}) = 1 /\ Cardinality({v}) = 1 /\ Cardinality({u, v}) = 2
  <2>1. IsFiniteSet({v}) /\ Cardinality({v}) = 1 /\ Cardinality({u}) = 1 /\ Cardinality({}) = 0
    BY FS_Singleton, FS_EmptySet
  <2>2. Cardinality({v} \cup {u}) = 2
    BY <2>1, OneMore
  <2>3. {v} \cup {u} = {u, v}
    OBVIOUS
  <2> QED BY <2>1, <2>2, <2>3
<1> DEFINE n == Cardinality(w \cap {u, v})
<1>6. Adds(w, {u, v}) = n % 2
  BY DEF Adds
<1>7. 0 % 2 = 0 /\ 1 % 2 = 1 /\ 2 % 2 = 0
  OBVIOUS
<1> HIDE DEF n
<1>2. CASE u \in w /\ v \in w
  <2>1. w \cap {u, v} = {u, v}
    BY <1>2
  <2>2. n = 2
    BY <1>1, <2>1 DEF n
  <2> QED BY <1>6, <1>7, <1>2, <2>2 DEF Xor
<1>3. CASE u \in w /\ v \notin w
  <2>1. w \cap {u, v} = {u}
    BY <1>3
  <2>2. n = 1
    BY <1>1, <2>1 DEF n
  <2> QED BY <1>6, <1>7, <1>3, <2>2 DEF Xor
<1>4. CASE u \notin w /\ v \in w
  <2>1. w \cap {u, v} = {v}
    BY <1>4
  <2>2. n = 1
    BY <1>1, <2>1 DEF n
  <2> QED BY <1>6, <1>7, <1>4, <2>2 DEF Xor
<1>5. CASE u \notin w /\ v \notin w
  <2>1. w \cap {u, v} = {}
    BY <1>5
  <2>2. n = 0
    BY <1>1, <2>1 DEF n
  <2> QED BY <1>6, <1>7, <1>5, <2>2 DEF Xor
<1> QED BY <1>2, <1>3, <1>4, <1>5

(* The first bit of a group.                                               *)
LEMMA MinOfGroup ==
  ASSUME NEW g \in SUBSET Bits, g # {}
  PROVE  Min(g) \in g
<1>1. \E n \in g : \A k \in g : n <= k
  BY LeastElement
<1> QED BY <1>1 DEF Min

-----------------------------------------------------------------------------
(* Once the samples are drawn: what is known of a DV that is only tied.    *)
Sampled(d) ==
  /\ d \in Dv /\ OnlyTies(d)
  /\ First(d) \in Range(kept[d])
  /\ \A s \in Range(kept[d]) : s \in Schedules /\ d \in ubc_check(s)

(* What the C asks of a DV, in XORs.                                       *)
LEMMA KeptXors ==
  ASSUME NEW d, Sampled(d), NEW w, d \in ubc_check(w),
         NEW u \in Bits, NEW v \in Bits, u # v, NEW c, <<{u, v}, c>> \in upstream[d]
  PROVE  Xor(w, u, v) = c
<1> DEFINE form == <<{u, v}, c>>
<1>1. Adds(w, form[1]) = form[2]
  BY DEF ubc_check
<1> QED BY <1>1, AddsPair

LEMMA XorsKeep ==
  ASSUME NEW d, Sampled(d), ReaderTypeOK, NEW w,
         \A u, v \in Bits : u # v =>
           \A c \in {0, 1} : <<{u, v}, c>> \in upstream[d] => Xor(w, u, v) = c
  PROVE  d \in ubc_check(w)
<1>1. ASSUME NEW form \in upstream[d]
      PROVE  Adds(w, form[1]) = form[2]
  <2>1. upstream[d] \subseteq Schedules \X {0, 1}
    BY DEF ReaderTypeOK, Sampled
  <2>2. form = <<form[1], form[2]>> /\ form[2] \in {0, 1}
    BY <2>1
  <2>3. PICK u \in Bits, v \in Bits : u # v /\ form[1] = {u, v}
    BY DEF Sampled, OnlyTies
  <2>4. form = <<{u, v}, form[2]>>
    BY <2>2, <2>3
  <2>5. Xor(w, u, v) = form[2]
    BY <2>2, <2>3, <2>4
  <2> QED BY <2>3, <2>5, AddsPair
<1> QED BY <1>1 DEF ubc_check, Sampled

(* Two bits that the C ties are both read, and go together.                *)
LEMMA TiedTogether ==
  ASSUME NEW d, Sampled(d),
         NEW u \in Bits, NEW v \in Bits, u # v,
         NEW c, <<{u, v}, c>> \in upstream[d]
  PROVE  u \in ReadBits(d) /\ v \in ReadBits(d) /\ Together(d, u, v) /\ Xor(First(d), u, v) = c
<1>1. \A s \in Range(kept[d]) : Xor(s, u, v) = c
  BY KeptXors DEF Sampled
<1>2. Xor(First(d), u, v) = c
  BY <1>1 DEF Sampled
<1>3. Together(d, u, v)
  BY <1>1, <1>2 DEF Together, First
<1>4. ASSUME NEW k \in {u, v}
      PROVE  k \in ReadBits(d)
  <2> PICK w : w = Flip(First(d), {k})
    OBVIOUS
  <2>1. Xor(w, u, v) # c
    BY <1>2, <1>4 DEF Xor, Flip
  <2>2. d \notin ubc_check(w)
    BY <2>1, KeptXors
  <2> QED BY <2>2 DEF ReadBits, First
<1> QED BY <1>2, <1>3, <1>4

(* The bits of a group go together.                                        *)
LEMMA GroupTogether ==
  ASSUME NEW d, Sampled(d), ReaderTypeOK, NEW g \in GroupsOf(d)
  PROVE  /\ g \subseteq ReadBits(d) /\ g \subseteq Bits
         /\ Min(g) \in g
         /\ \A a, b \in g : Together(d, a, b)
<1>1. PICK u \in ReadBits(d) : g = { v \in ReadBits(d) : Together(d, u, v) }
  BY DEF GroupsOf
<1>2. g \subseteq ReadBits(d) /\ g \subseteq Bits
  BY <1>1 DEF ReadBits
<1>3. u \in g
  BY <1>1, XorBits DEF Together
<1>4. ASSUME NEW a \in g, NEW b \in g
      PROVE  Together(d, a, b)
  <2>1. ASSUME NEW s \in Range(kept[d])
        PROVE  Xor(s, a, b) = Xor(kept[d][1], a, b)
    <3>1. Xor(s, u, a) = Xor(kept[d][1], u, a) /\ Xor(s, u, b) = Xor(kept[d][1], u, b)
      BY <1>1, <1>4, <2>1 DEF Together
    <3> QED BY <3>1, XorBits
  <2> QED BY <2>1 DEF Together
<1> QED BY <1>2, <1>3, <1>4, MinOfGroup

(* Bits that go together are in one group.                                 *)
LEMMA SameGroup ==
  ASSUME NEW d, NEW g \in GroupsOf(d), NEW a \in ReadBits(d), NEW b \in ReadBits(d), Together(d, a, b)
  PROVE  a \in g <=> b \in g
<1>1. PICK u \in ReadBits(d) : g = { v \in ReadBits(d) : Together(d, u, v) }
  BY DEF GroupsOf
<1>2. ASSUME NEW y \in ReadBits(d), NEW z \in ReadBits(d), Together(d, y, z), Together(d, u, y)
      PROVE  Together(d, u, z)
  <2>1. ASSUME NEW s \in Range(kept[d])
        PROVE  Xor(s, u, z) = Xor(kept[d][1], u, z)
    <3>1. Xor(s, y, z) = Xor(kept[d][1], y, z) /\ Xor(s, y, u) = Xor(kept[d][1], y, u)
      BY <1>2, <2>1, XorBits DEF Together
    <3> QED BY <3>1, XorBits
  <2> QED BY <2>1 DEF Together
<1>3. Together(d, b, a)
  BY XorBits DEF Together
<1> QED BY <1>1, <1>2, <1>3

-----------------------------------------------------------------------------
(* All the rules of a DV, and what they ask of a schedule.                 *)
Ruled(d) == \A r : r \in rules /\ r.dv = d <=> r \in TiesOf(d)

LEMMA RulesAsk ==
  ASSUME NEW d \in Dv, Ruled(d), NEW w
  PROVE  d \in rules_mask(w)
           <=> \A g \in GroupsOf(d) : \A v \in g \ {Min(g)} :
                 Xor(w, Min(g), v) = Xor(First(d), Min(g), v)
<1> DEFINE Tie(g, v) == [dv |-> d, u |-> Min(g), v |-> v, c |-> Xor(First(d), Min(g), v)]
<1>1. \A r : r \in TiesOf(d) <=> \E g \in GroupsOf(d) : \E v \in g \ {Min(g)} : r = Tie(g, v)
  BY DEF TiesOf, First
<1>2. d \in rules_mask(w) <=> \A r \in TiesOf(d) : Xor(w, r.u, r.v) = r.c
  BY DEF rules_mask, Ruled
<1>3. ASSUME d \in rules_mask(w), NEW g \in GroupsOf(d), NEW v \in g \ {Min(g)}
      PROVE  Xor(w, Min(g), v) = Xor(First(d), Min(g), v)
  <2>1. Tie(g, v) \in TiesOf(d)
    BY <1>1
  <2> QED BY <1>2, <1>3, <2>1
<1>4. ASSUME \A g \in GroupsOf(d) : \A v \in g \ {Min(g)} :
               Xor(w, Min(g), v) = Xor(First(d), Min(g), v),
             NEW r \in TiesOf(d)
      PROVE  Xor(w, r.u, r.v) = r.c
  <2>1. PICK g \in GroupsOf(d) : \E v \in g \ {Min(g)} : r = Tie(g, v)
    BY <1>1
  <2>2. PICK v \in g \ {Min(g)} : r = Tie(g, v)
    BY <2>1
  <2> QED BY <1>4, <2>2
<1> QED BY <1>2, <1>3, <1>4

(* The rules let nothing through that the C does not.                      *)
LEMMA RulesAreEnough ==
  ASSUME NEW d, Sampled(d), Ruled(d), ReaderTypeOK, NEW w, d \in rules_mask(w)
  PROVE  d \in ubc_check(w)
<1>1. ASSUME NEW u \in Bits, NEW v \in Bits, u # v, NEW c \in {0, 1}, <<{u, v}, c>> \in upstream[d]
      PROVE  Xor(w, u, v) = c
  <2>1. u \in ReadBits(d) /\ v \in ReadBits(d) /\ Together(d, u, v) /\ Xor(First(d), u, v) = c
    BY <1>1, TiedTogether
  <2> PICK g : g = { b \in ReadBits(d) : Together(d, u, b) }
    OBVIOUS
  <2>2. g \in GroupsOf(d) /\ v \in g /\ u \in g
    <3>1. Together(d, u, u)
      BY XorBits DEF Together
    <3>2. g \in GroupsOf(d)
      BY <2>1 DEF GroupsOf
    <3> QED BY <2>1, <3>1, <3>2
  <2>3. ASSUME NEW b \in g
        PROVE  Xor(w, Min(g), b) = Xor(First(d), Min(g), b)
    BY <2>2, RulesAsk, XorBits DEF Sampled
  <2>4. Xor(w, u, v) = Xor(First(d), u, v)
    <3>1. Xor(w, Min(g), u) = Xor(First(d), Min(g), u) /\ Xor(w, Min(g), v) = Xor(First(d), Min(g), v)
      BY <2>2, <2>3
    <3> QED BY <3>1, XorBits
  <2> QED BY <2>1, <2>4
<1> QED BY <1>1, XorsKeep

(* What they do not let through that the C does tells of a tie by chance.  *)
TiedAsunder(d, w, g, v) ==
  /\ g \in GroupsOf(d) /\ v \in g \ {Min(g)}
  /\ Xor(w, Min(g), v) # Xor(First(d), Min(g), v)

LEMMA AsunderByChance ==
  ASSUME NEW d, Sampled(d), ReaderTypeOK, NEW w \in Schedules, d \in ubc_check(w),
         NEW g, NEW v, TiedAsunder(d, w, g, v)
  PROVE  ByChance(d)
<1>1. /\ Min(g) \in ReadBits(d) /\ v \in ReadBits(d) /\ Min(g) # v
      /\ Together(d, Min(g), v)
  BY GroupTogether DEF TiedAsunder
<1>2. First(d) \in Schedules /\ d \in ubc_check(First(d))
  BY DEF Sampled
<1>3. Xor(w, Min(g), v) # Xor(First(d), Min(g), v)
  BY DEF TiedAsunder
<1> QED BY <1>1, <1>2, <1>3 DEF ByChance

(* And such a tie shows near the first sample: flip in it the bits of the  *)
(* group that differ from the schedule as the group's first does.          *)
LEMMA AsunderShows ==
  ASSUME NEW d, Sampled(d), Ruled(d), ReaderTypeOK, groups[d] = GroupsOf(d),
         NEW w \in Schedules, d \in ubc_check(w),
         NEW g, NEW v, TiedAsunder(d, w, g, v)
  PROVE  ~AgreesNear(d)
<1> PICK part : part = { b \in g : Xor(w, Min(g), b) = Xor(First(d), Min(g), b) }
  OBVIOUS
<1> PICK x : x = Flip(First(d), part)
  OBVIOUS
<1>1. /\ g \in GroupsOf(d) /\ v \in g /\ v # Min(g) /\ Min(g) \in g /\ g \subseteq Bits
      /\ v \notin part /\ Min(g) \in part
  BY GroupTogether, XorBits DEF TiedAsunder
<1>2. x \in Tried(d)
  <2>1. part \in Parts(g)
    BY <1>1 DEF Parts
  <2> QED BY <1>1, <2>1, ZenonT(40) DEF Tried, First
<1>3. d \notin rules_mask(x)
  <2>1. Xor(x, Min(g), v) # Xor(First(d), Min(g), v)
    BY <1>1 DEF Xor, Flip
  <2>2. d \in Dv
    BY DEF Sampled
  <2>3. d \in rules_mask(x) => Xor(x, Min(g), v) = Xor(First(d), Min(g), v)
    BY <1>1, <2>2, RulesAsk
  <2> QED BY <2>1, <2>3
<1>4. d \in ubc_check(x)
  <2>1. ASSUME NEW a \in Bits, NEW b \in Bits, a # b, NEW c \in {0, 1}, <<{a, b}, c>> \in upstream[d]
        PROVE  Xor(x, a, b) = c
    <3>1. /\ a \in ReadBits(d) /\ b \in ReadBits(d) /\ Together(d, a, b)
          /\ Xor(First(d), a, b) = c /\ Xor(w, a, b) = c
      BY <2>1, TiedTogether, KeptXors
    <3>2. a \in g <=> b \in g
      BY <1>1, <3>1, SameGroup
    <3>3. Xor(w, Min(g), a) = Xor(First(d), Min(g), a)
            <=> Xor(w, Min(g), b) = Xor(First(d), Min(g), b)
      <4>1. Xor(w, a, b) = Xor(First(d), a, b)
        BY ONLY <3>1
      <4> QED BY ONLY <4>1 DEF Xor
    <3>4. a \in part <=> b \in part
      BY ONLY <3>2, <3>3, part = { e \in g : Xor(w, Min(g), e) = Xor(First(d), Min(g), e) }
    <3> QED BY <3>1, <3>4 DEF Xor, Flip
  <2> QED BY <2>1, XorsKeep
<1> QED BY <1>2, <1>3, <1>4 DEF AgreesNear

(* Where rules and C differ on a schedule, so it is.                       *)
LEMMA DifferAsunder ==
  ASSUME NEW d, Sampled(d), Ruled(d), ReaderTypeOK, NEW w,
         ~(d \in rules_mask(w) <=> d \in ubc_check(w))
  PROVE  d \in ubc_check(w) /\ \E g, v : TiedAsunder(d, w, g, v)
<1>1. d \in ubc_check(w) /\ d \notin rules_mask(w)
  BY RulesAreEnough
<1> QED BY <1>1, RulesAsk DEF TiedAsunder, Sampled

-----------------------------------------------------------------------------
(* What the invariant says of a DV once all of them are read.              *)
LEMMA AllAreRead ==
  ASSUME ReaderIInv, reader \in {"near", "random", "written", "failed"}, NEW d \in Dv
  PROVE  Ruled(d) /\ groups[d] = GroupsOf(d) /\ (OnlyTies(d) => Sampled(d))
<1>1. DvsRead = Dv
  BY DEF DvsRead
<1>2. \A e \in Dv : \A r \in TiesOf(e) : r.dv = e
  BY DEF TiesOf
<1>3. Ruled(d)
  BY <1>1, <1>2 DEF ReaderIInv, Ruled
<1>4. kept[d] \in Seq(Schedules) /\ Len(kept[d]) = SAMPLES
  BY DEF ReaderIInv, ReaderTypeOK
<1>5. \A s \in Range(kept[d]) : \E n \in 1 .. Len(kept[d]) : s = kept[d][n]
  BY <1>4 DEF Range
<1>6. First(d) \in Range(kept[d])
  BY <1>4 DEF First, Range
<1>7. \A s \in Range(kept[d]) : s \in Schedules /\ d \in ubc_check(s)
  BY <1>4, <1>5 DEF ReaderIInv
<1> QED BY <1>1, <1>3, <1>6, <1>7 DEF ReaderIInv, Sampled

LEMMA InvReads ==
  ASSUME ReaderIInv, \A d \in Dv : OnlyTies(d)
  PROVE  ReadsUpstream
<1>1. ASSUME NEW w, rules_mask(w) # ubc_check(w)
      PROVE  \E d \in Dv : ~(d \in rules_mask(w) <=> d \in ubc_check(w))
  BY <1>1 DEF rules_mask, ubc_check
<1>2. ASSUME reader = "written", NEW w \in Schedules
      PROVE  rules_mask(w) = ubc_check(w)
  <2>1. SUFFICES ASSUME rules_mask(w) # ubc_check(w) PROVE FALSE
    OBVIOUS
  <2>2. PICK d \in Dv : ~(d \in rules_mask(w) <=> d \in ubc_check(w))
    BY <1>1, <2>1
  <2>3. Ruled(d) /\ groups[d] = GroupsOf(d) /\ Sampled(d) /\ ReaderTypeOK
    BY <1>2, AllAreRead DEF ReaderIInv
  <2>4. PICK g, v : d \in ubc_check(w) /\ TiedAsunder(d, w, g, v)
    BY <2>2, <2>3, DifferAsunder
  <2>5. ~AgreesNear(d)
    BY <2>3, <2>4, AsunderShows
  <2> QED BY <1>2, <2>5 DEF ReaderIInv
<1>3. ASSUME reader = "failed"
      PROVE  \E d \in Dv : ~OnlyTies(d) \/ ByChance(d)
  <2>1. PICK w \in Schedules : rules_mask(w) # ubc_check(w)
    BY <1>3 DEF ReaderIInv
  <2>2. PICK d \in Dv : ~(d \in rules_mask(w) <=> d \in ubc_check(w))
    BY <1>1, <2>1
  <2>3. Ruled(d) /\ Sampled(d) /\ ReaderTypeOK
    BY <1>3, AllAreRead DEF ReaderIInv
  <2>4. PICK g, v : d \in ubc_check(w) /\ TiedAsunder(d, w, g, v)
    BY <2>2, <2>3, DifferAsunder
  <2> QED BY <2>3, <2>4, AsunderByChance
<1> QED BY <1>2, <1>3 DEF ReadsUpstream

-----------------------------------------------------------------------------
LEMMA InitReaderIInv == ReaderInit => ReaderIInv
<1> SUFFICES ASSUME ReaderInit PROVE ReaderIInv
  OBVIOUS
<1>1. DvsRead = {}
  BY DEF ReaderInit, DvsRead
<1>2. ReaderTypeOK
  BY DEF ReaderInit, ReaderTypeOK
<1> QED BY <1>1, <1>2 DEF ReaderInit, ReaderIInv

(* What is read off the same samples is the same.                          *)
LEMMA SameReading ==
  ASSUME UNCHANGED <<upstream, kept>>
  PROVE  /\ \A w : ubc_check(w)' = ubc_check(w)
         /\ \A d : GroupsOf(d)' = GroupsOf(d) /\ TiesOf(d)' = TiesOf(d)
<1>1. \A w : ubc_check(w)' = ubc_check(w)
  BY DEF ubc_check
<1>2. \A d : ReadBits(d)' = ReadBits(d)
  BY <1>1 DEF ReadBits
<1>3. \A d, u, v : Together(d, u, v)' = Together(d, u, v)
  BY DEF Together
<1>4. \A d : GroupsOf(d)' = GroupsOf(d)
  BY <1>2, <1>3 DEF GroupsOf
<1>5. \A d : TiesOf(d)' = TiesOf(d)
  BY <1>4 DEF TiesOf
<1> QED BY <1>1, <1>4, <1>5

(* And what is said of a DV near its first sample, by the same rules.      *)
LEMMA SameNear ==
  ASSUME UNCHANGED <<upstream, kept, groups, rules>>
  PROVE  /\ \A w : rules_mask(w)' = rules_mask(w)
         /\ \A d : AgreesNear(d)' <=> AgreesNear(d)
<1>1. \A w : rules_mask(w)' = rules_mask(w) /\ ubc_check(w)' = ubc_check(w)
  BY DEF rules_mask, ubc_check
<1>2. \A d : Tried(d)' = Tried(d)
  BY DEF Tried
<1> QED BY <1>1, <1>2 DEF AgreesNear

LEMMA DrawIInv ==
  ASSUME ReaderIInv, NEW w \in Schedules, Draw(w)
  PROVE  ReaderIInv'
<1>1. \A x : ubc_check(x)' = ubc_check(x)
  BY DEF Draw, ubc_check
<1>2. DvsRead = {} /\ DvsRead' = {}
  BY DEF Draw, ReaderIInv, DvsRead
<1>3. /\ kept' \in [Dv -> Seq(Schedules)]
      /\ \A d \in Dv : \A n \in 1 .. Len(kept'[d]) : d \in ubc_check(kept'[d][n])
  <2>1. SUFFICES ASSUME NEW d \in Dv
                 PROVE  /\ kept'[d] \in Seq(Schedules)
                        /\ \A n \in 1 .. Len(kept'[d]) : d \in ubc_check(kept'[d][n])
    BY DEF Draw
  <2>2. kept[d] \in Seq(Schedules) /\ \A n \in 1 .. Len(kept[d]) : d \in ubc_check(kept[d][n])
    BY DEF ReaderIInv, ReaderTypeOK
  <2>3. CASE kept'[d] = kept[d]
    BY <2>2, <2>3
  <2>4. CASE kept'[d] = Append(kept[d], w) /\ d \in ubc_check(w)
    BY <2>2, <2>4
  <2> QED BY <2>3, <2>4 DEF Draw
<1>4. ReaderTypeOK'
  BY <1>3 DEF Draw, ReaderIInv, ReaderTypeOK
<1> QED BY <1>1, <1>2, <1>3, <1>4 DEF Draw, ReaderIInv

LEMMA DrawEndsIInv ==
  ASSUME ReaderIInv, DrawEnds
  PROVE  ReaderIInv'
<1>1. DvsRead = {} /\ DvsRead' = {}
  BY DEF DrawEnds, ReaderIInv, DvsRead
<1>2. ReaderTypeOK'
  BY DEF DrawEnds, ReaderIInv, ReaderTypeOK
<1>3. \A x : ubc_check(x)' = ubc_check(x)
  BY SameReading DEF DrawEnds
<1> QED BY <1>1, <1>2, <1>3 DEF DrawEnds, ReaderIInv

LEMMA ReadIInv ==
  ASSUME ReaderIInv, Read
  PROVE  ReaderIInv'
<1>1. /\ \A x : ubc_check(x)' = ubc_check(x)
      /\ \A d : GroupsOf(d)' = GroupsOf(d) /\ TiesOf(d)' = TiesOf(d)
  BY SameReading DEF Read
<1>2. dv \in Dv /\ DvsRead = 0 .. dv - 1
  BY DEF Read, ReaderIInv, DvsRead
<1>3. /\ DvsRead' = DvsRead \cup {dv} /\ reader' \in {"read", "near"} /\ dv' \in Dv
      /\ reader' = "near" => dv' = 0
  BY <1>2 DEF Read, DvsRead
<1>4. GroupsOf(dv) \in SUBSET SUBSET Bits
  BY DEF GroupsOf, ReadBits
<1>5. ReaderTypeOK'
  BY <1>3, <1>4 DEF Read, ReaderIInv, ReaderTypeOK
<1>6. \A d \in DvsRead' : groups'[d] = GroupsOf(d)
  BY <1>2, <1>3 DEF Read, ReaderIInv, ReaderTypeOK
<1>7. rules' = UNION { TiesOf(d) : d \in DvsRead' }
  BY <1>3 DEF Read, ReaderIInv
<1>8. (rules = UNION { TiesOf(d) : d \in DvsRead })'
  BY <1>1, <1>7
<1>9. kept' = kept
  BY DEF Read
<1> QED BY <1>1, <1>3, <1>5, <1>6, <1>8, <1>9 DEF Read, ReaderIInv

LEMMA NearIInv ==
  ASSUME ReaderIInv, Near
  PROVE  ReaderIInv'
<1>1. /\ \A x : ubc_check(x)' = ubc_check(x) /\ rules_mask(x)' = rules_mask(x)
      /\ \A d : GroupsOf(d)' = GroupsOf(d) /\ TiesOf(d)' = TiesOf(d)
      /\ \A d : AgreesNear(d)' <=> AgreesNear(d)
  BY SameReading, SameNear DEF Near
<1>2. dv \in Dv /\ DvsRead = Dv /\ DvsRead' = Dv
  BY DEF Near, ReaderIInv, DvsRead
<1>3. (rules = UNION { TiesOf(d) : d \in DvsRead })'
  BY <1>1, <1>2 DEF Near, ReaderIInv
<1>4. \A d \in DvsRead' : (groups[d])' = GroupsOf(d)'
  BY <1>1, <1>2 DEF Near, ReaderIInv
<1>5. CASE AgreesNear(dv)
  <2>1. dv' = dv + 1 /\ reader' = IF dv' = DVS THEN "random" ELSE "near"
    BY <1>5 DEF Near, AgreesNear
  <2>2. \A d \in 0 .. dv' - 1 : AgreesNear(d)
    BY <1>2, <1>5, <2>1 DEF ReaderIInv, Near
  <2>3. (reader' = "near" => dv' \in Dv) /\ (reader' = "random" => 0 .. dv' - 1 = Dv)
    BY <1>2, <2>1
  <2>4. ReaderTypeOK'
    BY <1>2, <2>1 DEF Near, ReaderIInv, ReaderTypeOK
  <2> QED BY <1>1, <1>3, <1>4, <2>1, <2>2, <2>3, <2>4 DEF Near, ReaderIInv
<1>6. CASE ~AgreesNear(dv)
  <2>1. reader' = "failed" /\ dv' = dv
    BY <1>6 DEF Near, AgreesNear
  <2>2. ReaderTypeOK'
    BY <1>2, <2>1 DEF Near, ReaderIInv, ReaderTypeOK
  <2>3. kept[dv] \in Seq(Schedules) /\ Len(kept[dv]) = SAMPLES /\ groups[dv] \subseteq SUBSET Bits
    BY <1>2 DEF Near, ReaderIInv, ReaderTypeOK
  <2>4. Tried(dv) \subseteq Schedules
    BY <2>3 DEF Tried, Flip, Parts
  <2>5. \E w \in Schedules : rules_mask(w) # ubc_check(w)
    BY <1>6, <2>4 DEF AgreesNear
  <2> QED BY <1>1, <1>3, <1>4, <2>1, <2>2, <2>5 DEF Near, ReaderIInv
<1> QED BY <1>5, <1>6

LEMMA RandomIInv ==
  ASSUME ReaderIInv, NEW w \in Messages, Random(w)
  PROVE  ReaderIInv'
<1>1. /\ \A x : ubc_check(x)' = ubc_check(x) /\ rules_mask(x)' = rules_mask(x)
      /\ \A d : GroupsOf(d)' = GroupsOf(d) /\ TiesOf(d)' = TiesOf(d)
      /\ \A d : AgreesNear(d)' <=> AgreesNear(d)
  BY SameReading, SameNear DEF Random
<1>2. DvsRead = Dv /\ DvsRead' = Dv
  BY DEF Random, ReaderIInv, DvsRead
<1>3. (rules = UNION { TiesOf(d) : d \in DvsRead })'
  BY <1>1, <1>2 DEF Random, ReaderIInv
<1>4. \A d \in DvsRead' : (groups[d])' = GroupsOf(d)'
  BY <1>1, <1>2 DEF Random, ReaderIInv
<1>5. ReaderTypeOK'
  BY DEF Random, ReaderIInv, ReaderTypeOK
<1>6. reader' = "failed" => \E x \in Schedules : rules_mask(x) # ubc_check(x)
  BY DEF Random
<1> QED BY <1>1, <1>3, <1>4, <1>5, <1>6 DEF Random, ReaderIInv

LEMMA StandsIInv ==
  ASSUME ReaderIInv, Write \/ UNCHANGED readerVars
  PROVE  ReaderIInv'
<1>0. UNCHANGED <<upstream, kept, groups, rules, dv>>
  BY DEF Write, readerVars
<1>1. /\ \A x : ubc_check(x)' = ubc_check(x) /\ rules_mask(x)' = rules_mask(x)
      /\ \A d : GroupsOf(d)' = GroupsOf(d) /\ TiesOf(d)' = TiesOf(d)
      /\ \A d : AgreesNear(d)' <=> AgreesNear(d)
  BY <1>0, SameReading, SameNear
<1>2. DvsRead' = DvsRead
  BY <1>0 DEF Write, readerVars, DvsRead
<1>3. (rules = UNION { TiesOf(d) : d \in DvsRead })'
  BY <1>0, <1>1, <1>2 DEF ReaderIInv
<1>4. \A d \in DvsRead' : (groups[d])' = GroupsOf(d)'
  BY <1>0, <1>1, <1>2 DEF ReaderIInv
<1>5. ReaderTypeOK'
  BY <1>0 DEF Write, readerVars, ReaderIInv, ReaderTypeOK
<1>6. reader' = reader \/ (reader = "random" /\ reader' = "written")
  BY DEF Write, readerVars
<1> QED BY <1>0, <1>1, <1>3, <1>4, <1>5, <1>6 DEF ReaderIInv

LEMMA StepIInv == ReaderIInv /\ [ReaderNext]_readerVars => ReaderIInv'
BY DrawIInv, DrawEndsIInv, ReadIInv, NearIInv, RandomIInv, StandsIInv DEF ReaderNext, Done

-----------------------------------------------------------------------------
(* At each point of the reading, the rules are those of the DVs read, and  *)
(* those tried hold near their first samples; for any C.                   *)
THEOREM SpecReaderIInv == ReaderSpec => []ReaderIInv
<1> QED BY InitReaderIInv, StepIInv, PTL DEF ReaderSpec

(* Rules read off a C that only ties bits, and written, say what it says   *)
(* of every schedule, and reading it fails only by chance (emit, its       *)
(* assertions).                                                            *)
THEOREM SpecReadsUpstream ==
  ReaderSpec /\ (\A d \in Dv : OnlyTies(d)) => []ReadsUpstream
<1> DEFINE Ties == \A d \in Dv : OnlyTies(d)
<1>1. Ties /\ [ReaderNext]_readerVars => Ties'
  <2> SUFFICES ASSUME Ties, [ReaderNext]_readerVars PROVE Ties'
    OBVIOUS
  <2>1. upstream' = upstream
    BY DEF ReaderNext, Draw, DrawEnds, Read, Near, Random, Write, Done, readerVars
  <2> QED BY <2>1 DEF OnlyTies
<1>2. ReaderIInv /\ Ties => ReadsUpstream
  BY InvReads
<1> HIDE DEF Ties
<1>3. ReaderSpec => []ReaderIInv
  BY SpecReaderIInv
<1>4. ReaderSpec /\ Ties => []ReadsUpstream
  BY <1>1, <1>2, <1>3, PTL DEF ReaderSpec
<1> QED BY <1>4 DEF Ties
=============================================================================
