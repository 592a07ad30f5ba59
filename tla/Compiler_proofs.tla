--------------------------- MODULE Compiler_proofs ---------------------------
(***************************************************************************)
(* Proofs about Compiler, for any jobs and any number of calls: what an    *)
(* exit leaves behind.  Nothing here looks into the parser or the printer: *)
(* the argument is about the phases of a call, its temporaries, and the    *)
(* linkers of this call and of the interrupted ones before it.             *)
(***************************************************************************)
EXTENDS Compiler, TLAPS

ChildStates == {"none", "started", "linking", "writing", "succeeded", "failed"}
Settled     == {"none", "succeeded", "failed"}

\* The phases of link_shared_object in which its temporaries may exist, and
\* those after waitpid (or after an early return).
WithTemps == {"write object", "create log", "spawn", "wait", "unlink log", "unlink object"}
Unwinding == {"unlink log", "unlink object"}

FilesTypeOK ==
  /\ calls \in Calls
  /\ child \in [Calls -> ChildStates]
  /\ orphaned \subseteq 1..calls

\* A call's temporaries are its own, the log is unlinked before the object,
\* and outside the linker there are none.
TempsFit ==
  /\ temps \subseteq {Temp("object"), Temp("log")}
  /\ phase \in {"write object", "create log", "unlink object"} => temps \subseteq {Temp("object")}
  /\ phase \notin WithTemps => temps = {}

\* Linkers of calls to come do not run, those of finished calls have ended or
\* were abandoned.
ChildrenFit ==
  /\ \A c \in Calls : c > calls => child[c] = "none"
  /\ \A c \in Calls : c < calls /\ c \notin orphaned => child[c] \in Settled

\* How far the call's own linker is, and what the call knows of it.
ReportFits ==
  /\ phase \notin Unwinding \cup {"done"} => report = None
  /\ phase \in Unwinding => report \in {None, "error"}
  /\ phase \notin Unwinding \cup {"done", "wait", "size"} => child[calls] = "none"
  /\ report # "error" => calls \notin orphaned
  /\ phase = "size" \/ (phase \in Unwinding /\ report = None) => child[calls] = "succeeded"
  /\ phase = "done" /\ report = "ok" /\ job.command = "compile" => child[calls] = "succeeded"
  /\ report = "error" => child[calls] \in {"none", "failed"} \/ calls \in orphaned
  /\ phase = "done" /\ calls \notin orphaned => child[calls] \in Settled

\* The output file is complete only by a linker that has succeeded, and the
\* output of one that has is only replaced by an abandoned one.
OutputFits ==
  /\ \A c \in Calls : out = File("complete", c) => child[c] = "succeeded"
  /\ child[calls] = "succeeded" => out = File("complete", calls) \/ orphaned \ {calls} # {}

LinkInv == FilesTypeOK /\ TempsFit /\ ChildrenFit /\ ReportFits /\ OutputFits

-----------------------------------------------------------------------------
(* The steps *)

LEMMA InitLinkInv == Init => LinkInv
BY CompilerAssumption
DEF Init, LinkInv, FilesTypeOK, TempsFit, ChildrenFit, ReportFits, OutputFits, Calls,
    ChildStates, WithTemps, Unwinding, File, NoFile

\* A compile is not over before its linker.
LEMMA CompileEndsWithSize == LastPhase["compile"] = "size"
BY DEF LastPhase

\* The stages before the linker: they touch no file and start no process.
LEMMA StagesKeepLinkInv ==
  ASSUME LinkInv, UNCHANGED <<job, calls, files>>,
         NEW from \in {"read", "parse", "emit_ir", "backend"},
         NEW to \in {"parse", "emit_ir", "backend", "create object"},
         Advance(from, to) \/ Fail(from)
  PROVE  LinkInv'
<1>1. CASE Advance(from, to)
  BY <1>1, CompilerAssumption, CompileEndsWithSize
  DEF Advance, LinkInv, FilesTypeOK, TempsFit, ChildrenFit, ReportFits, OutputFits, files,
      WithTemps, Unwinding, Settled, Temp
<1>2. CASE Fail(from)
  BY <1>2, CompilerAssumption
  DEF Fail, LinkInv, FilesTypeOK, TempsFit, ChildrenFit, ReportFits, OutputFits, files,
      WithTemps, Unwinding, Settled, Temp
<1>3. QED
  BY <1>1, <1>2

\* Creating and filling the temporaries, and what goes wrong there.
LEMMA PreparingKeepsLinkInv ==
  ASSUME LinkInv,
         CreateObject \/ CreateObjectFails \/ WriteObject \/ WriteObjectFails
           \/ CreateLog \/ CreateLogFails \/ SpawnFails
  PROVE  LinkInv'
<1> USE DEF LinkInv, FilesTypeOK, ChildrenFit, ReportFits, OutputFits, TempsFit,
            WithTemps, Unwinding, Temp, To, Unwind, EarlyReturn, front, files
<1>1. CASE CreateObject
  BY <1>1 DEF CreateObject
<1>2. CASE CreateObjectFails
  BY <1>2, CompilerAssumption DEF CreateObjectFails
<1>3. CASE WriteObject
  BY <1>3 DEF WriteObject
<1>4. CASE WriteObjectFails
  BY <1>4, CompilerAssumption DEF WriteObjectFails
<1>5. CASE CreateLog
  BY <1>5 DEF CreateLog
<1>6. CASE CreateLogFails
  BY <1>6, CompilerAssumption DEF CreateLogFails
<1>7. CASE SpawnFails
  BY <1>7, CompilerAssumption DEF SpawnFails
<1>8. QED
  BY <1>1, <1>2, <1>3, <1>4, <1>5, <1>6, <1>7

\* fork: the call has its linker from here on.
LEMMA SpawnKeepsLinkInv ==
  ASSUME LinkInv, Spawn
  PROVE  LinkInv'
<1> USE DEF Spawn, To, LinkInv, FilesTypeOK, front, files
<1>1. /\ child[calls] = "none" /\ calls \notin orphaned /\ report = None
      /\ child' \in [Calls -> ChildStates] /\ child'[calls] = "started"
      /\ \A c \in Calls : c # calls => child'[c] = child[c]
  BY CompilerAssumption DEF ReportFits, Unwinding, ChildStates
<1>2. FilesTypeOK' /\ TempsFit'
  BY <1>1 DEF TempsFit, WithTemps, Temp
<1>3. ChildrenFit'
  BY <1>1 DEF ChildrenFit, Calls
<1>4. ReportFits'
  BY <1>1, CompilerAssumption DEF ReportFits, Unwinding
<1>5. OutputFits'
  BY <1>1 DEF OutputFits
<1>6. QED
  BY <1>2, <1>3, <1>4, <1>5

LEMMA CallIsCounted ==
  ASSUME FilesTypeOK
  PROVE  calls \in 1..calls
BY CompilerAssumption DEF FilesTypeOK, Calls

\* waitpid, whatever it returns, and the destructors of the temporaries.
LEMMA EndingKeepsLinkInv ==
  ASSUME LinkInv, Wait \/ WaitInterrupted \/ UnlinkLog \/ UnlinkObject \/ FileSize
  PROVE  LinkInv'
<1> USE CompilerAssumption
    DEF LinkInv, FilesTypeOK, ChildrenFit, ReportFits, OutputFits, TempsFit,
        WithTemps, Unwinding, Temp, To, Unwind, front, files, Settled
<1>1. CASE Wait
  BY <1>1 DEF Wait
<1>2. CASE WaitInterrupted
  <2>1. orphaned' \ {calls'} = orphaned \ {calls}
    BY <1>2 DEF WaitInterrupted
  <2>2. FilesTypeOK' /\ TempsFit'
    <3>1. calls \in 1..calls
      BY CallIsCounted
    <3>2. FilesTypeOK'
      BY <1>2, <3>1 DEF WaitInterrupted
    <3>3. TempsFit'
      BY <1>2 DEF WaitInterrupted
    <3>4. QED
      BY <3>2, <3>3
  <2>3. ChildrenFit'
    BY <1>2 DEF WaitInterrupted
  <2>4. ReportFits'
    BY <1>2 DEF WaitInterrupted
  <2>5. OutputFits'
    BY <1>2, <2>1 DEF WaitInterrupted
  <2>6. QED
    BY <2>2, <2>3, <2>4, <2>5
<1>3. CASE UnlinkLog
  BY <1>3 DEF UnlinkLog
<1>4. CASE UnlinkObject
  <2>1. TempsFit'
    BY <1>4 DEF UnlinkObject
  <2>2. ReportFits'
    BY <1>4 DEF UnlinkObject
  <2>3. FilesTypeOK' /\ ChildrenFit' /\ OutputFits'
    BY <1>4 DEF UnlinkObject
  <2>4. QED
    BY <2>1, <2>2, <2>3
<1>5. CASE FileSize
  BY <1>5 DEF FileSize, Advance
<1>6. QED
  BY <1>1, <1>2, <1>3, <1>4, <1>5

\* A running linker is this call's own, or an abandoned one.
LEMMA RunningIsOwnOrOrphaned ==
  ASSUME LinkInv, NEW c \in Calls, child[c] \notin Settled
  PROVE  c = calls \/ c \in orphaned
BY DEF LinkInv, FilesTypeOK, ChildrenFit, Calls, Settled

\* A step of the linker of call c, own or abandoned, at any phase.
LEMMA LinkingKeepsLinkInv ==
  ASSUME LinkInv, NEW c \in Calls, Linking(c)
  PROVE  LinkInv'
<1> USE DEF Become, front, files
<1>1. /\ child[c] \in {"started", "linking", "writing"}
      /\ \E s \in ChildStates \ {"none", "started"} : child' = [child EXCEPT ![c] = s]
      /\ UNCHANGED <<job, calls, phase, report, temps, orphaned>>
  BY DEF Linking, ReadsObject, BeginsOutput, Succeeds, Fails, ChildStates
<1>2. c = calls \/ c \in orphaned
  BY <1>1, RunningIsOwnOrOrphaned DEF Settled
<1>3. FilesTypeOK' /\ TempsFit'
  BY <1>1 DEF LinkInv, FilesTypeOK, TempsFit, Temp
<1>4. ChildrenFit'
  BY <1>1, <1>2 DEF LinkInv, FilesTypeOK, ChildrenFit, Calls
<1>5. ReportFits'
  BY <1>1, <1>2 DEF LinkInv, FilesTypeOK, ReportFits, Settled
<1>6. OutputFits'
  <2>1. CASE Succeeds(c)
    BY <2>1, <1>1, <1>2 DEF Succeeds, LinkInv, FilesTypeOK, OutputFits, File
  <2>2. CASE ~Succeeds(c)
    <3>1. out' = out \/ out' \in {NoFile, File("half written", c)}
      BY <2>2 DEF Linking, ReadsObject, BeginsOutput, Fails
    <3>2. child'[c] # "succeeded"
      BY <2>2 DEF Linking, ReadsObject, BeginsOutput, Fails, LinkInv, FilesTypeOK
    <3>3. out' # out => child[c] \in {"linking", "writing"}
      BY <2>2 DEF Linking, ReadsObject, BeginsOutput, Fails
    <3>4. \A d \in Calls : out' = File("complete", d) => child'[d] = "succeeded"
      <4>1. SUFFICES ASSUME NEW d \in Calls, out' = File("complete", d)
                     PROVE  child'[d] = "succeeded"
        OBVIOUS
      <4>2. out' = out
        BY <3>1, <4>1 DEF File, NoFile
      <4>3. child[d] = "succeeded"
        BY <4>1, <4>2 DEF LinkInv, OutputFits
      <4>4. QED
        BY <4>3, <1>1 DEF LinkInv, FilesTypeOK
    <3>5. child'[calls] = "succeeded" => out' = File("complete", calls) \/ orphaned \ {calls} # {}
      <4>1. SUFFICES ASSUME child'[calls] = "succeeded"
                     PROVE  out' = File("complete", calls) \/ orphaned \ {calls} # {}
        OBVIOUS
      <4>2. c # calls /\ child[calls] = "succeeded"
        BY <4>1, <3>2, <1>1 DEF LinkInv, FilesTypeOK
      <4>3. c \in orphaned \ {calls}
        BY <4>2, <1>2
      <4>4. QED
        BY <4>3
    <3>6. QED
      BY <3>4, <3>5, <1>1 DEF OutputFits
  <2>3. QED
    BY <2>1, <2>2
<1>7. QED
  BY <1>3, <1>4, <1>5, <1>6 DEF LinkInv

\* Another call finds no temporaries, and no linker but abandoned ones.
LEMMA CallAgainKeepsLinkInv ==
  ASSUME LinkInv, CallAgain
  PROVE  LinkInv'
BY CompilerAssumption
DEF CallAgain, LinkInv, FilesTypeOK, ChildrenFit, ReportFits, OutputFits, TempsFit,
    WithTemps, Unwinding, Temp, files, Calls, Settled, ChildStates

LEMMA NextLinkInv ==
  ASSUME LinkInv, [Next]_vars
  PROVE  LinkInv'
<1>1. CASE ReadFile \/ ReadFails \/ EmitIr \/ EmitIrFails \/ CompileToObject \/ CompileToObjectFails
  BY <1>1, StagesKeepLinkInv
  DEF ReadFile, ReadFails, EmitIr, EmitIrFails, CompileToObject, CompileToObjectFails, front
<1>2. CASE ParseFile
  BY <1>2, StagesKeepLinkInv DEF ParseFile
<1>3. CASE Link
  BY <1>3, PreparingKeepsLinkInv, SpawnKeepsLinkInv, EndingKeepsLinkInv DEF Link
<1>4. CASE \E c \in Calls : Linking(c)
  BY <1>4, LinkingKeepsLinkInv
<1>5. CASE CallAgain
  BY <1>5, CallAgainKeepsLinkInv
<1>6. CASE UNCHANGED vars
  BY <1>6 DEF vars, front, files, LinkInv, FilesTypeOK, ChildrenFit, ReportFits, OutputFits,
              TempsFit, Temp
<1>7. QED
  BY <1>1, <1>2, <1>3, <1>4, <1>5, <1>6 DEF Next

LEMMA LinkInvHolds == Spec => []LinkInv
<1>1. LinkInv /\ [Next]_vars => LinkInv'
  BY NextLinkInv
<1>2. QED
  BY InitLinkInv, <1>1, PTL DEF Spec

-----------------------------------------------------------------------------
(* Theorems *)

\* However a call ends, and whichever linkers are still running, no temporary
\* file of it is left (linker.cpp:28-47).
THEOREM TempsAreRemoved == Spec => []NoTempsLeft
<1>1. LinkInv => NoTempsLeft
  BY DEF LinkInv, TempsFit, NoTempsLeft, WithTemps
<1>2. QED
  BY LinkInvHolds, <1>1, PTL

\* A compile's exit tells what became of the output file, up to the linkers
\* that interrupted calls have left running (linker.hpp:36-38).
THEOREM ReportsCanBeTrusted == Spec => []ReportsAreTrue
<1>1. LinkInv => ReportsAreTrue
  BY DEF LinkInv, FilesTypeOK, ReportFits, OutputFits, ReportsAreTrue, Settled
<1>2. QED
  BY LinkInvHolds, <1>1, PTL
=============================================================================
