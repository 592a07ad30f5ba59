------------------------------ MODULE Compiler ------------------------------
(***************************************************************************)
(* The driver and the pipeline it calls: hmrc's commands                   *)
(* (src/src/tools/hmrc.cpp), Compiler::compile_to_ir and compile_to_file   *)
(* (src/src/pipeline/compiler.cpp), the backend's error exits              *)
(* (src/src/backend/backend.cpp) and the linker that runs `cc' as a child  *)
(* process (src/src/backend/linker.cpp).                                   *)
(*                                                                         *)
(* Calls follow one another, all with the same output file; what a call    *)
(* leaves behind (temporaries, a linker still running) meets the next one. *)
(* The child is the system's linker: external, modelled by its use of the  *)
(* files.                                                                  *)
(***************************************************************************)
EXTENDS AstPrinter

CONSTANTS
  Jobs,      \* calls of hmrc: a command and the source of the file it names
  MaxCalls,  \* bound: calls after one another
  None

ASSUME CompilerAssumption == MaxCalls \in Nat \ {0} /\ None \notin {"ok", "error"}

VARIABLES
  job,       \* the call under way
  calls,     \* how many there have been
  phase,     \* where it stands
  program,   \* what parse made of the source
  shown,     \* the text on stdout
  report,    \* the exit: ok or error
  temps,     \* temporary files there are: <<kind, call>>
  child,     \* the linker process of each call
  out,       \* the output file: of which call it is, and in what state
  orphaned   \* history: the calls whose waitpid was interrupted

front == <<job, calls, program, shown>>
files == <<temps, child, out, orphaned>>
vars  == <<front, phase, report, files>>

Calls == 1..MaxCalls

File(state, call) == [state |-> state, of |-> call]
NoFile == File("missing", 0)

\* What each command ends with.
LastPhase ==
  [command \in {"parse", "dump-ast", "dump-ir", "dump-ir --opt", "compile"} |->
     CASE command \in {"parse", "dump-ast"} -> "parse"
       [] command = "dump-ir"               -> "emit_ir"
       [] command = "dump-ir --opt"         -> "backend"
       [] command = "compile"               -> "size"]

Init ==
  /\ job \in Jobs
  /\ calls = 1 /\ phase = "read"
  /\ program = None /\ shown = <<>> /\ report = None
  /\ temps = {} /\ out = NoFile /\ orphaned = {}
  /\ child = [c \in Calls |-> "none"]

\* From one stage to the next, or out of the call with success.
Advance(from, to) ==
  /\ phase = from
  /\ IF LastPhase[job.command] = from
     THEN phase' = "done" /\ report' = "ok"
     ELSE phase' = to /\ UNCHANGED report

\* std::unexpected handed up to the command, which prints it and returns 1.
Fail(from) == phase = from /\ phase' = "done" /\ report' = "error"

-----------------------------------------------------------------------------
(* The stages *)

ReadFile == Advance("read", "parse") /\ UNCHANGED <<front, files>>
ReadFails == Fail("read") /\ UNCHANGED <<front, files>>

ParseFile ==
  /\ phase = "parse"
  /\ program' = Parse(job.source)
  /\ IF program'.ok THEN Advance("parse", "emit_ir") ELSE Fail("parse")
  /\ shown' = IF program'.ok /\ job.command = "dump-ast" THEN ToHmrText(program'.tree) ELSE <<>>
  /\ UNCHANGED <<job, calls, files>>

\* generate_ir refuses what its verifier refuses; the backend's exits: the IR
\* does not parse, no such target, verification, no object for the target.
EmitIr == Advance("emit_ir", "backend") /\ UNCHANGED <<front, files>>
EmitIrFails == Fail("emit_ir") /\ UNCHANGED <<front, files>>

CompileToObject == Advance("backend", "create object") /\ UNCHANGED <<front, files>>
CompileToObjectFails == Fail("backend") /\ UNCHANGED <<front, files>>

-----------------------------------------------------------------------------
(* Linker::link_shared_object *)

To(from, to) == phase = from /\ phase' = to /\ UNCHANGED report

Temp(kind) == <<kind, calls>>

\* An early return: the TempFiles are destroyed in reverse order.
Unwind(from) == phase = from /\ phase' = "unlink log" /\ report' = "error"

\* Mutant: an early return past the destructor of the object's TempFile.
EarlyReturn_KeepsObject(from) == Fail(from)

EarlyReturn(from) == Unwind(from)

CreateObject ==
  /\ To("create object", "write object")
  /\ temps' = temps \cup {Temp("object")}
  /\ UNCHANGED <<front, child, out, orphaned>>

CreateObjectFails == Unwind("create object") /\ UNCHANGED <<front, files>>

WriteObject == To("write object", "create log") /\ UNCHANGED <<front, files>>
WriteObjectFails == EarlyReturn("write object") /\ UNCHANGED <<front, files>>

CreateLog ==
  /\ To("create log", "spawn")
  /\ temps' = temps \cup {Temp("log")}
  /\ UNCHANGED <<front, child, out, orphaned>>

CreateLogFails == EarlyReturn("create log") /\ UNCHANGED <<front, files>>

Spawn ==
  /\ To("spawn", "wait")
  /\ child' = [child EXCEPT ![calls] = "started"]
  /\ UNCHANGED <<front, temps, out, orphaned>>

SpawnFails == EarlyReturn("spawn") /\ UNCHANGED <<front, files>>

\* Mutant: only waitpid's own failure is an error.
Wait_AnyStatus ==
  /\ child[calls] \in {"succeeded", "failed"}
  /\ To("wait", "unlink log")
  /\ UNCHANGED <<front, files>>

\* waitpid: the status decides.
Wait ==
  /\ \/ child[calls] = "succeeded" /\ To("wait", "unlink log")
     \/ child[calls] = "failed" /\ Unwind("wait")
  /\ UNCHANGED <<front, files>>

\* A signal interrupts waitpid, which is not called again: an error, although
\* the linker goes on.
WaitInterrupted ==
  /\ Unwind("wait")
  /\ orphaned' = orphaned \cup {calls}
  /\ UNCHANGED <<front, temps, child, out>>

\* ~TempFile, for the log and then for the object.
UnlinkLog ==
  /\ To("unlink log", "unlink object")
  /\ temps' = temps \ {Temp("log")}
  /\ UNCHANGED <<front, child, out, orphaned>>

UnlinkObject ==
  /\ phase = "unlink object"
  /\ phase' = IF report = "error" THEN "done" ELSE "size"
  /\ temps' = temps \ {Temp("object")}
  /\ UNCHANGED <<front, report, child, out, orphaned>>

\* file_size: an error only leaves the size 0.
FileSize == Advance("size", "done") /\ UNCHANGED <<front, files>>

Link ==
  \/ CreateObject \/ CreateObjectFails \/ WriteObject \/ WriteObjectFails
  \/ CreateLog \/ CreateLogFails \/ Spawn \/ SpawnFails
  \/ Wait \/ WaitInterrupted \/ UnlinkLog \/ UnlinkObject \/ FileSize

-----------------------------------------------------------------------------
(* The linker processes, and the caller *)

Become(c, from, to) == child[c] = from /\ child' = [child EXCEPT ![c] = to]

\* It opens its input first and fails if the parent has unlinked it.
ReadsObject(c) ==
  /\ Become(c, "started", IF <<"object", c>> \in temps THEN "linking" ELSE "failed")
  /\ UNCHANGED <<front, phase, report, temps, out, orphaned>>

BeginsOutput(c) ==
  /\ Become(c, "linking", "writing")
  /\ out' = File("half written", c)
  /\ UNCHANGED <<front, phase, report, temps, orphaned>>

Succeeds(c) ==
  /\ Become(c, "writing", "succeeded")
  /\ out' = File("complete", c)
  /\ UNCHANGED <<front, phase, report, temps, orphaned>>

\* Before it touches the output (its input may be truncated: the parent does
\* not see what fails when the stream is closed), or later: then it removes the
\* output, or is killed and leaves it.
Fails(c) ==
  /\ \/ Become(c, "linking", "failed") /\ UNCHANGED out
     \/ Become(c, "writing", "failed") /\ out' \in {NoFile, out}
  /\ UNCHANGED <<front, phase, report, temps, orphaned>>

Linking(c) == ReadsObject(c) \/ BeginsOutput(c) \/ Succeeds(c) \/ Fails(c)

\* The caller runs a compile again, of the same or of another source.
CallAgain ==
  /\ phase = "done" /\ calls < MaxCalls /\ job.command = "compile"
  /\ job' \in {j \in Jobs : j.command = "compile"}
  /\ calls' = calls + 1 /\ phase' = "read"
  /\ program' = None /\ shown' = <<>> /\ report' = None
  /\ UNCHANGED files

Next ==
  \/ ReadFile \/ ReadFails \/ ParseFile \/ EmitIr \/ EmitIrFails
  \/ CompileToObject \/ CompileToObjectFails
  \/ Link
  \/ \E c \in Calls : Linking(c)
  \/ CallAgain

Spec == Init /\ [][Next]_vars

-----------------------------------------------------------------------------
(* What the source says, read by position and not line after line *)

KindOf(atoms) ==
  IF atoms = <<>> THEN "blank"
  ELSE IF Unlexable \in Range(atoms) \/ atoms[1].quoted THEN "bad"
  ELSE LET word == HeadWord(atoms[1])
       IN  CASE word \in Manipulations -> "manipulation"
             [] word \in HeaderBlocks  -> "header"
             [] word \in ElementBlocks -> "element"
             [] word \in MimeBlocks    -> "mime"
             [] OTHER                  -> "attribute"

\* A block's line gives its name.
Fact(atoms) ==
  [kind  |-> KindOf(atoms),
   key   |-> IF KindOf(atoms) = "attribute" THEN Lower(HeadWord(atoms[1])) ELSE "name",
   value |-> ReadValue(IF atoms = <<>> THEN <<>> ELSE Tail(atoms))]

Facts(source) == [i \in DOMAIN source |-> Fact(Atoms(source[i]))]

Greatest(lines) == IF lines = {} THEN 0 ELSE CHOOSE i \in lines : \A j \in lines : j <= i

\* The block a line is in, and the rule an element-rule is of.
BlockOf(l, i)  == Greatest({j \in 1..i - 1 : l[j].kind \in {"manipulation", "header", "mime", "element"}})
ParentOf(l, i) == Greatest({j \in 1..i - 1 : l[j].kind \in {"manipulation", "header", "mime"}})

IsInMime(l, b) == l[b].kind = "mime" \/ (l[b].kind = "element" /\ l[ParentOf(l, b)].kind = "mime")

\* What line i gives is of this type, and can be read as such.
Gives(l, i, type) ==
  /\ ~Misspelled(type, l[i].value)
  /\ type \in DOMAIN Table => l[i].value.count > 0

\* The value of an attribute of block b: that of the last line that gives it.
Meant(l, b, key, type) ==
  LET given == Greatest({i \in {b} \cup {i \in DOMAIN l : l[i].kind = "attribute" /\ BlockOf(l, i) = b} :
                           l[i].key = key /\ Gives(l, i, type)})
  IN  IF given = 0 THEN Default(type) ELSE Taken(type, l[given].value, Default(type))

MeantBlock(l, b) ==
  [key \in DOMAIN Schema[l[b].kind] |-> Meant(l, b, key, Schema[l[b].kind][key])]

\* The lines of the first sip-manipulation, or those before there is one.
Built(l) == {i \in DOMAIN l : Cardinality({j \in 1..i : l[j].kind = "manipulation"}) <= 1}

MeantRule(l, h) ==
  LET elements == SetToSortSeq({i \in Built(l) : l[i].kind = "element" /\ ParentOf(l, i) = h}, <)
  IN  MeantBlock(l, h) @@ "elements" :> [k \in DOMAIN elements |-> MeantBlock(l, elements[k])]

MeantRuleset(l) ==
  LET rules == SetToSortSeq({i \in Built(l) : l[i].kind = "header"}, <)
  IN  MeantBlock(l, CHOOSE i \in Built(l) : l[i].kind = "manipulation")
        @@ "rules" :> [k \in DOMAIN rules |-> MeantRule(l, rules[k])]

IsWellFormed(l) ==
  /\ \A i \in DOMAIN l : l[i].kind # "bad"
  /\ \E h \in DOMAIN l : /\ l[h].kind = "manipulation"
                         /\ \A i \in 1..h - 1 : l[i].kind = "blank"
  /\ \A i \in DOMAIN l : l[i].kind = "element" => l[ParentOf(l, i)].kind \in {"header", "mime"}

\* The attributes that are looked at, and those of them a block does not have.
Read(l) == {i \in Built(l) : l[i].kind = "attribute" /\ ~IsInMime(l, BlockOf(l, i))}
Unknown(l) == {i \in Read(l) : l[i].key \notin DOMAIN Schema[l[BlockOf(l, i)].kind]}

MeantErrors(l) ==
  {i \in Read(l) \ Unknown(l) : Misspelled(Schema[l[BlockOf(l, i)].kind][l[i].key], l[i].value)}

MeantWarnings(l) ==
  Unknown(l) \cup {i \in Read(l) : l[i].key \in Legacy}
    \cup {i \in Built(l) : l[i].kind = "mime"}
    \cup {i \in DOMAIN l \ Built(l) : l[i].kind = "manipulation"}

IsMeaning(p, l) ==
  /\ p.broken = ~IsWellFormed(l)
  /\ ~p.broken => /\ p.ok = (MeantErrors(l) = {})
                  /\ p.errors = MeantErrors(l)
                  /\ p.warnings = MeantWarnings(l)
                  /\ p.tree = MeantRuleset(l)

-----------------------------------------------------------------------------
(* Properties *)

\* "A single parse reports every problem rather than aborting at the first"
\* (parser.cpp:10-12): a source is refused exactly when it is malformed or an
\* enumeration is misspelled, every such line is reported, every ignored line
\* is warned about, and the tree has each attribute in the block it stands in,
\* with the last value given to it.
ReadsAsWritten ==
  program # None => \A l \in {Facts(job.source)} : IsMeaning(program, l)

\* A new-value written as operands reads as these operands, whether they are
\* joined by "+" or stand side by side (value.cpp:93-134).
OperandsReadBack ==
  program # None /\ "operands" \in DOMAIN job =>
    program.ok /\ program.tree["rules"][1]["new-value"].segments = job.operands

\* The printed text parses to an equivalent ruleset (ast_visitor.hpp:7-8,
\* tests/test_parser.cpp:92), of any ruleset.
IsReadingOf(p, tree) == p.ok /\ p.tree = tree

RoundTrips ==
  job.command = "dump-ast" /\ report = "ok" /\ phase = "done" =>
    IsReadingOf(Parse(shown), program.tree)

\* The trees the printed text can carry: no value with a newline, with a word
\* that begins a comment or a string, or with blanks that are not single; no
\* quoted value that means something else unquoted; no element-rule without a
\* type; none of the attributes that are not printed.
Printable(tree) ==
  LET Plain(text) ==
        /\ Newline \notin Range(text)
        /\ \A i \in DOMAIN text :
             /\ text[i] \in {"#", "\""} => i > 1 /\ text[i - 1] # " "
             /\ text[i] = " " => 1 < i /\ i < Len(text) /\ text[i + 1] # " "
      Carried(type, value) ==
        CASE type = "text"             -> Plain(value)
          [] type = "list"             -> Plain(JoinMethods(value))
          [] type \in {"match", "new"} ->
               Plain(value.raw) /\ value = ParseValue(value.raw, type, FALSE)
          [] type = "element type"     -> value # "none"
          [] OTHER                     -> TRUE
      NodeIs(block, node) ==
        \A key \in DOMAIN Schema[block] : Carried(Schema[block][key], node[key])
  IN  /\ NodeIs("manipulation", tree)
      /\ \A key \in {"import", "export", "split-headers", "join-headers"} : tree[key] = <<>>
      /\ \A h \in Range(tree["rules"]) :
           NodeIs("header", h) /\ \A e \in Range(h["elements"]) : NodeIs("element", e)

\* Of those, the round trip holds: attributes come back in whatever order and
\* block they were given in, methods, negation and references included.
PrintsBack ==
  job.command = "dump-ast" /\ report = "ok" /\ phase = "done" /\ Printable(program.tree) =>
    IsReadingOf(Parse(shown), program.tree)

\* Whichever of the nine exits a call takes, and although an interrupted call
\* leaves its linker running, its temporary files are gone (linker.cpp:28-47).
NoTempsLeft == phase = "done" => temps = {}

\* "Returns an error (including captured linker output) on any toolchain
\* failure" (linker.hpp:36-38): a compile that reports success has left its
\* own module in the output file, unless the linker of an earlier, interrupted
\* call still writes there; one that reports an error has not, unless its own
\* linker was left running.
ReportsAreTrue ==
  phase = "done" /\ job.command = "compile" =>
    /\ report = "ok"    => out = File("complete", calls) \/ orphaned \ {calls} # {}
    /\ report = "error" => out # File("complete", calls) \/ calls \in orphaned
=============================================================================
