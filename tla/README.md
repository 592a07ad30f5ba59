# TLA+ models of fastsbc_hmr

fastsbc_hmr compiles Oracle-style SIP header manipulation rules (HMR) to a shared
library and applies it to packets. This directory holds TLA+ models of the parts
whose correctness is hard to test, the TLC configurations that check them, and
proofs checked by TLAPS. All source paths are relative to the repository.

## 1. The system

| component | state it keeps | operations | source |
|---|---|---|---|
| module manager | `current_` (atomic shared_ptr), observers, dlopen handles, use counts | `load`, `current`, `subscribe`, `unsubscribe`, destructors | `src/module/module_manager.cpp` |
| SIP message | slices into the raw packet or the arena, tombstones, request-URI override | parse, get/set/add/delete header, get/set field, serialize | `src/runtime/sip_message.cpp` |
| arena | 64 KiB, a bump pointer | `alloc`, `dup`, `reset` | `include/hmr/runtime/arena.hpp` |
| URI splitter | none | `parse_uri`, `rebuild_uri` | `src/runtime/uri.cpp` |
| runtime C ABI, context | variables, regexes, store slots, last match, scratch, verdict | `hmr_rt_*`, `prepare`, `reset_for_apply` | `src/runtime/runtime.cpp` |
| matchers | none | exact, IP, mask, range, FQDN | `src/runtime/matchers.cpp` |
| interpreter | slot and regex tables, frozen after a scan | constructor scan, `apply` | `src/interp/interpreter.cpp` |
| code generators | the same tables, blocks of code | `generate_ir`, the C++ twin | `src/codegen/*.cpp` |
| optimizer | the rule list | five passes, run to a fixed point of at most four rounds | `src/optimizer/optimizer.cpp` |
| parser, values, AST | the tree under construction, errors and warnings | text to rule lists | `src/parser`, `src/ast`, `grammar/Hmr.g4` |
| AST printer | none | a tree back to text | `src/ast/ast_printer.cpp` |
| driver, pipeline, back end, linker | temporary files, a child process, the output file | parse, print, generate, LLVM, link | `src/tools/hmrc.cpp`, `src/pipeline`, `src/backend` |
| the host (example) | one manager, a context per packet | compile, load, apply, compile, load, apply | `examples/host_integration/main.cpp` |

How they interact: the compiler side runs once per ruleset (parser, optimizer,
generator, LLVM, linker) and leaves a `.so` on disk. The host's control threads
give its path to the module manager; its worker threads take shared_ptr snapshots
and call `hmr_apply(msg, ctx)` of a snapshot. The generated code calls back the C ABI,
which edits the message through the context and its arena. The repository has no such
host: the example does all of this on one thread, with a fresh context for each packet;
that loads and workers run on threads of their own is what `module_manager.hpp:11-18`
is written for. The interpreter walks the same rules over the same ABI as a reference.

What is hard: publication and reclamation of modules among threads; views into an
arena that is rewound for every packet and may run out in the middle of a call;
long sequences of edits over repeated and deleted headers; state of the context
(slots, captures) that outlives the rule or the packet that set it; two code
generators, an interpreter and an optimizer that must agree on what a rule means; two
loads that overlap, each with a read, a store and calls to observers; a parser that goes
on after errors, and a printer that must agree with it; early returns past temporary files and a child
process that outlives the call that started it.
`PROJECT.json` lists these hazards at their lines.

What makes each component correct:

- module manager: a snapshot never leads to unmapped or changed code; opens and
  closes balance; a module dies when its last owner goes and not before; displaced
  modules are reclaimed; no swap goes by without a call to every observer after it; one
  `Loaded`, then `Reloaded` (which two first loads at once break, 7.11).
- message and arena: slices lie in what the arena handed out since the packet came
  in; no step changes what an untouched slice shows; a refused call changes nothing;
  what is sent is the message as edited; the whole is a list of header fields.
- URI splitter: a component reads back as it was written, the rest is untouched.
- interpreter, generators: one packet's result does not depend on the packets before
  it; generated code does what the walk over the rules does; tables agree.
- optimizer: the optimised rules mean what the original ones did.
- matchers: a text matches by the address it spells, whatever the spelling.
- parser and printer: the tree, the errors and the warnings are what the source says;
  what is printed reads back as the tree that was printed.
- driver and linker: no temporary file is left; the exit code tells what became of the
  output file.

## 2. The modules

| module | models | state and actions |
|---|---|---|
| `HotSwap` | the contract of the module manager | one active module, what each user holds, what is alive; Install, Acquire, Release, Collect, Shutdown |
| `ModuleManager` | `module_manager.cpp` | one action per step another thread can observe: `Open`, `Validate`, `Reject` (the `fail` lambda), `ReadCurrent`, `Publish`, `RetireOld`, `BeginNotify`, `Deliver`, `Return` are the lines of `load` and `notify` in their order; `Snapshot`, `BeginApply`, `EndApply`, `Release` a worker; `Dlclose` the rest of `~LoadedModule` |
| `Uri` | `parse_uri`, `rebuild_uri` | operators over token sequences, used by all modules below |
| `UriEditing` | a host or a rule rewriting elements of one value | `Rewrite` |
| `Fields` | what the header calls do to a list of fields | operators |
| `HeaderList` | the contract of the message | a list of fields and a URI; Set, Add, Delete, Element, Field, Serialize, Refused |
| `SipMessage` | `sip_message.cpp`, `arena.hpp` and the header, field and URI calls of `runtime.cpp` | cells and the bump pointer of the arena, slices, tombstones; one action per call of the C ABI |
| `Rules` | the walk of `interpreter.cpp` and the scan of its constructor; `prepare` and `reset_for_apply` | operators: `Walk`, `RunRule`, `RunElement`, `Scan`, `Prepared`, `Reset` |
| `Interpreter` | a worker that applies one ruleset to packet after packet | `Receive`, `Apply` (the whole walk) |
| `GeneratedCode` | the generators, and the run of what they emit | `Generate` emits a list of calls and branches with numbered tables; then one action per kind of call: `GetHeader`, `Match`, `UriSet`, `SetHeader`, `Store`, `Reject`, ... |
| `Optimizer` | `optimizer.cpp` | the pass that is next, the round, the rules in place; one action per pass, `EndRound`, `GroupByHeader` |
| `Matchers` | IPv4/IPv6 parsing, `match_ip`, `match_ip_mask`, `match_ip_range`, `ip_match_type` | one `Match` of a subject and a pattern |
| `Values` | `value.cpp`: literals, variables, captures, rule references, `+` | operators over tokens |
| `Parser` | the grammar, `parser.cpp`, `ast_factory.cpp`: lines to atoms, blocks, attributes, errors, warnings | `Parse`, which reads line after line (`Item`) |
| `AstPrinter` | `ast_printer.cpp` | `ToHmrText` |
| `Compiler` | `hmrc`'s commands, the pipeline's stages, `link_shared_object`, the linker's process | one action per stage and per way it fails: `ParseFile`, `EmitIr`, `CompileToObject`, `CreateObject`, ..., `Spawn`, `Wait`, `WaitInterrupted`, `UnlinkLog`, `UnlinkObject`; `Linking` the child; `CallAgain` |
| `ModuleManager_proofs`, `UriEditing_proofs`, `SipMessage_proofs`, `Rules_proofs`, `GeneratedCode_proofs`, `Optimizer_proofs`, `Compiler_proofs` | theorems and the lemmas they share | |
| `Induction` | lemmas on sequences that the proofs share: concatenation, cutting, filtering, smallest and largest numbers | |

`MC*` modules hold the small instances. How they compose: `SipMessage` and `Rules`
both use `Uri`; `HeaderList` and `Rules` both use `Fields`. `SipMessage` is shown to
implement `HeaderList`, so that `Rules` may treat a message as a list of fields;
`GeneratedCode` is shown to implement `Interpreter`; `Optimizer` compares rulesets by
the `Walk` of `Rules`; `ModuleManager` is shown to implement `HotSwap`. `Compiler` extends
`AstPrinter`, which extends `Parser`, which extends `Values`; it says what a source
means a second time (`MeantRuleset` and the definitions around it), by the positions of
the lines instead of line after line, and compares.

Where the models abstract. A text is a sequence of tokens; one token takes one cell of
the arena, and case folding, regular expressions, capture groups and the host's
variables are operator constants. Header names, rule names and packets come from small
sets. Names follow the code: `RebuildUri` is `rebuild_uri`, `Prepared` is
`HmrContext::prepare`, and so on; `PROJECT.json` gives the lines of every definition.
Four variables exist for the properties only: `view` (`ModuleManager`, the module that
`current()` showed an observer when it was last called about a successful load), `entry`
(`GeneratedCode`, the state `hmr_apply` was entered with), `source` (`Optimizer`) and
`orphaned` (`Compiler`, the calls whose `waitpid` was interrupted).

Choices worth knowing:

- What a dynamic loader and a `shared_ptr` do is modelled from their contracts: a path
  that is mapped already is not mapped again, `make_shared` may reuse the address of a
  deleted module, a store to the atomic cell releases the displaced pointer afterwards.
- `SipMessage` and `Rules` divide the limits between them. Arena, header array and
  refused calls are in `SipMessage`; `Rules` has messages that fit.
- A `$reference` as match-value fires always: the documentation calls it a gap, and the
  model has it (`Unconditional`).
- `UriEditing` writes a display name only into values with angle brackets. Before a bare
  addr-spec `rebuild_uri` puts it where `parse_uri` does not look for one, and RFC 3261
  has no place for it.
- A worker resets its context once for each packet, as `runtime-api.md` shows. No worker
  of the models keeps a context over a swap: the code leaves it to the host to prepare
  contexts again (`module_manager.hpp:19-20`), and no host of the repository does.
- Observers may come and go at any time, although `module_manager.hpp:103-104` does not
  mean them to race with loads; nothing that is claimed of them needs that they do not.
- The signature of a rule (`Sig`) is one text: names of headers, raw texts, separators.
  A raw text has lost the quotes of its value, and may hold separators. `raw` keeps it
  beside the segments of a value.
- In `Parser` a source with a syntax error is refused and nothing more is said of it:
  what the ANTLR parser does to recover changes only further diagnostics.
- The linker's process reads its input, begins the output, and ends at any later time,
  in any order with the calls of the driver; an interrupted `waitpid` abandons it.

## 3. The runs

| run | question | result |
|---|---|---|
| `module_manager` | Do snapshots stay mapped and unchanged, do opens, closes and use counts balance, is the hot-swap contract implemented, under all interleavings and failed loads? | holds |
| `concurrent_loads` | When two loads overlap, has every observer been called after the last swap, and seen what workers get? Is a displaced module deleted although workers go on, and everything unmapped after the manager? | holds, the last two with fairness |
| `uri_editing` | Does every component read back after any sequence of rewrites, the rest verbatim? | holds |
| `sip_message` | Do slices stay inside what was allocated, are reads never stale, is what is sent the message as edited, are refused calls no-ops, when arena and array run out? Does it implement the list? | holds |
| `sip_exhausted` | Is exhaustion a no-op when an element rule runs out of arena? | violated (7.1) |
| `slots_leak` | Are packets isolated for any ruleset? | violated (7.2) |
| `generated_code` | Does the emitted code, call by call, do what the walk does, with its tables? Does it never rewrite a stale view, stop at a reject, always return? Does no packet depend on an earlier one if slots are stored before they are loaded, and are the tables complete? | holds |
| `optimizer` | Do rounds end at a fixed point or at the limit, are added headers kept, does the plan have one group for each header, whatever the order and the spellings? Which condition makes each pass keep the meaning of the rules? | holds, for the conditions of `SafePassesKeepMeaning` |
| `optimized_differs` | Does a rule with an unanchored pattern mean the same once it is optimised? | violated (7.3) |
| `matchers` | Is a match decided by the address a text spells? | holds, but for 7.5 |
| `compile` | Are tree, errors and warnings those of the source? Do expressions and printable trees read back? Are temporaries removed and reports true, whatever fails and whichever linkers are left running? | holds |
| `dump_ast` | Does the printed text parse back to the same ruleset, for any ruleset? | violated (7.4) |

The reference definitions are independent of the code where the model is a function:
`Matchers` enumerates the spellings of every address and compares bit sequences and
numbers, never bytes and masks; `UriEditing` composes a value from its components;
`Compiler` finds the block of a line and the last line that gives an attribute.

## 4. Bounds, and why they are enough

- `module_manager`: one loader, two workers, two paths, four addresses. At most four
  modules exist at once (the cell, load's displaced one, a snapshot each), so `Publish`
  never lacks an address and addresses are reused. Two paths are two libraries, or one
  opened twice; a file may be good, bad or missing, and may change at any time.
  Workers and addresses are symmetric; no property names one.
- `concurrent_loads`: two loaders, one worker, one observer, three addresses, two paths.
  Two loaders take the list, store and tell in any order. One of the two files is good and
  one is no module; the files do not change here, as `module_manager` has that. Symmetry
  is not used with liveness.
- `sip_message`: four calls (`MaxCalls`) over two packets (`MaxPackets`) of three: a
  request with a repeated header, a status line without a URI, and a request whose URI is
  empty; an arena of
  18 cells and an array of 3 headers, so that both run out within the four calls, in
  the middle of `add_header` and of `serialize` too. One kind of element (`user`): the
  others are `uri_editing`'s. Two calls would do for most of the
  properties; four delete a header, add it twice and overflow.
- `slots_leak`: all rulesets of up to three of ten rules, two packets; two are enough
  for state that leaks from one to the next, as `Reset` does not depend on how many came
  before.
- `generated_code`: all rulesets of up to two of twelve rules, one of them with four
  element rules, and those of three that have a store, a load and any third rule between
  or after them; two packets. Branches only ever skip to the end of an element or header
  rule.
- `optimizer`: three of sixteen rules, so that a rule can stand between two copies, pairs
  with ten more, and eighteen rulesets (`MCSequels`), chosen so that each conjunct of
  each safety condition is needed (without any one of them `SafePassesKeepMeaning` fails)
  and so that element rules differ in a parameter only and signatures collide.
  Two rounds instead of four (`MaxRounds`), so that the limit is met. `optimized_differs`
  has the one ruleset it is about.
- `matchers`: bytes of two bits, quads of two bytes, three IPv6 groups. A prefix ends at
  every bit of a byte, an elision stands for one or two groups at either end, a quad
  writes the last group. The code has no constant that these do not scale.
- `compile`: some 21,600 sources. Every order of up to four of eleven kinds of line
  after a manipulation (a block, a second manipulation, a comment, an enumeration in
  capitals or misspelled, an unknown attribute), since what a line means depends on the
  block it is in, the rule that block is of, and a later line with the same key; every
  attribute with 22 forms of value, once and a second time; every expression of up to
  three of nine operands, with `+` or side by side. Two calls (`MaxCalls`): one linker
  abandoned by an interrupted call and one that is waited for. `dump_ast` has one source.

## 5. Fairness

`ModuleManager` has weak fairness of a load that has begun (`LoadStep`, to its return and
to the end of the result it returned), of `Dlclose` by whoever deleted a module, and of
the end of a packet, since a thread inside these runs on. A worker that holds a snapshot
may apply packet after packet with it; that it lets go in the end is what the grace period
of `module_manager.hpp:15-17` counts on, and the example takes a snapshot per packet, so
`Release` is strongly fair. Nothing forces a load, a snapshot, a packet, a file, a
registration or the end of the manager. `GeneratedCode` has weak fairness of `Execute`: a thread inside `hmr_apply` runs
on; packets need not come. `Compiler` has no fairness: every step of a compile may fail,
and nothing is said of when a linker ends.

## 6. What is proved

`ModuleManager_proofs` proves for every finite set of loaders, workers and addresses,
and any observers, paths and images (`ModuleManagerAssumption`: threads are distinct,
`None` is no address, path or image, valid images are images):

- `TypeCorrect`, `HandlesBalance`, `OwnersAreCounted`, `SnapshotsStayMapped`: the
  invariants `TypeOK`, `OpensAreOwned`, `CountsAreExact` and `HeldIsMapped`;
- `CodeIsStable`: the action property `SnapshotsKeepTheirCode`;
- `ManagerRefinesHotSwap`: `Spec => Contract!Spec`, the refinement.

`HeldIsMapped` is not inductive: that a library is mapped follows from counting. The
inductive invariant `IInv` has the types; the two balances (use counts are the
`shared_ptr`s, open counts are the handles threads own and the modules alive); for every
thread, what it owns at each point of its call (`LoaderOwns`, `WorkerOwns`); and that
every live module's library passed the checks. The counting lemmas (`CountIsNat`,
`CountAfterChange` and their instances) say how one changed place changes a count; each
action then has a lemma of its own, and `NextIInv` puts them together. `CodeIsStable`
needs `IInv` on both sides of the step: a library whose count of opens stays positive is
not unmapped, and a module whose use count stays positive is not deleted.

`NoSwapIsMissed` (`ObserversSeeEverySwap`) is for any number of loaders: once no load is
running, an observer that was called about a successful load saw the module workers get.
Its invariant is about loads under way: an observer that has seen another module than the
current one is still to be called by some load that has stored, or by one that has not
taken the list of observers yet. Loads that overlap may store in one order and tell in the
other, and need not tell in the order of their stores: it is enough that each takes the
list after its store and calls the whole of it. Neither the order of the events
is claimed, nor what they say of `Loaded` and `Reloaded` (7.11).

`UriEditing_proofs` proves `RewritesReadBack` (`ReadsBack`) and `RewritesAreLocal`
(`RestIsVerbatim`), for any values and texts that `UriEditingAssumption` allows: they have
the form of `uri.hpp:6-8`, no component contains what delimits it, and display names do
not begin or end with a blank. So hosts have no colon (7.6). The argument:
a value is the concatenation of twelve pieces (`Pieces`). Each search of `parse_uri`
for a delimiter ends where the pieces put it, because the pieces before it are clear of
it (`ParsesPieces`); `rebuild_uri` replaces one piece, or fills an empty one
(`RewriteKeepsShape`). The values are not inductive as composed: a name that is rewritten
to nothing leaves its blank behind. `UriInv` therefore leaves open what stands around the
display name, as far as parsing trims it; but for quotes and blanks all these values are
alike (`SeenAlike`).

`SipMessage_proofs` proves, for any arena, header array, packets, names and texts
(`SipMessageAssumption`: packets and texts consist of tokens, the limits are natural
numbers):

- `TypeCorrect`, `SlicesStayAllocated`, `SentIsTheMessage`: the invariants `TypeOK`,
  `SlicesAreAllocated` and `SentAsEdited`;
- `ReadsStayFresh`: the action property `ReadsAreNeverStale`;
- `UneditedIsUnchanged`: `UneditedIsSentUnchanged`, if every packet's headers fit the array;
- `MessageRefinesHeaderList`: `Spec => ImplementsHeaderList`, the refinement;
- `ComponentsAreSpans`: whatever is in a value, the views that `parse_uri` returns lie
  inside it. `SlicesStayAllocated` needs it where `set_header` is given such a view.

The invariant `MessageInvariant` is that every slice lies below the arena's mark. It is
inductive because every operation, with all it calls, leaves the arena `Grown`: the mark
does not sink and the cells under it are not written. From that a slice shows the same text
as long as it is not re-pointed, and so each operation edits one field of the list that the
live headers show (`Live`). For the refinement a deletion that leaves a tombstone is a
deletion in the list, and occurrences are counted among the headers that are left.

`Compiler_proofs` proves for any jobs and any number of calls (`CompilerAssumption`: at
least one call, `None` is no report):

- `TempsAreRemoved`: `NoTempsLeft`;
- `ReportsCanBeTrusted`: `ReportsAreTrue`.

The invariant `LinkInv` says which temporaries a phase has (`TempsFit`); that a linker
which still runs is this call's own or an abandoned one (`ChildrenFit`); what a call
knows of its linker at each phase (`ReportFits`); and that the output is complete only
by a linker that has succeeded, and is replaced after that only by an abandoned one
(`OutputFits`). The lemmas go through the stages, the linker's calls and the linker
processes; nothing in them opens the parser or the printer.

`GeneratedCode_proofs` proves for any rulesets and packets, and whatever expressions,
captures, variables and address matchers answer:

- `TypeCorrect` (`TypeOK`): the program counter stays in the code;
- `RewritesAreFresh` (`NeverRewritesStale`): a rewrite starts from the header's value,
  although earlier element rules, of this rule or others, may have changed it.
  The first two rest on what is emitted. Block by block the code is `Sound`: branches lead
  forward and at most to the end of their block, and every rewrite has a read of the header
  it stores before it, with nothing between them that writes and no branch that leads past
  the read. Concatenation keeps `Sound`, so the code of every ruleset is
  (`SoundGenerated`). `CodeInv` adds that, from such a read up to its rewrite, the register
  shows the header;
- `RejectsAreFinal` (`RejectIsFinal`): a worker that has rejected stands behind the last
  instruction (`RejectInv`), every other instruction leaves the verdict alone;
- `ModulesImplementInterpreter` (`ImplementsInterpreter`): what the generators emit does
  what the interpreter does. `Step` takes a configuration of program counter, state and
  registers to the next, as the actions do (`BranchesStep`, `ReadsStep`, `EffectsStep`);
  `Leads` is its closure. Each kind of block, wherever it lies in a module (`Lies`), leads
  from its first instruction to its end, or out of the code after a reject, with the state
  that the same part of the walk yields (`Reaches`): guards (`GuardRuns`), element rules
  (`ElementsRun`), header actions (`HeaderActRuns`), rules (`RuleRuns`), rulesets
  (`WalkRuns`). That immediates are the interpreter's numbers needs that emission and scan
  meet keys and patterns in the same order (`Adds`, `GeneratesScan`). The invariant
  `WalkInv` is that what is left of a run leads to its end with the state that the walk
  gives; since the machine stands still at its end, the worker has that state there
  (`WalkedAtEnd`), and the return is the `Apply` of `Interpreter`;
- `IsolationHolds` (`IsolatedIfStoredFirst`) and `TablesSuffice` (`TablesAreComplete`)
  compare two walks of a ruleset. Two states are `Alike` in a set of keys if their tables
  number the keys in use apart and find the patterns in use (`Serves`), the message,
  captures, logs and verdict are the same, and so are the slots of that set, wherever
  each state keeps them. A rule that loads only such keys keeps states alike, and one
  that no guard skips adds the keys it stores (`RuleAlike`); after a reject the slots
  need not be alike any more (`Together`). `WalksAlike` carries that through a ruleset.
  For the tables the set is all keys in use, and all slots are empty: scan and table of
  all that occurs cover what is in use (`ScanCovers`, `OccurringCovers`). For isolation
  it is empty at first, since the slots hold what earlier packets left, and grows with
  each store; `EntryInv` says from which state the worker has walked.

`GeneratedCodeAssumption` says that rulesets are sequences of rules, with sequences of
element rules, natural numbers of groups, a message type and values of the four kinds of
segments, and that a packet has the three parts of a message and no verdict.

`Optimizer_proofs` proves for any rulesets and any limit of rounds (`OptimizerAssumption`:
sequences of rules as parsed, messages with a header section, two of the metacharacters are
the anchors):

- `RoundsEndAtFixpoint` (`EndsAtFixpoint`): a pass that counts nothing changes nothing
  (`UnreportedIsUnchanged`), since what it drops, simplifies or fuses it counts, and fusing
  keeps a ruleset that it does not shorten (`FusedOrSame`); so while the flag of a round is
  down, every pass of the round that is over fixes the rules in place (`DriverInv`);
- `PlanIsOfWhatIsLeft` (`PlanFitsRules`), about the loop that builds the plan rule by rule:
  after the first n rules the groups have different headers and hold the rules 1 to n, each
  in the group of its header and in order (`IsGrouping`); a rule that joins a group or opens
  one keeps this (`JoinGroups`), and induction over the rules does the rest;
- `TypeCorrect` and `AddsSurvive` (`AddsAreKept`). Deduplication, elimination and
  simplification keep, drop or replace each rule by itself, fusing joins `manipulate` rules
  with the rule before them only; each keeps the subsequence of rules that add (`Keeps`);
- `SafePassesAreSound` (`SafePassesKeepMeaning`): where a ruleset meets the condition of a
  pass, the pass changes no header field, log or verdict of any packet.

The last one compares two walks by a relation of states (`Agree`): the same message, slots,
logs and verdict, the same captures unless no rule reads them, and no field without a name
where dropped deletes need that (`IsState`). Values, guards, stores and edits keep it, and so
do rules that act alike (`RulesAgree`). Then, pass by pass:

- a rule that is dropped is superfluous after those before it, or dead; one that is replaced
  makes of states that agree states that agree; `ElementsThread` and `RulesThread` carry
  this through a sequence of which some places are left and some dropped;
- a copy right after its original adds nothing, since what the original has put, removed
  or stored is found as put (`PutAgain`, `StoredAgain`);
- a fused rule is two rules walked one after the other (`FusedAgrees`, by induction over
  the rules taken);
- the optimized rules are scanned for tables of their own, but use nothing that the source
  did not use (`Within`), so that a walk is the same on either tables (`CoversAlike`, of
  `Rules_proofs`); and what a pass makes is as parsed (`AreParsed`, the invariant).

The theorem has one hypothesis, about the external engine: each pattern has a number of
groups, and one with both anchors and no other metacharacter has none and finds the text
between the anchors or nothing (`SearchesAsWritten`). `MCOptimizer` evaluates it of the
engine the runs use. That no conjunct of the conditions is spare is shown by the run
`optimizer`, not proved.

Two forms of the models serve the proofs. Filters and concatenations are `FlattenSeq` over
a function that yields one element or none, of which `Induction` shows what it does to a
sequence cut in two; loops that carry a state (`Fused`, `AfterGroups`, `AfterElements`,
`AfterRules`) are recursive functions on natural numbers, whose equations are proved.
Induction is over sets of natural numbers: a set that has 0 and is closed under `+ 1` has
all of them.

Only model-checked:

- liveness under fairness, `ENABLED`, and what a fold computes for every input are out of
  the prover's reach;
- `Matchers`, since the prover cannot use `Bitwise`;
- `ReadsAsWritten`, `OperandsReadBack` and `PrintsBack`: the parser reads lines by a fold.

## 7. Where the code and its documents disagree

1. `sip_exhausted`: `uri_set` returns a null string when the arena is full, and the
   rule's `set_header` writes it as an empty value. The header is blanked, although
   `arena.hpp:41-42` says that exhaustion is a no-op.
2. `slots_leak`: `reset_for_apply` keeps the slots, although `runtime-api.md:163-164`
   says that it clears per-packet state. `IsolatedIfStoredFirst` names the rulesets this
   does not affect: every load has an unguarded store before it.
3. `optimized_differs`: an unanchored pattern without metacharacters becomes an equality
   with the whole value, so that a compiled module filters other packets than the
   interpreter; the run's rule is one that rejects where `bo` is found in From. The
   conditions of `SafePassesKeepMeaning` name the other cases: a pattern with a negation
   sign or one anchor; captures that a later rule reads; copies of a rule that are not
   neighbours, or differ in name; stores, rules `none` whose element rules act, and
   rules `add` without a header name, which are dropped; element rules that differ in
   match-val-type only; fused rules whose guard would be evaluated again, that spell
   their header otherwise (a header that is absent would be written under the other
   spelling), or whose unnamed element rules store (under the name of the rule they
   had); stores without a name, known by the place of their rule, which every dropped or
   fused rule shifts; copies of element rules that rewrite a part, since what the first
   wrote may be parsed otherwise; a rule with a new-value that has only element rules
   `none`: without them it writes the header itself.
4. `dump_ast`: an element-rule without a type is printed as `type none`, a word the
   parser does not have, so the printed text is refused, although
   `docs/user-guide.md:76` promises HMR and `tests/test_parser.cpp:92` an equivalent
   ruleset. `Printable` names what else is lost: the quotes of a quoted value, the
   attributes `import`, `export`, `split-headers` and `join-headers`, values with a
   newline, a leading `#` or quote, or blanks that are not single.
5. `1.2.3.4::5` parses as an IPv6 address, since a quad is looked for at the end of both
   sides of `::`, although `matchers.cpp:79` allows it as the final token only.
   `QuadInFront` leaves such texts out of the properties of `Matchers`.
6. `parse_uri` splits `[::1]` without a port at its last colon (`uri.cpp:70`). The hosts
   of `uri_editing` have no colon; with the host `[::k]` `ReadsBack` is violated.
7. `parse` drops headers past the 32nd (`sip_message.cpp:256`), and the packet is sent
   without them; `UneditedIsSentUnchanged` is checked for packets that fit.
8. An element rule without a name stores under `<rule>.el`, but a reference is cut at
   its first dot (`lowering.hpp:125-127`): nothing can load that slot.
9. In the value language `$A.$B` with capitals is one rule reference, not two variables;
   a `.$` that no name follows disappears; `+` splits inside `${...}` too; an index too
   large for an `int` throws (`value.cpp:52`).
10. A misspelled block keyword is read as an unknown attribute, with a warning that
    `hmrc compile` never prints; an unquoted `#` drops the rest of a line. A write that
    fails when the object is closed is not seen (`linker.cpp:82`): the linker gets a
    truncated input, which is why `Fails` may happen to a linker at once.
11. `load` asks whether `current_` is empty (`module_manager.cpp:71`) before it stores
    (line 75), with no lock over both, so two first loads that overlap both report
    `Loaded`, although `module_manager.hpp:92-93` says that the first one reports it and
    subsequent ones `Reloaded`.
12. A rule is dropped as a duplicate if its signature is that of an earlier one.
    Signatures join raw texts by `|` and `;` (`optimizer.cpp:64-87`), and raw texts have
    no quotes. A rule that writes the quoted text `"$LOCAL_IP"` is dropped after one
    that writes the variable, and a rule with match-value `x` and new-value `y|z` after
    one with `x|y` and `z`, although `optimizer.hpp:8` drops rules "identical to an
    earlier one".

Items 5 to 12 have no run of their own. `MCSequels` has the two pairs of item 12 (`Quoted`,
`Separated`): `DeduplicationIsSafe` has to exclude them.

## 8. What is not modelled

- What LLVM does inside a stage, the commands `optimize` and `check-samples`, option
  parsing, and the removal of stale objects by other programs.
- The tree printer, the wording and columns of diagnostics, ANTLR's recovery from syntax
  errors, the stand-ins for C++23 library types (`support/compat.hpp`).
- Text detail: tokenizing of header lines, the status code, digits of numbers, the
  character loops of `match_exact` and `match_fqdn`, LLVM types and symbol names, the
  text of the emitted C++.
- The null-pointer guards of the C ABI; a host that sets variables between packets.
- Benchmarks and experiments: callers without state of their own.
- Exceptions: `bad_alloc`, observers that throw.
- Rules `sip-manip`, `find-replace-all` and parameters of element rules beyond what the
  code does with them (nothing, or the element is not supported and skipped).

## 9. Plan

Done, in this order: the module manager with its contract and proofs; the URI splitter;
message and arena with their contract; rules, interpreter, generated code; optimizer;
matchers; values, parser, printer and the compiler's file
life cycle with its proofs; proofs about the emitted code with its refinement of the
interpreter, the interpreter's tables and slots, the optimizer's passes, message and arena
with the refinement of their contract, and the URI splitter; and last that the passes keep
the meaning of the rulesets fit for them. Next: the command `optimize`, which is
`Optimizer` on what `Parser` returns, printed by `AstPrinter`.
