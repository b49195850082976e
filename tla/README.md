# JS-Chip in TLA+

JS-Chip is a Garry's Mod / Wiremod add-on: players place chips that run
JavaScript. A native module (`c++_module/js.cpp`) embeds QuickJS and gives Lua
six functions; a Lua add-on (`wire-js-chip_2/lua`) has the chip entity, the tool
that places chips, and the editor's upload and validation. This directory models
the parts that carry state, model-checks them with TLC and proves most of their
properties with TLAPS for every value of the constants.

## The system

| Part | State | Operations | Hard about it |
|---|---|---|---|
| context table, `js.cpp` | `contexts[128]`, `runtimes[128]`, per context owner, entity, listeners | `JS_CreateContext`, `JS_FreeContext`, `JS_Compile`, `JS_Eval`, `JS_EmitEvent`, `JS_GetOps` | handles are plain indices, reused at once; nothing but the Lua code remembers who holds one |
| chip entity, `entities/gmod_wire_jschip.lua` | `ctx`, `Run`, `script` | `Initialize`, `Think`, `TriggerInput`, `Error`, `OnRemove`, dupe methods | removal is deferred, a paste happens in two phases, error returns between acquiring and storing a context |
| tool, `wire/stools/jschip.lua` | `ply.JSChipTarget` | left click, spawn, right click | several players on one chip; refused spawns |
| upload, `code/upload` | chunks per player | client cuts, server reassembles | the target is looked up again for each chunk |
| validation, `code/validate` | chunks per player, a borrowed context | the same, with an answer | answers arrive after later edits |
| dispatch, `js.cpp` and `quickjs.c` | listener table, op count | `Events.on`, `JS_EmitEvent`, `handle_op_limit` | re-entrant: an output triggered by a script runs another script inside the call |
| natives, `js.cpp` | the Lua stack | about thirty functions | stack offsets and pops by hand on every path |
| vector natives, `js.cpp` | none of their own | arithmetic | names bound to other functions, arguments read beyond the ones counted |
| chat, `chatprint` | `ply.JSCanPrint` | `JSChatPrint` | contexts keep the index of a player, not the player |
| module open and close, `js.cpp` | the context table | `gmod13_open`, `gmod13_close` | one loop variable hides the other |
| memory of a runtime, `quickjs.c` | reference counts, the collector's lists | `JS_FreeValue`, `JS_RunGC`, `JS_FreeRuntime` | a collection can start at any allocation; C code forgets references |
| bytecode format, `quickjs.c` | atom table, buffer | `JS_WriteObject`, `JS_ReadObject` | atoms are freed and reused between writing and reading |
| QuickJS parser, interpreter, built-ins | | | vendored, not modelled |
| loader, editor mode, help texts | none | | |

Lua runs on one thread. A hook, net receiver or entity method is atomic; they
interleave freely with each other, over all players. QuickJS runs inside these.
A Lua error raised inside a native (`console.log` of a Symbol, `js.cpp:90`) or on a
missing bytecode (`js.cpp:2732` reports success with none) unwinds through QuickJS
and ends the handler where it is, without `ENT:Error`; the models have it as a
path of its own.

What makes each part correct: a handle always names a live context made for its
holder; contexts are not lost; what runs is what was sent, and what is saved is
what runs; a failed chip stays stopped; scripts give the thread back; natives
leave the Lua stack as they found it; event arguments arrive; lines reach the
player they are for; compiled code is the same code after it was read again;
memory in use is kept and all other memory comes back.

## Modules

* `ContextTable`: the table as a function from slots to `NoContext` or a record
  of the entity, the owner and the script last evaluated; the native operations
  as functions on it. `FirstFree` is the scan of `lua_create_context`.
* `ContextPool`: what the add-on promises about contexts, without chips or
  tools: a slot is free, held by one entity or lost, and an entity holds at most
  one. The ways to lose a slot are actions of their own.
* `ChipLifecycle` (extends `ContextTable`): `ent[e]` has the fields `life` (not
  there, live, marked for removal), `owner`, `ctx`, `Run`, `script` and the
  history `cut` (a Lua error ended the chip's last upload or paste half-way);
  `target` is `JSChipTarget`; `requests` counts code requests a client has not
  answered; `paste` is a pasted chip waiting for `ApplyDupeInfo`. One action per
  handler: `LeftClick_Update`, `MakeEnt` (`MakeEntRefused`, `MakeEntAtWorld` when
  `MakeWireEnt` returns nothing), `ReceiveCode`, `NoReply`, `ValidateCode` and
  `ValidateRaises` (no bytecode: `net.WriteString` raises before
  `JS_FreeContext`), `EmitFails` (a `Think` or `TriggerInput` whose listener
  throws), `Remove` and `OnRemove`, `PasteSpawn` and `ApplyDupeInfo`,
  `RemoveProp`. Whether a script compiles, throws or raises is a choice, and so
  is whether `WireLib.ClientError` raises on the nil it is given when the table
  is full (`NoSlot`).
* `CodeUpload`: one client, the server, and what other players do to the chips.
  The client's messages are reliable and ordered; `sent` is the queue of scripts
  being sent and `pos` how many chunks of the first have arrived. `uploaded` and
  `checked` are the two `scriptChunks` tables. A chunk's text is the pair of its
  script and its index, so a mixture is visible in the result. `table.concat`
  stops at a border of the table, any border when there are holes. Players do
  not share any of this state, except the chips: `Others` is another player's
  click on a chip or the end of his upload to it, `Gone` a removal by anybody,
  and `chip[c].by` says whose code or click the chip had last. `Heavy` are the
  scripts whose bytecode may not fit in memory: validating one may get no answer.
* `EventDispatch`: `stack` is the nest of executions. A step of a script is
  `Work`, `OnFresh`/`OnHeld` (`Events.on` with a function the script does not
  keep, or keeps), `Trigger` (an output, running the wired chip's listener
  inside), `Throw`, `OverLimit` (the limit's exception, possibly caught),
  `Raise` (a Lua error, which goes past `ENT:Error`, to WireLib or to the engine)
  or `Return`. `OnNull` is `Events.on` with a name that has no string, which
  reads a null pointer: the server starts again. A paste runs its script in a
  context of its own, `Pasted`, while the chip may already run in another; only a
  normal end gives the chip that context (`Handed`). A step `Work` is a charged
  instruction with the uncharged ones before it, of which there are finitely many
  between two charged ones. A call of a built-in is charged once
  (`EnterBuiltin`); the built-in may then go on for any time, also for ever
  (`js_map_constructor` over an endless iterator, `quickjs.c:45808-45852`).
* `NativeBridge`: every function of `js.cpp` that works on the Lua stack, as a
  program with one instruction per call of the Lua interface and the code's own
  offsets, and an interpreter that notices an instruction finding the wrong
  value. `Lines` and `Ports` are the loops of `console.log` and of
  `Inputs.Change`, one round per argument or property. `Roots` are what Lua calls (`JS_EmitEvent` with its conversion of
  arguments, `JS_Eval`, `JS_CreateContext`, the opening of the module);
  `Natives` are what scripts call. `frames` is the nest of functions: where a
  native reads a property or converts a value, script code runs and may call
  another native in the middle of it (`Script`, `Enter`). A function works on
  its own part of the stack (`Own`), from where the functions below it end;
  `skew` says that a native called in the middle left values on that part.
  `passed` is what a listener gets. What the game's functions accept and return is external.
* `ScriptApi`: the functions of `Vector` under their registered names. `above` is
  the slot of QuickJS's operand stack over a single argument, which
  `vector_magnitude` reads. Square roots, quotients, remainders and powers stay
  symbolic, so results are compared exactly. `Documented` is the help text of
  each of the ten names (`cl_functions.lua:14-23`), the one of `Pow`, which is the
  text of `Mod`, included.
* `ServerSession`: players at indices (`seat`), contexts with the index of their
  owner, or of no player when they were created without one, the chat's rate limit in ticks, and `gmod13_close` slot by slot. `Join`,
  `Quit` and `Tick` are the engine's.
* `ScriptHeap`: one runtime's memory. `list` is the list a block's header is on,
  `edge` its references, `rc` and `mark` the header's fields, `held` references
  of C code (frames, listeners, `contexts[]`), `leaked` references it dropped
  without `JS_FreeValue`. The collector's walks visit one block per step
  (`gc_decref`, `gc_scan`, `gc_scan_restore`, `gc_free_cycles`), in any order,
  which includes the code's; the script does not run meanwhile. What can be
  reached (`Reach`) is the smallest set of blocks that has the roots and that no
  reference leads out of.
* `Bytecode`: `lua_compile` and `lua_eval` as writer and reader of the same
  buffer, with the atom table in between: `JS_WriteObject` and `JS_ReadObject` as
  recursive operators over cells, scripts that add and delete property names
  while the function is only bytes, and `free_function_bytecode`. Memory may run
  out at any of the places of `Limits` in the writer: a put that does not fit is
  dropped and the next, shorter one may fit again; an atom without a place in the
  table is left out; the instructions of a function or the final joining of the
  two buffers make it give up. In the reader it may run out at the allocations
  `Memory` says: what it has read is freed, except the name of a function whose
  block could not be allocated (`lost`), and a failure before the instructions
  are copied reads through a null pointer, which ends the server.
* `ChipLifecycle_proofs`, `ChipLifecycle_refinement`, `CodeUpload_proofs`,
  `EventDispatch_proofs`, `ServerSession_proofs`, `ScriptApi_proofs`,
  `ScriptHeap_proofs`, `NativeBridge_proofs`: theorems and their proofs.
* `MCChipLifecycle`, `MCCodeUpload`, `MCEventDispatch`, `MCScriptHeap`,
  `MCBytecode`: constants for TLC (symmetry, chunk counts, wiring, scripts).

Operators commented "Faulty" are variants of the definition after them; they
change it the way a bug would and serve to show that the properties notice.

## Runs

Passing runs:

| Run | Checks | Bounds |
|---|---|---|
| `lifecycle` | `TypeOK`, `HandleOwned`, `RunningHasContext`, `SavedIsRunning`, `OrphanSources`, `PoolRefined`, `UpdateKeepsChip` | 1 chip, 1 prop, 2 players, 2 scripts, 2 slots, 1 open request each |
| `upload` | `TypeOK`, `IntactUnlessTorn`, `LatestClickRuns`, `NoResidue`, `ShownIsLatest`, `ValidationAnswered` | 2 chips, scripts of 1 and 2 chunks, the first heavy, 2 under way, 1 request |
| `dispatch` | `TypeOK`, `ListenersDistinct`, `FailureStops`, `DispatchEnds` | 2 chips in a ring, 3 events, 2 listeners, 1 function, op limit 1, 1 trigger per output, 1 try |
| `bridge` | `TypeOK`, `FaultSources`, `LeavesStack`, `ArgumentsArrive` | every function, two native calls per execution, 1 or 2 values for `log`, 0 to 2 for `Change` |
| `session` | `TypeOK`, `LinesReachCreator`, `LinesSpaced`, `CloseSound` | 2 persons, 2 indices, 2 contexts, 2 listeners, 2 ticks between lines |
| `api` | `AgreesWithHelp` | vectors over {2, 3}, all arguments of length 0 to 2 |
| `heap` | `TypeOK`, `PinnedKept`, `NoDangling`, `CountsExact`, `AssertsHold`, `CollectionExact` | 3 values, the context, 5 references between them, 1 held by C code on each, 1 forgotten in all |
| `bytecode` | `LoadedIsSource`, `BufferReads`, `AtomsBalanced` | 4 scripts, 16-bit words, 5 atom entries, 2 loaded functions, 2 names, 5 limits of the writer, 3 of the reader, 1 lost reference |

Two slots with a chip, a prop and validations are enough for a full table, a
freed slot taken by another holder, and a lost slot next to a held one; three
holders for two slots make every refusal happen. Two scripts of different length
give uploads that end early and late against each other's counts. In `dispatch`
each table can be full with one more event to register, an operation can hit the
limit at once, and the ring reaches a chip that is already executing; more ops
repeat the same steps.
In `bridge` the second call finds what the first left, or runs in the middle of
it. In `session` two persons suffice for an index that changes hands, and two
slots with two listeners for every value the hidden loop variable can meet
(own, another's, freed, absent). In `heap` three values and the context give
cycles, a cycle hanging off another, a chain into a cycle and the cycle of a
function and its realm. In `bytecode` a word of 16 bits in three groups keeps
what matters of 32 bits in five: a last group that is not full. Scripts include
numbers on both sides of each group and sign, predefined and numeric names, wide
strings, templates and a nested function sharing atoms with its parent, and two
with long code and a long string, which a full buffer drops while what follows
still fits. The limits make the writer give up, drop code, drop a string, lose
names from the table in front and leave out atoms; the reader fails in that
table, at a function's block and inside a nested function.

When the target disappears between two chunks an upload is torn: stored chunks of
it can be joined with those of the next. `torn` is the history of that, and what
the properties of uploads promise nothing about.

What the passing runs state as exceptions is as much a result as what they
state as rules. `FaultSources` and `LeavesStack` name the natives that leave
values behind, the calls that then miss, and those that miss in the context of a
prop or of no player; `ArgumentsArrive` says that the r, g and b of a colour never
arrive; `CloseSound` says that closing is only sound for tables with at most one
listener, in slot 0; `SavedIsRunning` and `OrphanSources` name what Lua errors
break; `FailureStops` is about JavaScript exceptions, since a Lua error leaves
`Run` set; `DispatchEnds` says that only a built-in keeps the thread;
`AtomsBalanced` that the "atom leak" noted at `quickjs.c:35535` is the only one.

Runs that show a disagreement, each with one property that restates a comment,
a help text or an assertion of the repository:

| Run | Shows |
|---|---|
| `lifecycle_owner` | `Entity.Owner()` is the player who clicked last, not the chip's owner |
| `dispatch_free` | a listener that replaces itself frees the running function |
| `api_help` | `Pow`, `Distance2`, `Normalize`, `Magnitude` and `Mod` by a number do not do what the help says |
| `heap_leak` | a result a listener returned is still listed when `JS_FreeRuntime` asserts that nothing is (`quickjs.c:1987`) |

Deadlock is not checked in `heap`, `heap_leak` and `session`, where a freed runtime and a
closed module are the end.

Fairness. `upload` assumes that messages under way are delivered (net
messages are reliable; `WF` of `Deliver` and of `ReceiveVerdict`) and nothing
about players. `dispatch` assumes that the thread executes the script it is in
(`WF` of `Script`); nothing makes a script return by itself, `DispatchEnds` rests
on the op limit and on WireLib's bound on output changes. No fairness is assumed of
`LeaveBuiltin`, and `DispatchEnds` leaves the case open that a built-in never ends.

Refinement. `ChipLifecycle` implements `ContextPool` under the mapping of a slot
to the entity of its context if that entity has it as handle, and to "lost" if
nobody has (`Held`, `PoolRefined`). An update is one `Renew`, although the code frees
first and creates afterwards.

## Proofs

Every property of `ChipLifecycle`, `CodeUpload`, `EventDispatch`,
`ServerSession`, `ScriptApi`, `ScriptHeap` and `NativeBridge` that a passing run checks is also
a theorem, except the two liveness properties. A run shows it for its bounds,
the theorem for any sets of chips, props, players, scripts, events, blocks and
values, any wiring, and any limits. Bounds such as `MaxRequests` or `MaxEdges`
stay in the specifications but may be any numbers. Assumed are only the
assumptions named in the modules; TLC evaluates them in the runs of those
modules.

In every proof the invariant `IInv` of the module is shown to hold initially and
to be kept by each action (one lemma per action or handler, put together in
`NextIInv` or `NextSane`), and the properties follow from it.

**`ChipLifecycle_proofs`**: `TypeOK`, `HandleOwned`, `RunningHasContext`,
`SavedIsRunning`. Assumed: at least one slot, chips and props disjoint, `None`
none of the values, the bound on requests a natural number. None of the three
safety invariants is inductive. `HandleOwned` needs that a slot taken by
`FirstFree` is nobody's handle, which follows from ownership itself (a handle
names a used slot) once the types are known, and that freeing an entity's slot
takes no other entity's, which follows because a context has one entity.
`RunningHasContext` needs that an upload only starts a target that has a
context. `SavedIsRunning` (for chips whose last upload or paste no Lua error cut off) needs
`HandleOwned`, since an evaluation in one chip's
context must not change what another runs, and that an entity that does not
exist has neither handle nor `Run`. `Good(t, es)` states types, ownership,
running and saved together, as a predicate of a table and of entity fields
rather than of the variables. So one lemma per native operation (`CreateGood`,
`FreeGood`, `EvalGood`) and one for a change of an entity's fields (`SetGood`)
cover the intermediate tables inside a handler, as in an update, which frees and
creates in one step.

**`ChipLifecycle_refinement`**: `PoolRefined`, `OrphanSources` and
`UpdateKeepsChip`, from the same invariant. `Holding(t, es)` is the refinement
mapping as a function of a table and entity fields, so that it too can be
applied between the two native calls of one handler. `HoldingFacts` reads a slot
as free, lost or held by exactly the entity whose handle names it; this is where
`HandleOwned` is needed. Each handler then makes one exchange of the pool
(`Keeps`) or loses one slot (`Loses`), and `PoolSteps` says that these are the
steps of `ContextPool`. `LostAssumption` (the word "lost" is no entity) only
concerns the mapping.

**`CodeUpload_proofs`**: `TypeOK`, `IntactUnlessTorn`, `NoResidue`,
`LatestClickRuns`, `ShownIsLatest`, for scripts of any number of chunks and any
number of scripts under way. The properties speak of the moments when an upload
is complete; the invariant says what is true between two chunks. `Checking` and
`Uploading` say that a `scriptChunks` table is the first `pos` chunks of the
script arriving, or empty. `Queued` says that the script at the head of the
queue is not complete. `Answering` and `Running` say that the last script of a
kind in the queue is the one last sent and, once none is left, that the answer
to it is the last one on its way, shown, or running in the chip clicked last,
as long as no other player has clicked that chip or uploaded to it since.
`table.concat` is looked at on tables without holes, where it has one result.
An empty script, of no chunks, is in the theorems and not in the run.

**`EventDispatch_proofs`**: `TypeOK`, `ListenersDistinct`, `FailureStops`, for
any wiring, limits and depth of nesting. `FailureStops` is not inductive: the
end of an evaluation of a pasted chip sets `Run` and hands over the context of
the paste, whatever happened since it began. `Rooted` says that an evaluation is
only ever at the bottom of the nest, so that nothing else runs in that context,
and `Untried` that the context of a paste still being evaluated has not failed.

**`ServerSession_proofs`**: `TypeOK`, `LinesReachCreator`, `LinesSpaced`,
`CloseSound`. `Seated` says that the index a context keeps is its creator's as
long as he has not left, `Limited` that what is left of the rate limit and what
has passed of it add up to the gap, `Unspoilt` that nothing is misused before
`gmod13_close` begins.

**`ScriptApi_proofs`**: `AgreesWithHelp` for all integers. There is nothing to
accumulate over calls but the slot above the arguments. The work is in the
lemmas about each registered function, which compare what it computes with the
help text's definition.

**`ScriptHeap_proofs`**: `TypeOK`, `PinnedKept`, `NoDangling`, `CountsExact`,
`AssertsHold` and the action property `CollectionExact`, for heaps of any finite
number of blocks with any references between them. Assumed: values and shared
blocks are disjoint and finitely many, the context is a shared block.
`CountsExact` holds between operations only. `Counting` is what is true at each
step of a collection: a count is the number of external references and of the
references from the blocks in `Counted`, which are those `gc_decref` has still
to visit, then those `gc_scan` has visited, then all that its second loop has no
more to visit, otherwise all. With it go which list a block is on and why:
`Trial` during `gc_decref` (marked and without a count means `tmp_obj_list`),
`Scanning` during `gc_scan` (with a count means `gc_obj_list`, and then it can
be reached), `Separated` from its end on (`gc_obj_list` is closed, has all
roots, and each of its blocks is referred to from inside or by a root),
`Dismantling` while cycles are freed, `Resting` outside the collector. That
nothing in use is freed rests on `Separated`: a block of `gc_obj_list` that a
dying cycle refers to has at least two references, so releasing one never
brings it to zero. That everything else is freed rests on `Scanning`: only what
can be reached gets a count again. The lemmas `RefsFacts` to `RefsChange` count
references when a block is added, removed or ignored, `DropCounts` and
`DyingFacts` describe the release of shared blocks within one `JS_FreeValue`,
and `ReachFacts` is reachability as a smallest closed set. `FreeStep` covers
all ways to lose references outside a collection at once.

**`NativeBridge_proofs`**: `TypeOK`, `FaultSources`, `LeavesStack` and
`ArgumentsArrive`, for any `MaxArgs` and `MaxCalls`, with and without values
that have no string form. The programs are sequences whose length is a parameter,
and induction over them is not available, so the argument is coinductive. A
configuration is a function, the instructions it has left, its values and what
was passed. It is harmless if its next instruction is legal or fails for one of
the reasons `Excused` names, if, at its end, it leaves what `Exits` allows, and
if a listener runs with what `Delivered` says. `Good` is the union of all sets of
harmless configurations that the steps do not lead out of (`Kept`, `Left` and
`Passes` are the outcomes of an instruction); it is one of these sets itself, and
`Safe` says that a configuration is in it. So one rule per instruction says what
has to be safe after it (`ValueRule`, `CallRule`, ...), one rule per shared part
(`AskRule`, `CheckedRule`, ...) executes that part once for all natives, and
`WalkRule` covers the loops: to show that a program is safe it is enough to name,
for each position, the values there can be, as for `console.log` after `j`
arguments, some of which pushed nothing. `NativesSafe` and `RootsSafe` put the
programs together.

The invariant of the machine, `IInv`, then needs no look at the programs. The
parts of the functions under way lie on the stack in order (`Stacked`); each
function in which no other left values behind is safe with its part (`Running`);
whoever has nested a call or left something has been counted (`Counted`, which is
why `ArgumentsArrive` may assume `calls = 0`); and a fault is one of the innermost
function (`Faulty`). An instruction replaces the part of the innermost function by
one of the outcomes (`InstructionSteps`), entering adds an empty part (`Entered`),
and returning joins a part to the one below, which is then the same as before or
marked by `skew` (`Returned`).

Only model-checked:

* `ValidationAnswered` and `DispatchEnds`: liveness is out of the prover's reach.
* `Bytecode`: reader and writer are recursive operators over nested functions;
  statements about them for every script need induction over data.
* The properties of `lifecycle_owner`, `dispatch_free`, `api_help` and
  `heap_leak`, which do not hold.

## Not modelled

* Most of QuickJS. Of the repository's 90,000 lines of C and Lua, 85,000 are the
  vendored engine: the parser and compiler, the interpreter loop, the built-in
  objects, `libregexp`, `libbf`, the Unicode tables, and programs the module does
  not even link (`quickjs-libc.c`, `qjs.c`, `run-test262.c`, `unicode_gen.c`). They
  implement a language standard. The reference for them is that standard, not
  this repository; a model would be an interpreter, with nothing of this system
  in it. Modelled is what the add-on's own code depends on or has changed: the op
  limit (`EventDispatch`), ownership of values and the collector (`ScriptHeap`),
  the bytes that pass through Lua and the atoms behind them (`Bytecode`), the
  operand stack natives get (`ScriptApi`). So the map covers nearly all of
  `js.cpp` and of the Lua files that keep state, and a small share of the whole.
* In `ScriptHeap`: finalizers, weak references, `ctx->array_shape` (its
  only reference is to the prototype of arrays, which the context refers to
  anyway), and the bytes counted against the runtime's limit (`lua_compile` frees
  its buffer behind the allocator's back).
* In `Bytecode`: floating-point and BigInt constants, the table from bytecode to
  lines, and the kinds of objects a compiled script never contains. Memory that
  runs out is modelled by where the writer and the reader notice it or fail to,
  not by bytes. What a function read from a damaged buffer does when it runs is
  left open, and a damaged header whose counts of variables disagree, which makes
  `free_function_bytecode` look beyond the variables, is not among the inputs.
* After a Lua error has unwound past `JS_Call`, the runtime's
  `current_stack_frame` still points into the frames that are gone, and values they
  held are leaked. `EventDispatch` has only what this means for `Run`, the
  listeners and the op count.
* Promise jobs: nothing in the add-on executes them, so they never run.
* Wiremod, the duplicator and the engine, except as the code uses them.
  WireLib's bound on changes of one output per frame is a constant.
* The loader, the editor's syntax colours; of the help texts only what
  `ScriptApi` and `lifecycle_owner` state. Contents of scripts, error texts, the
  numbers inside colours and angles.
* `vector_normalize` and `entity_world_to_local` are registered under no name.
  The second is in `NativeBridge` and is never entered.

## Plan

1. Done: `ContextTable`, `ChipLifecycle`, `ContextPool`, `CodeUpload`,
   `EventDispatch`, `NativeBridge`, `ServerSession`, `ScriptApi`, `ScriptHeap`,
   `Bytecode`, their runs, and the theorems above.
2. `JSChipServer`: `ChipLifecycle` and `CodeUpload` composed, for uploads whose
   target changes between request and answer, with a proof that the composition
   implements `ChipLifecycle` where no upload is torn.
