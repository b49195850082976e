--------------------------- MODULE EventDispatch ---------------------------
(***************************************************************************)
(* Events reaching the listeners of scripts: event_on and lua_emit_event   *)
(* of js.cpp, the op limit the add-on put into QuickJS, and the Lua code   *)
(* that emits (Think, TriggerInput) or evaluates a script.                 *)
(*                                                                         *)
(* One thread runs everything, but dispatch is re-entrant: a script that   *)
(* triggers an output runs, before outputs_trigger returns, the input      *)
(* listener of the chip wired to it, which may be the chip itself.  stack  *)
(* is the nest of executions; the last frame is the one that runs.         *)
(*                                                                         *)
(* A step of a script stands for one operation the interpreter charges     *)
(* with handle_op_limit (jumps, calls, pushes, arithmetic) together with   *)
(* the ones it does not charge up to the next (get_field, put_field,       *)
(* for_of_next, return ...): code has finitely many of those in a row,     *)
(* since every loop takes a goto or an if and every call a call.  The C    *)
(* code of a built-in is not charged at all and may loop (new Set over an  *)
(* endless iterator, quickjs.c:45808-45852): a script may stay there.      *)
(***************************************************************************)
EXTENDS Integers, Sequences, SequencesExt

CONSTANTS
  Chips,
  Funcs,         \* function objects a script can create
  Events,        \* event names, "tick" and "input" among them
  Wire,          \* Wire[c]: the chip whose input is wired to c's output
  OpLimit,       \* ctx->op_limit, 25000 (quickjs.c:2140)
  MaxListeners,  \* MAX_LISTENERS, js.cpp:3
  TriggerLimit,  \* WireLib's bound on changes of one output in one frame
  MaxTries,      \* bound on nested try statements around an operation
  Pasted,        \* the context ApplyDupeInfo created and the chip has not got yet
  None

ASSUME DispatchAssumption ==
  /\ {"tick", "input"} \subseteq Events
  /\ Wire \in [Chips -> Chips]
  /\ OpLimit \in Nat /\ MaxListeners \in Nat
  /\ TriggerLimit \in Nat /\ MaxTries \in Nat
  /\ None \notin Funcs /\ Pasted \notin Chips

VARIABLES
  run,        \* chip.Run
  listeners,  \* contextData->listeners of a context; a chip stands for its own
  held,       \* function objects the script of a context still refers to
  ops,        \* ctx->op_count
  triggers,   \* changes WireLib still lets the chip's output make
  stack,      \* executions under way, innermost last
  failed      \* history: code of the context ended in a JavaScript exception

vars == <<run, listeners, held, ops, triggers, stack, failed>>

Contexts == Chips \cup {Pasted}

OpCap == OpLimit + MaxTries + 1    \* counting stops here, beyond the limit

Listener == [event : Events, callback : Funcs]
Frame    == [chip : Chips, how : {"event", "upload", "dupe"},
             callback : Funcs \cup {None}, tries : 0 .. MaxTries,
             builtin : BOOLEAN]    \* in C code that charges nothing

TypeOK == /\ run \in [Chips -> BOOLEAN]
          /\ \A x \in Contexts : listeners[x] \in Seq(Listener)
          /\ held \in [Contexts -> SUBSET Funcs]
          /\ ops \in [Contexts -> 0 .. OpCap]
          /\ triggers \in [Chips -> 0 .. TriggerLimit]
          /\ stack \in Seq(Frame)
          /\ failed \in [Contexts -> BOOLEAN]

Init == /\ run = [c \in Chips |-> FALSE]
        /\ listeners = [x \in Contexts |-> <<>>]
        /\ held = [x \in Contexts |-> {}]
        /\ ops = [x \in Contexts |-> 0]
        /\ triggers = [c \in Chips |-> TriggerLimit]
        /\ stack = <<>>
        /\ failed = [x \in Contexts |-> FALSE]

Idle  == stack = <<>>
Top   == Last(stack)
Below == Front(stack)

InBuiltin == ~Idle /\ Top.builtin
Running   == ~Idle /\ ~Top.builtin

(* The context an execution runs in. *)
Ctx(fr) == IF fr.how = "dupe" THEN Pasted ELSE fr.chip

(* Faulty: the search starts one entry too late. *)
RegisteredFromSecond(x, event) ==
  {i \in DOMAIN listeners[x] : i > 1 /\ listeners[x][i].event = event}

(* The listener entry for an event, as the linear searches find it. *)
Registered(x, event) == {i \in DOMAIN listeners[x] : listeners[x][i].event = event}

Push(c, how, callback) ==
  stack' = Append(stack, [chip |-> c, how |-> how,
                          callback |-> callback, tries |-> MaxTries,
                          builtin |-> FALSE])

(* Faulty: counting starts one below zero. *)
ResetOpsLow(x) == ops' = [ops EXCEPT ![x] = 0 - 1]

(* set_ops(ctx, 0), by lua_eval and by lua_emit_event when a listener is found. *)
ResetOps(x) == ops' = [ops EXCEPT ![x] = 0]

-----------------------------------------------------------------------------
(* Starting an execution from the game *)

(* lua_emit_event, for an event somebody listens to; without a listener it  *)
(* returns at once and not even the op count changes.                       *)
Emit(c, event) ==
  /\ run[c]
  /\ \E i \in Registered(c, event) : Push(c, "event", listeners[c][i].callback)
  /\ ResetOps(c)
  /\ UNCHANGED <<run, listeners, held, failed>>

(* ENT:Think. *)
Think(c) ==
  /\ Idle
  /\ Emit(c, "tick")
  /\ triggers' = [d \in Chips |-> TriggerLimit]

(* sv_upload.lua: Run is set before the script is evaluated. *)
EvalUpload(c) ==
  /\ Idle
  /\ run' = [run EXCEPT ![c] = TRUE]
  /\ failed' = [failed EXCEPT ![c] = FALSE]
  /\ Push(c, "upload", None)
  /\ ResetOps(c)
  /\ triggers' = [d \in Chips |-> TriggerLimit]
  /\ UNCHANGED <<listeners, held>>

(* ApplyDupeInfo: the script runs in a context of its own.  The chip may    *)
(* run another by then, from a click and an upload since it was spawned.    *)
EvalDupe(c) ==
  /\ Idle
  /\ listeners' = [listeners EXCEPT ![Pasted] = <<>>]
  /\ held' = [held EXCEPT ![Pasted] = {}]
  /\ failed' = [failed EXCEPT ![Pasted] = FALSE]
  /\ Push(c, "dupe", None)
  /\ ResetOps(Pasted)
  /\ triggers' = [d \in Chips |-> TriggerLimit]
  /\ UNCHANGED run

(* LeftClick_Update: the context is freed, its listeners with it, and       *)
(* replaced.                                                                *)
Replace(c) ==
  /\ Idle
  /\ listeners' = [listeners EXCEPT ![c] = <<>>]
  /\ held' = [held EXCEPT ![c] = {}]
  /\ ResetOps(c)
  /\ UNCHANGED <<run, triggers, stack, failed>>

-----------------------------------------------------------------------------
(* What the running script does *)

(* Faulty: the count wraps around instead of reaching the limit. *)
ChargeWraps(x) == ops' = [ops EXCEPT ![x] = IF @ < OpLimit THEN @ + 1 ELSE 0]
Charge(x) == /\ ops[x] < OpLimit
             /\ ops' = [ops EXCEPT ![x] = @ + 1]

Work ==
  /\ Running
  /\ Charge(Ctx(Top))
  /\ UNCHANGED <<run, listeners, held, triggers, stack, failed>>

(* The call of a built-in is charged; what the built-in does is not, until  *)
(* it returns, throws or calls a function whose code is charged again.      *)
EnterBuiltin ==
  /\ Running
  /\ Charge(Ctx(Top))
  /\ stack' = Append(Below, [Top EXCEPT !.builtin = TRUE])
  /\ UNCHANGED <<run, listeners, held, triggers, failed>>

LeaveBuiltin ==
  /\ InBuiltin
  /\ stack' = Append(Below, [Top EXCEPT !.builtin = FALSE])
  /\ UNCHANGED <<run, listeners, held, ops, triggers, failed>>

(* Objects that exist: referred to by the script or by a listener. *)
Live(x) == held[x] \cup {listeners[x][i].callback : i \in DOMAIN listeners[x]}

(* A function the script can pass: one it holds, or a new one.  (A freed    *)
(* function that still runs is not taken for a new one.)                    *)
Passable(x, f) == f \in held[x] \/ ( /\ f \notin Live(x)
                                     /\ \A k \in DOMAIN stack : stack[k].callback # f )

(* event_on: the callback of a known event is freed and replaced; a new     *)
(* event takes the next entry; a full table throws (Throw).                 *)
On(event, f) ==
  LET x == Ctx(Top)
      old == Registered(x, event)
  IN
  /\ Passable(x, f)
  /\ Charge(x)
  /\ \/ /\ old # {}
        /\ listeners' = [listeners EXCEPT ![x] =
             [i \in DOMAIN @ |-> IF i \in old /\ \A j \in old : i <= j
                                 THEN [event |-> event, callback |-> f] ELSE @[i]]]
     \/ /\ old = {} /\ Len(listeners[x]) < MaxListeners
        /\ listeners' = [listeners EXCEPT ![x] =
             Append(@, [event |-> event, callback |-> f])]
  /\ UNCHANGED <<run, triggers, stack, failed>>

(* Events.on("x", () => ...) and Events.on("x", f) with f in a variable. *)
OnFresh(event, f) == Running /\ On(event, f) /\ UNCHANGED held
OnHeld(event, f)  == /\ Running
                     /\ On(event, f)
                     /\ held' = [held EXCEPT ![Ctx(Top)] = @ \cup {f}]

(* event_on with a name JS_ToCString has no string for (a Symbol, a         *)
(* toString that throws): strcmp, or strdup in an empty table, reads NULL   *)
(* and the server process ends.  The next one starts from the beginning.    *)
OnNull == /\ Running
          /\ ops[Ctx(Top)] < OpLimit
          /\ run' = [c \in Chips |-> FALSE]
          /\ listeners' = [x \in Contexts |-> <<>>]
          /\ held' = [x \in Contexts |-> {}]
          /\ ops' = [x \in Contexts |-> 0]
          /\ triggers' = [c \in Chips |-> TriggerLimit]
          /\ stack' = <<>>
          /\ failed' = [x \in Contexts |-> FALSE]

(* outputs_trigger: WireLib hands the value to the wired chip, whose        *)
(* TriggerInput emits "input" inside this call.                             *)
Trigger ==
  LET c == Top.chip
      x == Ctx(Top)
      d == Wire[c]
  IN
  /\ Running
  /\ ops[x] < OpLimit
  /\ triggers[c] > 0
  /\ run[d]
  /\ triggers' = [triggers EXCEPT ![c] = @ - 1]
  /\ \E i \in Registered(d, "input") : Push(d, "event", listeners[d][i].callback)
  /\ ops' = [[ops EXCEPT ![x] = @ + 1] EXCEPT ![d] = 0]
  /\ UNCHANGED <<run, listeners, held, failed>>

-----------------------------------------------------------------------------
(* Ending an execution *)

(* Executions end and the ones in rest stay, with these tables.  Once none  *)
(* stays, a context of a paste that failed is out of reach (ChipLifecycle   *)
(* counts it as lost).                                                      *)
Left(rest, table, empty) == [table EXCEPT ![Pasted] = IF rest = <<>> THEN empty ELSE @]

Leave(rest, table, refs, counts, failures) ==
  /\ stack' = rest
  /\ listeners' = Left(rest, table, <<>>)
  /\ held' = Left(rest, refs, {})
  /\ ops' = Left(rest, counts, 0)
  /\ failed' = Left(rest, failures, FALSE)
  /\ UNCHANGED triggers

(* An exception leaves the execution: the Lua side calls ENT:Error.  A      *)
(* pasted chip keeps the context it had, if any.                            *)
Fail(counts) ==
  /\ Leave(Below, listeners, held, counts, [failed EXCEPT ![Ctx(Top)] = TRUE])
  /\ run' = [run EXCEPT ![Top.chip] = FALSE]

(* Any exception of the script, the full table of event_on included. *)
Throw == Running /\ Fail(ops)

(* "OP limit reached" is an ordinary exception: a try statement around the  *)
(* operation catches it, but the next operation throws again.               *)
OverLimit ==
  LET counts == [ops EXCEPT ![Ctx(Top)] = IF @ < OpCap THEN @ + 1 ELSE @]
  IN
  /\ Running
  /\ ops[Ctx(Top)] >= OpLimit
  /\ \/ Fail(counts)
     \/ /\ Top.tries > 0
        /\ stack' = Append(Below, [Top EXCEPT !.tries = @ - 1])
        /\ ops' = counts
        /\ UNCHANGED <<run, listeners, held, triggers, failed>>

(* A Lua error in a native, as of JSChatPrint called with a missing         *)
(* argument (js.cpp:82-90), is no exception of the script.  It unwinds past *)
(* JS_Call and the caller's err check, ENT:Error does not run and Run stays *)
(* as it was: TRUE for an upload or an event.  The engine catches it, or    *)
(* WireLib around the TriggerInput of a nested execution.                   *)
Raise ==
  /\ Running
  /\ \E rest \in {<<>>, Below} : Leave(rest, listeners, held, ops, failed)
  /\ UNCHANGED run

(* Which callers set Run after a normal end.  Faulty: the upload too. *)
SetsRunAfterUpload(how) == how # "event"
SetsRunAfter(how) == how = "dupe"

(* ApplyDupeInfo gives the chip the context it evaluated in. *)
Handed(table) == [table EXCEPT ![Top.chip] = table[Ctx(Top)]]

(* A normal end.  (What becomes of the result is the heap's matter.) *)
Return ==
  /\ Running
  /\ Leave(Below, Handed(listeners), Handed(held), Handed(ops), Handed(failed))
  /\ run' = IF SetsRunAfter(Top.how) THEN [run EXCEPT ![Top.chip] = TRUE] ELSE run

-----------------------------------------------------------------------------
Script == \/ Work \/ EnterBuiltin \/ OnNull \/ Trigger
          \/ Throw \/ OverLimit \/ Raise \/ Return
          \/ \E event \in Events, f \in Funcs : OnFresh(event, f) \/ OnHeld(event, f)

Next == \/ \E c \in Chips : Think(c) \/ EvalUpload(c) \/ EvalDupe(c) \/ Replace(c)
        \/ Script
        \/ LeaveBuiltin

Spec == Init /\ [][Next]_vars

(* The thread does not stop in the middle of a script.  Nothing makes a     *)
(* built-in come to an end.                                                 *)
FairSpec == Spec /\ WF_vars(Script)

-----------------------------------------------------------------------------
(* Properties *)

(* Event names are unique in a listener table and the table does not        *)
(* overflow, however registrations from nested executions interleave: so    *)
(* an event runs one callback, the latest.                                  *)
ListenersDistinct ==
  \A x \in Contexts :
    /\ Len(listeners[x]) <= MaxListeners
    /\ \A i, j \in DOMAIN listeners[x] :
         listeners[x][i].event = listeners[x][j].event => i = j

(* A chip with code that ended in a JavaScript exception stays stopped      *)
(* until other code is evaluated, even when the exception ended an          *)
(* execution nested in one that goes on, ends well or ends in a Lua error:  *)
(* nothing sets Run again after ENT:Error.  (An execution that itself ends  *)
(* in a Lua error does not count as failed: Run stays, see Raise.)          *)
FailureStops == \A c \in Chips : failed[c] => ~run[c]

(* Every event or evaluation ends, unless a script stays for ever in a      *)
(* built-in: between the op limit, even when scripts catch its exception,   *)
(* and WireLib's bound on triggers, no bytecode and no ring of wired chips  *)
(* keeps the server's thread.                                               *)
DispatchEnds == []<>Idle \/ <>[]InBuiltin

(* "explicitly duplicate (JS_DupValue(), increment the reference count)"    *)
(* (quickjs.texi:847): a callback that runs is an object that exists.       *)
RunningCallbackLive ==
  \A k \in DOMAIN stack :
    stack[k].callback # None => stack[k].callback \in Live(stack[k].chip)
=============================================================================
