----------------------------- MODULE ScriptHeap -----------------------------
(***************************************************************************)
(* The heap of one chip's QuickJS runtime: reference counts, the           *)
(* free_zero_refcount loop, the cycle collector JS_RunGC and the way       *)
(* lua_free_context takes a runtime down (quickjs/quickjs.c, js.cpp).      *)
(*                                                                         *)
(* Two kinds of blocks carry a count.  Values are objects and bytecode,    *)
(* which __JS_FreeValueRT queues on gc_zero_ref_count_list when the count  *)
(* reaches zero.  Shared are the blocks behind them (the context that      *)
(* every function holds as its realm, closure variables, shapes), which    *)
(* are freed on the spot and refer to values only.                         *)
(*                                                                         *)
(* A list is the set of its members.  The code walks the lists in order    *)
(* and the model in any order; `todo` is what the walk has still to visit. *)
(***************************************************************************)
EXTENDS Integers, FiniteSets

CONSTANTS Values,     \* objects and bytecode
          Shared,     \* contexts, closure variables, shapes
          Context,    \* the block of Shared that is the chip's JSContext
          MaxRefs,    \* bound: references C code holds on one block
          MaxLeaks,   \* bound: no more is forgotten once a block has this many
          MaxEdges    \* bound: references between blocks

ASSUME HeapAssumption == /\ IsFiniteSet(Values \cup Shared)
                         /\ Values \cap Shared = {}
                         /\ Context \in Shared
                         /\ MaxRefs \in Nat \ {0} /\ MaxLeaks \in Nat /\ MaxEdges \in Nat

VARIABLES
    list,     \* block -> the list its header is linked in, "none" once released
    edge,     \* block -> the blocks it refers to (properties, realm, closure)
    rc,       \* block -> header.ref_count
    mark,     \* block -> header.mark
    held,     \* block -> references held by frames, listeners and contexts[]
    leaked,   \* block -> references the add-on dropped without JS_FreeValue
    phase,    \* what the runtime is doing
    todo,     \* blocks the current walk over a list has still to visit
    closing   \* lua_free_context has begun

vars == <<list, edge, rc, mark, held, leaked, phase, todo, closing>>

Blocks == Values \cup Shared

On(l) == {b \in Blocks : list[b] = l}

Allocated == {b \in Blocks : list[b] # "none"}

\* How many members of S refer to b.
RefsFrom(S, e, b) == Cardinality({s \in S : b \in e[s]})

\* What C code can still reach, through the edges e from the references r:
\* the smallest set with those roots that the edges do not lead out of.
Closed(S, e, r) ==
    /\ \A b \in Blocks : r[b] > 0 => b \in S
    /\ \A b \in S : e[b] \subseteq S

Reach(e, r) ==
    LET closed == {S \in SUBSET Blocks : Closed(S, e, r)}
    IN  {b \in Blocks : \A S \in closed : b \in S}

Live == Reach(edge, held)

Pinned == Reach(edge, [b \in Blocks |-> held[b] + leaked[b]])

Init ==
    \E global \in Values :
      /\ list = [b \in Blocks |-> IF b \in {Context, global} THEN "gc" ELSE "none"]
      /\ edge = [b \in Blocks |-> IF b = Context THEN {global} ELSE {}]
      /\ rc = [b \in Blocks |-> IF b \in {Context, global} THEN 1 ELSE 0]
      /\ mark = [b \in Blocks |-> 0]
      /\ held = [b \in Blocks |-> IF b = Context THEN 1 ELSE 0]
      /\ leaked = [b \in Blocks |-> 0]
      /\ phase = "run" /\ todo = {} /\ closing = FALSE

-----------------------------------------------------------------------------
\* Dropping references.

\* Faulty: JS_FreeContext does not look at the count.
DyingAlways(S) == S \cap Shared

\* Shared blocks whose last reference goes when each block of S loses one.
Dying(S) == {s \in S \cap Shared : rc[s] = 1}

\* Faulty: the children of a released shared block keep their counts.
DroppedShallow(S) == [b \in Blocks |-> rc[b] - (IF b \in S THEN 1 ELSE 0)]

\* The counts once each block of S has lost a reference, and with it every
\* block a dying shared block referred to.
Dropped(S) ==
    [b \in Blocks |-> rc[b] - (IF b \in S THEN 1 ELSE 0)
                            - RefsFrom(Dying(S), edge, b)]

Zeroed(S) == {v \in Values : rc[v] > 0 /\ Dropped(S)[v] = 0}

\* JS_FreeValue on each block of S with the collector at rest: the shared
\* blocks are released, and the values queued for free_zero_refcount.
JS_FreeValues(S) ==
    /\ rc' = Dropped(S)
    /\ list' = [b \in Blocks |-> CASE b \in Dying(S) -> "none"
                                   [] b \in Zeroed(S) -> "zero"
                                   [] OTHER -> list[b]]
    /\ phase' = IF Zeroed(S) # {} THEN "free" ELSE "run"

\* free_zero_refcount: one object of gc_zero_ref_count_list goes, with the
\* references it held; what that brings to zero joins the list.
free_zero_refcount ==
    /\ phase = "free"
    /\ \E p \in On("zero") :
         /\ rc' = Dropped(edge[p])
         /\ list' = [b \in Blocks |->
                       CASE b \in Dying(edge[p]) \cup {p} -> "none"
                         [] b \in Zeroed(edge[p]) -> "zero"
                         [] OTHER -> list[b]]
         /\ edge' = [b \in Blocks |-> IF b \in Dying(edge[p]) \cup {p}
                                      THEN {} ELSE edge[b]]
    /\ phase' = IF \E b \in Blocks : list'[b] = "zero" THEN "free" ELSE "run"
    /\ UNCHANGED <<mark, held, leaked, todo, closing>>

-----------------------------------------------------------------------------
\* The script and the natives, on what they can reach.

Running == phase = "run" /\ ~closing

Edges == {p \in Blocks \X Blocks : p[2] \in edge[p[1]]}

\* add_gc_object: a new block, referred to by the frame that made it.
add_gc_object(b) ==
    /\ Running /\ list[b] = "none"
    /\ list' = [list EXCEPT ![b] = "gc"]
    /\ rc' = [rc EXCEPT ![b] = 1]
    /\ mark' = [mark EXCEPT ![b] = 0]
    /\ held' = [held EXCEPT ![b] = 1]
    /\ UNCHANGED <<edge, leaked, phase, todo, closing>>

\* A reference is stored in a block (set a property, capture a variable).
Store(b, c) ==
    /\ Running /\ {b, c} \subseteq Live
    /\ b \in Values \/ c \in Values
    /\ c \notin edge[b] /\ Cardinality(Edges) < MaxEdges
    /\ edge' = [edge EXCEPT ![b] = @ \cup {c}]
    /\ rc' = [rc EXCEPT ![c] = @ + 1]
    /\ UNCHANGED <<list, mark, held, leaked, phase, todo, closing>>

\* A stored reference is overwritten or deleted, and the old value freed.
Unstore(b, c) ==
    /\ Running /\ b \in Live /\ c \in edge[b]
    /\ JS_FreeValues({c})
    /\ edge' = [x \in Blocks |-> IF x \in Dying({c}) THEN {}
                                 ELSE IF x = b THEN edge[b] \ {c} ELSE edge[x]]
    /\ UNCHANGED <<mark, held, leaked, todo, closing>>

\* JS_DupValue: an argument, a local, a listener's callback.
JS_DupValue(b) ==
    /\ Running /\ b \in Live /\ held[b] < MaxRefs
    /\ held' = [held EXCEPT ![b] = @ + 1]
    /\ rc' = [rc EXCEPT ![b] = @ + 1]
    /\ UNCHANGED <<list, edge, mark, leaked, phase, todo, closing>>

\* JS_FreeValue of a held value: a frame ends, a listener is replaced; when
\* the chip goes, lua_free_context frees the callbacks that are left and, once
\* the context is given up, JS_FreeRuntime the pending exception and jobs.
JS_FreeValue(b) ==
    /\ phase = "run" /\ b # Context /\ held[b] > 0
    /\ JS_FreeValues({b})
    /\ held' = [held EXCEPT ![b] = @ - 1]
    /\ edge' = [x \in Blocks |-> IF x \in Dying({b}) THEN {} ELSE edge[x]]
    /\ UNCHANGED <<mark, leaked, todo, closing>>

\* A value C code got from QuickJS goes out of scope without JS_FreeValue:
\* the result of JS_Call in lua_emit_event, what JS_GetPropertyStr returned.
Forget(b) ==
    /\ Running /\ b \in Values /\ held[b] > 0
    /\ \A x \in Blocks : leaked[x] < MaxLeaks
    /\ held' = [held EXCEPT ![b] = @ - 1]
    /\ leaked' = [leaked EXCEPT ![b] = @ + 1]
    /\ UNCHANGED <<list, edge, rc, mark, phase, todo, closing>>

-----------------------------------------------------------------------------
\* The collector.

\* Faulty: a class without gc_mark, its functions' realm is not visited.
mark_children_values(p) == edge[p] \cap Values

\* mark_children: every block p counts a reference on.
mark_children(p) == edge[p]

\* js_trigger_gc: an allocation finds the heap over malloc_gc_threshold.
js_trigger_gc ==
    /\ Running
    /\ phase' = "decref" /\ todo' = On("gc")
    /\ UNCHANGED <<list, edge, rc, mark, held, leaked, closing>>

\* gc_decref_child: whether a child leaves gc_obj_list when its count drops.
ToTmp(c) == mark[c] = 1

\* gc_decref on p: its children lose a reference, then p is marked; blocks
\* already marked, and p, move to tmp_obj_list at zero.
gc_decref ==
    /\ phase = "decref"
    /\ \/ \E p \in todo :
            LET left == [b \in Blocks |-> rc[b] - (IF b \in mark_children(p) THEN 1 ELSE 0)]
                out  == {c \in mark_children(p) : left[c] = 0 /\ ToTmp(c)}
                          \cup {b \in {p} : left[b] = 0}
            IN  /\ rc' = left
                /\ mark' = [mark EXCEPT ![p] = 1]
                /\ list' = [b \in Blocks |-> IF b \in out THEN "tmp" ELSE list[b]]
                /\ todo' = (todo \ {p}) \ out
                /\ phase' = phase
       \/ /\ todo = {}
          /\ phase' = "scan" /\ todo' = On("gc")
          /\ UNCHANGED <<list, rc, mark>>
    /\ UNCHANGED <<edge, held, leaked, closing>>

\* Faulty: only the blocks found again lose their mark.
UnmarkFound(found, p) == found

\* gc_scan resets the mark of what it keeps, for the next collection.
Unmark(found, p) == found \cup {p}

\* gc_scan, first loop: p is alive, and so are its children.  A child found
\* again goes to the end of gc_obj_list, where the walk still gets to it.
gc_scan ==
    /\ phase = "scan"
    /\ \/ \E p \in todo :
            LET found == {c \in mark_children(p) : rc[c] = 0}
            IN  /\ rc' = [b \in Blocks |-> rc[b] + (IF b \in mark_children(p) THEN 1 ELSE 0)]
                /\ list' = [b \in Blocks |-> IF b \in found THEN "gc" ELSE list[b]]
                /\ mark' = [b \in Blocks |-> IF b \in Unmark(found, p) THEN 0 ELSE mark[b]]
                /\ todo' = (todo \ {p}) \cup found
                /\ phase' = phase
       \/ /\ todo = {}
          /\ phase' = "restore" /\ todo' = On("tmp")
          /\ UNCHANGED <<list, rc, mark>>
    /\ UNCHANGED <<edge, held, leaked, closing>>

\* Faulty: the second loop is left out.
RegainNone(p) == {}

\* gc_scan_incref_child2: the children of p get their reference back.
Regain(p) == mark_children(p)

\* gc_scan, second loop: what is left on tmp_obj_list gets its counts back.
gc_scan_restore ==
    /\ phase = "restore"
    /\ \/ \E p \in todo :
            /\ rc' = [b \in Blocks |-> rc[b] + (IF b \in Regain(p) THEN 1 ELSE 0)]
            /\ todo' = todo \ {p} /\ phase' = phase
       \/ todo = {} /\ phase' = "cycles" /\ UNCHANGED <<rc, todo>>
    /\ UNCHANGED <<list, edge, mark, held, leaked, closing>>

\* Faulty: the memory goes at once, whoever still counts on it.
HuskNone(left, p) == "none"

\* free_object under JS_GC_PHASE_REMOVE_CYCLES: a block that is still counted
\* keeps its memory on gc_zero_ref_count_list until the end.
Husk(left, p) == IF left[p] # 0 THEN "zero" ELSE "none"

\* gc_free_cycles, one block of tmp_obj_list: a value is freed; a shared block
\* is left to the values that refer to it.  Values that reach zero stay listed.
gc_free_cycles ==
    /\ phase = "cycles"
    /\ \E p \in On("tmp") :
         \/ /\ p \in Values
            /\ rc' = Dropped(edge[p])
            /\ list' = [b \in Blocks |->
                          CASE b = p -> Husk(rc', p)
                            [] b \in Dying(edge[p]) -> "none"
                            [] OTHER -> list[b]]
            /\ edge' = [b \in Blocks |-> IF b \in Dying(edge[p]) \cup {p}
                                         THEN {} ELSE edge[b]]
         \/ /\ p \in Shared
            /\ list' = [list EXCEPT ![p] = "zero"]
            /\ UNCHANGED <<rc, edge>>
    /\ UNCHANGED <<mark, held, leaked, phase, todo, closing>>

\* gc_free_cycles, end: the memory of the blocks kept aside is released.
gc_free_cycles_end ==
    /\ phase = "cycles" /\ On("tmp") = {}
    /\ list' = [b \in Blocks |-> IF list[b] = "zero" THEN "none" ELSE list[b]]
    /\ rc' = [b \in Blocks |-> IF list[b] = "zero" THEN 0 ELSE rc[b]]
    /\ phase' = IF closing /\ held[Context] = 0 THEN "freed" ELSE "run"
    /\ UNCHANGED <<edge, mark, held, leaked, todo, closing>>

-----------------------------------------------------------------------------
\* lua_free_context begins once no frame of the chip is on the C stack.
lua_free_context ==
    /\ Running
    /\ closing' = TRUE
    /\ UNCHANGED <<list, edge, rc, mark, held, leaked, phase, todo>>

\* JS_FreeContext: contexts[] gives up its reference.
JS_FreeContext ==
    /\ phase = "run" /\ closing /\ held[Context] = 1
    /\ held' = [held EXCEPT ![Context] = 0]
    /\ JS_FreeValues({Context})
    /\ edge' = [x \in Blocks |-> IF x \in Dying({Context}) THEN {} ELSE edge[x]]
    /\ UNCHANGED <<mark, leaked, todo, closing>>

\* JS_FreeRuntime: a last JS_RunGC, when nothing is held any more.
JS_FreeRuntime ==
    /\ phase = "run" /\ closing /\ \A b \in Blocks : held[b] = 0
    /\ phase' = "decref" /\ todo' = On("gc")
    /\ UNCHANGED <<list, edge, rc, mark, held, leaked, closing>>

Next ==
    \/ \E b \in Blocks : \/ add_gc_object(b) \/ JS_DupValue(b)
                         \/ JS_FreeValue(b) \/ Forget(b)
    \/ \E b, c \in Blocks : Store(b, c) \/ Unstore(b, c)
    \/ free_zero_refcount \/ js_trigger_gc
    \/ gc_decref \/ gc_scan \/ gc_scan_restore
    \/ gc_free_cycles \/ gc_free_cycles_end
    \/ lua_free_context \/ JS_FreeContext \/ JS_FreeRuntime

Spec == Init /\ [][Next]_vars

-----------------------------------------------------------------------------
TypeOK ==
    /\ list \in [Blocks -> {"none", "gc", "tmp", "zero"}]
    /\ edge \in [Blocks -> SUBSET Blocks]
    /\ rc \in [Blocks -> Nat] /\ mark \in [Blocks -> {0, 1}]
    /\ held \in [Blocks -> 0 .. MaxRefs] /\ leaked \in [Blocks -> 0 .. MaxLeaks]
    /\ phase \in {"run", "free", "decref", "scan", "restore", "cycles", "freed"}
    /\ todo \subseteq Blocks /\ closing \in BOOLEAN

\* A block that a frame, a listener, contexts[] or a forgotten reference still
\* leads to is never freed: not by the reference counts, not by a collection
\* that starts in the middle of a script, not by lua_free_context.
PinnedKept == \A b \in Pinned : list[b] \in {"gc", "tmp"}

\* No block that is still allocated refers to released memory, at any point of
\* free_zero_refcount or of gc_free_cycles taking a cycle apart.
NoDangling == \A b \in Allocated : edge[b] \subseteq Allocated

\* Between two operations every ref_count is the number of references there
\* are, although each collection takes the counts down and builds them up
\* again; every block is back on gc_obj_list.
CountsExact ==
    phase = "run" =>
      \A b \in Allocated :
        /\ rc[b] = held[b] + leaked[b] + RefsFrom(Allocated, edge, b)
        /\ list[b] = "gc"

\* The assertions in gc_decref_child, gc_decref, gc_scan, free_zero_refcount
\* and at the end of gc_free_cycles hold whenever they are evaluated.
AssertsHold ==
    /\ phase = "decref" =>
         \A p \in todo : mark[p] = 0 /\ \A c \in edge[p] : rc[c] > 0
    /\ phase = "scan" => \A p \in todo : rc[p] > 0
    /\ phase = "free" => \A p \in On("zero") : rc[p] = 0
    /\ phase = "cycles" /\ On("tmp") = {} => On("zero") \subseteq Values

\* What JS_RunGC leaves is exactly what can still be reached from references
\* that are counted, whether anybody still holds them or they were forgotten:
\* no cycle survives a collection.
CollectionExact ==
    [][phase = "cycles" /\ phase' # "cycles" => Allocated' = Pinned']_vars

\* JS_FreeRuntime asserts that no object is left (quickjs.c:1987).  TLC
\* refutes it: a reference js.cpp forgets keeps its object past the last
\* collection.
RuntimeEmpties == phase = "freed" => On("gc") = {}
=============================================================================
