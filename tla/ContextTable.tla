---------------------------- MODULE ContextTable ----------------------------
(***************************************************************************)
(* The table of JavaScript contexts of the native module (js.cpp):         *)
(* contexts[MAX_CONTEXTS], handed to Lua by its index.  contexts[i] and    *)
(* runtimes[i] are always set together (js.cpp:2620-2621) and cleared      *)
(* together (2770-2771), so one cell stands for both.                      *)
(*                                                                         *)
(* A context remembers the entity it was created for (the player himself,  *)
(* when it was created to validate his code), that player, and the script  *)
(* last evaluated in it.  The listeners a script registers are the subject *)
(* of EventDispatch.                                                       *)
(***************************************************************************)
EXTENDS Integers

CONSTANTS Chips,        \* entities of class gmod_wire_jschip
          Props,        \* other entities the tool may be pointed at
          Players,
          Scripts,
          MaxContexts,  \* MAX_CONTEXTS, js.cpp:2
          None          \* nil

ASSUME SizeAssumption == MaxContexts \in Nat \ {0}
ASSUME EntityAssumption == Chips \cap Props = {}
ASSUME NoneAssumption ==
  None \notin Chips \cup Props \cup Players \cup Scripts \cup Int

VARIABLE contexts

Entities == Chips \cup Props
Slots    == 0 .. MaxContexts - 1

NoContext == [used |-> FALSE]

Context == [used : {TRUE}, ent : Entities \cup Players, owner : Players,
            code : Scripts \cup {None}]

ContextsType == contexts \in [Slots -> Context \cup {NoContext}]

(* What lua_create_context builds: no script was evaluated yet.  Faulty: *)
(* its two arguments are read in the wrong order.                        *)
FreshSwapped(e, p) == [used |-> TRUE, ent |-> p, owner |-> e, code |-> None]
Fresh(e, p) == [used |-> TRUE, ent |-> e, owner |-> p, code |-> None]

(* Faulty scan, to test the properties: the test for nullptr is missing. *)
FirstFreeUnchecked(t, i) == \A j \in Slots : i <= j

(* The scan of lua_create_context stops at the first empty slot... *)
FirstFree(t, i) == /\ ~t[i].used
                   /\ \A j \in Slots : j < i => t[j].used

(* ... or falls through to "You've hit the max number of contexts". *)
Full(t) == \A i \in Slots : t[i].used

(* A slot taken by lua_create_context and a slot emptied by             *)
(* lua_free_context, which leaves the table alone when the slot is empty *)
(* already (NoContext is then rewritten by itself).                      *)
JS_CreateContext(t, i, e, p) == [t EXCEPT ![i] = Fresh(e, p)]
JS_FreeContext(t, i) == [t EXCEPT ![i] = NoContext]

(* lua_eval: the script becomes the one evaluated in context i, whether or *)
(* not its evaluation ends in an exception.                                *)
JS_Eval(t, i, s) == [t EXCEPT ![i].code = s]
=============================================================================
