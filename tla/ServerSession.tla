--------------------------- MODULE ServerSession ---------------------------
(***************************************************************************)
(* Contexts over a whole server session: players come and go, scripts      *)
(* write to the chat of the player their context was created for, and at   *)
(* the end the module is closed (gmod13_close).                            *)
(*                                                                         *)
(* A context keeps the entity index of its owner, not the player: indices  *)
(* are the seats of the server, and a player who joins takes a free one.   *)
(* A context created for no player has the index of its own entity.        *)
(* The chat's rate limit is a field of the player entity, and counts here  *)
(* what is left until JSCanPrint.                                          *)
(***************************************************************************)
EXTENDS Integers

CONSTANTS
  Persons,
  Seats,         \* entity indices of players
  MaxContexts,   \* MAX_CONTEXTS, js.cpp:2
  MaxListeners,  \* MAX_LISTENERS, js.cpp:3
  Gap,           \* ticks in the 0.2 seconds of JSChatPrint
  None

ASSUME SessionAssumption ==
  /\ MaxContexts \in Nat \ {0} /\ MaxListeners \in 0 .. MaxContexts /\ Gap \in Nat \ {0}
  /\ None \notin Persons \cup Seats

VARIABLES
  seat,      \* seat[i]: who sits at index i
  canPrint,  \* canPrint[i]: ticks until the JSCanPrint of that player
  since,     \* history: ticks since the last line sent to that player
  contexts,  \* by slot: owner index (None: the entity's own), number of
             \* listeners; None when free;
             \* history: creator if any, and whether he has left since
  runtimes,  \* runtimes[s] is a live runtime
  line,      \* history: the console.log that ran last, and what became of it
  close,     \* the slot gmod13_close has come to: -1 before it runs
  bad        \* history: what JS_FreeValue was given as context, if not the
             \* context of the value

vars == <<seat, canPrint, since, contexts, runtimes, line, close, bad>>

Slots == 0 .. MaxContexts - 1
Context == [owner : Seats \cup {None}, by : Persons \cup {None}, gone : BOOLEAN,
            listeners : 0 .. MaxListeners]
Line == [what : {"none", "sent", "dropped", "throws", "raises"}, to : Persons \cup {None},
         by : Persons \cup {None}, gone : BOOLEAN, since : 0 .. Gap]
NoLine == [what |-> "none", to |-> None, by |-> None, gone |-> FALSE, since |-> Gap]

TypeOK == /\ seat \in [Seats -> Persons \cup {None}]
          /\ canPrint \in [Seats -> 0 .. Gap]
          /\ since \in [Seats -> 0 .. Gap]
          /\ \A s \in Slots : contexts[s] # None => contexts[s] \in Context
          /\ runtimes \in [Slots -> BOOLEAN]
          /\ line \in Line
          /\ close \in -1 .. MaxContexts
          /\ bad \in SUBSET {"null", "freed", "foreign"}

Init == /\ seat = [i \in Seats |-> None]
        /\ canPrint = [i \in Seats |-> 0] /\ since = [i \in Seats |-> Gap]
        /\ contexts = [s \in Slots |-> None]
        /\ runtimes = [s \in Slots |-> FALSE]
        /\ line = NoLine /\ close = -1 /\ bad = {}

Session == close = -1
Closed  == close = MaxContexts

-----------------------------------------------------------------------------
(* Players *)

(* A new player entity has no JSCanPrint yet (external). *)
Join(p, i) == /\ Session
              /\ seat[i] = None /\ \A j \in Seats : seat[j] # p
              /\ seat' = [seat EXCEPT ![i] = p]
              /\ canPrint' = [canPrint EXCEPT ![i] = 0]
              /\ since' = [since EXCEPT ![i] = Gap]
              /\ UNCHANGED <<contexts, runtimes, line, close, bad>>

Quit(i) == /\ Session
           /\ seat[i] # None
           /\ seat' = [seat EXCEPT ![i] = None]
           /\ contexts' = [s \in Slots |->
                IF contexts[s] # None /\ contexts[s].by = seat[i]
                THEN [contexts[s] EXCEPT !.gone = TRUE] ELSE contexts[s]]
           /\ UNCHANGED <<canPrint, since, runtimes, line, close, bad>>

Tick == /\ Session
        /\ canPrint' = [i \in Seats |-> IF canPrint[i] > 0 THEN canPrint[i] - 1 ELSE 0]
        /\ since' = [i \in Seats |-> IF since[i] < Gap THEN since[i] + 1 ELSE Gap]
        /\ UNCHANGED <<seat, contexts, runtimes, line, close, bad>>

-----------------------------------------------------------------------------
(* Contexts *)

(* Who is at an index; no player is at the index of a chip or a prop. *)
At(i) == IF i = None THEN None ELSE seat[i]

(* lua_create_context with the player at index i as owner, or, for None,    *)
(* with no owner: then it takes the index of the entity.                    *)
CreateContext(i, s) ==
  /\ Session
  /\ i \in Seats => seat[i] # None
  /\ contexts[s] = None /\ \A r \in Slots : r < s => contexts[r] # None
  /\ contexts' = [contexts EXCEPT ![s] =
       [owner |-> i, by |-> At(i), gone |-> FALSE, listeners |-> 0]]
  /\ runtimes' = [runtimes EXCEPT ![s] = TRUE]
  /\ UNCHANGED <<seat, canPrint, since, line, close, bad>>

FreeContext(s) == /\ Session
                  /\ contexts[s] # None
                  /\ contexts' = [contexts EXCEPT ![s] = None]
                  /\ runtimes' = [runtimes EXCEPT ![s] = FALSE]
                  /\ UNCHANGED <<seat, canPrint, since, line, close, bad>>

(* Faulty: a full table is not noticed. *)
ListenUnbounded(s) ==
  /\ Session
  /\ contexts[s] # None
  /\ contexts' = [contexts EXCEPT ![s].listeners = @ + 1]
  /\ UNCHANGED <<seat, canPrint, since, runtimes, line, close, bad>>
(* event_on with a new event. *)
Listen(s) == /\ Session
             /\ contexts[s] # None /\ contexts[s].listeners < MaxListeners
             /\ contexts' = [contexts EXCEPT ![s].listeners = @ + 1]
             /\ UNCHANGED <<seat, canPrint, since, runtimes, line, close, bad>>

(* Faulty: the limit is set to the present. *)
JSChatPrintUnlimited(i) == canPrint[i] = 0 /\ UNCHANGED canPrint
(* JSChatPrint sends the line and sets JSCanPrint, unless it is too early. *)
JSChatPrint(i) == canPrint[i] = 0 /\ canPrint' = [canPrint EXCEPT ![i] = Gap]

(* Faulty: any player on the server will do. *)
AddresseeAny(c) == IF \E i \in Seats : seat[i] # None
                   THEN CHOOSE i \in Seats : seat[i] # None ELSE c.owner
(* Entity(ownerIndex). *)
Addressee(c) == c.owner

(* console_log: who is at the owner's index now gets the line.  An index    *)
(* with nothing at it makes it throw; a chip or prop there is no player,    *)
(* and JSChatPrint raises a Lua error (external).                           *)
Log(s, what) ==
  LET c == contexts[s]
      i == Addressee(c)
  IN  /\ Session
      /\ c # None
      /\ line' = [what |-> what, to |-> At(i), by |-> c.by, gone |-> c.gone,
                  since |-> IF i = None THEN Gap ELSE since[i]]
      /\ \/ what = "throws" /\ At(i) = None /\ UNCHANGED <<canPrint, since>>
         \/ what = "raises" /\ i = None /\ UNCHANGED <<canPrint, since>>
         \/ /\ what = "sent" /\ At(i) # None
            /\ JSChatPrint(i)
            /\ since' = [since EXCEPT ![i] = 0]
         \/ what = "dropped" /\ At(i) # None /\ canPrint[i] > 0 /\ UNCHANGED <<canPrint, since>>
      /\ UNCHANGED <<seat, contexts, runtimes, close, bad>>

-----------------------------------------------------------------------------
(* gmod13_close.  The loop over the listeners has its own i, which hides    *)
(* the slot: the callback of listener j is freed in contexts[j].  Freed     *)
(* contexts stay in the table.  A context is only looked at when the        *)
(* callback's last reference goes (sole).                                   *)

BeginClose == /\ Session
              /\ close' = 0
              /\ UNCHANGED <<seat, canPrint, since, contexts, runtimes, line, bad>>

(* What contexts[j] is while the loop is at slot s. *)
Seen(s, j) == CASE contexts[j] = None -> "null"
                [] j < s -> "freed"
                [] j = s -> "own"
                [] OTHER -> "foreign"

(* Faulty: the test for nullptr is missing. *)
ListenersUnchecked(s) == IF contexts[s] = None THEN {1} ELSE 0 .. contexts[s].listeners - 1
ListenersAt(s) == IF contexts[s] = None THEN {} ELSE 0 .. contexts[s].listeners - 1

Uses(s, sole) == {Seen(s, j) : j \in ListenersAt(s) \cap sole} \ {"own"}

CloseContext(sole) ==
  /\ close \in Slots
  /\ bad' = bad \cup Uses(close, sole)
  /\ close' = close + 1
  /\ runtimes' = IF close + 1 \in Slots THEN runtimes ELSE [s \in Slots |-> FALSE]
  /\ UNCHANGED <<seat, canPrint, since, contexts, line>>

Next == \/ \E p \in Persons, i \in Seats : Join(p, i)
        \/ \E i \in Seats : Quit(i)
        \/ Tick
        \/ \E i \in Seats \cup {None}, s \in Slots : CreateContext(i, s)
        \/ \E s \in Slots : FreeContext(s) \/ Listen(s)
        \/ \E s \in Slots, what \in {"sent", "dropped", "throws", "raises"} : Log(s, what)
        \/ BeginClose
        \/ \E sole \in SUBSET (0 .. MaxListeners - 1) : CloseContext(sole)

Spec == Init /\ [][Next]_vars

-----------------------------------------------------------------------------
(* Properties *)

(* As long as the player a context was created for stays on the server,     *)
(* console.log of its script writes to him and to nobody else, and never    *)
(* fails; somebody else reads his lines only after he has left, because an  *)
(* index is used again.  A script of no player writes to nobody.            *)
LinesReachCreator ==
  line.what # "none" /\ ~line.gone =>
    /\ line.to = line.by
    /\ line.by # None => line.what \in {"sent", "dropped"}

(* However many chips print to a player, the lines sent to him are Gap      *)
(* ticks apart, and a line is dropped only when another was sent within Gap. *)
LinesSpaced == /\ line.what = "sent" => line.since = Gap
               /\ line.what = "dropped" => line.since < Gap

(* Closing the module leaves no runtime, and is sound when no context has a *)
(* listener but, in slot 0, one.  Otherwise a callback is freed in a        *)
(* context that is gone, absent or another's.                               *)
CloseSound ==
  /\ bad # {} => \E s \in Slots : /\ contexts[s] # None
                                  /\ contexts[s].listeners > (IF s = 0 THEN 1 ELSE 0)
  /\ Closed => \A s \in Slots : ~runtimes[s]
=============================================================================
