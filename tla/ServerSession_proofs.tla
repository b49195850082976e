------------------------ MODULE ServerSession_proofs ------------------------
(***************************************************************************)
(* Proofs about ServerSession, for any number of players, seats, slots and *)
(* listeners and any gap between lines.                                    *)
(***************************************************************************)
EXTENDS ServerSession, TLAPS

(* The parts of the inductive invariant.  A context whose creator is still  *)
(* on the server has him at its owner's index, and one without a creator    *)
(* has no player's index; what is left of the gap and  *)
(* what has passed of it add up to the gap; and gmod13_close begins with    *)
(* nothing misused and ends with no runtime.                                *)
Typed   == /\ TypeOK
           /\ contexts \in [Slots -> Context \cup {None}]
Seated  == \A s \in Slots : contexts[s] # None =>
             /\ contexts[s].owner = None <=> contexts[s].by = None
             /\ ~contexts[s].gone => At(contexts[s].owner) = contexts[s].by
Limited == \A i \in Seats : canPrint[i] + since[i] = Gap
Unspoilt == Session => bad = {}

IInv == /\ Typed
        /\ Seated
        /\ Limited
        /\ Unspoilt
        /\ LinesReachCreator
        /\ LinesSpaced
        /\ CloseSound

(* A session begins with empty seats and an empty table. *)
LEMMA InitIInv == Init => IInv
<1> SUFFICES ASSUME Init PROVE IInv
  OBVIOUS
<1>1. Gap \in Nat /\ MaxContexts \in Nat \ {0} /\ NoLine \in Line
  BY SessionAssumption DEF NoLine, Line
<1>2. Typed
  BY <1>1 DEF Init, Typed, TypeOK, Slots
<1>3. Limited
  BY <1>1 DEF Init, Limited
<1>4. LinesReachCreator /\ LinesSpaced /\ CloseSound
  BY <1>1 DEF Init, LinesReachCreator, LinesSpaced, CloseSound, NoLine, Closed
<1> QED
  BY <1>2, <1>3, <1>4 DEF IInv, Init, Seated, Unspoilt

(* Players: a seat is given to a newcomer only when it is empty, and a      *)
(* player who leaves is marked in the contexts created for him.             *)
LEMMA PlayerStep ==
  ASSUME IInv,
         \/ \E p \in Persons, i \in Seats : Join(p, i)
         \/ \E i \in Seats : Quit(i)
         \/ Tick
  PROVE  IInv'
<1>0. Gap \in Nat \ {0} /\ None \notin Persons
  BY SessionAssumption
<1>1. ASSUME NEW p \in Persons, NEW i \in Seats, Join(p, i) PROVE IInv'
  <2>1. Typed'
    BY <1>0, <1>1 DEF IInv, Typed, TypeOK, Join
  <2>2. Seated'
    BY <1>0, <1>1 DEF IInv, Typed, TypeOK, Seated, At, Join, Context
  <2>3. Limited'
    BY <1>0, <1>1 DEF IInv, Typed, TypeOK, Limited, Join
  <2> QED BY <1>1, <2>1, <2>2, <2>3 DEF IInv, Join, Unspoilt, Session, Closed,
             LinesReachCreator, LinesSpaced, CloseSound
<1>2. ASSUME NEW i \in Seats, Quit(i) PROVE IInv'
  <2>0. ASSUME NEW s \in Slots
        PROVE  /\ contexts'[s] \in Context \cup {None}
               /\ contexts'[s] # None => /\ contexts[s] # None
                                          /\ contexts'[s].owner = contexts[s].owner
                                          /\ contexts'[s].by = contexts[s].by
               /\ contexts'[s] # None /\ ~contexts'[s].gone =>
                    /\ contexts[s] # None /\ ~contexts[s].gone
                    /\ contexts'[s] = contexts[s] /\ contexts[s].by # seat[i]
    <3>1. contexts[s] \in Context \cup {None}
      BY DEF IInv, Typed
    <3>2. contexts'[s] = IF contexts[s] # None /\ contexts[s].by = seat[i]
                         THEN [contexts[s] EXCEPT !.gone = TRUE] ELSE contexts[s]
      BY <1>2 DEF Quit
    <3>3. CASE contexts[s] # None /\ contexts[s].by = seat[i]
      <4>1. contexts'[s] = [contexts[s] EXCEPT !.gone = TRUE] /\ contexts[s] \in Context
        BY <3>1, <3>2, <3>3
      <4> QED BY <3>3, <4>1 DEF Context
    <3>4. CASE ~(contexts[s] # None /\ contexts[s].by = seat[i])
      BY <3>1, <3>2, <3>4
    <3> QED BY <3>3, <3>4
  <2>1. Typed'
    <3>1. contexts' \in [Slots -> Context \cup {None}]
      BY <1>2, <2>0 DEF Quit
    <3> QED BY <1>2, <3>1 DEF IInv, Typed, TypeOK, Quit
  <2>2. Seated'
    <3>1. \A s \in Slots : contexts[s] \in Context \cup {None}
      BY DEF IInv, Typed
    <3> QED BY <1>0, <1>2, <2>0, <3>1 DEF IInv, Typed, TypeOK, Seated, At, Quit, Context
  <2> QED BY <1>2, <2>1, <2>2, <1>0, SessionAssumption DEF IInv, Quit, Limited, Unspoilt, Session, Closed,
             LinesReachCreator, LinesSpaced, CloseSound
<1>3. CASE Tick
  <2>1. Typed'
    BY <1>0, <1>3 DEF IInv, Typed, TypeOK, Tick
  <2>2. Limited'
    BY <1>0, <1>3 DEF IInv, Typed, TypeOK, Limited, Tick
  <2> QED BY <1>3, <2>1, <2>2 DEF IInv, Tick, Seated, At, Unspoilt, Session, Closed,
             LinesReachCreator, LinesSpaced, CloseSound
<1> QED
  BY <1>1, <1>2, <1>3

(* Contexts come, go and register listeners while the session lasts. *)
LEMMA ContextStep ==
  ASSUME IInv,
         \/ \E i \in Seats \cup {None}, s \in Slots : CreateContext(i, s)
         \/ \E s \in Slots : FreeContext(s) \/ Listen(s)
  PROVE  IInv'
<1>0. /\ MaxListeners \in Nat /\ MaxContexts \in Nat \ {0}
      /\ None \notin Persons
      /\ close = -1 => ~Closed
  BY SessionAssumption DEF Closed
<1>1. ASSUME NEW i \in Seats \cup {None}, NEW s \in Slots, CreateContext(i, s) PROVE IInv'
  <2> DEFINE new == [owner |-> i, by |-> At(i), gone |-> FALSE, listeners |-> 0]
  <2>0. new \in Context /\ contexts' = [contexts EXCEPT ![s] = new]
    BY <1>0, <1>1 DEF CreateContext, At, Context, IInv, Typed, TypeOK
  <2>1. Typed'
    <3> HIDE DEF new
    <3>1. contexts' \in [Slots -> Context \cup {None}]
      BY <2>0 DEF IInv, Typed
    <3> QED BY <1>1, <3>1 DEF IInv, Typed, TypeOK, CreateContext
  <2>2. Seated'
    BY <1>1, <2>0 DEF IInv, Typed, Seated, At, CreateContext
  <2> QED BY <1>0, <1>1, <2>1, <2>2 DEF IInv, CreateContext, Limited, Unspoilt, Session, Closed,
             LinesReachCreator, LinesSpaced, CloseSound
<1>2. ASSUME NEW s \in Slots, FreeContext(s) PROVE IInv'
  <2>1. Typed'
    BY <1>2 DEF IInv, Typed, TypeOK, FreeContext
  <2>2. Seated'
    BY <1>2 DEF IInv, Typed, Seated, At, FreeContext
  <2> QED BY <1>0, <1>2, <2>1, <2>2 DEF IInv, FreeContext, Limited, Unspoilt, Session, Closed,
             LinesReachCreator, LinesSpaced, CloseSound
<1>3. ASSUME NEW s \in Slots, Listen(s) PROVE IInv'
  <2> DEFINE c == contexts[s]
             new == [c EXCEPT !.listeners = @ + 1]
  <2>0. /\ c \in Context /\ new \in Context /\ contexts' = [contexts EXCEPT ![s] = new]
        /\ new.owner = c.owner /\ new.by = c.by /\ new.gone = c.gone
    <3>1. c \in Context /\ c.listeners < MaxListeners
      BY <1>3 DEF Listen, IInv, Typed
    <3> QED BY <1>0, <1>3, <3>1 DEF Listen, Context
  <2>1. Typed'
    <3> HIDE DEF new
    <3>1. contexts' \in [Slots -> Context \cup {None}]
      BY <2>0 DEF IInv, Typed
    <3> QED BY <1>3, <3>1 DEF IInv, Typed, TypeOK, Listen
  <2>2. Seated'
    <3> HIDE DEF new
    <3> QED BY <1>3, <2>0 DEF IInv, Typed, Seated, At, Listen
  <2> QED BY <1>0, <1>3, <2>1, <2>2 DEF IInv, Listen, Limited, Unspoilt, Session, Closed,
             LinesReachCreator, LinesSpaced, CloseSound
<1> QED
  BY <1>1, <1>2, <1>3

(* console.log: the line goes to the owner's index, where the creator still *)
(* sits unless he has left, and is sent exactly when the gap has passed.    *)
LEMMA LogStep ==
  ASSUME IInv, NEW s \in Slots, NEW what \in {"sent", "dropped", "throws", "raises"}, Log(s, what)
  PROVE  IInv'
<1> DEFINE c == contexts[s]
           i == c.owner
           gap == IF i = None THEN Gap ELSE since[i]
<1>0. /\ Gap \in Nat \ {0} /\ None \notin Persons \cup Seats
      /\ c \in Context /\ i \in Seats \cup {None} /\ c.by \in Persons \cup {None}
      /\ c.gone \in BOOLEAN
  BY SessionAssumption DEF Log, IInv, Typed, Context
<1>1. /\ line' = [what |-> what, to |-> At(i), by |-> c.by, gone |-> c.gone, since |-> gap]
      /\ seat' = seat /\ contexts' = contexts /\ runtimes' = runtimes
      /\ close' = close /\ bad' = bad
  BY DEF Log, Addressee
<1>2. \/ what = "throws" /\ At(i) = None /\ UNCHANGED <<canPrint, since>>
      \/ what = "raises" /\ i = None /\ UNCHANGED <<canPrint, since>>
      \/ /\ what = "sent" /\ At(i) # None /\ canPrint[i] = 0
         /\ canPrint' = [canPrint EXCEPT ![i] = Gap] /\ since' = [since EXCEPT ![i] = 0]
      \/ what = "dropped" /\ At(i) # None /\ canPrint[i] > 0 /\ UNCHANGED <<canPrint, since>>
  BY DEF Log, Addressee, JSChatPrint
<1>3. i \in Seats => /\ canPrint[i] + since[i] = Gap /\ canPrint[i] \in 0 .. Gap
                      /\ since[i] \in 0 .. Gap /\ gap = since[i]
  BY <1>0 DEF IInv, Limited, Typed, TypeOK
<1>4. ~c.gone => At(i) = c.by
  BY <1>0 DEF IInv, Seated, Log
<1>5. At(i) \in Persons \cup {None} /\ (At(i) # None => i \in Seats) /\ gap \in 0 .. Gap
      /\ (i = None => At(i) = None)
  BY <1>0, <1>3 DEF At, IInv, Typed, TypeOK
<1> HIDE DEF c, i, gap
<1>6. line' \in Line
  BY <1>0, <1>1, <1>5 DEF Line
<1>7. canPrint' \in [Seats -> 0 .. Gap] /\ since' \in [Seats -> 0 .. Gap]
  BY <1>0, <1>2, <1>5 DEF IInv, Typed, TypeOK
<1>8. Typed'
  BY <1>1, <1>6, <1>7 DEF IInv, Typed, TypeOK
<1>9. Limited'
  BY <1>0, <1>2, <1>5 DEF IInv, Typed, TypeOK, Limited
<1>10. LinesReachCreator'
  BY <1>0, <1>1, <1>2, <1>4, <1>5 DEF LinesReachCreator
<1>11. LinesSpaced'
  BY <1>0, <1>1, <1>2, <1>3, <1>5 DEF LinesSpaced
<1>12. Seated'
  BY <1>1 DEF IInv, Seated, At
<1> QED
  BY <1>1, <1>8, <1>9, <1>10, <1>11, <1>12 DEF IInv, Unspoilt, Session, Closed, CloseSound

(* gmod13_close, slot by slot: a callback is freed in another context only  *)
(* where a context has a listener beyond the one of its own index.          *)
LEMMA CloseStep ==
  ASSUME IInv,
         \/ BeginClose
         \/ \E sole \in SUBSET (0 .. MaxListeners - 1) : CloseContext(sole)
  PROVE  IInv'
<1>0. MaxContexts \in Nat \ {0} /\ MaxListeners \in Nat
  BY SessionAssumption
<1>1. CASE BeginClose
  <2>1. /\ Session /\ close' = 0
        /\ UNCHANGED <<seat, contexts, runtimes, canPrint, since, line, bad>>
    BY <1>1 DEF BeginClose
  <2>2. Typed'
    BY <1>0, <2>1 DEF IInv, Typed, TypeOK
  <2>3. Seated' /\ Limited'
    BY <2>1 DEF IInv, Seated, At, Limited
  <2>4. LinesReachCreator' /\ LinesSpaced'
    BY <2>1 DEF IInv, LinesReachCreator, LinesSpaced
  <2>5. Unspoilt' /\ CloseSound'
    BY <1>0, <2>1 DEF IInv, Unspoilt, Session, Closed, CloseSound, Slots
  <2> QED
    BY <2>2, <2>3, <2>4, <2>5 DEF IInv
<1>2. ASSUME NEW sole \in SUBSET (0 .. MaxListeners - 1), CloseContext(sole) PROVE IInv'
  <2>0. close \in Slots /\ close' = close + 1 /\ close + 1 \in 1 .. MaxContexts
    BY <1>0, <1>2 DEF CloseContext, Slots
  <2>1. \A j \in ListenersAt(close) : Seen(close, j) \in {"null", "freed", "foreign", "own"}
    BY DEF Seen
  <2>2. Uses(close, sole) \subseteq {"null", "freed", "foreign"}
    BY <2>1 DEF Uses
  <2>3. Typed'
    <3>1. close' \in -1 .. MaxContexts
      BY <1>0, <2>0
    <3>2. bad' \in SUBSET {"null", "freed", "foreign"}
      BY <1>2, <2>2 DEF CloseContext, IInv, Typed, TypeOK
    <3>3. runtimes' \in [Slots -> BOOLEAN]
      BY <1>2 DEF CloseContext, IInv, Typed, TypeOK
    <3> QED BY <1>2, <3>1, <3>2, <3>3 DEF CloseContext, IInv, Typed, TypeOK
  <2>4. ASSUME Uses(close, sole) # {}
        PROVE  contexts[close] # None /\ contexts[close].listeners > (IF close = 0 THEN 1 ELSE 0)
    <3>1. PICK j \in ListenersAt(close) : Seen(close, j) # "own"
      BY <2>4 DEF Uses
    <3>2. contexts[close] # None /\ j \in 0 .. contexts[close].listeners - 1
      BY <3>1 DEF ListenersAt
    <3>3. contexts[close].listeners \in Nat
      BY <1>0, <2>0, <3>2 DEF IInv, Typed, Context
    <3>4. j # close
      BY <3>1, <3>2, <2>0 DEF Seen, Slots
    <3> QED BY <2>0, <3>2, <3>3, <3>4 DEF Slots
  <2>5. (bad # {})' => \E s \in Slots : /\ contexts[s] # None
                                        /\ contexts[s].listeners > (IF s = 0 THEN 1 ELSE 0)
    BY <1>2, <2>0, <2>4 DEF CloseContext, IInv, CloseSound
  <2>6. Closed' => \A s \in Slots : ~runtimes'[s]
    BY <1>0, <1>2, <2>0 DEF CloseContext, Closed, Slots
  <2>7. CloseSound'
    BY <1>2, <2>5, <2>6 DEF CloseSound, CloseContext
  <2>8. ~Session'
    BY <2>0, <1>0 DEF Session
  <2> QED BY <1>2, <2>3, <2>7, <2>8 DEF CloseContext, IInv, Seated, At, Limited, Unspoilt,
             LinesReachCreator, LinesSpaced
<1> QED
  BY <1>1, <1>2

(* Every step of the session preserves the inductive invariant. *)
LEMMA NextIInv == IInv /\ [Next]_vars => IInv'
<1> SUFFICES ASSUME IInv, [Next]_vars PROVE IInv'
  OBVIOUS
<1>1. CASE UNCHANGED vars
  BY <1>1 DEF vars, IInv, Typed, TypeOK, Seated, At, Limited, Unspoilt, Session, Closed,
              LinesReachCreator, LinesSpaced, CloseSound
<1> QED
  BY <1>1, PlayerStep, ContextStep, LogStep, CloseStep DEF Next

(* The inductive invariant holds throughout every session. *)
THEOREM SessionInvariance == Spec => []IInv
BY InitIInv, NextIInv, PTL DEF Spec

(* Players, seats, contexts, runtimes and lines keep their types. *)
THEOREM SessionTypeCorrect == Spec => []TypeOK
<1>1. IInv => TypeOK
  BY DEF IInv, Typed
<1> QED BY <1>1, SessionInvariance, PTL

(* console.log of a script reaches the player its context was created for,  *)
(* and nobody else, as long as he stays on the server; a script of nobody   *)
(* writes to nobody.                                                        *)
THEOREM LinesGoToCreator == Spec => []LinesReachCreator
<1>1. IInv => LinesReachCreator
  BY DEF IInv
<1> QED BY <1>1, SessionInvariance, PTL

(* JSChatPrint spaces the lines of all chips together, and drops only what  *)
(* comes too early.                                                         *)
THEOREM LinesAreSpaced == Spec => []LinesSpaced
<1>1. IInv => LinesSpaced
  BY DEF IInv
<1> QED BY <1>1, SessionInvariance, PTL

(* gmod13_close leaves no runtime, and uses a wrong context only if some    *)
(* context has more listeners than the one its own index can stand for.     *)
THEOREM CloseIsSound == Spec => []CloseSound
<1>1. IInv => CloseSound
  BY DEF IInv
<1> QED BY <1>1, SessionInvariance, PTL
=============================================================================
