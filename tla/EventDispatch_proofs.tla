------------------------ MODULE EventDispatch_proofs ------------------------
(***************************************************************************)
(* Proofs about EventDispatch, for any chips, wiring, events and functions *)
(* and any limits on operations, listeners, triggers and tries.            *)
(***************************************************************************)
EXTENDS EventDispatch, SequenceTheorems, TLAPS

(* The parts of the inductive invariant.  Only the execution at the bottom  *)
(* of the stack can be an evaluation: everything above it is a listener.    *)
(* So an exception in the code of a paste ends the last execution, and the  *)
(* context a paste hands over at its normal end has not failed.             *)
Typed   == TypeOK /\ listeners \in [Contexts -> Seq(Listener)]
Rooted  == \A k \in DOMAIN stack : k > 1 => stack[k].how = "event"
Untried == ~failed[Pasted]

IInv == /\ Typed
        /\ ListenersDistinct
        /\ Rooted
        /\ Untried
        /\ FailureStops

(* The innermost execution and those below it. *)
LEMMA TopFacts ==
  ASSUME NEW S, NEW q \in Seq(S), q # <<>>
  PROVE  /\ Last(q) \in S /\ Front(q) \in Seq(S)
         /\ Len(q) \in Nat \ {0} /\ Last(q) = q[Len(q)]
         /\ Len(Front(q)) = Len(q) - 1
         /\ \A k \in 1 .. Len(q) - 1 : Front(q)[k] = q[k]
<1>1. Len(q) \in Nat \ {0} /\ \A k \in 1 .. Len(q) : q[k] \in S
  BY EmptySeq, ElementOfSeq
<1>2. Last(q) = q[Len(q)] /\ Last(q) \in S
  BY <1>1 DEF Last
<1>3. /\ SubSeq(q, 1, Len(q) - 1) \in Seq(S)
      /\ Len(SubSeq(q, 1, Len(q) - 1)) = Len(q) - 1
      /\ \A k \in 1 .. Len(q) - 1 : SubSeq(q, 1, Len(q) - 1)[k] = q[k]
  BY <1>1
<1> QED
  BY <1>1, <1>2, <1>3 DEF Front

(* The limits, as numbers. *)
LEMMA Limits ==
  /\ OpLimit \in Nat /\ MaxListeners \in Nat /\ TriggerLimit \in Nat /\ MaxTries \in Nat
  /\ OpCap \in Nat /\ OpLimit < OpCap
  /\ \A c \in Chips : Wire[c] \in Chips
BY DispatchAssumption DEF OpCap

(* A context of the chips or the one of a paste. *)
LEMMA ContextFacts ==
  /\ Chips \subseteq Contexts /\ Pasted \in Contexts /\ Pasted \notin Chips
  /\ \A fr \in Frame : fr.chip \in Chips /\ Ctx(fr) \in Contexts
  /\ \A fr \in Frame : fr.how # "dupe" => Ctx(fr) = fr.chip
  /\ \A fr \in Frame : fr.how = "dupe" => Ctx(fr) = Pasted
BY DispatchAssumption DEF Contexts, Ctx, Frame

(* A listener starts, above whatever runs. *)
LEMMA PushStep ==
  ASSUME IInv, NEW d \in Chips, NEW i \in DOMAIN listeners[d],
         Push(d, "event", listeners[d][i].callback)
  PROVE  stack' \in Seq(Frame) /\ Rooted'
<1> DEFINE fr == [chip |-> d, how |-> "event", callback |-> listeners[d][i].callback,
                  tries |-> MaxTries, builtin |-> FALSE]
<1>1. stack \in Seq(Frame) /\ stack' = Append(stack, fr)
  BY DEF IInv, Typed, TypeOK, Push
<1>2. listeners[d][i] \in Listener
  <2>1. listeners[d] \in Seq(Listener)
    BY ContextFacts DEF IInv, Typed
  <2> QED BY <2>1
<1>3. fr \in Frame /\ fr.how = "event"
  BY <1>2, Limits DEF Frame, Listener
<1> HIDE DEF fr
<1>4. /\ stack' \in Seq(Frame) /\ Len(stack') = Len(stack) + 1 /\ Len(stack) \in Nat
      /\ \A k \in 1 .. Len(stack) : stack'[k] = stack[k]
      /\ stack'[Len(stack) + 1] = fr
  BY <1>1, <1>3
<1>5. DOMAIN stack = 1 .. Len(stack) /\ DOMAIN stack' = 1 .. Len(stack')
  BY <1>1, <1>4
<1>6. Rooted'
  BY <1>3, <1>4, <1>5 DEF Rooted, IInv
<1> QED
  BY <1>4, <1>6

(* The executions under the innermost one. *)
LEMMA BelowFacts ==
  ASSUME IInv, ~Idle
  PROVE  /\ stack \in Seq(Frame) /\ stack # <<>>
         /\ Top \in Frame /\ Below \in Seq(Frame)
         /\ Len(stack) \in Nat \ {0} /\ Top = stack[Len(stack)]
         /\ Len(Below) = Len(stack) - 1
         /\ \A k \in 1 .. Len(stack) - 1 : Below[k] = stack[k]
<1>1. stack \in Seq(Frame) /\ stack # <<>>
  BY DEF IInv, Typed, TypeOK, Idle
<1> QED
  BY <1>1, TopFacts DEF Top, Below

(* The innermost execution ends. *)
LEMMA PopStep ==
  ASSUME IInv, ~Idle, stack' = Below
  PROVE  stack' \in Seq(Frame) /\ Rooted'
<1>1. /\ stack' \in Seq(Frame) /\ Len(stack) \in Nat \ {0} /\ Len(stack') = Len(stack) - 1
      /\ \A k \in 1 .. Len(stack) - 1 : stack'[k] = stack[k]
      /\ stack \in Seq(Frame)
  BY BelowFacts
<1>2. DOMAIN stack = 1 .. Len(stack) /\ DOMAIN stack' = 1 .. Len(stack) - 1
  BY <1>1, LenProperties
<1> QED
  BY <1>1, <1>2 DEF Rooted, IInv

(* The innermost execution goes on in another state. *)
LEMMA TopStep ==
  ASSUME IInv, ~Idle, NEW fr \in Frame, fr.how = Top.how, stack' = Append(Below, fr)
  PROVE  stack' \in Seq(Frame) /\ Rooted'
<1>1. stack \in Seq(Frame) /\ stack # <<>>
  BY BelowFacts
<1>2. /\ Below \in Seq(Frame)
      /\ Len(stack) \in Nat \ {0} /\ Top = stack[Len(stack)]
      /\ Len(Below) = Len(stack) - 1
      /\ \A k \in 1 .. Len(stack) - 1 : Below[k] = stack[k]
  BY BelowFacts
<1>3. /\ Append(Below, fr) \in Seq(Frame)
      /\ Len(Append(Below, fr)) = Len(Below) + 1
      /\ \A k \in 1 .. Len(Below) : Append(Below, fr)[k] = Below[k]
      /\ Append(Below, fr)[Len(Below) + 1] = fr
  BY <1>2, AppendProperties
<1>4. /\ DOMAIN stack = 1 .. Len(stack) /\ DOMAIN stack' = 1 .. Len(stack)
      /\ \A k \in 1 .. Len(stack) : stack'[k].how = stack[k].how
  BY <1>1, <1>2, <1>3, LenProperties
<1>5. Rooted'
  BY <1>4 DEF Rooted, IInv
<1> QED
  BY <1>3, <1>5

(* Executions end: the ones that stay keep their places, and the tables     *)
(* that are kept are sound.                                                 *)
LEMMA LeaveStep ==
  ASSUME IInv, ~Idle, NEW rest \in {<<>>, Below},
         NEW table \in [Contexts -> Seq(Listener)],
         NEW refs \in [Contexts -> SUBSET Funcs],
         NEW counts \in [Contexts -> 0 .. OpCap],
         NEW failures \in [Contexts -> BOOLEAN],
         Leave(rest, table, refs, counts, failures),
         run' \in [Chips -> BOOLEAN],
         \A x \in Contexts :
           /\ Len(table[x]) <= MaxListeners
           /\ \A i, j \in DOMAIN table[x] : table[x][i].event = table[x][j].event => i = j,
         rest # <<>> => ~failures[Pasted],
         \A c \in Chips : failures[c] => ~run'[c]
  PROVE  IInv'
<1>1. /\ stack' = rest
      /\ listeners' = [table EXCEPT ![Pasted] = IF rest = <<>> THEN <<>> ELSE table[Pasted]]
      /\ held' = [refs EXCEPT ![Pasted] = IF rest = <<>> THEN {} ELSE refs[Pasted]]
      /\ ops' = [counts EXCEPT ![Pasted] = IF rest = <<>> THEN 0 ELSE counts[Pasted]]
      /\ failed' = [failures EXCEPT ![Pasted] = IF rest = <<>> THEN FALSE ELSE failures[Pasted]]
      /\ triggers' = triggers
  BY DEF Leave, Left
<1>2. stack' \in Seq(Frame) /\ Rooted'
  <2>1. CASE rest = <<>>
    BY <1>1, <2>1 DEF Rooted
  <2>2. CASE rest = Below
    BY <1>1, <2>2, PopStep
  <2> QED BY <2>1, <2>2
<1>3. /\ listeners' \in [Contexts -> Seq(Listener)]
      /\ \A x \in Contexts : listeners'[x] = table[x] \/ listeners'[x] = <<>>
  BY <1>1, ContextFacts
<1>4. /\ held' \in [Contexts -> SUBSET Funcs] /\ ops' \in [Contexts -> 0 .. OpCap]
      /\ failed' \in [Contexts -> BOOLEAN]
  <2>1. held' \in [Contexts -> SUBSET Funcs]
    BY <1>1, ContextFacts
  <2>2. ops' \in [Contexts -> 0 .. OpCap]
    BY <1>1, ContextFacts, Limits
  <2>3. failed' \in [Contexts -> BOOLEAN]
    BY <1>1, ContextFacts
  <2> QED BY <2>1, <2>2, <2>3
<1>5. Typed'
  BY <1>1, <1>2, <1>3, <1>4 DEF IInv, Typed, TypeOK
<1>6. ListenersDistinct'
  BY <1>3, Limits DEF ListenersDistinct
<1>7. Untried' /\ FailureStops'
  <2>1. ~failed'[Pasted] /\ \A c \in Chips : failed'[c] = failures[c]
    BY <1>1, ContextFacts
  <2> QED BY <2>1 DEF Untried, FailureStops
<1> QED
  BY <1>2, <1>5, <1>6, <1>7 DEF IInv

(* The beginning: no chip runs and nothing is under way. *)
LEMMA InitIInv == Init => IInv
<1> SUFFICES ASSUME Init PROVE IInv
  OBVIOUS
<1>1. Typed
  BY Limits DEF Init, Typed, TypeOK
<1>2. ListenersDistinct
  BY Limits DEF Init, ListenersDistinct
<1> QED
  BY <1>1, <1>2, ContextFacts DEF Init, IInv, Rooted, Untried, FailureStops

(* A script that ends the process leaves no more than a beginning. *)
LEMMA OnNullStep == ASSUME OnNull PROVE IInv'
<1>1. Typed'
  BY Limits DEF OnNull, Typed, TypeOK
<1>2. ListenersDistinct'
  BY Limits DEF OnNull, ListenersDistinct
<1> QED
  BY <1>1, <1>2, ContextFacts DEF OnNull, IInv, Rooted, Untried, FailureStops

(* Executions the game starts, and the replacement of a context. *)
LEMMA GameStep ==
  ASSUME IInv, NEW c \in Chips,
         Think(c) \/ EvalUpload(c) \/ EvalDupe(c) \/ Replace(c)
  PROVE  IInv'
<1>0. /\ ops' \in [Contexts -> 0 .. OpCap]
      /\ triggers' \in [Chips -> 0 .. TriggerLimit]
      /\ c \in Contexts /\ Pasted \in Contexts /\ c # Pasted
  <2>1. c \in Contexts /\ Pasted \in Contexts /\ c # Pasted
    BY ContextFacts
  <2>2. ops' = [ops EXCEPT ![c] = 0] \/ ops' = [ops EXCEPT ![Pasted] = 0]
    BY DEF Think, EvalUpload, EvalDupe, Replace, Emit, ResetOps
  <2>3. ops' \in [Contexts -> 0 .. OpCap]
    <3>1. ops \in [Contexts -> 0 .. OpCap]
      BY DEF IInv, Typed, TypeOK
    <3>2. 0 \in 0 .. OpCap
      BY Limits
    <3> QED BY <2>1, <2>2, <3>1, <3>2
  <2>4. triggers' = triggers \/ triggers' = [d \in Chips |-> TriggerLimit]
    BY DEF Think, EvalUpload, EvalDupe, Replace
  <2>5. triggers' \in [Chips -> 0 .. TriggerLimit]
    BY <2>4, Limits DEF IInv, Typed, TypeOK
  <2> QED BY <2>1, <2>3, <2>5
<1>1. CASE Think(c)
  <2>1. PICK i \in DOMAIN listeners[c] : Push(c, "event", listeners[c][i].callback)
    BY <1>1 DEF Think, Emit, Registered
  <2>2. UNCHANGED <<run, listeners, held, failed>>
    BY <1>1 DEF Think, Emit
  <2>3. stack' \in Seq(Frame) /\ Rooted'
    BY <2>1, PushStep
  <2> QED BY <1>0, <2>2, <2>3 DEF IInv, Typed, TypeOK, ListenersDistinct, Untried, FailureStops
<1>2. ASSUME NEW how \in {"upload", "dupe"}, Idle, Push(c, how, None)
      PROVE  stack' \in Seq(Frame) /\ Rooted'
  <2> DEFINE fr == [chip |-> c, how |-> how, callback |-> None,
                    tries |-> MaxTries, builtin |-> FALSE]
  <2>1. fr \in Frame
    BY Limits DEF Frame
  <2>2. stack' = Append(<<>>, fr)
    BY <1>2 DEF Push, Idle
  <2> HIDE DEF fr
  <2>3. stack' = <<fr>> /\ stack' \in Seq(Frame) /\ DOMAIN stack' = {1}
    BY <2>1, <2>2
  <2> QED BY <2>3 DEF Rooted
<1>3. CASE EvalUpload(c)
  <2>1. stack' \in Seq(Frame) /\ Rooted'
    BY <1>2, <1>3 DEF EvalUpload
  <2>2. /\ run' = [run EXCEPT ![c] = TRUE] /\ failed' = [failed EXCEPT ![c] = FALSE]
        /\ UNCHANGED <<listeners, held>>
    BY <1>3 DEF EvalUpload
  <2>3. Typed' /\ ListenersDistinct'
    BY <1>0, <2>1, <2>2 DEF IInv, Typed, TypeOK, ListenersDistinct
  <2>4. Untried' /\ FailureStops'
    BY <1>0, <2>2, ContextFacts DEF IInv, Typed, TypeOK, Untried, FailureStops
  <2> QED BY <2>1, <2>3, <2>4 DEF IInv
<1>4. CASE EvalDupe(c)
  <2>1. stack' \in Seq(Frame) /\ Rooted'
    BY <1>2, <1>4 DEF EvalDupe
  <2>2. /\ run' = run /\ failed' = [failed EXCEPT ![Pasted] = FALSE]
        /\ listeners' = [listeners EXCEPT ![Pasted] = <<>>]
        /\ held' = [held EXCEPT ![Pasted] = {}]
    BY <1>4 DEF EvalDupe
  <2>3. Typed'
    BY <1>0, <2>1, <2>2 DEF IInv, Typed, TypeOK
  <2>4. ListenersDistinct'
    BY <1>0, <2>2, Limits DEF IInv, Typed, TypeOK, ListenersDistinct
  <2>5. Untried' /\ FailureStops'
    BY <1>0, <2>2, ContextFacts DEF IInv, Typed, TypeOK, Untried, FailureStops
  <2> QED BY <2>1, <2>3, <2>4, <2>5 DEF IInv
<1>5. CASE Replace(c)
  <2>1. Typed' /\ stack' = stack /\ run' = run /\ failed' = failed
    BY <1>0, <1>5 DEF Replace, IInv, Typed, TypeOK
  <2>2. ListenersDistinct'
    BY <1>0, <1>5, Limits DEF Replace, IInv, Typed, TypeOK, ListenersDistinct
  <2> QED BY <2>1, <2>2 DEF IInv, Rooted, Untried, FailureStops
<1> QED
  BY <1>1, <1>3, <1>4, <1>5

(* Registering a listener: a known event keeps its entry, a new one is      *)
(* appended while there is room.                                            *)
LEMMA OnStep ==
  ASSUME IInv, NEW event \in Events, NEW f \in Funcs,
         OnFresh(event, f) \/ OnHeld(event, f)
  PROVE  IInv'
<1> DEFINE c == Ctx(Top)
           L == listeners[c]
           old == Registered(c, event)
           new == [event |-> event, callback |-> f]
<1>1. c \in Contexts
  <2>1. Top \in Frame
    BY TopFacts DEF OnFresh, OnHeld, Running, IInv, Typed, TypeOK, Idle, Top
  <2> QED BY <2>1, ContextFacts
<1>2. /\ L \in Seq(Listener) /\ new \in Listener /\ Len(L) \in Nat
      /\ DOMAIN L = 1 .. Len(L)
  <2>1. L \in Seq(Listener)
    BY <1>1 DEF IInv, Typed
  <2>2. new \in Listener
    BY DEF Listener
  <2> HIDE DEF L
  <2> QED BY <2>1, <2>2, LenProperties
<1>3. /\ Len(L) <= MaxListeners
      /\ \A i, j \in DOMAIN L : L[i].event = L[j].event => i = j
  BY <1>1 DEF IInv, ListenersDistinct
<1>4. On(event, f) /\ Charge(c)
  BY DEF OnFresh, OnHeld, On
<1>5. UNCHANGED <<run, triggers, stack, failed>>
  BY <1>4 DEF On
<1>6. ops' \in [Contexts -> 0 .. OpCap]
  BY <1>1, <1>4, Limits DEF Charge, IInv, Typed, TypeOK
<1>7. held' \in [Contexts -> SUBSET Funcs]
  <2>1. held \in [Contexts -> SUBSET Funcs] /\ held[c] \cup {f} \in SUBSET Funcs
    BY <1>1 DEF IInv, Typed, TypeOK
  <2>2. held' = held \/ held' = [held EXCEPT ![c] = held[c] \cup {f}]
    BY DEF OnFresh, OnHeld
  <2> QED BY <1>1, <2>1, <2>2
<1> HIDE DEF c
<1>8. ASSUME NEW M \in Seq(Listener), Len(M) <= MaxListeners,
             \A i, j \in DOMAIN M : M[i].event = M[j].event => i = j,
             listeners' = [listeners EXCEPT ![c] = M]
      PROVE  IInv'
  <2>1. listeners' \in [Contexts -> Seq(Listener)]
    BY <1>8 DEF IInv, Typed
  <2>2. Typed'
    BY <1>5, <1>6, <1>7, <2>1 DEF IInv, Typed, TypeOK
  <2>3. ListenersDistinct'
    BY <1>1, <1>8 DEF IInv, Typed, ListenersDistinct
  <2> QED BY <1>5, <2>2, <2>3 DEF IInv, Rooted, Untried, FailureStops
<1>9. CASE /\ old # {}
           /\ listeners' = [listeners EXCEPT ![c] =
                [i \in DOMAIN @ |-> IF i \in old /\ \A j \in old : i <= j
                                    THEN [event |-> event, callback |-> f] ELSE @[i]]]
  <2> DEFINE M == [i \in 1 .. Len(L) |-> IF i \in old /\ \A j \in old : i <= j THEN new ELSE L[i]]
  <2>1. listeners' = [listeners EXCEPT ![c] = M]
    BY <1>1, <1>2, <1>9 DEF IInv, Typed
  <2>2. \A i \in 1 .. Len(L) : M[i] \in Listener /\ M[i].event = L[i].event
    <3> SUFFICES ASSUME NEW i \in 1 .. Len(L) PROVE M[i] \in Listener /\ M[i].event = L[i].event
      OBVIOUS
    <3>1. L[i] \in Listener
      BY <1>2
    <3>2. i \in old => L[i].event = event
      BY DEF Registered
    <3> HIDE DEF L, old
    <3> QED BY <1>2, <3>1, <3>2
  <2>3. M \in Seq(Listener) /\ Len(M) = Len(L) /\ DOMAIN M = 1 .. Len(L)
    <3>1. M \in [1 .. Len(L) -> Listener]
      <4> HIDE DEF L, old, new
      <4> QED BY <2>2
    <3> HIDE DEF M
    <3> QED BY <1>2, <3>1, SeqDef
  <2> HIDE DEF M, L
  <2>4. /\ Len(M) <= MaxListeners
        /\ \A i, j \in DOMAIN M : M[i].event = M[j].event => i = j
    BY <1>2, <1>3, <2>2, <2>3
  <2> QED BY <1>8, <2>1, <2>3, <2>4, Zenon
<1>10. CASE /\ old = {} /\ Len(listeners[c]) < MaxListeners
            /\ listeners' = [listeners EXCEPT ![c] =
                 Append(@, [event |-> event, callback |-> f])]
  <2> DEFINE M == Append(L, new)
  <2>1. listeners' = [listeners EXCEPT ![c] = M]
    BY <1>1, <1>10 DEF IInv, Typed
  <2>2. \A i \in 1 .. Len(L) : L[i].event # event
    BY <1>2, <1>10 DEF Registered
  <2>3. /\ M \in Seq(Listener) /\ Len(M) = Len(L) + 1 /\ DOMAIN M = 1 .. Len(L) + 1
        /\ \A i \in 1 .. Len(L) : M[i] = L[i]
        /\ M[Len(L) + 1] = new /\ new.event = event
    <3> HIDE DEF L
    <3> QED BY <1>2, AppendProperties, LenProperties
  <2>4. Len(L) < MaxListeners
    BY <1>10
  <2>5. \A i, j \in DOMAIN M : M[i].event = M[j].event => i = j
    <3> HIDE DEF M, L, new
    <3> QED BY <1>2, <1>3, <2>2, <2>3
  <2> HIDE DEF M, L
  <2>6. Len(M) <= MaxListeners
    BY <1>2, <2>3, <2>4, Limits
  <2> QED BY <1>8, <2>1, <2>3, <2>5, <2>6, Zenon
<1> QED
  BY <1>4, <1>9, <1>10 DEF On, c

(* The other steps of a script.  An exception stops the chip it belongs     *)
(* to; a normal end sets Run only for a paste, whose context has not failed. *)
LEMMA ScriptStep ==
  ASSUME IInv, \/ Work \/ EnterBuiltin \/ LeaveBuiltin \/ Trigger
               \/ Throw \/ OverLimit \/ Raise \/ Return
  PROVE  IInv'
<1> DEFINE c == Top.chip
           x == Ctx(Top)
<1>1. ~Idle
  BY DEF Work, EnterBuiltin, LeaveBuiltin, Trigger, Throw, OverLimit, Raise, Return,
         Running, InBuiltin
<1>2. /\ stack \in Seq(Frame) /\ stack # <<>>
      /\ Top \in Frame /\ Below \in Seq(Frame)
      /\ Len(stack) \in Nat \ {0} /\ Top = stack[Len(stack)]
      /\ Len(Below) = Len(stack) - 1
      /\ DOMAIN stack = 1 .. Len(stack)
  BY <1>1, BelowFacts, LenProperties
<1>3. /\ c \in Chips /\ c \in Contexts /\ x \in Contexts /\ c # Pasted /\ Pasted \in Contexts
      /\ x = IF Top.how = "dupe" THEN Pasted ELSE c
  BY <1>2, ContextFacts
<1>4. /\ ops \in [Contexts -> 0 .. OpCap] /\ ops[x] \in 0 .. OpCap
      /\ listeners \in [Contexts -> Seq(Listener)] /\ held \in [Contexts -> SUBSET Funcs]
      /\ failed \in [Contexts -> BOOLEAN] /\ run \in [Chips -> BOOLEAN]
  BY <1>3 DEF IInv, Typed, TypeOK
<1>5. /\ ~failed[Pasted]
      /\ \A d \in Chips : failed[d] => ~run[d]
      /\ \A y \in Contexts :
           /\ Len(listeners[y]) <= MaxListeners
           /\ \A i, j \in DOMAIN listeners[y] :
                listeners[y][i].event = listeners[y][j].event => i = j
  BY DEF IInv, ListenersDistinct, Untried, FailureStops
<1>6. Top.how = "dupe" => Below = <<>>
  BY <1>1, <1>2, EmptySeq DEF IInv, Rooted
<1>7. ASSUME Charge(x) PROVE ops' \in [Contexts -> 0 .. OpCap]
  BY <1>3, <1>4, <1>7, Limits DEF Charge
<1>8. ASSUME ops' \in [Contexts -> 0 .. OpCap], stack' \in Seq(Frame), Rooted',
             UNCHANGED <<run, listeners, held, triggers, failed>>
      PROVE  IInv'
  BY <1>8 DEF IInv, Typed, TypeOK, ListenersDistinct, Untried, FailureStops
<1>9. CASE Work
  <2>1. Charge(x) /\ UNCHANGED <<run, listeners, held, triggers, stack, failed>>
    BY <1>9 DEF Work
  <2>2. Rooted'
    BY <2>1 DEF IInv, Rooted
  <2> QED BY <1>2, <1>7, <1>8, <2>1, <2>2
<1>10. ASSUME NEW b \in BOOLEAN, stack' = Append(Below, [Top EXCEPT !.builtin = b])
       PROVE  stack' \in Seq(Frame) /\ Rooted'
  <2> DEFINE fr == [Top EXCEPT !.builtin = b]
  <2>1. fr \in Frame /\ fr.how = Top.how
    BY <1>2 DEF Frame
  <2>2. stack' = Append(Below, fr)
    BY <1>10
  <2> HIDE DEF fr
  <2> QED BY <1>1, <2>1, <2>2, TopStep
<1>11. CASE EnterBuiltin
  <2>1. /\ Charge(x) /\ stack' = Append(Below, [Top EXCEPT !.builtin = TRUE])
        /\ UNCHANGED <<run, listeners, held, triggers, failed>>
    BY <1>11 DEF EnterBuiltin
  <2> QED BY <1>7, <1>8, <1>10, <2>1
<1>12. CASE LeaveBuiltin
  <2>1. /\ ops' = ops /\ stack' = Append(Below, [Top EXCEPT !.builtin = FALSE])
        /\ UNCHANGED <<run, listeners, held, triggers, failed>>
    BY <1>12 DEF LeaveBuiltin
  <2> QED BY <1>4, <1>8, <1>10, <2>1
<1>13. CASE Trigger
  <2> DEFINE d == Wire[c]
  <2>1. d \in Chips /\ d \in Contexts /\ UNCHANGED <<run, listeners, held, failed>>
    BY <1>3, <1>13, Limits, ContextFacts DEF Trigger
  <2>2. PICK i \in DOMAIN listeners[d] : Push(d, "event", listeners[d][i].callback)
    BY <1>13 DEF Trigger, Registered
  <2>3. /\ ops' \in [Contexts -> 0 .. OpCap]
        /\ triggers' \in [Chips -> 0 .. TriggerLimit]
    <3>1. /\ ops[x] + 1 \in 0 .. OpCap
          /\ triggers \in [Chips -> 0 .. TriggerLimit] /\ triggers[c] - 1 \in 0 .. TriggerLimit
      <4>1. ops[x] < OpLimit /\ triggers[c] > 0
        BY <1>13 DEF Trigger
      <4>2. triggers \in [Chips -> 0 .. TriggerLimit] /\ triggers[c] \in 0 .. TriggerLimit
        BY <1>3 DEF IInv, Typed, TypeOK
      <4> HIDE DEF c, x
      <4> QED BY <1>4, <4>1, <4>2, Limits
    <3>2. /\ ops' = [[ops EXCEPT ![x] = ops[x] + 1] EXCEPT ![d] = 0]
          /\ triggers' = [triggers EXCEPT ![c] = triggers[c] - 1]
      BY <1>13 DEF Trigger
    <3> HIDE DEF c, d, x
    <3>3. [ops EXCEPT ![x] = ops[x] + 1] \in [Contexts -> 0 .. OpCap]
      BY <1>3, <1>4, <3>1
    <3>4. 0 \in 0 .. OpCap
      BY Limits
    <3>5. ops' \in [Contexts -> 0 .. OpCap]
      BY <2>1, <3>2, <3>3, <3>4
    <3>6. triggers' \in [Chips -> 0 .. TriggerLimit]
      BY <1>3, <3>1, <3>2
    <3> QED BY <3>5, <3>6
  <2> HIDE DEF d
  <2>4. stack' \in Seq(Frame) /\ Rooted'
    BY <2>1, <2>2, PushStep
  <2> QED BY <2>1, <2>3, <2>4 DEF IInv, Typed, TypeOK, ListenersDistinct, Untried, FailureStops
<1>14. ASSUME NEW counts \in [Contexts -> 0 .. OpCap], Fail(counts) PROVE IInv'
  <2> DEFINE failures == [failed EXCEPT ![x] = TRUE]
  <2>1. /\ Leave(Below, listeners, held, counts, failures)
        /\ run' = [run EXCEPT ![c] = FALSE]
    BY <1>14 DEF Fail
  <2>2. failures \in [Contexts -> BOOLEAN] /\ run' \in [Chips -> BOOLEAN]
    BY <1>3, <1>4, <2>1
  <2>3. Below # <<>> => ~failures[Pasted]
    BY <1>3, <1>4, <1>5, <1>6
  <2>4. \A d \in Chips : failures[d] => ~run'[d]
    BY <1>3, <1>4, <1>5, <2>1, ContextFacts
  <2> HIDE DEF failures
  <2> QED BY <1>1, <1>4, <1>5, <1>14, <2>1, <2>2, <2>3, <2>4, LeaveStep
<1>15. CASE Throw
  BY <1>4, <1>14, <1>15 DEF Throw
<1>16. CASE OverLimit
  <2> DEFINE counts == [ops EXCEPT ![x] = IF ops[x] < OpCap THEN ops[x] + 1 ELSE ops[x]]
  <2>1. counts \in [Contexts -> 0 .. OpCap]
    BY <1>3, <1>4, Limits
  <2>2. \/ Fail(counts)
        \/ /\ Top.tries > 0
           /\ stack' = Append(Below, [Top EXCEPT !.tries = Top.tries - 1])
           /\ ops' = counts
           /\ UNCHANGED <<run, listeners, held, triggers, failed>>
    BY <1>16 DEF OverLimit
  <2> HIDE DEF counts
  <2>3. CASE Fail(counts)
    BY <1>14, <2>1, <2>3
  <2>4. CASE /\ Top.tries > 0
             /\ stack' = Append(Below, [Top EXCEPT !.tries = Top.tries - 1])
             /\ ops' = counts
             /\ UNCHANGED <<run, listeners, held, triggers, failed>>
    <3> DEFINE fr == [Top EXCEPT !.tries = Top.tries - 1]
    <3>1. fr \in Frame /\ fr.how = Top.how
      <4>1. Top.tries \in 0 .. MaxTries
        BY <1>2 DEF Frame
      <4>2. Top.tries - 1 \in 0 .. MaxTries
        BY <2>4, <4>1, Limits
      <4> QED BY <1>2, <4>2 DEF Frame
    <3>2. stack' = Append(Below, fr)
      BY <2>4
    <3> HIDE DEF fr
    <3>3. stack' \in Seq(Frame) /\ Rooted'
      BY <1>1, <3>1, <3>2, TopStep
    <3> QED BY <1>8, <2>1, <2>4, <3>3
  <2> QED BY <2>2, <2>3, <2>4
<1>17. CASE Raise
  <2>1. PICK rest \in {<<>>, Below} : Leave(rest, listeners, held, ops, failed)
    BY <1>17 DEF Raise
  <2>2. run' = run
    BY <1>17 DEF Raise
  <2>3. run' \in [Chips -> BOOLEAN] /\ \A d \in Chips : failed[d] => ~run'[d]
    BY <1>4, <1>5, <2>2
  <2> QED BY <1>1, <1>4, <1>5, <2>1, <2>3, LeaveStep
<1>18. CASE Return
  <2>1. /\ Leave(Below, Handed(listeners), Handed(held), Handed(ops), Handed(failed))
        /\ run' = IF Top.how = "dupe" THEN [run EXCEPT ![c] = TRUE] ELSE run
    BY <1>18 DEF Return, SetsRunAfter
  <2>2. /\ Handed(listeners) \in [Contexts -> Seq(Listener)]
        /\ Handed(held) \in [Contexts -> SUBSET Funcs]
        /\ Handed(ops) \in [Contexts -> 0 .. OpCap]
        /\ Handed(failed) \in [Contexts -> BOOLEAN]
        /\ run' \in [Chips -> BOOLEAN]
    <3>1. Handed(listeners) \in [Contexts -> Seq(Listener)]
      BY <1>3, <1>4 DEF Handed
    <3>2. Handed(held) \in [Contexts -> SUBSET Funcs]
      BY <1>3, <1>4 DEF Handed
    <3>3. Handed(ops) \in [Contexts -> 0 .. OpCap]
      BY <1>3, <1>4 DEF Handed
    <3>4. Handed(failed) \in [Contexts -> BOOLEAN] /\ run' \in [Chips -> BOOLEAN]
      BY <1>3, <1>4, <2>1 DEF Handed
    <3> QED BY <3>1, <3>2, <3>3, <3>4
  <2>3. \A y \in Contexts : \E z \in Contexts : Handed(listeners)[y] = listeners[z]
    BY <1>3, <1>4 DEF Handed
  <2>4. \A y \in Contexts :
          /\ Len(Handed(listeners)[y]) <= MaxListeners
          /\ \A i, j \in DOMAIN Handed(listeners)[y] :
               Handed(listeners)[y][i].event = Handed(listeners)[y][j].event => i = j
    <3> SUFFICES ASSUME NEW y \in Contexts
                 PROVE  /\ Len(Handed(listeners)[y]) <= MaxListeners
                        /\ \A i, j \in DOMAIN Handed(listeners)[y] :
                             Handed(listeners)[y][i].event = Handed(listeners)[y][j].event => i = j
      OBVIOUS
    <3>1. PICK z \in Contexts : Handed(listeners)[y] = listeners[z]
      BY <2>3
    <3> QED BY <1>5, <3>1, Zenon
  <2>5. ~Handed(failed)[Pasted]
    BY <1>3, <1>4, <1>5 DEF Handed
  <2>6. \A d \in Chips : Handed(failed)[d] => ~run'[d]
    BY <1>3, <1>4, <1>5, <2>1, ContextFacts DEF Handed
  <2> QED BY <1>1, <2>1, <2>2, <2>4, <2>5, <2>6, LeaveStep
<1> QED
  BY <1>9, <1>11, <1>12, <1>13, <1>15, <1>16, <1>17, <1>18

(* Every step, of the game or of a script, preserves the invariant. *)
LEMMA NextIInv == IInv /\ [Next]_vars => IInv'
<1> SUFFICES ASSUME IInv, [Next]_vars PROVE IInv'
  OBVIOUS
<1>1. CASE UNCHANGED vars
  BY <1>1 DEF vars, IInv, Typed, TypeOK, ListenersDistinct, Rooted, Untried, FailureStops
<1> QED
  BY <1>1, GameStep, OnNullStep, OnStep, ScriptStep DEF Next, Script

(* The inductive invariant holds however executions are nested. *)
THEOREM DispatchInvariance == Spec => []IInv
BY InitIInv, NextIInv, PTL DEF Spec

(* Listener tables, counters and the nest of executions keep their types;  *)
(* op_count never passes the limit by more than the tries around it.        *)
THEOREM DispatchTypeCorrect == Spec => []TypeOK
<1>1. IInv => TypeOK
  BY DEF IInv, Typed
<1> QED BY <1>1, DispatchInvariance, PTL

(* Event names are unique in every listener table, which never overflows. *)
THEOREM ListenersStayDistinct == Spec => []ListenersDistinct
<1>1. IInv => ListenersDistinct
  BY DEF IInv
<1> QED BY <1>1, DispatchInvariance, PTL

(* A chip whose code ended in an exception stays stopped, however           *)
(* executions are nested and whichever of them Lua errors cut off.          *)
THEOREM FailedChipsStop == Spec => []FailureStops
<1>1. IInv => FailureStops
  BY DEF IInv
<1> QED BY <1>1, DispatchInvariance, PTL
=============================================================================
