---------------------------- MODULE ContextPool ----------------------------
(***************************************************************************)
(* What the add-on promises about contexts, without chips, tools, scripts  *)
(* or players: a pool of slots in which every slot is free, held by one    *)
(* entity or lost, and every entity holds at most one slot.                *)
(***************************************************************************)
EXTENDS Integers

CONSTANTS Entities, Slots, None

VARIABLE holder     \* holder[i]: an entity, None for a free slot, or "lost"

Holds(e, i) == holder[i] = e
Idle(e)     == \A i \in Slots : ~Holds(e, i)
Free(i)     == holder[i] = None

Init == holder = [i \in Slots |-> None]

(* An entity without a context is given a free slot. *)
Acquire(e) ==
  /\ Idle(e)
  /\ \E i \in Slots : Free(i) /\ holder' = [holder EXCEPT ![i] = e]

(* An entity's slot is exchanged for one that is free or is the old one. *)
Renew(e) ==
  \E i, j \in Slots :
    /\ Holds(e, i)
    /\ Free(j) \/ j = i
    /\ holder' = [holder EXCEPT ![i] = None, ![j] = e]

Release(e) ==
  \E i \in Slots : Holds(e, i) /\ holder' = [holder EXCEPT ![i] = None]

(* The defects of the paste, of a refused spawn and of a validation that   *)
(* raises: a free slot is taken for nobody, a holder goes away without     *)
(* releasing its slot, or it moves to another slot and leaves the old one. *)
LoseFresh == \E i \in Slots : Free(i) /\ holder' = [holder EXCEPT ![i] = "lost"]

LoseHeld(e) ==
  \E i \in Slots : Holds(e, i) /\ holder' = [holder EXCEPT ![i] = "lost"]

LoseByMoving(e) ==
  \E i, j \in Slots :
    /\ Holds(e, i)
    /\ Free(j)
    /\ holder' = [holder EXCEPT ![i] = "lost", ![j] = e]

Next == \/ LoseFresh
        \/ \E e \in Entities : \/ Acquire(e) \/ Renew(e) \/ Release(e)
                               \/ LoseHeld(e) \/ LoseByMoving(e)

Spec == Init /\ [][Next]_holder
=============================================================================
