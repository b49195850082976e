---------------------- MODULE ChipLifecycle_refinement ----------------------
(***************************************************************************)
(* The action properties of ChipLifecycle and the proof that it implements *)
(* ContextPool, from the inductive invariant of ChipLifecycle_proofs.      *)
(***************************************************************************)
EXTENDS ChipLifecycle_proofs

(* The refinement mapping Held, as a function of a table t and of entity    *)
(* fields es.                                                               *)
Lost(t, es) == {i \in Slots : t[i].used /\ \A e \in Entities : es[e].ctx # i}
Holding(t, es) == [i \in Slots |-> IF ~t[i].used THEN None
                                   ELSE IF i \in Lost(t, es) THEN "lost" ELSE t[i].ent]

(* The steps of the pool from holders h to holders k. *)
Acquires(h, k, e) == /\ \A i \in Slots : h[i] # e
                     /\ \E i \in Slots : h[i] = None /\ k = [h EXCEPT ![i] = e]
Renews(h, k, e) == \E i, j \in Slots : /\ h[i] = e
                                       /\ h[j] = None \/ j = i
                                       /\ k = [h EXCEPT ![i] = None, ![j] = e]
Releases(h, k, e) == \E i \in Slots : h[i] = e /\ k = [h EXCEPT ![i] = None]

(* A step of the pool that loses nothing, and one that loses a slot. *)
Keeps(h, k) == \/ k = h
               \/ \E e \in Entities : Acquires(h, k, e) \/ Renews(h, k, e) \/ Releases(h, k, e)
Loses(h, k) ==
  \/ \E i \in Slots : h[i] = None /\ k = [h EXCEPT ![i] = "lost"]
  \/ \E e \in Entities, i \in Slots : h[i] = e /\ k = [h EXCEPT ![i] = "lost"]
  \/ \E e \in Entities, i, j \in Slots :
       h[i] = e /\ h[j] = None /\ k = [h EXCEPT ![i] = "lost", ![j] = e]

(* Held is Holding of the state, before a step and after it, and the steps  *)
(* of the pool are those above.                                             *)
LEMMA PoolSteps ==
  /\ Held = Holding(contexts, ent) /\ Held' = Holding(contexts', ent')
  /\ Orphans = Lost(contexts, ent) /\ Orphans' = Lost(contexts', ent')
  /\ Keeps(Held, Held') \/ Loses(Held, Held') => Pool!Next \/ UNCHANGED Held
<1>1. /\ Held = Holding(contexts, ent) /\ Held' = Holding(contexts', ent')
      /\ Orphans = Lost(contexts, ent) /\ Orphans' = Lost(contexts', ent')
  BY DEF Held, Holding, Orphans, Lost
<1>2. ASSUME NEW e \in Entities
      PROVE  /\ Acquires(Held, Held', e) => Pool!Acquire(e)
             /\ Renews(Held, Held', e) => Pool!Renew(e)
             /\ Releases(Held, Held', e) => Pool!Release(e)
  BY DEF Acquires, Renews, Releases, Pool!Acquire, Pool!Renew, Pool!Release,
         Pool!Idle, Pool!Holds, Pool!Free
<1>3. Keeps(Held, Held') => Pool!Next \/ UNCHANGED Held
  BY <1>2 DEF Keeps, Pool!Next
<1>4. Loses(Held, Held') => Pool!Next
  BY DEF Loses, Pool!Next, Pool!LoseFresh, Pool!LoseHeld, Pool!LoseByMoving,
         Pool!Holds, Pool!Free
<1> QED
  BY <1>1, <1>3, <1>4

(* The three readings of a slot: free, lost, or held by the entity whose    *)
(* handle names it.                                                         *)
LEMMA HoldingFacts ==
  ASSUME NEW t, NEW es, Good(t, es), NEW i \in Slots
  PROVE  /\ Holding(t, es)[i] \in Entities \cup {None, "lost"}
         /\ Holding(t, es)[i] = None <=> ~t[i].used
         /\ Holding(t, es)[i] = "lost" <=> i \in Lost(t, es)
         /\ \A e \in Entities : Holding(t, es)[i] = e <=> es[e].ctx = i
<1>2. /\ None \notin Entities /\ "lost" \notin Entities
      /\ None # "lost" /\ i # None
  BY NoneAssumption, LostAssumption, SlotFacts DEF Entities
<1>3. Holding(t, es)[i] = IF ~t[i].used THEN None
                          ELSE IF i \in Lost(t, es) THEN "lost" ELSE t[i].ent
  BY DEF Holding
<1>4. CASE ~t[i].used
  <2>1. \A e \in Entities : es[e].ctx # i
    BY <1>2, <1>4 DEF Good, Owned
  <2>2. i \notin Lost(t, es)
    BY <1>4 DEF Lost
  <2> QED BY <1>2, <1>3, <1>4, <2>1, <2>2
<1>5. CASE t[i].used /\ i \in Lost(t, es)
  BY <1>2, <1>3, <1>5 DEF Lost
<1>6. CASE t[i].used /\ i \notin Lost(t, es)
  <2>1. PICK e \in Entities : es[e].ctx = i
    BY <1>6 DEF Lost
  <2>2. \A f \in Entities : es[f].ctx = i => t[i].ent = f
    BY <1>2 DEF Good, Owned
  <2> QED BY <1>2, <1>3, <1>6, <2>1, <2>2
<1> QED
  BY <1>4, <1>5, <1>6

(* A slot changes hands only if it is taken or emptied or a handle moves    *)
(* onto it or off it.                                                       *)
LEMMA SameHolder ==
  ASSUME NEW t, NEW es, Good(t, es), NEW u, NEW fs, Good(u, fs), NEW i \in Slots,
         u[i].used <=> t[i].used,
         \A e \in Entities : fs[e].ctx = i <=> es[e].ctx = i
  PROVE  Holding(u, fs)[i] = Holding(t, es)[i]
<1>1. i \in Lost(u, fs) <=> i \in Lost(t, es)
  BY DEF Lost
<1> QED
  BY <1>1, HoldingFacts

(* When that is so of every slot, the pool stutters. *)
LEMMA SameHolders ==
  ASSUME NEW t, NEW es, Good(t, es), NEW u, NEW fs, Good(u, fs),
         \A i \in Slots : u[i].used <=> t[i].used,
         \A e \in Entities : fs[e].ctx = es[e].ctx
  PROVE  Holding(u, fs) = Holding(t, es)
<1>1. \A i \in Slots : Holding(u, fs)[i] = Holding(t, es)[i]
  BY SameHolder
<1> QED
  BY <1>1 DEF Holding

(* An update by the tool is one step of the pool that loses nothing: the    *)
(* entity gets its first slot, exchanges the one it has, or nothing happens. *)
LEMMA UpdateKeeps ==
  ASSUME NEW es, Good(contexts, es), NEW p \in Players, NEW e \in Entities,
         es[e].life # "none", Update(es, p, e)
  PROVE  Keeps(Holding(contexts, es), Holding(contexts', ent'))
<1> DEFINE h == Holding(contexts, es)
           k == Holding(contexts', ent')
           freed == Release(es, e)
           old == es[e].ctx
<1>1. Good(contexts', ent')
  BY UpdateGood
<1>2. es[e] \in Entity /\ (old # None => old \in Slots)
  BY DEF Good, Typed, Entity
<1>3. /\ freed \in [Slots -> Context \cup {NoContext}]
      /\ \A j \in Slots : freed[j].used <=> contexts[j].used /\ j # old
  BY <1>2, SlotFacts DEF Release, JS_FreeContext, Good, Typed
<1>4. h \in [Slots -> Entities \cup {None, "lost"}] /\ k \in [Slots -> Entities \cup {None, "lost"}]
  BY <1>1, HoldingFacts DEF Holding
<1>5. ASSUME NEW i \in Slots, FirstFree(freed, i),
             contexts' = JS_CreateContext(freed, i, e, p),
             ent' = [es EXCEPT ![e].ctx = i]
      PROVE  Keeps(h, k)
  <2>1. /\ \A j \in Slots : j # i => contexts'[j] = freed[j]
        /\ \A f \in Entities : ent'[f].ctx = IF f = e THEN i ELSE es[f].ctx
    BY <1>3, <1>5 DEF JS_CreateContext, Good, Typed, Entity
  <2>2. i = old \/ ~contexts[i].used
    BY <1>3, <1>5 DEF FirstFree
  <2> HIDE DEF freed
  <2>3. k[i] = e
    BY <1>1, <2>1, HoldingFacts
  <2>4. ASSUME NEW j \in Slots, j # i, j # old PROVE k[j] = h[j]
    <3>1. \A f \in Entities : ent'[f].ctx = j <=> es[f].ctx = j
      BY <2>1, <2>4
    <3>2. contexts'[j].used <=> contexts[j].used
      BY <1>3, <2>1, <2>4
    <3> QED BY <1>1, <3>1, <3>2, SameHolder
  <2>5. CASE old = None
    <3>1. i # old
      BY <2>5, SlotFacts
    <3>2. h[i] = None /\ \A j \in Slots : h[j] # e
      BY <2>2, <2>5, <3>1, SlotFacts, HoldingFacts
    <3>3. k = [h EXCEPT ![i] = e]
      <4> HIDE DEF h, k
      <4> QED BY <1>4, <2>3, <2>4, <2>5, SlotFacts
    <3> HIDE DEF h, k
    <3>4. Acquires(h, k, e)
      BY <3>2, <3>3 DEF Acquires
    <3> QED BY <3>4 DEF Keeps
  <2>6. CASE old # None
    <3>1. old \in Slots /\ h[old] = e
      BY <1>2, <2>6, HoldingFacts
    <3>2. h[i] = None \/ i = old
      BY <2>2, HoldingFacts
    <3>3. old # i => k[old] = None
      <4>1. old # i => ~contexts'[old].used
        BY <1>3, <2>1, <3>1
      <4> QED BY <1>1, <3>1, <4>1, HoldingFacts
    <3>4. k = [h EXCEPT ![old] = None, ![i] = e]
      <4> HIDE DEF h, k, old
      <4> QED BY <1>4, <2>3, <2>4, <3>1, <3>3
    <3> HIDE DEF h, k, old
    <3>5. Renews(h, k, e)
      BY <3>1, <3>2, <3>4 DEF Renews
    <3> QED BY <3>5 DEF Keeps
  <2> QED BY <2>5, <2>6
<1>6. ASSUME Full(freed), contexts' = freed,
             IF e \in Chips THEN ent' \in NoSlot(es, e) ELSE ent' = es
      PROVE  k = h
  <2>1. \A j \in Slots : contexts'[j].used <=> contexts[j].used
    BY <1>3, <1>6 DEF Full
  <2>2. \A f \in Entities : ent'[f].ctx = es[f].ctx
    BY <1>6 DEF NoSlot, Good, Typed, Entity
  <2> QED BY <1>1, <2>1, <2>2, SameHolders
<1> QED
  BY <1>5, <1>6 DEF Update, Keeps

(* What the tool does to an entity that is there, or that MakeEnt has just  *)
(* spawned without a handle.                                                *)
LEMMA ToolKeeps ==
  ASSUME IInv, NEW p \in Players,
         \/ \E c \in Chips : LeftClick_Update(p, c) \/ MakeEnt(p, c)
         \/ \E b \in Props : MakeEntRefused(p, b)
  PROVE  Keeps(Holding(contexts, ent), Holding(contexts', ent'))
<1>0. Good(contexts, ent)
  BY IInvParts
<1>1. ASSUME NEW e \in Entities, Exists(e), Update(ent, p, e)
      PROVE  Keeps(Holding(contexts, ent), Holding(contexts', ent'))
  BY <1>0, <1>1, UpdateKeeps DEF Exists
<1>2. ASSUME NEW c \in Chips, MakeEnt(p, c)
      PROVE  Keeps(Holding(contexts, ent), Holding(contexts', ent'))
  <2> DEFINE es == [ent EXCEPT ![c] = Initialize(p)]
  <2>1. /\ Fits(contexts, c, Initialize(p))
        /\ Initialize(p).life = "live" /\ Initialize(p).ctx = None
    BY DEF Fits, Initialize, NoEntity, Entity
  <2>2. Good(contexts, es) /\ es[c].life = "live"
    BY <1>0, <2>1, SlotFacts, SetGood DEF Good, Typed
  <2>3. ent[c].ctx = None
    BY <1>0, <1>2, SlotFacts DEF MakeEnt, Exists, Good, Blank
  <2>4. \A f \in Entities : es[f].ctx = ent[f].ctx
    BY <1>0, <2>1, <2>3, SlotFacts DEF Good, Typed
  <2>5. Update(es, p, c)
    BY <1>2 DEF MakeEnt
  <2> HIDE DEF es
  <2>6. Holding(contexts, es) = Holding(contexts, ent)
    BY <1>0, <2>2, <2>4, SameHolders
  <2> QED BY <2>2, <2>5, <2>6, SlotFacts, UpdateKeeps
<1> QED
  BY <1>1, <1>2, SlotFacts DEF LeftClick_Update, MakeEntRefused

(* Handlers that move no handle: the pool stutters. *)
LEMMA OtherKeeps ==
  ASSUME IInv, IInv',
         \/ \E p \in Players : \/ MakeEntAtWorld(p) \/ NoReply(p) \/ ValidateCode(p)
                               \/ \E s \in Scripts : ReceiveCode(p, s)
                               \/ \E c \in Chips, s \in Scripts \cup {None} :
                                    PasteSpawn(p, c, s)
         \/ \E c \in Chips : EmitFails(c) \/ Remove(c)
  PROVE  Holding(contexts', ent') = Holding(contexts, ent)
<1>0. /\ Good(contexts, ent) /\ Good(contexts', ent')
      /\ target \in [Players -> Entities \cup {None}]
  BY IInvParts DEF IInv
<1>1. ASSUME NEW p \in Players, MakeEntAtWorld(p) \/ NoReply(p)
      PROVE  Holding(contexts', ent') = Holding(contexts, ent)
  BY <1>1 DEF MakeEntAtWorld, NoReply
<1>2. ASSUME NEW p \in Players, ValidateCode(p)
      PROVE  Holding(contexts', ent') = Holding(contexts, ent)
  <2>1. PICK i \in Slots :
          /\ FirstFree(contexts, i)
          /\ contexts' = JS_FreeContext(JS_CreateContext(contexts, i, p, p), i)
    BY <1>2 DEF ValidateCode
  <2>2. \A j \in Slots : contexts'[j].used <=> contexts[j].used
    BY <1>0, <2>1, SlotFacts DEF Good, Typed, FirstFree, JS_FreeContext, JS_CreateContext
  <2>3. ent' = ent
    BY <1>2 DEF ValidateCode
  <2> QED BY <1>0, <2>2, <2>3, SameHolders
<1>3. ASSUME NEW p \in Players, NEW s \in Scripts, ReceiveCode(p, s)
      PROVE  Holding(contexts', ent') = Holding(contexts, ent)
  <2>1. CASE ~(target[p] # None /\ ent[target[p]].ctx # None)
    BY <1>3, <2>1 DEF ReceiveCode
  <2>2. CASE target[p] # None /\ ent[target[p]].ctx # None
    <3> DEFINE e == target[p]
               i == ent[e].ctx
    <3>1. e \in Entities /\ i \in Slots /\ contexts[i] \in Context
      <4>1. e \in Entities /\ i \in Slots
        BY <1>0, <2>2 DEF Good, Typed, Entity
      <4>2. contexts[i].used
        BY <1>0, <2>2, <4>1 DEF Good, Owned
      <4> QED BY <1>0, <4>1, <4>2, SlotFacts DEF Good, Typed
    <3>2. RunUpload(e, s)
      BY <1>3, <2>2 DEF ReceiveCode
    <3> HIDE DEF e
    <3>3. \A f \in Entities : ent'[f].ctx = ent[f].ctx
      BY <1>0, <3>1, <3>2 DEF RunUpload, Save, Error, CutOff, Good, Typed, Entity
    <3>4. contexts' = contexts \/ contexts' = JS_Eval(contexts, i, s)
      BY <3>2 DEF RunUpload
    <3>5. \A j \in Slots : contexts'[j].used <=> contexts[j].used
      BY <1>0, <3>1, <3>4 DEF JS_Eval, Context, Good, Typed
    <3> QED BY <1>0, <3>3, <3>5, SameHolders
  <2> QED BY <2>1, <2>2
<1>4. ASSUME NEW p \in Players, NEW c \in Chips, NEW s \in Scripts \cup {None},
             PasteSpawn(p, c, s)
      PROVE  Holding(contexts', ent') = Holding(contexts, ent)
  <2>1. ent[c].ctx = None /\ Initialize(p).ctx = None
    BY <1>0, <1>4, SlotFacts DEF PasteSpawn, Exists, Good, Blank, Initialize, NoEntity
  <2>2. contexts' = contexts /\ \A f \in Entities : ent'[f].ctx = ent[f].ctx
    BY <1>0, <1>4, <2>1, SlotFacts DEF PasteSpawn, Good, Typed
  <2> QED BY <1>0, <2>2, SameHolders
<1>5. ASSUME NEW c \in Chips, EmitFails(c) \/ Remove(c)
      PROVE  Holding(contexts', ent') = Holding(contexts, ent)
  <2>1. contexts' = contexts /\ \A f \in Entities : ent'[f].ctx = ent[f].ctx
    BY <1>0, <1>5, SlotFacts DEF EmitFails, Remove, Error, Good, Typed, Entity
  <2> QED BY <1>0, <2>1, SameHolders
<1> QED
  BY <1>1, <1>2, <1>3, <1>4, <1>5

(* OnRemove gives a chip's slot back, if it has one. *)
LEMMA OnRemoveKeeps ==
  ASSUME IInv, IInv', NEW c \in Chips, OnRemove(c)
  PROVE  Keeps(Holding(contexts, ent), Holding(contexts', ent'))
<1> DEFINE h == Holding(contexts, ent)
           k == Holding(contexts', ent')
           i == ent[c].ctx
<1> SUFFICES Keeps(h, k)
  OBVIOUS
<1>0. Good(contexts, ent) /\ Good(contexts', ent')
  BY IInvParts DEF IInv
<1>1. \A f \in Entities : ent'[f].ctx = IF f = c THEN None ELSE ent[f].ctx
  BY <1>0, SlotFacts DEF OnRemove, NoEntity, Good, Typed
<1>2. CASE i = None
  <2>1. contexts' = contexts
    BY <1>2 DEF OnRemove, Release
  <2>2. k = h
    BY <1>0, <1>1, <1>2, <2>1, SameHolders
  <2> QED BY <2>2 DEF Keeps
<1>3. CASE i # None
  <2>1. i \in Slots
    BY <1>0, <1>3, SlotFacts DEF Good, Typed, Entity
  <2>2. contexts' = [contexts EXCEPT ![i] = NoContext]
    BY <1>3 DEF OnRemove, Release, JS_FreeContext
  <2>3. ~contexts'[i].used /\ \A j \in Slots : j # i => contexts'[j] = contexts[j]
    BY <1>0, <2>1, <2>2, SlotFacts DEF Good, Typed
  <2>4. h[i] = c /\ k[i] = None
    BY <1>0, <2>1, <2>3, SlotFacts, HoldingFacts
  <2>5. ASSUME NEW j \in Slots, j # i PROVE k[j] = h[j]
    <3>1. \A f \in Entities : ent'[f].ctx = j <=> ent[f].ctx = j
      BY <1>1, <2>5, SlotFacts
    <3> QED BY <1>0, <2>3, <2>5, <3>1, SameHolder
  <2>6. k = [h EXCEPT ![i] = None]
    BY <2>1, <2>4, <2>5 DEF Holding
  <2> HIDE DEF h, k, i
  <2>7. Releases(h, k, c)
    BY <2>1, <2>4, <2>6 DEF Releases
  <2> QED BY <2>7, SlotFacts DEF Keeps
<1> QED
  BY <1>2, <1>3

(* A prop that goes loses the slot a refused spawn gave it, if any. *)
LEMMA RemovePropLoses ==
  ASSUME IInv, IInv', NEW b \in Props, RemoveProp(b)
  PROVE  LET h == Holding(contexts, ent)
             k == Holding(contexts', ent')
         IN  k = h \/ Loses(h, k)
<1> DEFINE h == Holding(contexts, ent)
           k == Holding(contexts', ent')
           i == ent[b].ctx
<1> SUFFICES k = h \/ Loses(h, k)
  OBVIOUS
<1>0. Good(contexts, ent) /\ Good(contexts', ent') /\ contexts' = contexts
  BY IInvParts DEF IInv, RemoveProp
<1>1. \A f \in Entities : ent'[f].ctx = IF f = b THEN None ELSE ent[f].ctx
  BY <1>0, SlotFacts DEF RemoveProp, NoEntity, Good, Typed
<1>2. CASE i = None
  BY <1>0, <1>1, <1>2, SameHolders
<1>3. CASE i # None
  <2>1. i \in Slots /\ contexts[i].used
    BY <1>0, <1>3, SlotFacts DEF Good, Typed, Owned, Entity
  <2>2. \A f \in Entities : ent'[f].ctx # i
    BY <1>0, <1>1, <1>3, SlotFacts DEF Good, Owned
  <2>3. i \in Lost(contexts', ent')
    BY <1>0, <2>1, <2>2 DEF Lost
  <2>4. h[i] = b /\ k[i] = "lost"
    BY <1>0, <2>1, <2>3, SlotFacts, HoldingFacts
  <2>5. ASSUME NEW j \in Slots, j # i PROVE k[j] = h[j]
    <3>1. \A f \in Entities : ent'[f].ctx = j <=> ent[f].ctx = j
      BY <1>1, <2>5, SlotFacts
    <3> QED BY <1>0, <2>5, <3>1, SameHolder
  <2>6. k = [h EXCEPT ![i] = "lost"]
    BY <2>1, <2>4, <2>5 DEF Holding
  <2> HIDE DEF h, k, i
  <2> QED BY <2>1, <2>4, <2>6, SlotFacts DEF Loses
<1> QED
  BY <1>2, <1>3

(* A validation that raises loses the slot it took. *)
LEMMA ValidateLoses ==
  ASSUME IInv, IInv', NEW p \in Players, ValidateRaises(p)
  PROVE  Loses(Holding(contexts, ent), Holding(contexts', ent'))
<1> DEFINE h == Holding(contexts, ent)
           k == Holding(contexts', ent')
<1>0. Good(contexts, ent) /\ Good(contexts', ent') /\ ent' = ent
  BY IInvParts DEF IInv, ValidateRaises
<1>1. PICK i \in Slots : /\ FirstFree(contexts, i)
                         /\ contexts' = JS_CreateContext(contexts, i, p, p)
  BY DEF ValidateRaises
<1>2. /\ ~contexts[i].used /\ contexts'[i].used
      /\ \A j \in Slots : j # i => contexts'[j] = contexts[j]
  BY <1>0, <1>1 DEF FirstFree, JS_CreateContext, Fresh, Good, Typed
<1>3. \A e \in Entities : ent[e].ctx # i
  BY <1>0, <1>2, SlotFacts DEF Good, Owned
<1>4. i \in Lost(contexts', ent')
  BY <1>0, <1>2, <1>3 DEF Lost
<1>5. h[i] = None /\ k[i] = "lost"
  BY <1>0, <1>2, <1>4, HoldingFacts
<1>6. \A j \in Slots : j # i => k[j] = h[j]
  BY <1>0, <1>2, SameHolder
<1>7. k = [h EXCEPT ![i] = "lost"]
  BY <1>5, <1>6 DEF Holding
<1> HIDE DEF h, k
<1>8. Loses(h, k)
  BY <1>5, <1>7 DEF Loses
<1> QED
  BY <1>8 DEF h, k

(* A paste gives the chip its first slot, or loses the new slot (the script *)
(* fails, raises or is not there) or the old one (the chip had got a slot since).  *)
LEMMA PasteLoses ==
  ASSUME IInv, IInv', NEW c \in Chips, ApplyDupeInfo(c)
  PROVE  LET h == Holding(contexts, ent)
             k == Holding(contexts', ent')
         IN  Keeps(h, k) \/ Loses(h, k)
<1> DEFINE h == Holding(contexts, ent)
           k == Holding(contexts', ent')
           s == paste[c].script
           q == paste[c].ply
           old == ent[c].ctx
<1>0. /\ Good(contexts, ent) /\ Good(contexts', ent')
      /\ c \in Entities /\ ent[c] \in Entity
  BY IInvParts, SlotFacts DEF IInv, Good, Typed
<1>1. CASE \A f \in Entities : ent'[f].ctx = ent[f].ctx /\ contexts' = contexts
  <2>1. contexts' = contexts
    BY <1>0, <1>1
  <2> QED BY <1>0, <1>1, <2>1, SameHolders DEF Keeps
<1>2. ASSUME NEW i \in Slots, ~contexts[i].used, contexts'[i].used,
             \A j \in Slots : j # i => contexts'[j] = contexts[j],
             \A f \in Entities : f # c => ent'[f].ctx = ent[f].ctx,
             ent'[c].ctx \in {old, i}
      PROVE  Keeps(h, k) \/ Loses(h, k)
  <2>0. h[i] = None
    BY <1>0, <1>2, HoldingFacts
  <2>1. \A f \in Entities : ent[f].ctx # i
    BY <1>0, <1>2, SlotFacts DEF Good, Owned
  <2>2. ASSUME NEW j \in Slots, j # i, j # old \/ ent'[c].ctx = old
        PROVE  k[j] = h[j]
    <3>1. \A f \in Entities : ent'[f].ctx = j <=> ent[f].ctx = j
      BY <1>2, <2>2
    <3> QED BY <1>0, <1>2, <2>2, <3>1, SameHolder
  <2>3. CASE ent'[c].ctx = old
    <3>1. i \in Lost(contexts', ent')
      BY <1>2, <2>1, <2>3 DEF Lost
    <3>2. k[i] = "lost"
      BY <1>0, <3>1, HoldingFacts
    <3>3. k = [h EXCEPT ![i] = "lost"]
      BY <2>2, <2>3, <3>2 DEF Holding
    <3> HIDE DEF h, k
    <3> QED BY <2>0, <3>3 DEF Loses
  <2>4. CASE ent'[c].ctx = i
    <3>1. k[i] = c
      BY <1>0, <2>4, HoldingFacts
    <3>2. CASE old = None
      <4>1. \A j \in Slots : h[j] # c
        BY <1>0, <3>2, SlotFacts, HoldingFacts
      <4>2. k = [h EXCEPT ![i] = c]
        BY <2>2, <3>1, <3>2, SlotFacts DEF Holding
      <4> HIDE DEF h, k
      <4>3. Acquires(h, k, c)
        BY <2>0, <4>1, <4>2 DEF Acquires
      <4> QED BY <1>0, <4>3 DEF Keeps
    <3>3. CASE old # None
      <4>1. old \in Slots /\ contexts[old].used /\ old # i
        BY <1>0, <1>2, <3>3 DEF Entity, Good, Owned
      <4>2. old \in Lost(contexts', ent')
        <5>1. \A f \in Entities : f # c => ent[f].ctx # old
          BY <1>0, <3>3 DEF Good, Owned
        <5> QED BY <1>2, <2>4, <4>1, <5>1 DEF Lost
      <4>3. h[old] = c /\ k[old] = "lost"
        BY <1>0, <4>1, <4>2, HoldingFacts
      <4>4. k = [h EXCEPT ![old] = "lost", ![i] = c]
        BY <2>2, <3>1, <4>1, <4>3 DEF Holding
      <4> HIDE DEF h, k, old
      <4> QED BY <1>0, <2>0, <4>1, <4>3, <4>4 DEF Loses
    <3> QED BY <3>2, <3>3
  <2> QED BY <1>2, <2>3, <2>4
<1> DEFINE named == [ent EXCEPT ![c].script = s]
<1>3. CASE Full(contexts) /\ ent' \in NoSlot(named, c) /\ UNCHANGED contexts
  <2>1. \A f \in Entities : ent'[f].ctx = ent[f].ctx
    BY <1>0, <1>3 DEF NoSlot, Good, Typed, Entity
  <2> QED BY <1>1, <1>3, <2>1
<1>4. ASSUME NEW i \in Slots, FirstFree(contexts, i),
             LET made == JS_CreateContext(contexts, i, c, q) IN
             contexts' \in {made, JS_Eval(made, i, s)},
             ent' \in {CutOff(named, c), Error(named, c), Adopt(named, c, i)}
      PROVE  Keeps(h, k) \/ Loses(h, k)
  <2>1. ~contexts[i].used
    BY <1>4 DEF FirstFree
  <2>2. contexts'[i].used /\ \A j \in Slots : j # i => contexts'[j] = contexts[j]
    BY <1>0, <1>4 DEF JS_CreateContext, JS_Eval, Fresh, Good, Typed
  <2>3. /\ \A f \in Entities : f # c => ent'[f].ctx = ent[f].ctx
        /\ ent'[c].ctx \in {old, i}
    BY <1>0, <1>4 DEF Error, CutOff, Adopt, Good, Typed, Entity
  <2> QED BY <1>2, <2>1, <2>2, <2>3
<1> QED
  BY <1>3, <1>4 DEF ApplyDupeInfo

(* Every handler maps to a step of the pool or to none, and only the three  *)
(* named ones can lose a slot.                                              *)
LEMMA NextPool ==
  ASSUME IInv, [Next]_vars
  PROVE  /\ Pool!Next \/ UNCHANGED Held
         /\ \/ Orphans' \subseteq Orphans
            \/ \E c \in Chips : ApplyDupeInfo(c)
            \/ \E p \in Players : ValidateRaises(p)
            \/ \E b \in Props : RemoveProp(b)
<1> DEFINE h == Holding(contexts, ent)
           k == Holding(contexts', ent')
<1>0. IInv' /\ Good(contexts, ent) /\ Good(contexts', ent')
  BY NextIInv DEF IInv
<1>1. \/ Keeps(h, k)
      \/ Loses(h, k) /\ \/ \E c \in Chips : ApplyDupeInfo(c)
                        \/ \E p \in Players : ValidateRaises(p)
                        \/ \E b \in Props : RemoveProp(b)
  <2>1. CASE UNCHANGED vars
    BY <2>1 DEF vars, Keeps
  <2>2. ASSUME NEW p \in Players, PlayerNext(p), ~ValidateRaises(p) PROVE Keeps(h, k)
    BY <1>0, <2>2, ToolKeeps, OtherKeeps DEF PlayerNext, Keeps
  <2>6. ASSUME NEW p \in Players, ValidateRaises(p) PROVE Loses(h, k)
    BY <1>0, <2>6, ValidateLoses
  <2>3. ASSUME NEW c \in Chips, EmitFails(c) \/ Remove(c) \/ OnRemove(c)
        PROVE  Keeps(h, k)
    BY <1>0, <2>3, OtherKeeps, OnRemoveKeeps DEF Keeps
  <2>4. ASSUME NEW c \in Chips, ApplyDupeInfo(c) PROVE Keeps(h, k) \/ Loses(h, k)
    BY <1>0, <2>4, PasteLoses
  <2>5. ASSUME NEW b \in Props, RemoveProp(b) PROVE Keeps(h, k) \/ Loses(h, k)
    BY <1>0, <2>5, RemovePropLoses DEF Keeps
  <2> HIDE DEF h, k
  <2> QED BY <2>1, <2>2, <2>3, <2>4, <2>5, <2>6 DEF Next, ChipNext
<1>2. Keeps(h, k) => Orphans' \subseteq Orphans
  <2> SUFFICES ASSUME Keeps(h, k), NEW i \in Orphans' PROVE i \in Orphans
    OBVIOUS
  <2>1. i \in Slots /\ k[i] = "lost"
    BY <1>0, PoolSteps, HoldingFacts DEF Lost
  <2>2. "lost" \notin Entities \cup {None}
    BY LostAssumption
  <2>3. h = [j \in Slots |-> h[j]]
    BY DEF Holding
  <2>4. h[i] = "lost"
    <3> HIDE DEF h, k
    <3> QED BY <2>1, <2>2, <2>3 DEF Keeps, Acquires, Renews, Releases
  <2> QED BY <1>0, <2>1, <2>4, PoolSteps, HoldingFacts
<1>3. h = Held /\ k = Held'
  BY PoolSteps
<1> HIDE DEF h, k
<1> QED
  BY <1>1, <1>2, <1>3, PoolSteps

(* The chips implement the pool of contexts: whatever clicks, uploads,      *)
(* removals and pastes interleave, a slot is free, held by one entity or    *)
(* lost, and each handler does one exchange of the pool or none.            *)
THEOREM ChipsImplementPool == Spec => PoolRefined
<1>1. Init => Pool!Init
  <2> SUFFICES ASSUME Init PROVE Held = [i \in Slots |-> None]
    BY DEF Pool!Init
  <2> QED BY SlotFacts DEF Init, Held
<1>2. IInv /\ [Next]_vars => [Pool!Next]_Held
  BY NextPool
<1> QED
  BY <1>1, <1>2, Invariance, PTL DEF Spec, PoolRefined, Pool!Spec

(* Contexts are lost by ApplyDupeInfo, by a validation that raises and by   *)
(* the removal of a prop only.                                              *)
THEOREM OrphansHaveSources == Spec => OrphanSources
<1>1. IInv /\ [Next]_vars =>
        [ Orphans' \subseteq Orphans
          \/ (\E c \in Chips : ApplyDupeInfo(c))
          \/ (\E p \in Players : ValidateRaises(p))
          \/ (\E b \in Props : RemoveProp(b)) ]_vars
  BY NextPool
<1> QED
  BY <1>1, Invariance, PTL DEF Spec, OrphanSources

(* An update of a chip that has a context never fails for want of a slot,   *)
(* however full the table is.                                               *)
THEOREM UpdateNeverLosesChip == Spec => UpdateKeepsChip
<1>1. ASSUME IInv, NEW p \in Players, NEW c \in Chips,
             LeftClick_Update(p, c), ent[c].ctx # None
      PROVE  /\ ent'[c].life = ent[c].life
             /\ ent'[c].ctx # None
             /\ contexts'[ent'[c].ctx] = Fresh(c, p)
  <2> DEFINE freed == Release(ent, c)
  <2>0. Good(contexts, ent) /\ ent[c] \in Entity
    BY <1>1, SlotFacts DEF IInv, Good, Typed
  <2>1. ent[c].ctx \in Slots /\ freed = [contexts EXCEPT ![ent[c].ctx] = NoContext]
    BY <1>1, <2>0 DEF Entity, Release, JS_FreeContext
  <2>2. freed \in [Slots -> Context \cup {NoContext}] /\ ~Full(freed)
    BY <2>0, <2>1, SlotFacts DEF Good, Typed, Full
  <2> HIDE DEF freed
  <2>3. PICK i \in Slots : /\ contexts' = JS_CreateContext(freed, i, c, p)
                           /\ ent' = [ent EXCEPT ![c].ctx = i]
    BY <1>1, <2>2 DEF LeftClick_Update, Update, freed
  <2>4. ent'[c].ctx = i /\ ent'[c].life = ent[c].life
    BY <2>0, <2>3, SlotFacts DEF Good, Typed, Entity
  <2>5. contexts'[i] = Fresh(c, p)
    BY <2>2, <2>3 DEF JS_CreateContext
  <2> QED BY <2>4, <2>5, SlotFacts
<1>2. IInv /\ [Next]_vars =>
        [ \A p \in Players, c \in Chips :
            LeftClick_Update(p, c) /\ ent[c].ctx # None =>
              /\ ent'[c].life = ent[c].life
              /\ ent'[c].ctx # None
              /\ contexts'[ent'[c].ctx] = Fresh(c, p) ]_vars
  BY <1>1
<1> QED
  BY <1>2, Invariance, PTL DEF Spec, UpdateKeepsChip
=============================================================================
