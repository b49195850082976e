------------------------ MODULE ChipLifecycle_proofs ------------------------
(***************************************************************************)
(* Proofs about ChipLifecycle, for any number of chips, props, players,    *)
(* scripts, slots and open requests.                                       *)
(***************************************************************************)
EXTENDS ChipLifecycle, TLAPS

(* The parts of the inductive invariant, as predicates of a table t and of *)
(* entity fields es: LeftClick_Update works on the fields of an entity the *)
(* same handler has just spawned, which are not those of the state.        *)
Typed(t, es)   == /\ t \in [Slots -> Context \cup {NoContext}]
                  /\ es \in [Entities -> Entity]
Owned(t, es)   == \A e \in Entities :
                    es[e].ctx # None => /\ t[es[e].ctx].used
                                        /\ t[es[e].ctx].ent = e
Running(es)    == \A c \in Chips : es[c].run => /\ es[c].ctx # None
                                                /\ es[c].life # "none"
Saved(t, es)   == \A c \in Chips :
                    es[c].run /\ ~es[c].cut =>
                      t[es[c].ctx].code \in {es[c].script, None}
Blank(es)      == \A e \in Entities : es[e].life = "none" => es[e].ctx = None

Good(t, es) == /\ Typed(t, es)
               /\ Owned(t, es)
               /\ Running(es)
               /\ Saved(t, es)
               /\ Blank(es)

(* The inductive invariant.  HandleOwned makes a write to one entity's      *)
(* context harmless for the others; the four parts need each other because *)
(* SavedIsRunning follows the handle of a running chip into the table.     *)
IInv == TypeOK /\ Good(contexts, ent)

(* Handles and nil are told apart: nil is no slot number, and both fields  *)
(* of NoContext and of a context say whether the slot is used.             *)
LEMMA SlotFacts ==
  /\ None \notin Slots
  /\ ~NoContext.used
  /\ \A x \in Context : x.used
  /\ Chips \subseteq Entities
  /\ Props \subseteq Entities
<1>1. None \notin Slots
  BY NoneAssumption, SizeAssumption DEF Slots
<1>2. ~NoContext.used
  BY DEF NoContext
<1>3. \A x \in Context : x.used
  BY DEF Context
<1>4. Chips \subseteq Entities /\ Props \subseteq Entities
  BY DEF Entities
<1> QED
  BY <1>1, <1>2, <1>3, <1>4

(* Creating a context in an empty slot disturbs no entity: no handle names *)
(* an empty slot.                                                          *)
LEMMA CreateGood ==
  ASSUME NEW t, NEW es, Good(t, es), NEW i \in Slots, ~t[i].used,
         NEW e \in Entities \cup Players, NEW p \in Players
  PROVE  /\ Good(JS_CreateContext(t, i, e, p), es)
         /\ \A f \in Entities : es[f].ctx # i
<1> DEFINE u == JS_CreateContext(t, i, e, p)
<1>1. Fresh(e, p) \in Context
  BY DEF Fresh, Context
<1>2. u \in [Slots -> Context \cup {NoContext}]
  BY <1>1 DEF Good, Typed, JS_CreateContext
<1>3. \A f \in Entities : es[f].ctx # i
  BY SlotFacts DEF Good, Owned
<1>4. \A j \in Slots : j # i => u[j] = t[j]
  BY DEF Good, Typed, JS_CreateContext
<1>5. Owned(u, es)
  BY <1>3, <1>4 DEF Good, Typed, Owned, Entity
<1>6. Saved(u, es)
  BY <1>3, <1>4, SlotFacts DEF Good, Typed, Running, Saved, Entity
<1> HIDE DEF u
<1>7. Good(u, es)
  BY <1>2, <1>5, <1>6 DEF Good, Typed
<1> QED
  BY <1>3, <1>7 DEF u

(* Freeing a slot no handle names disturbs no entity. *)
LEMMA FreeGood ==
  ASSUME NEW t, NEW es, Good(t, es), NEW i \in Slots,
         \A f \in Entities : es[f].ctx # i
  PROVE  Good(JS_FreeContext(t, i), es)
<1> DEFINE u == JS_FreeContext(t, i)
<1>1. u \in [Slots -> Context \cup {NoContext}]
  BY DEF Good, Typed, JS_FreeContext
<1>2. \A j \in Slots : j # i => u[j] = t[j]
  BY DEF Good, Typed, JS_FreeContext
<1>3. Owned(u, es)
  BY <1>2 DEF Good, Typed, Owned, Entity
<1>4. Saved(u, es)
  BY <1>2, SlotFacts DEF Good, Typed, Running, Saved, Entity
<1> HIDE DEF u
<1>5. Good(u, es)
  BY <1>1, <1>3, <1>4 DEF Good, Typed
<1> QED
  BY <1>5 DEF u

(* Evaluating a script in a context whose chip does not run yet. *)
LEMMA EvalGood ==
  ASSUME NEW t, NEW es, Good(t, es), NEW i \in Slots, t[i].used,
         NEW s \in Scripts,
         \A c \in Chips : es[c].ctx = i => ~es[c].run
  PROVE  Good(JS_Eval(t, i, s), es)
<1> DEFINE u == JS_Eval(t, i, s)
<1>0. t[i] \in Context
  BY SlotFacts DEF Good, Typed
<1>1. /\ u \in [Slots -> Context \cup {NoContext}]
      /\ u[i].used = t[i].used
      /\ u[i].ent = t[i].ent
  BY <1>0 DEF Good, Typed, JS_Eval, Context
<1>2. \A j \in Slots : j # i => u[j] = t[j]
  BY DEF Good, Typed, JS_Eval
<1>3. Owned(u, es)
  BY <1>1, <1>2 DEF Good, Typed, Owned, Entity
<1>4. Saved(u, es)
  BY <1>2, SlotFacts DEF Good, Typed, Running, Saved, Entity
<1> HIDE DEF u
<1>5. Good(u, es)
  BY <1>1, <1>3, <1>4 DEF Good, Typed
<1> QED
  BY <1>5 DEF u

(* What the new fields x of one entity e must satisfy: its handle, if any,  *)
(* names a context made for e, and a running chip has saved what it runs.   *)
Fits(t, e, x) ==
  /\ x \in Entity
  /\ x.ctx # None => t[x.ctx].used /\ t[x.ctx].ent = e
  /\ x.life = "none" => x.ctx = None
  /\ e \in Chips /\ x.run =>
       /\ x.ctx # None
       /\ x.cut \/ t[x.ctx].code \in {x.script, None}

(* Replacing the fields of one entity by fitting ones. *)
LEMMA SetGood ==
  ASSUME NEW t, NEW es, Good(t, es), NEW e \in Entities, NEW x, Fits(t, e, x)
  PROVE  Good(t, [es EXCEPT ![e] = x])
<1> DEFINE fs == [es EXCEPT ![e] = x]
<1>1. fs \in [Entities -> Entity]
  BY DEF Good, Typed, Fits
<1>2. fs[e] = x /\ \A f \in Entities : f # e => fs[f] = es[f]
  BY DEF Good, Typed
<1> HIDE DEF fs
<1>3. Owned(t, fs)
  BY <1>2 DEF Good, Owned, Fits
<1>4. Running(fs)
  <2>1. ASSUME NEW c \in Chips, fs[c].run PROVE fs[c].ctx # None /\ fs[c].life # "none"
    <3>1. CASE c = e
      <4>1. fs[c] = x /\ e \in Chips /\ x.run
        BY <1>2, <2>1, <3>1, Zenon
      <4> QED BY <2>1, <4>1 DEF Fits
    <3>2. CASE c # e
      BY <1>2, <2>1, <3>2, SlotFacts DEF Good, Running
    <3> QED BY <3>1, <3>2
  <2> QED BY <2>1 DEF Running
<1>5. Saved(t, fs)
  <2>1. ASSUME NEW c \in Chips, fs[c].run, ~fs[c].cut
        PROVE  t[fs[c].ctx].code \in {fs[c].script, None}
    <3>1. CASE c = e
      <4>1. fs[c] = x /\ e \in Chips /\ x.run
        BY <1>2, <2>1, <3>1, Zenon
      <4> QED BY <2>1, <4>1 DEF Fits
    <3>2. CASE c # e
      BY <1>2, <2>1, <3>2, SlotFacts DEF Good, Saved
    <3> QED BY <3>1, <3>2
  <2> QED BY <2>1 DEF Saved
<1>6. Blank(fs)
  BY <1>2 DEF Good, Blank, Fits
<1>7. Good(t, fs)
  BY <1>1, <1>3, <1>4, <1>5, <1>6 DEF Good, Typed
<1> QED
  BY <1>7 DEF fs

(* TypeOK for the table and the entities is the typing part of Good. *)
LEMMA IInvParts ==
  IInv <=> /\ Good(contexts, ent)
           /\ target \in [Players -> Entities \cup {None}]
           /\ requests \in [Players -> 0 .. MaxRequests]
           /\ paste \in [Chips -> PasteInfo \cup {NoPaste}]
BY DEF IInv, TypeOK, ContextsType, Good, Typed

(* LeftClick_Update on entity fields es that are in order: whatever the     *)
(* state of the table, the handler leaves a good one.                       *)
LEMMA UpdateGood ==
  ASSUME NEW es, Good(contexts, es), NEW p \in Players, NEW e \in Entities,
         es[e].life # "none", Update(es, p, e)
  PROVE  Good(contexts', ent')
<1> DEFINE freed == Release(es, e)
           bare  == [es[e] EXCEPT !.ctx = None, !.run = FALSE]
           fs    == [es EXCEPT ![e] = bare]
<1>1. es[e] \in Entity
  BY DEF Good, Typed
<1>2. Fits(contexts, e, bare)
  BY <1>1 DEF Fits, Entity
<1>3. Good(contexts, fs)
  <2> HIDE DEF bare
  <2> QED BY <1>2, SetGood
<1>4. Good(freed, fs)
  <2>1. CASE es[e].ctx = None
    BY <1>3, <2>1 DEF Release
  <2>2. CASE es[e].ctx # None
    <3>1. es[e].ctx \in Slots
      BY <1>1, <2>2 DEF Entity
    <3>2. \A f \in Entities : f # e => es[f].ctx # es[e].ctx
      BY <2>2 DEF Good, Owned
    <3>3. \A f \in Entities : fs[f].ctx # es[e].ctx
      BY <1>1, <2>2, <3>2 DEF Good, Typed, Entity
    <3> HIDE DEF fs
    <3> QED BY <1>3, <2>2, <3>1, <3>3, FreeGood DEF Release
  <2> QED BY <2>1, <2>2
<1>5. ASSUME NEW i \in Slots, FirstFree(freed, i),
             contexts' = JS_CreateContext(freed, i, e, p),
             ent' = [es EXCEPT ![e].ctx = i]
      PROVE  Good(contexts', ent')
  <2> DEFINE x == [es[e] EXCEPT !.ctx = i]
  <2>1. Good(contexts', fs)
    <3> HIDE DEF fs, freed
    <3> QED BY <1>4, <1>5, CreateGood DEF FirstFree
  <2>2. contexts'[i] = Fresh(e, p)
    <3> HIDE DEF fs, freed
    <3> QED BY <1>4, <1>5 DEF Good, Typed, JS_CreateContext
  <2>3. Fits(contexts', e, x)
    BY <1>1, <1>5, <2>2, SlotFacts DEF Fits, Entity, Fresh
  <2>4. ent' = [fs EXCEPT ![e] = x]
    BY <1>1, <1>5 DEF Good, Typed, Entity
  <2> HIDE DEF x, fs
  <2> QED BY <2>1, <2>3, <2>4, SetGood
<1>6. ASSUME Full(freed), contexts' = freed,
             IF e \in Chips THEN ent' \in NoSlot(es, e) ELSE ent' = es
      PROVE  Good(contexts', ent')
  <2>1. es[e].ctx = None
    <3> SUFFICES ASSUME es[e].ctx # None PROVE FALSE
      OBVIOUS
    <3>1. es[e].ctx \in Slots /\ ~freed[es[e].ctx].used
      BY <1>1, SlotFacts DEF Good, Typed, Entity, Release, JS_FreeContext
    <3> QED BY <1>6, <3>1 DEF Full
  <2>2. CASE e \in Chips
    <3>0. PICK life \in {"removing", es[e].life} :
            ent' = [es EXCEPT ![e].run = FALSE, ![e].life = life]
      BY <1>6, <2>2 DEF NoSlot
    <3> DEFINE x == [es[e] EXCEPT !.run = FALSE, !.life = life]
    <3>1. Fits(contexts, e, x)
      BY <1>1, <2>1, <3>0 DEF Fits, Entity
    <3>2. ent' = [es EXCEPT ![e] = x]
      BY <1>1, <3>0 DEF Good, Typed, Entity
    <3>3. contexts' = contexts
      BY <1>6, <2>1 DEF Release
    <3> HIDE DEF x, freed
    <3> QED BY <3>1, <3>2, <3>3, SetGood
  <2>3. CASE e \notin Chips
    BY <1>6, <2>1, <2>3 DEF Release
  <2> QED BY <2>2, <2>3
<1> QED
  BY <1>5, <1>6 DEF Update

(* The handlers that update an entity with the tool. *)
LEMMA ToolStep ==
  ASSUME IInv, NEW p \in Players,
         \/ \E c \in Chips : LeftClick_Update(p, c) \/ MakeEnt(p, c)
         \/ \E b \in Props : MakeEntRefused(p, b)
  PROVE  IInv'
<1>0. /\ Good(contexts, ent)
      /\ target \in [Players -> Entities \cup {None}]
      /\ requests \in [Players -> 0 .. MaxRequests]
      /\ paste \in [Chips -> PasteInfo \cup {NoPaste}]
  BY IInvParts
<1>1. ASSUME NEW e \in Entities, NEW es, Good(contexts, es),
             es[e].life # "none", requests[p] < MaxRequests, Update(es, p, e),
             UNCHANGED paste
      PROVE  IInv'
  <2>1. Good(contexts', ent')
    BY <1>1, UpdateGood
  <2>2. target' \in [Players -> Entities \cup {None}]
    BY <1>0, <1>1 DEF Update
  <2>3. requests' \in [Players -> 0 .. MaxRequests]
    BY <1>0, <1>1, RequestAssumption DEF Update
  <2> QED BY <1>0, <1>1, <2>1, <2>2, <2>3, IInvParts DEF IInv, TypeOK, ContextsType, Good, Typed
<1>2. ASSUME NEW c \in Chips, LeftClick_Update(p, c) PROVE IInv'
  BY <1>0, <1>1, <1>2, SlotFacts DEF LeftClick_Update, Exists
<1>3. ASSUME NEW b \in Props, MakeEntRefused(p, b) PROVE IInv'
  BY <1>0, <1>1, <1>3, SlotFacts DEF MakeEntRefused, Exists
<1>4. ASSUME NEW c \in Chips, MakeEnt(p, c) PROVE IInv'
  <2> DEFINE es == [ent EXCEPT ![c] = Initialize(p)]
  <2>1. /\ Fits(contexts, c, Initialize(p))
        /\ Initialize(p).life = "live"
    BY DEF Fits, Initialize, NoEntity, Entity
  <2>2. Good(contexts, es) /\ es[c].life = "live"
    BY <1>0, <2>1, SlotFacts, SetGood DEF Good, Typed
  <2> HIDE DEF es
  <2>3. requests[p] < MaxRequests /\ Update(es, p, c) /\ UNCHANGED paste
    BY <1>4 DEF MakeEnt, es
  <2> QED BY <1>1, <2>2, <2>3, SlotFacts
<1> QED
  BY <1>2, <1>3, <1>4

(* The last chunk of an upload compiled and evaluated on its target. *)
LEMMA ReceiveStep ==
  ASSUME IInv, NEW p \in Players, NEW s \in Scripts, ReceiveCode(p, s)
  PROVE  IInv'
<1>0. /\ Good(contexts, ent)
      /\ target \in [Players -> Entities \cup {None}]
      /\ requests \in [Players -> 0 .. MaxRequests]
      /\ paste \in [Chips -> PasteInfo \cup {NoPaste}]
  BY IInvParts
<1>1. requests' \in [Players -> 0 .. MaxRequests]
  BY <1>0, RequestAssumption DEF ReceiveCode
<1>2. Good(contexts', ent')
  <2>1. CASE ~(target[p] # None /\ ent[target[p]].ctx # None)
    BY <1>0, <2>1 DEF ReceiveCode
  <2>2. CASE target[p] # None /\ ent[target[p]].ctx # None
    <3> DEFINE e == target[p]
               h == ent[e].ctx
               still == [ent[e] EXCEPT !.run = FALSE]
               es == [ent EXCEPT ![e] = still]
    <3>1. e \in Entities /\ ent[e] \in Entity /\ h \in Slots /\ h # None
      BY <1>0, <2>2 DEF Good, Typed, Entity
    <3>2. contexts[h].used /\ contexts[h].ent = e
      BY <1>0, <2>2, <3>1 DEF Good, Owned
    <3>3. ent[e].life # "none"
      BY <1>0, <2>2, <3>1 DEF Good, Blank
    <3>4. RunUpload(e, s)
      BY <2>2 DEF ReceiveCode
    <3> HIDE DEF e
    <3>5. still \in Entity /\ still.ctx = h /\ ~still.run /\ still.life # "none"
      BY <3>1, <3>3 DEF Entity
    <3>6. Fits(contexts, e, still)
      BY <3>2, <3>5 DEF Fits
    <3>7. Good(contexts, es)
      <4> HIDE DEF still
      <4> QED BY <1>0, <3>1, <3>6, SetGood
    <3>8. /\ es[e] = still
          /\ \A f \in Entities : f # e => es[f] = ent[f]
      <4> HIDE DEF still
      <4> QED BY <1>0, <3>1 DEF Good, Typed
    <3>9. CASE ent' \in {Error(ent, e), CutOff([ent EXCEPT ![e].run = TRUE], e)} /\ UNCHANGED contexts
      <4> DEFINE cut == [ent[e] EXCEPT !.run = TRUE, !.cut = TRUE]
      <4>1. ent' = ent \/ ent' = es \/ ent' = [es EXCEPT ![e] = cut]
        BY <1>0, <3>1, <3>9 DEF Error, CutOff, Good, Typed, Entity
      <4>2. cut \in Entity /\ cut.ctx = h /\ cut.life = ent[e].life /\ cut.cut
        BY <3>1 DEF Entity
      <4> HIDE DEF es, cut
      <4>3. Fits(contexts, e, cut)
        BY <3>1, <3>2, <3>3, <4>2 DEF Fits
      <4>4. Good(contexts, [es EXCEPT ![e] = cut])
        BY <3>1, <3>7, <4>3, SetGood
      <4> QED BY <1>0, <3>7, <3>9, <4>1, <4>4
    <3>10. CASE contexts' = JS_Eval(contexts, h, s)
      <4>1. \A c \in Chips : es[c].ctx = h => ~es[c].run
        <5> SUFFICES ASSUME NEW c \in Chips, es[c].ctx = h PROVE ~es[c].run
          OBVIOUS
        <5> HIDE DEF es, still
        <5>1. CASE c = e
          BY <3>5, <3>8, <5>1
        <5>2. CASE c # e
          BY <1>0, <2>2, <3>2, <3>8, <5>2, SlotFacts DEF Good, Owned, e
        <5> QED BY <5>1, <5>2
      <4>2. Good(contexts', es)
        <5> HIDE DEF es, h
        <5> QED BY <3>1, <3>2, <3>7, <3>10, <4>1, EvalGood
      <4>3. /\ contexts'[h].used
            /\ contexts'[h].ent = e
            /\ contexts'[h].code = s
        <5>1. contexts[h] \in Context
          BY <1>0, <3>1, <3>2, SlotFacts DEF Good, Typed
        <5> QED BY <1>0, <3>1, <3>2, <3>10, <5>1 DEF JS_Eval, Context, Good, Typed
      <4>4. ASSUME NEW x, x \in Entity, x.ctx = h, x.life = ent[e].life,
                   e \in Chips /\ x.run => x.cut \/ x.script = s,
                   ent' = [es EXCEPT ![e] = x]
            PROVE  Good(contexts', ent')
        <5> HIDE DEF es, still, h
        <5>1. Fits(contexts', e, x)
          BY <3>1, <3>3, <4>3, <4>4 DEF Fits
        <5> QED BY <3>1, <4>2, <4>4, <5>1, SetGood
      <4> DEFINE ran   == [ent[e] EXCEPT !.run = TRUE, !.script = s, !.cut = FALSE]
                 threw == [ent[e] EXCEPT !.run = FALSE, !.script = s, !.cut = FALSE]
                 cut   == [ent[e] EXCEPT !.run = TRUE, !.cut = TRUE]
                 mute  == [ent[e] EXCEPT !.run = FALSE, !.cut = TRUE]
      <4>5. \/ ent' \in {[es EXCEPT ![e] = ran], [es EXCEPT ![e] = threw],
                         [es EXCEPT ![e] = cut], [es EXCEPT ![e] = mute]}
            \/ /\ UNCHANGED contexts
               /\ ent' \in {Error(ent, e), CutOff([ent EXCEPT ![e].run = TRUE], e)}
        <5>1. /\ Save([ent EXCEPT ![e].run = TRUE], e, s) = [es EXCEPT ![e] = ran]
              /\ e \in Chips => Error(Save([ent EXCEPT ![e].run = TRUE], e, s), e) = [es EXCEPT ![e] = threw]
              /\ CutOff([ent EXCEPT ![e].run = TRUE], e) = [es EXCEPT ![e] = cut]
              /\ e \in Chips => CutOff(Error([ent EXCEPT ![e].run = TRUE], e), e) = [es EXCEPT ![e] = mute]
          BY <1>0, <3>1 DEF Save, Error, CutOff, Good, Typed, Entity
        <5> HIDE DEF ran, threw, cut, mute, es
        <5> QED BY <3>4, <5>1 DEF RunUpload
      <4>6. /\ ran \in Entity /\ ran.ctx = h /\ ran.life = ent[e].life /\ ran.script = s
            /\ threw \in Entity /\ threw.ctx = h /\ threw.life = ent[e].life /\ threw.script = s
            /\ cut \in Entity /\ cut.ctx = h /\ cut.life = ent[e].life /\ cut.cut
            /\ mute \in Entity /\ mute.ctx = h /\ mute.life = ent[e].life /\ mute.cut
        BY <3>1 DEF Entity
      <4> HIDE DEF ran, threw, cut, mute, es
      <4> QED BY <3>9, <4>4, <4>5, <4>6
    <3> QED
      BY <3>4, <3>9, <3>10 DEF RunUpload
  <2> QED BY <2>1, <2>2
<1> QED
  BY <1>0, <1>1, <1>2 DEF ReceiveCode, IInv, TypeOK, ContextsType, Good, Typed

(* A pasted chip receives its script, and a context when that evaluates. *)
LEMMA PasteStep ==
  ASSUME IInv, NEW c \in Chips, ApplyDupeInfo(c)
  PROVE  IInv'
<1>0. /\ Good(contexts, ent)
      /\ target \in [Players -> Entities \cup {None}]
      /\ requests \in [Players -> 0 .. MaxRequests]
      /\ paste \in [Chips -> PasteInfo \cup {NoPaste}]
  BY IInvParts
<1> DEFINE s == paste[c].script
           q == paste[c].ply
           old == ent[c]
<1>1. c \in Entities /\ old \in Entity /\ old.life # "none"
  BY <1>0, SlotFacts DEF ApplyDupeInfo, Exists, Good, Typed
<1>2. paste[c] \in PasteInfo /\ s \in Scripts \cup {None} /\ q \in Players
  <2>1. paste[c] \in PasteInfo \cup {NoPaste} /\ paste[c].pending
    BY <1>0 DEF ApplyDupeInfo
  <2>2. ~NoPaste.pending
    BY DEF NoPaste
  <2>3. paste[c] \in PasteInfo
    BY <2>1, <2>2, Zenon
  <2> QED BY <2>3 DEF PasteInfo
<1>3. old.ctx # None => contexts[old.ctx].used /\ contexts[old.ctx].ent = c
  BY <1>0, <1>1 DEF Good, Owned
<1>4. Good(contexts', ent')
  <2> DEFINE stopped == [old EXCEPT !.script = s, !.run = FALSE]
             dying   == [stopped EXCEPT !.life = "removing"]
             named   == [old EXCEPT !.script = s, !.cut = TRUE]
  <2>1. /\ \A x \in {stopped, dying} : x \in Entity /\ x.ctx = old.ctx /\ ~x.run
        /\ stopped.life = old.life /\ dying.life = "removing"
    BY <1>1, <1>2 DEF Entity
  <2>2. /\ Fits(contexts, c, stopped)
        /\ Fits(contexts, c, dying)
    <3> HIDE DEF stopped, dying
    <3> QED BY <1>1, <1>3, <2>1 DEF Fits
  <2>3. CASE /\ UNCHANGED contexts
             /\ ent' \in {[ent EXCEPT ![c] = stopped], [ent EXCEPT ![c] = dying]}
    <3> HIDE DEF stopped, dying
    <3> QED BY <1>0, <1>1, <2>2, <2>3, SetGood
  <2>4. ASSUME NEW i \in Slots, ~contexts[i].used,
               \/ /\ contexts' = JS_CreateContext(contexts, i, c, q)
                  /\ ent' \in {[ent EXCEPT ![c] = named], [ent EXCEPT ![c] = stopped]}
               \/ /\ s # None
                  /\ contexts' = JS_Eval(JS_CreateContext(contexts, i, c, q), i, s)
                  /\ ent' \in {[ent EXCEPT ![c] = named], [ent EXCEPT ![c] = stopped],
                       [ent EXCEPT ![c] = [old EXCEPT !.script = s, !.run = TRUE, !.ctx = i, !.cut = FALSE]]}
        PROVE  Good(contexts', ent')
    <3> DEFINE made == JS_CreateContext(contexts, i, c, q)
               es   == [ent EXCEPT ![c] = stopped]
    <3>1. /\ Good(made, ent)
          /\ \A f \in Entities : ent[f].ctx # i
      BY <1>0, <1>1, <1>2, <2>4, CreateGood
    <3>2. made[i] = Fresh(c, q)
      BY <1>0, <2>4 DEF JS_CreateContext, Good, Typed
    <3> HIDE DEF made
    <3>3. Fits(made, c, stopped)
      <4> HIDE DEF stopped
      <4>1. old.ctx # None => made[old.ctx].used /\ made[old.ctx].ent = c
        BY <1>1, <3>1 DEF Good, Owned
      <4> QED BY <1>1, <2>1, <4>1 DEF Fits
    <3>4. Good(made, es)
      <4> HIDE DEF stopped
      <4> QED BY <1>1, <3>1, <3>3, SetGood
    <3>5. CASE contexts' = made /\ ent' = [ent EXCEPT ![c] = stopped]
      BY <3>4, <3>5
    <3>6. ASSUME NEW t, Good(t, es), ent' = [ent EXCEPT ![c] = named], contexts' = t
          PROVE  Good(contexts', ent')
      <4>1. named \in Entity /\ named.ctx = old.ctx /\ named.life = old.life
            /\ named.cut /\ named.run = old.run
        BY <1>1, <1>2 DEF Entity
      <4> HIDE DEF named
      <4>2. old.ctx # None => t[old.ctx].used /\ t[old.ctx].ent = c
        <5>1. es[c].ctx = old.ctx
          BY <1>0, <1>1, <2>1 DEF Good, Typed
        <5> QED BY <1>1, <3>6, <5>1 DEF Good, Owned
      <4>3. old.run => old.ctx # None
        BY <1>0 DEF Good, Running
      <4>4. Fits(t, c, named)
        BY <1>1, <4>1, <4>2, <4>3 DEF Fits
      <4>5. ent' = [es EXCEPT ![c] = named]
        BY <1>0, <1>1, <3>6 DEF Good, Typed
      <4> HIDE DEF es, old
      <4>6. Good(t, [es EXCEPT ![c] = named])
        BY <1>1, <3>6, <4>4, SetGood
      <4> QED BY <3>6, <4>5, <4>6
    <3>7. ASSUME s # None, contexts' = JS_Eval(made, i, s)
          PROVE  /\ Good(contexts', es)
                 /\ contexts'[i] = [Fresh(c, q) EXCEPT !.code = s]
      <4>1. made[i].used
        BY <3>2 DEF Fresh
      <4>2. \A d \in Chips : es[d].ctx # i
        BY <1>0, <1>1, <3>1, <2>1, SlotFacts DEF Good, Typed
      <4>3. contexts'[i] = [made[i] EXCEPT !.code = s]
        BY <3>1, <3>7 DEF JS_Eval, Good, Typed
      <4> HIDE DEF es
      <4> QED BY <1>2, <3>2, <3>4, <3>7, <4>1, <4>2, <4>3, EvalGood
    <3>8. CASE s # None /\ contexts' = JS_Eval(made, i, s) /\ ent' = [ent EXCEPT ![c] = stopped]
      BY <3>7, <3>8
    <3>9. CASE /\ s # None /\ contexts' = JS_Eval(made, i, s)
               /\ ent' = [ent EXCEPT ![c] = [old EXCEPT !.script = s, !.run = TRUE, !.ctx = i, !.cut = FALSE]]
      <4> DEFINE x == [old EXCEPT !.script = s, !.run = TRUE, !.ctx = i, !.cut = FALSE]
      <4>1. /\ x \in Entity /\ x.ctx = i /\ x.life = old.life /\ x.script = s
            /\ i # None
        BY <1>1, <1>2, SlotFacts DEF Entity
      <4>2. /\ contexts'[i].used /\ contexts'[i].ent = c /\ contexts'[i].code = s
        BY <3>7, <3>9 DEF Fresh
      <4>3. ent' = [es EXCEPT ![c] = x]
        <5> HIDE DEF x, stopped
        <5> QED BY <1>0, <1>1, <3>9 DEF Good, Typed, x
      <4> HIDE DEF x, es
      <4>4. Fits(contexts', c, x)
        BY <1>1, <4>1, <4>2 DEF Fits
      <4>5. Good(contexts', es)
        BY <3>7, <3>9
      <4> QED BY <1>1, <4>3, <4>4, <4>5, SetGood
    <3>10. CASE contexts' = made /\ ent' = [ent EXCEPT ![c] = named]
      <4> HIDE DEF es, named
      <4> QED BY <3>4, <3>6, <3>10
    <3>11. CASE s # None /\ contexts' = JS_Eval(made, i, s) /\ ent' = [ent EXCEPT ![c] = named]
      <4> HIDE DEF es, named
      <4> QED BY <3>6, <3>7, <3>11
    <3> HIDE DEF es, named, stopped
    <3> QED
      BY <2>4, <3>5, <3>8, <3>9, <3>10, <3>11 DEF made
  <2>5. /\ Error([ent EXCEPT ![c].script = s], c) = [ent EXCEPT ![c] = stopped]
        /\ CutOff([ent EXCEPT ![c].script = s], c) = [ent EXCEPT ![c] = named]
    BY <1>0, <1>1 DEF Error, CutOff, Good, Typed, Entity
  <2>6. ASSUME ent' \in NoSlot([ent EXCEPT ![c].script = s], c)
        PROVE  ent' \in {[ent EXCEPT ![c] = stopped], [ent EXCEPT ![c] = dying]}
    <3>1. PICK life \in {"removing", [ent EXCEPT ![c].script = s][c].life} :
            ent' = [[ent EXCEPT ![c].script = s] EXCEPT ![c].run = FALSE, ![c].life = life]
      BY <2>6 DEF NoSlot
    <3>2. ent' = [ent EXCEPT ![c] = [stopped EXCEPT !.life = life]]
      BY <1>0, <1>1, <3>1 DEF Good, Typed, Entity
    <3>3. life \in {"removing", old.life} /\ [stopped EXCEPT !.life = old.life] = stopped
      BY <1>0, <1>1, <1>2, <3>1 DEF Good, Typed, Entity
    <3> HIDE DEF stopped
    <3> QED BY <3>2, <3>3
  <2>7. \A i \in Slots :
          Adopt([ent EXCEPT ![c].script = s], c, i)
             = [ent EXCEPT ![c] = [old EXCEPT !.script = s, !.run = TRUE, !.ctx = i, !.cut = FALSE]]
    BY <1>0, <1>1 DEF Adopt, Good, Typed, Entity
  <2> HIDE DEF stopped, dying, named
  <2> QED
    BY <2>3, <2>4, <2>5, <2>6, <2>7 DEF ApplyDupeInfo, FirstFree
<1>5. paste' \in [Chips -> PasteInfo \cup {NoPaste}]
  BY <1>0 DEF ApplyDupeInfo
<1> QED
  BY <1>0, <1>4, <1>5 DEF ApplyDupeInfo, IInv, TypeOK, ContextsType, Good, Typed

(* Steps that touch no entity: a click on the world, an unanswered request *)
(* and a validation, which ends with the table it began with or with one   *)
(* more context that no entity has.                                        *)
LEMMA MessageStep ==
  ASSUME IInv, NEW p \in Players,
         NoReply(p) \/ ValidateCode(p) \/ ValidateRaises(p) \/ MakeEntAtWorld(p)
  PROVE  IInv'
<1>0. CASE MakeEntAtWorld(p)
  BY <1>0 DEF MakeEntAtWorld, IInv, TypeOK, ContextsType, Good, Typed
<1>1. CASE NoReply(p)
  BY <1>1, RequestAssumption DEF NoReply, IInv, TypeOK, ContextsType, Good, Typed
<1>2. CASE ValidateCode(p)
  <2>1. contexts \in [Slots -> Context \cup {NoContext}]
    BY DEF IInv, Good, Typed
  <2>2. PICK i \in Slots :
          /\ FirstFree(contexts, i)
          /\ contexts' = JS_FreeContext(JS_CreateContext(contexts, i, p, p), i)
    BY <1>2 DEF ValidateCode
  <2>3. contexts[i] = NoContext
    BY <2>1, <2>2, SlotFacts DEF FirstFree
  <2>4. contexts' = contexts
    BY <2>1, <2>2, <2>3 DEF JS_FreeContext, JS_CreateContext
  <2> QED
    BY <1>2, <2>4 DEF ValidateCode, IInv, TypeOK, ContextsType, Good, Typed
<1>3. CASE ValidateRaises(p)
  <2>1. Good(contexts, ent)
    BY DEF IInv
  <2>2. PICK i \in Slots : /\ FirstFree(contexts, i)
                           /\ contexts' = JS_CreateContext(contexts, i, p, p)
    BY <1>3 DEF ValidateRaises
  <2>3. Good(contexts', ent)
    BY <2>1, <2>2, CreateGood DEF FirstFree
  <2> QED
    BY <1>3, <2>3 DEF ValidateRaises, IInv, TypeOK, ContextsType, Good, Typed
<1> QED
  BY <1>0, <1>1, <1>2, <1>3

(* Steps that replace the fields of one entity: a listener that throws, a   *)
(* removal, a spawn by the duplicator.                                      *)
LEMMA EntityStep ==
  ASSUME IInv,
         \/ \E c \in Chips : \/ EmitFails(c) \/ Remove(c) \/ OnRemove(c)
                             \/ \E p \in Players, s \in Scripts \cup {None} :
                                  PasteSpawn(p, c, s)
         \/ \E b \in Props : RemoveProp(b)
  PROVE  IInv'
<1>0. /\ Good(contexts, ent)
      /\ target \in [Players -> Entities \cup {None}]
      /\ requests \in [Players -> 0 .. MaxRequests]
      /\ paste \in [Chips -> PasteInfo \cup {NoPaste}]
  BY IInvParts
<1>1. \A e \in Entities : ent[e] \in Entity
  BY <1>0 DEF Good, Typed
<1>2. ASSUME NEW e \in Entities, NEW x, Fits(contexts, e, x),
             ent' = [ent EXCEPT ![e] = x], UNCHANGED contexts
      PROVE  Good(contexts', ent')
  BY <1>0, <1>2, SetGood
<1>3. ASSUME NEW c \in Chips, EmitFails(c) PROVE IInv'
  <2> DEFINE x == [ent[c] EXCEPT !.run = FALSE]
  <2>1. c \in Entities /\ ent[c].ctx # None => contexts[ent[c].ctx].used /\ contexts[ent[c].ctx].ent = c
    BY <1>0 DEF Good, Owned
  <2>2. Fits(contexts, c, x)
    BY <1>1, <1>3, <2>1, SlotFacts DEF Fits, Entity, EmitFails, Exists
  <2>3. ent' = [ent EXCEPT ![c] = x]
    BY <1>0, <1>1, <1>3, SlotFacts DEF EmitFails, Error, Good, Typed, Entity
  <2> HIDE DEF x
  <2>4. Good(contexts', ent')
    BY <1>2, <1>3, <2>2, <2>3, SlotFacts DEF EmitFails
  <2> QED
    BY <1>0, <1>3, <2>4 DEF EmitFails, IInv, TypeOK, ContextsType, Good, Typed
<1>4. ASSUME NEW c \in Chips, Remove(c) PROVE IInv'
  <2> DEFINE x == [ent[c] EXCEPT !.life = "removing"]
  <2>1. /\ ent[c].ctx # None => contexts[ent[c].ctx].used /\ contexts[ent[c].ctx].ent = c
        /\ ent[c].run => ent[c].ctx # None
        /\ ent[c].run /\ ~ent[c].cut =>
             contexts[ent[c].ctx].code \in {ent[c].script, None}
    BY <1>0, SlotFacts DEF Good, Owned, Running, Saved
  <2>2. /\ x \in Entity /\ x.ctx = ent[c].ctx /\ x.run = ent[c].run
        /\ x.script = ent[c].script /\ x.cut = ent[c].cut /\ x.life = "removing"
    BY <1>1, SlotFacts DEF Entity
  <2>3. ent' = [ent EXCEPT ![c] = x]
    BY <1>0, <1>1, <1>4, SlotFacts DEF Remove, Good, Typed, Entity
  <2> HIDE DEF x
  <2>4. Fits(contexts, c, x)
    BY <2>1, <2>2 DEF Fits
  <2>5. Good(contexts', ent')
    BY <1>2, <1>4, <2>3, <2>4, SlotFacts DEF Remove
  <2> QED
    BY <1>0, <1>4, <2>5 DEF Remove, IInv, TypeOK, ContextsType, Good, Typed
<1>5. \A e \in Entities : Fits(contexts, e, NoEntity) /\ Forget(e) \in [Players -> Entities \cup {None}]
  BY <1>0 DEF Fits, NoEntity, Entity, Forget
<1>6. ASSUME NEW c \in Chips, OnRemove(c) PROVE IInv'
  <2> DEFINE es == [ent EXCEPT ![c] = NoEntity]
  <2>1. Good(contexts, es)
    BY <1>0, <1>5, SlotFacts, SetGood
  <2>2. Good(contexts', es)
    <3>1. CASE ent[c].ctx = None
      BY <1>6, <2>1, <3>1 DEF OnRemove, Release
    <3>2. CASE ent[c].ctx # None
      <4>1. ent[c].ctx \in Slots
        BY <1>1, <3>2, SlotFacts DEF Entity
      <4>2. \A f \in Entities : f # c => ent[f].ctx # ent[c].ctx
        BY <1>0, <3>2, SlotFacts DEF Good, Owned
      <4>3. \A f \in Entities : es[f].ctx # ent[c].ctx
        BY <1>0, <3>2, <4>2, SlotFacts DEF Good, Typed, NoEntity
      <4> HIDE DEF es
      <4> QED BY <1>6, <2>1, <3>2, <4>1, <4>3, FreeGood DEF OnRemove, Release
    <3> QED BY <3>1, <3>2
  <2> QED
    BY <1>0, <1>5, <1>6, <2>2, SlotFacts DEF OnRemove, IInv, TypeOK, ContextsType, Good, Typed
<1>7. ASSUME NEW b \in Props, RemoveProp(b) PROVE IInv'
  <2>1. Good(contexts', ent')
    BY <1>2, <1>5, <1>7, SlotFacts DEF RemoveProp
  <2> QED
    BY <1>0, <1>5, <1>7, <2>1, SlotFacts DEF RemoveProp, IInv, TypeOK, ContextsType, Good, Typed
<1>8. ASSUME NEW c \in Chips, NEW p \in Players, NEW s \in Scripts \cup {None},
             PasteSpawn(p, c, s)
      PROVE  IInv'
  <2>1. Fits(contexts, c, Initialize(p))
    BY DEF Fits, Initialize, NoEntity, Entity
  <2>2. Good(contexts', ent')
    BY <1>2, <1>8, <2>1, SlotFacts DEF PasteSpawn
  <2>3. paste' \in [Chips -> PasteInfo \cup {NoPaste}]
    BY <1>0, <1>8 DEF PasteSpawn, PasteInfo
  <2> QED
    BY <1>0, <1>8, <2>2, <2>3 DEF PasteSpawn, IInv, TypeOK, ContextsType, Good, Typed
<1> QED
  BY <1>3, <1>4, <1>6, <1>7, <1>8

(* A map without chips satisfies the inductive invariant. *)
LEMMA InitIInv == Init => IInv
<1> SUFFICES ASSUME Init PROVE IInv
  OBVIOUS
<1>1. ent \in [Entities -> Entity] /\ \A e \in Entities : ent[e].ctx = None /\ ~ent[e].run
  BY DEF Init, Entity, NoEntity
<1>2. contexts \in [Slots -> Context \cup {NoContext}]
  BY DEF Init
<1>3. Good(contexts, ent)
  BY <1>1, <1>2, SlotFacts DEF Good, Typed, Owned, Running, Saved, Blank
<1> QED
  BY <1>3, RequestAssumption, IInvParts DEF Init

(* Every handler preserves the inductive invariant. *)
LEMMA NextIInv == IInv /\ [Next]_vars => IInv'
<1> SUFFICES ASSUME IInv, [Next]_vars PROVE IInv'
  OBVIOUS
<1>1. CASE UNCHANGED vars
  BY <1>1 DEF vars, IInv, TypeOK, ContextsType, Good, Typed
<1>2. ASSUME NEW p \in Players, PlayerNext(p) PROVE IInv'
  BY <1>2, ToolStep, ReceiveStep, MessageStep, EntityStep DEF PlayerNext
<1>3. ASSUME NEW c \in Chips, ChipNext(c) PROVE IInv'
  BY <1>3, PasteStep, EntityStep DEF ChipNext
<1>4. ASSUME NEW b \in Props, RemoveProp(b) PROVE IInv'
  BY <1>4, EntityStep
<1> QED
  BY <1>1, <1>2, <1>3, <1>4 DEF Next

(* The inductive invariant holds in every state the handlers can reach. *)
THEOREM Invariance == Spec => []IInv
BY InitIInv, NextIInv, PTL DEF Spec

(* Every variable keeps its type, in every behaviour of the handlers. *)
THEOREM TypeCorrect == Spec => []TypeOK
<1>1. IInv => TypeOK
  BY DEF IInv
<1> QED BY <1>1, Invariance, PTL

(* No handler ever uses a freed or foreign context handle. *)
THEOREM HandlesAreOwned == Spec => []HandleOwned
<1>1. IInv => HandleOwned
  BY DEF IInv, Good, Owned, HandleOwned
<1> QED BY <1>1, Invariance, PTL

(* A running chip has a context to emit its events into. *)
THEOREM RunningChipsHaveContexts == Spec => []RunningHasContext
<1>1. IInv => RunningHasContext
  BY DEF IInv, Good, Running, RunningHasContext, Exists
<1> QED BY <1>1, Invariance, PTL

(* A dupe of a running chip carries the script the chip runs, unless a Lua  *)
(* error cut off its last upload or paste.                                  *)
THEOREM SavedScriptRuns == Spec => []SavedIsRunning
<1>1. IInv => SavedIsRunning
  BY DEF IInv, Good, Saved, SavedIsRunning
<1> QED BY <1>1, Invariance, PTL
=============================================================================
