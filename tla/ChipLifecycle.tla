--------------------------- MODULE ChipLifecycle ---------------------------
(***************************************************************************)
(* Chips on the server and the contexts they hold: the chip entity         *)
(* (entities/gmod_wire_jschip.lua), the tool that places and updates chips *)
(* (wire/stools/jschip.lua), the last chunk of an upload reaching its      *)
(* target (sv_upload.lua) and validation borrowing a slot                  *)
(* (sv_validate.lua).                                                      *)
(*                                                                         *)
(* The game runs Lua on one thread: a hook, a net receiver or an entity    *)
(* method is one step.  Between the steps anything interleaves: clicks of  *)
(* several players, their uploads, removal (deferred to the end of the     *)
(* tick, when OnRemove runs) and the two halves of a paste (the duplicator *)
(* spawns the entity first and calls ApplyDupeInfo later).                 *)
(*                                                                         *)
(* A Lua error ends a handler where it is raised and leaves what was done  *)
(* so far.  JS_Eval raises when it is given no bytecode (JS_Compile had no *)
(* memory left to write it, and returns 0 with nil, js.cpp:2730-2733) and  *)
(* when a native that the script calls does (console.log of a Symbol,      *)
(* js.cpp:90); WireLib.ClientError may raise on a nil message.             *)
(***************************************************************************)
EXTENDS ContextTable

CONSTANT MaxRequests    \* bound on the RequestCode messages a player has open

ASSUME RequestAssumption == MaxRequests \in Nat
ASSUME LostAssumption == "lost" \notin Entities \cup {None}   \* the mark of ContextPool

VARIABLES
  ent,        \* fields of every entity: life, ctx, Run, script, and cut:
              \* a Lua error ended the last handler that set Run or script
  target,     \* ply.JSChipTarget
  requests,   \* JSChip_RequestCode messages sent to a player, not answered
  paste       \* what ApplyDupeInfo has yet to do on an entity just pasted

vars == <<contexts, ent, target, requests, paste>>

Entity == [life : {"none", "live", "removing"}, owner : Players \cup {None},
           ctx : Slots \cup {None}, run : BOOLEAN, script : Scripts \cup {None},
           cut : BOOLEAN]

NoEntity   == [life |-> "none", owner |-> None, ctx |-> None,
               run |-> FALSE, script |-> None, cut |-> FALSE]

NoPaste   == [pending |-> FALSE]
PasteInfo == [pending : {TRUE}, ply : Players, script : Scripts \cup {None}]

(* One type for every variable. *)
TypeOK == /\ ContextsType
          /\ ent \in [Entities -> Entity]
          /\ target \in [Players -> Entities \cup {None}]
          /\ requests \in [Players -> 0 .. MaxRequests]
          /\ paste \in [Chips -> PasteInfo \cup {NoPaste}]

(* ENT:Initialize, run by WireLib.MakeWireEnt for the player who spawns. *)
Initialize(p) == [NoEntity EXCEPT !.life = "live", !.owner = p]

(* A map with props and no chip yet. *)
Init == /\ contexts = [i \in Slots |-> NoContext]
        /\ ent = [e \in Entities |->
                    IF e \in Props THEN [NoEntity EXCEPT !.life = "live"]
                                   ELSE NoEntity]
        /\ target = [p \in Players |-> None]
        /\ requests = [p \in Players |-> 0]
        /\ paste = [c \in Chips |-> NoPaste]

Exists(e) == ent[e].life # "none"

-----------------------------------------------------------------------------
(* The tool *)

(* The table after JS_FreeContext(e.ctx) for entity fields es; for a nil    *)
(* handle it is not called (the tool) or raises (OnRemove).  Faulty: the    *)
(* call is forgotten.                                                       *)
ReleaseForgotten(es, e) == contexts
Release(es, e) == IF es[e].ctx = None THEN contexts
                  ELSE JS_FreeContext(contexts, es[e].ctx)

(* A chip for which there is no slot stops and is marked for removal.  The   *)
(* message of its Error call is an undefined variable, nil: if               *)
(* WireLib.ClientError raises on it, the line with Remove is not reached.    *)
NoSlot(es, c) == { [es EXCEPT ![c].run = FALSE, ![c].life = life] :
                   life \in {"removing", es[c].life} }

(* TOOL:LeftClick_Update on entity e whose fields are es[e]: free its       *)
(* context, create another and ask the player for code.  An entity that is  *)
(* not a chip has no Error method: with no slot left, the call raises and   *)
(* nothing more happens.                                                    *)
Update(es, p, e) ==
  LET freed == Release(es, e)
  IN  /\ target' = [target EXCEPT ![p] = e]
      /\ \/ \E i \in Slots :
              /\ FirstFree(freed, i)
              /\ contexts' = JS_CreateContext(freed, i, e, p)
              /\ ent' = [es EXCEPT ![e].ctx = i]
              /\ requests' = [requests EXCEPT ![p] = @ + 1]
         \/ /\ Full(freed)
            /\ contexts' = freed
            /\ IF e \in Chips THEN ent' \in NoSlot(es, e) ELSE ent' = es
            /\ UNCHANGED requests

(* The tool fired at a chip. *)
LeftClick_Update(p, c) ==
  /\ Exists(c)
  /\ requests[p] < MaxRequests
  /\ Update(ent, p, c)
  /\ UNCHANGED paste

(* The tool fired elsewhere: MakeEnt spawns chip c and updates it. *)
MakeEnt(p, c) ==
  /\ ~Exists(c)
  /\ requests[p] < MaxRequests
  /\ Update([ent EXCEPT ![c] = Initialize(p)], p, c)
  /\ UNCHANGED paste

(* MakeWireEnt refuses (entity limit, model not allowed): MakeEnt goes on  *)
(* with "ent or trace.Entity", the prop that was aimed at.                 *)
MakeEntRefused(p, b) ==
  /\ Exists(b)
  /\ requests[p] < MaxRequests
  /\ Update(ent, p, b)
  /\ UNCHANGED paste

(* ... or the world, which is no valid entity to the natives and to the     *)
(* receivers; its missing Error method raises.                              *)
MakeEntAtWorld(p) ==
  /\ target' = [target EXCEPT ![p] = None]
  /\ UNCHANGED <<contexts, ent, requests, paste>>

-----------------------------------------------------------------------------
(* Net receivers *)

(* ENT:Error; entities of other classes have no such method. *)
Error(es, e) == IF e \in Chips THEN [es EXCEPT ![e].run = FALSE] ELSE es

(* chip.script = completeScript, the last line of an upload's receiver.    *)
(* Faulty: only the first upload is saved.                                 *)
SaveOnce(es, e, s) ==
  [es EXCEPT ![e].script = IF @ = None THEN s ELSE @, ![e].cut = FALSE]
Save(es, e, s) == [es EXCEPT ![e].script = s, ![e].cut = FALSE]

(* The handler does not get to that line. *)
CutOff(es, e) == [es EXCEPT ![e].cut = TRUE]

(* sv_upload.lua when the last chunk of script s from player p arrives and *)
(* the target is valid and holds a context: JS_Compile, then JS_Eval.      *)
RunUpload(e, s) ==
  LET h == ent[e].ctx
      started == [ent EXCEPT ![e].run = TRUE]
      saved   == Save(started, e, s)
  IN  \/ /\ ent' \in {Error(ent, e),           \* does not compile
                      CutOff(started, e)}     \* no bytecode: JS_Eval raises
         /\ UNCHANGED contexts
      \/ /\ contexts' = JS_Eval(contexts, h, s)
         /\ \/ ent' \in {saved,
                         CutOff(started, e)}  \* raised in a native, or no Error method
            \/ /\ e \in Chips
               /\ ent' \in {Error(saved, e),
                            CutOff(Error(started, e), e)}  \* nil message

(* With an invalid target the chunk is dropped; with no context JS_Compile *)
(* raises; either way nothing changes on the server.                       *)
ReceiveCode(p, s) ==
  /\ requests[p] > 0
  /\ requests' = [requests EXCEPT ![p] = @ - 1]
  /\ IF target[p] # None /\ ent[target[p]].ctx # None
     THEN RunUpload(target[p], s)
     ELSE UNCHANGED <<contexts, ent>>
  /\ UNCHANGED <<target, paste>>

(* The client has no editor open, or an empty script: no upload comes. *)
NoReply(p) ==
  /\ requests[p] > 0
  /\ requests' = [requests EXCEPT ![p] = @ - 1]
  /\ UNCHANGED <<contexts, ent, target, paste>>

(* sv_validate.lua: compile in a context created for the player and freed  *)
(* in the same handler.  (For a full table it answers "failed to validate  *)
(* the script" and touches nothing.)                                       *)
ValidateCode(p) ==
  /\ \E i \in Slots :
       /\ FirstFree(contexts, i)
       /\ contexts' = JS_FreeContext(JS_CreateContext(contexts, i, p, p), i)
  /\ UNCHANGED <<ent, target, requests, paste>>

(* ... or JS_Compile returns 0 without a bytecode, and net.WriteString      *)
(* raises on the nil before JS_FreeContext is reached.                      *)
ValidateRaises(p) ==
  /\ \E i \in Slots : FirstFree(contexts, i)
                     /\ contexts' = JS_CreateContext(contexts, i, p, p)
  /\ UNCHANGED <<ent, target, requests, paste>>

-----------------------------------------------------------------------------
(* The chip entity *)

(* Think and TriggerInput emit an event into the context of a chip that    *)
(* runs.  A listener, which exists only once the context has evaluated a   *)
(* script, may throw: that stops the chip.  An event nobody listens to,    *)
(* that is handled without an exception or whose listener ends in a Lua    *)
(* error, which goes past ENT:Error, changes nothing here.                 *)
EmitFails(c) ==
  /\ Exists(c)
  /\ ent[c].run
  /\ ent[c].ctx # None
  /\ contexts[ent[c].ctx].code # None
  /\ ent' = Error(ent, c)
  /\ UNCHANGED <<contexts, target, requests, paste>>

(* The undo key, the remover tool: the engine deletes at the end of the tick. *)
Remove(c) ==
  /\ ent[c].life = "live"
  /\ ent' = [ent EXCEPT ![c].life = "removing"]
  /\ UNCHANGED <<contexts, target, requests, paste>>

(* ENT:OnRemove, after which every reference to the entity is invalid. *)
Forget(e) == [p \in Players |-> IF target[p] = e THEN None ELSE target[p]]

OnRemove(c) ==
  /\ ent[c].life = "removing"
  /\ contexts' = Release(ent, c)
  /\ ent' = [ent EXCEPT ![c] = NoEntity]
  /\ target' = Forget(c)
  /\ paste' = [paste EXCEPT ![c] = NoPaste]
  /\ UNCHANGED requests

(* A prop has no OnRemove of this add-on. *)
RemoveProp(b) ==
  /\ Exists(b)
  /\ ent' = [ent EXCEPT ![b] = NoEntity]
  /\ target' = Forget(b)
  /\ UNCHANGED <<contexts, requests, paste>>

(* The duplicator spawns a chip from a dupe written by BuildDupeInfo (of a *)
(* chip that may have had no script) ...                                   *)
PasteSpawn(p, c, s) ==
  /\ ~Exists(c)
  /\ ent' = [ent EXCEPT ![c] = Initialize(p)]
  /\ paste' = [paste EXCEPT ![c] = [pending |-> TRUE, ply |-> p, script |-> s]]
  /\ UNCHANGED <<contexts, target, requests>>

(* The end of a successful ApplyDupeInfo.  Faulty: self.ctx is not set. *)
AdoptNoHandle(es, c, i) == [es EXCEPT ![c].run = TRUE, ![c].cut = FALSE]
Adopt(es, c, i) == [es EXCEPT ![c].run = TRUE, ![c].ctx = i, ![c].cut = FALSE]

(* ... and later calls ApplyDupeInfo.  After the context was created, the   *)
(* length operator raises when there is no script, and JS_Eval when there   *)
(* is no bytecode or a native raises.                                       *)
ApplyDupeInfo(c) ==
  LET s == paste[c].script
      named == [ent EXCEPT ![c].script = s]
  IN
  /\ Exists(c)
  /\ paste[c].pending
  /\ paste' = [paste EXCEPT ![c] = NoPaste]
  /\ \/ /\ Full(contexts)
        /\ ent' \in NoSlot(named, c)
        /\ UNCHANGED contexts
     \/ \E i \in Slots :
          LET made == JS_CreateContext(contexts, i, c, paste[c].ply) IN
          /\ FirstFree(contexts, i)
          /\ \/ /\ contexts' = made
                /\ \/ ent' = CutOff(named, c)
                   \/ s # None /\ ent' = Error(named, c)  \* does not compile
             \/ /\ s # None
                /\ contexts' = JS_Eval(made, i, s)
                /\ ent' \in {Error(named, c), CutOff(named, c), Adopt(named, c, i)}
  /\ UNCHANGED <<target, requests>>

-----------------------------------------------------------------------------
PlayerNext(p) ==
  \/ \E c \in Chips : LeftClick_Update(p, c) \/ MakeEnt(p, c)
  \/ \E b \in Props : MakeEntRefused(p, b)
  \/ MakeEntAtWorld(p)
  \/ \E s \in Scripts : ReceiveCode(p, s)
  \/ NoReply(p)
  \/ ValidateCode(p)
  \/ ValidateRaises(p)
  \/ \E c \in Chips, s \in Scripts \cup {None} : PasteSpawn(p, c, s)

ChipNext(c) == EmitFails(c) \/ Remove(c) \/ OnRemove(c) \/ ApplyDupeInfo(c)

Next == \/ \E p \in Players : PlayerNext(p)
        \/ \E c \in Chips : ChipNext(c)
        \/ \E b \in Props : RemoveProp(b)

Spec == Init /\ [][Next]_vars

-----------------------------------------------------------------------------
(* Properties *)

(* A handle held by an entity is never stale: the slot it names is in use  *)
(* and was created for that very entity, so two entities never share a     *)
(* context and no handler passes a freed handle to the native module       *)
(* (self.ctx is not cleared by JS_FreeContext at stools/jschip.lua:45).    *)
HandleOwned ==
  \A e \in Entities :
    ent[e].ctx # None =>
      contexts[ent[e].ctx].used /\ contexts[ent[e].ctx].ent = e

(* A chip with Run set has a context: Think and TriggerInput never hand nil *)
(* to JS_EmitEvent, whose CheckType would raise on every tick.              *)
RunningHasContext ==
  \A c \in Chips : ent[c].run => ent[c].ctx # None /\ Exists(c)

(* What BuildDupeInfo saves for a running chip is what the chip runs: once  *)
(* its context has evaluated a script, chip.script is that script.  The     *)
(* exception is a Lua error in the last upload or paste of the chip, which  *)
(* comes between Run or script and the rest of what the handler sets        *)
(* (sv_upload.lua:28-36, gmod_wire_jschip.lua:59-82).                       *)
SavedIsRunning ==
  \A c \in Chips :
    ent[c].run /\ ~ent[c].cut =>
      contexts[ent[c].ctx].code \in {ent[c].script, None}

(* Contexts no entity refers to any more: no handler can free them. *)
Orphans == {i \in Slots : contexts[i].used /\ \A e \in Entities : ent[e].ctx # i}

(* Contexts are lost in three ways only: ApplyDupeInfo (a script that fails *)
(* or raises, a dupe without one, or a chip that got a context meanwhile),  *)
(* a validation that raises for want of a bytecode, and a prop that was     *)
(* given a context by a refused spawn and is then removed.  Every other     *)
(* handler, error paths included, keeps or frees what it created.           *)
OrphanSources ==
  [][ Orphans' \subseteq Orphans
      \/ (\E c \in Chips : ApplyDupeInfo(c))
      \/ (\E p \in Players : ValidateRaises(p))
      \/ (\E b \in Props : RemoveProp(b)) ]_vars

(* Updating a chip that holds a context works however full the table is:    *)
(* the old context is freed first, so the chip ends with a fresh one of its *)
(* own and is not removed for want of a slot.                               *)
UpdateKeepsChip ==
  [][ \A p \in Players, c \in Chips :
        LeftClick_Update(p, c) /\ ent[c].ctx # None =>
          /\ ent'[c].life = ent[c].life
          /\ ent'[c].ctx # None
          /\ contexts'[ent'[c].ctx] = Fresh(c, p) ]_vars

(* The player entity ID a script gets from Entity.Owner() is that of the    *)
(* chip's owner, the player who spawned it (e2helper/cl_functions.lua:26:   *)
(* "Gets the chip owner's entity ID.").                                     *)
OwnerDocumented ==
  \A c \in Chips :
    ent[c].ctx # None => contexts[ent[c].ctx].owner = ent[c].owner

(* The chips implement the pool: a slot is free, held by the entity that    *)
(* has it as handle, or lost when nobody has.  The exchange done by         *)
(* LeftClick_Update is one step of the pool, never a release followed by a  *)
(* failed acquisition.                                                      *)
Held == [i \in Slots |-> IF ~contexts[i].used THEN None
                         ELSE IF i \in Orphans THEN "lost" ELSE contexts[i].ent]

Pool == INSTANCE ContextPool WITH holder <- Held

PoolRefined == Pool!Spec
=============================================================================
