----------------------------- MODULE CodeUpload -----------------------------
(***************************************************************************)
(* A script's way from the editor of one player to the server:             *)
(* cl_upload.lua / cl_validate.lua cut it into chunks, sv_upload.lua and   *)
(* sv_validate.lua put the chunks together again.  The receivers index     *)
(* their tables by player, so the chunks of two players never mix; what    *)
(* other players do to the chips this one has clicked is in Others.        *)
(*                                                                         *)
(* Net messages are reliable and ordered.  A handler that cuts a script    *)
(* sends all its chunks, so the messages under way are a queue of whole    *)
(* scripts of which the first may have been delivered in part: sent, and   *)
(* pos, the number of chunks of Head(sent) already delivered.  A chunk's   *)
(* text is the pair <<script, index>>.                                     *)
(***************************************************************************)
EXTENDS Integers, Sequences, FiniteSets

CONSTANTS Scripts,
          Chunks,       \* Chunks[s]: number of 64000-byte chunks of s, 0 if empty
          Heavy,        \* scripts whose bytecode a new context has no memory to write
          Chips,
          None,
          MaxSent,      \* bound on scripts and verdicts under way
          MaxRequests   \* bound on JSChip_RequestCode messages under way

ASSUME ChunksAssumption == Chunks \in [Scripts -> Nat]
ASSUME HeavyAssumption == Heavy \subseteq Scripts
ASSUME BoundsAssumption == MaxSent \in Nat /\ MaxRequests \in Nat
ASSUME NoScriptAssumption == None \notin Scripts \cup Chips

VARIABLES
  editor,    \* client: the code in JS_Editor, None before it is first opened
  requests,  \* server to client: JSChip_RequestCode
  sent,      \* client to server: scripts being sent, in order
  pos,       \* chunks of Head(sent) delivered so far
  replies,   \* server to client: JSChip_ValidateCode answers, in order
  shown,     \* client: what the verdict in the editor is about
  uploaded,  \* sv_upload.lua scriptChunks[ply].chunks, empty for nil
  checked,   \* sv_validate.lua scriptChunks[ply].chunks
  target,    \* ply.JSChipTarget, None when it is not a valid entity
  chip,      \* per chip: is it there, what did this player's last upload give
             \* to JS_Compile in its context, and who clicked or uploaded last
  asked,     \* history: the last script with a chunk to send to validation
  last,      \* history: the script sent for the latest request, None if none
  fate,      \* history: was the last chunk of Head(sent) stored or dropped
  torn       \* history: some upload had chunks stored and chunks dropped

clientVars == <<editor, shown, asked, last>>
netVars    == <<requests, sent, pos, replies>>
serverVars == <<uploaded, checked, target, chip>>
vars == <<clientVars, netVars, serverVars, fate, torn>>

Kinds    == {"upload", "validate"}
Piece    == Scripts \X (Nat \ {0})
NoText   == <<>>
Whole(s) == [i \in 1 .. Chunks[s] |-> <<s, i>>]
HeavyTexts == {Whole(s) : s \in Heavy}

(* Lua tables of chunks, indexed from 1. *)
NoChunks == [i \in {} |-> None]
IsStore(f) == /\ DOMAIN f \subseteq Nat \ {0}
              /\ \A i \in DOMAIN f : f[i] \in Piece

Chip == [st : {"gone", "bare", "ready"}, text : Seq(Piece), by : {"me", "other"}]

NoChip == [st |-> "gone", text |-> NoText, by |-> "me"]

TypeOK == /\ editor \in Scripts \cup {None}
          /\ requests \in 0 .. MaxRequests
          /\ sent \in Seq([kind : Kinds, script : Scripts])
          /\ pos \in Nat
          /\ replies \in Seq(Seq(Piece))
          /\ shown \in Seq(Piece)
          /\ IsStore(uploaded) /\ IsStore(checked)
          /\ target \in Chips \cup {None}
          /\ chip \in [Chips -> Chip]
          /\ asked \in Scripts \cup {None}
          /\ last \in Scripts \cup {None}
          /\ fate \in {"stored", "dropped"}
          /\ torn \in BOOLEAN

Init == /\ editor = None /\ requests = 0 /\ sent = <<>> /\ pos = 0
        /\ replies = <<>> /\ shown = NoText
        /\ uploaded = NoChunks /\ checked = NoChunks
        /\ target = None /\ chip = [c \in Chips |-> NoChip]
        /\ asked = None /\ last = None /\ fate = "stored" /\ torn = FALSE

-----------------------------------------------------------------------------
(* The client *)

(* JSChip_OpenEditor, and typing. *)
Edit(s) ==
  /\ editor' = s
  /\ UNCHANGED <<shown, asked, last, netVars, serverVars, fate, torn>>

(* JSChip_UploadCode: the chunks of s, none for an empty script. *)
Send(kind, s) ==
  /\ Len(sent) + Len(replies) < MaxSent
  /\ sent' = IF Chunks[s] = 0 THEN sent
             ELSE Append(sent, [kind |-> kind, script |-> s])

(* JSChip_Validate. *)
Validate ==
  /\ editor # None
  /\ Send("validate", editor)
  /\ asked' = IF Chunks[editor] = 0 THEN asked ELSE editor
  /\ UNCHANGED <<editor, shown, last, requests, pos, replies, serverVars, fate, torn>>

(* Receiving JSChip_RequestCode; ignored when the editor was never opened. *)
ReceiveRequest ==
  /\ requests > 0
  /\ requests' = requests - 1
  /\ IF editor = None
     THEN last' = None /\ UNCHANGED sent
     ELSE /\ Send("upload", editor)
          /\ last' = IF Chunks[editor] = 0 THEN None ELSE editor
  /\ UNCHANGED <<editor, shown, asked, pos, replies, serverVars, fate, torn>>

(* Receiving JSChip_ValidateCode. *)
ReceiveVerdict ==
  /\ replies # <<>>
  /\ shown' = Head(replies)
  /\ replies' = Tail(replies)
  /\ UNCHANGED <<editor, asked, last, requests, sent, pos, serverVars, fate, torn>>

-----------------------------------------------------------------------------
(* The server *)

(* The message at the front of the queue is taken out of it. *)
Consume ==
  LET n == Chunks[Head(sent).script] IN
  IF pos + 1 < n THEN pos' = pos + 1 /\ UNCHANGED sent
                 ELSE pos' = 0 /\ sent' = Tail(sent)

(* Faulty: chunks indexed from 0. *)
StoreFromZero(f, i, piece) ==
  [j \in DOMAIN f \cup {i - 1} |-> IF j = i - 1 THEN piece ELSE f[j]]

(* storedChunks[chunkIndex] = chunkData.  (Clamping chunkIndex to           *)
(* 1..totalChunks changes no index the client sends.)                       *)
Store(f, i, piece) ==
  [j \in DOMAIN f \cup {i} |-> IF j = i THEN piece ELSE f[j]]

(* table.Count(storedChunks) == totalChunks.  Faulty: off by one, both ways. *)
CompleteEarly(f, total) == Cardinality(DOMAIN f) + 1 >= total
CompleteLate(f, total)  == Cardinality(DOMAIN f) > total
Complete(f, total) == Cardinality(DOMAIN f) = total

(* table.concat goes up to #t, which for a table with holes is any border.  *)
Borders(f) == {n \in DOMAIN f \cup {0} : n + 1 \notin DOMAIN f}
Concat(f, n) == [i \in 1 .. n |-> f[i]]
Concatenable(f, n) == 1 .. n \subseteq DOMAIN f

(* scriptChunks[ply] = nil.  Faulty: the table is kept. *)
KeepChunks(f) == f
DiscardChunks(f) == NoChunks

(* The receiver of sv_upload.lua, for a chunk whose target is gone, ...     *)
DropChunk ==
  /\ target = None
  /\ fate' = "dropped"
  /\ torn' = (torn \/ (pos > 0 /\ fate = "stored"))
  /\ UNCHANGED <<uploaded, chip>>

(* ... and for a valid one.  When the count reaches the chunk's total the   *)
(* text is put together (a hole below the border raises before the table    *)
(* is reset), compiled in the context of the chip, and run.  A chip without *)
(* context makes JS_Compile raise after the reset.                          *)
StoreChunk(s, i) ==
  LET f == Store(uploaded, i, <<s, i>>) IN
  /\ target # None
  /\ fate' = "stored"
  /\ torn' = (torn \/ (pos > 0 /\ fate = "dropped"))
  /\ \/ /\ ~Complete(f, Chunks[s])
        /\ uploaded' = f
        /\ UNCHANGED chip
     \/ /\ Complete(f, Chunks[s])
        /\ \E n \in Borders(f) :
             IF Concatenable(f, n)
             THEN /\ uploaded' = DiscardChunks(f)
                  /\ chip' = IF chip[target].st = "ready"
                             THEN [chip EXCEPT ![target].text = Concat(f, n),
                                               ![target].by = "me"]
                             ELSE chip
             ELSE uploaded' = f /\ UNCHANGED chip

ReceiveUpload ==
  /\ sent # <<>> /\ Head(sent).kind = "upload"
  /\ DropChunk \/ StoreChunk(Head(sent).script, pos + 1)
  /\ Consume
  /\ UNCHANGED <<clientVars, requests, replies, checked, target>>

(* The receiver of sv_validate.lua.  Its verdict answers the text put       *)
(* together; whether it is good, bad or, for want of a free context, a      *)
(* refusal does not matter here.  For a heavy script JS_Compile, if there   *)
(* was a free context, returns no bytecode, and net.WriteString raises      *)
(* before the answer is sent.                                               *)
ReceiveValidate ==
  LET s == Head(sent).script
      f == Store(checked, pos + 1, <<s, pos + 1>>)
  IN
  /\ sent # <<>> /\ Head(sent).kind = "validate"
  /\ \/ /\ ~Complete(f, Chunks[s])
        /\ checked' = f
        /\ UNCHANGED replies
     \/ /\ Complete(f, Chunks[s])
        /\ \E n \in Borders(f) :
             IF Concatenable(f, n)
             THEN /\ checked' = DiscardChunks(f)
                  /\ \/ replies' = Append(replies, Concat(f, n))
                     \/ Concat(f, n) \in HeavyTexts /\ UNCHANGED replies
             ELSE checked' = f /\ UNCHANGED replies
  /\ Consume
  /\ UNCHANGED <<clientVars, requests, uploaded, target, chip, fate, torn>>

(* The player's tool on chip c (placed now if it is not there): a fresh     *)
(* context and a request for code, or, when the chip had no context and the *)
(* table is full, a chip that is about to be removed and no request.        *)
Click(c) ==
  /\ requests < MaxRequests
  /\ target' = c
  /\ \/ /\ chip' = [chip EXCEPT ![c] = [st |-> "ready", text |-> NoText, by |-> "me"]]
        /\ requests' = requests + 1
     \/ /\ chip[c].st # "ready"
        /\ chip' = [chip EXCEPT ![c] = [st |-> "bare", text |-> NoText, by |-> "me"]]
        /\ UNCHANGED requests
  /\ UNCHANGED <<clientVars, sent, pos, replies, uploaded, checked, fate, torn>>

(* Another player's tool on chip c, or the last chunk of his upload to it:  *)
(* the chip has a context that this player's upload was not compiled in, or *)
(* that something else was compiled in since; or it had none, and the table *)
(* is full.                                                                 *)
Others(c) ==
  /\ \E st \in {"bare", "ready"} :
       /\ chip[c].st = "ready" => st = "ready"
       /\ chip' = [chip EXCEPT ![c] = [st |-> st, text |-> NoText, by |-> "other"]]
  /\ UNCHANGED <<clientVars, netVars, uploaded, checked, target, fate, torn>>

(* Chip c is removed, by anybody. *)
Gone(c) ==
  /\ chip[c].st # "gone"
  /\ chip' = [chip EXCEPT ![c] = NoChip]
  /\ target' = IF target = c THEN None ELSE target
  /\ UNCHANGED <<clientVars, netVars, uploaded, checked, fate, torn>>

-----------------------------------------------------------------------------
Deliver == ReceiveUpload \/ ReceiveValidate

Next == \/ \E s \in Scripts : Edit(s)
        \/ Validate
        \/ ReceiveRequest
        \/ ReceiveVerdict
        \/ Deliver
        \/ \E c \in Chips : Click(c) \/ Others(c) \/ Gone(c)

Spec == Init /\ [][Next]_vars

(* Messages under way arrive: net messages are reliable. *)
FairSpec == Spec /\ WF_vars(Deliver) /\ WF_vars(ReceiveVerdict)

-----------------------------------------------------------------------------
(* Properties *)

Waiting(kind) == {k \in 1 .. Len(sent) : sent[k].kind = kind}

(* Once everything sent to validation was received and answered, the        *)
(* verdict the editor shows is about the whole of the last script sent,     *)
(* whatever uploads were interleaved with its chunks; unless that script is *)
(* a heavy one, which may be left without an answer (sv_validate.lua:30).   *)
ShownIsLatest ==
  Waiting("validate") = {} /\ replies = <<>> /\ asked \notin Heavy \cup {None} =>
    shown = Whole(asked)

(* As long as no upload was half stored and half dropped, every text        *)
(* compiled for a chip is a whole script, never a mix of two.               *)
IntactUnlessTorn ==
  ~torn => \A c \in Chips :
             chip[c].text # NoText => \E s \in Scripts : chip[c].text = Whole(s)

(* When nothing is under way any more, the chip last clicked was given what *)
(* the editor held when it answered the last request, even if earlier       *)
(* requests for other chips were still open at that click, and even if      *)
(* other players clicked the chip or uploaded to it between the click and   *)
(* the last chunk; unless somebody else did so after it, when the chip has  *)
(* his context or his code (sv_upload.lua:9 takes any player's target).     *)
LatestClickRuns ==
  /\ requests = 0 /\ Waiting("upload") = {}
  /\ target # None /\ last # None /\ ~torn
  /\ chip[target].st = "ready" /\ chip[target].by = "me"
  => chip[target].text = Whole(last)

(* The table of chunks is empty between uploads unless one was torn: a      *)
(* finished upload leaves nothing behind for the next.                      *)
NoResidue == pos = 0 /\ ~torn => uploaded = NoChunks /\ checked = NoChunks

(* Every script sent to validation gets its verdict shown, except those for *)
(* which the receiver raises before it answers.                             *)
ValidationAnswered ==
  \A s \in Scripts \ Heavy :
    (\E k \in Waiting("validate") : sent[k].script = s) ~> (shown = Whole(s))
=============================================================================
