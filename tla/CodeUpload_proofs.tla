-------------------------- MODULE CodeUpload_proofs --------------------------
(***************************************************************************)
(* Proofs about CodeUpload, for any scripts, of any number of chunks, any  *)
(* chips and any number of messages under way.                             *)
(***************************************************************************)
EXTENDS CodeUpload, FiniteSetTheorems, SequenceTheorems, TLAPS

(* The first n chunks of s. *)
Part(s, n) == [i \in 1 .. n |-> <<s, i>>]

(* A queue q without a script of a kind, and one whose last script of that  *)
(* kind is s.                                                               *)
Lacks(q, kind)     == \A k \in 1 .. Len(q) : q[k].kind # kind
Latest(q, kind, s) == \A k \in 1 .. Len(q) :
                        /\ q[k].kind = kind
                        /\ \A j \in 1 .. Len(q) : q[j].kind = kind => j <= k
                        => q[k].script = s

(* The parts of the inductive invariant.                                    *)
(* Only scripts with chunks are sent, and the first is not delivered yet.   *)
Queued == /\ \A k \in 1 .. Len(sent) : Chunks[sent[k].script] > 0
          /\ IF sent = <<>> THEN pos = 0 ELSE pos < Chunks[Head(sent).script]

(* sv_validate.lua has stored the chunks of the script that is arriving. *)
Checking == checked = IF sent # <<>> /\ Head(sent).kind = "validate"
                      THEN Part(Head(sent).script, pos) ELSE NoChunks

(* So has sv_upload.lua, or none of them: unless an upload was torn. *)
Uploading ==
  ~torn => uploaded = IF sent # <<>> /\ Head(sent).kind = "upload" /\ fate = "stored"
                      THEN Part(Head(sent).script, pos) ELSE NoChunks

(* The verdict on the last script asked about is still to be asked for, on  *)
(* its way or shown.                                                        *)
Answering ==
  /\ asked # None => Latest(sent, "validate", asked)
  /\ asked \notin Heavy \cup {None} /\ Lacks(sent, "validate") =>
       IF replies = <<>> THEN shown = Whole(asked)
                         ELSE replies[Len(replies)] = Whole(asked)

(* The answer to the last request is under way, or has got to the chip      *)
(* clicked last.                                                            *)
Running ==
  /\ last # None => Latest(sent, "upload", last)
  /\ /\ ~torn /\ requests = 0 /\ last # None /\ target # None
     /\ chip[target].st = "ready" /\ chip[target].by = "me"
     /\ Lacks(sent, "upload")
     => chip[target].text = Whole(last)

IInv == /\ TypeOK
        /\ Queued
        /\ Checking
        /\ Uploading
        /\ Answering
        /\ Running
        /\ IntactUnlessTorn

(* The table of chunks of sv_upload.lua and sv_validate.lua as long as the  *)
(* chunks arrive in order: the next one lengthens it, the count is right    *)
(* only at the end, and table.concat has a single border to go up to.       *)
LEMMA PartFacts ==
  ASSUME NEW s \in Scripts, NEW n \in Nat, NEW total \in Nat
  PROVE  /\ Part(s, 0) = NoChunks
         /\ Part(s, n) \in Seq(Piece)
         /\ Store(Part(s, n), n + 1, <<s, n + 1>>) = Part(s, n + 1)
         /\ Complete(Part(s, n), total) <=> n = total
         /\ Borders(Part(s, n)) = {n}
         /\ Concatenable(Part(s, n), n)
         /\ Concat(Part(s, n), n) = Part(s, n)
         /\ Whole(s) = Part(s, Chunks[s])
<1>1. Part(s, 0) = NoChunks
  BY DEF Part, NoChunks
<1>2. Part(s, n) \in Seq(Piece) /\ DOMAIN Part(s, n) = 1 .. n
  <2>1. \A i \in 1 .. n : <<s, i>> \in Piece
    BY DEF Piece
  <2>2. Part(s, n) \in [1 .. n -> Piece]
    BY <2>1 DEF Part
  <2> QED BY <2>2, SeqDef
<1>3. Store(Part(s, n), n + 1, <<s, n + 1>>) = Part(s, n + 1)
  BY DEF Store, Part
<1>4. Complete(Part(s, n), total) <=> n = total
  <2>1. Cardinality(1 .. n) = n
    BY FS_Interval
  <2> QED BY <1>2, <2>1 DEF Complete
<1>5. Borders(Part(s, n)) = {n}
  BY <1>2 DEF Borders
<1>6. Concatenable(Part(s, n), n)
  BY <1>2 DEF Concatenable
<1>7. Concat(Part(s, n), n) = Part(s, n)
  BY DEF Concat, Part
<1> QED
  BY <1>1, <1>2, <1>3, <1>4, <1>5, <1>6, <1>7 DEF Whole, Part

(* One more chunk in that table. *)
LEMMA NextChunk ==
  ASSUME NEW s \in Scripts, NEW n \in Nat, NEW f,
         f = Store(Part(s, n), n + 1, <<s, n + 1>>)
  PROVE  /\ f = Part(s, n + 1)
         /\ Complete(f, Chunks[s]) <=> n + 1 = Chunks[s]
         /\ Borders(f) = {n + 1} /\ Concatenable(f, n + 1)
         /\ Concat(f, n + 1) = f
         /\ n + 1 = Chunks[s] => f = Whole(s)
         /\ Whole(s) \in Seq(Piece)
<1>1. n + 1 \in Nat /\ Chunks[s] \in Nat
  BY ChunksAssumption
<1>2. f = Part(s, n + 1)
  BY <1>1, PartFacts, Zenon
<1>3. /\ Complete(Part(s, n + 1), Chunks[s]) <=> n + 1 = Chunks[s]
      /\ Borders(Part(s, n + 1)) = {n + 1} /\ Concatenable(Part(s, n + 1), n + 1)
      /\ Concat(Part(s, n + 1), n + 1) = Part(s, n + 1)
  BY <1>1, PartFacts, Zenon
<1>4. Whole(s) = Part(s, Chunks[s]) /\ Part(s, Chunks[s]) \in Seq(Piece)
  BY <1>1, PartFacts, Zenon
<1> QED
  BY <1>2, <1>3, <1>4, Zenon

Message == [kind : Kinds, script : Scripts]

(* What Send does to the queue. *)
LEMMA AppendFacts ==
  ASSUME NEW q \in Seq(Message), NEW m \in Message, NEW kind \in Kinds, NEW s
  PROVE  /\ Append(q, m) \in Seq(Message)
         /\ m.kind # kind => /\ Lacks(Append(q, m), kind) <=> Lacks(q, kind)
                             /\ Latest(q, kind, s) => Latest(Append(q, m), kind, s)
         /\ m.kind = kind => /\ ~Lacks(Append(q, m), kind)
                             /\ Latest(Append(q, m), kind, m.script)
<1> DEFINE r == Append(q, m)
<1>1. /\ r \in Seq(Message) /\ Len(r) = Len(q) + 1 /\ Len(q) \in Nat
      /\ \A k \in 1 .. Len(q) : r[k] = q[k]
      /\ r[Len(q) + 1] = m
  BY AppendProperties, LenProperties
<1> HIDE DEF r
<1>2. ASSUME m.kind # kind
      PROVE  /\ Lacks(r, kind) <=> Lacks(q, kind)
             /\ Latest(q, kind, s) => Latest(r, kind, s)
  BY <1>1, <1>2 DEF Lacks, Latest
<1>3. ASSUME m.kind = kind PROVE ~Lacks(r, kind) /\ Latest(r, kind, m.script)
  BY <1>1, <1>3 DEF Lacks, Latest
<1> QED
  BY <1>1, <1>2, <1>3 DEF r

(* What the delivery of the last chunk of its first script does to it. *)
LEMMA TailFacts ==
  ASSUME NEW q \in Seq(Message), q # <<>>, NEW kind \in Kinds, NEW s
  PROVE  /\ Head(q) \in Message /\ Head(q) = q[1] /\ Tail(q) \in Seq(Message)
         /\ \A k \in 1 .. Len(Tail(q)) : Tail(q)[k] = q[k + 1] /\ k + 1 \in 1 .. Len(q)
         /\ Latest(q, kind, s) => Latest(Tail(q), kind, s)
         /\ Head(q).kind # kind => (Lacks(Tail(q), kind) <=> Lacks(q, kind))
         /\ Head(q).kind = kind /\ Lacks(Tail(q), kind) /\ Latest(q, kind, s) =>
              Head(q).script = s
<1> DEFINE r == Tail(q)
           h == Head(q)
<1>1. /\ h \in Message /\ h = q[1] /\ r \in Seq(Message) /\ Len(r) = Len(q) - 1
      /\ Len(q) \in Nat \ {0} /\ \A k \in 1 .. Len(r) : r[k] = q[k + 1]
  BY HeadTailProperties, EmptySeq
<1> HIDE DEF r, h
<1>2. \A j \in 2 .. Len(q) : j - 1 \in 1 .. Len(r) /\ r[j - 1] = q[j]
  BY <1>1
<1>3. ASSUME Latest(q, kind, s) PROVE Latest(r, kind, s)
  <2> SUFFICES ASSUME NEW k \in 1 .. Len(r), r[k].kind = kind,
                      \A j \in 1 .. Len(r) : r[j].kind = kind => j <= k
               PROVE  r[k].script = s
    BY DEF Latest
  <2>1. k + 1 \in 1 .. Len(q) /\ q[k + 1] = r[k]
    BY <1>1
  <2>2. ASSUME NEW j \in 1 .. Len(q), q[j].kind = kind PROVE j <= k + 1
    <3>1. CASE j = 1
      BY <1>1, <3>1
    <3>2. CASE j # 1
      BY <1>1, <1>2, <2>2, <3>2
    <3> QED BY <3>1, <3>2
  <2> QED BY <1>3, <2>1, <2>2 DEF Latest
<1>4. ASSUME h.kind # kind PROVE Lacks(r, kind) <=> Lacks(q, kind)
  <2>1. ASSUME Lacks(r, kind), NEW j \in 1 .. Len(q) PROVE q[j].kind # kind
    <3>1. CASE j = 1
      BY <1>1, <1>4, <3>1
    <3>2. CASE j # 1
      BY <1>1, <1>2, <2>1, <3>2 DEF Lacks
    <3> QED BY <3>1, <3>2
  <2>2. ASSUME Lacks(q, kind), NEW k \in 1 .. Len(r) PROVE r[k].kind # kind
    BY <1>1, <2>2 DEF Lacks
  <2> QED BY <2>1, <2>2 DEF Lacks
<1>5. ASSUME h.kind = kind, Lacks(r, kind), Latest(q, kind, s) PROVE h.script = s
  <2>1. ASSUME NEW j \in 1 .. Len(q), q[j].kind = kind PROVE j <= 1
    BY <1>1, <1>2, <1>5, <2>1 DEF Lacks
  <2> QED BY <1>1, <1>5, <2>1 DEF Latest
<1> QED
  BY <1>1, <1>3, <1>4, <1>5 DEF r, h

(* The tables stay tables of chunks, and what table.concat returns is a     *)
(* text, also when an upload was torn.                                      *)
LEMMA StoreFacts ==
  ASSUME NEW f, IsStore(f), NEW i \in Nat \ {0}, NEW piece \in Piece
  PROVE  /\ IsStore(NoChunks)
         /\ IsStore(Store(f, i, piece))
         /\ \A n \in Borders(f) : Concatenable(f, n) => Concat(f, n) \in Seq(Piece)
<1>1. IsStore(NoChunks)
  BY DEF IsStore, NoChunks
<1>2. IsStore(Store(f, i, piece))
  BY DEF IsStore, Store
<1>3. ASSUME NEW n \in Borders(f), Concatenable(f, n) PROVE Concat(f, n) \in Seq(Piece)
  <2>1. n \in Nat
    BY DEF Borders, IsStore
  <2>2. \A j \in 1 .. n : f[j] \in Piece
    BY <1>3 DEF Concatenable, IsStore
  <2>3. Concat(f, n) \in [1 .. n -> Piece]
    BY <2>2 DEF Concat
  <2> QED BY <2>1, <2>3, SeqDef
<1> QED
  BY <1>1, <1>2, <1>3

(* Initially nothing was typed, sent or clicked. *)
LEMMA InitIInv == Init => IInv
<1> SUFFICES ASSUME Init PROVE IInv
  OBVIOUS
<1>1. TypeOK
  <2>1. NoText \in Seq(Piece)
    BY DEF NoText
  <2>2. NoChip \in Chip
    BY <2>1 DEF NoChip, Chip
  <2>3. IsStore(NoChunks)
    BY DEF IsStore, NoChunks
  <2>4. <<>> \in Seq([kind : Kinds, script : Scripts]) /\ <<>> \in Seq(Seq(Piece))
    OBVIOUS
  <2>5. chip \in [Chips -> Chip]
    BY <2>2 DEF Init
  <2>6. requests \in 0 .. MaxRequests /\ pos \in Nat
    BY BoundsAssumption DEF Init
  <2> QED BY <2>1, <2>3, <2>4, <2>5, <2>6 DEF Init, TypeOK
<1>2. Queued /\ Checking /\ Uploading /\ Answering /\ Running
  BY NoScriptAssumption DEF Init, Queued, Checking, Uploading, Answering, Running
<1>3. IntactUnlessTorn
  BY DEF Init, IntactUnlessTorn, NoChip
<1> QED
  BY <1>1, <1>2, <1>3 DEF IInv

(* The queue after a handler has sent a script s. *)
LEMMA SendFacts ==
  ASSUME IInv, NEW kind \in Kinds, NEW s \in Scripts, Send(kind, s), pos' = pos
  PROVE  /\ sent' \in Seq(Message)
         /\ Queued'
         /\ sent # <<>> => sent' # <<>> /\ Head(sent') = Head(sent)
         /\ sent = <<>> => pos = 0
         /\ Chunks[s] = 0 => sent' = sent
         /\ Chunks[s] # 0 => ~Lacks(sent', kind) /\ Latest(sent', kind, s)
         /\ \A other \in Kinds \ {kind} : \A t :
              /\ Lacks(sent', other) <=> Lacks(sent, other)
              /\ Latest(sent, other, t) => Latest(sent', other, t)
<1> DEFINE m == [kind |-> kind, script |-> s]
<1>1. /\ sent \in Seq(Message) /\ m \in Message /\ m.kind = kind /\ m.script = s
      /\ Chunks[s] \in Nat
  BY ChunksAssumption DEF IInv, TypeOK, Message
<1> HIDE DEF m
<1>2. CASE Chunks[s] = 0
  BY <1>1, <1>2 DEF Send, IInv, Queued
<1>3. CASE Chunks[s] # 0
  <2>1. sent' = Append(sent, m)
    BY <1>3 DEF Send, m
  <2>2. /\ sent' \in Seq(Message) /\ Len(sent') = Len(sent) + 1 /\ Len(sent) \in Nat
        /\ \A k \in 1 .. Len(sent) : sent'[k] = sent[k]
        /\ sent'[Len(sent) + 1] = m
    BY <1>1, <2>1, AppendProperties, LenProperties
  <2>3. sent' # <<>> /\ Head(sent') = sent'[1]
    BY <2>2, EmptySeq, HeadTailProperties
  <2>4. sent # <<>> => Head(sent) = sent[1] /\ Len(sent) > 0
    BY <1>1, EmptySeq, HeadTailProperties
  <2>5. sent # <<>> => Head(sent') = Head(sent)
    BY <2>2, <2>3, <2>4
  <2>6. Queued'
    <3>1. ASSUME NEW k \in 1 .. Len(sent') PROVE Chunks[sent'[k].script] > 0
      BY <1>1, <1>3, <2>2 DEF IInv, Queued
    <3>2. CASE sent = <<>>
      <4>1. pos = 0 /\ Len(sent) = 0
        BY <3>2 DEF IInv, Queued
      <4>2. Head(sent') = m
        BY <2>2, <2>3, <4>1
      <4> QED BY <1>1, <1>3, <2>3, <3>1, <4>1, <4>2 DEF Queued
    <3>3. CASE sent # <<>>
      BY <2>3, <2>5, <3>1, <3>3 DEF IInv, Queued
    <3> QED BY <3>2, <3>3
  <2>7. ~Lacks(sent', kind) /\ Latest(sent', kind, s)
    BY <1>1, <2>1, AppendFacts, Zenon
  <2>8. ASSUME NEW other \in Kinds \ {kind}, NEW t
        PROVE  /\ Lacks(sent', other) <=> Lacks(sent, other)
               /\ Latest(sent, other, t) => Latest(sent', other, t)
    <3>1. other \in Kinds /\ m.kind # other
      BY <1>1
    <3> QED BY <1>1, <2>1, <3>1, AppendFacts, Zenon
  <2> QED
    BY <1>3, <2>2, <2>3, <2>5, <2>6, <2>7, <2>8 DEF IInv, Queued
<1> QED
  BY <1>2, <1>3

(* The queue after a chunk was taken out of it. *)
LEMMA ConsumeFacts ==
  ASSUME IInv, sent # <<>>, Consume
  PROVE  /\ Head(sent).script \in Scripts /\ Head(sent).kind \in Kinds
         /\ pos \in Nat /\ Chunks[Head(sent).script] \in Nat
         /\ sent' \in Seq(Message) /\ pos' \in Nat
         /\ Queued'
         /\ IF pos + 1 = Chunks[Head(sent).script]
            THEN pos' = 0 /\ sent' = Tail(sent)
            ELSE pos' = pos + 1 /\ sent' = sent
         /\ ~Lacks(sent, Head(sent).kind)
         /\ \A kind \in Kinds : \A s :
              /\ Latest(sent, kind, s) => Latest(sent', kind, s)
              /\ Head(sent).kind # kind => (Lacks(sent', kind) <=> Lacks(sent, kind))
              /\ Head(sent).kind = kind /\ Lacks(sent', kind) /\ Latest(sent, kind, s) =>
                   Head(sent).script = s /\ pos + 1 = Chunks[Head(sent).script]
<1> DEFINE h == Head(sent)
           n == Chunks[h.script]
<1>1. sent \in Seq(Message) /\ pos \in Nat
  BY DEF IInv, TypeOK, Message
<1>2. \A kind \in Kinds : \A s :
         /\ h \in Message /\ h = sent[1] /\ Tail(sent) \in Seq(Message)
         /\ \A k \in 1 .. Len(Tail(sent)) :
              Tail(sent)[k] = sent[k + 1] /\ k + 1 \in 1 .. Len(sent)
         /\ Latest(sent, kind, s) => Latest(Tail(sent), kind, s)
         /\ h.kind # kind => (Lacks(Tail(sent), kind) <=> Lacks(sent, kind))
         /\ h.kind = kind /\ Lacks(Tail(sent), kind) /\ Latest(sent, kind, s) => h.script = s
  BY <1>1, TailFacts, Zenon
<1>3. /\ h \in Message /\ h = sent[1] /\ Tail(sent) \in Seq(Message)
      /\ \A k \in 1 .. Len(Tail(sent)) :
           Tail(sent)[k] = sent[k + 1] /\ k + 1 \in 1 .. Len(sent)
  <2>1. "upload" \in Kinds
    BY DEF Kinds
  <2> QED BY <1>2, <2>1, Zenon
<1>4. h.script \in Scripts /\ h.kind \in Kinds /\ n \in Nat /\ pos < n
  BY <1>3, ChunksAssumption DEF IInv, Queued, Message
<1>5. IF pos + 1 = n THEN pos' = 0 /\ sent' = Tail(sent)
                     ELSE pos' = pos + 1 /\ sent' = sent
  BY <1>1, <1>4 DEF Consume
<1>6. ~Lacks(sent, h.kind)
  <2>1. 1 \in 1 .. Len(sent)
    BY <1>1, EmptySeq, LenProperties
  <2> QED BY <1>3, <2>1 DEF Lacks
<1>7. Queued'
  <2>1. CASE pos + 1 = n
    <3>1. pos' = 0 /\ sent' = Tail(sent)
      BY <1>5, <2>1
    <3>2. ASSUME NEW k \in 1 .. Len(sent') PROVE Chunks[sent'[k].script] > 0
      BY <1>3, <3>1 DEF IInv, Queued
    <3>3. CASE sent' = <<>>
      BY <3>1, <3>2, <3>3 DEF Queued
    <3>4. CASE sent' # <<>>
      <4>1. Head(sent') = sent'[1] /\ 1 \in 1 .. Len(sent')
        BY <1>3, <3>1, <3>4, EmptySeq, HeadTailProperties, LenProperties
      <4> QED BY <3>1, <3>2, <3>4, <4>1 DEF Queued
    <3> QED BY <3>3, <3>4
  <2>2. CASE pos + 1 # n
    BY <1>1, <1>4, <1>5, <2>2 DEF IInv, Queued
  <2> QED BY <2>1, <2>2
<1> HIDE DEF h, n
<1>8. ASSUME NEW kind \in Kinds, NEW s
      PROVE  /\ Latest(sent, kind, s) => Latest(sent', kind, s)
             /\ h.kind # kind => (Lacks(sent', kind) <=> Lacks(sent, kind))
             /\ h.kind = kind /\ Lacks(sent', kind) /\ Latest(sent, kind, s) =>
                  h.script = s /\ pos + 1 = n
  BY <1>2, <1>5, <1>6, Zenon
<1>9. sent' \in Seq(Message) /\ pos' \in Nat
  BY <1>1, <1>3, <1>5
<1> QED
  BY <1>1, <1>4, <1>5, <1>6, <1>7, <1>8, <1>9, Zenon DEF h, n

-----------------------------------------------------------------------------
(* The steps of the client. *)

(* The chunk tables are as they were when a script joins the queue: it is   *)
(* first in it only if nothing was under way, and then it has no chunk yet. *)
LEMMA SendKeepsTables ==
  ASSUME IInv, NEW kind \in Kinds, NEW s \in Scripts, Send(kind, s),
         UNCHANGED <<pos, checked, uploaded, fate, torn>>
  PROVE  Checking' /\ Uploading'
<1>1. /\ sent' \in Seq(Message)
      /\ sent # <<>> => sent' # <<>> /\ Head(sent') = Head(sent)
      /\ sent = <<>> => pos = 0
  BY SendFacts
<1>2. CASE sent # <<>>
  BY <1>1, <1>2 DEF IInv, Checking, Uploading
<1>3. CASE sent = <<>>
  <2>1. sent' # <<>> => Head(sent').script \in Scripts
    <3>1. sent' # <<>> => Head(sent') \in Message
      BY <1>1, HeadTailProperties
    <3> QED BY <3>1 DEF Message
  <2>2. sent' # <<>> => Part(Head(sent').script, 0) = NoChunks
    BY <2>1, PartFacts
  <2>3. pos' = 0 /\ checked' = NoChunks /\ (~torn' => uploaded' = NoChunks)
    BY <1>1, <1>3 DEF IInv, Checking, Uploading
  <2> QED BY <2>2, <2>3 DEF Checking, Uploading
<1> QED
  BY <1>2, <1>3

LEMMA EditStep == ASSUME IInv, NEW s \in Scripts, Edit(s) PROVE IInv'
<1> USE DEF Edit, clientVars, netVars, serverVars
<1>1. TypeOK'
  BY DEF IInv, TypeOK
<1>2. Queued' /\ Checking' /\ Uploading'
  BY DEF IInv, Queued, Checking, Uploading
<1>3. Answering' /\ Running'
  BY DEF IInv, Answering, Running
<1>4. IntactUnlessTorn'
  BY DEF IInv, IntactUnlessTorn
<1> QED
  BY <1>1, <1>2, <1>3, <1>4 DEF IInv

LEMMA ValidateStep == ASSUME IInv, Validate PROVE IInv'
<1> DEFINE v == "validate"
<1>1. /\ editor \in Scripts /\ v \in Kinds /\ "upload" \in Kinds \ {v}
      /\ Send(v, editor) /\ pos' = pos
      /\ asked' = IF Chunks[editor] = 0 THEN asked ELSE editor
      /\ UNCHANGED <<editor, shown, last, requests, replies, uploaded, checked,
                     target, chip, fate, torn>>
  BY DEF Validate, IInv, TypeOK, Kinds, serverVars
<1>2. /\ sent' \in Seq(Message)
      /\ Queued'
      /\ Chunks[editor] = 0 => sent' = sent
      /\ Chunks[editor] # 0 => ~Lacks(sent', v) /\ Latest(sent', v, editor)
      /\ \A other \in Kinds \ {v} : \A t :
           /\ Lacks(sent', other) <=> Lacks(sent, other)
           /\ Latest(sent, other, t) => Latest(sent', other, t)
  BY <1>1, SendFacts
<1>3. TypeOK'
  <2>1. sent' \in Seq([kind : Kinds, script : Scripts])
    BY <1>2 DEF Message
  <2>2. asked' \in Scripts \cup {None}
    BY <1>1 DEF IInv, TypeOK
  <2> QED BY <1>1, <2>1, <2>2 DEF IInv, TypeOK
<1>4. Checking' /\ Uploading'
  BY <1>1, SendKeepsTables
<1>5. Answering'
  <2>1. CASE Chunks[editor] = 0
    BY <1>1, <1>2, <2>1 DEF IInv, Answering
  <2>2. CASE Chunks[editor] # 0
    BY <1>1, <1>2, <2>2 DEF Answering
  <2> QED BY <2>1, <2>2
<1>6. Running'
  <2>1. /\ Lacks(sent', "upload") <=> Lacks(sent, "upload")
        /\ Latest(sent, "upload", last) => Latest(sent', "upload", last)
    BY <1>1, <1>2
  <2> QED BY <1>1, <2>1 DEF IInv, Running
<1>7. IntactUnlessTorn'
  BY <1>1 DEF IInv, IntactUnlessTorn
<1> QED
  BY <1>2, <1>3, <1>4, <1>5, <1>6, <1>7 DEF IInv

LEMMA ReceiveRequestStep == ASSUME IInv, ReceiveRequest PROVE IInv'
<1> DEFINE u == "upload"
<1>1. /\ UNCHANGED <<editor, shown, asked, pos, replies, uploaded, checked,
                     target, chip, fate, torn>>
      /\ requests' \in 0 .. MaxRequests
      /\ u \in Kinds /\ "validate" \in Kinds \ {u}
  BY BoundsAssumption DEF ReceiveRequest, IInv, TypeOK, Kinds, serverVars
<1>2. CASE editor = None
  <2>1. last' = None /\ sent' = sent
    BY <1>2 DEF ReceiveRequest
  <2>2. TypeOK'
    BY <1>1, <2>1 DEF IInv, TypeOK
  <2>3. Queued' /\ Checking' /\ Uploading'
    BY <1>1, <2>1 DEF IInv, Queued, Checking, Uploading
  <2>4. Answering' /\ Running'
    BY <1>1, <2>1 DEF IInv, Answering, Running
  <2>5. IntactUnlessTorn'
    BY <1>1 DEF IInv, IntactUnlessTorn
  <2> QED BY <2>2, <2>3, <2>4, <2>5 DEF IInv
<1>3. CASE editor # None
  <2>1. /\ editor \in Scripts /\ Send(u, editor)
        /\ last' = IF Chunks[editor] = 0 THEN None ELSE editor
    BY <1>3 DEF ReceiveRequest, IInv, TypeOK
  <2>2. /\ sent' \in Seq(Message)
        /\ Queued'
        /\ Chunks[editor] # 0 => ~Lacks(sent', u) /\ Latest(sent', u, editor)
        /\ \A other \in Kinds \ {u} : \A t :
             /\ Lacks(sent', other) <=> Lacks(sent, other)
             /\ Latest(sent, other, t) => Latest(sent', other, t)
    BY <1>1, <2>1, SendFacts
  <2>3. TypeOK'
    <3>1. sent' \in Seq([kind : Kinds, script : Scripts])
      BY <2>2 DEF Message
    <3>2. last' \in Scripts \cup {None}
      BY <2>1
    <3> QED BY <1>1, <3>1, <3>2 DEF IInv, TypeOK
  <2>4. Checking' /\ Uploading'
    BY <1>1, <2>1, SendKeepsTables
  <2>5. Answering'
    <3>1. /\ Lacks(sent', "validate") <=> Lacks(sent, "validate")
          /\ Latest(sent, "validate", asked) => Latest(sent', "validate", asked)
      BY <1>1, <2>2
    <3> QED BY <1>1, <3>1 DEF IInv, Answering
  <2>6. Running'
    BY <2>1, <2>2 DEF Running
  <2>7. IntactUnlessTorn'
    BY <1>1 DEF IInv, IntactUnlessTorn
  <2> QED BY <2>2, <2>3, <2>4, <2>5, <2>6, <2>7 DEF IInv
<1> QED
  BY <1>2, <1>3

LEMMA ReceiveVerdictStep == ASSUME IInv, ReceiveVerdict PROVE IInv'
<1>1. /\ replies # <<>> /\ shown' = Head(replies) /\ replies' = Tail(replies)
      /\ UNCHANGED <<editor, asked, last, requests, sent, pos, uploaded, checked,
                     target, chip, fate, torn>>
  BY DEF ReceiveVerdict, serverVars
<1>2. replies \in Seq(Seq(Piece))
  BY DEF IInv, TypeOK
<1>3. /\ shown' \in Seq(Piece) /\ replies' \in Seq(Seq(Piece))
      /\ Len(replies') = Len(replies) - 1 /\ Len(replies) \in Nat \ {0}
      /\ \A k \in 1 .. Len(replies') : replies'[k] = replies[k + 1]
      /\ shown' = replies[1]
  BY <1>1, <1>2, HeadTailProperties, EmptySeq
<1>4. TypeOK'
  BY <1>1, <1>3 DEF IInv, TypeOK
<1>5. Queued' /\ Checking' /\ Uploading'
  BY <1>1 DEF IInv, Queued, Checking, Uploading
<1>6. Answering'
  <2>1. CASE replies' = <<>>
    <3>1. Len(replies') = 0
      BY <1>3, <2>1, EmptySeq
    <3>2. Len(replies) = 1
      BY <1>3, <3>1
    <3> QED BY <1>1, <1>3, <2>1, <3>2 DEF IInv, Answering
  <2>2. CASE replies' # <<>>
    <3>1. Len(replies') \in 1 .. Len(replies') /\ replies'[Len(replies')] = replies[Len(replies)]
      BY <1>1, <1>3, <2>2, EmptySeq
    <3> QED BY <1>1, <2>2, <3>1 DEF IInv, Answering
  <2> QED BY <2>1, <2>2
<1>7. Running'
  BY <1>1 DEF IInv, Running
<1>8. IntactUnlessTorn'
  BY <1>1 DEF IInv, IntactUnlessTorn
<1> QED
  BY <1>4, <1>5, <1>6, <1>7, <1>8 DEF IInv

-----------------------------------------------------------------------------
(* The steps of the server. *)

(* sv_validate.lua: the chunks arrive one after the other, and the answer   *)
(* to the last of them is about the whole script.                           *)
LEMMA ReceiveValidateStep == ASSUME IInv, ReceiveValidate PROVE IInv'
<1> DEFINE s == Head(sent).script
           v == "validate"
<1>1. /\ sent # <<>> /\ Head(sent).kind = v /\ Consume
      /\ UNCHANGED <<editor, shown, asked, last, requests, uploaded, target, chip,
                     fate, torn>>
  BY DEF ReceiveValidate, clientVars
<1>2. /\ s \in Scripts /\ v \in Kinds /\ "upload" \in Kinds
      /\ pos \in Nat /\ Chunks[s] \in Nat
      /\ sent' \in Seq(Message) /\ pos' \in Nat
      /\ Queued'
      /\ IF pos + 1 = Chunks[s] THEN pos' = 0 /\ sent' = Tail(sent)
                                ELSE pos' = pos + 1 /\ sent' = sent
      /\ ~Lacks(sent, v)
      /\ \A kind \in Kinds : \A t :
           /\ Latest(sent, kind, t) => Latest(sent', kind, t)
           /\ v # kind => (Lacks(sent', kind) <=> Lacks(sent, kind))
           /\ v = kind /\ Lacks(sent', kind) /\ Latest(sent, kind, t) =>
                s = t /\ pos + 1 = Chunks[s]
  <2>1. v \in Kinds /\ "upload" \in Kinds
    BY DEF Kinds
  <2> QED BY <1>1, <2>1, ConsumeFacts, Zenon
<1>3. IF pos + 1 = Chunks[s]
      THEN /\ checked' = NoChunks
           /\ \/ replies' = Append(replies, Whole(s))
              \/ s \in Heavy /\ replies' = replies
      ELSE checked' = Part(s, pos + 1) /\ replies' = replies
  <2> DEFINE f == Store(checked, pos + 1, <<s, pos + 1>>)
  <2>1. f = Store(Part(s, pos), pos + 1, <<s, pos + 1>>)
    BY <1>1 DEF IInv, Checking
  <2>2. \/ ~Complete(f, Chunks[s]) /\ checked' = f /\ UNCHANGED replies
        \/ /\ Complete(f, Chunks[s])
           /\ \E n \in Borders(f) :
                IF Concatenable(f, n)
                THEN /\ checked' = DiscardChunks(f)
                     /\ \/ replies' = Append(replies, Concat(f, n))
                        \/ Concat(f, n) \in HeavyTexts /\ UNCHANGED replies
                ELSE checked' = f /\ UNCHANGED replies
    BY DEF ReceiveValidate
  <2> HIDE DEF f
  <2>3. /\ f = Part(s, pos + 1)
        /\ Complete(f, Chunks[s]) <=> pos + 1 = Chunks[s]
        /\ Borders(f) = {pos + 1} /\ Concatenable(f, pos + 1)
        /\ Concat(f, pos + 1) = f
        /\ pos + 1 = Chunks[s] => f = Whole(s)
    <3>1. s \in Scripts /\ pos \in Nat
      BY <1>2
    <3> HIDE DEF s
    <3> QED BY <2>1, <3>1, NextChunk
  <2>4. ASSUME pos + 1 = Chunks[s], Whole(s) \in HeavyTexts PROVE s \in Heavy
    <3>1. PICK t \in Heavy : Whole(s) = Whole(t)
      BY <2>4 DEF HeavyTexts
    <3>2. 1 \in 1 .. Chunks[s] /\ Chunks[t] \in Nat
      BY <1>2, <2>4, ChunksAssumption, HeavyAssumption
    <3> HIDE DEF s
    <3>3. Whole(s)[1] = <<s, 1>> /\ DOMAIN Whole(t) = 1 .. Chunks[s]
      BY <3>1, <3>2 DEF Whole
    <3>4. 1 \in 1 .. Chunks[t]
      BY <3>2, <3>3 DEF Whole
    <3>5. Whole(t)[1] = <<t, 1>>
      BY <3>4 DEF Whole
    <3>6. s = t
      BY <3>1, <3>3, <3>5
    <3> QED BY <3>6
  <2> HIDE DEF s
  <2> QED BY <2>2, <2>3, <2>4 DEF DiscardChunks
<1> HIDE DEF s
<1>4. Whole(s) \in Seq(Piece) /\ replies \in Seq(Seq(Piece))
  BY <1>2, NextChunk, Zenon DEF IInv, TypeOK
<1>5. TypeOK'
  <2>1. sent' \in Seq([kind : Kinds, script : Scripts])
    BY <1>2 DEF Message
  <2>2. replies' \in Seq(Seq(Piece))
    <3> DEFINE T == Seq(Piece)
               w == Whole(s)
    <3>1. w \in T /\ replies \in Seq(T) /\ replies' \in {replies, Append(replies, w)}
      BY <1>3, <1>4
    <3> HIDE DEF T, w
    <3>2. replies' \in Seq(T)
      BY <3>1, AppendProperties
    <3> QED BY <3>2 DEF T
  <2>3. IsStore(checked')
    <3>1. checked' = Part(s, pos + 1) \/ checked' = NoChunks
      BY <1>3
    <3> QED BY <1>2, <3>1 DEF IsStore, Part, NoChunks, Piece
  <2> QED BY <1>1, <1>2, <2>1, <2>2, <2>3 DEF IInv, TypeOK
<1>6. ASSUME pos + 1 = Chunks[s], NEW kind
      PROVE  (IF sent' # <<>> /\ kind
              THEN Part(Head(sent').script, pos') ELSE NoChunks) = NoChunks
  <2>1. sent' # <<>> => Head(sent') \in Message
    BY <1>2, HeadTailProperties
  <2>2. sent' # <<>> => Part(Head(sent').script, pos') = NoChunks
    BY <1>2, <1>6, <2>1, PartFacts DEF Message
  <2> QED BY <2>2
<1>7. Checking'
  <2>1. CASE pos + 1 = Chunks[s]
    BY <1>3, <1>6, <2>1 DEF Checking
  <2>2. CASE pos + 1 # Chunks[s]
    BY <1>1, <1>2, <1>3, <2>2 DEF Checking, s
  <2> QED BY <2>1, <2>2
<1>8. Uploading'
  <2>1. ~torn' => uploaded' = NoChunks
    BY <1>1 DEF IInv, Uploading
  <2>2. CASE pos + 1 = Chunks[s]
    BY <1>6, <2>1, <2>2 DEF Uploading
  <2>3. CASE pos + 1 # Chunks[s]
    BY <1>1, <1>2, <2>1, <2>3 DEF Uploading
  <2> QED BY <2>2, <2>3
<1>9. Answering'
  <2> SUFFICES ASSUME asked' # None PROVE
         /\ Latest(sent', v, asked')
         /\ asked' \notin Heavy \cup {None} /\ Lacks(sent', v) =>
              IF replies' = <<>> THEN shown' = Whole(asked')
                                 ELSE replies'[Len(replies')] = Whole(asked')
    BY DEF Answering
  <2>1. asked' = asked /\ Latest(sent, v, asked)
    BY <1>1 DEF IInv, Answering
  <2>2. Latest(sent', v, asked)
    BY <1>2, <2>1
  <2>3. ASSUME Lacks(sent', v), asked \notin Heavy
        PROVE  replies' # <<>> /\ replies'[Len(replies')] = Whole(asked)
    <3>1. s = asked /\ pos + 1 = Chunks[s]
      BY <1>2, <2>1, <2>3
    <3>2. replies' = Append(replies, Whole(asked))
      BY <1>3, <2>3, <3>1
    <3> QED BY <1>4, <3>1, <3>2, AppendProperties
  <2> QED BY <2>1, <2>2, <2>3
<1>10. Running'
  <2>1. /\ Lacks(sent', "upload") <=> Lacks(sent, "upload")
        /\ Latest(sent, "upload", last) => Latest(sent', "upload", last)
    BY <1>2
  <2> QED BY <1>1, <2>1 DEF IInv, Running
<1>11. IntactUnlessTorn'
  BY <1>1 DEF IInv, IntactUnlessTorn
<1> QED
  BY <1>2, <1>5, <1>7, <1>8, <1>9, <1>10, <1>11 DEF IInv

(* sv_upload.lua: as long as no upload was torn, the last chunk of a script *)
(* that is stored completes it, and the chip gets the whole of it.          *)
LEMMA ReceiveUploadStep == ASSUME IInv, ReceiveUpload PROVE IInv'
<1> DEFINE s == Head(sent).script
           u == "upload"
           f == Store(uploaded, pos + 1, <<s, pos + 1>>)
<1>1. /\ sent # <<>> /\ Head(sent).kind = u /\ Consume
      /\ UNCHANGED <<editor, shown, asked, last, requests, replies, checked, target>>
  BY DEF ReceiveUpload, clientVars
<1>2. /\ s \in Scripts /\ u \in Kinds /\ "validate" \in Kinds
      /\ pos \in Nat /\ Chunks[s] \in Nat
      /\ sent' \in Seq(Message) /\ pos' \in Nat
      /\ Queued'
      /\ IF pos + 1 = Chunks[s] THEN pos' = 0 /\ sent' = Tail(sent)
                                ELSE pos' = pos + 1 /\ sent' = sent
      /\ ~Lacks(sent, u)
      /\ \A kind \in Kinds : \A t :
           /\ Latest(sent, kind, t) => Latest(sent', kind, t)
           /\ u # kind => (Lacks(sent', kind) <=> Lacks(sent, kind))
           /\ u = kind /\ Lacks(sent', kind) /\ Latest(sent, kind, t) =>
                s = t /\ pos + 1 = Chunks[s]
  <2>1. u \in Kinds /\ "validate" \in Kinds
    BY DEF Kinds
  <2> QED BY <1>1, <2>1, ConsumeFacts, Zenon
<1>3. \/ /\ target = None /\ fate' = "dropped"
         /\ torn' = (torn \/ (pos > 0 /\ fate = "stored"))
         /\ uploaded' = uploaded /\ chip' = chip
      \/ /\ target # None /\ fate' = "stored"
         /\ torn' = (torn \/ (pos > 0 /\ fate = "dropped"))
         /\ \/ ~Complete(f, Chunks[s]) /\ uploaded' = f /\ chip' = chip
            \/ /\ Complete(f, Chunks[s])
               /\ \E n \in Borders(f) :
                    IF Concatenable(f, n)
                    THEN /\ uploaded' = NoChunks
                         /\ chip' = IF chip[target].st = "ready"
                                    THEN [chip EXCEPT ![target].text = Concat(f, n),
                                                      ![target].by = "me"]
                                    ELSE chip
                    ELSE uploaded' = f /\ chip' = chip
  BY DEF ReceiveUpload, DropChunk, StoreChunk, DiscardChunks
<1>4. /\ IsStore(uploaded) /\ IsStore(f) /\ IsStore(NoChunks)
      /\ \A n \in Borders(f) : Concatenable(f, n) => Concat(f, n) \in Seq(Piece)
  <2>1. IsStore(uploaded) /\ pos + 1 \in Nat \ {0} /\ <<s, pos + 1>> \in Piece
    BY <1>2 DEF IInv, TypeOK, Piece
  <2>2. IsStore(f) /\ IsStore(NoChunks)
    BY <2>1, StoreFacts
  <2> HIDE DEF f
  <2>3. \A n \in Borders(f) : Concatenable(f, n) => Concat(f, n) \in Seq(Piece)
    BY <2>1, <2>2, StoreFacts, Zenon
  <2> QED BY <2>1, <2>2, <2>3
<1>5. ASSUME ~torn'
      PROVE  /\ ~torn
             /\ uploaded = IF target # None THEN Part(s, pos) ELSE NoChunks
  <2>1. ~torn /\ fate \in {"stored", "dropped"}
    BY <1>3, <1>5 DEF IInv, TypeOK
  <2>2. uploaded = IF fate = "stored" THEN Part(s, pos) ELSE NoChunks
    BY <1>1, <2>1 DEF IInv, Uploading
  <2>3. Part(s, 0) = NoChunks
    BY <1>2, PartFacts, Zenon
  <2>4. CASE pos = 0
    BY <2>1, <2>2, <2>3, <2>4
  <2>5. CASE pos # 0
    <3>1. pos > 0
      BY <1>2, <2>5
    <3>2. IF target # None THEN fate # "dropped" ELSE fate # "stored"
      BY <1>3, <1>5, <3>1, Zenon
    <3> QED BY <2>1, <2>2, <3>2
  <2> QED BY <2>4, <2>5
<1>6. ASSUME ~torn', target # None
      PROVE  /\ f = Part(s, pos + 1)
             /\ Complete(f, Chunks[s]) <=> pos + 1 = Chunks[s]
             /\ Borders(f) = {pos + 1} /\ Concatenable(f, pos + 1)
             /\ Concat(f, pos + 1) = f
             /\ pos + 1 = Chunks[s] => f = Whole(s)
  <2>1. f = Store(Part(s, pos), pos + 1, <<s, pos + 1>>)
    BY <1>5, <1>6
  <2>2. s \in Scripts /\ pos \in Nat
    BY <1>2
  <2> HIDE DEF f, s
  <2> QED BY <2>1, <2>2, NextChunk
<1> HIDE DEF s, f
<1>7. ASSUME ~torn'
      PROVE  /\ ~torn
             /\ target = None => /\ fate' = "dropped" /\ uploaded' = NoChunks
                                 /\ chip' = chip
             /\ target # None /\ pos + 1 # Chunks[s] =>
                  fate' = "stored" /\ uploaded' = Part(s, pos + 1) /\ chip' = chip
             /\ target # None /\ pos + 1 = Chunks[s] =>
                  /\ fate' = "stored" /\ uploaded' = NoChunks
                  /\ chip' = IF chip[target].st = "ready"
                             THEN [chip EXCEPT ![target].text = Whole(s),
                                               ![target].by = "me"]
                             ELSE chip
  <2>1. CASE target = None
    BY <1>3, <1>5, <1>7, <2>1
  <2>2. CASE target # None
    <3> DEFINE given(x) == [chip EXCEPT ![target].text = x, ![target].by = "me"]
    <3>1. /\ ~torn /\ fate' = "stored"
          /\ \/ ~Complete(f, Chunks[s]) /\ uploaded' = f /\ chip' = chip
             \/ /\ Complete(f, Chunks[s])
                /\ \E n \in Borders(f) :
                     IF Concatenable(f, n)
                     THEN /\ uploaded' = NoChunks
                          /\ chip' = IF chip[target].st = "ready" THEN given(Concat(f, n)) ELSE chip
                     ELSE uploaded' = f /\ chip' = chip
      BY <1>3, <1>5, <1>7, <2>2
    <3>2. pos + 1 = Chunks[s] => chip' = IF chip[target].st = "ready" THEN given(Whole(s)) ELSE chip
      <4> HIDE DEF given
      <4> QED BY <1>6, <1>7, <2>2, <3>1
    <3>3. /\ pos + 1 # Chunks[s] => uploaded' = Part(s, pos + 1) /\ chip' = chip
          /\ pos + 1 = Chunks[s] => uploaded' = NoChunks
      <4> HIDE DEF given
      <4> QED BY <1>6, <1>7, <2>2, <3>1
    <3> QED BY <2>2, <3>1, <3>2, <3>3
  <2> QED BY <2>1, <2>2
<1>8. TypeOK'
  <2>1. sent' \in Seq([kind : Kinds, script : Scripts])
    BY <1>2 DEF Message
  <2>2. IsStore(uploaded')
    BY <1>3, <1>4
  <2>3. chip' \in [Chips -> Chip]
    <3>1. chip \in [Chips -> Chip]
      BY DEF IInv, TypeOK
    <3>2. \/ chip' = chip
          \/ /\ target # None
             /\ \E x \in Seq(Piece) : chip' = [chip EXCEPT ![target].text = x,
                                                            ![target].by = "me"]
      BY <1>3, <1>4
    <3> QED BY <3>1, <3>2 DEF Chip
  <2>4. fate' \in {"stored", "dropped"} /\ torn' \in BOOLEAN
    BY <1>3
  <2> QED BY <1>1, <1>2, <2>1, <2>2, <2>3, <2>4 DEF IInv, TypeOK
<1>9. ASSUME pos + 1 = Chunks[s], NEW kind
      PROVE  (IF sent' # <<>> /\ kind
              THEN Part(Head(sent').script, pos') ELSE NoChunks) = NoChunks
  <2>1. sent' # <<>> => Head(sent') \in Message
    BY <1>2, HeadTailProperties
  <2>2. sent' # <<>> => Part(Head(sent').script, pos') = NoChunks
    BY <1>2, <1>9, <2>1, PartFacts DEF Message
  <2> QED BY <2>2
<1>10. Checking'
  <2>1. checked' = NoChunks
    BY <1>1 DEF IInv, Checking
  <2>2. CASE pos + 1 = Chunks[s]
    BY <1>9, <2>1, <2>2 DEF Checking
  <2>3. CASE pos + 1 # Chunks[s]
    BY <1>1, <1>2, <2>1, <2>3 DEF Checking
  <2> QED BY <2>2, <2>3
<1>11. Uploading'
  <2>1. CASE pos + 1 = Chunks[s]
    BY <1>7, <1>9, <2>1 DEF Uploading
  <2>2. CASE pos + 1 # Chunks[s]
    BY <1>1, <1>2, <1>7, <2>2 DEF Uploading, s
  <2> QED BY <2>1, <2>2
<1>12. Answering'
  <2>1. /\ Lacks(sent', "validate") <=> Lacks(sent, "validate")
        /\ Latest(sent, "validate", asked) => Latest(sent', "validate", asked)
    BY <1>2
  <2> QED BY <1>1, <2>1 DEF IInv, Answering
<1>13. Running'
  <2>0. last' # None => Latest(sent, u, last) /\ Latest(sent', u, last')
    BY <1>1, <1>2 DEF IInv, Running
  <2> SUFFICES ASSUME ~torn', requests' = 0, last' # None, target' # None,
                      chip'[target'].st = "ready", Lacks(sent', u)
               PROVE  chip'[target'].text = Whole(last')
    BY <2>0 DEF Running
  <2>1. target \in Chips /\ chip \in [Chips -> Chip]
    BY <1>1 DEF IInv, TypeOK
  <2>2. chip'[target].st = chip[target].st
    BY <1>1, <1>7, <2>1 DEF Chip
  <2>3. Latest(sent, u, last)
    BY <1>1, <2>0
  <2>4. s = last /\ pos + 1 = Chunks[s]
    BY <1>2, <2>3
  <2> QED BY <1>1, <1>7, <2>1, <2>2, <2>4 DEF Chip
<1>14. IntactUnlessTorn'
  <2> SUFFICES ASSUME ~torn', NEW c \in Chips, chip'[c].text # NoText
               PROVE  \E x \in Scripts : chip'[c].text = Whole(x)
    BY DEF IntactUnlessTorn
  <2>1. target \in Chips \cup {None}
        /\ chip \in [Chips -> Chip]
    BY DEF IInv, TypeOK
  <2>2. chip'[c].text = chip[c].text \/ chip'[c].text = Whole(s)
    BY <1>7, <2>1 DEF Chip
  <2> QED BY <1>2, <1>7, <2>2 DEF IInv, IntactUnlessTorn
<1> QED
  BY <1>2, <1>8, <1>10, <1>11, <1>12, <1>13, <1>14 DEF IInv

(* A chip given a new record: typed, and with no text of its own. *)
LEMMA ResetFacts ==
  ASSUME IInv, NEW c \in Chips, NEW state \in {"gone", "bare", "ready"},
         NEW who \in {"me", "other"},
         chip' = [chip EXCEPT ![c] = [st |-> state, text |-> NoText, by |-> who]],
         torn' = torn
  PROVE  /\ chip' \in [Chips -> Chip]
         /\ chip'[c].st = state /\ chip'[c].by = who
         /\ \A d \in Chips \ {c} : chip'[d] = chip[d]
         /\ IntactUnlessTorn'
<1>1. chip \in [Chips -> Chip]
  BY DEF IInv, TypeOK
<1>2. [st |-> state, text |-> NoText, by |-> who] \in Chip
  BY DEF NoText, Chip
<1>3. /\ chip' \in [Chips -> Chip]
      /\ chip'[c].st = state /\ chip'[c].text = NoText /\ chip'[c].by = who
      /\ \A d \in Chips \ {c} : chip'[d] = chip[d]
  BY <1>1, <1>2
<1>4. IntactUnlessTorn'
  BY <1>3 DEF IInv, IntactUnlessTorn
<1> QED
  BY <1>3, <1>4

LEMMA ClickStep == ASSUME IInv, NEW c \in Chips, Click(c) PROVE IInv'
<1>1. /\ requests \in 0 .. MaxRequests /\ requests < MaxRequests /\ target' = c
      /\ UNCHANGED <<editor, shown, asked, last, sent, pos, replies, uploaded, checked,
                     fate, torn>>
  BY DEF Click, clientVars, IInv, TypeOK
<1>2. \/ /\ chip' = [chip EXCEPT ![c] = [st |-> "ready", text |-> NoText, by |-> "me"]]
         /\ requests' = requests + 1
      \/ /\ chip' = [chip EXCEPT ![c] = [st |-> "bare", text |-> NoText, by |-> "me"]]
         /\ requests' = requests
  BY DEF Click
<1>3. /\ chip' \in [Chips -> Chip]
      /\ requests' > 0 \/ chip'[c].st = "bare"
      /\ requests' \in 0 .. MaxRequests
      /\ IntactUnlessTorn'
  <2>1. CASE /\ chip' = [chip EXCEPT ![c] = [st |-> "ready", text |-> NoText, by |-> "me"]]
             /\ requests' = requests + 1
    <3>1. requests' \in 0 .. MaxRequests /\ requests' > 0
      BY <1>1, <2>1, BoundsAssumption
    <3> QED BY <1>1, <2>1, <3>1, ResetFacts
  <2>2. CASE /\ chip' = [chip EXCEPT ![c] = [st |-> "bare", text |-> NoText, by |-> "me"]]
             /\ requests' = requests
    BY <1>1, <2>2, ResetFacts
  <2> QED BY <1>2, <2>1, <2>2
<1>4. TypeOK'
  BY <1>1, <1>3 DEF IInv, TypeOK
<1>5. Queued' /\ Checking' /\ Uploading'
  BY <1>1 DEF IInv, Queued, Checking, Uploading
<1>6. Answering'
  BY <1>1 DEF IInv, Answering
<1>7. Running'
  BY <1>1, <1>3 DEF IInv, Running
<1> QED
  BY <1>3, <1>4, <1>5, <1>6, <1>7 DEF IInv

LEMMA OthersStep == ASSUME IInv, NEW c \in Chips, Others(c) PROVE IInv'
<1>1. /\ \E st \in {"gone", "bare", "ready"} :
           chip' = [chip EXCEPT ![c] = [st |-> st, text |-> NoText, by |-> "other"]]
      /\ UNCHANGED <<editor, shown, asked, last, requests, sent, pos, replies, uploaded,
                     checked, target, fate, torn>>
  BY DEF Others, clientVars, netVars
<1>2. /\ chip' \in [Chips -> Chip]
      /\ chip'[c].by = "other"
      /\ \A d \in Chips \ {c} : chip'[d] = chip[d]
      /\ IntactUnlessTorn'
  BY <1>1, ResetFacts
<1>4. TypeOK'
  BY <1>1, <1>2 DEF IInv, TypeOK
<1>5. Queued' /\ Checking' /\ Uploading'
  BY <1>1 DEF IInv, Queued, Checking, Uploading
<1>6. Answering'
  BY <1>1 DEF IInv, Answering
<1>7. Running'
  <2>1. target \in Chips \cup {None}
    BY DEF IInv, TypeOK
  <2>2. target \notin {c, None} => chip'[target] = chip[target]
    BY <1>2, <2>1
  <2> QED BY <1>1, <1>2, <2>2 DEF IInv, Running
<1> QED
  BY <1>2, <1>4, <1>5, <1>6, <1>7 DEF IInv

LEMMA GoneStep == ASSUME IInv, NEW c \in Chips, Gone(c) PROVE IInv'
<1>1. /\ chip' = [chip EXCEPT ![c] = [st |-> "gone", text |-> NoText, by |-> "me"]]
      /\ target' = IF target = c THEN None ELSE target
      /\ UNCHANGED <<editor, shown, asked, last, requests, sent, pos, replies, uploaded,
                     checked, fate, torn>>
  BY DEF Gone, NoChip, clientVars, netVars
<1>2. /\ chip' \in [Chips -> Chip]
      /\ \A d \in Chips \ {c} : chip'[d] = chip[d]
      /\ IntactUnlessTorn'
  BY <1>1, ResetFacts
<1>3. target \in Chips \cup {None} /\ target' \in Chips \cup {None}
  BY <1>1 DEF IInv, TypeOK
<1>4. TypeOK'
  BY <1>1, <1>2, <1>3 DEF IInv, TypeOK
<1>5. Queued' /\ Checking' /\ Uploading'
  BY <1>1 DEF IInv, Queued, Checking, Uploading
<1>6. Answering'
  BY <1>1 DEF IInv, Answering
<1>7. Running'
  <2>1. CASE target' = None
    BY <1>1, <2>1 DEF IInv, Running
  <2>2. CASE target' # None
    <3>1. target' = target /\ chip'[target] = chip[target]
      BY <1>1, <1>2, <1>3, <2>2
    <3> QED BY <1>1, <2>2, <3>1 DEF IInv, Running
  <2> QED BY <2>1, <2>2
<1> QED
  BY <1>2, <1>4, <1>5, <1>6, <1>7 DEF IInv

LEMMA NextIInv == IInv /\ [Next]_vars => IInv'
<1> SUFFICES ASSUME IInv, [Next]_vars PROVE IInv'
  OBVIOUS
<1>1. CASE \E s \in Scripts : Edit(s)
  BY <1>1, EditStep
<1>2. CASE Validate
  BY <1>2, ValidateStep
<1>3. CASE ReceiveRequest
  BY <1>3, ReceiveRequestStep
<1>4. CASE ReceiveVerdict
  BY <1>4, ReceiveVerdictStep
<1>5. CASE ReceiveUpload
  BY <1>5, ReceiveUploadStep
<1>6. CASE ReceiveValidate
  BY <1>6, ReceiveValidateStep
<1>7. CASE \E c \in Chips : Click(c)
  BY <1>7, ClickStep
<1>8. CASE \E c \in Chips : Gone(c)
  BY <1>8, GoneStep
<1>10. CASE \E c \in Chips : Others(c)
  BY <1>10, OthersStep
<1>9. CASE UNCHANGED vars
  <2>1. UNCHANGED <<editor, requests, sent, pos, replies, shown, uploaded, checked, target,
                    chip, asked, last, fate, torn>>
    BY <1>9 DEF vars, clientVars, netVars, serverVars
  <2>2. TypeOK'
    BY <2>1 DEF IInv, TypeOK
  <2>3. Queued' /\ Checking' /\ Uploading'
    BY <2>1 DEF IInv, Queued, Checking, Uploading
  <2>4. Answering' /\ Running' /\ IntactUnlessTorn'
    BY <2>1 DEF IInv, Answering, Running, IntactUnlessTorn
  <2> QED BY <2>2, <2>3, <2>4 DEF IInv
<1> QED
  BY <1>1, <1>2, <1>3, <1>4, <1>5, <1>6, <1>7, <1>8, <1>9, <1>10 DEF Next, Deliver

-----------------------------------------------------------------------------
(* The inductive invariant holds in every reachable state. *)
THEOREM UploadInvariance == Spec => []IInv
  BY InitIInv, NextIInv, PTL DEF Spec

(* The variables of the upload and validation handlers keep their types,    *)
(* the chunk tables also after a torn upload.                               *)
THEOREM UploadTypeCorrect == Spec => []TypeOK
<1>1. IInv => TypeOK
  BY DEF IInv
<1> QED BY <1>1, UploadInvariance, PTL

(* sv_upload.lua compiles whole scripts only, however many chunks they have *)
(* and whatever the player does meanwhile, until one upload has lost a part *)
(* of its chunks to an invalid JSChipTarget.                                *)
THEOREM OnlyWholeScripts == Spec => []IntactUnlessTorn
<1>1. IInv => IntactUnlessTorn
  BY DEF IInv
<1> QED BY <1>1, UploadInvariance, PTL

(* Between two uploads scriptChunks[ply] is empty in both files, unless an  *)
(* upload was torn.                                                         *)
THEOREM UploadsLeaveNothing == Spec => []NoResidue
<1>1. IInv => NoResidue
  <2> SUFFICES ASSUME IInv, pos = 0, ~torn
               PROVE  uploaded = NoChunks /\ checked = NoChunks
    BY DEF NoResidue
  <2>1. sent # <<>> => Head(sent).script \in Scripts
    <3>1. sent # <<>> => Head(sent) \in Message
      BY HeadTailProperties DEF IInv, TypeOK, Message
    <3> QED BY <3>1 DEF Message
  <2>2. sent # <<>> => Part(Head(sent).script, pos) = NoChunks
    BY <2>1, PartFacts
  <2> QED BY <2>2 DEF IInv, Checking, Uploading
<1> QED BY <1>1, UploadInvariance, PTL

(* The chip clicked last ends up with what the editor held at the last      *)
(* request of sv_upload.lua, also when requests for other chips were open   *)
(* or other players used the chip meanwhile, unless one of them comes last. *)
THEOREM LatestClickWins == Spec => []LatestClickRuns
<1>1. IInv => LatestClickRuns
  <2>1. Waiting("upload") = {} => Lacks(sent, "upload")
    BY DEF Waiting, Lacks
  <2> QED BY <2>1 DEF IInv, Running, LatestClickRuns
<1> QED BY <1>1, UploadInvariance, PTL

(* When sv_validate.lua has received everything and its answers are in, the *)
(* editor shows the verdict on the whole of the last script sent to it, if  *)
(* that is not one it cannot answer.                                        *)
THEOREM VerdictIsLatest == Spec => []ShownIsLatest
<1>1. IInv => ShownIsLatest
  <2>1. Waiting("validate") = {} => Lacks(sent, "validate")
    BY DEF Waiting, Lacks
  <2> QED BY <2>1 DEF IInv, Answering, ShownIsLatest
<1> QED BY <1>1, UploadInvariance, PTL
=============================================================================
