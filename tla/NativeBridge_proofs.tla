------------------------- MODULE NativeBridge_proofs -------------------------
(***************************************************************************)
(* Proofs about NativeBridge, for any number of arguments and calls.       *)
(*                                                                         *)
(* Programs have any length, and are executed here without induction over  *)
(* them: Good is the greatest set of configurations in which nothing goes  *)
(* wrong at once and that no instruction leads out of.  One rule per       *)
(* instruction says when a configuration is in it, then one per part the   *)
(* natives share; WalkRule is for loops.  NativesSafe and RootsSafe say    *)
(* that every program starts in it.  The machine's invariant, IInv, is     *)
(* that each function under way is still in it with its part of the stack. *)
(***************************************************************************)
EXTENDS NativeBridge, SequenceTheorems, TLAPS

-----------------------------------------------------------------------------
(* Instructions and configurations *)

(* What the natives are made of; only what Lua calls passes arguments on. *)
NativeInstr ==
  {Value(v) : v \in Kinds} \cup {GetField(k, f) : k \in Int, f \in Functions}
    \cup {Push(k) : k \in Int} \cup {Call(n, r) : n \in Nat, r \in {0, 1}}
    \cup {Pop(n) : n \in Nat} \cup {GetTable(k) : k \in Int} \cup {SetField(k) : k \in Int}
    \cup {Read(K) : K \in SUBSET Kinds} \cup {Require(n) : n \in Nat} \cup {Bail(n) : n \in Nat}
    \cup {PushText, Strcmp, Script}
Instr == NativeInstr \cup {MetaTable(k) : k \in Int} \cup {Pass(ks) : ks \in Seq(Int)}
           \cup {PassEntity, PassAlpha}

Names == DOMAIN Natives \cup DOMAIN Roots
PassedType == Seq(Seq(Kinds \cup {"255"}))

Codes(nm) == IF nm \in DOMAIN Natives THEN Seq(NativeInstr) ELSE Seq(Instr)

(* A function, the instructions it still has to run, its values on the Lua  *)
(* stack, and what was passed.                                              *)
Confs == {c \in Names \X Seq(Instr) \X Seq(Kinds) \X PassedType : c[2] \in Codes(c[1])}

(* What may be left when the function returns to a script. *)
Exits(nm, s) ==
  \/ nm \in DOMAIN Roots
  \/ s = <<>>
  \/ nm \in {"Crouching", "Team", "Frags", "SteamID", "SteamID64", "AccountID"} /\ s = <<"glob">>
  \/ nm = "IsValidPhysics" /\ Len(s) = 2
  \/ /\ nm \in {"InputsChange", "OutputsChange"}
     /\ \E e \in {"chip", "prop"} : s = <<"glob", e, "true">>

(* The faults that the scripts themselves can cause, or a context that is   *)
(* not a chip's or not a player's.                                          *)
Excused(nm, i, s) ==
  \/ nm = "log" /\ i[1] = "call" /\ (Len(s) - 4 < i[2] \/ s[2] # "player")
  \/ nm \in {"InputsChange", "OutputsChange"} /\ i = Strcmp
  \/ /\ nm \in {"InputsChange", "OutputsChange", "Trigger"}
     /\ i[1] = "getfield" /\ At(s, i[2]) = "prop"

(* JS_EmitEvent, with all of its arguments made. *)
Delivered(s, p) ==
  /\ p = <<>> <=> Len(s) = 2
  /\ \A i \in DOMAIN p : Arrives(s[i + 2], p[i])

Harmless(nm, code, s, p) ==
  /\ code = <<>> => Exits(nm, s)
  /\ code # <<>> => Legal(Head(code), s, p) \/ Excused(nm, Head(code), s)
  /\ nm = "JS_EmitEvent" /\ code = <<Script>> => Delivered(s, p)

(* The values after an instruction that is followed by the next one, those  *)
(* after one that returns, and what was passed.                             *)
Kept(i, s) ==
  CASE i[1] = "value" -> {Append(s, i[2])}
    [] i[1] = "pushtext" -> {s, Append(s, "str")}
    [] i[1] = "getfield" -> {Append(s, i[3])}
    [] i[1] = "push" -> {Append(s, At(s, i[2]))}
    [] i[1] = "call" ->
         IF i[3] = 0 THEN {Under(s, i[2] + 1)}
         ELSE {Append(Under(s, i[2] + 1), r) : r \in Results(At(s, -(i[2] + 1)), Args(s, i[2]))}
    [] i[1] = "pop" -> {Under(s, i[2])}
    [] i[1] = "gettable" ->
         {Append(Under(s, 1), IF At(s, i[2]) = "table" THEN "nil" ELSE Component[At(s, -1)])}
    [] i[1] = "setfield" -> {Under(s, 1)}
    [] i[1] = "metatable" -> {Append(s, "metatable")}
    [] i[1] = "require" -> IF At(s, -1) = "true" THEN {s} ELSE {}
    [] OTHER -> {s}
Left(i, s) ==
  CASE i[1] = "require" -> IF At(s, -1) = "false" THEN {Under(s, i[2])} ELSE {}
    [] i[1] = "bail" -> {Under(s, i[2])}
    [] OTHER -> {}
Passes(i, s, p) ==
  CASE i[1] = "pass" -> {Append(p, [j \in DOMAIN i[2] |-> At(s, i[2][j])])}
    [] i[1] = "passentity" -> {Append(p, IF At(s, -1) = "zero" THEN <<>> ELSE <<At(s, -1)>>)}
    [] i[1] = "passalpha" ->
         {Append(Front(p), Append(Last(p), a)) : a \in {At(s, -1), "255"}}
    [] OTHER -> {p}

(* What an instruction that works leads to is in the set I of               *)
(* configurations.  I is sound if this is so for each of its members, and   *)
(* each is harmless.                                                        *)
Follow(nm, code, s, p, I) ==
  /\ \A t \in Kept(Head(code), s) : \A q \in Passes(Head(code), s, p) : <<nm, Tail(code), t, q>> \in I
  /\ \A t \in Left(Head(code), s) : <<nm, <<>>, t, p>> \in I
Fine(nm, code, s, p, I) ==
  /\ Harmless(nm, code, s, p)
  /\ code # <<>> /\ Legal(Head(code), s, p) => Follow(nm, code, s, p, I)
Sound(I) == \A nm, code, s, p : <<nm, code, s, p>> \in I => Fine(nm, code, s, p, I)

Good == UNION {I \in SUBSET Confs : Sound(I)}
Safe(nm, code, s, p) == <<nm, code, s, p>> \in Good

LEMMA FineMonotonic ==
  ASSUME NEW I, NEW J, I \subseteq J, NEW nm, NEW code, NEW s, NEW p, Fine(nm, code, s, p, I)
  PROVE  Fine(nm, code, s, p, J)
  BY Zenon DEF Fine, Follow

(* Coinduction: harmless configurations that lead to each other, or to safe *)
(* ones, are safe.                                                          *)
LEMMA Coinduction ==
  ASSUME NEW I \in SUBSET Confs,
         \A nm, code, s, p : <<nm, code, s, p>> \in I => Fine(nm, code, s, p, I \cup Good)
  PROVE  I \subseteq Good
<1>1. Good \subseteq Confs
  BY Zenon DEF Good
<1>2. \A nm, code, s, p : <<nm, code, s, p>> \in Good => Fine(nm, code, s, p, Good)
  <2> SUFFICES ASSUME NEW nm, NEW code, NEW s, NEW p, <<nm, code, s, p>> \in Good
               PROVE  Fine(nm, code, s, p, Good)
    OBVIOUS
  <2>1. PICK J \in SUBSET Confs : Sound(J) /\ <<nm, code, s, p>> \in J
    BY Zenon DEF Good
  <2>2. J \subseteq Good
    BY <2>1, Zenon DEF Good
  <2>3. Fine(nm, code, s, p, J)
    BY <2>1, Zenon DEF Sound
  <2> QED
    BY <2>2, <2>3, FineMonotonic
<1>3. \A nm, code, s, p : <<nm, code, s, p>> \in I \cup Good => Fine(nm, code, s, p, I \cup Good)
  <2> SUFFICES ASSUME NEW nm, NEW code, NEW s, NEW p, <<nm, code, s, p>> \in I \cup Good
               PROVE  Fine(nm, code, s, p, I \cup Good)
    OBVIOUS
  <2>1. CASE <<nm, code, s, p>> \in I
    BY <2>1, Zenon
  <2>2. CASE <<nm, code, s, p>> \in Good
    BY <1>2, <2>2, FineMonotonic, Good \subseteq I \cup Good
  <2> QED
    BY <2>1, <2>2
<1>4. I \cup Good \in {J \in SUBSET Confs : Sound(J)}
  BY <1>1, <1>3, Zenon DEF Sound
<1> QED
  BY <1>4, Zenon DEF Good

LEMMA SafeIsFine ==
  ASSUME NEW nm, NEW code, NEW s, NEW p, Safe(nm, code, s, p)
  PROVE  <<nm, code, s, p>> \in Confs /\ Fine(nm, code, s, p, Good)
<1>1. PICK J \in SUBSET Confs : Sound(J) /\ <<nm, code, s, p>> \in J
  BY Zenon DEF Good, Safe
<1>2. J \subseteq Good
  BY <1>1, Zenon DEF Good
<1>3. Fine(nm, code, s, p, J)
  BY <1>1, Zenon DEF Sound
<1> QED
  BY <1>1, <1>2, <1>3, FineMonotonic

LEMMA FineIsSafe ==
  ASSUME NEW nm, NEW code, NEW s, NEW p, <<nm, code, s, p>> \in Confs, Fine(nm, code, s, p, Good)
  PROVE  Safe(nm, code, s, p)
<1> DEFINE I == {<<nm, code, s, p>>}
<1>1. I \in SUBSET Confs
  OBVIOUS
<1>2. \A nm2, code2, s2, p2 : <<nm2, code2, s2, p2>> \in I => Fine(nm2, code2, s2, p2, I \cup Good)
  <2> SUFFICES ASSUME NEW nm2, NEW code2, NEW s2, NEW p2, <<nm2, code2, s2, p2>> \in I
               PROVE  Fine(nm2, code2, s2, p2, I \cup Good)
    OBVIOUS
  <2>1. nm2 = nm /\ code2 = code /\ s2 = s /\ p2 = p
    OBVIOUS
  <2>2. Fine(nm, code, s, p, I \cup Good)
    BY FineMonotonic, Good \subseteq I \cup Good
  <2> QED
    BY <2>1, <2>2, Zenon
<1> HIDE DEF I
<1>3. I \subseteq Good
  BY <1>1, <1>2, Coinduction, Zenon
<1> QED
  BY <1>3 DEF I, Safe

-----------------------------------------------------------------------------
(* One rule per instruction: what has to be safe after it for it to be safe *)

LEMMA SafeTyped ==
  ASSUME NEW nm, NEW code, NEW s, NEW p, Safe(nm, code, s, p)
  PROVE  nm \in Names /\ code \in Codes(nm) /\ s \in Seq(Kinds) /\ p \in PassedType
<1>1. <<nm, code, s, p>> \in Confs
  BY SafeIsFine
<1> QED
  BY <1>1, SMT DEF Confs

LEMMA CodesAreSequences ==
  \A nm : Codes(nm) \subseteq Seq(Instr) /\ <<>> \in Codes(nm)
<1>1. NativeInstr \subseteq Instr
  BY DEF Instr
<1>2. Seq(NativeInstr) \subseteq Seq(Instr)
  BY <1>1, SeqMonotonic
<1> QED
  BY <1>2 DEF Codes

LEMMA Prefixed ==
  ASSUME NEW S, NEW i \in S, NEW rest \in Seq(S)
  PROVE  /\ <<i>> \o rest \in Seq(S)
         /\ <<i>> \o rest # <<>>
         /\ Head(<<i>> \o rest) = i
         /\ Tail(<<i>> \o rest) = rest
<1>1. <<i>> \in Seq(S)
  OBVIOUS
<1>2. <<i>> \o rest \in Seq(S) /\ Len(<<i>> \o rest) = 1 + Len(rest)
  BY <1>1
<1>3. Head(<<i>> \o rest) = i
  BY <1>1, <1>2
<1>4. Tail(<<i>> \o rest) \in Seq(S) /\ Len(Tail(<<i>> \o rest)) = Len(rest)
  BY <1>2
<1>5. \A j \in 1 .. Len(rest) : Tail(<<i>> \o rest)[j] = rest[j]
  BY <1>1, <1>2
<1>6. Tail(<<i>> \o rest) = rest
  BY <1>4, <1>5, SeqEqual
<1> QED
  BY <1>2, <1>3, <1>6

LEMMA StepRule ==
  ASSUME NEW nm \in Names, NEW rest \in Codes(nm), NEW s \in Seq(Kinds), NEW p \in PassedType,
         NEW i \in Instr, nm \in DOMAIN Natives => i \in NativeInstr,
         i # Script \/ nm # "JS_EmitEvent",
         Legal(i, s, p),
         \A t \in Kept(i, s) : \A q \in Passes(i, s, p) : Safe(nm, rest, t, q),
         \A t \in Left(i, s) : Safe(nm, <<>>, t, p)
  PROVE  Safe(nm, <<i>> \o rest, s, p)
<1>1. rest \in Seq(Instr) /\ (nm \in DOMAIN Natives => rest \in Seq(NativeInstr))
  BY CodesAreSequences, Zenon DEF Codes
<1>2. /\ <<i>> \o rest \in Seq(Instr)
      /\ <<i>> \o rest # <<>>
      /\ Head(<<i>> \o rest) = i
      /\ Tail(<<i>> \o rest) = rest
  BY <1>1, Prefixed, Zenon
<1>3. nm \in DOMAIN Natives => <<i>> \o rest \in Seq(NativeInstr)
  BY <1>1, Prefixed, Zenon
<1>4. <<i>> \o rest \in Codes(nm)
  BY <1>2, <1>3 DEF Codes
<1> DEFINE c == <<i>> \o rest
<1>5. c \in Seq(Instr) /\ c \in Codes(nm) /\ c # <<>> /\ Head(c) = i /\ Tail(c) = rest
  BY <1>2, <1>4, Zenon DEF c
<1> HIDE DEF c
<1>6. <<nm, c, s, p>> \in Confs
  BY <1>5, SMT DEF Confs
<1>7. c = <<Script>> => i = Script
  <2>1. Head(<<Script>>) = Script
    OBVIOUS
  <2> QED
    BY <1>5, <2>1, Zenon
<1>8. Harmless(nm, c, s, p)
  BY <1>5, <1>7, Zenon DEF Harmless
<1>9. Follow(nm, c, s, p, Good)
  BY <1>5, Zenon DEF Follow, Safe
<1>10. Fine(nm, c, s, p, Good)
  BY <1>8, <1>9, Zenon DEF Fine
<1>11. Safe(nm, c, s, p)
  BY <1>6, <1>10, FineIsSafe
<1> QED
  BY <1>11 DEF c

(* An instruction with one outcome, that passes nothing. *)
LEMMA PlainRule ==
  ASSUME NEW nm, NEW rest, NEW s \in Seq(Kinds), NEW p, NEW i \in NativeInstr, NEW t,
         i # Script \/ nm # "JS_EmitEvent", Legal(i, s, p),
         Kept(i, s) = {t}, Left(i, s) = {}, Passes(i, s, p) = {p}, Safe(nm, rest, t, p)
  PROVE  Safe(nm, <<i>> \o rest, s, p)
<1>1. nm \in Names /\ rest \in Codes(nm) /\ p \in PassedType
  BY SafeTyped
<1>2. \A u \in Kept(i, s) : \A q \in Passes(i, s, p) : Safe(nm, rest, u, q)
  BY Zenon
<1>3. \A u \in Left(i, s) : Safe(nm, <<>>, u, p)
  BY Zenon
<1>4. i \in Instr
  BY DEF Instr
<1> QED
  BY <1>1, <1>2, <1>3, <1>4, StepRule

LEMMA ValueRule ==
  ASSUME NEW nm, NEW rest, NEW s \in Seq(Kinds), NEW p, NEW v \in Kinds,
         Safe(nm, rest, Append(s, v), p)
  PROVE  Safe(nm, <<Value(v)>> \o rest, s, p)
<1>1. Value(v) \in NativeInstr /\ Value(v) # Script
  BY SMT DEF NativeInstr, Value, Script
<1>2. Legal(Value(v), s, p)
  BY SMT DEF Legal, Value
<1>3. /\ Kept(Value(v), s) = {Append(s, v)}
      /\ Left(Value(v), s) = {} /\ Passes(Value(v), s, p) = {p}
  BY SMT DEF Kept, Left, Passes, Value
<1> QED
  BY <1>1, <1>2, <1>3, PlainRule

LEMMA GetFieldRule ==
  ASSUME NEW nm, NEW rest, NEW s \in Seq(Kinds), NEW p, NEW k \in Int,
         NEW f \in Functions, Mine(s, k), At(s, k) \in On(f),
         Safe(nm, rest, Append(s, f), p)
  PROVE  Safe(nm, <<GetField(k, f)>> \o rest, s, p)
<1>1. GetField(k, f) \in NativeInstr /\ GetField(k, f) # Script
  BY SMT DEF NativeInstr, GetField, Script
<1>2. Legal(GetField(k, f), s, p)
  BY SMT DEF Legal, GetField
<1>3. /\ Kept(GetField(k, f), s) = {Append(s, f)}
      /\ Left(GetField(k, f), s) = {} /\ Passes(GetField(k, f), s, p) = {p}
  BY SMT DEF Kept, Left, Passes, GetField
<1> QED
  BY <1>1, <1>2, <1>3, PlainRule

LEMMA PushRule ==
  ASSUME NEW nm, NEW rest, NEW s \in Seq(Kinds), NEW p, NEW k \in Int,
         Mine(s, k), Safe(nm, rest, Append(s, At(s, k)), p)
  PROVE  Safe(nm, <<Push(k)>> \o rest, s, p)
<1>1. Push(k) \in NativeInstr /\ Push(k) # Script
  BY SMT DEF NativeInstr, Push, Script
<1>2. Legal(Push(k), s, p)
  BY SMT DEF Legal, Push
<1>3. /\ Kept(Push(k), s) = {Append(s, At(s, k))}
      /\ Left(Push(k), s) = {} /\ Passes(Push(k), s, p) = {p}
  BY SMT DEF Kept, Left, Passes, Push
<1> QED
  BY <1>1, <1>2, <1>3, PlainRule

LEMMA PopRule ==
  ASSUME NEW nm, NEW rest, NEW s \in Seq(Kinds), NEW p, NEW n \in Nat,
         n <= Len(s), Safe(nm, rest, Under(s, n), p)
  PROVE  Safe(nm, <<Pop(n)>> \o rest, s, p)
<1>1. Pop(n) \in NativeInstr /\ Pop(n) # Script
  BY SMT DEF NativeInstr, Pop, Script
<1>2. Legal(Pop(n), s, p)
  BY SMT DEF Legal, Pop
<1>3. /\ Kept(Pop(n), s) = {Under(s, n)}
      /\ Left(Pop(n), s) = {} /\ Passes(Pop(n), s, p) = {p}
  BY SMT DEF Kept, Left, Passes, Pop
<1> QED
  BY <1>1, <1>2, <1>3, PlainRule

LEMMA ReadRule ==
  ASSUME NEW nm, NEW rest, NEW s \in Seq(Kinds), NEW p, NEW K \in SUBSET Kinds,
         s # <<>>, At(s, -1) \in K, Safe(nm, rest, s, p)
  PROVE  Safe(nm, <<Read(K)>> \o rest, s, p)
<1>1. Read(K) \in NativeInstr /\ Read(K) # Script
  BY SMT DEF NativeInstr, Read, Script
<1>2. Legal(Read(K), s, p)
  BY SMT DEF Legal, Read
<1>3. /\ Kept(Read(K), s) = {s}
      /\ Left(Read(K), s) = {} /\ Passes(Read(K), s, p) = {p}
  BY SMT DEF Kept, Left, Passes, Read
<1> QED
  BY <1>1, <1>2, <1>3, PlainRule

LEMMA BailRule ==
  ASSUME NEW nm, NEW rest, NEW s \in Seq(Kinds), NEW p, NEW n \in Nat,
         n <= Len(s), Safe(nm, rest, s, p), Safe(nm, <<>>, Under(s, n), p)
  PROVE  Safe(nm, <<Bail(n)>> \o rest, s, p)
<1>1. Bail(n) \in NativeInstr /\ Bail(n) # Script
  BY SMT DEF NativeInstr, Bail, Script
<1>2. Legal(Bail(n), s, p)
  BY SMT DEF Legal, Bail
<1>3. /\ Kept(Bail(n), s) = {s}
      /\ Left(Bail(n), s) = {Under(s, n)} /\ Passes(Bail(n), s, p) = {p}
  BY SMT DEF Kept, Left, Passes, Bail
<1>4. nm \in Names /\ rest \in Codes(nm) /\ p \in PassedType
  BY SafeTyped
<1>5. Bail(n) \in Instr
  BY <1>1 DEF Instr
<1> QED
  BY <1>1, <1>2, <1>3, <1>4, <1>5, StepRule, Zenon

LEMMA ScriptRule ==
  ASSUME NEW nm, NEW rest, NEW s \in Seq(Kinds), NEW p, nm # "JS_EmitEvent", Safe(nm, rest, s, p)
  PROVE  Safe(nm, <<Script>> \o rest, s, p)
<1>1. Script \in NativeInstr
  BY SMT DEF NativeInstr, Script
<1>2. Legal(Script, s, p)
  BY SMT DEF Legal, Script
<1>3. /\ Kept(Script, s) = {s}
      /\ Left(Script, s) = {} /\ Passes(Script, s, p) = {p}
  BY SMT DEF Kept, Left, Passes, Script
<1> QED
  BY <1>1, <1>2, <1>3, PlainRule

LEMMA RequireRule ==
  ASSUME NEW nm \in Names, NEW rest \in Codes(nm), NEW s \in Seq(Kinds), NEW p \in PassedType,
         NEW n \in Nat, s # <<>>, At(s, -1) \in {"true", "false"}, n <= Len(s),
         At(s, -1) = "true" => Safe(nm, rest, s, p),
         At(s, -1) = "false" => Safe(nm, <<>>, Under(s, n), p)
  PROVE  Safe(nm, <<Require(n)>> \o rest, s, p)
<1>1. Require(n) \in NativeInstr /\ Require(n) # Script
  BY SMT DEF NativeInstr, Require, Script
<1>2. Legal(Require(n), s, p)
  BY SMT DEF Legal, Require
<1>3. /\ Kept(Require(n), s) = IF At(s, -1) = "true" THEN {s} ELSE {}
      /\ Left(Require(n), s) = IF At(s, -1) = "false" THEN {Under(s, n)} ELSE {}
      /\ Passes(Require(n), s, p) = {p}
  BY SMT DEF Kept, Left, Passes, Require
<1>4. \A t \in Kept(Require(n), s) : \A q \in Passes(Require(n), s, p) : Safe(nm, rest, t, q)
  BY <1>3, Zenon
<1>5. \A t \in Left(Require(n), s) : Safe(nm, <<>>, t, p)
  BY <1>3, Zenon
<1>6. Require(n) \in Instr
  BY <1>1 DEF Instr
<1> QED
  BY <1>1, <1>2, <1>4, <1>5, <1>6, StepRule, Zenon

LEMMA GetTableRule ==
  ASSUME NEW nm, NEW rest, NEW s \in Seq(Kinds), NEW p, NEW k \in Int, NEW v,
         Mine(s, k), At(s, k) \in {"color", "table"}, At(s, -1) \in DOMAIN Component,
         v = IF At(s, k) = "table" THEN "nil" ELSE Component[At(s, -1)],
         Safe(nm, rest, Append(Under(s, 1), v), p)
  PROVE  Safe(nm, <<GetTable(k)>> \o rest, s, p)
<1>1. GetTable(k) \in NativeInstr /\ GetTable(k) # Script
  BY SMT DEF NativeInstr, GetTable, Script
<1>2. Legal(GetTable(k), s, p)
  BY SMT DEF Legal, GetTable
<1>3. /\ Kept(GetTable(k), s) = {Append(Under(s, 1), v)}
      /\ Left(GetTable(k), s) = {} /\ Passes(GetTable(k), s, p) = {p}
  BY SMT DEF Kept, Left, Passes, GetTable
<1> QED
  BY <1>1, <1>2, <1>3, PlainRule

LEMMA CallRule ==
  ASSUME NEW nm, NEW rest, NEW s \in Seq(Kinds), NEW p, NEW n \in Nat, n < Len(s),
         At(s, -(n + 1)) \in Functions, Accepts(At(s, -(n + 1)), Args(s, n)),
         Safe(nm, rest, Under(s, n + 1), p)
  PROVE  Safe(nm, <<Call(n, 0)>> \o rest, s, p)
<1>1. Call(n, 0) \in NativeInstr /\ Call(n, 0) # Script
  BY SMT DEF NativeInstr, Call, Script
<1>2. Legal(Call(n, 0), s, p)
  BY SMT DEF Legal, Call
<1>3. /\ Kept(Call(n, 0), s) = {Under(s, n + 1)}
      /\ Left(Call(n, 0), s) = {} /\ Passes(Call(n, 0), s, p) = {p}
  BY SMT DEF Kept, Left, Passes, Call
<1> QED
  BY <1>1, <1>2, <1>3, PlainRule

LEMMA ResultRule ==
  ASSUME NEW nm \in Names, NEW rest \in Codes(nm), NEW s \in Seq(Kinds), NEW p \in PassedType,
         NEW n \in Nat, n < Len(s), NEW f, NEW args, NEW pre,
         f = At(s, -(n + 1)), args = Args(s, n), pre = Under(s, n + 1),
         f \in Functions, Accepts(f, args),
         \A r \in Results(f, args) : Safe(nm, rest, Append(pre, r), p)
  PROVE  Safe(nm, <<Call(n, 1)>> \o rest, s, p)
<1>1. Call(n, 1) \in NativeInstr /\ Call(n, 1) # Script
  BY SMT DEF NativeInstr, Call, Script
<1>2. Legal(Call(n, 1), s, p)
  BY SMT DEF Legal, Call
<1>3. /\ Kept(Call(n, 1), s) = {Append(pre, r) : r \in Results(f, args)}
      /\ Left(Call(n, 1), s) = {} /\ Passes(Call(n, 1), s, p) = {p}
  BY SMT DEF Kept, Left, Passes, Call
<1>4. \A t \in Kept(Call(n, 1), s) : \A q \in Passes(Call(n, 1), s, p) : Safe(nm, rest, t, q)
  BY <1>3, Zenon
<1>5. Call(n, 1) \in Instr
  BY <1>1 DEF Instr
<1>6. \A t \in Left(Call(n, 1), s) : Safe(nm, <<>>, t, p)
  BY <1>3, Zenon
<1> QED
  BY <1>1, <1>2, <1>4, <1>5, <1>6, StepRule, Zenon

LEMMA ExitRule ==
  ASSUME NEW nm \in Names, NEW s \in Seq(Kinds), NEW p \in PassedType, Exits(nm, s)
  PROVE  Safe(nm, <<>>, s, p)
<1> DEFINE c == <<>>
<1>1. c \in Codes(nm) /\ c \in Seq(Instr) /\ c # <<Script>>
  BY CodesAreSequences
<1>2. c = <<>>
  OBVIOUS
<1> HIDE DEF c
<1>3. <<nm, c, s, p>> \in Confs
  BY <1>1, SMT DEF Confs
<1>4. Fine(nm, c, s, p, Good)
  BY <1>1, <1>2, Zenon DEF Fine, Harmless
<1>5. Safe(nm, c, s, p)
  BY <1>3, <1>4, FineIsSafe
<1> QED
  BY <1>5 DEF c

-----------------------------------------------------------------------------
(* Sequences of instructions and values *)

LEMMA FirstAndRest ==
  ASSUME NEW S, NEW a \in S, NEW r \in Seq(S), NEW z \in Seq(S), Len(z) = Len(r) + 1,
         z[1] = a, \A j \in 1 .. Len(r) : z[j + 1] = r[j]
  PROVE  z = <<a>> \o r
<1>1. <<a>> \o r \in Seq(S) /\ Len(<<a>> \o r) = Len(r) + 1
  OBVIOUS
<1>2. \A j \in 1 .. Len(r) + 1 : (<<a>> \o r)[j] = z[j]
  <2> SUFFICES ASSUME NEW j \in 1 .. Len(r) + 1 PROVE (<<a>> \o r)[j] = z[j]
    OBVIOUS
  <2>1. CASE j = 1
    BY <2>1
  <2>2. CASE j # 1
    <3>1. j - 1 \in 1 .. Len(r) /\ z[(j - 1) + 1] = r[j - 1] /\ (j - 1) + 1 = j
      BY <2>2
    <3>2. (<<a>> \o r)[j] = r[j - 1]
      BY <2>2
    <3> QED
      BY <3>1, <3>2
  <2> QED
    BY <2>1, <2>2
<1> QED
  BY <1>1, <1>2, SeqEqual

LEMMA LastAndFront ==
  ASSUME NEW S, NEW a \in S, NEW r \in Seq(S), NEW z \in Seq(S), Len(z) = Len(r) + 1,
         z[Len(r) + 1] = a, \A j \in 1 .. Len(r) : z[j] = r[j]
  PROVE  z = Append(r, a)
<1>1. Append(r, a) \in Seq(S) /\ Len(Append(r, a)) = Len(r) + 1
  OBVIOUS
<1>2. \A j \in 1 .. Len(r) + 1 : Append(r, a)[j] = z[j]
  OBVIOUS
<1> QED
  BY <1>1, <1>2, SeqEqual

LEMMA Split2 ==
  ASSUME NEW a, NEW b, NEW r \in Seq(Instr)
  PROVE  <<a, b>> \o r = <<a>> \o (<<b>> \o r)
<1> DEFINE T == Instr \cup {a, b}
<1>1. Instr \subseteq T
  OBVIOUS
<1>2. r \in Seq(T)
  BY <1>1, SeqMonotonic
<1>3. <<b>> \in Seq(T) /\ <<a>> \in Seq(T) /\ <<a, b>> \in Seq(T) /\ a \in T
  OBVIOUS
<1>4. Len(<<a, b>>) = Len(<<b>>) + 1 /\ \A j \in 1 .. Len(<<b>>) : <<a, b>>[j + 1] = <<b>>[j]
  OBVIOUS
<1> HIDE DEF T
<1>5. <<a, b>> = <<a>> \o <<b>>
  BY <1>3, <1>4, FirstAndRest
<1>6. (<<a>> \o <<b>>) \o r = <<a>> \o (<<b>> \o r)
  BY <1>2, <1>3, ConcatAssociative
<1> QED
  BY <1>5, <1>6

LEMMA Split3 ==
  ASSUME NEW a, NEW b, NEW c, NEW r \in Seq(Instr)
  PROVE  <<a, b, c>> \o r = <<a>> \o (<<b, c>> \o r)
<1> DEFINE T == Instr \cup {a, b, c}
<1>1. Instr \subseteq T
  OBVIOUS
<1>2. r \in Seq(T)
  BY <1>1, SeqMonotonic
<1>3. <<b, c>> \in Seq(T) /\ <<a>> \in Seq(T) /\ <<a, b, c>> \in Seq(T) /\ a \in T
  OBVIOUS
<1>4. Len(<<a, b, c>>) = Len(<<b, c>>) + 1 /\ \A j \in 1 .. Len(<<b, c>>) : <<a, b, c>>[j + 1] = <<b, c>>[j]
  OBVIOUS
<1> HIDE DEF T
<1>5. <<a, b, c>> = <<a>> \o <<b, c>>
  BY <1>3, <1>4, FirstAndRest
<1>6. (<<a>> \o <<b, c>>) \o r = <<a>> \o (<<b, c>> \o r)
  BY <1>2, <1>3, ConcatAssociative
<1> QED
  BY <1>5, <1>6

LEMMA Split4 ==
  ASSUME NEW a, NEW b, NEW c, NEW d, NEW r \in Seq(Instr)
  PROVE  <<a, b, c, d>> \o r = <<a>> \o (<<b, c, d>> \o r)
<1> DEFINE T == Instr \cup {a, b, c, d}
<1>1. Instr \subseteq T
  OBVIOUS
<1>2. r \in Seq(T)
  BY <1>1, SeqMonotonic
<1>3. <<b, c, d>> \in Seq(T) /\ <<a>> \in Seq(T) /\ <<a, b, c, d>> \in Seq(T) /\ a \in T
  OBVIOUS
<1>4. Len(<<a, b, c, d>>) = Len(<<b, c, d>>) + 1 /\ \A j \in 1 .. Len(<<b, c, d>>) : <<a, b, c, d>>[j + 1] = <<b, c, d>>[j]
  OBVIOUS
<1> HIDE DEF T
<1>5. <<a, b, c, d>> = <<a>> \o <<b, c, d>>
  BY <1>3, <1>4, FirstAndRest
<1>6. (<<a>> \o <<b, c, d>>) \o r = <<a>> \o (<<b, c, d>> \o r)
  BY <1>2, <1>3, ConcatAssociative
<1> QED
  BY <1>5, <1>6

LEMMA Split5 ==
  ASSUME NEW a, NEW b, NEW c, NEW d, NEW e, NEW r \in Seq(Instr)
  PROVE  <<a, b, c, d, e>> \o r = <<a>> \o (<<b, c, d, e>> \o r)
<1> DEFINE T == Instr \cup {a, b, c, d, e}
<1>1. Instr \subseteq T
  OBVIOUS
<1>2. r \in Seq(T)
  BY <1>1, SeqMonotonic
<1>3. <<b, c, d, e>> \in Seq(T) /\ <<a>> \in Seq(T) /\ <<a, b, c, d, e>> \in Seq(T) /\ a \in T
  OBVIOUS
<1>4. Len(<<a, b, c, d, e>>) = Len(<<b, c, d, e>>) + 1 /\ \A j \in 1 .. Len(<<b, c, d, e>>) : <<a, b, c, d, e>>[j + 1] = <<b, c, d, e>>[j]
  OBVIOUS
<1> HIDE DEF T
<1>5. <<a, b, c, d, e>> = <<a>> \o <<b, c, d, e>>
  BY <1>3, <1>4, FirstAndRest
<1>6. (<<a>> \o <<b, c, d, e>>) \o r = <<a>> \o (<<b, c, d, e>> \o r)
  BY <1>2, <1>3, ConcatAssociative
<1> QED
  BY <1>5, <1>6

LEMMA Split6 ==
  ASSUME NEW a, NEW b, NEW c, NEW d, NEW e, NEW f, NEW r \in Seq(Instr)
  PROVE  <<a, b, c, d, e, f>> \o r = <<a>> \o (<<b, c, d, e, f>> \o r)
<1> DEFINE T == Instr \cup {a, b, c, d, e, f}
<1>1. Instr \subseteq T
  OBVIOUS
<1>2. r \in Seq(T)
  BY <1>1, SeqMonotonic
<1>3. <<b, c, d, e, f>> \in Seq(T) /\ <<a>> \in Seq(T) /\ <<a, b, c, d, e, f>> \in Seq(T) /\ a \in T
  OBVIOUS
<1>4. Len(<<a, b, c, d, e, f>>) = Len(<<b, c, d, e, f>>) + 1 /\ \A j \in 1 .. Len(<<b, c, d, e, f>>) : <<a, b, c, d, e, f>>[j + 1] = <<b, c, d, e, f>>[j]
  OBVIOUS
<1> HIDE DEF T
<1>5. <<a, b, c, d, e, f>> = <<a>> \o <<b, c, d, e, f>>
  BY <1>3, <1>4, FirstAndRest
<1>6. (<<a>> \o <<b, c, d, e, f>>) \o r = <<a>> \o (<<b, c, d, e, f>> \o r)
  BY <1>2, <1>3, ConcatAssociative
<1> QED
  BY <1>5, <1>6

LEMMA Tuple1 ==
  ASSUME NEW a
  PROVE  Append(<<>>, a) = <<a>>
<1> DEFINE T == {a}
<1>1. <<>> \in Seq(T) /\ <<a>> \in Seq(T) /\ a \in T
  OBVIOUS
<1>2. /\ Len(<<>>) = 0 /\ Len(<<a>>) = Len(<<>>) + 1 /\ <<a>>[1] = a
      /\ \A j \in 1 .. Len(<<>>) : <<a>>[j] = <<>>[j]
  OBVIOUS
<1> HIDE DEF T
<1> QED
  BY <1>1, <1>2, LastAndFront

LEMMA Tuple2 ==
  ASSUME NEW a, NEW b
  PROVE  Append(<<a>>, b) = <<a, b>>
<1> DEFINE T == {a, b}
<1>1. <<a>> \in Seq(T) /\ <<a, b>> \in Seq(T) /\ b \in T
  OBVIOUS
<1>2. /\ Len(<<a>>) = 1 /\ Len(<<a, b>>) = Len(<<a>>) + 1 /\ <<a, b>>[2] = b
      /\ \A j \in 1 .. Len(<<a>>) : <<a, b>>[j] = <<a>>[j]
  OBVIOUS
<1> HIDE DEF T
<1> QED
  BY <1>1, <1>2, LastAndFront

LEMMA Tuple3 ==
  ASSUME NEW a, NEW b, NEW c
  PROVE  Append(<<a, b>>, c) = <<a, b, c>>
<1> DEFINE T == {a, b, c}
<1>1. <<a, b>> \in Seq(T) /\ <<a, b, c>> \in Seq(T) /\ c \in T
  OBVIOUS
<1>2. /\ Len(<<a, b>>) = 2 /\ Len(<<a, b, c>>) = Len(<<a, b>>) + 1 /\ <<a, b, c>>[3] = c
      /\ \A j \in 1 .. Len(<<a, b>>) : <<a, b, c>>[j] = <<a, b>>[j]
  OBVIOUS
<1> HIDE DEF T
<1> QED
  BY <1>1, <1>2, LastAndFront

(* Programs put together, taken apart from the left. *)
LEMMA Group3 ==
  ASSUME NEW a \in Seq(Instr), NEW b \in Seq(Instr), NEW c \in Seq(Instr)
  PROVE  (a \o b) \o c = a \o (b \o c)
  BY ConcatAssociative

LEMMA Group4 ==
  ASSUME NEW a \in Seq(Instr), NEW b \in Seq(Instr), NEW c \in Seq(Instr), NEW d \in Seq(Instr)
  PROVE  ((a \o b) \o c) \o d = a \o (b \o (c \o d))
<1>1. a \o b \in Seq(Instr) /\ c \o d \in Seq(Instr)
  OBVIOUS
<1>2. \A x \in Seq(Instr) : (x \o c) \o d = x \o (c \o d)
  BY Group3
<1>3. \A y \in Seq(Instr) : (a \o b) \o y = a \o (b \o y)
  BY Group3
<1> QED
  BY <1>1, <1>2, <1>3, Zenon

LEMMA Unfold2 ==
  ASSUME NEW a, NEW b, NEW r \in Seq(Instr)
  PROVE  <<a, b>> \o r = <<a>> \o (<<b>> \o r)
  BY Split2

LEMMA Unfold3 ==
  ASSUME NEW a, NEW b, NEW c, NEW r \in Seq(Instr)
  PROVE  <<a, b, c>> \o r = <<a>> \o (<<b>> \o (<<c>> \o r))
<1>1. <<a, b, c>> \o r = <<a>> \o (<<b, c>> \o r)
  BY Split3
<1>2. <<b, c>> \o r = <<b>> \o (<<c>> \o r)
  BY Split2
<1> QED
  BY <1>1, <1>2, Zenon

LEMMA Unfold4 ==
  ASSUME NEW a, NEW b, NEW c, NEW d, NEW r \in Seq(Instr)
  PROVE  <<a, b, c, d>> \o r = <<a>> \o (<<b>> \o (<<c>> \o (<<d>> \o r)))
<1>1. <<a, b, c, d>> \o r = <<a>> \o (<<b, c, d>> \o r)
  BY Split4
<1>2. <<b, c, d>> \o r = <<b>> \o (<<c, d>> \o r)
  BY Split3
<1>3. <<c, d>> \o r = <<c>> \o (<<d>> \o r)
  BY Split2
<1> QED
  BY <1>1, <1>2, <1>3, Zenon

LEMMA Unfold5 ==
  ASSUME NEW a, NEW b, NEW c, NEW d, NEW e, NEW r \in Seq(Instr)
  PROVE  <<a, b, c, d, e>> \o r = <<a>> \o (<<b>> \o (<<c>> \o (<<d>> \o (<<e>> \o r))))
<1>1. <<a, b, c, d, e>> \o r = <<a>> \o (<<b, c, d, e>> \o r)
  BY Split5
<1>2. <<b, c, d, e>> \o r = <<b>> \o (<<c, d, e>> \o r)
  BY Split4
<1>3. <<c, d, e>> \o r = <<c>> \o (<<d, e>> \o r)
  BY Split3
<1>4. <<d, e>> \o r = <<d>> \o (<<e>> \o r)
  BY Split2
<1> QED
  BY <1>1, <1>2, <1>3, <1>4, Zenon

LEMMA Repeat3 ==
  ASSUME NEW g \in Instr, NEW v \in Instr, NEW d \in Instr, NEW r \in Seq(Instr)
  PROVE  ((<<g>> \o [i \in 1 .. 3 |-> v]) \o <<d>>) \o r
           = <<g>> \o (<<v>> \o (<<v>> \o (<<v>> \o (<<d>> \o r))))
<1> DEFINE V == [i \in 1 .. 3 |-> v]
<1>1. V = <<v, v, v>>
  <2>1. V \in Seq({v}) /\ Len(V) = 3 /\ <<v, v, v>> \in Seq({v}) /\ Len(<<v, v, v>>) = 3
    OBVIOUS
  <2>2. \A i \in 1 .. 3 : V[i] = <<v, v, v>>[i]
    OBVIOUS
  <2> HIDE DEF V
  <2> QED
    BY <2>1, <2>2, SeqEqual
<1>2. V \in Seq(Instr) /\ <<g>> \in Seq(Instr) /\ <<d>> \in Seq(Instr) /\ <<d>> \o r \in Seq(Instr)
  OBVIOUS
<1> HIDE DEF V
<1>3. ((<<g>> \o V) \o <<d>>) \o r = <<g>> \o (V \o (<<d>> \o r))
  BY <1>2, Group4
<1>4. \A q \in Seq(Instr) : <<v, v, v>> \o q = <<v>> \o (<<v>> \o (<<v>> \o q))
  BY Unfold3
<1> QED
  BY <1>1, <1>2, <1>3, <1>4, Zenon DEF V

LEMMA Repeat4 ==
  ASSUME NEW g \in Instr, NEW v \in Instr, NEW d \in Instr, NEW r \in Seq(Instr)
  PROVE  ((<<g>> \o [i \in 1 .. 4 |-> v]) \o <<d>>) \o r
           = <<g>> \o (<<v>> \o (<<v>> \o (<<v>> \o (<<v>> \o (<<d>> \o r)))))
<1> DEFINE V == [i \in 1 .. 4 |-> v]
<1>1. V = <<v, v, v, v>>
  <2>1. V \in Seq({v}) /\ Len(V) = 4 /\ <<v, v, v, v>> \in Seq({v}) /\ Len(<<v, v, v, v>>) = 4
    OBVIOUS
  <2>2. \A i \in 1 .. 4 : V[i] = <<v, v, v, v>>[i]
    OBVIOUS
  <2> HIDE DEF V
  <2> QED
    BY <2>1, <2>2, SeqEqual
<1>2. V \in Seq(Instr) /\ <<g>> \in Seq(Instr) /\ <<d>> \in Seq(Instr) /\ <<d>> \o r \in Seq(Instr)
  OBVIOUS
<1> HIDE DEF V
<1>3. ((<<g>> \o V) \o <<d>>) \o r = <<g>> \o (V \o (<<d>> \o r))
  BY <1>2, Group4
<1>4. \A q \in Seq(Instr) : <<v, v, v, v>> \o q = <<v>> \o (<<v>> \o (<<v>> \o (<<v>> \o q)))
  BY Unfold4
<1> QED
  BY <1>1, <1>2, <1>3, <1>4, Zenon DEF V

LEMMA NoRest ==
  ASSUME NEW c \in Seq(Instr)
  PROVE  c \o <<>> = c
  BY ConcatEmptySeq

(* A program that is put together from parts, run part by part. *)
LEMMA InParts ==
  ASSUME NEW nm, NEW s, NEW p, NEW a \in Seq(Instr), NEW b \in Seq(Instr), NEW rest \in Seq(Instr),
         Safe(nm, a \o (b \o rest), s, p)
  PROVE  Safe(nm, (a \o b) \o rest, s, p)
<1>1. (a \o b) \o rest = a \o (b \o rest)
  BY Group3
<1> QED
  BY <1>1, Zenon

LEMMA InPartsTyped ==
  ASSUME NEW a \in Seq(Instr), NEW b \in Seq(Instr)
  PROVE  a \o b \in Seq(Instr)
  OBVIOUS

LEMMA InOrder2 ==
  ASSUME NEW nm, NEW s, NEW p, NEW a, NEW b, NEW rest \in Seq(Instr)
  PROVE  Safe(nm, <<a>> \o (<<b>> \o rest), s, p)
           => Safe(nm, <<a, b>> \o rest, s, p)
<1>1. <<a, b>> \o rest = <<a>> \o (<<b>> \o rest)
  BY Unfold2
<1> QED
  BY <1>1, Zenon

LEMMA InOrder3 ==
  ASSUME NEW nm, NEW s, NEW p, NEW a, NEW b, NEW c, NEW rest \in Seq(Instr)
  PROVE  Safe(nm, <<a>> \o (<<b>> \o (<<c>> \o rest)), s, p)
           => Safe(nm, <<a, b, c>> \o rest, s, p)
<1>1. <<a, b, c>> \o rest = <<a>> \o (<<b, c>> \o rest)
  BY Split3
<1>2. <<b, c>> \o rest = <<b>> \o (<<c>> \o rest)
  BY Split2
<1> QED
  BY <1>1, <1>2, Zenon

LEMMA InOrder4 ==
  ASSUME NEW nm, NEW s, NEW p, NEW a, NEW b, NEW c, NEW d, NEW rest \in Seq(Instr)
  PROVE  Safe(nm, <<a>> \o (<<b>> \o (<<c>> \o (<<d>> \o rest))), s, p)
           => Safe(nm, <<a, b, c, d>> \o rest, s, p)
<1>1. <<a, b, c, d>> \o rest = <<a>> \o (<<b, c, d>> \o rest)
  BY Split4
<1>2. <<b, c, d>> \o rest = <<b>> \o (<<c, d>> \o rest)
  BY Split3
<1>3. <<c, d>> \o rest = <<c>> \o (<<d>> \o rest)
  BY Split2
<1> QED
  BY <1>1, <1>2, <1>3, Zenon

LEMMA InOrder5 ==
  ASSUME NEW nm, NEW s, NEW p, NEW a, NEW b, NEW c, NEW d, NEW e, NEW rest \in Seq(Instr)
  PROVE  Safe(nm, <<a>> \o (<<b>> \o (<<c>> \o (<<d>> \o (<<e>> \o rest)))), s, p)
           => Safe(nm, <<a, b, c, d, e>> \o rest, s, p)
<1>1. <<a, b, c, d, e>> \o rest = <<a>> \o (<<b, c, d, e>> \o rest)
  BY Split5
<1>2. <<b, c, d, e>> \o rest = <<b>> \o (<<c, d, e>> \o rest)
  BY Split4
<1>3. <<c, d, e>> \o rest = <<c>> \o (<<d, e>> \o rest)
  BY Split3
<1>4. <<d, e>> \o rest = <<d>> \o (<<e>> \o rest)
  BY Split2
<1> QED
  BY <1>1, <1>2, <1>3, <1>4, Zenon

LEMMA InOrder6 ==
  ASSUME NEW nm, NEW s, NEW p, NEW a, NEW b, NEW c, NEW d, NEW e, NEW f, NEW rest \in Seq(Instr)
  PROVE  Safe(nm, <<a>> \o (<<b>> \o (<<c>> \o (<<d>> \o (<<e>> \o (<<f>> \o rest))))), s, p)
           => Safe(nm, <<a, b, c, d, e, f>> \o rest, s, p)
<1>1. <<a, b, c, d, e, f>> \o rest = <<a>> \o (<<b, c, d, e, f>> \o rest)
  BY Split6
<1>2. <<b, c, d, e, f>> \o rest = <<b>> \o (<<c, d, e, f>> \o rest)
  BY Split5
<1>3. <<c, d, e, f>> \o rest = <<c>> \o (<<d, e, f>> \o rest)
  BY Split4
<1>4. <<d, e, f>> \o rest = <<d>> \o (<<e, f>> \o rest)
  BY Split3
<1>5. <<e, f>> \o rest = <<e>> \o (<<f>> \o rest)
  BY Split2
<1> QED
  BY <1>1, <1>2, <1>3, <1>4, <1>5, Zenon

LEMMA Typed ==
  /\ \A v \in Kinds : Value(v) \in NativeInstr
  /\ \A k \in Int : \A f \in Functions : GetField(k, f) \in NativeInstr
  /\ \A k \in Int : Push(k) \in NativeInstr /\ GetTable(k) \in NativeInstr /\ SetField(k) \in NativeInstr
  /\ \A n \in Nat : /\ Call(n, 0) \in NativeInstr /\ Call(n, 1) \in NativeInstr /\ Pop(n) \in NativeInstr
                    /\ Require(n) \in NativeInstr /\ Bail(n) \in NativeInstr
  /\ \A K \in SUBSET Kinds : Read(K) \in NativeInstr
  /\ PushText \in NativeInstr /\ Strcmp \in NativeInstr /\ Script \in NativeInstr
  BY SMT DEF NativeInstr

LEMMA Appended ==
  ASSUME NEW s \in Seq(Kinds), NEW v \in Kinds
  PROVE  /\ Append(s, v) \in Seq(Kinds)
         /\ Len(Append(s, v)) = Len(s) + 1
         /\ \A j \in 1 .. Len(s) : Append(s, v)[j] = s[j]
         /\ Append(s, v)[Len(s) + 1] = v
         /\ Under(Append(s, v), 1) = s
<1>1. Append(s, v) \in Seq(Kinds) /\ Len(Append(s, v)) = Len(s) + 1
  OBVIOUS
<1>2. \A j \in 1 .. Len(s) : Append(s, v)[j] = s[j]
  OBVIOUS
<1>3. Under(Append(s, v), 1) \in Seq(Kinds) /\ Len(Under(Append(s, v), 1)) = Len(s)
  BY <1>1 DEF Under
<1>4. \A j \in 1 .. Len(s) : Under(Append(s, v), 1)[j] = s[j]
  BY <1>1, <1>2 DEF Under
<1>5. Under(Append(s, v), 1) = s
  BY <1>3, <1>4, SeqEqual
<1> QED
  BY <1>1, <1>2, <1>5

LEMMA FunctionKinds ==
  Functions \subseteq Kinds
  BY DEF Kinds

(* The stack t is s and, on top, the function f with its n arguments. *)
Pushed(t, s, f, args, n) ==
  /\ t \in Seq(Kinds) /\ n \in Nat /\ n < Len(t)
  /\ At(t, -(n + 1)) = f /\ Args(t, n) = args /\ Under(t, n + 1) = s

LEMMA Pushed1 ==
  ASSUME NEW s \in Seq(Kinds), NEW f \in Kinds, NEW x \in Kinds
  PROVE  Pushed(Append(Append(s, f), x), s, f, <<x>>, 1)
<1> DEFINE t == Append(Append(s, f), x)
<1>1. /\ t \in Seq(Kinds) /\ Len(t) = Len(s) + 2 /\ t[Len(s) + 1] = f
      /\ t[Len(s) + 2] = x
      /\ \A j \in 1 .. Len(s) : t[j] = s[j]
  OBVIOUS
<1> HIDE DEF t
<1>2. At(t, -(1 + 1)) = f
  BY <1>1 DEF At, Slot
<1>3. Args(t, 1) = <<x>>
  <2>1. Args(t, 1) \in Seq(Kinds) /\ Len(Args(t, 1)) = 1
    BY <1>1 DEF Args
  <2>2. Args(t, 1)[1] = x
    BY <1>1 DEF Args
  <2>3. \A j \in 1 .. 1 : Args(t, 1)[j] = <<x>>[j]
    BY <2>2
  <2> QED
    BY <2>1, <2>3, SeqEqual
<1>4. Under(t, 1 + 1) = s
  <2>1. Under(t, 1 + 1) \in Seq(Kinds) /\ Len(Under(t, 1 + 1)) = Len(s)
    BY <1>1 DEF Under
  <2>2. \A j \in 1 .. Len(s) : Under(t, 1 + 1)[j] = s[j]
    BY <1>1 DEF Under
  <2> QED
    BY <2>1, <2>2, SeqEqual
<1>5. 1 \in Nat /\ 1 < Len(t)
  BY <1>1
<1>6. Pushed(t, s, f, <<x>>, 1)
  BY <1>1, <1>2, <1>3, <1>4, <1>5, Zenon DEF Pushed
<1> QED
  BY <1>6 DEF t

LEMMA Pushed2 ==
  ASSUME NEW s \in Seq(Kinds), NEW f \in Kinds, NEW x \in Kinds, NEW y \in Kinds
  PROVE  Pushed(Append(Append(Append(s, f), x), y), s, f, <<x, y>>, 2)
<1> DEFINE t == Append(Append(Append(s, f), x), y)
<1>1. /\ t \in Seq(Kinds) /\ Len(t) = Len(s) + 3 /\ t[Len(s) + 1] = f
      /\ t[Len(s) + 2] = x
      /\ t[Len(s) + 3] = y
      /\ \A j \in 1 .. Len(s) : t[j] = s[j]
  OBVIOUS
<1> HIDE DEF t
<1>2. At(t, -(2 + 1)) = f
  BY <1>1 DEF At, Slot
<1>3. Args(t, 2) = <<x, y>>
  <2>1. Args(t, 2) \in Seq(Kinds) /\ Len(Args(t, 2)) = 2
    BY <1>1 DEF Args
  <2>2. Args(t, 2)[1] = x /\ Args(t, 2)[2] = y
    BY <1>1 DEF Args
  <2>3. \A j \in 1 .. 2 : Args(t, 2)[j] = <<x, y>>[j]
    BY <2>2
  <2> QED
    BY <2>1, <2>3, SeqEqual
<1>4. Under(t, 2 + 1) = s
  <2>1. Under(t, 2 + 1) \in Seq(Kinds) /\ Len(Under(t, 2 + 1)) = Len(s)
    BY <1>1 DEF Under
  <2>2. \A j \in 1 .. Len(s) : Under(t, 2 + 1)[j] = s[j]
    BY <1>1 DEF Under
  <2> QED
    BY <2>1, <2>2, SeqEqual
<1>5. 2 \in Nat /\ 2 < Len(t)
  BY <1>1
<1>6. Pushed(t, s, f, <<x, y>>, 2)
  BY <1>1, <1>2, <1>3, <1>4, <1>5, Zenon DEF Pushed
<1> QED
  BY <1>6 DEF t

LEMMA Pushed3 ==
  ASSUME NEW s \in Seq(Kinds), NEW f \in Kinds, NEW x \in Kinds, NEW y \in Kinds, NEW z \in Kinds
  PROVE  Pushed(Append(Append(Append(Append(s, f), x), y), z), s, f, <<x, y, z>>, 3)
<1> DEFINE t == Append(Append(Append(Append(s, f), x), y), z)
<1>1. /\ t \in Seq(Kinds) /\ Len(t) = Len(s) + 4 /\ t[Len(s) + 1] = f
      /\ t[Len(s) + 2] = x
      /\ t[Len(s) + 3] = y
      /\ t[Len(s) + 4] = z
      /\ \A j \in 1 .. Len(s) : t[j] = s[j]
  OBVIOUS
<1> HIDE DEF t
<1>2. At(t, -(3 + 1)) = f
  BY <1>1 DEF At, Slot
<1>3. Args(t, 3) = <<x, y, z>>
  <2>1. Args(t, 3) \in Seq(Kinds) /\ Len(Args(t, 3)) = 3
    BY <1>1 DEF Args
  <2>2. Args(t, 3)[1] = x /\ Args(t, 3)[2] = y /\ Args(t, 3)[3] = z
    BY <1>1 DEF Args
  <2>3. \A j \in 1 .. 3 : Args(t, 3)[j] = <<x, y, z>>[j]
    BY <2>2
  <2> QED
    BY <2>1, <2>3, SeqEqual
<1>4. Under(t, 3 + 1) = s
  <2>1. Under(t, 3 + 1) \in Seq(Kinds) /\ Len(Under(t, 3 + 1)) = Len(s)
    BY <1>1 DEF Under
  <2>2. \A j \in 1 .. Len(s) : Under(t, 3 + 1)[j] = s[j]
    BY <1>1 DEF Under
  <2> QED
    BY <2>1, <2>2, SeqEqual
<1>5. 3 \in Nat /\ 3 < Len(t)
  BY <1>1
<1>6. Pushed(t, s, f, <<x, y, z>>, 3)
  BY <1>1, <1>2, <1>3, <1>4, <1>5, Zenon DEF Pushed
<1> QED
  BY <1>6 DEF t

LEMMA Pushed4 ==
  ASSUME NEW s \in Seq(Kinds), NEW f \in Kinds, NEW x \in Kinds, NEW y \in Kinds, NEW z \in Kinds, NEW w \in Kinds
  PROVE  Pushed(Append(Append(Append(Append(Append(s, f), x), y), z), w), s, f, <<x, y, z, w>>, 4)
<1> DEFINE t == Append(Append(Append(Append(Append(s, f), x), y), z), w)
<1>1. /\ t \in Seq(Kinds) /\ Len(t) = Len(s) + 5 /\ t[Len(s) + 1] = f
      /\ t[Len(s) + 2] = x
      /\ t[Len(s) + 3] = y
      /\ t[Len(s) + 4] = z
      /\ t[Len(s) + 5] = w
      /\ \A j \in 1 .. Len(s) : t[j] = s[j]
  OBVIOUS
<1> HIDE DEF t
<1>2. At(t, -(4 + 1)) = f
  BY <1>1 DEF At, Slot
<1>3. Args(t, 4) = <<x, y, z, w>>
  <2>1. Args(t, 4) \in Seq(Kinds) /\ Len(Args(t, 4)) = 4
    BY <1>1 DEF Args
  <2>2. Args(t, 4)[1] = x /\ Args(t, 4)[2] = y /\ Args(t, 4)[3] = z /\ Args(t, 4)[4] = w
    BY <1>1 DEF Args
  <2>3. \A j \in 1 .. 4 : Args(t, 4)[j] = <<x, y, z, w>>[j]
    BY <2>2
  <2> QED
    BY <2>1, <2>3, SeqEqual
<1>4. Under(t, 4 + 1) = s
  <2>1. Under(t, 4 + 1) \in Seq(Kinds) /\ Len(Under(t, 4 + 1)) = Len(s)
    BY <1>1 DEF Under
  <2>2. \A j \in 1 .. Len(s) : Under(t, 4 + 1)[j] = s[j]
    BY <1>1 DEF Under
  <2> QED
    BY <2>1, <2>2, SeqEqual
<1>5. 4 \in Nat /\ 4 < Len(t)
  BY <1>1
<1>6. Pushed(t, s, f, <<x, y, z, w>>, 4)
  BY <1>1, <1>2, <1>3, <1>4, <1>5, Zenon DEF Pushed
<1> QED
  BY <1>6 DEF t

(* Calling a function that was pushed with its arguments. *)
LEMMA PushedCallRule ==
  ASSUME NEW nm, NEW rest, NEW s, NEW p, NEW t, NEW f \in Functions, NEW args, NEW n,
         Pushed(t, s, f, args, n), Accepts(f, args), Safe(nm, rest, s, p)
  PROVE  Safe(nm, <<Call(n, 0)>> \o rest, t, p)
  BY CallRule, Zenon DEF Pushed

LEMMA PushedResultRule ==
  ASSUME NEW nm \in Names, NEW rest \in Codes(nm), NEW s, NEW p \in PassedType, NEW t,
         NEW f \in Functions, NEW args, NEW n, Pushed(t, s, f, args, n), Accepts(f, args),
         \A r \in Results(f, args) : Safe(nm, rest, Append(s, r), p)
  PROVE  Safe(nm, <<Call(n, 1)>> \o rest, t, p)
  BY ResultRule, Zenon DEF Pushed

-----------------------------------------------------------------------------
(* The parts natives share *)

(* The value x is at the offset k from the top of s. *)
Has(s, k, x) == k \in Int /\ k < 0 /\ Len(s) + 1 + k >= 1 /\ x = s[Len(s) + 1 + k]

LEMMA AskInstructions ==
  ASSUME NEW rest \in Seq(Instr), NEW k, NEW f
  PROVE  Ask(k, f) \o rest = <<GetField(k, f)>> \o (<<Push(k - 1)>> \o (<<Call(1, 1)>> \o rest))
<1>1. Ask(k, f) \o rest = <<GetField(k, f)>> \o (<<Push(k - 1), Call(1, 1)>> \o rest)
  BY Split3 DEF Ask
<1>2. <<Push(k - 1), Call(1, 1)>> \o rest = <<Push(k - 1)>> \o (<<Call(1, 1)>> \o rest)
  BY Split2
<1> QED
  BY <1>1, <1>2

LEMMA AskRule ==
  ASSUME NEW nm \in Names, NEW rest \in Codes(nm), NEW s \in Seq(Kinds), NEW p \in PassedType,
         NEW k, NEW f \in Functions, NEW x, Has(s, k, x), x \in On(f), Accepts(f, <<x>>),
         \A r \in Results(f, <<x>>) : Safe(nm, rest, Append(s, r), p)
  PROVE  Safe(nm, Ask(k, f) \o rest, s, p)
<1> DEFINE s1 == Append(s, f)
           s2 == Append(s1, x)
<1>1. f \in Kinds /\ x \in Kinds
  BY FunctionKinds, ElementOfSeq DEF Has
<1>2. s1 \in Seq(Kinds) /\ Len(s1) = Len(s) + 1 /\ s1[Len(s) + 1 + k] = x
  BY <1>1 DEF Has
<1>3. Mine(s, k) /\ At(s, k) = x /\ Mine(s1, k - 1) /\ At(s1, k - 1) = x
  BY <1>2 DEF Mine, At, Slot, Has
<1> HIDE DEF s1, s2
<1>4. s2 \in Seq(Kinds)
  BY <1>1, <1>2 DEF s2
<1>5. Safe(nm, <<Call(1, 1)>> \o rest, s2, p)
  <2>1. Pushed(s2, s, f, <<x>>, 1)
    BY <1>1, Pushed1 DEF s1, s2
  <2> QED
    BY <2>1, PushedResultRule
<1>6. Safe(nm, <<Push(k - 1)>> \o (<<Call(1, 1)>> \o rest), s1, p)
  BY <1>2, <1>3, <1>5, k - 1 \in Int, PushRule DEF s2, Has
<1>7. Safe(nm, <<GetField(k, f)>> \o (<<Push(k - 1)>> \o (<<Call(1, 1)>> \o rest)), s, p)
  BY <1>3, <1>6, GetFieldRule DEF s1, Has
<1>8. rest \in Seq(Instr)
  BY CodesAreSequences
<1> QED
  BY <1>7, <1>8, AskInstructions

(* The methods without parameters. *)
Methods == {"EntIndex", "IsValid", "IsPlayer", "IsNPC", "IsWorld", "Crouching", "Team", "Frags",
  "SteamID", "SteamID64", "AccountID", "GetMass", "GetMassCenter", "GetPhysicsObject", "GetName",
  "GetPos", "GetAngles", "EyeAngles", "GetClass", "GetColor"}

LEMMA MethodsAccept ==
  ASSUME NEW f \in Methods, NEW x \in On(f)
  PROVE  f \in Functions /\ Accepts(f, <<x>>)
<1>1. f \in Functions
  BY DEF Functions, Methods
<1>2. On(f) # {"glob"}
  BY DEF On, Methods, Valid, AnyEnt
<1>3. Params(f, 0) = <<>>
  BY DEF Params, Methods
<1>4. <<On(f)>> \o <<>> = <<On(f)>>
  BY ConcatEmptySeq, <<On(f)>> \in Seq({On(f)})
<1>5. Len(<<x>>) = 1 /\ 1 - 1 = 0
  OBVIOUS
<1> QED
  BY <1>1, <1>2, <1>3, <1>4, <1>5 DEF Accepts

LEMMA MethodRule ==
  ASSUME NEW nm \in Names, NEW rest \in Codes(nm), NEW s \in Seq(Kinds), NEW p \in PassedType,
         NEW k, NEW f \in Methods, NEW x, Has(s, k, x), x \in On(f),
         \A r \in Results(f, <<x>>) : Safe(nm, rest, Append(s, r), p)
  PROVE  Safe(nm, Ask(k, f) \o rest, s, p)
  BY MethodsAccept, AskRule

LEMMA Make3Instructions ==
  ASSUME NEW rest \in Seq(Instr), NEW k \in Int, NEW f \in Functions
  PROVE  Make(k, f, 3) \o rest = <<GetField(k, f)>> \o (<<Value("num")>> \o (<<Value("num")>> \o (<<Value("num")>> \o (<<Call(3, 1)>> \o rest))))
<1>1. "num" \in Kinds
  BY DEF Kinds, Outputs, Numbers
<1>2. GetField(k, f) \in Instr /\ Call(3, 1) \in Instr /\ Value("num") \in Instr
  BY <1>1, Typed DEF Instr
<1> QED
  BY <1>2, Repeat3 DEF Make

LEMMA Make3Rule ==
  ASSUME NEW nm, NEW rest, NEW s \in Seq(Kinds), NEW p, NEW k \in Int, NEW f \in {"Vector", "Angle"},
         Has(s, k, "glob"),
         Safe(nm, rest, Append(s, IF f = "Vector" THEN "vector" ELSE "angle"), p)
  PROVE  Safe(nm, Make(k, f, 3) \o rest, s, p)
<1> DEFINE s0 == Append(s, f)
           s1 == Append(s0, "num")
           s2 == Append(s1, "num")
           s3 == Append(s2, "num")
<1>1. f \in Functions /\ f \in Kinds /\ "num" \in Kinds
  BY FunctionKinds DEF Functions, Kinds, Outputs, Numbers
<1>2. nm \in Names /\ rest \in Codes(nm) /\ p \in PassedType /\ rest \in Seq(Instr)
  BY SafeTyped, CodesAreSequences
<1>3. Mine(s, k) /\ At(s, k) \in On(f)
  BY DEF Mine, At, Slot, On, Has
<1>4. s0 \in Seq(Kinds) /\ s1 \in Seq(Kinds) /\ s2 \in Seq(Kinds) /\ s3 \in Seq(Kinds)
  BY <1>1
<1>5. Pushed(s3, s, f, <<"num", "num", "num">>, 3)
  BY <1>1, Pushed3
<1> HIDE DEF s0, s1, s2, s3
<1>6. Accepts(f, <<"num", "num", "num">>)
  BY DEF Accepts, On, Params
<1>7. \A r \in Results(f, <<"num", "num", "num">>) : Safe(nm, rest, Append(s, r), p)
  BY DEF Results
<1>8. Safe(nm, <<Call(3, 1)>> \o rest, s3, p)
  BY <1>1, <1>2, <1>5, <1>6, <1>7, PushedResultRule, Zenon
<1>9. Safe(nm, <<Value("num")>> \o (<<Call(3, 1)>> \o rest), s2, p)
  BY <1>1, <1>4, <1>8, ValueRule DEF s3
<1>10. Safe(nm, <<Value("num")>> \o (<<Value("num")>> \o (<<Call(3, 1)>> \o rest)), s1, p)
  BY <1>1, <1>4, <1>9, ValueRule DEF s2
<1>11. Safe(nm, <<Value("num")>> \o (<<Value("num")>> \o (<<Value("num")>> \o (<<Call(3, 1)>> \o rest))), s0, p)
  BY <1>1, <1>4, <1>10, ValueRule DEF s1
<1>12. Safe(nm, <<GetField(k, f)>> \o (<<Value("num")>> \o (<<Value("num")>> \o (<<Value("num")>> \o (<<Call(3, 1)>> \o rest)))), s, p)
  BY <1>1, <1>3, <1>11, GetFieldRule DEF s0
<1>13. Make(k, f, 3) \o rest = <<GetField(k, f)>> \o (<<Value("num")>> \o (<<Value("num")>> \o (<<Value("num")>> \o (<<Call(3, 1)>> \o rest))))
  BY <1>1, <1>2, Make3Instructions
<1> QED
  BY <1>12, <1>13, Zenon

LEMMA Make4Instructions ==
  ASSUME NEW rest \in Seq(Instr), NEW k \in Int, NEW f \in Functions
  PROVE  Make(k, f, 4) \o rest = <<GetField(k, f)>> \o (<<Value("num")>> \o (<<Value("num")>> \o (<<Value("num")>> \o (<<Value("num")>> \o (<<Call(4, 1)>> \o rest)))))
<1>1. "num" \in Kinds
  BY DEF Kinds, Outputs, Numbers
<1>2. GetField(k, f) \in Instr /\ Call(4, 1) \in Instr /\ Value("num") \in Instr
  BY <1>1, Typed DEF Instr
<1> QED
  BY <1>2, Repeat4 DEF Make

LEMMA Make4Rule ==
  ASSUME NEW nm, NEW rest, NEW s \in Seq(Kinds), NEW p, NEW k \in Int, NEW f \in {"Color"},
         Has(s, k, "glob"),
         Safe(nm, rest, Append(s, "color"), p)
  PROVE  Safe(nm, Make(k, f, 4) \o rest, s, p)
<1> DEFINE s0 == Append(s, f)
           s1 == Append(s0, "num")
           s2 == Append(s1, "num")
           s3 == Append(s2, "num")
           s4 == Append(s3, "num")
<1>1. f \in Functions /\ f \in Kinds /\ "num" \in Kinds
  BY FunctionKinds DEF Functions, Kinds, Outputs, Numbers
<1>2. nm \in Names /\ rest \in Codes(nm) /\ p \in PassedType /\ rest \in Seq(Instr)
  BY SafeTyped, CodesAreSequences
<1>3. Mine(s, k) /\ At(s, k) \in On(f)
  BY DEF Mine, At, Slot, On, Has
<1>4. s0 \in Seq(Kinds) /\ s1 \in Seq(Kinds) /\ s2 \in Seq(Kinds) /\ s3 \in Seq(Kinds) /\ s4 \in Seq(Kinds)
  BY <1>1
<1>5. Pushed(s4, s, f, <<"num", "num", "num", "num">>, 4)
  BY <1>1, Pushed4
<1> HIDE DEF s0, s1, s2, s3, s4
<1>6. Accepts(f, <<"num", "num", "num", "num">>)
  BY DEF Accepts, On, Params
<1>7. \A r \in Results(f, <<"num", "num", "num", "num">>) : Safe(nm, rest, Append(s, r), p)
  BY DEF Results
<1>8. Safe(nm, <<Call(4, 1)>> \o rest, s4, p)
  BY <1>1, <1>2, <1>5, <1>6, <1>7, PushedResultRule, Zenon
<1>9. Safe(nm, <<Value("num")>> \o (<<Call(4, 1)>> \o rest), s3, p)
  BY <1>1, <1>4, <1>8, ValueRule DEF s4
<1>10. Safe(nm, <<Value("num")>> \o (<<Value("num")>> \o (<<Call(4, 1)>> \o rest)), s2, p)
  BY <1>1, <1>4, <1>9, ValueRule DEF s3
<1>11. Safe(nm, <<Value("num")>> \o (<<Value("num")>> \o (<<Value("num")>> \o (<<Call(4, 1)>> \o rest))), s1, p)
  BY <1>1, <1>4, <1>10, ValueRule DEF s2
<1>12. Safe(nm, <<Value("num")>> \o (<<Value("num")>> \o (<<Value("num")>> \o (<<Value("num")>> \o (<<Call(4, 1)>> \o rest)))), s0, p)
  BY <1>1, <1>4, <1>11, ValueRule DEF s1
<1>13. Safe(nm, <<GetField(k, f)>> \o (<<Value("num")>> \o (<<Value("num")>> \o (<<Value("num")>> \o (<<Value("num")>> \o (<<Call(4, 1)>> \o rest))))), s, p)
  BY <1>1, <1>3, <1>12, GetFieldRule DEF s0
<1>14. Make(k, f, 4) \o rest = <<GetField(k, f)>> \o (<<Value("num")>> \o (<<Value("num")>> \o (<<Value("num")>> \o (<<Value("num")>> \o (<<Call(4, 1)>> \o rest)))))
  BY <1>1, <1>2, Make4Instructions
<1> QED
  BY <1>13, <1>14, Zenon

LEMMA KindsOfEntities ==
  /\ AnyEnt \subseteq Kinds /\ DOMAIN EntityAt \subseteq Kinds
  /\ \A i \in DOMAIN EntityAt : EntityAt[i] \subseteq AnyEnt
  /\ "glob" \in Kinds /\ "true" \in Kinds /\ "false" \in Kinds /\ "str" \in Kinds /\ "num" \in Kinds
  /\ "Entity" \in Functions /\ "Entity" \in Kinds
  BY DEF Kinds, AnyEnt, Valid, EntityAt, Values, Functions, Outputs, Numbers

LEMMA LookupTyped ==
  ASSUME NEW i \in DOMAIN EntityAt
  PROVE  Lookup(i) \in Seq(NativeInstr)
<1>1. /\ Bail(0) \in NativeInstr /\ Value("glob") \in NativeInstr
      /\ GetField(-1, "Entity") \in NativeInstr /\ Value(i) \in NativeInstr /\ Call(1, 1) \in NativeInstr
  BY KindsOfEntities, Typed
<1> QED
  BY <1>1 DEF Lookup

LEMMA LookupRule ==
  ASSUME NEW nm \in Names, NEW rest \in Codes(nm), NEW p \in PassedType, NEW i \in DOMAIN EntityAt,
         \A e \in EntityAt[i] : Safe(nm, rest, <<"glob", e>>, p)
  PROVE  Safe(nm, Lookup(i) \o rest, <<>>, p)
<1> DEFINE s1 == <<"glob">>
           s2 == Append(s1, "Entity")
           s3 == Append(s2, i)
           c5 == <<Call(1, 1)>> \o rest
           c4 == <<Value(i)>> \o c5
           c3 == <<GetField(-1, "Entity")>> \o c4
           c2 == <<Value("glob")>> \o c3
<1>1. i \in Kinds /\ "Entity" \in Functions /\ "Entity" \in Kinds /\ "glob" \in Kinds
  BY KindsOfEntities
<1>2. s1 \in Seq(Kinds) /\ s2 \in Seq(Kinds) /\ s3 \in Seq(Kinds) /\ <<>> \in Seq(Kinds)
  BY <1>1
<1>3. Pushed(s3, s1, "Entity", <<i>>, 1)
  BY <1>1, <1>2, Pushed1
<1>4. Mine(s1, -1) /\ At(s1, -1) \in On("Entity")
  BY DEF Mine, At, Slot, On
<1>5. Accepts("Entity", <<i>>)
  BY DEF Accepts, On, Params
<1>6. \A r \in Results("Entity", <<i>>) : Safe(nm, rest, Append(s1, r), p)
  <2>1. Results("Entity", <<i>>) = EntityAt[i]
    BY DEF Results
  <2>2. ASSUME NEW r \in EntityAt[i] PROVE Safe(nm, rest, Append(s1, r), p)
    BY Tuple2
  <2> QED
    BY <2>1, <2>2
<1>7. Safe(nm, c5, s3, p)
  BY <1>1, <1>3, <1>5, <1>6, PushedResultRule
<1>8. Append(<<>>, "glob") = s1
  BY Tuple1
<1> HIDE DEF s1, s2, s3
<1>9. Safe(nm, c4, s2, p)
  <2> HIDE DEF c5
  <2> QED
    BY <1>1, <1>2, <1>7, ValueRule DEF s3
<1>10. Safe(nm, c3, s1, p)
  <2> HIDE DEF c4
  <2> QED
    BY <1>1, <1>2, <1>4, <1>9, GetFieldRule DEF s2
<1>11. Safe(nm, c2, <<>>, p)
  <2> HIDE DEF c3
  <2> QED
    BY <1>1, <1>2, <1>8, <1>10, ValueRule
<1>12. Safe(nm, <<>>, <<>>, p)
  BY <1>2, ExitRule DEF Exits
<1>13. Safe(nm, <<Bail(0)>> \o c2, <<>>, p)
  <2>1. Under(<<>>, 0) = <<>> /\ 0 <= Len(<<>>) /\ 0 \in Nat
    BY DEF Under
  <2> HIDE DEF c2
  <2> QED
    BY <1>2, <1>11, <1>12, <2>1, BailRule
<1>14. rest \in Seq(Instr)
  BY CodesAreSequences
<1>15. Lookup(i) \o rest = <<Bail(0)>> \o c2
  BY <1>14, Unfold5 DEF Lookup
<1> QED
  BY <1>13, <1>15

LEMMA UnderAll ==
  ASSUME NEW s \in Seq(Kinds), NEW n \in Nat, n = Len(s)
  PROVE  Under(s, n) = <<>>
<1>1. Under(s, n) \in Seq(Kinds) /\ Len(Under(s, n)) = 0
  BY DEF Under
<1> QED
  BY <1>1, EmptySeq

(* Every function may return with nothing left. *)
LEMMA PopAllRule ==
  ASSUME NEW nm \in Names, NEW s \in Seq(Kinds), NEW p \in PassedType, NEW n \in Nat, n = Len(s)
  PROVE  Safe(nm, <<Pop(n)>>, s, p) /\ Safe(nm, <<>>, Under(s, n), p)
<1>1. Safe(nm, <<>>, Under(s, n), p)
  <2>1. Safe(nm, <<>>, <<>>, p)
    BY <<>> \in Seq(Kinds), ExitRule DEF Exits
  <2> QED
    BY <2>1, UnderAll
<1>2. Safe(nm, <<Pop(n)>> \o <<>>, s, p)
  BY <1>1, n <= Len(s), PopRule, Zenon
<1>3. <<Pop(n)>> \in Seq(Instr)
  BY Typed DEF Instr
<1> QED
  BY <1>1, <1>2, <1>3, NoRest

LEMMA AskTyped ==
  ASSUME NEW k \in Int, NEW f \in Functions
  PROVE  Ask(k, f) \in Seq(NativeInstr)
<1>1. k - 1 \in Int /\ 1 \in Nat
  OBVIOUS
<1>2. GetField(k, f) \in NativeInstr /\ Push(k - 1) \in NativeInstr /\ Call(1, 1) \in NativeInstr
  BY <1>1, Typed
<1> QED
  BY <1>2 DEF Ask

LEMMA NativeSequences ==
  ASSUME NEW c \in Seq(NativeInstr)
  PROVE  c \in Seq(Instr) /\ \A nm : c \in Codes(nm)
<1>1. NativeInstr \subseteq Instr
  BY DEF Instr
<1>2. c \in Seq(Instr)
  BY <1>1, SeqMonotonic
<1> QED
  BY <1>2 DEF Codes

LEMMA CodesConcat ==
  ASSUME NEW nm, NEW c \in Seq(NativeInstr), NEW d \in Codes(nm)
  PROVE  c \o d \in Codes(nm)
<1>1. c \in Seq(Instr)
  BY NativeSequences
<1>2. d \in Seq(Instr)
  BY CodesAreSequences
<1>3. c \o d \in Seq(Instr)
  BY <1>1, <1>2
<1>4. nm \in DOMAIN Natives => c \o d \in Seq(NativeInstr)
  BY DEF Codes
<1> QED
  BY <1>3, <1>4 DEF Codes

LEMMA CheckedTyped ==
  ASSUME NEW i \in DOMAIN EntityAt
  PROVE  Checked(i) \in Seq(NativeInstr)
<1>1. Lookup(i) \in Seq(NativeInstr)
  BY LookupTyped
<1>2. Ask(-1, "IsValid") \in Seq(NativeInstr)
  BY AskTyped DEF Functions
<1>3. <<Require(3)>> \in Seq(NativeInstr)
  BY Typed
<1> QED
  BY <1>1, <1>2, <1>3 DEF Checked

LEMMA CheckedRule ==
  ASSUME NEW nm \in Names, NEW rest \in Codes(nm), NEW p \in PassedType, NEW i \in DOMAIN EntityAt,
         \A e \in EntityAt[i] \cap Valid : Safe(nm, rest, <<"glob", e, "true">>, p)
  PROVE  Safe(nm, Checked(i) \o rest, <<>>, p)
<1> DEFINE c2 == <<Require(3)>> \o rest
           c1 == Ask(-1, "IsValid") \o c2
<1>1. rest \in Seq(Instr)
  BY CodesAreSequences
<1>2. c2 \in Codes(nm)
  <2>1. <<Require(3)>> \in Seq(NativeInstr)
    BY Typed
  <2> QED
    BY <2>1, CodesConcat
<1>3. c1 \in Codes(nm)
  <2>1. Ask(-1, "IsValid") \in Seq(NativeInstr)
    BY AskTyped DEF Functions
  <2> HIDE DEF c2
  <2> QED
    BY <1>2, <2>1, CodesConcat
<1> HIDE DEF c1, c2
<1>5. ASSUME NEW e \in EntityAt[i] PROVE Safe(nm, c1, <<"glob", e>>, p)
  <2> DEFINE s == <<"glob", e>>
  <2>1. e \in AnyEnt /\ e \in Kinds /\ "glob" \in Kinds /\ "true" \in Kinds /\ "false" \in Kinds
    BY KindsOfEntities
  <2>2. s \in Seq(Kinds) /\ Has(s, -1, e)
    BY <2>1 DEF Has
  <2>3. "IsValid" \in Methods /\ e \in On("IsValid")
    BY <2>1 DEF Methods, On
  <2>4. Results("IsValid", <<e>>) = IF e \in Valid THEN {"true"} ELSE {"false"}
    BY <2>1 DEF Results, Answer, AnyEnt, Valid
  <2>5. ASSUME NEW b \in {"true", "false"}, e \in Valid <=> b = "true"
        PROVE  Safe(nm, c2, Append(s, b), p)
    <3> DEFINE t == <<"glob", e, b>>
    <3>1. Append(s, b) = t
      BY Tuple3
    <3>2. t \in Seq(Kinds) /\ Len(t) = 3 /\ t # <<>> /\ At(t, -1) = b
      BY <2>1 DEF At, Slot
    <3>3. b = "true" => Safe(nm, rest, t, p)
      BY <2>5
    <3> HIDE DEF t
    <3>4. Safe(nm, <<>>, Under(t, 3), p)
      BY <3>2, PopAllRule
    <3>5. 3 \in Nat /\ 3 <= Len(t)
      BY <3>2
    <3>6. Safe(nm, c2, t, p)
      BY <2>5, <3>2, <3>3, <3>4, <3>5, RequireRule, Zenon DEF c2
    <3> QED
      BY <3>1, <3>6
  <2>6. \A r \in Results("IsValid", <<e>>) : Safe(nm, c2, Append(s, r), p)
    BY <2>4, <2>5
  <2> HIDE DEF s
  <2>7. Safe(nm, Ask(-1, "IsValid") \o c2, s, p)
    BY <1>2, <2>2, <2>3, <2>6, MethodRule, Zenon
  <2> QED
    BY <2>7 DEF s, c1
<1>6. Safe(nm, Lookup(i) \o c1, <<>>, p)
  BY <1>3, <1>5, LookupRule
<1>7. Lookup(i) \in Seq(Instr) /\ Ask(-1, "IsValid") \in Seq(Instr) /\ <<Require(3)>> \in Seq(Instr)
  <2>1. <<Require(3)>> \in Seq(NativeInstr)
    BY Typed
  <2>2. Ask(-1, "IsValid") \in Seq(NativeInstr)
    BY AskTyped DEF Functions
  <2> QED
    BY <2>1, <2>2, LookupTyped, NativeSequences
<1>8. Safe(nm, (Lookup(i) \o Ask(-1, "IsValid")) \o c2, <<>>, p)
  BY <1>2, <1>6, <1>7, CodesAreSequences, InParts, Zenon DEF c1
<1>9. Lookup(i) \o Ask(-1, "IsValid") \in Seq(Instr)
  BY <1>7, InPartsTyped, Zenon
<1> QED
  BY <1>1, <1>7, <1>8, <1>9, InParts, Zenon DEF Checked, c2

LEMMA Above ==
  ASSUME NEW s \in Seq(Kinds), NEW v \in Kinds
  PROVE  /\ Append(s, v) \in Seq(Kinds)
         /\ Has(Append(s, v), -1, v)
         /\ \A k, x : Has(s, k, x) => Has(Append(s, v), k - 1, x)
<1>1. /\ Append(s, v) \in Seq(Kinds) /\ Len(Append(s, v)) = Len(s) + 1
      /\ \A j \in 1 .. Len(s) : Append(s, v)[j] = s[j]
      /\ Append(s, v)[Len(s) + 1] = v
  BY Appended
<1>2. Has(Append(s, v), -1, v)
  BY <1>1 DEF Has
<1>3. ASSUME NEW k, NEW x, Has(s, k, x) PROVE Has(Append(s, v), k - 1, x)
  BY <1>1, <1>3 DEF Has
<1> QED
  BY <1>1, <1>2, <1>3

LEMMA HasKind ==
  ASSUME NEW s \in Seq(Kinds), NEW k, NEW x, Has(s, k, x)
  PROVE  x \in Kinds /\ k \in Int /\ Mine(s, k) /\ At(s, k) = x /\ s # <<>>
  BY DEF Has, Mine, At, Slot

LEMMA FieldRule ==
  ASSUME NEW nm, NEW rest, NEW s \in Seq(Kinds), NEW p, NEW k, NEW f \in Functions, NEW x,
         Has(s, k, x), x \in On(f), Safe(nm, rest, Append(s, f), p)
  PROVE  Safe(nm, <<GetField(k, f)>> \o rest, s, p)
  BY HasKind, GetFieldRule, Zenon

LEMMA CopyRule ==
  ASSUME NEW nm, NEW rest, NEW s \in Seq(Kinds), NEW p, NEW k, NEW x,
         Has(s, k, x), Safe(nm, rest, Append(s, x), p)
  PROVE  Safe(nm, <<Push(k)>> \o rest, s, p)
  BY HasKind, PushRule, Zenon

LEMMA TopRule ==
  ASSUME NEW nm, NEW rest, NEW s \in Seq(Kinds), NEW p, NEW x, NEW K \in SUBSET Kinds,
         Has(s, -1, x), x \in K, Safe(nm, rest, s, p)
  PROVE  Safe(nm, <<Read(K)>> \o rest, s, p)
  BY HasKind, ReadRule, Zenon

LEMMA Alone ==
  ASSUME NEW nm, NEW s, NEW p, NEW c \in Seq(Instr), Safe(nm, c \o <<>>, s, p)
  PROVE  Safe(nm, c, s, p)
  BY NoRest

(* The last value is read, and n are popped. *)
LEMMA ReadAndPop ==
  ASSUME NEW nm \in Names, NEW s \in Seq(Kinds), NEW p \in PassedType, NEW K \in SUBSET Kinds,
         NEW x \in K, Has(s, -1, x), NEW n \in Nat, n <= Len(s), Exits(nm, Under(s, n))
  PROVE  Safe(nm, <<Read(K), Pop(n)>>, s, p)
<1>1. Under(s, n) \in Seq(Kinds)
  BY DEF Under
<1>2. Safe(nm, <<>>, Under(s, n), p)
  BY <1>1, ExitRule
<1>3. Safe(nm, <<Pop(n)>> \o <<>>, s, p)
  BY <1>2, PopRule, Zenon
<1>4. Safe(nm, <<Read(K)>> \o (<<Pop(n)>> \o <<>>), s, p)
  BY <1>3, TopRule, Zenon
<1>5. Safe(nm, <<Read(K), Pop(n)>> \o <<>>, s, p)
  BY <1>4, <<>> \in Seq(Instr), InOrder2, Zenon
<1>6. <<Read(K), Pop(n)>> \in Seq(Instr)
  BY Typed DEF Instr
<1> QED
  BY <1>5, <1>6, Alone

LEMMA ReadAndPopAll ==
  ASSUME NEW nm \in Names, NEW s \in Seq(Kinds), NEW p \in PassedType, NEW K \in SUBSET Kinds,
         NEW x \in K, Has(s, -1, x), NEW n \in Nat, n = Len(s)
  PROVE  Safe(nm, <<Read(K), Pop(n)>>, s, p)
<1>1. Exits(nm, Under(s, n))
  BY UnderAll DEF Exits
<1>2. n <= Len(s)
  OBVIOUS
<1> QED
  BY <1>1, <1>2, ReadAndPop

(* A method with one argument is called, and everything popped. *)
LEMMA Apply2Rule ==
  ASSUME NEW nm \in Names, NEW s \in Seq(Kinds), NEW p \in PassedType, NEW f \in Functions, NEW k,
         NEW g, NEW a, NEW x, NEW b, NEW y, NEW m \in Nat, Has(s, k, g), g \in On(f),
         Has(s, a + 1, x), a \in Int, Has(s, b + 2, y), b \in Int, Accepts(f, <<x, y>>),
         m = Len(s)
  PROVE  Safe(nm, <<GetField(k, f), Push(a), Push(b), Call(2, 0), Pop(m)>>, s, p)
<1> DEFINE s1 == Append(s, f)
           s2 == Append(s1, x)
           s3 == Append(s2, y)
           c5 == <<>>
           c4 == <<Pop(m)>> \o c5
           c3 == <<Call(2, 0)>> \o c4
           c2 == <<Push(b)>> \o c3
           c1 == <<Push(a)>> \o c2
           c0 == <<GetField(k, f)>> \o c1
<1>1. f \in Kinds /\ x \in Kinds /\ y \in Kinds /\ "str" \in Kinds
  BY FunctionKinds, KindsOfEntities, HasKind
<1>2. Pushed(s3, s, f, <<x, y>>, 2)
  BY <1>1, Pushed2
<1>3. /\ s1 \in Seq(Kinds)
      /\ s2 \in Seq(Kinds)
      /\ s3 \in Seq(Kinds)
  BY <1>1, Above
<1> HIDE DEF s1, s2, s3, c0, c1, c2, c3, c4, c5
<1>4. Has(s1, a, x)
  <2>1. Has(s1, (a + 1) - 1, x)
    BY <1>1, <1>3, Above DEF s1
  <2>2. Has(s1, a, x)
    BY <2>1, (a + 1) - 1 = a
  <2> QED
    BY <2>2
<1>5. Has(s2, b, y)
  <2>1. Has(s1, (b + 2) - 1, y)
    BY <1>1, <1>3, Above DEF s1
  <2>2. Has(s1, b + 1, y)
    BY <2>1, (b + 2) - 1 = b + 1
  <2>3. Has(s2, (b + 1) - 1, y)
    BY <1>1, <1>3, <2>2, Above DEF s2
  <2>4. Has(s2, b, y)
    BY <2>3, (b + 1) - 1 = b
  <2> QED
    BY <2>4
<1>6. Safe(nm, c5, Under(s, m), p)
  BY PopAllRule, Zenon DEF c5
<1>7. Safe(nm, c4, s, p)
  BY <1>6, m <= Len(s), PopRule, Zenon DEF c4
<1>8. Safe(nm, c3, s3, p)
  BY <1>2, <1>7, PushedCallRule, Zenon DEF c3
<1>9. Safe(nm, c2, s2, p)
  BY <1>3, <1>5, <1>8, CopyRule, Zenon DEF c2, s3
<1>10. Safe(nm, c1, s1, p)
  BY <1>3, <1>4, <1>9, CopyRule, Zenon DEF c1, s2
<1>11. Safe(nm, c0, s, p)
  BY <1>10, FieldRule, Zenon DEF c0, s1
<1>12. Safe(nm, <<GetField(k, f), Push(a), Push(b), Call(2, 0), Pop(m)>> \o <<>>, s, p)
  BY <1>11, <<>> \in Seq(Instr), InOrder5, Zenon DEF c0, c1, c2, c3, c4, c5
<1>13. GetField(k, f) \in Instr /\ Push(a) \in Instr /\ Push(b) \in Instr /\ Call(2, 0) \in Instr /\ Pop(m) \in Instr
  BY <1>1, HasKind, Typed DEF Instr
<1>14. <<GetField(k, f), Push(a), Push(b), Call(2, 0), Pop(m)>> \in Seq(Instr)
  BY <1>13
<1> QED
  BY <1>12, <1>14, Alone, Zenon

(* A method with one argument is called, its result read, and everything popped. *)
LEMMA Apply2ResultRule ==
  ASSUME NEW nm \in Names, NEW s \in Seq(Kinds), NEW p \in PassedType, NEW f \in Functions, NEW k,
         NEW g, NEW a, NEW x, NEW b, NEW y, NEW K \in SUBSET Kinds, NEW m \in Nat, Has(s, k, g),
         g \in On(f), Has(s, a + 1, x), a \in Int, Has(s, b + 2, y), b \in Int,
         Accepts(f, <<x, y>>), Results(f, <<x, y>>) \subseteq K, m = Len(s) + 1
  PROVE  Safe(nm, <<GetField(k, f), Push(a), Push(b), Call(2, 1), Read(K), Pop(m)>>, s, p)
<1> DEFINE s1 == Append(s, f)
           s2 == Append(s1, x)
           s3 == Append(s2, y)
           c6 == <<>>
           c5 == <<Pop(m)>> \o c6
           c4 == <<Read(K)>> \o c5
           c3 == <<Call(2, 1)>> \o c4
           c2 == <<Push(b)>> \o c3
           c1 == <<Push(a)>> \o c2
           c0 == <<GetField(k, f)>> \o c1
<1>1. f \in Kinds /\ x \in Kinds /\ y \in Kinds /\ "str" \in Kinds
  BY FunctionKinds, KindsOfEntities, HasKind
<1>2. Pushed(s3, s, f, <<x, y>>, 2)
  BY <1>1, Pushed2
<1>3. /\ s1 \in Seq(Kinds)
      /\ s2 \in Seq(Kinds)
      /\ s3 \in Seq(Kinds)
  BY <1>1, Above
<1> HIDE DEF s1, s2, s3, c0, c1, c2, c3, c4, c5, c6
<1>4. Has(s1, a, x)
  <2>1. Has(s1, (a + 1) - 1, x)
    BY <1>1, <1>3, Above DEF s1
  <2>2. Has(s1, a, x)
    BY <2>1, (a + 1) - 1 = a
  <2> QED
    BY <2>2
<1>5. Has(s2, b, y)
  <2>1. Has(s1, (b + 2) - 1, y)
    BY <1>1, <1>3, Above DEF s1
  <2>2. Has(s1, b + 1, y)
    BY <2>1, (b + 2) - 1 = b + 1
  <2>3. Has(s2, (b + 1) - 1, y)
    BY <1>1, <1>3, <2>2, Above DEF s2
  <2>4. Has(s2, b, y)
    BY <2>3, (b + 1) - 1 = b
  <2> QED
    BY <2>4
<1>6. c4 \in Codes(nm)
  <2>1. <<Pop(m)>> \in Seq(NativeInstr) /\ <<Read(K)>> \in Seq(NativeInstr)
    BY Typed
  <2>2. c6 \in Codes(nm)
    BY CodesAreSequences DEF c6
  <2>3. c5 \in Codes(nm)
    BY <2>1, <2>2, CodesConcat DEF c5
  <2> QED
    BY <2>1, <2>3, CodesConcat DEF c4
<1>7. ASSUME NEW r \in Results(f, <<x, y>>) PROVE Safe(nm, c4, Append(s, r), p)
  <2> DEFINE t == Append(s, r)
  <2>1. r \in K /\ r \in Kinds
    OBVIOUS
  <2>2. t \in Seq(Kinds) /\ Len(t) = m /\ Has(t, -1, r)
    BY <2>1, Above, Appended
  <2> HIDE DEF t
  <2>3. Safe(nm, c6, Under(t, m), p)
    BY <2>2, PopAllRule, Zenon DEF c6
  <2>4. Safe(nm, c5, t, p)
    BY <2>2, <2>3, m <= Len(t), PopRule, Zenon DEF c5
  <2>5. Safe(nm, c4, t, p)
    BY <2>1, <2>2, <2>4, TopRule, Zenon DEF c4
  <2> QED
    BY <2>5 DEF t
<1>8. Safe(nm, c3, s3, p)
  BY <1>2, <1>6, <1>7, PushedResultRule, Zenon DEF c3
<1>9. Safe(nm, c2, s2, p)
  BY <1>3, <1>5, <1>8, CopyRule, Zenon DEF c2, s3
<1>10. Safe(nm, c1, s1, p)
  BY <1>3, <1>4, <1>9, CopyRule, Zenon DEF c1, s2
<1>11. Safe(nm, c0, s, p)
  BY <1>10, FieldRule, Zenon DEF c0, s1
<1>12. Safe(nm, <<GetField(k, f), Push(a), Push(b), Call(2, 1), Read(K), Pop(m)>> \o <<>>, s, p)
  BY <1>11, <<>> \in Seq(Instr), InOrder6, Zenon DEF c0, c1, c2, c3, c4, c5, c6
<1>13. GetField(k, f) \in Instr /\ Push(a) \in Instr /\ Push(b) \in Instr /\ Call(2, 1) \in Instr /\ Read(K) \in Instr /\ Pop(m) \in Instr
  BY <1>1, HasKind, Typed DEF Instr
<1>14. <<GetField(k, f), Push(a), Push(b), Call(2, 1), Read(K), Pop(m)>> \in Seq(Instr)
  BY <1>13
<1> QED
  BY <1>12, <1>14, Alone, Zenon

(* What a native finds once the entity it was called on is valid. *)
Opened(s, e) == s \in Seq(Kinds) /\ Len(s) = 3 /\ Has(s, -3, "glob") /\ Has(s, -2, e) /\ Has(s, -1, "true")

LEMMA Grown ==
  ASSUME NEW s \in Seq(Kinds), NEW v \in Kinds
  PROVE  /\ Append(s, v) \in Seq(Kinds) /\ Len(Append(s, v)) = Len(s) + 1
         /\ Has(Append(s, v), -1, v)
         /\ \A x : /\ Has(s, -1, x) => Has(Append(s, v), -2, x)
                   /\ Has(s, -2, x) => Has(Append(s, v), -3, x)
                   /\ Has(s, -3, x) => Has(Append(s, v), -4, x)
                   /\ Has(s, -4, x) => Has(Append(s, v), -5, x)
                   /\ Has(s, -5, x) => Has(Append(s, v), -6, x)
                   /\ Has(s, -6, x) => Has(Append(s, v), -7, x)
<1>1. /\ Append(s, v) \in Seq(Kinds) /\ Len(Append(s, v)) = Len(s) + 1
      /\ \A j \in 1 .. Len(s) : Append(s, v)[j] = s[j]
      /\ Append(s, v)[Len(s) + 1] = v
  BY Appended
<1> QED
  BY <1>1 DEF Has

LEMMA OpenedRule ==
  ASSUME NEW nm \in Names, NEW rest \in Codes(nm), NEW p \in PassedType, NEW i \in DOMAIN EntityAt,
         \A e \in EntityAt[i] \cap Valid : \A s : Opened(s, e) => Safe(nm, rest, s, p)
  PROVE  Safe(nm, Checked(i) \o rest, <<>>, p)
<1>1. ASSUME NEW e \in EntityAt[i] \cap Valid PROVE Opened(<<"glob", e, "true">>, e)
  <2>1. e \in Kinds /\ "glob" \in Kinds /\ "true" \in Kinds
    BY KindsOfEntities DEF AnyEnt
  <2> QED
    BY <2>1 DEF Opened, Has
<1> QED
  BY <1>1, CheckedRule, Zenon

LEMMA MethodTyped ==
  ASSUME NEW k \in Int, NEW f \in Methods
  PROVE  Ask(k, f) \in Seq(NativeInstr)
<1>1. f \in Functions
  BY DEF Methods, Functions
<1> QED
  BY <1>1, AskTyped

LEMMA Indices ==
  /\ "index" \in DOMAIN EntityAt /\ EntityAt["index"] \cap Valid \subseteq Valid
  /\ "entIndex" \in DOMAIN EntityAt /\ EntityAt["entIndex"] \cap Valid = {"chip", "prop"}
  /\ "ownerIndex" \in DOMAIN EntityAt /\ EntityAt["ownerIndex"] \cap Valid = Valid
  BY DEF EntityAt, Valid, AnyEnt

LEMMA Lasts ==
  ASSUME NEW K \in SUBSET Kinds, NEW n \in Nat
  PROVE  <<Read(K), Pop(n)>> \in Seq(NativeInstr)
<1>1. Read(K) \in NativeInstr /\ Pop(n) \in NativeInstr
  BY Typed
<1> QED
  BY <1>1

(* The entity is asked for a value, which is read. *)
LEMMA GetterRule ==
  ASSUME NEW nm \in Names, NEW p \in PassedType, NEW f \in Methods, NEW K \in SUBSET Kinds,
         Valid \subseteq On(f), \A e \in Valid : Results(f, <<e>>) \subseteq K
  PROVE  Safe(nm, Getter(f, K), <<>>, p)
<1> DEFINE c2 == <<Read(K), Pop(4)>>
           c1 == Ask(-2, f) \o c2
<1>1. c2 \in Seq(NativeInstr) /\ Ask(-2, f) \in Seq(NativeInstr) /\ Checked("index") \in Seq(NativeInstr)
  <2>1. c2 \in Seq(NativeInstr)
    BY Lasts
  <2>2. Ask(-2, f) \in Seq(NativeInstr)
    BY MethodTyped
  <2> QED
    BY <2>1, <2>2, CheckedTyped, Indices
<1> HIDE DEF c2
<1>2. c2 \in Codes(nm) /\ c2 \in Seq(Instr) /\ Ask(-2, f) \in Seq(Instr) /\ Checked("index") \in Seq(Instr)
  BY <1>1, NativeSequences
<1>3. c1 \in Codes(nm)
  BY <1>1, <1>2, CodesConcat
<1>4. ASSUME NEW e \in Valid, NEW s, Opened(s, e) PROVE Safe(nm, c1, s, p)
  <2>1. ASSUME NEW r \in Results(f, <<e>>) PROVE Safe(nm, c2, Append(s, r), p)
    <3>1. r \in K /\ r \in Kinds
      OBVIOUS
    <3>2. s \in Seq(Kinds) /\ Len(s) = 3
      BY <1>4 DEF Opened
    <3>3. Append(s, r) \in Seq(Kinds) /\ Len(Append(s, r)) = 3 + 1 /\ Has(Append(s, r), -1, r)
      BY <3>1, <3>2, Grown
    <3>4. 4 = Len(Append(s, r))
      BY <3>3
    <3> QED
      BY <3>1, <3>3, <3>4, ReadAndPopAll DEF c2
  <2> QED
    BY <1>2, <1>4, <2>1, MethodRule, Zenon DEF Opened
<1> HIDE DEF c1
<1>5. Safe(nm, Checked("index") \o c1, <<>>, p)
  BY <1>3, <1>4, OpenedRule, Indices
<1> QED
  BY <1>2, <1>5, InParts, Zenon DEF Getter, c1, c2

(* A native put together from parts is safe if running them in turn is. *)
LEMMA Parts3 ==
  ASSUME NEW nm, NEW s, NEW p, NEW a \in Seq(NativeInstr), NEW b \in Seq(NativeInstr),
         NEW c \in Seq(NativeInstr), Safe(nm, a \o (b \o c), s, p)
  PROVE  Safe(nm, a \o b \o c, s, p)
  BY NativeSequences, InParts, Zenon

LEMMA Parts4 ==
  ASSUME NEW nm, NEW s, NEW p, NEW a \in Seq(NativeInstr), NEW b \in Seq(NativeInstr),
         NEW c \in Seq(NativeInstr), NEW d \in Seq(NativeInstr), Safe(nm, a \o (b \o (c \o d)), s, p)
  PROVE  Safe(nm, a \o b \o c \o d, s, p)
<1>1. /\ a \in Seq(Instr) /\ b \in Seq(Instr) /\ c \in Seq(Instr) /\ d \in Seq(Instr)
  BY NativeSequences
<1>2. a \o b \in Seq(Instr) /\ c \o d \in Seq(Instr)
  BY <1>1, InPartsTyped
<1>3. Safe(nm, (a \o b) \o (c \o d), s, p)
  BY <1>1, <1>2, InParts, Zenon
<1> QED
  BY <1>1, <1>2, <1>3, InParts, Zenon

LEMMA Parts5 ==
  ASSUME NEW nm, NEW s, NEW p, NEW a \in Seq(NativeInstr), NEW b \in Seq(NativeInstr),
         NEW c \in Seq(NativeInstr), NEW d \in Seq(NativeInstr), NEW e \in Seq(NativeInstr),
         Safe(nm, a \o (b \o (c \o (d \o e))), s, p)
  PROVE  Safe(nm, a \o b \o c \o d \o e, s, p)
<1>1. /\ a \in Seq(Instr) /\ b \in Seq(Instr) /\ c \in Seq(Instr) /\ d \in Seq(Instr)
      /\ e \in Seq(Instr)
  BY NativeSequences
<1>2. a \o b \in Seq(Instr) /\ d \o e \in Seq(Instr)
  BY <1>1, InPartsTyped
<1>3. c \o (d \o e) \in Seq(Instr) /\ a \o b \o c \in Seq(Instr)
  BY <1>1, <1>2, InPartsTyped, Zenon
<1>4. Safe(nm, (a \o b) \o (c \o (d \o e)), s, p)
  BY <1>1, <1>3, InParts, Zenon
<1>5. Safe(nm, (a \o b \o c) \o (d \o e), s, p)
  BY <1>1, <1>2, <1>4, InParts, Zenon
<1> QED
  BY <1>1, <1>3, <1>5, InParts, Zenon

(* The last value tells whether to go on. *)
LEMMA ContinueRule ==
  ASSUME NEW nm \in Names, NEW rest \in Codes(nm), NEW s \in Seq(Kinds), NEW p \in PassedType,
         NEW n \in Nat, NEW b \in {"true", "false"}, Has(s, -1, b), n <= Len(s),
         b = "true" => Safe(nm, rest, s, p), b = "false" => Exits(nm, Under(s, n))
  PROVE  Safe(nm, <<Require(n)>> \o rest, s, p)
<1>1. s # <<>> /\ At(s, -1) = b
  BY HasKind
<1>2. b = "false" => Safe(nm, <<>>, Under(s, n), p)
  <2>1. Under(s, n) \in Seq(Kinds)
    BY DEF Under
  <2> QED
    BY <2>1, ExitRule
<1> QED
  BY <1>1, <1>2, RequireRule, Zenon

LEMMA RequireTyped ==
  ASSUME NEW n \in Nat
  PROVE  <<Require(n)>> \in Seq(NativeInstr)
  BY Typed

LEMMA UnderOne ==
  ASSUME NEW s \in Seq(Kinds), Len(s) = 4, Has(s, -4, "glob")
  PROVE  Under(s, 3) = <<"glob">>
<1>1. Under(s, 3) \in Seq(Kinds) /\ Len(Under(s, 3)) = 1 /\ Under(s, 3)[1] = "glob"
  BY DEF Under, Has
<1>2. <<"glob">> \in Seq(Kinds) /\ Len(<<"glob">>) = 1 /\ \A j \in 1 .. 1 : Under(s, 3)[j] = <<"glob">>[j]
  BY <1>1, KindsOfEntities
<1> QED
  BY <1>1, <1>2, SeqEqual

PlayerNames == {"Crouching", "Team", "Frags", "SteamID", "SteamID64", "AccountID"}

(* A player is asked for a value, which is read; for another entity the     *)
(* global table stays on the stack.                                         *)
LEMMA PlayerGetterRule ==
  ASSUME NEW nm \in Names, NEW p \in PassedType, NEW f \in Methods, NEW K \in SUBSET Kinds,
         nm \in PlayerNames, "player" \in On(f), Results(f, <<"player">>) \subseteq K
  PROVE  Safe(nm, PlayerGetter(f, K), <<>>, p)
<1> DEFINE c4 == <<Read(K), Pop(5)>>
           c3 == Ask(-3, f) \o c4
           c2 == <<Require(3)>> \o c3
           c1 == Ask(-2, "IsPlayer") \o c2
<1>1. c4 \in Seq(NativeInstr)
  BY Lasts
<1>2. Ask(-3, f) \in Seq(NativeInstr) /\ "IsPlayer" \in Methods
  <2>1. "IsPlayer" \in Methods
    BY DEF Methods
  <2> QED
    BY <2>1, MethodTyped
<1>3. Ask(-2, "IsPlayer") \in Seq(NativeInstr)
  BY <1>2, MethodTyped
<1>4. <<Require(3)>> \in Seq(NativeInstr) /\ Checked("index") \in Seq(NativeInstr)
  BY RequireTyped, CheckedTyped, Indices
<1> HIDE DEF c4
<1>5. c4 \in Codes(nm)
  BY <1>1, NativeSequences
<1>6. c3 \in Codes(nm)
  BY <1>2, <1>5, CodesConcat
<1> HIDE DEF c3
<1>7. c2 \in Codes(nm)
  BY <1>4, <1>6, CodesConcat
<1> HIDE DEF c2
<1>8. c1 \in Codes(nm)
  BY <1>3, <1>7, CodesConcat
<1> HIDE DEF c1
<1>9. ASSUME NEW e \in Valid, NEW s, Opened(s, e) PROVE Safe(nm, c1, s, p)
  <2>1. s \in Seq(Kinds) /\ Len(s) = 3 /\ Has(s, -2, e) /\ Has(s, -3, "glob")
    BY <1>9 DEF Opened
  <2>2. ASSUME NEW b \in Results("IsPlayer", <<e>>) PROVE Safe(nm, c2, Append(s, b), p)
    <3> DEFINE t == Append(s, b)
    <3>1. b \in {"true", "false"} /\ (b = "true" => e = "player") /\ b \in Kinds
      BY KindsOfEntities DEF Results, Answer
    <3>2. t \in Seq(Kinds) /\ Len(t) = 3 + 1 /\ Has(t, -1, b) /\ Has(t, -3, e) /\ Has(t, -4, "glob")
      BY <2>1, <3>1, Grown, Zenon
    <3> HIDE DEF t
    <3>3. ASSUME b = "true" PROVE Safe(nm, c3, t, p)
      <4>1. Has(t, -3, "player")
        BY <3>1, <3>2, <3>3
      <4>2. ASSUME NEW r \in Results(f, <<"player">>) PROVE Safe(nm, c4, Append(t, r), p)
        <5>1. r \in K /\ r \in Kinds
          OBVIOUS
        <5>2. Append(t, r) \in Seq(Kinds) /\ Len(Append(t, r)) = Len(t) + 1 /\ Has(Append(t, r), -1, r)
          BY <3>2, <5>1, Grown
        <5>3. 5 = Len(Append(t, r))
          BY <3>2, <5>2
        <5> QED
          BY <5>1, <5>2, <5>3, ReadAndPopAll DEF c4
      <4> QED
        BY <1>5, <3>2, <4>1, <4>2, MethodRule, Zenon DEF c3
    <3>4. Exits(nm, Under(t, 3))
      <4>1. Len(t) = 4
        BY <3>2
      <4> QED
        BY <3>2, <4>1, UnderOne DEF Exits, PlayerNames
    <3>5. 3 \in Nat /\ 3 <= Len(t)
      BY <3>2
    <3> QED
      BY <1>6, <3>1, <3>2, <3>3, <3>4, <3>5, ContinueRule, Zenon DEF c2, t
  <2>3. e \in On("IsPlayer")
    BY DEF On, AnyEnt
  <2> QED
    BY <1>2, <1>7, <2>1, <2>2, <2>3, MethodRule, Zenon DEF c1
<1>10. Safe(nm, Checked("index") \o c1, <<>>, p)
  BY <1>8, <1>9, OpenedRule, Indices
<1> QED
  BY <1>1, <1>2, <1>3, <1>4, <1>10, Parts5, Zenon DEF PlayerGetter, c1, c2, c3, c4

LEMMA QueryRule ==
  ASSUME NEW nm \in Names, NEW p \in PassedType, NEW f \in Methods, AnyEnt \subseteq On(f),
         \A e \in AnyEnt : Results(f, <<e>>) \subseteq {"true", "false"}
  PROVE  Safe(nm, Query(f), <<>>, p)
<1> DEFINE K  == {"true", "false"}
           c2 == <<Read(K), Pop(3)>>
           c1 == Ask(-1, f) \o c2
<1>1. K \in SUBSET Kinds
  BY KindsOfEntities
<1> HIDE DEF K
<1>2. c2 \in Seq(NativeInstr)
  BY <1>1, Lasts
<1>3. Ask(-1, f) \in Seq(NativeInstr)
  BY MethodTyped
<1>4. Lookup("index") \in Seq(NativeInstr)
  BY LookupTyped, Indices
<1> HIDE DEF c2
<1>5. c2 \in Codes(nm)
  BY <1>2, NativeSequences
<1>6. c1 \in Codes(nm)
  BY <1>3, <1>5, CodesConcat
<1> HIDE DEF c1
<1>7. ASSUME NEW e \in EntityAt["index"] PROVE Safe(nm, c1, <<"glob", e>>, p)
  <2> DEFINE s == <<"glob", e>>
  <2>1. e \in AnyEnt /\ e \in Kinds /\ "glob" \in Kinds
    BY KindsOfEntities, Indices
  <2>2. s \in Seq(Kinds) /\ Len(s) = 2 /\ Has(s, -1, e)
    BY <2>1 DEF Has
  <2> HIDE DEF s
  <2>3. ASSUME NEW r \in Results(f, <<e>>) PROVE Safe(nm, c2, Append(s, r), p)
    <3>1. r \in K /\ r \in Kinds
      BY <1>1, <2>1 DEF K
    <3>2. Append(s, r) \in Seq(Kinds) /\ Len(Append(s, r)) = Len(s) + 1 /\ Has(Append(s, r), -1, r)
      BY <2>2, <3>1, Grown
    <3>3. 3 = Len(Append(s, r))
      BY <2>2, <3>2
    <3> QED
      BY <1>1, <3>1, <3>2, <3>3, ReadAndPopAll DEF c2
  <2>4. e \in On(f)
    BY <2>1
  <2>5. Safe(nm, c1, s, p)
    BY <1>5, <2>2, <2>3, <2>4, MethodRule, Zenon DEF c1
  <2> QED
    BY <2>5 DEF s
<1>8. Safe(nm, Lookup("index") \o c1, <<>>, p)
  BY <1>6, <1>7, LookupRule, Indices
<1> QED
  BY <1>2, <1>3, <1>4, <1>8, Parts3, Zenon DEF Query, c1, c2, K

-----------------------------------------------------------------------------
(* Natives that need the physics object *)

(* What a native finds once it asked for the physics object. *)
Reached(s, e, o) ==
  /\ s \in Seq(Kinds) /\ Len(s) = 5 /\ Has(s, -5, "glob") /\ Has(s, -4, e)
  /\ Has(s, -2, o) /\ Has(s, -1, IF o = "phys" THEN "true" ELSE "false")

LEMMA PhysicsTyped ==
  Physics \in Seq(NativeInstr)
<1>1. "GetPhysicsObject" \in Methods /\ "IsValid" \in Methods
  BY DEF Methods
<1>2. Ask(-2, "GetPhysicsObject") \in Seq(NativeInstr) /\ Ask(-1, "IsValid") \in Seq(NativeInstr)
  BY <1>1, MethodTyped
<1>3. Checked("index") \in Seq(NativeInstr)
  BY CheckedTyped, Indices
<1> QED
  BY <1>2, <1>3 DEF Physics

LEMMA PhysicsRule ==
  ASSUME NEW nm \in Names, NEW rest \in Seq(NativeInstr), NEW p \in PassedType,
         \A e \in Valid : \A o \in {"phys", "nophys"} : \A s :
           Reached(s, e, o) => Safe(nm, rest, s, p)
  PROVE  Safe(nm, Physics \o rest, <<>>, p)
<1> DEFINE c2 == Ask(-1, "IsValid") \o rest
           c1 == Ask(-2, "GetPhysicsObject") \o c2
<1>1. "GetPhysicsObject" \in Methods /\ "IsValid" \in Methods
  BY DEF Methods
<1>2. Ask(-2, "GetPhysicsObject") \in Seq(NativeInstr) /\ Ask(-1, "IsValid") \in Seq(NativeInstr)
  BY <1>1, MethodTyped
<1>3. Checked("index") \in Seq(NativeInstr)
  BY CheckedTyped, Indices
<1>4. rest \in Codes(nm)
  BY NativeSequences
<1>5. c2 \in Codes(nm)
  BY <1>2, <1>4, CodesConcat
<1> HIDE DEF c2
<1>6. c1 \in Codes(nm)
  BY <1>2, <1>5, CodesConcat
<1> HIDE DEF c1
<1>7. ASSUME NEW e \in Valid, NEW s, Opened(s, e) PROVE Safe(nm, c1, s, p)
  <2>1. s \in Seq(Kinds) /\ Len(s) = 3 /\ Has(s, -2, e) /\ Has(s, -3, "glob")
    BY <1>7 DEF Opened
  <2>2. ASSUME NEW o \in Results("GetPhysicsObject", <<e>>) PROVE Safe(nm, c2, Append(s, o), p)
    <3> DEFINE t == Append(s, o)
    <3>1. o \in {"phys", "nophys"} /\ o \in Kinds
      BY DEF Results, Kinds, Values
    <3>2. t \in Seq(Kinds) /\ Len(t) = Len(s) + 1 /\ Has(t, -1, o) /\ Has(t, -3, e) /\ Has(t, -4, "glob")
      BY <2>1, <3>1, Grown, Zenon
    <3> HIDE DEF t
    <3>3. ASSUME NEW b \in Results("IsValid", <<o>>) PROVE Safe(nm, rest, Append(t, b), p)
      <4>1. b = (IF o = "phys" THEN "true" ELSE "false") /\ b \in Kinds
        BY <3>1, KindsOfEntities DEF Results, Answer, Valid
      <4>2. /\ Append(t, b) \in Seq(Kinds) /\ Len(Append(t, b)) = Len(t) + 1 /\ Has(Append(t, b), -1, b)
            /\ Has(Append(t, b), -2, o) /\ Has(Append(t, b), -4, e) /\ Has(Append(t, b), -5, "glob")
        BY <3>2, <4>1, Grown, Zenon
      <4>3. Len(Append(t, b)) = 5
        BY <2>1, <3>2, <4>2
      <4>4. Reached(Append(t, b), e, o)
        BY <4>1, <4>2, <4>3, Zenon DEF Reached
      <4> QED
        BY <3>1, <4>4
    <3>4. o \in On("IsValid")
      BY <3>1 DEF On
    <3> QED
      BY <1>1, <1>4, <3>2, <3>3, <3>4, MethodRule, Zenon DEF c2, t
  <2>3. e \in On("GetPhysicsObject")
    BY DEF On
  <2> QED
    BY <1>1, <1>5, <2>1, <2>2, <2>3, MethodRule, Zenon DEF c1
<1>8. Safe(nm, Checked("index") \o c1, <<>>, p)
  BY <1>6, <1>7, OpenedRule, Indices
<1> QED
  BY <1>2, <1>3, <1>8, Parts4, Zenon DEF Physics, c1, c2

LEMMA BodyTyped ==
  Body \in Seq(NativeInstr)
  BY PhysicsTyped, RequireTyped DEF Body

LEMMA BodyRule ==
  ASSUME NEW nm \in Names, NEW rest \in Seq(NativeInstr), NEW p \in PassedType,
         \A e \in Valid : \A s : Reached(s, e, "phys") => Safe(nm, rest, s, p)
  PROVE  Safe(nm, Body \o rest, <<>>, p)
<1> DEFINE c1 == <<Require(5)>> \o rest
<1>1. rest \in Codes(nm) /\ <<Require(5)>> \in Seq(NativeInstr)
  BY NativeSequences, RequireTyped
<1>2. c1 \in Seq(NativeInstr)
  BY <1>1
<1> HIDE DEF c1
<1>3. ASSUME NEW e \in Valid, NEW o \in {"phys", "nophys"}, NEW s, Reached(s, e, o)
      PROVE  Safe(nm, c1, s, p)
  <2> DEFINE b == IF o = "phys" THEN "true" ELSE "false"
  <2>1. s \in Seq(Kinds) /\ Len(s) = 5 /\ Has(s, -1, b) /\ 5 \in Nat /\ 5 <= Len(s)
    BY <1>3 DEF Reached
  <2>2. b \in {"true", "false"} /\ (b = "true" => o = "phys")
    OBVIOUS
  <2> HIDE DEF b
  <2>3. b = "true" => Safe(nm, rest, s, p)
    BY <1>3, <2>2
  <2>4. Exits(nm, Under(s, 5))
    BY <2>1, UnderAll DEF Exits
  <2> QED
    BY <1>1, <2>1, <2>2, <2>3, <2>4, ContinueRule, Zenon DEF c1
<1>4. Safe(nm, Physics \o c1, <<>>, p)
  BY <1>2, <1>3, PhysicsRule
<1> QED
  BY <1>1, <1>4, PhysicsTyped, Parts3, Zenon DEF Body, c1

(* IsValidPhysics leaves the global table and the entity. *)
LEMMA IsValidPhysicsRule ==
  ASSUME NEW p \in PassedType, "IsValidPhysics" \in Names
  PROVE  Safe("IsValidPhysics", Physics \o <<Read({"true", "false"}), Pop(3)>>, <<>>, p)
<1> DEFINE K == {"true", "false"}
           c == <<Read(K), Pop(3)>>
<1>1. K \in SUBSET Kinds
  BY KindsOfEntities
<1>2. c \in Seq(NativeInstr)
  BY <1>1, Lasts
<1>3. ASSUME NEW e \in Valid, NEW o \in {"phys", "nophys"}, NEW s, Reached(s, e, o)
      PROVE  Safe("IsValidPhysics", c, s, p)
  <2> DEFINE b == IF o = "phys" THEN "true" ELSE "false"
  <2>1. s \in Seq(Kinds) /\ Len(s) = 5 /\ Has(s, -1, b) /\ b \in K
    BY <1>3 DEF Reached
  <2>2. Len(Under(s, 3)) = 2 /\ 3 <= Len(s)
    BY <2>1 DEF Under
  <2>3. Exits("IsValidPhysics", Under(s, 3))
    BY <2>2 DEF Exits
  <2> HIDE DEF b, K
  <2> QED
    BY <1>1, <2>1, <2>2, <2>3, ReadAndPop
<1> HIDE DEF c
<1>4. Safe("IsValidPhysics", Physics \o c, <<>>, p)
  BY <1>2, <1>3, PhysicsRule
<1> QED
  BY <1>4 DEF c

LEMMA BodyGetterRule ==
  ASSUME NEW nm \in Names, NEW p \in PassedType, NEW f \in Methods, NEW K \in SUBSET Kinds,
         "phys" \in On(f), Results(f, <<"phys">>) \subseteq K
  PROVE  Safe(nm, BodyGetter(f, K), <<>>, p)
<1> DEFINE c2 == <<Read(K), Pop(6)>>
           c1 == Ask(-2, f) \o c2
<1>1. c2 \in Seq(NativeInstr)
  BY Lasts
<1>2. Ask(-2, f) \in Seq(NativeInstr)
  BY MethodTyped
<1> HIDE DEF c2
<1>3. c1 \in Seq(NativeInstr) /\ c2 \in Codes(nm)
  BY <1>1, <1>2, NativeSequences
<1> HIDE DEF c1
<1>4. ASSUME NEW e \in Valid, NEW s, Reached(s, e, "phys") PROVE Safe(nm, c1, s, p)
  <2>1. s \in Seq(Kinds) /\ Len(s) = 5 /\ Has(s, -2, "phys")
    BY <1>4 DEF Reached
  <2>2. ASSUME NEW r \in Results(f, <<"phys">>) PROVE Safe(nm, c2, Append(s, r), p)
    <3>1. r \in K /\ r \in Kinds
      OBVIOUS
    <3>2. Append(s, r) \in Seq(Kinds) /\ Len(Append(s, r)) = Len(s) + 1 /\ Has(Append(s, r), -1, r)
      BY <2>1, <3>1, Grown
    <3>3. 6 = Len(Append(s, r))
      BY <2>1, <3>2
    <3> QED
      BY <3>1, <3>2, <3>3, ReadAndPopAll DEF c2
  <2> QED
    BY <1>3, <2>1, <2>2, MethodRule, Zenon DEF c1
<1>5. Safe(nm, Body \o c1, <<>>, p)
  BY <1>3, <1>4, BodyRule
<1> QED
  BY <1>1, <1>2, <1>5, BodyTyped, Parts3, Zenon DEF BodyGetter, c1, c2

(* A method with two arguments is called, and everything popped. *)
LEMMA Apply3Rule ==
  ASSUME NEW nm \in Names, NEW s \in Seq(Kinds), NEW p \in PassedType, NEW f \in Functions, NEW k,
         NEW g, NEW a, NEW x, NEW b, NEW y, NEW c, NEW z, NEW m \in Nat, Has(s, k, g), g \in On(f),
         Has(s, a + 1, x), a \in Int, Has(s, b + 2, y), b \in Int, Has(s, c + 3, z), c \in Int,
         Accepts(f, <<x, y, z>>), m = Len(s)
  PROVE  Safe(nm, <<GetField(k, f), Push(a), Push(b), Push(c), Call(3, 0), Pop(m)>>, s, p)
<1> DEFINE s1 == Append(s, f)
           s2 == Append(s1, x)
           s3 == Append(s2, y)
           s4 == Append(s3, z)
           c6 == <<>>
           c5 == <<Pop(m)>> \o c6
           c4 == <<Call(3, 0)>> \o c5
           c3 == <<Push(c)>> \o c4
           c2 == <<Push(b)>> \o c3
           c1 == <<Push(a)>> \o c2
           c0 == <<GetField(k, f)>> \o c1
<1>1. f \in Kinds /\ x \in Kinds /\ y \in Kinds /\ z \in Kinds /\ "str" \in Kinds
  BY FunctionKinds, KindsOfEntities, HasKind
<1>2. Pushed(s4, s, f, <<x, y, z>>, 3)
  BY <1>1, Pushed3
<1>3. /\ s1 \in Seq(Kinds)
      /\ s2 \in Seq(Kinds)
      /\ s3 \in Seq(Kinds)
      /\ s4 \in Seq(Kinds)
  BY <1>1, Above
<1> HIDE DEF s1, s2, s3, s4, c0, c1, c2, c3, c4, c5, c6
<1>4. Has(s1, a, x)
  <2>1. Has(s1, (a + 1) - 1, x)
    BY <1>1, <1>3, Above DEF s1
  <2>2. Has(s1, a, x)
    BY <2>1, (a + 1) - 1 = a
  <2> QED
    BY <2>2
<1>5. Has(s2, b, y)
  <2>1. Has(s1, (b + 2) - 1, y)
    BY <1>1, <1>3, Above DEF s1
  <2>2. Has(s1, b + 1, y)
    BY <2>1, (b + 2) - 1 = b + 1
  <2>3. Has(s2, (b + 1) - 1, y)
    BY <1>1, <1>3, <2>2, Above DEF s2
  <2>4. Has(s2, b, y)
    BY <2>3, (b + 1) - 1 = b
  <2> QED
    BY <2>4
<1>6. Has(s3, c, z)
  <2>1. Has(s1, (c + 3) - 1, z)
    BY <1>1, <1>3, Above DEF s1
  <2>2. Has(s1, c + 2, z)
    BY <2>1, (c + 3) - 1 = c + 2
  <2>3. Has(s2, (c + 2) - 1, z)
    BY <1>1, <1>3, <2>2, Above DEF s2
  <2>4. Has(s2, c + 1, z)
    BY <2>3, (c + 2) - 1 = c + 1
  <2>5. Has(s3, (c + 1) - 1, z)
    BY <1>1, <1>3, <2>4, Above DEF s3
  <2>6. Has(s3, c, z)
    BY <2>5, (c + 1) - 1 = c
  <2> QED
    BY <2>6
<1>7. Safe(nm, c6, Under(s, m), p)
  BY PopAllRule, Zenon DEF c6
<1>8. Safe(nm, c5, s, p)
  BY <1>7, m <= Len(s), PopRule, Zenon DEF c5
<1>9. Safe(nm, c4, s4, p)
  BY <1>2, <1>8, PushedCallRule, Zenon DEF c4
<1>10. Safe(nm, c3, s3, p)
  BY <1>3, <1>6, <1>9, CopyRule, Zenon DEF c3, s4
<1>11. Safe(nm, c2, s2, p)
  BY <1>3, <1>5, <1>10, CopyRule, Zenon DEF c2, s3
<1>12. Safe(nm, c1, s1, p)
  BY <1>3, <1>4, <1>11, CopyRule, Zenon DEF c1, s2
<1>13. Safe(nm, c0, s, p)
  BY <1>12, FieldRule, Zenon DEF c0, s1
<1>14. Safe(nm, <<GetField(k, f), Push(a), Push(b), Push(c), Call(3, 0), Pop(m)>> \o <<>>, s, p)
  BY <1>13, <<>> \in Seq(Instr), InOrder6, Zenon DEF c0, c1, c2, c3, c4, c5, c6
<1>15. GetField(k, f) \in Instr /\ Push(a) \in Instr /\ Push(b) \in Instr /\ Push(c) \in Instr /\ Call(3, 0) \in Instr /\ Pop(m) \in Instr
  BY <1>1, HasKind, Typed DEF Instr
<1>16. <<GetField(k, f), Push(a), Push(b), Push(c), Call(3, 0), Pop(m)>> \in Seq(Instr)
  BY <1>15
<1> QED
  BY <1>14, <1>16, Alone, Zenon

(* The same, with a string first. *)
LEMMA TriggerRule ==
  ASSUME NEW nm \in Names, NEW s \in Seq(Kinds), NEW p \in PassedType, NEW f \in Functions, NEW k,
         NEW g, NEW a, NEW x, NEW b, NEW y, NEW m \in Nat, Has(s, k, g), g \in On(f),
         Has(s, a + 1, x), a \in Int, Has(s, b + 3, y), b \in Int, Accepts(f, <<x, "str", y>>),
         m = Len(s)
  PROVE  Safe(nm, <<GetField(k, f), Push(a), Value("str"), Push(b), Call(3, 0), Pop(m)>>, s, p)
<1> DEFINE s1 == Append(s, f)
           s2 == Append(s1, x)
           s3 == Append(s2, "str")
           s4 == Append(s3, y)
           c6 == <<>>
           c5 == <<Pop(m)>> \o c6
           c4 == <<Call(3, 0)>> \o c5
           c3 == <<Push(b)>> \o c4
           c2 == <<Value("str")>> \o c3
           c1 == <<Push(a)>> \o c2
           c0 == <<GetField(k, f)>> \o c1
<1>1. f \in Kinds /\ x \in Kinds /\ y \in Kinds /\ "str" \in Kinds
  BY FunctionKinds, KindsOfEntities, HasKind
<1>2. Pushed(s4, s, f, <<x, "str", y>>, 3)
  BY <1>1, Pushed3
<1>3. /\ s1 \in Seq(Kinds)
      /\ s2 \in Seq(Kinds)
      /\ s3 \in Seq(Kinds)
      /\ s4 \in Seq(Kinds)
  BY <1>1, Above
<1> HIDE DEF s1, s2, s3, s4, c0, c1, c2, c3, c4, c5, c6
<1>4. Has(s1, a, x)
  <2>1. Has(s1, (a + 1) - 1, x)
    BY <1>1, <1>3, Above DEF s1
  <2>2. Has(s1, a, x)
    BY <2>1, (a + 1) - 1 = a
  <2> QED
    BY <2>2
<1>5. Has(s3, b, y)
  <2>1. Has(s1, (b + 3) - 1, y)
    BY <1>1, <1>3, Above DEF s1
  <2>2. Has(s1, b + 2, y)
    BY <2>1, (b + 3) - 1 = b + 2
  <2>3. Has(s2, (b + 2) - 1, y)
    BY <1>1, <1>3, <2>2, Above DEF s2
  <2>4. Has(s2, b + 1, y)
    BY <2>3, (b + 2) - 1 = b + 1
  <2>5. Has(s3, (b + 1) - 1, y)
    BY <1>1, <1>3, <2>4, Above DEF s3
  <2>6. Has(s3, b, y)
    BY <2>5, (b + 1) - 1 = b
  <2> QED
    BY <2>6
<1>6. Safe(nm, c6, Under(s, m), p)
  BY PopAllRule, Zenon DEF c6
<1>7. Safe(nm, c5, s, p)
  BY <1>6, m <= Len(s), PopRule, Zenon DEF c5
<1>8. Safe(nm, c4, s4, p)
  BY <1>2, <1>7, PushedCallRule, Zenon DEF c4
<1>9. Safe(nm, c3, s3, p)
  BY <1>3, <1>5, <1>8, CopyRule, Zenon DEF c3, s4
<1>10. Safe(nm, c2, s2, p)
  BY <1>1, <1>3, <1>9, ValueRule, Zenon DEF c2, s3
<1>11. Safe(nm, c1, s1, p)
  BY <1>3, <1>4, <1>10, CopyRule, Zenon DEF c1, s2
<1>12. Safe(nm, c0, s, p)
  BY <1>11, FieldRule, Zenon DEF c0, s1
<1>13. Safe(nm, <<GetField(k, f), Push(a), Value("str"), Push(b), Call(3, 0), Pop(m)>> \o <<>>, s, p)
  BY <1>12, <<>> \in Seq(Instr), InOrder6, Zenon DEF c0, c1, c2, c3, c4, c5, c6
<1>14. GetField(k, f) \in Instr /\ Push(a) \in Instr /\ Value("str") \in Instr /\ Push(b) \in Instr /\ Call(3, 0) \in Instr /\ Pop(m) \in Instr
  BY <1>1, HasKind, Typed DEF Instr
<1>15. <<GetField(k, f), Push(a), Value("str"), Push(b), Call(3, 0), Pop(m)>> \in Seq(Instr)
  BY <1>14
<1> QED
  BY <1>13, <1>15, Alone, Zenon

(* A method with a string argument is called, and its result read. *)
LEMMA TypeRule ==
  ASSUME NEW nm \in Names, NEW s \in Seq(Kinds), NEW p \in PassedType, NEW f \in Functions, NEW k,
         NEW g, NEW a, NEW x, NEW K \in SUBSET Kinds, NEW rest \in Codes(nm), Has(s, k, g),
         g \in On(f), Has(s, a + 1, x), a \in Int, Accepts(f, <<x, "str">>),
         Results(f, <<x, "str">>) \subseteq K,
         \A r \in Results(f, <<x, "str">>) : Safe(nm, rest, Append(s, r), p)
  PROVE  Safe(nm, <<GetField(k, f), Push(a), Value("str"), Call(2, 1), Read(K)>> \o rest, s, p)
<1> DEFINE s1 == Append(s, f)
           s2 == Append(s1, x)
           s3 == Append(s2, "str")
           c5 == rest
           c4 == <<Read(K)>> \o c5
           c3 == <<Call(2, 1)>> \o c4
           c2 == <<Value("str")>> \o c3
           c1 == <<Push(a)>> \o c2
           c0 == <<GetField(k, f)>> \o c1
<1>1. f \in Kinds /\ x \in Kinds /\ "str" \in Kinds
  BY FunctionKinds, KindsOfEntities, HasKind
<1>2. Pushed(s3, s, f, <<x, "str">>, 2)
  BY <1>1, Pushed2
<1>3. /\ s1 \in Seq(Kinds)
      /\ s2 \in Seq(Kinds)
      /\ s3 \in Seq(Kinds)
  BY <1>1, Above
<1> HIDE DEF s1, s2, s3, c0, c1, c2, c3, c4, c5
<1>4. Has(s1, a, x)
  <2>1. Has(s1, (a + 1) - 1, x)
    BY <1>1, <1>3, Above DEF s1
  <2>2. Has(s1, a, x)
    BY <2>1, (a + 1) - 1 = a
  <2> QED
    BY <2>2
<1>5. c4 \in Codes(nm)
  <2>1. <<Read(K)>> \in Seq(NativeInstr)
    BY Typed
  <2> QED
    BY <2>1, CodesConcat DEF c5, c4
<1>6. ASSUME NEW r \in Results(f, <<x, "str">>) PROVE Safe(nm, c4, Append(s, r), p)
  <2>1. r \in K /\ r \in Kinds
    OBVIOUS
  <2>2. Append(s, r) \in Seq(Kinds) /\ Has(Append(s, r), -1, r)
    BY <2>1, Above
  <2> QED
    BY <2>1, <2>2, TopRule, Zenon DEF c4, c5
<1>7. Safe(nm, c3, s3, p)
  BY <1>2, <1>5, <1>6, PushedResultRule, Zenon DEF c3
<1>8. Safe(nm, c2, s2, p)
  BY <1>1, <1>3, <1>7, ValueRule, Zenon DEF c2, s3
<1>9. Safe(nm, c1, s1, p)
  BY <1>3, <1>4, <1>8, CopyRule, Zenon DEF c1, s2
<1>10. Safe(nm, c0, s, p)
  BY <1>9, FieldRule, Zenon DEF c0, s1
<1>11. rest \in Seq(Instr)
  BY CodesAreSequences
<1> QED
  BY <1>10, <1>11, InOrder5, Zenon DEF c0, c1, c2, c3, c4, c5

(* A function with one given argument is called. *)
LEMMA EntityRule ==
  ASSUME NEW nm \in Names, NEW s \in Seq(Kinds), NEW p \in PassedType, NEW f \in Functions, NEW k,
         NEW g, NEW v \in Kinds, NEW rest \in Codes(nm), Has(s, k, g), g \in On(f),
         Accepts(f, <<v>>), \A r \in Results(f, <<v>>) : Safe(nm, rest, Append(s, r), p)
  PROVE  Safe(nm, <<GetField(k, f), Value(v), Call(1, 1)>> \o rest, s, p)
<1> DEFINE s1 == Append(s, f)
           s2 == Append(s1, v)
           c3 == rest
           c2 == <<Call(1, 1)>> \o c3
           c1 == <<Value(v)>> \o c2
           c0 == <<GetField(k, f)>> \o c1
<1>1. f \in Kinds /\ v \in Kinds /\ "str" \in Kinds
  BY FunctionKinds, KindsOfEntities, HasKind
<1>2. Pushed(s2, s, f, <<v>>, 1)
  BY <1>1, Pushed1
<1>3. /\ s1 \in Seq(Kinds)
      /\ s2 \in Seq(Kinds)
  BY <1>1, Above
<1> HIDE DEF s1, s2, c0, c1, c2, c3
<1>4. Safe(nm, c2, s2, p)
  BY <1>2, PushedResultRule, Zenon DEF c2, c3
<1>5. Safe(nm, c1, s1, p)
  BY <1>1, <1>3, <1>4, ValueRule, Zenon DEF c1, s2
<1>6. Safe(nm, c0, s, p)
  BY <1>5, FieldRule, Zenon DEF c0, s1
<1>7. rest \in Seq(Instr)
  BY CodesAreSequences
<1> QED
  BY <1>6, <1>7, InOrder3, Zenon DEF c0, c1, c2, c3

LEMMA MakeTyped ==
  ASSUME NEW k \in Int, NEW f \in Functions, NEW n \in Nat
  PROVE  Make(k, f, n) \in Seq(NativeInstr)
<1>1. GetField(k, f) \in NativeInstr /\ Value("num") \in NativeInstr /\ Call(n, 1) \in NativeInstr
  BY Typed, KindsOfEntities
<1>2. [i \in 1 .. n |-> Value("num")] \in Seq(NativeInstr)
  BY <1>1
<1>3. <<GetField(k, f)>> \in Seq(NativeInstr) /\ <<Call(n, 1)>> \in Seq(NativeInstr)
  BY <1>1
<1> QED
  BY <1>2, <1>3 DEF Make

LEMMA Made ==
  /\ "Vector" \in Functions /\ "Angle" \in Functions /\ "Color" \in Functions
  /\ "vector" \in Kinds /\ "angle" \in Kinds /\ "color" \in Kinds /\ "table" \in Kinds
  BY DEF Functions, Kinds, Outputs, Values

LEMMA Apply2Typed ==
  ASSUME NEW k \in Int, NEW f \in Functions, NEW a \in Int, NEW b \in Int, NEW n \in Nat
  PROVE  <<GetField(k, f), Push(a), Push(b), Call(2, 0), Pop(n)>> \in Seq(NativeInstr)
<1>1. /\ GetField(k, f) \in NativeInstr /\ Push(a) \in NativeInstr /\ Push(b) \in NativeInstr
      /\ Call(2, 0) \in NativeInstr /\ Pop(n) \in NativeInstr
  BY Typed
<1> QED
  BY <1>1

LEMMA Apply2ResultTyped ==
  ASSUME NEW k \in Int, NEW f \in Functions, NEW a \in Int, NEW b \in Int, NEW K \in SUBSET Kinds,
         NEW n \in Nat
  PROVE  <<GetField(k, f), Push(a), Push(b), Call(2, 1), Read(K), Pop(n)>> \in Seq(NativeInstr)
<1>1. /\ GetField(k, f) \in NativeInstr /\ Push(a) \in NativeInstr /\ Push(b) \in NativeInstr
      /\ Call(2, 1) \in NativeInstr /\ Read(K) \in NativeInstr /\ Pop(n) \in NativeInstr
  BY Typed
<1> QED
  BY <1>1

LEMMA Apply3Typed ==
  ASSUME NEW k \in Int, NEW f \in Functions, NEW a \in Int, NEW b \in Int, NEW c \in Int, NEW n \in Nat
  PROVE  <<GetField(k, f), Push(a), Push(b), Push(c), Call(3, 0), Pop(n)>> \in Seq(NativeInstr)
<1>1. /\ GetField(k, f) \in NativeInstr /\ Push(a) \in NativeInstr /\ Push(b) \in NativeInstr
      /\ Push(c) \in NativeInstr /\ Call(3, 0) \in NativeInstr /\ Pop(n) \in NativeInstr
  BY Typed
<1> QED
  BY <1>1

LEMMA TriggerTyped ==
  ASSUME NEW k \in Int, NEW f \in Functions, NEW a \in Int, NEW b \in Int, NEW n \in Nat
  PROVE  <<GetField(k, f), Push(a), Value("str"), Push(b), Call(3, 0), Pop(n)>> \in Seq(NativeInstr)
<1>1. /\ GetField(k, f) \in NativeInstr /\ Push(a) \in NativeInstr /\ Push(b) \in NativeInstr
      /\ Value("str") \in NativeInstr /\ Call(3, 0) \in NativeInstr /\ Pop(n) \in NativeInstr
  BY Typed, KindsOfEntities
<1> QED
  BY <1>1

(* What a native makes goes to a method of the entity. *)
LEMMA HandOverRule ==
  ASSUME NEW nm \in Names, NEW p \in PassedType, NEW f \in Functions, NEW e, NEW v \in Kinds, NEW s,
         Opened(s, e), e \in On(f), Accepts(f, <<e, v>>)
  PROVE  Safe(nm, <<GetField(-3, f), Push(-4), Push(-3), Call(2, 0), Pop(4)>>, Append(s, v), p)
<1> DEFINE t == Append(s, v)
<1>1. s \in Seq(Kinds) /\ Len(s) = 3 /\ Has(s, -2, e)
  BY DEF Opened
<1>2. t \in Seq(Kinds) /\ Len(t) = Len(s) + 1 /\ Has(t, -1, v) /\ Has(t, -3, e)
  BY <1>1, Grown, Zenon
<1> HIDE DEF t
<1>3. 4 = Len(t) /\ Has(t, -4 + 1, e) /\ Has(t, -3 + 2, v) /\ 4 \in Nat /\ -4 \in Int /\ -3 \in Int
  <2>1. -4 + 1 = -3 /\ -3 + 2 = -1
    OBVIOUS
  <2>2. Has(t, -4 + 1, e) /\ Has(t, -3 + 2, v)
    BY <1>2, <2>1
  <2> QED
    BY <1>1, <1>2, <2>2
<1>4. Safe(nm, <<GetField(-3, f), Push(-4), Push(-3), Call(2, 0), Pop(4)>>, t, p)
  BY <1>2, <1>3, Apply2Rule, Zenon
<1> QED
  BY <1>4 DEF t

LEMMA Make3Setter ==
  ASSUME NEW nm \in Names, NEW p \in PassedType, NEW f \in Functions, NEW g \in {"Vector", "Angle"},
         Valid \subseteq On(f),
         \A e \in Valid : Accepts(f, <<e, IF g = "Vector" THEN "vector" ELSE "angle">>)
  PROVE  Safe(nm, Setter(f, g, 3), <<>>, p)
<1> DEFINE c2 == <<GetField(-3, f), Push(-4), Push(-3), Call(2, 0), Pop(4)>>
           c1 == Make(-3, g, 3) \o c2
           v  == IF g = "Vector" THEN "vector" ELSE "angle"
<1>1. c2 \in Seq(NativeInstr) /\ Checked("index") \in Seq(NativeInstr)
  BY Apply2Typed, CheckedTyped, Indices
<1>2. Make(-3, g, 3) \in Seq(NativeInstr)
  <2>1. g \in Functions /\ -3 \in Int /\ 3 \in Nat
    BY Made
  <2> QED
    BY <2>1, MakeTyped
<1>3. v \in Kinds
  BY Made
<1>4. ASSUME NEW e \in Valid, NEW s, Opened(s, e) PROVE Safe(nm, c2, Append(s, v), p)
  <2> HIDE DEF v
  <2> QED
    BY <1>3, <1>4, HandOverRule DEF v
<1> HIDE DEF c2
<1>5. c2 \in Codes(nm)
  BY <1>1, NativeSequences
<1>6. c1 \in Codes(nm)
  BY <1>2, <1>5, CodesConcat
<1>7. ASSUME NEW e \in Valid, NEW s, Opened(s, e) PROVE Safe(nm, c1, s, p)
  <2>1. s \in Seq(Kinds) /\ Has(s, -3, "glob") /\ -3 \in Int
    BY <1>7 DEF Opened
  <2>2. Safe(nm, c2, Append(s, v), p)
    BY <1>4, <1>7
  <2> QED
    BY <2>1, <2>2, Make3Rule, Zenon
<1> HIDE DEF c1
<1>8. Safe(nm, Checked("index") \o c1, <<>>, p)
  BY <1>6, <1>7, OpenedRule, Indices
<1> QED
  BY <1>1, <1>2, <1>8, Parts3, Zenon DEF Setter, c1, c2

LEMMA Make4Setter ==
  ASSUME NEW nm \in Names, NEW p \in PassedType
  PROVE  Safe(nm, Setter("SetColor", "Color", 4), <<>>, p)
<1> DEFINE c2 == <<GetField(-3, "SetColor"), Push(-4), Push(-3), Call(2, 0), Pop(4)>>
           c1 == Make(-3, "Color", 4) \o c2
<1>1. "SetColor" \in Functions
  BY DEF Functions
<1>2. c2 \in Seq(NativeInstr) /\ Checked("index") \in Seq(NativeInstr)
  <2>1. c2 \in Seq(NativeInstr)
    BY <1>1, Apply2Typed
  <2> QED
    BY <2>1, CheckedTyped, Indices
<1>3. Make(-3, "Color", 4) \in Seq(NativeInstr)
  BY MakeTyped, Made
<1>4. ASSUME NEW e \in Valid, NEW s, Opened(s, e) PROVE Safe(nm, c2, Append(s, "color"), p)
  <2>1. e \in On("SetColor") /\ Accepts("SetColor", <<e, "color">>)
    BY DEF On, Accepts, Params, Valid
  <2> QED
    BY <1>1, <1>4, <2>1, HandOverRule, Made
<1> HIDE DEF c2
<1>5. c2 \in Codes(nm)
  BY <1>2, NativeSequences
<1>6. c1 \in Codes(nm)
  BY <1>3, <1>5, CodesConcat
<1>7. ASSUME NEW e \in Valid, NEW s, Opened(s, e) PROVE Safe(nm, c1, s, p)
  <2>1. s \in Seq(Kinds) /\ Has(s, -3, "glob") /\ -3 \in Int
    BY <1>7 DEF Opened
  <2>2. Safe(nm, c2, Append(s, "color"), p)
    BY <1>4, <1>7
  <2>3. "Color" \in {"Color"}
    OBVIOUS
  <2> QED
    BY <2>1, <2>2, <2>3, Make4Rule, Zenon
<1> HIDE DEF c1
<1>8. Safe(nm, Checked("index") \o c1, <<>>, p)
  BY <1>6, <1>7, OpenedRule, Indices
<1> QED
  BY <1>2, <1>3, <1>8, Parts3, Zenon DEF Setter, c1, c2

LEMMA TransformRule ==
  ASSUME NEW nm \in Names, NEW p \in PassedType, NEW f \in {"LocalToWorld", "WorldToLocal"}
  PROVE  Safe(nm, Transform(f), <<>>, p)
<1> DEFINE K  == {"vector"}
           c2 == <<GetField(-3, f), Push(-4), Push(-3), Call(2, 1), Read(K), Pop(5)>>
           c1 == Make(-3, "Vector", 3) \o c2
<1>1. f \in Functions /\ K \in SUBSET Kinds
  BY Made DEF Functions
<1>2. \A e \in Valid : e \in On(f) /\ Accepts(f, <<e, "vector">>) /\ Results(f, <<e, "vector">>) \subseteq K
  BY DEF On, Accepts, Params, Results, Valid
<1> HIDE DEF K
<1>3. c2 \in Seq(NativeInstr) /\ Checked("index") \in Seq(NativeInstr)
  BY <1>1, Apply2ResultTyped, CheckedTyped, Indices
<1>4. Make(-3, "Vector", 3) \in Seq(NativeInstr)
  BY MakeTyped, Made
<1>5. ASSUME NEW e \in Valid, NEW s, Opened(s, e) PROVE Safe(nm, c2, Append(s, "vector"), p)
  <2> DEFINE t == Append(s, "vector")
  <2>1. s \in Seq(Kinds) /\ Len(s) = 3 /\ Has(s, -2, e)
    BY <1>5 DEF Opened
  <2>2. t \in Seq(Kinds) /\ Len(t) = Len(s) + 1 /\ Has(t, -1, "vector") /\ Has(t, -3, e)
    BY <2>1, Grown, Made, Zenon
  <2> HIDE DEF t
  <2>3. -4 + 1 = -3 /\ -3 + 2 = -1 /\ 5 \in Nat /\ -4 \in Int /\ -3 \in Int
    OBVIOUS
  <2>4. Has(t, -4 + 1, e) /\ Has(t, -3 + 2, "vector") /\ 5 = Len(t) + 1
    BY <2>1, <2>2, <2>3
  <2>5. Safe(nm, c2, t, p)
    BY <1>1, <1>2, <2>2, <2>3, <2>4, Apply2ResultRule, Zenon
  <2> QED
    BY <2>5 DEF t
<1> HIDE DEF c2
<1>6. c2 \in Codes(nm)
  BY <1>3, NativeSequences
<1>7. c1 \in Codes(nm)
  BY <1>4, <1>6, CodesConcat
<1>8. ASSUME NEW e \in Valid, NEW s, Opened(s, e) PROVE Safe(nm, c1, s, p)
  <2>1. s \in Seq(Kinds) /\ Has(s, -3, "glob") /\ -3 \in Int
    BY <1>8 DEF Opened
  <2>2. Safe(nm, c2, Append(s, "vector"), p)
    BY <1>5, <1>8
  <2>3. "Vector" \in {"Vector", "Angle"} /\ (IF "Vector" = "Vector" THEN "vector" ELSE "angle") = "vector"
    OBVIOUS
  <2> QED
    BY <2>1, <2>2, <2>3, Make3Rule
<1> HIDE DEF c1
<1>9. Safe(nm, Checked("index") \o c1, <<>>, p)
  BY <1>7, <1>8, OpenedRule, Indices
<1> QED
  BY <1>3, <1>4, <1>9, Parts3, Zenon DEF Transform, c1, c2, K

LEMMA MakeVectorRule ==
  ASSUME NEW nm, NEW rest, NEW s \in Seq(Kinds), NEW p, NEW k \in Int, Has(s, k, "glob"),
         Safe(nm, rest, Append(s, "vector"), p)
  PROVE  Safe(nm, Make(k, "Vector", 3) \o rest, s, p)
<1>1. "Vector" \in {"Vector", "Angle"} /\ (IF "Vector" = "Vector" THEN "vector" ELSE "angle") = "vector"
  OBVIOUS
<1> QED
  BY <1>1, Make3Rule

LEMMA ApplyForceCenterRule ==
  ASSUME NEW nm \in Names, NEW p \in PassedType, NEW c \in entity_applyforce_center
  PROVE  Safe(nm, c, <<>>, p)
<1> DEFINE f  == "ApplyForceCenter"
           c2 == <<GetField(-3, f), Push(-4), Push(-3), Call(2, 0), Pop(6)>>
           c1 == Make(-5, "Vector", 3) \o c2
<1>1. f \in Functions /\ "phys" \in On(f) /\ Accepts(f, <<"phys", "vector">>)
  BY DEF Functions, On, Accepts, Params
<1> HIDE DEF f
<1>2. c2 \in Seq(NativeInstr)
  BY <1>1, Apply2Typed
<1>3. Make(-5, "Vector", 3) \in Seq(NativeInstr)
  BY MakeTyped, Made
<1>4. ASSUME NEW e \in Valid, NEW s, Reached(s, e, "phys") PROVE Safe(nm, c1, s, p)
  <2> DEFINE t == Append(s, "vector")
  <2>1. s \in Seq(Kinds) /\ Len(s) = 5 /\ Has(s, -2, "phys") /\ Has(s, -5, "glob")
    BY <1>4 DEF Reached
  <2>2. t \in Seq(Kinds) /\ Len(t) = Len(s) + 1 /\ Has(t, -1, "vector") /\ Has(t, -3, "phys")
    BY <2>1, Grown, Made, Zenon
  <2> HIDE DEF t
  <2>3. -4 + 1 = -3 /\ -3 + 2 = -1 /\ 6 \in Nat /\ -4 \in Int /\ -3 \in Int /\ -5 \in Int
    OBVIOUS
  <2>4. Has(t, -4 + 1, "phys") /\ Has(t, -3 + 2, "vector") /\ 6 = Len(t)
    BY <2>1, <2>2, <2>3
  <2>5. Safe(nm, c2, t, p)
    BY <1>1, <2>2, <2>3, <2>4, Apply2Rule, Zenon
  <2> HIDE DEF c2
  <2> QED
    BY <2>1, <2>3, <2>5, MakeVectorRule, Zenon DEF t
<1> HIDE DEF c2
<1>5. c1 \in Seq(NativeInstr)
  BY <1>2, <1>3
<1> HIDE DEF c1
<1>6. Safe(nm, Body \o c1, <<>>, p)
  BY <1>4, <1>5, BodyRule
<1>7. Safe(nm, Body \o Make(-5, "Vector", 3) \o c2, <<>>, p)
  BY <1>2, <1>3, <1>6, BodyTyped, Parts3, Zenon DEF c1
<1> QED
  BY <1>7, Zenon DEF entity_applyforce_center, c2, f

LEMMA ApplyForceOffsetRule ==
  ASSUME NEW nm \in Names, NEW p \in PassedType, NEW c \in entity_applyforce_offset
  PROVE  Safe(nm, c, <<>>, p)
<1> DEFINE f  == "ApplyForceOffset"
           c3 == <<GetField(-4, f), Push(-5), Push(-4), Push(-4), Call(3, 0), Pop(7)>>
           c2 == Make(-6, "Vector", 3) \o c3
           c1 == Make(-5, "Vector", 3) \o c2
<1>1. f \in Functions /\ "phys" \in On(f) /\ Accepts(f, <<"phys", "vector", "vector">>)
  BY DEF Functions, On, Accepts, Params
<1> HIDE DEF f
<1>2. c3 \in Seq(NativeInstr)
  BY <1>1, Apply3Typed
<1>3. Make(-5, "Vector", 3) \in Seq(NativeInstr) /\ Make(-6, "Vector", 3) \in Seq(NativeInstr)
  BY MakeTyped, Made
<1>4. ASSUME NEW e \in Valid, NEW s, Reached(s, e, "phys") PROVE Safe(nm, c1, s, p)
  <2> DEFINE t == Append(s, "vector")
             u == Append(t, "vector")
  <2>1. s \in Seq(Kinds) /\ Len(s) = 5 /\ Has(s, -2, "phys") /\ Has(s, -5, "glob")
    BY <1>4 DEF Reached
  <2>2. t \in Seq(Kinds) /\ Len(t) = Len(s) + 1 /\ Has(t, -1, "vector") /\ Has(t, -3, "phys")
        /\ Has(t, -6, "glob")
    BY <2>1, Grown, Made, Zenon
  <2> HIDE DEF t
  <2>3. u \in Seq(Kinds) /\ Len(u) = Len(t) + 1 /\ Has(u, -1, "vector") /\ Has(u, -2, "vector")
        /\ Has(u, -4, "phys")
    BY <2>2, Grown, Made, Zenon
  <2> HIDE DEF u
  <2>4. /\ -5 + 1 = -4 /\ -4 + 2 = -2 /\ -4 + 3 = -1 /\ 7 \in Nat
        /\ -4 \in Int /\ -5 \in Int /\ -6 \in Int
    OBVIOUS
  <2>5. Has(u, -5 + 1, "phys") /\ Has(u, -4 + 2, "vector") /\ Has(u, -4 + 3, "vector") /\ 7 = Len(u)
    BY <2>1, <2>2, <2>3, <2>4
  <2>6. Safe(nm, c3, u, p)
    BY <1>1, <2>3, <2>4, <2>5, Apply3Rule, Zenon
  <2> HIDE DEF c3
  <2>7. Safe(nm, c2, t, p)
    BY <2>2, <2>4, <2>6, MakeVectorRule, Zenon DEF u
  <2> HIDE DEF c2
  <2> QED
    BY <2>1, <2>4, <2>7, MakeVectorRule, Zenon DEF t
<1> HIDE DEF c3
<1>5. c2 \in Seq(NativeInstr)
  BY <1>2, <1>3
<1> HIDE DEF c2
<1>6. c1 \in Seq(NativeInstr)
  BY <1>3, <1>5
<1> HIDE DEF c1
<1>7. Safe(nm, Body \o c1, <<>>, p)
  BY <1>4, <1>6, BodyRule
<1>8. Safe(nm, Body \o Make(-5, "Vector", 3) \o Make(-6, "Vector", 3) \o c3, <<>>, p)
  BY <1>2, <1>3, <1>7, BodyTyped, Parts4, Zenon DEF c1, c2
<1> QED
  BY <1>8, Zenon DEF entity_applyforce_offset, c3, f

LEMMA EntityTyped ==
  ASSUME NEW k \in Int, NEW i \in DOMAIN EntityAt
  PROVE  <<GetField(k, "Entity"), Value(i), Call(1, 1)>> \in Seq(NativeInstr)
<1>1. GetField(k, "Entity") \in NativeInstr /\ Value(i) \in NativeInstr /\ Call(1, 1) \in NativeInstr
  BY Typed, KindsOfEntities
<1> QED
  BY <1>1

(* The entity with an index is looked up again, and asked whether it is valid. *)
LEMMA SecondLookupRule ==
  ASSUME NEW nm \in Names, NEW p \in PassedType, NEW s \in Seq(Kinds), NEW k \in Int,
         NEW i \in DOMAIN EntityAt, NEW n \in Nat, NEW rest \in Seq(NativeInstr), Has(s, k, "glob"),
         n = Len(s) + 2,
         \A e \in EntityAt[i] \cap Valid : Safe(nm, rest, Append(Append(s, e), "true"), p)
  PROVE  Safe(nm, <<GetField(k, "Entity"), Value(i), Call(1, 1)>>
                    \o (Ask(-1, "IsValid") \o (<<Require(n)>> \o rest)), s, p)
<1> DEFINE c2 == <<Require(n)>> \o rest
           c1 == Ask(-1, "IsValid") \o c2
<1>1. rest \in Codes(nm) /\ <<Require(n)>> \in Seq(NativeInstr)
  BY NativeSequences, RequireTyped
<1>2. c2 \in Codes(nm)
  BY <1>1, CodesConcat
<1>3. "IsValid" \in Methods
  BY DEF Methods
<1>4. Ask(-1, "IsValid") \in Seq(NativeInstr)
  BY <1>3, MethodTyped
<1> HIDE DEF c2
<1>5. c1 \in Codes(nm)
  BY <1>2, <1>4, CodesConcat
<1>6. ASSUME NEW e \in EntityAt[i] PROVE Safe(nm, c1, Append(s, e), p)
  <2> DEFINE t == Append(s, e)
  <2>1. e \in AnyEnt /\ e \in Kinds
    BY KindsOfEntities
  <2>2. t \in Seq(Kinds) /\ Len(t) = Len(s) + 1 /\ Has(t, -1, e)
    BY <2>1, Grown
  <2>3. ASSUME NEW b \in Results("IsValid", <<e>>) PROVE Safe(nm, c2, Append(t, b), p)
    <3> DEFINE u == Append(t, b)
    <3>1. b \in {"true", "false"} /\ (b = "true" => e \in Valid) /\ b \in Kinds
      BY <2>1, KindsOfEntities DEF Results, Answer, AnyEnt, Valid
    <3>2. b = "true" => Safe(nm, rest, u, p)
      BY <3>1
    <3> HIDE DEF t
    <3>3. u \in Seq(Kinds) /\ Len(u) = Len(t) + 1 /\ Has(u, -1, b)
      BY <2>2, <3>1, Grown
    <3> HIDE DEF u
    <3>4. n = Len(u) /\ n <= Len(u)
      BY <2>2, <3>3
    <3>5. Exits(nm, Under(u, n))
      BY <3>3, <3>4, UnderAll DEF Exits
    <3>6. Safe(nm, c2, u, p)
      BY <1>1, <3>1, <3>2, <3>3, <3>4, <3>5, ContinueRule, Zenon DEF c2
    <3> QED
      BY <3>6 DEF u
  <2>4. e \in On("IsValid")
    BY <2>1 DEF On
  <2> HIDE DEF t
  <2>5. Safe(nm, c1, t, p)
    BY <1>2, <1>3, <2>2, <2>3, <2>4, MethodRule, Zenon DEF c1
  <2> QED
    BY <2>5 DEF t
<1> HIDE DEF c1
<1>7. /\ "Entity" \in Functions /\ "glob" \in On("Entity") /\ Accepts("Entity", <<i>>) /\ i \in Kinds
      /\ Results("Entity", <<i>>) = EntityAt[i]
  BY KindsOfEntities DEF On, Accepts, Params, Results
<1>8. Safe(nm, <<GetField(k, "Entity"), Value(i), Call(1, 1)>> \o c1, s, p)
  BY <1>5, <1>6, <1>7, EntityRule, Zenon
<1> QED
  BY <1>8 DEF c1, c2

LEMMA UseRule ==
  ASSUME NEW nm \in Names, NEW p \in PassedType, NEW c \in entity_use
  PROVE  Safe(nm, c, <<>>, p)
<1> DEFINE f  == "Use"
           c4 == <<GetField(-4, f), Push(-5), Push(-4), Call(2, 0), Pop(5)>>
           c3 == <<Require(5)>> \o c4
           c2 == Ask(-1, "IsValid") \o c3
           d1 == <<GetField(-3, "Entity"), Value("ownerIndex"), Call(1, 1)>>
           c1 == d1 \o c2
<1>1. f \in Functions /\ \A e, o \in Valid : e \in On(f) /\ Accepts(f, <<e, o>>)
  <2>1. f \in Functions
    BY DEF Functions
  <2>2. On(f) = Valid
    BY DEF On
  <2>3. Params(f, 1) = <<Valid>>
    BY DEF Params
  <2>4. Valid # {"glob"}
    BY DEF Valid
  <2> HIDE DEF f
  <2>5. ASSUME NEW e \in Valid, NEW o \in Valid PROVE Accepts(f, <<e, o>>)
    <3> DEFINE args == <<e, o>>
    <3>1. Len(args) = 2 /\ Len(args) - 1 = 1 /\ args[1] = e /\ args[2] = o /\ DOMAIN args = 1 .. 2
      OBVIOUS
    <3> HIDE DEF args
    <3> DEFINE both == <<Valid>> \o <<Valid>>
               params == IF On(f) = {"glob"} THEN Params(f, Len(args))
                         ELSE <<On(f)>> \o Params(f, Len(args) - 1)
    <3>2. Len(both) = 2 /\ both[1] = Valid /\ both[2] = Valid
      OBVIOUS
    <3>3. params = both
      BY <2>2, <2>3, <2>4, <3>1, Zenon
    <3> HIDE DEF both, params
    <3>4. Len(args) = Len(params) /\ \A i \in DOMAIN args : args[i] \in params[i]
      BY <3>1, <3>2, <3>3
    <3> QED
      BY <3>4, Zenon DEF Accepts, params, args
  <2> QED
    BY <2>1, <2>2, <2>5
<1> HIDE DEF f
<1>2. c4 \in Seq(NativeInstr)
  BY <1>1, Apply2Typed
<1>3. "IsValid" \in Methods
  BY DEF Methods
<1>4. Ask(-1, "IsValid") \in Seq(NativeInstr)
  BY <1>3, MethodTyped
<1>5. <<Require(5)>> \in Seq(NativeInstr) /\ Checked("index") \in Seq(NativeInstr)
  BY RequireTyped, CheckedTyped, Indices
<1>6. d1 \in Seq(NativeInstr)
  BY EntityTyped, Indices
<1>7. ASSUME NEW e \in Valid, NEW s, Opened(s, e) PROVE Safe(nm, c1, s, p)
  <2>1. s \in Seq(Kinds) /\ Len(s) = 3 /\ Has(s, -3, "glob") /\ Has(s, -2, e)
    BY <1>7 DEF Opened
  <2>2. -5 + 1 = -4 /\ -4 + 2 = -2 /\ 5 \in Nat /\ -3 \in Int /\ -4 \in Int /\ -5 \in Int /\ 5 = 3 + 2
    OBVIOUS
  <2>3. ASSUME NEW o \in EntityAt["ownerIndex"] \cap Valid
        PROVE  Safe(nm, c4, Append(Append(s, o), "true"), p)
    <3> DEFINE t == Append(s, o)
               u == Append(t, "true")
    <3>1. o \in Valid /\ o \in Kinds /\ "true" \in Kinds
      BY KindsOfEntities DEF AnyEnt, Valid
    <3>2. t \in Seq(Kinds) /\ Len(t) = Len(s) + 1 /\ Has(t, -1, o) /\ Has(t, -3, e)
      BY <2>1, <3>1, Grown, Zenon
    <3> HIDE DEF t
    <3>3. u \in Seq(Kinds) /\ Len(u) = Len(t) + 1 /\ Has(u, -2, o) /\ Has(u, -4, e)
      BY <3>1, <3>2, Grown, Zenon
    <3> HIDE DEF u
    <3>4. Has(u, -5 + 1, e) /\ Has(u, -4 + 2, o) /\ 5 = Len(u)
      BY <2>1, <2>2, <3>2, <3>3
    <3>5. e \in On(f) /\ Accepts(f, <<e, o>>)
      BY <1>1, <3>1
    <3>6. Safe(nm, c4, u, p)
      BY <1>1, <2>2, <3>3, <3>4, <3>5, Apply2Rule, Zenon
    <3> QED
      BY <3>6 DEF t, u
  <2> HIDE DEF c4
  <2>4. 5 = Len(s) + 2
    BY <2>1
  <2> QED
    BY <1>2, <2>1, <2>2, <2>3, <2>4, SecondLookupRule, Indices, Zenon DEF c1, c2, c3, d1
<1> HIDE DEF c4
<1>8. c3 \in Codes(nm)
  BY <1>2, <1>5, CodesConcat, NativeSequences
<1> HIDE DEF c3
<1>9. c2 \in Codes(nm)
  BY <1>4, <1>8, CodesConcat
<1> HIDE DEF c2, d1
<1>10. c1 \in Codes(nm)
  BY <1>6, <1>9, CodesConcat
<1> HIDE DEF c1
<1>11. Safe(nm, Checked("index") \o c1, <<>>, p)
  BY <1>7, <1>10, OpenedRule, Indices
<1>12. Safe(nm, Checked("index") \o d1 \o Ask(-1, "IsValid") \o <<Require(5)>> \o c4, <<>>, p)
  BY <1>2, <1>4, <1>5, <1>6, <1>11, Parts5, Zenon DEF c1, c2, c3
<1> QED
  BY <1>12, Zenon DEF entity_use, c4, f, d1

-----------------------------------------------------------------------------
(* Outputs.Trigger *)

(* What Trigger finds once it has read the type of the output. *)
Readied(s) ==
  s \in Seq(Kinds) /\ Len(s) = 4 /\ Has(s, -4, "glob") /\ Has(s, -3, "chip") /\ Has(s, -1, "str")

LEMMA ScriptBailRule ==
  ASSUME NEW nm \in Names, NEW rest \in Seq(NativeInstr), NEW s \in Seq(Kinds), NEW p \in PassedType,
         NEW n \in Nat, n = Len(s), nm # "JS_EmitEvent", Safe(nm, rest, s, p)
  PROVE  /\ Safe(nm, <<Bail(n)>> \o rest, s, p)
         /\ Safe(nm, <<Script, Bail(n)>> \o rest, s, p)
<1>1. Safe(nm, <<>>, Under(s, n), p)
  BY PopAllRule
<1>2. Safe(nm, <<Bail(n)>> \o rest, s, p)
  BY <1>1, n <= Len(s), BailRule, Zenon
<1>3. Safe(nm, <<Script>> \o (<<Bail(n)>> \o rest), s, p)
  BY <1>2, ScriptRule, Zenon
<1>4. rest \in Seq(Instr)
  BY NativeSequences
<1> QED
  BY <1>2, <1>3, <1>4, InOrder2, Zenon

LEMMA PlainOutputRule ==
  ASSUME NEW nm \in Names, NEW rest \in Seq(NativeInstr), NEW s, NEW p \in PassedType, Readied(s),
         nm # "JS_EmitEvent", NEW o \in Kinds, Safe(nm, rest, Append(s, o), p)
  PROVE  Safe(nm, <<Bail(4), Value(o)>> \o rest, s, p)
<1>1. s \in Seq(Kinds) /\ 4 = Len(s) /\ 4 \in Nat
  BY DEF Readied
<1>2. Safe(nm, <<Value(o)>> \o rest, s, p)
  BY <1>1, ValueRule
<1>3. <<Value(o)>> \in Seq(NativeInstr)
  BY Typed
<1>4. <<Value(o)>> \o rest \in Seq(NativeInstr) /\ rest \in Seq(Instr)
  BY <1>3, NativeSequences
<1>5. Safe(nm, <<Bail(4)>> \o (<<Value(o)>> \o rest), s, p)
  BY <1>1, <1>2, <1>4, ScriptBailRule, Zenon
<1> QED
  BY <1>4, <1>5, InOrder2, Zenon

LEMMA ScriptBailTyped ==
  ASSUME NEW n \in Nat
  PROVE  <<Script, Bail(n)>> \in Seq(NativeInstr)
<1>1. Script \in NativeInstr /\ Bail(n) \in NativeInstr
  BY Typed
<1> QED
  BY <1>1

LEMMA MadeOutputRule ==
  ASSUME NEW nm \in Names, NEW rest \in Seq(NativeInstr), NEW s, NEW p \in PassedType, Readied(s),
         nm # "JS_EmitEvent", NEW m \in Seq(NativeInstr), Safe(nm, m \o rest, s, p)
  PROVE  Safe(nm, <<Script, Bail(4)>> \o m \o rest, s, p)
<1>1. s \in Seq(Kinds) /\ 4 = Len(s) /\ 4 \in Nat
  BY DEF Readied
<1>2. m \o rest \in Seq(NativeInstr) /\ <<Script, Bail(4)>> \in Seq(NativeInstr)
  BY ScriptBailTyped
<1>3. Safe(nm, <<Script, Bail(4)>> \o (m \o rest), s, p)
  BY <1>1, <1>2, ScriptBailRule, Zenon
<1> QED
  BY <1>2, <1>3, Parts3, Zenon

LEMMA FirstOf4 ==
  ASSUME NEW nm, NEW s, NEW p, NEW a, NEW b, NEW c, NEW d, NEW rest \in Seq(Instr)
  PROVE  Safe(nm, <<a>> \o (<<b, c, d>> \o rest), s, p) => Safe(nm, <<a, b, c, d>> \o rest, s, p)
<1>1. <<a, b, c, d>> \o rest = <<a>> \o (<<b, c, d>> \o rest)
  BY Split4
<1> QED
  BY <1>1, Zenon

EntityOutput ==
  <<Bail(4), GetField(-4, "Entity"), Value("index"), Call(1, 1)>>
    \o Ask(-1, "IsValid") \o <<Require(6), Pop(1)>>

LEMMA EntityOutputTyped ==
  EntityOutput \in Seq(NativeInstr)
<1>1. /\ Bail(4) \in NativeInstr /\ GetField(-4, "Entity") \in NativeInstr
      /\ Value("index") \in NativeInstr /\ Call(1, 1) \in NativeInstr
      /\ Require(6) \in NativeInstr /\ Pop(1) \in NativeInstr
  BY Typed, KindsOfEntities, Indices
<1>2. <<Bail(4), GetField(-4, "Entity"), Value("index"), Call(1, 1)>> \in Seq(NativeInstr)
      /\ <<Require(6), Pop(1)>> \in Seq(NativeInstr)
  BY <1>1
<1>3. Ask(-1, "IsValid") \in Seq(NativeInstr)
  BY AskTyped DEF Functions
<1> QED
  BY <1>2, <1>3 DEF EntityOutput

LEMMA EntityOutputRule ==
  ASSUME NEW nm \in Names, NEW rest \in Seq(NativeInstr), NEW s, NEW p \in PassedType, Readied(s),
         nm # "JS_EmitEvent", \A e \in Valid : Safe(nm, rest, Append(s, e), p)
  PROVE  Safe(nm, EntityOutput \o rest, s, p)
<1> DEFINE look == <<GetField(-4, "Entity"), Value("index"), Call(1, 1)>>
           c3 == <<Pop(1)>> \o rest
           c2 == <<Require(6)>> \o c3
           c1 == Ask(-1, "IsValid") \o c2
<1>1. s \in Seq(Kinds) /\ 4 = Len(s) /\ 4 \in Nat /\ Has(s, -4, "glob") /\ -4 \in Int /\ 6 \in Nat
  BY DEF Readied
<1>2. 6 = Len(s) + 2
  <2>1. 4 + 2 = 6
    OBVIOUS
  <2> QED
    BY <1>1, <2>1, Zenon
<1>3. <<Pop(1)>> \in Seq(NativeInstr) /\ <<Require(6)>> \in Seq(NativeInstr)
      /\ <<Bail(4)>> \in Seq(NativeInstr)
  BY Typed
<1>4. Ask(-1, "IsValid") \in Seq(NativeInstr)
  BY AskTyped DEF Functions
<1>5. look \in Seq(NativeInstr)
  BY EntityTyped, Indices
<1>6. c3 \in Seq(NativeInstr)
  BY <1>3
<1>7. ASSUME NEW e \in Valid PROVE Safe(nm, c3, Append(Append(s, e), "true"), p)
  <2> DEFINE t == Append(s, e)
             u == Append(t, "true")
  <2>1. e \in Kinds /\ "true" \in Kinds
    BY KindsOfEntities DEF AnyEnt
  <2>2. t \in Seq(Kinds) /\ Len(t) = Len(s) + 1
    BY <1>1, <2>1, Appended
  <2>3. Safe(nm, rest, t, p)
    OBVIOUS
  <2> HIDE DEF t
  <2>4. u \in Seq(Kinds) /\ Len(u) = Len(t) + 1 /\ Under(u, 1) = t
    BY <2>1, <2>2, Appended
  <2> HIDE DEF u
  <2>5. 1 \in Nat /\ 1 <= Len(u)
    BY <1>1, <2>2, <2>4
  <2>6. Safe(nm, c3, u, p)
    BY <2>3, <2>4, <2>5, PopRule, Zenon
  <2> QED
    BY <2>6 DEF t, u
<1> HIDE DEF c3
<1>8. \A e \in EntityAt["index"] \cap Valid : Safe(nm, c3, Append(Append(s, e), "true"), p)
  BY <1>7, Indices
<1>9. Safe(nm, look \o c1, s, p)
  BY <1>1, <1>2, <1>6, <1>8, SecondLookupRule, Indices, Zenon DEF look, c1, c2
<1>10. c2 \in Seq(NativeInstr)
  BY <1>3, <1>6
<1> HIDE DEF c2
<1>11. c1 \in Seq(NativeInstr)
  BY <1>4, <1>10
<1> HIDE DEF c1, look
<1>12. look \o c1 \in Seq(NativeInstr)
  BY <1>5, <1>11
<1>13. Safe(nm, <<Bail(4)>> \o (look \o c1), s, p)
  BY <1>1, <1>9, <1>12, ScriptBailRule, Zenon
<1> DEFINE q == <<Bail(4), GetField(-4, "Entity"), Value("index"), Call(1, 1)>>
           w == <<Require(6), Pop(1)>>
<1>14. c1 \in Seq(Instr) /\ rest \in Seq(Instr)
  BY <1>11, NativeSequences
<1>15. Safe(nm, q \o c1, s, p)
  BY <1>13, <1>14, FirstOf4, Zenon DEF look
<1>16. w \o rest = c2
  BY <1>14, Split2 DEF c2, c3
<1>17. q \in Seq(NativeInstr) /\ w \in Seq(NativeInstr)
  <2>1. /\ Bail(4) \in NativeInstr /\ GetField(-4, "Entity") \in NativeInstr
        /\ Value("index") \in NativeInstr /\ Call(1, 1) \in NativeInstr
        /\ Require(6) \in NativeInstr /\ Pop(1) \in NativeInstr
    BY Typed, KindsOfEntities, Indices
  <2> QED
    BY <2>1
<1> HIDE DEF q, w
<1>18. Safe(nm, q \o (Ask(-1, "IsValid") \o (w \o rest)), s, p)
  BY <1>15, <1>16, Zenon DEF c1
<1>19. Safe(nm, q \o Ask(-1, "IsValid") \o w \o rest, s, p)
  BY <1>4, <1>17, <1>18, Parts4, Zenon
<1> QED
  BY <1>19, Zenon DEF EntityOutput, q, w

LEMMA OutputKinds ==
  /\ "num" \in Outputs /\ "str" \in Outputs /\ "vector" \in Outputs /\ "angle" \in Outputs
  /\ "color" \in Outputs /\ Valid \subseteq Outputs /\ Outputs \subseteq Kinds
  BY DEF Outputs, Numbers, Kinds

(* Each type of output leads to one value that TriggerOutput takes. *)
LEMMA OutputValueRule ==
  ASSUME NEW nm \in Names, NEW rest \in Seq(NativeInstr), NEW s, NEW p \in PassedType, Readied(s),
         nm # "JS_EmitEvent", \A o \in Outputs : Safe(nm, rest, Append(s, o), p),
         NEW v \in OutputValue
  PROVE  Safe(nm, v \o rest, s, p) /\ v \in Seq(NativeInstr)
<1>1. s \in Seq(Kinds) /\ Has(s, -4, "glob") /\ -4 \in Int /\ 3 \in Nat /\ 4 \in Nat
  BY DEF Readied
<1>2. ASSUME NEW o \in {"num", "str"}
      PROVE  /\ Safe(nm, <<Bail(4), Value(o)>> \o rest, s, p)
             /\ <<Bail(4), Value(o)>> \in Seq(NativeInstr)
  <2>1. o \in Kinds /\ o \in Outputs
    BY OutputKinds
  <2>2. Bail(4) \in NativeInstr /\ Value(o) \in NativeInstr
    BY <2>1, Typed
  <2>3. Safe(nm, rest, Append(s, o), p)
    BY <2>1
  <2>4. <<Bail(4), Value(o)>> \in Seq(NativeInstr)
    BY <2>2
  <2> QED
    BY <2>1, <2>3, <2>4, PlainOutputRule, Zenon
<1>3. ASSUME NEW f \in {"Vector", "Angle"}
      PROVE  /\ Safe(nm, <<Script, Bail(4)>> \o Make(-4, f, 3) \o rest, s, p)
             /\ <<Script, Bail(4)>> \o Make(-4, f, 3) \in Seq(NativeInstr)
  <2>1. (IF f = "Vector" THEN "vector" ELSE "angle") \in Outputs /\ f \in Functions
    BY OutputKinds, Made
  <2>2. Make(-4, f, 3) \in Seq(NativeInstr)
    BY <1>1, <2>1, MakeTyped
  <2>3. Safe(nm, Make(-4, f, 3) \o rest, s, p)
    BY <1>1, <2>1, Make3Rule, Zenon
  <2>4. Safe(nm, <<Script, Bail(4)>> \o Make(-4, f, 3) \o rest, s, p)
    BY <2>2, <2>3, MadeOutputRule, Zenon
  <2>5. <<Script, Bail(4)>> \in Seq(NativeInstr)
    BY ScriptBailTyped
  <2>6. <<Script, Bail(4)>> \o Make(-4, f, 3) \in Seq(NativeInstr)
    BY <2>2, <2>5
  <2> QED
    BY <2>4, <2>6, Zenon
<1>4. /\ Safe(nm, <<Script, Bail(4)>> \o Make(-4, "Color", 4) \o rest, s, p)
      /\ <<Script, Bail(4)>> \o Make(-4, "Color", 4) \in Seq(NativeInstr)
  <2>1. "color" \in Outputs /\ "Color" \in Functions /\ "Color" \in {"Color"}
    BY OutputKinds, Made
  <2>2. Make(-4, "Color", 4) \in Seq(NativeInstr)
    BY <1>1, <2>1, MakeTyped
  <2>3. Safe(nm, Make(-4, "Color", 4) \o rest, s, p)
    BY <1>1, <2>1, Make4Rule, Zenon
  <2>4. Safe(nm, <<Script, Bail(4)>> \o Make(-4, "Color", 4) \o rest, s, p)
    BY <2>2, <2>3, MadeOutputRule, Zenon
  <2>5. <<Script, Bail(4)>> \in Seq(NativeInstr)
    BY ScriptBailTyped
  <2>6. <<Script, Bail(4)>> \o Make(-4, "Color", 4) \in Seq(NativeInstr)
    BY <2>2, <2>5
  <2> QED
    BY <2>4, <2>6, Zenon
<1>5. Safe(nm, EntityOutput \o rest, s, p)
  BY EntityOutputRule, OutputKinds
<1>6. \/ v = <<Bail(4), Value("num")>> \/ v = <<Bail(4), Value("str")>>
      \/ v = <<Script, Bail(4)>> \o Make(-4, "Vector", 3) \/ v = <<Script, Bail(4)>> \o Make(-4, "Angle", 3)
      \/ v = <<Script, Bail(4)>> \o Make(-4, "Color", 4) \/ v = EntityOutput
  BY Zenon DEF OutputValue, EntityOutput
<1>7. "num" \in {"num", "str"} /\ "str" \in {"num", "str"} /\ "Vector" \in {"Vector", "Angle"}
      /\ "Angle" \in {"Vector", "Angle"}
  OBVIOUS
<1> QED
  BY <1>2, <1>3, <1>4, <1>5, <1>6, <1>7, EntityOutputTyped, Zenon

(* An excused fault ends the function. *)
LEMMA ExcusedRule ==
  ASSUME NEW nm \in Names, NEW rest \in Codes(nm), NEW s \in Seq(Kinds), NEW p \in PassedType,
         NEW i \in NativeInstr, nm # "JS_EmitEvent", Excused(nm, i, s), ~Legal(i, s, p)
  PROVE  Safe(nm, <<i>> \o rest, s, p)
<1> DEFINE c == <<i>> \o rest
<1>1. <<i>> \in Seq(NativeInstr)
  OBVIOUS
<1>2. c \in Codes(nm)
  BY <1>1, CodesConcat
<1>3. i \in Instr /\ rest \in Seq(Instr)
  BY CodesAreSequences DEF Instr
<1>4. c # <<>> /\ Head(c) = i /\ c \in Seq(Instr)
  BY <1>3, Prefixed
<1> HIDE DEF c
<1>5. <<nm, c, s, p>> \in Confs
  BY <1>2, <1>4, SMT DEF Confs
<1>6. Fine(nm, c, s, p, Good)
  BY <1>4, Zenon DEF Fine, Harmless
<1>7. Safe(nm, c, s, p)
  BY <1>5, <1>6, FineIsSafe
<1> QED
  BY <1>7 DEF c

(* A prop has no method of the chip's. *)
LEMMA PropRule ==
  ASSUME NEW nm \in Names, nm \in {"InputsChange", "OutputsChange", "Trigger"},
         NEW f \in {"SetInputs", "SetOutputs", "OutputType", "TriggerOutput"}, NEW k,
         NEW rest \in Codes(nm), NEW s \in Seq(Kinds), NEW p \in PassedType, Has(s, k, "prop")
  PROVE  Safe(nm, <<GetField(k, f)>> \o rest, s, p)
<1>1. k \in Int /\ At(s, k) = "prop"
  BY DEF Has, At, Slot
<1>2. f \in Functions /\ On(f) = {"chip"}
  BY DEF Functions, On
<1>3. GetField(k, f) \in NativeInstr
  BY <1>1, <1>2, Typed
<1>4. Legal(GetField(k, f), s, p) => At(s, k) \in On(f)
  BY SMT DEF Legal, GetField
<1>5. ~Legal(GetField(k, f), s, p)
  BY <1>1, <1>2, <1>4
<1>6. Excused(nm, GetField(k, f), s)
  BY <1>1 DEF Excused, GetField
<1>7. nm # "JS_EmitEvent"
  OBVIOUS
<1> QED
  BY <1>3, <1>5, <1>6, <1>7, ExcusedRule, Zenon

LEMMA OutputsTriggerRule ==
  ASSUME NEW nm \in Names, NEW p \in PassedType, nm = "Trigger", NEW c \in outputs_trigger
  PROVE  Safe(nm, c, <<>>, p)
<1> DEFINE K == {"str"}
           d == <<GetField(-2, "OutputType"), Push(-3), Value("str"), Call(2, 1), Read(K)>>
           f == "TriggerOutput"
           w == <<GetField(-4, f), Push(-5), Value("str"), Push(-4), Call(3, 0), Pop(5)>>
<1>0. nm # "JS_EmitEvent"
  OBVIOUS
<1>1. PICK v \in OutputValue : c = Checked("entIndex") \o d \o v \o w
  BY Zenon DEF outputs_trigger
<1>2. f \in Functions /\ "chip" \in On(f) /\ \A o \in Outputs : Accepts(f, <<"chip", "str", o>>)
  BY DEF Functions, On, Accepts, Params
<1>3. K \in SUBSET Kinds
  BY KindsOfEntities
<1>4. d \in Seq(NativeInstr)
  <2>1. /\ GetField(-2, "OutputType") \in NativeInstr /\ Push(-3) \in NativeInstr
        /\ Value("str") \in NativeInstr /\ Call(2, 1) \in NativeInstr /\ Read(K) \in NativeInstr
    <3>1. "OutputType" \in Functions /\ "str" \in Kinds
      BY KindsOfEntities DEF Functions
    <3> HIDE DEF K
    <3> QED
      BY <1>3, <3>1, Typed
  <2> HIDE DEF K
  <2> QED
    BY <2>1
<1>5. /\ "OutputType" \in Functions /\ "chip" \in On("OutputType") /\ Accepts("OutputType", <<"chip", "str">>)
      /\ Results("OutputType", <<"chip", "str">>) = K
  BY DEF Functions, On, Accepts, Params, Results
<1> HIDE DEF f
<1>6. w \in Seq(NativeInstr)
  BY <1>2, TriggerTyped
<1>7. ASSUME NEW s, Readied(s), NEW o \in Outputs PROVE Safe(nm, w, Append(s, o), p)
  <2> DEFINE t == Append(s, o)
  <2>1. s \in Seq(Kinds) /\ Len(s) = 4 /\ Has(s, -3, "chip") /\ o \in Kinds
    BY <1>7, OutputKinds DEF Readied
  <2>2. t \in Seq(Kinds) /\ Len(t) = Len(s) + 1 /\ Has(t, -1, o) /\ Has(t, -4, "chip")
    BY <2>1, Grown, Zenon
  <2> HIDE DEF t
  <2>3. -5 + 1 = -4 /\ -4 + 3 = -1 /\ 5 \in Nat /\ -4 \in Int /\ -5 \in Int
    OBVIOUS
  <2>4. Has(t, -5 + 1, "chip") /\ Has(t, -4 + 3, o) /\ 5 = Len(t)
    BY <2>1, <2>2, <2>3
  <2>5. Safe(nm, w, t, p)
    BY <1>2, <2>2, <2>3, <2>4, TriggerRule, Zenon
  <2> QED
    BY <2>5 DEF t
<1> HIDE DEF w
<1>8. ASSUME NEW s, Readied(s) PROVE Safe(nm, v \o w, s, p) /\ v \in Seq(NativeInstr)
  BY <1>0, <1>6, <1>7, <1>8, OutputValueRule
<1>9. \E s : Readied(s)
  <2> DEFINE z == <<"glob", "chip", "true", "str">>
  <2>1. "glob" \in Kinds /\ "chip" \in Kinds /\ "true" \in Kinds /\ "str" \in Kinds
    BY KindsOfEntities DEF AnyEnt, Valid
  <2>2. Readied(z)
    BY <2>1 DEF Readied, Has
  <2> QED
    BY <2>2
<1>10. v \in Seq(NativeInstr)
  BY <1>8, <1>9
<1>11. v \o w \in Seq(NativeInstr)
  BY <1>6, <1>10
<1>12. ASSUME NEW e \in EntityAt["entIndex"] \cap Valid, NEW s, Opened(s, e)
       PROVE  Safe(nm, d \o (v \o w), s, p)
  <2>0. CASE Opened(s, "chip")
    <3>1. s \in Seq(Kinds) /\ Len(s) = 3 /\ Has(s, -3, "glob") /\ Has(s, -2, "chip")
      BY <2>0 DEF Opened
    <3>2. Readied(Append(s, "str"))
      <4>1. "str" \in Kinds
        BY KindsOfEntities
      <4>2. /\ Append(s, "str") \in Seq(Kinds) /\ Len(Append(s, "str")) = Len(s) + 1
            /\ Has(Append(s, "str"), -1, "str") /\ Has(Append(s, "str"), -3, "chip")
            /\ Has(Append(s, "str"), -4, "glob")
        BY <3>1, <4>1, Grown, Zenon
      <4>3. Len(Append(s, "str")) = 4
        BY <3>1, <4>2
      <4> QED
        BY <4>2, <4>3, Zenon DEF Readied
    <3>3. v \o w \in Codes(nm)
      BY <1>11, NativeSequences
    <3>4. \A r \in Results("OutputType", <<"chip", "str">>) : Safe(nm, v \o w, Append(s, r), p)
      BY <1>5, <1>8, <3>2
    <3>5. Has(s, -3 + 1, "chip") /\ -3 \in Int
      <4>1. -3 + 1 = -2
        OBVIOUS
      <4> QED
        BY <3>1, <4>1
    <3> HIDE DEF K
    <3>6. Results("OutputType", <<"chip", "str">>) \subseteq K
      BY <1>5
    <3> QED
      BY <1>3, <1>5, <3>1, <3>3, <3>4, <3>5, <3>6, TypeRule, Zenon
  <2>1. CASE Opened(s, "prop")
    <3> DEFINE a1 == GetField(-2, "OutputType")
               a2 == Push(-3)
               a3 == Value("str")
               a4 == Call(2, 1)
               a5 == Read(K)
               x == v \o w
               y == <<a2>> \o (<<a3>> \o (<<a4>> \o (<<a5>> \o x)))
    <3>1. s \in Seq(Kinds) /\ Has(s, -2, "prop")
      BY <2>1 DEF Opened
    <3>2. a1 \in NativeInstr /\ a2 \in NativeInstr /\ a3 \in NativeInstr /\ a4 \in NativeInstr
          /\ a5 \in NativeInstr
      <4>1. "OutputType" \in Functions /\ "str" \in Kinds
        BY KindsOfEntities DEF Functions
      <4> HIDE DEF K
      <4> QED
        BY <1>3, <4>1, Typed
    <3>3. d = <<a1, a2, a3, a4, a5>>
      OBVIOUS
    <3> HIDE DEF d, x, a1, a2, a3, a4, a5
    <3>4. x \in Seq(NativeInstr)
      BY <1>11 DEF x
    <3>5. <<a5>> \o x \in Seq(NativeInstr)
      BY <3>2, <3>4
    <3>6. <<a4>> \o (<<a5>> \o x) \in Seq(NativeInstr)
      BY <3>2, <3>5
    <3>7. <<a3>> \o (<<a4>> \o (<<a5>> \o x)) \in Seq(NativeInstr)
      BY <3>2, <3>6
    <3>8. y \in Seq(NativeInstr)
      BY <3>2, <3>7
    <3> HIDE DEF y
    <3>9. y \in Codes(nm) /\ x \in Seq(Instr)
      BY <3>4, <3>8, NativeSequences
    <3>10. Safe(nm, <<a1>> \o y, s, p)
      BY <3>1, <3>9, PropRule DEF a1
    <3>11. Safe(nm, <<a1, a2, a3, a4, a5>> \o x, s, p)
      BY <3>9, <3>10, InOrder5, Zenon DEF y
    <3> QED
      BY <3>3, <3>11 DEF x
  <2> QED
    BY <1>12, <2>0, <2>1, Indices
<1> HIDE DEF d
<1>13. d \o (v \o w) \in Codes(nm)
  BY <1>4, <1>11, CodesConcat, NativeSequences
<1>14. Safe(nm, Checked("entIndex") \o (d \o (v \o w)), <<>>, p)
  BY <1>12, <1>13, OpenedRule, Indices
<1>15. Checked("entIndex") \in Seq(NativeInstr)
  BY CheckedTyped, Indices
<1>16. Safe(nm, Checked("entIndex") \o d \o v \o w, <<>>, p)
  BY <1>4, <1>6, <1>10, <1>14, <1>15, Parts4, Zenon
<1> QED
  BY <1>1, <1>16

-----------------------------------------------------------------------------
(* Entity.GetColor *)

LEMMA Parts7 ==
  ASSUME NEW nm, NEW s, NEW p, NEW a \in Seq(NativeInstr), NEW b \in Seq(NativeInstr),
         NEW c \in Seq(NativeInstr), NEW d \in Seq(NativeInstr), NEW e \in Seq(NativeInstr),
         NEW f \in Seq(NativeInstr), NEW g \in Seq(NativeInstr),
         Safe(nm, a \o (b \o (c \o (d \o (e \o (f \o g))))), s, p)
  PROVE  Safe(nm, a \o b \o c \o d \o e \o f \o g, s, p)
<1>1. e \o (f \o g) \in Seq(NativeInstr)
  <2>1. f \o g \in Seq(NativeInstr)
    OBVIOUS
  <2> QED
    BY <2>1
<1>2. a \o b \o c \o d \in Seq(NativeInstr)
  <2>1. a \o b \in Seq(NativeInstr)
    OBVIOUS
  <2>2. a \o b \o c \in Seq(NativeInstr)
    BY <2>1
  <2> QED
    BY <2>2
<1>3. Safe(nm, (a \o b \o c \o d) \o (e \o (f \o g)), s, p)
  BY <1>1, Parts5, Zenon
<1> QED
  BY <1>2, <1>3, Parts4, Zenon

LEMMA Shades ==
  DOMAIN Component = {"r", "g", "b", "a"} /\ \A c \in DOMAIN Component : c \in Kinds /\ Component[c] \in Kinds
  BY DEF Component, Kinds

LEMMA ShadeTyped ==
  ASSUME NEW k \in Int, NEW c \in DOMAIN Component
  PROVE  Shade(k, c) \in Seq(NativeInstr)
<1>1. c \in Kinds /\ {Component[c]} \in SUBSET Kinds
  BY Shades
<1>2. Value(c) \in NativeInstr /\ GetTable(k) \in NativeInstr /\ Read({Component[c]}) \in NativeInstr
  BY <1>1, Typed
<1> QED
  BY <1>2 DEF Shade

LEMMA FieldOf ==
  ASSUME NEW s \in Seq(Kinds), NEW k \in Int, NEW c \in DOMAIN Component, NEW x \in {"color", "table"},
         Has(Append(s, c), k, x), NEW v, v = (IF x = "table" THEN "nil" ELSE Component[c]),
         NEW nm, NEW rest, NEW p, Safe(nm, rest, Append(s, v), p)
  PROVE  Safe(nm, <<GetTable(k)>> \o rest, Append(s, c), p)
<1> DEFINE t == Append(s, c)
<1>1. c \in Kinds
  BY Shades
<1>2. t \in Seq(Kinds) /\ Under(t, 1) = s /\ Has(t, -1, c)
  BY <1>1, Appended, Grown
<1> HIDE DEF t
<1>3. Mine(t, k) /\ At(t, k) = x /\ At(t, -1) = c
  BY <1>2, HasKind DEF t
<1>4. At(t, k) \in {"color", "table"} /\ At(t, -1) \in DOMAIN Component
  BY <1>3
<1>5. v = IF At(t, k) = "table" THEN "nil" ELSE Component[At(t, -1)]
  BY <1>3
<1>6. Safe(nm, rest, Append(Under(t, 1), v), p)
  BY <1>2
<1>7. Safe(nm, <<GetTable(k)>> \o rest, t, p)
  BY <1>2, <1>3, <1>4, <1>5, <1>6, GetTableRule
<1> QED
  BY <1>7 DEF t

LEMMA ShadeRule ==
  ASSUME NEW nm, NEW rest, NEW s \in Seq(Kinds), NEW p, NEW k \in Int, NEW c \in DOMAIN Component,
         Has(s, k + 1, "color"), Safe(nm, rest, Append(s, Component[c]), p)
  PROVE  Safe(nm, Shade(k, c) \o rest, s, p)
<1> DEFINE v  == Component[c]
           K  == {v}
           c2 == <<Read(K)>> \o rest
           c1 == <<GetTable(k)>> \o c2
<1>1. c \in Kinds /\ v \in Kinds /\ K \in SUBSET Kinds /\ v \in K
  BY Shades
<1>2. Append(s, v) \in Seq(Kinds) /\ Has(Append(s, v), -1, v)
  BY <1>1, Grown
<1> HIDE DEF v, K
<1>3. Safe(nm, c2, Append(s, v), p)
  BY <1>1, <1>2, TopRule, Zenon DEF v
<1> HIDE DEF c2
<1>4. Has(Append(s, c), k, "color")
  <2>1. Has(Append(s, c), (k + 1) - 1, "color")
    BY <1>1, Above
  <2>2. (k + 1) - 1 = k
    OBVIOUS
  <2> QED
    BY <2>1, <2>2
<1>5. Safe(nm, c1, Append(s, c), p)
  <2>1. "color" \in {"color", "table"} /\ v = IF "color" = "table" THEN "nil" ELSE Component[c]
    BY DEF v
  <2> QED
    BY <1>3, <1>4, <2>1, FieldOf, Zenon
<1> HIDE DEF c1
<1>6. Safe(nm, <<Value(c)>> \o c1, s, p)
  BY <1>1, <1>5, ValueRule, Zenon
<1>7. rest \in Seq(Instr)
  BY SafeTyped, CodesAreSequences
<1>8. Safe(nm, <<Value(c), GetTable(k), Read(K)>> \o rest, s, p)
  BY <1>6, <1>7, InOrder3, Zenon DEF c1, c2
<1> QED
  BY <1>8, Zenon DEF Shade, K, v

LEMMA GetColorRule ==
  ASSUME NEW nm \in Names, NEW p \in PassedType, NEW c \in entity_get_color
  PROVE  Safe(nm, c, <<>>, p)
<1> DEFINE c6 == <<Pop(8)>>
           c5 == Shade(-5, "a") \o c6
           c4 == Shade(-4, "b") \o c5
           c3 == Shade(-3, "g") \o c4
           c2 == Shade(-2, "r") \o c3
           c1 == Ask(-2, "GetColor") \o c2
<1>1. /\ Shade(-5, "a") \in Seq(NativeInstr) /\ Shade(-4, "b") \in Seq(NativeInstr)
      /\ Shade(-3, "g") \in Seq(NativeInstr) /\ Shade(-2, "r") \in Seq(NativeInstr)
  BY Shades, ShadeTyped
<1>2. "GetColor" \in Methods
  BY DEF Methods
<1>3. Ask(-2, "GetColor") \in Seq(NativeInstr) /\ Checked("index") \in Seq(NativeInstr)
  BY <1>2, MethodTyped, CheckedTyped, Indices
<1>4. c6 \in Seq(NativeInstr)
  BY Typed
<1>5. ASSUME NEW e \in Valid, NEW s, Opened(s, e), NEW r \in Results("GetColor", <<e>>)
      PROVE  Safe(nm, c2, Append(s, r), p)
  <2> DEFINE t0 == Append(s, r)
             t1 == Append(t0, Component["r"])
             t2 == Append(t1, Component["g"])
             t3 == Append(t2, Component["b"])
             t4 == Append(t3, Component["a"])
  <2>1. s \in Seq(Kinds) /\ Len(s) = 3
    BY <1>5 DEF Opened
  <2>2. r = "color" /\ r \in Kinds
    BY Made DEF Results
  <2>3. /\ Component["r"] \in Kinds /\ Component["g"] \in Kinds /\ Component["b"] \in Kinds
        /\ Component["a"] \in Kinds /\ "r" \in DOMAIN Component /\ "g" \in DOMAIN Component
        /\ "b" \in DOMAIN Component /\ "a" \in DOMAIN Component
    BY Shades
  <2>4. t0 \in Seq(Kinds) /\ Len(t0) = Len(s) + 1 /\ Has(t0, -1, "color")
    BY <2>1, <2>2, Grown
  <2> HIDE DEF t0
  <2>5. t1 \in Seq(Kinds) /\ Len(t1) = Len(t0) + 1 /\ Has(t1, -2, "color")
    BY <2>3, <2>4, Grown
  <2> HIDE DEF t1
  <2>6. t2 \in Seq(Kinds) /\ Len(t2) = Len(t1) + 1 /\ Has(t2, -3, "color")
    BY <2>3, <2>5, Grown
  <2> HIDE DEF t2
  <2>7. t3 \in Seq(Kinds) /\ Len(t3) = Len(t2) + 1 /\ Has(t3, -4, "color")
    BY <2>3, <2>6, Grown
  <2> HIDE DEF t3
  <2>8. t4 \in Seq(Kinds) /\ Len(t4) = Len(t3) + 1
    BY <2>3, <2>7, Grown
  <2> HIDE DEF t4
  <2>9. 8 = Len(t4) /\ 8 \in Nat
    BY <2>1, <2>4, <2>5, <2>6, <2>7, <2>8
  <2>10. Safe(nm, c6, t4, p)
    BY <2>8, <2>9, PopAllRule, Zenon
  <2> HIDE DEF c6
  <2>11. -2 + 1 = -1 /\ -3 + 1 = -2 /\ -4 + 1 = -3 /\ -5 + 1 = -4 /\ -2 \in Int /\ -3 \in Int
         /\ -4 \in Int /\ -5 \in Int
    OBVIOUS
  <2>12. Has(t0, -2 + 1, "color") /\ Has(t1, -3 + 1, "color") /\ Has(t2, -4 + 1, "color")
         /\ Has(t3, -5 + 1, "color")
    BY <2>4, <2>5, <2>6, <2>7, <2>11
  <2>13. Safe(nm, c5, t3, p)
    BY <2>3, <2>7, <2>10, <2>11, <2>12, ShadeRule, Zenon DEF t4
  <2> HIDE DEF c5
  <2>14. Safe(nm, c4, t2, p)
    BY <2>3, <2>6, <2>11, <2>12, <2>13, ShadeRule, Zenon DEF t3
  <2> HIDE DEF c4
  <2>15. Safe(nm, c3, t1, p)
    BY <2>3, <2>5, <2>11, <2>12, <2>14, ShadeRule, Zenon DEF t2
  <2> HIDE DEF c3
  <2>16. Safe(nm, c2, t0, p)
    BY <2>3, <2>4, <2>11, <2>12, <2>15, ShadeRule, Zenon DEF t1
  <2> HIDE DEF c2
  <2> QED
    BY <2>16 DEF t0
<1> HIDE DEF c6
<1>6. c5 \in Seq(NativeInstr)
  BY <1>1, <1>4
<1> HIDE DEF c5
<1>7. c4 \in Seq(NativeInstr)
  BY <1>1, <1>6
<1> HIDE DEF c4
<1>8. c3 \in Seq(NativeInstr)
  BY <1>1, <1>7
<1> HIDE DEF c3
<1>9. c2 \in Seq(NativeInstr)
  BY <1>1, <1>8
<1> HIDE DEF c2
<1>10. c2 \in Codes(nm)
  BY <1>9, NativeSequences
<1>11. c1 \in Codes(nm)
  BY <1>3, <1>10, CodesConcat
<1>12. ASSUME NEW e \in Valid, NEW s, Opened(s, e) PROVE Safe(nm, c1, s, p)
  <2>1. s \in Seq(Kinds) /\ Has(s, -2, e)
    BY <1>12 DEF Opened
  <2>2. e \in On("GetColor")
    BY DEF On
  <2>3. \A r \in Results("GetColor", <<e>>) : Safe(nm, c2, Append(s, r), p)
    BY <1>5, <1>12
  <2> QED
    BY <1>2, <1>10, <2>1, <2>2, <2>3, MethodRule, Zenon
<1> HIDE DEF c1
<1>13. Safe(nm, Checked("index") \o c1, <<>>, p)
  BY <1>11, <1>12, OpenedRule, Indices
<1>14. Safe(nm, Checked("index") \o Ask(-2, "GetColor") \o Shade(-2, "r") \o Shade(-3, "g")
                  \o Shade(-4, "b") \o Shade(-5, "a") \o c6, <<>>, p)
  BY <1>1, <1>3, <1>4, <1>13, Parts7, Zenon DEF c1, c2, c3, c4, c5
<1> QED
  BY <1>14, Zenon DEF entity_get_color, c6

-----------------------------------------------------------------------------
(* Programs of any length *)

LEMMA Suffix ==
  ASSUME NEW S, NEW P \in Seq(S), NEW j \in 0 .. Len(P) - 1
  PROVE  /\ SubSeq(P, j + 1, Len(P)) \in Seq(S) /\ SubSeq(P, j + 1, Len(P)) # <<>>
         /\ Head(SubSeq(P, j + 1, Len(P))) = P[j + 1]
         /\ Tail(SubSeq(P, j + 1, Len(P))) = SubSeq(P, (j + 1) + 1, Len(P))
<1> DEFINE a == SubSeq(P, j + 1, Len(P))
           b == SubSeq(P, (j + 1) + 1, Len(P))
<1>1. a \in Seq(S) /\ Len(a) = Len(P) - j /\ \A i \in 1 .. Len(a) : a[i] = P[i + j]
  OBVIOUS
<1>2. b \in Seq(S) /\ Len(b) = Len(P) - j - 1 /\ \A i \in 1 .. Len(b) : b[i] = P[i + j + 1]
  OBVIOUS
<1> HIDE DEF a, b
<1>3. a # <<>> /\ Head(a) = P[j + 1]
  BY <1>1
<1>4. Tail(a) \in Seq(S) /\ Len(Tail(a)) = Len(b)
  BY <1>1, <1>2, <1>3
<1>5. \A i \in 1 .. Len(b) : Tail(a)[i] = b[i]
  BY <1>1, <1>2, <1>3
<1>6. Tail(a) = b
  BY <1>2, <1>4, <1>5, SeqEqual
<1> QED
  BY <1>1, <1>3, <1>6 DEF a, b

LEMMA WholeSuffix ==
  ASSUME NEW S, NEW P \in Seq(S)
  PROVE  SubSeq(P, 0 + 1, Len(P)) = P
<1> DEFINE a == SubSeq(P, 0 + 1, Len(P))
<1>1. a \in Seq(S) /\ Len(a) = Len(P) /\ \A i \in 1 .. Len(P) : a[i] = P[i]
  OBVIOUS
<1> HIDE DEF a
<1>2. a = P
  BY <1>1, SeqEqual
<1> QED
  BY <1>2 DEF a

LEMMA SecondPart ==
  ASSUME NEW S, NEW a \in Seq(S), NEW b \in Seq(S), NEW m \in Nat, m = Len(a)
  PROVE  /\ a \o b \in Seq(S) /\ m <= Len(a \o b) /\ SubSeq(a \o b, m + 1, Len(a \o b)) = b
         /\ \A i \in 1 .. m : (a \o b)[i] = a[i]
<1> DEFINE c == a \o b
<1>1. /\ c \in Seq(S) /\ Len(c) = Len(a) + Len(b) /\ \A i \in 1 .. Len(a) : c[i] = a[i]
      /\ \A i \in 1 .. Len(b) : c[Len(a) + i] = b[i]
  OBVIOUS
<1> HIDE DEF c
<1> DEFINE q == SubSeq(c, m + 1, Len(c))
<1>2. q \in Seq(S) /\ Len(q) = Len(b) /\ \A i \in 1 .. Len(b) : q[i] = b[i]
  BY <1>1
<1> HIDE DEF q
<1>3. q = b
  BY <1>2, SeqEqual
<1>4. m <= Len(c)
  BY <1>1
<1> QED
  BY <1>1, <1>3, <1>4 DEF c, q

(* What happens at each of the first m instructions of P, where T[j] are    *)
(* the values there can be after j of them.                                 *)
Walked(nm, P, T, j, p) ==
  \A t \in T[j] :
    /\ t \in Seq(Kinds) /\ (Legal(P[j + 1], t, p) \/ Excused(nm, P[j + 1], t))
    /\ Legal(P[j + 1], t, p) =>
         /\ \A u \in Kept(P[j + 1], t) : u \in T[j + 1]
         /\ Left(P[j + 1], t) = {} /\ Passes(P[j + 1], t, p) = {p}

LEMMA WalkRule ==
  ASSUME NEW nm \in Names, nm # "JS_EmitEvent", NEW p \in PassedType, NEW P \in Codes(nm), NEW T,
         NEW m \in Nat, m <= Len(P), \A j \in 0 .. m - 1 : Walked(nm, P, T, j, p),
         \A t \in T[m] : Safe(nm, SubSeq(P, m + 1, Len(P)), t, p)
  PROVE  \A t \in T[0] : Safe(nm, P, t, p)
<1> DEFINE c(j) == SubSeq(P, j + 1, Len(P))
           I == {x \in Confs : \E j \in 0 .. m : \E t \in T[j] : x = <<nm, c(j), t, p>>}
<1>1. P \in Seq(Instr) /\ (nm \in DOMAIN Natives => P \in Seq(NativeInstr)) /\ Len(P) \in Nat
  <2>1. P \in Seq(Instr) /\ (nm \in DOMAIN Natives => P \in Seq(NativeInstr))
    BY CodesAreSequences, Zenon DEF Codes
  <2> QED
    BY <2>1
<1>2. ASSUME NEW j \in 0 .. m - 1
      PROVE  /\ c(j) \in Codes(nm) /\ c(j) \in Seq(Instr) /\ c(j) # <<>> /\ Head(c(j)) = P[j + 1]
             /\ Tail(c(j)) = c(j + 1) /\ j + 1 \in 0 .. m
  <2>1. j \in 0 .. Len(P) - 1 /\ j + 1 \in 0 .. m
    BY <1>1
  <2>2. /\ c(j) \in Seq(Instr) /\ c(j) # <<>> /\ Head(c(j)) = P[j + 1] /\ Tail(c(j)) = c(j + 1)
    BY <1>1, <2>1, Suffix
  <2>3. nm \in DOMAIN Natives => c(j) \in Seq(NativeInstr)
    BY <1>1, <2>1, Suffix
  <2>4. c(j) \in Codes(nm)
    BY <2>2, <2>3 DEF Codes
  <2> QED
    BY <2>1, <2>2, <2>4
<1>3. \A t \in T[m] : Safe(nm, c(m), t, p)
  OBVIOUS
<1> HIDE DEF c
<1>4. ASSUME NEW j \in 0 .. m, NEW t \in T[j] PROVE <<nm, c(j), t, p>> \in I
  <2>1. CASE j = m
    <3>1. <<nm, c(j), t, p>> \in Confs
      BY <1>3, <2>1, SafeIsFine
    <3> QED
      BY <3>1
  <2>2. CASE j # m
    <3>1. j \in 0 .. m - 1
      BY <2>2
    <3>2. t \in Seq(Kinds)
      BY <3>1 DEF Walked
    <3>3. c(j) \in Codes(nm) /\ c(j) \in Seq(Instr)
      BY <1>2, <3>1
    <3>4. <<nm, c(j), t, p>> \in Confs
      BY <3>2, <3>3, SMT DEF Confs
    <3> QED
      BY <3>4
  <2> QED
    BY <2>1, <2>2
<1>5. ASSUME NEW n2, NEW c2, NEW s2, NEW p2, <<n2, c2, s2, p2>> \in I
      PROVE  Fine(n2, c2, s2, p2, I \cup Good)
  <2>1. PICK j \in 0 .. m : \E t \in T[j] : <<n2, c2, s2, p2>> = <<nm, c(j), t, p>>
    BY <1>5
  <2>2. PICK t \in T[j] : <<n2, c2, s2, p2>> = <<nm, c(j), t, p>>
    BY <2>1
  <2>3. n2 = nm /\ c2 = c(j) /\ s2 = t /\ p2 = p
    BY <2>2
  <2>4. CASE j = m
    <3>1. Safe(nm, c(j), t, p)
      BY <1>3, <2>4
    <3>2. Fine(nm, c(j), t, p, Good)
      BY <3>1, SafeIsFine
    <3>3. Good \subseteq I \cup Good
      OBVIOUS
    <3> HIDE DEF I
    <3> QED
      BY <2>3, <3>2, <3>3, FineMonotonic, Zenon
  <2>5. CASE j # m
    <3>1. j \in 0 .. m - 1
      BY <2>5
    <3>2. /\ c(j) # <<>> /\ Head(c(j)) = P[j + 1] /\ Tail(c(j)) = c(j + 1) /\ j + 1 \in 0 .. m
      BY <1>2, <3>1
    <3>3. /\ Legal(P[j + 1], t, p) \/ Excused(nm, P[j + 1], t)
          /\ Legal(P[j + 1], t, p) =>
               /\ \A u \in Kept(P[j + 1], t) : u \in T[j + 1]
               /\ Left(P[j + 1], t) = {} /\ Passes(P[j + 1], t, p) = {p}
      BY <3>1, Zenon DEF Walked
    <3>4. Harmless(nm, c(j), t, p)
      BY <3>2, <3>3, Zenon DEF Harmless
    <3>5. \A u \in T[j + 1] : <<nm, c(j + 1), u, p>> \in I
      BY <1>4, <3>2
    <3> HIDE DEF I
    <3>6. Legal(P[j + 1], t, p) => Follow(nm, c(j), t, p, I \cup Good)
      BY <3>2, <3>3, <3>5, Zenon DEF Follow
    <3>7. Fine(nm, c(j), t, p, I \cup Good)
      BY <3>2, <3>4, <3>6, Zenon DEF Fine
    <3> QED
      BY <2>3, <3>7, Zenon
  <2> QED
    BY <2>4, <2>5
<1>6. I \in SUBSET Confs
  OBVIOUS
<1>7. \A t \in T[0] : <<nm, c(0), t, p>> \in I
  BY <1>4
<1> HIDE DEF I
<1>8. I \subseteq Good
  BY <1>5, <1>6, Coinduction, Zenon
<1>9. c(0) = P
  BY <1>1, WholeSuffix DEF c
<1> QED
  BY <1>7, <1>8, <1>9 DEF Safe

-----------------------------------------------------------------------------
(* console.log *)

LEMMA LinesTyped ==
  ASSUME NEW n \in Nat
  PROVE  Lines(n) \in Seq(NativeInstr) /\ Len(Lines(n)) = 2 * n
<1>1. Script \in NativeInstr /\ PushText \in NativeInstr
  BY Typed
<1>2. 2 * n \in Nat
  OBVIOUS
<1> QED
  BY <1>1, <1>2 DEF Lines

(* The values when m lines have been pushed. *)
Logged(t, m) ==
  /\ t \in Seq(Kinds) /\ Len(t) = m + 5
  /\ t[1] = "glob" /\ t[2] \in Valid /\ t[3] = "true" /\ t[4] = "JSChatPrint" /\ t[5] = t[2]
  /\ \A i \in 6 .. Len(t) : t[i] = "str"

LEMMA LoggedMore ==
  ASSUME NEW t, NEW m \in Nat, Logged(t, m)
  PROVE  Logged(Append(t, "str"), m + 1)
<1>1. "str" \in Kinds
  BY KindsOfEntities
<1>2. /\ t \in Seq(Kinds) /\ Len(t) = m + 5
  BY DEF Logged
<1> DEFINE u == Append(t, "str")
<1>3. /\ u \in Seq(Kinds) /\ Len(u) = m + 6 /\ u[m + 6] = "str" /\ \A i \in 1 .. m + 5 : u[i] = t[i]
  BY <1>1, <1>2
<1> HIDE DEF u
<1>4. u[1] = "glob" /\ u[2] \in Valid /\ u[3] = "true" /\ u[4] = "JSChatPrint" /\ u[5] = u[2]
  BY <1>3 DEF Logged
<1>5. ASSUME NEW i \in 6 .. Len(u) PROVE u[i] = "str"
  <2>1. CASE i = m + 6
    BY <1>3, <2>1
  <2>2. CASE i # m + 6
    <3>1. i \in 1 .. m + 5 /\ i \in 6 .. Len(t)
      BY <1>2, <1>3, <2>2
    <3>2. t[i] = "str"
      BY <3>1 DEF Logged
    <3> QED
      BY <1>3, <3>1, <3>2
  <2> QED
    BY <2>1, <2>2
<1>6. Len(u) = (m + 1) + 5
  BY <1>3
<1>7. Logged(u, m + 1)
  BY <1>3, <1>4, <1>5, <1>6, Zenon DEF Logged
<1> QED
  BY <1>7 DEF u

LEMMA LoggedNone ==
  ASSUME NEW s \in Seq(Kinds), Len(s) = 3, s[1] = "glob", s[2] \in Valid, s[3] = "true"
  PROVE  Logged(Append(Append(s, "JSChatPrint"), s[2]), 0)
<1> DEFINE t == Append(s, "JSChatPrint")
           u == Append(t, s[2])
<1>1. "JSChatPrint" \in Kinds /\ s[2] \in Kinds
  BY FunctionKinds, KindsOfEntities DEF Functions, AnyEnt, Valid
<1>0. /\ t \in Seq(Kinds) /\ Len(t) = Len(s) + 1 /\ t[Len(s) + 1] = "JSChatPrint"
      /\ \A j \in 1 .. Len(s) : t[j] = s[j]
  BY <1>1, Appended
<1> HIDE DEF t
<1>2. /\ t \in Seq(Kinds) /\ Len(t) = 4 /\ t[1] = s[1] /\ t[2] = s[2] /\ t[3] = s[3]
      /\ t[4] = "JSChatPrint"
  BY <1>0
<1>3. /\ u \in Seq(Kinds) /\ Len(u) = Len(t) + 1 /\ u[Len(t) + 1] = s[2]
      /\ \A j \in 1 .. Len(t) : u[j] = t[j]
  BY <1>1, <1>2, Appended
<1> HIDE DEF u
<1>4. Logged(u, 0)
  BY <1>2, <1>3 DEF Logged
<1> QED
  BY <1>4 DEF t, u

LEMMA LoggedAll ==
  ASSUME NEW t, NEW n \in Nat, Logged(t, n), t[2] = "player"
  PROVE  /\ n + 1 < Len(t) /\ At(t, -((n + 1) + 1)) = "JSChatPrint"
         /\ Accepts("JSChatPrint", Args(t, n + 1))
         /\ Under(t, (n + 1) + 1) \in Seq(Kinds) /\ Len(Under(t, (n + 1) + 1)) = 3
<1>1. t \in Seq(Kinds) /\ Len(t) = n + 5 /\ t[4] = "JSChatPrint" /\ t[5] = "player"
  BY DEF Logged
<1>2. At(t, -((n + 1) + 1)) = "JSChatPrint"
  BY <1>1 DEF At, Slot
<1> DEFINE a == Args(t, n + 1)
<1>3. a \in Seq(Kinds) /\ Len(a) = n + 1 /\ \A i \in 1 .. n + 1 : a[i] = t[i + 4]
  BY <1>1 DEF Args
<1> HIDE DEF a
<1>4. On("JSChatPrint") = {"glob"}
  BY DEF On
<1>5. Params("JSChatPrint", n + 1) = [i \in 1 .. n + 1 |-> IF i = 1 THEN {"player"} ELSE {"str"}]
  BY DEF Params
<1>6. ASSUME NEW i \in 1 .. n + 1 PROVE a[i] \in Params("JSChatPrint", n + 1)[i]
  <2>1. CASE i = 1
    BY <1>1, <1>3, <1>5, <2>1
  <2>2. CASE i # 1
    <3>1. i + 4 \in 6 .. Len(t) /\ a[i] = t[i + 4]
      BY <1>1, <1>3, <2>2
    <3>2. t[i + 4] = "str"
      BY <3>1 DEF Logged
    <3> QED
      BY <1>5, <2>2, <3>1, <3>2
  <2> QED
    BY <2>1, <2>2
<1>7. Accepts("JSChatPrint", a)
  <2>1. Len(Params("JSChatPrint", n + 1)) = n + 1 /\ DOMAIN a = 1 .. n + 1
    BY <1>3, <1>5
  <2> QED
    BY <1>3, <1>4, <1>6, <2>1 DEF Accepts
<1>8. Under(t, (n + 1) + 1) \in Seq(Kinds) /\ Len(Under(t, (n + 1) + 1)) = 3 /\ n + 1 < Len(t)
  BY <1>1 DEF Under
<1> QED
  BY <1>2, <1>7, <1>8 DEF a

(* Nothing is printed to what is not a player. *)
LEMMA LoggedNobody ==
  ASSUME NEW t, NEW n \in Nat, Logged(t, n), t[2] # "player", NEW p
  PROVE  ~Legal(Call(n + 1, 0), t, p) /\ Excused("log", Call(n + 1, 0), t)
<1>1. t \in Seq(Kinds) /\ Len(t) = n + 5 /\ t[4] = "JSChatPrint" /\ t[5] # "player"
  BY DEF Logged
<1>2. At(t, -((n + 1) + 1)) = "JSChatPrint"
  BY <1>1 DEF At, Slot
<1> DEFINE a == Args(t, n + 1)
<1>3. Len(a) = n + 1 /\ DOMAIN a = 1 .. n + 1 /\ a[1] = t[5]
  BY <1>1 DEF Args
<1> HIDE DEF a
<1>4. On("JSChatPrint") = {"glob"}
  BY DEF On
<1>5. Params("JSChatPrint", n + 1) = [i \in 1 .. n + 1 |-> IF i = 1 THEN {"player"} ELSE {"str"}]
  BY DEF Params
<1>6. 1 \in 1 .. n + 1 /\ Params("JSChatPrint", n + 1)[1] = {"player"}
  BY <1>5
<1>7. ~Accepts("JSChatPrint", a)
  BY <1>1, <1>3, <1>4, <1>6 DEF Accepts
<1>8. Legal(Call(n + 1, 0), t, p) => Accepts(At(t, -((n + 1) + 1)), a)
  BY SMT DEF Legal, Call, a
<1>9. Excused("log", Call(n + 1, 0), t)
  BY DEF Excused, Call
<1> QED
  BY <1>2, <1>7, <1>8, <1>9

(* With a line missing, what should be the function is not one. *)
LEMMA LoggedShort ==
  ASSUME NEW t, NEW n \in Nat, NEW m \in 0 .. n - 1, Logged(t, m), NEW p
  PROVE  ~Legal(Call(n + 1, 0), t, p) /\ Excused("log", Call(n + 1, 0), t)
<1>1. /\ t \in Seq(Kinds) /\ Len(t) = m + 5 /\ t[1] = "glob" /\ t[2] \in Valid /\ t[3] = "true"
  BY DEF Logged
<1> DEFINE f == At(t, -((n + 1) + 1))
<1>2. n + 1 < Len(t) => f \in {"glob", "true"} \cup Valid
  <2>1. Slot(t, -((n + 1) + 1)) = m + 4 - n
    BY <1>1 DEF Slot
  <2>2. n + 1 < Len(t) => m + 4 - n \in {1, 2, 3}
    BY <1>1
  <2> QED
    BY <1>1, <2>1, <2>2 DEF At
<1>3. ~(n + 1 < Len(t) /\ f \in Functions)
  BY <1>2 DEF Functions, Valid
<1> HIDE DEF f
<1>4. Legal(Call(n + 1, 0), t, p) => n + 1 < Len(t) /\ f \in Functions
  BY SMT DEF Legal, Call, f
<1>5. Excused("log", Call(n + 1, 0), t)
  BY <1>1 DEF Excused, Call
<1> QED
  BY <1>3, <1>4, <1>5

LEMMA ConsoleLogTail ==
  ASSUME NEW n \in Nat, NEW m \in 0 .. n, NEW t, Logged(t, m), NEW p \in PassedType, "log" \in Names
  PROVE  Safe("log", <<Call(n + 1, 0), Pop(3)>>, t, p)
<1>1. t \in Seq(Kinds) /\ n + 1 \in Nat /\ 3 \in Nat
  BY DEF Logged
<1>2. Call(n + 1, 0) \in NativeInstr /\ Pop(3) \in NativeInstr
  BY <1>1, Typed
<1>3. <<Pop(3)>> \in Seq(NativeInstr) /\ <<Call(n + 1, 0), Pop(3)>> \in Seq(NativeInstr)
  BY <1>2
<1>4. <<Pop(3)>> \in Codes("log") /\ <<Pop(3)>> \in Seq(Instr)
      /\ <<Call(n + 1, 0), Pop(3)>> \in Seq(Instr)
  BY <1>3, NativeSequences
<1>5. Safe("log", <<Call(n + 1, 0)>> \o <<Pop(3)>>, t, p)
  <2>0. CASE m = n /\ t[2] # "player"
    <3>1. ~Legal(Call(n + 1, 0), t, p) /\ Excused("log", Call(n + 1, 0), t)
      BY <2>0, LoggedNobody
    <3>2. "log" # "JS_EmitEvent"
      OBVIOUS
    <3> QED
      BY <1>1, <1>2, <1>4, <3>1, <3>2, ExcusedRule, Zenon
  <2>1. CASE m = n /\ t[2] = "player"
    <3>1. Logged(t, n) /\ t[2] = "player"
      BY <2>1
    <3>2. /\ n + 1 < Len(t) /\ At(t, -((n + 1) + 1)) = "JSChatPrint"
          /\ Accepts("JSChatPrint", Args(t, n + 1))
          /\ Under(t, (n + 1) + 1) \in Seq(Kinds) /\ Len(Under(t, (n + 1) + 1)) = 3
      BY <3>1, LoggedAll
    <3>3. "JSChatPrint" \in Functions
      BY DEF Functions
    <3>4. Safe("log", <<Pop(3)>>, Under(t, (n + 1) + 1), p)
      BY <1>1, <3>2, PopAllRule, Zenon
    <3> QED
      BY <1>1, <3>2, <3>3, <3>4, CallRule, Zenon
  <2>2. CASE m # n
    <3>1. m \in 0 .. n - 1
      BY <2>2
    <3>2. ~Legal(Call(n + 1, 0), t, p) /\ Excused("log", Call(n + 1, 0), t)
      BY <3>1, LoggedShort
    <3>3. "log" # "JS_EmitEvent"
      OBVIOUS
    <3> QED
      BY <1>1, <1>2, <1>4, <3>2, <3>3, ExcusedRule, Zenon
  <2> QED
    BY <2>0, <2>1, <2>2
<1>6. <<Call(n + 1, 0), Pop(3)>> = <<Call(n + 1, 0)>> \o <<Pop(3)>>
  <2>1. <<Call(n + 1, 0), Pop(3)>> \o <<>> = <<Call(n + 1, 0)>> \o (<<Pop(3)>> \o <<>>)
    BY <<>> \in Seq(Instr), Split2
  <2> QED
    BY <1>4, <2>1, NoRest
<1> QED
  BY <1>5, <1>6

(* Lines are pushed or not, one after another. *)
LEMMA LinesRule ==
  ASSUME NEW n \in Nat, NEW t, Logged(t, 0), NEW p \in PassedType, "log" \in Names
  PROVE  Safe("log", Lines(n) \o <<Call(n + 1, 0), Pop(3)>>, t, p)
<1> DEFINE w == <<Call(n + 1, 0), Pop(3)>>
           P == Lines(n) \o w
           T == [j \in 0 .. 2 * n |-> {u \in Seq(Kinds) : \E m \in 0 .. n : 2 * m <= j /\ Logged(u, m)}]
<1>1. w \in Seq(NativeInstr) /\ Lines(n) \in Seq(NativeInstr) /\ Len(Lines(n)) = 2 * n /\ 2 * n \in Nat
  <2>1. Call(n + 1, 0) \in NativeInstr /\ Pop(3) \in NativeInstr
    BY Typed
  <2>2. w \in Seq(NativeInstr) /\ 2 * n \in Nat
    BY <2>1
  <2> HIDE DEF w
  <2> QED
    BY <2>2, LinesTyped, Zenon
<1>2. \A u \in T[2 * n] : Safe("log", w, u, p)
  <2> SUFFICES ASSUME NEW u \in T[2 * n] PROVE Safe("log", w, u, p)
    OBVIOUS
  <2>1. PICK m \in 0 .. n : Logged(u, m)
    OBVIOUS
  <2> QED
    BY <2>1, ConsoleLogTail
<1> HIDE DEF w
<1>3. /\ P \in Seq(NativeInstr) /\ 2 * n <= Len(P) /\ SubSeq(P, 2 * n + 1, Len(P)) = w
      /\ \A i \in 1 .. 2 * n : P[i] = Lines(n)[i]
  BY <1>1, SecondPart
<1> HIDE DEF P
<1>4. ASSUME NEW j \in 0 .. 2 * n - 1 PROVE Walked("log", P, T, j, p)
  <2> SUFFICES ASSUME NEW u \in T[j]
               PROVE  /\ u \in Seq(Kinds) /\ (Legal(P[j + 1], u, p) \/ Excused("log", P[j + 1], u))
                      /\ Legal(P[j + 1], u, p) =>
                           /\ \A v \in Kept(P[j + 1], u) : v \in T[j + 1]
                           /\ Left(P[j + 1], u) = {} /\ Passes(P[j + 1], u, p) = {p}
    BY Zenon DEF Walked
  <2>1. j + 1 \in 1 .. 2 * n /\ j \in 0 .. 2 * n /\ j + 1 \in 0 .. 2 * n
    OBVIOUS
  <2>2. P[j + 1] = IF (j + 1) % 2 = 1 THEN Script ELSE PushText
    BY <1>3, <2>1 DEF Lines
  <2>3. PICK m \in 0 .. n : 2 * m <= j /\ Logged(u, m)
    BY <2>1
  <2>4. u \in Seq(Kinds)
    BY <2>3 DEF Logged
  <2>5. u \in T[j + 1]
    BY <2>1, <2>3, <2>4
  <2>6. (j + 1) % 2 # 1 => Append(u, "str") \in T[j + 1]
    <3>1. (j + 1) % 2 # 1 => 2 * (m + 1) <= j + 1
      BY <2>3
    <3>2. (j + 1) % 2 # 1 => m + 1 \in 0 .. n
      BY <2>1, <3>1
    <3>3. Logged(Append(u, "str"), m + 1)
      BY <2>3, LoggedMore
    <3>4. Append(u, "str") \in Seq(Kinds)
      BY <3>3 DEF Logged
    <3> QED
      BY <2>1, <3>1, <3>2, <3>3, <3>4
  <2> HIDE DEF T
  <2>7. CASE (j + 1) % 2 = 1
    <3>1. P[j + 1] = Script
      BY <2>2, <2>7
    <3>2. Legal(Script, u, p) /\ Kept(Script, u) = {u} /\ Left(Script, u) = {} /\ Passes(Script, u, p) = {p}
      BY SMT DEF Legal, Kept, Left, Passes, Script
    <3> QED
      BY <2>4, <2>5, <3>1, <3>2, Zenon
  <2>8. CASE (j + 1) % 2 # 1
    <3>1. P[j + 1] = PushText
      BY <2>2, <2>8
    <3>2. /\ Legal(PushText, u, p) /\ Kept(PushText, u) = {u, Append(u, "str")}
          /\ Left(PushText, u) = {} /\ Passes(PushText, u, p) = {p}
      BY SMT DEF Legal, Kept, Left, Passes, PushText
    <3> QED
      BY <2>4, <2>5, <2>6, <2>8, <3>1, <3>2, Zenon
  <2> QED
    BY <2>7, <2>8
<1>5. t \in T[0]
  <2>1. t \in Seq(Kinds)
    BY DEF Logged
  <2> QED
    BY <1>1, <2>1
<1>6. P \in Codes("log") /\ "log" # "JS_EmitEvent"
  BY <1>3, NativeSequences
<1> HIDE DEF T
<1>7. \A u \in T[2 * n] : Safe("log", SubSeq(P, 2 * n + 1, Len(P)), u, p)
  BY <1>2, <1>3
<1>8. \A u \in T[0] : Safe("log", P, u, p)
  BY <1>1, <1>3, <1>4, <1>6, <1>7, WalkRule, Zenon
<1> QED
  BY <1>5, <1>8 DEF P, w

LEMMA ConsoleLogRule ==
  ASSUME NEW p \in PassedType, "log" \in Names, NEW c \in console_log
  PROVE  Safe("log", c, <<>>, p)
<1> DEFINE d == <<GetField(-3, "JSChatPrint"), Push(-3)>>
           w(n) == <<Call(n + 1, 0), Pop(3)>>
<1>1. PICK n \in 1 .. MaxArgs : c = Checked("ownerIndex") \o d \o Lines(n) \o w(n)
  BY Zenon DEF console_log
<1>2. n \in Nat /\ n + 1 \in Nat
  BY BridgeAssumption
<1>3. "JSChatPrint" \in Functions /\ "glob" \in On("JSChatPrint") /\ "JSChatPrint" \in Kinds
  BY FunctionKinds, KindsOfEntities DEF Functions, On, AnyEnt, Valid
<1>4. d \in Seq(NativeInstr)
  <2>1. GetField(-3, "JSChatPrint") \in NativeInstr /\ Push(-3) \in NativeInstr
    BY <1>3, Typed
  <2> QED
    BY <2>1
<1>5. w(n) \in Seq(NativeInstr)
  <2>1. Call(n + 1, 0) \in NativeInstr /\ Pop(3) \in NativeInstr
    BY <1>2, Typed
  <2> QED
    BY <2>1
<1>6. Lines(n) \in Seq(NativeInstr) /\ Checked("ownerIndex") \in Seq(NativeInstr)
  BY <1>2, LinesTyped, CheckedTyped, Indices
<1>7. \A t : Logged(t, 0) => Safe("log", Lines(n) \o w(n), t, p)
  BY <1>2, LinesRule, Zenon
<1> HIDE DEF w
<1> DEFINE r == Lines(n) \o w(n)
<1>8. r \in Seq(NativeInstr)
  BY <1>5, <1>6
<1> HIDE DEF r
<1>9. ASSUME NEW e \in EntityAt["ownerIndex"] \cap Valid, NEW s, Opened(s, e)
      PROVE  Safe("log", d \o r, s, p)
  <2> DEFINE t == Append(s, "JSChatPrint")
             u == Append(t, e)
  <2>1. s \in Seq(Kinds) /\ Len(s) = 3 /\ Has(s, -3, "glob") /\ Has(s, -2, e) /\ Has(s, -1, "true") /\ e \in Valid
    BY <1>9 DEF Opened
  <2>2. t \in Seq(Kinds) /\ Has(t, -3, e)
    BY <1>3, <2>1, Grown
  <2>3. Logged(u, 0)
    <3>1. s[1] = "glob" /\ s[2] = e /\ s[3] = "true"
      BY <2>1 DEF Has
    <3> QED
      BY <2>1, <3>1, LoggedNone
  <2> HIDE DEF t, u
  <2>4. Safe("log", r, u, p)
    BY <1>7, <2>3 DEF r
  <2>5. Safe("log", <<Push(-3)>> \o r, t, p)
    BY <2>2, <2>4, CopyRule, Zenon DEF u
  <2>6. Safe("log", <<GetField(-3, "JSChatPrint")>> \o (<<Push(-3)>> \o r), s, p)
    BY <1>3, <2>1, <2>5, FieldRule, Zenon DEF t
  <2>7. r \in Seq(Instr)
    BY <1>8, NativeSequences
  <2> QED
    BY <2>6, <2>7, InOrder2, Zenon
<1> HIDE DEF d
<1>10. d \o r \in Codes("log")
  BY <1>4, <1>8, CodesConcat, NativeSequences
<1>11. Safe("log", Checked("ownerIndex") \o (d \o r), <<>>, p)
  BY <1>9, <1>10, OpenedRule, Indices
<1>12. Safe("log", Checked("ownerIndex") \o d \o Lines(n) \o w(n), <<>>, p)
  BY <1>4, <1>5, <1>6, <1>11, Parts4, Zenon DEF r
<1> QED
  BY <1>1, <1>12

-----------------------------------------------------------------------------
(* Inputs.Change and Outputs.Change *)

LEMMA PortsTyped ==
  ASSUME NEW n \in Nat, NEW ok \in [1 .. n -> BOOLEAN]
  PROVE  Ports(n, ok) \in Seq(NativeInstr) /\ Len(Ports(n, ok)) = 3 * n
<1>1. Script \in NativeInstr /\ Value("str") \in NativeInstr /\ Strcmp \in NativeInstr
      /\ SetField(-2) \in NativeInstr
  BY Typed, KindsOfEntities
<1>2. 3 * n \in Nat /\ \A j \in 1 .. 3 * n : j % 3 = 0 \/ j % 3 = 1 \/ j % 3 = 2
  OBVIOUS
<1> QED
  BY <1>1, <1>2 DEF Ports

LEMMA PortsAt ==
  ASSUME NEW n \in Nat, NEW ok \in [1 .. n -> BOOLEAN], NEW i \in 1 .. 3 * n
  PROVE  /\ i % 3 = 1 => Ports(n, ok)[i] = Script
         /\ i % 3 = 2 => Ports(n, ok)[i] = Value("str") \/ Ports(n, ok)[i] = Strcmp
         /\ i % 3 = 0 => Ports(n, ok)[i] = SetField(-2)
  BY DEF Ports

LEMMA Modulo3 ==
  ASSUME NEW j \in Nat
  PROVE  \/ j % 3 = 0 /\ (j + 1) % 3 = 1
         \/ j % 3 = 1 /\ (j + 1) % 3 = 2
         \/ j % 3 = 2 /\ (j + 1) % 3 = 0
  OBVIOUS

ChangeNames == {"InputsChange", "OutputsChange"}

LEMMA PortsRule ==
  ASSUME NEW nm \in ChangeNames, nm \in Names, NEW n \in Nat, NEW ok \in [1 .. n -> BOOLEAN],
         NEW t \in Seq(Kinds), Has(t, -1, "table"), NEW p \in PassedType, NEW w \in Seq(NativeInstr),
         Safe(nm, w, t, p)
  PROVE  Safe(nm, Ports(n, ok) \o w, t, p)
<1> DEFINE P == Ports(n, ok) \o w
           u == Append(t, "str")
           T == [j \in 0 .. 3 * n |-> IF j % 3 = 2 THEN {u} ELSE {t}]
<1>1. Ports(n, ok) \in Seq(NativeInstr) /\ Len(Ports(n, ok)) = 3 * n /\ 3 * n \in Nat
  BY PortsTyped
<1>2. /\ P \in Seq(NativeInstr) /\ 3 * n <= Len(P) /\ SubSeq(P, 3 * n + 1, Len(P)) = w
      /\ \A i \in 1 .. 3 * n : P[i] = Ports(n, ok)[i]
  BY <1>1, SecondPart
<1> HIDE DEF P
<1>3. "str" \in Kinds
  BY KindsOfEntities
<1>4. u \in Seq(Kinds) /\ Under(u, 1) = t /\ Has(u, -2, "table")
  BY <1>3, Appended, Grown
<1>5. Mine(u, -2) /\ At(u, -2) = "table"
  BY <1>4, HasKind
<1>6. ASSUME NEW j \in 0 .. 3 * n - 1 PROVE Walked(nm, P, T, j, p)
  <2> SUFFICES ASSUME NEW z \in T[j]
               PROVE  /\ z \in Seq(Kinds) /\ (Legal(P[j + 1], z, p) \/ Excused(nm, P[j + 1], z))
                      /\ Legal(P[j + 1], z, p) =>
                           /\ \A v \in Kept(P[j + 1], z) : v \in T[j + 1]
                           /\ Left(P[j + 1], z) = {} /\ Passes(P[j + 1], z, p) = {p}
    BY Zenon DEF Walked
  <2>1. j + 1 \in 1 .. 3 * n /\ j \in 0 .. 3 * n /\ j + 1 \in 0 .. 3 * n
    OBVIOUS
  <2>0. \/ j % 3 = 0 /\ (j + 1) % 3 = 1
        \/ j % 3 = 1 /\ (j + 1) % 3 = 2
        \/ j % 3 = 2 /\ (j + 1) % 3 = 0
    BY Modulo3
  <2>2. P[j + 1] = Ports(n, ok)[j + 1]
    BY <1>2, <2>1
  <2>3. CASE j % 3 = 0
    <3>1. (j + 1) % 3 = 1
      BY <2>0, <2>3
    <3>2. P[j + 1] = Script
      BY <2>1, <2>2, <3>1, PortsAt
    <3>3. z = t /\ T[j + 1] = {t}
      BY <2>1, <2>3, <3>1
    <3>4. Legal(Script, t, p) /\ Kept(Script, t) = {t} /\ Left(Script, t) = {} /\ Passes(Script, t, p) = {p}
      BY SMT DEF Legal, Kept, Left, Passes, Script
    <3> HIDE DEF T
    <3> QED
      BY <3>2, <3>3, <3>4, Zenon
  <2>4. CASE j % 3 = 1
    <3>1. (j + 1) % 3 = 2
      BY <2>0, <2>4
    <3>2. P[j + 1] = Value("str") \/ P[j + 1] = Strcmp
      BY <2>1, <2>2, <3>1, PortsAt
    <3>3. z = t /\ T[j + 1] = {u}
      BY <2>1, <2>4, <3>1
    <3>4. /\ Kept(Value("str"), t) = {u} /\ Left(Value("str"), t) = {}
          /\ Passes(Value("str"), t, p) = {p} /\ Legal(Value("str"), t, p)
      BY SMT DEF Legal, Kept, Left, Passes, Value
    <3>5. ~Legal(Strcmp, t, p)
      BY SMT DEF Legal, Strcmp
    <3>6. Excused(nm, Strcmp, t)
      BY DEF Excused, ChangeNames
    <3> HIDE DEF T, u
    <3> QED
      BY <3>2, <3>3, <3>4, <3>5, <3>6, Zenon
  <2>5. CASE j % 3 = 2
    <3>1. (j + 1) % 3 = 0
      BY <2>0, <2>5
    <3>2. P[j + 1] = SetField(-2)
      BY <2>1, <2>2, <3>1, PortsAt
    <3>3. z = u /\ T[j + 1] = {t}
      BY <2>1, <2>5, <3>1
    <3> HIDE DEF T, u
    <3>4. /\ Kept(SetField(-2), u) = {Under(u, 1)} /\ Left(SetField(-2), u) = {}
          /\ Passes(SetField(-2), u, p) = {p}
      BY SMT DEF Kept, Left, Passes, SetField
    <3>5. Legal(SetField(-2), u, p)
      BY <1>5, SMT DEF Legal, SetField
    <3> QED
      BY <1>4, <3>2, <3>3, <3>4, <3>5, Zenon
  <2> QED
    BY <2>0, <2>3, <2>4, <2>5, Zenon
<1>7. T[0] = {t} /\ T[3 * n] = {t}
  <2>1. (3 * n) % 3 = 0 /\ 0 % 3 = 0 /\ 0 \in 0 .. 3 * n /\ 3 * n \in 0 .. 3 * n
    OBVIOUS
  <2> QED
    BY <2>1
<1>8. P \in Codes(nm) /\ nm # "JS_EmitEvent"
  BY <1>2, NativeSequences DEF ChangeNames
<1> HIDE DEF T
<1>9. \A z \in T[3 * n] : Safe(nm, SubSeq(P, 3 * n + 1, Len(P)), z, p)
  BY <1>2, <1>7
<1>10. \A z \in T[0] : Safe(nm, P, z, p)
  BY <1>1, <1>2, <1>6, <1>8, <1>9, WalkRule, Zenon
<1> QED
  BY <1>7, <1>10 DEF P

LEMMA UnderNone ==
  ASSUME NEW s \in Seq(Kinds)
  PROVE  Under(s, 0) = s
<1> DEFINE t == SubSeq(s, 1, Len(s))
<1>1. t \in Seq(Kinds) /\ Len(t) = Len(s) /\ \A j \in 1 .. Len(s) : t[j] = s[j]
  OBVIOUS
<1> HIDE DEF t
<1>2. t = s
  BY <1>1, SeqEqual
<1>3. Len(s) - 0 = Len(s)
  OBVIOUS
<1> QED
  BY <1>2, <1>3, Zenon DEF Under, t

LEMMA OpenedExit ==
  ASSUME NEW nm \in ChangeNames, NEW s, NEW e \in {"chip", "prop"}, Opened(s, e)
  PROVE  Exits(nm, Under(s, 0))
<1> DEFINE t == <<"glob", e, "true">>
<1>1. s \in Seq(Kinds) /\ Len(s) = 3 /\ s[1] = "glob" /\ s[2] = e /\ s[3] = "true"
  BY DEF Opened, Has
<1>2. Under(s, 0) \in Seq(Kinds) /\ Len(Under(s, 0)) = 3 /\ \A j \in 1 .. 3 : Under(s, 0)[j] = s[j]
  BY <1>1, UnderNone
<1>3. t \in Seq(Kinds) /\ Len(t) = 3 /\ t[1] = "glob" /\ t[2] = e /\ t[3] = "true"
  <2>1. "glob" \in Kinds /\ e \in Kinds /\ "true" \in Kinds
    BY KindsOfEntities DEF AnyEnt, Valid
  <2> QED
    BY <2>1
<1> HIDE DEF t
<1>4. \A j \in 1 .. 3 : Under(s, 0)[j] = t[j]
  BY <1>1, <1>2, <1>3
<1>5. Under(s, 0) = t
  BY <1>2, <1>3, <1>4, SeqEqual
<1> QED
  BY <1>5 DEF Exits, ChangeNames, t

LEMMA ChangeRule ==
  ASSUME NEW nm \in ChangeNames, nm \in Names, NEW p \in PassedType,
         NEW f \in {"SetInputs", "SetOutputs"}, NEW c \in Change(f)
  PROVE  Safe(nm, c, <<>>, p)
<1> DEFINE d == <<Script, Bail(0), Value("table")>>
           w == <<GetField(-3, f), Push(-4), Push(-3), Call(2, 0), Pop(4)>>
<1>1. PICK n \in 0 .. MaxArgs : \E ok \in [1 .. n -> Convertible] :
        c = Checked("entIndex") \o d \o Ports(n, ok) \o w
  BY Zenon DEF Change
<1>2. PICK ok \in [1 .. n -> Convertible] : c = Checked("entIndex") \o d \o Ports(n, ok) \o w
  BY <1>1
<1>3. n \in Nat /\ ok \in [1 .. n -> BOOLEAN]
  <2>1. Convertible \subseteq BOOLEAN
    BY DEF Convertible
  <2> QED
    BY <2>1, BridgeAssumption
<1>4. f \in Functions /\ "chip" \in On(f) /\ Accepts(f, <<"chip", "table">>)
  BY DEF Functions, On, Accepts, Params
<1>5. w \in Seq(NativeInstr)
  BY <1>4, Apply2Typed
<1>6. d \in Seq(NativeInstr)
  <2>1. Script \in NativeInstr /\ Bail(0) \in NativeInstr /\ Value("table") \in NativeInstr
    BY Typed, Made
  <2> QED
    BY <2>1
<1>7. Ports(n, ok) \in Seq(NativeInstr) /\ Checked("entIndex") \in Seq(NativeInstr)
  BY <1>3, PortsTyped, CheckedTyped, Indices
<1>8. ASSUME NEW s, NEW e \in {"chip", "prop"}, Opened(s, e) PROVE Safe(nm, w, Append(s, "table"), p)
  <2>1. CASE e = "chip"
    BY <1>4, <1>8, <2>1, HandOverRule, Made
  <2>2. CASE e = "prop"
    <3> DEFINE x == <<Push(-4), Push(-3), Call(2, 0), Pop(4)>>
               t == Append(s, "table")
    <3>1. s \in Seq(Kinds) /\ Has(s, -2, "prop")
      BY <1>8, <2>2 DEF Opened
    <3>2. t \in Seq(Kinds) /\ Has(t, -3, "prop")
      BY <3>1, Grown, Made, Zenon
    <3> HIDE DEF t
    <3>3. Push(-4) \in NativeInstr /\ Push(-3) \in NativeInstr /\ Call(2, 0) \in NativeInstr
          /\ Pop(4) \in NativeInstr
      BY Typed
    <3>4. x \in Seq(NativeInstr)
      BY <3>3
    <3>5. w = <<GetField(-3, f)>> \o x
      <4>1. GetField(-3, f) \in Instr /\ <<>> \in Seq(Instr)
        BY <1>4, Typed DEF Instr
      <4>2. w \o <<>> = <<GetField(-3, f)>> \o (x \o <<>>)
        BY <4>1, Split5
      <4>3. w \in Seq(Instr) /\ x \in Seq(Instr)
        BY <1>5, <3>4, NativeSequences
      <4> HIDE DEF x, w
      <4> QED
        BY <4>2, <4>3, NoRest
    <3> HIDE DEF x
    <3>6. x \in Codes(nm)
      BY <3>4, NativeSequences
    <3>7. nm \in {"InputsChange", "OutputsChange", "Trigger"}
          /\ f \in {"SetInputs", "SetOutputs", "OutputType", "TriggerOutput"}
      BY DEF ChangeNames
    <3>8. Safe(nm, <<GetField(-3, f)>> \o x, t, p)
      BY <3>2, <3>6, <3>7, PropRule, Zenon
    <3> QED
      BY <3>5, <3>8 DEF t
  <2> QED
    BY <1>8, <2>1, <2>2
<1> HIDE DEF w
<1> DEFINE r == Ports(n, ok) \o w
<1>9. r \in Seq(NativeInstr)
  BY <1>5, <1>7
<1>10. ASSUME NEW e \in EntityAt["entIndex"] \cap Valid, NEW s, Opened(s, e)
      PROVE  Safe(nm, d \o r, s, p)
  <2> DEFINE t == Append(s, "table")
  <2>1. Opened(s, e) /\ e \in {"chip", "prop"}
    BY <1>10, Indices
  <2>2. s \in Seq(Kinds)
    BY <2>1 DEF Opened
  <2>3. t \in Seq(Kinds) /\ Has(t, -1, "table")
    BY <2>2, Grown, Made
  <2>4. Safe(nm, w, t, p)
    BY <1>8, <2>1
  <2> HIDE DEF t
  <2>5. Safe(nm, r, t, p)
    BY <1>3, <1>5, <2>3, <2>4, PortsRule, Zenon
  <2> HIDE DEF r
  <2>6. Safe(nm, <<Value("table")>> \o r, s, p)
    BY <2>2, <2>5, ValueRule, Made, Zenon DEF t
  <2>7. Safe(nm, <<>>, Under(s, 0), p)
    <3>1. Under(s, 0) \in Seq(Kinds)
      BY <2>2 DEF Under
    <3> QED
      BY <2>1, <3>1, OpenedExit, ExitRule
  <2>8. 0 \in Nat /\ 0 <= Len(s)
    BY <2>2
  <2>9. Safe(nm, <<Bail(0)>> \o (<<Value("table")>> \o r), s, p)
    BY <2>2, <2>6, <2>7, <2>8, BailRule, Zenon
  <2>10. nm # "JS_EmitEvent"
    BY DEF ChangeNames
  <2>11. Safe(nm, <<Script>> \o (<<Bail(0)>> \o (<<Value("table")>> \o r)), s, p)
    BY <2>2, <2>9, <2>10, ScriptRule, Zenon
  <2>12. r \in Seq(Instr)
    BY <1>9, NativeSequences
  <2> QED
    BY <2>11, <2>12, InOrder3, Zenon
<1> HIDE DEF r, d
<1>11. d \o r \in Codes(nm)
  BY <1>6, <1>9, CodesConcat, NativeSequences
<1>12. Safe(nm, Checked("entIndex") \o (d \o r), <<>>, p)
  BY <1>10, <1>11, OpenedRule, Indices
<1>13. Safe(nm, Checked("entIndex") \o d \o Ports(n, ok) \o w, <<>>, p)
  BY <1>5, <1>6, <1>7, <1>12, Parts4, Zenon DEF r
<1> QED
  BY <1>2, <1>13

-----------------------------------------------------------------------------
(* Every native *)

LEMMA RootNames ==
  DOMAIN Roots = {"JS_EmitEvent", "JS_Eval", "JS_CreateContext", "open"}
  BY DEF Roots

LEMMA NativeNames ==
  DOMAIN Natives = {"log", "InputsChange", "OutputsChange", "Trigger", "GetName", "GetClass",
    "ApplyForce", "ApplyForceOffset", "IsValid", "IsValidPhysics", "GetPos", "GetMassCenter",
    "ToWorld", "ToLocal", "IsWorld", "GetColor", "GetAngles", "IsPlayer", "IsNPC", "Crouching",
    "EyeAngles", "SteamID", "Team", "Frags", "SteamID64", "AccountID", "Use", "SetColor",
    "SetAngles", "SetPos", "GetMass"}
  BY DEF Natives

LEMMA NamesApart ==
  DOMAIN Natives \cap DOMAIN Roots = {} /\ "JS_EmitEvent" \notin DOMAIN Natives
  BY NativeNames, RootNames

LEMMA TextKinds ==
  /\ Text \in SUBSET Kinds /\ {"vector"} \in SUBSET Kinds /\ {"angle"} \in SUBSET Kinds
  /\ {"num"} \in SUBSET Kinds /\ {"true", "false"} \in SUBSET Kinds /\ "str" \in Text /\ "num" \in Text
  BY KindsOfEntities, Made DEF Text

LEMMA GettersSafe ==
  ASSUME NEW nm \in Names, NEW p \in PassedType
  PROVE  /\ Safe(nm, Getter("GetName", Text), <<>>, p)
         /\ Safe(nm, Getter("GetPos", {"vector"}), <<>>, p)
         /\ Safe(nm, Getter("GetAngles", {"angle"}), <<>>, p)
         /\ Safe(nm, Getter("EyeAngles", {"angle"}), <<>>, p)
         /\ Safe(nm, Getter("GetClass", Text), <<>>, p)
<1>1. ASSUME NEW f \in {"GetName", "GetPos", "GetAngles", "EyeAngles", "GetClass"}
      PROVE  f \in Methods /\ Valid \subseteq On(f)
  BY DEF Methods, On
<1>2. /\ \A e \in Valid : Results("GetName", <<e>>) \subseteq Text
      /\ \A e \in Valid : Results("GetPos", <<e>>) \subseteq {"vector"}
      /\ \A e \in Valid : Results("GetAngles", <<e>>) \subseteq {"angle"}
      /\ \A e \in Valid : Results("EyeAngles", <<e>>) \subseteq {"angle"}
      /\ \A e \in Valid : Results("GetClass", <<e>>) \subseteq Text
  BY TextKinds DEF Results
<1>3. \A f \in Methods : \A K \in SUBSET Kinds :
        Valid \subseteq On(f) /\ (\A e \in Valid : Results(f, <<e>>) \subseteq K)
          => Safe(nm, Getter(f, K), <<>>, p)
  BY GetterRule, Zenon
<1> QED
  BY <1>1, <1>2, <1>3, TextKinds

LEMMA PlayerGettersSafe ==
  ASSUME NEW nm \in Names, NEW p \in PassedType, nm \in PlayerNames
  PROVE  /\ Safe(nm, PlayerGetter("Crouching", {"true", "false"}), <<>>, p)
         /\ Safe(nm, PlayerGetter("Team", {"num"}), <<>>, p)
         /\ Safe(nm, PlayerGetter("Frags", {"num"}), <<>>, p)
         /\ Safe(nm, PlayerGetter("SteamID", Text), <<>>, p)
         /\ Safe(nm, PlayerGetter("SteamID64", Text), <<>>, p)
         /\ Safe(nm, PlayerGetter("AccountID", Text), <<>>, p)
<1>1. ASSUME NEW f \in PlayerNames
      PROVE  f \in Methods /\ "player" \in On(f)
  BY DEF Methods, On, PlayerNames
<1>2. /\ Results("Crouching", <<"player">>) \subseteq {"true", "false"}
      /\ Results("Team", <<"player">>) \subseteq {"num"}
      /\ Results("Frags", <<"player">>) \subseteq {"num"}
      /\ Results("SteamID", <<"player">>) \subseteq Text
      /\ Results("SteamID64", <<"player">>) \subseteq Text
      /\ Results("AccountID", <<"player">>) \subseteq Text
  BY TextKinds DEF Results
<1>3. \A f \in Methods : \A K \in SUBSET Kinds :
        "player" \in On(f) /\ Results(f, <<"player">>) \subseteq K
          => Safe(nm, PlayerGetter(f, K), <<>>, p)
  BY PlayerGetterRule, Zenon
<1>4. /\ "Crouching" \in PlayerNames /\ "Team" \in PlayerNames /\ "Frags" \in PlayerNames
      /\ "SteamID" \in PlayerNames /\ "SteamID64" \in PlayerNames /\ "AccountID" \in PlayerNames
  BY DEF PlayerNames
<1> QED
  BY <1>1, <1>2, <1>3, <1>4, TextKinds

LEMMA QueriesSafe ==
  ASSUME NEW nm \in Names, NEW p \in PassedType, NEW f \in {"IsValid", "IsPlayer", "IsNPC", "IsWorld"}
  PROVE  Safe(nm, Query(f), <<>>, p)
<1>1. f \in Methods /\ AnyEnt \subseteq On(f)
  BY DEF Methods, On
<1>2. \A e \in AnyEnt : Results(f, <<e>>) \subseteq {"true", "false"}
  BY DEF Results, Answer
<1> QED
  BY <1>1, <1>2, QueryRule

LEMMA BodyGettersSafe ==
  ASSUME NEW nm \in Names, NEW p \in PassedType
  PROVE  /\ Safe(nm, BodyGetter("GetMassCenter", {"vector"}), <<>>, p)
         /\ Safe(nm, BodyGetter("GetMass", {"num"}), <<>>, p)
<1>1. /\ "GetMassCenter" \in Methods /\ "GetMass" \in Methods
      /\ "phys" \in On("GetMassCenter") /\ "phys" \in On("GetMass")
  BY DEF Methods, On
<1>2. /\ Results("GetMassCenter", <<"phys">>) \subseteq {"vector"}
      /\ Results("GetMass", <<"phys">>) \subseteq {"num"}
  BY DEF Results
<1>3. \A f \in Methods : \A K \in SUBSET Kinds :
        "phys" \in On(f) /\ Results(f, <<"phys">>) \subseteq K
          => Safe(nm, BodyGetter(f, K), <<>>, p)
  BY BodyGetterRule, Zenon
<1> QED
  BY <1>1, <1>2, <1>3, TextKinds

LEMMA SettersSafe ==
  ASSUME NEW nm \in Names, NEW p \in PassedType
  PROVE  /\ Safe(nm, Setter("SetPos", "Vector", 3), <<>>, p)
         /\ Safe(nm, Setter("SetAngles", "Angle", 3), <<>>, p)
         /\ Safe(nm, Setter("SetColor", "Color", 4), <<>>, p)
<1>1. /\ "SetPos" \in Functions /\ "SetAngles" \in Functions
      /\ Valid \subseteq On("SetPos") /\ Valid \subseteq On("SetAngles")
  BY DEF Functions, On
<1>2. /\ \A e \in Valid : Accepts("SetPos", <<e, "vector">>)
      /\ \A e \in Valid : Accepts("SetAngles", <<e, "angle">>)
  BY DEF Accepts, On, Params, Valid
<1>3. Safe(nm, Setter("SetPos", "Vector", 3), <<>>, p)
  <2>1. "Vector" \in {"Vector", "Angle"} /\ \A e \in Valid : Accepts("SetPos", <<e, IF "Vector" = "Vector" THEN "vector" ELSE "angle">>)
    BY <1>2
  <2> QED
    BY <1>1, <2>1, Make3Setter, Zenon
<1>4. Safe(nm, Setter("SetAngles", "Angle", 3), <<>>, p)
  <2>1. "Angle" \in {"Vector", "Angle"} /\ \A e \in Valid : Accepts("SetAngles", <<e, IF "Angle" = "Vector" THEN "vector" ELSE "angle">>)
    BY <1>2
  <2> QED
    BY <1>1, <2>1, Make3Setter, Zenon
<1> QED
  BY <1>3, <1>4, Make4Setter

(* Every program of every native is safe, with nothing of its own on the    *)
(* stack at first: its offsets, calls and Pop counts work on every path, up *)
(* to the faults scripts can cause, and it leaves what LeavesStack says.    *)
LEMMA NativesSafe ==
  ASSUME NEW n \in DOMAIN Natives, NEW c \in Natives[n], NEW p \in PassedType
  PROVE  Safe(n, c, <<>>, p)
<1>1. n \in Names /\ n # "JS_EmitEvent"
  BY NamesApart DEF Names
<1>2. CASE n = "log"
  BY <1>1, <1>2, ConsoleLogRule DEF Natives
<1>3. CASE n \in ChangeNames
  BY <1>1, <1>3, ChangeRule DEF Natives, ChangeNames, inputs_change, outputs_change
<1>4. CASE n = "Trigger"
  BY <1>1, <1>4, OutputsTriggerRule DEF Natives
<1>5. CASE n \in {"GetName", "GetClass", "GetPos", "GetAngles", "EyeAngles"}
  <2>1. \/ c = Getter("GetName", Text)
        \/ c = Getter("GetPos", {"vector"})
        \/ c = Getter("GetAngles", {"angle"})
        \/ c = Getter("EyeAngles", {"angle"})
        \/ c = Getter("GetClass", Text)
    <3>1. Natives[n] \in {entity_get_name, entity_get_class, entity_get_position, entity_get_angles, entity_eye_angles}
      BY <1>5 DEF Natives, PlayerNames
    <3> QED
      BY <3>1, Zenon DEF entity_get_name, entity_get_class, entity_get_position, entity_get_angles, entity_eye_angles
  <2> QED
    BY <1>1, <1>5, <2>1, GettersSafe, Zenon
<1>6. CASE n = "GetColor"
  BY <1>1, <1>6, GetColorRule DEF Natives
<1>7. CASE n \in PlayerNames
  <2>1. \/ c = PlayerGetter("Crouching", {"true", "false"})
        \/ c = PlayerGetter("Team", {"num"})
        \/ c = PlayerGetter("Frags", {"num"})
        \/ c = PlayerGetter("SteamID", Text)
        \/ c = PlayerGetter("SteamID64", Text)
        \/ c = PlayerGetter("AccountID", Text)
    <3>1. Natives[n] \in {entity_crouching, entity_team, entity_frags, entity_steamid, entity_steamid64, entity_accountid}
      BY <1>7 DEF Natives, PlayerNames
    <3> QED
      BY <3>1, Zenon DEF entity_crouching, entity_team, entity_frags, entity_steamid, entity_steamid64, entity_accountid
  <2> QED
    BY <1>1, <1>7, <2>1, PlayerGettersSafe, Zenon
<1>8. CASE n \in {"IsValid", "IsPlayer", "IsNPC", "IsWorld"}
  <2>1. Natives[n] = {Query(n)}
    BY <1>8 DEF Natives, entity_isvalid, entity_isplayer, entity_isnpc, entity_isworld
  <2> QED
    BY <1>1, <1>8, <2>1, QueriesSafe
<1>9. CASE n = "IsValidPhysics"
  <2>1. c = Physics \o <<Read({"true", "false"}), Pop(3)>>
    BY <1>9 DEF Natives, entity_isvalid_physics
  <2> QED
    BY <1>1, <1>9, <2>1, IsValidPhysicsRule, Zenon
<1>10. CASE n \in {"GetMassCenter", "GetMass"}
  <2>1. \/ c = BodyGetter("GetMassCenter", {"vector"})
        \/ c = BodyGetter("GetMass", {"num"})
    <3>1. Natives[n] \in {entity_get_masscenter, entity_get_mass}
      BY <1>10 DEF Natives, PlayerNames
    <3> QED
      BY <3>1, Zenon DEF entity_get_masscenter, entity_get_mass
  <2> QED
    BY <1>1, <1>10, <2>1, BodyGettersSafe, Zenon
<1>11. CASE n \in {"SetPos", "SetColor", "SetAngles"}
  <2>1. \/ c = Setter("SetPos", "Vector", 3)
        \/ c = Setter("SetAngles", "Angle", 3)
        \/ c = Setter("SetColor", "Color", 4)
    <3>1. Natives[n] \in {entity_set_position, entity_set_color, entity_set_angles}
      BY <1>11 DEF Natives, PlayerNames
    <3> QED
      BY <3>1, Zenon DEF entity_set_position, entity_set_color, entity_set_angles
  <2> QED
    BY <1>1, <1>11, <2>1, SettersSafe, Zenon
<1>12. CASE n \in {"ToWorld", "ToLocal"}
  <2>1. c = Transform("LocalToWorld")
    BY <1>12 DEF Natives, entity_local_to_world
  <2>2. "LocalToWorld" \in {"LocalToWorld", "WorldToLocal"}
    OBVIOUS
  <2> QED
    BY <1>1, <2>1, <2>2, TransformRule, Zenon
<1>13. CASE n = "ApplyForce"
  BY <1>1, <1>13, ApplyForceCenterRule DEF Natives
<1>14. CASE n = "ApplyForceOffset"
  BY <1>1, <1>14, ApplyForceOffsetRule DEF Natives
<1>15. CASE n = "Use"
  BY <1>1, <1>15, UseRule DEF Natives
<1> QED
  BY <1>2, <1>3, <1>4, <1>5, <1>6, <1>7, <1>8, <1>9, <1>10, <1>11, <1>12, <1>13, <1>14, <1>15,
    NativeNames DEF ChangeNames, PlayerNames

-----------------------------------------------------------------------------
(* What Lua calls *)

LEMMA RootCodes ==
  ASSUME NEW nm \in DOMAIN Roots
  PROVE  nm \in Names /\ nm \notin DOMAIN Natives /\ Codes(nm) = Seq(Instr) /\ \A s : Exits(nm, s)
  BY NamesApart DEF Names, Codes, Exits

(* An instruction of a root that has one outcome. *)
LEMMA RootRule ==
  ASSUME NEW nm \in DOMAIN Roots, NEW rest, NEW s \in Seq(Kinds), NEW p \in PassedType,
         NEW i \in Instr, NEW t, NEW q, i # Script, Legal(i, s, p),
         Kept(i, s) = {t}, Left(i, s) = {}, Passes(i, s, p) = {q}, Safe(nm, rest, t, q)
  PROVE  Safe(nm, <<i>> \o rest, s, p)
<1>1. nm \in Names /\ rest \in Codes(nm)
  BY SafeTyped
<1>2. \A u \in Kept(i, s) : \A r \in Passes(i, s, p) : Safe(nm, rest, u, r)
  BY Zenon
<1>3. \A u \in Left(i, s) : Safe(nm, <<>>, u, p)
  BY Zenon
<1> QED
  BY <1>1, <1>2, <1>3, RootCodes, StepRule, Zenon

LEMMA MetaTableRule ==
  ASSUME NEW nm \in DOMAIN Roots, NEW rest, NEW s \in Seq(Kinds), NEW p \in PassedType, NEW k \in Int,
         Mine(s, k), At(s, k) \in AnyEnt, Safe(nm, rest, Append(s, "metatable"), p)
  PROVE  Safe(nm, <<MetaTable(k)>> \o rest, s, p)
<1>1. MetaTable(k) \in Instr /\ MetaTable(k) # Script
  BY SMT DEF Instr, MetaTable, Script
<1>2. Legal(MetaTable(k), s, p)
  BY SMT DEF Legal, MetaTable
<1>3. /\ Kept(MetaTable(k), s) = {Append(s, "metatable")}
      /\ Left(MetaTable(k), s) = {} /\ Passes(MetaTable(k), s, p) = {p}
  BY SMT DEF Kept, Left, Passes, MetaTable
<1> QED
  BY <1>1, <1>2, <1>3, RootRule, Zenon

LEMMA PassRule ==
  ASSUME NEW nm \in DOMAIN Roots, NEW rest, NEW s \in Seq(Kinds), NEW p \in PassedType,
         NEW ks \in Seq(Int), \A j \in DOMAIN ks : Mine(s, ks[j]),
         NEW a, a = [j \in DOMAIN ks |-> At(s, ks[j])], Safe(nm, rest, s, Append(p, a))
  PROVE  Safe(nm, <<Pass(ks)>> \o rest, s, p)
<1>1. Pass(ks) \in Instr /\ Pass(ks) # Script
  BY SMT DEF Instr, Pass, Script
<1>2. Legal(Pass(ks), s, p)
  BY SMT DEF Legal, Pass
<1>3. /\ Kept(Pass(ks), s) = {s}
      /\ Left(Pass(ks), s) = {} /\ Passes(Pass(ks), s, p) = {Append(p, a)}
  BY SMT DEF Kept, Left, Passes, Pass
<1> QED
  BY <1>1, <1>2, <1>3, RootRule, Zenon

LEMMA PassEntityRule ==
  ASSUME NEW nm \in DOMAIN Roots, NEW rest, NEW s \in Seq(Kinds), NEW p \in PassedType,
         s # <<>>, At(s, -1) \in Numbers, NEW a,
         a = (IF At(s, -1) = "zero" THEN <<>> ELSE <<At(s, -1)>>), Safe(nm, rest, s, Append(p, a))
  PROVE  Safe(nm, <<PassEntity>> \o rest, s, p)
<1>1. PassEntity \in Instr /\ PassEntity # Script
  BY SMT DEF Instr, PassEntity, Script
<1>2. Legal(PassEntity, s, p)
  BY SMT DEF Legal, PassEntity
<1>3. /\ Kept(PassEntity, s) = {s}
      /\ Left(PassEntity, s) = {} /\ Passes(PassEntity, s, p) = {Append(p, a)}
  BY SMT DEF Kept, Left, Passes, PassEntity
<1> QED
  BY <1>1, <1>2, <1>3, RootRule, Zenon

LEMMA PassAlphaRule ==
  ASSUME NEW nm \in DOMAIN Roots, NEW rest \in Seq(Instr), NEW s \in Seq(Kinds), NEW p \in PassedType,
         s # <<>>, p # <<>>,
         \A a \in {At(s, -1), "255"} : Safe(nm, rest, s, Append(Front(p), Append(Last(p), a)))
  PROVE  Safe(nm, <<PassAlpha>> \o rest, s, p)
<1>1. PassAlpha \in Instr /\ PassAlpha # Script
  BY SMT DEF Instr, PassAlpha, Script
<1>2. Legal(PassAlpha, s, p)
  BY SMT DEF Legal, PassAlpha
<1>3. /\ Kept(PassAlpha, s) = {s} /\ Left(PassAlpha, s) = {}
      /\ Passes(PassAlpha, s, p) = {Append(Front(p), Append(Last(p), a)) : a \in {At(s, -1), "255"}}
  BY SMT DEF Kept, Left, Passes, PassAlpha
<1>4. nm \in Names /\ rest \in Codes(nm) /\ nm \notin DOMAIN Natives
  BY RootCodes
<1>5. \A u \in Kept(PassAlpha, s) : \A r \in Passes(PassAlpha, s, p) : Safe(nm, rest, u, r)
  BY <1>3, Zenon
<1>6. \A u \in Left(PassAlpha, s) : Safe(nm, <<>>, u, p)
  BY <1>3, Zenon
<1> QED
  BY <1>1, <1>2, <1>4, <1>5, <1>6, StepRule, Zenon

(* The listener runs once its arguments are made. *)
LEMMA ListenerRule ==
  ASSUME NEW s \in Seq(Kinds), NEW p \in PassedType, Delivered(s, p)
  PROVE  Safe("JS_EmitEvent", <<Script>>, s, p)
<1> DEFINE c == <<Script>>
<1>1. "JS_EmitEvent" \in DOMAIN Roots
  BY RootNames
<1>2. "JS_EmitEvent" \in Names /\ Codes("JS_EmitEvent") = Seq(Instr) /\ \A t : Exits("JS_EmitEvent", t)
  BY <1>1, RootCodes
<1>3. Script \in Instr
  BY Typed DEF Instr
<1>4. c \in Seq(Instr) /\ c # <<>> /\ Head(c) = Script /\ Tail(c) = <<>>
  BY <1>3
<1> HIDE DEF c
<1>5. <<"JS_EmitEvent", c, s, p>> \in Confs
  BY <1>2, <1>4, SMT DEF Confs
<1>6. /\ Legal(Script, s, p) /\ Kept(Script, s) = {s} /\ Left(Script, s) = {}
      /\ Passes(Script, s, p) = {p}
  BY SMT DEF Legal, Kept, Left, Passes, Script
<1>7. Safe("JS_EmitEvent", <<>>, s, p)
  BY <1>2, ExitRule
<1>8. Harmless("JS_EmitEvent", c, s, p)
  BY <1>4, <1>6, Zenon DEF Harmless
<1>9. Follow("JS_EmitEvent", c, s, p, Good)
  BY <1>4, <1>6, <1>7, Zenon DEF Follow, Safe
<1>10. Fine("JS_EmitEvent", c, s, p, Good)
  BY <1>8, <1>9, Zenon DEF Fine
<1>11. Safe("JS_EmitEvent", c, s, p)
  BY <1>5, <1>10, FineIsSafe
<1> QED
  BY <1>11 DEF c

(* The entity at a positive offset is asked for its index; the metatable    *)
(* stays under it.                                                          *)
LEMMA IndexOfRule ==
  ASSUME NEW nm \in DOMAIN Roots, NEW rest, NEW s \in Seq(Kinds), NEW p \in PassedType,
         NEW k \in 1 .. Len(s), NEW x \in AnyEnt, s[k] = x,
         Safe(nm, rest, Append(Append(s, "metatable"), IF x \in Valid THEN "index" ELSE "zero"), p)
  PROVE  Safe(nm, IndexOf(k) \o rest, s, p)
<1> DEFINE f  == "EntIndex"
           s1 == Append(s, "metatable")
           s2 == Append(s1, f)
           s3 == Append(s2, x)
           c3 == <<Call(1, 1)>> \o rest
           c2 == <<Push(k)>> \o c3
           c1 == <<GetField(k, f)>> \o c2
           c0 == <<MetaTable(k)>> \o c1
<1>1. f \in Functions /\ f \in Methods /\ f \in Kinds /\ "metatable" \in Kinds /\ x \in Kinds /\ x \in On(f)
  <2>1. f \in Functions /\ f \in Methods /\ "metatable" \in Kinds /\ x \in On(f)
    BY DEF Functions, Methods, Kinds, On
  <2> QED
    BY <2>1, FunctionKinds, KindsOfEntities
<1>2. Accepts(f, <<x>>)
  BY <1>1, MethodsAccept
<1>3. \A r \in Results(f, <<x>>) : r = IF x \in Valid THEN "index" ELSE "zero"
  BY DEF Results
<1> HIDE DEF f
<1>4. s1 \in Seq(Kinds) /\ Len(s1) = Len(s) + 1 /\ s1[k] = x
  BY <1>1
<1>5. s2 \in Seq(Kinds) /\ Len(s2) = Len(s) + 2 /\ s2[k] = x
  BY <1>1, <1>4
<1>6. Pushed(s3, s1, f, <<x>>, 1)
  BY <1>1, <1>4, Pushed1
<1>7. \A r \in Results(f, <<x>>) : Safe(nm, rest, Append(s1, r), p)
  BY <1>3
<1> HIDE DEF s1, s2, s3
<1>8. /\ Mine(s, k) /\ At(s, k) \in AnyEnt /\ Mine(s1, k) /\ At(s1, k) \in On(f)
      /\ Mine(s2, k) /\ At(s2, k) = x /\ k \in Int
  BY <1>1, <1>4, <1>5 DEF Mine, At, Slot
<1>9. nm \in Names /\ rest \in Codes(nm) /\ rest \in Seq(Instr)
  BY SafeTyped, CodesAreSequences
<1>10. Safe(nm, c3, s3, p)
  BY <1>1, <1>2, <1>6, <1>7, <1>9, PushedResultRule, Zenon
<1> HIDE DEF c3
<1>11. Safe(nm, c2, s2, p)
  BY <1>5, <1>8, <1>10, PushRule, Zenon DEF s3
<1> HIDE DEF c2
<1>12. Safe(nm, c1, s1, p)
  BY <1>1, <1>4, <1>8, <1>11, GetFieldRule, Zenon DEF s2
<1> HIDE DEF c1
<1>13. Safe(nm, c0, s, p)
  BY <1>8, <1>12, MetaTableRule, Zenon DEF s1
<1> HIDE DEF c0
<1>14. Safe(nm, <<MetaTable(k), GetField(k, f), Push(k), Call(1, 1)>> \o rest, s, p)
  BY <1>9, <1>13, InOrder4, Zenon DEF c0, c1, c2, c3
<1> QED
  BY <1>14, Zenon DEF IndexOf, f

(* A field of a table is pushed, and popped again. *)
LEMMA FieldAtRule ==
  ASSUME NEW nm, NEW rest, NEW s \in Seq(Kinds), NEW p, NEW k \in 1 .. Len(s),
         NEW c \in DOMAIN Component, NEW x \in {"color", "table"}, s[k] = x,
         Safe(nm, rest, Append(s, IF x = "table" THEN "nil" ELSE Component[c]), p)
  PROVE  Safe(nm, Field(k, c) \o rest, s, p)
<1> DEFINE t == Append(s, c)
           v == IF x = "table" THEN "nil" ELSE Component[c]
<1>1. c \in Kinds
  BY Shades
<1>2. t \in Seq(Kinds) /\ Len(t) = Len(s) + 1 /\ t[k] = x /\ t[Len(s) + 1] = c /\ Under(t, 1) = s
  BY <1>1, Appended
<1> HIDE DEF t
<1>3. /\ Mine(t, k) /\ At(t, k) = x /\ At(t, -1) = c /\ k \in Int
  BY <1>2 DEF Mine, At, Slot
<1>4. At(t, k) \in {"color", "table"} /\ At(t, -1) \in DOMAIN Component
  BY <1>3
<1>5. v = IF At(t, k) = "table" THEN "nil" ELSE Component[At(t, -1)]
  BY <1>3
<1>6. Safe(nm, rest, Append(Under(t, 1), v), p)
  BY <1>2
<1> HIDE DEF v
<1>7. Safe(nm, <<GetTable(k)>> \o rest, t, p)
  BY <1>2, <1>3, <1>4, <1>5, <1>6, GetTableRule
<1>8. Safe(nm, <<Value(c)>> \o (<<GetTable(k)>> \o rest), s, p)
  BY <1>1, <1>7, ValueRule, Zenon DEF t
<1>9. rest \in Seq(Instr)
  BY SafeTyped, CodesAreSequences
<1> QED
  BY <1>8, <1>9, InOrder2, Zenon DEF Field

LEMMA FieldPopRule ==
  ASSUME NEW nm, NEW rest, NEW s \in Seq(Kinds), NEW p, NEW k \in 1 .. Len(s),
         NEW c \in DOMAIN Component, NEW x \in {"color", "table"}, s[k] = x, Safe(nm, rest, s, p)
  PROVE  Safe(nm, Field(k, c) \o (<<Pop(1)>> \o rest), s, p)
<1> DEFINE v == IF x = "table" THEN "nil" ELSE Component[c]
           t == Append(s, v)
<1>1. v \in Kinds
  BY Shades DEF Kinds, Values
<1> HIDE DEF v
<1>2. t \in Seq(Kinds) /\ Len(t) = Len(s) + 1 /\ Under(t, 1) = s
  BY <1>1, Appended
<1> HIDE DEF t
<1>3. 1 \in Nat /\ 1 <= Len(t)
  BY <1>2
<1>4. Safe(nm, <<Pop(1)>> \o rest, t, p)
  BY <1>2, <1>3, PopRule, Zenon
<1> QED
  BY <1>4, FieldAtRule, Zenon DEF t, v

(* The stack of an "input" event: its value v is the fourth. *)
Sent(s, v) == s \in Seq(Kinds) /\ Len(s) >= 4 /\ s[3] = "str" /\ s[4] = v
(* Its name was made a JavaScript value. *)
Named(p) == p \in PassedType /\ Len(p) = 1 /\ p[1] = <<"str">>

LEMMA NameArrives ==
  Arrives("str", <<"str">>)
  BY DEF Arrives, Valid

LEMMA Second ==
  ASSUME NEW S, NEW q \in Seq(S), Len(q) = 1, NEW a \in S
  PROVE  /\ Append(q, a) \in Seq(S) /\ Append(q, a)[1] = q[1] /\ Append(q, a)[2] = a
         /\ DOMAIN Append(q, a) = {1, 2} /\ Append(q, a) # <<>>
  OBVIOUS

LEMMA EmitRule ==
  ASSUME NEW s, NEW v, Sent(s, v), NEW q, Named(q), NEW a \in Seq(Kinds \cup {"255"}), Arrives(v, a)
  PROVE  Append(q, a) \in PassedType /\ Safe("JS_EmitEvent", <<Script>>, s, Append(q, a))
<1> DEFINE p == Append(q, a)
<1>1. p \in PassedType /\ p[1] = <<"str">> /\ p[2] = a /\ DOMAIN p = {1, 2} /\ p # <<>>
  <2>1. q \in PassedType /\ Len(q) = 1 /\ q[1] = <<"str">>
    BY DEF Named
  <2>2. /\ Append(q, a) \in PassedType /\ Append(q, a)[1] = q[1] /\ Append(q, a)[2] = a
        /\ DOMAIN Append(q, a) = {1, 2} /\ Append(q, a) # <<>>
    <3> DEFINE T == Seq(Kinds \cup {"255"})
    <3>1. q \in Seq(T) /\ a \in T /\ PassedType = Seq(T)
      BY <2>1 DEF PassedType
    <3> HIDE DEF T
    <3> QED
      BY <2>1, <3>1, Second
  <2> QED
    BY <2>1, <2>2
<1>2. s \in Seq(Kinds) /\ Len(s) >= 4 /\ s[3] = "str" /\ s[4] = v
  BY DEF Sent
<1> HIDE DEF p
<1>3. Arrives(s[1 + 2], p[1]) /\ Arrives(s[2 + 2], p[2])
  BY <1>1, <1>2, NameArrives
<1>5. Delivered(s, p)
  BY <1>1, <1>2, <1>3 DEF Delivered
<1> QED
  BY <1>1, <1>2, <1>5, ListenerRule DEF p

LEMMA SentMore ==
  ASSUME NEW s, NEW v, Sent(s, v), NEW x \in Kinds
  PROVE  /\ Sent(Append(s, x), v) /\ Append(s, x) # <<>> /\ At(Append(s, x), -1) = x
         /\ 1 <= Len(Append(s, x)) /\ Under(Append(s, x), 1) = s
<1>1. s \in Seq(Kinds) /\ Len(s) >= 4 /\ s[3] = "str" /\ s[4] = v
  BY DEF Sent
<1>2. /\ Append(s, x) \in Seq(Kinds) /\ Len(Append(s, x)) = Len(s) + 1
      /\ \A j \in 1 .. Len(s) : Append(s, x)[j] = s[j]
      /\ Append(s, x)[Len(s) + 1] = x /\ Under(Append(s, x), 1) = s
  BY <1>1, Appended
<1> DEFINE t == Append(s, x)
<1>3. /\ t \in Seq(Kinds) /\ Len(t) = Len(s) + 1
      /\ \A j \in 1 .. Len(s) : t[j] = s[j]
      /\ t[Len(s) + 1] = x /\ Under(t, 1) = s
  BY <1>2
<1> HIDE DEF t
<1>4. Sent(t, v) /\ t # <<>> /\ At(t, -1) = x /\ 1 <= Len(t)
  BY <1>1, <1>3 DEF Sent, At, Slot
<1> QED
  BY <1>3, <1>4 DEF t

LEMMA PassCodes ==
  /\ <<Script>> \in Seq(Instr) /\ PassEntity \in Instr /\ PassAlpha \in Instr
  /\ \A ks \in Seq(Int) : Pass(ks) \in Instr
  /\ \A n \in Nat : Pop(n) \in Instr
  BY Typed DEF Instr

(* The values passed on as they are, and those no argument is made of. *)
LEMMA PlainConvertRule ==
  ASSUME NEW s, NEW v \in {"true", "num", "str", "vector", "angle"}, Sent(s, v), NEW q, Named(q)
  PROVE  Safe("JS_EmitEvent", <<Pass(<<4>>)>> \o <<Script>>, s, q)
<1> DEFINE ks == <<4>>
           a  == [j \in DOMAIN ks |-> At(s, ks[j])]
<1>1. s \in Seq(Kinds) /\ Len(s) >= 4 /\ s[4] = v /\ q \in PassedType
  BY DEF Sent, Named
<1>2. v \in Kinds
  BY DEF Kinds, Values
<1>3. ks \in Seq(Int) /\ DOMAIN ks = {1} /\ ks[1] = 4
  OBVIOUS
<1>4. Mine(s, 4) /\ At(s, 4) = v
  BY <1>1 DEF Mine, At, Slot
<1>5. \A j \in DOMAIN ks : Mine(s, ks[j])
  BY <1>3, <1>4
<1>6. a = <<v>>
  BY <1>3, <1>4
<1>7. a \in Seq(Kinds \cup {"255"})
  BY <1>2, <1>6
<1>8. Arrives(v, <<v>>)
  BY DEF Arrives, Valid
<1>9. Arrives(v, a)
  BY <1>6, <1>8
<1>10. a = [j \in DOMAIN ks |-> At(s, ks[j])]
  OBVIOUS
<1> HIDE DEF a
<1>11. Safe("JS_EmitEvent", <<Script>>, s, Append(q, a))
  BY <1>7, <1>9, EmitRule, Zenon
<1>12. "JS_EmitEvent" \in DOMAIN Roots
  BY RootNames
<1> HIDE DEF ks
<1>13. Safe("JS_EmitEvent", <<Pass(ks)>> \o <<Script>>, s, q)
  BY <1>1, <1>3, <1>5, <1>10, <1>11, <1>12, PassRule, Zenon
<1> QED
  BY <1>13, Zenon DEF ks

LEMMA NullConvertRule ==
  ASSUME NEW s, NEW v \in {"nil", "phys", "table"}, Sent(s, v), NEW q, Named(q)
  PROVE  Safe("JS_EmitEvent", <<Pass(<<>>)>> \o <<Script>>, s, q)
<1> DEFINE ks == <<>>
           a  == [j \in DOMAIN ks |-> At(s, ks[j])]
<1>1. s \in Seq(Kinds) /\ q \in PassedType
  BY DEF Sent, Named
<1>3. ks \in Seq(Int) /\ DOMAIN ks = {}
  OBVIOUS
<1>5. \A j \in DOMAIN ks : Mine(s, ks[j])
  BY <1>3
<1>6. a = <<>>
  BY <1>3
<1>7. a \in Seq(Kinds \cup {"255"})
  BY <1>6
<1>8. Arrives(v, <<>>)
  BY DEF Arrives, Valid
<1>9. Arrives(v, a)
  BY <1>6, <1>8
<1>10. a = [j \in DOMAIN ks |-> At(s, ks[j])]
  OBVIOUS
<1> HIDE DEF a
<1>11. Safe("JS_EmitEvent", <<Script>>, s, Append(q, a))
  BY <1>7, <1>9, EmitRule, Zenon
<1>12. "JS_EmitEvent" \in DOMAIN Roots
  BY RootNames
<1> HIDE DEF ks
<1>13. Safe("JS_EmitEvent", <<Pass(ks)>> \o <<Script>>, s, q)
  BY <1>1, <1>3, <1>5, <1>10, <1>11, <1>12, PassRule, Zenon
<1> QED
  BY <1>13, Zenon DEF ks

LEMMA EntityConvertRule ==
  ASSUME NEW s, NEW v \in AnyEnt, Sent(s, v), NEW q, Named(q)
  PROVE  Safe("JS_EmitEvent", (IndexOf(4) \o <<PassEntity, Pop(1)>>) \o <<Script>>, s, q)
<1> DEFINE i == IF v \in Valid THEN "index" ELSE "zero"
           t == Append(s, "metatable")
           u == Append(t, i)
           a == IF i = "zero" THEN <<>> ELSE <<i>>
           r == <<Pop(1)>> \o <<Script>>
<1>1. i \in Kinds /\ "metatable" \in Kinds /\ i \in Numbers
  BY DEF Kinds, Outputs, Numbers
<1>2. a \in Seq(Kinds \cup {"255"})
  <2>1. <<>> \in Seq(Kinds \cup {"255"}) /\ <<i>> \in Seq(Kinds \cup {"255"})
    BY <1>1
  <2> QED
    BY <2>1
<1>3. Arrives(v, a)
  BY DEF Arrives, AnyEnt, Valid
<1> HIDE DEF i
<1>4. Sent(t, v)
  BY <1>1, SentMore
<1> HIDE DEF t
<1>5. Sent(u, v) /\ u # <<>> /\ At(u, -1) = i /\ 1 <= Len(u) /\ Under(u, 1) = t
  BY <1>1, <1>4, SentMore
<1>6. a = IF At(u, -1) = "zero" THEN <<>> ELSE <<At(u, -1)>>
  BY <1>5
<1> HIDE DEF u, a
<1>7. Append(q, a) \in PassedType /\ Safe("JS_EmitEvent", <<Script>>, t, Append(q, a))
  BY <1>2, <1>3, <1>4, EmitRule, Zenon
<1>8. /\ u \in Seq(Kinds) /\ s \in Seq(Kinds) /\ 4 \in 1 .. Len(s) /\ s[4] = v /\ q \in PassedType
      /\ 1 \in Nat /\ At(u, -1) \in Numbers
  BY <1>1, <1>5 DEF Sent, Named
<1>9. Safe("JS_EmitEvent", r, u, Append(q, a))
  BY <1>5, <1>7, <1>8, PopRule, Zenon
<1>10. "JS_EmitEvent" \in DOMAIN Roots
  BY RootNames
<1> HIDE DEF r
<1>11. Safe("JS_EmitEvent", <<PassEntity>> \o r, u, q)
  BY <1>5, <1>6, <1>8, <1>9, <1>10, PassEntityRule, Zenon
<1>12. Safe("JS_EmitEvent", <<PassEntity, Pop(1)>> \o <<Script>>, u, q)
  BY <1>11, PassCodes, InOrder2, Zenon DEF r
<1>13. Safe("JS_EmitEvent", IndexOf(4) \o (<<PassEntity, Pop(1)>> \o <<Script>>), s, q)
  BY <1>8, <1>10, <1>12, IndexOfRule, Zenon DEF u, t, i
<1>14. IndexOf(4) \in Seq(Instr)
  <2>1. "EntIndex" \in Functions
    BY DEF Functions
  <2>2. MetaTable(4) \in Instr /\ GetField(4, "EntIndex") \in Instr /\ Push(4) \in Instr /\ Call(1, 1) \in Instr
    BY <2>1, Typed DEF Instr, MetaTable
  <2> QED
    BY <2>2 DEF IndexOf
<1>15. <<PassEntity, Pop(1)>> \in Seq(Instr)
  BY PassCodes
<1> QED
  BY <1>13, <1>14, <1>15, PassCodes, InParts, Zenon

LEMMA FieldTyped ==
  ASSUME NEW k \in Int, NEW c \in DOMAIN Component
  PROVE  Field(k, c) \in Seq(Instr)
<1>1. Value(c) \in Instr /\ GetTable(k) \in Instr
  BY Typed, Shades DEF Instr
<1> QED
  BY <1>1 DEF Field

LEMMA Parts8 ==
  ASSUME NEW nm, NEW s, NEW p, NEW a \in Seq(Instr), NEW b \in Seq(Instr), NEW c \in Seq(Instr),
         NEW d \in Seq(Instr), NEW e \in Seq(Instr), NEW f \in Seq(Instr), NEW g \in Seq(Instr),
         NEW r \in Seq(Instr), Safe(nm, a \o (b \o (c \o (d \o (e \o (f \o (g \o r)))))), s, p)
  PROVE  Safe(nm, (a \o b \o c \o d \o e \o f \o g) \o r, s, p)
<1> DEFINE a2 == a \o b
           a3 == a2 \o c
           a4 == a3 \o d
           a5 == a4 \o e
           a6 == a5 \o f
           r6 == g \o r
           r5 == f \o r6
           r4 == e \o r5
           r3 == d \o r4
           r2 == c \o r3
<1>1. a2 \in Seq(Instr)
  BY InPartsTyped
<1>2. r6 \in Seq(Instr)
  BY InPartsTyped
<1> HIDE DEF a2, r6
<1>3. a3 \in Seq(Instr)
  BY <1>1, InPartsTyped
<1>4. r5 \in Seq(Instr)
  BY <1>2, InPartsTyped
<1> HIDE DEF a3, r5
<1>5. a4 \in Seq(Instr)
  BY <1>3, InPartsTyped
<1>6. r4 \in Seq(Instr)
  BY <1>4, InPartsTyped
<1> HIDE DEF a4, r4
<1>7. a5 \in Seq(Instr)
  BY <1>5, InPartsTyped
<1>8. r3 \in Seq(Instr)
  BY <1>6, InPartsTyped
<1> HIDE DEF a5, r3
<1>9. r2 \in Seq(Instr)
  BY <1>8, InPartsTyped
<1>10. a6 \in Seq(Instr)
  BY <1>7, InPartsTyped
<1> HIDE DEF r2, a6
<1>11. Safe(nm, a \o (b \o r2), s, p)
  BY Zenon DEF r2, r3, r4, r5, r6
<1>12. Safe(nm, a2 \o r2, s, p)
  BY <1>9, <1>11, InParts, Zenon DEF a2
<1>13. Safe(nm, a3 \o r3, s, p)
  BY <1>1, <1>8, <1>12, InParts, Zenon DEF a3, r2
<1>14. Safe(nm, a4 \o r4, s, p)
  BY <1>3, <1>6, <1>13, InParts, Zenon DEF a4, r3
<1>15. Safe(nm, a5 \o r5, s, p)
  BY <1>5, <1>4, <1>14, InParts, Zenon DEF a5, r4
<1>16. Safe(nm, a6 \o r6, s, p)
  BY <1>7, <1>2, <1>15, InParts, Zenon DEF a6, r5
<1>17. Safe(nm, (a6 \o g) \o r, s, p)
  BY <1>10, <1>16, InParts, Zenon DEF r6
<1> QED
  BY <1>17, Zenon DEF a6, a5, a4, a3, a2

(* The r, g and b of a table are looked at, and popped again. *)
LEMMA ThreeFieldsRule ==
  ASSUME NEW nm, NEW s \in Seq(Kinds), NEW p, NEW k \in 1 .. Len(s), NEW x \in {"color", "table"},
         s[k] = x, NEW c \in Seq(Instr), NEW rest \in Seq(Instr), Safe(nm, c \o rest, s, p)
  PROVE  Safe(nm, (Field(k, "r") \o <<Pop(1)>> \o Field(k, "g") \o <<Pop(1)>> \o Field(k, "b")
                     \o <<Pop(1)>> \o c) \o rest, s, p)
<1> DEFINE c1 == c \o rest
           c2 == Field(k, "b") \o (<<Pop(1)>> \o c1)
           c3 == Field(k, "g") \o (<<Pop(1)>> \o c2)
           c4 == Field(k, "r") \o (<<Pop(1)>> \o c3)
<1>1. "r" \in DOMAIN Component /\ "g" \in DOMAIN Component /\ "b" \in DOMAIN Component
  BY Shades
<1> HIDE DEF c1
<1>2. Safe(nm, c2, s, p)
  BY <1>1, FieldPopRule, Zenon DEF c1
<1> HIDE DEF c2
<1>3. Safe(nm, c3, s, p)
  BY <1>1, <1>2, FieldPopRule, Zenon
<1> HIDE DEF c3
<1>4. Safe(nm, c4, s, p)
  BY <1>1, <1>3, FieldPopRule, Zenon
<1> HIDE DEF c4
<1>5. k \in Int
  OBVIOUS
<1>6. Field(k, "r") \in Seq(Instr) /\ Field(k, "g") \in Seq(Instr) /\ Field(k, "b") \in Seq(Instr)
  BY <1>1, <1>5, FieldTyped
<1>7. <<Pop(1)>> \in Seq(Instr)
  BY PassCodes
<1> QED
  BY <1>4, <1>6, <1>7, Parts8, Zenon DEF c1, c2, c3, c4

LEMMA TableConvertRule ==
  ASSUME NEW s, Sent(s, "table"), NEW q, Named(q)
  PROVE  Safe("JS_EmitEvent", (Field(4, "r") \o <<Pop(1)>> \o Field(4, "g") \o <<Pop(1)>> \o Field(4, "b")
                     \o <<Pop(1)>> \o <<Pass(<<>>)>>) \o <<Script>>, s, q)
<1> DEFINE x == "table"
<1>1. s \in Seq(Kinds) /\ 4 \in 1 .. Len(s) /\ s[4] = x /\ x \in {"color", "table"}
  BY DEF Sent
<1>2. Safe("JS_EmitEvent", <<Pass(<<>>)>> \o <<Script>>, s, q)
  <2>1. "table" \in {"nil", "phys", "table"}
    OBVIOUS
  <2> QED
    BY <2>1, NullConvertRule, Zenon
<1>3. <<Pass(<<>>)>> \in Seq(Instr)
  <2>1. <<>> \in Seq(Int)
    OBVIOUS
  <2>2. Pass(<<>>) \in Instr
    BY <2>1, PassCodes
  <2> QED
    BY <2>2
<1> HIDE DEF x
<1> QED
  BY <1>1, <1>2, <1>3, PassCodes, ThreeFieldsRule, Zenon

(* What a colour becomes. *)
Mixed(a) == <<"str", "str", "color", a>>

LEMMA MixedArrives ==
  ASSUME NEW a \in {"alpha", "255"}
  PROVE  Arrives("color", Mixed(a)) /\ Mixed(a) \in Seq(Kinds \cup {"255"})
<1>1. Mixed(a) \in Seq(Kinds \cup {"255"})
  <2>1. "str" \in Kinds /\ "color" \in Kinds /\ a \in Kinds \cup {"255"}
    BY DEF Kinds, Values, Component
  <2> QED
    BY <2>1 DEF Mixed
<1>2. Len(Mixed(a)) = 4 /\ Mixed(a)[1] = "str" /\ Mixed(a)[2] = "str" /\ Mixed(a)[3] = "color" /\ Mixed(a)[4] = a
  BY DEF Mixed
<1>3. /\ Component[<<"r", "g", "b">>[1]] = "red" /\ Component[<<"r", "g", "b">>[2]] = "green"
      /\ Component[<<"r", "g", "b">>[3]] = "blue"
  BY DEF Component
<1>4. \A i \in 1 .. 3 : Mixed(a)[i] # Component[<<"r", "g", "b">>[i]]
  BY <1>2, <1>3
<1>5. Arrives("color", Mixed(a))
  BY <1>2, <1>4 DEF Arrives, Valid
<1> QED
  BY <1>1, <1>5

LEMMA Tuple4 ==
  ASSUME NEW a, NEW b, NEW c, NEW d
  PROVE  Append(<<a, b, c>>, d) = <<a, b, c, d>>
<1> DEFINE T == {a, b, c, d}
<1>1. <<a, b, c>> \in Seq(T) /\ <<a, b, c, d>> \in Seq(T) /\ d \in T
  OBVIOUS
<1>2. /\ Len(<<a, b, c>>) = 3 /\ Len(<<a, b, c, d>>) = Len(<<a, b, c>>) + 1 /\ <<a, b, c, d>>[4] = d
      /\ \A j \in 1 .. Len(<<a, b, c>>) : <<a, b, c, d>>[j] = <<a, b, c>>[j]
  OBVIOUS
<1> HIDE DEF T
<1> QED
  BY <1>1, <1>2, LastAndFront

LEMMA FrontAndLast ==
  ASSUME NEW S, NEW q \in Seq(S), NEW b \in S
  PROVE  /\ Append(q, b) \in Seq(S) /\ Append(q, b) # <<>>
         /\ Last(Append(q, b)) = b /\ Front(Append(q, b)) = q
<1>1. Append(q, b) \in Seq(S) /\ Len(Append(q, b)) = Len(q) + 1 /\ Append(q, b)[Len(q) + 1] = b
  OBVIOUS
<1>2. Append(q, b) # <<>>
  <2>1. Len(<<>>) = 0 /\ Len(q) \in Nat
    OBVIOUS
  <2> QED
    BY <1>1, <2>1
<1>3. Last(Append(q, b)) = b
  BY <1>1 DEF Last
<1>4. Front(Append(q, b)) = q
  BY <1>1 DEF Front
<1> QED
  BY <1>1, <1>2, <1>3, <1>4

LEMMA Mixing ==
  ASSUME NEW q, Named(q), NEW a
  PROVE  LET p == Append(q, <<"str", "str", "color">>) IN
         Append(Front(p), Append(Last(p), a)) = Append(q, Mixed(a)) /\ p \in PassedType /\ p # <<>>
<1> DEFINE T == Seq(Kinds \cup {"255"})
           b == <<"str", "str", "color">>
           p == Append(q, b)
<1>1. b \in T
  <2>1. "str" \in Kinds \cup {"255"} /\ "color" \in Kinds \cup {"255"}
    BY DEF Kinds, Values
  <2> QED
    BY <2>1
<1>2. q \in Seq(T) /\ PassedType = Seq(T)
  BY DEF Named, PassedType
<1>3. Append(b, a) = Mixed(a)
  BY Tuple4 DEF Mixed
<1> HIDE DEF T, b
<1>4. p \in Seq(T) /\ p # <<>> /\ Last(p) = b /\ Front(p) = q
  BY <1>1, <1>2, FrontAndLast, Zenon
<1> HIDE DEF p
<1>5. Append(Front(p), Append(Last(p), a)) = Append(q, Mixed(a)) /\ p \in PassedType /\ p # <<>>
  BY <1>2, <1>3, <1>4
<1> QED
  BY <1>5, Zenon DEF p, b

LEMMA ColorParts ==
  ASSUME NEW s, Sent(s, "color"), Len(s) = 4, s[2] = "str"
  PROVE  LET ks == <<-3, -2, -1>> IN
         /\ ks \in Seq(Int)
         /\ \A j \in DOMAIN ks : Mine(s, ks[j])
         /\ [j \in DOMAIN ks |-> At(s, ks[j])] = <<"str", "str", "color">>
<1> DEFINE ks == <<-3, -2, -1>>
<1>1. ks \in Seq(Int) /\ DOMAIN ks = 1 .. 3 /\ ks[1] = -3 /\ ks[2] = -2 /\ ks[3] = -1
  OBVIOUS
<1>2. s[2] = "str" /\ s[3] = "str" /\ s[4] = "color" /\ Len(s) = 4
  BY DEF Sent
<1> HIDE DEF ks
<1>3. /\ Mine(s, -3) /\ At(s, -3) = "str" /\ Mine(s, -2) /\ At(s, -2) = "str"
      /\ Mine(s, -1) /\ At(s, -1) = "color"
  BY <1>2 DEF Mine, At, Slot
<1>4. \A j \in DOMAIN ks : Mine(s, ks[j])
  BY <1>1, <1>3
<1> DEFINE f == [j \in 1 .. 3 |-> At(s, ks[j])]
<1>5. f[1] = "str" /\ f[2] = "str" /\ f[3] = "color"
  BY <1>1, <1>3
<1>6. f = <<"str", "str", "color">>
  BY <1>5
<1>7. [j \in DOMAIN ks |-> At(s, ks[j])] = <<"str", "str", "color">>
  BY <1>1, <1>6, Zenon
<1> QED
  BY <1>1, <1>4, <1>7 DEF ks

LEMMA ColorConvertRule ==
  ASSUME NEW s, Sent(s, "color"), Len(s) = 4, s[2] = "str", NEW q, Named(q)
  PROVE  Safe("JS_EmitEvent", (Field(4, "r") \o <<Pop(1)>> \o Field(4, "g") \o <<Pop(1)>> \o Field(4, "b")
                     \o <<Pop(1)>> \o (<<Pass(<<-3, -2, -1>>)>> \o Field(4, "a") \o <<PassAlpha, Pop(1)>>))
                \o <<Script>>, s, q)
<1> DEFINE x  == "color"
           v  == "alpha"
           t  == Append(s, v)
           b  == <<"str", "str", "color">>
           p  == Append(q, b)
           ks == <<-3, -2, -1>>
           r  == <<Pop(1)>> \o <<Script>>
           c3 == <<PassAlpha, Pop(1)>> \o <<Script>>
           c2 == Field(4, "a") \o c3
           c1 == <<Pass(ks)>> \o c2
           c  == <<Pass(ks)>> \o Field(4, "a") \o <<PassAlpha, Pop(1)>>
<1>1. /\ s \in Seq(Kinds) /\ 4 \in 1 .. Len(s) /\ s[4] = x /\ x \in {"color", "table"}
      /\ q \in PassedType /\ "JS_EmitEvent" \in DOMAIN Roots
  BY RootNames DEF Sent, Named
<1>2. "a" \in DOMAIN Component /\ v = (IF x = "table" THEN "nil" ELSE Component["a"]) /\ v \in Kinds
  BY Shades DEF Component
<1>3. /\ ks \in Seq(Int) /\ (\A j \in DOMAIN ks : Mine(s, ks[j]))
      /\ b = [j \in DOMAIN ks |-> At(s, ks[j])]
  BY ColorParts
<1>4. \A a : Append(Front(p), Append(Last(p), a)) = Append(q, Mixed(a))
  BY Mixing
<1>5. p \in PassedType /\ p # <<>>
  BY Mixing
<1>6. /\ Sent(t, "color") /\ t # <<>> /\ At(t, -1) = v /\ 1 <= Len(t) /\ Under(t, 1) = s
  BY <1>2, SentMore
<1>7. t \in Seq(Kinds) /\ 1 \in Nat
  BY <1>6 DEF Sent
<1>8. \A a \in {"alpha", "255"} : Safe("JS_EmitEvent", <<Script>>, s, Append(q, Mixed(a)))
  BY MixedArrives, EmitRule
<1> HIDE DEF t, b, p, ks
<1>9. \A a \in {"alpha", "255"} : Safe("JS_EmitEvent", r, t, Append(q, Mixed(a)))
  BY <1>6, <1>7, <1>8, PopRule, Zenon
<1>10. r \in Seq(Instr)
  BY PassCodes, InPartsTyped, <<Pop(1)>> \in Seq(Instr)
<1> HIDE DEF r
<1>11. \A a \in {At(t, -1), "255"} : Safe("JS_EmitEvent", r, t, Append(Front(p), Append(Last(p), a)))
  BY <1>4, <1>6, <1>9
<1>12. Safe("JS_EmitEvent", <<PassAlpha>> \o r, t, p)
  BY <1>1, <1>5, <1>6, <1>7, <1>10, <1>11, PassAlphaRule, Zenon
<1>13. Safe("JS_EmitEvent", c3, t, p)
  BY <1>12, PassCodes, InOrder2, Zenon DEF r
<1> HIDE DEF c3, x, v
<1>14. Safe("JS_EmitEvent", c2, s, p)
  BY <1>1, <1>2, <1>13, FieldAtRule DEF t
<1> HIDE DEF c2
<1>15. Safe("JS_EmitEvent", c1, s, q)
  BY <1>1, <1>3, <1>14, PassRule, Zenon DEF p
<1>16. Pass(ks) \in Instr
  BY <1>3, PassCodes
<1>17. <<Pass(ks)>> \in Seq(Instr) /\ <<PassAlpha, Pop(1)>> \in Seq(Instr)
  BY <1>16, PassCodes
<1>18. Field(4, "a") \in Seq(Instr)
  BY <1>2, FieldTyped
<1>19. <<Pass(ks)>> \o Field(4, "a") \in Seq(Instr)
  BY <1>17, <1>18, InPartsTyped
<1>20. c \in Seq(Instr)
  BY <1>17, <1>19, InPartsTyped
<1>21. c3 \in Seq(Instr)
  BY <1>17, PassCodes, InPartsTyped DEF c3
<1>22. Safe("JS_EmitEvent", (<<Pass(ks)>> \o Field(4, "a")) \o c3, s, q)
  BY <1>15, <1>17, <1>18, <1>21, InParts, Zenon DEF c2
<1>23. Safe("JS_EmitEvent", c \o <<Script>>, s, q)
  BY <1>17, <1>19, <1>22, PassCodes, InParts, Zenon DEF c3
<1> HIDE DEF c
<1>24. Safe("JS_EmitEvent", (Field(4, "r") \o <<Pop(1)>> \o Field(4, "g") \o <<Pop(1)>> \o Field(4, "b")
                     \o <<Pop(1)>> \o c) \o <<Script>>, s, q)
  BY <1>1, <1>20, <1>23, PassCodes, ThreeFieldsRule, Zenon
<1> QED
  BY <1>24, Zenon DEF c, ks

(* What JS_EmitEvent makes of the value of an input. *)
LEMMA ConvertRule ==
  ASSUME NEW v \in Values, NEW s, Sent(s, v), Len(s) = 4, s[2] = "str", NEW q, Named(q)
  PROVE  Safe("JS_EmitEvent", Convert(4, v) \o <<Script>>, s, q)
<1>1. CASE v \in {"nil", "phys"}
  <2>1. Convert(4, v) = <<Pass(<<>>)>>
    BY <1>1, Zenon DEF Convert, AnyEnt, Valid
  <2>2. v \in {"nil", "phys", "table"}
    BY <1>1
  <2> QED
    BY <2>1, <2>2, NullConvertRule, Zenon
<1>2. CASE v \in {"true", "num", "str", "vector", "angle"}
  <2>1. Convert(4, v) = <<Pass(<<4>>)>>
    BY <1>2, Zenon DEF Convert, AnyEnt, Valid
  <2> QED
    BY <1>2, <2>1, PlainConvertRule, Zenon
<1>3. CASE v \in AnyEnt
  <2> DEFINE c == IndexOf(4) \o <<PassEntity, Pop(1)>>
  <2>1. Convert(4, v) = c
    BY <1>3, Zenon DEF Convert, AnyEnt, Valid
  <2> QED
    BY <1>3, <2>1, EntityConvertRule, Zenon
<1>4. CASE v = "table"
  <2>1. Convert(4, v) = Field(4, "r") \o <<Pop(1)>> \o Field(4, "g") \o <<Pop(1)>> \o Field(4, "b")
                     \o <<Pop(1)>> \o <<Pass(<<>>)>>
    BY <1>4, Zenon DEF Convert, AnyEnt, Valid
  <2> QED
    BY <1>4, <2>1, TableConvertRule, Zenon
<1>5. CASE v = "color"
  <2>1. Convert(4, v) = Field(4, "r") \o <<Pop(1)>> \o Field(4, "g") \o <<Pop(1)>> \o Field(4, "b")
                     \o <<Pop(1)>> \o (<<Pass(<<-3, -2, -1>>)>> \o Field(4, "a") \o <<PassAlpha, Pop(1)>>)
    BY <1>5, Zenon DEF Convert, AnyEnt, Valid
  <2> QED
    BY <1>5, <2>1, ColorConvertRule, Zenon
<1> QED
  BY <1>1, <1>2, <1>3, <1>4, <1>5 DEF Values

LEMMA IndexOfTyped ==
  ASSUME NEW k \in Int
  PROVE  IndexOf(k) \in Seq(Instr)
<1>1. "EntIndex" \in Functions
  BY DEF Functions
<1>2. MetaTable(k) \in Instr /\ GetField(k, "EntIndex") \in Instr /\ Push(k) \in Instr /\ Call(1, 1) \in Instr
  BY <1>1, Typed DEF Instr, MetaTable
<1> QED
  BY <1>2 DEF IndexOf

LEMMA ConvertTyped ==
  ASSUME NEW v \in Values
  PROVE  Convert(4, v) \in Seq(Instr)
<1>1. Pass(<<>>) \in Instr /\ Pass(<<4>>) \in Instr /\ Pass(<<-3, -2, -1>>) \in Instr
  <2>1. <<>> \in Seq(Int) /\ <<4>> \in Seq(Int) /\ <<-3, -2, -1>> \in Seq(Int)
    OBVIOUS
  <2> QED
    BY <2>1, PassCodes
<1>2. /\ <<Pass(<<>>)>> \in Seq(Instr) /\ <<Pass(<<4>>)>> \in Seq(Instr)
      /\ <<Pass(<<-3, -2, -1>>)>> \in Seq(Instr)
      /\ <<PassEntity, Pop(1)>> \in Seq(Instr) /\ <<PassAlpha, Pop(1)>> \in Seq(Instr)
      /\ <<Pop(1)>> \in Seq(Instr)
  BY <1>1, PassCodes
<1>3. CASE v \in {"nil", "phys"}
  <2>1. Convert(4, v) = <<Pass(<<>>)>>
    BY <1>3, Zenon DEF Convert, AnyEnt, Valid
  <2> QED
    BY <1>2, <2>1, Zenon
<1>4. CASE v \in {"true", "num", "str", "vector", "angle"}
  <2>1. Convert(4, v) = <<Pass(<<4>>)>>
    BY <1>4, Zenon DEF Convert, AnyEnt, Valid
  <2> QED
    BY <1>2, <2>1, Zenon
<1>5. CASE v \in AnyEnt
  <2>1. Convert(4, v) = IndexOf(4) \o <<PassEntity, Pop(1)>>
    BY <1>5, Zenon DEF Convert, AnyEnt, Valid
  <2>2. IndexOf(4) \in Seq(Instr)
    BY IndexOfTyped
  <2> QED
    BY <1>2, <2>1, <2>2, InPartsTyped, Zenon
<1>6. CASE v \in {"color", "table"}
  <2> DEFINE a == Field(4, "r")
             b == <<Pop(1)>>
             c == Field(4, "g")
             d == Field(4, "b")
             e == Field(4, "a")
             m == <<Pass(<<-3, -2, -1>>)>>
             n == <<PassAlpha, Pop(1)>>
             x == IF v = "table" THEN <<Pass(<<>>)>> ELSE m \o e \o n
  <2>1. Convert(4, v) = a \o b \o c \o b \o d \o b \o x
    BY <1>6, Zenon DEF Convert, AnyEnt, Valid
  <2>2. a \in Seq(Instr) /\ c \in Seq(Instr) /\ d \in Seq(Instr) /\ e \in Seq(Instr)
    BY Shades, FieldTyped
  <2>3. b \in Seq(Instr) /\ m \in Seq(Instr) /\ n \in Seq(Instr)
    BY <1>2
  <2> HIDE DEF a, b, c, d, e, m, n
  <2>4. m \o e \o n \in Seq(Instr)
    BY <2>2, <2>3, InPartsTyped, Zenon
  <2>5. x \in Seq(Instr)
    BY <1>2, <2>4
  <2> HIDE DEF x
  <2>6. a \o b \o c \o b \in Seq(Instr)
    BY <2>2, <2>3, InPartsTyped, Zenon
  <2>7. a \o b \o c \o b \o d \o b \o x \in Seq(Instr)
    BY <2>2, <2>3, <2>5, <2>6, InPartsTyped, Zenon
  <2> QED
    BY <2>1, <2>7, Zenon
<1> QED
  BY <1>3, <1>4, <1>5, <1>6 DEF Values

LEMMA NamePassed ==
  ASSUME NEW s, NEW v, Sent(s, v)
  PROVE  LET ks == <<3>> IN
         /\ ks \in Seq(Int)
         /\ \A j \in DOMAIN ks : Mine(s, ks[j])
         /\ [j \in DOMAIN ks |-> At(s, ks[j])] = <<"str">>
<1> DEFINE ks == <<3>>
<1>1. ks \in Seq(Int) /\ DOMAIN ks = {1} /\ ks[1] = 3
  OBVIOUS
<1>2. Mine(s, 3) /\ At(s, 3) = "str"
  BY DEF Sent, Mine, At, Slot
<1>3. \A j \in DOMAIN ks : Mine(s, ks[j])
  BY <1>1, <1>2
<1>4. [j \in DOMAIN ks |-> At(s, ks[j])] = <<"str">>
  BY <1>1, <1>2
<1> QED
  BY <1>1, <1>3, <1>4

LEMMA NamedOnly ==
  Named(Append(<<>>, <<"str">>)) /\ <<>> \in PassedType
<1>1. "str" \in Kinds \cup {"255"}
  BY DEF Kinds, Values
<1>2. <<"str">> \in Seq(Kinds \cup {"255"})
  BY <1>1
<1> DEFINE T == Seq(Kinds \cup {"255"})
           b == <<"str">>
<1>3. b \in T /\ PassedType = Seq(T)
  BY <1>2 DEF PassedType
<1> HIDE DEF T, b
<1>4. Append(<<>>, b) \in Seq(T) /\ Len(Append(<<>>, b)) = 1 /\ Append(<<>>, b)[1] = b /\ <<>> \in Seq(T)
  BY <1>3
<1> QED
  BY <1>3, <1>4 DEF Named, b

LEMMA InputSafe ==
  ASSUME NEW v \in Values
  PROVE  Safe("JS_EmitEvent", Convert(3, "str") \o Convert(4, v) \o <<Script>>,
              <<"num", "str", "str", v>>, <<>>)
<1> DEFINE s  == <<"num", "str", "str", v>>
           q  == Append(<<>>, <<"str">>)
           ks == <<3>>
           b  == <<"str">>
           c  == Convert(4, v)
<1>1. Sent(s, v) /\ Len(s) = 4 /\ s[2] = "str"
  <2>1. "num" \in Kinds /\ "str" \in Kinds /\ v \in Kinds
    BY DEF Kinds, Values
  <2> QED
    BY <2>1 DEF Sent
<1>2. s \in Seq(Kinds)
  BY <1>1, Zenon DEF Sent
<1> HIDE DEF s
<1>3. /\ ks \in Seq(Int) /\ (\A j \in DOMAIN ks : Mine(s, ks[j]))
      /\ b = [j \in DOMAIN ks |-> At(s, ks[j])]
  BY <1>1, NamePassed
<1>4. Named(q) /\ <<>> \in PassedType
  BY NamedOnly
<1>5. c \in Seq(Instr)
  BY ConvertTyped
<1> HIDE DEF q
<1>6. Safe("JS_EmitEvent", c \o <<Script>>, s, q)
  BY <1>1, <1>4, ConvertRule
<1> HIDE DEF c, ks, b
<1>7. "JS_EmitEvent" \in DOMAIN Roots
  BY RootNames
<1>8. Safe("JS_EmitEvent", c \o <<Script>>, s, Append(<<>>, b))
  BY <1>6 DEF q, b
<1>9. Safe("JS_EmitEvent", <<Pass(ks)>> \o (c \o <<Script>>), s, <<>>)
  BY <1>2, <1>3, <1>4, <1>7, <1>8, PassRule, Zenon
<1>10. <<Pass(ks)>> \in Seq(Instr)
  BY <1>3, PassCodes
<1>11. Safe("JS_EmitEvent", <<Pass(ks)>> \o c \o <<Script>>, s, <<>>)
  BY <1>5, <1>9, <1>10, PassCodes, InParts, Zenon
<1>12. Convert(3, "str") = <<Pass(<<3>>)>>
  BY Zenon DEF Convert, AnyEnt, Valid
<1> QED
  BY <1>11, <1>12, Zenon DEF c, s, ks

LEMMA EmitEventSafe ==
  ASSUME NEW f \in lua_emit_event
  PROVE  Safe("JS_EmitEvent", f.code, f.args, <<>>)
<1>1. Safe("JS_EmitEvent", <<Script>>, <<"num", "str">>, <<>>)
  <2>1. "num" \in Kinds /\ "str" \in Kinds
    BY DEF Kinds, Values
  <2>2. <<"num", "str">> \in Seq(Kinds) /\ Len(<<"num", "str">>) = 2
    BY <2>1
  <2>3. Delivered(<<"num", "str">>, <<>>)
    BY <2>2 DEF Delivered
  <2> QED
    BY <2>2, <2>3, NamedOnly, ListenerRule
<1>2. CASE f = [args |-> <<"num", "str">>, code |-> <<Script>>]
  <2>1. f.code = <<Script>> /\ f.args = <<"num", "str">>
    BY <1>2
  <2> QED
    BY <1>1, <2>1, Zenon
<1>3. ASSUME NEW v \in Values,
             f = [args |-> <<"num", "str", "str", v>>,
                  code |-> Convert(3, "str") \o Convert(4, v) \o <<Script>>]
      PROVE  Safe("JS_EmitEvent", f.code, f.args, <<>>)
  <2> DEFINE c == Convert(3, "str") \o Convert(4, v) \o <<Script>>
             a == <<"num", "str", "str", v>>
  <2> HIDE DEF c, a
  <2>1. f = [args |-> a, code |-> c]
    BY <1>3, Zenon DEF a, c
  <2>2. f.args = a /\ f.code = c
    BY <2>1
  <2> QED
    BY <2>2, InputSafe, Zenon DEF a, c
<1> QED
  BY <1>2, <1>3, Zenon DEF lua_emit_event

LEMMA EvalSafe ==
  ASSUME NEW f \in lua_eval
  PROVE  Safe("JS_Eval", f.code, f.args, <<>>)
<1>1. f.code = <<Script>> /\ f.args = <<"num", "num", "str">>
  BY DEF lua_eval
<1> DEFINE s == <<"num", "num", "str">>
<1>2. s \in Seq(Kinds)
  <2>1. "num" \in Kinds /\ "str" \in Kinds
    BY KindsOfEntities
  <2> QED
    BY <2>1
<1>3. "JS_Eval" \in DOMAIN Roots /\ "JS_Eval" # "JS_EmitEvent"
  BY RootNames
<1> HIDE DEF s
<1>4. Safe("JS_Eval", <<>>, s, <<>>)
  BY <1>2, <1>3, RootCodes, NamedOnly, ExitRule
<1>5. Safe("JS_Eval", <<Script>> \o <<>>, s, <<>>)
  BY <1>2, <1>3, <1>4, ScriptRule, Zenon
<1>6. Safe("JS_Eval", <<Script>>, s, <<>>)
  BY <1>5, PassCodes, Alone, Zenon
<1> QED
  BY <1>1, <1>6, Zenon DEF s

LEMMA AskIndexRule ==
  ASSUME NEW nm \in DOMAIN Roots, NEW rest \in Seq(Instr), NEW s \in Seq(Kinds), NEW p \in PassedType,
         NEW k \in 1 .. Len(s), NEW x \in AnyEnt, s[k] = x, Safe(nm, rest, Append(s, "metatable"), p)
  PROVE  Safe(nm, (IndexOf(k) \o <<Read(Numbers), Pop(1)>>) \o rest, s, p)
<1> DEFINE t == Append(s, "metatable")
           i == IF x \in Valid THEN "index" ELSE "zero"
           u == Append(t, i)
           r == <<Pop(1)>> \o rest
<1>1. i \in Numbers /\ i \in Kinds /\ "metatable" \in Kinds /\ Numbers \in SUBSET Kinds
  BY DEF Kinds, Outputs, Numbers
<1> HIDE DEF i
<1>2. t \in Seq(Kinds)
  BY <1>1, Appended
<1> HIDE DEF t
<1>3. u \in Seq(Kinds) /\ Has(u, -1, i) /\ Len(u) = Len(t) + 1 /\ Under(u, 1) = t
  BY <1>1, <1>2, Grown, Appended
<1> HIDE DEF u
<1>4. 1 \in Nat /\ 1 <= Len(u)
  BY <1>2, <1>3
<1>5. Safe(nm, r, u, p)
  BY <1>3, <1>4, PopRule, Zenon DEF t
<1> HIDE DEF r
<1>6. Safe(nm, <<Read(Numbers)>> \o r, u, p)
  BY <1>1, <1>3, <1>5, TopRule, Zenon
<1>7. Safe(nm, <<Read(Numbers), Pop(1)>> \o rest, u, p)
  BY <1>6, InOrder2, Zenon DEF r
<1>8. Safe(nm, IndexOf(k) \o (<<Read(Numbers), Pop(1)>> \o rest), s, p)
  BY <1>7, IndexOfRule, Zenon DEF u, t, i
<1>9. IndexOf(k) \in Seq(Instr)
  BY IndexOfTyped
<1>10. <<Read(Numbers), Pop(1)>> \in Seq(Instr)
  BY <1>1, Lasts, NativeSequences
<1> QED
  BY <1>8, <1>9, <1>10, InParts, Zenon

LEMMA CreateContextRule ==
  ASSUME NEW e \in {"chip", "prop"}, NEW o \in {"player", "NULL", "nil"}
  PROVE  Safe("JS_CreateContext", ContextOf(o), <<e, o>>, <<>>)
<1> DEFINE s == <<e, o>>
           t == Append(s, "metatable")
           u == Append(t, "metatable")
           y == <<Read(Numbers), Pop(1)>>
           d == IndexOf(2) \o y
           c == IF o \in AnyEnt THEN d ELSE <<>>
<1>1. e \in Kinds /\ o \in Kinds /\ e \in AnyEnt /\ "metatable" \in Kinds /\ Numbers \in SUBSET Kinds
  BY DEF Kinds, Values, AnyEnt, Valid, Outputs
<1>2. s \in Seq(Kinds) /\ Len(s) = 2 /\ s[1] = e /\ s[2] = o
  BY <1>1
<1> HIDE DEF s
<1>3. t \in Seq(Kinds) /\ Len(t) = 3 /\ t[2] = o
  <2>1. /\ t \in Seq(Kinds) /\ Len(t) = Len(s) + 1 /\ \A j \in 1 .. Len(s) : t[j] = s[j]
    BY <1>1, <1>2, Appended
  <2> HIDE DEF t
  <2> QED
    BY <1>2, <2>1
<1> HIDE DEF t
<1>4. u \in Seq(Kinds)
  BY <1>1, <1>3
<1> HIDE DEF u
<1>5. "JS_CreateContext" \in DOMAIN Roots
  BY RootNames
<1>6. \A z \in Seq(Kinds) : Safe("JS_CreateContext", <<>>, z, <<>>)
  BY <1>5, RootCodes, NamedOnly, ExitRule
<1>7. y \in Seq(Instr) /\ <<>> \in Seq(Instr)
  <2>1. y \in Seq(NativeInstr) /\ <<>> \in Seq(Instr)
    BY <1>1, Lasts
  <2> QED
    BY <2>1, NativeSequences, Zenon
<1>8. IndexOf(2) \in Seq(Instr) /\ d \in Seq(Instr)
  BY <1>7, IndexOfTyped, InPartsTyped
<1>9. c \in Seq(Instr)
  BY <1>7, <1>8
<1>10. Safe("JS_CreateContext", c, t, <<>>)
  <2>1. CASE o \in AnyEnt
    <3>1. 2 \in 1 .. Len(t)
      BY <1>3
    <3>2. Safe("JS_CreateContext", <<>>, Append(t, "metatable"), <<>>)
      BY <1>4, <1>6 DEF u
    <3> HIDE DEF c
    <3>3. Safe("JS_CreateContext", d \o <<>>, t, <<>>)
      BY <1>3, <1>5, <1>7, <2>1, <3>1, <3>2, NamedOnly, AskIndexRule, Zenon
    <3> HIDE DEF d
    <3>4. Safe("JS_CreateContext", d, t, <<>>)
      BY <1>8, <3>3, Alone, Zenon
    <3> QED
      BY <2>1, <3>4, Zenon DEF c
  <2>2. CASE o \notin AnyEnt
    <3>1. c = <<>>
      BY <2>2, Zenon
    <3> QED
      BY <1>3, <1>6, <3>1, Zenon
  <2> QED
    BY <2>1, <2>2
<1>11. 1 \in 1 .. Len(s)
  BY <1>2
<1> HIDE DEF c
<1>12. Safe("JS_CreateContext", (IndexOf(1) \o y) \o c, s, <<>>)
  BY <1>1, <1>2, <1>5, <1>9, <1>10, <1>11, NamedOnly, AskIndexRule, Zenon DEF t
<1> QED
  BY <1>12, Zenon DEF c, s, d, ContextOf

LEMMA CreateContextSafe ==
  ASSUME NEW f \in lua_create_context
  PROVE  Safe("JS_CreateContext", f.code, f.args, <<>>)
<1>1. PICK e \in {"chip", "prop"}, o \in {"player", "NULL", "nil"} :
        f = [args |-> <<e, o>>, code |-> ContextOf(o)]
  BY DEF lua_create_context
<1>2. f.args = <<e, o>> /\ f.code = ContextOf(o)
  BY <1>1
<1> QED
  BY <1>2, CreateContextRule, Zenon

(* The six functions the module registers. *)
Registers == [j \in 1 .. 12 |-> IF j % 2 = 1 THEN Value("cfunction") ELSE SetField(-2)]

LEMMA RegistersTyped ==
  Registers \in Seq(NativeInstr) /\ Len(Registers) = 12
<1>1. Value("cfunction") \in NativeInstr /\ SetField(-2) \in NativeInstr
  <2>1. "cfunction" \in Kinds
    BY DEF Kinds
  <2> QED
    BY <2>1, Typed
<1> QED
  BY <1>1 DEF Registers

LEMMA RegistersAt ==
  ASSUME NEW i \in 1 .. 12
  PROVE  /\ i % 2 = 1 => Registers[i] = Value("cfunction")
         /\ i % 2 = 0 => Registers[i] = SetField(-2)
  BY DEF Registers

LEMMA Modulo2 ==
  ASSUME NEW j \in Nat
  PROVE  (j % 2 = 0 /\ (j + 1) % 2 = 1) \/ (j % 2 = 1 /\ (j + 1) % 2 = 0)
  OBVIOUS

LEMMA RegistersRule ==
  ASSUME NEW nm \in Names, nm # "JS_EmitEvent", NEW p \in PassedType, NEW w \in Seq(NativeInstr),
         Safe(nm, w, <<"glob">>, p)
  PROVE  Safe(nm, Registers \o w, <<"glob">>, p)
<1> DEFINE P == Registers \o w
           t == <<"glob">>
           u == Append(t, "cfunction")
           T == [j \in 0 .. 12 |-> IF j % 2 = 1 THEN {u} ELSE {t}]
<1>1. Registers \in Seq(NativeInstr) /\ Len(Registers) = 12 /\ 12 \in Nat
  BY RegistersTyped
<1>2. /\ P \in Seq(NativeInstr) /\ 12 <= Len(P) /\ SubSeq(P, 12 + 1, Len(P)) = w
      /\ \A i \in 1 .. 12 : P[i] = Registers[i]
  BY <1>1, SecondPart
<1> HIDE DEF P
<1>3. "cfunction" \in Kinds /\ "glob" \in Kinds
  BY DEF Kinds
<1>4. t \in Seq(Kinds) /\ Has(t, -1, "glob")
  BY <1>3 DEF Has
<1> HIDE DEF t
<1>5. u \in Seq(Kinds) /\ Under(u, 1) = t /\ Has(u, -2, "glob")
  BY <1>3, <1>4, Appended, Grown
<1>6. Mine(u, -2) /\ At(u, -2) = "glob"
  BY <1>5, HasKind
<1>7. ASSUME NEW j \in 0 .. 12 - 1 PROVE Walked(nm, P, T, j, p)
  <2> SUFFICES ASSUME NEW z \in T[j]
               PROVE  /\ z \in Seq(Kinds) /\ (Legal(P[j + 1], z, p) \/ Excused(nm, P[j + 1], z))
                      /\ Legal(P[j + 1], z, p) =>
                           /\ \A v \in Kept(P[j + 1], z) : v \in T[j + 1]
                           /\ Left(P[j + 1], z) = {} /\ Passes(P[j + 1], z, p) = {p}
    BY Zenon DEF Walked
  <2>1. j + 1 \in 1 .. 12 /\ j \in 0 .. 12 /\ j + 1 \in 0 .. 12
    OBVIOUS
  <2>2. (j % 2 = 0 /\ (j + 1) % 2 = 1) \/ (j % 2 = 1 /\ (j + 1) % 2 = 0)
    BY Modulo2
  <2>3. P[j + 1] = Registers[j + 1]
    BY <1>2, <2>1
  <2>4. CASE j % 2 = 0 /\ (j + 1) % 2 = 1
    <3>1. P[j + 1] = Value("cfunction")
      BY <2>1, <2>3, <2>4, RegistersAt
    <3>2. z = t /\ T[j + 1] = {u}
      BY <2>1, <2>4
    <3>3. /\ Kept(Value("cfunction"), t) = {u} /\ Left(Value("cfunction"), t) = {}
          /\ Passes(Value("cfunction"), t, p) = {p} /\ Legal(Value("cfunction"), t, p)
      BY SMT DEF Legal, Kept, Left, Passes, Value
    <3> HIDE DEF T, u
    <3> QED
      BY <1>4, <3>1, <3>2, <3>3, Zenon
  <2>5. CASE j % 2 = 1 /\ (j + 1) % 2 = 0
    <3>1. P[j + 1] = SetField(-2)
      BY <2>1, <2>3, <2>5, RegistersAt
    <3>2. z = u /\ T[j + 1] = {t}
      BY <2>1, <2>5
    <3> HIDE DEF T, u
    <3>3. /\ Kept(SetField(-2), u) = {Under(u, 1)} /\ Left(SetField(-2), u) = {}
          /\ Passes(SetField(-2), u, p) = {p}
      BY SMT DEF Kept, Left, Passes, SetField
    <3>4. Legal(SetField(-2), u, p)
      BY <1>6, SMT DEF Legal, SetField
    <3> QED
      BY <1>5, <3>1, <3>2, <3>3, <3>4, Zenon
  <2> QED
    BY <2>2, <2>4, <2>5, Zenon
<1>8. T[0] = {t} /\ T[12] = {t}
  <2>1. 12 % 2 = 0 /\ 0 % 2 = 0 /\ 0 \in 0 .. 12 /\ 12 \in 0 .. 12
    OBVIOUS
  <2> QED
    BY <2>1
<1>9. P \in Codes(nm)
  BY <1>2, NativeSequences
<1> HIDE DEF T
<1>10. \A z \in T[12] : Safe(nm, SubSeq(P, 12 + 1, Len(P)), z, p)
  BY <1>2, <1>8 DEF t
<1>11. \A z \in T[0] : Safe(nm, P, z, p)
  BY <1>1, <1>2, <1>7, <1>9, <1>10, WalkRule, Zenon
<1> QED
  BY <1>8, <1>11 DEF P, t

LEMMA PrintTyped ==
  lua_printf \in Seq(NativeInstr) /\ <<Pop(1)>> \in Seq(NativeInstr) /\ <<Value("glob")>> \in Seq(NativeInstr)
<1>1. "glob" \in Kinds /\ "str" \in Kinds /\ "print" \in Functions
  BY DEF Kinds, Values, Functions
<1>2. /\ Value("glob") \in NativeInstr /\ GetField(-1, "print") \in NativeInstr
      /\ Value("str") \in NativeInstr /\ Call(1, 0) \in NativeInstr /\ Pop(1) \in NativeInstr
  BY <1>1, Typed
<1> QED
  BY <1>2 DEF lua_printf

LEMMA PrintRule ==
  ASSUME NEW nm \in Names, NEW p \in PassedType
  PROVE  Safe(nm, lua_printf, <<>>, p)
<1> DEFINE s1 == Append(<<>>, "glob")
           s2 == Append(s1, "print")
           s3 == Append(s2, "str")
           c5 == <<Pop(1)>>
           c4 == <<Call(1, 0)>> \o c5
           c3 == <<Value("str")>> \o c4
           c2 == <<GetField(-1, "print")>> \o c3
           c1 == <<Value("glob")>> \o c2
           f  == "print"
<1>1. /\ "glob" \in Kinds /\ "str" \in Kinds /\ f \in Functions /\ f \in Kinds
      /\ "glob" \in On(f) /\ Accepts(f, <<"str">>)
  <2>1. "glob" \in Kinds /\ "str" \in Kinds /\ f \in Functions /\ "glob" \in On(f)
    BY DEF Kinds, Values, Functions, On
  <2>2. On(f) = {"glob"} /\ Params(f, Len(<<"str">>)) = <<{"str"}>>
    BY DEF On, Params
  <2>3. Accepts(f, <<"str">>)
    BY <2>2 DEF Accepts
  <2> QED
    BY <2>1, <2>3, FunctionKinds
<1>2. <<>> \in Seq(Kinds) /\ Len(<<>>) = 0
  OBVIOUS
<1>3. s1 \in Seq(Kinds) /\ Has(s1, -1, "glob") /\ Len(s1) = 1
  <2> DEFINE e == <<>>
  <2>1. e \in Seq(Kinds) /\ Len(e) = 0 /\ s1 = Append(e, "glob")
    OBVIOUS
  <2> HIDE DEF e
  <2>2. /\ Append(e, "glob") \in Seq(Kinds) /\ Has(Append(e, "glob"), -1, "glob")
        /\ Len(Append(e, "glob")) = Len(e) + 1
    BY <1>1, <2>1, Grown, Zenon
  <2> QED
    BY <2>1, <2>2
<1> HIDE DEF s1
<1>4. s2 \in Seq(Kinds)
  BY <1>1, <1>3, Appended
<1>5. Pushed(s3, s1, f, <<"str">>, 1)
  BY <1>1, <1>3, Pushed1
<1> HIDE DEF s2, s3, f
<1>6. Safe(nm, c5, s1, p)
  BY <1>3, PopAllRule
<1> HIDE DEF c5
<1>7. Safe(nm, c4, s3, p)
  BY <1>1, <1>5, <1>6, PushedCallRule, Zenon
<1> HIDE DEF c4
<1>8. Safe(nm, c3, s2, p)
  BY <1>1, <1>4, <1>7, ValueRule, Zenon DEF s3
<1> HIDE DEF c3
<1>9. Safe(nm, c2, s1, p)
  BY <1>1, <1>3, <1>8, FieldRule, Zenon DEF s2, f
<1> HIDE DEF c2
<1>10. Safe(nm, c1, <<>>, p)
  BY <1>1, <1>2, <1>9, ValueRule, Zenon DEF s1
<1>11. c5 \in Seq(Instr) /\ <<>> \in Seq(Instr)
  <2>1. c5 \in Seq(NativeInstr) /\ <<>> \in Seq(Instr)
    BY PrintTyped DEF c5
  <2> QED
    BY <2>1, NativeSequences, Zenon
<1>12. c5 \o <<>> = c5
  BY <1>11, NoRest
<1>13. Safe(nm, <<Value("glob")>> \o (<<GetField(-1, "print")>> \o (<<Value("str")>> \o (<<Call(1, 0)>>
               \o (<<Pop(1)>> \o <<>>)))), <<>>, p)
  BY <1>10, <1>12, Zenon DEF c1, c2, c3, c4, c5
<1>14. Safe(nm, lua_printf \o <<>>, <<>>, p)
  BY <1>11, <1>13, InOrder5, Zenon DEF lua_printf
<1>15. lua_printf \in Seq(Instr)
  BY PrintTyped, NativeSequences
<1> QED
  BY <1>14, <1>15, Alone, Zenon

LEMMA OpenSafe ==
  ASSUME NEW f \in gmod13_open
  PROVE  Safe("open", f.code, f.args, <<>>)
<1> DEFINE a == <<Value("glob")>>
           c == <<Pop(1)>>
           d == lua_printf
           p == <<>>
<1>1. "open" \in Names /\ "open" # "JS_EmitEvent" /\ p \in PassedType
  BY RootNames, RootCodes, NamedOnly
<1>2. a \in Seq(NativeInstr) /\ c \in Seq(NativeInstr) /\ d \in Seq(NativeInstr)
  BY PrintTyped
<1>3. Registers \in Seq(NativeInstr)
  BY RegistersTyped
<1> HIDE DEF d, p
<1>4. "glob" \in Kinds /\ <<>> \in Seq(Kinds) /\ <<"glob">> \in Seq(Kinds) /\ Len(<<"glob">>) = 1 /\ 1 \in Nat
  BY DEF Kinds
<1>5. Append(<<>>, "glob") = <<"glob">> /\ Under(<<"glob">>, 1) = <<>> /\ 1 <= Len(<<"glob">>)
  <2> DEFINE g == <<"glob">>
  <2>1. Append(<<>>, "glob") = g
    BY Tuple1
  <2>2. g \in Seq(Kinds) /\ Len(g) = 1
    BY <1>4
  <2> HIDE DEF g
  <2>3. 1 \in Nat /\ 1 = Len(g) /\ 1 <= Len(g)
    BY <2>2
  <2>4. Under(g, 1) = <<>>
    BY <2>2, <2>3, UnderAll, Zenon
  <2> QED
    BY <2>1, <2>3, <2>4 DEF g
<1>6. Safe("open", d, <<>>, p)
  BY <1>1, PrintRule, Zenon DEF d
<1>7. Safe("open", c \o d, <<"glob">>, p)
  BY <1>4, <1>5, <1>6, PopRule, Zenon
<1> HIDE DEF c
<1>8. c \o d \in Seq(NativeInstr)
  BY <1>2
<1>9. Safe("open", Registers \o (c \o d), <<"glob">>, p)
  BY <1>1, <1>7, <1>8, RegistersRule, Zenon
<1> DEFINE r == Registers \o (c \o d)
<1> HIDE DEF r
<1>10. Safe("open", r, Append(<<>>, "glob"), p)
  BY <1>5, <1>9, Zenon DEF r
<1>11. Safe("open", a \o r, <<>>, p)
  BY <1>4, <1>10, ValueRule, Zenon
<1> HIDE DEF a
<1>12. Safe("open", a \o Registers \o c \o d, <<>>, p)
  BY <1>2, <1>3, <1>11, Parts4, Zenon DEF r
<1>13. f = [args |-> <<>>, code |-> a \o Registers \o c \o d]
  BY Zenon DEF gmod13_open, Registers, a, c, d
<1> DEFINE e == a \o Registers \o c \o d
<1> HIDE DEF e
<1>14. f.args = <<>> /\ f.code = e
  <2>1. f = [args |-> <<>>, code |-> e]
    BY <1>13, Zenon DEF e
  <2> QED
    BY <2>1
<1> QED
  BY <1>12, <1>14, Zenon DEF e, p

LEMMA RootsSafe ==
  ASSUME NEW r \in DOMAIN Roots, NEW f \in Roots[r]
  PROVE  Safe(r, f.code, f.args, <<>>)
<1>1. /\ Roots["JS_EmitEvent"] = lua_emit_event /\ Roots["JS_Eval"] = lua_eval
      /\ Roots["JS_CreateContext"] = lua_create_context /\ Roots["open"] = gmod13_open
  BY DEF Roots
<1>2. CASE r = "JS_EmitEvent"
  BY <1>1, <1>2, EmitEventSafe, Zenon
<1>3. CASE r = "JS_Eval"
  BY <1>1, <1>3, EvalSafe, Zenon
<1>4. CASE r = "JS_CreateContext"
  BY <1>1, <1>4, CreateContextSafe, Zenon
<1>5. CASE r = "open"
  BY <1>1, <1>5, OpenSafe, Zenon
<1> QED
  BY <1>2, <1>3, <1>4, <1>5, RootNames, Zenon

-----------------------------------------------------------------------------
(* The machine *)

Frame == [name : Names, code : Seq(Instr), base : Nat, skew : BOOLEAN]

(* The values of the i-th function: up to where those of the next begin. *)
Part(st, fr, i) == SubSeq(st, fr[i].base + 1, IF i = Len(fr) THEN Len(st) ELSE fr[i + 1].base)

Stacked(st, fr) ==
  /\ st \in Seq(Kinds) /\ fr \in Seq(Frame)
  /\ \A i \in 1 .. Len(fr) :
       /\ fr[i].code \in Codes(fr[i].name) /\ fr[i].base <= Len(st)
       /\ (i > 1) <=> fr[i].name \in DOMAIN Natives
       /\ \A j \in 1 .. Len(fr) : i <= j => fr[i].base <= fr[j].base
  /\ Len(fr) > 0 => fr[1].base = 0

(* Every function in which no other left values behind can go on from where *)
(* it is.                                                                   *)
Running(st, fr, ps) ==
  \A i \in 1 .. Len(fr) : ~fr[i].skew => Safe(fr[i].name, fr[i].code, Part(st, fr, i), ps)

Counted(fr, ca) ==
  /\ ca \in 0 .. MaxCalls
  /\ Len(fr) > 1 => ca > 0
  /\ \A i \in 1 .. Len(fr) : fr[i].skew => ca > 0

(* A fault is one of the innermost function. *)
Faulty(st, fr, ps) ==
  /\ Len(fr) > 0 /\ fr[Len(fr)].code # <<>>
  /\ ~Legal(Head(fr[Len(fr)].code), Part(st, fr, Len(fr)), ps)

Sane(st, fr, ps, ca, fa) ==
  /\ Stacked(st, fr) /\ Running(st, fr, ps) /\ Counted(fr, ca)
  /\ ps \in PassedType /\ fa \in BOOLEAN
  /\ fa => Faulty(st, fr, ps)
  /\ Len(fr) = 0 => ps = <<>>

IInv == Sane(stack, frames, passed, calls, fault)

LEMMA CutBelow ==
  ASSUME NEW S, NEW st \in Seq(S), NEW t \in Seq(S), NEW b \in 0 .. Len(st),
         NEW a \in Nat, NEW c \in Nat, c <= b
  PROVE  SubSeq(SubSeq(st, 1, b) \o t, a + 1, c) = SubSeq(st, a + 1, c)
<1> DEFINE u == SubSeq(st, 1, b)
           z == u \o t
<1>1. u \in Seq(S) /\ Len(u) = b /\ \A k \in 1 .. b : u[k] = st[k]
  OBVIOUS
<1> HIDE DEF u
<1>2. z \in Seq(S) /\ Len(z) = b + Len(t) /\ \A k \in 1 .. b : z[k] = st[k]
  BY <1>1
<1> HIDE DEF z
<1>3. SubSeq(z, a + 1, c) \in Seq(S) /\ SubSeq(st, a + 1, c) \in Seq(S)
  BY <1>2
<1>4. Len(SubSeq(z, a + 1, c)) = Len(SubSeq(st, a + 1, c))
  BY <1>2
<1>5. \A k \in 1 .. Len(SubSeq(z, a + 1, c)) : SubSeq(z, a + 1, c)[k] = SubSeq(st, a + 1, c)[k]
  BY <1>2
<1>6. SubSeq(z, a + 1, c) = SubSeq(st, a + 1, c)
  BY <1>3, <1>4, <1>5, SeqEqual
<1> QED
  BY <1>6 DEF z, u

LEMMA CutAbove ==
  ASSUME NEW S, NEW st \in Seq(S), NEW t \in Seq(S), NEW b \in 0 .. Len(st)
  PROVE  /\ SubSeq(st, 1, b) \o t \in Seq(S)
         /\ Len(SubSeq(st, 1, b) \o t) = b + Len(t)
         /\ SubSeq(SubSeq(st, 1, b) \o t, b + 1, Len(SubSeq(st, 1, b) \o t)) = t
<1> DEFINE u == SubSeq(st, 1, b)
           z == u \o t
<1>1. u \in Seq(S) /\ Len(u) = b
  OBVIOUS
<1> HIDE DEF u
<1>2. z \in Seq(S) /\ Len(z) = b + Len(t)
  BY <1>1
<1>3. SubSeq(z, b + 1, Len(z)) = t
  BY <1>1, SecondPart
<1> QED
  BY <1>2, <1>3 DEF u

LEMMA CutAndKept ==
  ASSUME NEW S, NEW st \in Seq(S), NEW b \in 0 .. Len(st)
  PROVE  SubSeq(st, 1, b) \o SubSeq(st, b + 1, Len(st)) = st
<1> DEFINE u == SubSeq(st, 1, b)
           t == SubSeq(st, b + 1, Len(st))
           z == u \o t
<1>1. /\ u \in Seq(S) /\ Len(u) = b /\ \A k \in 1 .. b : u[k] = st[k]
      /\ t \in Seq(S) /\ Len(t) = Len(st) - b /\ \A k \in 1 .. Len(st) - b : t[k] = st[b + k]
  OBVIOUS
<1> HIDE DEF u, t
<1>2. z \in Seq(S) /\ Len(z) = Len(st)
  BY <1>1
<1>3. \A k \in 1 .. Len(z) : z[k] = st[k]
  <2> SUFFICES ASSUME NEW k \in 1 .. Len(z) PROVE z[k] = st[k]
    OBVIOUS
  <2>1. CASE k <= b
    BY <1>1, <1>2, <2>1
  <2>2. CASE k > b
    <3>1. z[k] = t[k - b]
      BY <1>1, <1>2, <2>2
    <3>2. k - b \in 1 .. Len(st) - b
      BY <1>2, <2>2
    <3> QED
      BY <1>1, <3>1, <3>2
  <2> QED
    BY <2>1, <2>2, <1>2
<1>4. z = st
  BY <1>2, <1>3, SeqEqual
<1> QED
  BY <1>4 DEF u, t

LEMMA PartTyped ==
  ASSUME NEW st, NEW fr, Stacked(st, fr), NEW i \in 1 .. Len(fr)
  PROVE  /\ st \in Seq(Kinds) /\ fr \in Seq(Frame) /\ fr[i] \in Frame
         /\ fr[i].base \in 0 .. Len(st) /\ Part(st, fr, i) \in Seq(Kinds)
         /\ fr[i].name \in Names /\ fr[i].code \in Codes(fr[i].name) /\ fr[i].code \in Seq(Instr)
<1>1. st \in Seq(Kinds) /\ fr \in Seq(Frame) /\ fr[i].base <= Len(st) /\ fr[i].code \in Codes(fr[i].name)
  BY DEF Stacked
<1>2. \A j \in 1 .. Len(fr) : fr[j] \in Frame
  BY <1>1
<1>3. \A j \in 1 .. Len(fr) : fr[j].base \in Nat /\ fr[j].name \in Names /\ fr[j].code \in Seq(Instr)
  BY <1>2 DEF Frame
<1>4. \A j \in 1 .. Len(fr) : fr[j].base <= Len(st)
  BY DEF Stacked
<1>5. Part(st, fr, i) \in Seq(Kinds)
  <2> DEFINE h == IF i = Len(fr) THEN Len(st) ELSE fr[i + 1].base
  <2>1. h \in 0 .. Len(st)
    BY <1>1, <1>3, <1>4
  <2>2. fr[i].base + 1 >= 1
    BY <1>3
  <2> HIDE DEF h
  <2>3. SubSeq(st, fr[i].base + 1, h) \in Seq(Kinds)
    BY <1>1, <1>3, <2>1, <2>2
  <2> QED
    BY <2>3 DEF Part, h
<1> QED
  BY <1>1, <1>2, <1>3, <1>5

(* The frames, with the instructions of the innermost replaced. *)
LEMMA Replaced ==
  ASSUME NEW fr \in Seq(Frame), Len(fr) > 0, NEW c \in Seq(Instr)
  PROVE  LET g == [fr EXCEPT ![Len(fr)].code = c] IN
         /\ g \in Seq(Frame) /\ Len(g) = Len(fr)
         /\ \A i \in 1 .. Len(fr) :
              /\ g[i].name = fr[i].name /\ g[i].base = fr[i].base /\ g[i].skew = fr[i].skew
              /\ g[i].code = IF i = Len(fr) THEN c ELSE fr[i].code
<1> DEFINE n == Len(fr)
           r == [fr[n] EXCEPT !.code = c]
           g == [fr EXCEPT ![n] = r]
<1>1. fr[n] \in Frame
  OBVIOUS
<1>2. /\ r \in Frame /\ r.name = fr[n].name /\ r.base = fr[n].base /\ r.skew = fr[n].skew /\ r.code = c
  BY <1>1 DEF Frame
<1> HIDE DEF r
<1>3. g \in Seq(Frame) /\ Len(g) = Len(fr) /\ \A i \in 1 .. n : g[i] = IF i = n THEN r ELSE fr[i]
  BY <1>2
<1> HIDE DEF g
<1>4. \A i \in 1 .. n :
        /\ g[i].name = fr[i].name /\ g[i].base = fr[i].base /\ g[i].skew = fr[i].skew
        /\ g[i].code = IF i = n THEN c ELSE fr[i].code
  BY <1>2, <1>3
<1> QED
  BY <1>3, <1>4 DEF g, r

(* The innermost function takes a step: its values become t. *)
LEMMA Advance ==
  ASSUME NEW st, NEW fr, NEW ps, NEW ca, Sane(st, fr, ps, ca, FALSE), Len(fr) > 0,
         NEW c, c \in Codes(fr[Len(fr)].name), NEW t \in Seq(Kinds), NEW q \in PassedType,
         Len(fr) > 1 => q = ps,
         ~fr[Len(fr)].skew => Safe(fr[Len(fr)].name, c, t, q)
  PROVE  Sane(SubSeq(st, 1, fr[Len(fr)].base) \o t, [fr EXCEPT ![Len(fr)].code = c], q, ca, FALSE)
<1> DEFINE n == Len(fr)
           b == fr[n].base
           z == SubSeq(st, 1, b) \o t
           g == [fr EXCEPT ![Len(fr)].code = c]
<1>1. Stacked(st, fr) /\ Running(st, fr, ps) /\ Counted(fr, ca)
  BY DEF Sane
<1>2. /\ st \in Seq(Kinds) /\ fr \in Seq(Frame) /\ c \in Seq(Instr) /\ n \in Nat /\ n \in 1 .. Len(fr)
      /\ b \in 0 .. Len(st)
  <2>1. c \in Seq(Instr)
    BY CodesAreSequences
  <2>2. fr \in Seq(Frame) /\ st \in Seq(Kinds)
    BY <1>1 DEF Stacked
  <2>3. n \in Nat /\ n \in 1 .. Len(fr)
    BY <2>2
  <2> QED
    BY <1>1, <2>1, <2>2, <2>3, PartTyped
<1>3. /\ g \in Seq(Frame) /\ Len(g) = n
      /\ \A i \in 1 .. n :
           /\ g[i].name = fr[i].name /\ g[i].base = fr[i].base /\ g[i].skew = fr[i].skew
           /\ g[i].code = IF i = n THEN c ELSE fr[i].code
  BY <1>2, Replaced
<1>4. z \in Seq(Kinds) /\ Len(z) = b + Len(t) /\ SubSeq(z, b + 1, Len(z)) = t
  <2> HIDE DEF b
  <2>1. b \in 0 .. Len(st) /\ st \in Seq(Kinds)
    BY <1>2
  <2> QED
    BY <2>1, CutAbove
<1>5. \A a \in Nat, d \in Nat : d <= b => SubSeq(z, a + 1, d) = SubSeq(st, a + 1, d)
  BY <1>2, CutBelow
<1>6. \A i \in 1 .. n : /\ fr[i].base \in Nat /\ fr[i].base <= b
  <2>1. \A i \in 1 .. n : fr[i].base \in 0 .. Len(st)
    BY <1>1, PartTyped
  <2>2. \A i \in 1 .. n : i <= n => fr[i].base <= fr[n].base
    BY <1>1, <1>2 DEF Stacked
  <2> QED
    BY <1>2, <2>1, <2>2
<1> HIDE DEF g, z
<1>11. Len(t) \in Nat
  OBVIOUS
<1>7. Stacked(z, g)
  <2>1. ASSUME NEW i \in 1 .. n
        PROVE  /\ g[i].code \in Codes(g[i].name) /\ g[i].base <= Len(z)
               /\ (i > 1) <=> g[i].name \in DOMAIN Natives
               /\ \A j \in 1 .. n : i <= j => g[i].base <= g[j].base
    <3>1. g[i].code \in Codes(g[i].name)
      BY <1>1, <1>3 DEF Stacked
    <3>2. g[i].base <= Len(z)
      <4>1. g[i].base = fr[i].base /\ fr[i].base \in Nat /\ fr[i].base <= b /\ b \in Nat
        BY <1>2, <1>3, <1>6
      <4> HIDE DEF b
      <4> QED
        BY <1>4, <1>11, <4>1
    <3>3. (i > 1) <=> g[i].name \in DOMAIN Natives
      BY <1>1, <1>3 DEF Stacked
    <3>4. \A j \in 1 .. n : i <= j => g[i].base <= g[j].base
      BY <1>1, <1>3 DEF Stacked
    <3> QED
      BY <3>1, <3>2, <3>3, <3>4
  <2>2. g[1].base = 0
    BY <1>1, <1>2, <1>3 DEF Stacked
  <2> QED
    BY <1>3, <1>4, <2>1, <2>2 DEF Stacked
<1>8. Running(z, g, q)
  <2> SUFFICES ASSUME NEW i \in 1 .. n, ~g[i].skew
               PROVE  Safe(g[i].name, g[i].code, Part(z, g, i), q)
    BY <1>3 DEF Running
  <2>1. CASE i = n
    <3>1. g[i].name = fr[n].name /\ g[i].base = b /\ g[i].code = c /\ ~fr[n].skew
      BY <1>3, <2>1
    <3>2. Part(z, g, i) = t
      BY <1>3, <1>4, <2>1, <3>1 DEF Part
    <3> QED
      BY <3>1, <3>2
  <2>2. CASE i # n
    <3>1. i + 1 \in 1 .. n /\ n > 1
      BY <1>2, <2>2
    <3>2. /\ g[i].name = fr[i].name /\ g[i].base = fr[i].base /\ g[i].code = fr[i].code /\ ~fr[i].skew
          /\ g[i + 1].base = fr[i + 1].base
      BY <1>3, <2>2, <3>1
    <3>3. Part(z, g, i) = SubSeq(z, fr[i].base + 1, fr[i + 1].base)
      BY <1>3, <2>2, <3>2 DEF Part
    <3>4. Part(st, fr, i) = SubSeq(st, fr[i].base + 1, fr[i + 1].base)
      BY <2>2 DEF Part
    <3>5. Part(z, g, i) = Part(st, fr, i)
      BY <1>5, <1>6, <3>1, <3>3, <3>4
    <3>6. q = ps
      BY <3>1
    <3>7. Safe(fr[i].name, fr[i].code, Part(st, fr, i), ps)
      BY <1>1, <3>2 DEF Running
    <3> QED
      BY <3>2, <3>5, <3>6, <3>7
  <2> QED
    BY <2>1, <2>2
<1>9. Counted(g, ca)
  BY <1>1, <1>3 DEF Counted
<1>10. Sane(z, g, q, ca, FALSE)
  BY <1>2, <1>3, <1>7, <1>8, <1>9 DEF Sane
<1> QED
  BY <1>10 DEF z, g

LEMMA ResultsTyped ==
  ASSUME NEW f \in Functions, NEW args \in Seq(Kinds), Accepts(f, args)
  PROVE  Results(f, args) \subseteq Kinds
<1>1. CASE f = "Entity"
  <2>1. On(f) = {"glob"} /\ Params(f, Len(args)) = <<DOMAIN EntityAt>>
    BY <1>1 DEF On, Params
  <2>2. Len(args) = 1 /\ \A i \in DOMAIN args : args[i] \in <<DOMAIN EntityAt>>[i]
    BY <2>1 DEF Accepts
  <2>3. args[1] \in DOMAIN EntityAt
    BY <2>2
  <2>4. EntityAt[args[1]] \subseteq Kinds
    BY <2>3, KindsOfEntities
  <2> QED
    BY <1>1, <2>4 DEF Results
<1>2. CASE f # "Entity"
  BY <1>2 DEF Results, Answer, Kinds, Values, Outputs, Numbers
<1> QED
  BY <1>1, <1>2

LEMMA UnderTyped ==
  ASSUME NEW s \in Seq(Kinds), NEW n \in Nat, n <= Len(s)
  PROVE  Under(s, n) \in Seq(Kinds)
  BY DEF Under

LEMMA ArgsTyped ==
  ASSUME NEW s \in Seq(Kinds), NEW n \in Nat, n < Len(s)
  PROVE  Args(s, n) \in Seq(Kinds) /\ n + 1 \in Nat /\ n + 1 <= Len(s)
  BY DEF Args

LEMMA AtTyped ==
  ASSUME NEW s \in Seq(Kinds), NEW k \in Int, Mine(s, k)
  PROVE  At(s, k) \in Kinds
  BY DEF At, Mine

LEMMA CallTyped ==
  ASSUME NEW n \in Nat, NEW r \in {0, 1}, NEW s \in Seq(Kinds), NEW p, Legal(Call(n, r), s, p)
  PROVE  Kept(Call(n, r), s) \subseteq Seq(Kinds)
<1> DEFINE f == At(s, -(n + 1))
<1>1. n < Len(s) /\ f \in Functions /\ Accepts(f, Args(s, n))
  BY SMT DEF Legal, Call
<1>2. Args(s, n) \in Seq(Kinds) /\ Under(s, n + 1) \in Seq(Kinds)
  BY <1>1, ArgsTyped, UnderTyped
<1>3. Results(f, Args(s, n)) \subseteq Kinds
  BY <1>1, <1>2, ResultsTyped
<1> DEFINE u == Under(s, n + 1)
           R == Results(f, Args(s, n))
<1>4. Kept(Call(n, r), s) = IF r = 0 THEN {u} ELSE {Append(u, v) : v \in R}
  BY SMT DEF Kept, Call
<1> HIDE DEF u, R
<1>5. \A v \in R : Append(u, v) \in Seq(Kinds)
  BY <1>2, <1>3 DEF u, R
<1> QED
  BY <1>2, <1>4, <1>5 DEF u

LEMMA GetTableTyped ==
  ASSUME NEW k \in Int, NEW s \in Seq(Kinds), NEW p, Legal(GetTable(k), s, p)
  PROVE  Kept(GetTable(k), s) \subseteq Seq(Kinds)
<1> DEFINE v == IF At(s, k) = "table" THEN "nil" ELSE Component[At(s, -1)]
<1>1. Mine(s, k) /\ At(s, -1) \in DOMAIN Component
  BY SMT DEF Legal, GetTable
<1>2. v \in Kinds
  BY <1>1, Shades DEF Kinds, Values
<1>3. 1 <= Len(s)
  BY <1>1 DEF Mine
<1>4. Under(s, 1) \in Seq(Kinds)
  BY <1>3, UnderTyped
<1>5. Kept(GetTable(k), s) = {Append(Under(s, 1), v)}
  BY SMT DEF Kept, GetTable
<1> HIDE DEF v
<1> QED
  BY <1>2, <1>4, <1>5

LEMMA NativeCases ==
  ASSUME NEW i \in NativeInstr
  PROVE  \/ \E v \in Kinds : i = Value(v)
         \/ \E k \in Int : \E f \in Functions : i = GetField(k, f)
         \/ \E k \in Int : i = Push(k) \/ i = GetTable(k) \/ i = SetField(k)
         \/ \E n \in Nat : \E r \in {0, 1} : i = Call(n, r)
         \/ \E n \in Nat : i = Pop(n) \/ i = Require(n) \/ i = Bail(n)
         \/ \E K \in SUBSET Kinds : i = Read(K)
         \/ i = PushText \/ i = Strcmp \/ i = Script
  BY DEF NativeInstr

LEMMA InstrCases ==
  ASSUME NEW i \in Instr
  PROVE  \/ i \in NativeInstr
         \/ \E k \in Int : i = MetaTable(k)
         \/ \E ks \in Seq(Int) : i = Pass(ks)
         \/ i = PassEntity \/ i = PassAlpha
  BY DEF Instr

(* What an instruction that works makes of typed values is typed. *)
LEMMA KeptTyped ==
  ASSUME NEW i \in Instr, NEW s \in Seq(Kinds), NEW p, Legal(i, s, p)
  PROVE  Kept(i, s) \subseteq Seq(Kinds)
<1>1. \A v \in Kinds : Append(s, v) \in Seq(Kinds)
  OBVIOUS
<1>2. \A v \in Kinds : Kept(Value(v), s) \subseteq Seq(Kinds)
  BY <1>1, SMT DEF Kept, Value
<1>3. \A k \in Int : \A f \in Functions : Kept(GetField(k, f), s) \subseteq Seq(Kinds)
  BY <1>1, FunctionKinds, SMT DEF Kept, GetField
<1>4. \A k \in Int : Legal(Push(k), s, p) => Kept(Push(k), s) \subseteq Seq(Kinds)
  <2> SUFFICES ASSUME NEW k \in Int, Legal(Push(k), s, p) PROVE Kept(Push(k), s) \subseteq Seq(Kinds)
    OBVIOUS
  <2>1. Mine(s, k)
    BY SMT DEF Legal, Push
  <2>2. At(s, k) \in Kinds
    BY <2>1, AtTyped
  <2>3. Kept(Push(k), s) = {Append(s, At(s, k))}
    BY SMT DEF Kept, Push
  <2> QED
    BY <1>1, <2>2, <2>3
<1>5. \A n \in Nat : \A r \in {0, 1} : Legal(Call(n, r), s, p) => Kept(Call(n, r), s) \subseteq Seq(Kinds)
  BY CallTyped
<1>6. \A n \in Nat : Legal(Pop(n), s, p) => Kept(Pop(n), s) \subseteq Seq(Kinds)
  <2> SUFFICES ASSUME NEW n \in Nat, Legal(Pop(n), s, p) PROVE Kept(Pop(n), s) \subseteq Seq(Kinds)
    OBVIOUS
  <2>1. n <= Len(s)
    BY SMT DEF Legal, Pop
  <2>2. Kept(Pop(n), s) = {Under(s, n)}
    BY SMT DEF Kept, Pop
  <2> QED
    BY <2>1, <2>2, UnderTyped
<1>7. \A k \in Int : Legal(GetTable(k), s, p) => Kept(GetTable(k), s) \subseteq Seq(Kinds)
  BY GetTableTyped
<1>8. \A k \in Int : Legal(SetField(k), s, p) => Kept(SetField(k), s) \subseteq Seq(Kinds)
  <2> SUFFICES ASSUME NEW k \in Int, Legal(SetField(k), s, p) PROVE Kept(SetField(k), s) \subseteq Seq(Kinds)
    OBVIOUS
  <2>1. Mine(s, k)
    BY SMT DEF Legal, SetField
  <2>2. 1 <= Len(s)
    BY <2>1 DEF Mine
  <2>3. Kept(SetField(k), s) = {Under(s, 1)}
    BY SMT DEF Kept, SetField
  <2> QED
    BY <2>2, <2>3, UnderTyped
<1>9. \A K \in SUBSET Kinds : Kept(Read(K), s) \subseteq Seq(Kinds)
  BY SMT DEF Kept, Read
<1>10. \A n \in Nat : Kept(Require(n), s) \subseteq Seq(Kinds) /\ Kept(Bail(n), s) \subseteq Seq(Kinds)
  BY SMT DEF Kept, Require, Bail
<1>11. /\ Kept(PushText, s) \subseteq Seq(Kinds) /\ Kept(Strcmp, s) \subseteq Seq(Kinds)
       /\ Kept(Script, s) \subseteq Seq(Kinds)
  BY <1>1, KindsOfEntities, SMT DEF Kept, PushText, Strcmp, Script
<1>12. \A k \in Int : Kept(MetaTable(k), s) \subseteq Seq(Kinds)
  <2>1. "metatable" \in Kinds
    BY DEF Kinds
  <2> QED
    BY <1>1, <2>1, SMT DEF Kept, MetaTable
<1>13. /\ \A ks \in Seq(Int) : Kept(Pass(ks), s) \subseteq Seq(Kinds)
       /\ Kept(PassEntity, s) \subseteq Seq(Kinds) /\ Kept(PassAlpha, s) \subseteq Seq(Kinds)
  BY SMT DEF Kept, Pass, PassEntity, PassAlpha
<1>14. CASE i \in NativeInstr
  BY <1>2, <1>3, <1>4, <1>5, <1>6, <1>7, <1>8, <1>9, <1>10, <1>11, <1>14, NativeCases
<1>15. CASE i \notin NativeInstr
  BY <1>12, <1>13, <1>15, InstrCases
<1> QED
  BY <1>14, <1>15

LEMMA LeftTyped ==
  ASSUME NEW i \in Instr, NEW s \in Seq(Kinds), NEW p, Legal(i, s, p)
  PROVE  Left(i, s) \subseteq Seq(Kinds)
<1>1. ASSUME NEW n \in Nat, i = Require(n) \/ i = Bail(n)
      PROVE  Left(i, s) \subseteq Seq(Kinds)
  <2>1. n <= Len(s)
    BY <1>1, SMT DEF Legal, Require, Bail
  <2>2. Left(i, s) \subseteq {Under(s, n)}
    BY <1>1, SMT DEF Left, Require, Bail
  <2> QED
    BY <2>1, <2>2, UnderTyped
<1>2. i[1] \notin {"require", "bail"} => Left(i, s) = {}
  BY SMT DEF Left
<1>3. i[1] \in {"require", "bail"} => \E n \in Nat : i = Require(n) \/ i = Bail(n)
  <2>1. CASE i \in NativeInstr
    BY <2>1, NativeCases, SMT DEF Value, GetField, Push, GetTable, SetField, Call, Pop, Require, Bail,
       Read, PushText, Strcmp, Script
  <2>2. CASE i \notin NativeInstr
    BY <2>2, InstrCases, SMT DEF MetaTable, Pass, PassEntity, PassAlpha
  <2> QED
    BY <2>1, <2>2
<1> QED
  BY <1>1, <1>2, <1>3

(* The natives pass nothing. *)
LEMMA NativePasses ==
  ASSUME NEW i \in NativeInstr, NEW s, NEW p
  PROVE  Passes(i, s, p) = {p}
<1>1. i[1] \notin {"pass", "passentity", "passalpha"}
  BY NativeCases, SMT DEF Value, GetField, Push, GetTable, SetField, Call, Pop, Require, Bail,
     Read, PushText, Strcmp, Script
<1> QED
  BY <1>1, SMT DEF Passes

LEMMA PassedMore ==
  ASSUME NEW p \in PassedType, NEW a \in Seq(Kinds \cup {"255"})
  PROVE  Append(p, a) \in PassedType
<1> DEFINE T == Seq(Kinds \cup {"255"})
<1> HIDE DEF T
<1>1. p \in Seq(T) /\ a \in T /\ PassedType = Seq(T)
  BY DEF PassedType, T
<1> QED
  BY <1>1

LEMMA PassedLast ==
  ASSUME NEW p \in PassedType, p # <<>>, NEW a \in Kinds \cup {"255"}
  PROVE  Append(Front(p), Append(Last(p), a)) \in PassedType
<1> DEFINE T == Seq(Kinds \cup {"255"})
<1> HIDE DEF T
<1>1. p \in Seq(T) /\ PassedType = Seq(T)
  BY DEF PassedType, T
<1>2. Len(p) > 0
  BY <1>1
<1>3. Last(p) \in T /\ Front(p) \in Seq(T)
  BY <1>1, <1>2 DEF Last, Front
<1>4. Append(Last(p), a) \in T
  BY <1>3 DEF T
<1> QED
  BY <1>1, <1>3, <1>4

LEMMA PassesTyped ==
  ASSUME NEW i \in Instr, NEW s \in Seq(Kinds), NEW p \in PassedType, Legal(i, s, p)
  PROVE  Passes(i, s, p) \subseteq PassedType
<1>1. CASE i \in NativeInstr
  BY <1>1, NativePasses
<1>2. ASSUME NEW k \in Int, i = MetaTable(k) PROVE Passes(i, s, p) \subseteq PassedType
  BY <1>2, SMT DEF Passes, MetaTable
<1>3. ASSUME NEW ks \in Seq(Int), i = Pass(ks) PROVE Passes(i, s, p) \subseteq PassedType
  <2> DEFINE a == [j \in DOMAIN ks |-> At(s, ks[j])]
  <2>1. \A j \in DOMAIN ks : Mine(s, ks[j])
    BY <1>3, SMT DEF Legal, Pass
  <2>2. \A j \in DOMAIN ks : At(s, ks[j]) \in Kinds \cup {"255"}
    BY <2>1, AtTyped
  <2>3. a \in Seq(Kinds \cup {"255"})
    BY <2>2
  <2>4. Passes(i, s, p) = {Append(p, a)}
    BY <1>3, SMT DEF Passes, Pass
  <2> HIDE DEF a
  <2> QED
    BY <2>3, <2>4, PassedMore, Zenon
<1>4. ASSUME i = PassEntity PROVE Passes(i, s, p) \subseteq PassedType
  <2> DEFINE x == At(s, -1)
             a == IF x = "zero" THEN <<>> ELSE <<x>>
  <2>1. x \in Numbers
    BY <1>4, SMT DEF Legal, PassEntity
  <2>2. x \in Kinds \cup {"255"}
    BY <2>1 DEF Kinds, Outputs
  <2> HIDE DEF x
  <2>3. <<>> \in Seq(Kinds \cup {"255"}) /\ <<x>> \in Seq(Kinds \cup {"255"})
    BY <2>2
  <2>4. a \in Seq(Kinds \cup {"255"})
    BY <2>3
  <2>5. Passes(i, s, p) = {Append(p, a)}
    BY <1>4, SMT DEF Passes, PassEntity, x
  <2> HIDE DEF a
  <2> QED
    BY <2>4, <2>5, PassedMore, Zenon
<1>5. ASSUME i = PassAlpha PROVE Passes(i, s, p) \subseteq PassedType
  <2>1. s # <<>> /\ p # <<>>
    BY <1>5, SMT DEF Legal, PassAlpha
  <2>2. At(s, -1) \in Kinds \cup {"255"}
    BY <2>1 DEF At, Slot
  <2>3. Passes(i, s, p) = {Append(Front(p), Append(Last(p), a)) : a \in {At(s, -1), "255"}}
    BY <1>5, SMT DEF Passes, PassAlpha
  <2>4. \A a \in {At(s, -1), "255"} : Append(Front(p), Append(Last(p), a)) \in PassedType
    BY <2>1, <2>2, PassedLast
  <2> QED
    BY <2>3, <2>4, Zenon
<1> QED
  BY <1>1, <1>2, <1>3, <1>4, <1>5, InstrCases

LEMMA CodeSteps ==
  ASSUME NEW nm, NEW c \in Codes(nm), c # <<>>
  PROVE  /\ Head(c) \in Instr /\ Tail(c) \in Codes(nm)
         /\ nm \in DOMAIN Natives => Head(c) \in NativeInstr
<1>1. \A S : c \in Seq(S) => Head(c) \in S /\ Tail(c) \in Seq(S)
  OBVIOUS
<1>2. c \in Seq(Instr)
  BY CodesAreSequences
<1>3. CASE nm \in DOMAIN Natives
  <2>1. Codes(nm) = Seq(NativeInstr)
    BY <1>3 DEF Codes
  <2> QED
    BY <1>1, <1>2, <2>1, Zenon
<1>4. CASE nm \notin DOMAIN Natives
  <2>1. Codes(nm) = Seq(Instr)
    BY <1>4 DEF Codes
  <2> QED
    BY <1>1, <1>4, <2>1, Zenon
<1> QED
  BY <1>3, <1>4

(* A safe configuration stays safe when its next instruction works. *)
LEMMA SafeSteps ==
  ASSUME NEW nm, NEW c, NEW s, NEW p, Safe(nm, c, s, p), c # <<>>, Legal(Head(c), s, p)
  PROVE  /\ \A t \in Kept(Head(c), s) : \A q \in Passes(Head(c), s, p) : Safe(nm, Tail(c), t, q)
         /\ \A t \in Left(Head(c), s) : Safe(nm, <<>>, t, p)
<1>1. Fine(nm, c, s, p, Good)
  BY SafeIsFine
<1> QED
  BY <1>1, Zenon DEF Fine, Follow, Safe

LEMMA Executed ==
  ASSUME NEW st, NEW fr, NEW ps, NEW ca, NEW fa, Sane(st, fr, ps, ca, fa), Len(fr) > 0,
         NEW c, c = fr[Len(fr)].code, c # <<>>, NEW s, s = Part(st, fr, Len(fr)), Legal(Head(c), s, ps)
  PROVE  /\ fa = FALSE
         /\ \A t \in Kept(Head(c), s) : \A q \in Passes(Head(c), s, ps) :
              Sane(SubSeq(st, 1, fr[Len(fr)].base) \o t, [fr EXCEPT ![Len(fr)].code = Tail(c)], q, ca, fa)
         /\ \A t \in Left(Head(c), s) :
              Sane(SubSeq(st, 1, fr[Len(fr)].base) \o t, [fr EXCEPT ![Len(fr)].code = <<>>], ps, ca, fa)
<1> DEFINE n  == Len(fr)
           nm == fr[n].name
<1>1. /\ Stacked(st, fr) /\ Running(st, fr, ps) /\ ps \in PassedType /\ fa \in BOOLEAN
      /\ fa => Faulty(st, fr, ps)
  BY Zenon DEF Sane
<1>2. fa = FALSE
  BY <1>1 DEF Faulty
<1>3. n \in 1 .. Len(fr) /\ fr \in Seq(Frame)
  <2>1. fr \in Seq(Frame)
    BY <1>1 DEF Stacked
  <2> QED
    BY <2>1
<1>4. s \in Seq(Kinds) /\ nm \in Names /\ c \in Codes(nm)
  BY <1>1, <1>3, PartTyped
<1>5. Len(fr) > 1 => nm \in DOMAIN Natives
  BY <1>1, <1>3 DEF Stacked
<1>6. ~fr[n].skew => Safe(nm, c, s, ps)
  BY <1>1, <1>3 DEF Running
<1> HIDE DEF nm, n
<1>7. Head(c) \in Instr /\ Tail(c) \in Codes(nm) /\ (nm \in DOMAIN Natives => Head(c) \in NativeInstr)
  BY <1>4, CodeSteps
<1>8. <<>> \in Codes(nm)
  BY CodesAreSequences
<1>9. Kept(Head(c), s) \subseteq Seq(Kinds) /\ Left(Head(c), s) \subseteq Seq(Kinds)
  BY <1>4, <1>7, KeptTyped, LeftTyped
<1>10. Passes(Head(c), s, ps) \subseteq PassedType
  BY <1>1, <1>4, <1>7, PassesTyped
<1>11. Len(fr) > 1 => Passes(Head(c), s, ps) = {ps}
  BY <1>5, <1>7, NativePasses
<1>12. Sane(st, fr, ps, ca, FALSE)
  BY <1>2
<1>13. ASSUME NEW t \in Kept(Head(c), s), NEW q \in Passes(Head(c), s, ps)
       PROVE  Sane(SubSeq(st, 1, fr[Len(fr)].base) \o t, [fr EXCEPT ![Len(fr)].code = Tail(c)], q, ca, FALSE)
  <2>1. t \in Seq(Kinds) /\ q \in PassedType /\ (Len(fr) > 1 => q = ps)
    BY <1>9, <1>10, <1>11
  <2>2. ~fr[Len(fr)].skew => Safe(fr[Len(fr)].name, Tail(c), t, q)
    BY <1>6, SafeSteps DEF nm, n
  <2>3. Tail(c) \in Codes(fr[Len(fr)].name)
    BY <1>7 DEF nm, n
  <2> QED
    BY <1>12, <2>1, <2>2, <2>3, Advance, Zenon
<1>14. ASSUME NEW t \in Left(Head(c), s)
       PROVE  Sane(SubSeq(st, 1, fr[Len(fr)].base) \o t, [fr EXCEPT ![Len(fr)].code = <<>>], ps, ca, FALSE)
  <2>1. t \in Seq(Kinds) /\ ps \in PassedType
    BY <1>1, <1>9
  <2>2. ~fr[Len(fr)].skew => Safe(fr[Len(fr)].name, <<>>, t, ps)
    BY <1>6, SafeSteps DEF nm, n
  <2>3. <<>> \in Codes(fr[Len(fr)].name)
    BY <1>8 DEF nm, n
  <2> QED
    BY <1>12, <2>1, <2>2, <2>3, Advance, Zenon
<1> QED
  BY <1>2, <1>13, <1>14, Zenon

LEMMA CurrentPart ==
  ASSUME IInv, frames # <<>>
  PROVE  /\ Len(frames) > 0 /\ frames \in Seq(Frame) /\ Cur = frames[Len(frames)]
         /\ Own = Part(stack, frames, Len(frames)) /\ Cur.base \in 0 .. Len(stack)
         /\ stack \in Seq(Kinds) /\ Own \in Seq(Kinds)
<1>1. Stacked(stack, frames)
  BY Zenon DEF IInv, Sane
<1>2. frames \in Seq(Frame)
  BY <1>1 DEF Stacked
<1>3. Len(frames) \in Nat /\ Len(frames) > 0
  BY <1>2
<1>4. Len(frames) \in 1 .. Len(frames)
  BY <1>3
<1>5. Cur = frames[Len(frames)]
  BY DEF Cur, Last
<1>6. Own = Part(stack, frames, Len(frames))
  BY <1>5 DEF Own, Part
<1> QED
  BY <1>1, <1>2, <1>3, <1>4, <1>5, <1>6, PartTyped

LEMMA Stepping ==
  ASSUME IInv, NEW op, Executing(op), NEW t \in Kept(Op, Own), Become(t),
         passed' \in Passes(Op, Own, passed), Continue
  PROVE  IInv'
<1> DEFINE c == frames[Len(frames)].code
           s == Own
<1>1. frames # <<>> /\ Cur.code # <<>> /\ Legal(Op, Own, passed)
  BY DEF Executing
<1>2. /\ Len(frames) > 0 /\ Cur = frames[Len(frames)]
      /\ Own = Part(stack, frames, Len(frames))
  BY <1>1, CurrentPart
<1>3. c # <<>> /\ Op = Head(c)
  BY <1>1, <1>2 DEF Op
<1>4. Sane(stack, frames, passed, calls, fault)
  BY DEF IInv
<1>5. /\ stack' = SubSeq(stack, 1, frames[Len(frames)].base) \o t
      /\ frames' = [frames EXCEPT ![Len(frames)].code = Tail(c)]
      /\ calls' = calls /\ fault' = fault
  BY <1>2 DEF Become, Continue
<1>6. Legal(Head(c), s, passed) /\ t \in Kept(Head(c), s) /\ passed' \in Passes(Head(c), s, passed)
  BY <1>1, <1>3
<1>7. c = frames[Len(frames)].code /\ s = Part(stack, frames, Len(frames))
  BY <1>2
<1> HIDE DEF c, s
<1>8. Sane(SubSeq(stack, 1, frames[Len(frames)].base) \o t, [frames EXCEPT ![Len(frames)].code = Tail(c)],
           passed', calls, fault)
  BY <1>2, <1>3, <1>4, <1>6, <1>7, Executed, Zenon
<1> QED
  BY <1>5, <1>8, Zenon DEF IInv

LEMMA Leaving ==
  ASSUME IInv, NEW op, Executing(op), NEW n, Under(Own, n) \in Left(Op, Own), Leave(n)
  PROVE  IInv'
<1> DEFINE c == frames[Len(frames)].code
           s == Own
           t == Under(Own, n)
<1>1. frames # <<>> /\ Cur.code # <<>> /\ Legal(Op, Own, passed)
  BY DEF Executing
<1>2. /\ Len(frames) > 0 /\ Cur = frames[Len(frames)]
      /\ Own = Part(stack, frames, Len(frames))
  BY <1>1, CurrentPart
<1>3. c # <<>> /\ Op = Head(c)
  BY <1>1, <1>2 DEF Op
<1>4. Sane(stack, frames, passed, calls, fault)
  BY DEF IInv
<1>5. /\ stack' = SubSeq(stack, 1, frames[Len(frames)].base) \o t
      /\ frames' = [frames EXCEPT ![Len(frames)].code = <<>>]
      /\ passed' = passed /\ calls' = calls /\ fault' = fault
  BY <1>2 DEF Become, Leave
<1>6. Legal(Head(c), s, passed) /\ t \in Left(Head(c), s)
  BY <1>1, <1>3
<1>7. c = frames[Len(frames)].code /\ s = Part(stack, frames, Len(frames))
  BY <1>2
<1> HIDE DEF c, s, t
<1>8. Sane(SubSeq(stack, 1, frames[Len(frames)].base) \o t, [frames EXCEPT ![Len(frames)].code = <<>>],
           passed, calls, fault)
  BY <1>2, <1>3, <1>4, <1>6, <1>7, Executed, Zenon
<1> QED
  BY <1>5, <1>8, Zenon DEF IInv

LEMMA Staying ==
  ASSUME IInv, frames # <<>>, UNCHANGED stack
  PROVE  Become(Own)
<1>1. Cur.base \in 0 .. Len(stack) /\ stack \in Seq(Kinds)
  BY CurrentPart
<1>2. SubSeq(stack, 1, Cur.base) \o SubSeq(stack, Cur.base + 1, Len(stack)) = stack
  BY <1>1, CutAndKept
<1> QED
  BY <1>2 DEF Become, Own

(* Instructions that leave the values as they are. *)
LEMMA Looking ==
  ASSUME IInv, NEW op, Executing(op), UNCHANGED stack, Own \in Kept(Op, Own),
         passed' \in Passes(Op, Own, passed), Continue
  PROVE  IInv'
<1>1. frames # <<>>
  BY DEF Executing
<1>2. Become(Own)
  BY <1>1, Staying
<1> QED
  BY <1>2, Stepping

LEMMA InstructionSteps ==
  ASSUME IInv,
         \/ PushValue \/ DoPushText \/ DoGetField \/ DoPush \/ DoCall \/ DoPop \/ DoGetTable
         \/ DoSetField \/ DoMetaTable \/ DoRead \/ DoRequire \/ DoBail \/ DoScript
         \/ DoPass \/ DoPassEntity \/ DoPassAlpha
  PROVE  IInv'
<1> DEFINE i == Op
           s == Own
<1>0. \A op : Executing(op) => i[1] = op
  BY DEF Executing
<1> HIDE DEF i, s
<1>1. CASE PushValue
  <2>1. Executing("value") /\ Become(Append(s, i[2])) /\ Continue /\ passed' = passed
    BY <1>1 DEF PushValue, Step, i, s
  <2>2. Append(s, i[2]) \in Kept(i, s) /\ passed' \in Passes(i, s, passed)
    <3>1. i[1] = "value"
      BY <1>0, <2>1
    <3>2. Kept(i, s) = {Append(s, i[2])} /\ Passes(i, s, passed) = {passed}
      BY <3>1, SMT DEF Kept, Passes
    <3> QED
      BY <2>1, <3>2, Zenon
  <2> QED
    BY <2>1, <2>2, Stepping, Zenon DEF i, s
<1>2. CASE DoPushText
  <2>1. PICK ok \in Convertible : /\ Executing("pushtext") /\ Become(IF ok THEN Append(s, "str") ELSE s)
                                  /\ Continue /\ passed' = passed
    BY <1>2 DEF DoPushText, Step, s
  <2>2. (IF ok THEN Append(s, "str") ELSE s) \in Kept(i, s) /\ passed' \in Passes(i, s, passed)
    <3>1. i[1] = "pushtext"
      BY <1>0, <2>1
    <3>2. Kept(i, s) = {s, Append(s, "str")} /\ Passes(i, s, passed) = {passed}
      BY <3>1, SMT DEF Kept, Passes
    <3> QED
      BY <2>1, <3>2, Zenon
  <2> QED
    BY <2>1, <2>2, Stepping, Zenon DEF i, s
<1>3. CASE DoGetField
  <2>1. Executing("getfield") /\ Become(Append(s, i[3])) /\ Continue /\ passed' = passed
    BY <1>3 DEF DoGetField, Step, i, s
  <2>2. Append(s, i[3]) \in Kept(i, s) /\ passed' \in Passes(i, s, passed)
    <3>1. i[1] = "getfield"
      BY <1>0, <2>1
    <3>2. Kept(i, s) = {Append(s, i[3])} /\ Passes(i, s, passed) = {passed}
      BY <3>1, SMT DEF Kept, Passes
    <3> QED
      BY <2>1, <3>2, Zenon
  <2> QED
    BY <2>1, <2>2, Stepping, Zenon DEF i, s
<1>4. CASE DoPush
  <2>1. Executing("push") /\ Become(Append(s, At(s, i[2]))) /\ Continue /\ passed' = passed
    BY <1>4 DEF DoPush, Step, i, s
  <2>2. Append(s, At(s, i[2])) \in Kept(i, s) /\ passed' \in Passes(i, s, passed)
    <3>1. i[1] = "push"
      BY <1>0, <2>1
    <3>2. Kept(i, s) = {Append(s, At(s, i[2]))} /\ Passes(i, s, passed) = {passed}
      BY <3>1, SMT DEF Kept, Passes
    <3> QED
      BY <2>1, <3>2, Zenon
  <2> QED
    BY <2>1, <2>2, Stepping, Zenon DEF i, s
<1>5. CASE DoCall
  <2>1. Executing("call") /\ Continue /\ passed' = passed
    BY <1>5 DEF DoCall, Step
  <2>2. \/ i[3] = 0 /\ Become(Under(s, i[2] + 1))
        \/ /\ i[3] = 1
           /\ \E r \in Results(At(s, -(i[2] + 1)), Args(s, i[2])) : Become(Append(Under(s, i[2] + 1), r))
    BY <1>5 DEF DoCall, i, s
  <2>3. passed' \in Passes(i, s, passed) /\ i[1] = "call"
    BY <1>0, <2>1, SMT DEF Kept, Passes, Left
  <2>4. CASE i[3] = 0 /\ Become(Under(s, i[2] + 1))
    <3>1. Under(s, i[2] + 1) \in Kept(i, s)
      BY <2>3, <2>4, SMT DEF Kept, Passes, Left
    <3> QED
      BY <2>1, <2>3, <2>4, <3>1, Stepping, Zenon DEF i, s
  <2>5. ASSUME i[3] = 1, NEW r \in Results(At(s, -(i[2] + 1)), Args(s, i[2])),
               Become(Append(Under(s, i[2] + 1), r))
        PROVE  IInv'
    <3>1. Append(Under(s, i[2] + 1), r) \in Kept(i, s)
      BY <2>3, <2>5, SMT DEF Kept, Passes, Left
    <3> QED
      BY <2>1, <2>3, <2>5, <3>1, Stepping, Zenon DEF i, s
  <2> QED
    BY <2>2, <2>4, <2>5, Zenon
<1>6. CASE DoPop
  <2>1. Executing("pop") /\ Become(Under(s, i[2])) /\ Continue /\ passed' = passed
    BY <1>6 DEF DoPop, Step, i, s
  <2>2. Under(s, i[2]) \in Kept(i, s) /\ passed' \in Passes(i, s, passed)
    BY <1>0, <2>1, SMT DEF Kept, Passes, Left
  <2> QED
    BY <2>1, <2>2, Stepping, Zenon DEF i, s
<1>7. CASE DoGetTable
  <2>1. PICK v \in IF At(s, i[2]) = "table" THEN {"nil"} ELSE {Component[At(s, -1)]} :
          Executing("gettable") /\ Become(Append(Under(s, 1), v)) /\ Continue /\ passed' = passed
    BY <1>7 DEF DoGetTable, Step, i, s
  <2>2. v = IF At(s, i[2]) = "table" THEN "nil" ELSE Component[At(s, -1)]
    OBVIOUS
  <2>3. Append(Under(s, 1), v) \in Kept(i, s) /\ passed' \in Passes(i, s, passed)
    <3>1. i[1] = "gettable"
      BY <1>0, <2>1
    <3>2. Kept(i, s) = {Append(Under(s, 1), IF At(s, i[2]) = "table" THEN "nil" ELSE Component[At(s, -1)])} /\ Passes(i, s, passed) = {passed}
      BY <3>1, SMT DEF Kept, Passes
    <3> QED
      BY <2>1, <2>2, <3>2, Zenon
  <2> QED
    BY <2>1, <2>3, Stepping, Zenon DEF i, s
<1>8. CASE DoSetField
  <2>1. Executing("setfield") /\ Become(Under(s, 1)) /\ Continue /\ passed' = passed
    BY <1>8 DEF DoSetField, Step, s
  <2>2. Under(s, 1) \in Kept(i, s) /\ passed' \in Passes(i, s, passed)
    BY <1>0, <2>1, SMT DEF Kept, Passes, Left
  <2> QED
    BY <2>1, <2>2, Stepping, Zenon DEF i, s
<1>9. CASE DoMetaTable
  <2>1. Executing("metatable") /\ Become(Append(s, "metatable")) /\ Continue /\ passed' = passed
    BY <1>9 DEF DoMetaTable, Step, s
  <2>2. Append(s, "metatable") \in Kept(i, s) /\ passed' \in Passes(i, s, passed)
    BY <1>0, <2>1, SMT DEF Kept, Passes, Left
  <2> QED
    BY <2>1, <2>2, Stepping, Zenon DEF i, s
<1>10. CASE DoRead \/ DoScript
  <2>1. PICK op \in {"read", "script"} : Executing(op) /\ UNCHANGED stack /\ Continue /\ passed' = passed
    BY <1>10 DEF DoRead, DoScript, Step
  <2>2. s \in Kept(i, s) /\ passed' \in Passes(i, s, passed)
    BY <1>0, <2>1, SMT DEF Kept, Passes, Left
  <2> QED
    BY <2>1, <2>2, Looking, Zenon DEF i, s
<1>11. CASE DoRequire
  <2>1. Executing("require") /\ i[1] = "require"
    BY <1>0, <1>11 DEF DoRequire
  <2>2. \/ At(s, -1) = "true" /\ Continue /\ passed' = passed /\ UNCHANGED stack
        \/ At(s, -1) = "false" /\ Leave(i[2])
    BY <1>11 DEF DoRequire, Step, i, s
  <2>3. CASE At(s, -1) = "true" /\ Continue /\ passed' = passed /\ UNCHANGED stack
    <3>1. s \in Kept(i, s) /\ passed' \in Passes(i, s, passed)
      BY <2>1, <2>3, SMT DEF Kept, Passes, Left
    <3> QED
      BY <2>1, <2>3, <3>1, Looking, Zenon DEF i, s
  <2>4. CASE At(s, -1) = "false" /\ Leave(i[2])
    <3>1. Under(s, i[2]) \in Left(i, s)
      BY <2>1, <2>4, SMT DEF Kept, Passes, Left
    <3> QED
      BY <2>1, <2>4, <3>1, Leaving, Zenon DEF i, s
  <2> QED
    BY <2>2, <2>3, <2>4, Zenon
<1>12. CASE DoBail
  <2>1. Executing("bail") /\ i[1] = "bail"
    BY <1>0, <1>12 DEF DoBail
  <2>2. \/ Continue /\ passed' = passed /\ UNCHANGED stack
        \/ Leave(i[2])
    BY <1>12 DEF DoBail, Step, i
  <2>3. CASE Continue /\ passed' = passed /\ UNCHANGED stack
    <3>1. s \in Kept(i, s) /\ passed' \in Passes(i, s, passed)
      BY <2>1, <2>3, SMT DEF Kept, Passes, Left
    <3> QED
      BY <2>1, <2>3, <3>1, Looking, Zenon DEF i, s
  <2>4. CASE Leave(i[2])
    <3>1. Under(s, i[2]) \in Left(i, s)
      BY <2>1, SMT DEF Kept, Passes, Left
    <3> QED
      BY <2>1, <2>4, <3>1, Leaving, Zenon DEF i, s
  <2> QED
    BY <2>2, <2>3, <2>4, Zenon
<1>13. CASE DoPass
  <2>1. /\ Executing("pass") /\ Continue /\ UNCHANGED stack
        /\ passed' = Append(passed, [j \in DOMAIN i[2] |-> At(s, i[2][j])])
    BY <1>13 DEF DoPass, i, s
  <2>2. s \in Kept(i, s) /\ passed' \in Passes(i, s, passed)
    <3>1. i[1] = "pass"
      BY <1>0, <2>1
    <3>2. Kept(i, s) = {s} /\ Passes(i, s, passed) = {Append(passed, [j \in DOMAIN i[2] |-> At(s, i[2][j])])}
      BY <3>1, SMT DEF Kept, Passes
    <3> QED
      BY <2>1, <3>2, Zenon
  <2> QED
    BY <2>1, <2>2, Looking, Zenon DEF i, s
<1>14. CASE DoPassEntity
  <2>1. /\ Executing("passentity") /\ Continue /\ UNCHANGED stack
        /\ passed' = Append(passed, IF At(s, -1) = "zero" THEN <<>> ELSE <<At(s, -1)>>)
    BY <1>14 DEF DoPassEntity, s
  <2>2. s \in Kept(i, s) /\ passed' \in Passes(i, s, passed)
    <3>1. i[1] = "passentity"
      BY <1>0, <2>1
    <3>2. Kept(i, s) = {s} /\ Passes(i, s, passed) = {Append(passed, IF At(s, -1) = "zero" THEN <<>> ELSE <<At(s, -1)>>)}
      BY <3>1, SMT DEF Kept, Passes
    <3> QED
      BY <2>1, <3>2, Zenon
  <2> QED
    BY <2>1, <2>2, Looking, Zenon DEF i, s
<1>15. CASE DoPassAlpha
  <2>1. PICK a \in {At(s, -1), "255"} :
          /\ Executing("passalpha") /\ Continue /\ UNCHANGED stack
          /\ passed' = Append(Front(passed), Append(Last(passed), a))
    BY <1>15 DEF DoPassAlpha, s
  <2>2. s \in Kept(i, s) /\ passed' \in Passes(i, s, passed)
    BY <1>0, <2>1, SMT DEF Kept, Passes, Left
  <2> QED
    BY <2>1, <2>2, Looking, Zenon DEF i, s
<1> QED
  BY <1>1, <1>2, <1>3, <1>4, <1>5, <1>6, <1>7, <1>8, <1>9, <1>10, <1>11, <1>12, <1>13, <1>14, <1>15, Zenon

LEMMA Begun ==
  ASSUME NEW r \in DOMAIN Roots, NEW f \in Roots[r], NEW ca \in 0 .. MaxCalls
  PROVE  Sane(f.args, <<[name |-> r, code |-> f.code, base |-> 0, skew |-> FALSE]>>, <<>>, ca, FALSE)
<1> DEFINE st == f.args
           c  == f.code
           e  == [name |-> r, code |-> c, base |-> 0, skew |-> FALSE]
           fr == <<e>>
<1>1. Safe(r, c, st, <<>>)
  BY RootsSafe
<1>2. r \in Names /\ c \in Codes(r) /\ c \in Seq(Instr) /\ st \in Seq(Kinds) /\ <<>> \in PassedType
  BY <1>1, SafeTyped, CodesAreSequences
<1>3. r \notin DOMAIN Natives
  BY NamesApart
<1> HIDE DEF st, c
<1>4. e \in Frame /\ e.name = r /\ e.code = c /\ e.base = 0 /\ e.skew = FALSE
  BY <1>2 DEF Frame
<1> HIDE DEF e
<1>5. fr \in Seq(Frame) /\ Len(fr) = 1 /\ fr[1] = e
  BY <1>4
<1> HIDE DEF fr
<1>6. Part(st, fr, 1) = st
  <2>1. Part(st, fr, 1) = SubSeq(st, 0 + 1, Len(st))
    BY <1>4, <1>5 DEF Part
  <2> QED
    BY <1>2, <2>1, WholeSuffix
<1>7. Stacked(st, fr)
  <2>1. Len(st) \in Nat
    BY <1>2
  <2> QED
    BY <1>2, <1>3, <1>4, <1>5, <2>1 DEF Stacked
<1>8. Running(st, fr, <<>>)
  BY <1>1, <1>4, <1>5, <1>6 DEF Running
<1>9. Counted(fr, ca)
  BY <1>4, <1>5 DEF Counted
<1>10. Sane(st, fr, <<>>, ca, FALSE)
  BY <1>2, <1>7, <1>8, <1>9 DEF Sane
<1> QED
  BY <1>10 DEF fr, e, st, c

LEMMA Entered ==
  ASSUME NEW st, NEW fr, NEW ps, NEW ca, Sane(st, fr, ps, ca, FALSE), Len(fr) > 0,
         NEW n \in DOMAIN Natives, NEW c \in Natives[n], ca < MaxCalls
  PROVE  Sane(st, Append(fr, [name |-> n, code |-> c, base |-> Len(st), skew |-> FALSE]), ps, ca + 1, FALSE)
<1> DEFINE e == [name |-> n, code |-> c, base |-> Len(st), skew |-> FALSE]
           g == Append(fr, e)
           m == Len(fr)
<1>1. Stacked(st, fr) /\ Running(st, fr, ps) /\ Counted(fr, ca) /\ ps \in PassedType
  BY DEF Sane
<1>2. Safe(n, c, <<>>, ps)
  BY <1>1, NativesSafe
<1>3. n \in Names /\ c \in Codes(n) /\ c \in Seq(Instr)
  BY <1>2, SafeTyped, CodesAreSequences
<1>4. st \in Seq(Kinds) /\ fr \in Seq(Frame)
  BY <1>1 DEF Stacked
<1>5. Len(st) \in Nat /\ m \in Nat
  BY <1>4
<1>6. e \in Frame /\ e.name = n /\ e.code = c /\ e.base = Len(st) /\ e.skew = FALSE
  BY <1>3, <1>5 DEF Frame
<1> HIDE DEF e
<1>7. g \in Seq(Frame) /\ Len(g) = m + 1 /\ g[m + 1] = e /\ \A i \in 1 .. m : g[i] = fr[i]
  BY <1>4, <1>6
<1> HIDE DEF g
<1>8. \A i \in 1 .. m : fr[i].base \in 0 .. Len(st)
  BY <1>1, PartTyped
<1>9. Stacked(st, g)
  <2>1. ASSUME NEW i \in 1 .. m + 1
        PROVE  /\ g[i].code \in Codes(g[i].name) /\ g[i].base <= Len(st)
               /\ (i > 1) <=> g[i].name \in DOMAIN Natives
               /\ \A j \in 1 .. m + 1 : i <= j => g[i].base <= g[j].base
    <3>1. CASE i = m + 1
      BY <1>3, <1>5, <1>6, <1>7, <3>1
    <3>2. CASE i # m + 1
      <4>1. i \in 1 .. m /\ g[i] = fr[i]
        BY <1>5, <1>7, <3>2
      <4>2. /\ fr[i].code \in Codes(fr[i].name) /\ fr[i].base <= Len(st)
            /\ (i > 1) <=> fr[i].name \in DOMAIN Natives
            /\ \A j \in 1 .. m : i <= j => fr[i].base <= fr[j].base
        BY <1>1, <4>1 DEF Stacked
      <4>3. ASSUME NEW j \in 1 .. m + 1, i <= j PROVE g[i].base <= g[j].base
        <5>1. CASE j = m + 1
          BY <1>6, <1>7, <4>1, <4>2, <5>1
        <5>2. CASE j # m + 1
          <6>1. j \in 1 .. m /\ g[j] = fr[j]
            BY <1>5, <1>7, <5>2
          <6> QED
            BY <4>1, <4>2, <4>3, <6>1
        <5> QED
          BY <5>1, <5>2
      <4> QED
        BY <4>1, <4>2, <4>3
    <3> QED
      BY <3>1, <3>2
  <2>2. g[1].base = 0
    BY <1>1, <1>5, <1>7 DEF Stacked
  <2> QED
    BY <1>4, <1>7, <2>1, <2>2 DEF Stacked
<1>10. Running(st, g, ps)
  <2> SUFFICES ASSUME NEW i \in 1 .. m + 1, ~g[i].skew
               PROVE  Safe(g[i].name, g[i].code, Part(st, g, i), ps)
    BY <1>7 DEF Running
  <2>1. CASE i = m + 1
    <3>1. Part(st, g, i) = SubSeq(st, Len(st) + 1, Len(st))
      BY <1>6, <1>7, <2>1 DEF Part
    <3>2. SubSeq(st, Len(st) + 1, Len(st)) = <<>>
      BY <1>4, <1>5
    <3> QED
      BY <1>2, <1>6, <1>7, <2>1, <3>1, <3>2
  <2>2. CASE i # m + 1
    <3>1. i \in 1 .. m /\ g[i] = fr[i] /\ i # Len(g)
      BY <1>5, <1>7, <2>2
    <3>2. Part(st, g, i) = SubSeq(st, fr[i].base + 1, g[i + 1].base)
      BY <3>1 DEF Part
    <3>3. g[i + 1].base = IF i = m THEN Len(st) ELSE fr[i + 1].base
      <4>1. CASE i = m
        BY <1>6, <1>7, <4>1
      <4>2. CASE i # m
        <5>1. i + 1 \in 1 .. m
          BY <1>5, <3>1, <4>2
        <5> QED
          BY <1>7, <4>2, <5>1
      <4> QED
        BY <4>1, <4>2
    <3>4. Part(st, g, i) = Part(st, fr, i)
      BY <3>2, <3>3 DEF Part
    <3> QED
      BY <1>1, <3>1, <3>4 DEF Running
  <2> QED
    BY <2>1, <2>2
<1>11. Counted(g, ca + 1)
  <2>1. ca \in 0 .. MaxCalls /\ MaxCalls \in Nat
    BY <1>1, BridgeAssumption DEF Counted
  <2>2. ca + 1 \in 0 .. MaxCalls /\ ca + 1 > 0
    BY <2>1
  <2> QED
    BY <2>2 DEF Counted
<1>12. Sane(st, g, ps, ca + 1, FALSE)
  BY <1>1, <1>5, <1>7, <1>9, <1>10, <1>11 DEF Sane
<1> QED
  BY <1>12 DEF g, e

(* g are the frames without the innermost, which left values behind if b. *)
Uncovers(g, fr, b) ==
  /\ g \in Seq(Frame) /\ Len(g) = Len(fr) - 1
  /\ \A i \in 1 .. Len(fr) - 1 :
       /\ g[i].name = fr[i].name /\ g[i].base = fr[i].base /\ g[i].code = fr[i].code
       /\ g[i].skew = IF i = Len(fr) - 1 THEN fr[i].skew \/ b ELSE fr[i].skew

LEMMA Uncovered ==
  ASSUME NEW fr \in Seq(Frame), Len(fr) > 1, NEW b \in BOOLEAN, NEW f,
         f = [Front(fr) EXCEPT ![Len(fr) - 1].skew = @ \/ b]
  PROVE  Uncovers(f, fr, b)
<1> DEFINE n == Len(fr) - 1
           h == Front(fr)
           r == [h[n] EXCEPT !.skew = @ \/ b]
           g == [h EXCEPT ![n] = r]
<1>1. n \in Nat /\ n > 0 /\ n \in 1 .. Len(fr) /\ Len(fr) = n + 1
  OBVIOUS
<1>2. h \in Seq(Frame) /\ Len(h) = n /\ \A i \in 1 .. n : h[i] = fr[i]
  BY <1>1 DEF Front
<1>3. fr[n] \in Frame /\ h[n] = fr[n]
  BY <1>1, <1>2
<1>4. fr[n].skew \in BOOLEAN
  BY <1>3 DEF Frame
<1>5. fr[n].skew \/ b \in BOOLEAN
  BY <1>4
<1>6. /\ r \in Frame /\ r.name = fr[n].name /\ r.base = fr[n].base /\ r.code = fr[n].code
      /\ r.skew = (fr[n].skew \/ b)
  BY <1>3, <1>5 DEF Frame
<1> HIDE DEF r, h, n
<1>7. g \in Seq(Frame) /\ Len(g) = n /\ \A i \in 1 .. n : g[i] = IF i = n THEN r ELSE h[i]
  BY <1>1, <1>2, <1>6
<1> HIDE DEF g
<1>8. \A i \in 1 .. n :
        /\ g[i].name = fr[i].name /\ g[i].base = fr[i].base /\ g[i].code = fr[i].code
        /\ g[i].skew = IF i = n THEN fr[i].skew \/ b ELSE fr[i].skew
  BY <1>2, <1>6, <1>7
<1>9. f = g
  BY DEF g, r, h, n
<1> QED
  BY <1>7, <1>8, <1>9 DEF n, Uncovers

LEMMA NothingAbove ==
  ASSUME NEW S, NEW st \in Seq(S), NEW a \in 0 .. Len(st), SubSeq(st, a + 1, Len(st)) = <<>>
  PROVE  a = Len(st)
<1>1. Len(SubSeq(st, a + 1, Len(st))) = Len(st) - a /\ Len(<<>>) = 0
  OBVIOUS
<1>2. Len(st) - a = 0
  BY <1>1, Zenon
<1> QED
  BY <1>2

LEMMA Returned ==
  ASSUME NEW st, NEW fr, NEW ps, NEW ca, Sane(st, fr, ps, ca, FALSE), Len(fr) > 1,
         NEW b \in BOOLEAN, ~b => Part(st, fr, Len(fr)) = <<>>, NEW g, Uncovers(g, fr, b)
  PROVE  Sane(st, g, ps, ca, FALSE)
<1> DEFINE n == Len(fr) - 1
<1>1. Stacked(st, fr) /\ Running(st, fr, ps) /\ Counted(fr, ca) /\ ps \in PassedType
  BY DEF Sane
<1>2. st \in Seq(Kinds) /\ fr \in Seq(Frame)
  BY <1>1 DEF Stacked
<1>3. n \in Nat /\ n > 0 /\ Len(fr) = n + 1 /\ Len(st) \in Nat /\ n \in 1 .. Len(fr) /\ n + 1 \in 1 .. Len(fr)
  BY <1>2
<1>5. /\ g \in Seq(Frame) /\ Len(g) = n
      /\ \A i \in 1 .. n :
           /\ g[i].name = fr[i].name /\ g[i].base = fr[i].base /\ g[i].code = fr[i].code
           /\ g[i].skew = IF i = n THEN fr[i].skew \/ b ELSE fr[i].skew
  BY DEF Uncovers
<1> HIDE DEF n
<1>6. Stacked(st, g)
  <2>1. ASSUME NEW i \in 1 .. n
        PROVE  /\ g[i].code \in Codes(g[i].name) /\ g[i].base <= Len(st)
               /\ (i > 1) <=> g[i].name \in DOMAIN Natives
               /\ \A j \in 1 .. n : i <= j => g[i].base <= g[j].base
    <3>1. i \in 1 .. Len(fr)
      BY <1>3
    <3>2. /\ fr[i].code \in Codes(fr[i].name) /\ fr[i].base <= Len(st)
          /\ (i > 1) <=> fr[i].name \in DOMAIN Natives
          /\ \A j \in 1 .. Len(fr) : i <= j => fr[i].base <= fr[j].base
      BY <1>1, <3>1 DEF Stacked
    <3>3. \A j \in 1 .. n : j \in 1 .. Len(fr)
      BY <1>3
    <3> QED
      BY <1>5, <3>2, <3>3
  <2>2. g[1].base = 0
    <3>1. 1 \in 1 .. n /\ Len(fr) > 0
      BY <1>3
    <3>2. fr[1].base = 0
      BY <1>1, <3>1 DEF Stacked
    <3> QED
      BY <1>5, <3>1, <3>2
  <2> QED
    BY <1>2, <1>5, <2>1, <2>2 DEF Stacked
<1>7. Running(st, g, ps)
  <2> SUFFICES ASSUME NEW i \in 1 .. n, ~g[i].skew
               PROVE  Safe(g[i].name, g[i].code, Part(st, g, i), ps)
    BY <1>5 DEF Running
  <2>0. i \in 1 .. Len(fr) /\ i # Len(fr)
    BY <1>3
  <2>1. i \in 1 .. Len(fr) /\ i # Len(fr) /\ ~fr[i].skew
    BY <1>5, <2>0
  <2>2. Part(st, fr, i) = SubSeq(st, fr[i].base + 1, fr[i + 1].base)
    BY <2>1 DEF Part
  <2>3. Safe(fr[i].name, fr[i].code, Part(st, fr, i), ps)
    BY <1>1, <2>1 DEF Running
  <2>4. CASE i = n
    <3>1. ~b
      BY <1>5, <2>4
    <3>2. SubSeq(st, fr[n + 1].base + 1, Len(st)) = <<>>
      BY <1>3, <3>1 DEF Part
    <3>3. fr[n + 1].base \in 0 .. Len(st)
      BY <1>1, <1>3, PartTyped
    <3>4. fr[n + 1].base = Len(st)
      BY <1>2, <3>2, <3>3, NothingAbove
    <3>5. Part(st, g, i) = SubSeq(st, fr[i].base + 1, Len(st))
      BY <1>5, <2>4 DEF Part
    <3> QED
      BY <1>5, <2>2, <2>3, <2>4, <3>4, <3>5
  <2>5. CASE i # n
    <3>1. i + 1 \in 1 .. n
      BY <1>3, <2>5
    <3>2. Part(st, g, i) = SubSeq(st, fr[i].base + 1, fr[i + 1].base)
      BY <1>5, <2>5, <3>1 DEF Part
    <3> QED
      BY <1>5, <2>2, <2>3, <3>2
  <2> QED
    BY <2>4, <2>5
<1>8. Counted(g, ca)
  BY <1>1, <1>3, <1>5 DEF Counted
<1>9. Sane(st, g, ps, ca, FALSE)
  BY <1>1, <1>3, <1>5, <1>6, <1>7, <1>8 DEF Sane
<1> QED
  BY <1>9

LEMMA InitSane ==
  ASSUME Init
  PROVE  IInv
<1>1. stack = <<>> /\ frames = <<>> /\ passed = <<>> /\ calls = 0 /\ fault = FALSE
  BY DEF Init
<1>2. <<>> \in Seq(Kinds) /\ <<>> \in Seq(Frame) /\ Len(<<>>) = 0 /\ <<>> \in PassedType
  BY NamedOnly
<1>3. Stacked(stack, frames) /\ Running(stack, frames, passed) /\ Counted(frames, calls)
  BY <1>1, <1>2, BridgeAssumption DEF Stacked, Running, Counted
<1> QED
  BY <1>1, <1>2, <1>3 DEF IInv, Sane

LEMMA NextSane ==
  ASSUME IInv, [Next]_vars
  PROVE  IInv'
<1>1. /\ Sane(stack, frames, passed, calls, fault) /\ calls \in 0 .. MaxCalls
      /\ fault \in BOOLEAN /\ frames \in Seq(Frame)
      /\ fault => Faulty(stack, frames, passed)
      /\ Len(frames) = 0 => passed = <<>>
  BY DEF IInv, Sane, Counted, Stacked
<1>2. ASSUME NEW r \in DOMAIN Roots, Begin(r) PROVE IInv'
  <2>1. PICK f \in Roots[r] :
          /\ stack' = f.args
          /\ frames' = <<[name |-> r, code |-> f.code, base |-> 0, skew |-> FALSE]>>
    BY <1>2 DEF Begin
  <2>2. frames = <<>> /\ passed' = passed /\ calls' = calls /\ fault' = fault
    BY <1>2 DEF Begin
  <2>3. Len(frames) = 0
    BY <2>2
  <2>4. passed' = <<>> /\ fault' = FALSE /\ calls' \in 0 .. MaxCalls
    BY <1>1, <2>2, <2>3 DEF Faulty
  <2>5. Sane(f.args, <<[name |-> r, code |-> f.code, base |-> 0, skew |-> FALSE]>>, <<>>, calls', FALSE)
    BY <2>4, Begun, Zenon
  <2> QED
    BY <2>1, <2>4, <2>5, Zenon DEF IInv
<1>3. ASSUME NEW n \in DOMAIN Natives, Enter(n) PROVE IInv'
  <2>1. PICK c \in Natives[n] :
          frames' = Append(frames, [name |-> n, code |-> c, base |-> Len(stack), skew |-> FALSE])
    BY <1>3 DEF Enter
  <2>2. /\ Executing("script") /\ calls < MaxCalls /\ calls' = calls + 1
        /\ stack' = stack /\ passed' = passed /\ fault' = fault
    BY <1>3 DEF Enter
  <2>3. frames # <<>> /\ Cur.code # <<>> /\ Legal(Op, Own, passed)
    BY <2>2 DEF Executing
  <2>4. Len(frames) > 0 /\ Cur = frames[Len(frames)] /\ Own = Part(stack, frames, Len(frames))
    BY <2>3, CurrentPart
  <2>5. fault = FALSE
    BY <1>1, <2>3, <2>4 DEF Faulty, Op
  <2>6. Sane(stack, frames, passed, calls, FALSE)
    BY <1>1, <2>5
  <2>7. Sane(stack, Append(frames, [name |-> n, code |-> c, base |-> Len(stack), skew |-> FALSE]),
             passed, calls + 1, FALSE)
    BY <2>2, <2>4, <2>6, Entered, Zenon
  <2> QED
    BY <2>1, <2>2, <2>5, <2>7, Zenon DEF IInv
<1>4. CASE Fault
  <2>1. /\ frames # <<>> /\ Cur.code # <<>> /\ ~Legal(Op, Own, passed) /\ fault' = TRUE
        /\ stack' = stack /\ frames' = frames /\ passed' = passed /\ calls' = calls
    BY <1>4 DEF Fault
  <2>2. Len(frames) > 0 /\ Cur = frames[Len(frames)] /\ Own = Part(stack, frames, Len(frames))
    BY <2>1, CurrentPart
  <2>3. Faulty(stack, frames, passed)
    BY <2>1, <2>2 DEF Faulty, Op
  <2>4. Sane(stack, frames, passed, calls, TRUE)
    BY <1>1, <2>3, Zenon DEF Sane
  <2> QED
    BY <2>1, <2>4, Zenon DEF IInv
<1>5. CASE Return
  <2>1. /\ Len(frames) > 1 /\ Cur.code = <<>>
        /\ frames' = [Front(frames) EXCEPT ![Len(frames) - 1].skew = @ \/ Own # <<>>]
        /\ stack' = stack /\ passed' = passed /\ calls' = calls /\ fault' = fault
    BY <1>5 DEF Return
  <2>2. frames # <<>>
    BY <2>1
  <2>3. Cur = frames[Len(frames)] /\ Own = Part(stack, frames, Len(frames))
    BY <2>2, CurrentPart
  <2>4. fault = FALSE
    BY <1>1, <2>1, <2>3 DEF Faulty
  <2>5. Sane(stack, frames, passed, calls, FALSE)
    BY <1>1, <2>4
  <2>6. Uncovers(frames', frames, Own # <<>>)
    BY <1>1, <2>1, Uncovered
  <2>7. Sane(stack, frames', passed, calls, FALSE)
    BY <2>1, <2>3, <2>5, <2>6, Returned
  <2> QED
    BY <2>1, <2>4, <2>7 DEF IInv
<1>6. CASE EndExecution
  <2>1. stack' = <<>> /\ frames' = <<>> /\ passed' = <<>> /\ calls' = 0 /\ fault' = FALSE
    BY <1>6 DEF EndExecution
  <2>2. <<>> \in Seq(Kinds) /\ <<>> \in Seq(Frame) /\ Len(<<>>) = 0 /\ <<>> \in PassedType
    BY NamedOnly
  <2>3. Stacked(<<>>, <<>>) /\ Running(<<>>, <<>>, <<>>) /\ Counted(<<>>, 0)
    BY <2>2, BridgeAssumption DEF Stacked, Running, Counted
  <2>4. Sane(<<>>, <<>>, <<>>, 0, FALSE)
    BY <2>2, <2>3 DEF Sane
  <2> QED
    BY <2>1, <2>4, Zenon DEF IInv
<1>7. CASE UNCHANGED vars
  <2>1. stack' = stack /\ frames' = frames /\ passed' = passed /\ calls' = calls /\ fault' = fault
    BY <1>7 DEF vars
  <2> QED
    BY <1>1, <2>1, Zenon DEF IInv
<1>8. CASE \/ PushValue \/ DoPushText \/ DoGetField \/ DoPush \/ DoCall \/ DoPop \/ DoGetTable
           \/ DoSetField \/ DoMetaTable \/ DoRead \/ DoRequire \/ DoBail \/ DoScript
           \/ DoPass \/ DoPassEntity \/ DoPassAlpha
  BY <1>8, InstructionSteps
<1> QED
  BY <1>2, <1>3, <1>4, <1>5, <1>6, <1>7, <1>8, Zenon DEF Next

-----------------------------------------------------------------------------
(* Theorems *)

(* Every native a script can call, from an empty Lua frame of its own,      *)
(* whatever the script gives it and whatever the game answers: each of its  *)
(* instructions works or is one of the two failures scripts can cause, and  *)
(* each way out of it leaves what Exits allows.                             *)
THEOREM NativesWork ==
  \A n \in DOMAIN Natives : \A c \in Natives[n] : \A p \in PassedType : Safe(n, c, <<>>, p)
  BY NativesSafe

(* The same for the functions Lua calls, from the arguments it gives them;  *)
(* JS_EmitEvent moreover runs the listener with what Delivered says.        *)
THEOREM RootsWork ==
  \A r \in DOMAIN Roots : \A f \in Roots[r] : Safe(r, f.code, f.args, <<>>)
  BY RootsSafe

(* Every execution, with natives nested in each other to any depth and any  *)
(* number of calls, keeps the values of the functions under way apart on    *)
(* the Lua stack, and each function in which no other left values behind    *)
(* can go on from where it is.                                              *)
THEOREM BridgeInvariance == Spec => []IInv
<1>1. Init => IInv
  BY InitSane
<1>2. IInv /\ [Next]_vars => IInv'
  BY NextSane
<1> QED
  BY <1>1, <1>2, PTL DEF Spec

(* The Lua stack holds values of the game only, under every function as     *)
(* many as it found, one function of js.cpp Lua calls is under the natives, *)
(* and the arguments of a listener are made of such values.                 *)
THEOREM BridgeTypeCorrect == Spec => []TypeOK
<1>1. ASSUME IInv PROVE TypeOK
  <2>1. Stacked(stack, frames) /\ Counted(frames, calls) /\ passed \in PassedType /\ fault \in BOOLEAN
    BY <1>1, Zenon DEF IInv, Sane
  <2>2. stack \in Seq(Kinds) /\ frames \in Seq(Frame)
    BY <2>1 DEF Stacked
  <2>3. ASSUME NEW i \in DOMAIN frames
        PROVE  /\ frames[i].name \in DOMAIN Natives \cup DOMAIN Roots
               /\ frames[i].base <= Len(stack)
               /\ (i > 1) <=> frames[i].name \in DOMAIN Natives
    <3>1. i \in 1 .. Len(frames)
      BY <2>2
    <3>2. frames[i].name \in Names
      BY <2>1, <3>1, PartTyped
    <3> QED
      BY <2>1, <3>1, <3>2 DEF Names, Stacked
  <2>4. \A i \in DOMAIN passed : passed[i] \in Seq(Kinds \cup {"255"})
    <3> DEFINE T == Seq(Kinds \cup {"255"})
    <3>1. passed \in Seq(T)
      BY <2>1 DEF PassedType
    <3> HIDE DEF T
    <3>2. \A i \in DOMAIN passed : passed[i] \in T
      BY <3>1
    <3> QED
      BY <3>2 DEF T
  <2>5. calls \in 0 .. MaxCalls
    BY <2>1 DEF Counted
  <2> QED
    BY <2>1, <2>2, <2>3, <2>4, <2>5 DEF TypeOK
<1> QED
  BY <1>1, BridgeInvariance, PTL

(* What a function under way in which nothing was left behind is allowed. *)
LEMMA CurrentHarmless ==
  ASSUME IInv, frames # <<>>, ~Cur.skew
  PROVE  Harmless(Cur.name, Cur.code, Own, passed)
<1>1. /\ Len(frames) > 0 /\ frames \in Seq(Frame) /\ Cur = frames[Len(frames)]
      /\ Own = Part(stack, frames, Len(frames))
  BY CurrentPart
<1>2. Len(frames) \in 1 .. Len(frames)
  BY <1>1
<1>3. Running(stack, frames, passed)
  BY Zenon DEF IInv, Sane
<1>4. Safe(Cur.name, Cur.code, Own, passed)
  BY <1>1, <1>2, <1>3 DEF Running
<1>5. Fine(Cur.name, Cur.code, Own, passed, Good)
  BY <1>4, SafeIsFine
<1> QED
  BY <1>5, Zenon DEF Fine

(* Each offset of js.cpp reaches a value of the function's own, of the kind *)
(* its use needs, and no Pop takes another function's value, except after   *)
(* a value without a string form or a native that left values behind, and   *)
(* in a context that belongs to a prop or to no player.                     *)
THEOREM FaultsHaveSources == Spec => []FaultSources
<1>1. ASSUME IInv PROVE FaultSources
  <2> SUFFICES ASSUME fault, ~Cur.skew
               PROVE  \/ /\ Cur.name = "log" /\ Op[1] = "call"
                         /\ Len(Own) - 4 < Op[2] \/ Own[2] # "player"
                      \/ Cur.name \in {"InputsChange", "OutputsChange"} /\ Op = Strcmp
                      \/ /\ Cur.name \in {"InputsChange", "OutputsChange", "Trigger"}
                         /\ Op[1] = "getfield" /\ At(Own, Op[2]) = "prop"
    BY Zenon DEF FaultSources
  <2>1. Faulty(stack, frames, passed)
    BY <1>1, Zenon DEF IInv, Sane
  <2>2. Len(frames) > 0
    BY <2>1 DEF Faulty
  <2>3. frames # <<>>
    BY <2>2
  <2>4. Cur = frames[Len(frames)] /\ Own = Part(stack, frames, Len(frames))
    BY <1>1, <2>3, CurrentPart
  <2>5. Cur.code # <<>> /\ ~Legal(Op, Own, passed)
    BY <2>1, <2>4 DEF Faulty, Op
  <2>6. Harmless(Cur.name, Cur.code, Own, passed)
    BY <1>1, <2>3, CurrentHarmless
  <2>7. Excused(Cur.name, Op, Own)
    BY <2>5, <2>6, Zenon DEF Harmless, Op
  <2> QED
    BY <2>7, Zenon DEF Excused
<1> QED
  BY <1>1, BridgeInvariance, PTL

(* A native takes its values off the Lua stack on every path, but for       *)
(* PlayerGetter's early return, IsValidPhysics and Change's early return.   *)
THEOREM NativesCleanUp == Spec => []LeavesStack
<1>1. ASSUME IInv PROVE LeavesStack
  <2> SUFFICES ASSUME Len(frames) > 1, Cur.code = <<>>, ~Cur.skew
               PROVE  \/ Own = <<>>
                      \/ /\ Cur.name \in {"Crouching", "Team", "Frags", "SteamID", "SteamID64", "AccountID"}
                         /\ Own = <<"glob">>
                      \/ Cur.name = "IsValidPhysics" /\ Len(Own) = 2
                      \/ /\ Cur.name \in {"InputsChange", "OutputsChange"}
                         /\ \E e \in {"chip", "prop"} : Own = <<"glob", e, "true">>
    BY Zenon DEF LeavesStack
  <2>1. frames # <<>>
    OBVIOUS
  <2>2. Cur = frames[Len(frames)] /\ frames \in Seq(Frame)
    BY <1>1, <2>1, CurrentPart
  <2>3. Stacked(stack, frames)
    BY <1>1, Zenon DEF IInv, Sane
  <2>4. Len(frames) \in 1 .. Len(frames)
    BY <2>2
  <2>5. Cur.name \in DOMAIN Natives
    BY <2>2, <2>3, <2>4 DEF Stacked
  <2>6. Exits(Cur.name, Own)
    BY <1>1, <2>1, CurrentHarmless DEF Harmless
  <2>7. Cur.name \notin DOMAIN Roots
    BY <2>5, NamesApart
  <2> QED
    BY <2>6, <2>7, Zenon DEF Exits
<1> QED
  BY <1>1, BridgeInvariance, PTL

(* JS_EmitEvent hands the listener every value as what it is, but for the   *)
(* colours, whose r, g and b are never the colour's own.                    *)
THEOREM ArgumentsAreDelivered == Spec => []ArgumentsArrive
<1>1. ASSUME IInv PROVE ArgumentsArrive
  <2> SUFFICES ASSUME Len(frames) = 1, Cur.name = "JS_EmitEvent", Cur.code = <<Script>>, calls = 0
               PROVE  /\ passed = <<>> <=> Len(stack) = 2
                      /\ \A i \in DOMAIN passed : Arrives(stack[i + 2], passed[i])
    BY Zenon DEF ArgumentsArrive
  <2>1. frames # <<>>
    OBVIOUS
  <2>2. Cur = frames[1] /\ frames \in Seq(Frame) /\ stack \in Seq(Kinds)
    BY <1>1, <2>1, CurrentPart
  <2>3. Stacked(stack, frames) /\ Counted(frames, calls)
    BY <1>1, Zenon DEF IInv, Sane
  <2>4. ~Cur.skew /\ Cur.base = 0
    BY <2>2, <2>3 DEF Stacked, Counted
  <2>5. Own = stack
    <3>1. Own = SubSeq(stack, 0 + 1, Len(stack))
      BY <2>4 DEF Own
    <3> QED
      BY <2>2, <3>1, WholeSuffix
  <2>6. Harmless(Cur.name, Cur.code, Own, passed)
    BY <1>1, <2>1, <2>4, CurrentHarmless
  <2>7. Delivered(stack, passed)
    BY <2>5, <2>6, Zenon DEF Harmless
  <2> QED
    BY <2>7, Zenon DEF Delivered
<1> QED
  BY <1>1, BridgeInvariance, PTL
=============================================================================
