---------------------------- MODULE NativeBridge ----------------------------
(***************************************************************************)
(* The functions of js.cpp that work on the Lua stack: the ones Lua calls  *)
(* (JS_EmitEvent, JS_Eval, JS_CreateContext, and the module's opening) and *)
(* the natives scripts call (console, Inputs, Outputs, Entity).  Each      *)
(* reaches the game by pushing values and calling Lua functions, at        *)
(* offsets from the top of a stack it shares with every other native of    *)
(* the same execution, so its offsets and its Pop counts have to agree on  *)
(* every path through it.                                                  *)
(*                                                                         *)
(* A function is a sequence of instructions, one per call of the Lua       *)
(* interface, run one at a time, with the code's own offsets: negative     *)
(* from the top, positive from the bottom of its Lua frame.  Converting an *)
(* object to a string or reading its properties runs script code, which    *)
(* may call another native in the middle of this one (Script).  A value is *)
(* a string: what the properties tell apart of it, or, for a function, its *)
(* name.  What the game's functions accept and return is external.         *)
(***************************************************************************)
EXTENDS Integers, Sequences, SequencesExt

CONSTANTS
  MaxArgs,        \* arguments of console.log, properties given to Inputs.change
  MaxCalls,       \* native calls in one execution of a script
  Unconvertible   \* scripts pass values JS_ToCString fails on (symbols)

ASSUME BridgeAssumption ==
  MaxArgs \in Nat /\ MaxCalls \in Nat /\ Unconvertible \in BOOLEAN

VARIABLES
  stack,    \* the Lua stack of the execution
  frames,   \* functions under way, innermost last: name, instructions still
            \* to run, stack height at entry, and whether a native called in
            \* the middle of this one left values behind (skew)
  passed,   \* the JavaScript arguments made for a listener so far
  calls,    \* natives called in this execution
  fault     \* the next instruction cannot work on the values it finds

vars == <<stack, frames, passed, calls, fault>>

-----------------------------------------------------------------------------
(* The game's side (external) *)

Valid   == {"prop", "player", "chip"}
AnyEnt  == Valid \cup {"NULL", "world"}
Numbers == {"num", "index", "entIndex", "ownerIndex", "zero"}
Component == [r |-> "red", g |-> "green", b |-> "blue", a |-> "alpha"]
Outputs == Numbers \cup {"str", "vector", "angle", "color"} \cup Valid

(* What Entity(i) can be.  A script names any index; a context belongs to a *)
(* chip or, when the tool was used on one, to a prop, which may be gone; its *)
(* owner is a player, who may have left, or without one (nil) the entity     *)
(* itself, or the world (NULL has index 0).                                  *)
EntityAt == [index |-> AnyEnt, entIndex |-> {"chip", "prop", "NULL"},
             ownerIndex |-> AnyEnt]

On(f) ==
  CASE f \in {"Entity", "Vector", "Angle", "Color", "JSChatPrint"} -> {"glob"}
    [] f = "print" -> {"glob"}
    [] f = "EntIndex" -> AnyEnt
    [] f = "IsValid" -> AnyEnt \cup {"phys", "nophys"}
    [] f \in {"IsPlayer", "IsNPC", "IsWorld"} -> AnyEnt
    [] f \in {"Crouching", "Team", "Frags", "SteamID", "SteamID64",
              "AccountID"} -> {"player"}
    [] f \in {"SetInputs", "SetOutputs", "OutputType", "TriggerOutput"} -> {"chip"}
    [] f \in {"GetMass", "GetMassCenter", "ApplyForceCenter",
              "ApplyForceOffset"} -> {"phys"}
    [] OTHER -> Valid

(* The n arguments (after self); JSChatPrint takes any number of lines. *)
Params(f, n) ==
  CASE f = "Entity" -> <<DOMAIN EntityAt>>
    [] f \in {"Vector", "Angle"} -> <<{"num"}, {"num"}, {"num"}>>
    [] f = "Color" -> <<{"num"}, {"num"}, {"num"}, {"num"}>>
    [] f \in {"SetPos", "LocalToWorld", "WorldToLocal", "ApplyForceCenter"} -> <<{"vector"}>>
    [] f = "ApplyForceOffset" -> <<{"vector"}, {"vector"}>>
    [] f = "SetAngles" -> <<{"angle"}>>
    [] f = "SetColor" -> <<{"color"}>>
    [] f = "Use" -> <<Valid>>
    [] f \in {"SetInputs", "SetOutputs"} -> <<{"table"}>>
    [] f = "OutputType" -> <<{"str"}>>
    [] f = "TriggerOutput" -> <<{"str"}, Outputs>>
    [] f = "print" -> <<{"str"}>>
    [] f = "JSChatPrint" -> [i \in 1 .. n |-> IF i = 1 THEN {"player"} ELSE {"str"}]
    [] OTHER -> <<>>

Accepts(f, args) ==
  LET params == IF On(f) = {"glob"} THEN Params(f, Len(args))
                ELSE <<On(f)>> \o Params(f, Len(args) - 1)
  IN  Len(args) = Len(params) /\ \A i \in DOMAIN args : args[i] \in params[i]

Answer(b) == {IF b THEN "true" ELSE "false"}

Results(f, args) ==
  CASE f = "Entity" -> EntityAt[args[1]]
    [] f = "EntIndex" -> {IF args[1] \in Valid THEN "index" ELSE "zero"}
    [] f = "IsValid" -> Answer(args[1] \in Valid \cup {"phys"})
    [] f = "IsPlayer" -> Answer(args[1] = "player")
    [] f = "IsWorld" -> Answer(args[1] = "world")
    [] f \in {"IsNPC", "Crouching"} -> {"true", "false"}
    [] f = "GetPhysicsObject" -> {"phys", "nophys"}
    [] f \in {"Vector", "GetPos", "GetMassCenter", "LocalToWorld", "WorldToLocal"} -> {"vector"}
    [] f \in {"Angle", "GetAngles", "EyeAngles"} -> {"angle"}
    [] f \in {"Color", "GetColor"} -> {"color"}
    [] f \in {"Team", "Frags", "AccountID", "GetMass"} -> {"num"}
    [] OTHER -> {"str"}

Functions == {"print", "EntIndex", "Entity", "Vector", "Angle", "Color", "IsValid", "IsPlayer", "IsNPC",
  "IsWorld", "Crouching", "Team", "Frags", "SteamID", "SteamID64", "AccountID",
  "JSChatPrint", "SetInputs", "SetOutputs", "OutputType", "TriggerOutput",
  "GetMass", "GetMassCenter", "ApplyForceCenter", "ApplyForceOffset",
  "GetPhysicsObject", "GetName", "GetPos", "GetAngles", "EyeAngles", "GetClass",
  "GetColor", "SetPos", "SetAngles", "SetColor", "LocalToWorld", "WorldToLocal", "Use"}

-----------------------------------------------------------------------------
(* Instructions *)

Value(v)     == <<"value", v>>     \* PushNumber, PushString, PushSpecial, CreateTable
GetField(k, f) == <<"getfield", k, f>>
Push(k)      == <<"push", k>>
Call(n, r)   == <<"call", n, r>>
Pop(n)       == <<"pop", n>>
GetTable(k)  == <<"gettable", k>>
SetField(k)  == <<"setfield", k>>
Read(kinds)  == <<"read", kinds>>  \* GetNumber(-1), GetString(-1), GetVector(-1)...
Require(n)   == <<"require", n>>   \* if(!GetBool(-1)) { Pop(n); return ...; }
Bail(n)      == <<"bail", n>>      \* if(...) { Pop(n); return ...; }, on a script's value
PushText     == <<"pushtext">>     \* JS_ToCString, and PushString unless that failed
Strcmp       == <<"strcmp">>       \* strcmp with the null pointer of a failed conversion
MetaTable(k) == <<"metatable", k>>
Pass(ks)     == <<"pass", ks>>     \* args[..] = a value made of what is found at ks
PassEntity   == <<"passentity">>   \* JS_NULL if GetNumber(-1) is 0, else that
PassAlpha    == <<"passalpha">>    \* "a" of the colour passed last: GetNumber(-1), or 255
Script       == <<"script">>       \* script code runs, and may call natives

(* Parts the natives share. *)
Text == {"str", "num"}             \* what GetString converts
(* Faulty: the offset of self does not count the function pushed above it. *)
AskFunction(k, f) == <<GetField(k, f), Push(k), Call(1, 1)>>
Ask(k, f) == <<GetField(k, f), Push(k - 1), Call(1, 1)>>
Make(k, f, n) == <<GetField(k, f)>> \o [i \in 1 .. n |-> Value("num")] \o <<Call(n, 1)>>
Shade(k, c) == <<Value(c), GetTable(k), Read({Component[c]})>>
Lookup(i)   == <<Bail(0), Value("glob"), GetField(-1, "Entity"), Value(i), Call(1, 1)>>
Checked(i)  == Lookup(i) \o Ask(-1, "IsValid") \o <<Require(3)>>
Physics     == Checked("index") \o Ask(-2, "GetPhysicsObject") \o Ask(-1, "IsValid")
Body        == Physics \o <<Require(5)>>

(* Faulty: one value is left on the stack. *)
GetterShort(f, kinds) == Checked("index") \o Ask(-2, f) \o <<Read(kinds), Pop(3)>>
Getter(f, kinds) == Checked("index") \o Ask(-2, f) \o <<Read(kinds), Pop(4)>>
PlayerGetter(f, kinds) ==
  Checked("index") \o Ask(-2, "IsPlayer") \o <<Require(3)>>
    \o Ask(-3, f) \o <<Read(kinds), Pop(5)>>
Query(f)   == Lookup("index") \o Ask(-1, f) \o <<Read({"true", "false"}), Pop(3)>>
BodyGetter(f, kinds) == Body \o Ask(-2, f) \o <<Read(kinds), Pop(6)>>
Setter(f, make, n) ==
  Checked("index") \o Make(-3, make, n)
    \o <<GetField(-3, f), Push(-4), Push(-3), Call(2, 0), Pop(4)>>
Transform(f) ==
  Checked("index") \o Make(-3, "Vector", 3)
    \o <<GetField(-3, f), Push(-4), Push(-3), Call(2, 1), Read({"vector"}), Pop(5)>>

-----------------------------------------------------------------------------
(* The natives.  A native is the set of its programs, one per kind of input *)

Convertible == IF Unconvertible THEN BOOLEAN ELSE {TRUE}

(* A value without a string form pushes nothing, and is still counted. *)
Lines(n) == [j \in 1 .. 2 * n |-> IF j % 2 = 1 THEN Script ELSE PushText]
console_log ==
  { Checked("ownerIndex") \o <<GetField(-3, "JSChatPrint"), Push(-3)>>
      \o Lines(n) \o <<Call(n + 1, 0), Pop(3)>> : n \in 1 .. MaxArgs }

(* The type of every port goes into the table, if it has a string form. *)
Ports(n, ok) ==
  [j \in 1 .. 3 * n |-> CASE j % 3 = 1 -> Script
                          [] j % 3 = 2 -> IF ok[(j + 1) \div 3] THEN Value("str") ELSE Strcmp
                          [] j % 3 = 0 -> SetField(-2)]
Change(f) ==
  UNION { { Checked("entIndex") \o <<Script, Bail(0), Value("table")>> \o Ports(n, ok)
              \o <<GetField(-3, f), Push(-4), Push(-3), Call(2, 0), Pop(4)>>
            : ok \in [1 .. n -> Convertible] } : n \in 0 .. MaxArgs }
inputs_change  == Change("SetInputs")
outputs_change == Change("SetOutputs")

(* Faulty: the script's value is passed as it is. *)
OutputValueRaw == {<<Bail(4), Value("undefined")>>}
(* The value pushed for an output, by the type the chip gave it; Bail also  *)
(* stands for the type of an output that does not exist, always refused.    *)
OutputValue ==
  { <<Bail(4), Value("num")>>,                         \* NORMAL
    <<Script, Bail(4)>> \o Make(-4, "Vector", 3),      \* VECTOR
    <<Script, Bail(4)>> \o Make(-4, "Angle", 3),       \* ANGLE
    <<Script, Bail(4)>> \o Make(-4, "Color", 4),       \* COLOR
    <<Bail(4), GetField(-4, "Entity"), Value("index"), Call(1, 1)>>
      \o Ask(-1, "IsValid") \o <<Require(6), Pop(1)>>, \* ENTITY
    <<Bail(4), Value("str")>> }                        \* STRING
outputs_trigger ==
  { Checked("entIndex")
      \o <<GetField(-2, "OutputType"), Push(-3), Value("str"), Call(2, 1), Read({"str"})>>
      \o v
      \o <<GetField(-4, "TriggerOutput"), Push(-5), Value("str"), Push(-4), Call(3, 0), Pop(5)>>
    : v \in OutputValue }

entity_get_name       == {Getter("GetName", Text)}
entity_get_position   == {Getter("GetPos", {"vector"})}
entity_get_angles     == {Getter("GetAngles", {"angle"})}
entity_eye_angles     == {Getter("EyeAngles", {"angle"})}
entity_get_class      == {Getter("GetClass", Text)}
entity_get_color      ==
  { Checked("index") \o Ask(-2, "GetColor")
      \o Shade(-2, "r") \o Shade(-3, "g") \o Shade(-4, "b") \o Shade(-5, "a") \o <<Pop(8)>> }
entity_crouching      == {PlayerGetter("Crouching", {"true", "false"})}
entity_team           == {PlayerGetter("Team", {"num"})}
entity_frags          == {PlayerGetter("Frags", {"num"})}
entity_steamid        == {PlayerGetter("SteamID", Text)}
entity_steamid64      == {PlayerGetter("SteamID64", Text)}
entity_accountid      == {PlayerGetter("AccountID", Text)}
entity_isvalid        == {Query("IsValid")}
entity_isplayer       == {Query("IsPlayer")}
entity_isnpc          == {Query("IsNPC")}
entity_isworld        == {Query("IsWorld")}
entity_isvalid_physics == {Physics \o <<Read({"true", "false"}), Pop(3)>>}
entity_get_masscenter == {BodyGetter("GetMassCenter", {"vector"})}
entity_get_mass       == {BodyGetter("GetMass", {"num"})}
entity_set_position   == {Setter("SetPos", "Vector", 3)}
entity_set_color      == {Setter("SetColor", "Color", 4)}
entity_set_angles     == {Setter("SetAngles", "Angle", 3)}
entity_local_to_world == {Transform("LocalToWorld")}
entity_world_to_local == {Transform("WorldToLocal")}
entity_applyforce_center ==
  { Body \o Make(-5, "Vector", 3)
      \o <<GetField(-3, "ApplyForceCenter"), Push(-4), Push(-3), Call(2, 0), Pop(6)>> }
entity_applyforce_offset ==
  { Body \o Make(-5, "Vector", 3) \o Make(-6, "Vector", 3)
      \o <<GetField(-4, "ApplyForceOffset"), Push(-5), Push(-4), Push(-4), Call(3, 0), Pop(7)>> }
entity_use ==
  { Checked("index")
      \o <<GetField(-3, "Entity"), Value("ownerIndex"), Call(1, 1)>>
      \o Ask(-1, "IsValid") \o <<Require(5)>>
      \o <<GetField(-4, "Use"), Push(-5), Push(-4), Call(2, 0), Pop(5)>> }

(* What lua_create_context puts on the global objects.  ToLocal is bound to *)
(* entity_local_to_world; entity_world_to_local is bound to nothing.        *)
Natives ==
  [ log |-> console_log, InputsChange |-> inputs_change,
    OutputsChange |-> outputs_change, Trigger |-> outputs_trigger,
    GetName |-> entity_get_name, GetClass |-> entity_get_class,
    ApplyForce |-> entity_applyforce_center, ApplyForceOffset |-> entity_applyforce_offset,
    IsValid |-> entity_isvalid, IsValidPhysics |-> entity_isvalid_physics,
    GetPos |-> entity_get_position, GetMassCenter |-> entity_get_masscenter,
    ToWorld |-> entity_local_to_world, ToLocal |-> entity_local_to_world,
    IsWorld |-> entity_isworld, GetColor |-> entity_get_color,
    GetAngles |-> entity_get_angles, IsPlayer |-> entity_isplayer,
    IsNPC |-> entity_isnpc, Crouching |-> entity_crouching,
    EyeAngles |-> entity_eye_angles, SteamID |-> entity_steamid,
    Team |-> entity_team, Frags |-> entity_frags, SteamID64 |-> entity_steamid64,
    AccountID |-> entity_accountid, Use |-> entity_use, SetColor |-> entity_set_color,
    SetAngles |-> entity_set_angles, SetPos |-> entity_set_position,
    GetMass |-> entity_get_mass ]

-----------------------------------------------------------------------------
(* What Lua calls: arguments on the stack, and the program *)

(* Values an input can hand to TriggerInput, and so to a listener. *)
Values == AnyEnt \cup {"nil", "true", "num", "str", "color", "table", "vector", "angle", "phys"}

(* The EntIndex of an argument; the metatable pushed first stays. *)
IndexOf(k) == <<MetaTable(k), GetField(k, "EntIndex"), Push(k), Call(1, 1)>>
Field(k, c) == <<Value(c), GetTable(k)>>

(* Faulty: the argument after this one is taken. *)
ConvertNext(k, v) == IF v \in {"true", "num", "str", "vector", "angle"} THEN <<Pass(<<k - 1>>)>>
                     ELSE <<Pass(<<>>)>>
(* The k-th value of the frame as a JavaScript argument, by its Lua type.   *)
(* A colour's components are read after they were popped again.             *)
Convert(k, v) ==
  CASE v \in {"nil", "phys"} -> <<Pass(<<>>)>>
    [] v \in {"true", "num", "str", "vector", "angle"} -> <<Pass(<<k>>)>>
    [] v \in AnyEnt -> IndexOf(k) \o <<PassEntity, Pop(1)>>
    [] v \in {"color", "table"} ->
         Field(k, "r") \o <<Pop(1)>> \o Field(k, "g") \o <<Pop(1)>> \o Field(k, "b") \o <<Pop(1)>>
           \o IF v = "table" THEN <<Pass(<<>>)>>
              ELSE <<Pass(<<-3, -2, -1>>)>> \o Field(k, "a") \o <<PassAlpha, Pop(1)>>

lua_emit_event ==
  { [args |-> <<"num", "str">>, code |-> <<Script>>] }         \* "tick"
    \cup                                                       \* "input", its name, the value
  { [args |-> <<"num", "str", "str", v>>,
     code |-> Convert(3, "str") \o Convert(4, v) \o <<Script>>] : v \in Values }
lua_eval == { [args |-> <<"num", "num", "str">>, code |-> <<Script>>] }
(* The index of the chip's entity and of its owner, if there is one. *)
ContextOf(o) ==
  IndexOf(1) \o <<Read(Numbers), Pop(1)>>
    \o IF o \in AnyEnt THEN IndexOf(2) \o <<Read(Numbers), Pop(1)>> ELSE <<>>
lua_create_context ==
  { [args |-> <<e, o>>, code |-> ContextOf(o)] : e \in {"chip", "prop"}, o \in {"player", "NULL", "nil"} }
lua_printf == <<Value("glob"), GetField(-1, "print"), Value("str"), Call(1, 0), Pop(1)>>
gmod13_open ==
  { [args |-> <<>>,
     code |-> <<Value("glob")>> \o [j \in 1 .. 12 |-> IF j % 2 = 1 THEN Value("cfunction")
                                                        ELSE SetField(-2)]
                \o <<Pop(1)>> \o lua_printf] }

Roots == [JS_EmitEvent |-> lua_emit_event, JS_Eval |-> lua_eval,
          JS_CreateContext |-> lua_create_context, open |-> gmod13_open]

-----------------------------------------------------------------------------
(* Running them *)

Kinds == AnyEnt \cup Outputs \cup Functions \cup Values \cup DOMAIN Component
           \cup {Component[c] : c \in DOMAIN Component}
           \cup {"glob", "false", "nophys", "metatable", "cfunction"}

TypeOK == /\ stack \in Seq(Kinds)
          /\ \A i \in DOMAIN frames :
               /\ frames[i].name \in DOMAIN Natives \cup DOMAIN Roots
               /\ frames[i].base <= Len(stack)
               /\ (i > 1) <=> frames[i].name \in DOMAIN Natives
          /\ \A i \in DOMAIN passed : passed[i] \in Seq(Kinds \cup {"255"})
          /\ calls \in 0 .. MaxCalls
          /\ fault \in BOOLEAN

Init == stack = <<>> /\ frames = <<>> /\ passed = <<>> /\ calls = 0 /\ fault = FALSE

Cur == Last(frames)
Op  == Head(Cur.code)
Own == SubSeq(stack, Cur.base + 1, Len(stack))   \* the values of the running function

(* The values s of a function, at its offset k; the n on top, and what is   *)
(* under these.                                                             *)
Slot(s, k)  == IF k < 0 THEN Len(s) + 1 + k ELSE k
At(s, k)    == s[Slot(s, k)]
Mine(s, k)  == Slot(s, k) \in 1 .. Len(s)
Under(s, n) == SubSeq(s, 1, Len(s) - n)
Args(s, n)  == SubSeq(s, Len(s) + 1 - n, Len(s))

(* The instruction i works on values of its own, of the kind it needs, when *)
(* the function has the values s and p was passed.                          *)
Legal(i, s, p) ==
  CASE i[1] \in {"value", "pushtext", "script"} -> TRUE
    [] i[1] = "getfield" -> Mine(s, i[2]) /\ At(s, i[2]) \in On(i[3])
    [] i[1] = "push"     -> Mine(s, i[2])
    [] i[1] = "call"     -> LET f == At(s, -(i[2] + 1)) IN
                            i[2] < Len(s) /\ f \in Functions /\ Accepts(f, Args(s, i[2]))
    [] i[1] = "gettable" -> Mine(s, i[2]) /\ At(s, i[2]) \in {"color", "table"}
                            /\ At(s, -1) \in DOMAIN Component
    [] i[1] = "setfield" -> Mine(s, i[2]) /\ At(s, i[2]) \in {"table", "glob"}
    [] i[1] = "metatable" -> Mine(s, i[2]) /\ At(s, i[2]) \in AnyEnt
    [] i[1] = "pass"     -> \A j \in DOMAIN i[2] : Mine(s, i[2][j])
    [] i[1] = "passentity" -> s # <<>> /\ At(s, -1) \in Numbers
    [] i[1] = "passalpha" -> s # <<>> /\ p # <<>>
    [] i[1] = "read"     -> s # <<>> /\ At(s, -1) \in i[2]
    [] i[1] = "require"  -> s # <<>> /\ At(s, -1) \in {"true", "false"} /\ i[2] <= Len(s)
    [] i[1] \in {"pop", "bail"} -> i[2] <= Len(s)
    [] OTHER -> FALSE

Executing(op) == frames # <<>> /\ Cur.code # <<>> /\ Op[1] = op /\ Legal(Op, Own, passed)
Become(s) == stack' = SubSeq(stack, 1, Cur.base) \o s
Continue  == /\ frames' = [frames EXCEPT ![Len(frames)].code = Tail(@)]
             /\ UNCHANGED <<calls, fault>>
Step      == Continue /\ UNCHANGED passed
Leave(n)  == /\ Become(Under(Own, n)) /\ frames' = [frames EXCEPT ![Len(frames)].code = <<>>]
             /\ UNCHANGED <<passed, calls, fault>>

(* Lua calls one of the module's functions. *)
Begin(r) == /\ frames = <<>>
            /\ \E f \in Roots[r] :
                 /\ stack' = f.args
                 /\ frames' = <<[name |-> r, code |-> f.code, base |-> 0, skew |-> FALSE]>>
            /\ UNCHANGED <<passed, calls, fault>>

(* The script that runs calls a native. *)
Enter(n) == /\ Executing("script") /\ calls < MaxCalls
            /\ \E c \in Natives[n] :
                 frames' = Append(frames, [name |-> n, code |-> c, base |-> Len(stack),
                                           skew |-> FALSE])
            /\ calls' = calls + 1
            /\ UNCHANGED <<stack, passed, fault>>

PushValue == Executing("value") /\ Become(Append(Own, Op[2])) /\ Step
DoPushText == /\ Executing("pushtext")
              /\ \E ok \in Convertible : Become(IF ok THEN Append(Own, "str") ELSE Own)
              /\ Step
DoGetField == Executing("getfield") /\ Become(Append(Own, Op[3])) /\ Step
DoPush    == Executing("push") /\ Become(Append(Own, At(Own, Op[2]))) /\ Step
DoCall    == /\ Executing("call")
             /\ LET n == Op[2] IN
                \/ Op[3] = 0 /\ Become(Under(Own, n + 1))
                \/ /\ Op[3] = 1
                   /\ \E r \in Results(At(Own, -(n + 1)), Args(Own, n)) :
                        Become(Append(Under(Own, n + 1), r))
             /\ Step
DoPop     == Executing("pop") /\ Become(Under(Own, Op[2])) /\ Step
DoGetTable == /\ Executing("gettable")
              /\ \E v \in IF At(Own, Op[2]) = "table" THEN {"nil"} ELSE {Component[At(Own, -1)]} :
                   Become(Append(Under(Own, 1), v))
              /\ Step
DoSetField == Executing("setfield") /\ Become(Under(Own, 1)) /\ Step
DoMetaTable == Executing("metatable") /\ Become(Append(Own, "metatable")) /\ Step
DoRead    == Executing("read") /\ Step /\ UNCHANGED stack
DoRequire == /\ Executing("require")
             /\ \/ At(Own, -1) = "true" /\ Step /\ UNCHANGED stack
                \/ At(Own, -1) = "false" /\ Leave(Op[2])
DoBail    == /\ Executing("bail")
             /\ \/ Step /\ UNCHANGED stack
                \/ Leave(Op[2])
DoScript  == Executing("script") /\ Step /\ UNCHANGED stack
DoPass    == /\ Executing("pass")
             /\ passed' = Append(passed, [j \in DOMAIN Op[2] |-> At(Own, Op[2][j])])
             /\ Continue /\ UNCHANGED stack
DoPassEntity == /\ Executing("passentity")
                /\ passed' = Append(passed, IF At(Own, -1) = "zero" THEN <<>> ELSE <<At(Own, -1)>>)
                /\ Continue /\ UNCHANGED stack
(* The alpha of a colour may be missing. *)
DoPassAlpha == /\ Executing("passalpha")
               /\ \E a \in {At(Own, -1), "255"} :
                    passed' = Append(Front(passed), Append(Last(passed), a))
               /\ Continue /\ UNCHANGED stack

(* Nothing sensible follows: Lua raises an error through the script, or the *)
(* build does whatever it does.                                             *)
Fault == /\ frames # <<>> /\ Cur.code # <<>> /\ ~fault /\ ~Legal(Op, Own, passed)
         /\ fault' = TRUE
         /\ UNCHANGED <<stack, frames, passed, calls>>

(* A native returns to the script, in the middle of the function below. *)
Return == /\ Len(frames) > 1 /\ Cur.code = <<>>
          /\ frames' = [Front(frames) EXCEPT ![Len(frames) - 1].skew = @ \/ Own # <<>>]
          /\ UNCHANGED <<stack, passed, calls, fault>>

(* The execution ends and Lua drops its frame. *)
EndExecution == /\ frames # <<>>
                /\ (Len(frames) = 1 /\ Cur.code = <<>>) \/ fault
                /\ stack' = <<>> /\ frames' = <<>> /\ passed' = <<>>
                /\ calls' = 0 /\ fault' = FALSE

Next == \/ \E r \in DOMAIN Roots : Begin(r)
        \/ \E n \in DOMAIN Natives : Enter(n)
        \/ PushValue \/ DoPushText \/ DoGetField \/ DoPush \/ DoCall \/ DoPop \/ DoGetTable
        \/ DoSetField \/ DoMetaTable \/ DoRead \/ DoRequire \/ DoBail \/ DoScript
        \/ DoPass \/ DoPassEntity \/ DoPassAlpha
        \/ Fault \/ Return \/ EndExecution

Spec == Init /\ [][Next]_vars

-----------------------------------------------------------------------------
(* Properties *)

(* On every path of every function, whatever the natives before it left     *)
(* behind, each offset reaches a value the function itself has: a field is  *)
(* taken from an object that has it, never from an invalid entity, a call   *)
(* finds its function and the arguments it wants, and no Pop takes a value  *)
(* that is somebody else's.  The exceptions: values without a string form   *)
(* (console.log then calls with fewer arguments than it counts, Change      *)
(* compares a null pointer); the context of a prop, which has none of the   *)
(* chip's methods, or of no player, to whom nothing can be printed; and a   *)
(* native in the middle of which another one, called from a getter or       *)
(* toString, left values behind.                                            *)
FaultSources ==
  fault => \/ Cur.skew
           \/ /\ Cur.name = "log" /\ Op[1] = "call"
              /\ Len(Own) - 4 < Op[2] \/ Own[2] # "player"
           \/ Cur.name \in {"InputsChange", "OutputsChange"} /\ Op = Strcmp
           \/ /\ Cur.name \in {"InputsChange", "OutputsChange", "Trigger"}
              /\ Op[1] = "getfield" /\ At(Own, Op[2]) = "prop"

(* A native that returns has taken its values off the stack, on every path, *)
(* but for three kinds: asking a non-player for a player's data leaves the  *)
(* global table, IsValidPhysics leaves that and the entity, and Change with *)
(* an object whose keys cannot be listed leaves all of its three values.    *)
(* So these are the only ones that disturb a native they are nested in.     *)
LeavesStack ==
  Len(frames) > 1 /\ Cur.code = <<>> /\ ~Cur.skew =>
    \/ Own = <<>>
    \/ /\ Cur.name \in {"Crouching", "Team", "Frags", "SteamID", "SteamID64", "AccountID"}
       /\ Own = <<"glob">>
    \/ Cur.name = "IsValidPhysics" /\ Len(Own) = 2
    \/ /\ Cur.name \in {"InputsChange", "OutputsChange"}
       /\ \E e \in {"chip", "prop"} : Own = <<"glob", e, "true">>

(* Every value Lua hands to JS_EmitEvent reaches the listener as what it    *)
(* is, the world and the invalid entity as null, unless it is a colour: its *)
(* alpha arrives, but its r, g and b are whatever lay on the Lua stack, and *)
(* never the colour's own.                                                  *)
Arrives(v, js) ==
  CASE v \in {"nil", "phys", "table", "NULL", "world"} -> js = <<>>
    [] v \in Valid -> js = <<"index">>
    [] v = "color" -> /\ Len(js) = 4 /\ js[4] \in {"alpha", "255"}
                      /\ \A i \in 1 .. 3 : js[i] # Component[<<"r", "g", "b">>[i]]
    [] OTHER -> js = <<v>>
ArgumentsArrive ==
  Len(frames) = 1 /\ Cur.name = "JS_EmitEvent" /\ Cur.code = <<Script>> /\ calls = 0 =>
    /\ passed = <<>> <=> Len(stack) = 2
    /\ \A i \in DOMAIN passed : Arrives(stack[i + 2], passed[i])
=============================================================================
