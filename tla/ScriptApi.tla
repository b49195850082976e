----------------------------- MODULE ScriptApi -----------------------------
(***************************************************************************)
(* The Vector functions of js.cpp, as scripts call them: by the name       *)
(* lua_create_context registers, with the arguments a script gives and the *)
(* operand stack of QuickJS they lie on.                                   *)
(*                                                                         *)
(* argv points into the caller's operand stack (js_call_c_function pads it *)
(* only up to the declared length, 1): argv[1] of a call with one argument *)
(* is the slot above the arguments, with what earlier expressions left     *)
(* there, an object that may be freed by now.  Numbers are integers;       *)
(* square roots, quotients, remainders and powers stay unevaluated.        *)
(***************************************************************************)
EXTENDS Integers, Sequences

CONSTANT Components   \* numbers vectors are made of

ASSUME ComponentsAssumption == Components \subseteq Int

VARIABLES
  above,   \* what the operand stack holds above a single argument
  name,    \* the call that ran last
  args,    \* its arguments
  seen,    \* what was above them
  result

vars == <<above, name, args, seen, result>>

Vec(v)   == <<"vector", v>>       \* an object whose x, y and z are numbers
Num(n)   == <<"number", n>>
Object   == <<"object">>          \* any other object
Other    == <<"other">>           \* undefined, a string...
Throws   == <<"throws">>
Nothing  == <<"none">>

Vectors  == {Vec(v) : v \in [1 .. 3 -> Components]}
Values   == Vectors \cup {Num(n) : n \in Components} \cup {Object, Other}

IsVector(a) == a[1] = "vector"
IsNumber(a) == a[1] = "number"

(* Faulty: a component is taken twice. *)
SquaresTwice(v) == v[1] * v[1] + v[2] * v[2] + v[2] * v[2]
Squares(v) == v[1] * v[1] + v[2] * v[2] + v[3] * v[3]

(* The second operand: a number stands for three equal components. *)
Spread(b) == IF IsNumber(b) THEN [i \in 1 .. 3 |-> b[2]] ELSE b[2]
Map2(Op(_, _), a, b) == Vec([i \in 1 .. 3 |-> Op(a[2][i], Spread(b)[i])])

fmod(a, b) == <<a, "%", b>>
Apart(a, b) == Squares([i \in 1 .. 3 |-> b[2][i] - a[2][i]])

(* The common shape of Add, Sub, Mul, Div and Pow. *)
Binary(Op(_, _), a) ==
  IF Len(a) >= 2 /\ IsVector(a[1]) /\ (IsVector(a[2]) \/ IsNumber(a[2]))
  THEN Map2(Op, a[1], a[2]) ELSE Throws

vector_add(a) == Binary(LAMBDA x, y : x + y, a)
vector_sub(a) == Binary(LAMBDA x, y : x - y, a)
vector_mul(a) == Binary(LAMBDA x, y : x * y, a)
vector_div(a) == Binary(LAMBDA x, y : <<x, "/", y>>, a)
vector_pow(a) == Binary(LAMBDA x, y : <<x, "^", y>>, a)

(* The first test asks for an object as second operand. *)
vector_mod(a) ==
  IF Len(a) >= 2 /\ IsVector(a[1]) /\ IsVector(a[2])
  THEN Map2(fmod, a[1], a[2]) ELSE Throws

TwoVectors(a) == Len(a) >= 2 /\ IsVector(a[1]) /\ IsVector(a[2])
vector_distance(a)  == IF TwoVectors(a) THEN <<"root", Apart(a[1], a[2])>> ELSE Throws
vector_distance2(a) == IF TwoVectors(a) THEN Num(Apart(a[1], a[2])) ELSE Throws

(* argc < 1 is refused, argv[1] is read. *)
vector_magnitude(a, up) ==
  LET second == IF Len(a) >= 2 THEN a[2] ELSE up
  IN  IF Len(a) >= 1 /\ IsVector(second) THEN <<"root", Squares(second[2])>> ELSE Throws

(* The names and what they are bound to: Distance2 and Normalize are bound  *)
(* to the functions named before them in the source; vector_normalize to    *)
(* nothing.                                                                 *)
Names == {"Add", "Sub", "Mul", "Div", "Pow", "Mod", "Magnitude", "Distance",
          "Distance2", "Normalize"}
Registered(n, a, up) ==
  CASE n = "Add" -> vector_add(a)
    [] n = "Sub" -> vector_sub(a)
    [] n = "Mul" -> vector_mul(a)
    [] n = "Div" -> vector_div(a)
    [] n = "Pow" -> vector_pow(a)
    [] n = "Mod" -> vector_mod(a)
    [] n = "Magnitude" -> vector_magnitude(a, up)
    [] n = "Distance" -> vector_distance(a)
    [] n = "Distance2" -> vector_distance(a)
    [] n = "Normalize" -> vector_distance2(a)

-----------------------------------------------------------------------------
Init == above = Other /\ name = "none" /\ args = <<>> /\ seen = Other /\ result = Nothing

(* A script calls Vector.n; a second argument stays in its slot. *)
Call(n, a) == /\ name = "none"
              /\ name' = n /\ args' = a /\ seen' = above
              /\ result' = Registered(n, a, above)
              /\ above' = IF Len(a) = 2 THEN a[2] ELSE above

(* It goes on, and whatever it evaluates may change that slot. *)
Evaluate(v) == /\ name # "none"
               /\ name' = "none" /\ args' = <<>> /\ seen' = Other /\ result' = Nothing
               /\ above' = v

Next == \/ \E n \in Names : \/ Call(n, <<>>)
                            \/ \E a \in Values : Call(n, <<a>>)
                            \/ \E a, b \in Values : Call(n, <<a, b>>)
        \/ \E v \in Values : Evaluate(v)

Spec == Init /\ [][Next]_vars

-----------------------------------------------------------------------------
(* What the help texts say (cl_functions.lua:14-23), for arguments of the   *)
(* kinds they ask for.  The text of Pow is the text of Mod.                 *)
Asked(n, a) ==
  CASE n \in {"Distance", "Distance2"} -> Len(a) = 2 /\ IsVector(a[1]) /\ IsVector(a[2])
    [] n \in {"Magnitude", "Normalize"} -> Len(a) = 1 /\ IsVector(a[1])
    [] OTHER -> Len(a) = 2 /\ IsVector(a[1]) /\ (IsVector(a[2]) \/ IsNumber(a[2]))

Documented(n, a) ==
  LET v == a[1][2]
      w == Spread(a[2])
      Each(Op(_, _)) == Vec(<<Op(v[1], w[1]), Op(v[2], w[2]), Op(v[3], w[3])>>)
      apart == (v[1] - w[1]) * (v[1] - w[1]) + (v[2] - w[2]) * (v[2] - w[2])
                 + (v[3] - w[3]) * (v[3] - w[3])
      length == <<"root", v[1] * v[1] + v[2] * v[2] + v[3] * v[3]>>
  IN
  CASE n = "Add" -> Each(LAMBDA x, y : y + x)
    [] n = "Sub" -> Each(LAMBDA x, y : x - y)
    [] n = "Mul" -> Each(LAMBDA x, y : y * x)
    [] n = "Div" -> Each(LAMBDA x, y : <<x, "/", y>>)
    [] n \in {"Mod", "Pow"} -> Each(fmod)
    [] n = "Distance" -> <<"root", apart>>
    [] n = "Distance2" -> Num(apart)
    [] n = "Magnitude" -> length
    [] n = "Normalize" -> Vec([i \in 1 .. 3 |-> <<v[i], "/", length>>])

(* Add, Sub, Mul, Div and Distance, and Mod of two vectors, return what     *)
(* their help says for the arguments it asks for, whatever the script       *)
(* called or evaluated before.                                              *)
AgreesWithHelp ==
  (/\ name \in {"Add", "Sub", "Mul", "Div", "Mod", "Distance"}
   /\ Asked(name, args) /\ (name = "Mod" => IsVector(args[2])))
     => result = Documented(name, args)

(* Every function under Vector returns what its help says for the arguments *)
(* it asks for.  TLC refutes it: Pow raises to a power; Mod by a number and *)
(* Normalize throw; Distance2 answers with the distance; Magnitude measures *)
(* whatever lies above its argument on the operand stack (js.cpp:881).      *)
AsDocumented ==
  name # "none" /\ Asked(name, args) => result = Documented(name, args)
=============================================================================
