--------------------------- MODULE ScriptApi_proofs ---------------------------
(***************************************************************************)
(* Proofs about ScriptApi, for vectors of any numbers.                     *)
(***************************************************************************)
EXTENDS ScriptApi, TLAPS

(* What is on the stack is a value of a script, and the result is what the  *)
(* function registered under the name returns for it.                       *)
Arguments == {<<>>} \cup {<<a>> : a \in Values} \cup (Values \X Values)

Answered == /\ args \in Arguments /\ seen \in Values
            /\ result = Registered(name, args, seen)

IInv == above \in Values /\ (name # "none" => name \in Names /\ Answered)

(* The kinds of a value tell what it is made of. *)
LEMMA ValueFacts ==
  ASSUME NEW a \in Values
  PROVE  /\ IsVector(a) => /\ a = <<"vector", a[2]>> /\ a[2] \in [1 .. 3 -> Int]
                           /\ ~IsNumber(a)
         /\ IsNumber(a) => a = <<"number", a[2]>> /\ a[2] \in Int
<1>1. CASE a \in Vectors
  <2>1. PICK v \in [1 .. 3 -> Components] : a = <<"vector", v>>
    BY <1>1 DEF Vectors, Vec
  <2> QED BY <2>1, ComponentsAssumption DEF IsVector, IsNumber
<1>2. CASE a \in {Num(n) : n \in Components}
  <2>1. PICK n \in Components : a = <<"number", n>>
    BY <1>2 DEF Num
  <2> QED BY <2>1, ComponentsAssumption DEF IsVector, IsNumber
<1>3. CASE a \in {Object, Other}
  BY <1>3 DEF Object, Other, IsVector, IsNumber
<1> QED
  BY <1>1, <1>2, <1>3 DEF Values

(* A call with two arguments, the first of them a vector. *)
LEMMA TwoArguments ==
  ASSUME NEW a \in Arguments, Len(a) = 2, IsVector(a[1]),
         IsVector(a[2]) \/ IsNumber(a[2])
  PROVE  /\ a[1][2] \in [1 .. 3 -> Int]
         /\ Spread(a[2]) \in [1 .. 3 -> Int]
         /\ IsVector(a[2]) => Spread(a[2]) = a[2][2]
<1>1. a[1] \in Values /\ a[2] \in Values
  BY DEF Arguments
<1> QED
  BY <1>1, ValueFacts DEF Spread

(* The functions made with Binary do what the help says. *)
LEMMA BinaryFacts ==
  ASSUME NEW n \in {"Add", "Sub", "Mul", "Div"}, NEW a \in Arguments,
         Asked(n, a), NEW up
  PROVE  Registered(n, a, up) = Documented(n, a)
<1> DEFINE v == a[1][2]
           w == Spread(a[2])
<1>1. Len(a) = 2 /\ IsVector(a[1]) /\ (IsVector(a[2]) \/ IsNumber(a[2]))
  BY DEF Asked
<1>2. v \in [1 .. 3 -> Int] /\ w \in [1 .. 3 -> Int]
  BY <1>1, TwoArguments
<1> HIDE DEF v, w
<1>3. CASE n = "Add"
  <2>1. Registered(n, a, up) = Vec([i \in 1 .. 3 |-> v[i] + w[i]])
    BY <1>1, <1>3 DEF Registered, vector_add, Binary, Map2, v, w
  <2>2. Documented(n, a) = Vec(<<w[1] + v[1], w[2] + v[2], w[3] + v[3]>>)
    BY <1>3 DEF Documented, v, w
  <2>3. [i \in 1 .. 3 |-> v[i] + w[i]] =
          <<w[1] + v[1], w[2] + v[2], w[3] + v[3]>>
    BY <1>2
  <2> QED BY <2>1, <2>2, <2>3
<1>4. CASE n = "Sub"
  <2>1. Registered(n, a, up) = Vec([i \in 1 .. 3 |-> v[i] - w[i]])
    BY <1>1, <1>4 DEF Registered, vector_sub, Binary, Map2, v, w
  <2>2. Documented(n, a) = Vec(<<v[1] - w[1], v[2] - w[2], v[3] - w[3]>>)
    BY <1>4 DEF Documented, v, w
  <2>3. [i \in 1 .. 3 |-> v[i] - w[i]] =
          <<v[1] - w[1], v[2] - w[2], v[3] - w[3]>>
    BY <1>2
  <2> QED BY <2>1, <2>2, <2>3
<1>5. CASE n = "Mul"
  <2>1. Registered(n, a, up) = Vec([i \in 1 .. 3 |-> v[i] * w[i]])
    BY <1>1, <1>5 DEF Registered, vector_mul, Binary, Map2, v, w
  <2>2. Documented(n, a) = Vec(<<w[1] * v[1], w[2] * v[2], w[3] * v[3]>>)
    BY <1>5 DEF Documented, v, w
  <2>3. [i \in 1 .. 3 |-> v[i] * w[i]] =
          <<w[1] * v[1], w[2] * v[2], w[3] * v[3]>>
    BY <1>2
  <2> QED BY <2>1, <2>2, <2>3
<1>6. CASE n = "Div"
  <2>1. Registered(n, a, up) = Vec([i \in 1 .. 3 |-> <<v[i], "/", w[i]>>])
    BY <1>1, <1>6 DEF Registered, vector_div, Binary, Map2, v, w
  <2>2. Documented(n, a) = Vec(<<<<v[1], "/", w[1]>>, <<v[2], "/", w[2]>>, <<v[3], "/", w[3]>>>>)
    BY <1>6 DEF Documented, v, w
  <2>3. [i \in 1 .. 3 |-> <<v[i], "/", w[i]>>] =
          <<<<v[1], "/", w[1]>>, <<v[2], "/", w[2]>>, <<v[3], "/", w[3]>>>>
    BY <1>2
  <2> QED BY <2>1, <2>2, <2>3
<1> QED
  BY <1>3, <1>4, <1>5, <1>6

(* So does Mod for two vectors. *)
LEMMA ModFacts ==
  ASSUME NEW a \in Arguments, Asked("Mod", a), IsVector(a[2]), NEW up
  PROVE  Registered("Mod", a, up) = Documented("Mod", a)
<1> DEFINE v == a[1][2]
           w == Spread(a[2])
<1>1. Len(a) = 2 /\ IsVector(a[1])
  BY DEF Asked
<1>2. Registered("Mod", a, up) = Vec([i \in 1 .. 3 |-> fmod(v[i], w[i])])
  BY <1>1 DEF Registered, vector_mod, Map2
<1>3. Documented("Mod", a) = Vec(<<fmod(v[1], w[1]), fmod(v[2], w[2]), fmod(v[3], w[3])>>)
  BY DEF Documented
<1> HIDE DEF v, w
<1>4. [i \in 1 .. 3 |-> fmod(v[i], w[i])] =
        <<fmod(v[1], w[1]), fmod(v[2], w[2]), fmod(v[3], w[3])>>
  OBVIOUS
<1> QED
  BY <1>2, <1>3, <1>4

(* So does Distance. *)
LEMMA DistanceFacts ==
  ASSUME NEW a \in Arguments, Asked("Distance", a), NEW up
  PROVE  Registered("Distance", a, up) = Documented("Distance", a)
<1> DEFINE v == a[1][2]
           w == Spread(a[2])
           apart == (v[1] - w[1]) * (v[1] - w[1]) + (v[2] - w[2]) * (v[2] - w[2])
                      + (v[3] - w[3]) * (v[3] - w[3])
<1>1. Len(a) = 2 /\ IsVector(a[1]) /\ IsVector(a[2])
  BY DEF Asked
<1>2. v \in [1 .. 3 -> Int] /\ w \in [1 .. 3 -> Int] /\ w = a[2][2]
  BY <1>1, TwoArguments
<1>3. Documented("Distance", a) = <<"root", apart>>
  BY DEF Documented
<1>4. Registered("Distance", a, up) = <<"root", Apart(a[1], a[2])>>
  BY <1>1 DEF Registered, vector_distance, TwoVectors
<1>5. \A x, y \in Int : (y - x) * (y - x) = (x - y) * (x - y)
  OBVIOUS
<1> HIDE DEF v, w
<1>6. Apart(a[1], a[2]) = (w[1] - v[1]) * (w[1] - v[1]) + (w[2] - v[2]) * (w[2] - v[2])
                            + (w[3] - v[3]) * (w[3] - v[3])
  BY <1>2 DEF Apart, Squares, v
<1>7. /\ v[1] \in Int /\ v[2] \in Int /\ v[3] \in Int
      /\ w[1] \in Int /\ w[2] \in Int /\ w[3] \in Int
  BY <1>2
<1>8. Apart(a[1], a[2]) = apart
  BY <1>5, <1>6, <1>7
<1> QED
  BY <1>3, <1>4, <1>8

-----------------------------------------------------------------------------
LEMMA InitIInv == Init => IInv
  BY DEF Init, IInv, Values

LEMMA NextIInv == IInv /\ [Next]_vars => IInv'
<1> SUFFICES ASSUME IInv, [Next]_vars PROVE IInv'
  OBVIOUS
<1>1. ASSUME NEW n \in Names, NEW a \in Arguments, Call(n, a) PROVE IInv'
  <2>1. Len(a) = 2 => a[2] \in Values
    BY DEF Arguments
  <2> QED BY <1>1, <2>1 DEF Call, IInv, Answered
<1>2. ASSUME NEW v \in Values, Evaluate(v) PROVE IInv'
  BY <1>2 DEF Evaluate, IInv
<1>3. CASE UNCHANGED vars
  BY <1>3 DEF vars, IInv, Answered
<1>4. <<>> \in Arguments /\ \A a \in Values : <<a>> \in Arguments
  BY DEF Arguments
<1>5. \A a, b \in Values : <<a, b>> \in Arguments
  BY DEF Arguments
<1> QED
  BY <1>1, <1>2, <1>3, <1>4, <1>5 DEF Next

(* Vector.Add, Sub, Mul, Div and Distance, and Mod of two vectors, return   *)
(* what their help texts in cl_functions.lua say, for all numbers and after *)
(* any calls.                                                               *)
THEOREM VectorsAgreeWithHelp == Spec => []AgreesWithHelp
<1>1. IInv => AgreesWithHelp
  <2> SUFFICES ASSUME IInv, name \in {"Add", "Sub", "Mul", "Div", "Mod", "Distance"},
                      Asked(name, args), name = "Mod" => IsVector(args[2])
               PROVE  result = Documented(name, args)
    BY DEF AgreesWithHelp
  <2>1. args \in Arguments /\ seen \in Values /\ result = Registered(name, args, seen)
    BY DEF IInv, Answered
  <2>2. CASE name \in {"Add", "Sub", "Mul", "Div"}
    BY <2>1, <2>2, BinaryFacts
  <2>3. CASE name = "Mod"
    BY <2>1, <2>3, ModFacts
  <2>4. CASE name = "Distance"
    BY <2>1, <2>4, DistanceFacts
  <2> QED BY <2>2, <2>3, <2>4
<1> QED BY <1>1, InitIInv, NextIInv, PTL DEF Spec
===============================================================================
