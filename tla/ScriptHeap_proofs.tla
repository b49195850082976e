-------------------------- MODULE ScriptHeap_proofs --------------------------
(***************************************************************************)
(* Proofs about ScriptHeap: the reference counts and the cycle collector   *)
(* of QuickJS, for a heap of any finite number of blocks with any          *)
(* references between them.                                                *)
(***************************************************************************)
EXTENDS ScriptHeap, FiniteSetTheorems, TLAPS

(* References on b that no block holds, and all the references on b. *)
Extern(b) == held[b] + leaked[b]
Total(b)  == Extern(b) + RefsFrom(Blocks, edge, b)

(* The parts of the inductive invariant.                                    *)
(* Released blocks hold no reference and there is none on them; a shared    *)
(* block refers to values only.                                             *)
Released == \A b \in Blocks : list[b] = "none" => edge[b] = {} /\ Total(b) = 0
Layered  == \A b \in Shared : edge[b] \cap Shared = {}

(* The blocks whose references the counts contain: all of them, but while   *)
(* the collector runs, those gc_decref has still to visit, those gc_scan    *)
(* has visited, and all but those its second loop has still to visit.       *)
Counted ==
    CASE phase = "decref"  -> todo
      [] phase = "scan"    -> On("gc") \ todo
      [] phase = "restore" -> Blocks \ todo
      [] OTHER             -> Blocks
Counting == \A b \in Blocks : rc[b] = Extern(b) + RefsFrom(Counted, edge, b)

(* Outside the collector: what is on gc_obj_list is referred to, and what   *)
(* waits for free_zero_refcount is not.                                     *)
Resting ==
    /\ \A b \in Blocks : list[b] # "tmp"
    /\ \A b \in On("gc") : Total(b) > 0 /\ mark[b] = 0
    /\ \A b \in On("zero") : b \in Values /\ Total(b) = 0
    /\ On("zero") # {} <=> phase = "free"

(* JS_RunGC up to the end of its scan works on blocks that are referred to. *)
Referred == \A b \in Allocated : list[b] \in {"gc", "tmp"} /\ Total(b) > 0

(* gc_decref: the marked blocks are the visited ones; those without a count *)
(* are on tmp_obj_list.                                                     *)
Trial ==
    /\ todo \subseteq Allocated
    /\ \A b \in Allocated : /\ b \in todo <=> mark[b] = 0
                            /\ list[b] = "tmp" <=> mark[b] = 1 /\ rc[b] = 0

(* gc_scan, first loop: what has a count again is on gc_obj_list, and can   *)
(* be reached.                                                              *)
Scanning ==
    /\ todo \subseteq On("gc")
    /\ \A b \in Allocated : list[b] = "gc" <=> rc[b] > 0
    /\ \A b \in On("gc") \ todo : mark[b] = 0
    /\ On("gc") \subseteq Pinned

(* From then on gc_obj_list is what can be reached, and is closed. *)
Separated ==
    /\ \A b \in On("gc") : /\ edge[b] \subseteq On("gc") /\ mark[b] = 0
                           /\ Extern(b) + RefsFrom(On("gc"), edge, b) > 0
    /\ \A b \in Blocks : Extern(b) > 0 => b \in On("gc")
    /\ On("gc") \subseteq Pinned

(* gc_free_cycles: values set aside hold nothing any more, shared blocks    *)
(* are there as long as something refers to them.                           *)
Dismantling ==
    /\ \A b \in On("zero") \cap Values : edge[b] = {}
    /\ \A b \in Allocated \cap Shared : Total(b) > 0

IInv ==
    /\ TypeOK /\ Released /\ Layered /\ Counting
    /\ phase \in {"run", "free", "freed"} => Resting
    /\ phase \in {"decref", "scan", "restore"} => Referred
    /\ phase = "decref" => Trial
    /\ phase = "scan" => Scanning
    /\ phase = "restore" => todo \subseteq On("tmp")
    /\ phase \in {"restore", "cycles"} => Separated
    /\ phase = "cycles" => Dismantling

-----------------------------------------------------------------------------
(* Counting the references of a set of blocks. *)

LEMMA RefsFacts ==
  ASSUME NEW S \in SUBSET Blocks, NEW e, NEW b
  PROVE  /\ RefsFrom(S, e, b) \in Nat
         /\ RefsFrom(S, e, b) = 0 <=> \A s \in S : b \notin e[s]
<1> DEFINE T == {s \in S : b \in e[s]}
<1>1. IsFiniteSet(T)
  BY HeapAssumption, FS_Subset DEF Blocks
<1>2. Cardinality(T) \in Nat /\ (Cardinality(T) = 0 <=> T = {})
  BY <1>1, FS_CardinalityType, FS_EmptySet
<1> QED BY <1>2 DEF RefsFrom

LEMMA RefsSplit ==
  ASSUME NEW S \in SUBSET Blocks, NEW T \in SUBSET Blocks, S \cap T = {}, NEW e, NEW b
  PROVE  RefsFrom(S \cup T, e, b) = RefsFrom(S, e, b) + RefsFrom(T, e, b)
<1> DEFINE X == {s \in S : b \in e[s]}
           Y == {s \in T : b \in e[s]}
<1>1. IsFiniteSet(X) /\ IsFiniteSet(Y)
  BY HeapAssumption, FS_Subset DEF Blocks
<1>2. X \cap Y = {} /\ {s \in S \cup T : b \in e[s]} = X \cup Y
  OBVIOUS
<1> HIDE DEF X, Y
<1>3. Cardinality(X \cup Y) = Cardinality(X) + Cardinality(Y) - Cardinality(X \cap Y)
  BY <1>1, FS_Union
<1>4. Cardinality(X \cup Y) = Cardinality(X) + Cardinality(Y)
  <2>1. Cardinality(X) \in Nat /\ Cardinality(Y) \in Nat
    BY <1>1, FS_CardinalityType
  <2>2. Cardinality(X \cap Y) = 0
    BY <1>2, FS_EmptySet
  <2> QED BY <1>3, <2>1, <2>2
<1> QED BY <1>2, <1>4 DEF RefsFrom, X, Y

LEMMA RefsSame ==
  ASSUME NEW S, NEW e, NEW f, NEW b, \A s \in S : b \in e[s] <=> b \in f[s]
  PROVE  RefsFrom(S, e, b) = RefsFrom(S, f, b)
<1>1. {s \in S : b \in e[s]} = {s \in S : b \in f[s]}
  OBVIOUS
<1> QED BY <1>1 DEF RefsFrom

LEMMA RefsTake ==
  \A S \in SUBSET Blocks : \A p \in S : \A e, b :
    /\ RefsFrom(S, e, b) = RefsFrom(S \ {p}, e, b) + (IF b \in e[p] THEN 1 ELSE 0)
    /\ RefsFrom(S \ {p}, e, b) \in Nat
<1> SUFFICES ASSUME NEW S \in SUBSET Blocks, NEW p \in S, NEW R, R = S \ {p}, NEW e, NEW b
             PROVE  /\ RefsFrom(S, e, b) = RefsFrom(R, e, b) + (IF b \in e[p] THEN 1 ELSE 0)
                    /\ RefsFrom(R, e, b) \in Nat
  OBVIOUS
<1>1. RefsFrom({p}, e, b) = IF b \in e[p] THEN 1 ELSE 0
  <2>1. {s \in {p} : b \in e[s]} = IF b \in e[p] THEN {p} ELSE {}
    OBVIOUS
  <2> QED BY <2>1, FS_Singleton, FS_EmptySet DEF RefsFrom
<1>2. R \cup {p} = S /\ R \cap {p} = {} /\ R \in SUBSET Blocks /\ {p} \in SUBSET Blocks
  OBVIOUS
<1>3. RefsFrom(R \cup {p}, e, b) = RefsFrom(R, e, b) + RefsFrom({p}, e, b)
  BY <1>2, RefsSplit
<1>4. RefsFrom(R, e, b) \in Nat
  BY <1>2, RefsFacts
<1>5. RefsFrom(S, e, b) = RefsFrom(R, e, b) + RefsFrom({p}, e, b)
  BY <1>2, <1>3
<1> QED BY <1>1, <1>4, <1>5

LEMMA RefsPart ==
  ASSUME NEW T \in SUBSET Blocks, NEW S \in SUBSET T, NEW e, NEW b
  PROVE  /\ RefsFrom(T, e, b) = RefsFrom(S, e, b) + RefsFrom(T \ S, e, b)
         /\ RefsFrom(S, e, b) <= RefsFrom(T, e, b)
<1>1. S \cup (T \ S) = T /\ S \cap (T \ S) = {} /\ S \in SUBSET Blocks /\ T \ S \in SUBSET Blocks
  OBVIOUS
<1>2. RefsFrom(T, e, b) = RefsFrom(S, e, b) + RefsFrom(T \ S, e, b)
  BY <1>1, RefsSplit
<1>3. RefsFrom(S, e, b) \in Nat /\ RefsFrom(T \ S, e, b) \in Nat
  BY <1>1, RefsFacts
<1> QED BY <1>2, <1>3

(* The smallest closed set. *)
LEMMA ReachFacts ==
  ASSUME NEW e, NEW r
  PROVE  /\ Reach(e, r) \subseteq Blocks
         /\ \A S \in SUBSET Blocks : Closed(S, e, r) => Reach(e, r) \subseteq S
         /\ \A T \in SUBSET Blocks :
              (\A S \in SUBSET Blocks : Closed(S, e, r) => T \subseteq S) =>
                T \subseteq Reach(e, r)
         /\ \A b \in Blocks : r[b] > 0 => b \in Reach(e, r)
         /\ \A b \in Reach(e, r) : e[b] \cap Blocks \subseteq Reach(e, r)
  BY DEF Reach, Closed

(* Blocks that do not refer to b do not count. *)
LEMMA RefsIgnore ==
  ASSUME NEW T \in SUBSET Blocks, NEW S \in SUBSET T, NEW e, NEW b,
         \A s \in T \ S : b \notin e[s]
  PROVE  RefsFrom(T, e, b) = RefsFrom(S, e, b)
<1>1. T \ S \in SUBSET Blocks /\ S \in SUBSET Blocks
  OBVIOUS
<1>2. RefsFrom(T \ S, e, b) = 0 /\ RefsFrom(S, e, b) \in Nat
  BY <1>1, RefsFacts
<1>3. RefsFrom(T, e, b) = RefsFrom(S, e, b) + RefsFrom(T \ S, e, b)
  <2>1. S \cup (T \ S) = T /\ S \cap (T \ S) = {}
    OBVIOUS
  <2> QED BY <1>1, <2>1, RefsSplit
<1> QED BY <1>2, <1>3

(* One block changes what it refers to. *)
LEMMA RefsChange ==
  ASSUME NEW p \in Blocks, NEW e, NEW f, NEW b,
         \A s \in Blocks \ {p} : b \in e[s] <=> b \in f[s]
  PROVE  RefsFrom(Blocks, f, b) =
           RefsFrom(Blocks, e, b) - (IF b \in e[p] THEN 1 ELSE 0) + (IF b \in f[p] THEN 1 ELSE 0)
<1>1. RefsFrom(Blocks \ {p}, e, b) = RefsFrom(Blocks \ {p}, f, b)
  BY RefsSame
<1>2. /\ RefsFrom(Blocks, e, b) = RefsFrom(Blocks \ {p}, e, b) + (IF b \in e[p] THEN 1 ELSE 0)
      /\ RefsFrom(Blocks \ {p}, e, b) \in Nat
  BY RefsTake
<1>3. /\ RefsFrom(Blocks, f, b) = RefsFrom(Blocks \ {p}, f, b) + (IF b \in f[p] THEN 1 ELSE 0)
      /\ RefsFrom(Blocks \ {p}, f, b) \in Nat
  BY RefsTake
<1> QED BY <1>1, <1>2, <1>3

(* The numbers in a state of the right type. *)
LEMMA Typing ==
  ASSUME TypeOK, NEW b \in Blocks
  PROVE  /\ held[b] \in Nat /\ leaked[b] \in Nat /\ rc[b] \in Nat
         /\ Extern(b) \in Nat /\ RefsFrom(Blocks, edge, b) \in Nat /\ Total(b) \in Nat
         /\ Total(b) = Extern(b) + RefsFrom(Blocks, edge, b)
<1>1. held[b] \in Nat /\ leaked[b] \in Nat /\ rc[b] \in Nat
  BY HeapAssumption DEF TypeOK
<1>2. RefsFrom(Blocks, edge, b) \in Nat
  BY RefsFacts
<1> QED BY <1>1, <1>2 DEF Extern, Total

(* Of the references e1, those of the shared blocks that die are left out   *)
(* of e2.                                                                   *)
Drops(S, e1, e2) ==
  /\ \A x \in Dying(S) : e1[x] = edge[x] /\ e2[x] = {}
  /\ \A x \in Blocks \ Dying(S) : e2[x] = e1[x]

(* JS_FreeValue of the blocks in S: releasing the shared blocks that die    *)
(* takes away what they count.                                              *)
LEMMA DropCounts ==
  ASSUME TypeOK, NEW S \in SUBSET Blocks, NEW e1, NEW e2, Drops(S, e1, e2), NEW b \in Blocks
  PROVE  /\ Dropped(S)[b] = rc[b] - (IF b \in S THEN 1 ELSE 0)
                              - RefsFrom(Blocks, e1, b) + RefsFrom(Blocks, e2, b)
         /\ Dropped(S)[b] <= rc[b]
         /\ RefsFrom(Blocks, e1, b) \in Nat /\ RefsFrom(Blocks, e2, b) \in Nat
<1> DEFINE D == Dying(S)
<1>1. D \in SUBSET Blocks
  BY DEF Dying, Blocks
<1>2. Dropped(S)[b] = rc[b] - (IF b \in S THEN 1 ELSE 0) - RefsFrom(D, edge, b)
  BY DEF Dropped
<1> HIDE DEF D
<1>3. RefsFrom(D, edge, b) = RefsFrom(D, e1, b)
  BY RefsSame DEF D, Drops
<1>4. RefsFrom(Blocks, e1, b) = RefsFrom(D, e1, b) + RefsFrom(Blocks \ D, e1, b)
  BY <1>1, RefsPart
<1>5. RefsFrom(Blocks \ D, e1, b) = RefsFrom(Blocks \ D, e2, b)
  BY RefsSame DEF D, Drops
<1>6. RefsFrom(Blocks, e2, b) = RefsFrom(Blocks \ D, e2, b)
  <2>1. \A s \in Blocks \ (Blocks \ D) : b \notin e2[s]
    BY DEF D, Drops
  <2> QED BY <2>1, RefsIgnore
<1>7. /\ RefsFrom(D, edge, b) \in Nat /\ RefsFrom(Blocks \ D, e2, b) \in Nat /\ rc[b] \in Nat
  BY <1>1, RefsFacts, Typing
<1>8. RefsFrom(D, e1, b) \in Nat /\ RefsFrom(Blocks \ D, e1, b) \in Nat
  BY <1>1, RefsFacts
<1> QED BY <1>2, <1>3, <1>4, <1>5, <1>6, <1>7, <1>8

(* The shared blocks that die are those whose count goes to zero. *)
LEMMA DyingFacts ==
  ASSUME TypeOK, Layered, NEW S \in SUBSET Blocks, NEW s \in Shared,
         Dropped(S)[s] \in Nat
  PROVE  /\ s \in Dying(S) => Dropped(S)[s] = 0
         /\ rc[s] > 0 /\ Dropped(S)[s] = 0 => s \in Dying(S)
<1>1. s \in Blocks /\ rc[s] \in Nat
  BY Typing DEF Blocks
<1>2. RefsFrom(Dying(S), edge, s) = 0
  <2>1. \A x \in Dying(S) : s \notin edge[x]
    BY DEF Layered, Dying
  <2> QED BY <2>1, RefsFacts DEF Dying, Blocks
<1>3. Dropped(S)[s] = rc[s] - (IF s \in S THEN 1 ELSE 0) - 0
  BY <1>1, <1>2 DEF Dropped
<1>4. s \in Dying(S) <=> s \in S /\ rc[s] = 1
  BY DEF Dying
<1> QED BY <1>1, <1>3, <1>4

-----------------------------------------------------------------------------
(* lua_create_context: the context and the global object. *)
LEMMA InitIInv == Init => IInv
<1> SUFFICES ASSUME Init PROVE IInv
  OBVIOUS
<1>1. PICK global \in Values :
        /\ list = [b \in Blocks |-> IF b \in {Context, global} THEN "gc" ELSE "none"]
        /\ edge = [b \in Blocks |-> IF b = Context THEN {global} ELSE {}]
        /\ rc = [b \in Blocks |-> IF b \in {Context, global} THEN 1 ELSE 0]
  BY DEF Init
<1>2. Context \in Blocks /\ global \in Blocks /\ Context # global /\ global \notin Shared
  BY HeapAssumption DEF Blocks
<1>3. TypeOK
  <2>1. edge \in [Blocks -> SUBSET Blocks]
    BY <1>1, <1>2
  <2>2. held \in [Blocks -> 0 .. MaxRefs] /\ leaked \in [Blocks -> 0 .. MaxLeaks]
    BY HeapAssumption DEF Init
  <2>3. list \in [Blocks -> {"none", "gc", "tmp", "zero"}] /\ rc \in [Blocks -> Nat]
    BY <1>1
  <2> QED BY <2>1, <2>2, <2>3 DEF Init, TypeOK
<1>4. \A b \in Blocks : Total(b) = rc[b] /\ rc[b] = Extern(b) + RefsFrom(Blocks, edge, b)
  <2> SUFFICES ASSUME NEW b \in Blocks PROVE rc[b] = Extern(b) + RefsFrom(Blocks, edge, b)
    BY DEF Total
  <2>1. /\ RefsFrom(Blocks, edge, b)
             = RefsFrom(Blocks \ {Context}, edge, b) + (IF b \in edge[Context] THEN 1 ELSE 0)
        /\ RefsFrom(Blocks \ {Context}, edge, b) \in Nat
    BY <1>2, RefsTake
  <2>2. RefsFrom(Blocks \ {Context}, edge, b) = 0
    BY <1>1, RefsFacts
  <2>3. edge[Context] = {global}
    BY <1>1, <1>2
  <2>4. Extern(b) = IF b = Context THEN 1 ELSE 0
    BY DEF Extern, Init
  <2> QED BY <1>1, <1>2, <2>1, <2>2, <2>3, <2>4
<1>5. Released
  BY <1>1, <1>2, <1>4 DEF Released
<1>6. Layered
  BY <1>1, <1>2 DEF Layered, Blocks
<1>7. Counting
  BY <1>4 DEF Counting, Counted, Init
<1>8. Resting
  BY <1>1, <1>4 DEF Resting, On, Init
<1> QED
  BY <1>3, <1>5, <1>6, <1>7, <1>8 DEF IInv, Init

(* JS_FreeValue and free_zero_refcount: each block of S loses a reference,  *)
(* P is what free_zero_refcount takes off its list.                         *)
Frees(S, P) ==
  /\ rc' = Dropped(S)
  /\ list' = [b \in Blocks |-> CASE b \in Dying(S) \cup P -> "none"
                                 [] b \in Zeroed(S) -> "zero"
                                 [] OTHER -> list[b]]
  /\ edge' \in [Blocks -> SUBSET Blocks]
  /\ \A x \in Blocks : edge'[x] \subseteq edge[x]
  /\ \A x \in Dying(S) \cup P : edge'[x] = {}
  /\ held' \in [Blocks -> 0 .. MaxRefs]
  /\ UNCHANGED <<mark, leaked, todo, closing>>
  /\ \A b \in Blocks : /\ Dropped(S)[b] = held'[b] + leaked'[b] + RefsFrom(Blocks, edge', b)
                       /\ Dropped(S)[b] \in Nat /\ Dropped(S)[b] <= rc[b]
  /\ phase' = IF \E b \in Blocks : list'[b] = "zero" THEN "free" ELSE "run"

LEMMA FreeStep ==
  ASSUME IInv, phase \in {"run", "free"},
         NEW S \in SUBSET Blocks, NEW P \in SUBSET On("zero"), Frees(S, P)
  PROVE  IInv'
<1> USE DEF Frees
<1>1. /\ TypeOK /\ Released /\ Layered /\ Resting
      /\ \A b \in Blocks : rc[b] = Total(b) /\ rc[b] \in Nat
  <2>1. \A b \in Blocks : rc[b] = Total(b)
    BY DEF IInv, Counting, Counted, Total
  <2> QED BY <2>1 DEF IInv, TypeOK
<1>2. \A b \in Blocks : rc'[b] = Total(b)' /\ rc'[b] \in Nat /\ rc'[b] <= rc[b]
  BY DEF Total, Extern
<1>3. ASSUME NEW s \in Dying(S) PROVE s \in Shared /\ s \in S /\ s \in Blocks /\ rc'[s] = 0
  <2>1. s \in Shared /\ s \in S /\ s \in Blocks
    BY DEF Dying, Blocks
  <2> QED BY <1>1, <1>2, <2>1, DyingFacts
<1>4. ASSUME NEW s \in Shared, s \in Blocks, rc[s] > 0, rc'[s] = 0 PROVE s \in Dying(S)
  BY <1>1, <1>2, <1>4, DyingFacts
<1>5. \A v \in Zeroed(S) : v \in Values /\ v \in Blocks /\ v \notin Dying(S) /\ rc[v] > 0 /\ rc'[v] = 0
  BY HeapAssumption DEF Zeroed, Dying, Blocks
<1>6. TypeOK'
  <2>1. list' \in [Blocks -> {"none", "gc", "tmp", "zero"}]
    BY <1>1 DEF TypeOK
  <2>2. rc' \in [Blocks -> Nat]
    <3>1. rc' = [b \in Blocks |-> rc'[b]]
      BY DEF Dropped
    <3> QED BY <1>2, <3>1
  <2> QED BY <1>1, <2>1, <2>2 DEF TypeOK
<1>7. ASSUME NEW b \in Blocks
      PROVE  /\ list'[b] = "none" => list[b] = "none" \/ b \in Dying(S) \cup P
             /\ list'[b] = "gc" => list[b] = "gc" /\ b \notin Dying(S) \cup Zeroed(S)
             /\ list'[b] = "zero" => b \in Zeroed(S) \/ list[b] = "zero"
             /\ list'[b] = "tmp" => list[b] = "tmp"
  BY DEF Zeroed
<1>8. \A b \in P : b \in Blocks /\ b \in Values /\ rc[b] = 0 /\ rc'[b] = 0
  BY <1>1, <1>2 DEF Resting, On
<1>9. Released'
  <2> SUFFICES ASSUME NEW b \in Blocks, list'[b] = "none"
               PROVE  edge'[b] = {} /\ Total(b)' = 0
    BY DEF Released
  <2>1. CASE list[b] = "none"
    BY <1>1, <1>2, <2>1 DEF Released
  <2>2. CASE b \in Dying(S) \cup P
    BY <1>2, <1>3, <1>8, <2>2
  <2> QED BY <1>7, <2>1, <2>2
<1>10. Layered'
  BY <1>1 DEF Layered, Blocks
<1>11. Counting' /\ phase' \in {"run", "free"}
  BY <1>2 DEF Counting, Counted, Total
<1>12. Resting'
  <2>1. \A b \in Blocks : list'[b] # "tmp"
    BY <1>1, <1>7 DEF Resting
  <2>2. ASSUME NEW b \in Blocks, list'[b] = "gc" PROVE Total(b)' > 0 /\ mark'[b] = 0
    <3>1. list[b] = "gc" /\ b \notin Dying(S) \cup Zeroed(S)
      BY <1>7, <2>2
    <3>2. rc[b] > 0 /\ mark'[b] = 0
      BY <1>1, <3>1 DEF Resting, On
    <3>3. rc'[b] # 0
      BY <1>4, <3>1, <3>2 DEF Zeroed, Blocks
    <3> QED BY <1>2, <3>2, <3>3
  <2>3. ASSUME NEW b \in Blocks, list'[b] = "zero" PROVE b \in Values /\ Total(b)' = 0
    <3>1. CASE b \in Zeroed(S)
      BY <1>2, <1>5, <3>1
    <3>2. CASE list[b] = "zero"
      BY <1>1, <1>2, <3>2 DEF Resting, On
    <3> QED BY <1>7, <2>3, <3>1, <3>2
  <2> QED BY <2>1, <2>2, <2>3 DEF Resting, On
<1> QED
  BY <1>6, <1>9, <1>10, <1>11, <1>12 DEF IInv

(* What a script and the natives can reach is on gc_obj_list. *)
LEMMA LiveFacts ==
  ASSUME IInv, phase \in {"run", "free", "freed"}
  PROVE  /\ \A b \in Blocks : Extern(b) > 0 => list[b] = "gc"
         /\ \A b \in On("gc") : edge[b] \subseteq On("gc")
         /\ Live \subseteq On("gc") /\ Pinned \subseteq On("gc")
<1>1. TypeOK /\ Released /\ Resting
  BY DEF IInv
<1>2. \A b \in Blocks : Extern(b) \in Nat /\ RefsFrom(Blocks, edge, b) \in Nat
                          /\ Total(b) = Extern(b) + RefsFrom(Blocks, edge, b)
                          /\ held[b] \in Nat /\ leaked[b] \in Nat
  BY <1>1, Typing
<1>3. \A b \in Blocks : list[b] = "gc" \/ Total(b) = 0
  BY <1>1 DEF TypeOK, Released, Resting, On
<1>4. \A b \in Blocks : Extern(b) > 0 => list[b] = "gc"
  BY <1>2, <1>3
<1>5. ASSUME NEW x \in Blocks, NEW b \in edge[x] PROVE list[b] = "gc"
  <2>1. b \in Blocks
    BY <1>1 DEF TypeOK
  <2>2. RefsFrom(Blocks, edge, b) # 0
    BY RefsFacts
  <2> QED BY <1>2, <1>3, <2>1, <2>2
<1>6. \A b \in On("gc") : edge[b] \subseteq On("gc")
  BY <1>1, <1>5 DEF On, TypeOK
<1>7. Closed(On("gc"), edge, held)
  <2>1. \A b \in Blocks : held[b] > 0 => b \in On("gc")
    BY <1>2, <1>4 DEF Extern, On
  <2> QED BY <1>6, <2>1 DEF Closed
<1>8. Closed(On("gc"), edge, [b \in Blocks |-> held[b] + leaked[b]])
  <2>1. \A b \in Blocks : held[b] + leaked[b] > 0 => b \in On("gc")
    BY <1>4 DEF Extern, On
  <2> QED BY <1>6, <2>1 DEF Closed
<1>9. Live \subseteq On("gc") /\ Pinned \subseteq On("gc")
  <2>1. On("gc") \in SUBSET Blocks
    BY DEF On
  <2> QED BY <1>7, <1>8, <2>1, ReachFacts DEF Live, Pinned
<1> QED BY <1>4, <1>6, <1>9

-----------------------------------------------------------------------------
(* The steps of the script and the natives. *)

(* Facts about a runtime at rest. *)
LEMMA RunFacts ==
  ASSUME IInv, phase = "run"
  PROVE  /\ TypeOK /\ Released /\ Layered /\ Resting /\ On("zero") = {}
         /\ \A b \in Blocks : /\ rc[b] = Total(b) /\ rc[b] \in Nat /\ Extern(b) \in Nat
                              /\ RefsFrom(Blocks, edge, b) \in Nat
                              /\ Total(b) = Extern(b) + RefsFrom(Blocks, edge, b)
                              /\ list[b] \in {"none", "gc"}
<1>1. TypeOK /\ Released /\ Layered /\ Resting /\ On("zero") = {}
  BY DEF IInv, Resting
<1>2. \A b \in Blocks : list[b] \in {"none", "gc"}
  BY <1>1 DEF Resting, On, TypeOK
<1>3. \A b \in Blocks : rc[b] = Total(b)
  BY DEF IInv, Counting, Counted, Total
<1> QED BY <1>1, <1>2, <1>3, Typing

LEMMA AddStep == ASSUME IInv, NEW b \in Blocks, add_gc_object(b) PROVE IInv'
<1>1. /\ phase = "run" /\ list[b] = "none"
      /\ list' = [list EXCEPT ![b] = "gc"] /\ rc' = [rc EXCEPT ![b] = 1]
      /\ mark' = [mark EXCEPT ![b] = 0] /\ held' = [held EXCEPT ![b] = 1]
      /\ UNCHANGED <<edge, leaked, phase, todo, closing>>
  BY DEF add_gc_object, Running
<1>2. /\ TypeOK /\ Released /\ Layered /\ Resting /\ On("zero") = {}
      /\ \A x \in Blocks : /\ rc[x] = Total(x) /\ rc[x] \in Nat /\ Extern(x) \in Nat
                           /\ RefsFrom(Blocks, edge, x) \in Nat
                           /\ Total(x) = Extern(x) + RefsFrom(Blocks, edge, x)
                           /\ list[x] \in {"none", "gc"}
  BY <1>1, RunFacts
<1>3. TypeOK'
  <2>1. 1 \in 0 .. MaxRefs
    BY HeapAssumption
  <2> QED BY <1>1, <1>2, <2>1 DEF TypeOK
<1>4. Total(b) = 0 /\ edge[b] = {}
  BY <1>1, <1>2 DEF Released
<1>5. \A x \in Blocks : Total(x)' = rc'[x] /\ (x # b => Total(x)' = Total(x))
  <2>1. ASSUME NEW x \in Blocks, x # b PROVE Total(x)' = Total(x) /\ rc'[x] = rc[x]
    BY <1>1, <1>2, <2>1 DEF Total, Extern, TypeOK
  <2>2. Total(b)' = 1 /\ rc'[b] = 1
    <3>1. held[b] \in Nat /\ leaked[b] \in Nat
      BY <1>2, Typing
    <3>2. leaked[b] = 0 /\ RefsFrom(Blocks, edge, b) = 0
      BY <1>2, <1>4, <3>1 DEF Extern
    <3>3. held'[b] = 1 /\ leaked'[b] = 0 /\ rc'[b] = 1
      BY <1>1, <1>2, <3>2 DEF TypeOK
    <3> QED BY <1>1, <3>2, <3>3 DEF Total, Extern
  <2> QED BY <1>2, <2>1, <2>2
<1>6. Released'
  BY <1>1, <1>2, <1>5 DEF Released, TypeOK
<1>7. Layered'
  BY <1>1, <1>2 DEF Layered
<1>8. Counting'
  BY <1>1, <1>5 DEF Counting, Counted, Total
<1>9. Resting'
  <2>1. rc'[b] = 1 /\ mark'[b] = 0 /\ \A x \in Blocks \ {b} : mark'[x] = mark[x] /\ list'[x] = list[x]
    BY <1>1, <1>2 DEF TypeOK
  <2>2. \A x \in Blocks : list'[x] \in {"none", "gc"}
    BY <1>1, <1>2 DEF TypeOK
  <2> QED BY <1>1, <1>2, <1>5, <2>1, <2>2 DEF Resting, On
<1> QED
  BY <1>1, <1>3, <1>6, <1>7, <1>8, <1>9 DEF IInv

LEMMA DupStep == ASSUME IInv, NEW b \in Blocks, JS_DupValue(b) PROVE IInv'
<1>1. /\ phase = "run" /\ b \in Live /\ held[b] < MaxRefs
      /\ held' = [held EXCEPT ![b] = @ + 1] /\ rc' = [rc EXCEPT ![b] = @ + 1]
      /\ UNCHANGED <<list, edge, mark, leaked, phase, todo, closing>>
  BY DEF JS_DupValue, Running
<1>2. /\ TypeOK /\ Released /\ Layered /\ Resting /\ On("zero") = {}
      /\ \A x \in Blocks : /\ rc[x] = Total(x) /\ rc[x] \in Nat /\ Extern(x) \in Nat
                           /\ RefsFrom(Blocks, edge, x) \in Nat
                           /\ Total(x) = Extern(x) + RefsFrom(Blocks, edge, x)
                           /\ list[x] \in {"none", "gc"}
  BY <1>1, RunFacts
<1>3. list[b] = "gc"
  BY <1>1, LiveFacts DEF On
<1>4. TypeOK'
  <2>1. held[b] + 1 \in 0 .. MaxRefs /\ rc[b] + 1 \in Nat
    BY <1>1, <1>2, HeapAssumption DEF TypeOK
  <2> QED BY <1>1, <1>2, <2>1 DEF TypeOK
<1>5. \A x \in Blocks : Total(x)' = rc'[x] /\ rc'[x] = rc[x] + (IF x = b THEN 1 ELSE 0)
  <2> SUFFICES ASSUME NEW x \in Blocks
               PROVE  Total(x)' = rc'[x] /\ rc'[x] = rc[x] + (IF x = b THEN 1 ELSE 0)
    OBVIOUS
  <2>1. held'[x] = held[x] + (IF x = b THEN 1 ELSE 0) /\ rc'[x] = rc[x] + (IF x = b THEN 1 ELSE 0)
    BY <1>1, <1>2, Typing DEF TypeOK
  <2>2. held[x] \in Nat /\ leaked[x] \in Nat
    BY <1>2, Typing
  <2> QED BY <1>1, <1>2, <2>1, <2>2 DEF Total, Extern
<1>6. Released' /\ Layered'
  BY <1>1, <1>2, <1>3, <1>5 DEF Released, Layered
<1>7. Counting'
  BY <1>1, <1>5 DEF Counting, Counted, Total
<1>8. Resting'
  BY <1>1, <1>2, <1>5 DEF Resting, On
<1> QED
  BY <1>1, <1>4, <1>6, <1>7, <1>8 DEF IInv

LEMMA StoreStep == ASSUME IInv, NEW b \in Blocks, NEW c \in Blocks, Store(b, c) PROVE IInv'
<1>1. /\ phase = "run" /\ b \in Live /\ c \in Live /\ (b \in Values \/ c \in Values)
      /\ c \notin edge[b]
      /\ edge' = [edge EXCEPT ![b] = @ \cup {c}] /\ rc' = [rc EXCEPT ![c] = @ + 1]
      /\ UNCHANGED <<list, mark, held, leaked, phase, todo, closing>>
  BY DEF Store, Running
<1>2. /\ TypeOK /\ Released /\ Layered /\ Resting /\ On("zero") = {}
      /\ \A x \in Blocks : /\ rc[x] = Total(x) /\ rc[x] \in Nat /\ Extern(x) \in Nat
                           /\ RefsFrom(Blocks, edge, x) \in Nat
                           /\ Total(x) = Extern(x) + RefsFrom(Blocks, edge, x)
                           /\ list[x] \in {"none", "gc"}
  BY <1>1, RunFacts
<1>3. list[b] = "gc" /\ list[c] = "gc"
  BY <1>1, LiveFacts DEF On
<1>4. TypeOK'
  <2>1. edge[b] \cup {c} \in SUBSET Blocks /\ rc[c] + 1 \in Nat
    BY <1>2 DEF TypeOK
  <2> QED BY <1>1, <1>2, <2>1 DEF TypeOK
<1>5. \A x \in Blocks : Total(x)' = rc'[x] /\ rc'[x] = rc[x] + (IF x = c THEN 1 ELSE 0)
  <2> SUFFICES ASSUME NEW x \in Blocks
               PROVE  Total(x)' = rc'[x] /\ rc'[x] = rc[x] + (IF x = c THEN 1 ELSE 0)
    OBVIOUS
  <2>1. rc'[x] = rc[x] + (IF x = c THEN 1 ELSE 0)
    BY <1>1, <1>2 DEF TypeOK
  <2>2. (\A s \in Blocks \ {b} : x \in edge[s] <=> x \in edge'[s]) /\ edge'[b] = edge[b] \cup {c}
    BY <1>1, <1>2 DEF TypeOK
  <2>3. RefsFrom(Blocks, edge', x) = RefsFrom(Blocks, edge, x)
          - (IF x \in edge[b] THEN 1 ELSE 0) + (IF x \in edge'[b] THEN 1 ELSE 0)
    BY <2>2, RefsChange
  <2>4. RefsFrom(Blocks, edge', x) = RefsFrom(Blocks, edge, x) + (IF x = c THEN 1 ELSE 0)
    BY <1>1, <1>2, <2>2, <2>3
  <2>5. Extern(x)' = Extern(x)
    BY <1>1 DEF Extern
  <2> QED BY <1>2, <2>1, <2>4, <2>5 DEF Total
<1>6. Released'
  BY <1>1, <1>2, <1>3, <1>5 DEF Released, TypeOK
<1>7. Layered'
  BY <1>1, <1>2, HeapAssumption DEF Layered, TypeOK, Blocks
<1>8. Counting'
  BY <1>1, <1>5 DEF Counting, Counted, Total
<1>9. Resting'
  BY <1>1, <1>2, <1>5 DEF Resting, On
<1> QED
  BY <1>1, <1>4, <1>6, <1>7, <1>8, <1>9 DEF IInv

(* The phase JS_FreeValues goes on with. *)
LEMMA FreePhase ==
  ASSUME IInv, phase = "run", NEW S, JS_FreeValues(S)
  PROVE  /\ list' = [b \in Blocks |-> CASE b \in Dying(S) \cup {} -> "none"
                                        [] b \in Zeroed(S) -> "zero"
                                        [] OTHER -> list[b]]
         /\ phase' = IF \E b \in Blocks : list'[b] = "zero" THEN "free" ELSE "run"
<1>1. On("zero") = {}
  BY RunFacts
<1>2. \A v \in Zeroed(S) : v \in Blocks /\ v \notin Dying(S)
  BY HeapAssumption DEF Zeroed, Dying, Blocks
<1>3. Zeroed(S) # {} <=> \E b \in Blocks : list'[b] = "zero"
  BY <1>1, <1>2 DEF JS_FreeValues, On
<1> QED BY <1>3 DEF JS_FreeValues

LEMMA UnstoreStep == ASSUME IInv, NEW b \in Blocks, NEW c \in Blocks, Unstore(b, c) PROVE IInv'
<1>1. /\ phase = "run" /\ c \in edge[b] /\ JS_FreeValues({c})
      /\ edge' = [x \in Blocks |-> IF x \in Dying({c}) THEN {}
                                   ELSE IF x = b THEN edge[b] \ {c} ELSE edge[x]]
      /\ UNCHANGED <<mark, held, leaked, todo, closing>>
  BY DEF Unstore, Running
<1>2. /\ TypeOK /\ Released /\ Layered /\ Resting /\ On("zero") = {}
      /\ \A x \in Blocks : /\ rc[x] = Total(x) /\ rc[x] \in Nat /\ Extern(x) \in Nat
                           /\ RefsFrom(Blocks, edge, x) \in Nat
                           /\ Total(x) = Extern(x) + RefsFrom(Blocks, edge, x)
                           /\ list[x] \in {"none", "gc"}
  BY <1>1, RunFacts
<1> DEFINE e1 == [edge EXCEPT ![b] = edge[b] \ {c}]
<1>3. b \notin Dying({c}) /\ Dying({c}) \subseteq Blocks
  BY <1>1, <1>2 DEF Dying, Layered, Blocks
<1>4. /\ edge' \in [Blocks -> SUBSET Blocks]
      /\ \A x \in Blocks : edge'[x] \subseteq edge[x]
      /\ \A x \in Dying({c}) : edge'[x] = {} /\ e1[x] = edge[x]
      /\ \A x \in Blocks \ Dying({c}) : edge'[x] = e1[x]
  BY <1>1, <1>2, <1>3 DEF TypeOK
<1>5. ASSUME NEW x \in Blocks
      PROVE  /\ Dropped({c})[x] = Extern(x) + RefsFrom(Blocks, edge', x)
             /\ Dropped({c})[x] \in Nat /\ Dropped({c})[x] <= rc[x]
  <2>1. (\A s \in Blocks \ {b} : x \in edge[s] <=> x \in e1[s]) /\ e1[b] = edge[b] \ {c}
    BY <1>2 DEF TypeOK
  <2>2. Drops({c}, e1, edge') /\ {c} \in SUBSET Blocks
    BY <1>4 DEF Drops
  <2> HIDE DEF e1
  <2>3. RefsFrom(Blocks, e1, x) = RefsFrom(Blocks, edge, x)
          - (IF x \in edge[b] THEN 1 ELSE 0) + (IF x \in e1[b] THEN 1 ELSE 0)
    BY <2>1, RefsChange
  <2>4. RefsFrom(Blocks, e1, x) = RefsFrom(Blocks, edge, x) - (IF x \in {c} THEN 1 ELSE 0)
    BY <1>1, <1>2, <2>1, <2>3
  <2>5. /\ Dropped({c})[x] = rc[x] - (IF x \in {c} THEN 1 ELSE 0)
                              - RefsFrom(Blocks, e1, x) + RefsFrom(Blocks, edge', x)
        /\ Dropped({c})[x] <= rc[x]
        /\ RefsFrom(Blocks, e1, x) \in Nat /\ RefsFrom(Blocks, edge', x) \in Nat
    BY <1>2, <2>2, DropCounts
  <2> QED BY <1>2, <2>4, <2>5
<1> HIDE DEF e1
<1>6. \A x \in Blocks : /\ Dropped({c})[x] = held'[x] + leaked'[x] + RefsFrom(Blocks, edge', x)
                        /\ Dropped({c})[x] \in Nat /\ Dropped({c})[x] <= rc[x]
  BY <1>1, <1>5 DEF Extern
<1>7. held' \in [Blocks -> 0 .. MaxRefs] /\ rc' = Dropped({c})
  BY <1>1, <1>2 DEF TypeOK, JS_FreeValues
<1>8. Frees({c}, {})
  BY <1>1, <1>4, <1>6, <1>7, FreePhase DEF Frees
<1> QED
  BY <1>1, <1>8, FreeStep

(* A reference C code held is given up. *)
GivesUp(b) ==
  /\ phase = "run" /\ held[b] > 0 /\ JS_FreeValues({b})
  /\ held' = [held EXCEPT ![b] = held[b] - 1]
  /\ edge' = [x \in Blocks |-> IF x \in Dying({b}) THEN {} ELSE edge[x]]
  /\ UNCHANGED <<mark, leaked, todo, closing>>

LEMMA GiveUpStep == ASSUME IInv, NEW b \in Blocks, GivesUp(b) PROVE IInv'
<1>1. phase = "run" /\ JS_FreeValues({b}) /\ UNCHANGED <<mark, leaked, todo, closing>>
  BY DEF GivesUp
<1>2. /\ TypeOK /\ Released /\ Layered /\ Resting /\ On("zero") = {}
      /\ \A x \in Blocks : /\ rc[x] = Total(x) /\ rc[x] \in Nat /\ Extern(x) \in Nat
                           /\ RefsFrom(Blocks, edge, x) \in Nat
                           /\ Total(x) = Extern(x) + RefsFrom(Blocks, edge, x)
                           /\ list[x] \in {"none", "gc"}
  BY <1>1, RunFacts
<1>3. /\ edge' \in [Blocks -> SUBSET Blocks]
      /\ \A x \in Blocks : edge'[x] \subseteq edge[x]
      /\ \A x \in Dying({b}) : edge'[x] = {}
      /\ \A x \in Blocks \ Dying({b}) : edge'[x] = edge[x]
  BY <1>2 DEF TypeOK, Dying, Blocks, GivesUp
<1>4. held' \in [Blocks -> 0 .. MaxRefs] /\ rc' = Dropped({b})
  <2>1. held[b] - 1 \in 0 .. MaxRefs
    BY <1>2, HeapAssumption DEF TypeOK, GivesUp
  <2> QED BY <1>2, <2>1 DEF TypeOK, JS_FreeValues, GivesUp
<1>5. ASSUME NEW x \in Blocks
      PROVE  /\ Dropped({b})[x] = held'[x] + leaked'[x] + RefsFrom(Blocks, edge', x)
             /\ Dropped({b})[x] \in Nat /\ Dropped({b})[x] <= rc[x]
  <2>1. /\ held'[x] = held[x] - (IF x = b THEN 1 ELSE 0) /\ leaked'[x] = leaked[x]
        /\ held[x] \in Nat /\ leaked[x] \in Nat
    BY <1>2, Typing DEF TypeOK, GivesUp
  <2>2. Drops({b}, edge, edge') /\ {b} \in SUBSET Blocks
    BY <1>3 DEF Drops
  <2>3. /\ Dropped({b})[x] = rc[x] - (IF x \in {b} THEN 1 ELSE 0)
                              - RefsFrom(Blocks, edge, x) + RefsFrom(Blocks, edge', x)
        /\ Dropped({b})[x] <= rc[x]
        /\ RefsFrom(Blocks, edge, x) \in Nat /\ RefsFrom(Blocks, edge', x) \in Nat
    BY <1>2, <2>2, DropCounts
  <2>4. rc[x] = held[x] + leaked[x] + RefsFrom(Blocks, edge, x)
    BY <1>2 DEF Extern
  <2>5. x = b => held[x] > 0
    BY DEF GivesUp
  <2> QED BY <2>1, <2>3, <2>4, <2>5
<1>6. Frees({b}, {})
  BY <1>1, <1>3, <1>4, <1>5, FreePhase DEF Frees
<1> QED
  BY <1>1, <1>6, FreeStep

LEMMA FreeValueStep == ASSUME IInv, NEW b \in Blocks, JS_FreeValue(b) PROVE IInv'
<1>1. GivesUp(b)
  BY DEF JS_FreeValue, GivesUp
<1> QED BY <1>1, GiveUpStep

LEMMA FreeContextStep == ASSUME IInv, JS_FreeContext PROVE IInv'
<1>1. GivesUp(Context) /\ Context \in Blocks
  BY HeapAssumption DEF JS_FreeContext, GivesUp, Blocks
<1> QED BY <1>1, GiveUpStep

LEMMA ForgetStep == ASSUME IInv, NEW b \in Blocks, Forget(b) PROVE IInv'
<1>1. /\ phase = "run" /\ b \in Values /\ held[b] > 0 /\ leaked[b] < MaxLeaks
      /\ held' = [held EXCEPT ![b] = @ - 1] /\ leaked' = [leaked EXCEPT ![b] = @ + 1]
      /\ UNCHANGED <<list, edge, rc, mark, phase, todo, closing>>
  BY DEF Forget, Running
<1>2. TypeOK
  BY DEF IInv
<1>3. TypeOK'
  <2>1. held[b] - 1 \in 0 .. MaxRefs /\ leaked[b] + 1 \in 0 .. MaxLeaks
    BY <1>1, <1>2, HeapAssumption DEF TypeOK
  <2> QED BY <1>1, <1>2, <2>1 DEF TypeOK
<1>4. \A x \in Blocks : Extern(x)' = Extern(x) /\ Total(x)' = Total(x)
  <2> SUFFICES ASSUME NEW x \in Blocks PROVE Extern(x)' = Extern(x)
    BY <1>1 DEF Total
  <2>1. held[x] \in Nat /\ leaked[x] \in Nat
    BY <1>2, Typing
  <2>2. IF x = b THEN held'[x] = held[x] - 1 /\ leaked'[x] = leaked[x] + 1
                 ELSE held'[x] = held[x] /\ leaked'[x] = leaked[x]
    BY <1>1, <1>2 DEF TypeOK
  <2> QED BY <2>1, <2>2 DEF Extern
<1>5. Released' /\ Layered'
  BY <1>1, <1>4 DEF IInv, Released, Layered
<1>6. Counting'
  BY <1>1, <1>4 DEF IInv, Counting, Counted
<1>7. Resting'
  BY <1>1, <1>4 DEF IInv, Resting, On
<1> QED
  BY <1>1, <1>3, <1>5, <1>6, <1>7 DEF IInv

(* Releasing a value p, with the shared blocks only it referred to. *)
LEMMA ReleaseCounts ==
  ASSUME IInv, phase \in {"free", "cycles"}, NEW p \in Values,
         edge' = [b \in Blocks |-> IF b \in Dying(edge[p]) \cup {p} THEN {} ELSE edge[b]]
  PROVE  /\ edge[p] \in SUBSET Blocks /\ p \in Blocks /\ p \notin Dying(edge[p])
         /\ Dying(edge[p]) \subseteq Blocks
         /\ edge' \in [Blocks -> SUBSET Blocks]
         /\ \A b \in Blocks : /\ Dropped(edge[p])[b] = Extern(b) + RefsFrom(Blocks, edge', b)
                              /\ Dropped(edge[p])[b] \in Nat
                              /\ Dropped(edge[p])[b] <= rc[b]
<1> DEFINE S == edge[p]
           e1 == [edge EXCEPT ![p] = {}]
<1>1. TypeOK /\ p \in Blocks /\ S \in SUBSET Blocks
  BY DEF IInv, TypeOK, Blocks
<1>2. p \notin Dying(S) /\ Dying(S) \subseteq Blocks
  BY HeapAssumption DEF Dying, Blocks
<1>3. edge' \in [Blocks -> SUBSET Blocks]
  BY <1>1 DEF TypeOK
<1>4. Drops(S, e1, edge')
  BY <1>1, <1>2 DEF Drops, TypeOK
<1>5. ASSUME NEW b \in Blocks
      PROVE  /\ Dropped(S)[b] = Extern(b) + RefsFrom(Blocks, edge', b)
             /\ Dropped(S)[b] \in Nat /\ Dropped(S)[b] <= rc[b]
  <2>1. rc[b] = Extern(b) + RefsFrom(Blocks, edge, b)
    BY DEF IInv, Counting, Counted
  <2>2. Extern(b) \in Nat /\ RefsFrom(Blocks, edge, b) \in Nat
    BY <1>1, Typing
  <2>3. (\A s \in Blocks \ {p} : b \in edge[s] <=> b \in e1[s]) /\ e1[p] = {}
    BY <1>1 DEF TypeOK
  <2> HIDE DEF e1
  <2>4. RefsFrom(Blocks, e1, b) = RefsFrom(Blocks, edge, b)
          - (IF b \in edge[p] THEN 1 ELSE 0) + (IF b \in e1[p] THEN 1 ELSE 0)
    BY <1>1, <2>3, RefsChange
  <2>5. RefsFrom(Blocks, e1, b) = RefsFrom(Blocks, edge, b) - (IF b \in S THEN 1 ELSE 0)
    BY <2>2, <2>3, <2>4
  <2> HIDE DEF S
  <2>6. /\ Dropped(S)[b] = rc[b] - (IF b \in S THEN 1 ELSE 0)
                              - RefsFrom(Blocks, e1, b) + RefsFrom(Blocks, edge', b)
        /\ Dropped(S)[b] <= rc[b]
        /\ RefsFrom(Blocks, e1, b) \in Nat /\ RefsFrom(Blocks, edge', b) \in Nat
    BY <1>1, <1>4, DropCounts
  <2> QED BY <2>1, <2>2, <2>5, <2>6
<1> QED
  BY <1>1, <1>2, <1>3, <1>5

LEMMA FreeZeroStep == ASSUME IInv, free_zero_refcount PROVE IInv'
<1>1. PICK p \in On("zero") :
        /\ rc' = Dropped(edge[p])
        /\ list' = [b \in Blocks |->
                      CASE b \in Dying(edge[p]) \cup {p} -> "none"
                        [] b \in Zeroed(edge[p]) -> "zero"
                        [] OTHER -> list[b]]
        /\ edge' = [b \in Blocks |-> IF b \in Dying(edge[p]) \cup {p} THEN {} ELSE edge[b]]
  BY DEF free_zero_refcount
<1>2. /\ phase = "free"
      /\ phase' = IF \E b \in Blocks : list'[b] = "zero" THEN "free" ELSE "run"
      /\ UNCHANGED <<mark, held, leaked, todo, closing>>
  BY DEF free_zero_refcount
<1>3. p \in Values /\ held \in [Blocks -> 0 .. MaxRefs]
  BY <1>2 DEF IInv, Resting, TypeOK
<1>4. /\ edge[p] \in SUBSET Blocks /\ p \in Blocks /\ Dying(edge[p]) \subseteq Blocks
      /\ edge' \in [Blocks -> SUBSET Blocks]
      /\ \A b \in Blocks : /\ Dropped(edge[p])[b] = Extern(b) + RefsFrom(Blocks, edge', b)
                           /\ Dropped(edge[p])[b] \in Nat
                           /\ Dropped(edge[p])[b] <= rc[b]
  BY <1>1, <1>2, <1>3, ReleaseCounts
<1>5. /\ \A x \in Blocks : edge'[x] \subseteq edge[x]
      /\ \A x \in Dying(edge[p]) \cup {p} : edge'[x] = {}
  BY <1>1, <1>4
<1>6. \A b \in Blocks :
        /\ Dropped(edge[p])[b] = held'[b] + leaked'[b] + RefsFrom(Blocks, edge', b)
        /\ Dropped(edge[p])[b] \in Nat /\ Dropped(edge[p])[b] <= rc[b]
  BY <1>2, <1>4 DEF Extern
<1>7. Frees(edge[p], {p})
  BY <1>1, <1>2, <1>3, <1>4, <1>5, <1>6 DEF Frees
<1>8. {p} \in SUBSET On("zero") /\ phase \in {"run", "free"}
  BY <1>2
<1> QED
  BY <1>4, <1>7, <1>8, FreeStep

LEMMA BeginCloseStep == ASSUME IInv, lua_free_context PROVE IInv'
<1>1. /\ UNCHANGED <<list, edge, rc, mark, held, leaked, phase, todo>>
      /\ phase = "run" /\ closing' = TRUE
  BY DEF lua_free_context, Running
<1>2. TypeOK' /\ Released' /\ Layered'
  BY <1>1 DEF IInv, TypeOK, Released, Layered, Total, Extern
<1>3. Counting' /\ Resting'
  BY <1>1 DEF IInv, Counting, Counted, Resting, On, Total, Extern
<1> QED BY <1>1, <1>2, <1>3 DEF IInv

-----------------------------------------------------------------------------
(* The steps of the collector. *)

(* What the collector leaves alone before gc_free_cycles. *)
Walks == UNCHANGED <<edge, held, leaked, closing>>

LEMMA WalkFacts ==
  ASSUME Walks
  PROVE  /\ Layered => Layered'
         /\ Pinned' = Pinned
         /\ \A b : Extern(b)' = Extern(b) /\ Total(b)' = Total(b)
  BY DEF Walks, Layered, Pinned, Extern, Total

(* Blocks that something refers to are allocated. *)
LEMMA ChildFacts ==
  ASSUME TypeOK, Released, NEW p \in Blocks, NEW c \in edge[p]
  PROVE  c \in Blocks /\ c \in Allocated /\ p \in Allocated
<1>1. c \in Blocks
  BY DEF TypeOK
<1>2. RefsFrom(Blocks, edge, c) \in Nat /\ RefsFrom(Blocks, edge, c) # 0
  BY RefsFacts
<1>3. Total(c) > 0
  BY <1>1, <1>2, Typing
<1> QED BY <1>1, <1>3 DEF Released, Allocated

(* JS_RunGC begins, in a script or for JS_FreeRuntime. *)
LEMMA StartStep ==
  ASSUME IInv, phase = "run", phase' = "decref", todo' = On("gc"),
         UNCHANGED <<list, rc, mark>>, Walks
  PROVE  IInv'
<1>1. /\ TypeOK /\ Released /\ Layered /\ Resting
      /\ \A x \in Blocks : /\ rc[x] = Extern(x) + RefsFrom(Blocks, edge, x)
                           /\ list[x] \in {"none", "gc"}
  BY RunFacts
<1>2. /\ Layered' /\ \A b : Extern(b)' = Extern(b) /\ Total(b)' = Total(b)
  BY <1>1, WalkFacts
<1>3. On("gc") \in SUBSET Blocks /\ On("gc") = Allocated
  BY <1>1 DEF On, Allocated
<1>4. TypeOK'
  BY <1>1, <1>3 DEF TypeOK, Walks
<1>5. Released'
  BY <1>1, <1>2 DEF Released, Walks
<1>6. Counting'
  <2> SUFFICES ASSUME NEW b \in Blocks
               PROVE  rc[b] = Extern(b) + RefsFrom(On("gc"), edge, b)
    BY <1>2 DEF Counting, Counted, Walks
  <2>1. \A s \in Blocks \ On("gc") : b \notin edge[s]
    BY <1>1 DEF Released, On
  <2>2. RefsFrom(Blocks, edge, b) = RefsFrom(On("gc"), edge, b)
    BY <1>3, <2>1, RefsIgnore
  <2> QED BY <1>1, <2>2
<1>7. Referred'
  BY <1>1, <1>2 DEF Referred, Allocated, Resting, On
<1>8. Trial'
  BY <1>1, <1>3 DEF Trial, Allocated, Resting, On
<1> QED BY <1>2, <1>4, <1>5, <1>6, <1>7, <1>8 DEF IInv

(* gc_decref on one block. *)
DecrefVisit(p, left, out) ==
  /\ left = [b \in Blocks |-> rc[b] - (IF b \in edge[p] THEN 1 ELSE 0)]
  /\ out = {c \in edge[p] : left[c] = 0 /\ mark[c] = 1} \cup {b \in {p} : left[b] = 0}
  /\ rc' = left /\ mark' = [mark EXCEPT ![p] = 1]
  /\ list' = [b \in Blocks |-> IF b \in out THEN "tmp" ELSE list[b]]
  /\ todo' = (todo \ {p}) \ out
  /\ phase = "decref" /\ phase' = "decref"

LEMMA DecrefVisitStep ==
  ASSUME IInv, Walks, NEW p \in todo, NEW left, NEW out, DecrefVisit(p, left, out)
  PROVE  IInv'
<1>1. /\ TypeOK /\ Released /\ Layered /\ Referred /\ Trial
      /\ phase = "decref" /\ phase' = "decref" /\ p \in Blocks
      /\ \A b \in Blocks : rc[b] = Extern(b) + RefsFrom(todo, edge, b)
      /\ todo \in SUBSET Blocks
  BY DEF IInv, Counting, Counted, DecrefVisit, TypeOK
<1>2. Layered' /\ \A b : Extern(b)' = Extern(b) /\ Total(b)' = Total(b)
  BY <1>1, WalkFacts
<1>3. \A b \in Blocks : rc[b] \in Nat /\ Extern(b) \in Nat
  BY <1>1, Typing
<1>4. \A b \in Blocks : /\ rc'[b] = rc[b] - (IF b \in edge[p] THEN 1 ELSE 0)
                        /\ rc'[b] = left[b]
  BY DEF DecrefVisit
<1>5. ASSUME NEW b \in Blocks
      PROVE  /\ rc'[b] = Extern(b) + RefsFrom(todo \ {p}, edge, b)
             /\ rc'[b] \in Nat /\ (b \in edge[p] => rc[b] > 0)
  <2>1. /\ RefsFrom(todo, edge, b)
             = RefsFrom(todo \ {p}, edge, b) + (IF b \in edge[p] THEN 1 ELSE 0)
        /\ RefsFrom(todo \ {p}, edge, b) \in Nat
    BY <1>1, RefsTake
  <2>2. rc[b] = Extern(b) + RefsFrom(todo, edge, b)
    BY <1>1
  <2> QED BY <1>3, <1>4, <2>1, <2>2
<1>6. /\ mark[p] = 0 /\ p \in Allocated /\ edge[p] \subseteq Allocated /\ edge[p] \subseteq Blocks
      /\ Allocated \subseteq Blocks
  BY <1>1, ChildFacts DEF Trial, Allocated
<1>7. \A b \in Blocks : b \in out <=> \/ b \in edge[p] /\ rc'[b] = 0 /\ mark[b] = 1
                                      \/ b = p /\ rc'[b] = 0
  BY <1>4 DEF DecrefVisit
<1>8. out \subseteq Allocated
  BY <1>1, <1>6 DEF DecrefVisit
<1>9. todo' = todo \ {p}
  <2>1. \A b \in out : b = p \/ b \notin todo
    BY <1>1, <1>6, <1>7, <1>8 DEF Trial
  <2> QED BY <2>1 DEF DecrefVisit
<1>10. /\ \A b \in Blocks : list'[b] = IF b \in out THEN "tmp" ELSE list[b]
       /\ \A b \in Blocks : mark'[b] = IF b = p THEN 1 ELSE mark[b]
  BY <1>1 DEF DecrefVisit, TypeOK
<1>11. Allocated' = Allocated
  BY <1>8, <1>10 DEF Allocated
<1>12. TypeOK'
  <2>1. rc' \in [Blocks -> Nat]
    <3>1. rc' = [b \in Blocks |-> rc'[b]]
      BY DEF DecrefVisit
    <3> QED BY <1>5, <3>1
  <2>2. /\ list' \in [Blocks -> {"none", "gc", "tmp", "zero"}] /\ mark' \in [Blocks -> {0, 1}]
    BY <1>1 DEF TypeOK, DecrefVisit
  <2> QED BY <1>1, <1>9, <2>1, <2>2 DEF TypeOK, Walks
<1>13. Released'
  BY <1>1, <1>2, <1>10 DEF Released, Walks
<1>14. Counting'
  BY <1>1, <1>2, <1>5, <1>9 DEF Counting, Counted, Walks
<1>15. Referred'
  BY <1>1, <1>2, <1>6, <1>10, <1>11 DEF Referred
<1>16. Trial'
  <2>1. todo' \subseteq Allocated'
    BY <1>1, <1>9, <1>11 DEF Trial
  <2>2. ASSUME NEW b \in Allocated PROVE b \in todo' <=> mark'[b] = 0
    BY <1>1, <1>6, <1>9, <1>10 DEF Trial
  <2>3. ASSUME NEW b \in Allocated PROVE list'[b] = "tmp" <=> mark'[b] = 1 /\ rc'[b] = 0
    <3>1. b \in Blocks /\ (list[b] = "tmp" <=> mark[b] = 1 /\ rc[b] = 0) /\ mark[b] \in {0, 1}
      BY <1>1, <1>6 DEF Trial, TypeOK
    <3>2. CASE b = p
      BY <1>6, <1>7, <1>10, <3>1, <3>2
    <3>3. CASE b # p /\ b \in edge[p]
      <4>1. rc[b] > 0
        BY <1>5, <3>1, <3>3
      <4>2. list[b] # "tmp"
        BY <3>1, <4>1
      <4> QED BY <1>7, <1>10, <3>1, <3>3, <4>2
    <3>4. CASE b # p /\ b \notin edge[p]
      <4>1. rc'[b] = rc[b]
        BY <1>3, <1>4, <3>1, <3>4
      <4> QED BY <1>7, <1>10, <3>1, <3>4, <4>1
    <3> QED BY <3>2, <3>3, <3>4
  <2> QED BY <1>11, <2>1, <2>2, <2>3 DEF Trial
<1> QED BY <1>1, <1>2, <1>12, <1>13, <1>14, <1>15, <1>16 DEF IInv

LEMMA DecrefEndStep ==
  ASSUME IInv, Walks, phase = "decref", todo = {}, phase' = "scan", todo' = On("gc"),
         UNCHANGED <<list, rc, mark>>
  PROVE  IInv'
<1>1. /\ TypeOK /\ Released /\ Layered /\ Referred /\ Trial
      /\ \A b \in Blocks : rc[b] = Extern(b) + RefsFrom(todo, edge, b)
  BY DEF IInv, Counting, Counted
<1>2. Layered' /\ Pinned' = Pinned /\ \A b : Extern(b)' = Extern(b) /\ Total(b)' = Total(b)
  BY <1>1, WalkFacts
<1>3. TypeOK' /\ Released'
  <2>1. On("gc") \subseteq Blocks
    BY DEF On
  <2> QED BY <1>1, <1>2, <2>1 DEF TypeOK, Released, Walks
<1>4. Counting'
  <2>1. Counted' = {}
    BY DEF Counted, On
  <2> QED BY <1>1, <1>2, <2>1 DEF Counting, Walks
<1>5. Referred'
  BY <1>1, <1>2 DEF Referred, Allocated
<1>6. \A b \in Allocated : list[b] = "gc" <=> rc[b] > 0
  BY <1>1 DEF Trial, Referred, TypeOK, Allocated
<1>7. On("gc") \subseteq Pinned
  <2> SUFFICES ASSUME NEW b \in On("gc") PROVE b \in Pinned
    OBVIOUS
  <2>1. b \in Blocks /\ b \in Allocated
    BY DEF On, Allocated
  <2>2. rc[b] > 0 /\ RefsFrom(todo, edge, b) = 0
    <3>1. RefsFrom(todo, edge, b) = 0
      BY <1>1, RefsFacts
    <3> QED BY <1>6, <2>1, <3>1 DEF On
  <2>3. Extern(b) > 0
    BY <1>1, <2>1, <2>2, Typing
  <2>4. [x \in Blocks |-> held[x] + leaked[x]][b] > 0
    BY <2>1, <2>3 DEF Extern
  <2> QED BY <2>1, <2>4, ReachFacts DEF Pinned
<1>8. Scanning'
  BY <1>2, <1>6, <1>7 DEF Scanning, On, Allocated
<1> QED BY <1>2, <1>3, <1>4, <1>5, <1>8 DEF IInv

(* gc_scan on one block of gc_obj_list. *)
ScanVisit(p, found) ==
  /\ found = {c \in edge[p] : rc[c] = 0}
  /\ rc' = [b \in Blocks |-> rc[b] + (IF b \in edge[p] THEN 1 ELSE 0)]
  /\ list' = [b \in Blocks |-> IF b \in found THEN "gc" ELSE list[b]]
  /\ mark' = [b \in Blocks |-> IF b \in found \cup {p} THEN 0 ELSE mark[b]]
  /\ todo' = (todo \ {p}) \cup found
  /\ phase = "scan" /\ phase' = "scan"

LEMMA ScanVisitStep ==
  ASSUME IInv, Walks, NEW p \in todo, NEW found, ScanVisit(p, found)
  PROVE  IInv'
<1> DEFINE G == On("gc") \ todo
<1>1. /\ TypeOK /\ Released /\ Layered /\ Referred /\ Scanning
      /\ phase = "scan" /\ phase' = "scan"
      /\ p \in On("gc") /\ p \in Blocks /\ G \in SUBSET Blocks /\ p \notin G
      /\ \A b \in Blocks : rc[b] = Extern(b) + RefsFrom(G, edge, b)
  BY DEF IInv, Counting, Counted, ScanVisit, Scanning, On
<1>2. Layered' /\ Pinned' = Pinned /\ \A b : Extern(b)' = Extern(b) /\ Total(b)' = Total(b)
  BY <1>1, WalkFacts
<1>3. \A b \in Blocks : rc[b] \in Nat /\ Extern(b) \in Nat
  BY <1>1, Typing
<1>4. \A b \in Blocks : rc'[b] = rc[b] + (IF b \in edge[p] THEN 1 ELSE 0) /\ rc'[b] \in Nat
  BY <1>3 DEF ScanVisit
<1>5. edge[p] \subseteq Allocated /\ Allocated \subseteq Blocks /\ On("gc") \subseteq Allocated
  BY <1>1, ChildFacts DEF Allocated, On
<1>6. /\ found \subseteq Allocated /\ found \cap On("gc") = {}
      /\ \A b \in Blocks : b \in found <=> b \in edge[p] /\ rc[b] = 0
  BY <1>1, <1>5 DEF ScanVisit, Scanning, On
<1>7. /\ \A b \in Blocks : list'[b] = IF b \in found THEN "gc" ELSE list[b]
      /\ \A b \in Blocks : mark'[b] = IF b \in found \cup {p} THEN 0 ELSE mark[b]
      /\ todo' = (todo \ {p}) \cup found
  BY DEF ScanVisit
<1>8. Allocated' = Allocated /\ On("gc")' = On("gc") \cup found
  BY <1>5, <1>6, <1>7 DEF Allocated, On
<1>9. On("gc")' \ todo' = G \cup {p}
  BY <1>1, <1>6, <1>7, <1>8
<1> HIDE DEF G
<1>10. TypeOK'
  <2>1. rc' \in [Blocks -> Nat]
    <3>1. rc' = [b \in Blocks |-> rc'[b]]
      BY DEF ScanVisit
    <3> QED BY <1>4, <3>1
  <2>2. list' \in [Blocks -> {"none", "gc", "tmp", "zero"}] /\ mark' \in [Blocks -> {0, 1}]
    BY <1>1 DEF TypeOK, ScanVisit
  <2>3. todo' \subseteq Blocks
    BY <1>1, <1>5, <1>6, <1>7 DEF TypeOK
  <2> QED BY <1>1, <2>1, <2>2, <2>3 DEF TypeOK, Walks
<1>11. Released'
  BY <1>1, <1>2, <1>7 DEF Released, Walks
<1>12. Counting'
  <2>1. Counted' = G \cup {p} /\ G \cup {p} \in SUBSET Blocks /\ (G \cup {p}) \ {p} = G
    BY <1>1, <1>9 DEF Counted
  <2> SUFFICES ASSUME NEW b \in Blocks
               PROVE  rc'[b] = Extern(b) + RefsFrom(G \cup {p}, edge, b)
    BY <1>2, <2>1 DEF Counting, Walks
  <2> DEFINE T == G \cup {p}
  <2>2. T \in SUBSET Blocks /\ p \in T /\ T \ {p} = G
    BY <2>1
  <2> HIDE DEF T
  <2>3. /\ RefsFrom(T, edge, b) = RefsFrom(T \ {p}, edge, b) + (IF b \in edge[p] THEN 1 ELSE 0)
        /\ RefsFrom(T \ {p}, edge, b) \in Nat
    BY <2>2, RefsTake
  <2>4. /\ RefsFrom(T, edge, b) = RefsFrom(G, edge, b) + (IF b \in edge[p] THEN 1 ELSE 0)
        /\ RefsFrom(G, edge, b) \in Nat
    BY <2>2, <2>3
  <2>5. rc[b] = Extern(b) + RefsFrom(G, edge, b)
    BY <1>1
  <2> QED BY <1>3, <1>4, <2>4, <2>5 DEF T
<1>13. Referred'
  BY <1>1, <1>2, <1>5, <1>7, <1>8 DEF Referred
<1>14. Scanning'
  <2>1. todo' \subseteq On("gc")'
    BY <1>1, <1>7, <1>8 DEF Scanning
  <2>2. ASSUME NEW b \in Allocated PROVE list'[b] = "gc" <=> rc'[b] > 0
    <3>1. b \in Blocks /\ (list[b] = "gc" <=> rc[b] > 0) /\ rc[b] \in Nat
      BY <1>1, <1>3, <1>5 DEF Scanning
    <3>2. CASE b \in edge[p]
      <4>1. rc'[b] > 0
        BY <1>4, <3>1, <3>2
      <4>2. list'[b] = "gc"
        BY <1>6, <1>7, <3>1, <3>2
      <4> QED BY <4>1, <4>2
    <3>3. CASE b \notin edge[p]
      <4>1. rc'[b] = rc[b]
        BY <1>4, <3>1, <3>3
      <4> QED BY <1>6, <1>7, <3>1, <3>3, <4>1
    <3> QED BY <3>2, <3>3
  <2>3. \A b \in On("gc")' \ todo' : mark'[b] = 0
    BY <1>1, <1>7, <1>9 DEF Scanning, G
  <2>4. On("gc")' \subseteq Pinned'
    <3>1. p \in Pinned /\ On("gc") \subseteq Pinned
      BY <1>1 DEF Scanning
    <3>2. edge[p] \cap Blocks \subseteq Pinned
      BY <3>1, ReachFacts DEF Pinned
    <3> QED BY <1>2, <1>5, <1>6, <1>8, <3>1, <3>2
  <2> QED BY <1>8, <2>1, <2>2, <2>3, <2>4 DEF Scanning
<1> QED BY <1>1, <1>2, <1>10, <1>11, <1>12, <1>13, <1>14 DEF IInv

LEMMA ScanEndStep ==
  ASSUME IInv, Walks, phase = "scan", todo = {}, phase' = "restore", todo' = On("tmp"),
         UNCHANGED <<list, rc, mark>>
  PROVE  IInv'
<1>1. /\ TypeOK /\ Released /\ Layered /\ Referred /\ Scanning
      /\ \A b \in Blocks : rc[b] = Extern(b) + RefsFrom(On("gc"), edge, b)
  <2>1. Counted = On("gc")
    BY DEF Counted
  <2> QED BY <2>1 DEF IInv, Counting
<1>2. Layered' /\ Pinned' = Pinned /\ \A b : Extern(b)' = Extern(b) /\ Total(b)' = Total(b)
  BY <1>1, WalkFacts
<1>3. /\ \A l : On(l)' = On(l) /\ On(l) \in SUBSET Blocks
      /\ \A b \in Blocks \ On("tmp") : b \in On("gc") \/ edge[b] = {}
  BY <1>1 DEF On, Referred, Allocated, Released
<1>4. TypeOK' /\ Released'
  BY <1>1, <1>2, <1>3 DEF TypeOK, Released, Walks
<1>5. Counting'
  <2> SUFFICES ASSUME NEW b \in Blocks
               PROVE  rc[b] = Extern(b) + RefsFrom(Blocks \ On("tmp"), edge, b)
    BY <1>2 DEF Counting, Counted, Walks
  <2> DEFINE T == Blocks \ On("tmp")
  <2>1. T \in SUBSET Blocks /\ On("gc") \in SUBSET T
    BY DEF On
  <2>2. \A s \in T \ On("gc") : b \notin edge[s]
    BY <1>3
  <2> HIDE DEF T
  <2>3. RefsFrom(T, edge, b) = RefsFrom(On("gc"), edge, b)
    BY <2>1, <2>2, RefsIgnore
  <2> QED BY <1>1, <2>3 DEF T
<1>6. Referred' /\ todo' \subseteq On("tmp")'
  BY <1>1, <1>2, <1>3 DEF Referred, Allocated
<1>7. \A b \in Blocks : rc[b] > 0 /\ b \in Allocated => b \in On("gc")
  BY <1>1 DEF Scanning, On
<1>8. ASSUME NEW b \in On("gc") PROVE edge[b] \subseteq On("gc")
  <2> SUFFICES ASSUME NEW c \in edge[b] PROVE c \in On("gc")
    OBVIOUS
  <2>1. c \in Blocks /\ c \in Allocated
    BY <1>1, <1>3, ChildFacts
  <2>2. RefsFrom(On("gc"), edge, c) \in Nat /\ RefsFrom(On("gc"), edge, c) # 0
    BY <1>3, RefsFacts
  <2>3. Extern(c) \in Nat
    BY <1>1, <2>1, Typing
  <2>4. rc[c] > 0
    BY <1>1, <2>1, <2>2, <2>3
  <2> QED BY <1>7, <2>1, <2>4
<1>9. ASSUME NEW b \in Blocks, Extern(b) > 0 PROVE b \in On("gc")
  <2>1. Extern(b) \in Nat /\ RefsFrom(Blocks, edge, b) \in Nat /\ RefsFrom(On("gc"), edge, b) \in Nat
    BY <1>1, <1>3, Typing, RefsFacts
  <2>2. Total(b) > 0 /\ rc[b] > 0
    BY <1>1, <1>9, <2>1 DEF Total
  <2> QED BY <1>1, <1>7, <2>2 DEF Released, Allocated
<1>10. \A b \in On("gc") : mark[b] = 0 /\ Extern(b) + RefsFrom(On("gc"), edge, b) > 0
  BY <1>1 DEF Scanning, On, Allocated
<1>11. Separated'
  <2>1. On("gc") \subseteq Pinned
    BY <1>1 DEF Scanning
  <2> QED BY <1>2, <1>3, <1>8, <1>9, <1>10, <2>1 DEF Separated, Walks
<1> QED BY <1>2, <1>4, <1>5, <1>6, <1>11 DEF IInv

(* gc_scan, second loop. *)
LEMMA RestoreVisitStep ==
  ASSUME IInv, Walks, NEW p \in todo, phase = "restore", phase' = "restore",
         rc' = [b \in Blocks |-> rc[b] + (IF b \in edge[p] THEN 1 ELSE 0)],
         todo' = todo \ {p}, UNCHANGED <<list, mark>>
  PROVE  IInv'
<1>1. /\ TypeOK /\ Released /\ Layered /\ Referred /\ Separated
      /\ todo \subseteq On("tmp") /\ p \in Blocks
      /\ \A b \in Blocks : rc[b] = Extern(b) + RefsFrom(Blocks \ todo, edge, b)
  BY DEF IInv, Counting, Counted, TypeOK
<1>2. Layered' /\ Pinned' = Pinned /\ \A b : Extern(b)' = Extern(b) /\ Total(b)' = Total(b)
  BY <1>1, WalkFacts
<1>3. \A b \in Blocks : rc[b] \in Nat /\ Extern(b) \in Nat
  BY <1>1, Typing
<1>4. \A b \in Blocks : rc'[b] = rc[b] + (IF b \in edge[p] THEN 1 ELSE 0) /\ rc'[b] \in Nat
  BY <1>3
<1>5. /\ On("gc")' = On("gc") /\ On("tmp")' = On("tmp") /\ Allocated' = Allocated
  BY DEF On, Allocated
<1>6. TypeOK'
  BY <1>1, <1>4 DEF TypeOK, Walks
<1>7. Released' /\ Referred' /\ Separated' /\ todo' \subseteq On("tmp")'
  BY <1>1, <1>2, <1>5 DEF Released, Referred, Separated, Walks
<1>8. Counting'
  <2> SUFFICES ASSUME NEW b \in Blocks
               PROVE  rc'[b] = Extern(b) + RefsFrom(Blocks \ (todo \ {p}), edge, b)
    BY <1>2 DEF Counting, Counted, Walks
  <2> DEFINE T == Blocks \ (todo \ {p})
  <2>1. T \in SUBSET Blocks /\ p \in T /\ T \ {p} = Blocks \ todo
    BY <1>1
  <2> HIDE DEF T
  <2>2. /\ RefsFrom(T, edge, b) = RefsFrom(T \ {p}, edge, b) + (IF b \in edge[p] THEN 1 ELSE 0)
        /\ RefsFrom(T \ {p}, edge, b) \in Nat
    BY <2>1, RefsTake
  <2>3. /\ RefsFrom(T, edge, b) = RefsFrom(Blocks \ todo, edge, b) + (IF b \in edge[p] THEN 1 ELSE 0)
        /\ RefsFrom(Blocks \ todo, edge, b) \in Nat
    BY <2>1, <2>2
  <2>4. rc[b] = Extern(b) + RefsFrom(Blocks \ todo, edge, b)
    BY <1>1
  <2> QED BY <1>3, <1>4, <2>3, <2>4 DEF T
<1> QED BY <1>2, <1>6, <1>7, <1>8 DEF IInv

LEMMA RestoreEndStep ==
  ASSUME IInv, Walks, phase = "restore", todo = {}, phase' = "cycles",
         UNCHANGED <<list, rc, mark, todo>>
  PROVE  IInv'
<1>1. /\ TypeOK /\ Released /\ Layered /\ Referred /\ Separated
      /\ \A b \in Blocks : rc[b] = Extern(b) + RefsFrom(Blocks, edge, b)
  <2>1. Counted = Blocks
    BY DEF Counted
  <2> QED BY <2>1 DEF IInv, Counting
<1>2. Layered' /\ Pinned' = Pinned /\ \A b : Extern(b)' = Extern(b) /\ Total(b)' = Total(b)
  BY <1>1, WalkFacts
<1>3. /\ \A l : On(l)' = On(l)
      /\ Allocated' = Allocated
  BY DEF On, Allocated
<1>4. TypeOK' /\ Released' /\ Separated'
  BY <1>1, <1>2, <1>3 DEF TypeOK, Released, Separated, Walks
<1>5. Counting'
  BY <1>1, <1>2 DEF Counting, Counted, Walks
<1>6. Dismantling'
  <2>1. On("zero") = {}
    BY <1>1 DEF Referred, On, Allocated
  <2> QED BY <1>1, <1>2, <1>3, <2>1 DEF Dismantling, Referred
<1> QED BY <1>2, <1>4, <1>5, <1>6 DEF IInv

(* gc_free_cycles on a value. *)
CycleFree(p) ==
  /\ phase = "cycles" /\ p \in On("tmp") /\ p \in Values
  /\ rc' = Dropped(edge[p])
  /\ list' = [b \in Blocks |-> CASE b = p -> Husk(rc', p)
                                 [] b \in Dying(edge[p]) -> "none"
                                 [] OTHER -> list[b]]
  /\ edge' = [b \in Blocks |-> IF b \in Dying(edge[p]) \cup {p} THEN {} ELSE edge[b]]
  /\ UNCHANGED <<mark, held, leaked, phase, todo, closing>>

LEMMA CycleFreeStep == ASSUME IInv, NEW p, CycleFree(p) PROVE IInv'
<1>1. /\ TypeOK /\ Released /\ Layered /\ Separated /\ Dismantling
      /\ phase = "cycles" /\ phase' = "cycles"
      /\ \A b \in Blocks : rc[b] = Total(b) /\ rc[b] \in Nat
      /\ p \in Values /\ p \in Blocks /\ list[p] = "tmp"
  <2>1. phase = "cycles" /\ phase' = "cycles" /\ p \in Values /\ p \in Blocks /\ list[p] = "tmp"
    BY DEF CycleFree, On
  <2>2. \A b \in Blocks : rc[b] = Total(b)
    BY <2>1 DEF IInv, Counting, Counted, Total
  <2> QED BY <2>1, <2>2 DEF IInv, TypeOK
<1>2. /\ edge[p] \in SUBSET Blocks /\ p \notin Dying(edge[p])
      /\ Dying(edge[p]) \subseteq Blocks
      /\ edge' \in [Blocks -> SUBSET Blocks]
      /\ \A b \in Blocks : /\ Dropped(edge[p])[b] = Extern(b) + RefsFrom(Blocks, edge', b)
                           /\ Dropped(edge[p])[b] \in Nat
                           /\ Dropped(edge[p])[b] <= rc[b]
  <2>1. /\ phase \in {"free", "cycles"}
        /\ edge' = [b \in Blocks |-> IF b \in Dying(edge[p]) \cup {p} THEN {} ELSE edge[b]]
    BY <1>1 DEF CycleFree
  <2> QED BY <1>1, <2>1, ReleaseCounts
<1>3. /\ \A b \in Blocks : edge'[b] = IF b \in Dying(edge[p]) \cup {p} THEN {} ELSE edge[b]
      /\ \A b \in Blocks : list'[b] = CASE b = p -> Husk(rc', p)
                                        [] b \in Dying(edge[p]) -> "none"
                                        [] OTHER -> list[b]
      /\ rc' = Dropped(edge[p])
  BY DEF CycleFree
<1>4. \A b \in Blocks : /\ Extern(b)' = Extern(b) /\ Total(b)' = rc'[b]
                        /\ rc'[b] \in Nat /\ rc'[b] <= rc[b]
  BY <1>2, <1>3 DEF Extern, Total, CycleFree
<1>5. ASSUME NEW b \in On("gc") PROVE b \notin Dying(edge[p]) \cup {p}
  <2>1. b \in Blocks /\ On("gc") \in SUBSET Blocks /\ p \notin On("gc") /\ b # p
    BY <1>1 DEF On
  <2>2. SUFFICES ASSUME b \in edge[p], rc[b] = 1 PROVE FALSE
    BY <2>1 DEF Dying
  <2> DEFINE R == Blocks \ On("gc")
  <2>3. RefsFrom(Blocks, edge, b) = RefsFrom(On("gc"), edge, b) + RefsFrom(R, edge, b)
    BY <2>1, RefsPart
  <2>4. p \in R /\ R \in SUBSET Blocks
    BY <1>1, <2>1
  <2> HIDE DEF R
  <2>5. RefsFrom(R, edge, b) \in Nat /\ RefsFrom(R, edge, b) # 0
    BY <2>2, <2>4, RefsFacts
  <2>6. Extern(b) + RefsFrom(On("gc"), edge, b) > 0
    BY <1>1 DEF Separated
  <2>7. Extern(b) \in Nat /\ RefsFrom(On("gc"), edge, b) \in Nat
    BY <1>1, <2>1, Typing, RefsFacts
  <2>8. rc[b] = Extern(b) + RefsFrom(Blocks, edge, b)
    BY <1>1, <2>1 DEF Total
  <2> QED BY <2>2, <2>3, <2>5, <2>6, <2>7, <2>8
<1>6. On("gc")' = On("gc") /\ \A b \in On("gc") : edge'[b] = edge[b]
  <2>1. Husk(rc', p) \in {"zero", "none"}
    BY DEF Husk
  <2> QED BY <1>1, <1>3, <1>5, <2>1 DEF On
<1>7. TypeOK'
  <2>1. list' \in [Blocks -> {"none", "gc", "tmp", "zero"}]
    BY <1>1 DEF TypeOK, CycleFree, Husk
  <2>2. rc' \in [Blocks -> Nat]
    <3>1. rc' = [b \in Blocks |-> rc'[b]]
      BY <1>3 DEF Dropped
    <3> QED BY <1>4, <3>1
  <2> QED BY <1>1, <1>2, <2>1, <2>2 DEF TypeOK, CycleFree
<1>8. Released'
  <2> SUFFICES ASSUME NEW b \in Blocks, list'[b] = "none"
               PROVE  edge'[b] = {} /\ rc'[b] = 0
    BY <1>4 DEF Released
  <2>1. CASE b = p
    <3>1. list'[p] = IF rc'[p] # 0 THEN "zero" ELSE "none"
      BY <1>1, <1>2, <1>3 DEF Husk
    <3> QED BY <1>1, <1>3, <2>1, <3>1
  <2>2. CASE b \in Dying(edge[p])
    <3>1. b \in Shared
      BY <2>2 DEF Dying
    <3> QED BY <1>1, <1>2, <1>3, <2>2, <3>1, DyingFacts
  <2>3. CASE b # p /\ b \notin Dying(edge[p])
    <3>1. list[b] = "none"
      BY <1>3, <2>3
    <3>2. edge[b] = {} /\ rc[b] = 0
      BY <1>1, <3>1 DEF Released
    <3> QED BY <1>3, <1>4, <3>2
  <2> QED BY <2>1, <2>2, <2>3
<1>9. Layered'
  BY <1>1, <1>3 DEF Layered, Blocks
<1>10. Counting'
  BY <1>1, <1>4 DEF Counting, Counted, Total
<1>11. Separated'
  <2>1. \A b \in Blocks : RefsFrom(On("gc"), edge', b) = RefsFrom(On("gc"), edge, b)
    BY <1>6, RefsSame
  <2>2. On("gc") \subseteq Pinned'
    <3> DEFINE r == [x \in Blocks |-> held[x] + leaked[x]]
    <3>1. Pinned' = Reach(edge', r) /\ Pinned = Reach(edge, r)
      BY DEF Pinned, CycleFree
    <3>2. ASSUME NEW S \in SUBSET Blocks, Closed(S, edge', r) PROVE On("gc") \subseteq S
      <4> DEFINE T == S \cap On("gc")
      <4>1. \A b \in Blocks : r[b] > 0 => b \in T
        BY <1>1, <3>2 DEF Closed, Separated, Extern
      <4>2. \A b \in T : edge[b] \subseteq T
        BY <1>1, <1>6, <3>2 DEF Closed, Separated
      <4> HIDE DEF r
      <4>3. T \in SUBSET Blocks /\ Closed(T, edge, r)
        BY <4>1, <4>2 DEF Closed
      <4>4. Pinned \subseteq T
        BY <3>1, <4>3, ReachFacts
      <4> QED BY <1>1, <4>4 DEF Separated
    <3> HIDE DEF r
    <3>3. On("gc") \in SUBSET Blocks
      BY DEF On
    <3> QED BY <3>1, <3>2, <3>3, ReachFacts
  <2>3. \A b \in On("gc") : b \in Blocks
    BY DEF On
  <2>4. \A b \in On("gc")' : /\ edge'[b] \subseteq On("gc")' /\ mark'[b] = 0
                             /\ Extern(b)' + RefsFrom(On("gc")', edge', b) > 0
    <3>1. mark' = mark
      BY DEF CycleFree
    <3> QED BY <1>1, <1>4, <1>6, <2>1, <2>3, <3>1 DEF Separated
  <2>5. \A b \in Blocks : Extern(b)' > 0 => b \in On("gc")'
    BY <1>1, <1>4, <1>6 DEF Separated
  <2> QED BY <1>6, <2>2, <2>4, <2>5 DEF Separated
<1>12. Dismantling'
  <2>1. ASSUME NEW b \in Blocks, list'[b] = "zero", b \in Values PROVE edge'[b] = {}
    <3>1. CASE b = p
      BY <1>1, <1>3, <3>1
    <3>2. CASE b # p
      <4>1. list[b] = "zero"
        BY <1>3, <2>1, <3>2
      <4>2. edge[b] = {}
        BY <1>1, <2>1, <4>1 DEF Dismantling, On
      <4> QED BY <1>3, <4>2
    <3> QED BY <3>1, <3>2
  <2>2. ASSUME NEW b \in Shared, list'[b] # "none" PROVE rc'[b] > 0
    <3>1. b \in Blocks /\ b # p
      BY <1>1, HeapAssumption DEF Blocks
    <3>2. b \notin Dying(edge[p]) /\ list[b] # "none"
      BY <1>3, <2>2, <3>1
    <3>3. rc[b] > 0
      BY <1>1, <3>1, <3>2 DEF Dismantling, Allocated
    <3>4. rc'[b] # 0
      BY <1>1, <1>2, <1>3, <3>1, <3>2, <3>3, DyingFacts
    <3> QED BY <1>4, <3>1, <3>4
  <2>3. \A b \in Allocated' \cap Shared : Total(b)' > 0
    BY <1>4, <2>2 DEF Allocated
  <2> QED BY <2>1, <2>3 DEF Dismantling, On
<1> QED BY <1>1, <1>7, <1>8, <1>9, <1>10, <1>11, <1>12 DEF IInv

LEMMA CycleFreeSharedStep ==
  ASSUME IInv, NEW p \in On("tmp"), phase = "cycles", p \in Shared,
         list' = [list EXCEPT ![p] = "zero"],
         UNCHANGED <<rc, edge, mark, held, leaked, phase, todo, closing>>
  PROVE  IInv'
<1>1. /\ TypeOK /\ Released /\ Layered /\ Counting /\ Separated /\ Dismantling
      /\ p \in Blocks /\ list[p] = "tmp" /\ p \notin Values
  BY HeapAssumption DEF IInv, On
<1>2. Layered' /\ Pinned' = Pinned /\ \A b : Extern(b)' = Extern(b) /\ Total(b)' = Total(b)
  BY <1>1, WalkFacts DEF Walks
<1>3. \A b \in Blocks : list'[b] = IF b = p THEN "zero" ELSE list[b]
  BY <1>1 DEF TypeOK
<1>4. On("gc")' = On("gc") /\ Allocated' = Allocated /\ On("zero")' = On("zero") \cup {p}
  BY <1>1, <1>3 DEF On, Allocated
<1>5. TypeOK'
  BY <1>1 DEF TypeOK
<1>6. Released'
  BY <1>1, <1>2, <1>3 DEF Released
<1>7. Counting'
  BY <1>1, <1>2 DEF Counting, Counted
<1>8. Separated' /\ Dismantling'
  BY <1>1, <1>2, <1>4 DEF Separated, Dismantling
<1> QED BY <1>2, <1>5, <1>6, <1>7, <1>8 DEF IInv

(* Once tmp_obj_list is empty, nothing refers to what was set aside.        *)
LEMMA CyclesDone ==
  ASSUME IInv, phase = "cycles", On("tmp") = {}
  PROVE  \A b \in On("zero") : b \in Values /\ edge[b] = {} /\ Total(b) = 0
<1>1. TypeOK /\ Released /\ Layered /\ Separated /\ Dismantling
  BY DEF IInv
<1>2. \A b \in Blocks : list[b] \in {"none", "gc", "zero"}
  BY <1>1 DEF TypeOK, On
<1>3. ASSUME NEW b \in On("zero"), \A s \in Blocks : b \notin edge[s] PROVE Total(b) = 0
  <2>1. b \in Blocks /\ b \notin On("gc")
    BY DEF On
  <2>2. Extern(b) \in Nat /\ ~(Extern(b) > 0)
    BY <1>1, <2>1, Typing DEF Separated
  <2>3. RefsFrom(Blocks, edge, b) = 0
    BY <1>3, RefsFacts
  <2> QED BY <2>2, <2>3 DEF Total
<1>4. ASSUME NEW b \in On("zero"), b \in Shared PROVE FALSE
  <2>1. b \in Blocks /\ b \notin On("gc") /\ b \in Allocated
    BY DEF On, Allocated
  <2>2. ASSUME NEW s \in Blocks PROVE b \notin edge[s]
    <3>1. CASE list[s] = "none"
      BY <1>1, <3>1 DEF Released
    <3>2. CASE list[s] = "gc"
      BY <1>1, <2>1, <3>2 DEF Separated, On
    <3>3. CASE list[s] = "zero" /\ s \in Values
      BY <1>1, <3>3 DEF Dismantling, On
    <3>4. CASE s \in Shared
      BY <1>1, <1>4, <3>4 DEF Layered
    <3> QED BY <1>2, <3>1, <3>2, <3>3, <3>4 DEF Blocks
  <2>3. Total(b) = 0
    BY <1>3, <2>2
  <2> QED BY <1>1, <1>4, <2>1, <2>3 DEF Dismantling
<1>5. \A b \in On("zero") : b \in Values /\ edge[b] = {}
  BY <1>1, <1>4 DEF Dismantling, On, Blocks
<1>6. ASSUME NEW b \in On("zero") PROVE Total(b) = 0
  <2>1. b \notin On("gc")
    BY DEF On
  <2>2. \A s \in Blocks : b \notin edge[s]
    BY <1>1, <1>2, <1>5, <2>1 DEF Released, Separated, On
  <2> QED BY <1>3, <2>2
<1> QED BY <1>5, <1>6

LEMMA CyclesEndStep == ASSUME IInv, gc_free_cycles_end PROVE IInv'
<1>1. /\ phase = "cycles" /\ On("tmp") = {} /\ phase' \in {"run", "freed"}
      /\ list' = [b \in Blocks |-> IF list[b] = "zero" THEN "none" ELSE list[b]]
      /\ rc' = [b \in Blocks |-> IF list[b] = "zero" THEN 0 ELSE rc[b]]
      /\ UNCHANGED <<edge, mark, held, leaked, todo, closing>>
  BY DEF gc_free_cycles_end
<1>2. /\ TypeOK /\ Released /\ Layered /\ Separated
      /\ \A b \in Blocks : rc[b] = Total(b)
      /\ \A b \in On("zero") : edge[b] = {} /\ Total(b) = 0
  <2>1. \A b \in Blocks : rc[b] = Total(b)
    BY <1>1 DEF IInv, Counting, Counted, Total
  <2> QED BY <1>1, <2>1, CyclesDone DEF IInv
<1>3. Layered' /\ \A b : Extern(b)' = Extern(b) /\ Total(b)' = Total(b)
  BY <1>1, <1>2, WalkFacts DEF Walks
<1>4. TypeOK'
  BY <1>1, <1>2 DEF TypeOK
<1>5. Released'
  BY <1>1, <1>2, <1>3 DEF Released, On
<1>6. \A b \in Blocks : rc'[b] = Total(b)
  BY <1>1, <1>2 DEF On
<1>7. Counting'
  BY <1>1, <1>3, <1>6 DEF Counting, Counted, Total
<1>8. Resting'
  <2>1. \A b \in Blocks : list'[b] \in {"none", "gc"} /\ (list'[b] = "gc" => list[b] = "gc")
    BY <1>1, <1>2 DEF TypeOK, On
  <2>2. ASSUME NEW b \in On("gc") PROVE Total(b) > 0 /\ mark[b] = 0
    <3>1. b \in Blocks /\ On("gc") \in SUBSET Blocks
      BY DEF On
    <3>2. RefsFrom(On("gc"), edge, b) <= RefsFrom(Blocks, edge, b)
      BY <3>1, RefsPart
    <3>3. /\ RefsFrom(On("gc"), edge, b) \in Nat /\ RefsFrom(Blocks, edge, b) \in Nat
          /\ Extern(b) \in Nat
      BY <1>2, <3>1, Typing, RefsFacts
    <3>4. Extern(b) + RefsFrom(On("gc"), edge, b) > 0 /\ mark[b] = 0
      BY <1>2 DEF Separated
    <3> QED BY <3>2, <3>3, <3>4 DEF Total
  <2> QED BY <1>1, <1>3, <2>1, <2>2 DEF Resting, On
<1> QED BY <1>1, <1>3, <1>4, <1>5, <1>7, <1>8 DEF IInv

-----------------------------------------------------------------------------
(* The collector's actions, taken apart into the steps above. *)
LEMMA GcIInv ==
  ASSUME IInv, gc_decref \/ gc_scan \/ gc_scan_restore \/ gc_free_cycles
  PROVE  IInv'
<1>1. CASE gc_decref
  <2>1. phase = "decref" /\ Walks
    BY <1>1 DEF gc_decref, Walks
  <2>2. ASSUME NEW p \in todo,
               LET left == [b \in Blocks |-> rc[b] - (IF b \in mark_children(p) THEN 1 ELSE 0)]
                   out  == {c \in mark_children(p) : left[c] = 0 /\ ToTmp(c)}
                             \cup {b \in {p} : left[b] = 0}
               IN  /\ rc' = left
                   /\ mark' = [mark EXCEPT ![p] = 1]
                   /\ list' = [b \in Blocks |-> IF b \in out THEN "tmp" ELSE list[b]]
                   /\ todo' = (todo \ {p}) \ out
                   /\ phase' = phase
        PROVE  IInv'
    <3> DEFINE left == [b \in Blocks |-> rc[b] - (IF b \in edge[p] THEN 1 ELSE 0)]
               out  == {c \in edge[p] : left[c] = 0 /\ mark[c] = 1}
                         \cup {b \in {p} : left[b] = 0}
    <3>1. DecrefVisit(p, left, out)
      BY <2>1, <2>2 DEF DecrefVisit, mark_children, ToTmp
    <3> HIDE DEF left, out
    <3> QED BY <2>1, <3>1, DecrefVisitStep
  <2>3. ASSUME todo = {}, phase' = "scan", todo' = On("gc"), UNCHANGED <<list, rc, mark>>
        PROVE  IInv'
    BY <2>1, <2>3, DecrefEndStep
  <2> QED BY <1>1, <2>2, <2>3 DEF gc_decref
<1>2. CASE gc_scan
  <2>1. phase = "scan" /\ Walks
    BY <1>2 DEF gc_scan, Walks
  <2>2. ASSUME NEW p \in todo,
               LET found == {c \in mark_children(p) : rc[c] = 0}
               IN  /\ rc' = [b \in Blocks |-> rc[b] + (IF b \in mark_children(p) THEN 1 ELSE 0)]
                   /\ list' = [b \in Blocks |-> IF b \in found THEN "gc" ELSE list[b]]
                   /\ mark' = [b \in Blocks |-> IF b \in Unmark(found, p) THEN 0 ELSE mark[b]]
                   /\ todo' = (todo \ {p}) \cup found
                   /\ phase' = phase
        PROVE  IInv'
    <3> DEFINE found == {c \in edge[p] : rc[c] = 0}
    <3>1. ScanVisit(p, found)
      BY <2>1, <2>2 DEF ScanVisit, mark_children, Unmark
    <3> HIDE DEF found
    <3> QED BY <2>1, <3>1, ScanVisitStep
  <2>3. ASSUME todo = {}, phase' = "restore", todo' = On("tmp"), UNCHANGED <<list, rc, mark>>
        PROVE  IInv'
    BY <2>1, <2>3, ScanEndStep
  <2> QED BY <1>2, <2>2, <2>3 DEF gc_scan
<1>3. CASE gc_scan_restore
  <2>1. phase = "restore" /\ Walks /\ UNCHANGED <<list, mark>>
    BY <1>3 DEF gc_scan_restore, Walks
  <2>2. ASSUME NEW p \in todo,
               rc' = [b \in Blocks |-> rc[b] + (IF b \in Regain(p) THEN 1 ELSE 0)],
               todo' = todo \ {p} /\ phase' = phase
        PROVE  IInv'
    <3>1. rc' = [b \in Blocks |-> rc[b] + (IF b \in edge[p] THEN 1 ELSE 0)]
      BY <2>2 DEF Regain, mark_children
    <3> QED BY <2>1, <2>2, <3>1, RestoreVisitStep
  <2>3. ASSUME todo = {} /\ phase' = "cycles" /\ UNCHANGED <<rc, todo>> PROVE IInv'
    BY <2>1, <2>3, RestoreEndStep
  <2> QED BY <1>3, <2>2, <2>3 DEF gc_scan_restore
<1>4. CASE gc_free_cycles
  <2>1. phase = "cycles" /\ UNCHANGED <<mark, held, leaked, phase, todo, closing>>
    BY <1>4 DEF gc_free_cycles
  <2>2. ASSUME NEW p \in On("tmp"), p \in Values,
               rc' = Dropped(edge[p]),
               list' = [b \in Blocks |-> CASE b = p -> Husk(rc', p)
                                           [] b \in Dying(edge[p]) -> "none"
                                           [] OTHER -> list[b]],
               edge' = [b \in Blocks |-> IF b \in Dying(edge[p]) \cup {p} THEN {} ELSE edge[b]]
        PROVE  IInv'
    <3>1. CycleFree(p)
      BY <2>1, <2>2 DEF CycleFree
    <3> QED BY <3>1, CycleFreeStep
  <2>3. ASSUME NEW p \in On("tmp"), p \in Shared, list' = [list EXCEPT ![p] = "zero"],
               UNCHANGED <<rc, edge>>
        PROVE  IInv'
    BY <2>1, <2>3, CycleFreeSharedStep
  <2> QED BY <1>4, <2>2, <2>3 DEF gc_free_cycles
<1> QED BY <1>1, <1>2, <1>3, <1>4

LEMMA NextIInv == IInv /\ [Next]_vars => IInv'
<1> SUFFICES ASSUME IInv, [Next]_vars PROVE IInv'
  OBVIOUS
<1>1. CASE UNCHANGED vars
  <2>1. TypeOK' /\ Released' /\ Layered'
    BY <1>1 DEF IInv, TypeOK, Released, Layered, Total, Extern, vars
  <2>2. Counting'
    BY <1>1 DEF IInv, Counting, Counted, On, Extern, vars
  <2>3. (phase \in {"run", "free", "freed"} => Resting)'
    BY <1>1 DEF IInv, Resting, On, Total, Extern, vars
  <2>4. (phase \in {"decref", "scan", "restore"} => Referred)' /\ (phase = "decref" => Trial)'
    BY <1>1 DEF IInv, Referred, Trial, Allocated, Total, Extern, vars
  <2>5. (phase = "scan" => Scanning)' /\ (phase = "restore" => todo \subseteq On("tmp"))'
    BY <1>1 DEF IInv, Scanning, Allocated, On, Pinned, vars
  <2>6. (phase \in {"restore", "cycles"} => Separated)'
    BY <1>1 DEF IInv, Separated, On, Pinned, Extern, vars
  <2>7. (phase = "cycles" => Dismantling)'
    BY <1>1 DEF IInv, Dismantling, Allocated, On, Total, Extern, vars
  <2> QED BY <2>1, <2>2, <2>3, <2>4, <2>5, <2>6, <2>7 DEF IInv
<1>2. CASE \E b \in Blocks : add_gc_object(b) \/ JS_DupValue(b) \/ JS_FreeValue(b) \/ Forget(b)
  BY <1>2, AddStep, DupStep, FreeValueStep, ForgetStep
<1>3. CASE \E b, c \in Blocks : Store(b, c) \/ Unstore(b, c)
  BY <1>3, StoreStep, UnstoreStep
<1>4. CASE free_zero_refcount \/ lua_free_context \/ JS_FreeContext
  BY <1>4, FreeZeroStep, BeginCloseStep, FreeContextStep
<1>5. CASE js_trigger_gc \/ JS_FreeRuntime
  <2>1. /\ phase = "run" /\ phase' = "decref" /\ todo' = On("gc")
        /\ UNCHANGED <<list, rc, mark>> /\ Walks
    BY <1>5 DEF js_trigger_gc, JS_FreeRuntime, Running, Walks
  <2> QED BY <2>1, StartStep
<1>6. CASE gc_decref \/ gc_scan \/ gc_scan_restore \/ gc_free_cycles
  BY <1>6, GcIInv
<1>7. CASE gc_free_cycles_end
  BY <1>7, CyclesEndStep
<1> QED
  BY <1>1, <1>2, <1>3, <1>4, <1>5, <1>6, <1>7 DEF Next

-----------------------------------------------------------------------------
(* What the heap's invariant implies. *)

(* What can be reached stays within gc_obj_list and tmp_obj_list. *)
LEMMA PinnedFacts ==
  ASSUME IInv
  PROVE  PinnedKept /\ (phase = "cycles" => Pinned \subseteq On("gc"))
<1> DEFINE r == [b \in Blocks |-> held[b] + leaked[b]]
<1>1. TypeOK /\ Released
  BY DEF IInv
<1>2. CASE phase \in {"run", "free", "freed"}
  BY <1>2, LiveFacts DEF PinnedKept, On
<1>3. CASE phase \in {"decref", "scan", "restore"}
  <2>1. \A b \in Blocks : r[b] > 0 => b \in Allocated
    <3> SUFFICES ASSUME NEW b \in Blocks, Extern(b) > 0 PROVE b \in Allocated
      BY DEF Extern
    <3>1. Total(b) # 0
      BY <1>1, Typing
    <3> QED BY <1>1, <3>1 DEF Released, Allocated
  <2>2. \A b \in Allocated : edge[b] \subseteq Allocated
    BY <1>1, ChildFacts DEF Allocated
  <2> HIDE DEF r
  <2>3. Allocated \in SUBSET Blocks /\ Closed(Allocated, edge, r)
    BY <2>1, <2>2 DEF Closed, Allocated
  <2>4. Pinned \subseteq Allocated
    BY <2>3, ReachFacts DEF Pinned, r
  <2> QED BY <1>3, <2>4 DEF PinnedKept, IInv, Referred
<1>4. CASE phase = "cycles"
  <2>1. Separated
    BY <1>4 DEF IInv
  <2>2. \A b \in Blocks : r[b] > 0 => b \in On("gc")
    BY <2>1 DEF Separated, Extern
  <2>3. \A b \in On("gc") : edge[b] \subseteq On("gc")
    BY <2>1 DEF Separated
  <2> HIDE DEF r
  <2>4. On("gc") \in SUBSET Blocks /\ Closed(On("gc"), edge, r)
    BY <2>2, <2>3 DEF Closed, On
  <2>5. Pinned \subseteq On("gc")
    BY <2>4, ReachFacts DEF Pinned, r
  <2> QED BY <2>5 DEF PinnedKept, On
<1> QED BY <1>1, <1>2, <1>3, <1>4 DEF TypeOK

LEMMA ImpliesDangling == IInv => NoDangling
<1> SUFFICES ASSUME IInv, NEW b \in Allocated, NEW c \in edge[b] PROVE c \in Allocated
  BY DEF NoDangling
<1>1. TypeOK /\ Released /\ b \in Blocks
  BY DEF IInv, Allocated
<1> QED BY <1>1, ChildFacts

LEMMA ImpliesCounts == IInv => CountsExact
<1> SUFFICES ASSUME IInv, phase = "run", NEW b \in Allocated
             PROVE  /\ rc[b] = held[b] + leaked[b] + RefsFrom(Allocated, edge, b)
                    /\ list[b] = "gc"
  BY DEF CountsExact
<1>1. /\ Released /\ b \in Blocks /\ list[b] = "gc"
      /\ rc[b] = held[b] + leaked[b] + RefsFrom(Blocks, edge, b)
  BY RunFacts DEF Allocated, Extern
<1>2. Allocated \in SUBSET Blocks /\ \A s \in Blocks \ Allocated : b \notin edge[s]
  BY <1>1 DEF Allocated, Released
<1>3. RefsFrom(Blocks, edge, b) = RefsFrom(Allocated, edge, b)
  BY <1>2, RefsIgnore
<1> QED BY <1>1, <1>3

LEMMA ImpliesAsserts == IInv => AssertsHold
<1> SUFFICES ASSUME IInv PROVE AssertsHold
  OBVIOUS
<1>1. TypeOK /\ Counting
  BY DEF IInv
<1>2. ASSUME phase = "decref", NEW p \in todo
      PROVE  mark[p] = 0 /\ \A c \in edge[p] : rc[c] > 0
  <2>1. mark[p] = 0 /\ p \in Blocks /\ todo \in SUBSET Blocks
    BY <1>1, <1>2 DEF IInv, Trial, Allocated
  <2>2. ASSUME NEW c \in edge[p] PROVE rc[c] > 0
    <3>1. c \in Blocks
      BY <1>1, <2>1 DEF TypeOK
    <3>2. rc[c] = Extern(c) + RefsFrom(todo, edge, c)
      BY <1>1, <1>2, <3>1 DEF Counting, Counted
    <3>3. RefsFrom(todo, edge, c) \in Nat /\ RefsFrom(todo, edge, c) # 0
      BY <2>1, RefsFacts
    <3>4. Extern(c) \in Nat
      BY <1>1, <3>1, Typing
    <3> QED BY <3>2, <3>3, <3>4
  <2> QED BY <2>1, <2>2
<1>3. ASSUME phase = "scan", NEW p \in todo PROVE rc[p] > 0
  BY <1>3 DEF IInv, Scanning, On, Allocated
<1>4. ASSUME phase = "free", NEW p \in On("zero") PROVE rc[p] = 0
  BY <1>1, <1>4 DEF IInv, Resting, Counting, Counted, Total, On
<1>5. ASSUME phase = "cycles", On("tmp") = {} PROVE On("zero") \subseteq Values
  BY <1>5, CyclesDone
<1> QED BY <1>2, <1>3, <1>4, <1>5 DEF AssertsHold

LEMMA CollectsExactly ==
  IInv /\ [Next]_vars =>
    [phase = "cycles" /\ phase' # "cycles" => Allocated' = Pinned']_vars
<1> SUFFICES ASSUME IInv, Next, phase = "cycles", phase' # "cycles"
             PROVE  Allocated' = Pinned'
  BY DEF vars
<1>1. gc_free_cycles_end
  BY DEF Next, add_gc_object, JS_DupValue, JS_FreeValue, Forget, Store, Unstore,
         free_zero_refcount, js_trigger_gc, gc_decref, gc_scan, gc_scan_restore,
         gc_free_cycles, lua_free_context, JS_FreeContext, JS_FreeRuntime, Running
<1>2. /\ On("tmp") = {} /\ UNCHANGED <<edge, held, leaked>>
      /\ \A b \in Blocks : list'[b] = IF list[b] = "zero" THEN "none" ELSE list[b]
  BY <1>1 DEF gc_free_cycles_end
<1>3. Allocated' = On("gc")
  BY <1>2 DEF Allocated, On, IInv, TypeOK
<1>4. Pinned' = Pinned
  BY <1>2 DEF Pinned
<1>5. Pinned = On("gc")
  BY PinnedFacts DEF IInv, Separated
<1> QED BY <1>3, <1>4, <1>5

-----------------------------------------------------------------------------
(* The counts of the heap are right at every point of free_zero_refcount    *)
(* and JS_RunGC: they count the references of the blocks the current walk   *)
(* has not taken away, or has given back.                                   *)
THEOREM HeapInvariance == Spec => []IInv
  BY InitIInv, NextIInv, PTL DEF Spec

(* No count goes below zero, and no block is on a list it cannot be on. *)
THEOREM HeapTypeCorrect == Spec => []TypeOK
<1>1. IInv => TypeOK
  BY DEF IInv
<1> QED BY <1>1, HeapInvariance, PTL

(* What a frame, a listener, contexts[] or a forgotten reference leads to   *)
(* is never freed, by free_zero_refcount, JS_RunGC or lua_free_context.     *)
THEOREM NothingReachableFreed == Spec => []PinnedKept
<1>1. IInv => PinnedKept
  BY PinnedFacts
<1> QED BY <1>1, HeapInvariance, PTL

(* No allocated block ever refers to released memory, also while            *)
(* gc_free_cycles takes a cycle apart.                                      *)
THEOREM NothingDangles == Spec => []NoDangling
  BY ImpliesDangling, HeapInvariance, PTL

(* Whenever the script runs, each ref_count is the number of references.    *)
THEOREM CountsAreExact == Spec => []CountsExact
  BY ImpliesCounts, HeapInvariance, PTL

(* The assertions in gc_decref_child, gc_decref, gc_scan,                   *)
(* free_zero_refcount and gc_free_cycles do not fail.                       *)
THEOREM AssertionsHold == Spec => []AssertsHold
  BY ImpliesAsserts, HeapInvariance, PTL

(* JS_RunGC leaves exactly what can still be reached. *)
THEOREM CollectionIsExact == Spec => CollectionExact
<1>1. Spec => [][phase = "cycles" /\ phase' # "cycles" => Allocated' = Pinned']_vars
  BY HeapInvariance, CollectsExactly, PTL DEF Spec
<1> QED BY <1>1 DEF CollectionExact
=============================================================================
