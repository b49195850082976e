------------------------------ MODULE Bytecode ------------------------------
(***************************************************************************)
(* How a script gets from JS_Compile to JS_Eval: lua_compile writes the    *)
(* compiled function with JS_WriteObject and frees it, the bytes pass      *)
(* through Lua, and lua_eval reads them back with JS_ReadObject, in the    *)
(* same context, whose atom table has changed meanwhile (js.cpp,           *)
(* quickjs/quickjs.c).                                                     *)
(*                                                                         *)
(* A name is the sequence of its character codes; in a compiled function   *)
(* the name is replaced by its atom, a number that is reused once the last *)
(* reference is gone.  The buffer is a sequence of cells: the bytes of the *)
(* LEB128 numbers and of strings one by one, a field of fixed width (a     *)
(* tag, the packed flags, an opcode, its 32-bit operand) as one cell.      *)
(***************************************************************************)
EXTENDS Integers, FiniteSets, SequencesExt

CONSTANTS
    Scripts,    \* the scripts compiled: functions with names for atoms
    Names,      \* names a running script makes properties of
    Builtin,    \* the predefined atoms, in order
    AtomOps,    \* opcodes with an atom operand (OP_FMT_atom...)
    Slots,      \* bound: entries of atom_array above the predefined ones
    Width,      \* bits of a word: 32 in the code
    Groups,     \* LEB128 groups of a word: 5 in the code
    Limits,     \* where the memory limit may stop a writer: the cells its
                \* buffers grow to, the atoms its table has places for
    Memory,     \* how many allocations a read may get
    Plenty,     \* a number of allocations no read exceeds
    MaxLoaded,  \* bound: functions alive in the context
    MaxLost     \* bound: references to atoms lost by failed reads

Tag == 2 ^ (Width - 1)                 \* JS_ATOM_TAG_INT

first_atom == Len(Builtin) + 1         \* JS_ATOM_END

ASSUME WidthAssumption == /\ Width \in 2 .. 30
                          /\ 7 * Groups >= Width /\ 7 * (Groups - 1) < Width
                          /\ first_atom + Slots < Tag

ASSUME MemoryAssumption == /\ Limits \subseteq [body : Nat, head : Nat, places : Nat]
                           /\ Memory \subseteq Nat /\ Plenty \in Nat

None == <<>>

BC_VERSION            == 1
BC_TAG_INT32          == 5
BC_TAG_STRING         == 7
BC_TAG_TEMPLATE_OBJECT == 13
BC_TAG_FUNCTION_BYTECODE == 14
Literals == 1 .. 4       \* BC_TAG_NULL .. BC_TAG_BOOL_TRUE

VARIABLES
    atoms,    \* the context's atom table
    buffer,   \* the bytecode string Lua holds, empty if there is none
    whole,    \* history: JS_WriteObject had the memory to write all of it
    source,   \* the script it was compiled from, None between two uploads
    loaded,   \* functions JS_ReadObject made that are still referenced
    own,      \* names the running scripts keep alive as property names
    lost      \* history: atoms with a reference nobody will give back

vars == <<atoms, buffer, whole, source, loaded, own, lost>>

-----------------------------------------------------------------------------
\* The atom table.

Entries == first_atom .. first_atom + Slots - 1

Decimal[n \in Nat] ==
    IF n < 10 THEN <<48 + n>> ELSE Append(Decimal[n \div 10], 48 + (n % 10))

\* is_num_string: the name is the decimal form of an index that fits.
is_num_string(s) == \E n \in 0 .. 99 : s = Decimal[n]

NumOf(s) == CHOOSE n \in 0 .. 99 : s = Decimal[n]

AtomIsTaggedInt(a) == a >= Tag

AtomIsConst(a) == a < first_atom \/ AtomIsTaggedInt(a)

\* The atom that stands for s, or the entry it would get: the last one freed.
AtomOf(t, s) ==
    IF is_num_string(s) THEN Tag + NumOf(s)
    ELSE IF Contains(Builtin, s) THEN CHOOSE i \in DOMAIN Builtin : Builtin[i] = s
    ELSE IF \E e \in Entries : t.name[e] = s THEN CHOOSE e \in Entries : t.name[e] = s
    ELSE Head(t.free)

NameOf(t, a) ==
    IF AtomIsTaggedInt(a) THEN Decimal[a - Tag]
    ELSE IF a < first_atom THEN Builtin[a] ELSE t.name[a]

JS_DupAtom(t, a) == IF AtomIsConst(a) THEN t ELSE [t EXCEPT !.refs[a] = @ + 1]

JS_NewAtomStr(t, s) ==
    LET a == AtomOf(t, s)
    IN  IF AtomIsConst(a) \/ t.name[a] = s THEN JS_DupAtom(t, a)
        ELSE [name |-> [t.name EXCEPT ![a] = s],
              refs |-> [t.refs EXCEPT ![a] = 1],
              free |-> Tail(t.free)]

JS_FreeAtom(t, a) ==
    IF AtomIsConst(a) THEN t
    ELSE IF t.refs[a] > 1 THEN [t EXCEPT !.refs[a] = @ - 1]
    ELSE [name |-> [t.name EXCEPT ![a] = None],
          refs |-> [t.refs EXCEPT ![a] = 0],
          free |-> <<a>> \o t.free]

-----------------------------------------------------------------------------
\* Functions: [flags, args, defined, stack, name, vars, closures, code, file,
\* line, pool].

RECURSIVE AtomsIn(_), Rename(_, _)

OperandsOf(code) == SelectSeq(code, LAMBDA i : i.op \in AtomOps)

SubFunctions(f) == SelectSeq(f.pool, LAMBDA v : v.tag = BC_TAG_FUNCTION_BYTECODE)

\* Every atom f refers to, in the order free_function_bytecode drops them.
AtomsIn(f) ==
    LET operands == OperandsOf(f.code) subs == SubFunctions(f)
    IN  [i \in DOMAIN operands |-> operands[i].atom]
          \o [i \in DOMAIN f.vars |-> f.vars[i].name]
          \o [i \in DOMAIN f.closures |-> f.closures[i].name]
          \o <<f.name, f.file>>
          \o FlattenSeq([i \in DOMAIN subs |-> AtomsIn(subs[i].fn)])

\* f with every name or atom x replaced by to[x].
Rename(f, to) ==
    [f EXCEPT
       !.name = to[f.name], !.file = to[f.file],
       !.vars = [i \in DOMAIN f.vars |->
                   [f.vars[i] EXCEPT !.name = to[f.vars[i].name]]],
       !.closures = [i \in DOMAIN f.closures |->
                       [f.closures[i] EXCEPT !.name = to[f.closures[i].name]]],
       !.code = [i \in DOMAIN f.code |->
                   IF f.code[i].op \in AtomOps
                   THEN [f.code[i] EXCEPT !.atom = to[f.code[i].atom]]
                   ELSE f.code[i]],
       !.pool = [i \in DOMAIN f.pool |->
                   IF f.pool[i].tag = BC_TAG_FUNCTION_BYTECODE
                   THEN [f.pool[i] EXCEPT !.fn = Rename(f.pool[i].fn, to)]
                   ELSE f.pool[i]]]

-----------------------------------------------------------------------------
\* Numbers.

\* dbuf_put_leb128: groups of seven bits, least significant first.
put_leb128[v \in Nat] ==
    IF v < 128 THEN <<v>> ELSE <<128 + (v % 128)>> \o put_leb128[v \div 128]

\* dbuf_put_sleb128: the sign goes to the lowest bit.
ZigZag(n) ==
    LET v == n % 2 ^ Width
        doubled == (2 * v) % 2 ^ Width
    IN  IF n < 0 THEN 2 ^ Width - 1 - doubled ELSE doubled

\* get_sleb128, as a signed word.
UnZigZag(v) ==
    LET w == IF v % 2 = 1 THEN 2 ^ Width - 1 - (v \div 2) ELSE v \div 2
    IN  IF w >= Tag THEN w - 2 ^ Width ELSE w

\* Faulty: a number of as many groups as a word has is refused.
lebEndEarly(cells) == {i \in 1 .. Groups - 1 : i <= Len(cells) /\ cells[i] < 128}

\* get_leb128: where the number at the front of cells may end.
lebEnd(cells) == {i \in 1 .. Groups : i <= Len(cells) /\ cells[i] < 128}

\* get_leb128: the value of its groups.
lebValue(cells, n) ==
    FoldLeft(LAMBDA acc, i : (acc + (cells[i] % 128) * 128 ^ (i - 1)) % 2 ^ Width,
             0, [i \in 1 .. n |-> i])

-----------------------------------------------------------------------------
\* JS_WriteObject.  A writer is [out, idx_to_atom, room, places, whole, failed].

Writer(room, places) ==
    [out |-> <<>>, idx_to_atom |-> <<>>, room |-> room, places |-> places,
     whole |-> TRUE, failed |-> FALSE]

\* dbuf_put: what no longer fits is dropped, and nobody looks at the result;
\* something shorter may still fit afterwards.
Put(w, cells) ==
    IF Len(w.out) + Len(cells) <= w.room THEN [w EXCEPT !.out = @ \o cells]
    ELSE [w EXCEPT !.whole = FALSE]

PutEach(w, puts) == FoldLeft(Put, w, puts)

PutLeb(w, v) == PutEach(w, [i \in DOMAIN put_leb128[v] |-> <<put_leb128[v][i]>>])

HasIndex(w, a) == AtomIsConst(a) \/ Contains(w.idx_to_atom, a)

\* bc_atom_to_idx: an atom that is not predefined gets the next index, if the
\* table can grow.
bc_atom_to_idx(w, a) ==
    IF HasIndex(w, a) \/ Len(w.idx_to_atom) >= w.places THEN w
    ELSE [w EXCEPT !.idx_to_atom = Append(@, a)]

IndexOf(w, a) ==
    IF AtomIsConst(a) THEN a
    ELSE first_atom - 1 + CHOOSE i \in DOMAIN w.idx_to_atom : w.idx_to_atom[i] = a

PutIndex(w, a) ==
    IF HasIndex(w, a) THEN PutLeb(w, 2 * IndexOf(w, a)) ELSE [w EXCEPT !.whole = FALSE]

\* bc_put_atom; its callers ignore that it may fail.
bc_put_atom(w, a) ==
    IF AtomIsTaggedInt(a) THEN PutLeb(w, 2 * (a - Tag) + 1)
    ELSE PutIndex(bc_atom_to_idx(w, a), a)

IsWide(s) == \E i \in DOMAIN s : s[i] > 255

\* JS_WriteString: length and width in one number, then the characters, wide
\* ones by one, others together.
JS_WriteString(w, s) ==
    PutEach(PutLeb(w, 2 * Len(s) + (IF IsWide(s) THEN 1 ELSE 0)),
            IF IsWide(s) THEN [i \in DOMAIN s |-> <<s[i] % 256, s[i] \div 256>>] ELSE <<s>>)

\* The instructions with the indices of their atoms, written together.
PutCode(w, code) ==
    IF \E i \in DOMAIN code : code[i].op \in AtomOps /\ ~HasIndex(w, code[i].atom)
    THEN [w EXCEPT !.failed = TRUE]
    ELSE Put(w, FlattenSeq([i \in DOMAIN code |->
                  IF code[i].op \in AtomOps THEN <<code[i].op, IndexOf(w, code[i].atom)>>
                  ELSE <<code[i].op>>]))

\* JS_WriteFunctionBytecode: atom operands become indices.
JS_WriteFunctionBytecode(w, code) ==
    PutCode(FoldLeft(LAMBDA acc, i : bc_atom_to_idx(acc, i.atom), w, OperandsOf(code)), code)

CodeLen(code) == Len(code) + Len(OperandsOf(code))

WriteVarDef(w, vd) ==
    Put(PutLeb(PutLeb(bc_put_atom(w, vd.name), vd.scope_level), vd.scope_next + 1),
        <<vd.flags>>)

WriteClosureVar(w, cv) ==
    Put(PutLeb(bc_put_atom(w, cv.name), cv.var_idx), <<cv.flags>>)

RECURSIVE JS_WriteObjectRec(_, _)

JS_WriteFunctionTag(w, f) ==
    LET w1 == bc_put_atom(PutEach(w, <<<<BC_TAG_FUNCTION_BYTECODE>>, <<f.flags>>>>), f.name)
        w2 == FoldLeft(PutLeb, w1,
                       <<f.args, Len(f.vars) - f.args, f.defined, f.stack,
                         Len(f.closures), Len(f.pool), CodeLen(f.code), Len(f.vars)>>)
        w3 == FoldLeft(WriteClosureVar, FoldLeft(WriteVarDef, w2, f.vars), f.closures)
        w4 == bc_put_atom(JS_WriteFunctionBytecode(w3, f.code), f.file)
    IN  IF w4.failed THEN w4
        ELSE FoldLeft(JS_WriteObjectRec, PutLeb(w4, f.line), f.pool)

\* A template object: its strings, then the raw ones.
JS_WriteArray(w, v) ==
    FoldLeft(JS_WriteObjectRec, PutLeb(Put(w, <<v.tag>>), Len(v.items) - 1), v.items)

JS_WriteObjectRec(w, v) ==
    CASE w.failed -> w
      [] v.tag = BC_TAG_INT32 -> PutLeb(Put(w, <<v.tag>>), ZigZag(v.n))
      [] v.tag = BC_TAG_STRING -> JS_WriteString(Put(w, <<v.tag>>), v.s)
      [] v.tag = BC_TAG_TEMPLATE_OBJECT -> JS_WriteArray(w, v)
      [] v.tag = BC_TAG_FUNCTION_BYTECODE -> JS_WriteFunctionTag(w, v.fn)
      [] OTHER -> Put(w, <<v.tag>>)

\* JS_WriteObjectAtoms: the strings of the atoms, which go in front; they are
\* written to a buffer of their own.
JS_WriteObjectAtoms(t, idx_to_atom, room) ==
    FoldLeft(LAMBDA acc, a : JS_WriteString(acc, NameOf(t, a)),
             PutLeb(Put(Writer(room, 0), <<BC_VERSION>>), Len(idx_to_atom)), idx_to_atom)

\* NULL and length 0 when a function's instructions could not be written, or
\* the two buffers together are more than the first can grow to.
JS_WriteObject(t, f, limit) ==
    LET w == JS_WriteFunctionTag(Writer(limit.body, limit.places), f)
        head == JS_WriteObjectAtoms(t, w.idx_to_atom, limit.head)
    IN  IF w.failed \/ Len(head.out) + Len(w.out) > limit.body
        THEN [cells |-> <<>>, whole |-> FALSE]
        ELSE [cells |-> head.out \o w.out, whole |-> w.whole /\ head.whole]

-----------------------------------------------------------------------------
\* JS_ReadObject.  A reader is [rest, idx_to_atom, atoms, ok, got, fuel, taken,
\* lost, crash]: got are the values read that are not yet part of a larger one,
\* fuel the allocations left, taken the atoms it took a reference to, lost the
\* one whose reference a failure forgot.

Give(r, v) == [r EXCEPT !.got = Append(@, v)]

Drop(r) == [r EXCEPT !.got = Front(@)]

\* The last n values read become the one make(_) builds of them.
Pack(r, n, make(_)) ==
    Give([r EXCEPT !.got = SubSeq(@, 1, Len(@) - n)],
         make(SubSeq(r.got, Len(r.got) - n + 1, Len(r.got))))

\* n values read by one(_), as a sequence.
Many(r, n, one(_)) ==
    Pack(FoldLeft(LAMBDA acc, i : one(acc), r, [i \in 1 .. n |-> i]), n, LAMBDA v : v)

Fail(r) == Give([r EXCEPT !.ok = FALSE], 0)

\* A fixed-width field.
Get(r) ==
    IF ~r.ok \/ r.rest = <<>> THEN Fail(r)
    ELSE Give([r EXCEPT !.rest = Tail(@)], Head(r.rest))

\* An allocation in the runtime, at or below its memory limit.
Alloc(r) ==
    IF ~r.ok \/ r.fuel = 0 THEN [r EXCEPT !.ok = FALSE] ELSE [r EXCEPT !.fuel = @ - 1]

TakeLeb(r, n) ==
    Give([r EXCEPT !.rest = SubSeq(@, n + 1, Len(@))], lebValue(r.rest, n))

GetLeb(r) ==
    IF ~r.ok \/ lebEnd(r.rest) = {} THEN Fail(r) ELSE TakeLeb(r, Min(lebEnd(r.rest)))

\* The characters, after the length in r.got.
ReadChars(r) ==
    LET wide == Last(r.got) % 2
        len  == Last(r.got) \div 2
        size == len * (1 + wide)
    IN  IF ~r.ok \/ Len(r.rest) < size THEN Fail(Drop(r))
        ELSE Give([Drop(r) EXCEPT !.rest = SubSeq(@, size + 1, Len(@))],
                  [i \in 1 .. len |-> IF wide = 0 THEN r.rest[i]
                                      ELSE r.rest[2 * i - 1] + 256 * r.rest[2 * i]])

JS_ReadString(r) == ReadChars(Alloc(GetLeb(r)))

TakeAtom(r, a) == Give([r EXCEPT !.atoms = JS_DupAtom(@, a), !.taken = Append(@, a)], a)

AtomAt(r, idx) ==
    IF AtomIsConst(idx) THEN idx ELSE r.idx_to_atom[idx - first_atom + 1]

BadIndex(r, idx) == ~AtomIsConst(idx) /\ idx - first_atom >= Len(r.idx_to_atom)

\* Faulty: the function does not take references of its own.
bc_idx_to_atom_borrowed(r, idx) ==
    IF ~r.ok \/ BadIndex(r, idx) THEN Fail(r) ELSE Give(r, AtomAt(r, idx))

\* bc_idx_to_atom, which takes a reference to the atom.
bc_idx_to_atom(r, idx) ==
    IF ~r.ok \/ BadIndex(r, idx) THEN Fail(r) ELSE TakeAtom(r, AtomAt(r, idx))

\* The number in r.got as an atom.
AsAtom(r) ==
    IF Last(r.got) % 2 = 1 THEN Give(Drop(r), Tag + (Last(r.got) \div 2))
    ELSE bc_idx_to_atom(Drop(r), Last(r.got) \div 2)

bc_get_atom(r) == AsAtom(GetLeb(r))

ReadVarDef(r) ==
    Pack(Get(GetLeb(GetLeb(bc_get_atom(r)))), 4,
         LAMBDA v : [name |-> v[1], scope_level |-> v[2], scope_next |-> v[3] - 1,
                     flags |-> v[4]])

ReadClosureVar(r) ==
    Pack(Get(GetLeb(bc_get_atom(r))), 3,
         LAMBDA v : [name |-> v[1], var_idx |-> v[2], flags |-> v[3]])

RECURSIVE JS_ReadFunctionBytecode(_, _), JS_ReadObjectRec(_)

\* The instruction read joins the ones before it.
Instruction(r) == Pack(r, 3, LAMBDA v : Append(v[1], [op |-> v[2], atom |-> v[3]]))

ReadOperand(r) == bc_idx_to_atom(Drop(r), Last(r.got))

ReadRest(r, len) ==
    IF Last(r.got) \in AtomOps
    THEN JS_ReadFunctionBytecode(Instruction(ReadOperand(Get(r))), len - 2)
    ELSE JS_ReadFunctionBytecode(Instruction(Give(r, 0)), len - 1)

\* JS_ReadFunctionBytecode: indices become atoms of this context again.
JS_ReadFunctionBytecode(r, len) ==
    IF len <= 0 \/ ~r.ok THEN r ELSE ReadRest(Get(r), len)

\* Until the instructions are copied, byte_code_buf is NULL and byte_code_len
\* set: a failure makes free_bytecode_atoms read from NULL.
CopyCode(r, len) ==
    IF r.ok /\ Len(r.rest) >= len THEN JS_ReadFunctionBytecode(r, len)
    ELSE [r EXCEPT !.ok = FALSE, !.crash = len > 0]

\* The parts of a function, each as long as the counts read before it say.
Count(r, back, i) == r.got[Len(r.got) - back][i]
ReadVars(r)     == Many(r, Count(r, 0, 8), ReadVarDef)
ReadClosures(r) == Many(r, Count(r, 1, 5), ReadClosureVar)
ReadCode(r)     == CopyCode(Give(r, <<>>), Count(r, 2, 7))
ReadPool(r)     == Many(r, Count(r, 5, 6), JS_ReadObjectRec)

\* The counts and the block for the function.  A failure here leaves the name
\* of the function behind, with its reference.
LoseName(r) == [r EXCEPT !.taken = Front(@), !.lost = Append(@, Last(r.taken))]

Counts(r) ==
    LET c == Alloc(Many(r, 8, GetLeb))
    IN  IF r.ok /\ ~c.ok /\ ~AtomIsConst(Last(r.got)) THEN LoseName(c) ELSE c

\* What follows the counts, if they could be read.
ReadParts(r) ==
    IF r.ok THEN ReadPool(Alloc(GetLeb(bc_get_atom(ReadCode(ReadClosures(ReadVars(r)))))))
    ELSE FoldLeft(LAMBDA acc, i : Give(acc, 0), r, <<1, 2, 3, 4, 5, 6>>)

JS_ReadFunctionTag(r) ==
    Pack(ReadParts(Counts(bc_get_atom(Get(r)))), 9,
         LAMBDA v :
           [flags |-> v[1], name |-> v[2],
            args |-> v[3][1] % 2 ^ (Width \div 2),
            defined |-> v[3][3] % 2 ^ (Width \div 2),
            stack |-> v[3][4] % 2 ^ (Width \div 2),
            vars |-> v[4], closures |-> v[5], code |-> v[6],
            file |-> v[7], line |-> v[8], pool |-> v[9]])

\* A template object: len strings, then what is read as its raw property.
ReadItems(r) ==
    Pack(Many(Drop(r), Last(r.got) + 1, JS_ReadObjectRec), 1,
         LAMBDA v : [tag |-> BC_TAG_TEMPLATE_OBJECT, items |-> v[1]])

JS_ReadArray(r) == ReadItems(GetLeb(Alloc(r)))

\* What follows the tag in r.got.
ReadTagged(r) ==
    CASE Last(r.got) = BC_TAG_INT32 ->
           Pack(GetLeb(r), 2, LAMBDA v : [tag |-> v[1], n |-> UnZigZag(v[2])])
      [] Last(r.got) = BC_TAG_STRING ->
           Pack(JS_ReadString(r), 2, LAMBDA v : [tag |-> v[1], s |-> v[2]])
      [] Last(r.got) = BC_TAG_TEMPLATE_OBJECT -> JS_ReadArray(Drop(r))
      [] Last(r.got) = BC_TAG_FUNCTION_BYTECODE ->
           Pack(JS_ReadFunctionTag(r), 2, LAMBDA v : [tag |-> v[1], fn |-> v[2]])
      [] Last(r.got) \in Literals -> Pack(r, 1, LAMBDA v : [tag |-> v[1]])
      [] OTHER -> Fail(Drop(r))

JS_ReadObjectRec(r) == ReadTagged(Get(r))

\* JS_ReadObjectAtoms: the table in front; each string is interned here.
Intern(r) ==
    IF ~r.ok THEN r
    ELSE LET t == JS_NewAtomStr(r.atoms, Last(r.got))
         IN  Give([Drop(r) EXCEPT !.atoms = t], AtomOf(t, Last(r.got)))

ReadAtom(r) == Intern(JS_ReadString(r))

CheckVersion(r) == [Drop(r) EXCEPT !.ok = @ /\ Last(r.got) = BC_VERSION]

SetAtoms(r) == [Drop(r) EXCEPT !.idx_to_atom = Last(r.got)]

ReadAtoms(r) ==
    SetAtoms(Many(IF Last(r.got) = 0 THEN Drop(r) ELSE Alloc(Drop(r)), Last(r.got), ReadAtom))

JS_ReadObjectAtoms(r) == ReadAtoms(GetLeb(CheckVersion(Get(r))))

\* Faulty: bc_reader_free is left out.
bc_reader_keep(r) == r

\* bc_reader_free: the table's own references go.
bc_reader_free(r) == [r EXCEPT !.atoms = FoldLeft(JS_FreeAtom, @, r.idx_to_atom)]

\* A failure frees the functions read so far, with the references they took.
FreePartial(r) ==
    IF r.ok THEN r ELSE [r EXCEPT !.atoms = FoldLeft(JS_FreeAtom, @, r.taken)]

JS_ReadObject(t, cells, fuel) ==
    bc_reader_free(FreePartial(JS_ReadObjectRec(JS_ReadObjectAtoms(
        [rest |-> cells, idx_to_atom |-> <<>>, atoms |-> t, ok |-> TRUE, got |-> <<>>,
         fuel |-> fuel, taken |-> <<>>, lost |-> <<>>, crash |-> FALSE]))))

-----------------------------------------------------------------------------
NewAtoms == [name |-> [e \in Entries |-> None], refs |-> [e \in Entries |-> 0],
             free |-> [i \in 1 .. Slots |-> first_atom + i - 1]]

Init ==
    /\ atoms = NewAtoms
    /\ buffer = <<>> /\ whole = FALSE /\ source = None
    /\ loaded = <<>> /\ own = {} /\ lost = <<>>

\* lua_compile: compile, write, free.  At the memory limit JS_WriteObject may
\* return NULL and length 0, or bytes with parts missing.
lua_compile(script, limit) ==
    LET names    == AtomsIn(script)
        interned == FoldLeft(JS_NewAtomStr, atoms, names)
        compiled == Rename(script, [s \in Range(names) |-> AtomOf(interned, s)])
        written  == JS_WriteObject(interned, compiled, limit)
    IN  /\ source = None
        /\ Len(loaded) < MaxLoaded
        /\ Len(atoms.free) >= Cardinality(Range(names))
        /\ source' = script
        /\ buffer' = written.cells /\ whole' = written.whole
        /\ atoms' = FoldLeft(JS_FreeAtom, interned, AtomsIn(compiled))
        /\ UNCHANGED <<loaded, own, lost>>

\* JS_EvalFunction refuses, and frees, what is no function.
JS_EvalFunction(r) ==
    IF ~r.ok \/ Last(r.got).tag = BC_TAG_FUNCTION_BYTECODE THEN r
    ELSE [r EXCEPT !.ok = FALSE, !.atoms = FoldLeft(JS_FreeAtom, @, r.taken)]

\* lua_eval: length 0 is refused before anything is read, as is nil.  A crash
\* ends the server, which starts again with a new context.
lua_eval(fuel) ==
    LET r == JS_EvalFunction(JS_ReadObject(atoms, buffer, fuel))
    IN  /\ source # None
        /\ source' = None /\ buffer' = <<>> /\ whole' = FALSE
        /\ \/ /\ buffer = <<>>
              /\ UNCHANGED <<atoms, loaded, own, lost>>
           \/ /\ buffer # <<>> /\ ~r.crash
              /\ Len(lost) + Len(r.lost) <= MaxLost
              /\ atoms' = r.atoms
              /\ loaded' = IF r.ok THEN Append(loaded, [fn |-> Last(r.got).fn,
                                                       of |-> IF whole THEN source ELSE None])
                           ELSE loaded
              /\ lost' = lost \o r.lost
              /\ UNCHANGED own
           \/ /\ buffer # <<>> /\ r.crash
              /\ atoms' = NewAtoms /\ loaded' = <<>> /\ own' = {} /\ lost' = <<>>

\* A running script makes, or deletes, the last property of some name.
AddProperty(s) ==
    /\ source = None /\ s \notin own /\ atoms.free # <<>>
    /\ own' = own \cup {s}
    /\ atoms' = JS_NewAtomStr(atoms, s)
    /\ UNCHANGED <<buffer, whole, source, loaded, lost>>

DeleteProperty(s) ==
    /\ source = None /\ s \in own
    /\ own' = own \ {s}
    /\ atoms' = JS_FreeAtom(atoms, AtomOf(atoms, s))
    /\ UNCHANGED <<buffer, whole, source, loaded, lost>>

\* free_function_bytecode: a script's function is no longer referenced.
free_function_bytecode(i) ==
    /\ source = None
    /\ loaded' = RemoveAt(loaded, i)
    /\ atoms' = FoldLeft(JS_FreeAtom, atoms, AtomsIn(loaded[i].fn))
    /\ UNCHANGED <<buffer, whole, source, own, lost>>

Next ==
    \/ \E script \in Scripts, limit \in Limits : lua_compile(script, limit)
    \/ \E fuel \in Memory : lua_eval(fuel)
    \/ \E s \in Names : AddProperty(s) \/ DeleteProperty(s)
    \/ \E i \in DOMAIN loaded : free_function_bytecode(i)

Spec == Init /\ [][Next]_vars

-----------------------------------------------------------------------------
\* Every function in the context that was read from a buffer written in full
\* still is the script it was compiled from, names, constants and nesting,
\* although its atoms were numbered again by JS_ReadObject, entries are freed
\* and reused all the time, and other reads fail half-way.
LoadedIsSource ==
    \A i \in DOMAIN loaded :
      LET f == loaded[i].fn
      IN  loaded[i].of # None =>
            Rename(f, [a \in Range(AtomsIn(f)) |-> NameOf(atoms, a)]) = loaded[i].of

\* A buffer that JS_WriteObject had the memory to write in full is read without
\* an error, to its last cell, when JS_ReadObject has the memory it needs.  One
\* with parts missing (quickjs.c:34990) may well fail.
BufferReads ==
    whole => LET r == JS_ReadObject(atoms, buffer, Plenty) IN r.ok /\ r.rest = <<>>

\* Compiling, writing, freeing and reading drop no reference to an atom too
\* many, and leave none behind but the name of a function whose header could
\* not be read (the "atom leak" of quickjs.c:35535): an entry is free exactly
\* when nothing else refers to it.  A read that fails anywhere else, on a
\* damaged buffer or out of memory, gives back all it took.
AtomsBalanced ==
    \A e \in Entries :
      /\ atoms.refs[e] =
           Cardinality({s \in own : AtomOf(atoms, s) = e})
             + Len(SelectSeq(lost, LAMBDA a : a = e))
             + FoldLeft(LAMBDA acc, l : acc + Len(SelectSeq(AtomsIn(l.fn),
                                                            LAMBDA a : a = e)),
                        0, loaded)
      /\ (atoms.refs[e] = 0) = Contains(atoms.free, e)
      /\ (atoms.refs[e] = 0) = (atoms.name[e] = None)
=============================================================================
