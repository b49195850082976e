----------------------------- MODULE MCBytecode -----------------------------
(* Scripts that reach the corners of the format: names that are predefined,  *)
(* indices, shared between functions or wide; numbers on both sides of a     *)
(* LEB128 group and of the sign; templates; a function inside a function; a  *)
(* long string and long code, which a full buffer may drop and go on.        *)
EXTENDS Bytecode

Stdin  == <<60>>           \* the file name "<stdin>", a plain name
MCBuiltin == <<<<110>>, <<108>>>>
A      == <<97>>
B      == <<98, 99>>
Wide   == <<97, 300>>
Three  == <<51>>
MCNames == {A, B}
MCAtomOps == {200, 201}

Fn(name, vardefs, closures, operands, line, pool) ==
    [flags |-> 5, args |-> Len(vardefs) \div 2, defined |-> 0, stack |-> 130,
     name |-> name,
     vars |-> [i \in DOMAIN vardefs |-> [name |-> vardefs[i], scope_level |-> i,
                                         scope_next |-> i - 2, flags |-> i]],
     closures |-> [i \in DOMAIN closures |-> [name |-> closures[i], var_idx |-> 127 + i,
                                              flags |-> 2]],
     code |-> <<[op |-> 7, atom |-> 0]>>
                \o [i \in DOMAIN operands |-> [op |-> 199 + i, atom |-> operands[i]]],
     file |-> Stdin, line |-> line, pool |-> pool]

Number(n) == [tag |-> BC_TAG_INT32, n |-> n]
Str(s) == [tag |-> BC_TAG_STRING, s |-> s]
Sub(f) == [tag |-> BC_TAG_FUNCTION_BYTECODE, fn |-> f]
Template(items) == [tag |-> BC_TAG_TEMPLATE_OBJECT, items |-> items]

Inner(name) == Fn(name, <<A>>, <<B>>, <<Three>>, 1, <<Str(Wide)>>)

LongStr  == Fn(Builtin[1], <<>>, <<>>, <<>>, 1, <<Str([i \in 1 .. 12 |-> 65])>>)
LongCode == [Fn(Builtin[1], <<>>, <<>>, <<>>, 1, <<>>)
               EXCEPT !.code = [i \in 1 .. 12 |-> [op |-> 7, atom |-> 0]]]

Edges == <<0, -1, 63, -64, 64, -65, 8191, -8192, 8192, -8193, 32767, -32768>>

MCScripts ==
    {Fn(A, <<B, Wide>>, <<A>>, <<A, Builtin[2]>>, 128, <<Sub(Inner(Wide)), [tag |-> 2]>>),
     Fn(B, <<A, B>>, <<>>, <<B, Three>>, 65535,
        <<Template(<<Str(A), Str(Wide), Template(<<Str(B), [tag |-> 2]>>)>>)>>
          \o [i \in DOMAIN Edges |-> Number(Edges[i])]),
     LongStr, LongCode}

\* Writers with memory enough, and ones that drop a string or the code, give up,
\* lose names from the table in front, or leave out what has no place in it.
Ample == [body |-> 999, head |-> 999, places |-> 9]
MCLimits == {Ample, [Ample EXCEPT !.body = 22], [Ample EXCEPT !.body = 10],
             [Ample EXCEPT !.head = 6], [Ample EXCEPT !.places = 2]}
=============================================================================
