--------------------------- MODULE MCExpressions ---------------------------
(***************************************************************************)
(* Expressions over two structures, variables of every kind of type and    *)
(* four functions, as small instances for TLC.                             *)
(***************************************************************************)
EXTENDS Expressions

Of(type)          == Info(type, NoStruct, 0, FALSE)
Array(type, cnt)  == Info(type, NoStruct, cnt, FALSE)
Struct(str)       == Info(kStructure, str, 0, FALSE)

MCMembers ==
    [S |-> [n \in {<<"x">>, <<"m">>} |->
               IF n = <<"x">> THEN Of(kFloat3) ELSE Array(kFloat, 2)]]

MCVariables == {Of(kFloat), Of(kFloat3), Of(kInt), Of(kInt2), Of(kBoolean), Of(kBoolean3),
                Of(kExternType), Struct("S"), Array(kFloat3, 2), Array(kInt, -1)}

Arg(to, isByRef) == [to |-> to, isByRef |-> isByRef]
MCFunctions ==
    {[ret |-> Of(kInt),     args |-> <<>>],
     [ret |-> Struct("S"),  args |-> <<>>],
     [ret |-> Of(kFloat3),  args |-> <<Arg(Of(kFloat3), TRUE)>>],
     [ret |-> Value(kVoid), args |-> <<Arg(Of(kInt), FALSE)>>]}

MCNames == {<<"x">>, <<"x", "y">>, <<"m">>}
MCInitTypes == {kFloat, kFloat3, kInt2, kFloat8}
\* float x; int x = ... x ...: a variable of another type, of the same, an array
\* for an array of another size, and one for a structure or an array.
MCRenamed   ==
    {<<Of(kFloat), Of(kInt)>>, <<Of(kInt), Of(kInt)>>, <<Struct("S"), Of(kFloat)>>,
     <<Array(kFloat3, 2), Array(kFloat3, 2)>>, <<Array(kFloat3, 2), Of(kFloat)>>,
     <<Of(kFloat3), Array(kFloat3, 2)>>}
MCDefTypes  == {Of(kFloat), Of(kInt), Of(kBoolean), Array(kFloat3, 2), Of(kExternType)}
=============================================================================
