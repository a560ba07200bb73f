------------------------------ MODULE VarTypes ------------------------------
(***************************************************************************)
(* The types of the language (parser_defines.cpp, SC_API.h), what is known *)
(* of an expression's type (Exp_ValueEval::TypeInfo), and the types of the *)
(* LLVM values that stand for them (IR_Gen_Context.cpp).                   *)
(*                                                                         *)
(* A VarType is the number the enumeration gives it: MakeType counts on    *)
(* the order of the enumerators and on the gap before each 8-wide one.     *)
(***************************************************************************)
EXTENDS Integers, Sequences

kFloat   == 0
kFloat2  == 1
kFloat3  == 2
kFloat4  == 3
kFloat8  == kFloat4 + 4
kInt     == 8
kInt2    == 9
kInt3    == 10
kInt4    == 11
kInt8    == kInt4 + 4
kBoolean  == 16
kBoolean2 == 17
kBoolean3 == 18
kBoolean4 == 19
kBoolean8 == kBoolean4 + 4
kStructure  == 24
kVoid       == 25
kExternType == 26
kInvalid    == 27

FloatTypes   == {kFloat, kFloat2, kFloat3, kFloat4, kFloat8}
IntegerTypes == {kInt, kInt2, kInt3, kInt4, kInt8}
BooleanTypes == {kBoolean, kBoolean2, kBoolean3, kBoolean4, kBoolean8}
ValueTypes   == FloatTypes \cup IntegerTypes \cup BooleanTypes
VarTypes     == ValueTypes \cup {kStructure, kVoid, kExternType, kInvalid}

IsFloatType(t)   == t \in FloatTypes
IsIntegerType(t) == t \in IntegerTypes
IsBooleanType(t) == t \in BooleanTypes
IsValueType(t)   == t \in ValueTypes

TypeElementCnt(t) ==
    CASE t \in {kFloat,  kInt,  kBoolean}  -> 1
      [] t \in {kFloat2, kInt2, kBoolean2} -> 2
      [] t \in {kFloat3, kInt3, kBoolean3} -> 3
      [] t \in {kFloat4, kInt4, kBoolean4} -> 4
      [] t \in {kFloat8, kInt8, kBoolean8} -> 8
      [] OTHER -> 0

\* Mutant of MakeType: the case of the booleans is copied from the integers.
MakeTypeOfCopy(base, elemCnt) ==
    CASE IsFloatType(base) -> kFloat + elemCnt - 1
      [] IsIntegerType(base) \/ IsBooleanType(base) -> kInt + elemCnt - 1
      [] OTHER -> kInvalid

\* The assert(0) for a type without elements is the value kInvalid.
MakeType(base, elemCnt) ==
    CASE IsFloatType(base)   -> kFloat + elemCnt - 1
      [] IsIntegerType(base) -> kInt + elemCnt - 1
      [] IsBooleanType(base) -> kBoolean + elemCnt - 1
      [] OTHER -> kInvalid

\* Float and Int have 4 bytes, a pointer 8; a packed bool is an Int.
TypePackedSize(t) ==
    CASE t = kExternType -> 8
      [] IsValueType(t)  -> 4 * TypeElementCnt(t)
      [] OTHER           -> 0

\* A conversion from float to int is accepted with a warning, so the warning
\* is not told apart here.
CompatibleTypes(dest, from) ==
    \/ dest = kExternType /\ from = kExternType
    \/ IsValueType(dest) /\ TypeElementCnt(dest) <= TypeElementCnt(from)

-----------------------------------------------------------------------------
\* Swizzles.  A name is the sequence of its letters.

SwizzleIndex == [c \in {"x", "r", "y", "g", "z", "b", "w", "a"} |->
                    CASE c \in {"x", "r"} -> 0
                      [] c \in {"y", "g"} -> 1
                      [] c \in {"z", "b"} -> 2
                      [] c \in {"w", "a"} -> 3]

IsSwizzle(name) ==
    /\ Len(name) <= 4
    /\ \A i \in 1..Len(name) : name[i] \in DOMAIN SwizzleIndex

\* The number that the code returns, and swizzleIdx[0 .. that number - 1].
SwizzleCnt(name)     == IF IsSwizzle(name) THEN Len(name) ELSE -1
ConvertSwizzle(name) ==
    IF IsSwizzle(name) THEN [i \in 1..Len(name) |-> SwizzleIndex[name[i]]] ELSE <<>>

-----------------------------------------------------------------------------
\* TypeInfo: a type, its structure, the number of array elements (0 for no
\* array, -1 for a pointer to elements) and whether it can be assigned to.

NoStruct == "no structure"

Info(type, str, arr, asg) == [type |-> type, str |-> str, arr |-> arr, asg |-> asg]
Value(type)  == Info(type, NoStruct, 0, FALSE)
DefaultInfo  == Value(kInvalid)    \* TypeInfo::TypeInfo()

IsTypeCompatible(to, from) ==
    /\ from.arr <= 0 /\ to.arr <= 0
    /\ IF to.type = kStructure THEN to.str = from.str
                               ELSE CompatibleTypes(to.type, from.type)

IsSameType(a, b) == a.type = b.type /\ a.str = b.str /\ a.arr = b.arr

-----------------------------------------------------------------------------
\* LLVM types: an element, the number of a vector's elements or 0 for a
\* scalar, the number of an array's elements or 0.  Ill stands for a value
\* that no well-typed instruction yields.

LLVMType(elem, n) == [elem |-> elem, n |-> n, arr |-> 0]
Scalar(elem)      == LLVMType(elem, 0)
Ill               == Scalar("ill-typed")

ElementType(t) == CASE IsFloatType(t) -> "float" [] IsIntegerType(t) -> "int"
                    [] IsBooleanType(t) -> "bool" [] t = kExternType -> "pointer"
                    [] OTHER -> "void"

\* Mutant of ConvertToLLVMType: a scalar is made a vector of one element.
ConvertToVectorOfOne(t) == LLVMType(ElementType(t), TypeElementCnt(t))

ConvertToLLVMType(t) ==
    LLVMType(ElementType(t), IF TypeElementCnt(t) > 1 THEN TypeElementCnt(t) ELSE 0)

\* The type of the values that variables of a type hold.
TypeOfInfo(i) ==
    [(IF i.type = kStructure THEN Scalar(i.str) ELSE ConvertToLLVMType(i.type))
        EXCEPT !.arr = IF i.arr > 0 THEN i.arr ELSE 0]
=============================================================================
