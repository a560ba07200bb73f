------------------------------- MODULE Values -------------------------------
(***************************************************************************)
(* The LLVM instructions that expressions are compiled to, by the type of  *)
(* what they yield, and the two functions of CG_Context that choose them:  *)
(* CastValueType and CreateBinaryExpression (IR_Gen_Context.cpp).  An      *)
(* instruction whose operands do not fit yields Ill: LLVM asserts, or      *)
(* without its assertions builds IR that means nothing.                    *)
(***************************************************************************)
EXTENDS VarTypes

IsVector(v) == v.n > 0 /\ v.arr = 0

\* FPToSI and SIToFP.
Convert(v, from, to) ==
    IF v.elem = from /\ v.n = to.n /\ v.arr = 0 THEN to ELSE Ill

\* ShuffleVector with a constant mask: a mask without indices is no constant.
ShuffleVector(v, mask) ==
    IF IsVector(v) /\ mask # <<>> /\ \A i \in 1..Len(mask) : mask[i] < 2 * v.n
    THEN LLVMType(v.elem, Len(mask)) ELSE Ill

ExtractElement(v) == IF IsVector(v) THEN Scalar(v.elem) ELSE Ill
InsertElement(v, e) == IF IsVector(v) /\ e = Scalar(v.elem) THEN v ELSE Ill

Arithmetic(a, b, operands) == IF a = b /\ a.elem \in operands /\ a.arr = 0 THEN a ELSE Ill
Comparison(a, b, operands) ==
    IF a = b /\ a.elem \in operands /\ a.arr = 0 THEN LLVMType("bool", a.n) ELSE Ill

SelectInst(c, a, b) ==
    IF /\ a = b /\ a # Ill
       /\ c = Scalar("bool") \/ (c.elem = "bool" /\ c.arr = 0 /\ a.arr = 0 /\ c.n = a.n)
    THEN a ELSE Ill

\* An instruction without a result: a void, if its operands fit.
Effect(fits) == IF fits THEN Scalar("void") ELSE Ill
Store(v, pointee) == Effect(v = pointee /\ v # Ill)

-----------------------------------------------------------------------------
FirstElements(n) == [i \in 1..n |-> i - 1]

\* From float to int and back: the n elements of v are converted.
CastElements(v, src, dest, n) ==
    LET type == ConvertToLLVMType(MakeType(dest, n))
    IN IF IsFloatType(src) /\ IsIntegerType(dest) THEN Convert(v, "float", type)
       ELSE IF IsIntegerType(src) /\ IsFloatType(dest) THEN Convert(v, "int", type)
       ELSE v

CastValueType(v, src, dest) ==
    LET srcCnt  == TypeElementCnt(src)
        destCnt == TypeElementCnt(dest)
    IN CASE srcCnt = destCnt -> CastElements(v, src, dest, destCnt)
         [] srcCnt > destCnt ->
                CastElements(ShuffleVector(v, FirstElements(destCnt)), src, dest, destCnt)
         [] srcCnt = 1 /\ destCnt > 1 ->
                InsertElement(ConvertToLLVMType(MakeType(dest, destCnt)),
                              CastElements(v, src, dest, 1))
         [] OTHER -> v

Operators == {"arithmetic", "bitwise", "compare", "logic", "="}

\* Every operator but "=", by the kind that decides on its instruction.
CreateBinaryExpression(op, vl, vr, ltype, rtype) ==
    LET operands == IF IsFloatType(ltype) THEN {"float"} ELSE {"int", "bool"}
        r == CastValueType(vr, rtype, ltype)
    IN IF op = "compare" THEN Comparison(vl, r, operands) ELSE Arithmetic(vl, r, operands)

-----------------------------------------------------------------------------
(* When a value of type src, cast to dest, is not of the type dest has:    *)
(*   bool    no code converts between booleans and numbers                 *)
(*   narrow  a vector shortened to one element stays a vector              *)
(*   fewer   a vector with too few elements is not converted at all        *)
CastFaults(src, dest) ==
    (IF IsBooleanType(src) # IsBooleanType(dest) THEN {"bool"} ELSE {}) \cup
    (IF TypeElementCnt(src) > 1 /\ TypeElementCnt(dest) = 1 THEN {"narrow"} ELSE {}) \cup
    (IF TypeElementCnt(src) > 1 /\ TypeElementCnt(src) < TypeElementCnt(dest)
     THEN {"fewer"} ELSE {})
=============================================================================
