---------------------------- MODULE Expressions ----------------------------
(***************************************************************************)
(* Expressions from the leaves up: each step makes one node of the tree    *)
(* out of the topmost nodes of a stack, checks it as CheckSemantic does    *)
(* (parser_AST_Gen.cpp) and notes the type of the LLVM value its           *)
(* GenerateCode yields (LLVM_IR_Gen.cpp).  A node is a record of           *)
(*   kind    how GenerateAssignCode and IsAssignable dispatch              *)
(*   info    the TypeInfo that CheckSemantic hands out                     *)
(*   cached  whether it was kept in mCachedTypeInfo                        *)
(*   ref     what IsAssignable(false) answers                              *)
(*   val     the type of the value that GenerateCode yields                *)
(*   ptr     what GetValuePtr yields: the type pointed to, and whether an  *)
(*           element of that vector is meant; NoPtr for NULL               *)
(*   effects whether there is a call or an assignment in its source        *)
(*   once    GenerateCode emits none of them more than once                *)
(*   visits  GetValuePtr emits one of them                                 *)
(*   faults  what in the source, accepted by CheckSemantic, is known not   *)
(*           to be compiled to what it says                                *)
(*   own     the operands had no faults: what there is, is of this node    *)
(* A name is looked up twice.  The parser finds a variable in the domains; *)
(* the generator looks for the name in its contexts, and there an          *)
(* initialiser already finds the variable that is being defined and those  *)
(* before it in its list.  info is of the first, val and ptr are of the    *)
(* second.                                                                 *)
(***************************************************************************)
EXTENDS Values

CONSTANTS Variables,   \* the types of the variables in scope
          Functions,   \* the functions in scope: [ret, args], an argument is
                       \* [to : its type, isByRef : BOOLEAN]
          Members,     \* the structures in scope: their members and the types of these
          Names,       \* what may stand behind a dot
          InitTypes,   \* the types that initialisers make
          DefTypes,    \* the types of variables that are defined with a value
          Renamed,     \* <<outer, new>>: variables of one name, the outer one in
                       \* scope and the new one of a definition in an inner block
          MaxNodes,    \* bound: nodes made
          MaxOpen      \* bound: nodes on the stack

VARIABLES stack,   \* the finished nodes that have no parent yet
          nodes,   \* how many nodes were made
          list,    \* the type of the definition list that this is an initialiser
                   \* of; kVoid as long as it may be of any statement
          outcome  \* open, or why the statement ended: rejected, done

vars == <<stack, nodes, list, outcome>>

Structs == DOMAIN Members

\* What is known of types, and what the parser lets a declaration say.
Infos == {i \in [type : VarTypes, str : Structs \cup {NoStruct}, arr : Int, asg : BOOLEAN] :
            i.str \in Structs <=> i.type = kStructure}
DeclaredTypes == {i \in Infos : i.type \notin {kVoid, kInvalid} /\ i.arr >= -1 /\ ~i.asg}
Plain(i) == i.arr = 0

ASSUME BoundsAssumption == MaxNodes \in Nat
ASSUME VariablesAssumption == Variables \subseteq DeclaredTypes
ASSUME StructsAssumption ==
    /\ Structs \cap {"float", "int", "bool", "pointer", "void", "ill-typed", NoStruct} = {}
    /\ \A s \in Structs : \A m \in DOMAIN Members[s] :
          Members[s][m] \in DeclaredTypes /\ Members[s][m].arr >= 0
ASSUME FunctionsAssumption ==
    \A f \in Functions :
        /\ f.ret \in DeclaredTypes \cup {Value(kVoid)} /\ Plain(f.ret)
        /\ f.args \in Seq([to : {i \in DeclaredTypes : Plain(i)}, isByRef : BOOLEAN])
ASSUME NamesAssumption == Names \subseteq Seq(STRING)
ASSUME InitTypesAssumption == InitTypes \subseteq FloatTypes \cup IntegerTypes
ASSUME DefTypesAssumption ==
    \A i \in DefTypes : i \in DeclaredTypes /\ i.arr >= 0 /\ i.type # kStructure
ASSUME RenamedAssumption == Renamed \subseteq Variables \X DefTypes

-----------------------------------------------------------------------------
NoPtr       == [to |-> Ill, element |-> FALSE]
PtrTo(t)    == [to |-> t, element |-> FALSE]

CachedInfo(n)      == IF n.cached THEN n.info ELSE DefaultInfo
IsArray(n)         == n.info.arr > 0
Elements(n)        == TypeElementCnt(n.info.type)
Fault(name, holds) == IF holds THEN {name} ELSE {}

\* A node without a pointer to its value, made of the nodes in a sequence.
RValue(info, val, parts, faults) ==
    [kind |-> "rvalue", info |-> info, cached |-> TRUE, ref |-> FALSE, val |-> val,
     ptr |-> NoPtr, visits |-> FALSE,
     effects |-> \E k \in DOMAIN parts : parts[k].effects,
     once    |-> \A k \in DOMAIN parts : parts[k].once,
     faults  |-> faults \cup UNION {parts[k].faults : k \in DOMAIN parts},
     own     |-> \A k \in DOMAIN parts : parts[k].faults = {}]

Constant(type) == RValue(Value(type), ConvertToLLVMType(type), <<>>, {})

\* The parser has found i, GetVariablePtr finds g.
VariableRef(i, g) ==
    [RValue([i EXCEPT !.asg = TRUE], TypeOfInfo(g), <<>>,
            Fault("hidden", TypeOfInfo(g) # TypeOfInfo(i)))
        EXCEPT !.kind = "variable", !.ref = (i.arr = 0), !.ptr = PtrTo(TypeOfInfo(g))]

-----------------------------------------------------------------------------
\* Exp_UnaryOp.  The TypeInfo of the operand is handed on whole, so the result
\* still counts as assignable or as a pointer to elements.

UnaryAccepts(op, n) == ~IsArray(n) /\ (op = "!" => IsBooleanType(n.info.type))

Unary(op, n) ==
    LET operands == IF op = "-" /\ IsFloatType(n.info.type) THEN {"float"} ELSE {"int", "bool"}
    IN RValue(n.info, Arithmetic(n.val, n.val, operands), <<n>>,
              Fault("negation", ~IsValueType(n.info.type)))

-----------------------------------------------------------------------------
\* Exp_BinaryOp.

IsAssignable(n) ==
    CASE n.kind = "variable"            -> n.info.arr = 0
      [] n.kind \in {"dot", "indexer"} -> n.info.asg
      [] OTHER -> FALSE

ValuesAccept(op, l, r) ==
    LET lt == l.info.type
        rt == r.info.type
    IN /\ IsValueType(lt) /\ IsValueType(rt)
       /\ op = "compare" =>
            /\ ~IsBooleanType(lt) /\ ~IsBooleanType(rt)
            /\ Elements(r) > 1 => Elements(l) <= Elements(r)
       /\ op = "bitwise" =>
            IsIntegerType(lt) /\ IsIntegerType(rt) /\ Elements(l) <= Elements(r)
       /\ op = "arithmetic" => ~IsBooleanType(lt) /\ ~IsBooleanType(rt)
       /\ op \in {"arithmetic", "="} => Elements(l) <= Elements(r) \/ Elements(r) = 1
       /\ op = "=" => IsAssignable(l)
       /\ op = "logic" => IsBooleanType(lt) /\ IsBooleanType(rt)

BinaryAccepts(op, l, r) ==
    LET types == {l.info.type, r.info.type}
    IN /\ ~IsArray(l) /\ ~IsArray(r)
       /\ IF kStructure \in types THEN op = "=" /\ l.info.str = r.info.str
          ELSE IF kExternType \in types THEN op = "=" /\ l.info.type = r.info.type
          ELSE ValuesAccept(op, l, r)

\* GenerateAssignCode: only variables, dots and indexers can store.
AssignCode(l, v) ==
    CASE l.kind = "rvalue" -> Ill
      [] l.ptr.element     -> Store(InsertElement(l.ptr.to, v), l.ptr.to)
      [] OTHER             -> Store(v, l.ptr.to)

BinaryInfo(op, l) ==
    CASE op \in {"compare", "logic"}   -> Value(MakeType(kBoolean, Elements(l)))
      [] l.info.type = kExternType     -> DefaultInfo
      [] OTHER                         -> Info(l.info.type, l.info.str, 0, FALSE)

\* Binary operators with a right side whose type was kept convert it to the
\* type of the left side.
OperandFaults(l, r) ==
    IF ~IsValueType(l.info.type) THEN {}
    ELSE IF r.cached THEN CastFaults(r.info.type, l.info.type)
    ELSE Fault("select", r.info.type # l.info.type)

\* The right operand is generated first.  What is assigned is then read back:
\* the left side is evaluated once to store and once to load.
Binary(op, l, r) ==
    LET lt == CachedInfo(l).type
        rt == CachedInfo(r).type
        val == IF op # "=" THEN CreateBinaryExpression(op, l.val, r.val, lt, rt)
               ELSE IF AssignCode(l, CastValueType(r.val, rt, lt)) = Ill THEN Ill
               ELSE l.val
        node == RValue(BinaryInfo(op, l), val, <<l, r>>,
                       OperandFaults(l, r)
                       \cup Fault("rvalue", op = "=" /\ l.kind = "rvalue")
                       \cup Fault("twice", op = "=" /\ l.effects))
    IN [node EXCEPT !.cached  = l.info.type # kExternType,
                    !.effects = @ \/ op = "=",
                    !.once    = @ /\ ~(op = "=" /\ l.visits)]

\* Exp_Select: its type is handed out and not kept.
SelectAccepts(c, a, b) ==
    /\ IsBooleanType(c.info.type)
    /\ a.info.type = b.info.type
    /\ Elements(c) = Elements(a)

Select(c, a, b) ==
    [RValue(Value(a.info.type), SelectInst(c.val, a.val, b.val), <<c, a, b>>,
            Fault("array", IsArray(c) \/ IsArray(a) \/ IsArray(b)))
        EXCEPT !.cached = FALSE]

-----------------------------------------------------------------------------
\* Exp_DotOp: a member of a structure or a swizzle of a vector.

IsMember(i, name) == i.type = kStructure /\ name \in DOMAIN Members[i.str]

\* Mutant of DotAccepts: the -1 for a name that is no swizzle is overlooked.
DotAcceptsAnyName(n, name) ==
    /\ CachedInfo(n).arr <= 0
    /\ IF n.info.type = kStructure THEN IsMember(n.info, name)
       ELSE /\ SwizzleCnt(name) # 0
            /\ \A i \in 1..SwizzleCnt(name) : ConvertSwizzle(name)[i] < Elements(n)

DotAccepts(n, name) ==
    /\ CachedInfo(n).arr <= 0
    /\ IF n.info.type = kStructure THEN IsMember(n.info, name)
       ELSE /\ SwizzleCnt(name) > 0
            /\ \A i \in 1..SwizzleCnt(name) : ConvertSwizzle(name)[i] < Elements(n)

\* Mutant of DotInfo: a swizzle of several elements can be assigned to.
DotInfoAssignable(n, name) ==
    IF n.info.type = kStructure
    THEN [Members[n.info.str][name] EXCEPT !.asg = n.info.asg]
    ELSE Info(MakeType(n.info.type, SwizzleCnt(name)), NoStruct, 0, n.info.asg)

DotInfo(n, name) ==
    IF n.info.type = kStructure
    THEN [Members[n.info.str][name] EXCEPT !.asg = n.info.asg]
    ELSE Info(MakeType(n.info.type, SwizzleCnt(name)), NoStruct, 0,
              n.info.asg /\ SwizzleCnt(name) = 1)

\* A pointer leads to a member, or to one element of a vector in memory.
DotPtr(n, name) ==
    IF n.ptr = NoPtr \/ n.ptr.element THEN NoPtr
    ELSE IF IsMember(n.info, name)
    THEN IF n.ptr.to = TypeOfInfo(n.info) THEN PtrTo(TypeOfInfo(Members[n.info.str][name]))
         ELSE NoPtr
    ELSE IF SwizzleCnt(name) = 1 THEN [n.ptr EXCEPT !.element = TRUE]
    ELSE NoPtr

\* Without a pointer the dot is taken for a swizzle, after GetValuePtr has
\* already been through the indices below it.  A pointer that is not to the
\* structure has no member.
Dot(n, name) ==
    LET ptr == DotPtr(n, name)
        val == CASE ptr = NoPtr -> IF IsMember(n.info, name) /\ n.ptr # NoPtr THEN Ill
                                   ELSE ShuffleVector(n.val, ConvertSwizzle(name))
                 [] ptr.element -> ExtractElement(ptr.to)
                 [] OTHER       -> ptr.to
        node == RValue(DotInfo(n, name), val, <<n>>,
                       Fault("member", n.info.type = kStructure /\ ptr = NoPtr)
                       \cup Fault("scalar", Elements(n) = 1)
                       \cup Fault("element", Elements(n) > 1 /\ SwizzleCnt(name) = 1 /\ ptr = NoPtr)
                       \cup Fault("twice", n.visits /\ ptr = NoPtr))
    IN [node EXCEPT !.kind   = "dot", !.ptr = ptr, !.visits = n.visits,
                    !.ref    = CachedInfo(n).type = kStructure /\ node.info.asg,
                    !.once   = @ /\ ~(n.visits /\ ptr = NoPtr)]

-----------------------------------------------------------------------------
\* Exp_Indexer.

IndexerAccepts(n, idx) == idx.info.type = kInt /\ n.info.arr # 0

\* CreateGEP into what an array has been declared as: LLVM lets a vector be
\* indexed as well.
ElementOf(t) == IF t.arr > 0 THEN [t EXCEPT !.arr = 0]
                ELSE IF t.n > 0 THEN Scalar(t.elem) ELSE Ill

\* isFixedArray is what the parser knows of the array.
Indexer(n, idx) ==
    LET ptr == IF n.ptr = NoPtr \/ n.ptr.element \/ idx.val # Scalar("int") THEN NoPtr
               ELSE PtrTo(IF IsArray(n) THEN ElementOf(n.ptr.to) ELSE n.ptr.to)
        node == RValue(Info(n.info.type, n.info.str, 0, TRUE), ptr.to, <<n, idx>>,
                       Fault("array", IsArray(idx)) \cup Fault("rvalue", n.kind = "rvalue"))
    IN [node EXCEPT !.kind = "indexer", !.ptr = ptr, !.ref = TRUE,
                    !.visits = n.visits \/ idx.effects]

-----------------------------------------------------------------------------
\* Exp_FunctionCall and Exp_BuiltInInitializer.

CallAccepts(f, args) ==
    /\ Len(args) = Len(f.args)
    /\ \A k \in DOMAIN f.args :
          IF f.args[k].isByRef
          THEN args[k].ref /\ IsSameType(f.args[k].to, args[k].info)
          ELSE IsTypeCompatible(f.args[k].to, args[k].info)

\* The value that an argument is passed as: for a reference, what it points to.
Passed(to, isByRef, n) ==
    IF isByRef THEN (IF n.ptr.element THEN Ill ELSE n.ptr.to)
    ELSE CastValueType(n.val, CachedInfo(n).type, to.type)

Call(f, args) ==
    LET fits == \A k \in DOMAIN f.args :
                    Passed(f.args[k].to, f.args[k].isByRef, args[k]) = TypeOfInfo(f.args[k].to)
    IN [RValue(f.ret, IF fits THEN TypeOfInfo(f.ret) ELSE Ill, args,
               UNION {IF f.args[k].isByRef THEN {}
                      ELSE CastFaults(args[k].info.type, f.args[k].to.type) : k \in DOMAIN f.args})
           EXCEPT !.effects = TRUE]

\* The parser keeps four values, whatever the width.
ElementsGiven(args) ==
    LET given(k) == IF k <= Len(args) THEN Elements(args[k]) ELSE 0
    IN given(1) + given(2) + given(3) + given(4)

InitializerAccepts(t, args) ==
    /\ \A k \in DOMAIN args : args[k].info.type \in FloatTypes \cup IntegerTypes
    /\ ElementsGiven(args) = TypeElementCnt(t)

ScalarOf(t) == IF IsIntegerType(t) THEN kInt ELSE kFloat

\* What one value contributes: itself, or its elements one by one.
Contributed(t, n) ==
    LET src == CachedInfo(n).type
    IN IF TypeElementCnt(src) > 1
       THEN CastValueType(ExtractElement(n.val), ScalarOf(src), ScalarOf(t))
       ELSE CastValueType(n.val, src, ScalarOf(t))

Initializer(t, args) ==
    LET type == ConvertToLLVMType(t)
        fits == \A k \in DOMAIN args : InsertElement(type, Contributed(t, args[k])) = type
        val  == IF TypeElementCnt(t) = 1
                THEN CastValueType(args[1].val, CachedInfo(args[1]).type, t)
                ELSE IF fits THEN type ELSE Ill
    IN RValue(Value(t), val, args,
              Fault("array", \E k \in DOMAIN args : IsArray(args[k]))
              \cup Fault("wide", TypeElementCnt(t) = 8))

-----------------------------------------------------------------------------
\* Statements that use a value: Exp_VarDef, Exp_FuncRet, Exp_If and Exp_For.

VarDefAccepts(i, n) == CompatibleTypes(i.type, n.info.type)

\* Neither side's array size is looked at.  When the list has given the name
\* before, NewVariable yields no address to store to.
VarDef(i, n, again) ==
    RValue(Value(kVoid),
           IF again THEN Ill
           ELSE Store(CastValueType(n.val, CachedInfo(n).type, i.type), TypeOfInfo(i)),
           <<n>>,
           Fault("again", again) \cup
           IF i.arr = 0 /\ ~IsArray(n) THEN CastFaults(n.info.type, i.type)
           ELSE Fault("array", TypeOfInfo(i) # TypeOfInfo(n.info)))

FuncRetAccepts(ret, n) == ~IsArray(n) /\ IsTypeCompatible(ret, n.info)

FuncRet(ret, n) ==
    RValue(Value(kVoid), Store(CastValueType(n.val, n.info.type, ret.type), TypeOfInfo(ret)),
           <<n>>, CastFaults(n.info.type, ret.type))

IfAccepts(n) == n.info.type \in {kBoolean, kFloat, kInt, kExternType}

If(n) ==
    LET t == CachedInfo(n).type
        isTested == \/ n.val = Scalar("bool")
                    \/ t \in {kFloat, kInt, kExternType} /\ n.val = ConvertToLLVMType(t)
    IN RValue(Value(kVoid), Effect(isTested), <<n>>, Fault("array", IsArray(n)))

ForAccepts(n) == n.info.type = kBoolean

For(n) == RValue(Value(kVoid), Effect(n.val \in {Scalar("bool"), Scalar("int")}), <<n>>,
                 Fault("array", IsArray(n)))

-----------------------------------------------------------------------------
Init ==
    /\ stack = <<>>
    /\ nodes = 0
    /\ list = kVoid
    /\ outcome = "open"

\* The topmost k nodes, all of them compiled so far without an ill-typed
\* instruction: what one is built into means nothing.
Top(k) == SubSeq(stack, Len(stack) - k + 1, Len(stack))
Ready(k) ==
    /\ k <= Len(stack)
    /\ \A i \in 1..k : Top(k)[i].val # Ill

\* The parent of the topmost k nodes takes their place, or the statement ends
\* with the error that CheckSemantic reports.
Built(k, accepted, node) ==
    /\ nodes' = nodes + 1
    /\ IF accepted
       THEN /\ stack' = Append(SubSeq(stack, 1, Len(stack) - k), node)
            /\ UNCHANGED outcome
       ELSE stack' = <<>> /\ outcome' = "rejected"

Parent(k, accepted, node) == Built(k, accepted, node) /\ UNCHANGED list

Leaf(node) == Ready(0) /\ Len(stack) < MaxOpen /\ Built(0, TRUE, node)

MakeConstant    == \E t \in {kFloat, kInt, kBoolean} : Leaf(Constant(t)) /\ UNCHANGED list
MakeVariableRef == \E i \in Variables : Leaf(VariableRef(i, i)) /\ UNCHANGED list

\* In an initialiser: all variables of a list are of one type, but for the
\* sizes of arrays.
MakeHiddenRef == \E i \in Variables, g \in DefTypes :
    /\ <<i, g>> \in Renamed
    /\ list \in {kVoid, g.type}
    /\ Leaf(VariableRef(i, g))
    /\ list' = g.type

MakeUnary == \E op \in {"!", "-"} :
    /\ Ready(1)
    /\ LET n == Top(1)[1] IN Parent(1, UnaryAccepts(op, n), Unary(op, n))

MakeBinary == \E op \in Operators :
    /\ Ready(2)
    /\ LET l == Top(2)[1]
           r == Top(2)[2]
       IN Parent(2, BinaryAccepts(op, l, r), Binary(op, l, r))

\* The parser makes a select only as the right operand of another operator.
MakeSelect == \E op \in Operators :
    /\ Ready(4)
    /\ LET t == Top(4)
           s == Select(t[2], t[3], t[4])
       IN Parent(4, SelectAccepts(t[2], t[3], t[4]) /\ BinaryAccepts(op, t[1], s),
                 Binary(op, t[1], s))

MakeDot == \E name \in Names :
    /\ Ready(1)
    /\ LET n == Top(1)[1] IN Parent(1, DotAccepts(n, name), Dot(n, name))

MakeIndexer ==
    /\ Ready(2)
    /\ LET n == Top(2)[1]
           idx == Top(2)[2]
       IN Parent(2, IndexerAccepts(n, idx), Indexer(n, idx))

MakeCall == \E f \in Functions :
    /\ Ready(Len(f.args))
    /\ LET args == Top(Len(f.args)) IN Parent(Len(f.args), CallAccepts(f, args), Call(f, args))

\* An 8-wide initialiser writes behind the parser's array of four values:
\* whether its code is any good is left open.
MakeInitializer == \E t \in InitTypes, k \in 1..4, survives \in BOOLEAN :
    /\ k <= TypeElementCnt(t) /\ Ready(k)
    /\ survives \/ TypeElementCnt(t) = 8
    /\ LET node == Initializer(t, Top(k))
       IN Parent(k, InitializerAccepts(t, Top(k)),
                 IF survives THEN node ELSE [node EXCEPT !.val = Ill])

\* The statement is complete: its value is used and the walk ends.
Statement(types, accepted, node) ==
    /\ Ready(1) /\ Len(stack) = 1
    /\ list \in types
    /\ nodes' = nodes + 1
    /\ stack' = IF accepted THEN <<node>> ELSE <<>>
    /\ outcome' = IF accepted THEN "done" ELSE "rejected"
    /\ UNCHANGED list

MakeVarDef  == \E i \in DefTypes, again \in BOOLEAN :
    Statement({kVoid, i.type}, VarDefAccepts(i, stack[1]), VarDef(i, stack[1], again))
MakeFuncRet == \E f \in Functions :
    Statement({kVoid}, FuncRetAccepts(f.ret, stack[1]), FuncRet(f.ret, stack[1]))
MakeIf      == Statement({kVoid}, IfAccepts(stack[1]), If(stack[1]))
MakeFor     == Statement({kVoid}, ForAccepts(stack[1]), For(stack[1]))

Next ==
    /\ outcome = "open" /\ nodes < MaxNodes
    /\ \/ MakeConstant \/ MakeVariableRef \/ MakeHiddenRef
       \/ MakeUnary \/ MakeBinary \/ MakeSelect \/ MakeDot \/ MakeIndexer
       \/ MakeCall \/ MakeInitializer
       \/ MakeVarDef \/ MakeFuncRet \/ MakeIf \/ MakeFor

Spec == Init /\ [][Next]_vars

-----------------------------------------------------------------------------
Kinds  == {"variable", "dot", "indexer", "rvalue"}
Faults == {"bool", "narrow", "fewer", "negation", "select", "rvalue", "twice", "array",
           "member", "scalar", "element", "wide", "hidden", "again"}
LLVMTypes == [elem : {"float", "int", "bool", "pointer", "void", "ill-typed"} \cup Structs,
              n : Nat, arr : Nat]
Nodes == [kind : Kinds, info : Infos, cached : BOOLEAN, ref : BOOLEAN, val : LLVMTypes,
          ptr : [to : LLVMTypes, element : BOOLEAN], visits : BOOLEAN, effects : BOOLEAN,
          once : BOOLEAN, faults : SUBSET Faults, own : BOOLEAN]

\* The stack holds nodes and the walk ends in one of three ways.
TypeOK ==
    /\ stack \in Seq(Nodes)
    /\ nodes \in 0..MaxNodes
    /\ list \in VarTypes
    /\ outcome \in {"open", "rejected", "done"}

Clean(n) == n.faults = {}

\* An accepted expression without one of the listed faults is compiled to
\* well-typed IR, and its value has the LLVM type of the type that the check
\* announced (CheckSemantic and GenerateCode agree).
TypeSound ==
    \A i \in DOMAIN stack : Clean(stack[i]) =>
        /\ stack[i].val # Ill
        /\ stack[i].info.type # kInvalid => stack[i].val = TypeOfInfo(stack[i].info)

\* In an accepted expression without a fault every call and assignment is
\* generated once, and what can be assigned or bound to a reference has an
\* address of the right type (GetValuePtr, GenerateAssignCode).
AddressesExist ==
    \A i \in DOMAIN stack : Clean(stack[i]) =>
        LET n == stack[i]
        IN /\ n.once
           /\ IsAssignable(n) => n.ptr # NoPtr
           /\ n.ref => n.ptr = PtrTo(TypeOfInfo(n.info))

\* The list of faults is exact: a node that has one, of operands that have
\* none, is compiled to ill-typed IR, to a value of another type than
\* announced, or to code that evaluates something twice.
FaultsAreReal ==
    \A i \in DOMAIN stack :
        LET n == stack[i]
        IN n.own /\ ~Clean(n) /\ "wide" \notin n.faults =>
               n.val # TypeOfInfo(n.info) \/ ~n.once
=============================================================================
