------------------------- MODULE ExpressionsProofs -------------------------
(***************************************************************************)
(* For every choice of variables, functions, structures, names and bounds: *)
(* what Expressions builds are nodes (TypeOK), an accepted expression      *)
(* without one of the listed faults is compiled to well-typed IR of the    *)
(* announced type (TypeSound), what it assigns to or binds has an address  *)
(* (AddressesExist), and each of the listed faults does show in the code   *)
(* (FaultsAreReal).  Each kind of node has a lemma that derives NodeOK of  *)
(* the node from NodeOK of its operands, and one that derives MarkOK; the  *)
(* induction over the steps only puts nodes on the stack and takes them    *)
(* off.                                                                    *)
(***************************************************************************)
EXTENDS Expressions, TLAPS

-----------------------------------------------------------------------------
\* Facts about the enumeration of types, after which no number is needed.

\* A type has 1, 2, 3, 4 or 8 elements if it is a value type, or none.
LEMMA Counts ==
    \A t : /\ TypeElementCnt(t) \in {0, 1, 2, 3, 4, 8}
           /\ t \in ValueTypes <=> TypeElementCnt(t) # 0
  BY DEF TypeElementCnt, ValueTypes, FloatTypes, IntegerTypes, BooleanTypes,
         kFloat, kFloat2, kFloat3, kFloat4, kFloat8, kInt, kInt2, kInt3, kInt4, kInt8,
         kBoolean, kBoolean2, kBoolean3, kBoolean4, kBoolean8

\* The three kinds of value types are told apart, from each other and from the
\* types that are no value types.
LEMMA KindsDiffer ==
    /\ \A t : ~(t \in FloatTypes /\ t \in IntegerTypes)
    /\ \A t : ~(t \in FloatTypes /\ t \in BooleanTypes)
    /\ \A t : ~(t \in IntegerTypes /\ t \in BooleanTypes)
    /\ kStructure \notin ValueTypes /\ kVoid \notin ValueTypes
    /\ kExternType \notin ValueTypes /\ kInvalid \notin ValueTypes
    /\ kStructure # kVoid /\ kStructure # kExternType /\ kStructure # kInvalid
    /\ kVoid # kExternType /\ kVoid # kInvalid /\ kExternType # kInvalid
  BY DEF ValueTypes, FloatTypes, IntegerTypes, BooleanTypes,
         kFloat, kFloat2, kFloat3, kFloat4, kFloat8, kInt, kInt2, kInt3, kInt4, kInt8,
         kBoolean, kBoolean2, kBoolean3, kBoolean4, kBoolean8,
         kStructure, kVoid, kExternType, kInvalid

\* The scalar types.
LEMMA Scalars ==
    /\ kFloat \in FloatTypes /\ kInt \in IntegerTypes /\ kBoolean \in BooleanTypes
    /\ TypeElementCnt(kFloat) = 1 /\ TypeElementCnt(kInt) = 1 /\ TypeElementCnt(kBoolean) = 1
  BY DEF TypeElementCnt, FloatTypes, IntegerTypes, BooleanTypes,
         kFloat, kFloat2, kFloat3, kFloat4, kFloat8, kInt, kInt2, kInt3, kInt4, kInt8,
         kBoolean, kBoolean2, kBoolean3, kBoolean4, kBoolean8

\* MakeType keeps the kind and has the number of elements it is asked for.
LEMMA MakeTypeMakes ==
    ASSUME NEW base \in ValueTypes, NEW n \in {1, 2, 3, 4, 8}
    PROVE  /\ MakeType(base, n) \in ValueTypes
           /\ TypeElementCnt(MakeType(base, n)) = n
           /\ MakeType(base, n) \in FloatTypes <=> base \in FloatTypes
           /\ MakeType(base, n) \in IntegerTypes <=> base \in IntegerTypes
           /\ MakeType(base, n) \in BooleanTypes <=> base \in BooleanTypes
<1>1. CASE base \in FloatTypes
  <2>1. MakeType(base, n) = 0 + n - 1
    BY <1>1, KindsDiffer DEF MakeType, IsFloatType, IsIntegerType, IsBooleanType, kFloat
  <2>q. QED
    BY <1>1, <2>1, KindsDiffer DEF ValueTypes, TypeElementCnt, FloatTypes,
         kFloat, kFloat2, kFloat3, kFloat4, kFloat8, kInt, kInt2, kInt3, kInt4, kInt8,
         kBoolean, kBoolean2, kBoolean3, kBoolean4, kBoolean8
<1>2. CASE base \in IntegerTypes
  <2>1. MakeType(base, n) = 8 + n - 1
    BY <1>2, KindsDiffer DEF MakeType, IsFloatType, IsIntegerType, IsBooleanType, kInt
  <2>q. QED
    BY <1>2, <2>1, KindsDiffer DEF ValueTypes, TypeElementCnt, IntegerTypes,
         kFloat, kFloat2, kFloat3, kFloat4, kFloat8, kInt, kInt2, kInt3, kInt4, kInt8,
         kBoolean, kBoolean2, kBoolean3, kBoolean4, kBoolean8
<1>3. CASE base \in BooleanTypes
  <2>1. MakeType(base, n) = 16 + n - 1
    BY <1>3, KindsDiffer DEF MakeType, IsFloatType, IsIntegerType, IsBooleanType, kBoolean
  <2>q. QED
    BY <1>3, <2>1, KindsDiffer DEF ValueTypes, TypeElementCnt, BooleanTypes,
         kFloat, kFloat2, kFloat3, kFloat4, kFloat8, kInt, kInt2, kInt3, kInt4, kInt8,
         kBoolean, kBoolean2, kBoolean3, kBoolean4, kBoolean8
<1>q. QED  BY <1>1, <1>2, <1>3 DEF ValueTypes

\* The LLVM type of a type, by its kind.
LEMMA LLVMForms ==
    ASSUME NEW t
    PROVE  /\ ConvertToLLVMType(t).arr = 0 /\ ConvertToLLVMType(t).elem = ElementType(t)
           /\ ConvertToLLVMType(t) =
                 LLVMType(ElementType(t), IF TypeElementCnt(t) > 1 THEN TypeElementCnt(t) ELSE 0)
           /\ t \in FloatTypes => ElementType(t) = "float"
           /\ t \in IntegerTypes => ElementType(t) = "int"
           /\ t \in BooleanTypes => ElementType(t) = "bool"
           /\ t = kExternType => ElementType(t) = "pointer"
           /\ t \in {kVoid, kInvalid, kStructure} => ElementType(t) = "void"
           /\ ElementType(t) # "ill-typed"
           /\ ElementType(t) \in {"float", "int", "bool", "pointer", "void"}
  BY KindsDiffer DEF ConvertToLLVMType, LLVMType, ElementType, IsFloatType, IsIntegerType,
                     IsBooleanType, ValueTypes

\* Two types of one kind with as many elements are converted alike: their LLVM
\* types are the same.
LEMMA LLVMOfMakeType ==
    ASSUME NEW t \in ValueTypes
    PROVE  ConvertToLLVMType(MakeType(t, TypeElementCnt(t))) = ConvertToLLVMType(t)
<1>1. TypeElementCnt(t) \in {1, 2, 3, 4, 8}  BY Counts
<1>2. ElementType(MakeType(t, TypeElementCnt(t))) = ElementType(t)
  BY <1>1, MakeTypeMakes, LLVMForms DEF ValueTypes
<1>q. QED  BY <1>1, <1>2, MakeTypeMakes DEF ConvertToLLVMType

-----------------------------------------------------------------------------
\* Casts.

\* The conversion of n elements of a type to another one's kind.
LEMMA CastElementsMakes ==
    ASSUME NEW src \in ValueTypes, NEW dest \in ValueTypes, NEW n \in {1, 2, 3, 4, 8},
           src \in BooleanTypes <=> dest \in BooleanTypes
    PROVE  CastElements(LLVMType(ElementType(src), IF n > 1 THEN n ELSE 0), src, dest, n)
              = LLVMType(ElementType(dest), IF n > 1 THEN n ELSE 0)
<1> DEFINE v == LLVMType(ElementType(src), IF n > 1 THEN n ELSE 0)
           w == LLVMType(ElementType(dest), IF n > 1 THEN n ELSE 0)
<1>1. ConvertToLLVMType(MakeType(dest, n)) = w
  BY MakeTypeMakes, LLVMForms DEF ValueTypes
<1>2. v.elem = ElementType(src) /\ v.arr = 0 /\ v.n = w.n  BY DEF LLVMType
<1>3. CASE src \in FloatTypes /\ dest \in IntegerTypes
  <2>1. CastElements(v, src, dest, n) = Convert(v, "float", w)
    BY <1>1, <1>3 DEF CastElements, IsFloatType, IsIntegerType
  <2>q. QED  BY <1>2, <1>3, <2>1, LLVMForms DEF Convert
<1>4. CASE src \in IntegerTypes /\ dest \in FloatTypes
  <2>1. CastElements(v, src, dest, n) = Convert(v, "int", w)
    BY <1>1, <1>4, KindsDiffer DEF CastElements, IsFloatType, IsIntegerType
  <2>q. QED  BY <1>2, <1>4, <2>1, LLVMForms DEF Convert
<1>5. CASE ~(src \in FloatTypes /\ dest \in IntegerTypes)
           /\ ~(src \in IntegerTypes /\ dest \in FloatTypes)
  <2>1. CastElements(v, src, dest, n) = v
    BY <1>5 DEF CastElements, IsFloatType, IsIntegerType
  <2>2. ElementType(src) = ElementType(dest)
    BY <1>5, LLVMForms DEF ValueTypes
  <2>q. QED  BY <2>1, <2>2
<1>q. QED  BY <1>3, <1>4, <1>5

\* A cast without a fault from a value type yields a value of the type that is
\* asked for.
LEMMA CastClean ==
    ASSUME NEW src \in ValueTypes, NEW dest \in ValueTypes, CastFaults(src, dest) = {}
    PROVE  CastValueType(ConvertToLLVMType(src), src, dest) = ConvertToLLVMType(dest)
<1> DEFINE s == TypeElementCnt(src)
           d == TypeElementCnt(dest)
           v == ConvertToLLVMType(src)
<1>1. s \in {1, 2, 3, 4, 8} /\ d \in {1, 2, 3, 4, 8}  BY Counts
<1>2. /\ src \in BooleanTypes <=> dest \in BooleanTypes
      /\ ~(s > 1 /\ d = 1)
      /\ ~(s > 1 /\ s < d)
  BY DEF CastFaults, IsBooleanType
<1>3. ConvertToLLVMType(MakeType(dest, d)) = ConvertToLLVMType(dest)  BY LLVMOfMakeType
<1>4. /\ v = LLVMType(ElementType(src), IF s > 1 THEN s ELSE 0)
      /\ ConvertToLLVMType(dest) = LLVMType(ElementType(dest), IF d > 1 THEN d ELSE 0)
  BY LLVMForms
<1>5. CASE s = d
  <2>1. CastValueType(v, src, dest) = CastElements(v, src, dest, d)
    BY <1>1, <1>5 DEF CastValueType
  <2>q. QED  BY <1>1, <1>2, <1>4, <1>5, <2>1, CastElementsMakes
<1>6. CASE s > d
  <2>1. CastValueType(v, src, dest) = CastElements(ShuffleVector(v, FirstElements(d)), src, dest, d)
    BY <1>6, <1>1 DEF CastValueType
  <2>2. ShuffleVector(v, FirstElements(d)) = LLVMType(ElementType(src), d)
    <3>1. s > 1 /\ d > 1  BY <1>1, <1>2, <1>6
    <3>2. v.n = s /\ v.arr = 0 /\ v.elem = ElementType(src)  BY <1>4, <3>1 DEF LLVMType
    <3>3. Len(FirstElements(d)) = d /\ FirstElements(d) # <<>>
          /\ \A i \in 1..d : FirstElements(d)[i] = i - 1
      BY <1>1 DEF FirstElements
    <3>q. QED  BY <1>1, <1>6, <3>1, <3>2, <3>3 DEF ShuffleVector, IsVector
  <2>3. d > 1  BY <1>1, <1>2, <1>6
  <2>q. QED  BY <1>1, <1>2, <1>4, <2>1, <2>2, <2>3, CastElementsMakes
<1>7. CASE s = 1 /\ d > 1
  <2>1. CastValueType(v, src, dest)
           = InsertElement(ConvertToLLVMType(dest), CastElements(v, src, dest, 1))
    BY <1>1, <1>3, <1>7 DEF CastValueType
  <2>2. CastElements(v, src, dest, 1) = Scalar(ElementType(dest))
    BY <1>2, <1>4, <1>7, CastElementsMakes DEF Scalar
  <2>q. QED  BY <1>1, <1>4, <1>7, <2>1, <2>2 DEF InsertElement, IsVector, LLVMType, Scalar
<1>q. QED  BY <1>1, <1>2, <1>5, <1>6, <1>7

\* Between types without elements, and between types of the same LLVM type, a
\* cast does nothing.
LEMMA CastIdle ==
    ASSUME NEW v, NEW src, NEW dest, TypeElementCnt(src) = TypeElementCnt(dest),
           TypeElementCnt(src) = 0 \/ ElementType(src) = ElementType(dest)
    PROVE  CastValueType(v, src, dest) = v
<1>1. CastValueType(v, src, dest) = CastElements(v, src, dest, TypeElementCnt(dest))
  BY Counts DEF CastValueType
<1>2. ~(src \in FloatTypes /\ dest \in IntegerTypes) /\ ~(src \in IntegerTypes /\ dest \in FloatTypes)
  BY LLVMForms, Counts DEF ValueTypes
<1>q. QED  BY <1>1, <1>2 DEF CastElements, IsFloatType, IsIntegerType

\* A value of a type without elements is not cast to a type with some.
LEMMA CastUnknown ==
    ASSUME NEW v, NEW src, NEW dest, TypeElementCnt(src) = 0
    PROVE  CastValueType(v, src, dest) = v
<1>1. TypeElementCnt(dest) \in {0, 1, 2, 3, 4, 8}  BY Counts
<1>2. CASE TypeElementCnt(dest) = 0  BY <1>2, CastIdle
<1>3. CASE TypeElementCnt(dest) # 0  BY <1>1, <1>3 DEF CastValueType
<1>q. QED  BY <1>2, <1>3

-----------------------------------------------------------------------------
\* The types of values.

LEMMA LLVMTypesMade ==
    /\ Ill \in LLVMTypes /\ Scalar("bool") \in LLVMTypes /\ Scalar("void") \in LLVMTypes
    /\ \A elem \in {"float", "int", "bool", "pointer", "void", "ill-typed"} \cup Structs, n \in Nat :
          LLVMType(elem, n) \in LLVMTypes
    /\ \A t : ConvertToLLVMType(t) \in LLVMTypes
<1>1. \A elem \in {"float", "int", "bool", "pointer", "void", "ill-typed"} \cup Structs, n \in Nat :
          LLVMType(elem, n) \in LLVMTypes
  BY DEF LLVMTypes, LLVMType
<1>2. ASSUME NEW t PROVE ConvertToLLVMType(t) \in LLVMTypes
  BY <1>1, LLVMForms, Counts
<1>q. QED  BY <1>1, <1>2 DEF Ill, Scalar

\* What the code takes a value's type to be: a type without array elements is
\* that of its type or of its structure, and none is ill-typed.
LEMMA TypeOfInfoIs ==
    ASSUME NEW i \in Infos
    PROVE  /\ TypeOfInfo(i) \in LLVMTypes
           /\ TypeOfInfo(i) # Ill
           /\ i.arr <= 0 /\ i.type # kStructure => TypeOfInfo(i) = ConvertToLLVMType(i.type)
           /\ i.arr <= 0 /\ i.type = kStructure => TypeOfInfo(i) = Scalar(i.str)
<1> DEFINE t == IF i.type = kStructure THEN Scalar(i.str) ELSE ConvertToLLVMType(i.type)
<1>1. i.arr \in Int /\ (i.type = kStructure => i.str \in Structs)  BY DEF Infos
<1>2. t \in LLVMTypes /\ t.arr = 0 /\ t.elem # "ill-typed"
  <2>1. CASE i.type = kStructure
    BY <1>1, <2>1, LLVMTypesMade, StructsAssumption DEF Scalar, LLVMType
  <2>2. CASE i.type # kStructure
    BY <2>2, LLVMTypesMade, LLVMForms DEF LLVMType
  <2>q. QED  BY <2>1, <2>2
<1>3. TypeOfInfo(i) = [t EXCEPT !.arr = IF i.arr > 0 THEN i.arr ELSE 0]  BY DEF TypeOfInfo
<1> HIDE DEF t
<1>4. TypeOfInfo(i) \in LLVMTypes /\ TypeOfInfo(i).elem = t.elem
  BY <1>1, <1>2, <1>3 DEF LLVMTypes
<1>5. TypeOfInfo(i) # Ill  BY <1>2, <1>4 DEF Ill, Scalar, LLVMType
<1>6. i.arr <= 0 => TypeOfInfo(i) = t
  BY <1>1, <1>2, <1>3 DEF LLVMTypes
<1>q. QED  BY <1>4, <1>5, <1>6 DEF t

\* The parts of the type a value is announced to have.
LEMMA TypeOfInfoParts ==
    ASSUME NEW i \in Infos
    PROVE  /\ i.type = kStructure => /\ TypeOfInfo(i).elem = i.str /\ TypeOfInfo(i).n = 0
                                     /\ i.str \in Structs
           /\ i.type # kStructure =>
                 /\ TypeOfInfo(i).elem = ElementType(i.type)
                 /\ TypeOfInfo(i).n = IF TypeElementCnt(i.type) > 1 THEN TypeElementCnt(i.type) ELSE 0
           /\ i.arr > 0 => TypeOfInfo(i).arr > 0
           /\ i.arr <= 0 => TypeOfInfo(i).arr = 0
           /\ i.arr \in Int
<1>1. i.arr \in Int /\ (i.type = kStructure => i.str \in Structs)  BY DEF Infos
<1>2. CASE i.type = kStructure
  BY <1>1, <1>2 DEF TypeOfInfo, Scalar, LLVMType
<1>3. CASE i.type # kStructure
  <2>1. TypeOfInfo(i) = [ConvertToLLVMType(i.type) EXCEPT !.arr = IF i.arr > 0 THEN i.arr ELSE 0]
    BY <1>3 DEF TypeOfInfo
  <2>2. ConvertToLLVMType(i.type)
           = LLVMType(ElementType(i.type), IF TypeElementCnt(i.type) > 1 THEN TypeElementCnt(i.type) ELSE 0)
    BY LLVMForms
  <2>q. QED  BY <1>1, <1>3, <2>1, <2>2 DEF LLVMType
<1>q. QED  BY <1>2, <1>3

\* A type's value, and what TypeInfo() makes.
LEMMA ValueInfos ==
    /\ \A t \in VarTypes \ {kStructure} : Value(t) \in Infos
    /\ DefaultInfo \in Infos
    /\ ValueTypes \subseteq VarTypes \ {kStructure}
    /\ {kVoid, kExternType, kInvalid} \subseteq VarTypes \ {kStructure}
<1>1. ValueTypes \subseteq VarTypes \ {kStructure}
      /\ {kVoid, kExternType, kInvalid} \subseteq VarTypes \ {kStructure}
  BY KindsDiffer DEF VarTypes
<1>2. ASSUME NEW t \in VarTypes \ {kStructure} PROVE Value(t) \in Infos
  BY <1>2, StructsAssumption DEF Value, Info, Infos
<1>q. QED  BY <1>1, <1>2 DEF DefaultInfo

\* A cast makes a value from a value, whatever the types.
LEMMA CastTypes ==
    ASSUME NEW v \in LLVMTypes, NEW src, NEW dest
    PROVE  CastValueType(v, src, dest) \in LLVMTypes
<1>1. ASSUME NEW x \in LLVMTypes, NEW n PROVE CastElements(x, src, dest, n) \in LLVMTypes
  BY LLVMTypesMade DEF CastElements, Convert
<1>2. \A n \in Nat : ShuffleVector(v, FirstElements(n)) \in LLVMTypes
  <2> SUFFICES ASSUME NEW n \in Nat PROVE ShuffleVector(v, FirstElements(n)) \in LLVMTypes
    OBVIOUS
  <2>1. Len(FirstElements(n)) = n  BY DEF FirstElements
  <2>q. QED  BY <2>1, LLVMTypesMade DEF ShuffleVector, LLVMTypes
<1>3. \A x, y : x \in LLVMTypes => InsertElement(x, y) \in LLVMTypes
  BY LLVMTypesMade DEF InsertElement
<1>4. TypeElementCnt(src) \in Nat /\ TypeElementCnt(dest) \in Nat  BY Counts
<1>q. QED
  BY <1>1, <1>2, <1>3, <1>4, LLVMTypesMade DEF CastValueType

-----------------------------------------------------------------------------
(* What holds of every node.  A node without faults has a value of the     *)
(* announced type; a pointer to its value, if it has one, is to that type  *)
(* or to the vector the value is an element of; and where the code counts  *)
(* on a pointer there is one.                                              *)
ValueOK(n) ==
    /\ n.val # Ill
    /\ n.info.type # kInvalid => n.val = TypeOfInfo(n.info)
    /\ n.once

PointerOK(n) ==
    /\ n.ptr # NoPtr => n.cached
    /\ n.ptr # NoPtr /\ ~n.ptr.element => n.ptr.to = TypeOfInfo(n.info)
    /\ n.ptr.element =>
          /\ n.kind = "dot" /\ n.info.arr = 0
          /\ n.info.type \in ValueTypes /\ TypeElementCnt(n.info.type) = 1
          /\ IsVector(n.ptr.to) /\ n.ptr.to.elem = ElementType(n.info.type)
    /\ n.kind \in {"variable", "indexer"} => n.ptr # NoPtr
    /\ n.kind = "dot" /\ n.ptr = NoPtr =>
          n.info.arr = 0 /\ ~n.info.asg /\ n.info.type \in ValueTypes
    /\ n.ref => n.ptr # NoPtr /\ ~n.ptr.element

NodeOK(n) ==
    /\ n \in Nodes
    /\ n.kind = "rvalue" => n.ptr = NoPtr
    /\ n.visits => n.effects
    /\ Clean(n) => ValueOK(n) /\ PointerOK(n)

\* Only the assignment of external values leaves a type unknown.
CachedOK(n) == n.cached \/ n.info.type = kInvalid

\* The parts of the invariant say what the properties say.
LEMMA NodeOKImplies ==
    ASSUME NEW n, NodeOK(n), Clean(n)
    PROVE  /\ n.val # Ill
           /\ n.info.type # kInvalid => n.val = TypeOfInfo(n.info)
           /\ n.once
           /\ IsAssignable(n) => n.ptr # NoPtr
           /\ n.ref => n.ptr = PtrTo(TypeOfInfo(n.info))
<1>1. ValueOK(n) /\ PointerOK(n) /\ n \in Nodes  BY DEF NodeOK
<1>2. IsAssignable(n) => n.ptr # NoPtr
  BY <1>1 DEF IsAssignable, PointerOK
<1>3. n.ref => n.ptr = PtrTo(TypeOfInfo(n.info))
  <2>1. n.ptr \in [to : LLVMTypes, element : BOOLEAN]  BY <1>1 DEF Nodes
  <2>2. n.ptr = [to |-> n.ptr.to, element |-> n.ptr.element]  BY <2>1
  <2>q. QED  BY <1>1, <2>1, <2>2 DEF PointerOK, PtrTo
<1>q. QED  BY <1>1, <1>2, <1>3 DEF ValueOK

\* A node without a pointer is in order if, where neither it nor its operands
\* have faults, its value is.
LEMMA RValueOK ==
    ASSUME NEW info \in Infos, NEW val \in LLVMTypes, NEW faults \in SUBSET Faults,
           NEW parts, \A k \in DOMAIN parts : NodeOK(parts[k]),
           faults = {} /\ (\A k \in DOMAIN parts : Clean(parts[k])) =>
              val # Ill /\ (info.type # kInvalid => val = TypeOfInfo(info))
    PROVE  /\ NodeOK(RValue(info, val, parts, faults))
           /\ RValue(info, val, parts, faults).faults = {} =>
                 faults = {} /\ \A k \in DOMAIN parts : Clean(parts[k])
<1> DEFINE node == RValue(info, val, parts, faults)
<1>1. \A k \in DOMAIN parts : parts[k] \in Nodes /\ (Clean(parts[k]) => parts[k].once)
  BY DEF NodeOK, ValueOK
<1>2. node.faults = faults \cup UNION {parts[k].faults : k \in DOMAIN parts}  BY DEF RValue
<1>3. node.faults \in SUBSET Faults  BY <1>1, <1>2 DEF Nodes
<1>4. NoPtr \in [to : LLVMTypes, element : BOOLEAN]  BY LLVMTypesMade DEF NoPtr
<1>5. node \in Nodes
  BY <1>2, <1>3, <1>4 DEF RValue, Nodes, Kinds
<1>6. node.faults = {} => faults = {} /\ \A k \in DOMAIN parts : Clean(parts[k])
  BY <1>2 DEF Clean
<1>7. node.faults = {} => ValueOK(node)
  BY <1>1, <1>6 DEF RValue, ValueOK
<1>8. PointerOK(node) /\ node.kind = "rvalue" /\ node.ptr = NoPtr /\ ~node.visits
  BY DEF RValue, PointerOK, NoPtr
<1>q. QED  BY <1>5, <1>6, <1>7, <1>8 DEF NodeOK, Clean

\* What is asked of an operand whose type is a value type and no array.
LEMMA ValueOfType ==
    ASSUME NEW n, NodeOK(n), Clean(n), n.info.arr <= 0
    PROVE  /\ n.info.type \notin {kInvalid, kStructure} => n.val = ConvertToLLVMType(n.info.type)
           /\ n.info.type = kStructure => n.val = Scalar(n.info.str)
<1>1. n.info \in Infos  BY DEF NodeOK, Nodes
<1>q. QED  BY <1>1, TypeOfInfoIs, KindsDiffer DEF NodeOK, ValueOK

-----------------------------------------------------------------------------
\* One lemma for each kind of node.

LEMMA ConstantOK ==
    ASSUME NEW t \in {kFloat, kInt, kBoolean}
    PROVE  NodeOK(Constant(t)) /\ CachedOK(Constant(t))
<1>1. t \in ValueTypes /\ t # kInvalid /\ t # kStructure  BY Scalars, KindsDiffer DEF ValueTypes
<1>2. Value(t) \in Infos  BY <1>1, ValueInfos
<1>3. TypeOfInfo(Value(t)) = ConvertToLLVMType(t)
  BY <1>1, <1>2, TypeOfInfoIs DEF Value, Info
<1>4. ConvertToLLVMType(t) \in LLVMTypes /\ ConvertToLLVMType(t) # Ill
  BY <1>2, <1>3, TypeOfInfoIs
<1>5. NodeOK(Constant(t))
  <2>1. DOMAIN <<>> = {} /\ {} \in SUBSET Faults  OBVIOUS
  <2>q. QED  BY <1>2, <1>3, <1>4, <2>1, RValueOK DEF Constant
<1>q. QED  BY <1>5 DEF Constant, RValue, CachedOK

\* A name that the generator finds elsewhere than the parser has a value of the
\* announced type if both have the same.
LEMMA VariableRefOK ==
    ASSUME NEW i \in Infos, NEW g \in Infos, i.type # kInvalid
    PROVE  NodeOK(VariableRef(i, g)) /\ CachedOK(VariableRef(i, g))
<1> DEFINE info == [i EXCEPT !.asg = TRUE]
           faults == Fault("hidden", TypeOfInfo(g) # TypeOfInfo(i))
           base == RValue(info, TypeOfInfo(g), <<>>, faults)
           node == VariableRef(i, g)
<1>2. info \in Infos /\ info.type = i.type /\ info.str = i.str /\ info.arr = i.arr
  BY DEF Infos
<1>3. TypeOfInfo(info) = TypeOfInfo(i)  BY <1>2 DEF TypeOfInfo
<1>4. TypeOfInfo(g) \in LLVMTypes /\ TypeOfInfo(g) # Ill  BY TypeOfInfoIs
<1>5. NodeOK(base) /\ base.cached /\ base.info = info /\ base.val = TypeOfInfo(g)
      /\ (base.faults = {} => TypeOfInfo(g) = TypeOfInfo(i))
  <2>1. DOMAIN <<>> = {} /\ faults \in SUBSET Faults  BY DEF Fault, Faults
  <2>2. faults = {} => TypeOfInfo(g) = TypeOfInfo(i)  BY DEF Fault
  <2> HIDE DEF info, faults
  <2>3. NodeOK(base)  BY <1>2, <1>3, <1>4, <2>1, <2>2, RValueOK
  <2>4. base.faults = faults \cup UNION {<<>>[k].faults : k \in DOMAIN <<>>}  BY DEF RValue
  <2>5. base.cached /\ base.info = info /\ base.val = TypeOfInfo(g)  BY DEF RValue
  <2>q. QED  BY <2>2, <2>3, <2>4, <2>5
<1>6. base \in Nodes /\ (base.faults = {} => ValueOK(base))  BY <1>5 DEF NodeOK, Clean
<1>7. node = [base EXCEPT !.kind = "variable", !.ref = (i.arr = 0), !.ptr = PtrTo(TypeOfInfo(g))]
  BY DEF VariableRef
<1>11. (base.visits => base.effects) /\ base.visits \in BOOLEAN  BY <1>5, <1>6 DEF NodeOK, Nodes
<1> HIDE DEF base, node, info, faults
<1>8. PtrTo(TypeOfInfo(g)) \in [to : LLVMTypes, element : BOOLEAN]
      /\ PtrTo(TypeOfInfo(g)) # NoPtr /\ ~PtrTo(TypeOfInfo(g)).element
      /\ PtrTo(TypeOfInfo(g)).to = TypeOfInfo(g)
  BY <1>4 DEF PtrTo, NoPtr
<1>9. /\ node \in Nodes /\ node.kind = "variable" /\ node.ptr = PtrTo(TypeOfInfo(g))
      /\ node.info = info /\ node.cached /\ node.val = base.val /\ node.once = base.once
      /\ node.visits = base.visits /\ node.effects = base.effects /\ node.faults = base.faults
  BY <1>5, <1>6, <1>7, <1>8 DEF Nodes, Kinds
<1>10. node.faults = {} => ValueOK(node) /\ PointerOK(node)
  BY <1>3, <1>5, <1>6, <1>8, <1>9 DEF ValueOK, PointerOK
<1>q. QED  BY <1>9, <1>10, <1>11 DEF NodeOK, CachedOK, Clean, node

LEMMA UnaryOK ==
    ASSUME NEW op \in {"!", "-"}, NEW n, NodeOK(n), CachedOK(n), UnaryAccepts(op, n)
    PROVE  NodeOK(Unary(op, n)) /\ CachedOK(Unary(op, n))
<1> DEFINE operands == IF op = "-" /\ IsFloatType(n.info.type) THEN {"float"} ELSE {"int", "bool"}
           val == Arithmetic(n.val, n.val, operands)
           faults == Fault("negation", ~IsValueType(n.info.type))
<1>1. n.info \in Infos /\ n.val \in LLVMTypes  BY DEF NodeOK, Nodes
<1>2. n.info.arr <= 0  BY <1>1 DEF UnaryAccepts, IsArray, Infos
<1>3. val \in LLVMTypes  BY <1>1, LLVMTypesMade DEF Arithmetic
<1>4. faults \in SUBSET Faults  BY DEF Fault, Faults
<1>5. ASSUME faults = {}, Clean(n)
      PROVE  val # Ill /\ val = TypeOfInfo(n.info)
  <2>1. n.info.type \in ValueTypes  BY <1>5 DEF Fault, IsValueType
  <2>2. n.val = ConvertToLLVMType(n.info.type) /\ n.val = TypeOfInfo(n.info) /\ n.val # Ill
    BY <1>1, <1>2, <1>5, <2>1, ValueOfType, KindsDiffer DEF NodeOK, ValueOK
  <2>3. n.val.elem \in operands /\ n.val.arr = 0
    <3>1. n.val.elem = ElementType(n.info.type) /\ n.val.arr = 0
      <4> HIDE DEF operands, val, faults
      <4>q. QED  BY <2>2, LLVMForms
    <3>2. op = "!" => n.info.type \in BooleanTypes  BY DEF UnaryAccepts, IsBooleanType
    <3>3. CASE n.info.type \in FloatTypes
      <4>1. op = "-"  BY <3>2, <3>3, KindsDiffer
      <4>q. QED  BY <3>1, <3>3, <4>1, LLVMForms DEF IsFloatType
    <3>4. CASE n.info.type \notin FloatTypes
      BY <2>1, <3>1, <3>4, LLVMForms DEF ValueTypes, IsFloatType
    <3>q. QED  BY <3>3, <3>4
  <2>q. QED  BY <2>2, <2>3 DEF Arithmetic
<1>6. Unary(op, n) = RValue(n.info, val, <<n>>, faults)  BY DEF Unary
<1> HIDE DEF val, faults
<1>7. NodeOK(RValue(n.info, val, <<n>>, faults))
  BY <1>1, <1>3, <1>4, <1>5, RValueOK
<1>q. QED  BY <1>6, <1>7 DEF CachedOK, RValue

LEMMA SelectOK ==
    ASSUME NEW c, NEW a, NEW b, NodeOK(c), NodeOK(a), NodeOK(b), SelectAccepts(c, a, b)
    PROVE  NodeOK(Select(c, a, b))
<1> DEFINE val == SelectInst(c.val, a.val, b.val)
           faults == Fault("array", IsArray(c) \/ IsArray(a) \/ IsArray(b))
           base == RValue(Value(a.info.type), val, <<c, a, b>>, faults)
<1>1. \A n \in {c, a, b} : n.info \in Infos /\ n.val \in LLVMTypes /\ n.info.arr \in Int
  BY DEF NodeOK, Nodes, Infos
<1>2. /\ c.info.type \in BooleanTypes /\ c.info.type \in ValueTypes
      /\ a.info.type \in ValueTypes /\ b.info.type = a.info.type
      /\ TypeElementCnt(c.info.type) = TypeElementCnt(a.info.type)
  <2>1. /\ c.info.type \in BooleanTypes /\ b.info.type = a.info.type
        /\ TypeElementCnt(c.info.type) = TypeElementCnt(a.info.type)
    BY DEF SelectAccepts, IsBooleanType, Elements
  <2>q. QED  BY <2>1, Counts DEF ValueTypes
<1>3. Value(a.info.type) \in Infos  BY <1>2, ValueInfos
<1>4. val \in LLVMTypes  BY <1>1, LLVMTypesMade DEF SelectInst
<1>5. faults \in SUBSET Faults  BY DEF Fault, Faults
<1>6. ASSUME faults = {}, Clean(c), Clean(a), Clean(b)
      PROVE  val # Ill /\ val = TypeOfInfo(Value(a.info.type))
  <2>1. c.info.arr <= 0 /\ a.info.arr <= 0 /\ b.info.arr <= 0
    BY <1>1, <1>6 DEF Fault, IsArray
  <2>2. /\ c.val = ConvertToLLVMType(c.info.type)
        /\ a.val = ConvertToLLVMType(a.info.type)
        /\ b.val = ConvertToLLVMType(a.info.type)
    BY <1>2, <1>6, <2>1, ValueOfType, KindsDiffer
  <2>3. c.val = LLVMType("bool", a.val.n) /\ a.val.arr = 0
    BY <1>2, <2>2, LLVMForms DEF LLVMType
  <2>4. a.val # Ill  BY <1>6 DEF NodeOK, ValueOK
  <2>5. val = a.val
    BY <2>2, <2>3, <2>4 DEF SelectInst, LLVMType
  <2>6. TypeOfInfo(Value(a.info.type)) = ConvertToLLVMType(a.info.type)
    BY <1>2, <1>3, TypeOfInfoIs, KindsDiffer DEF Value, Info
  <2>q. QED  BY <2>2, <2>4, <2>5, <2>6
<1>7. Select(c, a, b) = [base EXCEPT !.cached = FALSE]  BY DEF Select
<1>8. NodeOK(base) /\ base.kind = "rvalue" /\ base.ptr = NoPtr /\ ~base.ref
  <2> HIDE DEF val, faults
  <2>1. NodeOK(base)
    BY <1>3, <1>4, <1>5, <1>6, RValueOK
  <2>q. QED  BY <2>1 DEF RValue
<1> HIDE DEF base
<1>9. NodeOK([base EXCEPT !.cached = FALSE])
  BY <1>8 DEF NodeOK, Nodes, ValueOK, PointerOK, Clean, NoPtr
<1>q. QED  BY <1>7, <1>9

-----------------------------------------------------------------------------
\* Binary operators.

\* The right operand is converted to the left one's type.
LEMMA OperandCast ==
    ASSUME NEW l, NEW r, NodeOK(r), Clean(r), r.info.arr <= 0,
           l.info.type \in ValueTypes, r.info.type \in ValueTypes, OperandFaults(l, r) = {}
    PROVE  CastValueType(r.val, CachedInfo(r).type, l.info.type) = ConvertToLLVMType(l.info.type)
<1>1. r.val = ConvertToLLVMType(r.info.type)  BY ValueOfType, KindsDiffer
<1>2. CASE r.cached
  <2>1. CachedInfo(r).type = r.info.type  BY <1>2 DEF CachedInfo
  <2>2. CastFaults(r.info.type, l.info.type) = {}
    BY <1>2 DEF OperandFaults, IsValueType
  <2>q. QED  BY <1>1, <2>1, <2>2, CastClean
<1>3. CASE ~r.cached
  <2>1. CachedInfo(r).type = kInvalid  BY <1>3 DEF CachedInfo, DefaultInfo, Value, Info
  <2>2. TypeElementCnt(kInvalid) = 0  BY Counts, KindsDiffer
  <2>3. r.info.type = l.info.type
    BY <1>3 DEF OperandFaults, IsValueType, Fault
  <2>q. QED  BY <1>1, <2>1, <2>2, <2>3, CastUnknown
<1>q. QED  BY <1>2, <1>3

\* A structure or an external value is not converted.
LEMMA OperandKept ==
    ASSUME NEW l, NEW r, r.info.type = l.info.type, l.info.type \in {kStructure, kExternType}
    PROVE  CastValueType(r.val, CachedInfo(r).type, l.info.type) = r.val
<1>1. CachedInfo(r).type \in {kStructure, kExternType, kInvalid}
  BY DEF CachedInfo, DefaultInfo, Value, Info
<1>q. QED  BY <1>1, CastUnknown, Counts, KindsDiffer

\* What is assigned to has a pointer that a value of its type can be stored to.
LEMMA AssignOK ==
    ASSUME NEW l, NodeOK(l), Clean(l), l.kind # "rvalue", l.info.arr <= 0,
           l.info.type \notin {kInvalid}, l.info.type \in ValueTypes => IsAssignable(l)
    PROVE  AssignCode(l, TypeOfInfo(l.info)) # Ill
<1>1. l \in Nodes /\ PointerOK(l)  BY DEF NodeOK
<1>2. l.info \in Infos /\ l.kind \in Kinds /\ l.ptr \in [to : LLVMTypes, element : BOOLEAN]
  BY <1>1 DEF Nodes
<1>3. l.ptr # NoPtr
  BY <1>1, <1>2 DEF PointerOK, IsAssignable, Kinds
<1>4. Scalar("void") # Ill  BY DEF Scalar, Ill, LLVMType
<1>5. TypeOfInfo(l.info) # Ill  BY <1>2, TypeOfInfoIs
<1>6. CASE l.ptr.element
  <2>1. /\ l.info.type \in ValueTypes /\ TypeElementCnt(l.info.type) = 1
        /\ IsVector(l.ptr.to) /\ l.ptr.to.elem = ElementType(l.info.type)
    BY <1>1, <1>6 DEF PointerOK
  <2>2. TypeOfInfo(l.info) = Scalar(l.ptr.to.elem)
    <3>1. TypeOfInfo(l.info) = ConvertToLLVMType(l.info.type)
      BY <1>2, <2>1, TypeOfInfoIs, KindsDiffer
    <3>q. QED  BY <2>1, <3>1, LLVMForms DEF Scalar
  <2>3. InsertElement(l.ptr.to, TypeOfInfo(l.info)) = l.ptr.to
    BY <2>1, <2>2 DEF InsertElement
  <2>4. l.ptr.to # Ill  BY <2>1 DEF IsVector, Ill, Scalar, LLVMType
  <2>5. AssignCode(l, TypeOfInfo(l.info)) = Store(l.ptr.to, l.ptr.to)
    BY <1>6, <2>3 DEF AssignCode
  <2>q. QED  BY <1>4, <2>4, <2>5 DEF Store, Effect
<1>7. CASE ~l.ptr.element
  <2>1. l.ptr.to = TypeOfInfo(l.info)  BY <1>1, <1>3, <1>7 DEF PointerOK
  <2>2. AssignCode(l, TypeOfInfo(l.info)) = Store(TypeOfInfo(l.info), l.ptr.to)
    BY <1>7 DEF AssignCode
  <2>q. QED  BY <1>4, <1>5, <2>1, <2>2 DEF Store, Effect
<1>q. QED  BY <1>6, <1>7

\* The instruction that CreateBinaryExpression chooses fits its operands.
LEMMA OperatorFits ==
    ASSUME NEW op \in Operators, op # "=", NEW l, NEW r, NodeOK(l), NodeOK(r),
           Clean(l), Clean(r), CachedOK(l), l.info.arr <= 0, r.info.arr <= 0,
           ValuesAccept(op, l, r), OperandFaults(l, r) = {}
    PROVE  CreateBinaryExpression(op, l.val, r.val, CachedInfo(l).type, CachedInfo(r).type)
              = ConvertToLLVMType(BinaryInfo(op, l).type)
<1> DEFINE t == l.info.type
           operands == IF IsFloatType(t) THEN {"float"} ELSE {"int", "bool"}
<1>1. t \in ValueTypes /\ r.info.type \in ValueTypes  BY DEF ValuesAccept, IsValueType
<1>2. CachedInfo(l).type = t  BY <1>1, KindsDiffer DEF CachedOK, CachedInfo
<1>3. CastValueType(r.val, CachedInfo(r).type, t) = ConvertToLLVMType(t)
  BY <1>1, OperandCast
<1>4. l.val = ConvertToLLVMType(t)  BY <1>1, ValueOfType, KindsDiffer
<1>5. l.val.arr = 0 /\ l.val.elem = ElementType(t)  BY <1>4, LLVMForms
<1>6. CASE op = "compare"
  <2>1. t \notin BooleanTypes  BY <1>6 DEF ValuesAccept, IsBooleanType
  <2>2. l.val.elem \in operands
    BY <1>1, <1>5, <2>1, LLVMForms DEF ValueTypes, IsFloatType
  <2>3. CreateBinaryExpression(op, l.val, r.val, CachedInfo(l).type, CachedInfo(r).type)
           = Comparison(l.val, l.val, operands)
    BY <1>2, <1>3, <1>4, <1>6 DEF CreateBinaryExpression
  <2>4. Comparison(l.val, l.val, operands) = LLVMType("bool", l.val.n)
    BY <1>5, <2>2 DEF Comparison
  <2>5. BinaryInfo(op, l).type = MakeType(kBoolean, TypeElementCnt(t))
    BY <1>1, <1>6, KindsDiffer DEF BinaryInfo, Value, Info, Elements
  <2>6. /\ MakeType(kBoolean, TypeElementCnt(t)) \in BooleanTypes
        /\ TypeElementCnt(MakeType(kBoolean, TypeElementCnt(t))) = TypeElementCnt(t)
    BY <1>1, Counts, Scalars, MakeTypeMakes DEF ValueTypes
  <2>7. l.val.n = IF TypeElementCnt(t) > 1 THEN TypeElementCnt(t) ELSE 0
    BY <1>4, LLVMForms DEF LLVMType
  <2>q. QED  BY <2>3, <2>4, <2>5, <2>6, <2>7, LLVMForms
<1>7. CASE op \in {"arithmetic", "bitwise", "logic"}
  <2>1. /\ op = "arithmetic" => t \notin BooleanTypes
        /\ op = "bitwise" => t \in IntegerTypes
        /\ op = "logic" => t \in BooleanTypes
    BY DEF ValuesAccept, IsBooleanType, IsIntegerType
  <2>2. l.val.elem \in operands
    <3>1. CASE t \in FloatTypes  BY <1>5, <3>1, LLVMForms DEF IsFloatType
    <3>2. CASE t \notin FloatTypes  BY <1>1, <1>5, <3>2, LLVMForms DEF ValueTypes, IsFloatType
    <3>q. QED  BY <3>1, <3>2
  <2>3. CreateBinaryExpression(op, l.val, r.val, CachedInfo(l).type, CachedInfo(r).type)
           = Arithmetic(l.val, l.val, operands)
    BY <1>2, <1>3, <1>4, <1>7 DEF CreateBinaryExpression
  <2>4. Arithmetic(l.val, l.val, operands) = l.val
    BY <1>5, <2>2 DEF Arithmetic
  <2>5. CASE op = "logic"
    <3>1. BinaryInfo(op, l).type = MakeType(kBoolean, TypeElementCnt(t))
      BY <1>1, <2>5, KindsDiffer DEF BinaryInfo, Value, Info, Elements
    <3>2. /\ MakeType(kBoolean, TypeElementCnt(t)) \in BooleanTypes
          /\ TypeElementCnt(MakeType(kBoolean, TypeElementCnt(t))) = TypeElementCnt(t)
      BY <1>1, Counts, Scalars, MakeTypeMakes DEF ValueTypes
    <3>q. QED  BY <1>4, <2>1, <2>3, <2>4, <2>5, <3>1, <3>2, LLVMForms
  <2>6. CASE op # "logic"
    <3>1. BinaryInfo(op, l).type = t
      BY <1>1, <1>7, <2>6, KindsDiffer DEF BinaryInfo, Info
    <3>q. QED  BY <1>4, <2>3, <2>4, <3>1
  <2>q. QED  BY <2>5, <2>6
<1>q. QED  BY <1>6, <1>7 DEF Operators

LEMMA BinaryInfoOK ==
    ASSUME NEW op \in Operators, NEW l, NEW r, NodeOK(l), NodeOK(r), BinaryAccepts(op, l, r)
    PROVE  /\ BinaryInfo(op, l) \in Infos
           /\ l.info.type # kInvalid
           /\ l.info.arr <= 0 /\ r.info.arr <= 0
           /\ l.info.type \in {kStructure, kExternType} =>
                 /\ op = "=" /\ r.info.type = l.info.type
                 /\ l.info.type = kStructure => r.info.str = l.info.str
           /\ l.info.type \notin {kStructure, kExternType} => ValuesAccept(op, l, r)
           /\ l.info.type # kExternType => BinaryInfo(op, l).type # kInvalid
<1>1. l.info \in Infos /\ r.info \in Infos  BY DEF NodeOK, Nodes
<1>2. l.info.arr <= 0 /\ r.info.arr <= 0
  BY <1>1 DEF BinaryAccepts, IsArray, Infos
<1>3. CASE kStructure \in {l.info.type, r.info.type}
  <2>1. op = "=" /\ l.info.str = r.info.str  BY <1>3 DEF BinaryAccepts
  <2>2. l.info.type = kStructure /\ r.info.type = kStructure
    BY <1>1, <1>3, <2>1 DEF Infos
  <2>3. BinaryInfo(op, l) = Info(kStructure, l.info.str, 0, FALSE)
    BY <2>1, <2>2, KindsDiffer DEF BinaryInfo
  <2>4. BinaryInfo(op, l) \in Infos  BY <1>1, <2>2, <2>3 DEF Infos, Info, VarTypes
  <2>q. QED  BY <1>2, <2>1, <2>2, <2>3, <2>4, KindsDiffer DEF Info
<1>4. CASE kStructure \notin {l.info.type, r.info.type} /\ kExternType \in {l.info.type, r.info.type}
  <2>1. op = "=" /\ l.info.type = r.info.type  BY <1>4 DEF BinaryAccepts
  <2>2. l.info.type = kExternType  BY <1>4, <2>1
  <2>3. BinaryInfo(op, l) = DefaultInfo  BY <2>1, <2>2 DEF BinaryInfo
  <2>q. QED  BY <1>2, <2>1, <2>2, <2>3, ValueInfos, KindsDiffer
<1>5. CASE kStructure \notin {l.info.type, r.info.type} /\ kExternType \notin {l.info.type, r.info.type}
  <2>1. ValuesAccept(op, l, r)  BY <1>5 DEF BinaryAccepts
  <2>2. l.info.type \in ValueTypes  BY <2>1 DEF ValuesAccept, IsValueType
  <2>3. CASE op \in {"compare", "logic"}
    <3>1. BinaryInfo(op, l) = Value(MakeType(kBoolean, TypeElementCnt(l.info.type)))
      BY <2>2, <2>3, KindsDiffer DEF BinaryInfo, Elements
    <3>2. MakeType(kBoolean, TypeElementCnt(l.info.type)) \in ValueTypes
      BY <2>2, Counts, Scalars, MakeTypeMakes DEF ValueTypes
    <3>q. QED  BY <1>2, <2>1, <2>2, <3>1, <3>2, ValueInfos, KindsDiffer DEF Value, Info
  <2>4. CASE op \notin {"compare", "logic"}
    <3>1. BinaryInfo(op, l) = Info(l.info.type, l.info.str, 0, FALSE)
      BY <2>2, <2>4, KindsDiffer DEF BinaryInfo
    <3>2. BinaryInfo(op, l) \in Infos  BY <1>1, <3>1 DEF Infos, Info
    <3>q. QED  BY <1>2, <2>1, <2>2, <3>1, <3>2, KindsDiffer DEF Info
  <2>q. QED  BY <2>3, <2>4
<1>q. QED  BY <1>3, <1>4, <1>5

\* The type that a value of BinaryInfo has: it is no array.
LEMMA BinaryValueOK ==
    ASSUME NEW op \in Operators, NEW l, NEW r, NodeOK(l), NodeOK(r), Clean(l), Clean(r),
           CachedOK(l), BinaryAccepts(op, l, r), OperandFaults(l, r) = {},
           op = "=" => l.kind # "rvalue"
    PROVE  LET lt  == CachedInfo(l).type
               rt  == CachedInfo(r).type
               val == IF op # "=" THEN CreateBinaryExpression(op, l.val, r.val, lt, rt)
                      ELSE IF AssignCode(l, CastValueType(r.val, rt, lt)) = Ill THEN Ill
                      ELSE l.val
           IN /\ val # Ill
              /\ BinaryInfo(op, l).type # kInvalid => val = TypeOfInfo(BinaryInfo(op, l))
<1> DEFINE lt == CachedInfo(l).type
           rt == CachedInfo(r).type
           t  == l.info.type
           bi == BinaryInfo(op, l)
<1>1. /\ bi \in Infos /\ l.info.arr <= 0 /\ r.info.arr <= 0 /\ t # kInvalid
      /\ l.info \in Infos /\ r.info \in Infos
  BY BinaryInfoOK DEF NodeOK, Nodes
<1>2. lt = t  BY <1>1 DEF CachedOK, CachedInfo
<1>3. bi.arr = 0
  BY DEF BinaryInfo, DefaultInfo, Value, Info
<1>4. TypeOfInfo(bi) # Ill  BY <1>1, TypeOfInfoIs
<1>5. CASE op # "="
  <2>1. t \notin {kStructure, kExternType} /\ ValuesAccept(op, l, r)
    BY <1>5, BinaryInfoOK
  <2>2. CreateBinaryExpression(op, l.val, r.val, lt, rt) = ConvertToLLVMType(bi.type)
    BY <1>1, <1>5, <2>1, OperatorFits
  <2>3. bi.type # kStructure
    <3>1. CASE op \in {"compare", "logic"}
      <4>1. t \in ValueTypes  BY <2>1 DEF ValuesAccept, IsValueType
      <4>2. MakeType(kBoolean, TypeElementCnt(t)) \in ValueTypes
        BY <4>1, Counts, Scalars, MakeTypeMakes DEF ValueTypes
      <4>q. QED  BY <2>1, <3>1, <4>2, KindsDiffer DEF BinaryInfo, Value, Info, Elements
    <3>2. CASE op \notin {"compare", "logic"}
      BY <2>1, <3>2 DEF BinaryInfo, Info
    <3>q. QED  BY <3>1, <3>2
  <2>4. TypeOfInfo(bi) = ConvertToLLVMType(bi.type)  BY <1>1, <1>3, <2>3, TypeOfInfoIs
  <2>q. QED  BY <1>4, <1>5, <2>2, <2>4
<1>6. CASE op = "="
  <2>1. CastValueType(r.val, rt, t) = TypeOfInfo(l.info)
    <3>1. CASE t \in {kStructure, kExternType}
      <4>1. CastValueType(r.val, rt, t) = r.val  BY <3>1, BinaryInfoOK, OperandKept
      <4>2. r.val = l.val /\ l.val = TypeOfInfo(l.info)
        BY <1>1, <3>1, BinaryInfoOK, ValueOfType, TypeOfInfoIs, KindsDiffer
      <4>q. QED  BY <4>1, <4>2
    <3>2. CASE t \notin {kStructure, kExternType}
      <4>1. ValuesAccept(op, l, r)  BY <3>2, BinaryInfoOK
      <4>2. t \in ValueTypes /\ r.info.type \in ValueTypes  BY <4>1 DEF ValuesAccept, IsValueType
      <4>3. CastValueType(r.val, rt, t) = ConvertToLLVMType(t)  BY <1>1, <4>2, OperandCast
      <4>q. QED  BY <1>1, <4>2, <4>3, TypeOfInfoIs, KindsDiffer
    <3>q. QED  BY <3>1, <3>2
  <2>2. t \in ValueTypes => IsAssignable(l)
    <3>1. t \in ValueTypes => ValuesAccept(op, l, r)  BY BinaryInfoOK, KindsDiffer
    <3>q. QED  BY <1>6, <3>1 DEF ValuesAccept
  <2>3. AssignCode(l, TypeOfInfo(l.info)) # Ill
    BY <1>1, <1>6, <2>2, AssignOK
  <2>4. l.val # Ill /\ l.val = TypeOfInfo(l.info)  BY <1>1 DEF NodeOK, ValueOK
  <2>5. bi.type # kInvalid => TypeOfInfo(bi) = TypeOfInfo(l.info)
    <3>1. CASE t = kExternType
      BY <1>6, <3>1 DEF BinaryInfo, DefaultInfo, Value, Info
    <3>2. CASE t # kExternType
      <4>1. bi = Info(t, l.info.str, 0, FALSE)  BY <1>6, <3>2 DEF BinaryInfo
      <4>2. bi.type = t /\ bi.str = l.info.str  BY <4>1 DEF Info
      <4>q. QED  BY <1>1, <1>3, <4>2, TypeOfInfoIs
    <3>q. QED  BY <3>1, <3>2
  <2>q. QED  BY <1>2, <1>6, <2>1, <2>3, <2>4, <2>5
<1>q. QED  BY <1>5, <1>6

LEMMA BinaryOK ==
    ASSUME NEW op \in Operators, NEW l, NEW r, NodeOK(l), NodeOK(r), CachedOK(l),
           BinaryAccepts(op, l, r)
    PROVE  NodeOK(Binary(op, l, r)) /\ CachedOK(Binary(op, l, r))
<1> DEFINE lt == CachedInfo(l).type
           rt == CachedInfo(r).type
           val == IF op # "=" THEN CreateBinaryExpression(op, l.val, r.val, lt, rt)
                  ELSE IF AssignCode(l, CastValueType(r.val, rt, lt)) = Ill THEN Ill
                  ELSE l.val
           faults == OperandFaults(l, r)
                       \cup Fault("rvalue", op = "=" /\ l.kind = "rvalue")
                       \cup Fault("twice", op = "=" /\ l.effects)
           base == RValue(BinaryInfo(op, l), val, <<l, r>>, faults)
           node == Binary(op, l, r)
<1>1. l \in Nodes /\ r \in Nodes /\ l.val \in LLVMTypes /\ r.val \in LLVMTypes
  BY DEF NodeOK, Nodes
<1>2. BinaryInfo(op, l) \in Infos /\ l.info.type # kInvalid  BY BinaryInfoOK
<1>3. val \in LLVMTypes
  BY <1>1, LLVMTypesMade DEF CreateBinaryExpression, Comparison, Arithmetic, LLVMTypes
<1>4. faults \in SUBSET Faults
  BY DEF OperandFaults, CastFaults, Fault, Faults
<1>5. ASSUME faults = {}, Clean(l), Clean(r)
      PROVE  /\ val # Ill
             /\ BinaryInfo(op, l).type # kInvalid => val = TypeOfInfo(BinaryInfo(op, l))
  <2>1. OperandFaults(l, r) = {} /\ (op = "=" => l.kind # "rvalue")
    BY <1>5 DEF Fault
  <2>q. QED  BY <1>5, <2>1, BinaryValueOK
<1>6. node = [base EXCEPT !.cached  = l.info.type # kExternType,
                          !.effects = @ \/ op = "=",
                          !.once    = @ /\ ~(op = "=" /\ l.visits)]
  BY DEF Binary
<1>7. /\ NodeOK(base)
      /\ base.faults = {} => faults = {} /\ Clean(l) /\ Clean(r)
  <2> HIDE DEF val, faults
  <2>1. /\ NodeOK(base)
        /\ base.faults = {} => faults = {} /\ \A k \in DOMAIN <<l, r>> : Clean(<<l, r>>[k])
    BY <1>2, <1>3, <1>4, <1>5, RValueOK
  <2>q. QED  BY <2>1
<1>8. /\ base.kind = "rvalue" /\ base.ptr = NoPtr /\ ~base.ref /\ ~base.visits
      /\ base.info = BinaryInfo(op, l)
  BY DEF RValue
<1>9. base.faults = {} => ~(op = "=" /\ l.visits)
  BY <1>7 DEF NodeOK, Fault
<1>10. base \in Nodes /\ (base.faults = {} => ValueOK(base))  BY <1>7 DEF NodeOK, Clean
<1> HIDE DEF base, node, faults, val
<1>11. /\ node \in Nodes /\ node.kind = "rvalue" /\ node.ptr = NoPtr /\ ~node.ref /\ ~node.visits
       /\ node.info = base.info /\ node.val = base.val /\ node.faults = base.faults
       /\ (base.faults = {} => node.once = base.once)
       /\ node.cached = (l.info.type # kExternType)
  BY <1>6, <1>8, <1>9, <1>10 DEF Nodes
<1>12. node.faults = {} => ValueOK(node) /\ PointerOK(node)
  BY <1>10, <1>11 DEF ValueOK, PointerOK, NoPtr
<1>13. CachedOK(node)
  <2>1. l.info.type # kExternType \/ BinaryInfo(op, l).type = kInvalid
    BY <1>2, BinaryInfoOK DEF BinaryInfo, DefaultInfo, Value, Info
  <2>q. QED  BY <1>8, <1>11, <2>1 DEF CachedOK
<1>q. QED  BY <1>11, <1>12, <1>13 DEF NodeOK, Clean, node

-----------------------------------------------------------------------------
\* Members, swizzles and elements of arrays.

\* What a dot announces: a declared member, or as many elements as the swizzle
\* names, which can be assigned to if it is one.
LEMMA DotInfoOK ==
    ASSUME NEW n, NodeOK(n), NEW name \in Names, DotAccepts(n, name)
    PROVE  /\ DotInfo(n, name) \in Infos
           /\ n.info.type = kStructure =>
                 /\ IsMember(n.info, name)
                 /\ TypeOfInfo(DotInfo(n, name)) = TypeOfInfo(Members[n.info.str][name])
                 /\ DotInfo(n, name).type # kInvalid
           /\ n.info.type # kStructure =>
                 /\ n.info.type \in ValueTypes /\ SwizzleCnt(name) \in 1..4
                 /\ DotInfo(n, name).type = MakeType(n.info.type, SwizzleCnt(name))
                 /\ DotInfo(n, name).type \in ValueTypes /\ DotInfo(n, name).arr = 0
                 /\ TypeElementCnt(DotInfo(n, name).type) = SwizzleCnt(name)
                 /\ ElementType(DotInfo(n, name).type) = ElementType(n.info.type)
                 /\ TypeOfInfo(DotInfo(n, name)) = ConvertToLLVMType(DotInfo(n, name).type)
                 /\ SwizzleCnt(name) > 1 => ~DotInfo(n, name).asg
<1> DEFINE di == DotInfo(n, name)
           cnt == SwizzleCnt(name)
<1>1. n.info \in Infos  BY DEF NodeOK, Nodes
<1>2. CASE n.info.type = kStructure
  <2>1. IsMember(n.info, name) /\ n.info.str \in Structs
    BY <1>1, <1>2 DEF DotAccepts, Infos
  <2>2. Members[n.info.str][name] \in DeclaredTypes
    BY <2>1, StructsAssumption DEF IsMember
  <2>3. di = [Members[n.info.str][name] EXCEPT !.asg = n.info.asg]  BY <1>2 DEF DotInfo
  <2>4. di \in Infos /\ di.type # kInvalid /\ TypeOfInfo(di) = TypeOfInfo(Members[n.info.str][name])
    BY <1>1, <2>2, <2>3 DEF DeclaredTypes, Infos, TypeOfInfo
  <2>q. QED  BY <1>2, <2>1, <2>4
<1>3. CASE n.info.type # kStructure
  <2>1. cnt > 0 /\ \A i \in 1..cnt : ConvertSwizzle(name)[i] < TypeElementCnt(n.info.type)
    BY <1>3 DEF DotAccepts, Elements
  <2>2. cnt = Len(name) /\ IsSwizzle(name) /\ cnt \in 1..4
    <3>1. Len(name) \in Nat  BY NamesAssumption
    <3>2. IsSwizzle(name)  BY <2>1 DEF SwizzleCnt
    <3>3. cnt = Len(name) /\ Len(name) <= 4  BY <3>2 DEF SwizzleCnt, IsSwizzle
    <3>q. QED  BY <2>1, <3>1, <3>2, <3>3
  <2>3. n.info.type \in ValueTypes
    <3>1. ConvertSwizzle(name)[1] = SwizzleIndex[name[1]] /\ name[1] \in DOMAIN SwizzleIndex
      BY <2>2 DEF ConvertSwizzle, IsSwizzle
    <3>2. \A c \in DOMAIN SwizzleIndex : SwizzleIndex[c] \in 0..3  BY DEF SwizzleIndex
    <3>3. TypeElementCnt(n.info.type) # 0  BY <2>1, <2>2, <3>1, <3>2, Counts
    <3>q. QED  BY <3>3, Counts
  <2>4. di = Info(MakeType(n.info.type, cnt), NoStruct, 0, n.info.asg /\ cnt = 1)
    BY <1>3 DEF DotInfo
  <2>5. /\ MakeType(n.info.type, cnt) \in ValueTypes
        /\ TypeElementCnt(MakeType(n.info.type, cnt)) = cnt
        /\ ElementType(MakeType(n.info.type, cnt)) = ElementType(n.info.type)
    <3>1. cnt \in {1, 2, 3, 4, 8}  BY <2>2
    <3>q. QED  BY <2>3, <3>1, MakeTypeMakes, LLVMForms DEF ValueTypes
  <2>6. di.type \in VarTypes \ {kStructure}  BY <2>4, <2>5, ValueInfos DEF Info
  <2>7. di \in Infos
    <3>1. n.info.asg \in BOOLEAN  BY <1>1 DEF Infos
    <3>2. (n.info.asg /\ cnt = 1) \in BOOLEAN  OBVIOUS
    <3>q. QED  BY <2>4, <2>6, <3>2, StructsAssumption DEF Info, Infos
  <2>8. TypeOfInfo(di) = ConvertToLLVMType(di.type)
    BY <2>4, <2>6, <2>7, TypeOfInfoIs DEF Info
  <2>9. di.type = MakeType(n.info.type, cnt) /\ di.arr = 0 /\ (cnt > 1 => ~di.asg)
    <3>1. di.type = MakeType(n.info.type, cnt) /\ di.arr = 0 /\ di.asg = (n.info.asg /\ cnt = 1)
      BY <2>4 DEF Info
    <3>2. cnt > 1 => cnt # 1  BY <2>2
    <3>q. QED  BY <3>1, <3>2, Zenon
  <2> HIDE DEF di, cnt
  <2>q. QED  BY <1>3, <2>2, <2>3, <2>5, <2>7, <2>8, <2>9 DEF di, cnt
<1>q. QED  BY <1>2, <1>3

LEMMA DotOK ==
    ASSUME NEW n, NodeOK(n), CachedOK(n), NEW name \in Names, DotAccepts(n, name)
    PROVE  NodeOK(Dot(n, name)) /\ CachedOK(Dot(n, name))
<1> DEFINE di  == DotInfo(n, name)
           cnt == SwizzleCnt(name)
           ptr == DotPtr(n, name)
           val == CASE ptr = NoPtr -> IF IsMember(n.info, name) /\ n.ptr # NoPtr THEN Ill
                                       ELSE ShuffleVector(n.val, ConvertSwizzle(name))
                    [] ptr.element -> ExtractElement(ptr.to)
                    [] OTHER       -> ptr.to
           faults == Fault("member", n.info.type = kStructure /\ ptr = NoPtr)
                       \cup Fault("scalar", Elements(n) = 1)
                       \cup Fault("element", Elements(n) > 1 /\ SwizzleCnt(name) = 1 /\ ptr = NoPtr)
                       \cup Fault("twice", n.visits /\ ptr = NoPtr)
           base == RValue(di, val, <<n>>, faults)
           node == Dot(n, name)
<1>1. /\ n.info \in Infos /\ n.val \in LLVMTypes /\ n.ptr \in [to : LLVMTypes, element : BOOLEAN]
      /\ n \in Nodes
  BY DEF NodeOK, Nodes
<1>2. di \in Infos  BY DotInfoOK
\* A clean operand with a pointer that is followed.
<1>3. n.info.type # kStructure => ~IsMember(n.info, name)  BY DEF IsMember
<1>4. ptr # NoPtr => n.ptr # NoPtr /\ ~n.ptr.element  BY DEF DotPtr
<1>5. ptr \in [to : LLVMTypes, element : BOOLEAN]
  <2>1. NoPtr \in [to : LLVMTypes, element : BOOLEAN]  BY LLVMTypesMade DEF NoPtr
  <2>2. [n.ptr EXCEPT !.element = TRUE] \in [to : LLVMTypes, element : BOOLEAN]  BY <1>1
  <2>3. IsMember(n.info, name) =>
           PtrTo(TypeOfInfo(Members[n.info.str][name])) \in [to : LLVMTypes, element : BOOLEAN]
    <3> SUFFICES ASSUME IsMember(n.info, name)
        PROVE  PtrTo(TypeOfInfo(Members[n.info.str][name])) \in [to : LLVMTypes, element : BOOLEAN]
      OBVIOUS
    <3>1. Members[n.info.str][name] \in Infos
      BY <1>1, StructsAssumption DEF IsMember, Infos, DeclaredTypes
    <3>q. QED  BY <3>1, TypeOfInfoIs DEF PtrTo
  <2>q. QED  BY <2>1, <2>2, <2>3 DEF DotPtr
<1>6. val \in LLVMTypes
  <2>1. ShuffleVector(n.val, ConvertSwizzle(name)) \in LLVMTypes
    <3>1. Len(name) \in Nat  BY NamesAssumption
    <3>2. Len(ConvertSwizzle(name)) \in Nat  BY <3>1 DEF ConvertSwizzle
    <3>q. QED  BY <1>1, <3>2, LLVMTypesMade DEF ShuffleVector, LLVMTypes
  <2>2. ExtractElement(ptr.to) \in LLVMTypes
    BY <1>5, LLVMTypesMade DEF ExtractElement, LLVMTypes, Scalar
  <2>q. QED  BY <1>5, <2>1, <2>2, LLVMTypesMade
<1>7. faults \in SUBSET Faults  BY DEF Fault, Faults
\* Without a fault, what a dot yields is one of three: a member, a shuffled
\* vector, or an element of a vector in memory.
<1>8. ASSUME faults = {}, Clean(n)
      PROVE  /\ val # Ill /\ val = TypeOfInfo(di)
             /\ ptr # NoPtr /\ ~ptr.element => ptr.to = TypeOfInfo(di)
             /\ ptr.element => /\ di.arr = 0 /\ di.type \in ValueTypes
                              /\ TypeElementCnt(di.type) = 1
                              /\ IsVector(ptr.to) /\ ptr.to.elem = ElementType(di.type)
             /\ ptr = NoPtr => di.arr = 0 /\ ~di.asg /\ di.type \in ValueTypes
             /\ n.info.type = kStructure => ptr # NoPtr /\ ~ptr.element
             /\ ~(n.visits /\ ptr = NoPtr)
  <2>1. /\ n.info.type = kStructure => ptr # NoPtr
        /\ TypeElementCnt(n.info.type) # 1
        /\ ~(TypeElementCnt(n.info.type) > 1 /\ cnt = 1 /\ ptr = NoPtr)
        /\ ~(n.visits /\ ptr = NoPtr)
    BY <1>8 DEF Fault, Elements
  <2>2. TypeOfInfo(di) # Ill  BY <1>2, TypeOfInfoIs
  <2>3. CASE n.info.type = kStructure
    <3>1. IsMember(n.info, name) /\ TypeOfInfo(di) = TypeOfInfo(Members[n.info.str][name])
      BY <2>3, DotInfoOK
    <3>2. ptr = PtrTo(TypeOfInfo(di))
      BY <1>4, <2>1, <2>3, <3>1 DEF DotPtr, NoPtr
    <3>3. ~ptr.element /\ ptr.to = TypeOfInfo(di)  BY <3>2 DEF PtrTo
    <3>q. QED  BY <2>1, <2>2, <2>3, <3>3
  <2>4. CASE n.info.type # kStructure
    <3> DEFINE t == n.info.type
    <3>1. /\ t \in ValueTypes /\ cnt \in 1..4 /\ di.type \in ValueTypes /\ di.arr = 0
          /\ TypeElementCnt(di.type) = cnt /\ ElementType(di.type) = ElementType(t)
          /\ TypeOfInfo(di) = ConvertToLLVMType(di.type)
          /\ cnt > 1 => ~di.asg
      BY <2>4, DotInfoOK
    <3>2. TypeElementCnt(t) > 1 /\ TypeElementCnt(t) \in Nat  BY <2>1, <3>1, Counts
    <3>3. TypeOfInfo(di) = LLVMType(ElementType(t), IF cnt > 1 THEN cnt ELSE 0)
      BY <3>1, LLVMForms
    <3>4. n.info.arr <= 0 /\ n.info.arr \in Int
      BY <1>1, <3>1, KindsDiffer DEF DotAccepts, CachedInfo, CachedOK, Infos
    <3>5. ConvertToLLVMType(t) = LLVMType(ElementType(t), TypeElementCnt(t))
      BY <3>2, LLVMForms
    <3>6. CASE ptr = NoPtr
      <4>1. cnt > 1  BY <2>1, <3>1, <3>2, <3>6
      <4>2. n.val = LLVMType(ElementType(t), TypeElementCnt(t))
        <5>1. t \notin {kInvalid, kStructure}  BY <3>1, KindsDiffer
        <5>2. n.val = ConvertToLLVMType(t)
          <6> HIDE DEF val, faults, ptr, cnt, di
          <6>q. QED  BY <1>8, <3>4, <5>1, ValueOfType
        <5>q. QED  BY <3>5, <5>2
      <4>3. val = ShuffleVector(n.val, ConvertSwizzle(name))  BY <1>3, <2>4, <3>6 DEF NoPtr
      <4>4. /\ Len(ConvertSwizzle(name)) = cnt /\ ConvertSwizzle(name) # <<>>
            /\ \A i \in 1..cnt : ConvertSwizzle(name)[i] < 2 * TypeElementCnt(t)
        <5>1. \A i \in 1..cnt : ConvertSwizzle(name)[i] < TypeElementCnt(t)
          BY <2>4 DEF DotAccepts, Elements
        <5>2. \A i \in 1..cnt : ConvertSwizzle(name)[i] \in 0..3
          <6>1. IsSwizzle(name) /\ cnt = Len(name)  BY <3>1 DEF SwizzleCnt
          <6>2. \A c \in DOMAIN SwizzleIndex : SwizzleIndex[c] \in 0..3  BY DEF SwizzleIndex
          <6>q. QED  BY <6>1, <6>2 DEF ConvertSwizzle, IsSwizzle
        <5>3. Len(ConvertSwizzle(name)) = cnt /\ ConvertSwizzle(name) # <<>>
          <6>1. IsSwizzle(name) /\ cnt = Len(name)  BY <3>1 DEF SwizzleCnt
          <6>q. QED  BY <3>1, <4>1, <6>1 DEF ConvertSwizzle
        <5>q. QED  BY <3>2, <5>1, <5>2, <5>3
      <4>5. val = LLVMType(ElementType(t), cnt)
        BY <3>2, <4>2, <4>3, <4>4 DEF ShuffleVector, IsVector, LLVMType
      <4>6. ~ptr.element  BY <3>6 DEF NoPtr
      <4>q. QED  BY <2>1, <2>2, <2>4, <3>1, <3>3, <3>6, <4>1, <4>5, <4>6
    <3>7. CASE ptr # NoPtr
      <4>1. cnt = 1 /\ ptr = [n.ptr EXCEPT !.element = TRUE]
        BY <1>3, <1>4, <2>4, <3>7 DEF DotPtr
      <4>2. n.ptr.to = TypeOfInfo(n.info)
        BY <1>4, <1>8, <3>7 DEF NodeOK, PointerOK
      <4>3. ptr.element /\ ptr.to = LLVMType(ElementType(t), TypeElementCnt(t))
        BY <1>1, <2>4, <3>4, <3>5, <4>1, <4>2, TypeOfInfoIs
      <4>4. val = ExtractElement(ptr.to)  BY <3>7, <4>3
      <4>5. IsVector(ptr.to) /\ ptr.to.elem = ElementType(t)
        BY <3>2, <4>3 DEF IsVector, LLVMType
      <4>6. val = Scalar(ElementType(t))  BY <4>4, <4>5 DEF ExtractElement
      <4>7. val = TypeOfInfo(di)  BY <3>3, <4>1, <4>6 DEF Scalar
      <4>q. QED  BY <2>1, <2>2, <2>4, <3>1, <3>7, <4>1, <4>3, <4>5, <4>7
    <3>q. QED  BY <3>6, <3>7
  <2>q. QED  BY <2>3, <2>4
<1>9. node = [base EXCEPT !.kind = "dot", !.ptr = ptr, !.visits = n.visits,
                          !.ref  = CachedInfo(n).type = kStructure /\ base.info.asg,
                          !.once = @ /\ ~(n.visits /\ ptr = NoPtr)]
  BY DEF Dot
<1>10. /\ NodeOK(base) /\ base.info = di /\ base.val = val /\ base.cached
       /\ n.effects => base.effects
       /\ base.faults = {} => faults = {} /\ Clean(n)
  <2> HIDE DEF val, faults, di
  <2>1. /\ NodeOK(base)
        /\ base.faults = {} => faults = {} /\ \A k \in DOMAIN <<n>> : Clean(<<n>>[k])
    BY <1>2, <1>6, <1>7, <1>8, RValueOK
  <2>2. base.effects = \E k \in DOMAIN <<n>> : <<n>>[k].effects  BY DEF RValue
  <2>3. ASSUME n.effects PROVE base.effects
    <3>1. 1 \in DOMAIN <<n>> /\ <<n>>[1] = n  OBVIOUS
    <3>2. \E k \in DOMAIN <<n>> : <<n>>[k].effects  BY <2>3, <3>1, Zenon
    <3>q. QED  BY <2>2, <3>2, Zenon
  <2>q. QED  BY <2>1, <2>3 DEF RValue
<1>11. base \in Nodes /\ (base.faults = {} => ValueOK(base))  BY <1>10 DEF NodeOK, Clean
<1>12. CachedInfo(n).type = kStructure => n.info.type = kStructure
  BY KindsDiffer DEF CachedInfo, DefaultInfo, Value, Info
<1>13. (n.visits => n.effects) /\ n.visits \in BOOLEAN  BY <1>1 DEF NodeOK, Nodes
<1> HIDE DEF base, node, faults, val, ptr, di
<1>14. /\ node \in Nodes /\ node.kind = "dot" /\ node.ptr = ptr /\ node.visits = n.visits
       /\ node.info = di /\ node.val = val /\ node.faults = base.faults /\ node.cached
       /\ node.effects = base.effects
       /\ node.ref = (CachedInfo(n).type = kStructure /\ di.asg)
       /\ node.once = (base.once /\ ~(n.visits /\ ptr = NoPtr))
  BY <1>5, <1>9, <1>10, <1>11, <1>13 DEF Nodes, Kinds
<1>15. node.faults = {} => ValueOK(node)
  BY <1>8, <1>10, <1>11, <1>14 DEF ValueOK
<1>16. node.faults = {} => PointerOK(node)
  BY <1>8, <1>10, <1>12, <1>14 DEF PointerOK
<1>q. QED  BY <1>10, <1>13, <1>14, <1>15, <1>16 DEF NodeOK, CachedOK, Clean, node

LEMMA IndexerOK ==
    ASSUME NEW n, NEW idx, NodeOK(n), NodeOK(idx), CachedOK(n), CachedOK(idx),
           IndexerAccepts(n, idx)
    PROVE  NodeOK(Indexer(n, idx)) /\ CachedOK(Indexer(n, idx))
<1> DEFINE info == Info(n.info.type, n.info.str, 0, TRUE)
           ptr == IF n.ptr = NoPtr \/ n.ptr.element \/ idx.val # Scalar("int") THEN NoPtr
                  ELSE PtrTo(IF IsArray(n) THEN ElementOf(n.ptr.to) ELSE n.ptr.to)
           faults == Fault("array", IsArray(idx)) \cup Fault("rvalue", n.kind = "rvalue")
           base == RValue(info, ptr.to, <<n, idx>>, faults)
           node == Indexer(n, idx)
<1>1. /\ n \in Nodes /\ n.info \in Infos /\ n.ptr \in [to : LLVMTypes, element : BOOLEAN]
      /\ n.kind \in Kinds /\ n.effects \in BOOLEAN /\ n.visits \in BOOLEAN
      /\ idx.info \in Infos /\ idx.effects \in BOOLEAN
  BY DEF NodeOK, Nodes
<1>2. info \in Infos  BY <1>1 DEF Infos, Info
<1>3. ptr \in [to : LLVMTypes, element : BOOLEAN] /\ ptr.to \in LLVMTypes /\ ~ptr.element
  <2>1. [n.ptr.to EXCEPT !.arr = 0] \in LLVMTypes  BY <1>1 DEF LLVMTypes
  <2>2. Scalar(n.ptr.to.elem) \in LLVMTypes  BY <1>1 DEF LLVMTypes, Scalar, LLVMType
  <2>3. ElementOf(n.ptr.to) \in LLVMTypes  BY <2>1, <2>2, LLVMTypesMade DEF ElementOf
  <2>q. QED  BY <1>1, <2>3, LLVMTypesMade DEF NoPtr, PtrTo
<1>4. faults \in SUBSET Faults  BY DEF Fault, Faults
<1>5. ASSUME faults = {}, Clean(n), Clean(idx)
      PROVE  ptr # NoPtr /\ ptr.to # Ill /\ ptr.to = TypeOfInfo(info)
  <2>1. ~IsArray(idx) /\ n.kind # "rvalue"  BY <1>5 DEF Fault
  <2>2. idx.val = Scalar("int")
    <3>1. idx.info.type = kInt /\ idx.info.arr <= 0
      BY <1>1, <2>1 DEF IndexerAccepts, IsArray, Infos
    <3>2. kInt # kInvalid /\ kInt # kStructure  BY Scalars, KindsDiffer DEF ValueTypes
    <3>3. idx.val = ConvertToLLVMType(kInt)  BY <1>5, <3>1, <3>2, ValueOfType
    <3>q. QED  BY <3>3, Scalars, LLVMForms DEF Scalar
  <2>3. n.info.arr # 0  BY DEF IndexerAccepts
  <2>4. n.ptr # NoPtr /\ ~n.ptr.element /\ n.ptr.to = TypeOfInfo(n.info)
    BY <1>1, <1>5, <2>1, <2>3 DEF NodeOK, PointerOK, Kinds
  <2>5. ptr = PtrTo([n.ptr.to EXCEPT !.arr = 0])
    <3>1. CASE IsArray(n)
      <4>1. n.ptr.to.arr > 0  BY <1>1, <2>4, <3>1, TypeOfInfoParts DEF IsArray
      <4>q. QED  BY <2>2, <2>4, <3>1, <4>1 DEF ElementOf
    <3>2. CASE ~IsArray(n)
      <4>1. n.ptr.to.arr = 0 /\ n.ptr.to \in LLVMTypes
        BY <1>1, <2>4, <3>2, TypeOfInfoParts, TypeOfInfoIs DEF IsArray, Infos
      <4>2. [n.ptr.to EXCEPT !.arr = 0] = n.ptr.to  BY <4>1 DEF LLVMTypes
      <4>q. QED  BY <2>2, <2>4, <3>2, <4>2
    <3>q. QED  BY <3>1, <3>2
  <2>6. TypeOfInfo(info) = [TypeOfInfo(n.info) EXCEPT !.arr = 0]
    <3>1. info.type = n.info.type /\ info.str = n.info.str /\ info.arr = 0  BY DEF Info
    <3>q. QED  BY <3>1, LLVMTypesMade DEF TypeOfInfo, Scalar, LLVMType
  <2>7. TypeOfInfo(info) # Ill  BY <1>2, TypeOfInfoIs
  <2>q. QED  BY <2>4, <2>5, <2>6, <2>7 DEF PtrTo, NoPtr
<1>6. node = [base EXCEPT !.kind = "indexer", !.ptr = ptr, !.ref = TRUE,
                          !.visits = n.visits \/ idx.effects]
  BY DEF Indexer
<1>7. /\ NodeOK(base) /\ base.info = info /\ base.cached
      /\ n.effects \/ idx.effects => base.effects
      /\ base.faults = {} => faults = {} /\ Clean(n) /\ Clean(idx)
  <2> HIDE DEF ptr, faults, info
  <2>1. /\ NodeOK(base)
        /\ base.faults = {} => faults = {} /\ \A k \in DOMAIN <<n, idx>> : Clean(<<n, idx>>[k])
    BY <1>2, <1>3, <1>4, <1>5, RValueOK
  <2>2. base.effects = \E k \in DOMAIN <<n, idx>> : <<n, idx>>[k].effects  BY DEF RValue
  <2>3. ASSUME n.effects \/ idx.effects PROVE base.effects
    <3>1. /\ 1 \in DOMAIN <<n, idx>> /\ <<n, idx>>[1] = n
          /\ 2 \in DOMAIN <<n, idx>> /\ <<n, idx>>[2] = idx
      OBVIOUS
    <3>2. \E k \in DOMAIN <<n, idx>> : <<n, idx>>[k].effects  BY <2>3, <3>1, Zenon
    <3>q. QED  BY <2>2, <3>2, Zenon
  <2>q. QED  BY <2>1, <2>3 DEF RValue
<1>8. base \in Nodes /\ (base.faults = {} => ValueOK(base))  BY <1>7 DEF NodeOK, Clean
<1> HIDE DEF base, node, faults, ptr, info
<1>9. /\ node \in Nodes /\ node.kind = "indexer" /\ node.ptr = ptr /\ node.ref
      /\ node.visits = (n.visits \/ idx.effects) /\ node.info = info /\ node.val = base.val
      /\ node.faults = base.faults /\ node.cached /\ node.effects = base.effects
      /\ node.once = base.once
  BY <1>1, <1>3, <1>6, <1>7, <1>8 DEF Nodes, Kinds
<1>10. node.faults = {} => ValueOK(node) /\ PointerOK(node)
  BY <1>3, <1>5, <1>7, <1>8, <1>9 DEF ValueOK, PointerOK
<1>11. n.visits => n.effects  BY DEF NodeOK
<1>q. QED  BY <1>7, <1>9, <1>10, <1>11 DEF NodeOK, CachedOK, Clean, node

-----------------------------------------------------------------------------
\* Calls, initialisers and statements.

\* A value that may be passed, returned or stored as another type is converted
\* to it.
LEMMA ConvertOK ==
    ASSUME NEW to \in Infos, to.arr <= 0, to.type # kInvalid,
           NEW n, NodeOK(n), Clean(n), n.info.arr <= 0,
           IF to.type = kStructure THEN to.str = n.info.str
                                   ELSE CompatibleTypes(to.type, n.info.type),
           CastFaults(n.info.type, to.type) = {}
    PROVE  /\ CastValueType(n.val, n.info.type, to.type) = TypeOfInfo(to)
           /\ n.info.type # kInvalid
<1>1. n.info \in Infos  BY DEF NodeOK, Nodes
<1>2. CASE to.type = kStructure
  <2>1. n.info.type = kStructure /\ n.info.str = to.str  BY <1>1, <1>2 DEF Infos
  <2>2. n.val = TypeOfInfo(to)  BY <1>2, <2>1, ValueOfType, TypeOfInfoIs
  <2>3. TypeElementCnt(kStructure) = 0  BY Counts, KindsDiffer
  <2>4. CastValueType(n.val, n.info.type, to.type) = n.val  BY <1>2, <2>1, <2>3, CastUnknown
  <2>q. QED  BY <2>1, <2>2, <2>4, KindsDiffer
<1>3. CASE to.type = kExternType /\ n.info.type = kExternType
  <2>1. n.val = TypeOfInfo(to)  BY <1>3, ValueOfType, TypeOfInfoIs, KindsDiffer
  <2>2. TypeElementCnt(kExternType) = 0  BY Counts, KindsDiffer
  <2>3. CastValueType(n.val, n.info.type, to.type) = n.val  BY <1>3, <2>2, CastUnknown
  <2>q. QED  BY <1>3, <2>1, <2>3, KindsDiffer
<1>4. CASE to.type \in ValueTypes /\ TypeElementCnt(to.type) <= TypeElementCnt(n.info.type)
  <2>1. n.info.type \in ValueTypes  BY <1>4, Counts
  <2>2. n.val = ConvertToLLVMType(n.info.type)  BY <2>1, ValueOfType, KindsDiffer
  <2>3. TypeOfInfo(to) = ConvertToLLVMType(to.type)  BY <1>4, TypeOfInfoIs, KindsDiffer
  <2>q. QED  BY <1>4, <2>1, <2>2, <2>3, CastClean, KindsDiffer
<1>q. QED  BY <1>2, <1>3, <1>4 DEF CompatibleTypes, IsValueType

LEMMA PassedOK ==
    ASSUME NEW to \in DeclaredTypes, Plain(to), NEW isByRef \in BOOLEAN,
           NEW n, NodeOK(n), CachedOK(n), Clean(n),
           IF isByRef THEN n.ref /\ IsSameType(to, n.info) ELSE IsTypeCompatible(to, n.info),
           isByRef \/ CastFaults(n.info.type, to.type) = {}
    PROVE  Passed(to, isByRef, n) = TypeOfInfo(to)
<1>1. to \in Infos /\ to.arr = 0 /\ to.type # kInvalid  BY DEF DeclaredTypes, Plain
<1>2. CASE isByRef
  <2>1. n.ptr = PtrTo(TypeOfInfo(n.info))  BY <1>2, NodeOKImplies
  <2>2. Passed(to, isByRef, n) = TypeOfInfo(n.info)  BY <1>2, <2>1 DEF Passed, PtrTo
  <2>q. QED  BY <1>2, <2>2 DEF IsSameType, TypeOfInfo
<1>3. CASE ~isByRef
  <2>1. /\ n.info.arr <= 0
        /\ IF to.type = kStructure THEN to.str = n.info.str
                                   ELSE CompatibleTypes(to.type, n.info.type)
    BY <1>3 DEF IsTypeCompatible
  <2>2. /\ CastValueType(n.val, n.info.type, to.type) = TypeOfInfo(to)
        /\ n.info.type # kInvalid
    BY <1>1, <1>3, <2>1, ConvertOK
  <2>3. CachedInfo(n) = n.info  BY <2>2 DEF CachedOK, CachedInfo
  <2>q. QED  BY <1>3, <2>2, <2>3 DEF Passed
<1>q. QED  BY <1>2, <1>3

LEMMA CallOK ==
    ASSUME NEW f \in Functions, NEW args, \A k \in DOMAIN args : NodeOK(args[k]) /\ CachedOK(args[k]),
           DOMAIN args = DOMAIN f.args, CallAccepts(f, args)
    PROVE  NodeOK(Call(f, args)) /\ CachedOK(Call(f, args))
<1> DEFINE fits == \A k \in DOMAIN f.args :
                      Passed(f.args[k].to, f.args[k].isByRef, args[k]) = TypeOfInfo(f.args[k].to)
           val == IF fits THEN TypeOfInfo(f.ret) ELSE Ill
           faults == UNION {IF f.args[k].isByRef THEN {}
                            ELSE CastFaults(args[k].info.type, f.args[k].to.type) : k \in DOMAIN f.args}
           base == RValue(f.ret, val, args, faults)
           node == Call(f, args)
<1>1. f.ret \in Infos /\ f.ret.type # kInvalid
  <2>1. Value(kVoid) \in Infos /\ Value(kVoid).type = kVoid  BY ValueInfos DEF Value, Info
  <2>q. QED  BY <2>1, FunctionsAssumption, KindsDiffer DEF DeclaredTypes
<1>2. \A k \in DOMAIN f.args : /\ f.args[k].to \in DeclaredTypes /\ Plain(f.args[k].to)
                             /\ f.args[k].isByRef \in BOOLEAN
  <2> DEFINE Arguments == [to : {i \in DeclaredTypes : Plain(i)}, isByRef : BOOLEAN]
  <2>1. f.args \in Seq(Arguments)  BY FunctionsAssumption
  <2>2. \A a \in Arguments : a.to \in DeclaredTypes /\ Plain(a.to) /\ a.isByRef \in BOOLEAN
    OBVIOUS
  <2> HIDE DEF Arguments
  <2>3. \A k \in DOMAIN f.args : f.args[k] \in Arguments  BY <2>1
  <2>q. QED  BY <2>2, <2>3
<1>3. val \in LLVMTypes  BY <1>1, TypeOfInfoIs, LLVMTypesMade
<1>4. faults \in SUBSET Faults  BY DEF CastFaults, Faults
<1>5. ASSUME faults = {}, \A k \in DOMAIN args : Clean(args[k])
      PROVE  val # Ill /\ (f.ret.type # kInvalid => val = TypeOfInfo(f.ret))
  <2>1. ASSUME NEW k \in DOMAIN f.args
        PROVE  Passed(f.args[k].to, f.args[k].isByRef, args[k]) = TypeOfInfo(f.args[k].to)
    <3>1. f.args[k].isByRef \/ CastFaults(args[k].info.type, f.args[k].to.type) = {}
      BY <1>5, <2>1
    <3>2. IF f.args[k].isByRef THEN args[k].ref /\ IsSameType(f.args[k].to, args[k].info)
          ELSE IsTypeCompatible(f.args[k].to, args[k].info)
      BY <2>1 DEF CallAccepts
    <3>3. NodeOK(args[k]) /\ CachedOK(args[k]) /\ Clean(args[k])  BY <1>5, <2>1
    <3> HIDE DEF faults, val, fits
    <3>q. QED  BY <1>2, <2>1, <3>1, <3>2, <3>3, PassedOK
  <2>2. fits  BY <2>1
  <2>q. QED  BY <1>1, <2>2, TypeOfInfoIs
<1>6. node = [base EXCEPT !.effects = TRUE]  BY DEF Call
<1>7. NodeOK(base) /\ base.kind = "rvalue" /\ base.ptr = NoPtr /\ base.cached
  <2> HIDE DEF val, faults
  <2>1. NodeOK(base)  BY <1>1, <1>3, <1>4, <1>5, RValueOK
  <2>q. QED  BY <2>1 DEF RValue
<1> HIDE DEF base, node
<1>8. NodeOK(node) /\ node.cached
  BY <1>6, <1>7 DEF NodeOK, Nodes, ValueOK, PointerOK, Clean
<1>q. QED  BY <1>8 DEF CachedOK, node

LEMMA InitializerOK ==
    ASSUME NEW t \in InitTypes, NEW args \in Seq(Nodes), Len(args) \in 1..4,
           Len(args) <= TypeElementCnt(t),
           \A k \in DOMAIN args : NodeOK(args[k]) /\ CachedOK(args[k]),
           InitializerAccepts(t, args)
    PROVE  /\ NodeOK(Initializer(t, args)) /\ CachedOK(Initializer(t, args))
           /\ TypeElementCnt(t) = 8 => ~Clean(Initializer(t, args))
<1> DEFINE type == ConvertToLLVMType(t)
           fits == \A k \in DOMAIN args : InsertElement(type, Contributed(t, args[k])) = type
           val  == IF TypeElementCnt(t) = 1
                   THEN CastValueType(args[1].val, CachedInfo(args[1]).type, t)
                   ELSE IF fits THEN type ELSE Ill
           faults == Fault("array", \E k \in DOMAIN args : IsArray(args[k]))
                       \cup Fault("wide", TypeElementCnt(t) = 8)
           base == RValue(Value(t), val, args, faults)
<1>1. /\ t \in FloatTypes \cup IntegerTypes /\ t \in ValueTypes /\ t \notin BooleanTypes
      /\ TypeElementCnt(t) \in {1, 2, 3, 4, 8}
  <2>1. t \in FloatTypes \cup IntegerTypes  BY InitTypesAssumption
  <2>q. QED  BY <2>1, Counts, KindsDiffer DEF ValueTypes
<1>2. Value(t) \in Infos /\ TypeOfInfo(Value(t)) = type /\ type # Ill /\ type \in LLVMTypes
  <2>1. Value(t) \in Infos /\ Value(t).type = t /\ Value(t).arr = 0
    BY <1>1, ValueInfos DEF Value, Info
  <2>q. QED  BY <1>1, <2>1, TypeOfInfoIs, KindsDiffer
<1>3. DOMAIN args = 1..Len(args) /\ 1 \in DOMAIN args /\ args[1].val \in LLVMTypes
  <2>1. DOMAIN args = 1..Len(args) /\ 1 \in DOMAIN args  OBVIOUS
  <2>2. args[1] \in Nodes  BY <2>1
  <2>q. QED  BY <2>1, <2>2 DEF Nodes
<1>4. val \in LLVMTypes  BY <1>2, <1>3, CastTypes, LLVMTypesMade
<1>5. faults \in SUBSET Faults  BY DEF Fault, Faults
<1>6. ASSUME NEW k \in DOMAIN args
      PROVE  /\ args[k].info.type \in FloatTypes \cup IntegerTypes
             /\ args[k].info.type \in ValueTypes /\ args[k].info.type \notin BooleanTypes
             /\ CachedInfo(args[k]) = args[k].info /\ args[k].info.arr \in Int
  <2>1. args[k].info.type \in FloatTypes \cup IntegerTypes  BY DEF InitializerAccepts
  <2>2. args[k].info.type \in ValueTypes /\ args[k].info.type \notin BooleanTypes
    BY <2>1, KindsDiffer DEF ValueTypes
  <2>3. args[k].info.type # kInvalid  BY <2>2, KindsDiffer
  <2>4. CachedInfo(args[k]) = args[k].info  BY <2>3 DEF CachedOK, CachedInfo
  <2>q. QED  BY <2>1, <2>2, <2>4 DEF NodeOK, Nodes, Infos
<1>7. ASSUME faults = {}, \A k \in DOMAIN args : Clean(args[k])
      PROVE  val # Ill /\ val = TypeOfInfo(Value(t))
  <2>1. ASSUME NEW k \in DOMAIN args PROVE args[k].val = ConvertToLLVMType(args[k].info.type)
    <3>1. ~IsArray(args[k])  BY <1>7 DEF Fault
    <3>2. args[k].info.arr <= 0  BY <1>6, <3>1 DEF IsArray
    <3>3. args[k].info.type \notin {kInvalid, kStructure}  BY <1>6, KindsDiffer
    <3>4. NodeOK(args[k]) /\ Clean(args[k])  BY <1>7
    <3> HIDE DEF val, faults, fits
    <3>q. QED  BY <3>2, <3>3, <3>4, ValueOfType
  <2>2. CASE TypeElementCnt(t) = 1
    <3>1. Len(args) = 1  BY <2>2
    <3>2. ElementsGiven(args) = Elements(args[1])
      BY <3>1, Counts DEF ElementsGiven, Elements
    <3>3. TypeElementCnt(args[1].info.type) = 1
      BY <2>2, <3>2 DEF InitializerAccepts, Elements
    <3>4. CastFaults(args[1].info.type, t) = {}
      BY <1>1, <1>3, <1>6, <2>2, <3>3 DEF CastFaults, IsBooleanType
    <3>5. CastValueType(args[1].val, args[1].info.type, t) = type
      BY <1>1, <1>3, <1>6, <2>1, <3>4, CastClean
    <3>q. QED  BY <1>2, <1>3, <1>6, <2>2, <3>5
  <2>3. CASE TypeElementCnt(t) # 1
    <3>1. IsVector(type) /\ type.elem = ElementType(t) /\ TypeElementCnt(t) > 1
      BY <1>1, <2>3, LLVMForms DEF IsVector, LLVMType
    <3>2. /\ \A u \in FloatTypes \cup IntegerTypes :
                /\ ScalarOf(u) \in ValueTypes /\ ScalarOf(u) \notin BooleanTypes
                /\ TypeElementCnt(ScalarOf(u)) = 1
                /\ ConvertToLLVMType(ScalarOf(u)) = Scalar(ElementType(u))
      BY Scalars, LLVMForms, KindsDiffer DEF ScalarOf, IsIntegerType, ValueTypes, Scalar
    <3>3. ASSUME NEW k \in DOMAIN args PROVE Contributed(t, args[k]) = Scalar(ElementType(t))
      <4> DEFINE src == args[k].info.type
      <4>1. src \in FloatTypes \cup IntegerTypes /\ src \in ValueTypes /\ src \notin BooleanTypes
            /\ CachedInfo(args[k]).type = src
        BY <1>6
      <4>2. args[k].val = ConvertToLLVMType(src)  BY <2>1
      <4>3. TypeElementCnt(src) \in {1, 2, 3, 4, 8}  BY <4>1, Counts
      <4>4. CASE TypeElementCnt(src) > 1
        <5>1. ExtractElement(args[k].val) = ConvertToLLVMType(ScalarOf(src))
          <6>1. ConvertToLLVMType(src) = LLVMType(ElementType(src), TypeElementCnt(src))
            BY <4>3, <4>4, LLVMForms
          <6>2. IsVector(args[k].val) /\ args[k].val.elem = ElementType(src)
            BY <4>2, <4>3, <4>4, <6>1 DEF IsVector, LLVMType
          <6>q. QED  BY <3>2, <4>1, <6>2 DEF ExtractElement
        <5>2. CastFaults(ScalarOf(src), ScalarOf(t)) = {}
          BY <1>1, <3>2, <4>1 DEF CastFaults, IsBooleanType
        <5>3. Contributed(t, args[k]) = CastValueType(ExtractElement(args[k].val), ScalarOf(src), ScalarOf(t))
          BY <4>1, <4>4 DEF Contributed
        <5>q. QED  BY <1>1, <3>2, <4>1, <5>1, <5>2, <5>3, CastClean
      <4>5. CASE TypeElementCnt(src) = 1
        <5>1. CastFaults(src, ScalarOf(t)) = {}
          BY <1>1, <3>2, <4>1, <4>5 DEF CastFaults, IsBooleanType
        <5>2. Contributed(t, args[k]) = CastValueType(args[k].val, src, ScalarOf(t))
          BY <4>1, <4>5 DEF Contributed
        <5>q. QED  BY <1>1, <3>2, <4>1, <4>2, <5>1, <5>2, CastClean
      <4>q. QED  BY <4>3, <4>4, <4>5
    <3>4. fits  BY <3>1, <3>3 DEF InsertElement
    <3>q. QED  BY <1>2, <2>3, <3>4
  <2>q. QED  BY <2>2, <2>3
<1>8. Initializer(t, args) = base  BY DEF Initializer
<1>9. NodeOK(base) /\ (base.faults = {} => faults = {})
  <2> HIDE DEF val, faults
  <2>q. QED  BY <1>2, <1>4, <1>5, <1>7, RValueOK
<1>10. base.cached  BY DEF RValue
<1>11. TypeElementCnt(t) = 8 => faults # {}  BY DEF Fault
<1> HIDE DEF base, faults
<1>q. QED  BY <1>8, <1>9, <1>10, <1>11 DEF CachedOK, Clean

\* The value of a statement.
LEMMA VoidOK ==
    /\ Value(kVoid) \in Infos /\ TypeOfInfo(Value(kVoid)) = Scalar("void")
    /\ Scalar("void") # Ill /\ Scalar("void") \in LLVMTypes
    /\ \A fits : Effect(fits) \in LLVMTypes
    /\ \A v, pointee : v = pointee /\ v # Ill => Store(v, pointee) = Scalar("void")
<1>1. Value(kVoid) \in Infos /\ Value(kVoid).type = kVoid /\ Value(kVoid).arr = 0
  BY ValueInfos DEF Value, Info
<1>2. TypeOfInfo(Value(kVoid)) = Scalar("void")
  <2>1. TypeElementCnt(kVoid) = 0  BY Counts, KindsDiffer
  <2>q. QED  BY <1>1, <2>1, TypeOfInfoIs, LLVMForms, KindsDiffer DEF Scalar
<1>3. Scalar("void") # Ill /\ Scalar("void") \in LLVMTypes /\ Ill \in LLVMTypes
  BY LLVMTypesMade DEF Scalar, Ill, LLVMType
<1>q. QED  BY <1>1, <1>2, <1>3 DEF Store, Effect

LEMMA VarDefOK ==
    ASSUME NEW i \in DefTypes, NEW n, NodeOK(n), CachedOK(n), VarDefAccepts(i, n),
           NEW again \in BOOLEAN
    PROVE  NodeOK(VarDef(i, n, again)) /\ CachedOK(VarDef(i, n, again))
<1> DEFINE val == IF again THEN Ill
                  ELSE Store(CastValueType(n.val, CachedInfo(n).type, i.type), TypeOfInfo(i))
           faults == Fault("again", again) \cup
                     IF i.arr = 0 /\ ~IsArray(n) THEN CastFaults(n.info.type, i.type)
                     ELSE Fault("array", TypeOfInfo(i) # TypeOfInfo(n.info))
<1>1. i \in Infos /\ i.arr \in Int /\ i.type \notin {kInvalid, kStructure, kVoid}
  BY DefTypesAssumption DEF DeclaredTypes, Infos
<1>2. n.info \in Infos /\ n.info.arr \in Int  BY DEF NodeOK, Nodes, Infos
<1>3. val \in LLVMTypes  BY VoidOK, LLVMTypesMade DEF Store
<1>4. faults \in SUBSET Faults  BY DEF CastFaults, Fault, Faults
<1>5. ASSUME faults = {}, Clean(n)
      PROVE  val # Ill /\ val = TypeOfInfo(Value(kVoid))
  <2>0. ~again  BY <1>5 DEF Fault
  <2>1. CastValueType(n.val, CachedInfo(n).type, i.type) = TypeOfInfo(i)
    <3>1. /\ CompatibleTypes(i.type, n.info.type)
          /\ \/ i.type = kExternType /\ n.info.type = kExternType
             \/ /\ i.type \in ValueTypes
                /\ TypeElementCnt(i.type) <= TypeElementCnt(n.info.type)
      BY DEF VarDefAccepts, CompatibleTypes, IsValueType
    <3>2. n.info.type \notin {kInvalid, kStructure} /\ CachedInfo(n) = n.info
      <4>1. TypeElementCnt(i.type) \in Nat /\ TypeElementCnt(n.info.type) \in Nat  BY Counts
      <4>2. n.info.type \in ValueTypes \cup {kExternType}  BY <3>1, <4>1, Counts
      <4>q. QED  BY <4>2, KindsDiffer DEF CachedOK, CachedInfo
    <3>3. CASE i.arr = 0 /\ ~IsArray(n)
      <4>1. CastFaults(n.info.type, i.type) = {} /\ n.info.arr <= 0 /\ i.arr <= 0
        BY <1>2, <1>5, <3>3 DEF IsArray
      <4> HIDE DEF val, faults
      <4>q. QED  BY <1>1, <1>5, <3>1, <3>2, <4>1, ConvertOK
    <3>4. CASE ~(i.arr = 0 /\ ~IsArray(n))
      <4>1. TypeOfInfo(i) = TypeOfInfo(n.info)  BY <1>5, <3>4 DEF Fault
      <4>2. n.val = TypeOfInfo(i)  BY <1>5, <3>2, <4>1 DEF NodeOK, ValueOK
      <4>3. \A j \in {i, n.info} : /\ TypeOfInfo(j).elem = ElementType(j.type)
                                  /\ TypeOfInfo(j).n = IF TypeElementCnt(j.type) > 1
                                                       THEN TypeElementCnt(j.type) ELSE 0
        <5> SUFFICES ASSUME NEW j \in {i, n.info}
            PROVE  /\ TypeOfInfo(j).elem = ElementType(j.type)
                   /\ TypeOfInfo(j).n = IF TypeElementCnt(j.type) > 1
                                        THEN TypeElementCnt(j.type) ELSE 0
          OBVIOUS
        <5>1. j.type # kStructure  BY <1>1, <3>2
        <5>q. QED  BY <5>1, LLVMForms DEF TypeOfInfo, LLVMType
      <4>4. ElementType(n.info.type) = ElementType(i.type)  BY <4>1, <4>3
      <4>5. TypeElementCnt(n.info.type) = TypeElementCnt(i.type)
        <5>1. TypeElementCnt(n.info.type) \in Nat /\ TypeElementCnt(i.type) \in Nat  BY Counts
        <5>2. CASE i.type = kExternType /\ n.info.type = kExternType  BY <5>2
        <5>3. CASE i.type \in ValueTypes /\ TypeElementCnt(i.type) <= TypeElementCnt(n.info.type)
          <6>1. TypeElementCnt(i.type) # 0  BY <5>3, Counts
          <6>2. TypeOfInfo(i).n = TypeOfInfo(n.info).n  BY <4>1
          <6>q. QED  BY <4>3, <5>1, <5>3, <6>1, <6>2
        <5>q. QED  BY <3>1, <5>2, <5>3
      <4>6. CastValueType(n.val, n.info.type, i.type) = n.val  BY <4>4, <4>5, CastIdle
      <4>q. QED  BY <3>2, <4>2, <4>6
    <3>q. QED  BY <3>3, <3>4
  <2>2. TypeOfInfo(i) # Ill  BY <1>1, TypeOfInfoIs
  <2>q. QED  BY <2>0, <2>1, <2>2, VoidOK
<1>6. VarDef(i, n, again) = RValue(Value(kVoid), val, <<n>>, faults)  BY DEF VarDef
<1> HIDE DEF val, faults
<1>7. NodeOK(RValue(Value(kVoid), val, <<n>>, faults))
  BY <1>3, <1>4, <1>5, RValueOK, VoidOK
<1>q. QED  BY <1>6, <1>7 DEF CachedOK, RValue

LEMMA FuncRetOK ==
    ASSUME NEW f \in Functions, NEW n, NodeOK(n), CachedOK(n), FuncRetAccepts(f.ret, n)
    PROVE  NodeOK(FuncRet(f.ret, n)) /\ CachedOK(FuncRet(f.ret, n))
<1> DEFINE val == Store(CastValueType(n.val, n.info.type, f.ret.type), TypeOfInfo(f.ret))
           faults == CastFaults(n.info.type, f.ret.type)
<1>1. f.ret \in Infos /\ f.ret.type # kInvalid /\ f.ret.arr = 0
  <2>1. Value(kVoid).type = kVoid  BY DEF Value, Info
  <2>q. QED  BY <2>1, VoidOK, FunctionsAssumption, KindsDiffer DEF DeclaredTypes, Plain
<1>2. val \in LLVMTypes  BY VoidOK DEF Store
<1>3. faults \in SUBSET Faults  BY DEF CastFaults, Faults
<1>4. ASSUME faults = {}, Clean(n)
      PROVE  val # Ill /\ val = TypeOfInfo(Value(kVoid))
  <2>1. /\ n.info.arr <= 0
        /\ IF f.ret.type = kStructure THEN f.ret.str = n.info.str
                                      ELSE CompatibleTypes(f.ret.type, n.info.type)
    BY DEF FuncRetAccepts, IsTypeCompatible
  <2>2. CastValueType(n.val, n.info.type, f.ret.type) = TypeOfInfo(f.ret)
    <3>1. CastFaults(n.info.type, f.ret.type) = {}  BY <1>4
    <3> HIDE DEF val, faults
    <3>q. QED  BY <1>1, <1>4, <2>1, <3>1, ConvertOK
  <2>3. TypeOfInfo(f.ret) # Ill  BY <1>1, TypeOfInfoIs
  <2>q. QED  BY <2>2, <2>3, VoidOK
<1>5. FuncRet(f.ret, n) = RValue(Value(kVoid), val, <<n>>, faults)  BY DEF FuncRet
<1> HIDE DEF val, faults
<1>6. NodeOK(RValue(Value(kVoid), val, <<n>>, faults))
  BY <1>2, <1>3, <1>4, RValueOK, VoidOK
<1>q. QED  BY <1>5, <1>6 DEF CachedOK, RValue

LEMMA IfOK ==
    ASSUME NEW n, NodeOK(n), CachedOK(n), IfAccepts(n)
    PROVE  NodeOK(If(n)) /\ CachedOK(If(n))
<1> DEFINE t == CachedInfo(n).type
           isTested == \/ n.val = Scalar("bool")
                       \/ t \in {kFloat, kInt, kExternType} /\ n.val = ConvertToLLVMType(t)
           faults == Fault("array", IsArray(n))
<1>1. n.info.arr \in Int  BY DEF NodeOK, Nodes, Infos
<1>2. n.info.type \in {kBoolean, kFloat, kInt, kExternType}  BY DEF IfAccepts
<1>3. n.info.type \notin {kInvalid, kStructure}  BY <1>2, Scalars, KindsDiffer DEF ValueTypes
<1>4. t = n.info.type  BY <1>3 DEF CachedOK, CachedInfo
<1>5. faults \in SUBSET Faults  BY DEF Fault, Faults
<1>6. ASSUME faults = {}, Clean(n)
      PROVE  Effect(isTested) # Ill /\ Effect(isTested) = TypeOfInfo(Value(kVoid))
  <2>1. n.info.arr <= 0  BY <1>1, <1>6 DEF Fault, IsArray
  <2>2. n.val = ConvertToLLVMType(n.info.type)
    <3> HIDE DEF isTested, faults, t
    <3>q. QED  BY <1>3, <1>6, <2>1, ValueOfType
  <2>3. n.info.type = kBoolean => n.val = Scalar("bool")
    BY <2>2, Scalars, LLVMForms DEF Scalar
  <2>4. isTested  BY <1>2, <1>4, <2>2, <2>3
  <2>q. QED  BY <2>4, VoidOK DEF Effect
<1>7. If(n) = RValue(Value(kVoid), Effect(isTested), <<n>>, faults)  BY DEF If
<1> HIDE DEF isTested, faults
<1>8. NodeOK(RValue(Value(kVoid), Effect(isTested), <<n>>, faults))
  BY <1>5, <1>6, RValueOK, VoidOK
<1>q. QED  BY <1>7, <1>8 DEF CachedOK, RValue

LEMMA ForOK ==
    ASSUME NEW n, NodeOK(n), CachedOK(n), ForAccepts(n)
    PROVE  NodeOK(For(n)) /\ CachedOK(For(n))
<1> DEFINE isTested == n.val \in {Scalar("bool"), Scalar("int")}
           faults == Fault("array", IsArray(n))
<1>1. n.info.arr \in Int  BY DEF NodeOK, Nodes, Infos
<1>2. n.info.type = kBoolean /\ kBoolean \notin {kInvalid, kStructure}
  BY Scalars, KindsDiffer DEF ForAccepts, ValueTypes
<1>3. faults \in SUBSET Faults  BY DEF Fault, Faults
<1>4. ASSUME faults = {}, Clean(n)
      PROVE  Effect(isTested) # Ill /\ Effect(isTested) = TypeOfInfo(Value(kVoid))
  <2>1. n.info.arr <= 0  BY <1>1, <1>4 DEF Fault, IsArray
  <2>2. n.val = ConvertToLLVMType(kBoolean)
    <3> HIDE DEF isTested, faults
    <3>q. QED  BY <1>2, <1>4, <2>1, ValueOfType
  <2>3. n.val = Scalar("bool")  BY <2>2, Scalars, LLVMForms DEF Scalar
  <2>q. QED  BY <2>3, VoidOK DEF Effect
<1>5. For(n) = RValue(Value(kVoid), Effect(isTested), <<n>>, faults)  BY DEF For
<1> HIDE DEF isTested, faults
<1>6. NodeOK(RValue(Value(kVoid), Effect(isTested), <<n>>, faults))
  BY <1>3, <1>4, RValueOK, VoidOK
<1>q. QED  BY <1>5, <1>6 DEF CachedOK, RValue

-----------------------------------------------------------------------------
(* That a fault is real.  A node with a fault of its own has a value that  *)
(* is not of the announced type, or evaluates something twice: what has an *)
(* effect and a pointer has it on the way to the pointer.                  *)
MarkOK(n) ==
    /\ n.own /\ ~Clean(n) /\ "wide" \notin n.faults => n.val # TypeOfInfo(n.info) \/ ~n.once
    /\ n.ptr # NoPtr /\ n.effects => n.visits

\* What a node without a pointer has as faults when its operands have none.
LEMMA RValueOwn ==
    ASSUME NEW info, NEW val, NEW parts, NEW faults
    PROVE  LET node == RValue(info, val, parts, faults)
           IN  /\ node.own => node.faults = faults /\ \A k \in DOMAIN parts : Clean(parts[k])
               /\ node.info = info /\ node.val = val /\ node.ptr = NoPtr
<1> DEFINE node == RValue(info, val, parts, faults)
<1>1. /\ node.faults = faults \cup UNION {parts[k].faults : k \in DOMAIN parts}
      /\ node.own <=> \A k \in DOMAIN parts : parts[k].faults = {}
      /\ node.ptr = NoPtr /\ node.info = info /\ node.val = val
  BY DEF RValue
<1>2. node.own => node.faults = faults  BY <1>1 DEF Clean
<1> HIDE DEF node
<1>q. QED  BY <1>1, <1>2 DEF Clean, node

\* A node is marked in order if the faults it adds to operands without any are seen.
LEMMA RValueMarked ==
    ASSUME NEW info, NEW val, NEW parts, NEW faults,
           faults # {} /\ "wide" \notin faults /\ (\A k \in DOMAIN parts : Clean(parts[k]))
              => val # TypeOfInfo(info)
    PROVE  MarkOK(RValue(info, val, parts, faults))
BY RValueOwn DEF MarkOK, Clean

\* The type of a value type is known by its LLVM type.
LEMMA LLVMInjective ==
    ASSUME NEW s \in ValueTypes, NEW t \in ValueTypes, ConvertToLLVMType(s) = ConvertToLLVMType(t)
    PROVE  s = t
<1>1. TypeElementCnt(s) \in {1, 2, 3, 4, 8} /\ TypeElementCnt(t) \in {1, 2, 3, 4, 8}  BY Counts
<1>2. ElementType(s) = ElementType(t) /\ TypeElementCnt(s) = TypeElementCnt(t)
  <2>1. /\ ConvertToLLVMType(s).elem = ElementType(s) /\ ConvertToLLVMType(t).elem = ElementType(t)
        /\ ConvertToLLVMType(s).n = IF TypeElementCnt(s) > 1 THEN TypeElementCnt(s) ELSE 0
        /\ ConvertToLLVMType(t).n = IF TypeElementCnt(t) > 1 THEN TypeElementCnt(t) ELSE 0
    BY LLVMForms DEF LLVMType
  <2>q. QED  BY <1>1, <2>1
<1>3. \A u \in FloatTypes : u = TypeElementCnt(u) - 1
  BY DEF TypeElementCnt, FloatTypes,
         kFloat, kFloat2, kFloat3, kFloat4, kFloat8, kInt, kInt2, kInt3, kInt4, kInt8,
         kBoolean, kBoolean2, kBoolean3, kBoolean4, kBoolean8
<1>4. \A u \in IntegerTypes : u = TypeElementCnt(u) + 7
  BY DEF TypeElementCnt, IntegerTypes,
         kFloat, kFloat2, kFloat3, kFloat4, kFloat8, kInt, kInt2, kInt3, kInt4, kInt8,
         kBoolean, kBoolean2, kBoolean3, kBoolean4, kBoolean8
<1>5. \A u \in BooleanTypes : u = TypeElementCnt(u) + 15
  BY DEF TypeElementCnt, BooleanTypes,
         kFloat, kFloat2, kFloat3, kFloat4, kFloat8, kInt, kInt2, kInt3, kInt4, kInt8,
         kBoolean, kBoolean2, kBoolean3, kBoolean4, kBoolean8
<1>6. CASE s \in FloatTypes
  <2>1. t \in FloatTypes  BY <1>2, <1>6, LLVMForms DEF ValueTypes
  <2>q. QED  BY <1>2, <1>3, <1>6, <2>1
<1>7. CASE s \in IntegerTypes
  <2>1. t \in IntegerTypes  BY <1>2, <1>7, LLVMForms DEF ValueTypes
  <2>q. QED  BY <1>2, <1>4, <1>7, <2>1
<1>8. CASE s \in BooleanTypes
  <2>1. t \in BooleanTypes  BY <1>2, <1>8, LLVMForms DEF ValueTypes
  <2>q. QED  BY <1>2, <1>5, <1>8, <2>1
<1>q. QED  BY <1>6, <1>7, <1>8 DEF ValueTypes

\* A cast with a fault does not yield the type that is asked for.
LEMMA CastBad ==
    ASSUME NEW src \in ValueTypes, NEW dest \in ValueTypes, CastFaults(src, dest) # {}
    PROVE  CastValueType(ConvertToLLVMType(src), src, dest) # ConvertToLLVMType(dest)
<1> DEFINE s == TypeElementCnt(src)
           d == TypeElementCnt(dest)
           v == ConvertToLLVMType(src)
           w == ConvertToLLVMType(dest)
<1>1. s \in {1, 2, 3, 4, 8} /\ d \in {1, 2, 3, 4, 8}  BY Counts
<1>2. /\ v.elem = ElementType(src) /\ v.arr = 0 /\ v.n = IF s > 1 THEN s ELSE 0
      /\ w.elem = ElementType(dest) /\ w.arr = 0 /\ w.n = IF d > 1 THEN d ELSE 0
  BY LLVMForms DEF LLVMType
<1> DEFINE unlike == ~(src \in BooleanTypes <=> dest \in BooleanTypes)
<1>3. unlike \/ (s > 1 /\ d = 1) \/ (s > 1 /\ s < d)
  BY DEF CastFaults, IsBooleanType
<1>4. ASSUME unlike
      PROVE  ElementType(src) # ElementType(dest) /\ \A x, n : CastElements(x, src, dest, n) = x
  <2>1. \A t \in ValueTypes : ElementType(t) = "bool" <=> t \in BooleanTypes
    BY LLVMForms DEF ValueTypes
  <2>2. ~(src \in FloatTypes /\ dest \in IntegerTypes) /\ ~(src \in IntegerTypes /\ dest \in FloatTypes)
    BY <1>4, KindsDiffer
  <2>3. \A x, n : CastElements(x, src, dest, n) = x
    BY <2>2 DEF CastElements, IsFloatType, IsIntegerType
  <2>4. ElementType(src) # ElementType(dest)
    BY <1>4, <2>1
  <2>q. QED  BY <2>3, <2>4
<1> HIDE DEF v, w, s, d, unlike
<1>5. CASE s = d
  <2>1. CastValueType(v, src, dest) = CastElements(v, src, dest, d)
    BY <1>1, <1>5 DEF CastValueType, s, d
  <2>2. unlike  BY <1>1, <1>3, <1>5
  <2>3. CastValueType(v, src, dest) = v  BY <1>4, <2>1, <2>2
  <2>4. v # w  BY <1>2, <1>4, <2>2
  <2>q. QED  BY <2>3, <2>4 DEF v, w
<1>6. CASE s > d
  <2> DEFINE x == ShuffleVector(v, FirstElements(d))
  <2>1. CastValueType(v, src, dest) = CastElements(x, src, dest, d)
    BY <1>1, <1>6 DEF CastValueType, s, d
  <2>2. x = LLVMType(ElementType(src), d)
    <3>1. Len(FirstElements(d)) = d /\ FirstElements(d) # <<>>
          /\ \A i \in 1..d : FirstElements(d)[i] = i - 1
      BY <1>1 DEF FirstElements
    <3>q. QED  BY <1>1, <1>2, <1>6, <3>1 DEF ShuffleVector, IsVector
  <2>3. x.elem = ElementType(src) /\ x.n = d /\ x.arr = 0  BY <2>2 DEF LLVMType
  <2> HIDE DEF x
  <2>4. CASE unlike
    <3>1. CastElements(x, src, dest, d) = x  BY <1>4, <2>4
    <3>2. x # w  BY <1>2, <1>4, <2>3, <2>4
    <3>q. QED  BY <2>1, <3>1, <3>2 DEF v, w
  <2>5. CASE ~unlike
    <3>1. d = 1  BY <1>1, <1>3, <1>6, <2>5
    <3>2. ConvertToLLVMType(MakeType(dest, 1)) = w  BY <3>1, LLVMOfMakeType DEF w, d
    <3>3. w.n = 0 /\ x.n = 1  BY <1>2, <2>3, <3>1
    <3>4. CastElements(x, src, dest, 1) \in {x, Ill}
      BY <3>2, <3>3 DEF CastElements, Convert
    <3>5. w # Ill
      <4>1. w.elem # "ill-typed"  BY <1>2, LLVMForms
      <4>q. QED  BY <4>1 DEF Ill, Scalar, LLVMType
    <3>6. x # w  BY <3>3
    <3>q. QED  BY <2>1, <3>1, <3>4, <3>5, <3>6 DEF v, w
  <2>q. QED  BY <2>4, <2>5
<1>7. CASE s = 1 /\ d > 1
  <2>1. unlike  BY <1>3, <1>7
  <2>2. CastValueType(v, src, dest) = InsertElement(w, v)
    <3>1. CastValueType(v, src, dest)
             = InsertElement(ConvertToLLVMType(MakeType(dest, d)), CastElements(v, src, dest, 1))
      BY <1>1, <1>7 DEF CastValueType, s, d
    <3>2. ConvertToLLVMType(MakeType(dest, d)) = w  BY LLVMOfMakeType DEF w, d
    <3>q. QED  BY <1>4, <2>1, <3>1, <3>2
  <2>3. v # Scalar(w.elem)  BY <1>2, <1>4, <2>1 DEF Scalar, LLVMType
  <2>4. InsertElement(w, v) = Ill  BY <2>3 DEF InsertElement
  <2>5. w # Ill
    <3>1. w.elem # "ill-typed"  BY <1>2, LLVMForms
    <3>q. QED  BY <3>1 DEF Ill, Scalar, LLVMType
  <2>q. QED  BY <2>2, <2>4, <2>5 DEF v, w
<1>8. CASE s > 1 /\ s < d
  <2>1. CastValueType(v, src, dest) = v
    BY <1>1, <1>8 DEF CastValueType, s, d
  <2>2. v.n # w.n  BY <1>1, <1>2, <1>8
  <2>q. QED  BY <2>1, <2>2 DEF v, w
<1>q. QED  BY <1>1, <1>5, <1>6, <1>7, <1>8

\* What is no scalar and no vector is not cast into one.
LEMMA CastArray ==
    ASSUME NEW v, v.arr > 0 \/ v = Ill, NEW src, NEW dest
    PROVE  /\ CastValueType(v, src, dest) \in {v, Ill}
           /\ \A x : x.elem # "ill-typed" => InsertElement(x, CastValueType(v, src, dest)) = Ill
<1>1. ~IsVector(v)  BY DEF IsVector, Ill, Scalar, LLVMType
<1>2. \A n : CastElements(v, src, dest, n) \in {v, Ill} /\ CastElements(Ill, src, dest, n) = Ill
  <2> TAKE n
  <2>1. Ill.elem = "ill-typed"  BY DEF Ill, Scalar, LLVMType
  <2>q. QED  BY <2>1 DEF CastElements, Convert
<1>3. \A mask : ShuffleVector(v, mask) = Ill  BY <1>1 DEF ShuffleVector
<1>4. \A x, y : x.elem # "ill-typed" /\ y \in {v, Ill} => InsertElement(x, y) = Ill
  <2> TAKE x, y
  <2>1. x.elem # "ill-typed" => Scalar(x.elem) # Ill /\ Scalar(x.elem) # v
    BY DEF Ill, Scalar, LLVMType
  <2>q. QED  BY <2>1 DEF InsertElement
<1>5. TypeElementCnt(src) \in {0, 1, 2, 3, 4, 8} /\ TypeElementCnt(dest) \in {0, 1, 2, 3, 4, 8}  BY Counts
<1>6. \A t : ConvertToLLVMType(t).elem # "ill-typed"  BY LLVMForms
<1>7. CastValueType(v, src, dest) \in {v, Ill}
  BY <1>2, <1>3, <1>4, <1>5, <1>6 DEF CastValueType
<1>q. QED  BY <1>4, <1>7

\* A cast makes no array.
LEMMA CastFlat ==
    ASSUME NEW v, v.arr = 0, NEW src, NEW dest
    PROVE  CastValueType(v, src, dest).arr = 0
<1>1. Ill.arr = 0  BY DEF Ill, Scalar, LLVMType
<1>2. \A x, n : x.arr = 0 => CastElements(x, src, dest, n).arr = 0
  <2> TAKE x, n
  <2>1. ConvertToLLVMType(MakeType(dest, n)).arr = 0  BY LLVMForms
  <2>q. QED  BY <1>1, <2>1 DEF CastElements, Convert
<1>3. \A mask : ShuffleVector(v, mask).arr = 0  BY <1>1 DEF ShuffleVector, LLVMType
<1>4. \A x, y : x.arr = 0 => InsertElement(x, y).arr = 0  BY <1>1 DEF InsertElement
<1>5. \A t : ConvertToLLVMType(t).arr = 0  BY LLVMForms
<1>6. TypeElementCnt(src) \in {0, 1, 2, 3, 4, 8} /\ TypeElementCnt(dest) \in {0, 1, 2, 3, 4, 8}  BY Counts
<1>q. QED
  BY <1>2, <1>3, <1>4, <1>5, <1>6 DEF CastValueType

\* A negated value that has the announced type has a value type.
LEMMA UnaryMarked ==
    ASSUME NEW op \in {"!", "-"}, NEW n, NodeOK(n), UnaryAccepts(op, n)
    PROVE  MarkOK(Unary(op, n))
<1> DEFINE operands == IF op = "-" /\ IsFloatType(n.info.type) THEN {"float"} ELSE {"int", "bool"}
           val == Arithmetic(n.val, n.val, operands)
           faults == Fault("negation", ~IsValueType(n.info.type))
<1>1. n.info \in Infos  BY DEF NodeOK, Nodes
<1>2. ASSUME faults # {} PROVE val # TypeOfInfo(n.info)
  <2>1. n.info.type \notin ValueTypes  BY <1>2 DEF Fault, IsValueType
  <2>2. operands = {"int", "bool"}  BY <2>1 DEF IsFloatType, ValueTypes
  <2>3. TypeOfInfo(n.info).elem \notin {"int", "bool"}
    <3>1. CASE n.info.type = kStructure
      BY <1>1, <3>1, TypeOfInfoParts, StructsAssumption
    <3>2. CASE n.info.type # kStructure
      <4>1. TypeOfInfo(n.info).elem = ElementType(n.info.type)  BY <1>1, <3>2, TypeOfInfoParts
      <4>2. ElementType(n.info.type) \in {"pointer", "void"}
        BY <2>1 DEF ElementType, IsFloatType, IsIntegerType, IsBooleanType, ValueTypes
      <4>q. QED  BY <4>1, <4>2
    <3>q. QED  BY <3>1, <3>2
  <2>4. TypeOfInfo(n.info) # Ill  BY <1>1, TypeOfInfoIs
  <2>q. QED  BY <2>2, <2>3, <2>4 DEF Arithmetic
<1>3. Unary(op, n) = RValue(n.info, val, <<n>>, faults)  BY DEF Unary
<1> HIDE DEF val, faults
<1>q. QED  BY <1>2, <1>3, RValueMarked

\* An operand with a fault is not converted to the left one's type.
LEMMA OperandBad ==
    ASSUME NEW l, NEW r, NodeOK(r), Clean(r), r.info.arr <= 0,
           l.info.type \in ValueTypes, r.info.type \in ValueTypes, OperandFaults(l, r) # {}
    PROVE  CastValueType(r.val, CachedInfo(r).type, l.info.type) # ConvertToLLVMType(l.info.type)
<1>1. r.val = ConvertToLLVMType(r.info.type)  BY ValueOfType, KindsDiffer
<1>2. CASE r.cached
  <2>1. CachedInfo(r).type = r.info.type  BY <1>2 DEF CachedInfo
  <2>2. CastFaults(r.info.type, l.info.type) # {}
    BY <1>2 DEF OperandFaults, IsValueType
  <2>q. QED  BY <1>1, <2>1, <2>2, CastBad
<1>3. CASE ~r.cached
  <2>1. CachedInfo(r).type = kInvalid  BY <1>3 DEF CachedInfo, DefaultInfo, Value, Info
  <2>2. TypeElementCnt(kInvalid) = 0  BY Counts, KindsDiffer
  <2>3. r.info.type # l.info.type
    BY <1>3 DEF OperandFaults, IsValueType, Fault
  <2>q. QED  BY <1>1, <2>1, <2>2, <2>3, CastUnknown, LLVMInjective
<1>q. QED  BY <1>2, <1>3

\* What is assigned to has an address.
LEMMA AssignPointer ==
    ASSUME NEW l, NodeOK(l), Clean(l), l.kind # "rvalue",
           l.info.type \in ValueTypes => IsAssignable(l)
    PROVE  l.ptr # NoPtr
<1>1. l \in Nodes /\ PointerOK(l)  BY DEF NodeOK
<1>2. l.kind \in Kinds  BY <1>1 DEF Nodes
<1>q. QED  BY <1>1, <1>2 DEF PointerOK, IsAssignable, Kinds

\* Nothing but a value of its type can be stored to what is assigned to.
LEMMA AssignBad ==
    ASSUME NEW l, NodeOK(l), Clean(l), l.info.arr <= 0, l.info.type \in ValueTypes,
           IsAssignable(l), NEW v, v # ConvertToLLVMType(l.info.type)
    PROVE  AssignCode(l, v) = Ill
<1>1. l \in Nodes /\ PointerOK(l) /\ l.info \in Infos  BY DEF NodeOK, Nodes
<1>2. CASE l.kind = "rvalue"  BY <1>2 DEF AssignCode, NodeOK, NoPtr
<1>3. CASE l.kind # "rvalue" /\ l.ptr.element
  <2>1. IsVector(l.ptr.to) /\ l.ptr.to.elem = ElementType(l.info.type) /\ TypeElementCnt(l.info.type) = 1
    BY <1>1, <1>3 DEF PointerOK
  <2>2. v # Scalar(l.ptr.to.elem)  BY <2>1, LLVMForms DEF Scalar
  <2>3. InsertElement(l.ptr.to, v) = Ill  BY <2>2 DEF InsertElement
  <2>q. QED  BY <1>3, <2>3 DEF AssignCode, Store, Effect
<1>4. CASE l.kind # "rvalue" /\ ~l.ptr.element
  <2>1. l.ptr # NoPtr  BY <1>4, AssignPointer
  <2>2. l.ptr.to = ConvertToLLVMType(l.info.type)
    BY <1>1, <1>4, <2>1, TypeOfInfoIs, KindsDiffer DEF PointerOK
  <2>q. QED  BY <1>4, <2>2 DEF AssignCode, Store, Effect
<1>q. QED  BY <1>2, <1>3, <1>4

\* A binary operator with a fault has operands that its instruction does not
\* take, or evaluates its left side twice.
LEMMA BinaryMarked ==
    ASSUME NEW op \in Operators, NEW l, NEW r, NodeOK(l), NodeOK(r), CachedOK(l),
           MarkOK(l), BinaryAccepts(op, l, r)
    PROVE  MarkOK(Binary(op, l, r))
<1> DEFINE lt == CachedInfo(l).type
           rt == CachedInfo(r).type
           t  == l.info.type
           cast == CastValueType(r.val, rt, lt)
           val == IF op # "=" THEN CreateBinaryExpression(op, l.val, r.val, lt, rt)
                  ELSE IF AssignCode(l, cast) = Ill THEN Ill
                  ELSE l.val
           faults == OperandFaults(l, r)
                       \cup Fault("rvalue", op = "=" /\ l.kind = "rvalue")
                       \cup Fault("twice", op = "=" /\ l.effects)
           base == RValue(BinaryInfo(op, l), val, <<l, r>>, faults)
           node == Binary(op, l, r)
<1>1. /\ BinaryInfo(op, l) \in Infos /\ t # kInvalid /\ l.info.arr <= 0 /\ r.info.arr <= 0
      /\ t \notin {kStructure, kExternType} => ValuesAccept(op, l, r)
      /\ t \in {kStructure, kExternType} => op = "="
  BY BinaryInfoOK
<1>2. lt = t  BY <1>1 DEF CachedOK, CachedInfo
<1>3. TypeOfInfo(BinaryInfo(op, l)) # Ill  BY <1>1, TypeOfInfoIs
<1>4. t \notin {kStructure, kExternType} =>
         /\ t \in ValueTypes /\ r.info.type \in ValueTypes
         /\ op = "=" => IsAssignable(l)
  BY <1>1 DEF ValuesAccept, IsValueType
<1>5. t \in ValueTypes => t \notin {kStructure, kExternType}  BY KindsDiffer
<1>6. ASSUME Clean(l), Clean(r), OperandFaults(l, r) # {} PROVE val = Ill
  <2>1. t \in ValueTypes /\ r.info.type \in ValueTypes /\ (op = "=" => IsAssignable(l))
    <3>1. t \in ValueTypes  BY <1>6 DEF OperandFaults, IsValueType
    <3>q. QED  BY <1>4, <1>5, <3>1
  <2>2. cast # ConvertToLLVMType(t)  BY <1>1, <1>2, <1>6, <2>1, OperandBad
  <2>3. l.val = ConvertToLLVMType(t)  BY <1>1, <1>6, <2>1, ValueOfType, KindsDiffer
  <2>4. CASE op # "="
    <3>1. l.val # cast  BY <2>2, <2>3
    <3>q. QED  BY <2>4, <3>1 DEF CreateBinaryExpression, Comparison, Arithmetic
  <2>5. CASE op = "="
    <3>1. AssignCode(l, cast) = Ill  BY <1>1, <1>6, <2>1, <2>2, <2>5, AssignBad
    <3>q. QED  BY <2>5, <3>1
  <2>q. QED  BY <2>4, <2>5
<1>7. ASSUME Clean(l), Clean(r), faults # {}
      PROVE  val = Ill \/ (op = "=" /\ l.visits)
  <2>1. CASE OperandFaults(l, r) # {}  BY <1>6, <1>7, <2>1
  <2>2. CASE op = "=" /\ l.kind = "rvalue"
    <3>1. AssignCode(l, cast) = Ill  BY <2>2 DEF AssignCode, NodeOK, NoPtr
    <3>q. QED  BY <2>2, <3>1
  <2>3. CASE op = "=" /\ l.effects /\ l.kind # "rvalue"
    <3>1. t \in ValueTypes => IsAssignable(l)  BY <1>4, <1>5, <2>3
    <3>2. l.ptr # NoPtr  BY <1>7, <2>3, <3>1, AssignPointer
    <3>q. QED  BY <2>3, <3>2 DEF MarkOK
  <2>q. QED  BY <1>7, <2>1, <2>2, <2>3 DEF Fault
<1>8. node = [base EXCEPT !.cached  = l.info.type # kExternType,
                          !.effects = @ \/ op = "=",
                          !.once    = @ /\ ~(op = "=" /\ l.visits)]
  BY DEF Binary
<1> HIDE DEF val, faults, node
<1>9. /\ base.own => base.faults = faults /\ Clean(l) /\ Clean(r)
      /\ base.info = BinaryInfo(op, l) /\ base.val = val /\ base.ptr = NoPtr
  <2>1. /\ base.own => base.faults = faults /\ \A k \in DOMAIN <<l, r>> : Clean(<<l, r>>[k])
        /\ base.info = BinaryInfo(op, l) /\ base.val = val /\ base.ptr = NoPtr
    BY RValueOwn
  <2>q. QED  BY <2>1
<1>10. /\ node.own = base.own /\ node.faults = base.faults /\ node.info = base.info
       /\ node.val = base.val /\ node.ptr = base.ptr
       /\ op = "=" /\ l.visits => ~node.once
  BY <1>8 DEF RValue
<1> HIDE DEF base
<1>q. QED  BY <1>3, <1>7, <1>9, <1>10 DEF MarkOK, Clean, node

\* A dot with a fault has no vector to shuffle, shuffles one element, or walks
\* over an index twice.
LEMMA DotMarked ==
    ASSUME NEW n, NodeOK(n), CachedOK(n), MarkOK(n), NEW name \in Names, DotAccepts(n, name)
    PROVE  MarkOK(Dot(n, name))
<1> DEFINE di  == DotInfo(n, name)
           cnt == SwizzleCnt(name)
           t   == n.info.type
           ptr == DotPtr(n, name)
           val == CASE ptr = NoPtr -> IF IsMember(n.info, name) /\ n.ptr # NoPtr THEN Ill
                                       ELSE ShuffleVector(n.val, ConvertSwizzle(name))
                    [] ptr.element -> ExtractElement(ptr.to)
                    [] OTHER       -> ptr.to
           faults == Fault("member", n.info.type = kStructure /\ ptr = NoPtr)
                       \cup Fault("scalar", Elements(n) = 1)
                       \cup Fault("element", Elements(n) > 1 /\ SwizzleCnt(name) = 1 /\ ptr = NoPtr)
                       \cup Fault("twice", n.visits /\ ptr = NoPtr)
           base == RValue(di, val, <<n>>, faults)
           node == Dot(n, name)
<1>1. n.info \in Infos /\ di \in Infos  BY DotInfoOK DEF NodeOK, Nodes
<1>2. TypeOfInfo(di) # Ill  BY <1>1, TypeOfInfoIs
<1>3. ptr # NoPtr => n.ptr # NoPtr /\ ~n.ptr.element  BY DEF DotPtr
<1>4. ptr = NoPtr => val \in {Ill, ShuffleVector(n.val, ConvertSwizzle(name))}  BY DEF NoPtr
<1>5. ASSUME Clean(n), t # kInvalid, TypeOfInfo(n.info).n = 0, ptr = NoPtr PROVE val = Ill
  <2>1. n.val.n = 0  BY <1>5 DEF NodeOK, ValueOK
  <2>q. QED  BY <1>4, <1>5, <2>1 DEF ShuffleVector, IsVector
<1>6. ASSUME Clean(n), faults # {} PROVE val # TypeOfInfo(di) \/ (n.visits /\ ptr = NoPtr)
  <2>1. CASE t = kStructure /\ ptr = NoPtr
    <3>1. TypeOfInfo(n.info).n = 0  BY <1>1, <2>1, TypeOfInfoParts
    <3>2. val = Ill  BY <1>5, <1>6, <2>1, <3>1, KindsDiffer
    <3>q. QED  BY <1>2, <3>2
  <2>2. CASE TypeElementCnt(t) = 1
    <3>1. t \in ValueTypes /\ t # kStructure /\ t # kInvalid  BY <2>2, Counts, KindsDiffer
    <3>2. TypeOfInfo(n.info).n = 0  BY <1>1, <2>2, <3>1, TypeOfInfoParts
    <3>3. CASE ptr = NoPtr
      <4>1. val = Ill  BY <1>5, <1>6, <3>1, <3>2, <3>3
      <4>q. QED  BY <1>2, <4>1
    <3>4. CASE ptr # NoPtr
      <4>1. ptr = [n.ptr EXCEPT !.element = TRUE] /\ n.ptr.to = TypeOfInfo(n.info)
        BY <1>3, <1>6, <3>1, <3>4 DEF DotPtr, IsMember, NodeOK, PointerOK
      <4>2. n.ptr \in [to : LLVMTypes, element : BOOLEAN]  BY DEF NodeOK, Nodes
      <4>3. ptr.element /\ ptr.to = TypeOfInfo(n.info)  BY <4>1, <4>2
      <4>4. val = ExtractElement(TypeOfInfo(n.info))  BY <3>4, <4>3
      <4>5. val = Ill  BY <3>2, <4>4 DEF ExtractElement, IsVector
      <4>q. QED  BY <1>2, <4>5
    <3>q. QED  BY <3>3, <3>4
  <2>3. CASE TypeElementCnt(t) > 1 /\ cnt = 1 /\ ptr = NoPtr
    <3>1. t \in ValueTypes /\ t # kStructure /\ t # kInvalid  BY <2>3, Counts, KindsDiffer
    <3>2. /\ TypeElementCnt(di.type) = 1 /\ di.type \in ValueTypes
      BY <2>3, <3>1, DotInfoOK
    <3>3. TypeOfInfo(di).n = 0  BY <1>1, <3>2, TypeOfInfoParts, KindsDiffer
    <3>4. Len(ConvertSwizzle(name)) = 1
      <4>1. IsSwizzle(name) /\ Len(name) = 1  BY <2>3 DEF SwizzleCnt
      <4>q. QED  BY <4>1 DEF ConvertSwizzle
    <3>5. val = Ill \/ val.n = 1
      BY <1>4, <2>3, <3>4 DEF ShuffleVector, LLVMType
    <3>q. QED  BY <1>2, <3>3, <3>5
  <2>4. Elements(n) = TypeElementCnt(t)  BY DEF Elements
  <2>q. QED  BY <1>6, <2>1, <2>2, <2>3, <2>4 DEF Fault
<1>7. node = [base EXCEPT !.kind = "dot", !.ptr = ptr, !.visits = n.visits,
                          !.ref  = CachedInfo(n).type = kStructure /\ base.info.asg,
                          !.once = @ /\ ~(n.visits /\ ptr = NoPtr)]
  BY DEF Dot
<1> HIDE DEF val, faults, node, ptr, di
<1>8. /\ base.own => base.faults = faults /\ Clean(n)
      /\ base.info = di /\ base.val = val
  <2>1. /\ base.own => base.faults = faults /\ \A k \in DOMAIN <<n>> : Clean(<<n>>[k])
        /\ base.info = di /\ base.val = val
    BY RValueOwn
  <2>q. QED  BY <2>1
<1>9. base.effects => n.effects
  <2>1. base.effects = \E k \in DOMAIN <<n>> : <<n>>[k].effects  BY DEF RValue
  <2>2. ASSUME base.effects PROVE n.effects
    <3>1. PICK k \in DOMAIN <<n>> : <<n>>[k].effects  BY <2>1, <2>2, Zenon
    <3>2. <<n>>[k] = n  OBVIOUS
    <3>q. QED  BY <3>1, <3>2, Zenon
  <2>q. QED  BY <2>2
<1>10. /\ node.own = base.own /\ node.faults = base.faults /\ node.info = base.info
       /\ node.val = base.val /\ node.ptr = ptr /\ node.effects = base.effects
       /\ node.visits = n.visits
       /\ n.visits /\ ptr = NoPtr => ~node.once
  BY <1>7 DEF RValue
<1> HIDE DEF base
<1>11. node.ptr # NoPtr /\ node.effects => node.visits
  BY <1>3, <1>9, <1>10 DEF MarkOK, ptr
<1>q. QED  BY <1>6, <1>8, <1>10, <1>11 DEF MarkOK, Clean, node

\* An index that is an array, and an indexed value without an address, leave
\* nothing to load from.
LEMMA IndexerMarked ==
    ASSUME NEW n, NEW idx, NodeOK(n), NodeOK(idx), MarkOK(n), IndexerAccepts(n, idx)
    PROVE  MarkOK(Indexer(n, idx))
<1> DEFINE info == Info(n.info.type, n.info.str, 0, TRUE)
           ptr == IF n.ptr = NoPtr \/ n.ptr.element \/ idx.val # Scalar("int") THEN NoPtr
                  ELSE PtrTo(IF IsArray(n) THEN ElementOf(n.ptr.to) ELSE n.ptr.to)
           faults == Fault("array", IsArray(idx)) \cup Fault("rvalue", n.kind = "rvalue")
           base == RValue(info, ptr.to, <<n, idx>>, faults)
           node == Indexer(n, idx)
<1>1. /\ n.info \in Infos /\ idx.info \in Infos /\ info \in Infos
  BY DEF NodeOK, Nodes, Infos, Info
<1>2. TypeOfInfo(info) # Ill  BY <1>1, TypeOfInfoIs
<1>3. NoPtr.to = Ill  BY DEF NoPtr
<1>4. ASSUME faults # {}, Clean(n), Clean(idx) PROVE ptr.to = Ill
  <2>1. CASE n.kind = "rvalue"  BY <1>3, <2>1 DEF NodeOK
  <2>2. CASE IsArray(idx)
    <3>1. TypeOfInfo(idx.info).arr > 0  BY <1>1, <2>2, TypeOfInfoParts DEF IsArray
    <3>2. kInt # kInvalid  BY Scalars, KindsDiffer DEF ValueTypes
    <3>3. idx.val = TypeOfInfo(idx.info)  BY <1>4, <3>2 DEF IndexerAccepts, NodeOK, ValueOK
    <3>4. idx.val # Scalar("int")  BY <3>1, <3>3 DEF Scalar, LLVMType
    <3>q. QED  BY <1>3, <3>4
  <2>q. QED  BY <1>4, <2>1, <2>2 DEF Fault
<1>5. ptr # NoPtr => n.ptr # NoPtr  OBVIOUS
<1>6. node = [base EXCEPT !.kind = "indexer", !.ptr = ptr, !.ref = TRUE,
                          !.visits = n.visits \/ idx.effects]
  BY DEF Indexer
<1> HIDE DEF ptr, faults, info, node
<1>7. /\ base.own => base.faults = faults /\ Clean(n) /\ Clean(idx)
      /\ base.info = info /\ base.val = ptr.to
  <2>1. /\ base.own => base.faults = faults /\ \A k \in DOMAIN <<n, idx>> : Clean(<<n, idx>>[k])
        /\ base.info = info /\ base.val = ptr.to
    BY RValueOwn
  <2>q. QED  BY <2>1
<1>8. base.effects => n.effects \/ idx.effects
  <2>1. base.effects = \E k \in DOMAIN <<n, idx>> : <<n, idx>>[k].effects  BY DEF RValue
  <2>2. ASSUME base.effects PROVE n.effects \/ idx.effects
    <3>1. PICK k \in DOMAIN <<n, idx>> : <<n, idx>>[k].effects  BY <2>1, <2>2, Zenon
    <3>2. <<n, idx>>[k] = n \/ <<n, idx>>[k] = idx  OBVIOUS
    <3>q. QED  BY <3>1, <3>2, Zenon
  <2>q. QED  BY <2>2
<1>9. /\ node.own = base.own /\ node.faults = base.faults /\ node.info = base.info
      /\ node.val = base.val /\ node.ptr = ptr /\ node.effects = base.effects
      /\ node.visits <=> n.visits \/ idx.effects
  BY <1>6 DEF RValue
<1> HIDE DEF base
<1>10. node.ptr # NoPtr /\ node.effects => node.visits
  BY <1>5, <1>8, <1>9 DEF MarkOK
<1>q. QED  BY <1>2, <1>4, <1>7, <1>9, <1>10 DEF MarkOK, Clean, node

\* A value whose conversion has a fault is not of the type it is wanted as.
LEMMA ConvertBad ==
    ASSUME NEW to \in Infos, to.arr <= 0, to.type # kInvalid,
           NEW n, NodeOK(n), Clean(n), n.info.arr <= 0,
           IF to.type = kStructure THEN to.str = n.info.str
                                   ELSE CompatibleTypes(to.type, n.info.type),
           CastFaults(n.info.type, to.type) # {}
    PROVE  /\ CastValueType(n.val, n.info.type, to.type) # TypeOfInfo(to)
           /\ n.info.type # kInvalid
<1>1. n.info \in Infos  BY DEF NodeOK, Nodes
<1>2. CASE to.type = kStructure
  <2>1. n.info.type = kStructure  BY <1>1, <1>2 DEF Infos
  <2>2. TypeElementCnt(kStructure) = 0  BY Counts, KindsDiffer
  <2>3. CastFaults(kStructure, kStructure) = {}  BY <2>2 DEF CastFaults
  <2>q. QED  BY <1>2, <2>1, <2>3
<1>3. CASE to.type = kExternType /\ n.info.type = kExternType
  <2>2. TypeElementCnt(kExternType) = 0  BY Counts, KindsDiffer
  <2>3. CastFaults(kExternType, kExternType) = {}  BY <2>2 DEF CastFaults
  <2>q. QED  BY <1>3, <2>3
<1>4. CASE to.type \in ValueTypes /\ TypeElementCnt(to.type) <= TypeElementCnt(n.info.type)
  <2>1. n.info.type \in ValueTypes  BY <1>4, Counts
  <2>2. n.val = ConvertToLLVMType(n.info.type)  BY <2>1, ValueOfType, KindsDiffer
  <2>3. TypeOfInfo(to) = ConvertToLLVMType(to.type)  BY <1>4, TypeOfInfoIs, KindsDiffer
  <2>q. QED  BY <1>4, <2>1, <2>2, <2>3, CastBad, KindsDiffer
<1>q. QED  BY <1>2, <1>3, <1>4 DEF CompatibleTypes, IsValueType

LEMMA ConstantMarked ==
    ASSUME NEW t PROVE MarkOK(Constant(t))
BY RValueMarked DEF Constant

LEMMA VariableRefMarked ==
    ASSUME NEW i \in Infos, NEW g PROVE MarkOK(VariableRef(i, g))
<1> DEFINE info == [i EXCEPT !.asg = TRUE]
           faults == Fault("hidden", TypeOfInfo(g) # TypeOfInfo(i))
           base == RValue(info, TypeOfInfo(g), <<>>, faults)
           node == VariableRef(i, g)
<1>1. base.faults = faults /\ ~base.effects /\ base.val = TypeOfInfo(g) /\ base.info = info
  <2>1. DOMAIN <<>> = {}  OBVIOUS
  <2> HIDE DEF faults, info
  <2>2. base.faults = faults \cup UNION {<<>>[k].faults : k \in DOMAIN <<>>}
        /\ base.val = TypeOfInfo(g) /\ base.info = info
    BY DEF RValue
  <2>3. base.effects <=> \E k \in DOMAIN <<>> : <<>>[k].effects  BY DEF RValue
  <2>4. ~base.effects  BY <2>1, <2>3
  <2>q. QED  BY <2>1, <2>2, <2>4
<1>2. node = [base EXCEPT !.kind = "variable", !.ref = (i.arr = 0), !.ptr = PtrTo(TypeOfInfo(g))]
  BY DEF VariableRef
<1>3. TypeOfInfo(info) = TypeOfInfo(i)
  <2>1. info.type = i.type /\ info.str = i.str /\ info.arr = i.arr  BY DEF Infos
  <2>q. QED  BY <2>1 DEF TypeOfInfo
<1>4. faults # {} => TypeOfInfo(g) # TypeOfInfo(i)  BY DEF Fault
<1> HIDE DEF node, info, faults
<1>5. /\ node.faults = base.faults /\ node.effects = base.effects
      /\ node.val = base.val /\ node.info = base.info
  BY <1>2 DEF RValue
<1> HIDE DEF base
<1>q. QED  BY <1>1, <1>3, <1>4, <1>5 DEF MarkOK, Clean, node

\* A call with an argument that is not converted to the parameter's type.
LEMMA CallMarked ==
    ASSUME NEW f \in Functions, NEW args, \A k \in DOMAIN args : NodeOK(args[k]) /\ CachedOK(args[k]),
           DOMAIN args = DOMAIN f.args, CallAccepts(f, args)
    PROVE  MarkOK(Call(f, args))
<1> DEFINE fits == \A k \in DOMAIN f.args :
                      Passed(f.args[k].to, f.args[k].isByRef, args[k]) = TypeOfInfo(f.args[k].to)
           val == IF fits THEN TypeOfInfo(f.ret) ELSE Ill
           own(k) == IF f.args[k].isByRef THEN {}
                     ELSE CastFaults(args[k].info.type, f.args[k].to.type)
           faults == UNION {own(k) : k \in DOMAIN f.args}
           base == RValue(f.ret, val, args, faults)
           node == Call(f, args)
<1>1. f.ret \in Infos
  <2>1. Value(kVoid) \in Infos  BY ValueInfos
  <2>q. QED  BY <2>1, FunctionsAssumption DEF DeclaredTypes
<1>2. TypeOfInfo(f.ret) # Ill  BY <1>1, TypeOfInfoIs
<1>3. \A k \in DOMAIN f.args : /\ f.args[k].to \in DeclaredTypes /\ Plain(f.args[k].to)
                               /\ f.args[k].isByRef \in BOOLEAN
  <2> DEFINE Arguments == [to : {i \in DeclaredTypes : Plain(i)}, isByRef : BOOLEAN]
  <2>1. f.args \in Seq(Arguments)  BY FunctionsAssumption
  <2>2. \A a \in Arguments : a.to \in DeclaredTypes /\ Plain(a.to) /\ a.isByRef \in BOOLEAN
    OBVIOUS
  <2> HIDE DEF Arguments
  <2>3. \A k \in DOMAIN f.args : f.args[k] \in Arguments  BY <2>1
  <2>q. QED  BY <2>2, <2>3
<1>4. ASSUME faults # {}, \A k \in DOMAIN args : Clean(args[k]) PROVE val # TypeOfInfo(f.ret)
  <2>1. PICK k \in DOMAIN f.args : own(k) # {}
    <3> HIDE DEF own
    <3>q. QED  BY <1>4
  <2> DEFINE to == f.args[k].to
             n  == args[k]
  <2>2. ~f.args[k].isByRef /\ CastFaults(n.info.type, to.type) # {}  BY <2>1
  <2>3. /\ n.info.arr <= 0 /\ to.arr <= 0
        /\ IF to.type = kStructure THEN to.str = n.info.str
                                   ELSE CompatibleTypes(to.type, n.info.type)
    BY <2>1, <2>2 DEF CallAccepts, IsTypeCompatible
  <2>4. to \in Infos /\ to.type # kInvalid  BY <1>3, <2>1 DEF DeclaredTypes
  <2>5. NodeOK(n) /\ CachedOK(n) /\ Clean(n)  BY <1>4, <2>1
  <2>6. Passed(to, f.args[k].isByRef, n) = CastValueType(n.val, CachedInfo(n).type, to.type)
    BY <2>2 DEF Passed
  <2> HIDE DEF to, n, val, fits, faults, own
  <2>7. CastValueType(n.val, n.info.type, to.type) # TypeOfInfo(to) /\ n.info.type # kInvalid
    BY <2>2, <2>3, <2>4, <2>5, ConvertBad
  <2>8. CachedInfo(n) = n.info  BY <2>5, <2>7 DEF CachedOK, CachedInfo
  <2>9. ~fits  BY <2>1, <2>6, <2>7, <2>8 DEF fits, to, n
  <2>q. QED  BY <1>2, <2>9 DEF val
<1>5. node = [base EXCEPT !.effects = TRUE]  BY DEF Call
<1> HIDE DEF val, faults, node, fits
<1>6. /\ base.own => base.faults = faults /\ \A k \in DOMAIN args : Clean(args[k])
      /\ base.info = f.ret /\ base.val = val /\ base.ptr = NoPtr
  BY RValueOwn
<1>7. /\ node.own = base.own /\ node.faults = base.faults /\ node.info = base.info
      /\ node.val = base.val /\ node.ptr = base.ptr
  BY <1>5 DEF RValue
<1> HIDE DEF base
<1>q. QED  BY <1>4, <1>6, <1>7 DEF MarkOK, Clean, node

\* An array among the values of an initialiser is not taken apart.
LEMMA InitializerMarked ==
    ASSUME NEW t \in InitTypes, NEW args \in Seq(Nodes), Len(args) \in 1..4,
           Len(args) <= TypeElementCnt(t),
           \A k \in DOMAIN args : NodeOK(args[k]) /\ CachedOK(args[k]),
           InitializerAccepts(t, args)
    PROVE  MarkOK(Initializer(t, args))
<1> DEFINE type == ConvertToLLVMType(t)
           fits == \A k \in DOMAIN args : InsertElement(type, Contributed(t, args[k])) = type
           val  == IF TypeElementCnt(t) = 1
                   THEN CastValueType(args[1].val, CachedInfo(args[1]).type, t)
                   ELSE IF fits THEN type ELSE Ill
           faults == Fault("array", \E k \in DOMAIN args : IsArray(args[k]))
                       \cup Fault("wide", TypeElementCnt(t) = 8)
<1>1. t \in ValueTypes
  <2>1. t \in FloatTypes \cup IntegerTypes  BY InitTypesAssumption
  <2>q. QED  BY <2>1 DEF ValueTypes
<1>2. TypeOfInfo(Value(t)) = type /\ type # Ill /\ type.arr = 0 /\ type.elem # "ill-typed"
  <2>1. Value(t) \in Infos /\ Value(t).type = t /\ Value(t).arr = 0
    BY <1>1, ValueInfos DEF Value, Info
  <2>q. QED  BY <1>1, <2>1, TypeOfInfoIs, LLVMForms, KindsDiffer
<1>3. ASSUME NEW k \in DOMAIN args, IsArray(args[k]), Clean(args[k])
      PROVE  args[k].val.arr > 0
  <2>1. args[k].info.type \in FloatTypes \cup IntegerTypes  BY DEF InitializerAccepts
  <2>2. args[k].info.type # kInvalid  BY <2>1, KindsDiffer DEF ValueTypes
  <2>3. NodeOK(args[k]) /\ args[k].info \in Infos  BY DEF NodeOK, Nodes
  <2>4. args[k].val = TypeOfInfo(args[k].info)  BY <1>3, <2>2, <2>3 DEF NodeOK, ValueOK
  <2>5. TypeOfInfo(args[k].info).arr > 0  BY <1>3, <2>3, TypeOfInfoParts DEF IsArray
  <2>q. QED  BY <2>4, <2>5
<1>4. ASSUME faults # {}, "wide" \notin faults, \A k \in DOMAIN args : Clean(args[k])
      PROVE  val # TypeOfInfo(Value(t))
  <2>1. PICK k \in DOMAIN args : IsArray(args[k])  BY <1>4 DEF Fault
  <2> DEFINE v == args[k].val
  <2>2. v.arr > 0  BY <1>3, <1>4, <2>1
  <2> HIDE DEF type
  <2>3. CASE TypeElementCnt(t) = 1
    <3>1. k = 1  BY <2>3
    <3>2. CastValueType(v, CachedInfo(args[k]).type, t) \in {v, Ill}
      <4> HIDE DEF v
      <4>q. QED  BY <2>2, CastArray
    <3>3. v # type  BY <1>2, <2>2
    <3>q. QED  BY <1>2, <2>3, <3>1, <3>2, <3>3
  <2>4. CASE TypeElementCnt(t) # 1
    <3> DEFINE src == CachedInfo(args[k]).type
    <3>1. ExtractElement(v) = Ill  BY <2>2 DEF ExtractElement, IsVector
    <3>2. \/ Contributed(t, args[k]) = CastValueType(Ill, ScalarOf(src), ScalarOf(t))
          \/ Contributed(t, args[k]) = CastValueType(v, src, ScalarOf(t))
      BY <3>1 DEF Contributed
    <3> HIDE DEF v, src
    <3>3. InsertElement(type, Contributed(t, args[k])) = Ill
      <4>1. InsertElement(type, CastValueType(Ill, ScalarOf(src), ScalarOf(t))) = Ill
        BY <1>2, CastArray
      <4>2. InsertElement(type, CastValueType(v, src, ScalarOf(t))) = Ill
        BY <1>2, <2>2, CastArray
      <4>q. QED  BY <3>2, <4>1, <4>2
    <3>4. ~fits  BY <1>2, <2>1, <3>3
    <3>q. QED  BY <1>2, <2>4, <3>4
  <2>q. QED  BY <2>3, <2>4
<1>5. Initializer(t, args) = RValue(Value(t), val, args, faults)  BY DEF Initializer
<1> HIDE DEF val, faults
<1>q. QED  BY <1>4, <1>5, RValueMarked

\* An 8-wide initialiser is always marked, and has no address.
LEMMA InitializerWide ==
    ASSUME NEW t, NEW args
    PROVE  /\ Initializer(t, args).ptr = NoPtr
           /\ TypeElementCnt(t) = 8 => "wide" \in Initializer(t, args).faults
BY DEF Initializer, RValue, Fault

\* A definition whose value is not converted to the variable's type.
LEMMA VarDefMarked ==
    ASSUME NEW i \in DefTypes, NEW n, NodeOK(n), CachedOK(n), VarDefAccepts(i, n),
           NEW again \in BOOLEAN
    PROVE  MarkOK(VarDef(i, n, again))
<1> DEFINE cast == CastValueType(n.val, CachedInfo(n).type, i.type)
           val == IF again THEN Ill ELSE Store(cast, TypeOfInfo(i))
           faults == Fault("again", again) \cup
                     IF i.arr = 0 /\ ~IsArray(n) THEN CastFaults(n.info.type, i.type)
                     ELSE Fault("array", TypeOfInfo(i) # TypeOfInfo(n.info))
<1>1. i \in Infos /\ i.arr \in Int /\ i.arr >= 0 /\ i.type \notin {kInvalid, kStructure}
  BY DefTypesAssumption DEF DeclaredTypes, Infos
<1>2. n.info \in Infos /\ n.info.arr \in Int  BY DEF NodeOK, Nodes, Infos
<1>3. n.info.type # kInvalid /\ CachedInfo(n) = n.info
  <2>1. /\ \/ i.type = kExternType /\ n.info.type = kExternType
           \/ /\ i.type \in ValueTypes
              /\ TypeElementCnt(i.type) <= TypeElementCnt(n.info.type)
    BY DEF VarDefAccepts, CompatibleTypes, IsValueType
  <2>2. TypeElementCnt(i.type) \in Nat /\ TypeElementCnt(n.info.type) \in Nat  BY Counts
  <2>3. n.info.type \in ValueTypes \cup {kExternType}  BY <2>1, <2>2, Counts
  <2>q. QED  BY <2>3, KindsDiffer DEF CachedOK, CachedInfo
<1>4. ASSUME faults # {}, ~again, Clean(n) PROVE cast # TypeOfInfo(i)
  <2> DEFINE v == n.val
  <2>1. v = TypeOfInfo(n.info)  BY <1>3, <1>4 DEF NodeOK, ValueOK
  <2>2. CASE i.arr = 0 /\ ~IsArray(n)
    <3>1. CastFaults(n.info.type, i.type) # {} /\ n.info.arr <= 0 /\ i.arr <= 0
      BY <1>2, <1>4, <2>2 DEF IsArray, Fault
    <3>2. CompatibleTypes(i.type, n.info.type)  BY DEF VarDefAccepts
    <3> HIDE DEF faults, val
    <3>q. QED  BY <1>1, <1>3, <1>4, <3>1, <3>2, ConvertBad
  <2>3. CASE IsArray(n)
    <3>1. TypeOfInfo(i) # v  BY <1>4, <2>1, <2>3 DEF Fault
    <3>2. v.arr > 0  BY <1>2, <2>1, <2>3, TypeOfInfoParts DEF IsArray
    <3>3. cast \in {v, Ill}
      <4> HIDE DEF v, faults, val
      <4>1. CastValueType(v, CachedInfo(n).type, i.type) \in {v, Ill}  BY <3>2, CastArray
      <4>q. QED  BY <4>1 DEF v
    <3>4. TypeOfInfo(i) # Ill  BY <1>1, TypeOfInfoIs
    <3>q. QED  BY <3>1, <3>3, <3>4
  <2>4. CASE i.arr > 0 /\ ~IsArray(n)
    <3>1. v.arr = 0  BY <1>2, <2>1, <2>4, TypeOfInfoParts DEF IsArray
    <3>2. cast.arr = 0
      <4> HIDE DEF v, faults, val
      <4>1. CastValueType(v, CachedInfo(n).type, i.type).arr = 0  BY <3>1, CastFlat
      <4>q. QED  BY <4>1 DEF v
    <3>3. TypeOfInfo(i).arr > 0  BY <1>1, <2>4, TypeOfInfoParts
    <3>q. QED  BY <3>2, <3>3
  <2>q. QED  BY <1>1, <2>2, <2>3, <2>4
<1>5. ASSUME faults # {}, Clean(n) PROVE val # TypeOfInfo(Value(kVoid))
  <2>1. val = Ill
    <3>1. CASE again  BY <3>1
    <3>2. CASE ~again  BY <1>4, <1>5, <3>2 DEF Store, Effect
    <3>q. QED  BY <3>1, <3>2
  <2>q. QED  BY <2>1, VoidOK
<1>6. VarDef(i, n, again) = RValue(Value(kVoid), val, <<n>>, faults)  BY DEF VarDef
<1> HIDE DEF val, faults
<1>7. (\A k \in DOMAIN <<n>> : Clean(<<n>>[k])) => Clean(n)  OBVIOUS
<1>q. QED  BY <1>5, <1>6, <1>7, RValueMarked

\* A returned value that is not converted to the function's type.
LEMMA FuncRetMarked ==
    ASSUME NEW f \in Functions, NEW n, NodeOK(n), FuncRetAccepts(f.ret, n)
    PROVE  MarkOK(FuncRet(f.ret, n))
<1> DEFINE cast == CastValueType(n.val, n.info.type, f.ret.type)
           val == Store(cast, TypeOfInfo(f.ret))
           faults == CastFaults(n.info.type, f.ret.type)
<1>1. f.ret \in Infos /\ f.ret.type # kInvalid /\ f.ret.arr = 0
  <2>1. Value(kVoid).type = kVoid  BY DEF Value, Info
  <2>q. QED  BY <2>1, VoidOK, FunctionsAssumption, KindsDiffer DEF DeclaredTypes, Plain
<1>2. ASSUME faults # {}, Clean(n) PROVE val # TypeOfInfo(Value(kVoid))
  <2>1. /\ n.info.arr <= 0
        /\ IF f.ret.type = kStructure THEN f.ret.str = n.info.str
                                      ELSE CompatibleTypes(f.ret.type, n.info.type)
    BY DEF FuncRetAccepts, IsTypeCompatible
  <2>2. cast # TypeOfInfo(f.ret)
    <3>1. CastFaults(n.info.type, f.ret.type) # {}  BY <1>2
    <3> HIDE DEF val, faults
    <3>q. QED  BY <1>1, <1>2, <2>1, <3>1, ConvertBad
  <2>3. val = Ill  BY <2>2 DEF Store, Effect
  <2>q. QED  BY <2>3, VoidOK
<1>3. FuncRet(f.ret, n) = RValue(Value(kVoid), val, <<n>>, faults)  BY DEF FuncRet
<1> HIDE DEF val, faults
<1>4. (\A k \in DOMAIN <<n>> : Clean(<<n>>[k])) => Clean(n)  OBVIOUS
<1>q. QED  BY <1>2, <1>3, <1>4, RValueMarked

\* An array is no condition.
LEMMA IfMarked ==
    ASSUME NEW n, NodeOK(n), IfAccepts(n)
    PROVE  MarkOK(If(n))
<1> DEFINE t == CachedInfo(n).type
           isTested == \/ n.val = Scalar("bool")
                       \/ t \in {kFloat, kInt, kExternType} /\ n.val = ConvertToLLVMType(t)
           faults == Fault("array", IsArray(n))
<1>1. n.info \in Infos  BY DEF NodeOK, Nodes
<1>2. n.info.type # kInvalid  BY Scalars, KindsDiffer DEF ValueTypes, IfAccepts
<1>3. ASSUME faults # {}, Clean(n) PROVE Effect(isTested) # TypeOfInfo(Value(kVoid))
  <2>1. n.val.arr > 0
    <3>1. n.info.arr > 0  BY <1>3 DEF Fault, IsArray
    <3>2. n.val = TypeOfInfo(n.info)  BY <1>2, <1>3 DEF NodeOK, ValueOK
    <3> HIDE DEF isTested, faults, t
    <3>q. QED  BY <1>1, <3>1, <3>2, TypeOfInfoParts
  <2>2. Scalar("bool").arr = 0 /\ ConvertToLLVMType(t).arr = 0
    BY LLVMForms DEF Scalar, LLVMType
  <2>3. ~isTested  BY <2>1, <2>2
  <2>q. QED  BY <2>3, VoidOK DEF Effect
<1>4. If(n) = RValue(Value(kVoid), Effect(isTested), <<n>>, faults)  BY DEF If
<1> HIDE DEF isTested, faults
<1>5. (\A k \in DOMAIN <<n>> : Clean(<<n>>[k])) => Clean(n)  OBVIOUS
<1>q. QED  BY <1>3, <1>4, <1>5, RValueMarked

LEMMA ForMarked ==
    ASSUME NEW n, NodeOK(n), ForAccepts(n)
    PROVE  MarkOK(For(n))
<1> DEFINE isTested == n.val \in {Scalar("bool"), Scalar("int")}
           faults == Fault("array", IsArray(n))
<1>1. n.info \in Infos  BY DEF NodeOK, Nodes
<1>2. n.info.type # kInvalid  BY Scalars, KindsDiffer DEF ValueTypes, ForAccepts
<1>3. ASSUME faults # {}, Clean(n) PROVE Effect(isTested) # TypeOfInfo(Value(kVoid))
  <2>1. n.val.arr > 0
    <3>1. n.info.arr > 0  BY <1>3 DEF Fault, IsArray
    <3>2. n.val = TypeOfInfo(n.info)  BY <1>2, <1>3 DEF NodeOK, ValueOK
    <3> HIDE DEF isTested, faults
    <3>q. QED  BY <1>1, <3>1, <3>2, TypeOfInfoParts
  <2>2. ~isTested  BY <2>1 DEF Scalar, LLVMType
  <2>q. QED  BY <2>2, VoidOK DEF Effect
<1>4. For(n) = RValue(Value(kVoid), Effect(isTested), <<n>>, faults)  BY DEF For
<1> HIDE DEF isTested, faults
<1>5. (\A k \in DOMAIN <<n>> : Clean(<<n>>[k])) => Clean(n)  OBVIOUS
<1>q. QED  BY <1>3, <1>4, <1>5, RValueMarked

-----------------------------------------------------------------------------
(* The inductive invariant: TypeSound alone says nothing of the pointers   *)
(* and of the types kept with the nodes, from which the next node's value  *)
(* is made.                                                                *)
IInv ==
    /\ TypeOK
    /\ \A i \in DOMAIN stack : NodeOK(stack[i]) /\ CachedOK(stack[i]) /\ MarkOK(stack[i])

\* The topmost nodes of the stack.
LEMMA TopIs ==
    ASSUME IInv, NEW k \in Nat, k <= Len(stack)
    PROVE  /\ Top(k) \in Seq(Nodes) /\ Len(Top(k)) = k /\ DOMAIN Top(k) = 1..k
           /\ \A i \in 1..k : NodeOK(Top(k)[i]) /\ CachedOK(Top(k)[i]) /\ MarkOK(Top(k)[i])
<1>1. stack \in Seq(Nodes) /\ Len(stack) \in Nat /\ DOMAIN stack = 1..Len(stack)
  BY DEF IInv, TypeOK
<1>2. Top(k) \in Seq(Nodes) /\ Len(Top(k)) = k
      /\ \A i \in 1..k : Top(k)[i] = stack[Len(stack) - k + i]
  BY <1>1 DEF Top
<1>3. \A i \in 1..k : Len(stack) - k + i \in DOMAIN stack  BY <1>1
<1>4. \A i \in 1..k : NodeOK(Top(k)[i]) /\ CachedOK(Top(k)[i]) /\ MarkOK(Top(k)[i])
  BY <1>2, <1>3 DEF IInv
<1>q. QED  BY <1>2, <1>4

\* A node that is in order takes the place of others.
LEMMA Pushed ==
    ASSUME IInv, nodes < MaxNodes, NEW k \in Nat, k <= Len(stack),
           NEW node, NodeOK(node), CachedOK(node), MarkOK(node),
           nodes' = nodes + 1, UNCHANGED outcome, list' \in VarTypes,
           stack' = Append(SubSeq(stack, 1, Len(stack) - k), node)
    PROVE  IInv'
<1> DEFINE rest == SubSeq(stack, 1, Len(stack) - k)
<1>1. stack \in Seq(Nodes) /\ Len(stack) \in Nat /\ DOMAIN stack = 1..Len(stack)
  BY DEF IInv, TypeOK
<1>2. rest \in Seq(Nodes) /\ Len(rest) = Len(stack) - k
      /\ \A i \in 1..Len(rest) : rest[i] = stack[i] /\ i \in DOMAIN stack
  <2> DEFINE S == Nodes
  <2>1. stack \in Seq(S)  BY <1>1
  <2> HIDE DEF S
  <2>2. Len(stack) - k \in Nat /\ Len(stack) - k <= Len(stack)  BY <1>1
  <2>3. rest \in Seq(S)  BY <2>1, <2>2
  <2>4. Len(rest) = Len(stack) - k  BY <2>1, <2>2
  <2>5. \A i \in 1..(Len(stack) - k) : rest[i] = stack[i]  BY <2>1, <2>2
  <2>6. \A i \in 1..(Len(stack) - k) : i \in DOMAIN stack  BY <1>1, <2>2
  <2>q. QED  BY <2>3, <2>4, <2>5, <2>6 DEF S
<1>3. node \in Nodes  BY DEF NodeOK
<1> HIDE DEF rest
<1>4. stack' = Append(rest, node)  BY DEF rest
<1>5. /\ stack' \in Seq(Nodes) /\ DOMAIN stack' = 1..Len(rest) + 1
      /\ \A i \in 1..Len(rest) : stack'[i] = rest[i]
      /\ stack'[Len(rest) + 1] = node
  <2> DEFINE S == Nodes
  <2>1. rest \in Seq(S) /\ node \in S  BY <1>2, <1>3
  <2> HIDE DEF S
  <2>2. stack' \in Seq(S)
    <3>1. Append(rest, node) \in Seq(S)  BY <2>1
    <3>q. QED  BY <1>4, <3>1
  <2>3. DOMAIN stack' = 1..Len(rest) + 1
    <3>1. Len(Append(rest, node)) = Len(rest) + 1  BY <2>1
    <3>q. QED  BY <1>4, <2>2, <3>1
  <2>4. \A i \in 1..Len(rest) : stack'[i] = rest[i]
    <3>1. \A i \in 1..Len(rest) : Append(rest, node)[i] = rest[i]  BY <2>1
    <3>q. QED  BY <1>4, <3>1
  <2>5. stack'[Len(rest) + 1] = node
    <3>1. Append(rest, node)[Len(rest) + 1] = node  BY <2>1
    <3>q. QED  BY <1>4, <3>1
  <2>q. QED  BY <2>2, <2>3, <2>4, <2>5 DEF S
<1>6. TypeOK'
  <2>1. nodes' \in 0..MaxNodes  BY BoundsAssumption DEF IInv, TypeOK
  <2>q. QED  BY <1>5, <2>1 DEF IInv, TypeOK
<1>7. \A i \in 1..Len(rest) : NodeOK(rest[i]) /\ CachedOK(rest[i]) /\ MarkOK(rest[i])
  BY <1>2 DEF IInv
<1>8. ASSUME NEW i \in DOMAIN stack' PROVE NodeOK(stack'[i]) /\ CachedOK(stack'[i]) /\ MarkOK(stack'[i])
  <2>1. Len(rest) \in Nat  BY <1>2
  <2>2. CASE i \in 1..Len(rest)  BY <1>5, <1>7, <2>2
  <2>3. CASE i = Len(rest) + 1  BY <1>5, <2>3
  <2>q. QED  BY <1>5, <2>1, <2>2, <2>3
<1>q. QED  BY <1>6, <1>8 DEF IInv

\* The statement ends.
LEMMA Ended ==
    ASSUME IInv, nodes < MaxNodes, nodes' = nodes + 1, stack' = <<>>, outcome' = "rejected",
           list' \in VarTypes
    PROVE  IInv'
<1>1. nodes' \in 0..MaxNodes  BY BoundsAssumption DEF IInv, TypeOK
<1>2. stack' \in Seq(Nodes) /\ DOMAIN stack' = {}  OBVIOUS
<1>q. QED  BY <1>1, <1>2 DEF IInv, TypeOK

\* Every step that makes a parent is one of the two.
LEMMA ParentKeeps ==
    ASSUME IInv, nodes < MaxNodes, NEW k \in Nat, Ready(k), NEW accepted \in BOOLEAN, NEW node,
           Parent(k, accepted, node), accepted => NodeOK(node) /\ CachedOK(node) /\ MarkOK(node)
    PROVE  IInv'
<1>1. k <= Len(stack)  BY DEF Ready
<1>2. list' \in VarTypes  BY DEF Parent, IInv, TypeOK
<1>3. CASE accepted  BY <1>1, <1>2, <1>3, Pushed DEF Parent, Built
<1>4. CASE ~accepted  BY <1>1, <1>2, <1>4, Ended DEF Parent, Built
<1>q. QED  BY <1>3, <1>4

LEMMA InitIInv == Init => IInv
<1> SUFFICES ASSUME Init PROVE IInv  OBVIOUS
<1>1. stack = <<>> /\ nodes = 0 /\ outcome = "open" /\ list \in VarTypes
  BY KindsDiffer DEF Init, VarTypes
<1>2. stack \in Seq(Nodes) /\ DOMAIN stack = {}  BY <1>1
<1>3. nodes \in 0..MaxNodes  BY <1>1, BoundsAssumption
<1>q. QED  BY <1>1, <1>2, <1>3 DEF IInv, TypeOK

LEMMA LeafKeeps ==
    ASSUME IInv, nodes < MaxNodes, NEW node, NodeOK(node), CachedOK(node), MarkOK(node), Leaf(node),
           list' \in VarTypes
    PROVE  IInv'
<1>1. Ready(0) /\ Built(0, TRUE, node)  BY DEF Leaf
<1>2. 0 \in Nat /\ 0 <= Len(stack)  BY <1>1 DEF Ready
<1>q. QED  BY <1>1, <1>2, Pushed DEF Built

\* Every step keeps the invariant: one step of the proof for each action.
LEMMA StepKeeps == ASSUME IInv, Next PROVE IInv'
<1>0. nodes < MaxNodes  BY DEF Next
<1>1. CASE MakeConstant
  <2>1. PICK t \in {kFloat, kInt, kBoolean} : Leaf(Constant(t)) /\ UNCHANGED list
    BY <1>1 DEF MakeConstant
  <2>2. list' \in VarTypes  BY <2>1 DEF IInv, TypeOK
  <2>q. QED  BY <2>1, <2>2, ConstantOK, ConstantMarked, <1>0, LeafKeeps
<1>2. CASE MakeVariableRef
  <2>1. PICK i \in Variables : Leaf(VariableRef(i, i)) /\ UNCHANGED list
    BY <1>2 DEF MakeVariableRef
  <2>2. list' \in VarTypes  BY <2>1 DEF IInv, TypeOK
  <2>3. i \in Infos /\ i.type # kInvalid  BY VariablesAssumption DEF DeclaredTypes
  <2>q. QED  BY <2>1, <2>2, <2>3, VariableRefOK, VariableRefMarked, <1>0, LeafKeeps
<1>17. CASE MakeHiddenRef
  <2>1. PICK i \in Variables, g \in DefTypes : Leaf(VariableRef(i, g)) /\ list' = g.type
    BY <1>17 DEF MakeHiddenRef
  <2>2. i \in Infos /\ i.type # kInvalid  BY VariablesAssumption DEF DeclaredTypes
  <2>3. g \in Infos /\ g.type \in VarTypes  BY DefTypesAssumption DEF DeclaredTypes, Infos
  <2>q. QED  BY <2>1, <2>2, <2>3, VariableRefOK, VariableRefMarked, <1>0, LeafKeeps
<1>3. CASE MakeUnary
  <2> DEFINE n == Top(1)[1]
  <2>1. PICK op \in {"!", "-"} : Ready(1) /\ Parent(1, UnaryAccepts(op, n), Unary(op, n))
    BY <1>3 DEF MakeUnary
  <2>2. NodeOK(n) /\ CachedOK(n) /\ MarkOK(n)  BY <2>1, TopIs DEF Ready
  <2>3. UnaryAccepts(op, n) \in BOOLEAN  BY DEF UnaryAccepts
  <2> HIDE DEF n
  <2>q. QED  BY <2>1, <2>2, <2>3, UnaryOK, UnaryMarked, <1>0, ParentKeeps
<1>4. CASE MakeBinary
  <2> DEFINE l == Top(2)[1]
             r == Top(2)[2]
  <2>1. PICK op \in Operators : Ready(2) /\ Parent(2, BinaryAccepts(op, l, r), Binary(op, l, r))
    BY <1>4 DEF MakeBinary
  <2>2. NodeOK(l) /\ NodeOK(r) /\ CachedOK(l) /\ MarkOK(l)  BY <2>1, TopIs DEF Ready
  <2>3. BinaryAccepts(op, l, r) \in BOOLEAN  BY DEF BinaryAccepts, ValuesAccept
  <2> HIDE DEF l, r
  <2>q. QED  BY <2>1, <2>2, <2>3, BinaryOK, BinaryMarked, <1>0, ParentKeeps
<1>5. CASE MakeSelect
  <2> DEFINE l == Top(4)[1]
             c == Top(4)[2]
             a == Top(4)[3]
             b == Top(4)[4]
             s == Select(c, a, b)
  <2>1. PICK op \in Operators :
           Ready(4) /\ Parent(4, SelectAccepts(c, a, b) /\ BinaryAccepts(op, l, s), Binary(op, l, s))
    BY <1>5 DEF MakeSelect
  <2>2. NodeOK(l) /\ CachedOK(l) /\ MarkOK(l) /\ NodeOK(c) /\ NodeOK(a) /\ NodeOK(b)
    BY <2>1, TopIs DEF Ready
  <2>3. (SelectAccepts(c, a, b) /\ BinaryAccepts(op, l, s)) \in BOOLEAN  OBVIOUS
  <2>4. SelectAccepts(c, a, b) => NodeOK(s)
    <3> HIDE DEF l, c, a, b
    <3>q. QED  BY <2>2, SelectOK
  <2> HIDE DEF l, c, a, b, s
  <2>5. SelectAccepts(c, a, b) /\ BinaryAccepts(op, l, s) =>
           NodeOK(Binary(op, l, s)) /\ CachedOK(Binary(op, l, s)) /\ MarkOK(Binary(op, l, s))
    BY <2>2, <2>4, BinaryOK, BinaryMarked
  <2>q. QED  BY <2>1, <2>3, <2>5, <1>0, ParentKeeps
<1>6. CASE MakeDot
  <2> DEFINE n == Top(1)[1]
  <2>1. PICK name \in Names : Ready(1) /\ Parent(1, DotAccepts(n, name), Dot(n, name))
    BY <1>6 DEF MakeDot
  <2>2. NodeOK(n) /\ CachedOK(n) /\ MarkOK(n)  BY <2>1, TopIs DEF Ready
  <2>3. DotAccepts(n, name) \in BOOLEAN  BY DEF DotAccepts, IsMember
  <2> HIDE DEF n
  <2>q. QED  BY <2>1, <2>2, <2>3, DotOK, DotMarked, <1>0, ParentKeeps
<1>7. CASE MakeIndexer
  <2> DEFINE n == Top(2)[1]
             idx == Top(2)[2]
  <2>1. Ready(2) /\ Parent(2, IndexerAccepts(n, idx), Indexer(n, idx))  BY <1>7 DEF MakeIndexer
  <2>2. NodeOK(n) /\ NodeOK(idx) /\ CachedOK(n) /\ CachedOK(idx) /\ MarkOK(n)  BY <2>1, TopIs DEF Ready
  <2>3. IndexerAccepts(n, idx) \in BOOLEAN  BY DEF IndexerAccepts
  <2> HIDE DEF n, idx
  <2>q. QED  BY <2>1, <2>2, <2>3, IndexerOK, IndexerMarked, <1>0, ParentKeeps
<1>8. CASE MakeCall
  <2>1. PICK f \in Functions :
           /\ Ready(Len(f.args))
           /\ Parent(Len(f.args), CallAccepts(f, Top(Len(f.args))), Call(f, Top(Len(f.args))))
    BY <1>8 DEF MakeCall
  <2> DEFINE k == Len(f.args)
             args == Top(k)
  <2>2. k \in Nat /\ DOMAIN f.args = 1..k  BY FunctionsAssumption
  <2>3. DOMAIN args = DOMAIN f.args /\ \A i \in DOMAIN args : NodeOK(args[i]) /\ CachedOK(args[i])
    BY <2>1, <2>2, TopIs DEF Ready
  <2>4. CallAccepts(f, args) \in BOOLEAN  BY DEF CallAccepts
  <2> HIDE DEF k, args
  <2>5. CallAccepts(f, args) => NodeOK(Call(f, args)) /\ CachedOK(Call(f, args)) /\ MarkOK(Call(f, args))
    BY <2>3, CallOK, CallMarked
  <2>6. Ready(k) /\ Parent(k, CallAccepts(f, args), Call(f, args))  BY <2>1 DEF k, args
  <2>q. QED  BY <2>2, <2>4, <2>5, <2>6, <1>0, ParentKeeps
<1>9. CASE MakeInitializer
  <2>1. PICK t \in InitTypes, k \in 1..4, survives \in BOOLEAN :
           /\ k <= TypeElementCnt(t) /\ Ready(k)
           /\ survives \/ TypeElementCnt(t) = 8
           /\ Parent(k, InitializerAccepts(t, Top(k)),
                     IF survives THEN Initializer(t, Top(k))
                                 ELSE [Initializer(t, Top(k)) EXCEPT !.val = Ill])
    BY <1>9 DEF MakeInitializer
  <2> DEFINE args == Top(k)
             init == Initializer(t, args)
             node == IF survives THEN init ELSE [init EXCEPT !.val = Ill]
  <2>2. k \in Nat /\ k <= Len(stack)  BY <2>1 DEF Ready
  <2>3. /\ args \in Seq(Nodes) /\ Len(args) = k
        /\ \A i \in DOMAIN args : NodeOK(args[i]) /\ CachedOK(args[i])
    BY <2>2, TopIs
  <2>4. InitializerAccepts(t, args) \in BOOLEAN  BY DEF InitializerAccepts
  <2> HIDE DEF args
  <2>5. InitializerAccepts(t, args) =>
           /\ NodeOK(init) /\ CachedOK(init) /\ MarkOK(init)
           /\ TypeElementCnt(t) = 8 => ~Clean(init) /\ "wide" \in init.faults /\ init.ptr = NoPtr
    BY <2>1, <2>3, InitializerOK, InitializerMarked, InitializerWide
  <2> HIDE DEF init
  <2>6. InitializerAccepts(t, args) => NodeOK(node) /\ CachedOK(node) /\ MarkOK(node)
    <3>1. CASE survives  BY <2>5, <3>1
    <3>2. CASE ~survives
      <4>1. TypeElementCnt(t) = 8  BY <2>1, <3>2
      <4>q. QED  BY <2>5, <3>2, <4>1, LLVMTypesMade
         DEF NodeOK, CachedOK, MarkOK, Nodes, Clean
    <3>q. QED  BY <3>1, <3>2
  <2>7. Parent(k, InitializerAccepts(t, args), node)  BY <2>1 DEF args, init
  <2> HIDE DEF node
  <2>q. QED  BY <2>1, <2>2, <2>4, <2>6, <2>7, <1>0, ParentKeeps
<1>10. ASSUME NEW types, NEW accepted \in BOOLEAN, NEW node, Statement(types, accepted, node),
              accepted => NodeOK(node) /\ CachedOK(node) /\ MarkOK(node)
       PROVE  IInv'
  <2>1. nodes < MaxNodes /\ nodes' = nodes + 1 /\ list' \in VarTypes
    BY <1>0, <1>10 DEF Statement, Ready, IInv, TypeOK
  <2>2. CASE accepted
    <3>1. stack' = <<node>> /\ outcome' = "done"  BY <1>10, <2>2 DEF Statement
    <3>2. node \in Nodes  BY <1>10, <2>2 DEF NodeOK
    <3>3. stack' \in Seq(Nodes) /\ DOMAIN stack' = {1} /\ stack'[1] = node
      <4> DEFINE S == Nodes
      <4>1. node \in S  BY <3>2
      <4> HIDE DEF S
      <4>2. <<node>> \in Seq(S) /\ DOMAIN <<node>> = {1} /\ <<node>>[1] = node  BY <4>1
      <4>q. QED  BY <3>1, <4>2 DEF S
    <3>4. nodes' \in 0..MaxNodes  BY <2>1, BoundsAssumption DEF IInv, TypeOK
    <3>5. TypeOK'  BY <2>1, <3>1, <3>3, <3>4 DEF TypeOK
    <3>6. \A i \in DOMAIN stack' : NodeOK(stack'[i]) /\ CachedOK(stack'[i]) /\ MarkOK(stack'[i])
      BY <1>10, <2>2, <3>3
    <3>q. QED  BY <3>5, <3>6 DEF IInv
  <2>3. CASE ~accepted
    <3>1. stack' = <<>> /\ outcome' = "rejected"  BY <1>10, <2>3 DEF Statement
    <3>q. QED  BY <2>1, <3>1, Ended
  <2>q. QED  BY <1>10, <2>2, <2>3
<1>11. Ready(1) /\ Len(stack) = 1 => NodeOK(stack[1]) /\ CachedOK(stack[1]) /\ MarkOK(stack[1])
  <2>1. stack \in Seq(Nodes)  BY DEF IInv, TypeOK
  <2>2. Len(stack) = 1 => 1 \in DOMAIN stack  BY <2>1
  <2>q. QED  BY <2>2 DEF IInv
<1>12. CASE MakeVarDef
  <2> DEFINE n == stack[1]
  <2>1. PICK i \in DefTypes, again \in BOOLEAN :
           Statement({kVoid, i.type}, VarDefAccepts(i, n), VarDef(i, n, again))
    BY <1>12 DEF MakeVarDef
  <2>2. NodeOK(n) /\ CachedOK(n) /\ MarkOK(n)  BY <1>11, <2>1 DEF Statement
  <2>3. VarDefAccepts(i, n) \in BOOLEAN  BY DEF VarDefAccepts, CompatibleTypes
  <2> HIDE DEF n
  <2>q. QED  BY <1>10, <2>1, <2>2, <2>3, VarDefOK, VarDefMarked
<1>13. CASE MakeFuncRet
  <2> DEFINE n == stack[1]
  <2>1. PICK f \in Functions : Statement({kVoid}, FuncRetAccepts(f.ret, n), FuncRet(f.ret, n))
    BY <1>13 DEF MakeFuncRet
  <2>2. NodeOK(n) /\ CachedOK(n) /\ MarkOK(n)  BY <1>11, <2>1 DEF Statement
  <2>3. FuncRetAccepts(f.ret, n) \in BOOLEAN  BY DEF FuncRetAccepts
  <2> HIDE DEF n
  <2>q. QED  BY <1>10, <2>1, <2>2, <2>3, FuncRetOK, FuncRetMarked
<1>14. CASE MakeIf
  <2> DEFINE n == stack[1]
  <2>1. Statement({kVoid}, IfAccepts(n), If(n))  BY <1>14 DEF MakeIf
  <2>2. NodeOK(n) /\ CachedOK(n) /\ MarkOK(n)  BY <1>11, <2>1 DEF Statement
  <2>3. IfAccepts(n) \in BOOLEAN  BY DEF IfAccepts
  <2> HIDE DEF n
  <2>q. QED  BY <1>10, <2>1, <2>2, <2>3, IfOK, IfMarked
<1>15. CASE MakeFor
  <2> DEFINE n == stack[1]
  <2>1. Statement({kVoid}, ForAccepts(n), For(n))  BY <1>15 DEF MakeFor
  <2>2. NodeOK(n) /\ CachedOK(n) /\ MarkOK(n)  BY <1>11, <2>1 DEF Statement
  <2>3. ForAccepts(n) \in BOOLEAN  BY DEF ForAccepts
  <2> HIDE DEF n
  <2>q. QED  BY <1>10, <2>1, <2>2, <2>3, ForOK, ForMarked
<1>q. QED
  BY <1>1, <1>2, <1>3, <1>4, <1>5, <1>6, <1>7, <1>8, <1>9, <1>12, <1>13, <1>14, <1>15, <1>17
     DEF Next

LEMMA NextIInv == IInv /\ [Next]_vars => IInv'
<1>1. IInv /\ UNCHANGED vars => IInv'
  BY DEF vars, IInv, TypeOK
<1>q. QED  BY <1>1, StepKeeps

\* The properties follow from the invariant.
LEMMA IInvImplies == IInv => TypeOK /\ TypeSound /\ AddressesExist /\ FaultsAreReal
<1> SUFFICES ASSUME IInv PROVE TypeOK /\ TypeSound /\ AddressesExist /\ FaultsAreReal  OBVIOUS
<1>1. ASSUME NEW i \in DOMAIN stack, Clean(stack[i])
      PROVE  /\ stack[i].val # Ill
             /\ stack[i].info.type # kInvalid => stack[i].val = TypeOfInfo(stack[i].info)
             /\ stack[i].once
             /\ IsAssignable(stack[i]) => stack[i].ptr # NoPtr
             /\ stack[i].ref => stack[i].ptr = PtrTo(TypeOfInfo(stack[i].info))
  BY <1>1, NodeOKImplies DEF IInv
<1>2. TypeSound  BY <1>1 DEF TypeSound
<1>3. AddressesExist  BY <1>1 DEF AddressesExist
<1>4. FaultsAreReal  BY DEF IInv, MarkOK, FaultsAreReal
<1>q. QED  BY <1>2, <1>3, <1>4 DEF IInv

-----------------------------------------------------------------------------
\* The invariant holds in every reachable state.
THEOREM NodesAreInOrder == Spec => []IInv
  BY InitIInv, NextIInv, PTL DEF Spec

\* What is on the stack are nodes, whatever the program.
THEOREM ExpressionsTypeOK == Spec => []TypeOK
  BY NodesAreInOrder, IInvImplies, PTL

\* CheckSemantic and GenerateCode agree on the type of every expression that
\* has none of the listed faults.
THEOREM ExpressionsTypeSound == Spec => []TypeSound
  BY NodesAreInOrder, IInvImplies, PTL

\* What such an expression assigns to or binds to a reference has an address,
\* and nothing in it is evaluated twice.
THEOREM ExpressionsAddressesExist == Spec => []AddressesExist
  BY NodesAreInOrder, IInvImplies, PTL

\* The list of faults is exact: where the check accepts what has one of them, the
\* code that is generated is ill-typed, of another type than announced, or
\* evaluates something twice.
THEOREM ExpressionsFaultsAreReal == Spec => []FaultsAreReal
  BY NodesAreInOrder, IInvImplies, PTL
=============================================================================
