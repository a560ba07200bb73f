------------------------------ MODULE Packing ------------------------------
(***************************************************************************)
(* The wrapper that KSC_GetFunctionPtr puts around a function, and a call  *)
(* of it by the host (IR_Gen_Context.cpp).  An argument declared with & is *)
(* in the host's layout: the wrapper converts a copy of it for the         *)
(* function and converts the copy back when the function has returned.     *)
(*                                                                         *)
(* A type is a member of StructLayout; a leaf is a part of it that is      *)
(* neither an array nor a structure, with the path to it, by numbers from  *)
(* 0, and its type.  A value says of each leaf who has written it.         *)
(***************************************************************************)
EXTENDS StructLayout

CONSTANTS Functions,    \* the functions the host asks for: [args, ret], an argument is
                        \* [field : its type, ref : "value", "%" or "&"]
          MaxWrites     \* bound: leaves that one call of a function writes

VARIABLES pc,        \* how far the host and the wrapper are; idle at first
          fn,        \* the function asked for
          bound,     \* the buffer of the host each argument is in, named by its first argument
          buffers,   \* what is in the buffers
          copies,    \* what the function gets for its arguments
          direct,    \* history: what the arguments would hold if no reference was copied
          writes,    \* how many leaves the function has written
          next,      \* the loop over the arguments that converts them back
          result     \* the value returned

callVars == <<pc, fn, bound, buffers, copies, direct, writes, next, result>>

\* The authors of a leaf, besides the number of the argument it was written by.
Host      == 0
Undefined == -1   \* nothing was stored
OtherByte == -2   \* a pointer to a copy of the first byte of what the host's points to

\* The types that variables and members have; a function returns no array.
FieldTypes == [type : MemberTypes, str : {0}, arr : Nat] \cup
              [type : {kStructure}, str : 1..MaxStructs, arr : Nat]

ASSUME FunctionsAssumption ==
    /\ \A f \in Functions :
          /\ f.args \in Seq([field : FieldTypes, ref : {"value", "%", "&"}])
          /\ f.ret \in FieldTypes \cup {Member(kVoid, 0, 0)} /\ f.ret.arr = 0
    /\ MaxWrites \in Nat

-----------------------------------------------------------------------------
\* Types and their leaves.

IsArray(f)   == f.arr > 0
IsStruct(f)  == ~IsArray(f) /\ f.type = kStructure
IsVector(f)  == ~IsArray(f) /\ f.type # kStructure /\ TypeElementCnt(f.type) > 1

\* The indices of a loop over n parts that takes each step-th of them.
Indices(n, step) == {i \in 0..(n - 1) : i % step = 0}

Under(i, leaves) == {[path |-> <<i>> \o l.path, type |-> l.type] : l \in leaves}

\* The leaves of a type, given those of the structures, and those of each
\* structure of which these are the elements.
LeavesOver(f, ofStruct, step) ==
    LET one == IF f.type = kStructure THEN ofStruct[f.str]
               ELSE {[path |-> <<>>, type |-> t] : t \in {f.type} \ {kVoid}}
    IN  IF IsArray(f) THEN UNION {Under(i, one) : i \in Indices(f.arr, step)} ELSE one

StructLeaves(elements, step) ==
    LET leaves[s \in 1..Len(elements)] ==
            UNION {Under(i, LeavesOver(elements[s][i + 1], leaves, step)) :
                      i \in Indices(Len(elements[s]), step)}
    IN  leaves

AllElements == [s \in DOMAIN structs |-> Elements(s)]

Leaves(f) == LeavesOver(f, StructLeaves(AllElements, 1), 1)

\* What ConvertToPackedType makes of a type, as LLVM lays it out: vectors are
\* arrays, and a bool is an i32.
PackedOver(f, ofStruct) ==
    LET one == IF f.type = kStructure THEN ofStruct[f.str]
               ELSE [size |-> TypePackedSize(f.type), align |-> IF f.type = kExternType THEN 8 ELSE 4]
    IN  [one EXCEPT !.size = IF IsArray(f) THEN f.arr * @ ELSE @]

StructsPacked(elements) ==
    LET packed[s \in 1..Len(elements)] ==
            LET l == Lay([i \in DOMAIN elements[s] |-> PackedOver(elements[s][i], packed).size],
                         [i \in DOMAIN elements[s] |-> PackedOver(elements[s][i], packed).align])
            IN  [size |-> l.size, align |-> l.align]
    IN  packed

\* ConvertToPackedType returns the type it is given.  A structure is made anew
\* each time and is no other's equal.
IsPackedType(f) == ~IsStruct(f) /\ ~IsVector(f) /\ f.type # kBoolean

-----------------------------------------------------------------------------
\* The conversions, by the leaves they store.

\* Every leaf is stored.  A pointer inside an array or a structure is a value
\* that is taken for the address of the value: one byte is copied.
ConvertValueFromPacked(f, value) ==
    [l \in Leaves(f) |->
        IF l.path # <<>> /\ l.type = kExternType THEN OtherByte ELSE value[l]]

\* A bool is sought in the type of the source, where it is an i32 already: an
\* i32 is stored to an i1.
IllFromPacked(f) == \E l \in Leaves(f) : l.type = kBoolean

\* Mutant of StoredToPacked: the index is incremented once.
StoredToPackedAll(f) == LeavesOver(f, StructLeaves(AllElements, 1), 1)

\* The loop over elements and members increments its index twice.
StoredToPacked(f) == LeavesOver(f, StructLeaves(AllElements, 2), 2)

\* Mutant of IllToPacked: pointers are stored as they are.
IllToPackedBooleans(f) == \E l \in StoredToPacked(f) : IsBooleanType(l.type)

\* The constants chosen for a bool are i1, and what is stored for a pointer is
\* the byte it points to.
IllToPacked(f) ==
    \E l \in StoredToPacked(f) : IsBooleanType(l.type) \/ l.type = kExternType

-----------------------------------------------------------------------------
\* The wrapper.

Args == DOMAIN fn.args
NeedJITPacked(f) == {k \in DOMAIN f.args : f.args[k].ref = "&"}
HasWrapper(f)    == NeedJITPacked(f) # {} \/ ~IsPackedType(f.ret)

\* Mutant of IsWellTyped: the value returned is not looked at.
IsWellTypedArgs(f) ==
    \A k \in NeedJITPacked(f) : ~IllFromPacked(f.args[k].field) /\ ~IllToPacked(f.args[k].field)

\* What llvm::verifyFunction says of the wrapper.
IsWellTyped(f) ==
    /\ \A k \in NeedJITPacked(f) : ~IllFromPacked(f.args[k].field) /\ ~IllToPacked(f.args[k].field)
    /\ HasWrapper(f) => ~IllToPacked(f.ret)

CallInit ==
    /\ pc = "idle" /\ writes = 0 /\ next = 0
    /\ fn = [args |-> <<>>, ret |-> Member(kVoid, 0, 0)]
    /\ bound = <<>> /\ buffers = <<>> /\ copies = <<>> /\ direct = <<>> /\ result = <<>>

KSC_GetFunctionPtr ==
    /\ Compiled /\ memory = 0 /\ pc = "idle"
    /\ \E f \in Functions :
          /\ f.ret.str <= Len(structs)
          /\ \A k \in DOMAIN f.args : f.args[k].field.str <= Len(structs)
          /\ fn' = f
          /\ pc' = IF IsWellTyped(f) THEN "address" ELSE "refused"
    /\ UNCHANGED <<bound, buffers, copies, direct, writes, next, result>>

\* The host calls, with a buffer of its own for each argument passed by
\* reference, or one buffer for several of the same declaration.
HostCalls ==
    /\ pc = "address"
    /\ bound' \in {b \in [Args -> Args] :
                      \A k \in Args :
                          /\ b[b[k]] = b[k] /\ b[k] <= k /\ fn.args[b[k]] = fn.args[k]
                          /\ fn.args[k].ref = "value" => b[k] = k}
    /\ buffers' = [k \in Args |-> [l \in Leaves(fn.args[k].field) |-> Host]]
    /\ direct' = buffers'
    /\ pc' = "convert"
    /\ UNCHANGED <<fn, copies, writes, next, result>>

ConvertArguments ==
    /\ pc = "convert"
    /\ copies' = [k \in Args |->
          IF k \in NeedJITPacked(fn) THEN ConvertValueFromPacked(fn.args[k].field, buffers[bound[k]])
                                     ELSE buffers[bound[k]]]
    /\ pc' = "function"
    /\ UNCHANGED <<fn, bound, buffers, direct, writes, next, result>>

\* What the function finds in a leaf of an argument: a copy of its own when it is
\* passed by value or with &, the host's buffer when it is passed with %.
InFunction(k, l) == IF fn.args[k].ref = "%" THEN buffers[bound[k]][l] ELSE copies[k][l]

\* Value in a leaf of argument k, or what is meant by it without copies.
Assign(k, l, value, meant) ==
    /\ copies'  = IF fn.args[k].ref = "%" THEN copies ELSE [copies EXCEPT ![k][l] = value]
    /\ buffers' = IF fn.args[k].ref = "%" THEN [buffers EXCEPT ![bound[k]][l] = value] ELSE buffers
    /\ direct'  = [direct EXCEPT ![bound[k]][l] = meant]

\* The function gives a leaf of an argument a value of its own, or one extern
\* member the value of another.  That a number was read elsewhere is left out.
FunctionWrites ==
    /\ pc = "function" /\ writes < MaxWrites
    /\ \E k \in Args : \E l \in Leaves(fn.args[k].field) :
          \/ Assign(k, l, k, k)
          \/ \E j \in Args : \E m \in Leaves(fn.args[j].field) :
                /\ l.type = kExternType /\ m.type = kExternType
                /\ Assign(k, l, InFunction(j, m), direct[bound[j]][m])
    /\ writes' = writes + 1
    /\ UNCHANGED <<pc, fn, bound, next, result>>

FunctionReturns ==
    /\ pc = "function"
    /\ pc' = "back" /\ next' = 1
    /\ UNCHANGED <<fn, bound, buffers, copies, direct, writes, result>>

\* Mutant of ConvertBack: the loop runs from the last argument to the first.
ConvertBackReversed ==
    /\ pc = "back" /\ next \in Args
    /\ LET k == Len(fn.args) + 1 - next
       IN  buffers' = IF k \in NeedJITPacked(fn)
                      THEN [buffers EXCEPT ![bound[k]] =
                              [l \in DOMAIN @ |-> IF l \in StoredToPacked(fn.args[k].field)
                                                  THEN copies[k][l] ELSE @[l]]]
                      ELSE buffers
    /\ next' = next + 1
    /\ UNCHANGED <<pc, fn, bound, copies, direct, writes, result>>

\* One turn of the loop that converts the arguments back, in their order.
ConvertBack ==
    /\ pc = "back" /\ next \in Args
    /\ buffers' = IF next \in NeedJITPacked(fn)
                  THEN [buffers EXCEPT ![bound[next]] =
                          [l \in DOMAIN @ |-> IF l \in StoredToPacked(fn.args[next].field)
                                              THEN copies[next][l] ELSE @[l]]]
                  ELSE buffers
    /\ next' = next + 1
    /\ UNCHANGED <<pc, fn, bound, copies, direct, writes, result>>

\* The value returned is converted to a fresh variable of the packed type.
WrapperReturns ==
    /\ pc = "back" /\ next \notin Args
    /\ result' = [l \in Leaves(fn.ret) |->
          IF HasWrapper(fn) /\ l \notin StoredToPacked(fn.ret) THEN Undefined ELSE next]
    /\ pc' = "done"
    /\ UNCHANGED <<fn, bound, buffers, copies, direct, writes, next>>

CallNext ==
    \/ KSC_GetFunctionPtr
    \/ HostCalls
    \/ ConvertArguments
    \/ FunctionWrites
    \/ FunctionReturns
    \/ ConvertBack
    \/ WrapperReturns

vars == <<layoutVars, callVars>>

Init == LayoutInit /\ CallInit
Next == (LayoutNext /\ pc = "idle" /\ UNCHANGED callVars) \/ (CallNext /\ UNCHANGED layoutVars)
Spec == Init /\ [][Next]_vars
-----------------------------------------------------------------------------
\* Structures are made of complete types, each is generated once, the host's
\* record of what it wrote fits its memory, and a call is where its parts are.
TypeOK ==
    /\ \A s \in DOMAIN structs : structs[s] # <<>> /\ Range(structs[s]) \subseteq MembersOver(s - 1)
    /\ \A s \in DOMAIN structs : \A i \in DOMAIN structs[s] : names[s][i] \in 1..i
    /\ Len(types) <= Len(structs) /\ Len(descs) = Len(types)
    /\ memory \in 0..Len(descs)
    /\ write.member \in 0..MaxMembers /\ write.first \in Nat /\ write.bytes \in Nat
    /\ pc \in {"idle", "address", "refused", "convert", "function", "back", "done"}
    /\ writes \in 0..MaxWrites /\ next \in 0..(Len(fn.args) + 1)
    /\ \A b \in DOMAIN buffers : DOMAIN buffers[b] = Leaves(fn.args[b].field)

\* Whether a structure has an array of two or more elements anywhere in it.
HasArrayOver(f, ofStruct) == f.arr > 1 \/ (f.type = kStructure /\ ofStruct[f.str])

StructsHaveArrays(elements) ==
    LET has[s \in 1..Len(elements)] ==
            \E i \in DOMAIN elements[s] : HasArrayOver(elements[s][i], has)
    IN  has

\* The sizes of all the leaves, which is what a structure would take with an
\* alignment of one.
LeafBytesOver(f, ofStruct) ==
    (IF IsArray(f) THEN f.arr ELSE 1) *
    (IF f.type = kStructure THEN ofStruct[f.str] ELSE TypePackedSize(f.type))

StructsLeafBytes(elements) ==
    LET bytes[s \in 1..Len(elements)] ==
            Sum([i \in DOMAIN elements[s] |-> LeafBytesOver(elements[s][i], bytes)])
    IN  bytes

\* KSC_GetTypePackedSize is what the structure would take with an alignment of
\* one unless there is an array anywhere in it, and then too little
\* (SC_API.cpp:424); what the wrapper reads and writes is never less, and more
\* only for pointers.
PackedSizeExact ==
    Compiled => \A s \in DOMAIN descs :
        LET plain == StructsLeafBytes(AllElements)[s]
            read  == StructsPacked(AllElements)[s].size
        IN  /\ KSC_GetTypePackedSize(s) <= plain /\ plain <= read
            /\ KSC_GetTypePackedSize(s) = plain <=> ~StructsHaveArrays(AllElements)[s]
            /\ plain = read \/ \E l \in StructLeaves(AllElements, 1)[s] : l.type = kExternType

\* A function is refused only for a bool or an extern type in what its wrapper
\* converts; one with a bool outside a vector in an & argument always is
\* (IR_Gen_Context.cpp:363), and so is one that returns a bool.
RefusedForBooleans ==
    LET has(f, ts) == \E l \in Leaves(f) : l.type \in ts
        converted  == {fn.args[k].field : k \in NeedJITPacked(fn)} \cup {fn.ret}
    IN  /\ pc = "refused" => \E f \in converted : has(f, BooleanTypes \cup {kExternType})
        /\ pc \notin {"idle", "refused"} =>
              /\ \A k \in NeedJITPacked(fn) : ~has(fn.args[k].field, {kBoolean})
              /\ ~IsBooleanType(fn.ret.type)

Even(l) == \A i \in DOMAIN l.path : l.path[i] % 2 = 0
Alone(k) == \A j \in Args \ {k} : bound[j] # bound[k]

\* What the function does to an & argument reaches the host at the members and
\* elements with even numbers, and at no other; of a structure that is returned the
\* others are undefined (IR_Gen_Context.cpp:272).
CopiedBack ==
    pc = "done" =>
        /\ \A k \in NeedJITPacked(fn) : Alone(k) =>
              \A l \in Leaves(fn.args[k].field) :
                  buffers[k][l] = IF Even(l) THEN direct[k][l] ELSE Host
        /\ \A l \in DOMAIN result : result[l] = Undefined <=> ~Even(l)

\* When two & arguments are one buffer, the copy of the later one is what the
\* host finds: what was written through the earlier one alone is undone.
LastCopyWins ==
    pc = "done" => \A k \in NeedJITPacked(fn) :
        (\A j \in Args : j > k => bound[j] # bound[k]) =>
            \A l \in Leaves(fn.args[k].field) : buffers[bound[k]][l] \in {Host, k}

\* For an extern member of an & argument the function gets the address of a byte
\* of the wrapper's frame (IR_Gen_Context.cpp:355), which is gone when the wrapper
\* returns.  The wrapper stores none of them in the host's memory; the function
\* can, and only by copying one into an extern value of a % argument.
OnlyFunctionsLeakPointers ==
    \A b \in DOMAIN buffers : \A l \in DOMAIN buffers[b] : buffers[b][l] = OtherByte =>
        /\ fn.args[b].ref = "%" /\ l.type = kExternType /\ writes > 0
        /\ \E k \in NeedJITPacked(fn) : \E m \in Leaves(fn.args[k].field) :
              m.path # <<>> /\ m.type = kExternType
=============================================================================
