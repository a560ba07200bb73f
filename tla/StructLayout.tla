---------------------------- MODULE StructLayout ----------------------------
(***************************************************************************)
(* Structures, from their definition to the host's access to a member.     *)
(* NewStructType hands each one to LLVM, which lays it out with padding;    *)
(* ConvertToDescription computes the layout a second time, for the host;   *)
(* the functions KSC_*Struct* walk that description.                       *)
(*                                                                         *)
(* Structures are numbered as the source defines them.  A member's name is *)
(* the number of the member that had it first, and a dotted name a         *)
(* sequence of numbers.                                                    *)
(***************************************************************************)
EXTENDS VarTypes, Sums, FiniteSets, FiniteSetsExt

CONSTANTS SizeOf,       \* DataLayout::getTypeAllocSize of the types that are no structure
          AlignOf,      \* DataLayout::getABITypeAlignment of them
          AggregateAlignment,  \* the least preferred alignment of a structure
          ArraySizes,   \* how many elements members have, 0 for no array
          DataSizes,    \* the sizes that the host passes with its data
          MaxStructs,   \* bound: structures defined
          MaxMembers,   \* bound: members of all of them together
          MaxParts      \* bound: the parts of a dotted name

VARIABLES structs,   \* the members of each structure of the domain
          names,     \* and their names
          types,     \* the LLVM structures made of them
          descs,     \* the descriptions made of them
          memory,    \* the structure for which the host has allocated memory, 0 for none
          write      \* the last bytes the host has set in it

layoutVars == <<structs, names, types, descs, memory, write>>

MemberTypes == DOMAIN SizeOf

ASSUME LayoutAssumption ==
    /\ MemberTypes \subseteq ValueTypes \cup {kExternType}
    /\ DOMAIN AlignOf = MemberTypes
    /\ \A t \in MemberTypes : /\ SizeOf[t] \in Nat \ {0} /\ AlignOf[t] \in Nat \ {0}
                              /\ SizeOf[t] % AlignOf[t] = 0
    /\ AggregateAlignment \in Nat \ {0}
    /\ ArraySizes \subseteq Nat /\ DataSizes \subseteq Nat
    /\ MaxStructs \in Nat /\ MaxMembers \in Nat /\ MaxParts \in Nat

\* A member as GetElementType tells it: its type, its structure, its elements.
Member(type, str, arr) == [type |-> type, str |-> str, arr |-> arr]
MembersOver(n) ==
    {Member(t, 0, a) : t \in MemberTypes, a \in ArraySizes} \cup
    {Member(kStructure, s, a) : s \in 1..n, a \in ArraySizes}

\* mDefinedVariables has a name once, mExpressions each definition: where a name
\* is given twice the last members are no elements, and a lookup by name, which
\* gives the last member of that name, may give one of them.
GetElementCount(s) == Cardinality(Range(names[s]))
Elements(s)        == SubSeq(structs[s], 1, GetElementCount(s))
GetElementIdxByName(s, name) == Max({i \in DOMAIN names[s] : names[s][i] = name})

-----------------------------------------------------------------------------
\* The layout by LLVM's StructLayout: each element at the next multiple of its
\* alignment, the whole a multiple of the largest.

RoundUp(n, a) == ((n + a - 1) \div a) * a

\* The size and alignment of one element of a member.
ElemSize(m)  == IF m.type = kStructure THEN types[m.str].size  ELSE SizeOf[m.type]
ElemAlign(m) == IF m.type = kStructure THEN types[m.str].align ELSE AlignOf[m.type]

\* The layout of elements of these sizes and alignments, one after the other.
Lay(size, align) ==
    LET n == Len(size)
        offset[i \in 1..n] ==
            IF i = 1 THEN 0 ELSE RoundUp(offset[i - 1] + size[i - 1], align[i])
        widest == Max({align[i] : i \in 1..n})
    IN  [offsets |-> offset, align |-> widest, size |-> RoundUp(offset[n] + size[n], widest)]

NewStructType(ms) ==
    Lay([i \in DOMAIN ms |-> ElemSize(ms[i]) * (IF ms[i].arr > 0 THEN ms[i].arr ELSE 1)],
        [i \in DOMAIN ms |-> ElemAlign(ms[i])])

PrefAlignment(type) == Max({type.align, AggregateAlignment})

-----------------------------------------------------------------------------
\* The description: KSC_StructDesc.  hStruct is 0 for NULL.

ElemPrefAlign(m) ==
    IF m.type = kStructure THEN PrefAlignment(types[m.str]) ELSE AlignOf[m.type]

\* Mutant of MemberOffset: it counts the member itself.
MemberOffsetAfter(sizes, i) ==
    LET offset[j \in 1..Len(sizes)] == IF j = 1 THEN sizes[1] ELSE offset[j - 1] + sizes[j]
    IN  offset[i]

\* curMemOffset when the loop comes to the i-th of the members with these sizes.
MemberOffset(sizes, i) ==
    LET offset[j \in 1..Len(sizes)] == IF j = 1 THEN 0 ELSE offset[j - 1] + sizes[j - 1]
    IN  offset[i]

ConvertToDescription(ms, called, type) ==
    [members |-> [i \in 1..Len(ms) |->
        [name |-> called[i], type |-> ms[i].type, arraySize |-> ms[i].arr, hStruct |-> ms[i].str,
         size |-> ElemSize(ms[i]), alignment |-> ElemPrefAlign(ms[i]),
         offset |-> MemberOffset([j \in DOMAIN ms |-> ElemSize(ms[j])], i)]],
     size |-> type.size, alignment |-> PrefAlignment(type)]

-----------------------------------------------------------------------------
\* The API.  NotFound stands for the answers NULL, false and kInvalid.

NotFound == 0

\* A lookup in mMemberIndices, where the last element of a name stays; no
\* member's name has a dot.
Find(h, name) ==
    LET called == {i \in DOMAIN descs[h].members : name = <<descs[h].members[i].name>>}
    IN  IF called = {} THEN {} ELSE {Max(called)}

MemberNamed(h, name) == descs[h].members[CHOOSE i \in Find(h, name) : TRUE]

\* The description in which the loop of KSC_GetStructMemberType looks for the
\* i-th part of the name, NotFound when it has returned before.
Reached(h, name) ==
    LET at[i \in 1..Len(name)] ==
            IF i = 1 THEN h
            ELSE IF at[i - 1] = NotFound \/ Find(at[i - 1], <<name[i - 1]>>) = {} THEN NotFound
            ELSE MemberNamed(at[i - 1], <<name[i - 1]>>).hStruct
    IN  at[Len(name)]

KSC_GetStructMemberType(h, name) ==
    LET last == <<name[Len(name)]>>
        at   == Reached(h, name)
    IN  IF at # NotFound /\ Find(at, last) # {} /\ MemberNamed(at, last).hStruct = 0
        THEN {MemberNamed(at, last)} ELSE {}

\* Mutant of MemberAt: a member that is a structure is found as well.
MemberAtAny(h, name) == IF Find(h, name) = {} THEN {} ELSE {MemberNamed(h, name)}

\* The member on which the loops of KSC_GetStructMemberPtr and
\* KSC_SetStructMemberData agree to end: each turn looks for the whole name.
MemberAt(h, name) ==
    IF Find(h, name) = {} \/ MemberNamed(h, name).hStruct # 0 \/ Len(name) # 1
    THEN {} ELSE {MemberNamed(h, name)}

\* The distance of the pointer from the structure's; none for NULL.
KSC_GetStructMemberPtr(h, name) == {m.offset : m \in MemberAt(h, name)}

\* Mutant of PackedSizes: a structure in a structure is not counted.
PackedSizesFlat(ds) ==
    LET packed[h \in 1..Len(ds)] ==
            Sum([i \in DOMAIN ds[h].members |->
                    IF ds[h].members[i].hStruct = 0
                    THEN TypePackedSize(ds[h].members[i].type) ELSE 0])
    IN  packed

PackedSizes(ds) ==
    LET packed[h \in 1..Len(ds)] ==
            Sum([i \in DOMAIN ds[h].members |->
                    IF ds[h].members[i].hStruct = 0
                    THEN TypePackedSize(ds[h].members[i].type)
                    ELSE packed[ds[h].members[i].hStruct]])
    IN  packed

KSC_GetTypePackedSize(h) == PackedSizes(descs)[h]

-----------------------------------------------------------------------------
NoWrite == [member |-> 0, first |-> 0, bytes |-> 0]

LayoutInit ==
    /\ structs = <<>> /\ names = <<>> /\ types = <<>> /\ descs = <<>>
    /\ memory = 0 /\ write = NoWrite

MembersSoFar == Sum([s \in DOMAIN structs |-> Len(structs[s])])

\* Mutant of MembersOfLast: a structure may have members of its own type.
MembersOfLastItself == MembersOver(Len(structs))

\* The type of a structure is not defined before its closing brace.
MembersOfLast == MembersOver(Len(structs) - 1)

\* A new name; or, as the parser does not compare the names of one list of
\* definitions with each other, one that came in the list with this type.
NamesFor(ms, m) ==
    {Len(ms) + 1} \cup
    {n \in DOMAIN ms : \A i \in n..Len(ms) : ms[i].type = m.type /\ ms[i].str = m.str}

\* A member more, in the structure being parsed or in a new one.  An empty
\* structure is rejected.
AddVarDefExpression ==
    /\ types = <<>> /\ MembersSoFar < MaxMembers
    /\ \/ /\ Len(structs) < MaxStructs
          /\ \E m \in MembersOver(Len(structs)) : structs' = Append(structs, <<m>>)
          /\ names' = Append(names, <<1>>)
       \/ /\ structs # <<>>
          /\ \E m \in MembersOfLast : \E n \in NamesFor(structs[Len(structs)], m) :
                /\ structs' = [structs EXCEPT ![Len(structs)] = Append(@, m)]
                /\ names'   = [names   EXCEPT ![Len(structs)] = Append(@, n)]
    /\ UNCHANGED <<types, descs, memory, write>>

\* CompileToIR generates the next structure and describes it.  The children
\* are described again each time, in the same way as the first.
GenerateStruct ==
    /\ Len(types) < Len(structs)
    /\ LET s    == Len(types) + 1
           type == NewStructType(Elements(s))
       IN  /\ types' = Append(types, type)
           /\ descs' = Append(descs, ConvertToDescription(Elements(s), names[s], type))
    /\ UNCHANGED <<structs, names, memory, write>>

Compiled == types # <<>> /\ Len(types) = Len(structs)

\* KSC_AllocMemForType for KSC_GetStructTypeByName.
KSC_AllocMemForType ==
    /\ Compiled /\ memory = 0
    /\ memory' \in DOMAIN descs
    /\ UNCHANGED <<structs, names, types, descs, write>>

\* Mutant of BytesSet: the larger of the two sizes.
BytesSetAll(size, memSize) == Max({size, memSize})

BytesSet(size, memSize) == IF size < memSize THEN size ELSE memSize

KSC_SetStructMemberData ==
    /\ memory # 0
    /\ \E i \in 1..MaxMembers, size \in DataSizes :
          \E m \in MemberAt(memory, <<i>>) :
             write' = [member |-> i, first |-> m.offset, bytes |-> BytesSet(size, m.size)]
    /\ UNCHANGED <<structs, names, types, descs, memory>>

LayoutNext ==
    \/ AddVarDefExpression
    \/ GenerateStruct
    \/ KSC_AllocMemForType
    \/ KSC_SetStructMemberData

-----------------------------------------------------------------------------
\* The offset that the host is told is never behind the member, and is the
\* member's exactly when no earlier member is an array and none needed padding
\* in front of it: the sum of ConvertToDescription (LLVM_IR_Gen.cpp:654).
OffsetsExact ==
    \A s \in DOMAIN descs : \A i \in DOMAIN descs[s].members :
        LET told(j) == descs[s].members[j].offset
        IN  /\ told(i) <= types[s].offsets[i]
            /\ told(i) = types[s].offsets[i] <=>
                 /\ \A j \in 1..(i - 1) : structs[s][j].arr <= 1
                 /\ \A j \in 1..i : told(j) % ElemAlign(structs[s][j]) = 0

\* However wrong its offset is, KSC_SetStructMemberData stays inside what
\* KSC_AllocMemForType has allocated, and in front of the later members.
WritesStayInside ==
    write # NoWrite =>
        /\ write.first + write.bytes <= descs[memory].size
        /\ \A i \in Find(memory, <<write.member>>), j \in DOMAIN descs[memory].members :
              j > i => write.first + write.bytes <= types[memory].offsets[j]

Paths == UNION {[1..n -> 1..MaxMembers] : n \in 1..MaxParts}

\* KSC_GetStructMemberPtr finds what KSC_GetStructMemberType finds as long as
\* the name has no dot, and nothing under a dotted name (SC_API.cpp:318): a
\* type may be told of a member whose address is refused.  Neither finds a member
\* that is a structure itself: against SC_API.h:175, which promises its hStruct for
\* the host to go on with, the code answers kInvalid (SC_API.cpp:300), and the host
\* gets below such a member by a dotted name only.  The functions and the
\* host mean the same element by a name, and there is one, unless a list of
\* definitions gave a name twice (parser_AST_Gen.cpp:406): then, always, a
\* function reaches behind the end of the structure by some name.
NamesAgree ==
    Compiled => \A s \in DOMAIN descs :
        /\ \A n \in Paths :
            /\ KSC_GetStructMemberPtr(s, n) # {} <=> KSC_GetStructMemberType(s, n) # {} /\ Len(n) = 1
            /\ \A m \in KSC_GetStructMemberType(s, n) : m.type # kStructure
            /\ Len(n) = 1 => KSC_GetStructMemberPtr(s, n) = {m.offset : m \in KSC_GetStructMemberType(s, n)}
        /\ LET reached(n) == GetElementIdxByName(s, n)
               given == Range(names[s])
           IN  /\ \A n \in given : Find(s, <<n>>) = {reached(n)} <=> reached(n) <= Len(types[s].offsets)
               /\ (\A n \in given : reached(n) <= Len(types[s].offsets)) <=> IsInjective(names[s])
=============================================================================
