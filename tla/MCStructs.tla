----------------------------- MODULE MCStructs -----------------------------
(***************************************************************************)
(* Structures of at most three members and the functions over them, for    *)
(* TLC, with the sizes and alignments of x86-64.                           *)
(***************************************************************************)
EXTENDS Packing, TLC

MCSizeOf  == kFloat :> 4 @@ kFloat3 :> 16 @@ kBoolean :> 1 @@ kBoolean2 :> 2 @@ kExternType :> 8
MCAlignOf == kFloat :> 4 @@ kFloat3 :> 16 @@ kBoolean :> 1 @@ kBoolean2 :> 2 @@ kExternType :> 8

Of(type)         == Member(type, 0, 0)
Struct(s)        == Member(kStructure, s, 0)
Arg(field, ref)  == [field |-> field, ref |-> ref]
Function(ret, args) == [ret |-> ret, args |-> args]

MCFunctions ==
    {Function(Of(kVoid),       <<Arg(Struct(1), "&"), Arg(Of(kFloat), "&")>>),
     Function(Of(kFloat),      <<Arg(Struct(2), "&"), Arg(Struct(1), "%")>>),
     Function(Struct(2),       <<Arg(Of(kFloat), "value")>>),
     Function(Of(kVoid),       <<Arg(Of(kFloat3), "&"), Arg(Of(kFloat3), "&")>>),
     Function(Of(kFloat),      <<Arg(Of(kBoolean), "&")>>),
     Function(Of(kBoolean2),   <<Arg(Of(kFloat), "value")>>),
     Function(Of(kExternType), <<Arg(Of(kBoolean), "%")>>),
     Function(Of(kExternType), <<Arg(Of(kFloat), "&")>>)}

-----------------------------------------------------------------------------
\* SC_API.h:191 and 197 of KSC_GetStructMemberPtr and KSC_SetStructMemberData:
\* what is set is the member that the function will read.
SetReachesMember ==
    write # NoWrite =>
        LET i == GetElementIdxByName(memory, write.member)
        IN  i \in DOMAIN types[memory].offsets => write.first = types[memory].offsets[i]
=============================================================================
