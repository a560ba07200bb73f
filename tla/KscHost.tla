------------------------------ MODULE KscHost ------------------------------
(***************************************************************************)
(* What the host does around KscApi: it registers its own functions with   *)
(* KSC_AddExternalFunction and asks for addresses with KSC_GetFunctionPtr. *)
(* The functions of all modules are in one LLVM module, which the engine   *)
(* (MCJIT of LLVM 3.6) compiles as a whole, once, when the first address   *)
(* is asked for; then it resolves the symbols that have no body.           *)
(*                                                                         *)
(* A function is the pair of its domain and its name in the source.        *)
(***************************************************************************)
EXTENDS KscApi

CONSTANTS Wrapped   \* the names of functions that need a wrapper (see Packing)

ASSUME WrappedAssumption == Wrapped \subseteq Names

VARIABLES
  externals,  \* mGlobalFuncSymbols: the names the memory manager resolves
  llvm,       \* the functions of TheModule: [fun, body, calls, own]; own says that
              \* it could keep its name
  emitted,    \* the functions in the code that the engine has made, {} before
  jit,        \* the functions with an address (pJIT_Func)
  outcome     \* of the last call: "done", "address", "null", or what ended the process

hostVars == <<externals, llvm, emitted, jit, outcome>>
allVars == <<vars, hostVars>>

Functions == Domains \X Names
Endings == {"NoEngine", "Unresolved"}

HostInit ==
  /\ externals = {} /\ llvm = {} /\ emitted = {} /\ jit = {}
  /\ outcome = "done"

-----------------------------------------------------------------------------
(* What the calls of KscApi do besides.                                    *)

\* A new engine, module and memory manager, and the functions of the C library
\* for the intrinsics.
HostInitialize ==
  /\ \E sharedCode \in BOOLEAN : Initialize(sharedCode)
  /\ externals' = {Intrinsics[i] : i \in DOMAIN Intrinsics}
  /\ llvm' = {} /\ emitted' = {} /\ jit' = {}
  /\ outcome' = "done"

\* Mutant of HostDestory: the engine is not deleted with its module.
HostDestoryKeepsEngine ==
  /\ Destory
  /\ externals' = {} /\ llvm' = {} /\ jit' = {} /\ UNCHANGED emitted
  /\ outcome' = "done"

HostDestory ==
  /\ Destory
  /\ externals' = {} /\ llvm' = {} /\ emitted' = {} /\ jit' = {}
  /\ outcome' = "done"

\* Function::Create renames a function whose name another has, of whatever
\* module, dead or alive.
KeepsName(n) == \A f \in llvm : f.fun[2] # n

NewFunction(n, body, callees) ==
  [fun |-> <<unit, n>>, body |-> body, calls |-> callees, own |-> KeepsName(n)]

HostGenerate ==
  /\ \/ /\ GenerateDeclaration
        /\ llvm' = llvm \union {NewFunction(Current, FALSE, {})}
     \/ /\ GenerateFunction
        /\ llvm' = llvm \union {NewFunction(Current, TRUE, linked'[unit][Current])}
  /\ UNCHANGED <<externals, emitted, jit, outcome>>

\* Every other step leaves the engine alone.
HostOther ==
  /\ \/ \E m \in Modules : Compile(m)
     \/ ParseStep
     \/ EndOfDomain
     \/ AddFunctionDeclFails
     \/ GenerateCallFails
  /\ UNCHANGED hostVars

-----------------------------------------------------------------------------
(* The calls of the host.                                                  *)

\* TheSymbolMemMgr is NULL before the first KSC_Initialize, and deleted by
\* KSC_Destory with its engine.
KSC_AddExternalFunction(n) ==
  /\ phase = "idle"
  /\ externals' = IF engine THEN externals \union {n} ELSE externals
  /\ outcome' = IF engine THEN "done" ELSE "NoEngine"
  /\ UNCHANGED <<vars, llvm, emitted, jit>>

\* Mutant of Resolved: a symbol is sought by the name it has in the source.
ResolvedBySource(f) == f.body \/ f.fun[2] \in externals

\* The code for a function is in the module, or the host has registered it under
\* the name that LLVM knows it by.
Resolved(f) == f.body \/ (f.own /\ f.fun[2] \in externals)

\* The engine ends the process when code refers to a symbol nothing resolves.
AllResolved == \A f \in llvm : \A g \in llvm : g.fun \in f.calls => Resolved(g)

\* The symbol of a function, or of the wrapper just made for it, in the code
\* that was made before.
Found(fun) == fun \in emitted /\ fun[2] \notin Wrapped

\* Mutant of Request: the functions of a module compiled later are linked as well.
RequestLinksAll(fun) ==
  IF fun \in jit THEN "address"
  ELSE IF ~AllResolved THEN "Unresolved"
  ELSE IF emitted = {} \/ Found(fun) THEN "address" ELSE "null"

\* Mutant of Request: the address given before is not looked at.
RequestAnew(fun) ==
  IF emitted # {} THEN (IF Found(fun) THEN "address" ELSE "null")
  ELSE IF AllResolved THEN "address" ELSE "Unresolved"

\* A function with an address keeps it; the first request compiles the module
\* with the wrapper just made; a later one only looks the symbol up.
Request(fun) ==
  IF fun \in jit THEN "address"
  ELSE IF emitted # {} THEN (IF Found(fun) THEN "address" ELSE "null")
  ELSE IF AllResolved THEN "address" ELSE "Unresolved"

KSC_GetFunctionPtr(m, n) ==
  /\ phase = "idle" /\ ready
  /\ n \in handles[m]
  /\ outcome' = Request(<<m, n>>)
  /\ jit' = IF outcome' = "address" THEN jit \union {<<m, n>>} ELSE jit \ {<<m, n>>}
  /\ emitted' = IF emitted = {} /\ outcome' = "address"
                THEN {f.fun : f \in {g \in llvm : g.body}} ELSE emitted
  /\ UNCHANGED <<vars, externals, llvm>>

\* The verifier refuses the function or its wrapper (see CodeGen and Packing):
\* the engine is not asked.
RefuseFunction(m, n) ==
  /\ phase = "idle" /\ ready
  /\ n \in handles[m] /\ <<m, n>> \notin jit
  /\ outcome' = "null"
  /\ UNCHANGED <<vars, externals, llvm, emitted, jit>>

HostNext ==
  /\ outcome \notin Endings
  /\ \/ HostInitialize
     \/ HostDestory
     \/ HostGenerate
     \/ HostOther
     \/ \E n \in Names : KSC_AddExternalFunction(n)
     \/ \E m \in Modules, n \in Names : KSC_GetFunctionPtr(m, n) \/ RefuseFunction(m, n)

HostSpec == Init /\ HostInit /\ [][HostNext]_allVars

-----------------------------------------------------------------------------
(* Properties.                                                             *)

\* The types of the host's variables; a function has code and an address only
\* when it has a body.
HostTypeOK ==
  /\ externals \subseteq Names
  /\ llvm \subseteq [fun : Functions, body : BOOLEAN, calls : SUBSET Functions, own : BOOLEAN]
  /\ emitted \subseteq {f.fun : f \in {g \in llvm : g.body}}
  /\ jit \subseteq emitted
  /\ outcome \in {"done", "address", "null"} \union Endings

\* An address that was given out is given again for as long as there is the handle:
\* a wrapper made anew for a later request would be behind the code the engine has
\* made, and be found no more (SC_API.cpp:191).  Nothing but KSC_Destory takes an
\* address back, whatever is compiled, refused or requested in between.
AddressesStay ==
  [][\A fun \in jit : fun \in jit' \/ fun[2] \notin handles'[fun[1]]]_allVars

\* What ends the process: registering a function without an engine, be it before
\* KSC_Initialize as SC_API.h:116 asks for (SC_API.cpp:127); and a first request
\* for an address while some function, whichever was asked for, calls one that has
\* no body and is not registered, or had to be renamed.
AbortsExplained ==
  /\ outcome = "NoEngine" => ~engine
  /\ outcome = "Unresolved" =>
       /\ emitted = {}
       /\ \E f \in llvm, g \in llvm :
            /\ g.fun \in f.calls /\ ~g.body
            /\ \/ g.fun[2] \notin externals
               \/ \E h \in llvm : h.fun # g.fun /\ h.fun[2] = g.fun[2]

\* The code the engine made never jumps into nothing: a call in it goes to code made
\* with it, or to a registered function, and then nothing took the declaration's name
\* before, in whatever module (LLVM_IR_Gen.cpp:145).
CodeIsLinked ==
  \A f \in llvm, g \in llvm : f.fun \in emitted /\ g.fun \in f.calls =>
    \/ g.fun \in emitted
    \/ ~g.body /\ g.own /\ g.fun[2] \in externals
=============================================================================
