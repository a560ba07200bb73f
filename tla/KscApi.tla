------------------------------ MODULE KscApi ------------------------------
(***************************************************************************)
(* The life of the library: KSC_Initialize parses and generates the shared *)
(* code, KSC_Compile parses one module at a time into a domain below the   *)
(* shared one and generates its functions into the one LLVM module, and    *)
(* KSC_Destory ends the session.  The parser resolves a call to a          *)
(* declaration, through the chain of domains; the generator looks the name *)
(* up again, in the chain of contexts.  Whether the two agree, and what a  *)
(* module may leave behind in the shared domain, is what this is about.    *)
(*                                                                         *)
(* A text is chosen while it is parsed, one function declaration at a      *)
(* time.  Everything but functions is left out: a prototype is the same as *)
(* an earlier one or not, a body is the set of the names it calls.         *)
(***************************************************************************)
EXTENDS Naturals, Sequences, FiniteSets

CONSTANTS
  Names,       \* names of functions
  Intrinsics,  \* the declarations of the built-in text, in their order
  Modules,     \* the modules the host compiles
  Shared,      \* the domain of the shared code
  None,
  MaxDecls,    \* bound: function declarations in one text
  MaxCalls,    \* bound: names that one body calls
  MaxSessions  \* bound: how often the library is destroyed

ASSUME NamesAssumption == None \notin Modules \union {Shared} /\ Shared \notin Modules
ASSUME IntrinsicsAssumption ==
  /\ Intrinsics \in Seq(Names) \ {<<>>}
  /\ \A i, j \in DOMAIN Intrinsics : Intrinsics[i] = Intrinsics[j] => i = j
ASSUME BoundsAssumption == MaxDecls \in Nat /\ MaxCalls \in Nat /\ MaxSessions \in Nat

Domains == Modules \union {Shared}

\* A function declaration: not there, without a body, with a body that was begun
\* and given up, with a body (mHasBody).
DeclStates == {"none", "proto", "begun", "body"}

\* What stops the process: the assertions of AddFunctionDecl, of the generation of
\* a call and of KSC_Compile, and a module that is deleted twice.
Failures == {"AddFunctionDecl", "GenerateCall", "Leak", "DeletedTwice"}

VARIABLES
  phase,     \* "idle", "parse", "generate", or the failure that ended the run
  unit,      \* the domain that is parsed and generated, None in between
  pos,       \* declarations read, then the next expression to generate
  engine,    \* TheExecutionEngine and TheModule exist
  ready,     \* s_predefineModule, set once the shared code is compiled
  sessions,  \* how often the library was destroyed
  decl,      \* per domain, the declaration of each name
  order,     \* per domain, mExpressions: the declarations, each where it came first
  calls,     \* per domain and function, the declarations its calls point to
  ctx,       \* per context, mFuncDecls: the domain whose LLVM function a name is
  linked,    \* per domain and function, the LLVM functions its code calls
  handles,   \* per module, mFunctionDesc
  status,    \* of each module: "unused", "rejected", "compiled", "deleted"
  given,     \* history: the functions that the text of a live module gave a body
  grown      \* the parse of this module left nodes in the shared domain

vars == <<phase, unit, pos, engine, ready, sessions, decl, order, calls, ctx, linked,
          handles, status, given, grown>>

-----------------------------------------------------------------------------

NoDecls == [n \in Names |-> "none"]
NoCalls == [n \in Names |-> {}]
NoFunctions == [n \in Names |-> None]

IntrinsicDecls == [n \in Names |->
  IF \E i \in DOMAIN Intrinsics : Intrinsics[i] = n THEN "proto" ELSE "none"]

\* Mutant of FunctionHome: the parent is not asked.
OwnFunctionHome(d, n) == IF decl[d][n] # "none" THEN d ELSE None

\* The domain whose declaration of n is found from domain d: d itself, then its parent.
FunctionHome(d, n) == IF decl[d][n] # "none" THEN d
                      ELSE IF decl[Shared][n] # "none" THEN Shared ELSE None

IsFunctionDefined(d, n) == FunctionHome(d, n) # None

\* The LLVM function found for n from the context of d: its own, then the parent's.
FuncDeclByName(c, d, n) == IF c[d][n] # None THEN c[d][n] ELSE c[Shared][n]

Init ==
  /\ phase = "idle"
  /\ unit = None
  /\ pos = 0
  /\ engine = FALSE
  /\ ready = FALSE
  /\ sessions = 0
  /\ decl = [d \in Domains |-> NoDecls]
  /\ order = [d \in Domains |-> <<>>]
  /\ calls = [d \in Domains |-> NoCalls]
  /\ ctx = [d \in Domains |-> NoFunctions]
  /\ linked = [d \in Domains |-> NoCalls]
  /\ handles = [m \in Modules |-> {}]
  /\ status = [m \in Modules |-> "unused"]
  /\ given = [m \in Modules |-> {}]
  /\ grown = FALSE

-----------------------------------------------------------------------------
(* The calls of the host.                                                  *)

\* A new engine and a new shared domain that holds the intrinsics; s_predefineCtx is
\* static and keeps what it holds.  The text of the intrinsics is always accepted.
\* The host initialises again after a failure, or after it has destroyed the library.
Initialize(sharedCode) ==
  /\ phase = "idle"
  /\ ~ready
  /\ engine' = TRUE
  /\ unit' = Shared
  /\ phase' = IF sharedCode THEN "parse" ELSE "generate"
  /\ pos' = IF sharedCode THEN 0 ELSE 1
  /\ decl' = [decl EXCEPT ![Shared] = IntrinsicDecls]
  /\ order' = [order EXCEPT ![Shared] = Intrinsics]
  /\ calls' = [calls EXCEPT ![Shared] = NoCalls]
  /\ linked' = [linked EXCEPT ![Shared] = NoCalls]
  /\ UNCHANGED <<ready, sessions, ctx, handles, status, given, grown>>

\* KSC_Compile makes a domain below the shared one.  The host compiles only after
\* KSC_Initialize has succeeded.
Compile(m) ==
  /\ phase = "idle"
  /\ ready
  /\ status[m] = "unused"
  /\ phase' = "parse"
  /\ unit' = m
  /\ pos' = 0
  /\ grown' = FALSE
  /\ UNCHANGED <<engine, ready, sessions, decl, order, calls, ctx, linked, handles,
                 status, given>>

\* Deletes every module in s_modules, which is not cleared, and the engine with its
\* code.  The shared domain and s_predefineCtx stay.
Destory ==
  /\ phase = "idle"
  /\ engine
  /\ sessions < MaxSessions
  /\ sessions' = sessions + 1
  /\ engine' = FALSE
  /\ ready' = FALSE
  /\ phase' = IF \E m \in Modules : status[m] = "deleted" THEN "DeletedTwice" ELSE "idle"
  /\ status' = [m \in Modules |-> IF status[m] = "compiled" THEN "deleted" ELSE status[m]]
  /\ handles' = [m \in Modules |-> {}]
  /\ given' = [m \in Modules |-> {}]
  /\ linked' = [d \in Domains |-> NoCalls]
  /\ UNCHANGED <<unit, pos, decl, order, calls, ctx, grown>>

-----------------------------------------------------------------------------
(* One function declaration of the text.                                   *)

\* The declaration of n that the text goes on with, added to the domain if there is none.
DeclaredIn(n) == IF IsFunctionDefined(unit, n) THEN FunctionHome(unit, n) ELSE unit

\* Mutant of Declare: a declaration is added although there is one.
DeclareAgain(n, state) ==
  /\ decl' = [decl EXCEPT ![DeclaredIn(n)][n] = state]
  /\ order' = [order EXCEPT ![unit] = Append(@, n)]

Declare(n, state) ==
  /\ decl' = [decl EXCEPT ![DeclaredIn(n)][n] = state]
  /\ order' = [order EXCEPT ![unit] = IF IsFunctionDefined(unit, n) THEN @ ELSE Append(@, n)]

\* A body that belongs to the shared domain is not deleted with the module.
KeepBody(n) == grown' = (grown \/ (unit # Shared /\ DeclaredIn(n) = Shared))

\* The domain and the context of a module die with the call of KSC_Compile, whatever
\* the outcome (and nothing looks at its code again); the assertion at the end is
\* compiled into debug builds only.
EndUnit ==
  /\ unit' = None
  /\ pos' = 0
  /\ grown' = FALSE
  /\ decl' = [d \in Domains |-> IF d = Shared THEN decl[d] ELSE NoDecls]
  /\ order' = [d \in Domains |-> IF d = Shared THEN order[d] ELSE <<>>]
  /\ calls' = [d \in Domains |-> IF d = Shared THEN calls[d] ELSE NoCalls]
  /\ ctx' = [d \in Domains |-> IF d = Shared THEN ctx[d] ELSE NoFunctions]
  /\ linked' = [d \in Domains |-> IF d = Shared THEN linked[d] ELSE NoCalls]
  /\ \/ phase' = "idle"
     \/ unit # Shared /\ grown /\ phase' = "Leak"

Reading(n) == phase = "parse" /\ pos < MaxDecls /\ n \in Names

\* `int n(int a);` with the prototype it had before, if it had one.
ParsePrototype(n) ==
  /\ Reading(n)
  /\ Declare(n, IF IsFunctionDefined(unit, n) THEN decl[DeclaredIn(n)][n] ELSE "proto")
  /\ pos' = pos + 1
  /\ UNCHANGED <<phase, unit, engine, ready, sessions, calls, ctx, linked, handles,
                 status, given, grown>>

\* Mutant of AcceptsBody: only a finished body counts.
AcceptsBodyAgain(n) == IsFunctionDefined(unit, n) => decl[DeclaredIn(n)][n] # "body"

\* The function has no body yet and none was begun.
AcceptsBody(n) == IsFunctionDefined(unit, n) => decl[DeclaredIn(n)][n] = "proto"

\* Mutant of Callable: a name is called before anything declares it.
CallableUndeclared(n) == Names

\* The names a body of n may call: those found from the domain that holds it, n among them.
Callable(n) == {c \in Names : c = n \/ IsFunctionDefined(DeclaredIn(n), c)}

Callee(n, c) == IF c = n THEN <<DeclaredIn(n), n>>
                ELSE <<FunctionHome(DeclaredIn(n), c), c>>

\* `int n(int a) { ... }` with calls to C.
ParseDefinition(n, C) ==
  /\ Reading(n)
  /\ AcceptsBody(n)
  /\ C \subseteq Callable(n)
  /\ Declare(n, "body")
  /\ calls' = [calls EXCEPT ![DeclaredIn(n)][n] = {Callee(n, c) : c \in C}]
  /\ given' = [m \in Modules |-> IF m = unit THEN given[m] \union {n} ELSE given[m]]
  /\ KeepBody(n)
  /\ pos' = pos + 1
  /\ UNCHANGED <<phase, unit, engine, ready, sessions, ctx, linked, handles, status>>

\* `int n(int a) {` at the end of the text: no error, and no body.
ParseOpenBody(n) ==
  /\ Reading(n)
  /\ AcceptsBody(n)
  /\ Declare(n, "begun")
  /\ KeepBody(n)
  /\ phase' = "generate"
  /\ pos' = 1
  /\ UNCHANGED <<unit, engine, ready, sessions, calls, ctx, linked, handles, status, given>>

\* A body with an error in it, or without a return on every path.  The declaration
\* stays in its domain: with what was begun of it if that is the shared one.
ParseBadBody(n) ==
  /\ Reading(n)
  /\ AcceptsBody(n)
  /\ Declare(n, "begun")
  /\ KeepBody(n)
  /\ phase' = "reject"
  /\ UNCHANGED <<unit, pos, engine, ready, sessions, calls, ctx, linked, handles, status,
                 given>>

\* The text is rejected before it changes a declaration: another prototype, a body
\* for a function that has or began one, anything else the parser does not accept.
ParseError ==
  /\ phase = "parse"
  /\ phase' = "reject"
  /\ UNCHANGED <<unit, pos, engine, ready, sessions, decl, order, calls, ctx, linked,
                 handles, status, given, grown>>

EndOfText ==
  /\ phase = "parse"
  /\ phase' = "generate"
  /\ pos' = 1
  /\ UNCHANGED <<unit, engine, ready, sessions, decl, order, calls, ctx, linked, handles,
                 status, given, grown>>

\* KSC_Initialize returns false and leaves the shared domain as far as it got;
\* KSC_Compile returns NULL.
Reject ==
  /\ phase = "reject"
  /\ EndUnit
  /\ status' = [m \in Modules |-> IF m = unit THEN "rejected" ELSE status[m]]
  /\ given' = [m \in Modules |-> IF m = unit THEN {} ELSE given[m]]
  /\ UNCHANGED <<engine, ready, sessions, handles>>

-----------------------------------------------------------------------------
(* CompileToIR: one expression of the domain after the other.              *)

Generating == phase = "generate" /\ pos <= Len(order[unit])

Current == order[unit][pos]

\* The contexts with the LLVM function of the current declaration, found or created.
WithFunction ==
  [ctx EXCEPT ![unit][Current] =
     IF FuncDeclByName(ctx, unit, Current) # None THEN FuncDeclByName(ctx, unit, Current)
     ELSE unit]

\* Mutant of HasBody: a body that was begun counts.
HasBegunBody == decl[unit][Current] # "proto"

HasBody == decl[unit][Current] = "body"

CalledNames == {r[2] : r \in calls[unit][Current]}

\* A context that already knows the name: AddFunctionDecl asserts.
AddFunctionDeclFails ==
  /\ Generating
  /\ ctx[unit][Current] # None
  /\ phase' = "AddFunctionDecl"
  /\ UNCHANGED <<unit, pos, engine, ready, sessions, decl, order, calls, ctx, linked,
                 handles, status, given, grown>>

\* A call to a function that no context knows yet asserts.
GenerateCallFails ==
  /\ Generating
  /\ ctx[unit][Current] = None
  /\ HasBody
  /\ \E c \in CalledNames : FuncDeclByName(WithFunction, unit, c) = None
  /\ phase' = "GenerateCall"
  /\ UNCHANGED <<unit, pos, engine, ready, sessions, decl, order, calls, ctx, linked,
                 handles, status, given, grown>>

\* A declaration without a body is left to the external symbols.
GenerateDeclaration ==
  /\ Generating
  /\ ctx[unit][Current] = None
  /\ ~HasBody
  /\ ctx' = WithFunction
  /\ pos' = pos + 1
  /\ UNCHANGED <<phase, unit, engine, ready, sessions, decl, order, calls, linked,
                 handles, status, given, grown>>

\* A function with a body: its calls, then its entry in mFunctionDesc.
GenerateFunction ==
  /\ Generating
  /\ ctx[unit][Current] = None
  /\ HasBody
  /\ \A c \in CalledNames : FuncDeclByName(WithFunction, unit, c) # None
  /\ ctx' = WithFunction
  /\ linked' = [linked EXCEPT ![unit][Current] =
                  {<<FuncDeclByName(WithFunction, unit, c), c>> : c \in CalledNames}]
  /\ handles' = [m \in Modules |-> IF m = unit THEN handles[m] \union {Current}
                                   ELSE handles[m]]
  /\ pos' = pos + 1
  /\ UNCHANGED <<phase, unit, engine, ready, sessions, decl, order, calls, status, given,
                 grown>>

EndOfDomain ==
  /\ phase = "generate"
  /\ pos > Len(order[unit])
  /\ EndUnit
  /\ ready' = TRUE
  /\ status' = [m \in Modules |-> IF m = unit THEN "compiled" ELSE status[m]]
  /\ UNCHANGED <<engine, sessions, handles, given>>

-----------------------------------------------------------------------------

Bodies == {C \in SUBSET Names : Cardinality(C) <= MaxCalls}

HostCall ==
  \/ \E sharedCode \in BOOLEAN : Initialize(sharedCode)
  \/ \E m \in Modules : Compile(m)
  \/ Destory

ParseStep ==
  \/ \E n \in Names : ParsePrototype(n) \/ ParseOpenBody(n) \/ ParseBadBody(n)
  \/ \E n \in Names, C \in Bodies : ParseDefinition(n, C)
  \/ ParseError
  \/ EndOfText
  \/ Reject

GenerateStep ==
  \/ AddFunctionDeclFails
  \/ GenerateCallFails
  \/ GenerateDeclaration
  \/ GenerateFunction
  \/ EndOfDomain

Next == HostCall \/ ParseStep \/ GenerateStep

Spec == Init /\ [][Next]_vars

-----------------------------------------------------------------------------
(* Properties.                                                             *)

\* The types of the variables.
TypeOK ==
  /\ phase \in {"idle", "parse", "reject", "generate"} \union Failures
  /\ unit \in Domains \union {None}
  /\ pos \in Nat
  /\ engine \in BOOLEAN /\ ready \in BOOLEAN /\ grown \in BOOLEAN
  /\ sessions \in 0..MaxSessions
  /\ decl \in [Domains -> [Names -> DeclStates]]
  /\ order \in [Domains -> Seq(Names)]
  /\ calls \in [Domains -> [Names -> SUBSET (Domains \X Names)]]
  /\ ctx \in [Domains -> [Names -> Domains \union {None}]]
  /\ linked \in [Domains -> [Names -> SUBSET (Domains \X Names)]]
  /\ handles \in [Modules -> SUBSET Names]
  /\ status \in [Modules -> {"unused", "rejected", "compiled", "deleted"}]
  /\ given \in [Modules -> SUBSET Names]

\* The parser resolves a call to a declaration, through the domains
\* (GetFunctionDeclByName); the generator looks the name up in the contexts
\* (GetFuncDeclByName).  Both reach the same function, in every module and after
\* every history of compiles: none ever calls a function of another module.
LinksAreResolved ==
  phase = "generate" =>
    \A i \in 1..Len(order[unit]) : LET n == order[unit][i] IN
      i < pos /\ decl[unit][n] = "body" => linked[unit][n] = calls[unit][n]

\* What a session of compiles may run into.  AddFunctionDecl asserts only when the
\* shared code is generated again after the library was destroyed, never on a retry
\* of an initialisation that failed; modules are deleted twice only by a second
\* KSC_Destory; and the callee that has no function yet is one that the same text
\* declared after the first declaration of the caller.
FailuresExplained ==
  /\ phase = "AddFunctionDecl" => unit = Shared /\ sessions > 0
  /\ phase = "DeletedTwice" => sessions > 1
  /\ phase = "GenerateCall" =>
       \E i \in 1..Len(order[unit]) : i > pos /\ order[unit][i] \in CalledNames

\* KSC_GetFunctionHandleByName finds in a compiled module exactly the functions that
\* the module gave a body, save those that the shared code had declared.
HandlesAreDefinitions ==
  \A m \in Modules : status[m] = "compiled" =>
    handles[m] = given[m] \ {n \in Names : decl[Shared][n] # "none"}

\* Between two initialisations nothing that is compiled, accepted or rejected, changes
\* what the shared code declares, its context, its code, or a body it has or began.
SharedIsFixed ==
  [][ready /\ ready' =>
       /\ order'[Shared] = order[Shared]
       /\ ctx'[Shared] = ctx[Shared]
       /\ linked'[Shared] = linked[Shared]
       /\ \A n \in Names : decl[Shared][n] # "proto" =>
            /\ decl'[Shared][n] = decl[Shared][n]
            /\ calls'[Shared][n] = calls[Shared][n]]_vars

\* "This function returns the function handle with the specified name": a module has
\* a handle for every function it gave a body.
DefinitionsAreCompiled ==
  \A m \in Modules : status[m] = "compiled" => given[m] \subseteq handles[m]
=============================================================================
