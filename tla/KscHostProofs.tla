--------------------------- MODULE KscHostProofs ---------------------------
(***************************************************************************)
(* The host around the library, for every built-in text, shared code,      *)
(* modules, wrapped functions and bounds: what has an address has code,    *)
(* code never calls into nothing, and the process is ended only in the     *)
(* ways AbortsExplained states.                                            *)
(***************************************************************************)
EXTENDS KscHost, KscApiProofs

UnitIsUnused == unit \in Modules => status[unit] = "unused"

\* A handle is of a function with a body in the LLVM module, and of this session.
HandlesHaveCode ==
  \A m \in Modules : \A n \in handles[m] :
    ready /\ \E f \in llvm : f.fun = <<m, n>> /\ f.body

\* A function in the LLVM module is of a module that was finished or is in work, which
\* knows it.
LlvmIsKnown ==
  \A f \in llvm :
    /\ f.fun[1] \in Modules => f.fun[1] = unit \/ status[f.fun[1]] # "unused"
    /\ f.fun[1] = unit => ctx[unit][f.fun[2]] # None

\* What a context knows is in the LLVM module: in the shared context, that survives the
\* end of a session, once its generation is under way.
ContextsHaveCode ==
  /\ \A m \in Modules, n \in Names : ctx[m][n] # None => \E f \in llvm : f.fun = <<m, n>>
  /\ ready \/ (phase = "generate" /\ unit = Shared /\ pos > 1) =>
       \A n \in Names : ctx[Shared][n] # None => \E f \in llvm : f.fun = <<Shared, n>>

CallsHaveCode == \A f \in llvm : \A c \in f.calls : \E g \in llvm : g.fun = c

RenamedForAnother ==
  \A g \in llvm : ~g.own => \E h \in llvm : h.fun # g.fun /\ h.fun[2] = g.fun[2]

\* What has an address has a handle: an address is as old as the session at most.
AddressesHaveHandles == \A fun \in jit : fun[1] \in Modules /\ fun[2] \in handles[fun[1]]

HostInv ==
  /\ HostTypeOK
  /\ UnitIsUnused
  /\ HandlesHaveCode
  /\ LlvmIsKnown
  /\ ContextsHaveCode
  /\ CallsHaveCode
  /\ RenamedForAnother
  /\ AddressesHaveHandles
  /\ AbortsExplained
  /\ CodeIsLinked

-----------------------------------------------------------------------------

\* Every step of the host is one of the library or leaves it alone.
LEMMA HostStepIsApiStep == HostNext => [Next]_vars
<1> SUFFICES ASSUME HostNext PROVE [Next]_vars
  OBVIOUS
<1>1. CASE HostInitialize \/ HostDestory
  BY <1>1 DEF HostInitialize, HostDestory, Next, HostCall
<1>2. CASE HostGenerate
  BY <1>2 DEF HostGenerate, Next, GenerateStep
<1>3. CASE HostOther
  BY <1>3 DEF HostOther, Next, HostCall, GenerateStep
<1>4. CASE \E n \in Names : KSC_AddExternalFunction(n)
  BY <1>4 DEF KSC_AddExternalFunction
<1>5. CASE \E m \in Modules, n \in Names : KSC_GetFunctionPtr(m, n) \/ RefuseFunction(m, n)
  BY <1>5 DEF KSC_GetFunctionPtr, RefuseFunction
<1> QED
  BY <1>1, <1>2, <1>3, <1>4, <1>5 DEF HostNext

\* Nothing is registered, compiled or linked at the start.
LEMMA InitHost == Init /\ HostInit => HostInv
<1> SUFFICES ASSUME Init, HostInit PROVE HostInv
  OBVIOUS
<1>1. /\ unit = None /\ phase = "idle" /\ ~ready
      /\ \A m \in Modules : ctx[m] = NoFunctions /\ handles[m] = {}
      /\ None \notin Modules
  BY NamesAssumption DEF Init, Domains
<1>2. HostTypeOK
  BY DEF HostInit, HostTypeOK
<1>3. UnitIsUnused /\ HandlesHaveCode /\ LlvmIsKnown
  BY <1>1 DEF HostInit, UnitIsUnused, HandlesHaveCode, LlvmIsKnown
<1>4. ContextsHaveCode
  BY <1>1 DEF ContextsHaveCode, NoFunctions
<1>5. CallsHaveCode /\ RenamedForAnother /\ AddressesHaveHandles /\ AbortsExplained /\ CodeIsLinked
  BY DEF HostInit, CallsHaveCode, RenamedForAnother, AddressesHaveHandles, AbortsExplained,
         CodeIsLinked
<1> QED
  BY <1>2, <1>3, <1>4, <1>5 DEF HostInv

\* A session begins and ends with nothing in the engine.
LEMMA HostSession ==
  ASSUME ApiInv, HostInv, HostInitialize \/ HostDestory PROVE HostInv'
<1>1. /\ phase = "idle" /\ unit = None /\ None \notin Modules /\ Shared \notin Modules
      /\ unit' \in {None, Shared} /\ ctx' = ctx
      /\ ~ready' /\ (phase' = "generate" => ~(pos' > 1))
      /\ externals' \subseteq Names
      /\ llvm' = {} /\ emitted' = {} /\ jit' = {} /\ outcome' = "done"
      /\ \A m \in Modules : handles'[m] = {}
  <2>1. phase = "idle" /\ unit = None
    BY DEF HostInitialize, HostDestory, Initialize, Destory, ApiInv, UnitInSession
  <2>2. CASE HostInitialize
    <3>1. \A m \in Modules : handles[m] = {}
      BY <2>2 DEF HostInitialize, Initialize, HostInv, HandlesHaveCode
    <3>2. {Intrinsics[i] : i \in DOMAIN Intrinsics} \subseteq Names
      BY IntrinsicsAssumption
    <3> QED
      BY <2>1, <2>2, <3>1, <3>2, NamesAssumption DEF HostInitialize, Initialize
  <2>3. CASE HostDestory
    BY <2>1, <2>3, NamesAssumption DEF HostDestory, Destory
  <2> QED
    BY <2>2, <2>3
<1>2. \A m \in Modules : ctx'[m] = NoFunctions
  BY <1>1 DEF ApiInv, OthersAreGone
<1>3. HostTypeOK'
  BY <1>1 DEF HostTypeOK
<1>4. UnitIsUnused' /\ HandlesHaveCode' /\ LlvmIsKnown'
  BY <1>1 DEF UnitIsUnused, HandlesHaveCode, LlvmIsKnown
<1>5. ContextsHaveCode'
  BY <1>1, <1>2 DEF ContextsHaveCode, NoFunctions
<1>6. CallsHaveCode' /\ RenamedForAnother' /\ AddressesHaveHandles' /\ AbortsExplained'
      /\ CodeIsLinked'
  BY <1>1 DEF CallsHaveCode, RenamedForAnother, AddressesHaveHandles, AbortsExplained,
              CodeIsLinked
<1> QED
  BY <1>3, <1>4, <1>5, <1>6 DEF HostInv

\* The parts of the invariant that are about the engine alone.
LEMMA EngineKept ==
  ASSUME HostInv, UNCHANGED hostVars, outcome \notin Endings,
         \A m \in Modules : handles[m] \subseteq handles'[m]
  PROVE  /\ HostTypeOK' /\ CallsHaveCode' /\ RenamedForAnother' /\ AddressesHaveHandles'
         /\ AbortsExplained' /\ CodeIsLinked'
<1>1. HostTypeOK'
  BY DEF hostVars, HostInv, HostTypeOK
<1>2. CallsHaveCode' /\ RenamedForAnother'
  BY DEF hostVars, HostInv, CallsHaveCode, RenamedForAnother
<1>3. AddressesHaveHandles'
  BY DEF hostVars, HostInv, AddressesHaveHandles
<1>4. AbortsExplained'
  BY DEF hostVars, AbortsExplained, Endings
<1>5. CodeIsLinked'
  BY DEF hostVars, HostInv, CodeIsLinked
<1> QED
  BY <1>1, <1>2, <1>3, <1>4, <1>5

\* A function of the LLVM module is a pair of a domain and a name.
LEMMA LlvmTypes ==
  ASSUME HostTypeOK, NEW f \in llvm
  PROVE  f.fun \in Functions /\ f.fun[1] \in Domains /\ f.fun[2] \in Names
         /\ f.calls \subseteq Functions
BY DEF HostTypeOK, Functions

\* The end of a unit, with code or without: its context goes, its status is no longer
\* "unused".
LEMMA HostUnitEnds ==
  ASSUME ApiInv, HostInv, UNCHANGED llvm, Reject \/ EndOfDomain
  PROVE  /\ UnitIsUnused' /\ HandlesHaveCode' /\ LlvmIsKnown' /\ ContextsHaveCode'
         /\ handles' = handles
<1>1. /\ unit' = None /\ None \notin Domains /\ Domains = Modules \union {Shared}
      /\ handles' = handles /\ (ready => ready')
      /\ phase' # "generate"
      /\ ctx'[Shared] = ctx[Shared]
      /\ \A m \in Modules : ctx'[m] = NoFunctions
      /\ Shared \notin Modules
  BY NamesAssumption DEF Reject, EndOfDomain, EndUnit, Domains
<1>2. \A m \in Modules :
        status'[m] = IF m = unit THEN (IF Reject THEN "rejected" ELSE "compiled") ELSE status[m]
  BY DEF Reject, EndOfDomain
<1>3. UnitIsUnused' /\ HandlesHaveCode'
  BY <1>1 DEF HostInv, UnitIsUnused, HandlesHaveCode, Domains
<1>4. LlvmIsKnown'
  <2> SUFFICES ASSUME NEW f \in llvm
               PROVE  /\ f.fun[1] \in Modules => status'[f.fun[1]] # "unused"
                      /\ f.fun[1] # None
    BY <1>1 DEF LlvmIsKnown
  <2>1. f.fun[1] \in Domains
    BY LlvmTypes DEF HostInv
  <2>2. f.fun[1] \in Modules => f.fun[1] = unit \/ status[f.fun[1]] # "unused"
    BY DEF HostInv, LlvmIsKnown
  <2> QED
    BY <1>1, <1>2, <2>1, <2>2
<1>5. ContextsHaveCode'
  <2>1. ready' => ready \/ (phase = "generate" /\ unit = Shared /\ pos > 1)
    <3>1. CASE EndOfDomain /\ unit = Shared
      <4>1. pos \in Nat /\ order[Shared] \in Seq(Names) /\ order[Shared] # <<>>
        BY <1>1, <3>1 DEF ApiInv, TypeOK, SharedStartsWithFirst
      <4>2. Len(order[Shared]) >= 1
        BY <4>1
      <4> QED
        BY <3>1, <4>1, <4>2 DEF EndOfDomain
    <3>2. CASE EndOfDomain /\ unit # Shared
      BY <3>2 DEF EndOfDomain, ApiInv, UnitInSession, Domains
    <3>3. CASE Reject
      BY <3>3 DEF Reject
    <3> QED
      BY <3>1, <3>2, <3>3
  <2> QED
    BY <1>1, <2>1 DEF HostInv, ContextsHaveCode, NoFunctions
<1> QED
  BY <1>1, <1>3, <1>4, <1>5

\* A compile begins with a module nothing of which is in the engine.
LEMMA HostCompiles ==
  ASSUME ApiInv, HostInv, UNCHANGED hostVars, outcome \notin Endings,
         NEW m \in Modules, Compile(m)
  PROVE  HostInv'
<1>1. /\ phase = "idle" /\ unit = None /\ None \notin Modules /\ status[m] = "unused"
      /\ unit' = m /\ phase' = "parse"
      /\ UNCHANGED <<ready, ctx, handles, status, llvm>>
  BY NamesAssumption DEF Compile, ApiInv, UnitInSession, hostVars
<1>2. UnitIsUnused' /\ HandlesHaveCode'
  BY <1>1 DEF HostInv, UnitIsUnused, HandlesHaveCode
<1>3. LlvmIsKnown' /\ ContextsHaveCode'
  BY <1>1 DEF HostInv, LlvmIsKnown, ContextsHaveCode
<1> QED
  BY <1>1, <1>2, <1>3, EngineKept DEF HostInv

\* While a text is parsed, when a unit ends and when an assertion fails, the engine is
\* left alone.
LEMMA HostParses ==
  ASSUME ApiInv, HostInv, UNCHANGED hostVars, outcome \notin Endings,
         ParseStep \/ EndOfDomain \/ AddFunctionDeclFails \/ GenerateCallFails
  PROVE  HostInv'
<1>1. CASE Reject \/ EndOfDomain
  BY <1>1, HostUnitEnds, EngineKept DEF HostInv, hostVars
<1>2. CASE ~(Reject \/ EndOfDomain)
  <2>1. /\ UNCHANGED <<unit, ready, ctx, handles, status, llvm>>
        /\ phase' = "generate" => pos' = 1
    BY <1>2 DEF ParseStep, ParsePrototype, ParseOpenBody, ParseBadBody, ParseDefinition,
                ParseError, EndOfText, AddFunctionDeclFails, GenerateCallFails, Reading,
                hostVars
  <2>2. UnitIsUnused' /\ HandlesHaveCode' /\ LlvmIsKnown'
    BY <2>1 DEF HostInv, UnitIsUnused, HandlesHaveCode, LlvmIsKnown
  <2>3. ContextsHaveCode'
    <3>1. (ready \/ (phase = "generate" /\ unit = Shared /\ pos > 1))' => ready
      BY <2>1
    <3>2. /\ \A m \in Modules, n \in Names : ctx[m][n] # None => \E f \in llvm : f.fun = <<m, n>>
          /\ ready => \A n \in Names : ctx[Shared][n] # None =>
                        \E f \in llvm : f.fun = <<Shared, n>>
      BY DEF HostInv, ContextsHaveCode
    <3> QED
      BY <2>1, <3>1, <3>2 DEF ContextsHaveCode
  <2> QED
    BY <2>1, <2>2, <2>3, EngineKept DEF HostInv
<1> QED
  BY <1>1, <1>2

-----------------------------------------------------------------------------

\* What the contexts of the unit in work know is theirs, and in the LLVM module.
LEMMA KnownHasCode ==
  ASSUME ApiInv, HostInv, Generating, ctx[unit][Current] = None,
         NEW d \in {unit, Shared}, NEW n \in Names, ctx[d][n] # None
  PROVE  ctx[d][n] = d /\ \E f \in llvm : f.fun = <<d, n>>
<1>1. /\ unit \in Domains /\ Shared \in Domains /\ Domains = Modules \union {Shared}
      /\ pos \in Nat /\ pos >= 1 /\ phase = "generate"
  BY FunctionIsNew DEF Domains, Generating
<1>2. ctx[d][n] = d
  BY <1>1 DEF ApiInv, ContextsAreOwn
<1>3. CASE d \in Modules
  BY <1>2, <1>3 DEF HostInv, ContextsHaveCode
<1>4. CASE d = Shared /\ unit # Shared
  <2>1. ready
    BY <1>1, <1>4 DEF ApiInv, UnitInSession
  <2> QED
    BY <1>2, <1>4, <2>1 DEF HostInv, ContextsHaveCode
<1>5. CASE d = Shared /\ unit = Shared
  <2>1. pos > 1
    <3> SUFFICES ASSUME pos = 1 PROVE FALSE
      BY <1>1
    <3>1. Current = First
      BY <1>5 DEF Current, Generating, ApiInv, SharedStartsWithFirst
    <3>2. ctx[Shared][First] # None
      BY <1>5 DEF ApiInv, SharedStartsWithFirst
    <3> QED
      BY <1>5, <3>1, <3>2
  <2> QED
    BY <1>1, <1>2, <1>5, <2>1 DEF HostInv, ContextsHaveCode
<1> QED
  BY <1>1, <1>3, <1>4, <1>5

\* The functions that the code of the current function calls: itself, and functions of
\* the LLVM module.
LEMMA LinkedHasCode ==
  ASSUME ApiInv, HostInv, GenerateFunction, NEW c \in linked'[unit][Current]
  PROVE  c = <<unit, Current>> \/ \E f \in llvm : f.fun = c
<1>1. /\ Generating /\ ctx[unit][Current] = None /\ unit \in Domains /\ Current \in Names
      /\ Shared \in Domains /\ None \notin Domains
      /\ \A d \in Domains, k \in Names :
           WithFunction[d][k] = IF d = unit /\ k = Current THEN unit ELSE ctx[d][k]
  BY FunctionIsNew, NamesAssumption DEF GenerateFunction, Domains
<1>2. linked'[unit][Current] = {<<FuncDeclByName(WithFunction, unit, k), k>> : k \in CalledNames}
  <2>1. linked \in [Domains -> [Names -> SUBSET (Domains \X Names)]]
    BY DEF ApiInv, TypeOK
  <2>2. linked' = [linked EXCEPT ![unit][Current] =
                     {<<FuncDeclByName(WithFunction, unit, k), k>> : k \in CalledNames}]
    BY DEF GenerateFunction
  <2> QED
    BY <1>1, <2>1, <2>2
<1>3. PICK k \in CalledNames : c = <<FuncDeclByName(WithFunction, unit, k), k>>
  BY <1>2
<1>4. k \in Names /\ FuncDeclByName(WithFunction, unit, k) # None
  BY <1>1 DEF GenerateFunction, CalledNames, ApiInv, TypeOK
<1>5. PICK d \in {unit, Shared} :
        WithFunction[d][k] # None /\ FuncDeclByName(WithFunction, unit, k) = WithFunction[d][k]
  BY <1>4 DEF FuncDeclByName
<1>6. CASE d = unit /\ k = Current
  BY <1>1, <1>3, <1>5, <1>6
<1>7. CASE ~(d = unit /\ k = Current)
  <2>1. ctx[d][k] # None /\ c = <<ctx[d][k], k>>
    BY <1>1, <1>3, <1>4, <1>5, <1>7
  <2> QED
    BY <1>1, <1>4, <2>1, KnownHasCode
<1> QED
  BY <1>6, <1>7

\* A function more in the LLVM module: a new one, that calls what is there.
LEMMA HostGenerates ==
  ASSUME ApiInv, ApiInv', HostInv, HostGenerate, outcome \notin Endings PROVE HostInv'
<1>1. /\ Generating /\ phase = "generate" /\ pos' = pos + 1 /\ ctx[unit][Current] = None
      /\ ctx' = WithFunction
      /\ UNCHANGED <<phase, unit, ready, status, engine>>
      /\ UNCHANGED <<externals, emitted, jit, outcome>>
  BY DEF HostGenerate, GenerateDeclaration, GenerateFunction, Generating
<1>2. /\ unit \in Domains /\ Current \in Names /\ pos \in Nat /\ pos >= 1
      /\ Shared \in Domains /\ Domains = Modules \union {Shared} /\ None \notin Domains
      /\ Shared \notin Modules
      /\ \A d \in Domains, k \in Names :
           ctx'[d][k] = IF d = unit /\ k = Current THEN unit ELSE ctx[d][k]
  BY <1>1, FunctionIsNew, NamesAssumption DEF Domains
<1>3. PICK body \in BOOLEAN, callees \in SUBSET Functions :
        /\ llvm' = llvm \union {NewFunction(Current, body, callees)}
        /\ \A c \in callees : c = <<unit, Current>> \/ \E f \in llvm : f.fun = c
        /\ handles' = [m \in Modules |-> IF m = unit /\ body THEN handles[m] \union {Current}
                                         ELSE handles[m]]
  <2>1. handles = [m \in Modules |-> handles[m]]
    BY DEF ApiInv, TypeOK
  <2>2. CASE GenerateDeclaration
    <3>1. handles' = handles /\ llvm' = llvm \union {NewFunction(Current, FALSE, {})}
      BY <2>2 DEF HostGenerate, GenerateDeclaration, GenerateFunction
    <3>2. handles' = [m \in Modules |-> IF m = unit /\ FALSE THEN handles[m] \union {Current}
                                        ELSE handles[m]]
      BY <2>1, <3>1
    <3>3. FALSE \in BOOLEAN /\ {} \in SUBSET Functions
      OBVIOUS
    <3> QED
      BY <3>1, <3>2, <3>3
  <2>3. CASE GenerateFunction
    <3>1. llvm' = llvm \union {NewFunction(Current, TRUE, linked'[unit][Current])}
      BY <2>3 DEF HostGenerate, GenerateDeclaration, GenerateFunction
    <3>2. linked'[unit][Current] \in SUBSET Functions
      BY <1>2 DEF ApiInv, TypeOK, Functions
    <3>3. handles' = [m \in Modules |-> IF m = unit THEN handles[m] \union {Current}
                                        ELSE handles[m]]
      BY <2>3 DEF GenerateFunction
    <3> QED
      BY <2>3, <3>1, <3>2, <3>3, LinkedHasCode
  <2> QED
    BY <2>2, <2>3 DEF HostGenerate
<1> DEFINE new == NewFunction(Current, body, callees)
<1>4. /\ new.fun = <<unit, Current>> /\ new.fun[1] = unit /\ new.fun[2] = Current
      /\ new.body = body /\ new.calls = callees /\ new.own = KeepsName(Current)
      /\ new \in [fun : Functions, body : BOOLEAN, calls : SUBSET Functions, own : BOOLEAN]
  <2>1. <<unit, Current>> \in Functions /\ KeepsName(Current) \in BOOLEAN
    BY <1>2 DEF Functions, KeepsName
  <2> QED
    BY <2>1 DEF NewFunction
<1> HIDE DEF new
<1>5. llvm' = llvm \union {new}
  BY <1>3 DEF new
<1>6. \A f \in llvm : f.fun # <<unit, Current>>
  BY <1>1 DEF HostInv, LlvmIsKnown
<1>7. HostTypeOK'
  <2>1. emitted \subseteq {f.fun : f \in {g \in llvm' : g.body}}
    BY <1>5 DEF HostInv, HostTypeOK
  <2> QED
    BY <1>1, <1>4, <1>5, <2>1 DEF HostInv, HostTypeOK
<1>8. UnitIsUnused' /\ AddressesHaveHandles' /\ AbortsExplained'
  <2>1. UnitIsUnused' /\ AbortsExplained'
    BY <1>1 DEF HostInv, UnitIsUnused, AbortsExplained, Endings
  <2>2. \A m \in Modules : handles[m] \subseteq handles'[m]
    BY <1>3
  <2>3. jit' = jit
    BY <1>1
  <2> QED
    BY <2>1, <2>2, <2>3 DEF HostInv, AddressesHaveHandles
<1>9. HandlesHaveCode'
  <2> SUFFICES ASSUME NEW m \in Modules, NEW n \in handles'[m]
               PROVE  ready /\ \E f \in llvm' : f.fun = <<m, n>> /\ f.body
    BY <1>1 DEF HandlesHaveCode
  <2>1. CASE n \in handles[m]
    BY <1>5, <2>1 DEF HostInv, HandlesHaveCode
  <2>2. CASE n \notin handles[m]
    <3>1. m = unit /\ body /\ n = Current
      BY <1>3, <2>2
    <3>2. ready
      BY <3>1 DEF ApiInv, UnitInSession
    <3> QED
      BY <1>4, <1>5, <3>1, <3>2
  <2> QED
    BY <2>1, <2>2
<1>10. LlvmIsKnown'
  <2> SUFFICES ASSUME NEW f \in llvm'
               PROVE  /\ f.fun[1] \in Modules => f.fun[1] = unit \/ status[f.fun[1]] # "unused"
                      /\ f.fun[1] = unit => ctx'[unit][f.fun[2]] # None
    BY <1>1 DEF LlvmIsKnown
  <2>1. CASE f = new
    BY <1>2, <1>4, <2>1
  <2>2. CASE f \in llvm
    <3>1. f.fun[2] \in Names
      BY <2>2, LlvmTypes DEF HostInv
    <3> QED
      BY <1>2, <2>2, <3>1 DEF HostInv, LlvmIsKnown
  <2> QED
    BY <1>5, <2>1, <2>2
<1>11. ContextsHaveCode'
  <2>1. ASSUME NEW m \in Modules, NEW n \in Names, ctx'[m][n] # None
        PROVE  \E f \in llvm' : f.fun = <<m, n>>
    <3>1. CASE m = unit /\ n = Current
      BY <1>4, <1>5, <3>1
    <3>2. CASE ~(m = unit /\ n = Current)
      <4>1. ctx[m][n] # None
        BY <1>2, <2>1, <3>2
      <4>2. \E f \in llvm : f.fun = <<m, n>>
        BY <4>1 DEF HostInv, ContextsHaveCode
      <4> QED
        BY <1>5, <4>2
    <3> QED
      BY <3>1, <3>2
  <2>2. ASSUME NEW n \in Names, ctx'[Shared][n] # None
        PROVE  \E f \in llvm' : f.fun = <<Shared, n>>
    <3>1. CASE Shared = unit /\ n = Current
      BY <1>4, <1>5, <3>1
    <3>2. CASE ~(Shared = unit /\ n = Current)
      <4>1. ctx[Shared][n] # None
        BY <1>2, <2>2, <3>2
      <4>2. \E f \in llvm : f.fun = <<Shared, n>>
        BY <1>1, <4>1, KnownHasCode
      <4> QED
        BY <1>5, <4>2
    <3> QED
      BY <3>1, <3>2
  <2> QED
    BY <2>1, <2>2 DEF ContextsHaveCode
<1>12. CallsHaveCode'
  <2> SUFFICES ASSUME NEW f \in llvm', NEW c \in f.calls PROVE \E g \in llvm' : g.fun = c
    BY DEF CallsHaveCode
  <2>1. CASE f = new
    BY <1>3, <1>4, <1>5, <2>1
  <2>2. CASE f \in llvm
    BY <1>5, <2>2 DEF HostInv, CallsHaveCode
  <2> QED
    BY <1>5, <2>1, <2>2
<1>13. RenamedForAnother'
  <2> SUFFICES ASSUME NEW g \in llvm', ~g.own
               PROVE  \E h \in llvm' : h.fun # g.fun /\ h.fun[2] = g.fun[2]
    BY DEF RenamedForAnother
  <2>1. CASE g = new
    <3>1. PICK h \in llvm : h.fun[2] = Current
      BY <1>4, <2>1 DEF KeepsName
    <3> QED
      BY <1>4, <1>5, <1>6, <2>1, <3>1
  <2>2. CASE g \in llvm
    BY <1>5, <2>2 DEF HostInv, RenamedForAnother
  <2> QED
    BY <1>5, <2>1, <2>2
<1>14. CodeIsLinked'
  <2> SUFFICES ASSUME NEW f \in llvm', NEW g \in llvm', f.fun \in emitted, g.fun \in f.calls
               PROVE  g.fun \in emitted \/ (~g.body /\ g.own /\ g.fun[2] \in externals)
    BY <1>1 DEF CodeIsLinked
  <2>1. f \in llvm
    <3>1. \E h \in llvm : h.fun = f.fun
      BY DEF HostInv, HostTypeOK
    <3> QED
      BY <1>4, <1>5, <1>6, <3>1
  <2>2. g \in llvm
    <3>1. \E h \in llvm : h.fun = g.fun
      BY <2>1 DEF HostInv, CallsHaveCode
    <3> QED
      BY <1>4, <1>5, <1>6, <3>1
  <2> QED
    BY <2>1, <2>2 DEF HostInv, CodeIsLinked
<1> QED
  BY <1>7, <1>8, <1>9, <1>10, <1>11, <1>12, <1>13, <1>14 DEF HostInv

-----------------------------------------------------------------------------

\* A function more that the host registers: what was resolved still is.
LEMMA HostRegisters ==
  ASSUME HostInv, NEW n \in Names, KSC_AddExternalFunction(n) PROVE HostInv'
<1>1. /\ UNCHANGED <<vars, llvm, emitted, jit>>
      /\ externals \subseteq externals' /\ externals' \subseteq Names
      /\ outcome' \in {"done", "NoEngine"} /\ (outcome' = "NoEngine" => ~engine)
  BY DEF KSC_AddExternalFunction, HostInv, HostTypeOK
<1>2. HostTypeOK'
  BY <1>1 DEF HostInv, HostTypeOK, Endings
<1>3. UnitIsUnused' /\ HandlesHaveCode' /\ LlvmIsKnown' /\ ContextsHaveCode'
  BY <1>1 DEF vars, HostInv, UnitIsUnused, HandlesHaveCode, LlvmIsKnown, ContextsHaveCode
<1>4. CallsHaveCode' /\ RenamedForAnother' /\ AddressesHaveHandles' /\ AbortsExplained'
  BY <1>1
  DEF vars, HostInv, CallsHaveCode, RenamedForAnother, AddressesHaveHandles, AbortsExplained
<1>5. CodeIsLinked'
  BY <1>1 DEF HostInv, CodeIsLinked
<1> QED
  BY <1>2, <1>3, <1>4, <1>5 DEF HostInv

\* A request for an address: the first compiles all there is, if all of it is resolved.
LEMMA HostRequests ==
  ASSUME ApiInv, HostInv, outcome \notin Endings, NEW m \in Modules, NEW n \in Names,
         KSC_GetFunctionPtr(m, n)
  PROVE  HostInv'
<1> DEFINE fun == <<m, n>>
<1>1. /\ phase = "idle" /\ unit = None /\ None \notin Modules /\ n \in handles[m]
      /\ UNCHANGED <<vars, externals, llvm>>
      /\ outcome' = Request(fun)
      /\ jit' = IF outcome' = "address" THEN jit \union {fun} ELSE jit \ {fun}
      /\ emitted' = IF emitted = {} /\ outcome' = "address"
                    THEN {f.fun : f \in {g \in llvm : g.body}} ELSE emitted
  BY NamesAssumption DEF KSC_GetFunctionPtr, ApiInv, UnitInSession
<1>2. PICK code \in llvm : code.fun = fun /\ code.body
  BY <1>1 DEF HostInv, HandlesHaveCode
<1>3. /\ emitted \subseteq {f.fun : f \in {g \in llvm : g.body}}
      /\ jit \subseteq emitted
  BY DEF HostInv, HostTypeOK
<1> HIDE DEF fun
<1>4. UnitIsUnused' /\ HandlesHaveCode' /\ LlvmIsKnown' /\ ContextsHaveCode'
  BY <1>1 DEF vars, HostInv, UnitIsUnused, HandlesHaveCode, LlvmIsKnown, ContextsHaveCode
<1>5. CallsHaveCode' /\ RenamedForAnother'
  BY <1>1 DEF HostInv, CallsHaveCode, RenamedForAnother
<1>6. CASE emitted = {} /\ outcome' = "address"
  <2>1. AllResolved
    BY <1>1, <1>3, <1>6 DEF Request
  <2>2. /\ emitted' = {f.fun : f \in {g \in llvm : g.body}}
        /\ jit' = {fun} /\ jit' \subseteq emitted'
    BY <1>1, <1>2, <1>3, <1>6 DEF HostInv, AddressesHaveHandles
  <2>3. HostTypeOK'
    BY <1>1, <1>6, <2>2 DEF HostInv, HostTypeOK
  <2>4. AddressesHaveHandles'
    BY <1>1, <2>2 DEF vars, AddressesHaveHandles, fun
  <2>5. AbortsExplained'
    BY <1>6 DEF AbortsExplained
  <2>6. CodeIsLinked'
    <3> SUFFICES ASSUME NEW f \in llvm, NEW g \in llvm, g.fun \in f.calls
                 PROVE  g.fun \in emitted' \/ (~g.body /\ g.own /\ g.fun[2] \in externals)
      BY <1>1 DEF CodeIsLinked
    <3>1. g.body \/ (g.own /\ g.fun[2] \in externals)
      BY <2>1 DEF AllResolved, Resolved
    <3> QED
      BY <2>2, <3>1
  <2> QED
    BY <1>4, <1>5, <2>3, <2>4, <2>5, <2>6 DEF HostInv
<1>7. CASE ~(emitted = {} /\ outcome' = "address")
  <2>1. emitted' = emitted
    BY <1>1, <1>7
  <2>2. outcome' = "address" => fun \in emitted
    BY <1>1, <1>3, <1>7 DEF Request, Found
  <2>3. outcome' \in {"address", "null", "Unresolved"}
    BY <1>1 DEF Request
  <2>4. jit' \subseteq emitted'
    BY <1>1, <1>3, <2>1, <2>2
  <2>5. HostTypeOK'
    BY <1>1, <2>1, <2>3, <2>4 DEF HostInv, HostTypeOK, Endings
  <2>6. AddressesHaveHandles' /\ CodeIsLinked'
    <3>1. jit' \subseteq jit \union {fun} /\ handles' = handles
      BY <1>1 DEF vars
    <3>2. fun[1] \in Modules /\ fun[2] \in handles[fun[1]]
      BY <1>1 DEF fun
    <3>3. AddressesHaveHandles'
      BY <3>1, <3>2 DEF HostInv, AddressesHaveHandles
    <3>4. CodeIsLinked'
      BY <1>1, <2>1 DEF HostInv, CodeIsLinked
    <3> QED
      BY <3>3, <3>4
  <2>7. AbortsExplained'
    <3> SUFFICES ASSUME outcome' = "Unresolved" PROVE AbortsExplained'
      BY <2>3 DEF AbortsExplained
    <3>1. emitted = {} /\ ~AllResolved
      BY <1>1 DEF Request
    <3>2. PICK f \in llvm, g \in llvm : g.fun \in f.calls /\ ~Resolved(g)
      BY <3>1 DEF AllResolved
    <3>3. ~g.body /\ (~g.own \/ g.fun[2] \notin externals)
      BY <3>2 DEF Resolved
    <3>4. ~g.own => \E h \in llvm : h.fun # g.fun /\ h.fun[2] = g.fun[2]
      BY DEF HostInv, RenamedForAnother
    <3> QED
      BY <1>1, <2>1, <3>1, <3>2, <3>3, <3>4 DEF AbortsExplained
  <2> QED
    BY <1>4, <1>5, <2>5, <2>6, <2>7 DEF HostInv
<1> QED
  BY <1>6, <1>7

\* A step that changes nothing but the outcome, or nothing at all.
LEMMA HostQuiet ==
  ASSUME HostInv,
         \/ UNCHANGED allVars
         \/ \E m \in Modules, n \in Names : RefuseFunction(m, n)
  PROVE  HostInv'
<1>1. /\ UNCHANGED <<vars, externals, llvm, emitted, jit>>
      /\ outcome' \in {outcome, "null"}
  BY DEF allVars, hostVars, RefuseFunction
<1>2. HostTypeOK'
  BY <1>1 DEF HostInv, HostTypeOK
<1>3. UnitIsUnused' /\ HandlesHaveCode' /\ LlvmIsKnown' /\ ContextsHaveCode'
  BY <1>1 DEF vars, HostInv, UnitIsUnused, HandlesHaveCode, LlvmIsKnown, ContextsHaveCode
<1>4. CallsHaveCode' /\ RenamedForAnother' /\ AddressesHaveHandles' /\ CodeIsLinked'
  BY <1>1
  DEF vars, HostInv, CallsHaveCode, RenamedForAnother, AddressesHaveHandles, CodeIsLinked
<1>5. AbortsExplained'
  BY <1>1 DEF vars, HostInv, AbortsExplained
<1> QED
  BY <1>2, <1>3, <1>4, <1>5 DEF HostInv

-----------------------------------------------------------------------------

\* The library below a host that registers functions and asks for addresses behaves as
\* it does alone.
THEOREM HostImplementsApi == HostSpec => Spec
<1>1. [HostNext]_allVars => [Next]_vars
  BY HostStepIsApiStep DEF allVars
<1> QED
  BY <1>1, PTL DEF HostSpec, Spec

\* The inductive invariant of the host holds in every reachable state.
THEOREM HostCorrect == HostSpec => []HostInv
<1>1. Init /\ HostInit => HostInv
  BY InitHost
<1>2. ApiInv /\ ApiInv' /\ HostInv /\ [HostNext]_allVars => HostInv'
  <2> SUFFICES ASSUME ApiInv, ApiInv', HostInv, [HostNext]_allVars PROVE HostInv'
    OBVIOUS
  <2>1. CASE UNCHANGED allVars
    BY <2>1, HostQuiet
  <2>2. ASSUME HostNext PROVE outcome \notin Endings
    BY <2>2 DEF HostNext
  <2>3. CASE HostInitialize \/ HostDestory
    BY <2>3, HostSession
  <2>4. CASE HostNext /\ HostGenerate
    BY <2>2, <2>4, HostGenerates
  <2>6. CASE HostNext /\ HostOther
    BY <2>2, <2>6, HostCompiles, HostParses DEF HostOther
  <2>7. CASE \E n \in Names : KSC_AddExternalFunction(n)
    BY <2>7, HostRegisters
  <2>8. CASE HostNext /\ \E m \in Modules, n \in Names : KSC_GetFunctionPtr(m, n)
    BY <2>2, <2>8, HostRequests
  <2>9. CASE \E m \in Modules, n \in Names : RefuseFunction(m, n)
    BY <2>9, HostQuiet
  <2> QED
    BY <2>1, <2>3, <2>4, <2>6, <2>7, <2>8, <2>9 DEF HostNext
<1>3. HostSpec => []ApiInv
  BY HostImplementsApi, ApiCorrect, PTL
<1> QED
  BY <1>1, <1>2, <1>3, PTL DEF HostSpec

\* Only functions with code in the engine have an address.
THEOREM HostTypesCorrect == HostSpec => []HostTypeOK
<1>1. HostInv => HostTypeOK
  BY DEF HostInv
<1> QED
  BY <1>1, HostCorrect, PTL

\* An address the host was given is given again as long as there is the handle:
\* KSC_GetFunctionPtr makes no wrapper anew for a function that has one.
THEOREM AddressesCorrect == HostSpec => AddressesStay
<1>1. HostInv /\ [HostNext]_allVars =>
        [\A fun \in jit : fun \in jit' \/ fun[2] \notin handles'[fun[1]]]_allVars
  <2> SUFFICES ASSUME HostInv, HostNext, NEW fun \in jit, fun \notin jit'
               PROVE  fun[2] \notin handles'[fun[1]]
    OBVIOUS
  <2>1. fun[1] \in Modules /\ fun[2] \in handles[fun[1]]
    BY DEF HostInv, AddressesHaveHandles
  <2>2. ready
    BY <2>1 DEF HostInv, HandlesHaveCode
  <2>3. ~HostInitialize
    BY <2>2 DEF HostInitialize, Initialize
  <2>4. CASE HostDestory
    BY <2>1, <2>4 DEF HostDestory, Destory
  <2>5. ~HostGenerate /\ ~HostOther
    BY DEF HostGenerate, HostOther, hostVars
  <2>6. \A n \in Names : ~KSC_AddExternalFunction(n)
    BY DEF KSC_AddExternalFunction
  <2>7. \A m \in Modules, n \in Names : ~KSC_GetFunctionPtr(m, n) /\ ~RefuseFunction(m, n)
    <3>1. \A m \in Modules, n \in Names : ~RefuseFunction(m, n)
      BY DEF RefuseFunction
    <3>2. ASSUME NEW m \in Modules, NEW n \in Names, KSC_GetFunctionPtr(m, n) PROVE FALSE
      <4>1. <<m, n>> = fun
        BY <3>2 DEF KSC_GetFunctionPtr
      <4>2. outcome' = "address"
        BY <3>2, <4>1 DEF KSC_GetFunctionPtr, Request
      <4> QED
        BY <3>2, <4>1, <4>2 DEF KSC_GetFunctionPtr
    <3> QED
      BY <3>1, <3>2
  <2> QED
    BY <2>3, <2>4, <2>5, <2>6, <2>7 DEF HostNext
<1> QED
  BY <1>1, HostCorrect, PTL DEF HostSpec, AddressesStay

\* The process ends only when the host registers a function without an engine, or asks
\* for an address while a call has neither code nor a registered function behind it.
THEOREM AbortsCorrect == HostSpec => []AbortsExplained
<1>1. HostInv => AbortsExplained
  BY DEF HostInv
<1> QED
  BY <1>1, HostCorrect, PTL

\* The code that the engine has made calls only code made with it and registered
\* functions.
THEOREM LinkedCorrect == HostSpec => []CodeIsLinked
<1>1. HostInv => CodeIsLinked
  BY DEF HostInv
<1> QED
  BY <1>1, HostCorrect, PTL
=============================================================================
