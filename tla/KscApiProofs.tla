--------------------------- MODULE KscApiProofs ---------------------------
(***************************************************************************)
(* For every set of names and modules and every bound: the parser and the  *)
(* generator agree on what a call calls, and compiling a module leaves     *)
(* what the shared code has compiled as it was.                            *)
(***************************************************************************)
EXTENDS KscApi, SequenceTheorems, TLAPS

First == Intrinsics[1]

\* A module is compiled in a session; the shared code makes one.
UnitInSession ==
  /\ unit \in Modules => ready
  /\ unit = Shared => ~ready
  /\ phase = "idle" => unit = None
  /\ phase \in {"parse", "reject", "generate"} => unit \in Domains

\* A module that is not being compiled has no domain and no context.
OthersAreGone ==
  \A m \in Modules : m # unit =>
    decl[m] = NoDecls /\ order[m] = <<>> /\ calls[m] = NoCalls /\ ctx[m] = NoFunctions

\* No name is declared in a module and in the shared code.
DeclaredOnce ==
  \A m \in Modules, n \in Names : decl[m][n] # "none" => decl[Shared][n] = "none"

OrderIsDeclared ==
  \A d \in Domains : \A i \in 1..Len(order[d]) : decl[d][order[d][i]] # "none"

\* A call points to the declaration that is found from the domain of its function.
CallsAreResolved ==
  \A d \in Domains, n \in Names : \A r \in calls[d][n] :
    FunctionHome(d, r[2]) # None /\ r[1] = FunctionHome(d, r[2])

\* A context holds the functions that were created in it, of a module only declared ones.
ContextsAreOwn ==
  /\ \A d \in Domains, n \in Names : ctx[d][n] \in {d, None}
  /\ \A m \in Modules, n \in Names : ctx[m][n] # None => decl[m][n] # "none"

\* The shared context begins with the first intrinsic, so that a second generation
\* fails at its first declaration.
SharedStartsWithFirst ==
  /\ order[Shared] # <<>> => order[Shared][1] = First
  /\ unit = Shared => order[Shared] # <<>>
  /\ \A n \in Names : ctx[Shared][n] # None => ctx[Shared][First] # None
  /\ phase = "generate" /\ unit = Shared /\ pos > 1 => ctx[Shared][First] # None

\* Once its generation is under way the shared context holds only functions that
\* the shared code of this session declares.
SharedIsCurrent ==
  ready \/ (phase = "generate" /\ unit = Shared /\ pos > 1) =>
    \A n \in Names : ctx[Shared][n] # None => decl[Shared][n] # "none"

Generating1 == phase = "generate" => pos >= 1

ApiInv ==
  /\ TypeOK
  /\ UnitInSession
  /\ OthersAreGone
  /\ DeclaredOnce
  /\ OrderIsDeclared
  /\ CallsAreResolved
  /\ ContextsAreOwn
  /\ SharedStartsWithFirst
  /\ SharedIsCurrent
  /\ Generating1
  /\ LinksAreResolved

-----------------------------------------------------------------------------

\* The built-in text declares at least one function, which the shared domain then holds.
LEMMA FirstIsName ==
  /\ Intrinsics # <<>> /\ Len(Intrinsics) \in Nat /\ Len(Intrinsics) >= 1
  /\ First \in Names
  /\ IntrinsicDecls \in [Names -> DeclStates]
  /\ \A i \in 1..Len(Intrinsics) : IntrinsicDecls[Intrinsics[i]] # "none"
<1>1. Intrinsics \in Seq(Names) /\ Intrinsics # <<>>
  BY IntrinsicsAssumption
<1>2. Len(Intrinsics) \in Nat /\ Len(Intrinsics) >= 1 /\ DOMAIN Intrinsics = 1..Len(Intrinsics)
  BY <1>1
<1>3. \A i \in 1..Len(Intrinsics) : Intrinsics[i] \in Names
  BY <1>1
<1> QED
  BY <1>1, <1>2, <1>3 DEF First, IntrinsicDecls, DeclStates

\* The invariant holds before the library is initialised.
LEMMA InitInv == Init => ApiInv
<1> SUFFICES ASSUME Init PROVE ApiInv
  OBVIOUS
<1>1. TypeOK
  <2>1. phase \in {"idle", "parse", "reject", "generate"} \union Failures
    BY BoundsAssumption DEF Init
  <2>2. unit \in Domains \union {None} /\ pos \in Nat /\ sessions \in 0..MaxSessions
    BY BoundsAssumption DEF Init
  <2>3. engine \in BOOLEAN /\ ready \in BOOLEAN /\ grown \in BOOLEAN
    BY BoundsAssumption DEF Init
  <2>4. NoDecls \in [Names -> DeclStates] /\ NoFunctions \in [Names -> Domains \union {None}]
    BY DEF NoDecls, NoFunctions, DeclStates
  <2>5. NoCalls \in [Names -> SUBSET (Domains \X Names)]
    BY DEF NoCalls
  <2>6. order \in [Domains -> Seq(Names)]
    BY BoundsAssumption DEF Init
  <2>7. /\ handles \in [Modules -> SUBSET Names] /\ given \in [Modules -> SUBSET Names]
        /\ status \in [Modules -> {"unused", "rejected", "compiled", "deleted"}]
    BY BoundsAssumption DEF Init
  <2>8. /\ decl \in [Domains -> [Names -> DeclStates]]
        /\ ctx \in [Domains -> [Names -> Domains \union {None}]]
    BY <2>4 DEF Init
  <2>9. /\ calls \in [Domains -> [Names -> SUBSET (Domains \X Names)]]
        /\ linked \in [Domains -> [Names -> SUBSET (Domains \X Names)]]
    BY <2>5 DEF Init
  <2> QED
    BY <2>1, <2>2, <2>3, <2>6, <2>7, <2>8, <2>9 DEF TypeOK
<1> USE NamesAssumption, BoundsAssumption DEF Init, Domains
<1>2. UnitInSession /\ OthersAreGone
  BY DEF UnitInSession, OthersAreGone
<1>3. DeclaredOnce /\ OrderIsDeclared
  BY DEF DeclaredOnce, OrderIsDeclared, NoDecls
<1>4. CallsAreResolved
  BY DEF CallsAreResolved, NoCalls
<1>5. ContextsAreOwn /\ SharedStartsWithFirst /\ SharedIsCurrent
  BY DEF ContextsAreOwn, SharedStartsWithFirst, SharedIsCurrent, NoFunctions
<1>6. Generating1 /\ LinksAreResolved
  BY DEF Generating1, LinksAreResolved
<1> QED
  BY <1>1, <1>2, <1>3, <1>4, <1>5, <1>6 DEF ApiInv

\* Where a declaration goes, and what it leaves alone: the homes of the names that
\* have one.
LEMMA DeclareKeeps ==
  ASSUME ApiInv, phase = "parse", NEW n \in Names, NEW state \in DeclStates \ {"none"},
         Declare(n, state)
  PROVE  /\ unit \in Domains /\ DeclaredIn(n) \in {unit, Shared} /\ DeclaredIn(n) \in Domains
         /\ decl' \in [Domains -> [Names -> DeclStates]]
         /\ order' \in [Domains -> Seq(Names)]
         /\ \A d \in Domains, k \in Names :
              decl'[d][k] = IF d = DeclaredIn(n) /\ k = n THEN state ELSE decl[d][k]
         /\ \A d \in Domains : d # DeclaredIn(n) => decl'[d] = decl[d]
         /\ \A d \in Domains : d # unit => order'[d] = order[d]
         /\ order'[unit] = IF IsFunctionDefined(unit, n) THEN order[unit]
                           ELSE Append(order[unit], n)
         /\ \A d \in {unit, Shared}, k \in Names : FunctionHome(d, k) # None =>
              FunctionHome(d, k)' = FunctionHome(d, k)
         /\ \A d \in Domains : d = DeclaredIn(n) => FunctionHome(d, n)' = d
<1> DEFINE D == DeclaredIn(n)
<1>1. unit \in Domains /\ None \notin Domains /\ Shared \in Domains
  BY NamesAssumption DEF ApiInv, UnitInSession, Domains
<1>2. D \in {unit, Shared} /\ D \in Domains
  BY <1>1 DEF DeclaredIn, IsFunctionDefined, FunctionHome
<1>3. decl \in [Domains -> [Names -> DeclStates]] /\ order \in [Domains -> Seq(Names)]
  BY DEF ApiInv, TypeOK
<1>4. decl' = [decl EXCEPT ![D][n] = state]
  BY DEF Declare
<1>5. /\ decl' \in [Domains -> [Names -> DeclStates]]
      /\ \A d \in Domains : d # D => decl'[d] = decl[d]
  BY <1>2, <1>3, <1>4
<1>6. \A d \in Domains, k \in Names :
        decl'[d][k] = IF d = D /\ k = n THEN state ELSE decl[d][k]
  BY <1>2, <1>3, <1>4
<1>7. /\ order' \in [Domains -> Seq(Names)]
      /\ \A d \in Domains : d # unit => order'[d] = order[d]
      /\ order'[unit] = IF IsFunctionDefined(unit, n) THEN order[unit]
                        ELSE Append(order[unit], n)
  <2>1. order' = [order EXCEPT ![unit] =
                    IF IsFunctionDefined(unit, n) THEN order[unit] ELSE Append(order[unit], n)]
    BY <1>1, <1>3 DEF Declare
  <2>2. order[unit] \in Seq(Names) /\ Append(order[unit], n) \in Seq(Names)
    BY <1>1, <1>3
  <2> QED
    BY <1>1, <1>3, <2>1, <2>2
<1>8. ASSUME NEW d \in {unit, Shared}, NEW k \in Names, FunctionHome(d, k) # None
      PROVE  FunctionHome(d, k)' = FunctionHome(d, k)
  <2>1. CASE k # n
    BY <1>1, <1>6, <2>1 DEF FunctionHome
  <2>2. CASE k = n /\ IsFunctionDefined(unit, n)
    <3>1. decl[D][n] # "none"
      BY <2>2, <1>1 DEF DeclaredIn, IsFunctionDefined, FunctionHome
    <3>2. state # "none" /\ d \in Domains
      BY <1>1
    <3>3. \A e \in Domains : decl'[e][n] = "none" <=> decl[e][n] = "none"
      BY <1>6, <3>1, <3>2
    <3> QED
      BY <1>1, <2>2, <3>2, <3>3 DEF FunctionHome
  <2>3. CASE k = n /\ ~IsFunctionDefined(unit, n)
    BY <1>1, <1>8, <2>3 DEF IsFunctionDefined, FunctionHome
  <2> QED
    BY <2>1, <2>2, <2>3
<1>9. ASSUME NEW d \in Domains, d = D PROVE FunctionHome(d, n)' = d
  <2>1. decl'[d][n] = state /\ state # "none"
    BY <1>6, <1>9
  <2> QED
    BY <2>1 DEF FunctionHome
<1> QED
  BY <1>1, <1>2, <1>5, <1>6, <1>7, <1>8, <1>9

\* A declaration, with the calls of its body if it has one, keeps everything but the
\* types of the variables it does not touch.
LEMMA DeclareInv ==
  ASSUME ApiInv, phase = "parse", NEW n \in Names, NEW state \in DeclStates \ {"none"},
         Declare(n, state), NEW C, C \subseteq Callable(n),
         \/ calls' = calls
         \/ calls' = [calls EXCEPT ![DeclaredIn(n)][n] = {Callee(n, c) : c \in C}],
         phase' \in {"parse", "reject", "generate"}, phase' = "generate" => pos' = 1,
         UNCHANGED <<unit, ready, ctx>>
  PROVE  /\ calls' \in [Domains -> [Names -> SUBSET (Domains \X Names)]]
         /\ UnitInSession' /\ OthersAreGone' /\ DeclaredOnce' /\ OrderIsDeclared'
         /\ CallsAreResolved' /\ ContextsAreOwn' /\ SharedStartsWithFirst'
         /\ SharedIsCurrent' /\ Generating1' /\ LinksAreResolved'
<1> DEFINE D == DeclaredIn(n)
<1>1. /\ unit \in Domains /\ D \in {unit, Shared} /\ D \in Domains
      /\ decl' \in [Domains -> [Names -> DeclStates]]
      /\ order' \in [Domains -> Seq(Names)]
  BY DeclareKeeps
<1>2. \A d \in Domains, k \in Names :
        decl'[d][k] = IF d = D /\ k = n THEN state ELSE decl[d][k]
  BY DeclareKeeps
<1>3. /\ \A d \in Domains : d # D => decl'[d] = decl[d]
      /\ \A d \in Domains : d # unit => order'[d] = order[d]
      /\ order'[unit] = IF IsFunctionDefined(unit, n) THEN order[unit]
                        ELSE Append(order[unit], n)
  BY DeclareKeeps
<1>4. \A d \in {unit, Shared}, k \in Names : FunctionHome(d, k) # None =>
        FunctionHome(d, k)' = FunctionHome(d, k)
  BY DeclareKeeps
<1>5. \A d \in Domains : d = D => FunctionHome(d, n)' = d
  BY DeclareKeeps
<1>6. /\ state # "none" /\ None \notin Domains /\ Shared \in Domains /\ Shared \notin Modules
      /\ Domains = Modules \union {Shared}
  BY NamesAssumption DEF Domains
<1>7. /\ calls \in [Domains -> [Names -> SUBSET (Domains \X Names)]]
      /\ order \in [Domains -> Seq(Names)]
  BY DEF ApiInv, TypeOK
<1>8. \A d \in Domains, k \in Names : decl[d][k] # "none" => decl'[d][k] # "none"
  BY <1>2, <1>6
<1>9. ~IsFunctionDefined(unit, n) => D = unit /\ decl[unit][n] = "none" /\ decl[Shared][n] = "none"
  BY <1>1, <1>6 DEF DeclaredIn, IsFunctionDefined, FunctionHome
<1>10. IsFunctionDefined(unit, n) => decl[D][n] # "none"
  BY <1>1, <1>6 DEF DeclaredIn, IsFunctionDefined, FunctionHome
<1>11. UnitInSession'
  BY <1>1 DEF ApiInv, UnitInSession
<1>12. \A c \in C :
        /\ c \in Names
        /\ Callee(n, c) \in Domains \X Names
        /\ Callee(n, c)[2] = c
        /\ c = n => Callee(n, c)[1] = D
        /\ c # n => FunctionHome(D, c) # None /\ Callee(n, c)[1] = FunctionHome(D, c)
  BY <1>1, <1>6 DEF Callable, Callee, IsFunctionDefined, FunctionHome
<1> DEFINE R == {Callee(n, c) : c \in C}
<1>13. R \subseteq Domains \X Names
  <2>1. \A r \in R : \E c \in C : r = Callee(n, c)
    OBVIOUS
  <2> HIDE DEF R
  <2> QED
    BY <1>12, <2>1
<1>14. calls' = calls \/ calls' = [calls EXCEPT ![D][n] = R]
  OBVIOUS
<1>15. /\ calls' \in [Domains -> [Names -> SUBSET (Domains \X Names)]]
       /\ \A d \in Domains : d # D => calls'[d] = calls[d]
       /\ \A d \in Domains, k \in Names : \A r \in calls'[d][k] :
            r \in calls[d][k] \/ (d = D /\ r \in R)
  <2> HIDE DEF D, R
  <2>1. CASE calls' = calls
    BY <1>7, <2>1
  <2>2. CASE calls' = [calls EXCEPT ![D][n] = R]
    BY <1>1, <1>7, <1>13, <2>2
  <2> QED
    BY <1>14, <2>1, <2>2
<1>16. OthersAreGone'
  <2> SUFFICES ASSUME NEW m \in Modules, m # unit'
               PROVE  (decl[m] = NoDecls /\ order[m] = <<>> /\ calls[m] = NoCalls
                       /\ ctx[m] = NoFunctions)'
    BY DEF OthersAreGone
  <2>1. m \in Domains /\ m # D /\ m # unit
    BY <1>1, <1>6
  <2>2. decl[m] = NoDecls /\ order[m] = <<>> /\ calls[m] = NoCalls /\ ctx[m] = NoFunctions
    BY <2>1 DEF ApiInv, OthersAreGone
  <2>3. decl'[m] = decl[m] /\ order'[m] = order[m] /\ calls'[m] = calls[m] /\ ctx' = ctx
    BY <2>1, <1>3, <1>15
  <2> QED
    BY <2>2, <2>3 DEF NoDecls, NoCalls, NoFunctions
<1>17. DeclaredOnce'
  <2> SUFFICES ASSUME NEW m \in Modules, NEW k \in Names, decl'[m][k] # "none"
               PROVE  decl'[Shared][k] = "none"
    BY DEF DeclaredOnce
  <2>1. m \in Domains /\ m # Shared
    BY <1>6
  <2>2. decl[m][k] # "none" => decl[Shared][k] = "none"
    BY DEF ApiInv, DeclaredOnce
  <2>3. m # unit => decl[m][k] = "none"
    BY DEF ApiInv, OthersAreGone, NoDecls
  <2>4. CASE k # n
    BY <1>2, <1>6, <2>1, <2>2, <2>4
  <2>5. CASE k = n /\ IsFunctionDefined(unit, n)
    BY <1>2, <1>6, <1>10, <2>1, <2>2, <2>5
  <2>6. CASE k = n /\ ~IsFunctionDefined(unit, n)
    BY <1>2, <1>6, <1>9, <2>1, <2>3, <2>6
  <2> QED
    BY <2>4, <2>5, <2>6
<1>18. OrderIsDeclared'
  <2> SUFFICES ASSUME NEW d \in Domains, NEW i \in 1..Len(order'[d])
               PROVE  decl'[d][order'[d][i]] # "none"
    BY DEF OrderIsDeclared
  <2>1. order[d] \in Seq(Names) /\ \A j \in 1..Len(order[d]) :
          order[d][j] \in Names /\ decl[d][order[d][j]] # "none"
    BY <1>7 DEF ApiInv, OrderIsDeclared
  <2>2. CASE order'[d] = order[d]
    BY <1>8, <2>1, <2>2
  <2>3. CASE order'[d] # order[d]
    <3>1. d = unit /\ d = D /\ order'[d] = Append(order[d], n)
      BY <1>3, <1>9, <2>3
    <3>2. CASE i = Len(order[d]) + 1
      BY <1>2, <1>6, <2>1, <3>1, <3>2
    <3>3. CASE i \in 1..Len(order[d])
      BY <1>8, <2>1, <3>1, <3>3
    <3> QED
      BY <2>1, <3>1, <3>2, <3>3
  <2> QED
    BY <2>2, <2>3
<1>19. CallsAreResolved'
  <2> SUFFICES ASSUME NEW d \in Domains, NEW k \in Names, NEW r \in calls'[d][k]
               PROVE  (FunctionHome(d, r[2]) # None /\ r[1] = FunctionHome(d, r[2]))'
    BY DEF CallsAreResolved
  <2>1. CASE r \in calls[d][k]
    <3>1. r[2] \in Names
      BY <1>7, <2>1
    <3>2. FunctionHome(d, r[2]) # None /\ r[1] = FunctionHome(d, r[2])
      BY <2>1 DEF ApiInv, CallsAreResolved
    <3>3. d \in {unit, Shared}
      BY <1>6, <2>1 DEF ApiInv, OthersAreGone, NoCalls
    <3> QED
      BY <1>4, <3>1, <3>2, <3>3
  <2>2. CASE d = D /\ r \in R
    <3>1. PICK c \in C : r = Callee(n, c)
      BY <2>2
    <3> HIDE DEF D
    <3>0. r[2] = c /\ c \in Names
      BY <1>12, <3>1
    <3>2. CASE c = n
      <4>1. r[1] = d /\ r[2] = n
        BY <1>12, <2>2, <3>0, <3>1, <3>2
      <4>2. FunctionHome(d, r[2])' = d
        BY <1>5, <2>2, <4>1
      <4> QED
        BY <1>6, <4>1, <4>2
    <3>3. CASE c # n
      <4>1. FunctionHome(d, r[2]) # None /\ r[1] = FunctionHome(d, r[2])
        BY <1>12, <2>2, <3>0, <3>1, <3>3
      <4>2. FunctionHome(d, r[2])' = FunctionHome(d, r[2])
        BY <1>1, <1>4, <2>2, <3>0, <4>1
      <4> QED
        BY <4>1, <4>2
    <3> QED
      BY <3>2, <3>3
  <2> QED
    BY <1>15, <2>1, <2>2
<1>20. ContextsAreOwn'
  BY <1>6, <1>8 DEF ApiInv, ContextsAreOwn
<1>21. SharedStartsWithFirst'
  <2>1. order[Shared] \in Seq(Names)
    BY <1>6, <1>7
  <2>2. order'[Shared] = order[Shared] \/ (unit = Shared /\ order'[Shared] = Append(order[Shared], n))
    BY <1>3, <1>6
  <2>3. /\ order'[Shared] # <<>> => order'[Shared][1] = First
        /\ unit = Shared => order'[Shared] # <<>>
    BY <2>1, <2>2 DEF ApiInv, SharedStartsWithFirst
  <2> QED
    BY <2>3 DEF ApiInv, SharedStartsWithFirst
<1>22. SharedIsCurrent'
  BY <1>6, <1>8 DEF ApiInv, SharedIsCurrent
<1>23. Generating1' /\ LinksAreResolved'
  <2>1. phase' = "generate" => \A i \in 1..Len(order'[unit']) : ~(i < pos')
    <3>1. order'[unit'] \in Seq(Names)
      BY <1>1
    <3> QED
      BY <3>1
  <2> QED
    BY <2>1 DEF Generating1, LinksAreResolved
<1> QED
  BY <1>11, <1>15, <1>16, <1>17, <1>18, <1>19, <1>20, <1>21, <1>22, <1>23

-----------------------------------------------------------------------------
(* One lemma for each group of actions.                                    *)

\* A declaration without a body keeps the invariant.
LEMMA ParsePrototypeInv ==
  ASSUME ApiInv, NEW n \in Names, ParsePrototype(n) PROVE ApiInv'
<1> DEFINE state == IF IsFunctionDefined(unit, n) THEN decl[DeclaredIn(n)][n] ELSE "proto"
<1>1. /\ phase = "parse" /\ pos \in Nat /\ pos' = pos + 1 /\ Declare(n, state)
      /\ UNCHANGED <<phase, unit, engine, ready, sessions, calls, ctx, linked, handles,
                     status, given, grown>>
  BY DEF ParsePrototype, Reading, ApiInv, TypeOK
<1>2. state \in DeclStates \ {"none"}
  <2>1. CASE IsFunctionDefined(unit, n)
    <3>1. unit \in Domains /\ Shared \in Domains /\ None \notin Domains
      BY <1>1, NamesAssumption DEF ApiInv, UnitInSession, Domains
    <3>2. decl[DeclaredIn(n)][n] # "none" /\ DeclaredIn(n) \in Domains
      BY <2>1, <3>1 DEF DeclaredIn, IsFunctionDefined, FunctionHome
    <3> QED
      BY <2>1, <3>2 DEF ApiInv, TypeOK
  <2> QED
    BY <2>1 DEF DeclStates
<1> HIDE DEF state
<1>3. decl' \in [Domains -> [Names -> DeclStates]] /\ order' \in [Domains -> Seq(Names)]
  BY <1>1, <1>2, DeclareKeeps
<1>4. {} \subseteq Callable(n)
  OBVIOUS
<1>5. /\ UnitInSession' /\ OthersAreGone' /\ DeclaredOnce' /\ OrderIsDeclared'
      /\ CallsAreResolved' /\ ContextsAreOwn' /\ SharedStartsWithFirst'
      /\ SharedIsCurrent' /\ Generating1' /\ LinksAreResolved'
  BY <1>1, <1>2, <1>4, DeclareInv
<1>6. TypeOK'
  BY <1>1, <1>3 DEF ApiInv, TypeOK
<1> QED
  BY <1>5, <1>6 DEF ApiInv

\* A function with its body keeps the invariant.
LEMMA ParseDefinitionInv ==
  ASSUME ApiInv, NEW n \in Names, NEW C \in SUBSET Names, ParseDefinition(n, C)
  PROVE  ApiInv'
<1>1. /\ phase = "parse" /\ pos \in Nat /\ pos' = pos + 1 /\ Declare(n, "body")
      /\ C \subseteq Callable(n)
      /\ calls' = [calls EXCEPT ![DeclaredIn(n)][n] = {Callee(n, c) : c \in C}]
      /\ UNCHANGED <<phase, unit, engine, ready, sessions, ctx, linked, handles, status>>
  BY DEF ParseDefinition, Reading, ApiInv, TypeOK
<1>2. "body" \in DeclStates \ {"none"}
  BY DEF DeclStates
<1>3. decl' \in [Domains -> [Names -> DeclStates]] /\ order' \in [Domains -> Seq(Names)]
  BY <1>1, <1>2, DeclareKeeps
<1>4. /\ calls' \in [Domains -> [Names -> SUBSET (Domains \X Names)]]
      /\ UnitInSession' /\ OthersAreGone' /\ DeclaredOnce' /\ OrderIsDeclared'
      /\ CallsAreResolved' /\ ContextsAreOwn' /\ SharedStartsWithFirst'
      /\ SharedIsCurrent' /\ Generating1' /\ LinksAreResolved'
  BY <1>1, <1>2, DeclareInv
<1>5. given' \in [Modules -> SUBSET Names] /\ grown' \in BOOLEAN
  BY DEF ParseDefinition, KeepBody, ApiInv, TypeOK
<1>6. TypeOK'
  BY <1>1, <1>3, <1>4, <1>5 DEF ApiInv, TypeOK
<1> QED
  BY <1>4, <1>6 DEF ApiInv

\* A body that is given up, with or without an error, keeps the invariant.
LEMMA ParseBegunInv ==
  ASSUME ApiInv, NEW n \in Names, ParseOpenBody(n) \/ ParseBadBody(n) PROVE ApiInv'
<1>1. /\ phase = "parse" /\ Declare(n, "begun")
      /\ phase' \in {"reject", "generate"}
      /\ phase' = "generate" => pos' = 1
      /\ pos' \in Nat
      /\ UNCHANGED <<unit, engine, ready, sessions, calls, ctx, linked, handles, status,
                     given>>
  BY DEF ParseOpenBody, ParseBadBody, Reading, ApiInv, TypeOK
<1>2. "begun" \in DeclStates \ {"none"}
  BY DEF DeclStates
<1>3. decl' \in [Domains -> [Names -> DeclStates]] /\ order' \in [Domains -> Seq(Names)]
  BY <1>1, <1>2, DeclareKeeps
<1>4. {} \subseteq Callable(n)
  OBVIOUS
<1>5. /\ UnitInSession' /\ OthersAreGone' /\ DeclaredOnce' /\ OrderIsDeclared'
      /\ CallsAreResolved' /\ ContextsAreOwn' /\ SharedStartsWithFirst'
      /\ SharedIsCurrent' /\ Generating1' /\ LinksAreResolved'
  BY <1>1, <1>2, <1>4, DeclareInv
<1>6. grown' \in BOOLEAN
  BY DEF ParseOpenBody, ParseBadBody, KeepBody, ApiInv, TypeOK
<1>7. TypeOK'
  BY <1>1, <1>3, <1>6 DEF ApiInv, TypeOK
<1> QED
  BY <1>5, <1>7 DEF ApiInv

\* The parts of the invariant that say nothing of phase, pos and what is history.
LEMMA StaticKept ==
  ASSUME ApiInv, UNCHANGED <<unit, decl, order, calls, ctx>>
  PROVE  OthersAreGone' /\ DeclaredOnce' /\ OrderIsDeclared' /\ CallsAreResolved' /\ ContextsAreOwn'
<1>1. OthersAreGone'
  BY DEF ApiInv, OthersAreGone, NoDecls, NoCalls, NoFunctions
<1>2. DeclaredOnce' /\ OrderIsDeclared'
  BY DEF ApiInv, DeclaredOnce, OrderIsDeclared
<1>3. CallsAreResolved'
  BY DEF ApiInv, CallsAreResolved, FunctionHome
<1>4. ContextsAreOwn'
  BY DEF ApiInv, ContextsAreOwn
<1> QED
  BY <1>1, <1>2, <1>3, <1>4

\* The ends of a text and the assertions keep the invariant: they change no domain.
LEMMA QuietInv ==
  ASSUME ApiInv, ParseError \/ EndOfText \/ AddFunctionDeclFails \/ GenerateCallFails
  PROVE  ApiInv'
<1>1. /\ UNCHANGED <<unit, engine, ready, sessions, decl, order, calls, ctx, linked,
                     handles, status, given, grown>>
      /\ pos' \in Nat /\ phase' \in {"reject", "generate"} \union Failures
      /\ phase' = "generate" => pos' = 1 /\ phase = "parse"
      /\ phase' = "reject" => phase = "parse"
  BY DEF ParseError, EndOfText, AddFunctionDeclFails, GenerateCallFails, Failures, ApiInv,
         TypeOK
<1>2. TypeOK'
  BY <1>1 DEF ApiInv, TypeOK
<1>3. UnitInSession'
  BY <1>1 DEF ApiInv, UnitInSession, Failures
<1>4. OthersAreGone' /\ DeclaredOnce' /\ OrderIsDeclared' /\ CallsAreResolved' /\ ContextsAreOwn'
  BY <1>1, StaticKept
<1>5. SharedStartsWithFirst' /\ SharedIsCurrent' /\ Generating1'
  BY <1>1 DEF ApiInv, SharedStartsWithFirst, SharedIsCurrent, Generating1
<1>6. LinksAreResolved'
  <2>1. phase' = "generate" => order[unit] \in Seq(Names)
    BY <1>1 DEF ApiInv, TypeOK, UnitInSession
  <2> QED
    BY <1>1, <2>1 DEF LinksAreResolved
<1> QED
  BY <1>2, <1>3, <1>4, <1>5, <1>6 DEF ApiInv

\* KSC_Initialize keeps the invariant, also when it is called again.
LEMMA InitializeInv ==
  ASSUME ApiInv, NEW sharedCode \in BOOLEAN, Initialize(sharedCode) PROVE ApiInv'
<1>1. /\ phase = "idle" /\ unit = None /\ ~ready /\ unit' = Shared
      /\ phase' \in {"parse", "generate"}
      /\ pos' \in {0, 1}
      /\ phase' = "generate" => pos' = 1
      /\ UNCHANGED <<ready, sessions, ctx, handles, status, given, grown>>
  BY DEF Initialize, ApiInv, UnitInSession
<1>2. /\ decl \in [Domains -> [Names -> DeclStates]] /\ order \in [Domains -> Seq(Names)]
      /\ calls \in [Domains -> [Names -> SUBSET (Domains \X Names)]]
      /\ linked \in [Domains -> [Names -> SUBSET (Domains \X Names)]]
  BY DEF ApiInv, TypeOK
<1>3. /\ Shared \in Domains /\ Shared \notin Modules /\ None \notin Domains
      /\ Domains = Modules \union {Shared}
  BY NamesAssumption DEF Domains
<1>4. NoCalls \in [Names -> SUBSET (Domains \X Names)]
  BY DEF NoCalls
<1>5. Intrinsics \in Seq(Names)
  BY IntrinsicsAssumption
<1>6. /\ decl' = [decl EXCEPT ![Shared] = IntrinsicDecls]
      /\ order' = [order EXCEPT ![Shared] = Intrinsics]
      /\ calls' = [calls EXCEPT ![Shared] = NoCalls]
      /\ linked' = [linked EXCEPT ![Shared] = NoCalls]
      /\ engine' = TRUE
  BY DEF Initialize
<1>7. /\ decl' \in [Domains -> [Names -> DeclStates]] /\ order' \in [Domains -> Seq(Names)]
      /\ calls' \in [Domains -> [Names -> SUBSET (Domains \X Names)]]
      /\ linked' \in [Domains -> [Names -> SUBSET (Domains \X Names)]]
  BY <1>2, <1>4, <1>5, <1>6, FirstIsName
<1>8. /\ decl'[Shared] = IntrinsicDecls /\ order'[Shared] = Intrinsics
      /\ calls'[Shared] = NoCalls
      /\ \A m \in Modules : decl'[m] = NoDecls /\ order'[m] = <<>> /\ calls'[m] = NoCalls
                             /\ ctx'[m] = NoFunctions
  BY <1>1, <1>2, <1>3, <1>6 DEF ApiInv, OthersAreGone
<1>9. TypeOK'
  BY <1>1, <1>3, <1>6, <1>7 DEF ApiInv, TypeOK
<1>10. UnitInSession' /\ OthersAreGone'
  BY <1>1, <1>3, <1>8 DEF UnitInSession, OthersAreGone, NoDecls, NoCalls, NoFunctions
<1>11. DeclaredOnce'
  BY <1>8 DEF DeclaredOnce, NoDecls
<1>12. OrderIsDeclared'
  <2>1. \A i \in 1..Len(order'[Shared]) : decl'[Shared][order'[Shared][i]] # "none"
    BY <1>8, FirstIsName
  <2>2. \A m \in Modules : Len(order'[m]) = 0
    BY <1>8
  <2> QED
    BY <1>3, <2>1, <2>2 DEF OrderIsDeclared
<1>13. CallsAreResolved'
  BY <1>3, <1>8 DEF CallsAreResolved, NoCalls
<1>14. ContextsAreOwn'
  BY <1>1, <1>8 DEF ApiInv, ContextsAreOwn, NoFunctions
<1>15. SharedStartsWithFirst' /\ SharedIsCurrent' /\ Generating1'
  BY <1>1, <1>8, FirstIsName
  DEF ApiInv, SharedStartsWithFirst, SharedIsCurrent, Generating1, First
<1>16. LinksAreResolved'
  BY <1>1, <1>5, <1>8 DEF LinksAreResolved
<1> QED
  BY <1>9, <1>10, <1>11, <1>12, <1>13, <1>14, <1>15, <1>16 DEF ApiInv

\* KSC_Compile starts with an empty domain and keeps the invariant.
LEMMA CompileInv ==
  ASSUME ApiInv, NEW m \in Modules, Compile(m) PROVE ApiInv'
<1>1. /\ phase = "idle" /\ unit = None /\ ready /\ unit' = m /\ phase' = "parse" /\ pos' = 0
      /\ grown' = FALSE /\ m # None /\ m # Shared /\ m \in Domains
      /\ UNCHANGED <<engine, ready, sessions, decl, order, calls, ctx, linked, handles,
                     status, given>>
  BY NamesAssumption DEF Compile, ApiInv, UnitInSession, Domains
<1>2. TypeOK'
  BY <1>1 DEF ApiInv, TypeOK
<1>3. UnitInSession'
  BY <1>1 DEF UnitInSession
<1>4. OthersAreGone'
  BY <1>1, NamesAssumption DEF ApiInv, OthersAreGone, NoDecls, NoCalls, NoFunctions
<1>5. DeclaredOnce' /\ OrderIsDeclared' /\ ContextsAreOwn'
  BY <1>1 DEF ApiInv, DeclaredOnce, OrderIsDeclared, ContextsAreOwn
<1>6. CallsAreResolved'
  BY <1>1 DEF ApiInv, CallsAreResolved, FunctionHome
<1>7. SharedStartsWithFirst' /\ SharedIsCurrent' /\ Generating1' /\ LinksAreResolved'
  BY <1>1 DEF ApiInv, SharedStartsWithFirst, SharedIsCurrent, Generating1, LinksAreResolved
<1> QED
  BY <1>2, <1>3, <1>4, <1>5, <1>6, <1>7 DEF ApiInv

\* KSC_Destory keeps the invariant.
LEMMA DestoryInv ==
  ASSUME ApiInv, Destory PROVE ApiInv'
<1>1. /\ phase = "idle" /\ unit = None /\ phase' \in {"idle", "DeletedTwice"}
      /\ sessions < MaxSessions /\ sessions' = sessions + 1
      /\ engine' = FALSE /\ ready' = FALSE
      /\ UNCHANGED <<unit, pos, decl, order, calls, ctx, grown>>
  BY DEF Destory, ApiInv, UnitInSession
<1>2. TypeOK'
  <2>1. sessions' \in 0..MaxSessions
    BY <1>1, BoundsAssumption DEF ApiInv, TypeOK
  <2>2. linked' \in [Domains -> [Names -> SUBSET (Domains \X Names)]]
    BY DEF Destory, NoCalls
  <2>3. /\ handles' \in [Modules -> SUBSET Names] /\ given' \in [Modules -> SUBSET Names]
        /\ status' \in [Modules -> {"unused", "rejected", "compiled", "deleted"}]
    BY DEF Destory, ApiInv, TypeOK
  <2> QED
    BY <1>1, <2>1, <2>2, <2>3 DEF ApiInv, TypeOK, Failures
<1>3. UnitInSession'
  BY <1>1, NamesAssumption DEF UnitInSession
<1>4. OthersAreGone' /\ DeclaredOnce' /\ OrderIsDeclared' /\ CallsAreResolved' /\ ContextsAreOwn'
  BY <1>1, StaticKept
<1>5. SharedStartsWithFirst' /\ SharedIsCurrent' /\ Generating1' /\ LinksAreResolved'
  BY <1>1 DEF ApiInv, SharedStartsWithFirst, SharedIsCurrent, Generating1, LinksAreResolved
<1> QED
  BY <1>2, <1>3, <1>4, <1>5 DEF ApiInv

\* The end of a call of KSC_Initialize or KSC_Compile.
LEMMA EndUnitInv ==
  ASSUME ApiInv, Reject \/ EndOfDomain PROVE ApiInv'
<1>1. /\ phase \in {"reject", "generate"} /\ unit \in Domains
      /\ phase' \in {"idle", "Leak"} /\ unit' = None /\ pos' = 0 /\ grown' = FALSE
      /\ UNCHANGED <<engine, sessions, handles>>
  BY DEF Reject, EndOfDomain, EndUnit, ApiInv, UnitInSession
<1>2. /\ Shared \in Domains /\ Shared \notin Modules /\ None \notin Domains
      /\ Domains = Modules \union {Shared}
  BY NamesAssumption DEF Domains
<1>3. /\ decl' = [d \in Domains |-> IF d = Shared THEN decl[d] ELSE NoDecls]
      /\ order' = [d \in Domains |-> IF d = Shared THEN order[d] ELSE <<>>]
      /\ calls' = [d \in Domains |-> IF d = Shared THEN calls[d] ELSE NoCalls]
      /\ ctx' = [d \in Domains |-> IF d = Shared THEN ctx[d] ELSE NoFunctions]
      /\ linked' = [d \in Domains |-> IF d = Shared THEN linked[d] ELSE NoCalls]
  BY DEF Reject, EndOfDomain, EndUnit
<1>4. /\ decl'[Shared] = decl[Shared] /\ order'[Shared] = order[Shared]
      /\ calls'[Shared] = calls[Shared] /\ ctx'[Shared] = ctx[Shared]
      /\ \A m \in Modules : decl'[m] = NoDecls /\ order'[m] = <<>> /\ calls'[m] = NoCalls
                             /\ ctx'[m] = NoFunctions
  BY <1>2, <1>3
<1>5. TypeOK'
  <2>1. /\ NoDecls \in [Names -> DeclStates] /\ NoFunctions \in [Names -> Domains \union {None}]
        /\ NoCalls \in [Names -> SUBSET (Domains \X Names)]
    BY DEF NoDecls, NoFunctions, NoCalls, DeclStates
  <2>2. /\ decl' \in [Domains -> [Names -> DeclStates]]
        /\ order' \in [Domains -> Seq(Names)]
        /\ calls' \in [Domains -> [Names -> SUBSET (Domains \X Names)]]
        /\ ctx' \in [Domains -> [Names -> Domains \union {None}]]
        /\ linked' \in [Domains -> [Names -> SUBSET (Domains \X Names)]]
    BY <1>3, <2>1 DEF ApiInv, TypeOK
  <2>3. /\ status' \in [Modules -> {"unused", "rejected", "compiled", "deleted"}]
        /\ given' \in [Modules -> SUBSET Names] /\ ready' \in BOOLEAN
    BY DEF Reject, EndOfDomain, ApiInv, TypeOK
  <2> QED
    BY <1>1, <2>2, <2>3 DEF ApiInv, TypeOK, Failures
<1>6. UnitInSession' /\ OthersAreGone'
  BY <1>1, <1>2, <1>4 DEF UnitInSession, OthersAreGone, NoDecls, NoCalls, NoFunctions
<1>7. DeclaredOnce'
  BY <1>4 DEF DeclaredOnce, NoDecls
<1>8. OrderIsDeclared'
  <2>1. \A i \in 1..Len(order'[Shared]) : decl'[Shared][order'[Shared][i]] # "none"
    BY <1>2, <1>4 DEF ApiInv, OrderIsDeclared
  <2>2. \A m \in Modules : Len(order'[m]) = 0
    BY <1>4
  <2> QED
    BY <1>2, <2>1, <2>2 DEF OrderIsDeclared
<1>9. CallsAreResolved'
  <2>1. \A n \in Names : FunctionHome(Shared, n)' = FunctionHome(Shared, n)
    BY <1>4 DEF FunctionHome
  <2>2. \A n \in Names : \A r \in calls[Shared][n] : r[2] \in Names
    BY <1>2 DEF ApiInv, TypeOK
  <2> SUFFICES ASSUME NEW d \in Domains, NEW n \in Names, NEW r \in calls'[d][n]
               PROVE  (FunctionHome(d, r[2]) # None /\ r[1] = FunctionHome(d, r[2]))'
    BY DEF CallsAreResolved
  <2>3. d = Shared /\ r \in calls[Shared][n]
    BY <1>2, <1>4 DEF NoCalls
  <2>4. FunctionHome(d, r[2]) # None /\ r[1] = FunctionHome(d, r[2])
    BY <2>3 DEF ApiInv, CallsAreResolved
  <2> QED
    BY <2>1, <2>2, <2>3, <2>4
<1>10. ContextsAreOwn'
  BY <1>2, <1>4 DEF ApiInv, ContextsAreOwn, NoFunctions
<1>11. SharedStartsWithFirst' /\ Generating1' /\ LinksAreResolved'
  BY <1>1, <1>2, <1>4 DEF ApiInv, SharedStartsWithFirst, Generating1, LinksAreResolved
<1>12. SharedIsCurrent'
  <2>1. ready' => ready \/ (phase = "generate" /\ unit = Shared /\ pos > 1)
    <3>1. CASE Reject
      BY <3>1 DEF Reject
    <3>2. CASE EndOfDomain /\ unit = Shared
      <4>1. order[Shared] \in Seq(Names) /\ order[Shared] # <<>> /\ pos \in Nat
        BY <1>2, <3>2 DEF ApiInv, TypeOK, SharedStartsWithFirst
      <4>2. Len(order[Shared]) \in Nat /\ Len(order[Shared]) >= 1
        BY <4>1
      <4> QED
        BY <3>2, <4>1, <4>2 DEF EndOfDomain
    <3>3. CASE EndOfDomain /\ unit # Shared
      BY <1>1, <1>2, <3>3 DEF ApiInv, UnitInSession
    <3> QED
      BY <3>1, <3>2, <3>3
  <2> QED
    BY <1>1, <1>4, <2>1 DEF ApiInv, SharedIsCurrent
<1> QED
  BY <1>5, <1>6, <1>7, <1>8, <1>9, <1>10, <1>11, <1>12 DEF ApiInv

\* The function of the current declaration is a new one, of the domain that declares it.
LEMMA FunctionIsNew ==
  ASSUME ApiInv, Generating, ctx[unit][Current] = None
  PROVE  /\ unit \in Domains /\ pos \in Nat /\ pos >= 1 /\ Current \in Names
         /\ decl[unit][Current] # "none"
         /\ WithFunction \in [Domains -> [Names -> Domains \union {None}]]
         /\ \A d \in Domains, k \in Names :
              WithFunction[d][k] = IF d = unit /\ k = Current THEN unit ELSE ctx[d][k]
         /\ \A d \in Domains : d # unit => WithFunction[d] = ctx[d]
<1>1. /\ unit \in Domains /\ pos \in Nat /\ pos >= 1 /\ pos <= Len(order[unit])
      /\ order[unit] \in Seq(Names)
      /\ ctx \in [Domains -> [Names -> Domains \union {None}]]
  BY DEF Generating, ApiInv, UnitInSession, TypeOK, Generating1
<1>2. pos \in 1..Len(order[unit])
  BY <1>1
<1>3. Current \in Names /\ decl[unit][Current] # "none"
  BY <1>1, <1>2 DEF Current, ApiInv, OrderIsDeclared
<1>4. FuncDeclByName(ctx, unit, Current) = None
  <2>1. CASE unit = Shared
    BY <2>1 DEF FuncDeclByName
  <2>2. CASE unit \in Modules
    <3>1. decl[Shared][Current] = "none"
      BY <1>3, <2>2 DEF ApiInv, DeclaredOnce
    <3>2. ctx[Shared][Current] = None
      BY <1>3, <2>2, <3>1 DEF ApiInv, UnitInSession, SharedIsCurrent
    <3> QED
      BY <3>2 DEF FuncDeclByName
  <2> QED
    BY <1>1, <2>1, <2>2 DEF Domains
<1>5. WithFunction = [ctx EXCEPT ![unit][Current] = unit]
  BY <1>4 DEF WithFunction
<1> HIDE DEF Current, WithFunction
<1> QED
  BY <1>1, <1>3, <1>5

\* The new entry of a context leaves what was found before.
LEMMA ContextKept ==
  ASSUME ApiInv, Generating, ctx[unit][Current] = None, ctx' = WithFunction, pos' = pos + 1,
         UNCHANGED <<phase, unit, ready, decl, order, calls>>
  PROVE  /\ UnitInSession' /\ OthersAreGone' /\ DeclaredOnce' /\ OrderIsDeclared'
         /\ CallsAreResolved' /\ ContextsAreOwn' /\ SharedStartsWithFirst'
         /\ SharedIsCurrent' /\ Generating1'
<1>1. /\ unit \in Domains /\ pos \in Nat /\ pos >= 1 /\ Current \in Names
      /\ decl[unit][Current] # "none"
      /\ \A d \in Domains, k \in Names :
           ctx'[d][k] = IF d = unit /\ k = Current THEN unit ELSE ctx[d][k]
      /\ \A d \in Domains : d # unit => ctx'[d] = ctx[d]
  BY FunctionIsNew
<1>2. /\ Shared \in Domains /\ Shared \notin Modules /\ None \notin Domains
      /\ Domains = Modules \union {Shared}
  BY NamesAssumption DEF Domains
<1>3. UnitInSession' /\ Generating1'
  BY <1>1 DEF ApiInv, UnitInSession, Generating1
<1>4. OthersAreGone'
  BY <1>1, <1>2 DEF ApiInv, OthersAreGone, NoDecls, NoCalls, NoFunctions
<1>5. DeclaredOnce' /\ OrderIsDeclared'
  BY DEF ApiInv, DeclaredOnce, OrderIsDeclared
<1>6. CallsAreResolved'
  BY DEF ApiInv, CallsAreResolved, FunctionHome
<1>7. ContextsAreOwn'
  <2> HIDE DEF Current
  <2> QED
    BY <1>1, <1>2 DEF ApiInv, ContextsAreOwn
<1>8. unit = Shared /\ pos = 1 => Current = First /\ \A n \in Names : ctx[Shared][n] = None
  <2> SUFFICES ASSUME unit = Shared, pos = 1
               PROVE  Current = First /\ \A n \in Names : ctx[Shared][n] = None
    OBVIOUS
  <2>1. Current = First
    BY DEF Current, ApiInv, SharedStartsWithFirst
  <2>2. ctx[Shared][First] = None
    BY <2>1
  <2> QED
    BY <2>1, <2>2 DEF ApiInv, SharedStartsWithFirst
<1>9. unit = Shared => ctx'[Shared][First] # None
  <2> SUFFICES ASSUME unit = Shared PROVE ctx'[Shared][First] # None
    OBVIOUS
  <2>1. CASE pos = 1
    BY <1>1, <1>2, <1>8, <2>1
  <2>2. CASE pos > 1
    <3>1. ctx[Shared][First] # None
      BY <2>2 DEF ApiInv, SharedStartsWithFirst, Generating
    <3> QED
      BY <1>1, <1>2, <3>1, FirstIsName
  <2> QED
    BY <1>1, <2>1, <2>2
<1>10. SharedStartsWithFirst'
  <2>1. unit # Shared => ctx'[Shared] = ctx[Shared]
    BY <1>1, <1>2
  <2> QED
    BY <1>9, <2>1 DEF ApiInv, SharedStartsWithFirst
<1>11. SharedIsCurrent'
  <2>1. CASE unit # Shared
    BY <1>1, <1>2, <2>1 DEF ApiInv, SharedIsCurrent
  <2>2. CASE unit = Shared /\ pos = 1
    BY <1>1, <1>2, <1>8, <2>2 DEF SharedIsCurrent
  <2>3. CASE unit = Shared /\ pos > 1
    <3>1. \A n \in Names : ctx[Shared][n] # None => decl[Shared][n] # "none"
      BY <2>3 DEF ApiInv, SharedIsCurrent, Generating
    <3> QED
      BY <1>1, <1>2, <2>3, <3>1 DEF SharedIsCurrent
  <2> QED
    BY <1>1, <2>1, <2>2, <2>3
<1> QED
  BY <1>3, <1>4, <1>5, <1>6, <1>7, <1>10, <1>11

\* The LLVM function of a declaration without a body keeps the invariant.
LEMMA GenerateDeclarationInv ==
  ASSUME ApiInv, GenerateDeclaration PROVE ApiInv'
<1>1. /\ Generating /\ ctx[unit][Current] = None /\ ctx' = WithFunction /\ pos' = pos + 1
      /\ decl[unit][Current] # "body"
      /\ UNCHANGED <<phase, unit, engine, ready, sessions, decl, order, calls, linked,
                     handles, status, given, grown>>
  BY DEF GenerateDeclaration, HasBody
<1>2. /\ UnitInSession' /\ OthersAreGone' /\ DeclaredOnce' /\ OrderIsDeclared'
      /\ CallsAreResolved' /\ ContextsAreOwn' /\ SharedStartsWithFirst'
      /\ SharedIsCurrent' /\ Generating1'
  BY <1>1, ContextKept
<1>3. pos \in Nat /\ unit \in Domains /\ WithFunction \in [Domains -> [Names -> Domains \union {None}]]
  BY <1>1, FunctionIsNew
<1>4. TypeOK'
  BY <1>1, <1>3 DEF ApiInv, TypeOK
<1>5. LinksAreResolved'
  <2>1. phase = "generate" /\ Len(order[unit]) \in Nat
    BY <1>1, <1>3 DEF Generating, ApiInv, TypeOK
  <2> SUFFICES ASSUME NEW i \in 1..Len(order[unit]), i < pos + 1,
                      decl[unit][order[unit][i]] = "body"
               PROVE  linked[unit][order[unit][i]] = calls[unit][order[unit][i]]
    BY <1>1 DEF LinksAreResolved
  <2>2. i # pos
    BY <1>1 DEF Current
  <2> QED
    BY <1>3, <2>1, <2>2 DEF ApiInv, LinksAreResolved
<1> QED
  BY <1>2, <1>4, <1>5 DEF ApiInv

\* What the generator finds for a call is what the parser had found.
LEMMA CalleeFound ==
  ASSUME ApiInv, Generating, ctx[unit][Current] = None, NEW r \in calls[unit][Current],
         FuncDeclByName(WithFunction, unit, r[2]) # None
  PROVE  FuncDeclByName(WithFunction, unit, r[2]) = r[1]
<1>1. /\ unit \in Domains /\ Current \in Names /\ decl[unit][Current] # "none"
      /\ \A d \in Domains, k \in Names :
           WithFunction[d][k] = IF d = unit /\ k = Current THEN unit ELSE ctx[d][k]
      /\ \A d \in Domains : d # unit => WithFunction[d] = ctx[d]
  BY FunctionIsNew
<1>2. /\ Shared \in Domains /\ Shared \notin Modules /\ None \notin Domains
      /\ Domains = Modules \union {Shared}
  BY NamesAssumption DEF Domains
<1> DEFINE c == r[2]
<1>3. c \in Names /\ r[1] = FunctionHome(unit, c) /\ FunctionHome(unit, c) # None
  <2>1. c \in Names
    BY <1>1 DEF ApiInv, TypeOK
  <2> QED
    BY <1>1, <2>1 DEF ApiInv, CallsAreResolved
<1> HIDE DEF c, Current, WithFunction
<1>4. CASE unit = Shared
  <2>1. WithFunction[Shared][c] \in {Shared, None}
    BY <1>1, <1>2, <1>3, <1>4 DEF ApiInv, ContextsAreOwn
  <2> QED
    BY <1>3, <1>4, <2>1 DEF FuncDeclByName, FunctionHome, c
<1>5. CASE unit \in Modules /\ WithFunction[unit][c] # None
  <2>1. WithFunction[unit][c] = unit /\ decl[unit][c] # "none"
    BY <1>1, <1>3, <1>5 DEF ApiInv, ContextsAreOwn
  <2> QED
    BY <1>3, <1>5, <2>1 DEF FuncDeclByName, FunctionHome, c
<1>6. CASE unit \in Modules /\ WithFunction[unit][c] = None
  <2>1. FuncDeclByName(WithFunction, unit, c) = ctx[Shared][c] /\ ctx[Shared][c] # None
    BY <1>1, <1>2, <1>6 DEF FuncDeclByName, c
  <2>2. ctx[Shared][c] = Shared /\ decl[Shared][c] # "none"
    BY <1>2, <1>3, <1>6, <2>1 DEF ApiInv, ContextsAreOwn, SharedIsCurrent, UnitInSession
  <2>3. decl[unit][c] = "none"
    BY <1>3, <1>6, <2>2 DEF ApiInv, DeclaredOnce
  <2> QED
    BY <1>3, <2>1, <2>2, <2>3 DEF FunctionHome, c
<1> QED
  BY <1>1, <1>2, <1>4, <1>5, <1>6

\* The generation of a body keeps the invariant: its calls are linked as they were resolved.
LEMMA GenerateFunctionInv ==
  ASSUME ApiInv, GenerateFunction PROVE ApiInv'
<1> DEFINE L == {<<FuncDeclByName(WithFunction, unit, c), c>> : c \in CalledNames}
<1>1. /\ Generating /\ ctx[unit][Current] = None /\ ctx' = WithFunction /\ pos' = pos + 1
      /\ \A c \in CalledNames : FuncDeclByName(WithFunction, unit, c) # None
      /\ linked' = [linked EXCEPT ![unit][Current] = L]
      /\ UNCHANGED <<phase, unit, engine, ready, sessions, decl, order, calls, status, given,
                     grown>>
  BY DEF GenerateFunction
<1>2. /\ UnitInSession' /\ OthersAreGone' /\ DeclaredOnce' /\ OrderIsDeclared'
      /\ CallsAreResolved' /\ ContextsAreOwn' /\ SharedStartsWithFirst'
      /\ SharedIsCurrent' /\ Generating1'
  BY <1>1, ContextKept
<1>3. /\ pos \in Nat /\ unit \in Domains /\ Current \in Names
      /\ WithFunction \in [Domains -> [Names -> Domains \union {None}]]
  BY <1>1, FunctionIsNew
<1>4. /\ linked \in [Domains -> [Names -> SUBSET (Domains \X Names)]]
      /\ calls[unit][Current] \subseteq Domains \X Names
  BY <1>3 DEF ApiInv, TypeOK
<1>5. L = calls[unit][Current]
  <2>1. \A r \in calls[unit][Current] :
          /\ r[2] \in CalledNames
          /\ r = <<r[1], r[2]>>
          /\ FuncDeclByName(WithFunction, unit, r[2]) = r[1]
    <3> SUFFICES ASSUME NEW r \in calls[unit][Current]
                 PROVE  /\ r[2] \in CalledNames
                        /\ r = <<r[1], r[2]>>
                        /\ FuncDeclByName(WithFunction, unit, r[2]) = r[1]
      OBVIOUS
    <3>1. r[2] \in CalledNames
      BY DEF CalledNames
    <3>2. r = <<r[1], r[2]>>
      BY <1>4
    <3>3. FuncDeclByName(WithFunction, unit, r[2]) # None
      BY <1>1, <3>1
    <3> QED
      BY <1>1, <3>1, <3>2, <3>3, CalleeFound
  <2>2. \A c \in CalledNames : \E r \in calls[unit][Current] : c = r[2]
    BY DEF CalledNames
  <2>3. L \subseteq calls[unit][Current]
    <3> SUFFICES ASSUME NEW c \in CalledNames
                 PROVE  <<FuncDeclByName(WithFunction, unit, c), c>> \in calls[unit][Current]
      OBVIOUS
    <3>1. PICK r \in calls[unit][Current] : c = r[2]
      BY <2>2
    <3> QED
      BY <2>1, <3>1
  <2>4. calls[unit][Current] \subseteq L
    <3> SUFFICES ASSUME NEW r \in calls[unit][Current] PROVE r \in L
      OBVIOUS
    <3>1. r = <<FuncDeclByName(WithFunction, unit, r[2]), r[2]>> /\ r[2] \in CalledNames
      BY <2>1
    <3> QED
      BY <3>1
  <2> QED
    BY <2>3, <2>4
<1> HIDE DEF L
<1>6. /\ linked' \in [Domains -> [Names -> SUBSET (Domains \X Names)]]
      /\ linked'[unit][Current] = L
      /\ \A k \in Names : k # Current => linked'[unit][k] = linked[unit][k]
  <2> HIDE DEF Current
  <2> QED
    BY <1>1, <1>3, <1>4, <1>5
<1>7. TypeOK'
  <2>1. handles' \in [Modules -> SUBSET Names]
    BY <1>3 DEF GenerateFunction, ApiInv, TypeOK
  <2> QED
    BY <1>1, <1>3, <1>6, <2>1 DEF ApiInv, TypeOK
<1>8. LinksAreResolved'
  <2>1. phase = "generate" /\ order[unit] \in Seq(Names)
    BY <1>1, <1>3 DEF Generating, ApiInv, TypeOK
  <2> SUFFICES ASSUME NEW i \in 1..Len(order[unit]), i < pos + 1,
                      decl[unit][order[unit][i]] = "body"
               PROVE  linked'[unit][order[unit][i]] = calls[unit][order[unit][i]]
    BY <1>1 DEF LinksAreResolved
  <2>2. CASE order[unit][i] = Current
    BY <1>5, <1>6, <2>2
  <2>3. CASE order[unit][i] # Current
    <3>1. i # pos /\ order[unit][i] \in Names
      BY <2>1, <2>3 DEF Current
    <3>2. linked[unit][order[unit][i]] = calls[unit][order[unit][i]]
      BY <1>3, <2>1, <3>1 DEF ApiInv, LinksAreResolved
    <3> QED
      BY <1>6, <2>3, <3>1, <3>2
  <2> QED
    BY <2>2, <2>3
<1> QED
  BY <1>2, <1>7, <1>8 DEF ApiInv

\* A step that changes nothing keeps the invariant.
LEMMA StutterInv == ASSUME ApiInv, UNCHANGED vars PROVE ApiInv'
<1>1. OthersAreGone' /\ DeclaredOnce' /\ OrderIsDeclared' /\ CallsAreResolved' /\ ContextsAreOwn'
  BY StaticKept DEF vars
<1>2. TypeOK' /\ UnitInSession' /\ Generating1'
  BY DEF ApiInv, TypeOK, UnitInSession, Generating1, vars
<1>3. SharedStartsWithFirst' /\ SharedIsCurrent' /\ LinksAreResolved'
  BY DEF ApiInv, SharedStartsWithFirst, SharedIsCurrent, LinksAreResolved, vars
<1> QED
  BY <1>1, <1>2, <1>3 DEF ApiInv

-----------------------------------------------------------------------------

\* The inductive invariant holds in every reachable state, whatever the host calls in
\* which order and whatever the texts declare.
THEOREM ApiCorrect == Spec => []ApiInv
<1>1. Init => ApiInv
  BY InitInv
<1>2. ApiInv /\ [Next]_vars => ApiInv'
  <2> SUFFICES ASSUME ApiInv, [Next]_vars PROVE ApiInv'
    OBVIOUS
  <2>1. CASE HostCall
    BY <2>1, InitializeInv, CompileInv, DestoryInv DEF HostCall
  <2>2. CASE ParseStep
    <3>1. ASSUME NEW n \in Names, ParsePrototype(n) \/ ParseOpenBody(n) \/ ParseBadBody(n)
          PROVE  ApiInv'
      BY <3>1, ParsePrototypeInv, ParseBegunInv
    <3>2. ASSUME NEW n \in Names, NEW C \in Bodies, ParseDefinition(n, C) PROVE ApiInv'
      BY <3>2, ParseDefinitionInv DEF Bodies
    <3>3. CASE ParseError \/ EndOfText \/ Reject
      BY <3>3, QuietInv, EndUnitInv
    <3> QED
      BY <2>2, <3>1, <3>2, <3>3 DEF ParseStep
  <2>3. CASE GenerateStep
    BY <2>3, QuietInv, GenerateDeclarationInv, GenerateFunctionInv, EndUnitInv
    DEF GenerateStep
  <2>4. CASE UNCHANGED vars
    BY <2>4, StutterInv
  <2> QED
    BY <2>1, <2>2, <2>3, <2>4 DEF Next
<1> QED
  BY <1>1, <1>2, PTL DEF Spec

\* The variables of the API have their types in every reachable state.
THEOREM ApiTypesCorrect == Spec => []TypeOK
<1>1. ApiInv => TypeOK
  BY DEF ApiInv
<1> QED
  BY <1>1, ApiCorrect, PTL

\* The generator links every call to the function of the declaration that the parser
\* had resolved it to, in the shared code and in every module.
THEOREM LinksCorrect == Spec => []LinksAreResolved
<1>1. ApiInv => LinksAreResolved
  BY DEF ApiInv
<1> QED
  BY <1>1, ApiCorrect, PTL

-----------------------------------------------------------------------------

SharedKept ==
  /\ order'[Shared] = order[Shared]
  /\ ctx'[Shared] = ctx[Shared]
  /\ linked'[Shared] = linked[Shared]
  /\ \A n \in Names : decl[Shared][n] # "proto" =>
       /\ decl'[Shared][n] = decl[Shared][n]
       /\ calls'[Shared][n] = calls[Shared][n]

\* A declaration that is found in the shared code changes only from "proto".
LEMMA DeclareKeepsShared ==
  ASSUME ApiInv, ready, phase = "parse", NEW n \in Names, NEW state \in DeclStates \ {"none"},
         Declare(n, state),
         state = decl[DeclaredIn(n)][n] \/ AcceptsBody(n) \/ ~IsFunctionDefined(unit, n)
  PROVE  /\ order'[Shared] = order[Shared]
         /\ \A k \in Names : decl[Shared][k] # "proto" => decl'[Shared][k] = decl[Shared][k]
         /\ DeclaredIn(n) = Shared => IsFunctionDefined(unit, n)
<1>1. unit # Shared /\ unit \in Domains /\ Shared \in Domains /\ None \notin Domains
  BY NamesAssumption DEF ApiInv, UnitInSession, Domains
<1>2. DeclaredIn(n) = Shared => IsFunctionDefined(unit, n)
  BY <1>1 DEF DeclaredIn
<1>3. /\ \A k \in Names :
           decl'[Shared][k] = IF Shared = DeclaredIn(n) /\ k = n THEN state ELSE decl[Shared][k]
      /\ order'[Shared] = order[Shared]
  BY <1>1, DeclareKeeps
<1>4. DeclaredIn(n) = Shared => decl[Shared][n] = "proto" \/ state = decl[Shared][n]
  BY <1>2 DEF AcceptsBody
<1> QED
  BY <1>2, <1>3, <1>4

\* No step between two initialisations changes the compiled shared code.
LEMMA SharedStep == ASSUME ApiInv, Next, ready, ready' PROVE SharedKept
<1>1. Shared \in Domains /\ Shared \notin Modules
  BY NamesAssumption DEF Domains
<1>2. ASSUME NEW sharedCode \in BOOLEAN, Initialize(sharedCode) PROVE SharedKept
  BY <1>2 DEF Initialize
<1>3. ASSUME NEW m \in Modules, Compile(m) PROVE SharedKept
  BY <1>3 DEF Compile, SharedKept
<1>4. CASE Destory
  BY <1>4 DEF Destory
<1>5. ASSUME NEW n \in Names, ParsePrototype(n) PROVE SharedKept
  <2> DEFINE state == IF IsFunctionDefined(unit, n) THEN decl[DeclaredIn(n)][n] ELSE "proto"
  <2>1. phase = "parse" /\ Declare(n, state) /\ UNCHANGED <<calls, ctx, linked>>
    BY <1>5 DEF ParsePrototype, Reading
  <2>2. state \in DeclStates \ {"none"}
    <3>1. CASE IsFunctionDefined(unit, n)
      <4>1. unit \in Domains /\ None \notin Domains
        BY <2>1, NamesAssumption DEF ApiInv, UnitInSession, Domains
      <4>2. decl[DeclaredIn(n)][n] # "none" /\ DeclaredIn(n) \in Domains
        BY <1>1, <3>1, <4>1 DEF DeclaredIn, IsFunctionDefined, FunctionHome
      <4> QED
        BY <3>1, <4>2 DEF ApiInv, TypeOK
    <3> QED
      BY <3>1 DEF DeclStates
  <2>3. state = decl[DeclaredIn(n)][n] \/ ~IsFunctionDefined(unit, n)
    OBVIOUS
  <2> HIDE DEF state
  <2> QED
    BY <2>1, <2>2, <2>3, DeclareKeepsShared DEF SharedKept
<1>6. ASSUME NEW n \in Names, NEW C \in Bodies, ParseDefinition(n, C) PROVE SharedKept
  <2>1. /\ phase = "parse" /\ Declare(n, "body") /\ AcceptsBody(n)
        /\ calls' = [calls EXCEPT ![DeclaredIn(n)][n] = {Callee(n, c) : c \in C}]
        /\ UNCHANGED <<ctx, linked>>
    BY <1>6 DEF ParseDefinition, Reading
  <2>2. /\ order'[Shared] = order[Shared]
        /\ \A k \in Names : decl[Shared][k] # "proto" => decl'[Shared][k] = decl[Shared][k]
        /\ DeclaredIn(n) = Shared => IsFunctionDefined(unit, n)
    BY <2>1, DeclareKeepsShared DEF DeclStates
  <2>3. DeclaredIn(n) = Shared => decl[Shared][n] = "proto"
    BY <2>1, <2>2 DEF AcceptsBody
  <2>4. \A k \in Names : decl[Shared][k] # "proto" => calls'[Shared][k] = calls[Shared][k]
    BY <1>1, <2>1, <2>3 DEF ApiInv, TypeOK
  <2> QED
    BY <2>1, <2>2, <2>4 DEF SharedKept
<1>7. ASSUME NEW n \in Names, ParseOpenBody(n) \/ ParseBadBody(n) PROVE SharedKept
  <2>1. /\ phase = "parse" /\ Declare(n, "begun") /\ AcceptsBody(n)
        /\ UNCHANGED <<calls, ctx, linked>>
    BY <1>7 DEF ParseOpenBody, ParseBadBody, Reading
  <2> QED
    BY <2>1, DeclareKeepsShared DEF SharedKept, DeclStates
<1>8. CASE ParseError \/ EndOfText \/ AddFunctionDeclFails \/ GenerateCallFails
  BY <1>8 DEF ParseError, EndOfText, AddFunctionDeclFails, GenerateCallFails, SharedKept
<1>9. CASE Reject \/ EndOfDomain
  BY <1>1, <1>9 DEF Reject, EndOfDomain, EndUnit, SharedKept
<1>10. CASE GenerateDeclaration \/ GenerateFunction
  <2>1. /\ Generating /\ ctx[unit][Current] = None /\ ctx' = WithFunction
        /\ UNCHANGED <<decl, order, calls>>
    BY <1>10 DEF GenerateDeclaration, GenerateFunction
  <2>2. unit # Shared
    BY DEF ApiInv, UnitInSession
  <2>3. ctx'[Shared] = ctx[Shared]
    BY <1>1, <2>1, <2>2, FunctionIsNew
  <2>4. linked'[Shared] = linked[Shared]
    BY <1>1, <1>10, <2>2 DEF GenerateDeclaration, GenerateFunction, ApiInv, TypeOK
  <2> QED
    BY <2>1, <2>3, <2>4 DEF SharedKept
<1> QED
  BY <1>2, <1>3, <1>4, <1>5, <1>6, <1>7, <1>8, <1>9, <1>10
  DEF Next, HostCall, ParseStep, GenerateStep

\* Compiling modules, accepted or rejected, leaves the shared code as it was compiled.
THEOREM SharedCorrect == Spec => SharedIsFixed
<1>1. ApiInv /\ [Next]_vars => [ready /\ ready' => SharedKept]_vars
  BY SharedStep
<1>2. [][ready /\ ready' => SharedKept]_vars => SharedIsFixed
  BY DEF SharedIsFixed, SharedKept
<1> QED
  BY <1>1, <1>2, ApiCorrect, PTL DEF Spec

-----------------------------------------------------------------------------
(* What a module gets handles for.                                         *)

\* A module that is compiled: what its text has defined so far, and which of that has
\* been generated.
UnitHandles(m) ==
  /\ status[m] = "unused"
  /\ \A n \in Names : decl[m][n] # "none" => \E i \in 1..Len(order[m]) : order[m][i] = n
  /\ \A n \in Names : decl[Shared][n] = "none" => (n \in given[m] <=> decl[m][n] = "body")
  /\ phase \in {"parse", "reject"} => handles[m] = {}
  /\ phase = "generate" => \A n \in Names :
       n \in handles[m] <=> /\ decl[m][n] = "body"
                            /\ \E i \in 1..Len(order[m]) : i < pos /\ order[m][i] = n

\* A module that is not.
OtherHandles(m) ==
  /\ status[m] # "compiled" => handles[m] = {} /\ given[m] = {}
  /\ status[m] = "compiled" =>
       /\ ready
       /\ \A n \in Names : n \in handles[m] <=> n \in given[m] /\ decl[Shared][n] = "none"

HandlesInv ==
  \A m \in Modules : IF m = unit THEN UnitHandles(m) ELSE OtherHandles(m)

\* No module has a handle before the library is initialised.
LEMMA InitHandles == Init => HandlesInv
<1> SUFFICES ASSUME Init, NEW m \in Modules PROVE m # unit /\ OtherHandles(m)
  BY DEF HandlesInv
<1> QED
  BY NamesAssumption DEF Init, OtherHandles

\* While a module is parsed, another one keeps what it has.
LEMMA DeclareHandles ==
  ASSUME ApiInv, HandlesInv, phase = "parse", NEW n \in Names,
         NEW state \in DeclStates \ {"none"}, Declare(n, state),
         UNCHANGED <<unit, ready, handles, status>>,
         NEW m \in Modules
  PROVE  /\ m # unit /\ given'[m] = given[m] => OtherHandles(m)'
         /\ m = unit => /\ status'[m] = "unused" /\ handles'[m] = {}
                        /\ \A k \in Names : decl'[m][k] # "none" =>
                             \E i \in 1..Len(order'[m]) : order'[m][i] = k
                        /\ \A k \in Names : decl'[Shared][k] = "none" <=> decl[Shared][k] = "none"
                        /\ decl[Shared][n] = "none" <=> DeclaredIn(n) = unit
<1>1. /\ unit \in Domains /\ Shared \in Domains /\ None \notin Domains /\ m \in Domains
      /\ m # Shared /\ Shared \notin Modules /\ Domains = Modules \union {Shared}
  BY NamesAssumption DEF ApiInv, UnitInSession, Domains
<1>2. /\ DeclaredIn(n) \in {unit, Shared}
      /\ \A d \in Domains, k \in Names :
           decl'[d][k] = IF d = DeclaredIn(n) /\ k = n THEN state ELSE decl[d][k]
      /\ order' \in [Domains -> Seq(Names)]
      /\ order'[unit] = IF IsFunctionDefined(unit, n) THEN order[unit]
                        ELSE Append(order[unit], n)
  BY DeclareKeeps
<1>3. unit # Shared =>
        \A k \in Names : decl'[Shared][k] = "none" <=> decl[Shared][k] = "none"
  <2> SUFFICES ASSUME unit # Shared, NEW k \in Names
               PROVE  decl'[Shared][k] = "none" <=> decl[Shared][k] = "none"
    OBVIOUS
  <2>1. DeclaredIn(n) = Shared => decl[Shared][n] # "none"
    BY <1>1 DEF DeclaredIn, IsFunctionDefined, FunctionHome
  <2> QED
    BY <1>1, <1>2, <2>1
<1>4. m # unit /\ given'[m] = given[m] => OtherHandles(m)'
  BY <1>1, <1>3 DEF HandlesInv, OtherHandles, ApiInv, UnitInSession
<1>5. ASSUME m = unit, NEW k \in Names, decl'[m][k] # "none"
      PROVE  \E i \in 1..Len(order'[m]) : order'[m][i] = k
  <2>1. order[m] \in Seq(Names) /\ Len(order[m]) \in Nat
    BY <1>1 DEF ApiInv, TypeOK
  <2>2. \A j \in Names : decl[m][j] # "none" => \E i \in 1..Len(order[m]) : order[m][i] = j
    BY <1>5 DEF HandlesInv, UnitHandles
  <2>3. CASE IsFunctionDefined(unit, n)
    <3>1. DeclaredIn(n) = unit => decl[unit][n] # "none"
      BY <1>1, <1>5, <2>3 DEF DeclaredIn, IsFunctionDefined, FunctionHome
    <3> QED
      BY <1>1, <1>2, <1>5, <2>2, <2>3, <3>1
  <2>4. CASE ~IsFunctionDefined(unit, n)
    <3>1. order'[m] = Append(order[m], n)
      BY <1>2, <1>5, <2>4
    <3>2. CASE k = n
      <4>1. Len(order'[m]) = Len(order[m]) + 1 /\ order'[m][Len(order[m]) + 1] = n
        BY <2>1, <3>1
      <4> QED
        BY <2>1, <3>2, <4>1
    <3>3. CASE k # n
      <4>1. PICK i \in 1..Len(order[m]) : order[m][i] = k
        BY <1>1, <1>2, <1>5, <2>2, <3>3
      <4>2. order'[m][i] = k /\ i \in 1..Len(order'[m])
        BY <2>1, <3>1, <4>1
      <4> QED
        BY <4>2
    <3> QED
      BY <3>2, <3>3
  <2> QED
    BY <2>3, <2>4
<1>6. m = unit => (decl[Shared][n] = "none" <=> DeclaredIn(n) = unit)
  BY <1>1 DEF DeclaredIn, IsFunctionDefined, FunctionHome, ApiInv, DeclaredOnce
<1>7. m = unit => status'[m] = "unused" /\ handles'[m] = {}
  BY DEF HandlesInv, UnitHandles
<1> QED
  BY <1>1, <1>3, <1>4, <1>5, <1>6, <1>7

\* The calls of the host keep the handles of the modules that were compiled.
LEMMA HandlesHostCall ==
  ASSUME ApiInv, HandlesInv, HostCall PROVE HandlesInv'
<1> SUFFICES ASSUME NEW m \in Modules
             PROVE  IF m = unit' THEN UnitHandles(m)' ELSE OtherHandles(m)'
  BY DEF HandlesInv
<1>1. phase = "idle" /\ unit = None /\ m # None /\ m # Shared
  BY NamesAssumption DEF HostCall, Initialize, Compile, Destory, ApiInv, UnitInSession
<1>2. OtherHandles(m)
  BY <1>1 DEF HandlesInv
<1>3. ASSUME NEW sharedCode \in BOOLEAN, Initialize(sharedCode)
      PROVE  m # unit' /\ OtherHandles(m)'
  BY <1>1, <1>2, <1>3 DEF Initialize, OtherHandles
<1>4. CASE Destory
  BY <1>1, <1>2, <1>4 DEF Destory, OtherHandles, ApiInv, TypeOK
<1>5. ASSUME NEW u \in Modules, Compile(u), u # m PROVE m # unit' /\ OtherHandles(m)'
  BY <1>2, <1>5 DEF Compile, OtherHandles
<1>6. ASSUME Compile(m) PROVE unit' = m /\ UnitHandles(m)'
  <2>1. decl[m] = NoDecls /\ handles[m] = {} /\ given[m] = {}
    BY <1>1, <1>2, <1>6 DEF Compile, OtherHandles, ApiInv, OthersAreGone
  <2> QED
    BY <1>6, <2>1 DEF Compile, UnitHandles, NoDecls
<1> QED
  BY <1>3, <1>4, <1>5, <1>6 DEF HostCall

\* What a declaration adds to the text's bodies is what is generated for it later.
LEMMA HandlesDeclare ==
  ASSUME ApiInv, HandlesInv, NEW n \in Names,
         \/ ParsePrototype(n) \/ ParseOpenBody(n) \/ ParseBadBody(n)
         \/ \E C \in Bodies : ParseDefinition(n, C)
  PROVE  HandlesInv'
<1> SUFFICES ASSUME NEW m \in Modules
             PROVE  IF m = unit' THEN UnitHandles(m)' ELSE OtherHandles(m)'
  BY DEF HandlesInv
<1>1. /\ phase = "parse" /\ UNCHANGED <<unit, ready, handles, status>>
      /\ phase' \in {"parse", "reject", "generate"}
      /\ phase' = "generate" => pos' = 1
  BY DEF ParsePrototype, ParseOpenBody, ParseBadBody, ParseDefinition, Reading
<1>2. /\ unit \in Domains /\ Shared \in Domains /\ None \notin Domains /\ m \in Domains
      /\ m # Shared /\ Shared \notin Modules
  BY <1>1, NamesAssumption DEF ApiInv, UnitInSession, Domains
<1>3. PICK state \in DeclStates \ {"none"} :
        /\ Declare(n, state)
        /\ \/ state = "body" /\ given' = [k \in Modules |-> IF k = unit THEN given[k] \union {n}
                                                           ELSE given[k]]
           \/ state # "body" /\ given' = given /\ AcceptsBody(n)
           \/ state = decl[DeclaredIn(n)][n] /\ given' = given
           \/ state = "proto" /\ given' = given /\ ~IsFunctionDefined(unit, n)
  <2>1. CASE ParsePrototype(n) /\ IsFunctionDefined(unit, n)
    <3>1. decl[DeclaredIn(n)][n] # "none" /\ DeclaredIn(n) \in Domains
      BY <1>2, <2>1 DEF DeclaredIn, IsFunctionDefined, FunctionHome
    <3>2. decl[DeclaredIn(n)][n] \in DeclStates \ {"none"}
      BY <3>1 DEF ApiInv, TypeOK
    <3>3. Declare(n, decl[DeclaredIn(n)][n]) /\ given' = given
      BY <2>1 DEF ParsePrototype
    <3> QED
      BY <3>2, <3>3
  <2>2. CASE ParsePrototype(n) /\ ~IsFunctionDefined(unit, n)
    BY <2>2 DEF ParsePrototype, DeclStates
  <2>3. CASE ParseOpenBody(n) \/ ParseBadBody(n)
    BY <2>3 DEF ParseOpenBody, ParseBadBody, DeclStates
  <2>4. CASE \E C \in Bodies : ParseDefinition(n, C)
    BY <2>4 DEF ParseDefinition, DeclStates
  <2> QED
    BY <2>1, <2>2, <2>3, <2>4
<1>4. CASE m # unit
  <2>1. given'[m] = given[m]
    BY <1>3, <1>4
  <2> QED
    BY <1>1, <1>3, <1>4, <2>1, DeclareHandles
<1>5. CASE m = unit
  <2>1. /\ status'[m] = "unused" /\ handles'[m] = {}
        /\ \A k \in Names : decl'[m][k] # "none" =>
             \E i \in 1..Len(order'[m]) : order'[m][i] = k
        /\ \A k \in Names : decl'[Shared][k] = "none" <=> decl[Shared][k] = "none"
        /\ decl[Shared][n] = "none" <=> DeclaredIn(n) = unit
    BY <1>1, <1>3, <1>5, DeclareHandles
  <2>2. /\ \A k \in Names :
             decl'[m][k] = IF m = DeclaredIn(n) /\ k = n THEN state ELSE decl[m][k]
        /\ order' \in [Domains -> Seq(Names)]
    BY <1>1, <1>2, <1>3, DeclareKeeps
  <2>3. \A k \in Names : decl[Shared][k] = "none" => (k \in given[m] <=> decl[m][k] = "body")
    BY <1>5 DEF HandlesInv, UnitHandles
  <2>4. \A k \in Names : decl'[Shared][k] = "none" => (k \in given'[m] <=> decl'[m][k] = "body")
    <3> SUFFICES ASSUME NEW k \in Names, decl[Shared][k] = "none"
                 PROVE  k \in given'[m] <=> decl'[m][k] = "body"
      BY <2>1
    <3>1. CASE k # n
      <4>1. k \in given'[m] <=> k \in given[m]
        BY <1>3, <3>1
      <4> QED
        BY <2>2, <2>3, <3>1, <4>1
    <3>2. CASE k = n
      <4>1. m = DeclaredIn(n) /\ decl'[m][n] = state
        BY <1>5, <2>1, <2>2, <3>2
      <4>2. CASE state = "body" /\ n \in given'[m]
        BY <3>2, <4>1, <4>2
      <4>3. CASE given' = given /\ state = decl[m][n]
        BY <2>3, <3>2, <4>1, <4>3
      <4>4. CASE given' = given /\ state # "body" /\ decl[m][n] # "body"
        BY <2>3, <3>2, <4>1, <4>4
      <4>5. AcceptsBody(n) \/ ~IsFunctionDefined(unit, n) => decl[m][n] # "body"
        BY <1>2, <1>5, <4>1 DEF AcceptsBody, IsFunctionDefined, FunctionHome
      <4> QED
        BY <1>3, <1>5, <4>1, <4>2, <4>3, <4>4, <4>5
    <3> QED
      BY <3>1, <3>2
  <2>5. phase' = "generate" => \A i \in 1..Len(order'[m]) : ~(i < pos')
    BY <1>1, <1>2, <2>2
  <2> QED
    BY <1>1, <1>5, <2>1, <2>4, <2>5 DEF UnitHandles
<1> QED
  BY <1>4, <1>5

\* The ends of a text and the assertions keep the handles.
LEMMA HandlesQuiet ==
  ASSUME ApiInv, HandlesInv,
         \/ ParseError \/ EndOfText \/ AddFunctionDeclFails \/ GenerateCallFails
         \/ UNCHANGED vars
  PROVE  HandlesInv'
<1>1. /\ UNCHANGED <<unit, ready, decl, order, handles, status, given>>
      /\ \/ phase = "parse" /\ phase' = "reject"
         \/ phase = "parse" /\ phase' = "generate" /\ pos' = 1
         \/ phase' \in Failures
         \/ phase' = phase /\ pos' = pos
  BY DEF ParseError, EndOfText, AddFunctionDeclFails, GenerateCallFails, vars, Failures
<1>2. \A m \in Modules : OtherHandles(m) => OtherHandles(m)'
  BY <1>1 DEF OtherHandles
<1>3. \A m \in Modules : UnitHandles(m) => UnitHandles(m)'
  <2> SUFFICES ASSUME NEW m \in Modules, UnitHandles(m) PROVE UnitHandles(m)'
    OBVIOUS
  <2>1. m \in Domains /\ order[m] \in Seq(Names)
    BY DEF Domains, ApiInv, TypeOK
  <2>2. CASE phase = "parse" /\ phase' = "generate" /\ pos' = 1
    <3>1. \A i \in 1..Len(order[m]) : ~(i < pos')
      BY <2>1, <2>2
    <3> QED
      BY <1>1, <2>2, <3>1 DEF UnitHandles
  <2>3. CASE phase = "parse" /\ phase' = "reject"
    BY <1>1, <2>3 DEF UnitHandles
  <2>4. CASE phase' \in Failures
    BY <1>1, <2>4 DEF UnitHandles, Failures
  <2>5. CASE phase' = phase /\ pos' = pos
    BY <1>1, <2>5 DEF UnitHandles
  <2> QED
    BY <1>1, <2>2, <2>3, <2>4, <2>5
<1> QED
  BY <1>1, <1>2, <1>3 DEF HandlesInv

\* A module that is finished has a handle for each body of its own.
LEMMA HandlesEnd ==
  ASSUME ApiInv, HandlesInv, Reject \/ EndOfDomain PROVE HandlesInv'
<1> SUFFICES ASSUME NEW m \in Modules PROVE m # unit' /\ OtherHandles(m)'
  BY DEF HandlesInv
<1>1. /\ Shared \in Domains /\ m \in Domains /\ m # None
      /\ unit' = None /\ decl'[Shared] = decl[Shared] /\ handles' = handles
      /\ ready => ready'
  BY NamesAssumption DEF Domains, Reject, EndOfDomain, EndUnit
<1>2. CASE m # unit
  <2>1. OtherHandles(m) /\ status'[m] = status[m] /\ given'[m] = given[m]
    BY <1>2 DEF HandlesInv, Reject, EndOfDomain, ApiInv, TypeOK
  <2> QED
    BY <1>1, <2>1 DEF OtherHandles
<1>3. CASE m = unit /\ Reject
  BY <1>1, <1>3 DEF HandlesInv, UnitHandles, OtherHandles, Reject
<1>4. CASE m = unit /\ EndOfDomain
  <2>1. UnitHandles(m) /\ phase = "generate" /\ ready' /\ given' = given
    BY <1>4 DEF HandlesInv, EndOfDomain
  <2>2. status'[m] = "compiled"
    BY <1>4 DEF EndOfDomain
  <2>3. \A i \in 1..Len(order[m]) : i < pos
    <3>1. Len(order[m]) \in Nat /\ pos \in Nat /\ pos > Len(order[m])
      BY <1>1, <1>4 DEF EndOfDomain, ApiInv, TypeOK
    <3> QED
      BY <3>1
  <2>4. \A n \in Names : n \in handles[m] <=> decl[m][n] = "body"
    <3> SUFFICES ASSUME NEW n \in Names PROVE n \in handles[m] <=> decl[m][n] = "body"
      OBVIOUS
    <3>1. decl[m][n] = "body" => \E i \in 1..Len(order[m]) : i < pos /\ order[m][i] = n
      BY <2>1, <2>3 DEF UnitHandles
    <3> QED
      BY <2>1, <3>1 DEF UnitHandles
  <2>5. \A n \in Names :
          n \in handles[m] <=> n \in given[m] /\ decl[Shared][n] = "none"
    <3>1. \A n \in Names : decl[m][n] = "body" => decl[Shared][n] = "none"
      BY DEF ApiInv, DeclaredOnce
    <3> QED
      BY <2>1, <2>4, <3>1 DEF UnitHandles
  <2> QED
    BY <1>1, <2>1, <2>2, <2>5 DEF OtherHandles
<1> QED
  BY <1>1, <1>2, <1>3, <1>4

\* The generation adds the handle of the current function exactly when it has a body.
LEMMA HandlesGenerate ==
  ASSUME ApiInv, HandlesInv, GenerateDeclaration \/ GenerateFunction PROVE HandlesInv'
<1> SUFFICES ASSUME NEW m \in Modules
             PROVE  IF m = unit' THEN UnitHandles(m)' ELSE OtherHandles(m)'
  BY DEF HandlesInv
<1>1. /\ Generating /\ phase = "generate" /\ pos' = pos + 1
      /\ UNCHANGED <<phase, unit, ready, decl, order, status, given>>
      /\ handles' = [k \in Modules |-> IF k = unit /\ HasBody THEN handles[k] \union {Current}
                                       ELSE handles[k]]
  <2>1. handles = [k \in Modules |-> handles[k]]
    BY DEF ApiInv, TypeOK
  <2> QED
    BY <2>1 DEF GenerateDeclaration, GenerateFunction, Generating
<1>2. CASE m # unit
  BY <1>1, <1>2 DEF HandlesInv, OtherHandles
<1>3. CASE m = unit
  <2>1. /\ pos \in Nat /\ pos \in 1..Len(order[m]) /\ Len(order[m]) \in Nat
        /\ order[m] \in Seq(Names)
    BY <1>1, <1>3 DEF Generating, ApiInv, TypeOK, UnitInSession, Generating1
  <2>2. UnitHandles(m)
    BY <1>3 DEF HandlesInv
  <2>3. \A n \in Names :
          n \in handles'[m] <=> /\ decl[m][n] = "body"
                                /\ \E i \in 1..Len(order[m]) : i < pos + 1 /\ order[m][i] = n
    <3> SUFFICES ASSUME NEW n \in Names
                 PROVE  n \in handles'[m] <=>
                          /\ decl[m][n] = "body"
                          /\ \E i \in 1..Len(order[m]) : i < pos + 1 /\ order[m][i] = n
      OBVIOUS
    <3>1. n \in handles[m] <=> /\ decl[m][n] = "body"
                               /\ \E i \in 1..Len(order[m]) : i < pos /\ order[m][i] = n
      BY <1>1, <2>2 DEF UnitHandles
    <3>2. n \in handles'[m] <=> n \in handles[m] \/ (decl[m][Current] = "body" /\ n = Current)
      BY <1>1, <1>3 DEF HasBody
    <3>3. (\E i \in 1..Len(order[m]) : i < pos + 1 /\ order[m][i] = n) <=>
            (\E i \in 1..Len(order[m]) : i < pos /\ order[m][i] = n) \/ n = Current
      BY <1>3, <2>1 DEF Current
    <3> QED
      BY <3>1, <3>2, <3>3
  <2>4. /\ status'[m] = "unused"
        /\ \A n \in Names : decl[m][n] # "none" => \E i \in 1..Len(order[m]) : order[m][i] = n
        /\ \A n \in Names :
             decl[Shared][n] = "none" => (n \in given[m] <=> decl[m][n] = "body")
    BY <1>1, <2>2 DEF UnitHandles
  <2> QED
    BY <1>1, <1>3, <2>3, <2>4 DEF UnitHandles
<1> QED
  BY <1>2, <1>3

\* A compiled module has handles for what it gave a body, save for what the shared code
\* had declared.
THEOREM HandlesCorrect == Spec => []HandlesAreDefinitions
<1>1. Init => HandlesInv
  BY InitHandles
<1>2. ApiInv /\ HandlesInv /\ [Next]_vars => HandlesInv'
  <2> SUFFICES ASSUME ApiInv, HandlesInv, [Next]_vars PROVE HandlesInv'
    OBVIOUS
  <2>1. CASE HostCall
    BY <2>1, HandlesHostCall
  <2>2. CASE ParseStep
    BY <2>2, HandlesDeclare, HandlesQuiet, HandlesEnd DEF ParseStep
  <2>3. CASE GenerateStep
    BY <2>3, HandlesQuiet, HandlesGenerate, HandlesEnd DEF GenerateStep
  <2>4. CASE UNCHANGED vars
    BY <2>4, HandlesQuiet
  <2> QED
    BY <2>1, <2>2, <2>3, <2>4 DEF Next
<1>3. ApiInv /\ HandlesInv => HandlesAreDefinitions
  <2> SUFFICES ASSUME ApiInv, HandlesInv, NEW m \in Modules, status[m] = "compiled"
               PROVE  handles[m] = given[m] \ {n \in Names : decl[Shared][n] # "none"}
    BY DEF HandlesAreDefinitions
  <2>1. m # unit
    BY DEF HandlesInv, UnitHandles
  <2>2. \A n \in Names : n \in handles[m] <=> n \in given[m] /\ decl[Shared][n] = "none"
    BY <2>1 DEF HandlesInv, OtherHandles
  <2>3. handles[m] \subseteq Names /\ given[m] \subseteq Names
    BY DEF ApiInv, TypeOK
  <2> QED
    BY <2>2, <2>3
<1> QED
  BY <1>1, <1>2, <1>3, ApiCorrect, PTL DEF Spec

-----------------------------------------------------------------------------
(***************************************************************************)
(* What stops the library: the assertions of the generator and the double  *)
(* deletion are reached only in the ways FailuresExplained states.         *)
(***************************************************************************)

\* mExpressions of a domain lists every declaration of it, and none twice.
OrderIsExact ==
  \A d \in Domains :
    /\ \A i, j \in 1..Len(order[d]) : order[d][i] = order[d][j] => i = j
    /\ \A n \in Names : decl[d][n] # "none" => \E i \in 1..Len(order[d]) : order[d][i] = n

\* A context knows what was generated before the place of generation, and, save in a
\* session after a destruction, no more of its own domain.
GeneratedSoFar ==
  phase = "generate" =>
    /\ \A i \in 1..Len(order[unit]) : i < pos => ctx[unit][order[unit][i]] # None
    /\ unit \in Modules \/ sessions = 0 =>
         \A n \in Names : ctx[unit][n] # None =>
           \E i \in 1..Len(order[unit]) : i < pos /\ order[unit][i] = n

\* Nothing is in a context before the generation begins.
BeforeGeneration ==
  phase \in {"idle", "parse", "reject"} =>
    /\ \A m \in Modules : ctx[m] = NoFunctions
    /\ sessions = 0 /\ ~ready => ctx[Shared] = NoFunctions

\* Once modules can be compiled, every function of the shared code was generated.
SharedIsGenerated ==
  ready => \A n \in Names : decl[Shared][n] # "none" => ctx[Shared][n] # None

DeletedInSession == \A m \in Modules : status[m] = "deleted" => sessions >= 1

FailuresInv ==
  /\ OrderIsExact
  /\ GeneratedSoFar
  /\ BeforeGeneration
  /\ SharedIsGenerated
  /\ DeletedInSession
  /\ FailuresExplained

-----------------------------------------------------------------------------

\* Nothing is declared, generated or deleted at the start.
LEMMA InitFailures == Init => FailuresInv
<1> SUFFICES ASSUME Init PROVE FailuresInv
  OBVIOUS
<1>1. \A d \in Domains : order[d] = <<>> /\ decl[d] = NoDecls /\ ctx[d] = NoFunctions
  BY DEF Init
<1>2. OrderIsExact
  BY <1>1 DEF OrderIsExact, NoDecls
<1>3. GeneratedSoFar /\ BeforeGeneration /\ SharedIsGenerated
  BY <1>1 DEF Init, GeneratedSoFar, BeforeGeneration, SharedIsGenerated, Domains
<1>4. DeletedInSession /\ FailuresExplained
  BY DEF Init, DeletedInSession, FailuresExplained
<1> QED
  BY <1>2, <1>3, <1>4 DEF FailuresInv

\* The calls of the host.  A second destruction finds modules deleted by the first.
LEMMA FailuresHostCall ==
  ASSUME ApiInv, FailuresInv, HostCall PROVE FailuresInv'
<1>1. /\ phase = "idle" /\ unit = None /\ sessions \in Nat
      /\ Shared \in Domains /\ Shared \notin Modules /\ None \notin Domains
      /\ Domains = Modules \union {Shared}
  BY NamesAssumption, BoundsAssumption
  DEF HostCall, Initialize, Compile, Destory, ApiInv, TypeOK, UnitInSession, Domains
<1>2. /\ \A m \in Modules : ctx[m] = NoFunctions
      /\ sessions = 0 /\ ~ready => ctx[Shared] = NoFunctions
  BY <1>1 DEF FailuresInv, BeforeGeneration
<1>3. ASSUME NEW sharedCode \in BOOLEAN, Initialize(sharedCode) PROVE FailuresInv'
  <2>1. /\ unit' = Shared /\ phase' \in {"parse", "generate"}
        /\ phase' = "generate" => pos' = 1
        /\ ~ready /\ UNCHANGED <<ready, sessions, ctx, status>>
        /\ decl' = [decl EXCEPT ![Shared] = IntrinsicDecls]
        /\ order' = [order EXCEPT ![Shared] = Intrinsics]
    BY <1>3 DEF Initialize
  <2>2. /\ decl'[Shared] = IntrinsicDecls /\ order'[Shared] = Intrinsics
        /\ \A m \in Modules : decl'[m] = decl[m] /\ order'[m] = order[m]
    BY <1>1, <2>1 DEF ApiInv, TypeOK
  <2>3. OrderIsExact'
    <3>1. \A i, j \in 1..Len(Intrinsics) : Intrinsics[i] = Intrinsics[j] => i = j
      BY IntrinsicsAssumption
    <3>2. \A n \in Names : IntrinsicDecls[n] # "none" =>
            \E i \in 1..Len(Intrinsics) : Intrinsics[i] = n
      BY IntrinsicsAssumption DEF IntrinsicDecls
    <3> QED
      BY <1>1, <2>2, <3>1, <3>2 DEF FailuresInv, OrderIsExact
  <2>4. GeneratedSoFar'
    <3>1. sessions = 0 => \A n \in Names : ctx[Shared][n] = None
      BY <1>2, <2>1 DEF NoFunctions
    <3>2. phase' = "generate" => \A i \in 1..Len(order'[unit']) : ~(i < pos')
      BY <2>1, <2>2, IntrinsicsAssumption
    <3> QED
      BY <1>1, <2>1, <3>1, <3>2 DEF GeneratedSoFar
  <2>5. BeforeGeneration' /\ SharedIsGenerated'
    BY <1>2, <2>1 DEF BeforeGeneration, SharedIsGenerated
  <2>6. DeletedInSession' /\ FailuresExplained'
    BY <2>1 DEF FailuresInv, DeletedInSession, FailuresExplained
  <2> QED
    BY <2>3, <2>4, <2>5, <2>6 DEF FailuresInv
<1>4. ASSUME NEW m \in Modules, Compile(m) PROVE FailuresInv'
  <2>1. /\ phase' = "parse" /\ UNCHANGED <<ready, sessions, decl, order, ctx, status>>
    BY <1>4 DEF Compile
  <2> QED
    BY <1>2, <2>1 DEF FailuresInv, OrderIsExact, GeneratedSoFar, BeforeGeneration,
                      SharedIsGenerated, DeletedInSession, FailuresExplained
<1>5. CASE Destory
  <2>1. /\ sessions' = sessions + 1 /\ ~ready' /\ UNCHANGED <<decl, order, ctx>>
        /\ phase' = IF \E m \in Modules : status[m] = "deleted" THEN "DeletedTwice" ELSE "idle"
    BY <1>5 DEF Destory
  <2>2. OrderIsExact' /\ SharedIsGenerated'
    BY <2>1 DEF FailuresInv, OrderIsExact, SharedIsGenerated
  <2>3. GeneratedSoFar' /\ BeforeGeneration'
    BY <1>1, <1>2, <2>1 DEF GeneratedSoFar, BeforeGeneration
  <2>4. DeletedInSession'
    BY <1>1, <2>1 DEF DeletedInSession
  <2>5. FailuresExplained'
    <3>1. phase' = "DeletedTwice" => sessions >= 1
      BY <2>1 DEF FailuresInv, DeletedInSession
    <3> QED
      BY <1>1, <2>1, <3>1 DEF FailuresExplained
  <2> QED
    BY <2>2, <2>3, <2>4, <2>5 DEF FailuresInv
<1> QED
  BY <1>3, <1>4, <1>5 DEF HostCall

\* A declaration of the text, whatever the parser makes of it.
LEMMA TextDeclares ==
  ASSUME ApiInv, NEW n \in Names,
         \/ ParsePrototype(n) \/ ParseOpenBody(n) \/ ParseBadBody(n)
         \/ \E C \in Bodies : ParseDefinition(n, C)
  PROVE  \E state \in DeclStates \ {"none"} : Declare(n, state)
<1>1. unit \in Domains /\ Shared \in Domains /\ None \notin Domains
  BY NamesAssumption
  DEF ApiInv, UnitInSession, Domains, ParsePrototype, ParseOpenBody, ParseBadBody,
      ParseDefinition, Reading
<1>2. CASE ParsePrototype(n) /\ IsFunctionDefined(unit, n)
  <2>1. decl[DeclaredIn(n)][n] # "none" /\ DeclaredIn(n) \in Domains
    BY <1>1, <1>2 DEF DeclaredIn, IsFunctionDefined, FunctionHome
  <2>2. decl[DeclaredIn(n)][n] \in DeclStates \ {"none"}
    BY <2>1 DEF ApiInv, TypeOK
  <2>3. Declare(n, decl[DeclaredIn(n)][n])
    BY <1>2 DEF ParsePrototype
  <2> QED
    BY <2>2, <2>3
<1>3. CASE ParsePrototype(n) /\ ~IsFunctionDefined(unit, n)
  BY <1>3 DEF ParsePrototype, DeclStates
<1>4. CASE ParseOpenBody(n) \/ ParseBadBody(n)
  BY <1>4 DEF ParseOpenBody, ParseBadBody, DeclStates
<1>5. CASE \E C \in Bodies : ParseDefinition(n, C)
  BY <1>5 DEF ParseDefinition, DeclStates
<1> QED
  BY <1>2, <1>3, <1>4, <1>5

\* A name is appended to the declarations only when it is not among them.
LEMMA OrderStaysExact ==
  ASSUME ApiInv, OrderIsExact, phase = "parse", NEW n \in Names,
         NEW state \in DeclStates \ {"none"}, Declare(n, state)
  PROVE  OrderIsExact'
<1>1. /\ unit \in Domains /\ Shared \in Domains /\ None \notin Domains
      /\ \A d \in Domains : order[d] \in Seq(Names)
  BY NamesAssumption DEF ApiInv, UnitInSession, Domains, TypeOK
<1>2. /\ DeclaredIn(n) \in {unit, Shared}
      /\ \A d \in Domains, k \in Names :
           decl'[d][k] = IF d = DeclaredIn(n) /\ k = n THEN state ELSE decl[d][k]
      /\ \A d \in Domains : d # unit => order'[d] = order[d]
      /\ order'[unit] = IF IsFunctionDefined(unit, n) THEN order[unit]
                        ELSE Append(order[unit], n)
  BY DeclareKeeps
<1>3. CASE IsFunctionDefined(unit, n)
  <2>1. decl[DeclaredIn(n)][n] # "none"
    BY <1>1, <1>3 DEF DeclaredIn, IsFunctionDefined, FunctionHome
  <2>2. \A d \in Domains : order'[d] = order[d]
    BY <1>2, <1>3
  <2>3. \A d \in Domains, k \in Names : decl'[d][k] # "none" => decl[d][k] # "none"
    BY <1>2, <2>1
  <2> QED
    BY <2>2, <2>3 DEF OrderIsExact
<1>4. CASE ~IsFunctionDefined(unit, n)
  <2>1. DeclaredIn(n) = unit /\ decl[unit][n] = "none"
    BY <1>1, <1>4 DEF DeclaredIn, IsFunctionDefined, FunctionHome
  <2>2. ASSUME NEW d \in Domains, d # unit
        PROVE  /\ \A i, j \in 1..Len(order'[d]) : order'[d][i] = order'[d][j] => i = j
               /\ \A k \in Names : decl'[d][k] # "none" =>
                    \E i \in 1..Len(order'[d]) : order'[d][i] = k
    BY <1>2, <2>1, <2>2 DEF OrderIsExact
  <2>3. /\ Len(order[unit]) \in Nat /\ Len(order'[unit]) = Len(order[unit]) + 1
        /\ \A i \in 1..Len(order[unit]) : order'[unit][i] = order[unit][i]
        /\ order'[unit][Len(order[unit]) + 1] = n
    BY <1>1, <1>2, <1>4
  <2>4. \A i \in 1..Len(order[unit]) : order[unit][i] # n
    BY <1>1, <2>1 DEF ApiInv, OrderIsDeclared
  <2>5. ASSUME NEW i \in 1..Len(order'[unit]), NEW j \in 1..Len(order'[unit]),
               order'[unit][i] = order'[unit][j]
        PROVE  i = j
    <3>1. \A k \in 1..Len(order'[unit]) :
            k \in 1..Len(order[unit]) \/ k = Len(order[unit]) + 1
      BY <2>3
    <3> QED
      BY <1>1, <2>3, <2>4, <2>5, <3>1 DEF OrderIsExact
  <2>6. ASSUME NEW k \in Names, decl'[unit][k] # "none"
        PROVE  \E i \in 1..Len(order'[unit]) : order'[unit][i] = k
    <3>1. CASE k = n
      BY <2>3, <3>1
    <3>2. CASE k # n
      <4>1. PICK i \in 1..Len(order[unit]) : order[unit][i] = k
        BY <1>1, <1>2, <2>6, <3>2 DEF OrderIsExact
      <4>2. i \in 1..Len(order'[unit]) /\ order'[unit][i] = k
        BY <2>3, <4>1
      <4> QED
        BY <4>2
    <3> QED
      BY <3>1, <3>2
  <2> QED
    BY <2>2, <2>5, <2>6 DEF OrderIsExact
<1> QED
  BY <1>3, <1>4

\* While a text is parsed nothing is generated, and modules declare nothing in the
\* shared domain.
LEMMA FailuresDeclare ==
  ASSUME ApiInv, FailuresInv, NEW n \in Names,
         \/ ParsePrototype(n) \/ ParseOpenBody(n) \/ ParseBadBody(n)
         \/ \E C \in Bodies : ParseDefinition(n, C)
  PROVE  FailuresInv'
<1>1. /\ phase = "parse" /\ UNCHANGED <<unit, ready, sessions, ctx, status>>
      /\ phase' \in {"parse", "reject", "generate"}
      /\ phase' = "generate" => pos' = 1
  BY DEF ParsePrototype, ParseOpenBody, ParseBadBody, ParseDefinition, Reading
<1>2. PICK state \in DeclStates \ {"none"} : Declare(n, state)
  BY TextDeclares
<1>3. /\ unit \in Domains /\ Shared \in Domains /\ None \notin Domains
      /\ Domains = Modules \union {Shared} /\ Shared \notin Modules
  BY <1>1, NamesAssumption DEF ApiInv, UnitInSession, Domains
<1>4. OrderIsExact'
  BY <1>1, <1>2, OrderStaysExact DEF FailuresInv
<1>5. /\ order' \in [Domains -> Seq(Names)]
      /\ \A d \in Domains, k \in Names :
           decl'[d][k] = IF d = DeclaredIn(n) /\ k = n THEN state ELSE decl[d][k]
  BY <1>1, <1>2, DeclareKeeps
<1>6. /\ \A m \in Modules : ctx[m] = NoFunctions
      /\ sessions = 0 /\ ~ready => ctx[Shared] = NoFunctions
  BY <1>1 DEF FailuresInv, BeforeGeneration
<1>7. GeneratedSoFar'
  <2>1. unit \in Modules \/ sessions = 0 => \A k \in Names : ctx[unit][k] = None
    BY <1>3, <1>6 DEF NoFunctions, ApiInv, UnitInSession
  <2>2. phase' = "generate" => \A i \in 1..Len(order'[unit]) : ~(i < pos')
    BY <1>1, <1>3, <1>5
  <2> QED
    BY <1>1, <2>1, <2>2 DEF GeneratedSoFar
<1>8. BeforeGeneration'
  BY <1>1, <1>6 DEF BeforeGeneration
<1>9. SharedIsGenerated'
  <2> SUFFICES ASSUME ready, NEW k \in Names, decl'[Shared][k] # "none"
               PROVE  decl[Shared][k] # "none"
    BY <1>1 DEF FailuresInv, SharedIsGenerated
  <2>1. unit # Shared
    BY DEF ApiInv, UnitInSession
  <2>2. DeclaredIn(n) = Shared => decl[Shared][n] # "none"
    BY <1>3, <2>1 DEF DeclaredIn, IsFunctionDefined, FunctionHome
  <2> QED
    BY <1>3, <1>5, <2>2
<1>10. DeletedInSession' /\ FailuresExplained'
  BY <1>1 DEF FailuresInv, DeletedInSession, FailuresExplained
<1> QED
  BY <1>4, <1>7, <1>8, <1>9, <1>10 DEF FailuresInv

\* The end of a text, and what a variable's change elsewhere leaves alone.
LEMMA FailuresQuiet ==
  ASSUME ApiInv, FailuresInv, ParseError \/ EndOfText \/ UNCHANGED vars
  PROVE  FailuresInv'
<1>1. UNCHANGED <<unit, ready, sessions, decl, order, calls, ctx, status>>
  BY DEF ParseError, EndOfText, vars
<1>2. OrderIsExact' /\ SharedIsGenerated' /\ DeletedInSession'
  BY <1>1 DEF FailuresInv, OrderIsExact, SharedIsGenerated, DeletedInSession
<1>3. CASE ParseError
  BY <1>1, <1>2, <1>3
  DEF ParseError, FailuresInv, GeneratedSoFar, BeforeGeneration, FailuresExplained
<1>4. CASE EndOfText
  <2>1. unit \in Domains /\ order[unit] \in Seq(Names) /\ pos' = 1
    BY <1>4 DEF EndOfText, ApiInv, UnitInSession, TypeOK
  <2>2. unit \in Modules \/ sessions = 0 => \A k \in Names : ctx[unit][k] = None
    BY <1>4, <2>1 DEF EndOfText, FailuresInv, BeforeGeneration, NoFunctions, ApiInv,
                      UnitInSession, Domains
  <2>3. \A i \in 1..Len(order[unit]) : ~(i < pos')
    BY <2>1
  <2>4. GeneratedSoFar'
    BY <1>1, <2>2, <2>3 DEF GeneratedSoFar
  <2> QED
    BY <1>2, <1>4, <2>4 DEF EndOfText, FailuresInv, BeforeGeneration, FailuresExplained
<1>5. CASE UNCHANGED vars
  <2>1. GeneratedSoFar' /\ BeforeGeneration'
    BY <1>5 DEF vars, FailuresInv, GeneratedSoFar, BeforeGeneration
  <2>2. FailuresExplained'
    BY <1>5 DEF vars, FailuresInv, FailuresExplained, CalledNames, Current
  <2> QED
    BY <1>2, <2>1, <2>2 DEF FailuresInv
<1> QED
  BY <1>3, <1>4, <1>5

\* A unit ends: its own declarations go, and after the shared code all of it is
\* generated.
LEMMA FailuresEnd ==
  ASSUME ApiInv, FailuresInv, Reject \/ EndOfDomain PROVE FailuresInv'
<1>1. /\ phase \in {"reject", "generate"} /\ unit \in Domains
      /\ phase' \in {"idle", "Leak"} /\ sessions' = sessions
      /\ Shared \in Domains /\ Shared \notin Modules
      /\ Domains = Modules \union {Shared}
  BY NamesAssumption DEF Reject, EndOfDomain, EndUnit, ApiInv, UnitInSession, Domains
<1>2. /\ decl' = [d \in Domains |-> IF d = Shared THEN decl[d] ELSE NoDecls]
      /\ order' = [d \in Domains |-> IF d = Shared THEN order[d] ELSE <<>>]
      /\ ctx' = [d \in Domains |-> IF d = Shared THEN ctx[d] ELSE NoFunctions]
  BY DEF Reject, EndOfDomain, EndUnit
<1>3. /\ decl'[Shared] = decl[Shared] /\ order'[Shared] = order[Shared]
      /\ ctx'[Shared] = ctx[Shared]
      /\ \A m \in Modules : decl'[m] = NoDecls /\ order'[m] = <<>> /\ ctx'[m] = NoFunctions
  BY <1>1, <1>2
<1>4. OrderIsExact'
  <2>1. \A m \in Modules : 1..Len(order'[m]) = {}
    BY <1>3
  <2> QED
    BY <1>1, <1>3, <2>1 DEF FailuresInv, OrderIsExact, NoDecls
<1>5. GeneratedSoFar' /\ FailuresExplained'
  BY <1>1 DEF GeneratedSoFar, FailuresExplained
<1>6. BeforeGeneration'
  <2>1. CASE Reject
    BY <1>1, <1>3, <2>1 DEF Reject, FailuresInv, BeforeGeneration
  <2>2. CASE EndOfDomain
    BY <1>3, <2>2 DEF EndOfDomain, BeforeGeneration
  <2> QED
    BY <2>1, <2>2
<1>7. SharedIsGenerated'
  <2>1. CASE Reject \/ unit # Shared
    <3>1. ready' => ready
      BY <1>1, <2>1 DEF Reject, ApiInv, UnitInSession
    <3> QED
      BY <1>3, <3>1 DEF FailuresInv, SharedIsGenerated
  <2>2. CASE EndOfDomain /\ unit = Shared
    <3>1. phase = "generate" /\ pos > Len(order[Shared]) /\ pos \in Nat
          /\ Len(order[Shared]) \in Nat
      BY <1>1, <2>2 DEF EndOfDomain, ApiInv, TypeOK
    <3>2. \A i \in 1..Len(order[Shared]) : ctx[Shared][order[Shared][i]] # None
      BY <2>2, <3>1 DEF FailuresInv, GeneratedSoFar
    <3>3. \A n \in Names : decl[Shared][n] # "none" =>
            \E i \in 1..Len(order[Shared]) : order[Shared][i] = n
      BY <1>1 DEF FailuresInv, OrderIsExact
    <3> QED
      BY <1>3, <3>2, <3>3 DEF SharedIsGenerated
  <2> QED
    BY <2>1, <2>2
<1>8. DeletedInSession'
  BY <1>1 DEF FailuresInv, DeletedInSession, Reject, EndOfDomain
<1> QED
  BY <1>4, <1>5, <1>6, <1>7, <1>8 DEF FailuresInv

\* A function more is generated, the next of the domain.
LEMMA FailuresGenerate ==
  ASSUME ApiInv, FailuresInv, GenerateDeclaration \/ GenerateFunction
  PROVE  FailuresInv'
<1>1. /\ Generating /\ phase = "generate" /\ pos' = pos + 1
      /\ UNCHANGED <<phase, unit, ready, sessions, decl, order, status>>
      /\ ctx[unit][Current] = None /\ ctx' = WithFunction
  BY DEF GenerateDeclaration, GenerateFunction, Generating
<1>2. /\ unit \in Domains /\ pos \in Nat /\ pos >= 1 /\ Current \in Names
      /\ \A d \in Domains, k \in Names :
           ctx'[d][k] = IF d = unit /\ k = Current THEN unit ELSE ctx[d][k]
  BY <1>1, FunctionIsNew
<1>3. /\ Shared \in Domains /\ None \notin Domains /\ order[unit] \in Seq(Names)
      /\ pos \in 1..Len(order[unit]) /\ Current = order[unit][pos]
  BY <1>1, <1>2, NamesAssumption DEF Generating, Domains, ApiInv, TypeOK, Current
<1>4. OrderIsExact' /\ DeletedInSession' /\ FailuresExplained' /\ BeforeGeneration'
  BY <1>1
  DEF FailuresInv, OrderIsExact, DeletedInSession, FailuresExplained, BeforeGeneration
<1>5. \A d \in Domains, k \in Names : ctx[d][k] # None => ctx'[d][k] # None
  BY <1>2, <1>3
<1>6. SharedIsGenerated'
  BY <1>1, <1>3, <1>5 DEF FailuresInv, SharedIsGenerated
<1>7. GeneratedSoFar'
  <2>1. ASSUME NEW i \in 1..Len(order[unit]), i < pos + 1
        PROVE  ctx'[unit][order[unit][i]] # None
    <3>1. i < pos \/ i = pos
      BY <1>2, <2>1
    <3>2. order[unit][i] \in Names
      BY <1>3, <2>1
    <3> QED
      BY <1>1, <1>2, <1>3, <1>5, <3>1, <3>2 DEF FailuresInv, GeneratedSoFar
  <2>2. ASSUME unit \in Modules \/ sessions = 0, NEW k \in Names, ctx'[unit][k] # None
        PROVE  \E i \in 1..Len(order[unit]) : i < pos + 1 /\ order[unit][i] = k
    <3>1. CASE k = Current
      BY <1>2, <1>3, <3>1
    <3>2. CASE k # Current
      <4>1. PICK i \in 1..Len(order[unit]) : i < pos /\ order[unit][i] = k
        BY <1>1, <1>2, <2>2, <3>2 DEF FailuresInv, GeneratedSoFar
      <4> QED
        BY <1>2, <4>1
    <3> QED
      BY <3>1, <3>2
  <2> QED
    BY <1>1, <2>1, <2>2 DEF GeneratedSoFar
<1> QED
  BY <1>4, <1>6, <1>7 DEF FailuresInv

\* The two assertions of the generator: a name that the context knows was not put there
\* by this generation, and a callee without a function is still to come.
LEMMA FailuresFail ==
  ASSUME ApiInv, FailuresInv, AddFunctionDeclFails \/ GenerateCallFails
  PROVE  FailuresInv'
<1>1. /\ Generating /\ phase = "generate"
      /\ UNCHANGED <<unit, pos, ready, sessions, decl, order, calls, ctx, status>>
      /\ phase' \in {"AddFunctionDecl", "GenerateCall"}
  BY DEF AddFunctionDeclFails, GenerateCallFails, Generating
<1>2. /\ unit \in Domains /\ Shared \in Domains /\ None \notin Domains
      /\ Domains = Modules \union {Shared} /\ sessions \in Nat
      /\ order[unit] \in Seq(Names) /\ pos \in 1..Len(order[unit]) /\ pos \in Nat
      /\ Current = order[unit][pos] /\ Current \in Names
  BY <1>1, NamesAssumption, BoundsAssumption
  DEF Generating, Domains, ApiInv, TypeOK, UnitInSession, Generating1, Current
<1>3. /\ OrderIsExact' /\ SharedIsGenerated' /\ DeletedInSession'
      /\ GeneratedSoFar' /\ BeforeGeneration'
  BY <1>1 DEF FailuresInv, OrderIsExact, SharedIsGenerated, DeletedInSession,
              GeneratedSoFar, BeforeGeneration
<1>4. CASE AddFunctionDeclFails
  <2>1. ctx[unit][Current] # None /\ phase' = "AddFunctionDecl"
    BY <1>4 DEF AddFunctionDeclFails
  <2>2. ~\E i \in 1..Len(order[unit]) : i < pos /\ order[unit][i] = Current
    BY <1>2 DEF FailuresInv, OrderIsExact
  <2>3. unit \notin Modules /\ sessions # 0
    BY <1>1, <1>2, <2>1, <2>2 DEF FailuresInv, GeneratedSoFar
  <2> QED
    BY <1>1, <1>2, <1>3, <2>1, <2>3 DEF FailuresInv, FailuresExplained
<1>5. CASE GenerateCallFails
  <2>1. /\ ctx[unit][Current] = None /\ phase' = "GenerateCall"
    BY <1>5 DEF GenerateCallFails
  <2>2. PICK r \in calls[unit][Current] : FuncDeclByName(WithFunction, unit, r[2]) = None
    BY <1>5 DEF GenerateCallFails, CalledNames
  <2>3. /\ r[2] \in Names /\ r[2] \in CalledNames /\ FunctionHome(unit, r[2]) # None
    BY <1>2 DEF ApiInv, TypeOK, CallsAreResolved, CalledNames
  <2>4. \A d \in Domains, k \in Names :
          WithFunction[d][k] = IF d = unit /\ k = Current THEN unit ELSE ctx[d][k]
    BY <1>1, <2>1, FunctionIsNew
  <2>5. ctx[unit][r[2]] = None /\ r[2] # Current
    <3>1. WithFunction[unit][r[2]] = None
      BY <2>2 DEF FuncDeclByName
    <3> QED
      BY <1>2, <2>3, <2>4, <3>1
  <2>6. ASSUME unit # Shared PROVE decl[Shared][r[2]] = "none"
    <3>1. WithFunction[Shared][r[2]] = None
      BY <1>2, <2>2, <2>3, <2>4, <2>5 DEF FuncDeclByName
    <3>2. ctx[Shared][r[2]] = None /\ ready
      BY <1>2, <2>3, <2>4, <2>6, <3>1 DEF ApiInv, UnitInSession
    <3> QED
      BY <2>3, <3>2 DEF FailuresInv, SharedIsGenerated
  <2>7. PICK i \in 1..Len(order[unit]) : order[unit][i] = r[2]
    <3>1. decl[unit][r[2]] # "none"
      BY <1>2, <2>3, <2>6 DEF FunctionHome
    <3> QED
      BY <1>2, <2>3, <3>1 DEF FailuresInv, OrderIsExact
  <2>8. i > pos
    <3>1. ~(i < pos)
      BY <1>1, <2>5, <2>7 DEF FailuresInv, GeneratedSoFar
    <3> QED
      BY <1>2, <2>5, <2>7, <3>1
  <2>9. CalledNames' = CalledNames
    BY <1>1 DEF CalledNames, Current
  <2>10. FailuresExplained'
    BY <1>1, <2>1, <2>3, <2>7, <2>8, <2>9 DEF FailuresExplained
  <2> QED
    BY <1>3, <2>10 DEF FailuresInv
<1> QED
  BY <1>4, <1>5

-----------------------------------------------------------------------------

\* The assertion of AddFunctionDecl fails only when the shared code is generated again
\* after a destruction, that of the generation of a call only for a callee that the text
\* declares after the caller, and only a second destruction deletes modules twice.
THEOREM FailuresCorrect == Spec => []FailuresExplained
<1>1. Init => FailuresInv
  BY InitFailures
<1>2. ApiInv /\ FailuresInv /\ [Next]_vars => FailuresInv'
  <2> SUFFICES ASSUME ApiInv, FailuresInv, [Next]_vars PROVE FailuresInv'
    OBVIOUS
  <2>1. CASE HostCall
    BY <2>1, FailuresHostCall
  <2>2. CASE ParseStep
    BY <2>2, FailuresDeclare, FailuresQuiet, FailuresEnd DEF ParseStep
  <2>3. CASE GenerateStep
    BY <2>3, FailuresFail, FailuresGenerate, FailuresEnd DEF GenerateStep
  <2>4. CASE UNCHANGED vars
    BY <2>4, FailuresQuiet
  <2> QED
    BY <2>1, <2>2, <2>3, <2>4 DEF Next
<1>3. FailuresInv => FailuresExplained
  BY DEF FailuresInv
<1> QED
  BY <1>1, <1>2, <1>3, ApiCorrect, PTL DEF Spec
=============================================================================
