# A TLA+ model of the KSC compiler

KSC (Kai's Shader Compiler) is a C++ library that compiles KSCL, a C-like shader
language, to LLVM IR and JITs single functions of it. Everything runs in the thread
of the caller, and nothing is persisted; what makes the code hard is not concurrency
but hand-written recursive descent with partial failure, look-ahead, raw ownership,
and basic blocks that are created in one place and inserted in another.

## 1. Inventory

| Part | Source | State | Operations |
|---|---|---|---|
| Tokenizer | `parser_tokenizer.cpp` | cursor, line, list of buffered tokens, last error | `Reset`, `PeekNextToken(i)`, `GetNextToken`, `IsEOF` |
| Parser and AST | `parser_AST_Gen.cpp` | the C++ stack, the open `CodeDomain`s, `mpCurrentFunc`, `mErrorMessages`, the AST nodes | `Parse`, `ParsePartial`, one `Parse*` per construct |
| Semantic checks | `parser_AST_Gen.cpp`, `parser_defines.cpp` | cached type of each node | `CheckSemantic` |
| Code generation | `LLVM_IR_Gen.cpp`, `IR_Gen_Context.cpp` | IR builder with its insertion point, chain of `CG_Context`s | `GenerateCode` of each node, `CompileToIR` |
| JIT wrapper, packing | `IR_Gen_Context.cpp` | none | `CreateFunctionWithPackedArguments`, `Convert*Packed` |
| Structure layout | `LLVM_IR_Gen.cpp`, `SC_API.cpp` | `KSC_StructDesc` | `ConvertToDescription`, the member functions |
| API and lifecycle | `SC_API.cpp`, `global_symbols.cpp` | the shared domain and context, the modules, the last error, the external symbols | `KSC_*` |
| Preprocessor | `parser_preprocess.cpp` | processed text | comments, line continuations, `#define` |

The API makes a `CompilingContext`, whose parser pulls tokens out of its tokenizer
and builds a `RootDomain`; `CompileToIR` walks the domain and emits into the one
LLVM module of the process; `KSC_GetFunctionPtr` verifies one function and asks the
execution engine for its address. The shared code of `KSC_Initialize` is parsed into
a domain that is the parent of every module's, so declarations are shared by
pointer. The preprocessor runs in front of the tokenizer, but what it produces is
thrown away (`parser_AST_Gen.cpp:40` resets the tokenizer to the original text).

What is hard, and what each part owes the others:

- *Tokenizer.* Patterns look up to three tokens ahead, then other patterns look at
  the same tokens again, and a scan that fails has already moved the cursor. The
  parser must see every token once, in order.
- *Parser.* There are more than forty error paths, some with a message, some
  without. After each of them the nodes, the open domains and `mpCurrentFunc` must
  be as the callers expect, and a reported error must reach `Parse`.
- *Code generation.* Blocks are created detached and inserted later, while nested
  statements move the insertion point. Each must be inserted once and end with one
  terminator, PHI nodes must name the true predecessors, and what runs must be what
  the source says.
- *Types and expressions.* `CheckSemantic` decides what is accepted, `GenerateCode`
  decides again what to emit, from types that were cached or not, and
  `CastValueType` knows fewer conversions than the checks allow. They owe each other
  well-typed IR, one evaluation of every effect, and an address wherever one is
  needed.
- *Structures and wrappers.* The layout of a structure is computed by LLVM and once
  more by hand for the host; arguments passed with `&` are copied in and out by two
  recursive functions that must be inverses of each other.
- *API.* Modules share the parsed shared code, a context, one LLVM module, one engine
  and an error string, and the host may call in any order.

`PROJECT.json` lists the hazards line by line with the properties that watch them.

## 2. Modules

| Module | What it is |
|---|---|
| `Lexemes` | the text as a sequence of lexemes; the token as a place and a line |
| `TokenStream` | abstract: what a parser may rely on, a plain stream without a buffer |
| `Tokenizer` | the tokenizer, one step per scanned lexeme; refines `TokenStream` |
| `TokenizerProofs` | the theorems about it |
| `Semantics` | reference meaning of function bodies, in C and in KSCL as compiled; `HasReturnExpForAllPaths` |
| `CodeGen` | emission of the blocks of one function, the verifier, and a run |
| `CodeGenProofs` | the theorems about it |
| `Sums`, `SumProofs` | sums over sequences, and what proofs need about sequences |
| `Parser` | the recursive-descent parser as a machine with an explicit stack |
| `ParserProofs` | the theorems about it |
| `KscApi` | the life of the library: initialise, compile modules, destroy; domains, contexts, handles |
| `KscApiProofs` | the theorems about it |
| `KscHost` | external functions and addresses, around and above `KscApi` |
| `KscHostProofs` | the theorems about it, and that it implements `KscApi` |
| `VarTypes` | the types, their tables, swizzles, `TypeInfo`, the LLVM types of values |
| `Values` | the instructions by the types of their operands, `CastValueType`, `CreateBinaryExpression` |
| `Expressions` | trees of expressions, what is accepted and what it is compiled to |
| `ExpressionsProofs` | the theorems about it |
| `StructLayout` | structures, their layout twice, and the host's access to members |
| `Packing` | the wrapper around a function and a call through it; extends `StructLayout` |
| `StructProofs` | the theorems about both |
| `MCTokenizer`, `MCCodeGen`, `MCParser`, `MCKscApi`, `MCKscHost`, `MCExpressions`, `MCStructs` | instances for TLC, and what compiled code means |

The dependencies are `VarTypes` <- `Values` <- `Expressions`, `VarTypes` <-
`StructLayout` <- `Packing`, and `KscApi` <- `KscHost`. The parser's tokens come from
`Lexemes`, the bodies of `CodeGen` from `Semantics`. `KscApi` takes from the parser
that a text is accepted or not, `KscHost` from `CodeGen` and `Packing` that a function
may be refused by the verifier (`RefuseFunction`).

### Tokenizer

`content`, `ptr`, `loc`, `buf`, `err` are the members of the class; `pc`, `op`,
`want` and `reply` are the call in progress. `taken` and `past` are history: how many
tokens were taken, and the last rejected lexeme that was skipped. Characters are
abstracted to lexemes of three kinds: a token, a line break, and something the
scanner rejects. `Reset` happens, as in `KSC_Initialize`, when the cursor is at the
end of the previous text; `mErrorMessage` survives it.

### Parser

The C++ call stack is the variable `stack`: a frame names the place where its call
goes on and counts the AST nodes the call owns. `Scan` is `PeekNextToken` with the
distance the place asks for (`Looks`); every other action is one step of one
function between two calls, with the tokens it takes, the nodes it makes or deletes,
the messages it adds and the result it returns. Tokens are chosen when they are
scanned, so the model parses every text that begins with one of `Openings` and goes
on for at most `MaxTokens` tokens. `live` is the number of `Expression` instances
since the parse began; what the calls own is a sum over the stack (`Sums`). An
`assert` that fails ends the run with its line in `failed`. `None` stands for no name,
and is assumed not to be an identifier (`NoneIsNoName`).

A domain of `scopes` holds its variables, structures and extern types, and its `kind`
is the `mExpAllowedFlag` of the function, structure or root it began with. A structure
is a domain of its own until its closing brace, then a type of the domain around it;
the definitions of a member, an argument and a variable are a type and the sign of
`arraySize`. Of an expression a call returns the nodes it has, the type its
`CheckSemantic` will find, and what `IsAssignable` will say.

Values are abstract, names are two identifiers, and the types are `int`, `bool`,
`void`, structures, extern types and arrays of them. An operator of each kind stands
for the others. What the types of vectors and floats add to the checks is in
`Expressions`.

### CodeGen

`work` is the stack of `GenerateCode` calls, `blocks` the basic blocks with their
instructions, `placed` the blocks that were inserted into the function, `cur` the
insertion point. A function is a tree of statements; `Lists` is the set of all lists of
statements in it, taken level by level up to `MaxNesting`, and the assumption
`BodiesAreLists` says that no function of `Functions` is nested deeper. When the
emission is done, `Verify` checks what
`llvm::verifyFunction` checks about blocks and PHI nodes (`WellFormed`, external),
and the machine code is run, with the outcome of each test chosen by TLC. The
verification models a function whose arguments need no packing; for a packed one
only the wrapper is verified (`SC_API.cpp:205`).

### KscApi

A text is a sequence of function declarations, chosen while it is parsed; everything
else in it is left out, since only functions outlive a module. `decl` and `order` are
`mDefinedFunctions` and `mExpressions` of the shared domain and of the module's,
`ctx` is `mFuncDecls` of their contexts, `calls` the declarations that the parser
resolved the calls of a body to, `linked` the functions that the generator found by
name, `handles` is `mFunctionDesc`. `unit` is the domain in work and `pos` the place
in it. An LLVM function is named by the domain that generated it, so two functions of
one name are told apart. `given` and `grown` are history: the functions a module's
text gave a body, and whether its parse left nodes in the shared domain (what the
leak assertion of a debug build sees). An assertion that fails, or a module that is
deleted twice, ends the run with its name in `phase`.

The host keeps the order the header asks for: it compiles after an initialisation
that succeeded, and initialises again only after a failure or after `KSC_Destory`.
How a text is accepted or rejected inside is the business of `Parser`; here
`ParseError` may reject it at any point, and the ways in which a rejected or
unfinished body leaves a declaration behind are actions of their own.

### KscHost

`KscHost` adds to the state of `KscApi` what the calls of the host touch: `externals`
is `mGlobalFuncSymbols`, `llvm` the functions of `TheModule`, `emitted` those in the
code the engine has made, `jit` those with an address in `pJIT_Func`. Its actions are
the actions of `KscApi` with what they do to these, and `KSC_AddExternalFunction`,
`KSC_GetFunctionPtr` and `RefuseFunction`, the request the verifier declines.

How the engine behaves is not in the repository, and is assumed of the LLVM 3.6 that
`IR_Gen_Context.cpp` is written against: MCJIT compiles a module once, at the first
`getFunctionAddress`, and whole; what is added to the module later has no address (`Found`);
a symbol without a body is sought in the memory manager by the name LLVM has for it,
and the process ends when it is not there; `Function::Create` gives a function another
name when its own is taken; the mapping that `LLVM_IR_Gen.cpp:162` adds is not
consulted by MCJIT. These are the definitions marked external.

### VarTypes, Values and Expressions

An expression is built from its leaves: `stack` holds the finished nodes that have no
parent yet, and each action makes one node of the topmost ones, as the recursive
descent does on its way back. A node is what later nodes can see of it: the
`TypeInfo` its `CheckSemantic` hands out and whether it was cached, what
`IsAssignable` answers, the type of the value `GenerateCode` yields, and what
`GetValuePtr` yields. Values are abstracted to their LLVM types; an instruction whose
operands do not fit yields `Ill`. `effects`, `once` and `visits` say how often a call
or an assignment in the source is generated.

`faults` lists the ways in which an accepted expression is known not to be compiled to
what it says; the names are in the comments of `CastFaults` and of each operator. The
list is the substance of the model: `TypeSound` and `AddressesExist` say that there
are no others, `FaultsAreReal` that each is one. In short: booleans are never converted
to numbers or back, a vector is not shortened to a scalar, a vector with too few
elements is not extended, a name in an initialiser is found to be another variable, the
type of a select is not cached, an operator hands on the
array size or assignability of its operand, an index with a call is evaluated twice by an
assignment, a swizzle of one element of a value without an address is a vector.

A select is only made as the right operand of another operator: on the left, the
parser makes a binary operator of the `?` and its check refuses it.

A name is looked up twice: the parser binds it to a variable of its domains, and the
generator asks its contexts for the name again. They find the same variable but in an
initialiser, since `Exp_VarDef::GenerateCode` enters the new variable before it generates
the initial value (`LLVM_IR_Gen.cpp:43`). `VariableRef(i, g)` is a reference to a variable
the parser took for an `i` and the generator finds to be a `g`. `Renamed` says which outer
and inner variables have one name, and `list` remembers that the tree is the initialiser
of a definition list of one type. When the two differ in type that is the fault `hidden`, and a
name given twice in one list, for which `NewVariable` has no address, the fault `again`.
When they are of one type the code is well typed, and reads the new variable before it has
a value; values are not modelled.

### StructLayout and Packing

Structures are chosen member by member, in the order of the source; a member's type
may be an earlier structure. `types` is what LLVM makes of them (`Lay`, external),
`descs` what `ConvertToDescription` computes. `memory` and `write` are the host's: the
structure it allocated and the bytes it set last. `names` are the names of a structure's
members as they are written: a list of definitions is checked before any of it is added,
so it may give a name twice, and then the two maps from names to members, that of the
domain and that of `Exp_StructDef`, are no longer what the host's description says.
What the code computes by recursion over nested structures (the packed sizes and types,
the walk along a dotted name, the leaves) is a function over the structures in the order
of the source: each one is made of earlier ones only.

In `Packing` a type is a member of `StructLayout`, and a value says of each leaf of its
type (a path to a part that is neither an array nor a structure) who wrote it: the
host, an argument's function side, nobody. The host may pass one buffer for two
arguments of the same type. The conversions are given by the leaves they store and by
whether the IR they emit is well typed; a wrapper that is not is refused, which is
what `KSC_GetFunctionPtr` does after `verifyFunction`. A function gives a leaf a value of
its own, or one extern member the value of another: it cannot look into an extern value,
but it can pass it on. What it reads is what it was given, a copy for an `&` argument and
the host's buffer for a `%` argument. `direct` is history: what the arguments
would hold if no reference was copied. The Windows build is modelled; the
branch of `_Aligned_Malloc` for GNU C does not compile.

## 3. Runs

| Run | Bounds | Shows |
|---|---|---|
| `tokenizer` | texts of up to three lexemes, lookahead 0..2 | the buffer, refinement of `TokenStream`, every call returns |
| `codegen` | all bodies of up to two statements nested twice; four tests | accepted by the verifier, no block lost, meaning as in `KSCL`, results initialised, runs end |
| `early_return` | bodies without loops | violated: a `return` does not end the function |
| `plain_return` | bodies with `return;` | violated: `return;` makes a function that cannot be JIT-ed |
| `parser` | sixteen openings, three more tokens of 29 | nothing freed twice, accepted texts leak nothing, the asserts that hold, `mpCurrentFunc` set while a body is read and no longer, errors final, termination |
| `trailing` | from the start of a text | violated: a text with an unread token is accepted |
| `api` | one intrinsic and two other names, two modules, three declarations per text, one callee per body, two destructions | links, failures, handles, what modules may do to the shared code |
| `isolation` | the same | violated: a body for a function of the shared code is not compiled |
| `host` | one intrinsic and two other names, one of which needs a wrapper, two modules, two declarations per text, one callee, one destruction | an address given out stays, what ends the process, what the code is linked to |
| `expressions` | five nodes, four of them open at a time; the types, functions and names in `MCExpressions.tla` | well-typed code of the announced type, effects once, addresses where needed, the list of faults exact |
| `structs` | two structures with three members in all, of five types, arrays of two; names of up to two parts (`MaxParts`); two writes by a function (`MaxWrites`) | offsets, lookups, packed sizes, refusals, what reaches the host's buffers, an address of the wrapper's frame among it |
| `member_offset` | the same | violated: the member the host sets is not the one the function reads |

The bounds are small because the hazards are. The buffer never holds more than three
tokens, so texts of three lexemes with resets between them reach every shape of it.
A branch that moves the insertion point needs one statement nested in another, and
two in sequence show what is emitted behind it. The openings of the parser run lead
to every kind of place (an argument list, the head and the body of a loop, each part
of an if, a select, a call with values and with references, an array size, a structure,
a member, a function over an extern type and an array); three more tokens then fail in
every way that place can fail.

Of the library, two modules show what one leaves for the next, a name of the built-in
text and two others give a caller and a callee that may be shared or not, three
declarations are what it takes to declare two functions and then define one of them,
and two destructions give a second session and what follows it. The module names are
symmetric, and so are the two names that are not in the built-in text; no liveness is
checked there.

The faults of expressions are faults of one node and the nodes below it: five nodes
give a leaf, an operator on it, and two uses of that, and every table of types is
walked in full by the types in scope. Offsets go wrong by a padded member or an
array in front of another, which three members show, alone or through a nested
structure; a second argument shows what aliasing does. `CopiedBack` and `LastCopyWins`
need a written leaf and no more, since a leaf is lost or kept whatever the others do.

Deadlock is not checked where the system really stops: a text is parsed once, a
function is compiled and run once, and the library ends with an assertion or when the
bounds are used up.

*Fairness.* `WF_vars(InCall)` and `WF_vars(Next)`: one thread executes straight-line
C++ without a lock, a wait or a callback, so a call that can go on goes on. Calls
from outside the tokenizer are not fair: a parser may stop asking.

## 4. Findings

Five of the runs end in a counterexample, each against a sentence of the repository;
`PROJECT.json` quotes them. In short: a `return` with a value does not leave the
function; `return;` in a void function makes a function that KSC can never JIT; a last
unread token is ignored; a module's body for a function that the shared code declares
is lost to the module and stays in the shared code; a member's address ignores padding
and arrays.

Things that were met while modelling and are part of the models:

- In the parser: `for (;` fails the assertion at `parser_AST_Gen.cpp:2258`, a missing
  right operand the one at 1213 (`AssertionsHold` says that no other fails);
  `int f() {` at the end of the text is accepted as a function without a body; the
  initial value of a variable that fails its check is dropped without a message; a
  call without arguments leaves its `)` behind; any token may end the then part of an
  if or be the name of an argument; a part without braces needs a second `;`; two
  prototypes are the same when they differ in `&` and `%`, or in what is an array; a
  structure without members ends the parse without a message, and is accepted as the
  last thing of a text;
  `extern x;` does not look for a variable or a structure of that name.
- In the tokenizer: a lexeme that it rejects is answered as the end of the text, and its
  own `mErrorMessage` is the only trace. `Parse` and `ParsePartial` never ask for it
  (`parser_AST_Gen.cpp:46`, 62): a text that ends in `1abc` is accepted, although
  `SC_API.h:123` says that bad syntax fails. It is the claim that the run `trailing`
  refutes, by another way to the same end; `Tokenizer` has the rejected lexemes and
  `TokenStream` says what is answered for them, the texts of `Parser` have none.
- In a structure: `T x, x;` is one name for two members, and the functions then see an
  index behind the members the host can name (`NamesAgree`). `SC_API.h:175` lets the
  host go down a nested structure by the `hStruct` that `KSC_GetStructMemberType` returns
  for a member that is one; the code walks to the end of the name without a type
  and answers `kInvalid` (`SC_API.cpp:300`). `NamesAgree` states what the code does.
- In the generator: `for` tests after its body (`CompiledMeaning` has it so); a
  function declared before its callee cannot be given a body behind it, the assertion
  at `LLVM_IR_Gen.cpp:436` fails (`FailuresExplained`); the faults of expressions. `float f(float x) { int x = x; return x; }`
  is accepted and converts an `int` as if it were a `float`, and in `int x = g(x)` a
  reference to a `float` is bound to the new `int` (the fault `hidden`).
- Through the API: no function that returns a bool can be JIT-ed; every second member
  is not copied back; when two `&` arguments are one buffer the later one's copy wins;
  a function can hand the host an address of the wrapper's dead frame, by copying an
  extern member of an `&` argument into a `%` argument (`OnlyFunctionsLeakPointers`
  says that this is the only way); if MCJIT is as assumed, a module compiled after the
  first address was asked for has no addresses, while `samples.cpp:47` compiles and asks
  in turns in one session, and calls what it gets (no property says it, as it follows
  from the assumption alone); external
  functions cannot be registered before `KSC_Initialize`, although `SC_API.h:116`
  asks for it; a registered function whose declaration LLVM has renamed is not found,
  and the process ends.

## 5. Proofs

`TokenizerProofs` proves for every set of texts and every lookahead, from the two
named assumptions of `Tokenizer` (texts are sequences of lexemes, the lookahead is a
natural number):

- `TypesCorrect`, `BufferCorrect`: `TypeOK` and `BufferIsNextTokens` are invariants. By
  themselves they are not inductive: that the buffer holds the next tokens depends on the cursor
  standing behind the last of them, on the line being that of the cursor, and on how
  a scanning loop can be left. `TokenizerInv` is their conjunction with
  `LineIsExact`, `LoopExit` and, for the answers of the abstract stream,
  `RejectedIsRemembered`; `TokenizerCorrect` proves it, one step per action,
  from lemmas that say how `TokensIn`, `LineAt` and `BadBetween` change by a lexeme.
- `TokenizerRefinesStream`: `Spec => Stream!StreamSpec`, each action of the
  tokenizer mapped to a step of the abstract stream or a stutter.

`ParserProofs` proves for every text, every set of identifiers and of openings, and
every bound on tokens, depth, declarations and errors:

- `ParserTypes`, `ParserFreesOnce`, `ParserLeaksNothing`, `ParserAsserts`,
  `ParserCurrentFunction`: the invariants of the run. None of them is inductive, since what a
  step does to `live` or `scopes` is right or wrong by what the calls further down have
  been promised. `IInv` adds the grammar of the stack: which place may wait for which
  call, what each of them owns and has opened while it waits, and that a call for a
  place ends with a value that place can take. On it rests the balance (`Balanced`): the
  nodes that the calls own, those in the open domains and those of the value on its way
  are together at most `live`, and exactly `live` as long as no error was reported.
  `NothingFreedTwice` leaves out the value on its way, so it does not survive the step
  that takes it. The asserts need what the domain of the head of a `for` holds when
  each of its parts is read (`HeadsOK`). Since a stack has any depth, `Sums`
  is a recursive function and `SumProofs` has what a push, a pop and the exchange of an
  element do to a sum. Steps are grouped by what they do to the stack: a call that goes
  on where it is, one that calls, one that opens a domain, one that adds to it, one that
  returns; each action is then an instance.
- `ParserErrorsAreFinal`: the action property `ErrorsAreFinal`, from the same invariant:
  every step that adds an item or a body stands behind a call that has succeeded, and a
  call in progress can only succeed when no error was reported.

`CodeGenProofs` proves for all functions, however long and nested (from
`BodiesAreLists`, which for a finite set of functions holds with any large enough
`MaxNesting`):

- `CodeGenNoBlockLost`, `CodeGenVerifierAccepts`, `CodeGenTypes`. While the walk goes on
  the function is unfinished, and the invariant is about how. `Shape`: the blocks that
  are not in the function are exactly those owed by a call in progress, each by one
  call, and they are still empty (so when the last call has returned none is missing);
  all branches and PHI edges lead to blocks that exist; the statements still to be
  walked are statements of the function. `Drawn`, when there is no `return;`: all blocks
  in the function but the insert block are ended, once and by their last instruction,
  and the insert block is open; a PHI has no edges or exactly the predecessors of its
  block; and the calls know what has been drawn already: nothing leads to an `ifcont`
  whose then part is being walked, exactly the block remembered as the then edge leads
  to one whose else part is, and the PHI of a loop has its first edge. With that each
  action closes one block and opens one (`Closes`). A `return;` breaks `Drawn` and not
  `Shape`. When the verifier has accepted, `WellFormed` alone keeps the run inside the
  function.
- `CompiledMeaning` and `ReturnIsInitialised` are model-checked only: they compare with
  reference definitions that are recursive over the statements.

`SumProofs` holds what both rest on: sums, and sequences taken apart at their ends.
Where induction over a length is needed it is taken from the least element of a set of
numbers (`WFMin` of the library), since the library's induction theorems cannot be
instantiated.

`ExpressionsProofs` proves for every set of variables, functions, structures, names
and types, and for trees of any size, from the named assumptions of `Expressions`
(declarations are of types the parser lets them have, a renamed variable is one in scope
and becomes one that can be defined with a value, structure names are not names of LLVM
elements):

- `ExpressionsTypeOK`, `ExpressionsTypeSound`, `ExpressionsAddressesExist`,
  `ExpressionsFaultsAreReal`. What is inductive is `IInv`, proved as `NodesAreInOrder`:
  `TypeOK`, and of every node on the stack `NodeOK`, `CachedOK` and `MarkOK`. The first
  two of these say more than the first three properties, because
  the value of the next node is made of the pointers and the cached types of the ones
  below: a node without faults that has a pointer is cached; a pointer that is not to
  an element points to a value of the announced type, one to an element points into a
  vector of such elements, and only a dot has it; variables and indexers have a
  pointer; a dot without one is a swizzle that cannot be assigned to; and a node that
  is not cached has no type to announce, since a select is taken up by the operator
  above it before the step ends. The proof has one lemma per kind of node, on the
  operators alone: given operands that are `NodeOK` and an accepted check, the node is
  `NodeOK`. They rest on lemmas about the tables (`MakeType`, casts without a fault,
  swizzles), which SMT takes from the numbering of the enumeration; the induction over
  the steps only takes nodes off the stack and puts one on.
- For the other direction, `MarkOK` says of a node what `FaultsAreReal` does, and that a
  node with an effect and a pointer has the effect on the way to the pointer (`visits`):
  this is why an assignment to it runs it twice. Again there is one lemma per kind of
  node. They rest on what a cast does not do: with a fault it does not yield the type
  that is asked for (`CastBad`); without the type of a select it does nothing, and two
  value types never share an LLVM type (`LLVMInjective`); and it neither takes an array
  apart nor makes one (`CastArray`, `CastFlat`). So the
  list of faults is proved complete (`TypeSound`) and exact, but for `wide`: what is
  left behind an array that is written past its end is open, and the property leaves
  it out.

`KscApiProofs` proves for every built-in text with at least one declaration and none
twice, any shared code, modules and bounds (the three named assumptions of `KscApi`):

- `LinksCorrect`: parser and generator agree on every call. What has to be known is
  the whole of `ApiInv`: a domain lists each declaration once and what it lists it
  declares; the calls of a body point to where the name is found from its domain and
  the name does not move while the domain lives (a name is looked up before it is
  added, so a module cannot come to shadow one that was resolved in the shared code);
  and a context holds only functions of its own domain, a module's only for names that
  the module declares.
- The shared context is the hard part, since it survives `KSC_Destory` and then holds
  functions of a shared code that is gone. `SharedIsCurrent` says that it holds only
  names that the shared domain declares once modules can be compiled, and
  `SharedStartsWithFirst` that a session after a destruction never gets that far: it
  stops at its first declaration, the first of the built-in text, which the context
  already holds. The invariant would
  not be inductive if the built-in text were empty, hence the assumption.
- `SharedCorrect`: the action property `SharedIsFixed`, from the same invariant, one
  step per action.
- `HandlesCorrect`: with `HandlesInv`, which says of the module in work which of its
  bodies are behind the place of generation, and of the others what they ended with.
- `ApiTypesCorrect`: `TypeOK`.
- `FailuresCorrect`: `FailuresExplained` is an invariant. To say that generation never
  stops at a definition met twice, nor at a callee that comes before its caller,
  `FailuresInv` follows what `KscApi` leaves implicit: `mExpressions` lists every
  declaration of a domain once (`OrderIsExact`); a context knows what stands before
  the place of generation and, save in a session after a destruction, nothing behind
  it (`GeneratedSoFar`, `BeforeGeneration`); and once modules can be compiled, every
  function of the shared code was generated (`SharedIsGenerated`), so only the
  module's own order can be at fault.

`KscHostProofs` proves, also for every set of functions the host may wrap and every
bound on its calls:

- `HostImplementsApi`: `HostSpec => Spec`, each step of the host being a step of
  `KscApi` or leaving its state alone; all theorems about `KscApi` hold for the host.
- `HostTypesCorrect`, `AddressesCorrect`, `AbortsCorrect`, `LinkedCorrect`. `HostInv` relates
  the contexts to the LLVM module. The shared context survives `KSC_Destory` and the LLVM
  module does not, so what it knows is in the module only once the generation of the
  shared code is under way (`ContextsHaveCode`); a new function cannot be called by one
  that is there already, since calls go to functions that are there (`CallsHaveCode`);
  what has an address has a handle (`AddressesHaveHandles`), and no step but
  `KSC_Destory` takes one away; and a declaration that
  lost its name lost it to a function that is still there (`RenamedForAnother`), which
  is why an abort over it can be explained afterwards.

`StructProofs` proves, for every table of sizes and alignments in which a size is a
multiple of its alignment, for structures of any number of members nested in any depth,
and for all functions over them (`LayoutAssumption`, `FunctionsAssumption`), all nine
properties of the run `structs`. The inductive invariant `IInv` is `LayoutInv` and
`CallInv`, one part for each half of the state:

- `LayoutInv`: members are of structures that came before; each structure that was
  generated has the layout and the description that its elements give (`Described`);
  and what the host has set is an element by the last of its names, from where the host
  was told it is and no further than its size (`MemoryInv`). `Described` is what makes the
  properties statements about one structure and the ones below it.
- `OffsetsAreExact`, `WritesAreContained`: a member's end as the host is told is never
  behind its end as LLVM lays it out. The induction is over the members; equality is lost
  at the first array or padding and never regained, since the told offset only falls
  further behind.
- `NamesAreAgreed`: a lookup of a dotted name can only end at a member that is not a
  structure, and only `KSC_GetStructMemberType` gets beyond the first part. A name given
  twice leaves fewer names than definitions, so the last definition is cut off, and its
  index is behind the end (`IsInjective`, by cardinalities).
- `PackedSizesAreExact`: for each structure the told size, the sum of its leaves and the
  size the wrapper reads are compared member by member, the inner structures by the
  induction over their order; rounding up adds nothing when all alignments below are
  four and all sizes multiples of four, which only a pointer breaks.
- `RefusalsAreForBooleans`, `EvenLeavesAreCopiedBack`, `LastCopyIsKept`,
  `OnlyFunctionsLeak`: with `CallInv`. The stored leaves are exactly those whose path has
  only even numbers (`StoredAreEven`), whatever the type. `Contents` then follows each
  leaf through the call: a buffer holds what the host put there until the loop reaches an
  argument that is bound to it, thereafter the copy of the last such argument
  (`LastIs`); the copy of an argument that is alone in its buffer is what a reference
  would see (`CopyIs`, `AloneIs`); where the loop skips, the buffer of an `&` argument stays what it was
  (`BufferIs`); and an address of the wrapper's frame is in extern leaves only, of copies or
  where the function has put it in a `%` argument (`PointerIs`), since a wrapper that
  would store an extern leaf was refused.

The recursive functions in these definitions are over `1..n`, and each is determined by
its smaller values (`LooksBack`, `Recursion`). With `StrongInduction`, which is taken from
the least element of a set, this replaces the induction theorems that cannot be used.

Model-checked only:

- `CompiledMeaning` and `ReturnIsInitialised`: they compare with reference definitions
  that are recursive over the statements, which is induction over data.
- All liveness: that every call of the tokenizer returns (`CallsReturn`), that every
  parse ends (`ParseEnds`) and that every run ends with its loops (`RunEnds`). `ENABLED`
  and fairness are out of the prover's reach.

## 6. Not modelled

- How characters make a token, and the texts of errors; the error string of the API,
  which only `KSC_Compile` sets.
- The numbers that run-time values are, and LLVM's optimisations. LLVM itself is what
  the external definitions say: the types of instructions, `verifyFunction`,
  `StructLayout`, MCJIT.
- A shared domain around the one `Parser` parses: which declarations are found there,
  and what a rejected text leaves in it, is in `KscApi`.
- In `KscApi`, an `InitializeCodeGen` that fails, after which nothing was parsed, and the
  function without arguments that is begun by the last token of a text and accepted
  without a body.
- Negative sizes: the sizes the host passes are natural numbers in `StructLayout`, while
  `KSC_SetStructMemberData` takes the smaller of two signed ones (`SC_API.cpp:366`), so a
  negative size would become a very large one for `memcpy`; `WritesStayInside` is about
  the others.
- What an initialiser reads when its name is that of the variable it initialises and the
  types agree: an undefined value, well typed.
- Constant strings: `Exp_ConstString` is a node that no parser function makes.
- `KSC_CompileFile`, which reads a file and calls `KSC_Compile`, and the queries that
  only read a description. Wrappers that the verifier refused stay in the LLVM module;
  what the engine makes of them is undefined and left out.
- The preprocessor: its results are thrown away (`parser_AST_Gen.cpp:40`).
- `DLL_Main.cpp`, the samples and the project files have no state.
