----------------------------- MODULE Tokenizer -----------------------------
(***************************************************************************)
(* The tokenizer of the KSC front end (src/src/parser_tokenizer.cpp): a    *)
(* cursor into the text, the line it is on, and the list of the tokens     *)
(* that were scanned ahead of the parser.                                  *)
(*                                                                         *)
(* A call is made of the iterations of the loops of PeekNextToken and      *)
(* ScanForToken: a step of the model scans one lexeme.                     *)
(***************************************************************************)
EXTENDS Lexemes

CONSTANTS Texts,     \* the texts the tokenizer is reset to
          MaxPeek    \* the parser looks at most this many tokens past the next

ASSUME TextsAssumption == Texts \subseteq Seq(LexemeKinds)
ASSUME MaxPeekAssumption == MaxPeek \in Nat

VARIABLES content,  \* mContentPtr
          ptr,      \* mCurParsingPtr, as the index of the next lexeme
          loc,      \* mCurParsingLOC
          buf,      \* mBufferedToken
          err,      \* whether mErrorMessage is not empty
          pc,       \* idle, in the scanning loop, or how the loop was left
          op,       \* PeekNextToken or GetNextToken
          want,     \* next_i
          reply,    \* the token the last call returned
          taken,    \* history: tokens erased from the buffer for this text
          past      \* history: the last bad lexeme skipped in this text

vars == <<content, ptr, loc, buf, err, pc, op, want, reply, taken, past>>

Stream == INSTANCE TokenStream WITH
            text  <- content,
            dirty <- err,
            busy  <- IF pc = "idle" THEN "idle"
                     ELSE IF pc = "tripped" THEN "failing" ELSE "asked"

IsEOF == ptr > Len(content)

\* The constructor leaves an empty text; the first Reset is that of
\* CompilingContext::Parse or ParsePartial.
Init ==
    /\ content \in Texts
    /\ ptr = 1
    /\ loc = 1
    /\ buf = <<>>
    /\ err = FALSE
    /\ pc = "idle"
    /\ op = "peek"
    /\ want = 0
    /\ reply = NoToken("EOF")
    /\ taken = 0
    /\ past = 0

\* Mutant of Reset: the tokens scanned ahead in the old text are kept.
ResetKeepsBuffer(c) ==
    /\ pc = "idle" /\ IsEOF
    /\ content' = c /\ ptr' = 1 /\ loc' = 1 /\ taken' = 0 /\ past' = 0
    /\ UNCHANGED <<buf, err, pc, op, want, reply>>

\* Mutant of Reset: the cursor stays where the old text ended.
ResetKeepsCursor(c) ==
    /\ pc = "idle" /\ IsEOF
    /\ content' = c /\ loc' = 1 /\ buf' = <<>> /\ taken' = 0 /\ past' = 0
    /\ UNCHANGED <<ptr, err, pc, op, want, reply>>

\* KSC_Initialize parses the shared code with the tokenizer that has read the
\* intrinsics: Reset comes when IsEOF holds.  mErrorMessage is not cleared.
Reset(c) ==
    /\ pc = "idle"
    /\ IsEOF
    /\ content' = c
    /\ ptr' = 1
    /\ loc' = 1
    /\ buf' = <<>>
    /\ taken' = 0
    /\ past' = 0
    /\ UNCHANGED <<err, pc, op, want, reply>>

\* A call scans only when the buffer does not reach as far as it looks.
Call(o, i) ==
    /\ pc = "idle"
    /\ pc' = IF Len(buf) > i THEN "found" ELSE "scan"
    /\ op' = o
    /\ want' = i
    /\ UNCHANGED <<content, ptr, loc, buf, err, reply, taken, past>>

PeekNextToken(i) == Call("peek", i)
GetNextToken     == Call("get", 0)

AtLexeme(kind) == pc = "scan" /\ ptr <= Len(content) /\ content[ptr] = kind

SkipBlank ==
    /\ AtLexeme("nl")
    /\ ptr' = ptr + 1
    /\ loc' = loc + 1
    /\ UNCHANGED <<content, buf, err, pc, op, want, reply, taken, past>>

ScanToken ==
    /\ AtLexeme("tok")
    /\ buf' = Append(buf, Token(ptr, loc))
    /\ ptr' = ptr + 1
    /\ pc' = IF Len(buf) + 1 > want THEN "found" ELSE "scan"
    /\ UNCHANGED <<content, loc, err, op, want, reply, taken, past>>

\* The rejected text is behind the cursor: the next scan goes on after it.
ScanBad ==
    /\ AtLexeme("bad")
    /\ ptr' = ptr + 1
    /\ err' = TRUE
    /\ pc' = "tripped"
    /\ past' = ptr
    /\ UNCHANGED <<content, loc, buf, op, want, reply, taken>>

\* Mutant of ScanEnd: the loop goes on when nothing is left to scan.
ScanEndGoesOn == pc = "scan" /\ IsEOF /\ UNCHANGED vars

ScanEnd ==
    /\ pc = "scan"
    /\ IsEOF
    /\ pc' = "ended"
    /\ UNCHANGED <<content, ptr, loc, buf, err, op, want, reply, taken, past>>

\* Mutant of ReturnToken: the last token that was buffered is returned.
ReturnLastToken ==
    /\ pc = "found" /\ pc' = "idle"
    /\ reply' = buf[Len(buf)]
    /\ buf' = IF op = "get" THEN Tail(buf) ELSE buf
    /\ taken' = IF op = "get" THEN taken + 1 ELSE taken
    /\ UNCHANGED <<content, ptr, loc, err, op, want, past>>

ReturnToken ==
    /\ pc = "found"
    /\ reply' = buf[want + 1]
    /\ buf' = IF op = "get" THEN Tail(buf) ELSE buf
    /\ taken' = IF op = "get" THEN taken + 1 ELSE taken
    /\ pc' = "idle"
    /\ UNCHANGED <<content, ptr, loc, err, op, want, past>>

ReturnNone ==
    /\ pc \in {"tripped", "ended"}
    /\ reply' = NoToken(IF err THEN "Invalid" ELSE "EOF")
    /\ pc' = "idle"
    /\ UNCHANGED <<content, ptr, loc, buf, err, op, want, taken, past>>

InCall == SkipBlank \/ ScanToken \/ ScanBad \/ ScanEnd \/ ReturnToken \/ ReturnNone

Next ==
    \/ \E c \in Texts : Reset(c)
    \/ \E i \in 0..MaxPeek : PeekNextToken(i)
    \/ GetNextToken
    \/ InCall

Spec == Init /\ [][Next]_vars

\* A call runs to its end: the code has no point at which it could wait.
FairSpec == Spec /\ WF_vars(InCall)

Tokens == [is : {"token"}, at : Nat, loc : Nat]

\* The types of the variables.
TypeOK ==
    /\ content \in Texts
    /\ ptr \in 1..(Len(content) + 1)
    /\ loc \in Nat \ {0}
    /\ buf \in Seq(Tokens)
    /\ err \in BOOLEAN
    /\ pc \in {"idle", "scan", "found", "tripped", "ended"}
    /\ op \in {"peek", "get"}
    /\ want \in 0..MaxPeek
    /\ reply \in Tokens \union {NoToken("EOF"), NoToken("Invalid")}
    /\ taken \in Nat
    /\ past \in 0..(ptr - 1)

(***************************************************************************)
(* The buffer holds the tokens between those that were taken and the       *)
(* cursor, each once, in order and with its line: the k-th buffered token  *)
(* is token number taken + k of the text, and the cursor stands after      *)
(* token number taken + Len(buf).                                          *)
(***************************************************************************)
BufferIsNextTokens ==
    /\ \A k \in 1..Len(buf) :
          /\ buf[k].at < ptr
          /\ content[buf[k].at] = "tok"
          /\ TokensIn(content, buf[k].at) = taken + k
          /\ buf[k].loc = LineAt(content, buf[k].at)
    /\ TokensIn(content, ptr - 1) = taken + Len(buf)

\* The line of the next token counts every line break behind the cursor.
LineIsExact == loc = LineAt(content, ptr - 1)

\* A rejected lexeme behind the cursor has left its message in the tokenizer.  This
\* is what ReturnNone answers with; the parser never asks for the message and takes
\* a text that ends in such a lexeme for one that was read to its end.
RejectedIsRemembered ==
    /\ (\E j \in 1..(ptr - 1) : content[j] = "bad") => err
    /\ ~BadBetween(content, past, ptr - 1)
    /\ past > 0 => content[past] = "bad"

\* The loop is left with "found" only when the buffer reaches far enough, and
\* otherwise at a rejected lexeme or at the end of the text.
LoopExit ==
    /\ pc \in {"scan", "tripped", "ended"} => Len(buf) <= want
    /\ pc = "found" => Len(buf) > want
    /\ pc = "ended" => IsEOF
    /\ pc = "tripped" => err /\ past = ptr - 1 /\ past > 0
    /\ op = "get" => want = 0

TokenizerInv ==
    /\ TypeOK
    /\ BufferIsNextTokens
    /\ LineIsExact
    /\ RejectedIsRemembered
    /\ LoopExit

\* Every answer of PeekNextToken and GetNextToken is the one TokenStream
\* promises: looking ahead is invisible to whoever takes the tokens.
LookaheadIsTransparent == Stream!StreamSpec

\* Every call of the tokenizer returns: the skipping and scanning loops end.
CallsReturn == (pc # "idle") ~> (pc = "idle")
=============================================================================
