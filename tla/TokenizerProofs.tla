-------------------------- MODULE TokenizerProofs --------------------------
(***************************************************************************)
(* The tokenizer keeps its invariant and implements TokenStream, for every *)
(* set of texts and every lookahead distance.                              *)
(***************************************************************************)
EXTENDS Tokenizer, FiniteSetTheorems, TLAPS

LEMMA PositionsFinite ==
  ASSUME NEW c, NEW kind, NEW p \in Nat
  PROVE  /\ IsFiniteSet(Positions(c, kind, p))
         /\ Cardinality(Positions(c, kind, p)) \in Nat
<1>1. IsFiniteSet(1..p)
  BY FS_Interval
<1>2. Positions(c, kind, p) \subseteq 1..p
  BY DEF Positions
<1> QED
  BY <1>1, <1>2, FS_Subset, FS_CardinalityType

\* Counting over no lexeme at all gives none.
LEMMA PositionsNone ==
  ASSUME NEW c, NEW kind
  PROVE  Cardinality(Positions(c, kind, 0)) = 0
<1>1. Positions(c, kind, 0) = {}
  BY DEF Positions
<1> QED
  BY <1>1, FS_EmptySet

\* One more lexeme adds one to the count of its own kind and to no other.
LEMMA PositionsStep ==
  ASSUME NEW c \in Seq(LexemeKinds), NEW kind, NEW p \in 1..Len(c)
  PROVE  Cardinality(Positions(c, kind, p)) =
           Cardinality(Positions(c, kind, p - 1))
             + (IF c[p] = kind THEN 1 ELSE 0)
<1> DEFINE P(n) == Positions(c, kind, n)
<1>0. p \in Nat /\ p - 1 \in Nat /\ Len(c) \in Nat
  OBVIOUS
<1>1. IsFiniteSet(P(p - 1)) /\ Cardinality(P(p - 1)) \in Nat
  BY <1>0, PositionsFinite
<1>2. CASE c[p] = kind
  <2>1. P(p) = P(p - 1) \union {p}
    BY <1>0, <1>2 DEF Positions
  <2>2. p \notin P(p - 1)
    BY <1>0 DEF Positions
  <2> QED
    BY <1>1, <1>2, <2>1, <2>2, FS_AddElement
<1>3. CASE c[p] # kind
  <2>1. P(p) = P(p - 1)
    BY <1>0, <1>3 DEF Positions
  <2> QED
    BY <1>1, <1>3, <2>1
<1> QED
  BY <1>2, <1>3

\* The two counts the invariant uses, one lexeme further.
LEMMA CountStep ==
  ASSUME NEW c \in Seq(LexemeKinds), NEW p \in 1..Len(c)
  PROVE  /\ TokensIn(c, p - 1) \in Nat
         /\ LineAt(c, p - 1) \in Nat
         /\ c[p] = "tok" => /\ TokensIn(c, p) = TokensIn(c, p - 1) + 1
                            /\ LineAt(c, p) = LineAt(c, p - 1)
         /\ c[p] = "nl"  => /\ TokensIn(c, p) = TokensIn(c, p - 1)
                            /\ LineAt(c, p) = LineAt(c, p - 1) + 1
         /\ c[p] = "bad" => /\ TokensIn(c, p) = TokensIn(c, p - 1)
                            /\ LineAt(c, p) = LineAt(c, p - 1)
<1> DEFINE toks(n) == Cardinality(Positions(c, "tok", n))
           nls(n)  == Cardinality(Positions(c, "nl", n))
<1>1. p - 1 \in Nat
  OBVIOUS
<1>2. toks(p - 1) \in Nat /\ nls(p - 1) \in Nat
  BY <1>1, PositionsFinite
<1>3. /\ toks(p) = toks(p - 1) + (IF c[p] = "tok" THEN 1 ELSE 0)
      /\ nls(p) = nls(p - 1) + (IF c[p] = "nl" THEN 1 ELSE 0)
  BY PositionsStep
<1>4. /\ TokensIn(c, p) = toks(p) /\ TokensIn(c, p - 1) = toks(p - 1)
      /\ LineAt(c, p) = 1 + nls(p) /\ LineAt(c, p - 1) = 1 + nls(p - 1)
  BY DEF TokensIn, LineAt
<1> HIDE DEF toks, nls
<1> QED
  BY <1>2, <1>3, <1>4

LEMMA CountNone ==
  ASSUME NEW c
  PROVE  TokensIn(c, 0) = 0 /\ LineAt(c, 0) = 1
BY PositionsNone DEF TokensIn, LineAt

-----------------------------------------------------------------------------

LEMMA InitInv == Init => TokenizerInv
<1> SUFFICES ASSUME Init PROVE TokenizerInv
  OBVIOUS
<1>1. content \in Seq(LexemeKinds) /\ Len(content) \in Nat
  BY TextsAssumption DEF Init
<1>2. TypeOK
  <2>1. /\ content \in Texts /\ ptr \in 1..(Len(content) + 1)
        /\ loc \in Nat \ {0} /\ want \in 0..MaxPeek
        /\ taken \in Nat /\ past \in 0..(ptr - 1)
    BY <1>1, MaxPeekAssumption DEF Init
  <2>2. buf \in Seq(Tokens)
    BY DEF Init
  <2>3. /\ err \in BOOLEAN
        /\ pc \in {"idle", "scan", "found", "tripped", "ended"}
        /\ op \in {"peek", "get"}
        /\ reply \in Tokens \union {NoToken("EOF"), NoToken("Invalid")}
    BY Zenon DEF Init
  <2> QED
    BY <2>1, <2>2, <2>3 DEF TypeOK
<1>3. BufferIsNextTokens /\ LineIsExact /\ RejectedIsRemembered /\ LoopExit
  BY <1>1, CountNone
     DEF Init, BufferIsNextTokens, LineIsExact, RejectedIsRemembered, LoopExit,
         BadBetween
<1> QED
  BY <1>2, <1>3 DEF TokenizerInv

LEMMA NextInv == TokenizerInv /\ [Next]_vars => TokenizerInv'
<1> SUFFICES ASSUME TokenizerInv, [Next]_vars PROVE TokenizerInv'
  OBVIOUS
<1> USE DEF TokenizerInv
<1>0. /\ content \in Seq(LexemeKinds)
      /\ Len(content) \in Nat
      /\ Len(buf) \in Nat
      /\ ptr \in Nat /\ past \in Nat /\ want \in Nat /\ taken \in Nat
      /\ MaxPeek \in Nat
  BY TextsAssumption, MaxPeekAssumption DEF TypeOK
<1>b. \A k \in 1..Len(buf) : buf[k].at \in Nat
  <2>1. \A k \in 1..Len(buf) : buf[k] \in Tokens
    BY DEF TypeOK
  <2> QED
    BY <2>1 DEF Tokens
<1>1. ASSUME NEW c \in Texts, Reset(c) PROVE TokenizerInv'
  <2>1. c \in Seq(LexemeKinds) /\ Len(c) \in Nat
    BY TextsAssumption
  <2>2. TypeOK'
    BY <1>1, <2>1 DEF Reset, TypeOK
  <2>3. BufferIsNextTokens' /\ LineIsExact' /\ RejectedIsRemembered' /\ LoopExit'
    BY <1>1, <2>1, CountNone
       DEF Reset, BufferIsNextTokens, LineIsExact, RejectedIsRemembered, LoopExit,
           BadBetween
  <2> QED
    BY <2>2, <2>3
<1>2. ASSUME NEW o \in {"peek", "get"}, NEW i \in 0..MaxPeek, Call(o, i),
             o = "get" => i = 0
      PROVE  TokenizerInv'
  <2>1. TypeOK'
    BY <1>0, <1>2 DEF Call, TypeOK
  <2>2. BufferIsNextTokens' /\ LineIsExact' /\ RejectedIsRemembered' /\ LoopExit'
    BY <1>0, <1>2 DEF Call, BufferIsNextTokens, LineIsExact, RejectedIsRemembered,
                      LoopExit, IsEOF
  <2> QED
    BY <2>1, <2>2
<1>3. ASSUME NEW i \in 0..MaxPeek, PeekNextToken(i) PROVE TokenizerInv'
  BY <1>2, <1>3 DEF PeekNextToken
<1>4. CASE GetNextToken
  BY <1>0, <1>2, <1>4 DEF GetNextToken
<1>5. CASE SkipBlank
  <2>1. /\ ptr \in 1..Len(content) /\ content[ptr] = "nl" /\ pc = "scan"
        /\ ptr' = ptr + 1 /\ loc' = loc + 1
    BY <1>5 DEF SkipBlank, AtLexeme, TypeOK
  <2>2. TypeOK'
    BY <1>0, <1>5, <2>1 DEF SkipBlank, TypeOK
  <2>3. BufferIsNextTokens' /\ LineIsExact'
    <3>1. /\ ptr' - 1 = ptr
          /\ TokensIn(content, ptr) = TokensIn(content, ptr - 1)
          /\ LineAt(content, ptr) = LineAt(content, ptr - 1) + 1
      BY <1>0, <2>1, CountStep
    <3> QED
      BY <1>0, <1>b, <1>5, <2>1, <3>1
         DEF SkipBlank, BufferIsNextTokens, LineIsExact
  <2>4. RejectedIsRemembered' /\ LoopExit'
    BY <1>0, <1>5, <2>1
       DEF SkipBlank, RejectedIsRemembered, LoopExit, BadBetween
  <2> QED
    BY <2>2, <2>3, <2>4
<1>6. CASE ScanToken
  <2> DEFINE tok == Token(ptr, loc)
  <2>1. /\ ptr \in 1..Len(content) /\ content[ptr] = "tok" /\ pc = "scan"
        /\ ptr' = ptr + 1 /\ buf' = Append(buf, tok)
    BY <1>6 DEF ScanToken, AtLexeme, TypeOK
  <2>2. tok \in Tokens /\ tok.at = ptr /\ tok.loc = loc
    BY <1>0 DEF Tokens, Token, TypeOK
  <2>3. TypeOK'
    BY <1>0, <1>6, <2>1, <2>2 DEF ScanToken, TypeOK
  <2>4. /\ Len(buf') = Len(buf) + 1
        /\ \A k \in 1..Len(buf) : buf'[k] = buf[k]
        /\ buf'[Len(buf) + 1] = tok
    BY <2>1, <2>2 DEF TypeOK
  <2>5. /\ TokensIn(content, ptr) = taken + Len(buf) + 1
        /\ LineAt(content, ptr) = loc
    BY <1>0, <2>1, CountStep DEF BufferIsNextTokens, LineIsExact
  <2>6. BufferIsNextTokens'
    <3>1. ptr' - 1 = ptr /\ taken' = taken /\ content' = content
      BY <1>0, <1>6, <2>1 DEF ScanToken
    <3>2. ASSUME NEW k \in 1..Len(buf)
          PROVE  /\ buf'[k].at < ptr'
                 /\ content[buf'[k].at] = "tok"
                 /\ TokensIn(content, buf'[k].at) = taken + k
                 /\ buf'[k].loc = LineAt(content, buf'[k].at)
      <4>1. buf'[k] = buf[k]
        BY <2>4
      <4>2. /\ buf[k].at < ptr
            /\ content[buf[k].at] = "tok"
            /\ TokensIn(content, buf[k].at) = taken + k
            /\ buf[k].loc = LineAt(content, buf[k].at)
        BY DEF BufferIsNextTokens
      <4>3. buf[k].at < ptr'
        BY <1>0, <1>b, <2>1, <4>2
      <4> QED
        BY <4>1, <4>2, <4>3
    <3>3. /\ buf'[Len(buf) + 1].at < ptr'
          /\ content[buf'[Len(buf) + 1].at] = "tok"
          /\ TokensIn(content, buf'[Len(buf) + 1].at) = taken + Len(buf) + 1
          /\ buf'[Len(buf) + 1].loc = LineAt(content, buf'[Len(buf) + 1].at)
      BY <1>0, <2>1, <2>2, <2>4, <2>5
    <3>4. \A k \in 1..Len(buf') : k \in 1..Len(buf) \/ k = Len(buf) + 1
      BY <1>0, <2>4
    <3>5. taken + (Len(buf) + 1) = taken + Len(buf) + 1
      BY <1>0
    <3> QED
      BY <2>4, <2>5, <3>1, <3>2, <3>3, <3>4, <3>5 DEF BufferIsNextTokens
  <2>7. LineIsExact'
    BY <1>0, <1>6, <2>1, <2>5 DEF ScanToken, LineIsExact
  <2>8. RejectedIsRemembered' /\ LoopExit'
    BY <1>0, <1>6, <2>1, <2>4
       DEF ScanToken, RejectedIsRemembered, LoopExit, BadBetween
  <2> QED
    BY <2>3, <2>6, <2>7, <2>8
<1>7. CASE ScanBad
  <2>1. /\ ptr \in 1..Len(content) /\ content[ptr] = "bad" /\ pc = "scan"
        /\ ptr' = ptr + 1 /\ past' = ptr
    BY <1>7 DEF ScanBad, AtLexeme, TypeOK
  <2>2. TypeOK'
    BY <1>0, <1>7, <2>1 DEF ScanBad, TypeOK
  <2>3. BufferIsNextTokens' /\ LineIsExact'
    <3>1. /\ ptr' - 1 = ptr
          /\ TokensIn(content, ptr) = TokensIn(content, ptr - 1)
          /\ LineAt(content, ptr) = LineAt(content, ptr - 1)
      BY <1>0, <2>1, CountStep
    <3> QED
      BY <1>0, <1>b, <1>7, <2>1, <3>1 DEF ScanBad, BufferIsNextTokens, LineIsExact
  <2>4. RejectedIsRemembered' /\ LoopExit'
    BY <1>0, <1>7, <2>1
       DEF ScanBad, RejectedIsRemembered, LoopExit, BadBetween
  <2> QED
    BY <2>2, <2>3, <2>4
<1>8. CASE ScanEnd
  <2>1. TypeOK'
    BY <1>8 DEF ScanEnd, TypeOK
  <2>2. BufferIsNextTokens' /\ LineIsExact' /\ RejectedIsRemembered' /\ LoopExit'
    BY <1>8 DEF ScanEnd, BufferIsNextTokens, LineIsExact, RejectedIsRemembered,
                LoopExit, IsEOF
  <2> QED
    BY <2>1, <2>2
<1>9. CASE ReturnToken
  <2>1. Len(buf) > want /\ buf # <<>>
    BY <1>0, <1>9 DEF ReturnToken, LoopExit
  <2>2. CASE op = "peek"
    <3>1. TypeOK'
      BY <1>0, <1>9, <2>1, <2>2 DEF ReturnToken, TypeOK
    <3> QED
      BY <1>9, <2>2, <3>1
         DEF ReturnToken, BufferIsNextTokens, LineIsExact, RejectedIsRemembered,
             LoopExit, IsEOF
  <2>3. CASE op = "get"
    <3>1. /\ buf' = Tail(buf) /\ taken' = taken + 1
          /\ Len(buf') = Len(buf) - 1
          /\ \A k \in 1..Len(buf') : buf'[k] = buf[k + 1] /\ k + 1 \in 1..Len(buf)
      BY <1>0, <1>9, <2>1, <2>3 DEF ReturnToken, TypeOK
    <3>2. TypeOK'
      BY <1>0, <1>9, <2>1, <2>3, <3>1 DEF ReturnToken, TypeOK
    <3>3. BufferIsNextTokens'
      <4>1. \A k \in 1..Len(buf') : taken + (k + 1) = taken' + k
        BY <1>0, <3>1
      <4>2. Len(buf') \in Nat /\ taken + Len(buf) = taken' + Len(buf')
        BY <1>0, <2>1, <3>1
      <4>3. content' = content /\ ptr' = ptr
        BY <1>9 DEF ReturnToken
      <4> QED
        BY <3>1, <4>1, <4>2, <4>3 DEF BufferIsNextTokens
    <3> QED
      BY <1>9, <3>2, <3>3
         DEF ReturnToken, LineIsExact, RejectedIsRemembered, LoopExit, IsEOF
  <2> QED
    BY <2>2, <2>3 DEF TypeOK
<1>10. CASE ReturnNone
  <2>1. TypeOK'
    BY <1>10 DEF ReturnNone, TypeOK
  <2>2. BufferIsNextTokens' /\ LineIsExact' /\ RejectedIsRemembered' /\ LoopExit'
    BY <1>10 DEF ReturnNone, BufferIsNextTokens, LineIsExact,
                 RejectedIsRemembered, LoopExit, IsEOF
  <2> QED
    BY <2>1, <2>2
<1>11. CASE UNCHANGED vars
  BY <1>11 DEF vars, TypeOK, BufferIsNextTokens, LineIsExact,
               RejectedIsRemembered, LoopExit, IsEOF
<1> QED
  BY <1>1, <1>3, <1>4, <1>5, <1>6, <1>7, <1>8, <1>9, <1>10, <1>11 DEF Next, InCall

\* The tokenizer's invariant holds of every behaviour, whatever the texts.
THEOREM TokenizerCorrect == Spec => []TokenizerInv
<1>1. Init => TokenizerInv
  BY InitInv
<1>2. TokenizerInv /\ [Next]_vars => TokenizerInv'
  BY NextInv
<1> QED
  BY <1>1, <1>2, PTL DEF Spec

\* The variables keep their types.
THEOREM TypesCorrect == Spec => []TypeOK
<1>1. TokenizerInv => TypeOK
  BY DEF TokenizerInv
<1> QED
  BY <1>1, TokenizerCorrect, PTL

\* mBufferedToken holds exactly the tokens between the ones GetNextToken handed
\* over and mCurParsingPtr, in order and with their lines.
THEOREM BufferCorrect == Spec => []BufferIsNextTokens
<1>1. TokenizerInv => BufferIsNextTokens
  BY DEF TokenizerInv
<1> QED
  BY <1>1, TokenizerCorrect, PTL

-----------------------------------------------------------------------------

\* The instance of TokenStream counts as this module does.
LEMMA SameCounts ==
  /\ \A c, p : Stream!TokensIn(c, p) = TokensIn(c, p)
  /\ \A c, p : Stream!LineAt(c, p) = LineAt(c, p)
  /\ \A c, lo, hi : Stream!BadBetween(c, lo, hi) = BadBetween(c, lo, hi)
  /\ \A p, l : Stream!Token(p, l) = Token(p, l)
  /\ \A f : Stream!NoToken(f) = NoToken(f)
<1>1. \A S : Stream!Cardinality(S) = Cardinality(S)
  BY DEF Stream!Cardinality, Cardinality
<1>2. \A c, k, p : Stream!Positions(c, k, p) = Positions(c, k, p)
  BY DEF Stream!Positions, Positions
<1>3. /\ \A c, p : Stream!TokensIn(c, p) = TokensIn(c, p)
      /\ \A c, p : Stream!LineAt(c, p) = LineAt(c, p)
  BY <1>1, <1>2, Zenon DEF Stream!TokensIn, TokensIn, Stream!LineAt, LineAt
<1> QED
  BY <1>3, Zenon
     DEF Stream!BadBetween, BadBetween, Stream!Token, Token, Stream!NoToken, NoToken

LEMMA InitRefines == Init => Stream!StreamInit
BY SameCounts DEF Init, Stream!StreamInit

LEMMA NextRefines ==
  TokenizerInv /\ [Next]_vars => [Stream!StreamNext]_(Stream!streamVars)
<1> SUFFICES ASSUME TokenizerInv, [Next]_vars
             PROVE  Stream!StreamNext \/ UNCHANGED Stream!streamVars
  OBVIOUS
<1> USE DEF TokenizerInv
<1>0. /\ content \in Seq(LexemeKinds) /\ Len(content) \in Nat
      /\ Len(buf) \in Nat
      /\ ptr \in Nat /\ past \in Nat /\ want \in Nat /\ taken \in Nat
  BY TextsAssumption, MaxPeekAssumption DEF TypeOK
<1>1. ASSUME NEW c \in Texts, Reset(c) PROVE Stream!Begin(c)
  BY <1>1 DEF Reset, Stream!Begin
<1>2. ASSUME NEW i \in 0..MaxPeek, PeekNextToken(i) PROVE Stream!Ask("peek", i)
  BY <1>2 DEF PeekNextToken, Call, Stream!Ask
<1>3. CASE GetNextToken
  <2>1. Stream!Ask("get", 0)
    BY <1>3 DEF GetNextToken, Call, Stream!Ask
  <2> QED
    BY <2>1 DEF Stream!StreamNext
<1>4. CASE SkipBlank \/ ScanToken \/ ScanEnd
  BY <1>4 DEF SkipBlank, ScanToken, ScanEnd, AtLexeme, Stream!streamVars
<1>5. CASE ScanBad
  <2>1. /\ ptr \in 1..Len(content) /\ content[ptr] = "bad" /\ pc = "scan"
    BY <1>5 DEF ScanBad, AtLexeme, TypeOK
  <2>2. TokensIn(content, ptr) <= taken + want
    BY <1>0, <2>1, CountStep DEF BufferIsNextTokens, LoopExit
  <2>3. ~BadBetween(content, past, ptr - 1)
    BY DEF RejectedIsRemembered
  <2>4. Stream!Trip(ptr)
    BY <1>5, <2>1, <2>2, <2>3, SameCounts DEF ScanBad, Stream!Trip
  <2> QED
    BY <2>1, <2>4 DEF Stream!StreamNext
<1>6. CASE ReturnToken
  <2> DEFINE t == buf[want + 1].at
  <2>1. /\ want + 1 \in 1..Len(buf) /\ pc = "found"
        /\ buf[want + 1] \in Tokens
    BY <1>0, <1>6 DEF ReturnToken, LoopExit, TypeOK
  <2>2. /\ t < ptr /\ t \in Nat
        /\ content[t] = "tok"
        /\ TokensIn(content, t) = taken + want + 1
        /\ buf[want + 1].loc = LineAt(content, t)
    BY <1>0, <2>1 DEF BufferIsNextTokens, Tokens
  <2>3. t \in 1..Len(content)
    <3>1. t # 0
      BY <1>0, <2>2, CountNone
    <3> QED
      BY <1>0, <2>2, <3>1 DEF TypeOK
  <2>4. ~BadBetween(content, past, t)
    BY <1>0, <2>2 DEF RejectedIsRemembered, BadBetween, TypeOK
  <2>5. buf[want + 1] = Token(t, LineAt(content, t))
    BY <2>1, <2>2 DEF Tokens, Token
  <2>6. Stream!Deliver(t)
    BY <1>6, <2>1, <2>2, <2>4, <2>5, SameCounts DEF ReturnToken, Stream!Deliver
  <2> QED
    BY <2>3, <2>6 DEF Stream!StreamNext
<1>7. CASE ReturnNone
  <2>1. CASE pc = "tripped"
    <3>1. Stream!Refuse
      BY <1>7, <2>1, SameCounts DEF ReturnNone, Stream!Refuse
    <3> QED
      BY <3>1 DEF Stream!StreamNext
  <2>2. CASE pc = "ended"
    <3>1. ptr - 1 = Len(content) /\ Len(buf) <= want
      BY <1>0, <2>2 DEF LoopExit, IsEOF, TypeOK
    <3>2. /\ TokensIn(content, Len(content)) <= taken + want
          /\ ~BadBetween(content, past, Len(content))
      BY <1>0, <3>1 DEF BufferIsNextTokens, RejectedIsRemembered
    <3>3. Stream!Refuse
      BY <1>7, <2>2, <3>2, SameCounts DEF ReturnNone, Stream!Refuse
    <3> QED
      BY <3>3 DEF Stream!StreamNext
  <2> QED
    BY <1>7, <2>1, <2>2 DEF ReturnNone
<1>8. CASE UNCHANGED vars
  BY <1>8 DEF vars, Stream!streamVars
<1> QED
  BY <1>1, <1>2, <1>3, <1>4, <1>5, <1>6, <1>7, <1>8
     DEF Next, InCall, Stream!StreamNext

\* PeekNextToken and GetNextToken answer as TokenStream promises, for texts of
\* any length and any lookahead: the buffer is invisible to the parser.
THEOREM TokenizerRefinesStream == Spec => LookaheadIsTransparent
<1>1. Init => Stream!StreamInit
  BY InitRefines
<1>2. TokenizerInv /\ [Next]_vars => [Stream!StreamNext]_(Stream!streamVars)
  BY NextRefines
<1>3. Spec => []TokenizerInv
  BY TokenizerCorrect
<1> QED
  BY <1>1, <1>2, <1>3, PTL DEF Spec, Stream!StreamSpec, LookaheadIsTransparent
=============================================================================
