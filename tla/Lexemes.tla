------------------------------ MODULE Lexemes ------------------------------
(***************************************************************************)
(* The text a tokenizer reads, as a sequence of lexemes:                   *)
(*   "tok"  a token of any kind that ScanForToken accepts                  *)
(*   "nl"   a line break, alone or inside a comment                        *)
(*   "bad"  what ScanForToken rejects with a message: an identifier that   *)
(*          starts with a digit, or a comment that runs to the end         *)
(* Blanks inside a line move the cursor and nothing else: they are left    *)
(* out.                                                                    *)
(***************************************************************************)
EXTENDS Naturals, Sequences, FiniteSets

LexemeKinds == {"tok", "nl", "bad"}

Positions(c, kind, p) == {j \in 1..p : j <= Len(c) /\ c[j] = kind}

\* How many tokens the first p lexemes hold, and the line reached after them.
TokensIn(c, p) == Cardinality(Positions(c, "tok", p))
LineAt(c, p)   == 1 + Cardinality(Positions(c, "nl", p))

BadBetween(c, lo, hi) == \E j \in (lo + 1)..hi : c[j] = "bad"

\* What the tokenizer returns: a token, known by its place and its line, or one
\* of the two tokens without text, Token::sEOF and Token::sInvalid.
Token(p, l) == [is |-> "token", at |-> p, loc |-> l]
NoToken(f)  == [is |-> f, at |-> 0, loc |-> 0]
=============================================================================
