---------------------------- MODULE TokenStream ----------------------------
(***************************************************************************)
(* What the parser may rely on when it reads tokens: the text is a         *)
(* sequence of lexemes, a call asks for the token that is `want` tokens    *)
(* ahead of the ones already taken, and it is answered with exactly that   *)
(* token and its line, or with a failure that is owed to the text.         *)
(*                                                                         *)
(* There is no buffer and no cursor here: that looking ahead never loses,  *)
(* repeats or reorders a token is what the module Tokenizer has to show.   *)
(***************************************************************************)
EXTENDS Lexemes

CONSTANTS Texts,     \* the texts a tokenizer may be given
          MaxPeek    \* the furthest lookahead the parser asks for

VARIABLES text,   \* the text being read
          taken,  \* how many of its tokens were handed over by "get"
          past,   \* the bad lexemes up to here have been reported
          dirty,  \* some text of this tokenizer had a bad lexeme reported
          busy,   \* the call in progress: idle, asked or failing
          op,     \* "peek" or "get"
          want,   \* its lookahead distance
          reply   \* the last answer

streamVars == <<text, taken, past, dirty, busy, op, want, reply>>

StreamInit ==
    /\ text \in Texts
    /\ taken = 0
    /\ past = 0
    /\ dirty = FALSE
    /\ busy = "idle"
    /\ op = "peek"
    /\ want = 0
    /\ reply = NoToken("EOF")

\* A new text begins; what was reported for earlier texts is remembered.
Begin(c) ==
    /\ busy = "idle"
    /\ text' = c
    /\ taken' = 0
    /\ past' = 0
    /\ UNCHANGED <<dirty, busy, op, want, reply>>

Ask(o, i) ==
    /\ busy = "idle"
    /\ busy' = "asked"
    /\ op' = o
    /\ want' = i
    /\ UNCHANGED <<text, taken, past, dirty, reply>>

\* A bad lexeme m stands before the token asked for: this call will fail, and
\* m will not make another call fail.
Trip(m) ==
    /\ busy = "asked"
    /\ text[m] = "bad"
    /\ ~BadBetween(text, past, m - 1)
    /\ TokensIn(text, m) <= taken + want
    /\ past' = m
    /\ dirty' = TRUE
    /\ busy' = "failing"
    /\ UNCHANGED <<text, taken, op, want, reply>>

\* The token asked for, provided that no unreported bad lexeme precedes it.
Deliver(t) ==
    /\ busy = "asked"
    /\ text[t] = "tok"
    /\ TokensIn(text, t) = taken + want + 1
    /\ ~BadBetween(text, past, t)
    /\ reply' = Token(t, LineAt(text, t))
    /\ taken' = IF op = "get" THEN taken + 1 ELSE taken
    /\ busy' = "idle"
    /\ UNCHANGED <<text, past, dirty, op, want>>

\* A failure: after a bad lexeme, or because the text has not that many tokens.
Refuse ==
    /\ \/ busy = "failing"
       \/ /\ busy = "asked"
          /\ TokensIn(text, Len(text)) <= taken + want
          /\ ~BadBetween(text, past, Len(text))
    /\ reply' = NoToken(IF dirty THEN "Invalid" ELSE "EOF")
    /\ busy' = "idle"
    /\ UNCHANGED <<text, taken, past, dirty, op, want>>

StreamNext ==
    \/ \E c \in Texts : Begin(c)
    \/ \E i \in 0..MaxPeek : Ask("peek", i)
    \/ Ask("get", 0)
    \/ \E m \in 1..Len(text) : Trip(m) \/ Deliver(m)
    \/ Refuse

StreamSpec == StreamInit /\ [][StreamNext]_streamVars
=============================================================================
