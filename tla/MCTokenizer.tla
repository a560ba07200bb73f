---------------------------- MODULE MCTokenizer ----------------------------
(***************************************************************************)
(* Instance of Tokenizer for TLC: every text of at most MaxLen lexemes,    *)
(* one text after another, with the lookaheads the parser uses (0, 1, 2).  *)
(***************************************************************************)
EXTENDS Tokenizer

CONSTANT MaxLen

MCTexts == UNION {[1..n -> {"tok", "nl", "bad"}] : n \in 0..MaxLen}
=============================================================================
