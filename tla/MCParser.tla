------------------------------ MODULE MCParser ------------------------------
(***************************************************************************)
(* Instance of Parser for TLC.  Each opening brings the parser to another  *)
(* place; from there every text of at most MaxTokens more tokens is        *)
(* parsed, cut off after any of them.                                      *)
(***************************************************************************)
EXTENDS Parser

MCNames == {"x", "f"}
MCSwizzles == {"x"}
MCWords == {"{", "}", "(", ")", "[", "]", ",", ";", ":", "!", "=", "<", "+", "?", "num",
            "x", "f", "int", "bool", "void", "if", "else", "for", "return", "true",
            "struct", "extern", ".", "&", "%"}

Declared == <<"int", "f", "(", "int", "x", ")">>
InBody   == Declared \o <<"{", "return", "num", ";">>
Condition == <<"if", "(", "x", ")">>

Redeclared == Declared \o <<";", "int", "f", "(", "int", "x">>
InPrototype == <<"void", "f", "(", "int", "x", "int">>
InIf     == InBody \o Condition
InElse   == InIf \o <<";", ";", "else", "{">>
InBlock  == Declared \o <<"{">> \o Condition \o <<"{", "return", "x", ";">>
InHead   == InBody \o <<"for", "(", "int", "f", "=", "num", ";", "f">>
InStep   == InBody \o <<"for", "(", "int", "f", ";", "true", ";">>
InSelect == InBody \o <<"x", "=", "true", "?", "num">>
InCall   == InBody \o <<"x", "=", "f", "(", "x">>
InRefCall == <<"int", "f", "(", "int", "&", "x", ")", "{", "return", "f", "(">>
InArray  == InBody \o <<"int", "f", "[", "num">>

Struct    == <<"struct", "f", "{", "int", "x">>
OfStruct  == Struct \o <<";", "}", ";", "int", "x", "(", "f", "&", "x", ")", "{", "return", "x", ".">>
AfterType == <<"extern", "f", ";", "void", "x", "(", "int", "%", "x", "[", "]", ",", "f", "f", ")", "{">>

\* The openings of the runs with a counterexample.
AtStart == {<<>>}
AtBody  == {InBody}

MCOpenings == {<<>>, InBody, Redeclared, InPrototype, InIf, InElse, InBlock, InHead,
               InStep, InSelect, InCall, InRefCall, InArray, Struct, OfStruct, AfterType}
=============================================================================
