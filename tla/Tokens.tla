------------------------------- MODULE Tokens -------------------------------
(***************************************************************************)
(* The tokens the lexer hands to the parser (token.h, lexer.h), with the   *)
(* payload each type uses.  A name is one value: keywords and registers    *)
(* are written in upper case, the spelling the disassembler prints.        *)
(***************************************************************************)
EXTENDS Integers, Sequences

NoText == "none"      \* the text of a token that is no name

Token(type, text, num, bytes) ==
  [type |-> type, text |-> text, num_value |-> num, str_value |-> bytes]

Simple(type) == Token(type, NoText, 0, <<>>)
Ident(text) == Token("TOK_IDENT", text, 0, <<>>)
Directive(text) == Token("TOK_DIRECTIVE", text, 0, <<>>)
Number(n) == Token("TOK_NUMBER", NoText, n, <<>>)
String(bytes) == Token("TOK_STRING", NoText, 0, bytes)

COMMA == Simple("TOK_COMMA")
COLON == Simple("TOK_COLON")
LBRACKET == Simple("TOK_LBRACKET")
RBRACKET == Simple("TOK_RBRACKET")
NEWLINE == Simple("TOK_NEWLINE")
EOF == Simple("TOK_EOF")

EndOfLine == {"TOK_NEWLINE", "TOK_EOF"}

TokenTypes == EndOfLine \cup
  {"TOK_IDENT", "TOK_DIRECTIVE", "TOK_NUMBER", "TOK_STRING", "TOK_COMMA",
   "TOK_COLON", "TOK_LBRACKET", "TOK_RBRACKET"}
=============================================================================
