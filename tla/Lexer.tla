-------------------------------- MODULE Lexer --------------------------------
(***************************************************************************)
(* The assembler's lexer (lexer.c): one action per token, one per          *)
(* character inside a string literal.  The source is a sequence of         *)
(* characters; reading past its end gives the terminating NUL.  A token is *)
(* its type, its line, the place of its spelling in the source, and the    *)
(* value of a number (int64_t) or the bytes of a string.                   *)
(***************************************************************************)
EXTENDS Wide, FiniteSets

CONSTANTS
  Texts,                  \* the sources: sequences of characters
  Wider                   \* limbs in which the properties spell out numbers

ASSUME WiderAssumption == Wider \in Nat /\ Wider >= Limbs64

VARIABLES
  source,
  p, line,                \* the place in the source, and its line
  lstage,                 \* "top", "string", "done" or "error"
  open,                   \* where the current string literal began
  buf,                    \* its bytes so far
  toks                    \* the tokens pushed

lexVars == <<source, p, line, lstage, open, buf, toks>>

-----------------------------------------------------------------------------
\* Characters (ctype.h, ASCII).
Printable ==
  <<" ", "!", "\"", "#", "$", "%", "&", "'", "(", ")", "*", "+", ",", "-",
    ".", "/", "0", "1", "2", "3", "4", "5", "6", "7", "8", "9", ":", ";",
    "<", "=", ">", "?", "@", "A", "B", "C", "D", "E", "F", "G", "H", "I",
    "J", "K", "L", "M", "N", "O", "P", "Q", "R", "S", "T", "U", "V", "W",
    "X", "Y", "Z", "[", "\\", "]", "^", "_", "BACKTICK", "a", "b", "c", "d", "e",
    "f", "g", "h", "i", "j", "k", "l", "m", "n", "o", "p", "q", "r", "s",
    "t", "u", "v", "w", "x", "y", "z", "{", "|", "}", "~">>

code(x) ==
  CASE x = "\t" -> 9
    [] x = "\r" -> 13
    [] OTHER    -> 31 + CHOOSE i \in DOMAIN Printable : Printable[i] = x

digit == {"0", "1", "2", "3", "4", "5", "6", "7", "8", "9"}
xdigit == digit \cup {"A", "B", "C", "D", "E", "F",
                      "a", "b", "c", "d", "e", "f"}
alpha == {"A", "B", "C", "D", "E", "F", "G", "H", "I", "J", "K", "L", "M",
          "N", "O", "P", "Q", "R", "S", "T", "U", "V", "W", "X", "Y", "Z",
          "a", "b", "c", "d", "e", "f", "g", "h", "i", "j", "k", "l", "m",
          "n", "o", "p", "q", "r", "s", "t", "u", "v", "w", "x", "y", "z"}
blank == {" ", "\t", "\r"}
separator == {",", ":", "[", "]"}
newline == "\n"
quote == "\""
backslash == "\\"

\* The value of a digit in either case.
digit_value(x) ==
  IF x \in digit THEN code(x) - 48
  ELSE IF code(x) >= 97 THEN code(x) - 87 ELSE code(x) - 55

\* A source is a C string: its characters, up to and without the NUL.
NUL == "NUL"
ASSUME TextsAssumption == Texts \subseteq Seq(STRING \ {NUL})

ch(i) == IF i <= Len(source) THEN source[i] ELSE NUL

\* The place after the run of characters of S that starts at i.
run_end(i, S) ==
  CHOOSE j \in i .. Len(source) + 1 :
    ch(j) \notin S /\ \A k \in i .. j - 1 : ch(k) \in S

-----------------------------------------------------------------------------
tok(type, first, after, num, bytes) ==
  [type |-> type, line |-> line, first |-> first, after |-> after,
   num_value |-> num, str_value |-> bytes]

push(type, after) ==
  toks' = Append(toks, tok(type, p, after, Zero(Limbs64), <<>>))

set_error ==
  /\ lstage' = "error"
  /\ UNCHANGED <<source, p, line, open, buf, toks>>

LexInit ==
  /\ source \in Texts
  /\ p = 1 /\ line = 1
  /\ lstage = "top"
  /\ open = 0 /\ buf = <<>>
  /\ toks = <<>>

skip_blank ==
  /\ lstage = "top" /\ ch(p) \in blank
  /\ p' = p + 1
  /\ UNCHANGED <<source, line, lstage, open, buf, toks>>

comment_end == CHOOSE j \in p .. Len(source) + 1 :
                 /\ ch(j) \in {NUL, newline}
                 /\ \A k \in p .. j - 1 : ch(k) \notin {NUL, newline}

\* Mutant: the comment takes the newline with it.
skip_comment_line ==
  /\ lstage = "top" /\ ch(p) = ";"
  /\ p' = IF ch(comment_end) = newline THEN comment_end + 1 ELSE comment_end
  /\ UNCHANGED <<source, line, lstage, open, buf, toks>>

skip_comment ==
  /\ lstage = "top" /\ ch(p) = ";"
  /\ p' = comment_end
  /\ UNCHANGED <<source, line, lstage, open, buf, toks>>

lex_newline ==
  /\ lstage = "top" /\ ch(p) = newline
  /\ push("TOK_NEWLINE", p + 1)
  /\ line' = line + 1
  /\ p' = p + 1
  /\ UNCHANGED <<source, lstage, open, buf>>

punctuation(x) ==
  CASE x = "," -> "TOK_COMMA"
    [] x = ":" -> "TOK_COLON"
    [] x = "[" -> "TOK_LBRACKET"
    [] x = "]" -> "TOK_RBRACKET"

lex_punctuation ==
  /\ lstage = "top" /\ ch(p) \in separator
  /\ push(punctuation(ch(p)), p + 1)
  /\ p' = p + 1
  /\ UNCHANGED <<source, line, lstage, open, buf>>

\* Mutant: the character behind the name is skipped.
lex_directive_skips ==
  /\ lstage = "top" /\ ch(p) = "."
  /\ LET q == run_end(p + 1, alpha) IN
     IF q = p + 1 THEN set_error
     ELSE /\ push("TOK_DIRECTIVE", q)
          /\ p' = q + 1
          /\ UNCHANGED <<source, line, lstage, open, buf>>

lex_directive ==
  /\ lstage = "top" /\ ch(p) = "."
  /\ LET q == run_end(p + 1, alpha) IN
     IF q = p + 1 THEN set_error
     ELSE /\ push("TOK_DIRECTIVE", q)
          /\ p' = q
          /\ UNCHANGED <<source, line, lstage, open, buf>>

lex_identifier ==
  /\ lstage = "top" /\ ch(p) \in alpha \cup {"_"}
  /\ LET q == run_end(p, alpha \cup digit \cup {"_"}) IN
     push("TOK_IDENT", q) /\ p' = q
  /\ UNCHANGED <<source, line, lstage, open, buf>>

\* Mutant: the value is accumulated in an int.
accumulated_int(i, j, base) ==
  LET acc[k \in i - 1 .. j - 1] ==
        IF k < i THEN Zero(2) ELSE MulAdd(acc[k - 1], base, digit_value(ch(k)))
  IN  SignExtend(acc[j - 1], Limbs64)

\* The loop over the digits at i .. j - 1.  Signed overflow is undefined in
\* C; the Makefile's build (-O0) wraps.
accumulated(i, j, base) ==
  LET acc[k \in i - 1 .. j - 1] ==
        IF k < i THEN Zero(Limbs64)
        ELSE MulAdd(acc[k - 1], base, digit_value(ch(k)))
  IN  acc[j - 1]

\* The parts of the number literal at i: sign, base and digits.
number_sign(i) == ch(i) = "-"
number_start(i) == IF number_sign(i) THEN i + 1 ELSE i
is_hex(i) == LET s == number_start(i)
             IN  ch(s) = "0" /\ ch(s + 1) \in {"x", "X"}
number_base(i) == IF is_hex(i) THEN 16 ELSE 10
digits_start(i) == number_start(i) + (IF is_hex(i) THEN 2 ELSE 0)
number_digits(i) == IF is_hex(i) THEN xdigit ELSE digit

lex_number ==
  /\ lstage = "top" /\ ch(p) \in digit \cup {"-"}
  /\ LET d == digits_start(p) IN
     IF ch(number_start(p)) \notin digit \/ ch(d) \notin number_digits(p)
     THEN set_error
     ELSE LET q == run_end(d, number_digits(p))
              v == accumulated(d, q, number_base(p))
          IN  /\ toks' = Append(toks,
                   tok("TOK_NUMBER", p, q,
                       IF number_sign(p) THEN Negate(v) ELSE v, <<>>))
              /\ p' = q
              /\ UNCHANGED <<source, line, lstage, open, buf>>

lex_unexpected ==
  /\ lstage = "top"
  /\ ch(p) \notin {newline, quote, NUL, ";", ".", "-", "_"}
                    \cup blank \cup separator \cup digit \cup alpha
  /\ set_error

lex_end ==
  /\ lstage = "top" /\ ch(p) = NUL
  /\ push("TOK_EOF", p)
  /\ lstage' = "done"
  /\ UNCHANGED <<source, p, line, open, buf>>

-----------------------------------------------------------------------------
\* String literals.
open_string ==
  /\ lstage = "top" /\ ch(p) = quote
  /\ lstage' = "string"
  /\ open' = p /\ buf' = <<>>
  /\ p' = p + 1
  /\ UNCHANGED <<source, line, toks>>

close_string ==
  /\ lstage = "string" /\ ch(p) = quote
  /\ toks' = Append(toks, tok("TOK_STRING", open, p + 1, Zero(Limbs64), buf))
  /\ lstage' = "top"
  /\ p' = p + 1
  /\ UNCHANGED <<source, line, open, buf>>

store_byte(b, width) ==
  /\ buf' = Append(buf, b)
  /\ p' = p + width
  /\ UNCHANGED <<source, line, lstage, open, toks>>

string_char ==
  /\ lstage = "string" /\ ch(p) \notin {NUL, newline, quote, backslash}
  /\ store_byte(code(ch(p)), 1)

Escapes == {"n", "r", "t", backslash, quote, "0"}

escape_value(x) ==
  CASE x = "n" -> 10 [] x = "r" -> 13 [] x = "t" -> 9 [] x = "0" -> 0
    [] OTHER   -> code(x)

string_escape ==
  /\ lstage = "string" /\ ch(p) = backslash /\ ch(p + 1) \in Escapes
  /\ store_byte(escape_value(ch(p + 1)), 2)

\* Mutant: only the first of the two digits is checked.
is_hex_escape_short ==
  ch(p) = backslash /\ ch(p + 1) = "x" /\ ch(p + 2) \in xdigit

is_hex_escape ==
  /\ ch(p) = backslash /\ ch(p + 1) = "x"
  /\ ch(p + 2) \in xdigit /\ ch(p + 3) \in xdigit

\* strtoul stops at the first character that is no digit.
hex_value ==
  IF ch(p + 3) \in xdigit
  THEN 16 * digit_value(ch(p + 2)) + digit_value(ch(p + 3))
  ELSE digit_value(ch(p + 2))

string_hex ==
  /\ lstage = "string" /\ is_hex_escape
  /\ store_byte(hex_value, 4)

\* Unterminated, or a backslash and something else.
string_fails ==
  /\ lstage = "string"
  /\ \/ ch(p) \in {NUL, newline}
     \/ ch(p) = backslash /\ ch(p + 1) \notin Escapes /\ ~is_hex_escape
  /\ set_error

LexNext ==
  \/ skip_blank \/ skip_comment \/ lex_newline \/ lex_punctuation
  \/ lex_directive \/ lex_identifier \/ lex_number \/ lex_unexpected
  \/ lex_end
  \/ open_string \/ close_string \/ string_char \/ string_escape
  \/ string_hex \/ string_fails

LexSpec == LexInit /\ [][LexNext]_lexVars

-----------------------------------------------------------------------------
\* The lexer never reads behind the terminating NUL: the next character it
\* looks at is one of the source's or the NUL itself (lexer.c: the p[1] of
\* an escape and of 0x, p += 2).
ReadsInsideSource == p \in 1 .. Len(source) + 1

newlines_before(i) == Cardinality({k \in 1 .. i - 1 : ch(k) = newline})

\* Every token and every error names the line it is on (DESIGN.md section
\* 11.3), after comments, strings and blank lines too.
LinesAreRight ==
  /\ line = 1 + newlines_before(p)
  /\ \A k \in DOMAIN toks : toks[k].line = 1 + newlines_before(toks[k].first)

\* Between two tokens there are blanks and then perhaps one comment.
OnlyBlanks(i, j) ==
  \E m \in i .. j : /\ \A k \in i .. m - 1 : ch(k) \in blank
                    /\ m < j => ch(m) = ";"
                    /\ \A k \in m .. j - 1 : ch(k) # newline

\* No character is lost or read twice: the tokens' spellings follow one
\* another, apart from blanks and comments, up to the end of the source.
NothingIsLost ==
  /\ \A k \in DOMAIN toks :
       OnlyBlanks(IF k = 1 THEN 1 ELSE toks[k - 1].after, toks[k].first)
  /\ lstage = "done" => toks[Len(toks)].first = Len(source) + 1

\* The number spelled by token t, without and with its sign, in Wider limbs:
\* with enough of them, for any given text, nothing is cut off.
Magnitude(t) ==
  LET d == digits_start(t.first)
      acc[k \in d - 1 .. t.after - 1] ==
        IF k < d THEN Zero(Wider)
        ELSE MulAdd(acc[k - 1], number_base(t.first), digit_value(ch(k)))
  IN  acc[t.after - 1]
Spelled(t) == IF number_sign(t.first) THEN Negate(Magnitude(t)) ELSE Magnitude(t)

\* Below 2^63.
Fits63(v) == /\ v[Limbs64] < 32768
             /\ \A i \in Limbs64 + 1 .. Len(v) : v[i] = 0

\* A literal that int64_t can hold, in either base and with either sign,
\* becomes a token with exactly the value it spells (lexer.c: the loops over
\* the digits and the sign).  Of longer literals it says nothing.
NumbersKeepTheirValue ==
  \A k \in DOMAIN toks :
    LET t == toks[k]
    IN  t.type = "TOK_NUMBER" /\ Fits63(Magnitude(t))
          => SignExtend(t.num_value, Wider) = Spelled(t)

\* The two's complement number v is one of -32768 .. 65535, the range in
\* which the parser accepts an immediate or a .word value.
FitsOperand(v) ==
  LET upper == {v[i] : i \in 2 .. Len(v)}
  IN  \/ upper = {0}
      \/ upper = {65535} /\ v[1] >= 32768

\* "A literal outside [-32768, 65535] (e.g. 65536, -32769) is an assembler
\* error" (DESIGN.md section 11.4): no literal gets into that range on the
\* way to the parser, which refuses by the value of the token and not by its
\* spelling (lexer.c: the loops over the digits).
OutOfRangeStaysOut ==
  \A k \in DOMAIN toks :
    LET t == toks[k]
    IN  t.type = "TOK_NUMBER" /\ FitsOperand(t.num_value)
          => FitsOperand(Spelled(t))
=============================================================================
