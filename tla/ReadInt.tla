------------------------------- MODULE ReadInt -------------------------------
(***************************************************************************)
(* SYS READ_INT's parser of standard input (vm.c: read_int_from_stdin),    *)
(* one action per getchar, called again and again on the same input.       *)
(* Its results are the words the machine's READ_INT may receive.           *)
(***************************************************************************)
EXTENDS Memory, Wide

CONSTANTS
  Inputs,        \* contents of standard input: sequences of characters
  MaxCalls       \* bound on the number of READ_INT calls

ASSUME MaxCallsAssumption == MaxCalls \in Nat

VARIABLES
  stdin,         \* what standard input holds
  at,            \* the place of the next character getchar returns
  c,             \* the character just read, EOF at the end
  rstage,        \* "idle", "skip" or "digits"
  negative, has_digit,
  magnitude,     \* unsigned long
  results,       \* history: the words returned
  starts         \* history: where each call found the input

call == <<rstage, negative, has_digit, magnitude>>
readVars == <<stdin, at, c, call, results, starts>>

Space == {" ", "\t", "\n", "\r", "VT", "\f"}
Digits == <<"0", "1", "2", "3", "4", "5", "6", "7", "8", "9">>
Digit == {Digits[i] : i \in DOMAIN Digits}
digit_value(x) == (CHOOSE i \in DOMAIN Digits : Digits[i] = x) - 1

\* getchar's EOF is none of the characters.
EndOfFile == "EOF"
ASSUME InputsAssumption == Inputs \subseteq Seq(STRING \ {EndOfFile})
char(i) == IF i <= Len(stdin) THEN stdin[i] ELSE EndOfFile

getchar ==
  /\ c' = char(at)
  /\ at' = IF at <= Len(stdin) THEN at + 1 ELSE at

ReadInit ==
  /\ stdin \in Inputs
  /\ at = 1 /\ c = EndOfFile
  /\ rstage = "idle"
  /\ negative = FALSE /\ has_digit = FALSE
  /\ magnitude = Zero(Limbs64)
  /\ results = <<>> /\ starts = <<>>

call_read_int ==
  /\ rstage = "idle" /\ Len(results) < MaxCalls
  /\ rstage' = "skip"
  /\ negative' = FALSE /\ has_digit' = FALSE
  /\ magnitude' = Zero(Limbs64)
  /\ starts' = Append(starts, at)
  /\ getchar
  /\ UNCHANGED <<stdin, results>>

skip_space ==
  /\ rstage = "skip" /\ c \in Space
  /\ getchar
  /\ UNCHANGED <<stdin, call, results, starts>>

\* Past the white space, and past a minus sign if there is one.
take_sign ==
  /\ rstage = "skip" /\ c \notin Space
  /\ rstage' = "digits"
  /\ negative' = (c = "-")
  /\ IF c = "-" THEN getchar ELSE UNCHANGED <<at, c>>
  /\ UNCHANGED <<stdin, has_digit, magnitude, results, starts>>

\* Mutant: the magnitude stays at its maximum once it overflows.
accumulate_saturating(m, d) ==
  IF MulAdd(m \o <<0>>, 10, d)[Limbs64 + 1] # 0
  THEN [i \in 1 .. Limbs64 |-> 65535] ELSE MulAdd(m, 10, d)

accumulate(m, d) == MulAdd(m, 10, d)

take_digit ==
  /\ rstage = "digits" /\ c \in Digit
  /\ magnitude' = accumulate(magnitude, digit_value(c))
  /\ has_digit' = TRUE
  /\ getchar
  /\ UNCHANGED <<stdin, rstage, negative, results, starts>>

\* ungetc: the character behind the number is read again.
ungetc == at' = IF c = EndOfFile THEN at ELSE at - 1

return_value ==
  IF ~has_digit THEN 0
  ELSE IF negative THEN (0 - magnitude[1]) % 65536
  ELSE magnitude[1]

return ==
  /\ rstage = "digits" /\ c \notin Digit
  /\ ungetc
  /\ results' = Append(results, return_value)
  /\ rstage' = "idle"
  /\ UNCHANGED <<stdin, c, negative, has_digit, magnitude, starts>>

ReadNext == call_read_int \/ skip_space \/ take_sign \/ take_digit \/ return

ReadSpec == ReadInit /\ [][ReadNext]_readVars

-----------------------------------------------------------------------------
\* Reference: the first place from i on whose character is not in S.
first_not(i, S) ==
  CHOOSE j \in i .. Len(stdin) + 1 :
    char(j) \notin S /\ \A k \in i .. j - 1 : char(k) \in S

\* 10^k modulo 65536.
PowerOfTen[k \in Nat] == IF k = 0 THEN 1 ELSE (10 * PowerOfTen[k - 1]) % 65536

\* The number written at i .. j - 1, modulo 65536, by place value.
PlaceValue(i, j) ==
  LET sum[k \in i - 1 .. j - 1] ==
        IF k < i THEN 0
        ELSE (sum[k - 1] + digit_value(char(k)) * PowerOfTen[j - 1 - k]) % 65536
  IN  sum[j - 1]

\* What a call that finds the input at i must return and where it leaves
\* the input.
Expected(i) ==
  LET w == first_not(i, Space)
      s == IF char(w) = "-" THEN w + 1 ELSE w
      e == first_not(s, Digit)
      v == PlaceValue(s, e)
  IN  [value |-> IF char(w) = "-" THEN (65536 - v) % 65536 ELSE v, next |-> e]

\* Consecutive READ_INT calls take the input apart without loss: each call
\* returns the decimal number it meets, sign included, modulo 65536 for
\* any number of digits (DESIGN.md section 8.7), 0 where there is none,
\* and leaves the input at the first character behind it, which the next
\* call starts from.
ReadsInputExactly ==
  /\ at \in 1 .. Len(stdin) + 1
  /\ \A k \in DOMAIN results :
       results[k] \in Word /\ results[k] = Expected(starts[k]).value
  /\ \A k \in DOMAIN results :
       Expected(starts[k]).next =
         IF k < Len(starts) THEN starts[k + 1] ELSE at
=============================================================================
