---------------------------- MODULE StackMachine ----------------------------
(***************************************************************************)
(* What PUSH, POP, CALL and RET promise a program: a bounded stack of      *)
(* words.  Only its top moves; the words below it change only when the     *)
(* program itself writes them through STORE, a 16-bit write that can       *)
(* straddle two neighbouring slots.  Loading a program empties the stack   *)
(* and fixes its capacity.  The program decides what it offers to push.    *)
(***************************************************************************)
EXTENDS Integers, Sequences

VARIABLES stack, capacity, offered

Slot == {x \in Nat : x < 65536}
Capacity == {x \in Nat : x < 32768}

Init ==
  /\ stack = <<>>
  /\ capacity \in Capacity

\* The word on offer goes on top, if there is room for it.
Push ==
  /\ Len(stack) < capacity
  /\ stack' = Append(stack, offered)
  /\ UNCHANGED capacity

\* One word less.
Pop ==
  /\ stack # <<>>
  /\ stack' = SubSeq(stack, 1, Len(stack) - 1)
  /\ UNCHANGED capacity

\* A STORE into the live stack.
Overwrite ==
  /\ Len(stack') = Len(stack)
  /\ \E k \in DOMAIN stack :
        \A j \in DOMAIN stack :
           IF j \in {k, k + 1} THEN stack'[j] \in Slot
                               ELSE stack'[j] = stack[j]
  /\ UNCHANGED capacity

\* A program is loaded.
Clear ==
  /\ stack' = <<>>
  /\ capacity' \in Capacity

Next == Push \/ Pop \/ Overwrite \/ Clear

Spec == Init /\ [][Next]_<<stack, capacity>>
=============================================================================
