---------------------------- MODULE BreakpointSet ----------------------------
(***************************************************************************)
(* What `break` and `delete` promise the user of the debugger: a set of    *)
(* addresses with a capacity, and an answer that tells what happened to    *)
(* it and, when it is about one address, to which.  Every other command    *)
(* leaves the set alone.                                                   *)
(***************************************************************************)
EXTENDS FiniteSets, Integers

CONSTANTS Addresses, Capacity

VARIABLES set, answer, named

BreakAnswers == {"set", "already_set", "too_many"}
DeleteAnswers == {"removed", "no_breakpoint"}

Init == set = {} /\ answer \notin BreakAnswers \cup DeleteAnswers

Break(addr) ==
  \/ /\ addr \in set
     /\ answer' = "already_set" /\ named' = addr
     /\ UNCHANGED set
  \/ /\ addr \notin set /\ Cardinality(set) = Capacity
     /\ answer' = "too_many"
     /\ UNCHANGED set
  \/ /\ addr \notin set /\ Cardinality(set) < Capacity
     /\ answer' = "set" /\ named' = addr
     /\ set' = set \cup {addr}

Delete(addr) ==
  \/ /\ addr \in set
     /\ answer' = "removed" /\ named' = addr
     /\ set' = set \ {addr}
  \/ /\ addr \notin set
     /\ answer' = "no_breakpoint" /\ named' = addr
     /\ UNCHANGED set

Other ==
  /\ answer' \notin BreakAnswers \cup DeleteAnswers
  /\ UNCHANGED set

Next ==
  \/ \E addr \in Addresses : Break(addr) \/ Delete(addr)
  \/ Other

Spec == Init /\ [][Next]_<<set, answer, named>>
=============================================================================
