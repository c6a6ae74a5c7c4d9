----------------------------- MODULE Broadcast ------------------------------
(***************************************************************************)
(* What event/feed.go promises, without its slices, locks and channels:    *)
(* values are sent one after the other; a send owes its value to those     *)
(* who are members when it begins, and is over when each of them got it    *)
(* or left.                                                                *)
(***************************************************************************)
EXTENDS Integers

CONSTANT Subs

VARIABLES
  members,   \* the subscriptions
  last,      \* how many sends were begun; a value is the number of its send
  sending,   \* is one under way?
  owe,       \* the members it still owes its value to
  got        \* the last value each subscriber was given

vars == <<members, last, sending, owe, got>>

Init ==
  /\ members \in SUBSET Subs /\ last = 0 /\ sending = FALSE /\ owe = {}
  /\ got = [s \in Subs |-> 0]

Join(s) ==
  /\ s \notin members
  /\ members' = members \cup {s}
  /\ UNCHANGED <<last, sending, owe, got>>

Leave(s) ==
  /\ s \in members
  /\ members' = members \ {s} /\ owe' = owe \ {s}
  /\ UNCHANGED <<last, sending, got>>

Begin ==
  /\ ~sending
  /\ sending' = TRUE /\ last' = last + 1 /\ owe' = members
  /\ UNCHANGED <<members, got>>

Give(s) ==
  /\ sending /\ s \in owe
  /\ owe' = owe \ {s}
  /\ got' = [got EXCEPT ![s] = last]
  /\ UNCHANGED <<members, last, sending>>

End ==
  /\ sending /\ owe = {}
  /\ sending' = FALSE
  /\ UNCHANGED <<members, last, owe, got>>

Next == Begin \/ End \/ \E s \in Subs : Join(s) \/ Leave(s) \/ Give(s)

Spec == Init /\ [][Next]_vars
=============================================================================
