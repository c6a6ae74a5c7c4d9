-------------------------------- MODULE Feed --------------------------------
(***************************************************************************)
(* The one-to-many event feed of event/feed.go and the SubscriptionScope   *)
(* of event/subscription.go through which the chain, the pool and the      *)
(* miner hand out their feeds.                                             *)
(*                                                                         *)
(* Send keeps the subscribers in one array, sendCases, of which a prefix,  *)
(* cases, is still to be served: a served case is swapped behind the       *)
(* prefix, and a subscriber that leaves is cut out of the array while the  *)
(* send is under way.  The sender is whoever has sendLock: callers that    *)
(* wait for it are not told apart.  A subscriber is one goroutine: while   *)
(* it waits in Unsubscribe it does not receive.  A case is written as its  *)
(* subscription, and the entry of removeSub at the front of the array is   *)
(* left out.                                                               *)
(***************************************************************************)
EXTENDS Integers, Sequences, Functions

CONSTANTS
  Subs,        \* subscriptions, each with a channel of its own
  Early,       \* those made, in this order, while the node starts
  Cap,         \* the buffer of a channel
  MaxSends     \* bound: calls of Send

ASSUME FeedAssumption ==
  /\ Early \in Seq(Subs) /\ IsInjective(Early)
  /\ Cap \in Nat \ {0} /\ MaxSends \in Nat

VARIABLES
  inbox, sendCases,   \* subscriptions, in the order of the arrays
  cases,              \* the length of the prefix still to be served
  sender,             \* [pc, i]: the loops of Send; "idle": sendLock is free
  last, got,          \* sends begun; the last one each channel was given
  unread,             \* values in the buffers
  owner,              \* the goroutine of a subscriber
  removal,            \* the body of its Unsubscribe, run once
  scope, closer       \* SubscriptionScope: [subs, closed], its Close

vars == <<inbox, sendCases, cases, sender, last, got, unread, owner, removal,
          scope, closer>>
feed == <<inbox, sendCases, cases, sender, last, got>>
users == <<unread, owner, removal, scope, closer>>

Init ==
  /\ inbox = Early /\ sendCases = <<>> /\ cases = 0
  /\ sender = [pc |-> "idle", i |-> 1]
  /\ last = 0 /\ got = [s \in Subs |-> 0] /\ unread = [s \in Subs |-> 0]
  /\ owner = [s \in Subs |-> IF s \in Range(Early) THEN "loop" ELSE "none"] /\ removal = [s \in Subs |-> "no"]
  /\ scope = [subs |-> Range(Early), closed |-> FALSE]
  /\ closer = [pc |-> "idle", todo |-> {}]

----------------------------------------------------------------------------
(* caseList *)

\* The position of the case of s, 0 if there is none.
find(cs, s) ==
  IF s \in Range(cs)
  THEN CHOOSE i \in 1 .. Len(cs) : cs[i] = s /\ \A j \in 1 .. i - 1 : cs[j] # s
  ELSE 0

delete(cs, i) == SubSeq(cs, 1, i - 1) \o SubSeq(cs, i + 1, Len(cs))

\* The case goes behind the prefix of length n, the last one of the prefix
\* takes its place.
deactivate(cs, i, n) == [cs EXCEPT ![i] = cs[n], ![n] = cs[i]]

ActiveShrinks(s) == cases - 1                \* also for a case behind it
\* The prefix after the deletion of s from the array.
ActiveWithout(s) == IF find(sendCases, s) \in 1 .. cases THEN cases - 1 ELSE cases

----------------------------------------------------------------------------
(* Send *)

SendStart ==
  /\ sender.pc = "idle" /\ last < MaxSends
  /\ last' = last + 1
  /\ sendCases' = sendCases \o inbox /\ inbox' = <<>>
  /\ cases' = Len(sendCases) + Len(inbox)
  /\ sender' = [pc |-> "try", i |-> 1]
  /\ UNCHANGED <<got, users>>

Room(s) == unread[s] < Cap

Put(i) ==
  /\ got' = [got EXCEPT ![sendCases[i]] = last]
  /\ unread' = [unread EXCEPT ![sendCases[i]] = @ + 1]
  /\ sendCases' = deactivate(sendCases, i, cases)
  /\ cases' = cases - 1

\* One round of the fast path.
TrySend ==
  /\ sender.pc = "try" /\ sender.i <= cases
  /\ \/ Room(sendCases[sender.i]) /\ Put(sender.i) /\ UNCHANGED sender
     \/ /\ ~Room(sendCases[sender.i])
        /\ sender' = [sender EXCEPT !.i = @ + 1]
        /\ UNCHANGED <<sendCases, cases, got, unread>>
  /\ UNCHANGED <<inbox, last, owner, removal, scope, closer>>

\* Without the break.
TriedAllWaits ==
  /\ sender.pc = "try" /\ sender.i > cases
  /\ sender' = [pc |-> "select", i |-> 1]
  /\ UNCHANGED <<inbox, sendCases, cases, last, got, users>>
\* All were tried: wait in the select, or hand off the lock.
TriedAll ==
  /\ sender.pc = "try" /\ sender.i > cases
  /\ sender' = [pc |-> IF cases = 0 THEN "idle" ELSE "select", i |-> 1]
  /\ UNCHANGED <<inbox, sendCases, cases, last, got, users>>

SelectSend ==
  /\ sender.pc = "select"
  /\ \E i \in 1 .. cases : Room(sendCases[i]) /\ Put(i)
  /\ sender' = [sender EXCEPT !.pc = "try"]
  /\ UNCHANGED <<inbox, last, owner, removal, scope, closer>>

\* The select receives a channel from removeSub.
SelectRemove(s) ==
  /\ sender.pc = "select" /\ removal[s] = "select"
  /\ sendCases' = delete(sendCases, find(sendCases, s))
  /\ cases' = ActiveWithout(s)
  /\ sender' = [sender EXCEPT !.pc = "try"]
  /\ removal' = [removal EXCEPT ![s] = "done"]
  /\ UNCHANGED <<inbox, last, got, unread, owner, scope, closer>>

----------------------------------------------------------------------------
(* Subscribe, Track and Unsubscribe *)

Subscribe(s) ==
  /\ owner[s] = "none"
  /\ inbox' = Append(inbox, s)
  /\ owner' = [owner EXCEPT ![s] = "subscribed"]
  /\ UNCHANGED <<sendCases, cases, sender, last, got, unread, removal, scope, closer>>

\* The scope's lock is held while it closes.
ScopeFree == closer.pc # "closing"

\* A scope that is closed returns nil: nobody has the subscription.
Track(s) ==
  /\ owner[s] = "subscribed" /\ ScopeFree
  /\ owner' = [owner EXCEPT ![s] = IF scope.closed THEN "nil" ELSE "loop"]
  /\ scope' = [scope EXCEPT !.subs = IF scope.closed THEN @ ELSE @ \cup {s}]
  /\ UNCHANGED <<feed, unread, removal, closer>>

Receive(s) ==
  /\ owner[s] = "loop" /\ unread[s] > 0
  /\ unread' = [unread EXCEPT ![s] = @ - 1]
  /\ UNCHANGED <<feed, owner, removal, scope, closer>>

\* Without the look into the inbox.
OnceNoInbox(s) ==
  /\ removal' = [removal EXCEPT ![s] = IF @ = "no" THEN "select" ELSE @]
  /\ UNCHANGED inbox
\* errOnce: the first call runs the removal, the others wait for its end.  The
\* removal begins with a look into the inbox.
Once(s) ==
  IF removal[s] # "no" THEN UNCHANGED <<inbox, removal>>
  ELSE \/ /\ find(inbox, s) # 0
          /\ inbox' = delete(inbox, find(inbox, s))
          /\ removal' = [removal EXCEPT ![s] = "done"]
       \/ /\ find(inbox, s) = 0 /\ UNCHANGED inbox
          /\ removal' = [removal EXCEPT ![s] = "select"]

Elsewhere == UNCHANGED <<sendCases, cases, sender, last, got, unread>>

Unsubscribe(s) ==
  /\ owner[s] = "loop"
  /\ owner' = [owner EXCEPT ![s] = "leave"] /\ Once(s) /\ Elsewhere
  /\ UNCHANGED <<scope, closer>>

Untrack(s) ==
  /\ owner[s] = "leave" /\ removal[s] = "done" /\ ScopeFree
  /\ owner' = [owner EXCEPT ![s] = "gone"]
  /\ unread' = [unread EXCEPT ![s] = 0]      \* its channel is dropped
  /\ scope' = [scope EXCEPT !.subs = @ \ {s}]
  /\ UNCHANGED <<feed, removal, closer>>

RemoveLocked(s) ==
  /\ removal[s] = "select" /\ sender.pc = "idle"
  /\ sendCases' = delete(sendCases, find(sendCases, s))
  /\ removal' = [removal EXCEPT ![s] = "done"]
  /\ UNCHANGED <<inbox, cases, sender, last, got, unread, owner, scope, closer>>

----------------------------------------------------------------------------
(* SubscriptionScope.Close *)

CloseStart ==
  /\ closer.pc = "idle"
  /\ closer' = [pc |-> "closing", todo |-> scope.subs]
  /\ scope' = [scope EXCEPT !.closed = TRUE]
  /\ UNCHANGED <<feed, unread, owner, removal>>

\* Waits for the subscribers to leave by themselves.
CloseOneWaits(s) ==
  /\ closer.pc = "closing" /\ s \in closer.todo /\ removal[s] = "done"
  /\ closer' = [closer EXCEPT !.todo = @ \ {s}]
  /\ UNCHANGED <<inbox, removal>> /\ Elsewhere /\ UNCHANGED <<owner, scope>>
CloseOne(s) ==
  /\ closer.pc = "closing" /\ s \in closer.todo
  /\ \/ removal[s] = "no" /\ Once(s) /\ UNCHANGED closer
     \/ /\ removal[s] = "done"
        /\ closer' = [closer EXCEPT !.todo = @ \ {s}] /\ UNCHANGED <<inbox, removal>>
  /\ Elsewhere /\ UNCHANGED <<owner, scope>>

CloseEnd ==
  /\ closer.pc = "closing" /\ closer.todo = {}
  /\ closer' = [closer EXCEPT !.pc = "done"]
  /\ scope' = [scope EXCEPT !.subs = {}]
  /\ UNCHANGED <<feed, unread, owner, removal>>

Send ==
  \/ SendStart \/ TrySend \/ TriedAll \/ SelectSend
  \/ \E s \in Subs : SelectRemove(s)
User(s) == Subscribe(s) \/ Track(s) \/ Receive(s) \/ Unsubscribe(s) \/ Untrack(s)
Serves(s) == unread[s] > 0 /\ (Receive(s) \/ Unsubscribe(s))
Closing == (\E s \in Subs : CloseOne(s)) \/ CloseEnd

Next ==
  \/ Send
  \/ \E s \in Subs : User(s) \/ RemoveLocked(s)
  \/ CloseStart \/ Closing

Spec == Init /\ [][Next]_vars

\* The scheduler runs every goroutine that can go on.  A subscriber in its loop
\* that has a value to read takes it or leaves.  Nothing makes Send be called.
Fairness ==
  /\ WF_vars(TrySend \/ TriedAll \/ SelectSend)
  /\ \A s \in Subs : /\ WF_vars(Track(s)) /\ WF_vars(Serves(s))
                     /\ WF_vars(Untrack(s))
                     /\ WF_vars(RemoveLocked(s) \/ SelectRemove(s))
  /\ WF_vars(Closing)

FairSpec == Spec /\ Fairness

----------------------------------------------------------------------------
(* Properties *)

\* The counters stay within the arrays and the buffers, and the loop of
\* Send over the prefix never runs past it (feed.go:151-161).
TypeOK ==
  /\ inbox \in Seq(Subs) /\ sendCases \in Seq(Subs)
  /\ cases \in 0 .. Len(sendCases)
  /\ sender \in [pc : {"idle", "try", "select"}, i : 1 .. cases + 1]
  /\ last \in 0 .. MaxSends /\ unread \in [Subs -> 0 .. Cap]
  /\ got \in [Subs -> 0 .. last]
  /\ owner \in [Subs -> {"none", "subscribed", "nil", "loop", "leave", "gone"}]
  /\ removal \in [Subs -> {"no", "select", "done"}]
  /\ scope \in [subs : SUBSET Subs, closed : BOOLEAN]
  /\ closer \in [pc : {"idle", "closing", "done"}, todo : SUBSET Subs]

\* A subscription is in exactly one of the two arrays, once, from Subscribe to
\* the end of its removal, whichever of the three ways of leaving it took: so
\* the caseList.find of a removal never misses, and delete is never called
\* with -1 (feed.go:113-122, :168-173).
ListedOnce ==
  LET all == inbox \o sendCases IN
    /\ TypeOK
    /\ Range(all) = {s \in Subs : owner[s] # "none" /\ removal[s] # "done"}
    /\ IsInjective(all)

\* The array and its prefix implement the set of subscriptions and the set of
\* those the running Send owes its value to, whatever is cut out of the array
\* meanwhile: those behind the prefix have the value and those in it do not, so
\* nobody is skipped and nobody gets it twice (feed.go:126-187).
Abstract == INSTANCE Broadcast WITH
  members <- Range(inbox) \cup Range(sendCases),
  sending <- sender.pc # "idle",
  owe <- IF sender.pc = "idle" THEN {} ELSE {sendCases[i] : i \in 1 .. cases}
ImplementsBroadcast == Abstract!Spec

\* Unsubscribe returns, also when the Send under way waits for the very
\* subscriber that calls it and no longer receives (feed.go:115-124), and so
\* does Close, although it holds the scope's lock while it waits for Sends and
\* subscribers that leave wait for that lock (subscription.go:247-275).  Each is
\* called once, so again and again nobody waits in it.
LeaversReturn ==
  /\ []<>(\A s \in Subs : owner[s] # "leave")
  /\ []<>(closer.pc # "closing")

\* Send returns if every subscriber receives or leaves.  A subscription made
\* after the scope was closed has no one who could do either (Track returns
\* nil, subscription.go:236-238), and such a one can block it for ever.
SendReturns == []<>(sender.pc = "idle" \/ \E s \in Subs : owner[s] = "nil")
=============================================================================
