---------------------------- MODULE Downloader -----------------------------
(***************************************************************************)
(* A sync session of fbc/downloader/downloader.go around its queue: the    *)
(* goroutines spawnSync starts.  processHeaders schedules headers, one     *)
(* fetchParts loop per kind asks peers for bodies and for receipts, the    *)
(* content processor imports what WaitResults hands out, and peers answer  *)
(* late, partly, with something else, or leave.                            *)
(*                                                                         *)
(* fetchParts handles one event of its select at a time (pc = "select");   *)
(* its update event is split where it gives up the lock of the queue:      *)
(* Update expires requests, Assign serves one idle peer (pc = "assign"),   *)
(* UpdateEnd looks at what came of it.                                     *)
(***************************************************************************)
EXTENDS DownloadQueue

CONSTANTS
  Master,        \* the peer synced with; the session ends when it is dropped
  Honest,        \* peers that answer every request with what was asked
  Pivots,        \* the pivots a session may have, 0 for a full sync
  Capacities,    \* how many parts a peer may be asked for at once
  ExpiryLimit,   \* a peer that lets a larger request expire is kept
  MaxFaults      \* bound: requests of registered peers that expire, peers that leave,
                 \* bad headers and failed imports

ASSUME DownloaderAssumption ==
  /\ Master \in Peers /\ Honest \subseteq Peers
  /\ Pivots \subseteq {v \in Nat : v = 0 \/ v + ForceVerify <= Height}
  /\ Capacities \subseteq Nat \ {0}
  /\ ExpiryLimit \in Nat /\ MaxFaults \in Nat

VARIABLES
  q,             \* the queue
  peers,         \* registered peers
  leaving,       \* peers that are unregistered but not revoked yet
  idle,          \* blockIdle and receiptIdle of each peer
  lacks,         \* the blocks a peer is known not to have
  net,           \* per kind and peer, the requests it will answer, in order
  headers,       \* processHeaders: "run", or how it returned
  wake,          \* is the final false in the wake channel?
  fetcher,       \* fetchParts of each kind
  consumer,      \* the content processor: "run", "wait" in WaitResults, or its end
  cancelled,     \* is cancelCh closed?
  faults         \* how many of those may still happen

vars == <<q, peers, leaving, idle, lacks, net, headers, wake, fetcher, consumer,
          cancelled, faults>>

Errors == {"errNoPeers", "errInvalidChain", "errPeersUnavailable", "errBadPeer",
           "errCanceled", "panic"}
Ended == Errors \cup {"nil"}

TypeOK ==
  /\ q.head \in 0 .. Height /\ q.offset \in 1 .. Height + 1
  /\ q.cache \in [Blocks -> {Nil} \cup 0 .. 2]
  /\ \A k \in Kinds : /\ q.pool[k] \subseteq Blocks /\ q.done[k] \subseteq Blocks
                      /\ q.task[k] \in [Blocks -> Nat]
                      /\ q.pend[k] \in [Peers -> SUBSET Blocks]
  /\ peers \subseteq Peers /\ leaving \subseteq Peers
  /\ idle \in [Kinds -> [Peers -> BOOLEAN]]
  /\ lacks \in [Peers -> SUBSET Blocks]
  /\ headers \in Ended \cup {"run"} /\ wake \in [Kinds -> BOOLEAN]
  /\ \A k \in Kinds : fetcher[k].pc \in Ended \cup {"select", "assign"}
  /\ consumer \in Ended \cup {"run", "wait"}

\* excused: something happened that explains why no request was made.
NewFetcher == [pc |-> "select", finished |-> FALSE, todo |-> {}, excused |-> FALSE]

Init ==
  /\ \E v \in Pivots : q = NewQueue(v)
  /\ peers = Peers /\ leaving = {}
  /\ idle = [k \in Kinds |-> [p \in Peers |-> TRUE]]
  /\ lacks = [p \in Peers |-> {}]
  /\ net = [k \in Kinds |-> [p \in Peers |-> <<>>]]
  /\ headers = "run" /\ wake = [k \in Kinds |-> FALSE]
  /\ fetcher = [k \in Kinds |-> NewFetcher]
  /\ consumer = "run" /\ cancelled = FALSE
  /\ faults = MaxFaults

WokenNever(signal) == consumer
Woken(signal) == IF signal /\ consumer = "wait" THEN "run" ELSE consumer

----------------------------------------------------------------------------
(* processHeaders *)

\* A chunk of c headers of which the first `fits` continue the chain.
ProcessHeaders ==
  /\ headers = "run"
  /\ \E c \in 1 .. Height - q.head : \E fits \in 0 .. c :
       /\ q' = Schedule(q, fits)
       /\ \/ fits = c /\ UNCHANGED <<headers, faults>>
          \/ fits < c /\ faults > 0 /\ faults' = faults - 1 /\ headers' = "errBadPeer"
  /\ UNCHANGED <<peers, leaving, idle, lacks, net, wake, fetcher, consumer, cancelled>>

\* The stream of headers ended: the fetchers are told with a final false.
HeadersDone ==
  /\ headers = "run" /\ q.head = Height
  /\ headers' = "nil" /\ wake' = [k \in Kinds |-> TRUE]
  /\ UNCHANGED <<q, peers, leaving, idle, lacks, net, fetcher, consumer, cancelled, faults>>

HeadersCancelled ==
  /\ headers = "run" /\ cancelled
  /\ headers' = "errCanceled"
  /\ UNCHANGED <<q, peers, leaving, idle, lacks, net, wake, fetcher, consumer, cancelled, faults>>

----------------------------------------------------------------------------
(* fetchParts *)

Wake(k) ==
  /\ fetcher[k].pc = "select" /\ wake[k]
  /\ wake' = [wake EXCEPT ![k] = FALSE]
  /\ fetcher' = [fetcher EXCEPT ![k].finished = TRUE]
  /\ UNCHANGED <<q, peers, leaving, idle, lacks, net, headers, consumer, cancelled, faults>>

FetchCancelled(k) ==
  /\ fetcher[k].pc = "select" /\ cancelled
  /\ fetcher' = [fetcher EXCEPT ![k].pc = "errCanceled"]
  /\ UNCHANGED <<q, peers, leaving, idle, lacks, net, headers, wake, consumer, cancelled, faults>>

\* What fetchParts does when all is requested: the queue may still be
\* filled by processHeaders, or by requests that come back.
CompletedInFlight(k, Q) == fetcher[k].finished   \* requests under way are forgotten
Completed(k, Q) == ~InFlight(Q, k) /\ fetcher[k].finished

\* A packet sets the peer idle again unless it was taken for a late one.
IdlesOnData(err) == err = "none"   \* an answer without a request is ignored
Idles(err) == err # "errStaleDelivery"

\* The requests of the peers in X expired.  A peer that timed out on a small
\* request is dropped: it is unregistered and its other request is revoked.
Expire(k, X) ==
  LET drop == {p \in X \cap peers : Cardinality(q.pend[k][p]) <= ExpiryLimit}
      Q == Return(Return(Return(q, k, X), "body", drop), "receipt", drop)
      live == peers \ drop
      idles == {p \in live : idle[k][p] \/ p \in X}
  IN /\ q' = Q
     /\ peers' = live
     /\ idle' = [idle EXCEPT ![k] = [p \in Peers |-> @[p] \/ p \in (X \cap peers) \ drop]]
     /\ cancelled' = (cancelled \/ Master \in drop)
     /\ faults' = faults - Cardinality(X \cap peers)
     /\ fetcher' = [fetcher EXCEPT ![k] =
          IF Tasks(Q, k) = {} THEN [@ EXCEPT !.pc = IF Completed(k, Q) THEN "nil" ELSE "select"]
          ELSE [@ EXCEPT !.pc = "assign", !.todo = idles,
                         !.excused = InFlight(Q, k) \/ idles # live]]

Update(k) ==
  /\ fetcher[k].pc = "select"
  /\ IF peers = {}
     THEN /\ fetcher' = [fetcher EXCEPT ![k].pc = "errNoPeers"]
          /\ UNCHANGED <<q, peers, idle, cancelled, faults>>
     ELSE \E X \in SUBSET {p \in Peers : q.pend[k][p] # {}} :
            Cardinality(X \cap peers) <= faults /\ Expire(k, X)
  /\ UNCHANGED <<leaving, lacks, net, headers, wake, consumer>>

\* One round of the loop over the idle peers: throttled, out of tasks, or a
\* reservation for p.  A request the peer object refuses is a panic.
Assign(k, p) ==
  /\ fetcher[k].pc = "assign" /\ p \in fetcher[k].todo
  /\ \/ /\ Space(q, k) <= 0 \/ Tasks(q, k) = {}
        /\ fetcher' = [fetcher EXCEPT ![k].todo = {}, ![k].excused = @ \/ Space(q, k) <= 0]
        /\ UNCHANGED <<q, idle, net, consumer>>
     \/ /\ q.pend[k][p] # {} /\ Space(q, k) > 0 /\ Tasks(q, k) # {}
        /\ fetcher' = [fetcher EXCEPT ![k].todo = @ \ {p}]
        /\ UNCHANGED <<q, idle, net, consumer>>
     \/ /\ q.pend[k][p] = {} /\ Space(q, k) > 0 /\ Tasks(q, k) # {}
        /\ \E c \in Capacities : \E r \in {reserveHeaders(q, k, p, c, lacks[p])} :
             LET asked == r.send # {}
             IN /\ q' = r.queue
                /\ consumer' = Woken(r.progress)
                /\ idle' = [idle EXCEPT ![k][p] = @ /\ ~asked]
                /\ net' = [net EXCEPT ![k][p] = IF asked THEN Append(@, r.send) ELSE @]
                /\ fetcher' = [fetcher EXCEPT
                     ![k].pc = CASE r.invalid -> "errInvalidChain"
                                 [] asked /\ ~idle[k][p] -> "panic"
                                 [] OTHER -> @,
                     ![k].todo = @ \ {p},
                     ![k].excused = @ \/ r.progress \/ asked]
  /\ UNCHANGED <<peers, leaving, lacks, headers, wake, cancelled, faults>>

Unavailable(k) == ~fetcher[k].excused /\ Tasks(q, k) # {}

\* All peers were tried and none could be asked.
UpdateEnd(k) ==
  /\ fetcher[k].pc = "assign" /\ fetcher[k].todo = {}
  /\ fetcher' = [fetcher EXCEPT
       ![k].pc = IF Unavailable(k) THEN "errPeersUnavailable"
                 ELSE "select",
       ![k].excused = FALSE]
  /\ UNCHANGED <<q, peers, leaving, idle, lacks, net, headers, wake, consumer, cancelled, faults>>

\* A packet arrives.  One of an unregistered peer is ignored.
Deliver(k, p, items) ==
  LET r == deliver(q, k, p, items)
  IN
  /\ fetcher[k].pc = "select" /\ net[k][p] # <<>>
  /\ net' = [net EXCEPT ![k][p] = Tail(@)]
  /\ IF p \notin peers THEN UNCHANGED <<q, idle, lacks, fetcher, consumer>>
     ELSE /\ q' = r.queue
          /\ consumer' = Woken(r.accepted > 0)
          /\ lacks' = [lacks EXCEPT ![p] = @ \cup r.lacking]
          /\ idle' = [idle EXCEPT ![k][p] = @ \/ Idles(r.err)]
          /\ fetcher' = [fetcher EXCEPT ![k].pc = IF r.err = "errInvalidChain" THEN r.err ELSE @]
  /\ UNCHANGED <<peers, leaving, headers, wake, cancelled, faults>>

\* Peers answer their requests in order: an honest one with a part of what
\* it was asked for, another one with anything or not at all.
Junk == 0
Sorted(S) ==
  CHOOSE s \in [1 .. Cardinality(S) -> S] : \A i, j \in DOMAIN s : i < j => s[i] < s[j]

Answer(k, p) ==
  /\ net[k][p] # <<>>
  /\ LET asked == Sorted(Head(net[k][p]))
     IN \/ p \in Honest /\ \E j \in 1 .. Len(asked) : Deliver(k, p, SubSeq(asked, 1, j))
        \/ p \notin Honest /\ \E j \in 0 .. Len(asked), tail \in {<<>>, <<Junk>>} :
             Deliver(k, p, SubSeq(asked, 1, j) \o tail)

----------------------------------------------------------------------------
(* UnregisterPeer, spawnSync and the content processor *)

Unregister(p) ==
  /\ p \in peers /\ faults > 0
  /\ peers' = peers \ {p} /\ leaving' = leaving \cup {p}
  /\ faults' = faults - 1
  /\ UNCHANGED <<q, idle, lacks, net, headers, wake, fetcher, consumer, cancelled>>

RevokePeer(p) ==
  /\ p \in leaving
  /\ leaving' = leaving \ {p}
  /\ q' = Revoke(q, p)
  /\ cancelled' = (cancelled \/ p = Master)
  /\ UNCHANGED <<peers, idle, lacks, net, headers, wake, fetcher, consumer, faults>>

Results == {headers, fetcher["body"].pc, fetcher["receipt"].pc, consumer}

\* spawnSync closes the queue when the others returned nil, and cancels the
\* session at the first error and when all are done.
CloseQueue ==
  /\ ~q.closed \/ ~cancelled
  /\ \/ Results \cap Errors # {} /\ cancelled' = TRUE
     \/ Results = {"nil"} /\ cancelled' = TRUE
     \/ /\ ~q.closed /\ Results \ {consumer} = {"nil"}
        /\ UNCHANGED cancelled
  /\ q' = [q EXCEPT !.closed = TRUE]
  /\ consumer' = Woken(TRUE)
  /\ UNCHANGED <<peers, leaving, idle, lacks, net, headers, wake, fetcher, faults>>

WaitResults ==
  /\ consumer = "run"
  /\ \/ /\ Processable(q) = {}
        /\ consumer' = IF q.closed THEN "nil" ELSE "wait"
        /\ UNCHANGED <<q, faults>>
     \/ /\ Processable(q) # {} /\ q' = TakeResults(q)
        /\ \/ UNCHANGED <<consumer, faults>>
           \/ consumer' = "errInvalidChain" /\ faults > 0 /\ faults' = faults - 1
  /\ UNCHANGED <<peers, leaving, idle, lacks, net, headers, wake, fetcher, cancelled>>

Over == Results \subseteq Ended /\ cancelled /\ q.closed

Next ==
  \/ ProcessHeaders \/ HeadersDone \/ HeadersCancelled
  \/ \E k \in Kinds : \/ Wake(k) \/ FetchCancelled(k) \/ Update(k) \/ UpdateEnd(k)
                      \/ \E p \in Peers : Assign(k, p) \/ Answer(k, p)
  \/ \E p \in Peers : Unregister(p) \/ RevokePeer(p)
  \/ CloseQueue \/ WaitResults
  \/ Over /\ UNCHANGED vars

Spec == Init /\ [][Next]_vars

\* The ticker makes update ready again and again and finds the requests of
\* peers that left expired in the end; Go's select picks at random among the
\* ready cases, so a packet, a wake or a cancellation is received in the end;
\* peers answer, and the other goroutines run.
Receive(k) == Wake(k) \/ FetchCancelled(k) \/ \E p \in Peers : Answer(k, p)
ExpiringUpdate(k) == Update(k) /\ \A p \in Peers \ peers : q'.pend[k][p] = {}

Fairness ==
  /\ WF_vars((ProcessHeaders /\ headers' = "run") \/ HeadersDone \/ HeadersCancelled)
  /\ \A k \in Kinds : /\ SF_vars(Receive(k)) /\ SF_vars(ExpiringUpdate(k))
                      /\ WF_vars(UpdateEnd(k) \/ \E p \in Peers : Assign(k, p))
  /\ WF_vars(\E p \in Peers : RevokePeer(p))
  /\ WF_vars(CloseQueue \/ WaitResults)

FairSpec == Spec /\ Fairness

----------------------------------------------------------------------------
(* Properties *)

\* reserveHeaders, deliver, expire and Revoke move a part between the task
\* queue and the requests: a part that is still wanted is in exactly one of
\* them, once, and a part that was delivered is in none.  Pending of a cached
\* result counts the parts that are still wanted, so WaitResults hands out a
\* block only when its body and, up to the pivot, its receipts are there, and
\* no block before the window is wanted again.
EachPartOnce ==
  /\ TypeOK
  /\ \A k \in Kinds, n \in Blocks :
       q.task[k][n] + Cardinality({p \in Peers : n \in q.pend[k][p]})
         = IF n \in q.pool[k] THEN 1 ELSE 0
  /\ \A n \in Blocks :
       LET wanted == {k \in Kinds : n \in q.pool[k]}
       IN /\ q.cache[n] # Nil => q.cache[n] = Cardinality(wanted)
          /\ n < q.offset => wanted = {} /\ q.cache[n] = Nil
          /\ n >= q.offset /\ n <= q.head =>
               \A k \in Parts(q, n) : n \in q.done[k] <=> n \notin q.pool[k]

\* The throttle keeps every reservation inside the result cache, however it
\* interleaves with deliveries, no-ops and WaitResults: the "index allocation
\* went beyond available resultCache space" error of reserveHeaders, its twin in
\* deliver and the "fetch assignment failed" panic of fetchParts never happen.
NeverBeyondWindow ==
  \A k \in Kinds : fetcher[k].pc \notin {"errInvalidChain", "panic"}

\* WaitResults sleeps although there is something to hand out only while
\* a delivery that will signal it is still to come, and never on a closed queue.
NoLostWakeup ==
  consumer = "wait" =>
    /\ ~q.closed
    /\ Processable(q) # {} => \E n \in Window(q) : q.cache[n] > 0

\* A session whose goroutines all return nil has handed out every block:
\* neither fetchParts nor the content processor stops early.
NilMeansComplete == Results = {"nil"} => q.offset = Height + 1

\* With an honest peer in the set every session comes to its end: no goroutine
\* waits for ever for a peer that will not be asked again.
SessionEnds == <>[](Over \/ peers \cap Honest = {})
============================================================================
