------------------------- MODULE DownloaderProofs -------------------------
(***************************************************************************)
(* A sync session of Downloader, for any finite set of peers, any height   *)
(* and any window: the pools of the queue never lose or double a part, no  *)
(* reservation leaves the window, the importer never sleeps through a      *)
(* result, and a session that ends without an error is complete.           *)
(***************************************************************************)
EXTENDS Downloader, DownloadQueueProofs

\* The prover of a leaf that names no other one.
USE ZenonT(60)

-----------------------------------------------------------------------------
(* The inductive invariant of a session *)

\* The goroutines around the queue.  A fetcher knows that the headers are
\* complete before it may stop; a peer on its list is idle; the queue is
\* closed for an error or when there is nothing left to come.
SessionType ==
  /\ idle \in [Kinds -> [Peers -> BOOLEAN]]
  /\ peers \subseteq Peers /\ leaving \subseteq Peers
  /\ lacks \in [Peers -> SUBSET Blocks] /\ wake \in [Kinds -> BOOLEAN]
  /\ headers \in Ended \cup {"run"} /\ consumer \in Ended \cup {"run", "wait"}
  /\ fetcher \in [Kinds -> [pc : Ended \cup {"select", "assign"}, finished : BOOLEAN,
                            todo : SUBSET Peers, excused : BOOLEAN]]

FetcherInv(k) ==
  /\ fetcher[k].pc \notin {"errInvalidChain", "panic"}
  /\ fetcher[k].pc = "assign" => \A p \in fetcher[k].todo : idle[k][p]
  /\ wake[k] \/ fetcher[k].finished => headers = "nil"
  /\ fetcher[k].pc = "nil" => headers = "nil" /\ q.pool[k] = {}

Failed == Results \cap Errors # {}

SessionInv ==
  /\ QueueInv(q) /\ q.pivot \in Pivots /\ SessionType
  /\ \A k \in Kinds : FetcherInv(k)
  /\ headers = "nil" => q.head = Height
  /\ q.closed => Failed \/ (headers = "nil" /\ \A k \in Kinds : fetcher[k].pc = "nil")
  /\ consumer = "nil" => Failed \/ q.offset = Height + 1
  /\ NoLostWakeup

-----------------------------------------------------------------------------
(* What the goroutines of a session keep *)

(* A queue whose results did not change has the same results to hand out.  *)
LEMMA SameWindow ==
  ASSUME NEW Q, NEW R, SameResults(Q, R)
  PROVE  Window(R) = Window(Q) /\ Processable(R) = Processable(Q)
<1>1. Window(R) = Window(Q)
  BY DEF Window, SameResults
<1>2. \A n : Ready(R, n) <=> Ready(Q, n)
  BY <1>1 DEF Ready, SameResults
<1> QED BY <1>1, <1>2 DEF Processable, SameResults

(* WaitResults sleeps on as long as the results stay as they are, ... *)
LEMMA WakeStays ==
  ASSUME NoLostWakeup, SameResults(q, q'), consumer' = "wait" => consumer = "wait"
  PROVE  NoLostWakeup'
<1>1. Window(q') = Window(q) /\ Processable(q') = Processable(q)
  BY SameWindow
<1> QED BY <1>1 DEF NoLostWakeup, SameResults

(* ... or as long as a result waits for a part that will be delivered. *)
LEMMA WakeToCome ==
  ASSUME consumer' = "wait" => ~q'.closed /\ \E n \in Window(q') : q'.cache[n] > 0
  PROVE  NoLostWakeup'
BY DEF NoLostWakeup

\* What returned stays returned.
Stable ==
  /\ headers \in Ended => headers' = headers
  /\ \A k \in Kinds : fetcher[k].pc \in Ended => fetcher'[k].pc = fetcher[k].pc
  /\ consumer \in Ended => consumer' = consumer

EndInv ==
  /\ q.closed => Failed \/ (headers = "nil" /\ \A k \in Kinds : fetcher[k].pc = "nil")
  /\ consumer = "nil" => Failed \/ q.offset = Height + 1

(* spawnSync keeps the first error. *)
LEMMA FailedStays ==
  ASSUME Failed, Stable PROVE Failed'
<1>1. PICK x \in Results : x \in Errors
  BY DEF Failed
<1>2. x \in Ended
  BY <1>1 DEF Ended
<1>3. x \in Results'
  BY <1>2 DEF Results, Stable, Kinds
<1> QED BY <1>1, <1>3 DEF Failed

(* A queue that was closed stays closed for a reason. *)
LEMMA EndStays ==
  ASSUME EndInv, Stable, q'.closed => q.closed, consumer' = "nil" => consumer = "nil",
         consumer = "nil" => q'.offset = q.offset
  PROVE  EndInv'
<1>1. Failed => Failed'
  BY FailedStays
<1>2. "nil" \in Ended
  BY DEF Ended
<1> QED BY <1>1, <1>2 DEF EndInv, Stable

(* All is requested and no request is under way: nothing is wanted. *)
LEMMA NothingWanted ==
  ASSUME NEW Q, QueueInv(Q), NEW k \in Kinds, Tasks(Q, k) = {}, ~InFlight(Q, k)
  PROVE  Q.pool[k] = {}
<1> SUFFICES ASSUME NEW n \in Q.pool[k] PROVE FALSE
  OBVIOUS
<1>1. n \in Blocks
  BY DEF QueueInv, QueueType
<1>2. PartInv(Q, k, n) /\ ~Asked(Q, k, n)
  BY <1>1 DEF QueueInv, InFlight, Asked
<1>3. Q.task[k][n] = 1
  BY <1>2 DEF PartInv
<1>4. n \in Tasks(Q, k)
  BY <1>1, <1>3, SMTT(30) DEF Tasks
<1> QED BY <1>4

(* The parts of SessionInv, for the proofs about the actions. *)
LEMMA SessionParts ==
  SessionInv <=> /\ QueueInv(q) /\ q.pivot \in Pivots /\ SessionType
                 /\ \A k \in Kinds : FetcherInv(k)
                 /\ headers = "nil" => q.head = Height
                 /\ EndInv /\ NoLostWakeup
BY DEF SessionInv, EndInv

(* A session starts with an empty queue. *)
LEMMA InitInv == Init => SessionInv
<1> SUFFICES ASSUME Init PROVE SessionInv
  OBVIOUS
<1>1. PICK v \in Pivots : q = NewQueue(v)
  BY DEF Init
<1>2. v \in Nat /\ Height \in Nat /\ Blocks \subseteq Nat \ {0}
  BY DownloaderAssumption, FiniteBlocks
<1>3. QueueType(q)
  BY <1>1, <1>2, SMTT(30) DEF NewQueue, QueueType
<1>4. ASSUME NEW k \in Kinds, NEW n \in Blocks PROVE PartInv(q, k, n)
  <2>1. /\ q.task[k][n] = 0 /\ q.pool[k] = {} /\ q.done[k] = {} /\ q.head = 0
        /\ \A p \in Peers : q.pend[k][p] = {}
    BY <1>1 DEF NewQueue
  <2>2. ~(n <= q.head)
    BY <1>2, <2>1, SMTT(30)
  <2> QED BY <2>1, <2>2 DEF PartInv
<1>5. ASSUME NEW n \in Blocks PROVE ResultInv(q, n)
  BY <1>1 DEF NewQueue, ResultInv
<1>6. QueueInv(q) /\ q.pivot \in Pivots /\ ~q.closed
  <2>1. q.offset = 1 /\ q.head = 0 /\ q.pivot = v /\ q.closed = FALSE
    BY <1>1 DEF NewQueue
  <2> QED BY <1>3, <1>4, <1>5, <2>1, SMTT(30) DEF QueueInv
<1>7. SessionType
  BY DEF Init, SessionType, NewFetcher
<1>8. \A k \in Kinds : FetcherInv(k)
  BY DEF Init, FetcherInv, NewFetcher
<1> QED
  BY <1>6, <1>7, <1>8, SessionParts DEF Init, EndInv, NoLostWakeup


-----------------------------------------------------------------------------
(* The actions keep the invariant *)

(* processHeaders runs until it returns: while it does, no fetcher knows   *)
(* the headers to be complete.                                             *)
LEMMA HeadersInv ==
  ASSUME SessionInv, ProcessHeaders \/ HeadersDone \/ HeadersCancelled
  PROVE  SessionInv'
<1>0. /\ QueueInv(q) /\ q.pivot \in Pivots /\ SessionType /\ EndInv /\ NoLostWakeup
      /\ \A k \in Kinds : FetcherInv(k)
      /\ headers = "run" /\ consumer' = consumer /\ fetcher' = fetcher
      /\ "run" \notin Ended /\ "run" # "nil"
  BY SessionParts DEF ProcessHeaders, HeadersDone, HeadersCancelled, Ended, Errors
<1>1. Stable
  BY <1>0 DEF Stable
<1>2. \A k \in Kinds : ~wake[k] /\ ~fetcher[k].finished /\ fetcher[k].pc # "nil"
  BY <1>0 DEF FetcherInv
<1>3. CASE ProcessHeaders
  <2>0. PICK c \in 1 .. Height - q.head : \E fits \in 0 .. c :
          /\ q' = Schedule(q, fits)
          /\ headers' = headers \/ headers' = "errBadPeer"
    BY <1>3 DEF ProcessHeaders
  <2>1. PICK fits \in 0 .. c : /\ q' = Schedule(q, fits)
                               /\ headers' = headers \/ headers' = "errBadPeer"
    BY <2>0
  <2>2. fits \in Nat /\ q.head + fits <= Height
    BY <1>0, FiniteBlocks, SMTT(30) DEF QueueInv, QueueType
  <2>3. QueueInv(q') /\ SameResults(q, q')
    BY <1>0, <2>1, <2>2, ScheduleInv
  <2>4. SessionType'
    BY <1>0, <1>3, <2>1 DEF SessionType, ProcessHeaders, Ended, Errors
  <2>5. ASSUME NEW k \in Kinds PROVE FetcherInv(k)'
    BY <1>0, <1>2, <1>3 DEF FetcherInv, ProcessHeaders
  <2>6. EndInv' /\ NoLostWakeup'
    BY <1>0, <1>1, <2>3, EndStays, WakeStays DEF SameResults
  <2>7. headers' # "nil" /\ q'.pivot \in Pivots
    BY <1>0, <2>1, <2>3 DEF SameResults
  <2> QED BY <2>3, <2>4, <2>5, <2>6, <2>7 DEF SessionInv, EndInv
<1>4. CASE HeadersDone \/ HeadersCancelled
  <2>1. q' = q /\ SameResults(q, q') /\ headers' \in {"nil", "errCanceled"}
    BY <1>4 DEF HeadersDone, HeadersCancelled, SameResults
  <2>2. SessionType'
    BY <1>0, <1>4 DEF SessionType, HeadersDone, HeadersCancelled, Ended, Errors
  <2>3. ASSUME NEW k \in Kinds PROVE FetcherInv(k)'
    BY <1>0, <1>2, <1>4 DEF FetcherInv, HeadersDone, HeadersCancelled
  <2>4. EndInv' /\ NoLostWakeup'
    BY <1>0, <1>1, <2>1, EndStays, WakeStays
  <2>5. headers' = "nil" => q'.head = Height
    BY <1>4, <2>1 DEF HeadersDone, HeadersCancelled
  <2> QED BY <1>0, <2>1, <2>2, <2>3, <2>4, <2>5 DEF SessionInv, EndInv
<1> QED BY <1>3, <1>4 

(* The events of fetchParts that leave the queue alone. *)
LEMMA FetchInv ==
  ASSUME SessionInv, NEW k \in Kinds, Wake(k) \/ FetchCancelled(k) \/ UpdateEnd(k)
  PROVE  SessionInv'
<1>0. /\ QueueInv(q) /\ q.pivot \in Pivots /\ SessionType /\ EndInv /\ NoLostWakeup
      /\ \A j \in Kinds : FetcherInv(j)
      /\ headers = "nil" => q.head = Height
  BY SessionParts
<1>1. /\ q' = q /\ headers' = headers /\ consumer' = consumer /\ idle' = idle
      /\ \A j \in Kinds : wake'[j] => wake[j]
      /\ SameResults(q, q')
  BY <1>0 DEF Wake, FetchCancelled, UpdateEnd, SameResults, SessionType
<1>2. fetcher[k].pc \in {"select", "assign"} /\ fetcher[k].pc \notin Ended
  BY DEF Wake, FetchCancelled, UpdateEnd, Ended, Errors
<1>3. /\ \A j \in Kinds \ {k} : fetcher'[j] = fetcher[j]
      /\ fetcher'[k].pc \in {fetcher[k].pc, "errCanceled", "errPeersUnavailable", "select"}
      /\ fetcher'[k].finished => fetcher[k].finished \/ wake[k]
      /\ fetcher'[k].todo = fetcher[k].todo
  BY <1>0, SMTT(30) DEF Wake, FetchCancelled, UpdateEnd, SessionType
<1>4. SessionType'
  <2>0. {"select", "errCanceled", "errPeersUnavailable"} \subseteq Ended \cup {"select", "assign"}
    BY DEF Ended, Errors
  <2>1. CASE Wake(k)
    BY <1>0, <2>1 DEF Wake, SessionType
  <2>2. CASE FetchCancelled(k)
    BY <1>0, <2>0, <2>2 DEF FetchCancelled, SessionType
  <2>3. CASE UpdateEnd(k)
    <3> DEFINE pc == IF Unavailable(k) THEN "errPeersUnavailable" ELSE "select"
    <3>1. fetcher' = [fetcher EXCEPT ![k].pc = pc, ![k].excused = FALSE]
      BY <2>3 DEF UpdateEnd
    <3>2. pc \in Ended \cup {"select", "assign"}
      BY <2>0
    <3> HIDE DEF pc
    <3>3. fetcher' \in [Kinds -> [pc : Ended \cup {"select", "assign"}, finished : BOOLEAN,
                                  todo : SUBSET Peers, excused : BOOLEAN]]
      <4> DEFINE T == [pc : Ended \cup {"select", "assign"}, finished : BOOLEAN,
                       todo : SUBSET Peers, excused : BOOLEAN]
                 f == [fetcher[k] EXCEPT !.pc = pc, !.excused = FALSE]
      <4>1. fetcher \in [Kinds -> T]
        BY <1>0 DEF SessionType
      <4>2. f \in T
        BY <3>2, <4>1
      <4>3. fetcher' = [fetcher EXCEPT ![k] = f]
        BY <3>1, <4>1
      <4> HIDE DEF T, f
      <4>4. fetcher' \in [Kinds -> T]
        BY <4>1, <4>2, <4>3
      <4> QED BY <4>4 DEF T
    <3> QED BY <1>0, <2>3, <3>3 DEF UpdateEnd, SessionType
  <2> QED BY <2>1, <2>2, <2>3
<1>5. ASSUME NEW j \in Kinds PROVE FetcherInv(j)'
  <2>1. FetcherInv(j)
    BY <1>0
  <2>2. CASE j # k
    BY <1>1, <1>3, <2>1, <2>2 DEF FetcherInv
  <2>3. CASE j = k
    BY <1>1, <1>2, <1>3, <2>1, <2>3 DEF FetcherInv
  <2> QED BY <2>2, <2>3
<1>6. Stable
  BY <1>1, <1>2, <1>3 DEF Stable
<1>7. EndInv' /\ NoLostWakeup'
  BY <1>0, <1>1, <1>6, EndStays, WakeStays
<1> QED
  BY <1>0, <1>1, <1>4, <1>5, <1>7 DEF SessionInv, EndInv


(* An update returns requests, drops peers and lists the idle ones; it may *)
(* find that all is done.                                                  *)
LEMMA UpdateInv ==
  ASSUME SessionInv, NEW k \in Kinds, Update(k)
  PROVE  SessionInv'
<1>0. /\ QueueInv(q) /\ q.pivot \in Pivots /\ SessionType /\ EndInv /\ NoLostWakeup
      /\ \A j \in Kinds : FetcherInv(j)
      /\ headers = "nil" => q.head = Height
  BY SessionParts
<1>1. /\ headers' = headers /\ consumer' = consumer /\ wake' = wake /\ leaving' = leaving
      /\ lacks' = lacks /\ fetcher[k].pc = "select"
  BY DEF Update
<1>2. CASE peers = {}
  <2>1. /\ fetcher' = [fetcher EXCEPT ![k].pc = "errNoPeers"]
        /\ q' = q /\ peers' = peers /\ idle' = idle /\ SameResults(q, q')
    BY <1>2 DEF Update, SameResults
  <2>2. "select" \notin Ended /\ "errNoPeers" \in Ended
    BY DEF Ended, Errors
  <2>3. SessionType'
    <3> DEFINE T == [pc : Ended \cup {"select", "assign"}, finished : BOOLEAN,
                     todo : SUBSET Peers, excused : BOOLEAN]
               f == [fetcher[k] EXCEPT !.pc = "errNoPeers"]
    <3>1. fetcher \in [Kinds -> T]
      BY <1>0 DEF SessionType
    <3>2. f \in T
      BY <2>2, <3>1
    <3>3. fetcher' = [fetcher EXCEPT ![k] = f]
      BY <2>1, <3>1
    <3> HIDE DEF T, f
    <3>4. fetcher' \in [Kinds -> T]
      BY <3>1, <3>2, <3>3
    <3> QED BY <1>0, <1>1, <2>1, <3>4 DEF SessionType, T
  <2>4. ASSUME NEW j \in Kinds PROVE FetcherInv(j)'
    BY <1>0, <1>1, <2>1 DEF FetcherInv, SessionType
  <2>5. Stable
    BY <1>0, <1>1, <2>1, <2>2 DEF Stable, SessionType
  <2>6. EndInv' /\ NoLostWakeup'
    BY <1>0, <1>1, <2>1, <2>5, EndStays, WakeStays
  <2> QED BY <1>0, <1>1, <2>1, <2>3, <2>4, <2>6 DEF SessionInv, EndInv
<1>3. CASE peers # {}
  <2>1. PICK X \in SUBSET {p \in Peers : q.pend[k][p] # {}} : Expire(k, X)
    BY <1>3 DEF Update
  <2> DEFINE drop == {p \in X \cap peers : Cardinality(q.pend[k][p]) <= ExpiryLimit}
             Q1 == Return(q, k, X)
             Q2 == Return(Q1, "body", drop)
             Q == Return(Q2, "receipt", drop)
             live == peers \ drop
             idles == {p \in live : idle[k][p] \/ p \in X}
             after == IF Tasks(Q, k) = {}
                      THEN [fetcher[k] EXCEPT !.pc = IF Completed(k, Q) THEN "nil" ELSE "select"]
                      ELSE [fetcher[k] EXCEPT !.pc = "assign", !.todo = idles,
                                              !.excused = InFlight(Q, k) \/ idles # live]
  <2>2. /\ q' = Q /\ peers' = live /\ fetcher' = [fetcher EXCEPT ![k] = after]
        /\ idle' = [idle EXCEPT ![k] = [p \in Peers |-> @[p] \/ p \in (X \cap peers) \ drop]]
    BY <2>1 DEF Expire
  <2>3. X \in SUBSET Peers /\ drop \in SUBSET Peers /\ drop \subseteq X
    BY <1>0 DEF SessionType
  <2> HIDE DEF drop
  <2>4. QueueInv(Q) /\ SameResults(q, Q) /\ Q.head = q.head /\ Q.pool = q.pool
    <3>1. QueueInv(Q1) /\ SameResults(q, Q1) /\ Q1.head = q.head /\ Q1.pool = q.pool
      BY <1>0, <2>3, ReturnInv
    <3> HIDE DEF Q1
    <3>2. QueueInv(Q2) /\ SameResults(Q1, Q2) /\ Q2.head = Q1.head /\ Q2.pool = Q1.pool
      BY <2>3, <3>1, ReturnInv DEF Kinds
    <3> HIDE DEF Q2
    <3>3. QueueInv(Q) /\ SameResults(Q2, Q) /\ Q.head = Q2.head /\ Q.pool = Q2.pool
      BY <2>3, <3>2, ReturnInv DEF Kinds
    <3> HIDE DEF Q
    <3> QED BY <3>1, <3>2, <3>3 DEF SameResults
  <2> HIDE DEF Q
  <2>5. /\ after.pc \in {"nil", "select", "assign"} /\ after.finished = fetcher[k].finished
        /\ after.pc = "nil" => q.pool[k] = {} /\ fetcher[k].finished
        /\ after.pc = "assign" => after.todo = idles
        /\ after \in [pc : Ended \cup {"select", "assign"}, finished : BOOLEAN,
                      todo : SUBSET Peers, excused : BOOLEAN]
    <3>1. fetcher[k] \in [pc : Ended \cup {"select", "assign"}, finished : BOOLEAN,
                          todo : SUBSET Peers, excused : BOOLEAN]
      BY <1>0 DEF SessionType
    <3>2. idles \in SUBSET Peers
      BY <1>0 DEF SessionType
    <3>3. "nil" \in Ended
      BY DEF Ended
    <3>4. CASE Tasks(Q, k) = {}
      <4>1. Completed(k, Q) => q.pool[k] = {} /\ fetcher[k].finished
        BY <2>4, <3>4, NothingWanted DEF Completed
      <4> QED BY <3>1, <3>3, <3>4, <4>1
    <3>5. CASE Tasks(Q, k) # {}
      <4> HIDE DEF idles
      <4>1. (InFlight(Q, k) \/ idles # live) \in BOOLEAN
        BY DEF InFlight
      <4> QED BY <3>1, <3>2, <3>5, <4>1
    <3> QED BY <3>4, <3>5
  <2>6. \A p \in idles : idle'[k][p]
    BY <1>0, <2>2, <2>3 DEF SessionType
  <2>7. /\ \A j \in Kinds \ {k} : fetcher'[j] = fetcher[j] /\ idle'[j] = idle[j]
        /\ fetcher'[k] = after
    BY <1>0, <2>2 DEF SessionType
  <2> HIDE DEF after, idles
  <2>8. SessionType'
    <3>1. fetcher' \in [Kinds -> [pc : Ended \cup {"select", "assign"}, finished : BOOLEAN,
                                  todo : SUBSET Peers, excused : BOOLEAN]]
      BY <1>0, <2>2, <2>5 DEF SessionType
    <3>2. idle' \in [Kinds -> [Peers -> BOOLEAN]] /\ peers' \subseteq Peers
      BY <1>0, <2>2 DEF SessionType
    <3> QED BY <1>0, <1>1, <3>1, <3>2 DEF SessionType
  <2>9. ASSUME NEW j \in Kinds PROVE FetcherInv(j)'
    <3>1. FetcherInv(j)
      BY <1>0
    <3>2. CASE j # k
      BY <1>1, <2>2, <2>4, <2>7, <3>1, <3>2 DEF FetcherInv
    <3>3. CASE j = k
      BY <1>1, <2>2, <2>4, <2>5, <2>6, <2>7, <3>1, <3>3 DEF FetcherInv
    <3> QED BY <3>2, <3>3
  <2>10. Stable
    <3>1. "select" \notin Ended
      BY DEF Ended, Errors
    <3> QED BY <1>1, <2>7, <3>1 DEF Stable
  <2>11. EndInv' /\ NoLostWakeup'
    BY <1>0, <1>1, <2>2, <2>4, <2>10, EndStays, WakeStays DEF SameResults
  <2>12. QueueInv(q)' /\ (q.pivot \in Pivots)' /\ (headers = "nil" => q.head = Height)'
    BY <1>0, <1>1, <2>2, <2>4 DEF SameResults
  <2> QED BY <2>8, <2>9, <2>11, <2>12 DEF SessionInv, EndInv
<1> QED BY <1>2, <1>3


(* One peer is served: throttled, skipped, or a reservation for it. *)
LEMMA AssignInv ==
  ASSUME SessionInv, NEW k \in Kinds, NEW p \in Peers, Assign(k, p)
  PROVE  SessionInv'
<1>0. /\ QueueInv(q) /\ q.pivot \in Pivots /\ SessionType /\ EndInv /\ NoLostWakeup
      /\ \A j \in Kinds : FetcherInv(j)
      /\ headers = "nil" => q.head = Height
  BY SessionParts
<1>1. /\ headers' = headers /\ wake' = wake /\ leaving' = leaving /\ peers' = peers
      /\ lacks' = lacks /\ fetcher[k].pc = "assign" /\ p \in fetcher[k].todo
      /\ "assign" \notin Ended
  BY DEF Assign, Ended, Errors
<1>2. /\ fetcher[k] \in [pc : Ended \cup {"select", "assign"}, finished : BOOLEAN,
                         todo : SUBSET Peers, excused : BOOLEAN]
      /\ idle[k][p] /\ \A u \in fetcher[k].todo : idle[k][u]
  BY <1>0, <1>1 DEF SessionType, FetcherInv
\* The fetcher goes on with a shorter list.
<1> DEFINE Goes(f) == /\ f \in [pc : {"assign"}, finished : {fetcher[k].finished},
                                todo : SUBSET (fetcher[k].todo), excused : BOOLEAN]
                      /\ fetcher' = [fetcher EXCEPT ![k] = f]
<1>3. ASSUME NEW f, Goes(f), SameResults(q, q') \/ consumer' # "wait"
                               \/ (~q'.closed /\ \E n \in Window(q') : q'.cache[n] > 0),
             QueueInv(q'), q'.head = q.head, q'.offset = q.offset, q'.pivot = q.pivot,
             q'.closed = q.closed, \A j \in Kinds : q'.pool[j] \subseteq q.pool[j],
             idle' \in [Kinds -> [Peers -> BOOLEAN]],
             \A j \in Kinds \ {k} : idle'[j] = idle[j],
             \A u \in f.todo : idle'[k][u],
             consumer' = consumer \/ (consumer = "wait" /\ consumer' = "run")
      PROVE  SessionInv'
  <2>1. /\ \A j \in Kinds \ {k} : fetcher'[j] = fetcher[j]
        /\ fetcher'[k] = f /\ f.pc = "assign" /\ f.finished = fetcher[k].finished
    BY <1>0, <1>3 DEF SessionType
  <2>2. SessionType'
    <3>1. fetcher' \in [Kinds -> [pc : Ended \cup {"select", "assign"}, finished : BOOLEAN,
                                  todo : SUBSET Peers, excused : BOOLEAN]]
      <4>1. f \in [pc : Ended \cup {"select", "assign"}, finished : BOOLEAN,
                   todo : SUBSET Peers, excused : BOOLEAN]
        BY <1>2, <1>3
      <4> QED BY <1>0, <1>3, <4>1 DEF SessionType
    <3>2. consumer' \in Ended \cup {"run", "wait"}
      BY <1>0, <1>3 DEF SessionType
    <3> QED BY <1>0, <1>1, <1>3, <3>1, <3>2 DEF SessionType
  <2>3. ASSUME NEW j \in Kinds PROVE FetcherInv(j)'
    <3>1. FetcherInv(j) /\ q'.pool[j] \subseteq q.pool[j]
      BY <1>0, <1>3
    <3>2. CASE j # k
      <4>1. fetcher'[j] = fetcher[j] /\ idle'[j] = idle[j]
        BY <1>3, <2>1, <3>2
      <4> QED BY <1>1, <3>1, <4>1 DEF FetcherInv
    <3>3. CASE j = k
      BY <1>1, <1>3, <2>1, <3>1, <3>3 DEF FetcherInv
    <3> QED BY <3>2, <3>3
  <2>4. Stable
    <3>1. "wait" \notin Ended
      BY DEF Ended, Errors
    <3> QED BY <1>1, <1>3, <2>1, <3>1 DEF Stable
  <2>5. EndInv'
    BY <1>0, <1>3, <2>4, EndStays
  <2>6. NoLostWakeup'
    <3>1. CASE SameResults(q, q')
      BY <1>0, <1>3, <3>1, WakeStays
    <3>2. CASE consumer' # "wait"
      BY <3>2 DEF NoLostWakeup
    <3>3. CASE ~q'.closed /\ \E n \in Window(q') : q'.cache[n] > 0
      BY <3>3, WakeToCome
    <3> QED BY <1>3, <3>1, <3>2, <3>3
  <2> QED BY <1>0, <1>1, <1>3, <2>2, <2>3, <2>5, <2>6 DEF SessionInv, EndInv
<1> DEFINE Reserves(c) ==
             \E r \in {reserveHeaders(q, k, p, c, lacks[p])} :
             LET asked == r.send # {}
             IN /\ q' = r.queue
                /\ consumer' = Woken(r.progress)
                /\ idle' = [idle EXCEPT ![k][p] = @ /\ ~asked]
                /\ net' = [net EXCEPT ![k][p] = IF asked THEN Append(@, r.send) ELSE @]
                /\ fetcher' = [fetcher EXCEPT
                     ![k].pc = CASE r.invalid -> "errInvalidChain"
                                 [] asked /\ ~idle[k][p] -> "panic"
                                 [] OTHER -> @,
                     ![k].todo = @ \ {p},
                     ![k].excused = @ \/ r.progress \/ asked]
<1>4. \/ /\ q' = q /\ idle' = idle /\ consumer' = consumer
         /\ \/ fetcher' = [fetcher EXCEPT ![k].todo = {}, ![k].excused = @ \/ Space(q, k) <= 0]
            \/ fetcher' = [fetcher EXCEPT ![k].todo = @ \ {p}]
      \/ q.pend[k][p] = {} /\ \E c \in Capacities : Reserves(c)
  BY DEF Assign
<1>5. CASE /\ q' = q /\ idle' = idle /\ consumer' = consumer
           /\ \/ fetcher' = [fetcher EXCEPT ![k].todo = {}, ![k].excused = @ \/ Space(q, k) <= 0]
              \/ fetcher' = [fetcher EXCEPT ![k].todo = @ \ {p}]
  <2>1. SameResults(q, q')
    BY <1>5 DEF SameResults
  <2>2. PICK f : Goes(f)
    <3>1. CASE fetcher' = [fetcher EXCEPT ![k].todo = {}, ![k].excused = @ \/ Space(q, k) <= 0]
      <4> DEFINE e == fetcher[k].excused \/ Space(q, k) <= 0
                 f == [fetcher[k] EXCEPT !.todo = {}, !.excused = e]
      <4>1. e \in BOOLEAN
        OBVIOUS
      <4>2. fetcher' = [fetcher EXCEPT ![k] = f]
        BY <1>0, <3>1 DEF SessionType
      <4> HIDE DEF e
      <4>3. f \in [pc : {"assign"}, finished : {fetcher[k].finished},
                   todo : SUBSET (fetcher[k].todo), excused : BOOLEAN]
        BY <1>1, <1>2, <4>1
      <4> QED BY <4>2, <4>3
    <3>2. CASE fetcher' = [fetcher EXCEPT ![k].todo = @ \ {p}]
      <4> DEFINE f == [fetcher[k] EXCEPT !.todo = @ \ {p}]
      <4>2. fetcher' = [fetcher EXCEPT ![k] = f]
        BY <1>0, <3>2 DEF SessionType
      <4>3. f \in [pc : {"assign"}, finished : {fetcher[k].finished},
                   todo : SUBSET (fetcher[k].todo), excused : BOOLEAN]
        BY <1>1, <1>2
      <4> QED BY <4>2, <4>3
    <3> QED BY <1>5, <3>1, <3>2
  <2>3. idle' \in [Kinds -> [Peers -> BOOLEAN]] /\ \A u \in f.todo : idle'[k][u]
    BY <1>0, <1>2, <1>5, <2>2 DEF SessionType
  <2> HIDE DEF Goes
  <2> QED BY <1>0, <1>3, <1>5, <2>1, <2>2, <2>3
<1>6. CASE q.pend[k][p] = {} /\ \E c \in Capacities : Reserves(c)
  <2>1. PICK c \in Capacities : Reserves(c)
    BY <1>6
  <2> DEFINE r == reserveHeaders(q, k, p, c, lacks[p])
             f == [fetcher[k] EXCEPT !.pc = fetcher[k].pc, !.todo = @ \ {p},
                                     !.excused = @ \/ r.progress \/ r.send # {}]
  <2>2. /\ ~r.invalid /\ QueueType(r.queue)
        /\ \E taken \in SUBSET Window(q) : \E noop \in SUBSET taken, send \in SUBSET taken :
             /\ noop \cap send = {} /\ r.send = send /\ r.progress = (noop # {})
             /\ \A n \in taken : n \in q.pool[k] /\ ~Asked(q, k, n)
             /\ Reserved(q, r.queue, k, p, taken, noop, send)
    BY <1>0, ReserveFields
  <2>3. /\ q' = r.queue /\ consumer' = Woken(r.progress)
        /\ idle' = [idle EXCEPT ![k][p] = @ /\ ~(r.send # {})]
    BY <2>1
  <2>4. Goes(f)
    <3>1. fetcher' = [fetcher EXCEPT
             ![k].pc = CASE r.invalid -> "errInvalidChain"
                         [] (r.send # {}) /\ ~idle[k][p] -> "panic"
                         [] OTHER -> @,
             ![k].todo = @ \ {p},
             ![k].excused = @ \/ r.progress \/ (r.send # {})]
      BY <2>1
    <3>2. r.progress \in BOOLEAN
      BY <2>2
    <3> HIDE DEF r
    <3> DEFINE e == fetcher[k].excused \/ r.progress \/ r.send # {}
    <3>3. e \in BOOLEAN
      OBVIOUS
    <3>4. (CASE r.invalid -> "errInvalidChain"
             [] (r.send # {}) /\ ~idle[k][p] -> "panic"
             [] OTHER -> fetcher[k].pc) = fetcher[k].pc
      BY <1>2, <2>2
    <3>5. fetcher' = [fetcher EXCEPT ![k].pc = fetcher[k].pc, ![k].todo = @ \ {p},
                                     ![k].excused = e]
      BY <3>1, <3>4
    <3> HIDE DEF e
    <3> DEFINE g == [fetcher[k] EXCEPT !.pc = fetcher[k].pc, !.todo = @ \ {p}, !.excused = e]
    <3>6. fetcher \in [Kinds -> [pc : Ended \cup {"select", "assign"}, finished : BOOLEAN,
                                 todo : SUBSET Peers, excused : BOOLEAN]]
      BY <1>0 DEF SessionType
    <3>7. fetcher' = [fetcher EXCEPT ![k] = g]
      BY <3>5, <3>6
    <3>8. g \in [pc : {"assign"}, finished : {fetcher[k].finished},
                 todo : SUBSET (fetcher[k].todo), excused : BOOLEAN]
      BY <1>1, <1>2, <3>3
    <3> QED BY <3>7, <3>8 DEF e
  <2> HIDE DEF r
  <2>5. PICK taken \in SUBSET Window(q), noop \in SUBSET Blocks, send \in SUBSET Blocks :
             /\ noop \subseteq taken /\ send \subseteq taken
             /\ noop \cap send = {} /\ r.send = send /\ r.progress = (noop # {})
             /\ \A n \in taken : n \in q.pool[k] /\ ~Asked(q, k, n)
             /\ Reserved(q, r.queue, k, p, taken, noop, send)
    BY <2>2 DEF Window
  <2>6. /\ QueueInv(q')
        /\ noop = {} => SameResults(q, q') \/ \E n \in Window(q') : q'.cache[n] > 0
    <3>1. /\ q.pend[k][p] = {} /\ QueueType(r.queue)
          /\ noop \in SUBSET taken /\ send \in SUBSET taken /\ noop \cap send = {}
      BY <1>6, <2>2, <2>5
    <3>2. /\ \A n \in taken : n \in q.pool[k] /\ ~Asked(q, k, n)
          /\ Reserved(q, r.queue, k, p, taken, noop, send)
      BY <2>5
    <3>3. /\ QueueInv(r.queue)
          /\ noop = {} => SameResults(q, r.queue)
                            \/ \E n \in Window(r.queue) : r.queue.cache[n] > 0
      BY <1>0, <3>1, <3>2, ReservedInv, SMTT(30)
    <3> QED BY <2>3, <3>3
  <2>7. /\ q'.head = q.head /\ q'.offset = q.offset /\ q'.pivot = q.pivot
        /\ q'.closed = q.closed /\ \A j \in Kinds : q'.pool[j] \subseteq q.pool[j]
    BY <2>3, <2>5 DEF Reserved
  <2>8. /\ consumer' = consumer \/ (consumer = "wait" /\ consumer' = "run")
        /\ noop # {} => consumer' # "wait"
    BY <2>3, <2>5 DEF Woken
  <2>9. consumer' = "wait" => ~q'.closed
    BY <1>0, <2>7, <2>8 DEF NoLostWakeup
  <2>10. /\ idle' \in [Kinds -> [Peers -> BOOLEAN]]
         /\ \A j \in Kinds \ {k} : idle'[j] = idle[j]
         /\ \A u \in f.todo : idle'[k][u]
    <3>1. f.todo = fetcher[k].todo \ {p} /\ f.todo \subseteq Peers
      BY <1>2
    <3> HIDE DEF f
    <3> QED BY <1>0, <1>2, <2>3, <3>1 DEF SessionType
  <2> HIDE DEF f, Goes
  <2> QED BY <1>3, <2>4, <2>6, <2>7, <2>8, <2>9, <2>10
<1> QED BY <1>4, <1>5, <1>6


(* A packet of a peer: a prefix of its request is finished, the rest is    *)
(* queued again, and WaitResults is woken when there was anything in it.   *)
LEMMA AnswerInv ==
  ASSUME SessionInv, NEW k \in Kinds, NEW p \in Peers, Answer(k, p)
  PROVE  SessionInv'
<1>0. /\ QueueInv(q) /\ q.pivot \in Pivots /\ SessionType /\ EndInv /\ NoLostWakeup
      /\ \A j \in Kinds : FetcherInv(j)
      /\ headers = "nil" => q.head = Height
  BY SessionParts
<1>1. PICK items : Deliver(k, p, items)
  BY DEF Answer
<1>2. /\ headers' = headers /\ wake' = wake /\ leaving' = leaving /\ peers' = peers
      /\ fetcher[k].pc = "select"
  BY <1>1 DEF Deliver
<1>3. CASE p \notin peers
  <2>1. /\ q' = q /\ idle' = idle /\ lacks' = lacks /\ fetcher' = fetcher
        /\ consumer' = consumer /\ SameResults(q, q')
    BY <1>1, <1>3 DEF Deliver, SameResults
  <2>2. SessionType' /\ \A j \in Kinds : FetcherInv(j)'
    BY <1>0, <1>2, <2>1 DEF SessionType, FetcherInv
  <2>3. Stable
    BY <1>2, <2>1 DEF Stable
  <2>4. EndInv' /\ NoLostWakeup'
    BY <1>0, <2>1, <2>3, EndStays, WakeStays
  <2> QED BY <1>0, <1>2, <2>1, <2>2, <2>4 DEF SessionInv, EndInv
<1>4. CASE p \in peers
  <2> DEFINE r == deliver(q, k, p, items)
  <2>1. /\ r.err # "errInvalidChain" /\ r.lacking \subseteq Blocks /\ QueueType(r.queue)
        /\ \E good \in SUBSET q.pend[k][p] :
             (r.accepted > 0 <=> good # {}) /\ Delivered(q, r.queue, k, p, good)
    BY <1>0, DeliverFields
  <2>2. /\ q' = r.queue /\ consumer' = Woken(r.accepted > 0)
        /\ lacks' = [lacks EXCEPT ![p] = @ \cup r.lacking]
        /\ idle' = [idle EXCEPT ![k][p] = @ \/ Idles(r.err)]
        /\ fetcher' = [fetcher EXCEPT ![k].pc = IF r.err = "errInvalidChain" THEN r.err ELSE @]
    BY <1>1, <1>4 DEF Deliver
  <2> HIDE DEF r
  <2>3. PICK good \in SUBSET q.pend[k][p] :
          (r.accepted > 0 <=> good # {}) /\ Delivered(q, r.queue, k, p, good)
    BY <2>1
  <2>4. QueueInv(q') /\ (good = {} => SameResults(q, q'))
    BY <1>0, <2>1, <2>2, <2>3, DeliveredInv
  <2>5. /\ q'.head = q.head /\ q'.offset = q.offset /\ q'.pivot = q.pivot
        /\ q'.closed = q.closed /\ \A j \in Kinds : q'.pool[j] \subseteq q.pool[j]
    BY <2>2, <2>3 DEF Delivered
  <2>6. fetcher' = fetcher
    BY <1>0, <2>1, <2>2 DEF SessionType
  <2>7. /\ consumer' = consumer \/ (consumer = "wait" /\ consumer' = "run")
        /\ good # {} => consumer' # "wait"
    BY <2>2, <2>3 DEF Woken
  <2>8. /\ idle' \in [Kinds -> [Peers -> BOOLEAN]] /\ lacks' \in [Peers -> SUBSET Blocks]
        /\ \A j \in Kinds \ {k} : idle'[j] = idle[j]
    <3>1. Idles(r.err) \in BOOLEAN
      BY DEF Idles
    <3>2. (idle[k][p] \/ Idles(r.err)) \in BOOLEAN
      BY <3>1
    <3> QED BY <1>0, <2>1, <2>2, <3>2 DEF SessionType
  <2>9. SessionType'
    <3>1. consumer' \in Ended \cup {"run", "wait"}
      BY <1>0, <2>7 DEF SessionType
    <3> QED BY <1>0, <1>2, <2>6, <2>8, <3>1 DEF SessionType
  <2>10. ASSUME NEW j \in Kinds PROVE FetcherInv(j)'
    <3>1. FetcherInv(j) /\ q'.pool[j] \subseteq q.pool[j]
      BY <1>0, <2>5
    <3>2. CASE j # k
      <4>1. idle'[j] = idle[j]
        BY <2>8, <3>2
      <4> QED BY <1>2, <2>6, <3>1, <4>1 DEF FetcherInv
    <3>3. CASE j = k
      BY <1>2, <2>6, <3>1, <3>3 DEF FetcherInv
    <3> QED BY <3>2, <3>3
  <2>11. Stable
    <3>1. "wait" \notin Ended
      BY DEF Ended, Errors
    <3> QED BY <1>2, <2>6, <2>7, <3>1 DEF Stable
  <2>12. EndInv'
    BY <1>0, <2>5, <2>7, <2>11, EndStays
  <2>13. NoLostWakeup'
    <3>1. CASE good = {}
      BY <1>0, <2>4, <2>7, <3>1, WakeStays
    <3>2. CASE good # {}
      BY <2>7, <3>2 DEF NoLostWakeup
    <3> QED BY <3>1, <3>2
  <2> QED BY <1>0, <1>2, <2>4, <2>5, <2>9, <2>10, <2>12, <2>13 DEF SessionInv, EndInv
<1> QED BY <1>3, <1>4

(* UnregisterPeer and everything else that leaves the results and the      *)
(* goroutines alone.                                                       *)
LEMMA PeersInv ==
  ASSUME SessionInv, UNCHANGED <<idle, lacks, headers, wake, fetcher, consumer>>,
         peers' \subseteq Peers, leaving' \subseteq Peers,
         QueueInv(q'), SameResults(q, q'), q'.head = q.head, q'.pool = q.pool
  PROVE  SessionInv'
<1>0. /\ q.pivot \in Pivots /\ SessionType /\ EndInv /\ NoLostWakeup
      /\ \A j \in Kinds : FetcherInv(j)
      /\ headers = "nil" => q.head = Height
  BY SessionParts
<1>1. SessionType' /\ \A j \in Kinds : FetcherInv(j)'
  BY <1>0 DEF SessionType, FetcherInv
<1>2. EndInv' /\ NoLostWakeup'
  BY <1>0, EndStays, WakeStays DEF Stable, SameResults
<1> QED
  BY <1>0, <1>1, <1>2 DEF SessionInv, EndInv, SameResults

(* spawnSync closes the queue for an error, or when nothing is to come. *)
LEMMA CloseInv ==
  ASSUME SessionInv, CloseQueue
  PROVE  SessionInv'
<1>0. /\ QueueInv(q) /\ q.pivot \in Pivots /\ SessionType /\ EndInv
      /\ \A j \in Kinds : FetcherInv(j)
      /\ headers = "nil" => q.head = Height
  BY SessionParts
<1>1. /\ q' = [q EXCEPT !.closed = TRUE] /\ consumer' = Woken(TRUE)
      /\ UNCHANGED <<peers, leaving, idle, lacks, headers, wake, fetcher>>
  BY DEF CloseQueue
<1>2. /\ q'.head = q.head /\ q'.pool = q.pool /\ q'.task = q.task /\ q'.pend = q.pend
      /\ q'.done = q.done /\ q'.cache = q.cache /\ q'.offset = q.offset
      /\ q'.pivot = q.pivot /\ QueueType(q')
  BY <1>0, <1>1 DEF QueueInv, QueueType
<1>3. QueueInv(q')
  <2>1. \A j \in Kinds, n \in Blocks : PartInv(q', j, n)
    BY <1>0, <1>2, SMTT(30) DEF QueueInv, PartInv, Asked, Parts
  <2>2. \A n \in Blocks : ResultInv(q', n)
    BY <1>0, <1>2 DEF QueueInv, ResultInv, Wanted
  <2> QED BY <1>0, <1>2, <2>1, <2>2 DEF QueueInv
<1>4. /\ consumer' # "wait" /\ (consumer' = consumer \/ (consumer = "wait" /\ consumer' = "run"))
  BY <1>1 DEF Woken
<1>5. SessionType' /\ \A j \in Kinds : FetcherInv(j)'
  BY <1>0, <1>1, <1>2, <1>4 DEF SessionType, FetcherInv
<1>6. Stable
  <2>1. "wait" \notin Ended
    BY DEF Ended, Errors
  <2> QED BY <1>1, <1>4, <2>1 DEF Stable
<1>7. Failed \/ (headers = "nil" /\ \A k \in Kinds : fetcher[k].pc = "nil")
  <2>1. CASE Results \cap Errors # {}
    BY <2>1 DEF Failed
  <2>2. CASE Results = {"nil"}
    BY <2>2 DEF Results, Kinds
  <2>3. CASE Results \ {consumer} = {"nil"} /\ Results \cap Errors = {}
    <3>1. consumer \in {"run", "wait"}
      BY <1>0, <2>3 DEF SessionType, Ended, Results
    <3>2. \A k \in Kinds : fetcher[k].pc \notin {"run", "wait"} /\ fetcher[k].pc \in Results
      BY <1>0 DEF SessionType, Ended, Errors, Results, Kinds
    <3>3. \A k \in Kinds : fetcher[k].pc = "nil"
      BY <2>3, <3>1, <3>2
    <3> QED BY <1>0, <3>3 DEF FetcherInv, Kinds
  <2> QED BY <2>1, <2>2, <2>3 DEF CloseQueue
<1>8. EndInv'
  <2>1. Failed => Failed'
    BY <1>6, FailedStays
  <2> QED BY <1>0, <1>1, <1>2, <1>4, <1>7, <2>1 DEF EndInv
<1>9. NoLostWakeup'
  BY <1>4 DEF NoLostWakeup
<1> QED
  BY <1>0, <1>1, <1>2, <1>3, <1>5, <1>8, <1>9 DEF SessionInv, EndInv

(* The content processor sleeps, imports or returns. *)
LEMMA WaitInv ==
  ASSUME SessionInv, WaitResults
  PROVE  SessionInv'
<1>0. /\ QueueInv(q) /\ q.pivot \in Pivots /\ SessionType /\ EndInv
      /\ \A j \in Kinds : FetcherInv(j)
      /\ headers = "nil" => q.head = Height
  BY SessionParts
<1>1. /\ consumer = "run" /\ "run" \notin Ended /\ "run" # "nil"
      /\ UNCHANGED <<peers, leaving, idle, lacks, headers, wake, fetcher>>
  BY DEF WaitResults, Ended, Errors
<1>2. Stable
  BY <1>1 DEF Stable
<1>3. Failed => Failed'
  BY <1>2, FailedStays
<1>4. CASE Processable(q) = {}
  <2>1. q' = q /\ consumer' = IF q.closed THEN "nil" ELSE "wait"
    BY <1>4 DEF WaitResults
  <2>2. SessionType' /\ \A j \in Kinds : FetcherInv(j)'
    BY <1>0, <1>1, <2>1 DEF SessionType, FetcherInv, Ended
  <2>3. q.closed /\ ~Failed => q.offset = Height + 1
    <3>1. SUFFICES ASSUME q.closed, ~Failed PROVE q.offset = Height + 1
      OBVIOUS
    <3>2. headers = "nil" /\ \A k \in Kinds : fetcher[k].pc = "nil"
      BY <1>0, <3>1 DEF EndInv
    <3>3. q.head = Height /\ \A k \in Kinds : q.pool[k] = {}
      BY <1>0, <3>2 DEF FetcherInv
    <3>4. q.pivot > 0 => q.pivot + ForceVerify <= Height
      <4>1. q.pivot \in Nat /\ (q.pivot = 0 \/ q.pivot + ForceVerify <= Height)
        BY <1>0, DownloaderAssumption
      <4> QED BY <4>1, SMTT(30)
    <3> QED BY <1>0, <1>4, <3>3, <3>4, NothingMeansAll
  <2>4. EndInv'
    BY <1>0, <1>1, <1>3, <2>1, <2>3 DEF EndInv
  <2>5. NoLostWakeup'
    BY <1>4, <2>1 DEF NoLostWakeup
  <2> QED BY <1>0, <1>1, <2>1, <2>2, <2>4, <2>5 DEF SessionInv, EndInv
<1>5. CASE Processable(q) # {}
  <2>1. q' = TakeResults(q) /\ consumer' \in {"run", "errInvalidChain"}
    BY <1>1, <1>5 DEF WaitResults
  <2>2. /\ QueueInv(q') /\ q'.head = q.head /\ q'.pool = q.pool
        /\ q'.pivot = q.pivot /\ q'.closed = q.closed
    BY <1>0, <2>1, TakeInv
  <2>3. SessionType' /\ \A j \in Kinds : FetcherInv(j)'
    BY <1>0, <1>1, <2>1, <2>2 DEF SessionType, FetcherInv, Ended, Errors
  <2>4. EndInv' /\ NoLostWakeup'
    BY <1>0, <1>1, <1>3, <2>1, <2>2 DEF EndInv, NoLostWakeup
  <2> QED BY <1>0, <1>1, <2>2, <2>3, <2>4 DEF SessionInv, EndInv
<1> QED BY <1>4, <1>5

----------------------------------------------------------------------------
(* The theorems *)

(* No step of the fetchers, of the header and the content processor, of    *)
(* the peers or of spawnSync leaves the invariant.                         *)
LEMMA SessionNext ==
  ASSUME SessionInv, [Next]_vars
  PROVE  SessionInv'
<1>1. CASE ProcessHeaders \/ HeadersDone \/ HeadersCancelled
  BY <1>1, HeadersInv
<1>2. ASSUME NEW k \in Kinds, Wake(k) \/ FetchCancelled(k) \/ UpdateEnd(k) PROVE SessionInv'
  BY <1>2, FetchInv
<1>3. ASSUME NEW k \in Kinds, Update(k) PROVE SessionInv'
  BY <1>3, UpdateInv
<1>4. ASSUME NEW k \in Kinds, NEW p \in Peers, Assign(k, p) PROVE SessionInv'
  BY <1>4, AssignInv
<1>5. ASSUME NEW k \in Kinds, NEW p \in Peers, Answer(k, p) PROVE SessionInv'
  BY <1>5, AnswerInv
<1>6. QueueInv(q) /\ peers \subseteq Peers /\ leaving \subseteq Peers
  BY SessionParts DEF SessionType
<1>7. ASSUME NEW p \in Peers, Unregister(p) PROVE SessionInv'
  <2>1. /\ q' = q /\ UNCHANGED <<idle, lacks, headers, wake, fetcher, consumer>>
        /\ peers' \subseteq Peers /\ leaving' \subseteq Peers
    BY <1>6, <1>7 DEF Unregister
  <2>2. QueueInv(q') /\ SameResults(q, q') /\ q'.head = q.head /\ q'.pool = q.pool
    BY <1>6, <2>1 DEF SameResults
  <2> QED BY <2>1, <2>2, PeersInv
<1>8. ASSUME NEW p \in Peers, RevokePeer(p) PROVE SessionInv'
  <2>1. /\ q' = Revoke(q, p) /\ UNCHANGED <<idle, lacks, headers, wake, fetcher, consumer>>
        /\ peers' \subseteq Peers /\ leaving' \subseteq Peers
    BY <1>6, <1>8 DEF RevokePeer
  <2>2. QueueInv(q') /\ SameResults(q, q') /\ q'.head = q.head /\ q'.pool = q.pool
    BY <1>6, <2>1, RevokeInv
  <2> QED BY <2>1, <2>2, PeersInv
<1>9. CASE UNCHANGED vars
  <2>1. /\ q' = q /\ UNCHANGED <<idle, lacks, headers, wake, fetcher, consumer>>
        /\ peers' \subseteq Peers /\ leaving' \subseteq Peers
    BY <1>6, <1>9 DEF vars
  <2>2. QueueInv(q') /\ SameResults(q, q') /\ q'.head = q.head /\ q'.pool = q.pool
    BY <1>6, <2>1 DEF SameResults
  <2> QED BY <2>1, <2>2, PeersInv
<1> QED
  BY <1>1, <1>2, <1>3, <1>4, <1>5, <1>7, <1>8, <1>9, CloseInv, WaitInv DEF Next

(* The invariant holds throughout a session. *)
LEMMA SessionInductive == Spec => []SessionInv
<1>1. SessionInv /\ [Next]_vars => SessionInv'
  BY SessionNext
<1> QED BY <1>1, InitInv, PTL DEF Spec

(* EachPartOnce for every number of peers and blocks, every cache size,    *)
(* capacity and pivot: reserveHeaders, deliver, expire and Revoke neither  *)
(* lose nor duplicate a body or a receipt that is still wanted.            *)
THEOREM DownloadEachPartOnce == Spec => []EachPartOnce
<1>1. ASSUME SessionInv PROVE EachPartOnce
  <2>0. QueueInv(q) /\ SessionType
    BY <1>1, SessionParts
  <2>1. QueueType(q)
    BY <2>0 DEF QueueInv
  <2>2. TypeOK
    BY <2>0, <2>1 DEF TypeOK, SessionType, QueueType
  <2>3. ASSUME NEW k \in Kinds, NEW n \in Blocks
        PROVE  q.task[k][n] + Cardinality({p \in Peers : n \in q.pend[k][p]})
                 = IF n \in q.pool[k] THEN 1 ELSE 0
    <3> DEFINE A == {p \in Peers : n \in q.pend[k][p]}
    <3>1. PartInv(q, k, n)
      BY <2>0 DEF QueueInv
    <3>2. \A x, y \in A : x = y
      BY <3>1 DEF PartInv
    <3>3. A # {} <=> Asked(q, k, n)
      BY DEF Asked
    <3>4. Asked(q, k, n) => n \in q.pool[k]
      BY <3>1 DEF PartInv, Asked
    <3>5. q.task[k][n] = IF n \in q.pool[k] /\ ~Asked(q, k, n) THEN 1 ELSE 0
      BY <3>1 DEF PartInv
    <3> HIDE DEF A
    <3>6. Cardinality(A) = IF A = {} THEN 0 ELSE 1
      BY <3>2, AtMostOne
    <3>7. q.task[k][n] + Cardinality(A) = IF n \in q.pool[k] THEN 1 ELSE 0
      BY <3>3, <3>4, <3>5, <3>6, SMTT(30)
    <3> QED BY <3>7 DEF A
  <2>4. ASSUME NEW n \in Blocks
        PROVE  LET wanted == {k \in Kinds : n \in q.pool[k]}
               IN /\ q.cache[n] # Nil => q.cache[n] = Cardinality(wanted)
                  /\ n < q.offset => wanted = {} /\ q.cache[n] = Nil
                  /\ n >= q.offset /\ n <= q.head =>
                       \A k \in Parts(q, n) : n \in q.done[k] <=> n \notin q.pool[k]
    <3> DEFINE wanted == {k \in Kinds : n \in q.pool[k]}
    <3>1. ResultInv(q, n) /\ \A k \in Kinds : PartInv(q, k, n)
      BY <2>0 DEF QueueInv
    <3>2. /\ wanted \in SUBSET Kinds
          /\ "body" \in wanted <=> n \in q.pool["body"]
          /\ "receipt" \in wanted <=> n \in q.pool["receipt"]
      BY DEF Kinds
    <3>3. n \in Nat /\ q.offset \in Nat
      BY <2>1, FiniteBlocks, SMTT(30) DEF QueueType
    <3>4. n < q.offset => wanted = {} /\ q.cache[n] = Nil
      BY <3>1, <3>3, SMTT(30) DEF PartInv, ResultInv
    <3>5. n >= q.offset /\ n <= q.head =>
            \A k \in Parts(q, n) : n \in q.done[k] <=> n \notin q.pool[k]
      BY <3>1, <3>3, PartsCount DEF PartInv
    <3> HIDE DEF wanted
    <3>6. q.cache[n] # Nil => q.cache[n] = Cardinality(wanted)
      BY <3>1, <3>2, CountKinds DEF ResultInv, Wanted
    <3> QED BY <3>4, <3>5, <3>6 DEF wanted
  <2> QED BY <2>2, <2>3, <2>4 DEF EachPartOnce
<1> QED BY <1>1, SessionInductive, PTL

(* NeverBeyondWindow: whatever the cache size, no reservation or delivery  *)
(* falls outside the result cache, and no busy peer is asked.              *)
THEOREM DownloadNeverBeyondWindow == Spec => []NeverBeyondWindow
<1>1. SessionInv => NeverBeyondWindow
  BY SessionParts DEF NeverBeyondWindow, FetcherInv
<1> QED BY <1>1, SessionInductive, PTL

(* NoLostWakeup: WaitResults does not sleep on a closed queue, nor on      *)
(* results that nothing will signal any more.                              *)
THEOREM DownloadNoLostWakeup == Spec => []NoLostWakeup
<1>1. SessionInv => NoLostWakeup
  BY SessionParts
<1> QED BY <1>1, SessionInductive, PTL

(* NilMeansComplete: a session in which every goroutine returned nil has   *)
(* handed out every block up to the height it was started for.             *)
THEOREM DownloadNilMeansComplete == Spec => []NilMeansComplete
<1>1. ASSUME SessionInv, Results = {"nil"} PROVE q.offset = Height + 1
  <2>1. Results \cap Errors = {} /\ consumer = "nil"
    BY <1>1 DEF Results, Errors
  <2>2. ~Failed
    BY <2>1 DEF Failed
  <2> QED BY <1>1, <2>1, <2>2 DEF SessionInv
<1>2. SessionInv => NilMeansComplete
  BY <1>1 DEF NilMeansComplete
<1> QED BY <1>2, SessionInductive, PTL

=============================================================================
