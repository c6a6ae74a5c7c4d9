--------------------------- MODULE DownloadQueue ---------------------------
(***************************************************************************)
(* The content half of the download queue of fbc/downloader/queue.go.      *)
(* The headers of a sync are scheduled in the order of their numbers; for  *)
(* each one a body and, up to the pivot of a fast sync, the receipts are   *)
(* reserved for a peer, delivered and put into a window of results, from   *)
(* whose front complete results are handed to the importer.                *)
(*                                                                         *)
(* The queue is one record q under one lock: every operator below is a     *)
(* method of the queue, a function from the queue to the next one.         *)
(* A block is its number; the first block of the sync is number 1.         *)
(***************************************************************************)
EXTENDS Integers, Sequences, FiniteSets

CONSTANTS
  Peers,         \* remote peers
  Height,        \* the number of the last header of the sync
  CacheLimit,    \* blockCacheLimit, the length of resultCache
  ForceVerify,   \* fsHeaderForceVerify, the blocks wanted behind the pivot
  EmptyParts     \* [Kinds -> SUBSET Nat], the blocks whose part is empty

Kinds == {"body", "receipt"}
Blocks == 1 .. Height
Nil == -1        \* an entry of resultCache nobody allocated yet

ASSUME QueueAssumption ==
  /\ IsFiniteSet(Peers)
  /\ Height \in Nat /\ ForceVerify \in Nat
  /\ CacheLimit \in Nat /\ CacheLimit > ForceVerify
  /\ EmptyParts \in [Kinds -> SUBSET Blocks]

\* The queue after Reset and Prepare.  A full sync is one with pivot 0:
\* mode = FastSync is only ever tested together with number <= pivot.
NewQueue(pivot) ==
  [head   |-> 0,                                        \* headerHead
   pool   |-> [k \in Kinds |-> {}],                     \* block/receiptTaskPool
   task   |-> [k \in Kinds |-> [n \in Blocks |-> 0]],   \* TaskQueue: copies of n in it
   pend   |-> [k \in Kinds |-> [p \in Peers |-> {}]],   \* PendPool: {} is no request
   done   |-> [k \in Kinds |-> {}],                     \* DonePool
   cache  |-> [n \in Blocks |-> Nil],                   \* resultCache: Pending
   offset |-> 1, pivot |-> pivot, closed |-> FALSE]

\* The parts a result waits for when its container is allocated.
Parts(q, n) == IF n <= q.pivot THEN Kinds ELSE {"body"}

Components(q, n) == Cardinality(Parts(q, n))

Push(count, S) == [n \in Blocks |-> count[n] + IF n \in S THEN 1 ELSE 0]
Pop(count, S) == [n \in Blocks |-> count[n] - IF n \in S THEN 1 ELSE 0]
Tasks(q, k) == {n \in Blocks : q.task[k][n] > 0}
InFlight(q, k) == \E p \in Peers : q.pend[k][p] # {}
Window(q) == {n \in Blocks : n - q.offset \in 0 .. CacheLimit - 1}

\* The completed parts still in the cache are forgotten.
SpaceIgnoresDone(q, k) ==
  CacheLimit - Cardinality({r \in Peers \X Blocks : r[2] \in q.pend[k][r[1]]})

\* The room left by completed and requested parts; no room is ShouldThrottle.
Space(q, k) ==
  CacheLimit - Cardinality(q.done[k])
    - Cardinality({r \in Peers \X Blocks : r[2] \in q.pend[k][r[1]]})

\* A chunk of headers, of which the first `fits` follow the last one queued.
Schedule(q, fits) ==
  LET new == q.head + 1 .. q.head + fits
      of(k) == {n \in new : k \in Parts(q, n)}
  IN [q EXCEPT !.head = @ + fits,
               !.pool = [k \in Kinds |-> @[k] \cup of(k)],
               !.task = [k \in Kinds |-> Push(@[k], of(k))]]

\* The loop of reserveHeaders pops the lowest numbers while there is room
\* and the request is not full.  A popped block allocates its result; an
\* empty part is done at once, a part the peer lacks is pushed back, the
\* others make the request.  A number outside the window ends it in error.
reserveHeaders(q, k, p, count, lacking) ==
  LET tasks == Tasks(q, k)
      space == Space(q, k)
      below(n) == {m \in tasks : m < n}
      wanted == tasks \ (EmptyParts[k] \cup lacking)
      popped == {n \in tasks : /\ Cardinality(below(n)) < space
                               /\ Cardinality(below(n) \cap wanted) < count}
      outside == popped \ Window(q)
      taken == {n \in popped : \A m \in outside : n < m}
      noop == taken \cap EmptyParts[k]
      send == IF outside = {} THEN taken \cap wanted ELSE {}
      gone == IF outside = {} THEN noop \cup send
              ELSE {n \in popped : \A m \in outside : n <= m}
      alloc(n) == IF q.cache[n] = Nil THEN Components(q, n) ELSE q.cache[n]
  IN [queue |-> [q EXCEPT !.task[k] = Pop(@, gone),
                          !.pend[k][p] = send,
                          !.done[k] = @ \cup noop,
                          !.pool[k] = @ \ noop,
                          !.cache = [n \in Blocks |->
                                       IF n \in noop THEN alloc(n) - 1
                                       ELSE IF n \in taken THEN alloc(n) ELSE @[n]]],
      send |-> send, progress |-> noop # {}, invalid |-> outside # {}]

\* The headers go back to the queue, the request stays.
ReturnKeepsRequest(q, k, S) ==
  [q EXCEPT !.task[k] = [n \in Blocks |-> @[n] + Cardinality({p \in S : n \in q.pend[k][p]})]]

\* cancel, expire and Revoke: a request goes back to the task queue.
Return(q, k, S) ==
  [q EXCEPT !.task[k] = [n \in Blocks |-> @[n] + Cardinality({p \in S : n \in q.pend[k][p]})],
            !.pend[k] = [p \in Peers |-> IF p \in S THEN {} ELSE @[p]]]

Revoke(q, p) == Return(Return(q, "body", {p}), "receipt", {p})

\* The header n of a request is cached: its result has a place and a container.
Cached(q, n) == n \in Window(q) /\ q.cache[n] # Nil

\* deliver: the answer is held against the request pending for the peer,
\* whichever request the peer meant it for.  The i-th item must be the content
\* of the i-th header, whose result is cached; the loop ends at the first one
\* that is refused, or with the answer.
deliver(q, k, p, items) ==
  LET request == q.pend[k][p]
      place(n) == Cardinality({m \in request : m <= n})
      reached == {n \in request : place(n) <= Len(items)}
      accepts(n) == n \in reached /\ Cached(q, n) /\ items[place(n)] = n
      good == {n \in request : \A m \in request : m <= n => accepts(m)}
      refused == {n \in reached \ good : \A m \in request : m < n => m \in good}
  IN [queue |-> IF request = {} THEN q ELSE
                [q EXCEPT !.pend[k][p] = {},
                          !.task[k] = Push(@, request \ good),
                          !.done[k] = @ \cup good,
                          !.pool[k] = @ \ good,
                          !.cache = [m \in Blocks |-> IF m \in good THEN @[m] - 1 ELSE @[m]]],
      lacking |-> IF items = <<>> THEN request ELSE {},
      accepted |-> Cardinality(good),
      err |-> CASE request = {} -> "errNoFetchesPending"
                [] \E n \in refused : ~Cached(q, n) -> "errInvalidChain"
                [] refused # {} /\ good = {} -> "errStaleDelivery"
                [] OTHER -> "none"]     \* nil or a partial failure

\* A result is ready when its parts are; the pivot also wants ForceVerify
\* allocated results behind it.
Ready(q, n) ==
  /\ n \in Window(q) /\ q.cache[n] = 0
  /\ n = q.pivot /\ q.pivot > 0 =>
       \A m \in n + 1 .. n + ForceVerify : m \in Window(q) /\ q.cache[m] # Nil

\* countProcessableItems, as the set of the blocks that are counted.
Processable(q) == {n \in Window(q) : \A m \in q.offset .. n : Ready(q, m)}

\* WaitResults, once it has something to hand out.
TakeResults(q) ==
  LET S == Processable(q)
  IN [q EXCEPT !.done = [k \in Kinds |-> @[k] \ S],
               !.cache = [n \in Blocks |-> IF n \in S THEN Nil ELSE @[n]],
               !.offset = @ + Cardinality(S)]
============================================================================
