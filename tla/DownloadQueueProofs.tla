------------------------ MODULE DownloadQueueProofs ------------------------
(***************************************************************************)
(* The methods of DownloadQueue, for any finite set of peers, any height   *)
(* and any window, keep the invariant of the queue: a part that is wanted  *)
(* is in one place, and a result counts the parts it still waits for.      *)
(***************************************************************************)
EXTENDS DownloadQueue, FiniteSetTheorems, TLAPS

\* The prover of a leaf that names no other one.
USE ZenonT(60)

-----------------------------------------------------------------------------
(* The inductive invariant of the queue *)

QueueType(Q) ==
  Q \in [head : 0 .. Height, pool : [Kinds -> SUBSET Blocks],
         task : [Kinds -> [Blocks -> Nat]], pend : [Kinds -> [Peers -> SUBSET Blocks]],
         done : [Kinds -> SUBSET Blocks], cache : [Blocks -> {Nil} \cup 0 .. 2],
         offset : 1 .. Height + 1, pivot : Nat, closed : BOOLEAN]

\* Some peer was asked for this part.
Asked(Q, k, n) == \E p \in Peers : n \in Q.pend[k][p]

\* A part that is wanted is in the task queue or in one request; a request
\* and a finished part have a result; and from the window to the last header
\* every part is wanted or finished.
PartInv(Q, k, n) ==
  /\ Q.task[k][n] = IF n \in Q.pool[k] /\ ~Asked(Q, k, n) THEN 1 ELSE 0
  /\ \A p \in Peers : n \in Q.pend[k][p] =>
       /\ n \in Q.pool[k] /\ Q.cache[n] # Nil
       /\ \A r \in Peers : n \in Q.pend[k][r] => r = p
  /\ n \in Q.pool[k] => k \in Parts(Q, n) /\ Q.offset <= n /\ n <= Q.head
  /\ n \in Q.done[k] => n \notin Q.pool[k] /\ Q.cache[n] # Nil /\ k \in Parts(Q, n)
  /\ k \in Parts(Q, n) /\ Q.offset <= n /\ n <= Q.head => n \in Q.pool[k] \cup Q.done[k]

Wanted(Q, n) ==
  (IF n \in Q.pool["body"] THEN 1 ELSE 0) + (IF n \in Q.pool["receipt"] THEN 1 ELSE 0)

\* A result counts the parts that are wanted and has a place in the window.
ResultInv(Q, n) ==
  Q.cache[n] # Nil =>
    /\ Q.cache[n] = Wanted(Q, n)
    /\ Q.offset <= n /\ n <= Q.head /\ n - Q.offset < CacheLimit

QueueInv(Q) ==
  /\ QueueType(Q) /\ Q.offset <= Q.head + 1
  /\ \A k \in Kinds, n \in Blocks : PartInv(Q, k, n)
  /\ \A n \in Blocks : ResultInv(Q, n)

-----------------------------------------------------------------------------
(* Counting *)

(* A set without two elements has one or none: a part is in one request.   *)
LEMMA AtMostOne ==
  ASSUME NEW A, \A x, y \in A : x = y
  PROVE  Cardinality(A) = IF A = {} THEN 0 ELSE 1
<1>1. CASE A = {}
  BY <1>1, FS_EmptySet
<1>2. CASE A # {}
  <2>1. PICK x \in A : A = {x}
    BY <1>2
  <2> QED BY <1>2, <2>1, FS_Singleton
<1> QED BY <1>1, <1>2

(* The two kinds are counted one by one. *)
LEMMA CountKinds ==
  ASSUME NEW A \in SUBSET Kinds
  PROVE  Cardinality(A) = (IF "body" \in A THEN 1 ELSE 0) + (IF "receipt" \in A THEN 1 ELSE 0)
<1>1. IsFiniteSet({}) /\ Cardinality({}) = 0
  BY FS_EmptySet
<1>2. \A x : IsFiniteSet({x}) /\ Cardinality({x}) = 1
  BY FS_Singleton
<1>3. Cardinality({"body"} \cup {"receipt"}) = 2
  <2>1. \A T, x : IsFiniteSet(T) /\ x \notin T => Cardinality(T \cup {x}) = Cardinality(T) + 1
    BY FS_AddElement
  <2>2. Cardinality({"body"} \cup {"receipt"}) = Cardinality({"body"}) + 1
    BY <1>2, <2>1, "receipt" \notin {"body"}
  <2> QED BY <1>2, <2>2, SMTT(30)
<1>4. \/ A = {} \/ A = {"body"} \/ A = {"receipt"} \/ A = {"body"} \cup {"receipt"}
  BY DEF Kinds
<1>5. CASE A = {}
  BY <1>1, <1>5, SMTT(30)
<1>6. CASE A = {"body"}
  <2>1. Cardinality({"body"}) = 1
    BY <1>2
  <2> QED BY <1>6, <2>1, SMTT(30)
<1>7. CASE A = {"receipt"}
  <2>1. Cardinality({"receipt"}) = 1
    BY <1>2
  <2> QED BY <1>7, <2>1, SMTT(30)
<1>8. CASE A = {"body"} \cup {"receipt"}
  BY <1>3, <1>8, SMTT(30)
<1> QED BY <1>4, <1>5, <1>6, <1>7, <1>8

(* A result waits for one part, and up to the pivot for two. *)
LEMMA PartsCount ==
  ASSUME NEW Q, NEW n
  PROVE  /\ Parts(Q, n) \subseteq Kinds /\ "body" \in Parts(Q, n)
         /\ Components(Q, n) = IF n <= Q.pivot THEN 2 ELSE 1
<1>1. Parts(Q, n) \in SUBSET Kinds /\ "body" \in Parts(Q, n)
  BY DEF Parts, Kinds
<1>2. Components(Q, n) = 1 + (IF "receipt" \in Parts(Q, n) THEN 1 ELSE 0)
  BY <1>1, CountKinds DEF Components
<1>3. "receipt" \in Parts(Q, n) <=> n <= Q.pivot
  BY "body" # "receipt" DEF Parts, Kinds
<1> QED BY <1>1, <1>2, <1>3, SMTT(30)

(* The blocks of a sync and its requests are finitely many. *)
LEMMA FiniteBlocks ==
  /\ IsFiniteSet(Blocks) /\ IsFiniteSet(Peers) /\ IsFiniteSet(Peers \X Blocks)
  /\ Blocks \subseteq Nat \ {0} /\ Height \in Nat
  /\ \A A \in SUBSET Blocks : IsFiniteSet(A) /\ Cardinality(A) \in Nat
<1>1. IsFiniteSet(Blocks) /\ IsFiniteSet(Peers) /\ Height \in Nat
  BY QueueAssumption, FS_Interval, SMTT(30) DEF Blocks
<1>2. IsFiniteSet(Peers \X Blocks)
  BY <1>1, FS_Product
<1>3. \A A \in SUBSET Blocks : IsFiniteSet(A) /\ Cardinality(A) \in Nat
  BY <1>1, FS_Subset, FS_CardinalityType
<1>4. Blocks \subseteq Nat \ {0}
  BY <1>1, SMTT(30) DEF Blocks
<1> QED BY <1>1, <1>2, <1>3, <1>4


-----------------------------------------------------------------------------
(* The methods of the queue *)

(* Two queues with the same results: what countProcessableItems looks at. *)
SameResults(Q, R) ==
  R.cache = Q.cache /\ R.offset = Q.offset /\ R.pivot = Q.pivot /\ R.closed = Q.closed

(* Schedule adds the parts of the next headers to the pools. *)
LEMMA ScheduleInv ==
  ASSUME NEW Q, QueueInv(Q), NEW fits \in Nat, Q.head + fits <= Height
  PROVE  /\ QueueInv(Schedule(Q, fits)) /\ SameResults(Q, Schedule(Q, fits))
         /\ Schedule(Q, fits).head = Q.head + fits
         /\ fits = 0 => Schedule(Q, fits).pool = Q.pool
<1> DEFINE R == Schedule(Q, fits)
           new == Q.head + 1 .. Q.head + fits
           of(k) == {n \in new : k \in Parts(Q, n)}
<1>0. Height \in Nat /\ Blocks = 1 .. Height /\ Blocks \subseteq Nat
  BY QueueAssumption, SMTT(30) DEF Blocks
<1>t. QueueType(Q)
  BY DEF QueueInv
<1>1. /\ R.head = Q.head + fits
      /\ R.pool = [k \in Kinds |-> Q.pool[k] \cup of(k)]
      /\ R.task = [k \in Kinds |-> Push(Q.task[k], of(k))]
      /\ R.pend = Q.pend /\ R.done = Q.done /\ SameResults(Q, R)
  BY <1>t DEF QueueType, Schedule, SameResults
<1>2. \A k \in Kinds : of(k) \subseteq Blocks /\ Q.pool[k] \cap of(k) = {}
  <2> SUFFICES ASSUME NEW k \in Kinds, NEW n \in of(k) PROVE n \in Blocks /\ n \notin Q.pool[k]
    OBVIOUS
  <2>1. n \in Blocks /\ ~(n <= Q.head)
    BY <1>0, <1>t, SMTT(30) DEF QueueType
  <2>2. PartInv(Q, k, n)
    BY <2>1 DEF QueueInv
  <2> QED BY <2>1, <2>2 DEF PartInv
<1>3. QueueType(R)
  <2>1. R.pool \in [Kinds -> SUBSET Blocks]
    BY <1>1, <1>2, <1>t, SMTT(30) DEF QueueType
  <2>2. R.task \in [Kinds -> [Blocks -> Nat]]
    BY <1>1, <1>t, SMTT(30) DEF QueueType, Push
  <2>3. R.head \in 0 .. Height
    BY <1>0, <1>1, <1>t, SMTT(30) DEF QueueType
  <2> QED BY <1>t, <2>1, <2>2, <2>3 DEF QueueType, Schedule
<1>4. ASSUME NEW k \in Kinds, NEW n \in Blocks PROVE PartInv(R, k, n)
  <2>1. PartInv(Q, k, n) /\ ResultInv(Q, n)
    BY DEF QueueInv
  <2>2. /\ R.pool[k] = Q.pool[k] \cup of(k) /\ R.done[k] = Q.done[k]
        /\ R.task[k][n] = Q.task[k][n] + IF n \in of(k) THEN 1 ELSE 0
        /\ Parts(R, n) = Parts(Q, n) /\ (Asked(R, k, n) <=> Asked(Q, k, n))
    BY <1>1, <1>t, SMTT(30) DEF Push, Parts, SameResults, Asked, QueueType
  <2>3. n \in of(k) => n \notin Q.pool[k] /\ ~Asked(Q, k, n) /\ n \notin Q.done[k]
    <3>1. n \in of(k) => n \notin Q.pool[k] /\ ~(n <= Q.head)
      BY <1>0, <1>t, <1>2, SMTT(30) DEF QueueType
    <3> QED BY <2>1, <3>1 DEF PartInv, ResultInv, Asked
  <2>4. n \in of(k) <=> k \in Parts(Q, n) /\ Q.head < n /\ n <= Q.head + fits
    BY <1>0, <1>t, SMTT(30) DEF QueueType
  <2>5. R.offset = Q.offset /\ R.head = Q.head + fits /\ R.cache = Q.cache /\ R.pend = Q.pend
    BY <1>1 DEF SameResults
  <2>6. Q.head \in Nat /\ Q.offset \in Nat /\ Q.offset <= Q.head + 1 /\ Q.task[k][n] \in Nat
    BY <1>0, <1>t, SMTT(30) DEF QueueType, QueueInv
  <2>7. R.task[k][n] = IF n \in R.pool[k] /\ ~Asked(R, k, n) THEN 1 ELSE 0
    BY <2>1, <2>2, <2>3, <2>6, SMTT(30) DEF PartInv
  <2>8. /\ n \in R.pool[k] => k \in Parts(R, n) /\ R.offset <= n /\ n <= R.head
        /\ k \in Parts(R, n) /\ R.offset <= n /\ n <= R.head => n \in R.pool[k] \cup R.done[k]
    BY <1>0, <2>1, <2>2, <2>4, <2>5, <2>6, SMTT(30) DEF PartInv
  <2> QED BY <2>1, <2>2, <2>3, <2>5, <2>7, <2>8 DEF PartInv
<1>5. ASSUME NEW n \in Blocks PROVE ResultInv(R, n)
  <2>1. ResultInv(Q, n)
    BY DEF QueueInv
  <2>2. Q.cache[n] # Nil => n <= Q.head
    BY <2>1 DEF ResultInv
  <2>3. Q.cache[n] # Nil => Wanted(R, n) = Wanted(Q, n)
    BY <1>0, <1>1, <1>t, <2>2, SMTT(30) DEF Wanted, QueueType, Kinds
  <2> QED BY <1>0, <1>1, <1>t, <2>1, <2>3, SMTT(30) DEF ResultInv, SameResults, QueueType
<1>6. R.offset <= R.head + 1
  BY <1>0, <1>1, <1>t, SMTT(30) DEF QueueInv, QueueType, SameResults
<1>7. fits = 0 => R.pool = Q.pool
  BY <1>0, <1>1, <1>t, SMTT(30) DEF QueueType
<1> QED
  BY <1>1, <1>3, <1>4, <1>5, <1>6, <1>7 DEF QueueInv


(* cancel, expire and Revoke: each header of a request goes back once. *)
LEMMA ReturnInv ==
  ASSUME NEW Q, QueueInv(Q), NEW k \in Kinds, NEW S \in SUBSET Peers
  PROVE  /\ QueueInv(Return(Q, k, S)) /\ SameResults(Q, Return(Q, k, S))
         /\ Return(Q, k, S).head = Q.head /\ Return(Q, k, S).pool = Q.pool
<1> DEFINE R == Return(Q, k, S)
           back(n) == {p \in S : n \in Q.pend[k][p]}
<1>t. QueueType(Q)
  BY DEF QueueInv
<1>1. /\ R.head = Q.head /\ R.pool = Q.pool /\ R.done = Q.done /\ SameResults(Q, R)
      /\ R.task = [Q.task EXCEPT ![k] = [n \in Blocks |-> Q.task[k][n] + Cardinality(back(n))]]
      /\ R.pend = [Q.pend EXCEPT ![k] = [p \in Peers |-> IF p \in S THEN {} ELSE Q.pend[k][p]]]
  BY <1>t DEF QueueType, Return, SameResults
<1>2. ASSUME NEW n \in Blocks PROVE Cardinality(back(n)) = IF back(n) = {} THEN 0 ELSE 1
  <2>1. \A x, y \in back(n) : x = y
    BY SMTT(30) DEF QueueInv, PartInv
  <2> QED BY <2>1, AtMostOne
<1>3. QueueType(R)
  <2>1. R.task \in [Kinds -> [Blocks -> Nat]]
    <3>1. \A n \in Blocks : Q.task[k][n] \in Nat
      BY <1>t DEF QueueType
    <3> HIDE DEF back, R
    <3>2. \A n \in Blocks : Q.task[k][n] + Cardinality(back(n)) \in Nat
      BY <1>2, <3>1, SMTT(30)
    <3> QED BY <1>1, <1>t, <3>2, SMTT(30) DEF QueueType
  <2>2. R.pend \in [Kinds -> [Peers -> SUBSET Blocks]]
    BY <1>1, <1>t, SMTT(30) DEF QueueType
  <2> QED BY <1>t, <2>1, <2>2 DEF QueueType, Return
<1>4. ASSUME NEW j \in Kinds, NEW n \in Blocks PROVE PartInv(R, j, n)
  <2>1. PartInv(Q, j, n)
    BY DEF QueueInv
  <2>2. /\ R.head = Q.head /\ R.pool = Q.pool /\ R.done = Q.done /\ R.cache = Q.cache
        /\ R.offset = Q.offset /\ Parts(R, n) = Parts(Q, n)
    BY <1>1 DEF SameResults, Parts
  <2>3. \A p \in Peers : R.pend[j][p] = IF j = k /\ p \in S THEN {} ELSE Q.pend[j][p]
    BY <1>1, <1>t, SMTT(30) DEF QueueType
  <2>r. R.task[k][n] = Q.task[k][n] + Cardinality(back(n)) /\ Q.task[k][n] \in Nat
    BY <1>1, <1>t, SMTT(30) DEF QueueType
  <2>4. R.task[j][n] = IF n \in R.pool[j] /\ ~Asked(R, j, n) THEN 1 ELSE 0
    <3>1. CASE j # k
      BY <1>1, <1>t, <2>1, <2>2, <2>3, <3>1 DEF QueueType, Asked, PartInv
    <3>2. CASE j = k /\ back(n) = {}
      <4>1. Asked(R, j, n) <=> Asked(Q, j, n)
        BY <2>3, <3>2 DEF Asked
      <4>2. R.task[j][n] = Q.task[j][n]
        <5>1. Cardinality(back(n)) = 0
          BY <1>2, <3>2
        <5> HIDE DEF back, R
        <5> QED BY <2>r, <3>2, <5>1, SMTT(30)
      <4> QED BY <2>1, <2>2, <4>1, <4>2 DEF PartInv
    <3>3. CASE j = k /\ back(n) # {}
      <4>1. PICK p \in S : n \in Q.pend[k][p]
        BY <3>3
      <4>2. n \in Q.pool[k] /\ Asked(Q, k, n) /\ \A r \in Peers : n \in Q.pend[k][r] => r = p
        BY <2>1, <3>3, <4>1 DEF PartInv, Asked
      <4>3. ~Asked(R, j, n)
        BY <2>3, <3>3, <4>1, <4>2 DEF Asked
      <4>4. R.task[j][n] = Q.task[j][n] + 1
        <5> HIDE DEF back
        <5> QED BY <1>2, <2>r, <3>3, SMTT(30)
      <4> QED BY <2>1, <2>2, <3>3, <4>2, <4>3, <4>4, SMTT(30) DEF PartInv
    <3> QED BY <3>1, <3>2, <3>3
  <2> QED BY <2>1, <2>2, <2>3, <2>4 DEF PartInv
<1>5. ASSUME NEW n \in Blocks PROVE ResultInv(R, n)
  BY <1>1 DEF QueueInv, ResultInv, SameResults, Wanted
<1> QED
  BY <1>1, <1>3, <1>4, <1>5 DEF QueueInv, SameResults

-----------------------------------------------------------------------------
(* deliver *)

\* An answer of p of which the blocks in good were accepted.
Delivered(Q, R, k, p, good) ==
  /\ R.head = Q.head /\ R.offset = Q.offset /\ R.pivot = Q.pivot /\ R.closed = Q.closed
  /\ \A j \in Kinds : /\ R.pool[j] = IF j = k THEN Q.pool[j] \ good ELSE Q.pool[j]
                      /\ R.done[j] = IF j = k THEN Q.done[j] \cup good ELSE Q.done[j]
  /\ \A j \in Kinds, r \in Peers : R.pend[j][r] = IF j = k /\ r = p THEN {} ELSE Q.pend[j][r]
  /\ \A j \in Kinds, n \in Blocks :
       R.task[j][n] = Q.task[j][n] + IF j = k /\ n \in Q.pend[k][p] \ good THEN 1 ELSE 0
  /\ \A n \in Blocks : R.cache[n] = Q.cache[n] - IF n \in good THEN 1 ELSE 0

(* What deliver accepts is a part of the request.  Nothing that was asked  *)
(* for has lost its result since, so errInvalidChain is impossible.        *)
LEMMA DeliverFields ==
  ASSUME NEW Q, QueueInv(Q), NEW k \in Kinds, NEW p \in Peers, NEW items
  PROVE  LET r == deliver(Q, k, p, items) IN
         /\ r.err # "errInvalidChain" /\ r.lacking \subseteq Blocks
         /\ QueueType(r.queue)
         /\ \E good \in SUBSET Q.pend[k][p] :
              (r.accepted > 0 <=> good # {}) /\ Delivered(Q, r.queue, k, p, good)
<1> DEFINE request == Q.pend[k][p]
           place(n) == Cardinality({m \in request : m <= n})
           reached == {n \in request : place(n) <= Len(items)}
           accepts(n) == n \in reached /\ Cached(Q, n) /\ items[place(n)] = n
           good == {n \in request : \A m \in request : m <= n => accepts(m)}
           refused == {n \in reached \ good : \A m \in request : m < n => m \in good}
           r == deliver(Q, k, p, items)
           R == [Q EXCEPT !.pend[k][p] = {},
                          !.task[k] = Push(@, request \ good),
                          !.done[k] = @ \cup good,
                          !.pool[k] = @ \ good,
                          !.cache = [m \in Blocks |-> IF m \in good THEN @[m] - 1 ELSE @[m]]]
<1>t. QueueType(Q)
  BY DEF QueueInv
<1>1. request \subseteq Blocks
  BY <1>t, SMTT(30) DEF QueueType
<1>2. \A n \in request : Cached(Q, n) /\ Q.cache[n] \in 1 .. 2
  <2> SUFFICES ASSUME NEW n \in request PROVE Cached(Q, n) /\ Q.cache[n] \in 1 .. 2
    OBVIOUS
  <2>1. n \in Blocks /\ Q.cache[n] # Nil /\ n \in Q.pool[k]
    BY <1>1 DEF QueueInv, PartInv
  <2>2. Q.offset <= n /\ n - Q.offset < CacheLimit /\ Q.cache[n] = Wanted(Q, n)
    BY <2>1 DEF QueueInv, ResultInv
  <2>3. Cached(Q, n)
    BY <1>t, <2>1, <2>2, FiniteBlocks, QueueAssumption, SMTT(30) DEF Cached, Window, QueueType
  <2>4. Q.cache[n] \in 1 .. 2
    BY <2>1, <2>2, SMTT(30) DEF Wanted, Kinds
  <2> QED BY <2>3, <2>4
<1>3. r.err # "errInvalidChain" /\ r.lacking \subseteq Blocks /\ r.accepted = Cardinality(good)
  <2>1. ~ \E n \in refused : ~Cached(Q, n)
    BY <1>2
  <2>2. /\ r.accepted = Cardinality(good)
        /\ r.lacking = IF items = <<>> THEN request ELSE {}
        /\ r.err = CASE request = {} -> "errNoFetchesPending"
                     [] \E n \in refused : ~Cached(Q, n) -> "errInvalidChain"
                     [] refused # {} /\ good = {} -> "errStaleDelivery"
                     [] OTHER -> "none"
    BY DEF deliver
  <2> HIDE DEF refused, good, request, r
  <2> QED BY <1>1, <2>1, <2>2
<1>4. r.queue = IF request = {} THEN Q ELSE R
  BY DEF deliver
<1>5. good \in SUBSET request
  OBVIOUS
<1> HIDE DEF good, r
<1>6. Cardinality(good) > 0 <=> good # {}
  <2>1. IsFiniteSet(good) /\ Cardinality(good) \in Nat
    BY <1>1, <1>5, FiniteBlocks
  <2> QED BY <2>1, FS_EmptySet, SMTT(30)
<1>7. request = {} => Delivered(Q, Q, k, p, good)
  <2>1. SUFFICES ASSUME request = {} PROVE Delivered(Q, Q, k, p, good)
    OBVIOUS
  <2>2. good = {} /\ request \ good = {}
    BY <1>5, <2>1
  <2>3. \A n \in Blocks : Q.cache[n] \in Int /\ \A j \in Kinds : Q.task[j][n] \in Nat
    BY <1>t, SMTT(30) DEF QueueType, Nil
  <2>4. \A j \in Kinds : Q.pool[j] = Q.pool[j] \ good /\ Q.done[j] = Q.done[j] \cup good
    BY <2>2
  <2>5. \A j \in Kinds, n \in Blocks :
          Q.task[j][n] = Q.task[j][n] + IF j = k /\ n \in request \ good THEN 1 ELSE 0
    BY <2>2, <2>3, SMTT(30)
  <2>6. \A n \in Blocks : Q.cache[n] = Q.cache[n] - IF n \in good THEN 1 ELSE 0
    BY <2>2, <2>3, SMTT(30)
  <2> QED BY <2>1, <2>4, <2>5, <2>6 DEF Delivered
<1>8. Delivered(Q, R, k, p, good) /\ QueueType(R)
  <2>1. /\ R.head = Q.head /\ R.offset = Q.offset /\ R.pivot = Q.pivot /\ R.closed = Q.closed
        /\ R.pool = [Q.pool EXCEPT ![k] = @ \ good]
        /\ R.done = [Q.done EXCEPT ![k] = @ \cup good]
        /\ R.pend = [Q.pend EXCEPT ![k][p] = {}]
        /\ R.task = [Q.task EXCEPT ![k] = Push(@, request \ good)]
        /\ R.cache = [m \in Blocks |-> IF m \in good THEN Q.cache[m] - 1 ELSE Q.cache[m]]
    BY <1>t DEF QueueType
  <2>0. /\ R.pool \in [Kinds -> SUBSET Blocks] /\ R.done \in [Kinds -> SUBSET Blocks]
        /\ R.pend \in [Kinds -> [Peers -> SUBSET Blocks]]
        /\ R.task \in [Kinds -> [Blocks -> Nat]] /\ R.cache \in [Blocks -> {Nil} \cup 0 .. 2]
        => QueueType(R)
    BY <1>t DEF QueueType
  <2> HIDE DEF R
  <2>2. \A n \in Blocks : Q.cache[n] \in Int /\ \A j \in Kinds : Q.task[j][n] \in Nat
    BY <1>t, SMTT(30) DEF QueueType, Nil
  <2>3. Delivered(Q, R, k, p, good)
    <3>1. \A j \in Kinds, n \in Blocks :
            R.task[j][n] = Q.task[j][n] + IF j = k /\ n \in request \ good THEN 1 ELSE 0
      BY <1>t, <2>1, <2>2, SMTT(30) DEF Push, QueueType
    <3>2. \A n \in Blocks : R.cache[n] = Q.cache[n] - IF n \in good THEN 1 ELSE 0
      BY <2>1, <2>2, SMTT(30)
    <3>3. \A j \in Kinds, u \in Peers : R.pend[j][u] = IF j = k /\ u = p THEN {} ELSE Q.pend[j][u]
      BY <1>t, <2>1, SMTT(30) DEF QueueType
    <3>4. \A j \in Kinds : /\ R.pool[j] = IF j = k THEN Q.pool[j] \ good ELSE Q.pool[j]
                           /\ R.done[j] = IF j = k THEN Q.done[j] \cup good ELSE Q.done[j]
      BY <1>t, <2>1 DEF QueueType
    <3> QED BY <2>1, <3>1, <3>2, <3>3, <3>4 DEF Delivered
  <2>4. /\ R.pool \in [Kinds -> SUBSET Blocks] /\ R.done \in [Kinds -> SUBSET Blocks]
        /\ R.pend \in [Kinds -> [Peers -> SUBSET Blocks]]
    BY <1>1, <1>5, <1>t, <2>1, SMTT(30) DEF QueueType
  <2>5. R.task \in [Kinds -> [Blocks -> Nat]]
    BY <1>t, <2>1, SMTT(30) DEF QueueType, Push
  <2>6. R.cache \in [Blocks -> {Nil} \cup 0 .. 2]
    BY <1>2, <1>5, <1>t, <2>1, SMTT(30) DEF QueueType
  <2>7. QueueType(R)
    BY <2>0, <2>4, <2>5, <2>6
  <2> QED BY <2>3, <2>7
<1>9. Delivered(Q, r.queue, k, p, good) /\ QueueType(r.queue)
  BY <1>4, <1>7, <1>8, <1>t
<1> QED
  BY <1>3, <1>5, <1>6, <1>9 DEF r


(* What is accepted is finished, the rest of the request is queued again. *)
LEMMA DeliveredInv ==
  ASSUME NEW Q, QueueInv(Q), NEW k \in Kinds, NEW p \in Peers,
         NEW R, QueueType(R), NEW good \in SUBSET Q.pend[k][p], Delivered(Q, R, k, p, good)
  PROVE  QueueInv(R) /\ (good = {} => SameResults(Q, R))
<1> DEFINE request == Q.pend[k][p]
<1>t. QueueType(Q)
  BY DEF QueueInv
<1>1. \A n \in Blocks : /\ Q.cache[n] \in {Nil} \cup 0 .. 2 /\ Q.task[k][n] \in Nat
                        /\ R.cache[n] = Q.cache[n] - IF n \in good THEN 1 ELSE 0
  BY <1>t, SMTT(30) DEF QueueType, Delivered
<1>2. \A n \in request : /\ n \in Blocks /\ n \in Q.pool[k] /\ Q.task[k][n] = 0
                         /\ Q.cache[n] = Wanted(Q, n) /\ Q.cache[n] \in 1 .. 2
                         /\ n \notin Q.done[k]
                         /\ \A u \in Peers : n \in Q.pend[k][u] => u = p
  <2> SUFFICES ASSUME NEW n \in request
               PROVE  /\ n \in Blocks /\ n \in Q.pool[k] /\ Q.task[k][n] = 0
                      /\ Q.cache[n] = Wanted(Q, n) /\ Q.cache[n] \in 1 .. 2
                      /\ n \notin Q.done[k]
                      /\ \A u \in Peers : n \in Q.pend[k][u] => u = p
    OBVIOUS
  <2>1. n \in Blocks
    BY <1>t, SMTT(30) DEF QueueType
  <2>2. PartInv(Q, k, n) /\ ResultInv(Q, n)
    BY <2>1 DEF QueueInv
  <2>3. /\ n \in Q.pool[k] /\ Q.task[k][n] = 0 /\ Q.cache[n] # Nil /\ n \notin Q.done[k]
        /\ \A u \in Peers : n \in Q.pend[k][u] => u = p
    BY <2>2 DEF PartInv, Asked
  <2>4. Q.cache[n] = Wanted(Q, n)
    BY <2>2, <2>3 DEF ResultInv
  <2>5. Q.cache[n] \in 1 .. 2
    BY <2>3, <2>4, SMTT(30) DEF Wanted, Kinds
  <2> QED BY <2>1, <2>3, <2>4, <2>5
<1>3. \A n \in Blocks : R.cache[n] # Nil <=> Q.cache[n] # Nil
  BY <1>1, <1>2, SMTT(30) DEF Nil
<1>4. ASSUME NEW j \in Kinds, NEW n \in Blocks PROVE PartInv(R, j, n)
  <2>1. PartInv(Q, j, n)
    BY DEF QueueInv
  <2>2. /\ R.head = Q.head /\ R.offset = Q.offset /\ Parts(R, n) = Parts(Q, n)
        /\ R.pool[j] = IF j = k THEN Q.pool[j] \ good ELSE Q.pool[j]
        /\ R.done[j] = IF j = k THEN Q.done[j] \cup good ELSE Q.done[j]
        /\ R.task[j][n] = Q.task[j][n] + IF j = k /\ n \in request \ good THEN 1 ELSE 0
    BY DEF Delivered, Parts
  <2>3. \A u \in Peers : R.pend[j][u] = IF j = k /\ u = p THEN {} ELSE Q.pend[j][u]
    BY DEF Delivered
  <2>4. Q.task[j][n] \in Nat
    BY <1>t, SMTT(30) DEF QueueType
  <2>5. Asked(R, j, n) <=> Asked(Q, j, n) /\ ~(j = k /\ n \in request)
    BY <1>2, <2>3 DEF Asked
  <2>6. R.task[j][n] = IF n \in R.pool[j] /\ ~Asked(R, j, n) THEN 1 ELSE 0
    BY <1>2, <2>1, <2>2, <2>4, <2>5, SMTT(30) DEF PartInv
  <2>7. \A u \in Peers : n \in R.pend[j][u] =>
          /\ n \in R.pool[j] /\ R.cache[n] # Nil
          /\ \A v \in Peers : n \in R.pend[j][v] => v = u
    BY <1>2, <1>3, <2>1, <2>2, <2>3 DEF PartInv
  <2>8. n \in R.done[j] => n \notin R.pool[j] /\ R.cache[n] # Nil /\ j \in Parts(R, n)
    BY <1>2, <1>3, <2>1, <2>2 DEF PartInv
  <2> QED BY <2>1, <2>2, <2>6, <2>7, <2>8 DEF PartInv
<1>5. ASSUME NEW n \in Blocks PROVE ResultInv(R, n)
  <2>1. ResultInv(Q, n)
    BY DEF QueueInv
  <2>2. Wanted(R, n) = Wanted(Q, n) - IF n \in good THEN 1 ELSE 0
    BY <1>2, SMTT(30) DEF Wanted, Delivered, Kinds
  <2> QED BY <1>1, <1>3, <2>1, <2>2, SMTT(30) DEF ResultInv, Delivered
<1>6. good = {} => SameResults(Q, R)
  <2>1. good = {} => \A n \in Blocks : R.cache[n] = Q.cache[n]
    BY <1>1, SMTT(30) DEF Nil
  <2>2. Q.cache \in [Blocks -> {Nil} \cup 0 .. 2] /\ R.cache \in [Blocks -> {Nil} \cup 0 .. 2]
    BY <1>t DEF QueueType
  <2> QED BY <2>1, <2>2, SMTT(30) DEF SameResults, Delivered
<1> QED
  BY <1>4, <1>5, <1>6 DEF QueueInv, Delivered

-----------------------------------------------------------------------------
(* reserveHeaders *)

(* Below a task and above the front of the window every part is finished,  *)
(* requested or a lower task.  So the tasks that fit the room ShouldThrottle *)
(* leaves are in the window.                                               *)
LEMMA PoppedInWindow ==
  ASSUME NEW Q, QueueInv(Q), NEW k \in Kinds, NEW n \in Tasks(Q, k),
         Cardinality({m \in Tasks(Q, k) : m < n}) < Space(Q, k)
  PROVE  n \in Window(Q) /\ n \in Q.pool[k] /\ ~Asked(Q, k, n)
<1> DEFINE below == {m \in Tasks(Q, k) : m < n}
           pairs == {r \in Peers \X Blocks : r[2] \in Q.pend[k][r[1]]}
           held == {m \in Blocks : Asked(Q, k, m)}
           D == Q.done[k]
           I == Q.offset .. n - 1
<1>t. QueueType(Q)
  BY DEF QueueInv
<1>1. n \in Blocks /\ n \in Q.pool[k] /\ ~Asked(Q, k, n)
  <2>1. n \in Blocks /\ Q.task[k][n] > 0
    BY DEF Tasks
  <2>2. PartInv(Q, k, n)
    BY <2>1 DEF QueueInv
  <2> QED BY <2>1, <2>2, SMTT(30) DEF PartInv
<1>2. k \in Parts(Q, n) /\ Q.offset <= n /\ n <= Q.head /\ n \in Nat /\ Q.offset \in Nat /\ Q.head \in Nat
  BY <1>1, <1>t, FiniteBlocks, SMTT(30) DEF QueueInv, PartInv, QueueType
<1>3. I \subseteq D \cup (held \cup below)
  <2> SUFFICES ASSUME NEW m \in I PROVE m \in D \cup (held \cup below)
    OBVIOUS
  <2>1. m \in Blocks /\ m < n /\ Q.offset <= m /\ m <= Q.head
    BY <1>1, <1>2, <1>t, QueueAssumption, SMTT(30) DEF Blocks, QueueType
  <2>2. k \in Parts(Q, m)
    BY <1>2, <1>t, <2>1, FiniteBlocks, SMTT(30) DEF Parts, Kinds, QueueType
  <2>3. PartInv(Q, k, m) /\ Q.task[k][m] \in Nat
    BY <1>t, <2>1 DEF QueueInv, QueueType
  <2> QED BY <2>1, <2>2, <2>3, SMTT(30) DEF PartInv, Tasks
<1>4. /\ IsFiniteSet(D) /\ IsFiniteSet(held) /\ IsFiniteSet(below) /\ IsFiniteSet(pairs)
      /\ Cardinality(D) \in Nat /\ Cardinality(held) \in Nat
      /\ Cardinality(below) \in Nat /\ Cardinality(pairs) \in Nat
  <2>1. D \in SUBSET Blocks /\ held \in SUBSET Blocks /\ below \in SUBSET Blocks
    BY <1>t DEF QueueType, Tasks
  <2>2. IsFiniteSet(pairs) /\ Cardinality(pairs) \in Nat
    <3>1. pairs \in SUBSET (Peers \X Blocks)
      OBVIOUS
    <3> QED BY <3>1, FiniteBlocks, FS_Subset, FS_CardinalityType
  <2> QED BY <2>1, <2>2, FiniteBlocks
<1>5. Cardinality(held) <= Cardinality(pairs)
  <2> DEFINE f == [r \in pairs |-> r[2]]
  <2>1. f \in Surjection(pairs, held)
    <3>1. f \in [pairs -> held]
      BY DEF Asked
    <3>2. \A m \in held : \E r \in pairs : f[r] = m
      <4> SUFFICES ASSUME NEW m \in held PROVE \E r \in pairs : f[r] = m
        OBVIOUS
      <4>1. PICK p \in Peers : m \in Q.pend[k][p]
        BY DEF Asked
      <4>2. <<p, m>> \in pairs
        BY <4>1
      <4> QED BY <4>2
    <3> QED BY <3>1, <3>2 DEF Surjection
  <2> HIDE DEF f
  <2> QED BY <1>4, <2>1, FS_Surjection
<1>6. n - Q.offset <= Cardinality(D) + (Cardinality(held) + Cardinality(below))
  <2>1. \A S, T : IsFiniteSet(S) /\ IsFiniteSet(T) =>
          IsFiniteSet(S \cup T) /\ Cardinality(S \cup T) <= Cardinality(S) + Cardinality(T)
    <3> SUFFICES ASSUME NEW S, NEW T, IsFiniteSet(S), IsFiniteSet(T)
                 PROVE  /\ IsFiniteSet(S \cup T)
                        /\ Cardinality(S \cup T) <= Cardinality(S) + Cardinality(T)
      OBVIOUS
    <3>1. /\ IsFiniteSet(S \cup T)
          /\ Cardinality(S \cup T) = Cardinality(S) + Cardinality(T) - Cardinality(S \cap T)
      BY FS_Union
    <3>2. Cardinality(S) \in Nat /\ Cardinality(T) \in Nat /\ Cardinality(S \cap T) \in Nat
      BY FS_CardinalityType, FS_Intersection
    <3> QED BY <3>1, <3>2, SMTT(30)
  <2>2. Cardinality(I) = n - Q.offset
    <3>1. Q.offset \in Int /\ n - 1 \in Int
      BY <1>2, SMTT(30)
    <3>2. Cardinality(I) = IF Q.offset > n - 1 THEN 0 ELSE (n - 1) - Q.offset + 1
      BY <3>1, FS_Interval
    <3> HIDE DEF I
    <3> QED BY <1>2, <3>2, SMTT(30)
  <2> HIDE DEF D, held, below, I
  <2>3. /\ IsFiniteSet(held \cup below)
        /\ Cardinality(held \cup below) <= Cardinality(held) + Cardinality(below)
    BY <1>4, <2>1
  <2>4. /\ IsFiniteSet(D \cup (held \cup below))
        /\ Cardinality(D \cup (held \cup below)) <= Cardinality(D) + Cardinality(held \cup below)
    BY <1>4, <2>1, <2>3
  <2>5. Cardinality(I) <= Cardinality(D \cup (held \cup below))
    BY <1>3, <2>4, FS_Subset
  <2>6. Cardinality(held \cup below) \in Nat /\ Cardinality(D \cup (held \cup below)) \in Nat
    BY <2>3, <2>4, FS_CardinalityType
  <2> QED BY <1>2, <1>4, <2>2, <2>3, <2>4, <2>5, <2>6, SMTT(30)
<1>7. Cardinality(below) < CacheLimit - Cardinality(D) - Cardinality(pairs)
  BY DEF Space
<1> HIDE DEF D, held, below, pairs
<1> QED
  BY <1>1, <1>2, <1>4, <1>5, <1>6, <1>7, QueueAssumption, SMTT(30) DEF Window


(* A result that is allocated for a task, or that it finds, counts what is *)
(* wanted of the block.                                                    *)
LEMMA AllocCounts ==
  ASSUME NEW Q, QueueInv(Q), NEW k \in Kinds, NEW n \in Blocks, n \in Q.pool[k]
  PROVE  /\ (IF Q.cache[n] = Nil THEN Components(Q, n) ELSE Q.cache[n]) = Wanted(Q, n)
         /\ Wanted(Q, n) \in 1 .. 2
<1>1. PartInv(Q, "body", n) /\ PartInv(Q, "receipt", n) /\ PartInv(Q, k, n) /\ ResultInv(Q, n)
  BY DEF QueueInv, Kinds
<1>2. Wanted(Q, n) \in 1 .. 2
  BY SMTT(30) DEF Wanted, Kinds
<1>3. CASE Q.cache[n] = Nil
  <2>1. /\ n \in Q.pool["body"] <=> "body" \in Parts(Q, n)
        /\ n \in Q.pool["receipt"] <=> "receipt" \in Parts(Q, n)
    BY <1>1, <1>3 DEF PartInv
  <2>2. Components(Q, n) = (IF "body" \in Parts(Q, n) THEN 1 ELSE 0)
                             + (IF "receipt" \in Parts(Q, n) THEN 1 ELSE 0)
    BY PartsCount, CountKinds DEF Components
  <2> QED BY <1>2, <1>3, <2>1, <2>2 DEF Wanted
<1>4. CASE Q.cache[n] # Nil
  BY <1>1, <1>2, <1>4 DEF ResultInv
<1> QED BY <1>3, <1>4

\* A reservation for p that popped the blocks in taken: the ones in noop were
\* finished at once, the ones in send are asked for, the others went back.
Reserved(Q, R, k, p, taken, noop, send) ==
  /\ R.head = Q.head /\ R.offset = Q.offset /\ R.pivot = Q.pivot /\ R.closed = Q.closed
  /\ \A j \in Kinds : /\ R.pool[j] = IF j = k THEN Q.pool[j] \ noop ELSE Q.pool[j]
                      /\ R.done[j] = IF j = k THEN Q.done[j] \cup noop ELSE Q.done[j]
  /\ \A j \in Kinds, u \in Peers : R.pend[j][u] = IF j = k /\ u = p THEN send ELSE Q.pend[j][u]
  /\ \A j \in Kinds, n \in Blocks :
       R.task[j][n] = Q.task[j][n] - IF j = k /\ n \in noop \cup send THEN 1 ELSE 0
  /\ \A n \in Blocks : R.cache[n] = IF n \in taken
                                    THEN Wanted(Q, n) - IF n \in noop THEN 1 ELSE 0
                                    ELSE Q.cache[n]

(* reserveHeaders never meets a number outside the window. *)
LEMMA ReserveFields ==
  ASSUME NEW Q, QueueInv(Q), NEW k \in Kinds, NEW p \in Peers, NEW count, NEW lacking
  PROVE  LET r == reserveHeaders(Q, k, p, count, lacking) IN
         /\ ~r.invalid /\ QueueType(r.queue)
         /\ \E taken \in SUBSET Window(Q) : \E noop \in SUBSET taken, send \in SUBSET taken :
              /\ noop \cap send = {} /\ r.send = send /\ r.progress = (noop # {})
              /\ \A n \in taken : n \in Q.pool[k] /\ ~Asked(Q, k, n)
              /\ Reserved(Q, r.queue, k, p, taken, noop, send)
<1> DEFINE below(n) == {m \in Tasks(Q, k) : m < n}
           wanted == Tasks(Q, k) \ (EmptyParts[k] \cup lacking)
           popped == {n \in Tasks(Q, k) : /\ Cardinality(below(n)) < Space(Q, k)
                                          /\ Cardinality(below(n) \cap wanted) < count}
           outside == popped \ Window(Q)
           taken == {n \in popped : \A m \in outside : n < m}
           noop == taken \cap EmptyParts[k]
           send == IF outside = {} THEN taken \cap wanted ELSE {}
           gone == IF outside = {} THEN noop \cup send
                   ELSE {n \in popped : \A m \in outside : n <= m}
           alloc(n) == IF Q.cache[n] = Nil THEN Components(Q, n) ELSE Q.cache[n]
           r == reserveHeaders(Q, k, p, count, lacking)
           R == [Q EXCEPT !.task[k] = Pop(@, gone),
                          !.pend[k][p] = send,
                          !.done[k] = @ \cup noop,
                          !.pool[k] = @ \ noop,
                          !.cache = [n \in Blocks |->
                                       IF n \in noop THEN alloc(n) - 1
                                       ELSE IF n \in taken THEN alloc(n) ELSE @[n]]]
<1>t. QueueType(Q)
  BY DEF QueueInv
<1>1. /\ r.queue = R /\ r.send = send /\ r.progress = (noop # {}) /\ r.invalid = (outside # {})
  BY DEF reserveHeaders
<1> HIDE DEF r
<1>2. \A n \in popped : n \in Window(Q) /\ n \in Q.pool[k] /\ ~Asked(Q, k, n)
  BY PoppedInWindow
<1>3. outside = {}
  BY <1>2
<1>4. /\ taken \in SUBSET Window(Q) /\ taken \in SUBSET Blocks
      /\ noop \in SUBSET taken /\ send \in SUBSET taken /\ gone = noop \cup send
      /\ noop \cap send = {} /\ \A n \in taken : n \in Q.pool[k] /\ ~Asked(Q, k, n)
  BY <1>2, <1>3 DEF Window
<1> HIDE DEF popped, outside, wanted, taken, noop, send, gone
<1>5. \A n \in taken : /\ alloc(n) = Wanted(Q, n) /\ Wanted(Q, n) \in 1 .. 2
                       /\ Q.task[k][n] = 1
  <2> SUFFICES ASSUME NEW n \in taken
               PROVE  alloc(n) = Wanted(Q, n) /\ Wanted(Q, n) \in 1 .. 2 /\ Q.task[k][n] = 1
    OBVIOUS
  <2>1. n \in Blocks /\ n \in Q.pool[k] /\ ~Asked(Q, k, n)
    BY <1>4
  <2>2. Q.task[k][n] = 1
    BY <2>1 DEF QueueInv, PartInv
  <2> QED BY <2>1, <2>2, AllocCounts
<1>6. /\ R.head = Q.head /\ R.offset = Q.offset /\ R.pivot = Q.pivot /\ R.closed = Q.closed
      /\ R.pool = [Q.pool EXCEPT ![k] = @ \ noop]
      /\ R.done = [Q.done EXCEPT ![k] = @ \cup noop]
      /\ R.pend = [Q.pend EXCEPT ![k][p] = send]
      /\ R.task = [Q.task EXCEPT ![k] = Pop(@, gone)]
      /\ R.cache = [n \in Blocks |-> IF n \in noop THEN alloc(n) - 1
                                     ELSE IF n \in taken THEN alloc(n) ELSE Q.cache[n]]
  BY <1>t DEF QueueType
<1>7. /\ R.pool \in [Kinds -> SUBSET Blocks] /\ R.done \in [Kinds -> SUBSET Blocks]
      /\ R.pend \in [Kinds -> [Peers -> SUBSET Blocks]]
      /\ R.task \in [Kinds -> [Blocks -> Nat]] /\ R.cache \in [Blocks -> {Nil} \cup 0 .. 2]
      => QueueType(R)
  BY <1>t DEF QueueType
<1> HIDE DEF R, alloc
<1>8. QueueType(R)
  <2>1. /\ R.pool \in [Kinds -> SUBSET Blocks] /\ R.done \in [Kinds -> SUBSET Blocks]
        /\ R.pend \in [Kinds -> [Peers -> SUBSET Blocks]]
    BY <1>4, <1>6, <1>t, SMTT(30) DEF QueueType
  <2>2. R.task \in [Kinds -> [Blocks -> Nat]]
    <3>1. \A n \in Blocks : Q.task[k][n] - (IF n \in gone THEN 1 ELSE 0) \in Nat
      BY <1>4, <1>5, <1>t, SMTT(30) DEF QueueType
    <3> QED BY <1>6, <1>t, <3>1, SMTT(30) DEF QueueType, Pop
  <2>3. R.cache \in [Blocks -> {Nil} \cup 0 .. 2]
    <3>1. \A n \in Blocks : R.cache[n] \in {Nil} \cup 0 .. 2
      BY <1>4, <1>5, <1>6, <1>t, SMTT(30) DEF QueueType
    <3> QED BY <1>6, <3>1
  <2> QED BY <1>7, <2>1, <2>2, <2>3
<1>9. Reserved(Q, R, k, p, taken, noop, send)
  <2>1. \A j \in Kinds : /\ R.pool[j] = IF j = k THEN Q.pool[j] \ noop ELSE Q.pool[j]
                         /\ R.done[j] = IF j = k THEN Q.done[j] \cup noop ELSE Q.done[j]
    BY <1>6, <1>t DEF QueueType
  <2>2. \A j \in Kinds, u \in Peers : R.pend[j][u] = IF j = k /\ u = p THEN send ELSE Q.pend[j][u]
    BY <1>6, <1>t, SMTT(30) DEF QueueType
  <2>3. \A j \in Kinds, n \in Blocks :
          R.task[j][n] = Q.task[j][n] - IF j = k /\ n \in noop \cup send THEN 1 ELSE 0
    BY <1>4, <1>6, <1>t, SMTT(30) DEF QueueType, Pop
  <2>4. \A n \in Blocks : R.cache[n] = IF n \in taken
                                       THEN Wanted(Q, n) - IF n \in noop THEN 1 ELSE 0
                                       ELSE Q.cache[n]
    BY <1>4, <1>5, <1>6, SMTT(30)
  <2> QED BY <1>6, <2>1, <2>2, <2>3, <2>4 DEF Reserved
<1> QED
  <2>1. ~r.invalid /\ QueueType(r.queue)
    BY <1>1, <1>3, <1>8
  <2>2. /\ noop \cap send = {} /\ r.send = send /\ r.progress = (noop # {})
        /\ \A n \in taken : n \in Q.pool[k] /\ ~Asked(Q, k, n)
        /\ Reserved(Q, r.queue, k, p, taken, noop, send)
    BY <1>1, <1>4, <1>9
  <2> QED BY <1>4, <2>1, <2>2 DEF r


(* A reservation moves each part it pops into the request, to the finished *)
(* ones or back; where it signals nobody, it finished nothing, and any     *)
(* result it allocated still waits for a part.                             *)
LEMMA ReservedInv ==
  ASSUME NEW Q, QueueInv(Q), NEW k \in Kinds, NEW p \in Peers, Q.pend[k][p] = {},
         NEW R, QueueType(R), NEW taken \in SUBSET Window(Q),
         NEW noop \in SUBSET taken, NEW send \in SUBSET taken, noop \cap send = {},
         \A n \in taken : n \in Q.pool[k] /\ ~Asked(Q, k, n),
         Reserved(Q, R, k, p, taken, noop, send)
  PROVE  /\ QueueInv(R)
         /\ noop = {} => \/ SameResults(Q, R)
                         \/ \E n \in Window(R) : R.cache[n] > 0
<1>t. QueueType(Q)
  BY DEF QueueInv
<1>0. taken \subseteq Blocks
  BY DEF Window
<1>1. \A n \in taken : /\ Wanted(Q, n) \in 1 .. 2 /\ Q.task[k][n] = 1 /\ n \notin Q.done[k]
                       /\ Q.offset <= n /\ n <= Q.head /\ n - Q.offset < CacheLimit
  <2> SUFFICES ASSUME NEW n \in taken
               PROVE  /\ Wanted(Q, n) \in 1 .. 2 /\ Q.task[k][n] = 1 /\ n \notin Q.done[k]
                      /\ Q.offset <= n /\ n <= Q.head /\ n - Q.offset < CacheLimit
    OBVIOUS
  <2>1. n \in Blocks /\ n \in Q.pool[k] /\ ~Asked(Q, k, n) /\ n - Q.offset \in 0 .. CacheLimit - 1
    BY <1>0 DEF Window
  <2>2. PartInv(Q, k, n)
    BY <2>1 DEF QueueInv
  <2>3. Wanted(Q, n) \in 1 .. 2
    BY <2>1, AllocCounts
  <2>4. n - Q.offset < CacheLimit
    BY <1>t, <2>1, FiniteBlocks, QueueAssumption, SMTT(30) DEF QueueType
  <2> QED BY <2>1, <2>2, <2>3, <2>4 DEF PartInv
<1>2. \A n \in Blocks : /\ R.cache[n] # Nil <=> n \in taken \/ Q.cache[n] # Nil
                        /\ Q.cache[n] \in {Nil} \cup 0 .. 2
  <2> SUFFICES ASSUME NEW n \in Blocks
               PROVE  /\ R.cache[n] # Nil <=> n \in taken \/ Q.cache[n] # Nil
                      /\ Q.cache[n] \in {Nil} \cup 0 .. 2
    OBVIOUS
  <2>1. R.cache[n] = IF n \in taken THEN Wanted(Q, n) - (IF n \in noop THEN 1 ELSE 0)
                     ELSE Q.cache[n]
    BY DEF Reserved
  <2>2. n \in taken => Wanted(Q, n) - (IF n \in noop THEN 1 ELSE 0) \in 0 .. 2
    BY <1>1, SMTT(30)
  <2> QED BY <1>t, <2>1, <2>2, SMTT(30) DEF Nil, QueueType
<1>3. ASSUME NEW j \in Kinds, NEW n \in Blocks PROVE PartInv(R, j, n)
  <2>1. PartInv(Q, j, n)
    BY DEF QueueInv
  <2>2. /\ R.head = Q.head /\ R.offset = Q.offset /\ Parts(R, n) = Parts(Q, n)
        /\ R.pool[j] = IF j = k THEN Q.pool[j] \ noop ELSE Q.pool[j]
        /\ R.done[j] = IF j = k THEN Q.done[j] \cup noop ELSE Q.done[j]
        /\ R.task[j][n] = Q.task[j][n] - IF j = k /\ n \in noop \cup send THEN 1 ELSE 0
    BY DEF Reserved, Parts
  <2>3. \A u \in Peers : R.pend[j][u] = IF j = k /\ u = p THEN send ELSE Q.pend[j][u]
    BY DEF Reserved
  <2>4. Q.task[j][n] \in Nat
    BY <1>t, SMTT(30) DEF QueueType
  <2>5. Asked(R, j, n) <=> Asked(Q, j, n) \/ (j = k /\ n \in send)
    BY <2>3 DEF Asked
  <2>6. R.task[j][n] = IF n \in R.pool[j] /\ ~Asked(R, j, n) THEN 1 ELSE 0
    BY <1>1, <2>1, <2>2, <2>4, <2>5, SMTT(30) DEF PartInv
  <2>7. \A u \in Peers : n \in R.pend[j][u] =>
          /\ n \in R.pool[j] /\ R.cache[n] # Nil
          /\ \A v \in Peers : n \in R.pend[j][v] => v = u
    BY <1>2, <2>1, <2>2, <2>3, SMTT(30) DEF PartInv, Asked
  <2>8. /\ n \in R.done[j] => n \notin R.pool[j] /\ R.cache[n] # Nil /\ j \in Parts(R, n)
        /\ n \in R.pool[j] => j \in Parts(R, n) /\ R.offset <= n /\ n <= R.head
        /\ j \in Parts(R, n) /\ R.offset <= n /\ n <= R.head => n \in R.pool[j] \cup R.done[j]
    BY <1>2, <2>1, <2>2 DEF PartInv
  <2> QED BY <2>6, <2>7, <2>8 DEF PartInv
<1>4. ASSUME NEW n \in Blocks PROVE ResultInv(R, n)
  <2>1. ResultInv(Q, n)
    BY DEF QueueInv
  <2>2. Wanted(R, n) = Wanted(Q, n) - IF n \in noop THEN 1 ELSE 0
    <3>1. n \in noop => n \in Q.pool[k]
      OBVIOUS
    <3> QED BY <3>1, SMTT(30) DEF Wanted, Reserved, Kinds
  <2>3. R.cache[n] # Nil => R.cache[n] = Wanted(R, n)
    BY <1>1, <1>2, <2>1, <2>2, SMTT(30) DEF ResultInv, Reserved, Wanted
  <2> QED BY <1>1, <1>2, <2>1, <2>3 DEF ResultInv, Reserved
<1>5. ASSUME noop = {} PROVE SameResults(Q, R) \/ \E n \in Window(R) : R.cache[n] > 0
  <2>1. CASE taken = {}
    <3>1. \A n \in Blocks : R.cache[n] = Q.cache[n]
      BY <2>1 DEF Reserved
    <3>2. Q.cache \in [Blocks -> {Nil} \cup 0 .. 2] /\ R.cache \in [Blocks -> {Nil} \cup 0 .. 2]
      BY <1>t DEF QueueType
    <3> QED BY <3>1, <3>2, SMTT(30) DEF SameResults, Reserved
  <2>2. CASE taken # {}
    <3>1. PICK n \in taken : TRUE
      BY <2>2
    <3>2. n \in Window(R)
      BY DEF Window, Reserved
    <3>3. R.cache[n] > 0
      BY <1>0, <1>1, <1>5, SMTT(30) DEF Reserved
    <3> QED BY <3>2, <3>3
  <2> QED BY <2>1, <2>2
<1> QED
  BY <1>3, <1>4, <1>5 DEF QueueInv, Reserved

-----------------------------------------------------------------------------
(* WaitResults *)

(* What countProcessableItems counts is the front of the window. *)
LEMMA ProcessableIsPrefix ==
  ASSUME NEW Q, QueueInv(Q)
  PROVE  LET S == Processable(Q) IN
         /\ Cardinality(S) \in Nat
         /\ S = Q.offset .. Q.offset + Cardinality(S) - 1
         /\ S \subseteq Blocks
         /\ S # {} => Cardinality(S) > 0
         /\ \A n \in S : /\ Q.cache[n] = 0 /\ n <= Q.head
                         /\ \A k \in Kinds : n \notin Q.pool[k]
<1> DEFINE S == Processable(Q)
           c == Cardinality(S)
           I == Q.offset .. Q.offset + c - 1
<1>t. QueueType(Q)
  BY DEF QueueInv
<1>0. Q.offset \in Nat /\ Blocks \subseteq Nat
  BY <1>t, FiniteBlocks, SMTT(30) DEF QueueType
<1>1. S \in SUBSET Blocks /\ \A n \in S : n \in Nat /\ Q.offset <= n
  <2>1. S \in SUBSET Blocks
    BY DEF Processable, Window
  <2>2. ASSUME NEW n \in S PROVE n \in Nat /\ Q.offset <= n
    <3>1. n \in Nat /\ n - Q.offset \in 0 .. CacheLimit - 1
      BY <1>0 DEF Processable, Window
    <3> QED BY <1>0, <3>1, QueueAssumption, SMTT(30)
  <2> QED BY <2>1, <2>2
<1>2. IsFiniteSet(S) /\ c \in Nat
  BY <1>1, FiniteBlocks
<1>3. \A n \in S : Q.offset <= n /\ \A m \in Q.offset .. n : m \in S
  <2> SUFFICES ASSUME NEW n \in S PROVE Q.offset <= n /\ \A m \in Q.offset .. n : m \in S
    OBVIOUS
  <2>1. Q.offset <= n /\ n \in Nat
    BY <1>1
  <2>2. \A m \in Q.offset .. n : Ready(Q, m)
    BY DEF Processable
  <2>3. \A m \in Q.offset .. n : m \in Window(Q)
    BY <2>2 DEF Ready
  <2>4. ASSUME NEW m \in Q.offset .. n PROVE m \in S
    <3>1. \A i \in Q.offset .. m : i \in Q.offset .. n
      BY <1>0, <2>1, SMTT(30)
    <3> QED BY <2>2, <2>3, <3>1 DEF Processable
  <2> QED BY <2>1, <2>4
<1>4. S \subseteq I
  <2> SUFFICES ASSUME NEW n \in S PROVE n <= Q.offset + c - 1 /\ Q.offset <= n /\ n \in Nat
    BY <1>0, <1>2, SMTT(30)
  <2>1. n \in Int /\ Q.offset \in Int /\ Q.offset <= n /\ n \in Nat
    BY <1>0, <1>1, SMTT(30)
  <2>4. Q.offset .. n \in SUBSET S
    BY <1>3
  <2>2. Cardinality(Q.offset .. n) = IF Q.offset > n THEN 0 ELSE n - Q.offset + 1
    BY <2>1, FS_Interval
  <2>3. Cardinality(Q.offset .. n) <= c
    BY <1>2, <2>4, FS_Subset
  <2> HIDE DEF c
  <2> QED BY <1>0, <1>1, <1>2, <2>1, <2>2, <2>3, SMTT(30)
<1>5. IsFiniteSet(I) /\ Cardinality(I) = c
  <2> HIDE DEF c
  <2>1. Q.offset \in Int /\ Q.offset + c - 1 \in Int
    BY <1>0, <1>2, SMTT(30)
  <2>2. /\ IsFiniteSet(I)
        /\ Cardinality(I) = IF Q.offset > Q.offset + c - 1 THEN 0
                            ELSE (Q.offset + c - 1) - Q.offset + 1
    BY <2>1, FS_Interval
  <2> HIDE DEF I
  <2> QED BY <1>0, <1>2, <2>2, SMTT(30)
<1>6. S = I
  <2> HIDE DEF I, S
  <2> QED BY <1>4, <1>5, FS_Subset DEF c
<1>7. \A n \in S : Q.cache[n] = 0 /\ n <= Q.head /\ \A k \in Kinds : n \notin Q.pool[k]
  <2> SUFFICES ASSUME NEW n \in S
               PROVE  Q.cache[n] = 0 /\ n <= Q.head /\ \A k \in Kinds : n \notin Q.pool[k]
    OBVIOUS
  <2>1. n \in Blocks /\ n \in Q.offset .. n
    <3>1. n \in Blocks /\ n \in Nat /\ Q.offset <= n
      BY <1>1
    <3> QED BY <1>0, <3>1, SMTT(30)
  <2>2. Q.cache[n] = 0
    BY <2>1 DEF Processable, Ready
  <2>3. ResultInv(Q, n) /\ Q.cache[n] # Nil
    BY <2>1, <2>2, SMTT(30) DEF QueueInv, Nil
  <2>4. Wanted(Q, n) = 0 /\ n <= Q.head
    BY <2>2, <2>3 DEF ResultInv
  <2> QED BY <2>2, <2>4, SMTT(30) DEF Wanted, Kinds
<1>8. S # {} => c > 0
  BY <1>2, FS_EmptySet, SMTT(30)
<1> HIDE DEF S, c
<1> QED BY <1>1, <1>2, <1>6, <1>7, <1>8 DEF S, c


(* WaitResults hands out finished blocks only and moves the window by as   *)
(* many.                                                                   *)
LEMMA TakeInv ==
  ASSUME NEW Q, QueueInv(Q)
  PROVE  LET R == TakeResults(Q) IN
         /\ QueueInv(R) /\ R.head = Q.head /\ R.pool = Q.pool
         /\ R.pivot = Q.pivot /\ R.closed = Q.closed
<1> DEFINE R == TakeResults(Q)
           S == Processable(Q)
           c == Cardinality(S)
<1>t. QueueType(Q)
  BY DEF QueueInv
<1>0. /\ Q.offset \in Nat /\ Q.head \in Nat /\ Blocks \subseteq Nat /\ Height \in Nat
      /\ Q.head <= Height /\ 1 <= Q.offset /\ CacheLimit \in Nat
  BY <1>t, FiniteBlocks, QueueAssumption, SMTT(30) DEF QueueType
<1>1. /\ c \in Nat /\ S = Q.offset .. Q.offset + c - 1 /\ S \subseteq Blocks
      /\ S # {} => c > 0
      /\ \A n \in S : Q.cache[n] = 0 /\ n <= Q.head /\ \A k \in Kinds : n \notin Q.pool[k]
  BY ProcessableIsPrefix
<1>2. /\ R.head = Q.head /\ R.pool = Q.pool /\ R.task = Q.task /\ R.pend = Q.pend
      /\ R.pivot = Q.pivot /\ R.closed = Q.closed /\ R.offset = Q.offset + c
      /\ R.done = [k \in Kinds |-> Q.done[k] \ S]
      /\ R.cache = [n \in Blocks |-> IF n \in S THEN Nil ELSE Q.cache[n]]
  BY <1>t DEF QueueType, TakeResults
<1>3. R.offset \in 1 .. Height + 1 /\ R.done \in [Kinds -> SUBSET Blocks]
      /\ R.cache \in [Blocks -> {Nil} \cup 0 .. 2] => QueueType(R)
  BY <1>t DEF QueueType, TakeResults
<1> HIDE DEF S, c, R
<1>4. R.offset <= Q.head + 1 /\ R.offset \in Nat /\ Q.offset <= R.offset
  <2>1. CASE c = 0
    BY <1>0, <1>2, <2>1, SMTT(30) DEF QueueInv
  <2>2. CASE c > 0
    <3>1. Q.offset + c - 1 \in S
      BY <1>0, <1>1, <2>2, SMTT(30)
    <3> QED BY <1>0, <1>1, <1>2, <3>1, SMTT(30)
  <2> QED BY <1>1, <2>1, <2>2, SMTT(30)
<1>5. QueueType(R)
  <2>1. R.offset \in 1 .. Height + 1
    BY <1>0, <1>4, SMTT(30)
  <2>2. R.done \in [Kinds -> SUBSET Blocks] /\ R.cache \in [Blocks -> {Nil} \cup 0 .. 2]
    BY <1>2, <1>t, SMTT(30) DEF QueueType
  <2> QED BY <1>3, <2>1, <2>2
<1>6. \A n \in Blocks : R.offset <= n <=> Q.offset <= n /\ n \notin S
  BY <1>0, <1>1, <1>2, SMTT(30)
<1>7. ASSUME NEW k \in Kinds, NEW n \in Blocks PROVE PartInv(R, k, n)
  <2>1. PartInv(Q, k, n)
    BY DEF QueueInv
  <2>2. n \in Q.pool[k] => n \notin S
    BY <1>1
  <2>3. Parts(R, n) = Parts(Q, n) /\ (Asked(R, k, n) <=> Asked(Q, k, n))
    BY <1>2 DEF Parts, Asked
  <2>4. R.cache[n] = (IF n \in S THEN Nil ELSE Q.cache[n]) /\ R.done[k] = Q.done[k] \ S
    BY <1>2
  <2> QED BY <1>2, <1>6, <2>1, <2>2, <2>3, <2>4 DEF PartInv
<1>8. ASSUME NEW n \in Blocks PROVE ResultInv(R, n)
  <2>1. ResultInv(Q, n) /\ R.cache[n] = (IF n \in S THEN Nil ELSE Q.cache[n])
    BY <1>2 DEF QueueInv
  <2>2. Wanted(R, n) = Wanted(Q, n)
    BY <1>2 DEF Wanted
  <2> QED BY <1>0, <1>2, <1>4, <1>6, <2>1, <2>2, SMTT(30) DEF ResultInv
<1> QED
  BY <1>2, <1>4, <1>5, <1>7, <1>8 DEF QueueInv, R

(* Nothing to hand out and nothing wanted, with all headers queued: every  *)
(* block was handed out.  The pivot never waits for more than the window   *)
(* and the chain have behind it.                                           *)
LEMMA NothingMeansAll ==
  ASSUME NEW Q, QueueInv(Q), Q.pivot > 0 => Q.pivot + ForceVerify <= Height, Q.head = Height,
         \A k \in Kinds : Q.pool[k] = {}, Processable(Q) = {}
  PROVE  Q.offset = Height + 1
<1>t. QueueType(Q)
  BY DEF QueueInv
<1> DEFINE n == Q.offset
<1>0. /\ n \in Nat /\ 1 <= n /\ n <= Height + 1 /\ Height \in Nat /\ Blocks = 1 .. Height
      /\ CacheLimit \in Nat /\ ForceVerify \in Nat /\ ForceVerify < CacheLimit
      /\ Q.pivot \in Nat /\ (Q.pivot > 0 => Q.pivot + ForceVerify <= Height)
  BY <1>t, FiniteBlocks, QueueAssumption, SMTT(30) DEF QueueType, Blocks
<1> SUFFICES ASSUME n # Height + 1 PROVE FALSE
  OBVIOUS
<1>1. \A m \in n .. Height : m \in Blocks /\ Q.cache[m] = 0
  <2> SUFFICES ASSUME NEW m \in n .. Height PROVE m \in Blocks /\ Q.cache[m] = 0
    OBVIOUS
  <2>1. m \in Blocks /\ Q.offset <= m /\ m <= Q.head
    BY <1>0, SMTT(30)
  <2>2. PartInv(Q, "body", m) /\ "body" \in Parts(Q, m)
    BY <2>1, PartsCount DEF QueueInv, Kinds
  <2>3. m \in Q.done["body"]
    BY <2>1, <2>2 DEF PartInv, Kinds
  <2>4. Q.cache[m] = Wanted(Q, m)
    BY <2>1, <2>2, <2>3 DEF PartInv, QueueInv, ResultInv
  <2> QED BY <2>1, <2>4, SMTT(30) DEF Wanted, Kinds
<1>2. n \in n .. Height /\ n \in Window(Q)
  BY <1>0, SMTT(30) DEF Window
<1>3. Ready(Q, n)
  <2>1. ASSUME n = Q.pivot, Q.pivot > 0, NEW m \in n + 1 .. n + ForceVerify
        PROVE  m \in Window(Q) /\ Q.cache[m] # Nil
    <3>1. m \in n .. Height
      BY <1>0, <2>1, SMTT(30)
    <3>2. m - n \in 0 .. CacheLimit - 1
      BY <1>0, <2>1, SMTT(30)
    <3> QED BY <1>1, <3>1, <3>2, SMTT(30) DEF Window, Nil
  <2> QED BY <1>1, <1>2, <2>1 DEF Ready
<1>4. n \in Processable(Q)
  <2>1. \A m \in n .. n : m = n
    BY <1>0, SMTT(30)
  <2> QED BY <1>2, <1>3, <2>1 DEF Processable
<1> QED BY <1>4

(* Revoke returns both requests of a peer. *)
LEMMA RevokeInv ==
  ASSUME NEW Q, QueueInv(Q), NEW p \in Peers
  PROVE  LET R == Revoke(Q, p) IN
         QueueInv(R) /\ SameResults(Q, R) /\ R.head = Q.head /\ R.pool = Q.pool
<1> DEFINE Once == Return(Q, "body", {p})
<1>1. QueueInv(Once) /\ SameResults(Q, Once) /\ Once.head = Q.head /\ Once.pool = Q.pool
  BY ReturnInv DEF Kinds
<1>2. Revoke(Q, p) = Return(Once, "receipt", {p})
  BY DEF Revoke
<1> HIDE DEF Once
<1>3. LET R == Revoke(Q, p) IN
      QueueInv(R) /\ SameResults(Once, R) /\ R.head = Once.head /\ R.pool = Once.pool
  BY <1>1, <1>2, ReturnInv, SMTT(30) DEF Kinds
<1> QED BY <1>1, <1>3 DEF SameResults
=============================================================================
