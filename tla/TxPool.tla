------------------------------- MODULE TxPool -------------------------------
(***************************************************************************)
(* The transaction pool of core/tx_pool.go with the lists of               *)
(* core/tx_list.go and the journal of core/tx_journal.go.                  *)
(*                                                                         *)
(* Every operation holds the pool's lock from its first to its last line,  *)
(* so an operation is one step; what makes the pool hard is that pending,  *)
(* queue, all, the price heap, the virtual nonces and the cost caps are    *)
(* views of one set of transactions that ten operations keep by hand.      *)
(* The pool is one record P, and the operators below are its methods.      *)
(***************************************************************************)
EXTENDS Integers, Sequences, FiniteSets, SequencesExt

CONSTANTS
  Accounts, Wallets, Txs,        \* senders, the node's own among them, transactions
  From, Nonce, Price, Cost,      \* the fields of a transaction, as functions
  Blocks, Genesis, Parent,       \* the blocks the chain may have as its head
  BlockTxs,                      \* [Blocks -> Seq(Txs)]
  Balance,                       \* [Blocks -> [Accounts -> Nat]], in the block's state
  PriceLimit, GasPrices,         \* minimum prices: configured, set by SetGasPrice
  Batches,                       \* sequences of transactions handed in by one call
  PriceBump, AccountSlots, GlobalSlots, AccountQueue, GlobalQueue,   \* TxPoolConfig
  MaxReorgDepth,                 \* 64: deeper reorgs do not reinject
  MaxHeap, MaxDrift              \* bounds: entries of the price heap, error of `stales`

ASSUME TxPoolAssumption ==
  /\ Wallets \subseteq Accounts
  /\ From \in [Txs -> Accounts] /\ Nonce \in [Txs -> Nat]
  /\ Price \in [Txs -> Nat] /\ Cost \in [Txs -> Nat]
  /\ Genesis \in Blocks /\ Parent \in [Blocks \ {Genesis} -> Blocks]
  /\ BlockTxs \in [Blocks -> Seq(Txs)] /\ Balance \in [Blocks -> [Accounts -> Nat]]
  /\ {PriceBump, AccountSlots, GlobalSlots, AccountQueue, GlobalQueue, MaxReorgDepth,
      MaxHeap, MaxDrift} \subseteq Nat
  /\ AccountSlots > 0 /\ GasPrices \subseteq Nat /\ PriceLimit \in Nat
  /\ Batches \subseteq Seq(Txs)

VARIABLES
  P,         \* the pool, with the transactions of its journal file
  head       \* the block of the last ChainHeadEvent

vars == <<P, head>>

----------------------------------------------------------------------------
(* The chain the pool looks at *)

Chain[b \in Blocks] == IF b = Genesis THEN <<>> ELSE <<b>> \o Chain[Parent[b]]
Included(b) == UNION {ToSet(BlockTxs[c]) : c \in ToSet(Chain[b])}
StateNonce == [b \in Blocks |-> [a \in Accounts |->
                 Cardinality({t \in Included(b) : From[t] = a})]]

----------------------------------------------------------------------------
(* txPricedList: a heap that may hold removed transactions, and duplicates *)

HeapLen(Q) == FoldFunction(+, 0, Q.priced)
HeapCut(Q, S) == [t \in Txs |-> IF t \in S THEN 0 ELSE Q.priced[t]]
InHeap(Q) == {t \in Txs : Q.priced[t] > 0}
Live(Q) == InHeap(Q) \cap Q.all
RemoteAll(Q, S) == S
Remote(Q, S) == {t \in S : From[t] \notin Q.locals}
Cheapest(S) == CHOOSE t \in S : \A u \in S : Price[t] <= Price[u]

\* The removed transactions found at the front of the heap, below a price.
PopStale(Q, S) ==
  LET stale == {t \in InHeap(Q) \ Q.all : \A u \in S : Price[t] < Price[u]}
  IN [Q EXCEPT !.priced = HeapCut(Q, stale),
               !.stales = @ - MapThenSumSet(LAMBDA t : Q.priced[t], stale)]

\* Removed: one more is stale; past a quarter the heap is built again from all.
Removed(Q) ==
  IF Q.stales + 1 <= HeapLen(Q) \div 4 THEN [Q EXCEPT !.stales = @ + 1]
  ELSE [Q EXCEPT !.stales = 0, !.priced = [t \in Txs |-> IF t \in Q.all THEN 1 ELSE 0]]

Drop(Q, S) == FoldSet(LAMBDA t, R : Removed([R EXCEPT !.all = @ \ {t}]), Q, S)

TrackUnpriced(Q, t) == [Q EXCEPT !.all = @ \cup {t}]
Track(Q, t) == [Q EXCEPT !.all = @ \cup {t}, !.priced[t] = @ + 1]

Underpriced(Q, t) ==
  /\ From[t] \notin Q.locals /\ Live(Q) # {}
  /\ Price[Cheapest(Live(Q))] >= Price[t]

\* One round of Discard: the cheapest remote entry leaves the heap.
DiscardOne(D, i) ==
  LET S == Remote(D.pool, Live(D.pool))
      t == Cheapest(S)
  IN IF S = {} THEN [D EXCEPT !.pool = PopStale(@, {})]
     ELSE [pool |-> [PopStale(D.pool, {t}) EXCEPT !.priced[t] = @ - 1],
           drop |-> D.drop \o <<t>>]

Discard(Q, count) ==
  FoldLeft(DiscardOne, [pool |-> Q, drop |-> <<>>], [i \in 1 .. count |-> i])

----------------------------------------------------------------------------
(* txList *)

Same(S, t) == {u \in S : Nonce[u] = Nonce[t]}
ByNonce(S) == SetToSortSeq(S, LAMBDA t, u : Nonce[t] < Nonce[u])
Lowest(S, n) == {t \in S : Cardinality({u \in S : Nonce[u] < Nonce[t]}) < n}

\* list.Add: a transaction replaces one of its nonce only for a higher price.
Inserts(S, t) ==
  \A u \in Same(S, t) : /\ Price[t] > Price[u]
                        /\ Price[t] >= (Price[u] * (100 + PriceBump)) \div 100

\* The cap is the highest cost ever added, lowered by Filter only.
CapOfFirst(S, cap, t) == IF S = {} THEN Cost[t] ELSE cap
CapAfter(S, cap, t) == IF S = {} \/ cap < Cost[t] THEN Cost[t] ELSE cap

\* Filter: what the balance does not cover, looked for only if the cap says so.
Unpayable(S, cap, balance) ==
  IF cap <= balance THEN {} ELSE {t \in S : Cost[t] > balance}
CapFiltered(cap, balance) == IF cap <= balance THEN cap ELSE balance

\* Ready: the run of nonces at the front of the queue, if it reaches `start`.
ReadyFirst(S, start) == {t \in Lowest(S, 1) : Nonce[t] <= start}
Ready(S, start) ==
  LET first == CHOOSE t \in S : \A u \in S : Nonce[t] <= Nonce[u]
  IN IF S = {} \/ Nonce[first] > start THEN {}
     ELSE {t \in S : \A n \in Nonce[first] .. Nonce[t] : \E u \in S : Nonce[u] = n}

----------------------------------------------------------------------------
(* TxPool: queueing, promotion and removal of one transaction *)

Funds(Q, a) == Balance[Q.state][a]
Floor(Q, a) == StateNonce[Q.state][a]
LowerNot(n, m) == n
Lower(n, m) == IF n < m THEN n ELSE m

enqueueTx(t, Q) ==
  LET a == From[t]
      S == Q.queue[a]
  IN IF ~Inserts(S, t) THEN Q
     ELSE Track([Drop(Q, Same(S, t)) EXCEPT
                   !.queue[a] = (S \ Same(S, t)) \cup {t},
                   !.qcap[a] = CapAfter(S, @, t)], t)

promoteTx(Q, t) ==
  LET a == From[t]
      S == Q.pend[a]
      R == Drop(Q, Same(S, t))
  IN IF ~Inserts(S, t) THEN Drop(Q, {t})
     ELSE [(IF t \in R.all THEN R ELSE Track(R, t)) EXCEPT
             !.pend[a] = (S \ Same(S, t)) \cup {t},
             !.pcap[a] = CapAfter(S, @, t),
             !.pnonce[a] = Nonce[t] + 1]

\* The transactions above the removed one are queued again, unless the removal
\* left the list empty: then the list goes, and they with it.
Unlist(R, t) ==
  LET a == From[t]
      below == {u \in R.pend[a] : Nonce[u] < Nonce[t]}
      above == {u \in R.pend[a] : Nonce[u] > Nonce[t]}
      cut == [R EXCEPT !.pend[a] = below, !.pnonce[a] = Lower(@, Nonce[t])]
  IN IF Same(R.pend[a], t) = {} THEN [R EXCEPT !.queue[a] = @ \ Same(@, t)]
     ELSE IF below = {} THEN cut
     ELSE FoldSet(enqueueTx, cut, above)

removeTx(Q, t) == IF t \in Q.all THEN Unlist(Drop(Q, {t}), t) ELSE Q

----------------------------------------------------------------------------
(* promoteExecutables *)

promoteAccount(a, Q) ==
  LET S == {t \in Q.queue[a] : Nonce[t] >= Floor(Q, a)}
      paid == S \ Unpayable(S, Q.qcap[a], Funds(Q, a))
      ready == Ready(paid, Q.pnonce[a])
      rest == paid \ ready
      kept == IF a \in Q.locals THEN rest ELSE Lowest(rest, AccountQueue)
      R == FoldLeft(promoteTx,
                    [Drop(Q, Q.queue[a] \ paid) EXCEPT
                       !.queue[a] = kept, !.qcap[a] = CapFiltered(@, Funds(Q, a))],
                    ByNonce(ready))
  IN Drop(R, rest \ kept)

\* The lists over AccountSlots of accounts that are not local are cut to one
\* length: the greatest that respects GlobalSlots, but no less than AccountSlots.
Spammers(Q) == {a \in Accounts \ Q.locals : Cardinality(Q.pend[a]) > AccountSlots}
Pending(Q, level) ==
  MapThenSumSet(LAMBDA a : Cardinality(IF a \in Spammers(Q) THEN Lowest(Q.pend[a], level)
                                       ELSE Q.pend[a]), Accounts)
AllowanceLoose(Q) ==
  LET fits == {n \in AccountSlots .. Cardinality(Txs) : Pending(Q, n) <= GlobalSlots + 1}
  IN IF fits = {} THEN AccountSlots
     ELSE CHOOSE n \in fits : \A m \in fits : m <= n
Allowance(Q) ==
  LET fits == {n \in AccountSlots .. Cardinality(Txs) : Pending(Q, n) <= GlobalSlots}
  IN IF fits = {} THEN AccountSlots
     ELSE CHOOSE n \in fits : \A m \in fits : m <= n

capPending(Q) ==
  LET level == Allowance(Q)
      over(a) == IF a \in Spammers(Q) THEN Q.pend[a] \ Lowest(Q.pend[a], level) ELSE {}
  IN [Drop(Q, UNION {over(a) : a \in Accounts}) EXCEPT
        !.pend = [a \in Accounts |-> @[a] \ over(a)],
        !.pnonce = [a \in Accounts |-> FoldSet(LAMBDA t, n : Lower(n, Nonce[t]), @[a], over(a))]]

\* One account of the queue's overflow: the whole list, or its last few.
capAccount(D, a) ==
  LET Q == D.pool
      S == Q.queue[a]
      n == Cardinality(S)
      gone == IF n <= D.drop THEN ByNonce(S)
              ELSE Reverse(ByNonce(S \ Lowest(S, n - D.drop)))
  IN IF a \in Q.locals THEN D
     ELSE [pool |-> FoldLeft(removeTx, Q, gone), drop |-> D.drop - Len(gone)]

\* `order` is the accounts, the latest heartbeat first.
capQueue(Q, order) ==
  LET queued == MapThenSumSet(LAMBDA a : Cardinality(Q.queue[a]), Accounts)
  IN IF queued <= GlobalQueue THEN Q
     ELSE FoldLeft(capAccount, [pool |-> Q, drop |-> queued - GlobalQueue], order).pool

promoteExecutables(Q, accounts, order) ==
  capQueue(capPending(FoldSet(promoteAccount, Q, accounts)), order)

----------------------------------------------------------------------------
(* add and addTxsLocked *)

Full(Q) == Cardinality(Q.all) >= GlobalSlots + GlobalQueue

validateTx(Q, t, local) ==
  /\ local \/ From[t] \in Q.locals \/ Price[t] >= Q.gasPrice
  /\ Nonce[t] >= Floor(Q, From[t])
  /\ Cost[t] <= Funds(Q, From[t])

\* Underpriced pops what is stale at the front of the heap as it looks.
Looked(Q, t) == IF Full(Q) /\ From[t] \notin Q.locals THEN PopStale(Q, Live(Q)) ELSE Q

RemoveAll(D) == FoldLeft(removeTx, D.pool, D.drop)

Room(Q) ==
  IF Full(Q) THEN RemoveAll(Discard(Q, Cardinality(Q.all) - (GlobalSlots + GlobalQueue - 1)))
  ELSE Q

journalTx(Q, t) ==
  IF From[t] \in Q.locals
  THEN [Q EXCEPT !.journal = @ \cup {t}, !.owed = @ \cup {t}] ELSE Q

Fail(Q) == [pool |-> Q, ok |-> FALSE, replace |-> FALSE]

\* R has room: the transaction replaces a pending one or is queued.
addWithRoom(R, t, local) ==
  LET a == From[t]
      S == R.pend[a]
      marked == IF local THEN [R EXCEPT !.locals = @ \cup {a}] ELSE R
  IN IF Same(S, t) # {}
     THEN IF ~Inserts(S, t) THEN Fail(R)
          ELSE [pool |-> journalTx(Track([Drop(R, Same(S, t)) EXCEPT
                                            !.pend[a] = (S \ Same(S, t)) \cup {t},
                                            !.pcap[a] = CapAfter(S, @, t)], t), t),
                ok |-> TRUE, replace |-> TRUE]
     ELSE IF ~Inserts(R.queue[a], t) THEN Fail(R)
     ELSE [pool |-> journalTx(enqueueTx(t, marked), t),
           ok |-> TRUE, replace |-> Same(R.queue[a], t) # {}]

add(Q, t, local) ==
  IF t \in Q.all \/ ~validateTx(Q, t, local) THEN Fail(Q)
  ELSE IF Full(Q) /\ Underpriced(Q, t) THEN Fail(Looked(Q, t))
  ELSE addWithRoom(Room(Looked(Q, t)), t, local)

\* The accounts with a new transaction are promoted.
Dirtied(D, r, t) ==
  [pool |-> r.pool,
   dirty |-> D.dirty \cup (IF r.ok /\ ~r.replace THEN {From[t]} ELSE {})]

PromoteDirty(D, order) ==
  IF D.dirty = {} THEN D.pool ELSE promoteExecutables(D.pool, D.dirty, order)

addTxsLocked(Q, txs, local, order) ==
  PromoteDirty(FoldLeft(LAMBDA D, t : Dirtied(D, add(D.pool, t, local), t),
                        [pool |-> Q, dirty |-> {}], txs), order)

----------------------------------------------------------------------------
(* reset *)

\* The chain's next nonce is missing at the front of the list.
FrontGap(S, n) == \A t \in S : Nonce[t] # n

demoteAccount(a, Q) ==
  LET S == {t \in Q.pend[a] : Nonce[t] >= Floor(Q, a)}
      drops == Unpayable(S, Q.pcap[a], Funds(Q, a))
      invalids == {t \in S \ drops : \E u \in drops : Nonce[u] < Nonce[t]}
      rest == S \ (drops \cup invalids)
      kept == IF FrontGap(rest, Floor(Q, a)) THEN {} ELSE rest
  IN FoldSet(enqueueTx,
             [Drop(Q, (Q.pend[a] \ S) \cup drops) EXCEPT
                !.pend[a] = kept, !.pcap[a] = CapFiltered(@, Funds(Q, a))],
             (S \ drops) \ kept)

\* The transactions of the blocks only the old head has, from the old head down.
Reinject(old, new) ==
  LET gone == SelectSeq(Chain[old], LAMBDA b : b \notin ToSet(Chain[new]))
      depth == Len(Chain[old]) - Len(Chain[new])
  IN IF old = Parent[new] \/ depth > MaxReorgDepth \/ -depth > MaxReorgDepth THEN <<>>
     ELSE SelectSeq(FlattenSeq([i \in DOMAIN gone |-> BlockTxs[gone[i]]]),
                    LAMBDA t : t \notin Included(new))

Topmost(S) == CHOOSE n \in {Nonce[t] : t \in S} : \A t \in S : Nonce[t] <= n

Managed(Q, new) ==
  [Q EXCEPT !.state = new, !.pnonce = [a \in Accounts |-> StateNonce[new][a]]]

Counted(Q) ==
  [Q EXCEPT !.pnonce = [a \in Accounts |-> IF Q.pend[a] = {} THEN @[a]
                                          ELSE Topmost(Q.pend[a]) + 1]]

demoteUnexecutables(Q) == FoldSet(demoteAccount, Q, Accounts)

reset(Q, reinject, new, order) ==
  promoteExecutables(
    Counted(demoteUnexecutables(addTxsLocked(Managed(Q, new), reinject, FALSE, order))),
    Accounts, order)

----------------------------------------------------------------------------
(* The pool's life *)

Listed(Q) == UNION {Q.pend[a] \cup Q.queue[a] : a \in Accounts}
local(Q) == {t \in Listed(Q) : From[t] \in Q.locals}

NewTxPool(b, file) ==
  [pend |-> [a \in Accounts |-> {}], queue |-> [a \in Accounts |-> {}],
   pcap |-> [a \in Accounts |-> 0], qcap |-> [a \in Accounts |-> 0],
   all |-> {}, priced |-> [t \in Txs |-> 0], stales |-> 0,
   pnonce |-> [a \in Accounts |-> StateNonce[b][a]], state |-> b,
   locals |-> {}, gasPrice |-> PriceLimit, journal |-> file, owed |-> {}]

\* An empty list is deleted, and its cap with it.
\* (A demoted transaction gets one more entry in the heap, so the length of the
\* heap and the error of the count of stale entries have a bound here.)
Becomes(Q) ==
  /\ HeapLen(Q) <= MaxHeap /\ Q.stales >= -MaxDrift
  /\ P' = [Q EXCEPT !.pcap = [a \in Accounts |-> IF Q.pend[a] = {} THEN 0 ELSE @[a]],
                    !.qcap = [a \in Accounts |-> IF Q.queue[a] = {} THEN 0 ELSE @[a]],
                    !.owed = @ \cap Listed(Q)]

\* The accounts by heartbeat, which is when they last had a promotion.
Heartbeats == SetToSeqs(Accounts)

Init == P = NewTxPool(Genesis, {}) /\ head = Genesis

\* AddLocal(s) and AddRemote(s).
AddTxs(txs, isLocal) ==
  /\ isLocal => \A t \in ToSet(txs) : From[t] \in Wallets
  /\ \E order \in Heartbeats : Becomes(addTxsLocked(P, txs, isLocal, order))
  /\ UNCHANGED head

\* A ChainHeadEvent.
NewHead(b) ==
  /\ b \notin {head, Genesis}
  /\ \E order \in Heartbeats : Becomes(reset(P, Reinject(head, b), b, order))
  /\ head' = b

\* A ChainHeadEvent whose state is not available: reset gives up.
NewHeadFails(b) ==
  /\ b \notin {head, Genesis}
  /\ head' = b /\ UNCHANGED P

\* SetGasPrice drops what is now too cheap, except from local accounts.
SetGasPrice(price) ==
  LET cheap == {t \in Live(P) : Price[t] < price}
      dear == {t \in Live(P) : Price[t] >= price}
      drop == Remote(P, cheap)
      popped == PopStale(P, dear)
  IN /\ Becomes(FoldLeft(removeTx, [popped EXCEPT !.priced = HeapCut(popped, drop),
                                                 !.gasPrice = price],
                         SetToSortSeq(drop, LAMBDA t, u : Price[t] < Price[u])))
     /\ UNCHANGED head

\* The eviction ticker: the queues of the accounts past their Lifetime.
Evict(old) ==
  /\ old \cap P.locals = {}
  /\ Becomes(FoldSet(LAMBDA a, Q : FoldLeft(removeTx, Q, ByNonce(Q.queue[a])), P, old))
  /\ UNCHANGED head

\* The journal ticker: the file is replaced by what is local in the pool.
Rotated(Q) == [Q EXCEPT !.journal = local(Q)]

Rotate ==
  /\ P' = Rotated(P)
  /\ UNCHANGED head

\* A crash or a stop, and NewTxPool: the journal's transactions are local.
Restart ==
  /\ \E file \in SetToSeqs(P.journal) :
       Becomes(Rotated(FoldLeft(LAMBDA Q, t : addTxsLocked(Q, <<t>>, TRUE, SetToSeq(Accounts)),
                                NewTxPool(head, {}), file)))
  /\ UNCHANGED head

Next ==
  \/ \E txs \in Batches, isLocal \in BOOLEAN : AddTxs(txs, isLocal)
  \/ \E b \in Blocks : NewHead(b) \/ NewHeadFails(b)
  \/ \E price \in GasPrices : SetGasPrice(price)
  \/ \E old \in SUBSET Accounts : Evict(old)
  \/ Rotate
  \/ Restart

Spec == Init /\ [][Next]_vars

----------------------------------------------------------------------------
\* Types: the virtual nonces, counts and caps are naturals (uint64 and big.Int in
\* the code); only `stales`, an int, may become negative.
TypeOK ==
  /\ {P.pend, P.queue} \subseteq [Accounts -> SUBSET Txs]
  /\ {P.pcap, P.qcap, P.pnonce} \subseteq [Accounts -> Nat]
  /\ P.all \subseteq Txs /\ P.priced \in [Txs -> Nat] /\ P.stales \in Int
  /\ P.state \in Blocks /\ P.locals \subseteq Accounts /\ P.gasPrice \in Nat
  /\ P.journal \subseteq Txs /\ P.owed \subseteq Txs /\ head \in Blocks

\* Every transaction of a list is in `all`, under one entry per hash, and every
\* transaction of `all` has an entry in the price heap: what Get answers for is
\* what the lists hold, and nothing escapes the price limits (enqueueTx,
\* promoteTx, removeTx, the three limits and the rebuilding of the heap).  An
\* account has at most one pooled transaction for a nonce over pending and queue
\* together, through replacements, demotions and reinjections: removeTx looks a
\* transaction up by its nonce and relies on it.
IndexesAgree ==
  /\ TypeOK
  /\ Listed(P) \subseteq P.all /\ P.all \subseteq InHeap(P)
  /\ \A t, u \in Listed(P) : From[t] = From[u] /\ Nonce[t] = Nonce[u] => t = u

\* No pooled transaction has a used nonce or costs more than its sender has in the
\* state the pool works on, although Filter looks only if the cached cap says so.
StillPayable ==
  \A t \in Listed(P) : Nonce[t] >= Floor(P, From[t]) /\ Cost[t] <= Funds(P, From[t])

\* More than GlobalSlots pending transactions are there only if no account that is
\* not local exceeds its guaranteed AccountSlots.
SlotsRespected == Pending(P, Cardinality(Txs)) > GlobalSlots => Spammers(P) = {}

\* No operation leaves a transaction in the queue that could be pending: every
\* queued nonce is above the account's virtual nonce.
NothingReadyQueued ==
  \A a \in Accounts : \A t \in P.queue[a] : Nonce[t] > P.pnonce[a]

\* The pending nonces of an account run from the chain's next one without a gap and
\* the virtual nonce that wallets ask for follows the last one.
Tracks(Q, a) ==
  /\ {Nonce[t] : t \in Q.pend[a]} = Floor(Q, a) .. Q.pnonce[a] - 1
  /\ Q.pnonce[a] >= Floor(Q, a)

\* Between two heads that are told to the pool, no call, tick or limit opens a gap
\* among the pending transactions or lets the virtual nonce leave them.
GapsOnlyByReset ==
  [][head' = head => \A a \in Accounts : Tracks(P, a) => Tracks(P', a)]_vars

\* A nonce for which a local account handed in a transaction keeps one as long as
\* it is unused and paid for: through full pools, price rises, evictions, reorgs,
\* journal rotations and a crash followed by a restart (txJournal, AddLocal).
LocalsNeverLost ==
  [][\A t \in P.owed :
       Nonce[t] >= Floor(P', From[t]) /\ Cost[t] <= Funds(P', From[t])
         => \E u \in Listed(P') : From[u] = From[t] /\ Nonce[u] = Nonce[t]]_vars
============================================================================
