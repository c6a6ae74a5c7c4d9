------------------------------ MODULE Fetcher ------------------------------
(***************************************************************************)
(* The block fetcher of fbc/fetcher/fetcher.go: peers announce block       *)
(* hashes, the fetcher retrieves the headers and the bodies it was not     *)
(* given, and imports complete blocks in the order of their numbers.       *)
(*                                                                         *)
(* One goroutine, loop(), owns every map.  Each round of it cleans up and  *)
(* starts imports (pc = "top"), then handles one event (pc = "select").    *)
(* Imports run on goroutines of their own and report on the channel done.  *)
(* Peers, the downloader and the clock are the environment.                *)
(***************************************************************************)
EXTENDS Integers, Sequences, FiniteSets

CONSTANTS
  Peers,          \* remote peers
  Hashes,         \* hashes of the blocks the peers talk about
  Genesis,        \* a block that is always in the local chain
  None,           \* an absent map entry
  Number,         \* Number[h]: the number in the header with hash h
  Parent,         \* Parent[h]: the parent hash in that header
  Body,           \* Body[h]: the transaction and uncle roots in that header
  EmptyBlocks,    \* the hashes whose header says the body is empty
  BadHeaders,     \* the hashes whose header fails verifyHeader
  Claims,         \* block numbers a peer may announce for a hash (0: unknown)
  Honest,         \* peers that announce valid blocks under their own number
  HashLimit, BlockLimit, MaxUncleDist, MaxQueueDist,  \* limits of the code
  MaxAnnounces,   \* bound: announcements pending for one hash
  MaxDeficit      \* bound: how far below zero a counter of announces may go

Announce == [origin : Peers, number : Claims]

ASSUME FetcherAssumption ==
  /\ IsFiniteSet(Hashes) /\ Genesis \notin Hashes
  /\ None \notin Peers /\ None \notin Announce
  /\ Number \in [Hashes -> Nat]
  /\ Parent \in [Hashes -> Hashes \cup {Genesis}]
  /\ EmptyBlocks \subseteq Hashes /\ BadHeaders \subseteq Hashes
  /\ Claims \subseteq Nat /\ Honest \subseteq Peers
  /\ HashLimit \in Nat /\ BlockLimit \in Nat
  /\ MaxUncleDist \in Nat /\ MaxQueueDist \in Nat
  /\ MaxAnnounces \in Nat /\ MaxDeficit \in Nat

VARIABLES
  pc,             \* where loop() is: "top", "select" or "stopped"
  announces,      \* per peer announce counters
  announced,      \* per hash, the announcements waiting for the fetch timer
  fetching,       \* per hash, the announcement whose header was requested
  fetched,        \* per hash, the announcements with a header, awaiting bodies
  completing,     \* per hash, the announcement whose body was requested
  queue,          \* hashes in the priority queue of import operations
  queues,         \* per peer counters of queued blocks
  queued,         \* per hash, the peer a queued or importing block came from
  importing,      \* blocks with a running import goroutine
  finished,       \* import goroutines waiting to send on the channel done
  fetchTimer, completeTimer,  \* is the timer armed?
  aged,           \* announced hashes past arriveTimeout, fetching ones past fetchTimeout
  known,          \* blocks of the local chain (getBlock # nil)
  height,         \* chainHeight()
  dropped         \* peers that dropPeer was called for

stages == <<announces, announced, fetching, fetched, completing>>
imports == <<queue, queues, queued, importing, finished>>
timers == <<fetchTimer, completeTimer>>
chain == <<known, height>>
vars == <<pc, stages, imports, timers, aged, chain, dropped>>

-----------------------------------------------------------------------------
(* Helpers on the maps. *)

Erase(f, S, empty) == [h \in Hashes |-> IF h \in S THEN empty ELSE f[h]]

Present(f) == {h \in Hashes : f[h] # None}
NonEmpty(f) == {h \in Hashes : f[h] # <<>>}

(* The entries of peer p in a map of announcement lists, and in a map of   *)
(* single announcements, for the hashes in S.                              *)
Entries(p, S, f) ==
  {e \in S \X (1..MaxAnnounces) :
     e[2] \in DOMAIN f[e[1]] /\ f[e[1]][e[2]].origin = p}
Singles(p, S, f) == {h \in S : f[h] # None /\ f[h].origin = p}

(* Faulty: a forgetHash that misses the entries of the announced map. *)
ChargeKeepsAnnounced(p, S, comp) ==
  Cardinality(Singles(p, S, fetching))
    + Cardinality(Entries(p, S, fetched)) + Cardinality(Singles(p, S, comp))

(* What forgetHash takes off the counter of p for the hashes in S, one for *)
(* every entry it finds in any of the four maps; comp is the completing    *)
(* map at that moment.                                                     *)
Charge(p, S, comp) ==
  Cardinality(Entries(p, S, announced)) + Cardinality(Singles(p, S, fetching))
    + Cardinality(Entries(p, S, fetched)) + Cardinality(Singles(p, S, comp))

(* The counters and the announced map after forgetHash of every hash in S. *)
forgetHash(S, comp) ==
  /\ announces' = [p \in Peers |-> announces[p] - Charge(p, S, comp)]
  /\ announced' = Erase(announced, S, <<>>)

forgetBlockInverted(S) == UNCHANGED <<queues, queued>>   \* faulty: the nil test is inverted
(* forgetBlock of every hash in S. *)
forgetBlock(S) ==
  /\ queues' = [p \in Peers |->
                  queues[p] - Cardinality({h \in S : queued[h] = p})]
  /\ queued' = Erase(queued, S, None)

TooFar(n) == n - height < -MaxUncleDist \/ n - height > MaxQueueDist

(* enqueue of the blocks S of one peer, in any order: A is what enters the *)
(* queue, Refused what is turned away and forgotten, as the peer's limit   *)
(* is reached or the block is too far from the chain's height.             *)
Fresh(S) == {h \in S : ~TooFar(Number[h]) /\ queued[h] = None}
Accepts(p, S, A) ==
  /\ A \subseteq Fresh(S)
  /\ Cardinality(A) <= BlockLimit - queues[p]
  /\ A = Fresh(S) \/ Cardinality(A) = BlockLimit - queues[p]
Refused(p, S, A) ==
  {h \in S \ A : TooFar(Number[h]) \/ queues[p] >= BlockLimit
                   \/ queued[h] = None}
enqueue(p, A) ==
  /\ queues' = [queues EXCEPT ![p] = @ + Cardinality(A)]
  /\ queued' = [h \in Hashes |-> IF h \in A THEN p ELSE queued[h]]
  /\ queue' = queue \cup A

-----------------------------------------------------------------------------
Init ==
  /\ pc = "top"
  /\ announces = [p \in Peers |-> 0] /\ queues = [p \in Peers |-> 0]
  /\ announced = [h \in Hashes |-> <<>>] /\ fetched = [h \in Hashes |-> <<>>]
  /\ fetching = [h \in Hashes |-> None] /\ completing = [h \in Hashes |-> None]
  /\ queue = {} /\ queued = [h \in Hashes |-> None]
  /\ importing = {} /\ finished = {}
  /\ fetchTimer = TRUE /\ completeTimer = TRUE   \* both created with timeout 0
  /\ aged = {} /\ known = {Genesis} /\ height = 0 /\ dropped = {}

(* The fetches that timed out. *)
ExpiredNever == {}                       \* faulty: nothing expires
Expired == aged \cap Present(fetching)

(* The head of a round: forget the fetches that timed out, then pop every  *)
(* queued block that fits the chain; the stale ones are dropped, the rest  *)
(* are handed to import goroutines.                                        *)
LoopTop ==
  /\ pc = "top" /\ pc' = "select"
  /\ LET expired == Expired
         ready   == {h \in queue : Number[h] <= height + 1}
         stale   == {h \in ready : Number[h] + MaxUncleDist < height \/ h \in known}
     IN /\ forgetHash(expired, completing)
        /\ fetching' = Erase(fetching, expired, None)
        /\ fetched' = Erase(fetched, expired, <<>>)
        /\ completing' = Erase(completing, expired, None)
        /\ aged' = aged \ expired
        /\ queue' = queue \ ready
        /\ forgetBlock(stale)
        /\ importing' = importing \cup (ready \ stale)
  /\ UNCHANGED <<finished, timers, chain, dropped>>

(* May an announcement of h under number n enter the announced map?        *)
Admits(p, h, n) ==
  /\ announces[p] + 1 <= HashLimit
  /\ n > 0 => ~TooFar(n)
  /\ fetching[h] = None /\ completing[h] = None

(* The fetch timer after h joins the announced map: rescheduleFetch is     *)
(* called when h is its only key.                                          *)
ArmedNever(h) == fetchTimer              \* faulty: the timer is not restarted
Armed(h) == fetchTimer \/ NonEmpty(announced) \subseteq {h}

(* case notification := <-f.notify. The two bounds cap the lists and the   *)
(* counters; a peer in Honest announces valid blocks under their number.   *)
Notify(p, h, n) ==
  /\ pc = "select" /\ pc' = "top"
  /\ p \in Honest => n = Number[h] /\ h \notin BadHeaders
  /\ Len(announced[h]) < MaxAnnounces /\ announces[p] >= -MaxDeficit
  /\ IF Admits(p, h, n)
     THEN /\ announces' = [announces EXCEPT ![p] = @ + 1]
          /\ announced' = [announced EXCEPT
                             ![h] = Append(@, [origin |-> p, number |-> n])]
          /\ fetchTimer' = Armed(h)
     ELSE UNCHANGED <<announces, announced, fetchTimer>>
  /\ UNCHANGED <<fetching, fetched, completing, imports, completeTimer,
                 aged, chain, dropped>>

(* case op := <-f.inject: a block was pushed by peer p. *)
Inject(p, h) ==
  /\ pc = "select" /\ pc' = "top"
  /\ p \in Honest => h \notin BadHeaders
  /\ \E A \in SUBSET {h} :
       /\ Accepts(p, {h}, A)
       /\ enqueue(p, A)
       /\ LET refused == Refused(p, {h}, A)
          IN /\ forgetHash(refused, completing)
             /\ fetching' = Erase(fetching, refused, None)
             /\ fetched' = Erase(fetched, refused, <<>>)
             /\ completing' = Erase(completing, refused, None)
             /\ aged' = aged \ refused
  /\ UNCHANGED <<importing, finished, timers, chain, dropped>>

(* case hash := <-f.done: an import goroutine reports. *)
Done(h) ==
  /\ pc = "select" /\ pc' = "top"
  /\ h \in finished /\ finished' = finished \ {h}
  /\ forgetHash({h}, completing)
  /\ fetching' = Erase(fetching, {h}, None)
  /\ fetched' = Erase(fetched, {h}, <<>>)
  /\ completing' = Erase(completing, {h}, None)
  /\ aged' = aged \ {h}
  /\ forgetBlock({h})
  /\ UNCHANGED <<queue, importing, timers, chain, dropped>>

(* announces[rand.Intn(len(announces))], i being the random index. *)
ChosenMixed(list, i) == [list[i] EXCEPT !.number = list[1].number]   \* faulty
Chosen(list, i) == list[i]

(* case <-fetchTimer.C: request the headers of the hashes that waited long *)
(* enough, each from one of its announcers; pick[h] is the random index.   *)
FetchTimer ==
  /\ pc = "select" /\ pc' = "top"
  /\ fetchTimer
  /\ LET due == aged \cap NonEmpty(announced)
         wanted == due \ known
     IN \E pick \in [wanted -> 1..MaxAnnounces] :
          /\ \A h \in wanted : pick[h] \in DOMAIN announced[h]
          /\ forgetHash(due, completing)
          /\ fetching' = [h \in Hashes |-> IF h \in wanted THEN Chosen(announced[h], pick[h])
                                           ELSE IF h \in due THEN None ELSE fetching[h]]
          /\ fetched' = Erase(fetched, due, <<>>)
          /\ completing' = Erase(completing, due, None)
          /\ aged' = aged \ due
          /\ fetchTimer' = (NonEmpty(announced) # due)
  /\ UNCHANGED <<imports, completeTimer, chain, dropped>>

(* case <-completeTimer.C: request the bodies of all fetched headers. *)
CompleteTimer ==
  /\ pc = "select" /\ pc' = "top"
  /\ completeTimer /\ completeTimer' = FALSE
  /\ LET due == NonEmpty(fetched)
         wanted == due \ known
     IN \E pick \in [wanted -> 1..MaxAnnounces] :
          /\ \A h \in wanted : pick[h] \in DOMAIN fetched[h]
          /\ forgetHash(due, completing)
          /\ fetching' = Erase(fetching, due, None)
          /\ fetched' = Erase(fetched, due, <<>>)
          /\ completing' = [h \in Hashes |-> IF h \in wanted THEN Chosen(fetched[h], pick[h])
                                             ELSE IF h \in due THEN None ELSE completing[h]]
          /\ aged' = aged \ due
  /\ UNCHANGED <<imports, fetchTimer, chain, dropped>>

(* Headers that peer p was asked for: the condition of the header filter.  *)
Requested(p, h) ==
  /\ fetching[h] # None /\ fetching[h].origin = p
  /\ fetched[h] = <<>> /\ completing[h] = None /\ queued[h] = None

(* case filter := <-f.headerFilter: peer p delivers the headers in S, and  *)
(* those in twice two times in one message.  A wrong number drops the peer *)
(* and a block imported meanwhile is forgotten; an empty block goes to the *)
(* import queue at once, any other waits in fetched for its body.  The     *)
(* entry in fetching stays in both cases.                                  *)
FilterHeaders(p, S, twice) ==
  /\ pc = "select" /\ pc' = "top"
  /\ LET mine == {h \in S : Requested(p, h)}
         wrong == {h \in mine : fetching[h].number # Number[h]}
         new == mine \ (wrong \cup known)
         complete == new \cap EmptyBlocks
         incomplete == new \ EmptyBlocks
         comp == [h \in Hashes |-> IF h \in complete THEN fetching[h] ELSE completing[h]]
     IN \E A \in SUBSET complete :
          /\ Accepts(p, complete, A)
          /\ enqueue(p, A)
          /\ LET forgotten == (mine \ new) \cup Refused(p, complete, A)
             IN /\ forgetHash(forgotten, comp)
                /\ fetching' = Erase(fetching, forgotten, None)
                /\ fetched' = [h \in Hashes |->
                                 IF h \in incomplete
                                 THEN IF h \in twice THEN <<fetching[h], fetching[h]>>
                                                     ELSE <<fetching[h]>>
                                 ELSE fetched[h]]
                /\ completing' = Erase(comp, forgotten, None)
                /\ aged' = aged \ mine    \* announce.time = task.time
          /\ completeTimer' = (completeTimer \/ (incomplete # {} /\ NonEmpty(fetched) = {}))
          /\ dropped' = IF wrong = {} THEN dropped ELSE dropped \cup {p}
  /\ UNCHANGED <<importing, finished, fetchTimer, chain>>

(* case filter := <-f.bodyFilter: peer p delivers the bodies in B; a body  *)
(* completes every requested block whose roots it matches.                 *)
FilterBodies(p, B) ==
  /\ pc = "select" /\ pc' = "top"
  /\ LET mine == {h \in Hashes : /\ completing[h] # None /\ completing[h].origin = p
                                 /\ queued[h] = None /\ Body[h] \in B}
         blocks == mine \ known
     IN \E A \in SUBSET blocks :
          /\ Accepts(p, blocks, A)
          /\ enqueue(p, A)
          /\ LET forgotten == (mine \ blocks) \cup Refused(p, blocks, A)
             IN /\ forgetHash(forgotten, completing)
                /\ fetching' = Erase(fetching, forgotten, None)
                /\ fetched' = Erase(fetched, forgotten, <<>>)
                /\ completing' = Erase(completing, forgotten, None)
                /\ aged' = aged \ forgotten
  /\ UNCHANGED <<importing, finished, timers, chain, dropped>>

(* A delivery of nothing that was asked for: it is handed back to the      *)
(* downloader, and the loop turns.                                         *)
FilterNothing ==
  /\ pc = "select" /\ pc' = "top"
  /\ UNCHANGED <<stages, imports, timers, aged, chain, dropped>>

(* Stop closes the channel quit; loop() returns from its select.  Import   *)
(* goroutines are left to themselves.                                      *)
Stop ==
  /\ pc = "select" /\ pc' = "stopped"
  /\ UNCHANGED <<stages, imports, timers, aged, chain, dropped>>

(* A block joins the local chain; it may or may not become its head. *)
ChainInsert(h) ==
  /\ Parent[h] \in known
  /\ known' = known \cup {h}
  /\ height' \in {height, Number[h]}

(* The deferred send on done. *)
Reports(h) == finished \cup {h}

(* The import goroutine of block h, up to its send on done: it gives up on *)
(* an unknown parent, drops the origin of a block whose header is invalid, *)
(* and otherwise inserts the block, which may fail or be delayed.          *)
Import(h) ==
  /\ h \in importing
  /\ importing' = importing \ {h} /\ finished' = Reports(h)
  /\ \/ Parent[h] \notin known /\ UNCHANGED <<chain, dropped>>
     \/ /\ Parent[h] \in known /\ h \in BadHeaders
        /\ dropped' = dropped \cup {queued[h]} /\ UNCHANGED chain
     \/ h \notin BadHeaders /\ ChainInsert(h) /\ UNCHANGED dropped
     \/ Parent[h] \in known /\ h \notin BadHeaders /\ UNCHANGED <<chain, dropped>>
  /\ UNCHANGED <<pc, stages, queue, queues, queued, timers, aged>>

(* The downloader or the miner inserts a block. *)
OtherImport(h) ==
  /\ h \notin BadHeaders \cup known /\ ChainInsert(h)
  /\ UNCHANGED <<pc, stages, imports, timers, aged, dropped>>

(* Time passes: an announced hash reaches arriveTimeout, or a fetch of one *)
(* reaches fetchTimeout.                                                   *)
Age(h) ==
  /\ h \notin aged /\ (announced[h] # <<>> \/ fetching[h] # None)
  /\ aged' = aged \cup {h}
  /\ UNCHANGED <<pc, stages, imports, timers, chain, dropped>>

(* Of a delivered message only the headers and bodies that were asked for  *)
(* have an effect (the rest is passed on to the downloader), so a message  *)
(* is any set of those, or one with none.                                  *)
Next ==
  \/ LoopTop \/ FetchTimer \/ CompleteTimer \/ Stop \/ FilterNothing
  \/ \E p \in Peers, h \in Hashes : Inject(p, h) \/ \E n \in Claims : Notify(p, h, n)
  \/ \E p \in Peers : \E S \in (SUBSET {h \in Hashes : Requested(p, h)}) \ {{}} :
       \E twice \in SUBSET S : FilterHeaders(p, S, twice)
  \/ \E p \in Peers : \E B \in (SUBSET {Body[h] : h \in Present(completing)}) \ {{}} :
       FilterBodies(p, B)
  \/ \E h \in Hashes : Done(h) \/ Import(h) \/ OtherImport(h) \/ Age(h)

Spec == Init /\ [][Next]_vars

(* The scheduling the code relies on.  loop() is a running goroutine; its  *)
(* select picks uniformly among the ready cases, so a case that is ready   *)
(* in ever more rounds is taken: strong fairness.  Import goroutines run,  *)
(* and time passes.  Nothing is assumed of the peers.                      *)
Fairness ==
  /\ WF_vars(LoopTop)
  /\ SF_vars(FetchTimer) /\ SF_vars(CompleteTimer)
  /\ \A h \in Hashes : WF_vars(Import(h)) /\ SF_vars(Done(h)) /\ WF_vars(Age(h))

FairSpec == Spec /\ Fairness

-----------------------------------------------------------------------------
(* Properties *)

(* The shape of the maps of the Fetcher struct. *)
TypeOK ==
  /\ pc \in {"top", "select", "stopped"}
  /\ announces \in [Peers -> Int] /\ queues \in [Peers -> Int]
  /\ announced \in [Hashes -> Seq(Announce)] /\ fetched \in [Hashes -> Seq(Announce)]
  /\ fetching \in [Hashes -> Announce \cup {None}]
  /\ completing \in [Hashes -> Announce \cup {None}]
  /\ queue \subseteq Hashes /\ queued \in [Hashes -> Peers \cup {None}]
  /\ importing \subseteq Hashes /\ finished \subseteq Hashes
  /\ fetchTimer \in BOOLEAN /\ completeTimer \in BOOLEAN
  /\ aged \subseteq Hashes /\ known \subseteq Hashes \cup {Genesis}
  /\ height \in Nat /\ dropped \subseteq Peers

(* The set of queued blocks, which stops a second import of a block, holds *)
(* exactly the blocks waiting in the priority queue, being imported, or    *)
(* imported and not yet reported, and each is in one of the three places:  *)
(* no block is ever imported by two goroutines at a time, and none is      *)
(* dropped from the queue and still marked as queued.                      *)
QueuedExactlyOnce ==
  /\ Present(queued) = queue \cup importing \cup finished
  /\ queue \cap importing = {} /\ queue \cap finished = {}
  /\ importing \cap finished = {}

(* enqueue and forgetBlock keep the per peer counters equal to the number  *)
(* of blocks queued on behalf of the peer, and within blockLimit, however  *)
(* enqueueing, staleness and imports interleave.                           *)
BlockQuota ==
  \A p \in Peers : /\ queues[p] = Cardinality({h \in Hashes : queued[h] = p})
                   /\ queues[p] <= BlockLimit

(* A peer is never throttled by announcements that are gone: its counter   *)
(* is at most the number of its announcements still waiting, so forgetHash *)
(* never leaks a charge.                                                   *)
NoLeakedCharge ==
  \A p \in Peers : announces[p] <= Cardinality(Entries(p, Hashes, announced))

(* The stages of a hash exclude each other: a hash waiting in announced is *)
(* neither being fetched nor completed, and a hash with a fetched header   *)
(* still has the announcement it was fetched for in fetching.              *)
StagesExclusive ==
  \A h \in Hashes :
    /\ announced[h] # <<>> => /\ fetching[h] = None /\ completing[h] = None
                              /\ fetched[h] = <<>>
    /\ \A i \in DOMAIN fetched[h] : fetched[h][i] = fetching[h]
    /\ fetched[h] # <<>> => completing[h] = None

(* dropPeer is never called for a peer that announced and pushed only      *)
(* valid blocks, and those under their own number: a bad announcement of   *)
(* one peer is not blamed on another that announced the same hash.         *)
HonestNotDropped == Honest \cap dropped = {}

(* While loop() runs, no announcement waits for ever: the fetch timer is   *)
(* armed whenever the announced map is not empty.                          *)
AnnouncementsServed ==
  \A h \in Hashes : announced[h] # <<>> ~> (announced[h] = <<>> \/ pc = "stopped")

(* A header that was requested is received or given up, as long as events  *)
(* keep loop() turning (expiry is only checked at the head of a round).    *)
FetchesExpire ==
  ([]<>(pc = "top")) => \A h \in Hashes : fetching[h] # None ~> fetching[h] = None

=============================================================================
