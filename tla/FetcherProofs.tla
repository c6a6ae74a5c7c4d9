--------------------------- MODULE FetcherProofs ----------------------------
(***************************************************************************)
(* Fetcher, for any finite set of hashes, any peers and any limits: the    *)
(* set and the counters of the import queue, the charges for announcements *)
(* and the stages a hash is in.                                            *)
(***************************************************************************)
EXTENDS Fetcher, FiniteSetTheorems, TLAPS

\* The prover of a leaf that names no other one.
USE ZenonT(60)

(* The inductive invariant for the import queue: Import reads the origin   *)
(* of a block from queued, so the types depend on QueuedExactlyOnce.       *)
QueueInv == TypeOK /\ QueuedExactlyOnce /\ BlockQuota

-----------------------------------------------------------------------------
(* Erasing keys keeps a map within its range. *)
LEMMA EraseType ==
  ASSUME NEW T, NEW f \in [Hashes -> T], NEW S, NEW e \in T
  PROVE  Erase(f, S, e) \in [Hashes -> T]
BY DEF Erase

(* Every set of hashes is finite and has a natural cardinality. *)
LEMMA HashesFinite ==
  ASSUME NEW S \in SUBSET Hashes
  PROVE  IsFiniteSet(S) /\ Cardinality(S) \in Nat
BY FetcherAssumption, FS_Subset, FS_CardinalityType

(* The entries of a peer in a map of lists are finitely many. *)
LEMMA EntriesFinite ==
  ASSUME NEW p, NEW S \in SUBSET Hashes, NEW f
  PROVE  IsFiniteSet(Entries(p, S, f)) /\ Cardinality(Entries(p, S, f)) \in Nat
<1>1. IsFiniteSet(1..MaxAnnounces)
  BY FetcherAssumption, FS_Interval, SMTT(30)
<1>2. IsFiniteSet(S \X (1..MaxAnnounces))
  BY <1>1, HashesFinite, FS_Product
<1>3. Entries(p, S, f) \subseteq S \X (1..MaxAnnounces)
  BY DEF Entries
<1> QED
  BY <1>2, <1>3, FS_Subset, FS_CardinalityType

(* What forgetHash takes off a counter is a natural number. *)
LEMMA ChargeNat ==
  ASSUME NEW p, NEW S \in SUBSET Hashes, NEW comp
  PROVE  Charge(p, S, comp) \in Nat
<1>1. Cardinality(Singles(p, S, fetching)) \in Nat
  BY HashesFinite DEF Singles
<1>2. Cardinality(Singles(p, S, comp)) \in Nat
  BY HashesFinite DEF Singles
<1> QED
  BY <1>1, <1>2, EntriesFinite, SMTT(30) DEF Charge

(* forgetHash keeps the types of the counters and of the announced map. *)
LEMMA ForgetHashType ==
  ASSUME TypeOK, NEW S \in SUBSET Hashes, NEW comp, forgetHash(S, comp)
  PROVE  /\ announces' \in [Peers -> Int]
         /\ announced' \in [Hashes -> Seq(Announce)]
<1>1. \A p \in Peers : Charge(p, S, comp) \in Nat
  BY ChargeNat
<1>2. announces' \in [Peers -> Int]
  BY <1>1, SMTT(30) DEF TypeOK, forgetHash
<1>3. <<>> \in Seq(Announce)
  BY SMTT(30)
<1> QED
  BY <1>2, <1>3, EraseType DEF TypeOK, forgetHash

-----------------------------------------------------------------------------
(* Cardinality adds up over disjoint finite sets. *)
LEMMA CardinalityDisjoint ==
  ASSUME NEW S, NEW T, IsFiniteSet(S), IsFiniteSet(T), S \cap T = {}
  PROVE  Cardinality(S \cup T) = Cardinality(S) + Cardinality(T)
<1>1. Cardinality(S) \in Nat /\ Cardinality(T) \in Nat
  BY FS_CardinalityType
<1>2. Cardinality(S \cup T) = Cardinality(S) + Cardinality(T) - Cardinality(S \cap T)
  BY FS_Union
<1>3. Cardinality(S \cap T) = 0
  BY FS_EmptySet
<1> QED
  BY <1>1, <1>2, <1>3, SMTT(30)

(* enqueue keeps the counters of queued blocks exact and within the limit. *)
LEMMA EnqueueQuota ==
  ASSUME TypeOK, BlockQuota, NEW p \in Peers, NEW S \in SUBSET Hashes, NEW A,
         Accepts(p, S, A), enqueue(p, A)
  PROVE  BlockQuota'
<1>1. A \subseteq Hashes /\ \A h \in A : queued[h] = None
  BY DEF Accepts, Fresh
<1>2. SUFFICES ASSUME NEW q \in Peers
               PROVE  /\ queues'[q] = Cardinality({h \in Hashes : queued'[h] = q})
                      /\ queues'[q] <= BlockLimit
  BY DEF BlockQuota
<1> DEFINE Mine == {h \in Hashes : queued[h] = q}
           Now  == {h \in Hashes : queued'[h] = q}
<1>3. queues[q] = Cardinality(Mine) /\ queues[q] <= BlockLimit /\ queues[q] \in Int
  BY DEF BlockQuota, TypeOK
<1>4. CASE q = p
  <2>1. Now = Mine \cup A
    BY <1>1, <1>4 DEF enqueue
  <2>2. Mine \cap A = {}
    BY <1>1, FetcherAssumption
  <2>3. IsFiniteSet(Mine) /\ IsFiniteSet(A) /\ Cardinality(A) \in Nat
    BY <1>1, HashesFinite
  <2>4. queues'[q] = queues[q] + Cardinality(A)
    BY <1>4 DEF enqueue, TypeOK
  <2>5. Cardinality(A) <= BlockLimit - queues[q]
    BY <1>4 DEF Accepts
  <2> HIDE DEF Mine, Now
  <2>6. Cardinality(Now) = Cardinality(Mine) + Cardinality(A)
    BY <2>1, <2>2, <2>3, CardinalityDisjoint
  <2>7. queues'[q] = Cardinality(Now) /\ queues'[q] <= BlockLimit
    BY <1>3, <2>3, <2>4, <2>5, <2>6, FetcherAssumption, SMTT(30)
  <2> QED
    BY <2>7 DEF Now
<1>5. CASE q # p
  <2>1. Now = Mine
    BY <1>1, <1>5, FetcherAssumption DEF enqueue
  <2>2. queues'[q] = queues[q]
    BY <1>5 DEF enqueue, TypeOK
  <2> QED
    BY <2>1, <2>2, <1>3
<1> QED
  BY <1>4, <1>5

(* forgetBlock keeps the counters of queued blocks exact. *)
LEMMA ForgetBlockQuota ==
  ASSUME TypeOK, BlockQuota, NEW S \in SUBSET Hashes, forgetBlock(S)
  PROVE  BlockQuota'
<1>1. SUFFICES ASSUME NEW q \in Peers
               PROVE  /\ queues'[q] = Cardinality({h \in Hashes : queued'[h] = q})
                      /\ queues'[q] <= BlockLimit
  BY DEF BlockQuota
<1> DEFINE Mine == {h \in Hashes : queued[h] = q}
           Gone == {h \in S : queued[h] = q}
<1>2. {h \in Hashes : queued'[h] = q} = Mine \ Gone
  BY FetcherAssumption DEF forgetBlock, Erase, TypeOK
<1>3. Mine \cap Gone = Gone
  OBVIOUS
<1>4. IsFiniteSet(Mine) /\ Cardinality(Gone) \in Nat /\ Cardinality(Mine) \in Nat
  BY HashesFinite
<1>5. Cardinality(Mine \ Gone) = Cardinality(Mine) - Cardinality(Gone)
  BY <1>3, <1>4, FS_Difference
<1>6. queues'[q] = queues[q] - Cardinality(Gone)
  BY DEF forgetBlock
<1>7. BlockLimit \in Nat /\ queues[q] \in Int /\ queues[q] = Cardinality(Mine) /\ queues[q] <= BlockLimit
  BY FetcherAssumption DEF BlockQuota, TypeOK
<1> HIDE DEF Mine, Gone
<1>8. queues'[q] = Cardinality(Mine \ Gone) /\ queues'[q] <= BlockLimit
  BY <1>4, <1>5, <1>6, <1>7, SMTT(30)
<1> QED
  BY <1>2, <1>8

(* What enqueue does to the set of queued blocks and to their types. *)
LEMMA EnqueueQueued ==
  ASSUME TypeOK, NEW p \in Peers, NEW S \in SUBSET Hashes, NEW A,
         Accepts(p, S, A), enqueue(p, A)
  PROVE  /\ A \subseteq Hashes /\ A \cap Present(queued) = {}
         /\ queues' \in [Peers -> Int] /\ queued' \in [Hashes -> Peers \cup {None}]
         /\ queue' = queue \cup A /\ Present(queued)' = Present(queued) \cup A
<1>1. A \subseteq Hashes /\ \A h \in A : queued[h] = None
  BY DEF Accepts, Fresh
<1>2. Cardinality(A) \in Nat
  BY <1>1, HashesFinite
<1>3. queues' \in [Peers -> Int]
  BY <1>2, SMTT(30) DEF enqueue, TypeOK
<1> QED
  BY <1>1, <1>3, FetcherAssumption DEF enqueue, TypeOK, Present

(* What forgetBlock does to the set of queued blocks and to their types. *)
LEMMA ForgetBlockQueued ==
  ASSUME TypeOK, NEW S \in SUBSET Hashes, forgetBlock(S)
  PROVE  /\ queues' \in [Peers -> Int] /\ queued' \in [Hashes -> Peers \cup {None}]
         /\ Present(queued)' = Present(queued) \ S
<1>1. \A q \in Peers : Cardinality({h \in S : queued[h] = q}) \in Nat
  BY HashesFinite
<1>2. queues' \in [Peers -> Int]
  BY <1>1, SMTT(30) DEF forgetBlock, TypeOK
<1> QED
  BY <1>2 DEF forgetBlock, TypeOK, Erase, Present

(* Erasing hashes from the three later stages keeps their types. *)
LEMMA StagesType ==
  ASSUME TypeOK, NEW S,
         fetching' = Erase(fetching, S, None), fetched' = Erase(fetched, S, <<>>),
         completing' = Erase(completing, S, None)
  PROVE  /\ fetching' \in [Hashes -> Announce \cup {None}]
         /\ fetched' \in [Hashes -> Seq(Announce)]
         /\ completing' \in [Hashes -> Announce \cup {None}]
<1>1. <<>> \in Seq(Announce) /\ None \in Announce \cup {None}
  BY SMTT(30)
<1> QED
  BY <1>1, EraseType DEF TypeOK

(* The head of a round preserves the invariant. *)
LEMMA LoopTopStep == QueueInv /\ LoopTop => QueueInv'
<1> SUFFICES ASSUME QueueInv, LoopTop PROVE QueueInv'
  OBVIOUS
<1> USE DEF QueueInv
<1> DEFINE ready == {h \in queue : Number[h] <= height + 1}
           stale == {h \in ready : Number[h] + MaxUncleDist < height \/ h \in known}
<1>1. /\ forgetHash(Expired, completing) /\ forgetBlock(stale)
      /\ fetching' = Erase(fetching, Expired, None)
      /\ fetched' = Erase(fetched, Expired, <<>>)
      /\ completing' = Erase(completing, Expired, None)
      /\ aged' = aged \ Expired /\ queue' = queue \ ready
      /\ importing' = importing \cup (ready \ stale)
      /\ pc' = "select" /\ UNCHANGED <<finished, timers, chain, dropped>>
  BY DEF LoopTop
<1>2. Expired \in SUBSET Hashes /\ stale \in SUBSET Hashes
      /\ ready \subseteq queue /\ stale \subseteq ready
  BY DEF Expired, Present, TypeOK
<1> HIDE DEF ready, stale
<1>3. BlockQuota'
  BY <1>1, <1>2, ForgetBlockQuota
<1>4. /\ queues' \in [Peers -> Int] /\ queued' \in [Hashes -> Peers \cup {None}]
      /\ Present(queued)' = Present(queued) \ stale
  BY <1>1, <1>2, ForgetBlockQueued
<1>5. QueuedExactlyOnce'
  BY <1>1, <1>2, <1>4 DEF QueuedExactlyOnce
<1>6. announces' \in [Peers -> Int] /\ announced' \in [Hashes -> Seq(Announce)]
  BY <1>1, <1>2, ForgetHashType
<1>7. /\ fetching' \in [Hashes -> Announce \cup {None}]
      /\ fetched' \in [Hashes -> Seq(Announce)]
      /\ completing' \in [Hashes -> Announce \cup {None}]
  BY <1>1, StagesType
<1>8. TypeOK'
  BY <1>1, <1>2, <1>4, <1>6, <1>7 DEF TypeOK, timers, chain
<1> QED
  BY <1>3, <1>5, <1>8

(* An announcement preserves the invariant: it leaves the queue alone. *)
LEMMA NotifyStep ==
  ASSUME QueueInv, NEW p \in Peers, NEW h \in Hashes, NEW n \in Claims, Notify(p, h, n)
  PROVE  QueueInv'
<1> USE DEF QueueInv
<1>1. UNCHANGED <<fetching, fetched, completing, imports, completeTimer, aged, chain, dropped>>
      /\ pc' = "top"
  BY DEF Notify
<1>2. /\ announces' \in [Peers -> Int] /\ announced' \in [Hashes -> Seq(Announce)]
      /\ fetchTimer' \in BOOLEAN
  <2>1. CASE Admits(p, h, n)
    <3>1. [origin |-> p, number |-> n] \in Announce
      BY DEF Announce
    <3>2. announces' = [announces EXCEPT ![p] = @ + 1]
          /\ announced' = [announced EXCEPT ![h] = Append(@, [origin |-> p, number |-> n])]
          /\ fetchTimer' = Armed(h)
      BY <2>1 DEF Notify
    <3>3. Armed(h) \in BOOLEAN
      BY DEF Armed, TypeOK
    <3>4. announced[h] \in Seq(Announce)
      BY DEF TypeOK
    <3>5. Append(announced[h], [origin |-> p, number |-> n]) \in Seq(Announce)
      BY <3>1, <3>4, SMTT(30)
    <3> QED
      BY <3>2, <3>3, <3>5, SMTT(30) DEF TypeOK
  <2>2. CASE ~Admits(p, h, n)
    BY <2>2 DEF Notify, TypeOK
  <2> QED
    BY <2>1, <2>2
<1>3. TypeOK'
  BY <1>1, <1>2 DEF TypeOK, imports, chain
<1>4. QueuedExactlyOnce'
  BY <1>1 DEF QueuedExactlyOnce, imports, Present
<1>5. BlockQuota'
  BY <1>1 DEF BlockQuota, imports
<1> QED
  BY <1>3, <1>4, <1>5

(* A pushed block preserves the invariant. *)
LEMMA InjectStep ==
  ASSUME QueueInv, NEW p \in Peers, NEW h \in Hashes, Inject(p, h)
  PROVE  QueueInv'
<1> USE DEF QueueInv
<1>1. PICK A \in SUBSET {h} :
        /\ Accepts(p, {h}, A) /\ enqueue(p, A)
        /\ forgetHash(Refused(p, {h}, A), completing)
        /\ fetching' = Erase(fetching, Refused(p, {h}, A), None)
        /\ fetched' = Erase(fetched, Refused(p, {h}, A), <<>>)
        /\ completing' = Erase(completing, Refused(p, {h}, A), None)
        /\ aged' = aged \ Refused(p, {h}, A)
  BY DEF Inject
<1>2. UNCHANGED <<importing, finished, timers, chain, dropped>> /\ pc' = "top"
  BY DEF Inject
<1>3. Refused(p, {h}, A) \in SUBSET Hashes /\ {h} \in SUBSET Hashes
  BY DEF Refused
<1>4. BlockQuota'
  BY <1>1, <1>3, EnqueueQuota
<1>5. /\ A \subseteq Hashes /\ A \cap Present(queued) = {}
      /\ queues' \in [Peers -> Int] /\ queued' \in [Hashes -> Peers \cup {None}]
      /\ queue' = queue \cup A /\ Present(queued)' = Present(queued) \cup A
  BY <1>1, <1>3, EnqueueQueued
<1>6. QueuedExactlyOnce'
  BY <1>2, <1>5 DEF QueuedExactlyOnce
<1>7. announces' \in [Peers -> Int] /\ announced' \in [Hashes -> Seq(Announce)]
  BY <1>1, <1>3, ForgetHashType
<1>8. /\ fetching' \in [Hashes -> Announce \cup {None}]
      /\ fetched' \in [Hashes -> Seq(Announce)]
      /\ completing' \in [Hashes -> Announce \cup {None}]
  BY <1>1, StagesType
<1>9. TypeOK'
  BY <1>1, <1>2, <1>5, <1>7, <1>8 DEF TypeOK, timers, chain
<1> QED
  BY <1>4, <1>6, <1>9

(* A reported import preserves the invariant. *)
LEMMA DoneStep ==
  ASSUME QueueInv, NEW h \in Hashes, Done(h)
  PROVE  QueueInv'
<1> USE DEF QueueInv
<1>1. /\ h \in finished /\ finished' = finished \ {h} /\ pc' = "top"
      /\ forgetHash({h}, completing) /\ forgetBlock({h})
      /\ fetching' = Erase(fetching, {h}, None)
      /\ fetched' = Erase(fetched, {h}, <<>>)
      /\ completing' = Erase(completing, {h}, None) /\ aged' = aged \ {h}
      /\ UNCHANGED <<queue, importing, timers, chain, dropped>>
  BY DEF Done
<1>2. {h} \in SUBSET Hashes
  OBVIOUS
<1>3. BlockQuota'
  BY <1>1, <1>2, ForgetBlockQuota
<1>4. /\ queues' \in [Peers -> Int] /\ queued' \in [Hashes -> Peers \cup {None}]
      /\ Present(queued)' = Present(queued) \ {h}
  BY <1>1, <1>2, ForgetBlockQueued
<1>5. QueuedExactlyOnce'
  BY <1>1, <1>4 DEF QueuedExactlyOnce
<1>6. announces' \in [Peers -> Int] /\ announced' \in [Hashes -> Seq(Announce)]
  BY <1>1, <1>2, ForgetHashType
<1>7. /\ fetching' \in [Hashes -> Announce \cup {None}]
      /\ fetched' \in [Hashes -> Seq(Announce)]
      /\ completing' \in [Hashes -> Announce \cup {None}]
  BY <1>1, StagesType
<1>8. TypeOK'
  BY <1>1, <1>4, <1>6, <1>7 DEF TypeOK, timers, chain
<1> QED
  BY <1>3, <1>5, <1>8

(* Steps that leave the import queue alone preserve what is said of it. *)
LEMMA QueueUntouched ==
  ASSUME QueuedExactlyOnce, BlockQuota, UNCHANGED imports
  PROVE  QueuedExactlyOnce' /\ BlockQuota'
BY DEF QueuedExactlyOnce, BlockQuota, imports, Present

(* The fetch timer preserves the invariant. *)
LEMMA FetchTimerStep == QueueInv /\ FetchTimer => QueueInv'
<1> SUFFICES ASSUME QueueInv, FetchTimer PROVE QueueInv'
  OBVIOUS
<1> USE DEF QueueInv
<1> DEFINE due == aged \cap NonEmpty(announced)
           wanted == due \ known
<1>1. PICK pick \in [wanted -> 1..MaxAnnounces] :
        /\ \A h \in wanted : pick[h] \in DOMAIN announced[h]
        /\ forgetHash(due, completing)
        /\ fetching' = [h \in Hashes |-> IF h \in wanted THEN Chosen(announced[h], pick[h])
                                         ELSE IF h \in due THEN None ELSE fetching[h]]
        /\ fetched' = Erase(fetched, due, <<>>)
        /\ completing' = Erase(completing, due, None)
        /\ aged' = aged \ due
        /\ fetchTimer' = (NonEmpty(announced) # due)
  BY DEF FetchTimer
<1>2. UNCHANGED <<imports, completeTimer, chain, dropped>> /\ pc' = "top"
  BY DEF FetchTimer
<1>3. due \in SUBSET Hashes
  BY DEF NonEmpty
<1>4. \A h \in wanted : Chosen(announced[h], pick[h]) \in Announce
  BY <1>1, <1>3, SMTT(30) DEF TypeOK, Chosen
<1>5. announces' \in [Peers -> Int] /\ announced' \in [Hashes -> Seq(Announce)]
  BY <1>1, <1>3, ForgetHashType
<1> HIDE DEF due, wanted
<1>6. fetching' \in [Hashes -> Announce \cup {None}]
  BY <1>1, <1>4 DEF TypeOK
<1>7. /\ fetched' \in [Hashes -> Seq(Announce)]
      /\ completing' \in [Hashes -> Announce \cup {None}]
  <2>1. <<>> \in Seq(Announce) /\ None \in Announce \cup {None}
    BY SMTT(30)
  <2> QED
    BY <1>1, <2>1, EraseType DEF TypeOK
<1>8. TypeOK'
  BY <1>1, <1>2, <1>5, <1>6, <1>7 DEF TypeOK, imports, chain
<1> QED
  BY <1>2, <1>8, QueueUntouched

(* The completion timer preserves the invariant. *)
LEMMA CompleteTimerStep == QueueInv /\ CompleteTimer => QueueInv'
<1> SUFFICES ASSUME QueueInv, CompleteTimer PROVE QueueInv'
  OBVIOUS
<1> USE DEF QueueInv
<1> DEFINE due == NonEmpty(fetched)
           wanted == due \ known
<1>1. PICK pick \in [wanted -> 1..MaxAnnounces] :
        /\ \A h \in wanted : pick[h] \in DOMAIN fetched[h]
        /\ forgetHash(due, completing)
        /\ fetching' = Erase(fetching, due, None)
        /\ fetched' = Erase(fetched, due, <<>>)
        /\ completing' = [h \in Hashes |-> IF h \in wanted THEN Chosen(fetched[h], pick[h])
                                           ELSE IF h \in due THEN None ELSE completing[h]]
        /\ aged' = aged \ due
  BY DEF CompleteTimer
<1>2. UNCHANGED <<imports, fetchTimer, chain, dropped>> /\ pc' = "top" /\ completeTimer' = FALSE
  BY DEF CompleteTimer
<1>3. due \in SUBSET Hashes
  BY DEF NonEmpty
<1>4. \A h \in wanted : Chosen(fetched[h], pick[h]) \in Announce
  BY <1>1, <1>3, SMTT(30) DEF TypeOK, Chosen
<1>5. announces' \in [Peers -> Int] /\ announced' \in [Hashes -> Seq(Announce)]
  BY <1>1, <1>3, ForgetHashType
<1> HIDE DEF due, wanted
<1>6. completing' \in [Hashes -> Announce \cup {None}]
  BY <1>1, <1>4 DEF TypeOK
<1>7. /\ fetched' \in [Hashes -> Seq(Announce)]
      /\ fetching' \in [Hashes -> Announce \cup {None}]
  <2>1. <<>> \in Seq(Announce) /\ None \in Announce \cup {None}
    BY SMTT(30)
  <2> QED
    BY <1>1, <2>1, EraseType DEF TypeOK
<1>8. TypeOK'
  BY <1>1, <1>2, <1>5, <1>6, <1>7 DEF TypeOK, imports, chain
<1> QED
  BY <1>2, <1>8, QueueUntouched

-----------------------------------------------------------------------------

(* Delivered headers preserve the invariant. *)
LEMMA FilterHeadersStep ==
  ASSUME QueueInv, NEW p \in Peers, NEW S \in SUBSET Hashes, NEW twice,
         FilterHeaders(p, S, twice)
  PROVE  QueueInv'
<1> USE DEF QueueInv
<1>2. UNCHANGED <<importing, finished, fetchTimer, chain>> /\ pc' = "top"
  BY DEF FilterHeaders
<1> DEFINE mine == {h \in S : Requested(p, h)}
           wrong == {h \in mine : fetching[h].number # Number[h]}
           new == mine \ (wrong \cup known)
           complete == new \cap EmptyBlocks
           incomplete == new \ EmptyBlocks
           comp == [h \in Hashes |-> IF h \in complete THEN fetching[h] ELSE completing[h]]
           forgotten(A) == (mine \ new) \cup Refused(p, complete, A)
<1>1. PICK A \in SUBSET complete :
        /\ Accepts(p, complete, A) /\ enqueue(p, A)
        /\ forgetHash(forgotten(A), comp)
        /\ fetching' = Erase(fetching, forgotten(A), None)
        /\ fetched' = [h \in Hashes |->
                         IF h \in incomplete
                         THEN IF h \in twice THEN <<fetching[h], fetching[h]>>
                                             ELSE <<fetching[h]>>
                         ELSE fetched[h]]
        /\ completing' = Erase(comp, forgotten(A), None)
        /\ aged' = aged \ mine
        /\ completeTimer' = (completeTimer \/ (incomplete # {} /\ NonEmpty(fetched) = {}))
        /\ dropped' = IF wrong = {} THEN dropped ELSE dropped \cup {p}
  BY DEF FilterHeaders
<1> HIDE DEF mine, wrong, new, complete, incomplete, comp, forgotten
<1>3. forgotten(A) \in SUBSET Hashes /\ complete \in SUBSET Hashes
  <2>1. mine \in SUBSET Hashes
    BY DEF mine
  <2>2. complete \subseteq mine
    BY DEF new, complete
  <2> QED
    BY <2>1, <2>2 DEF forgotten, Refused
<1>4. \A h \in new : fetching[h] \in Announce
  BY DEF TypeOK, Requested, new, mine
<1>5. comp \in [Hashes -> Announce \cup {None}]
  BY <1>4 DEF TypeOK, comp, complete
<1>6. fetched' \in [Hashes -> Seq(Announce)]
  <2>1. \A h \in incomplete : fetching[h] \in Announce
    BY <1>4 DEF incomplete
  <2>2. \A h \in incomplete : <<fetching[h], fetching[h]>> \in Seq(Announce)
                              /\ <<fetching[h]>> \in Seq(Announce)
    BY <2>1, SMTT(30)
  <2> QED
    BY <1>1, <2>2 DEF TypeOK
<1>7. BlockQuota'
  BY <1>1, <1>3, EnqueueQuota
<1>8. /\ A \subseteq Hashes /\ A \cap Present(queued) = {}
      /\ queues' \in [Peers -> Int] /\ queued' \in [Hashes -> Peers \cup {None}]
      /\ queue' = queue \cup A /\ Present(queued)' = Present(queued) \cup A
  BY <1>1, <1>3, EnqueueQueued
<1>9. QueuedExactlyOnce'
  BY <1>2, <1>8 DEF QueuedExactlyOnce
<1>10. announces' \in [Peers -> Int] /\ announced' \in [Hashes -> Seq(Announce)]
  BY <1>1, <1>3, ForgetHashType
<1>11. /\ fetching' \in [Hashes -> Announce \cup {None}]
       /\ completing' \in [Hashes -> Announce \cup {None}]
  <2>1. None \in Announce \cup {None}
    OBVIOUS
  <2> QED
    BY <1>1, <1>5, <2>1, EraseType DEF TypeOK
<1>12. TypeOK'
  BY <1>1, <1>2, <1>6, <1>8, <1>10, <1>11 DEF TypeOK, chain
<1> QED
  BY <1>7, <1>9, <1>12

(* Delivered bodies preserve the invariant. *)
LEMMA FilterBodiesStep ==
  ASSUME QueueInv, NEW p \in Peers, NEW B, FilterBodies(p, B)
  PROVE  QueueInv'
<1> USE DEF QueueInv
<1>2. UNCHANGED <<importing, finished, timers, chain, dropped>> /\ pc' = "top"
  BY DEF FilterBodies
<1> DEFINE mine == {h \in Hashes : /\ completing[h] # None /\ completing[h].origin = p
                                   /\ queued[h] = None /\ Body[h] \in B}
           blocks == mine \ known
           forgotten(A) == (mine \ blocks) \cup Refused(p, blocks, A)
<1>1. PICK A \in SUBSET blocks :
        /\ Accepts(p, blocks, A) /\ enqueue(p, A)
        /\ forgetHash(forgotten(A), completing)
        /\ fetching' = Erase(fetching, forgotten(A), None)
        /\ fetched' = Erase(fetched, forgotten(A), <<>>)
        /\ completing' = Erase(completing, forgotten(A), None)
        /\ aged' = aged \ forgotten(A)
  BY DEF FilterBodies
<1> HIDE DEF mine, blocks, forgotten
<1>3. forgotten(A) \in SUBSET Hashes /\ blocks \in SUBSET Hashes
  <2>1. mine \in SUBSET Hashes /\ blocks \subseteq mine
    BY DEF mine, blocks
  <2> QED
    BY <2>1 DEF forgotten, Refused
<1>4. BlockQuota'
  BY <1>1, <1>3, EnqueueQuota
<1>5. /\ A \subseteq Hashes /\ A \cap Present(queued) = {}
      /\ queues' \in [Peers -> Int] /\ queued' \in [Hashes -> Peers \cup {None}]
      /\ queue' = queue \cup A /\ Present(queued)' = Present(queued) \cup A
  BY <1>1, <1>3, EnqueueQueued
<1>6. QueuedExactlyOnce'
  BY <1>2, <1>5 DEF QueuedExactlyOnce
<1>7. announces' \in [Peers -> Int] /\ announced' \in [Hashes -> Seq(Announce)]
  BY <1>1, <1>3, ForgetHashType
<1>8. /\ fetching' \in [Hashes -> Announce \cup {None}]
      /\ fetched' \in [Hashes -> Seq(Announce)]
      /\ completing' \in [Hashes -> Announce \cup {None}]
  BY <1>1, StagesType
<1>9. TypeOK'
  BY <1>1, <1>2, <1>5, <1>7, <1>8 DEF TypeOK, timers, chain
<1> QED
  BY <1>4, <1>6, <1>9

(* An import goroutine preserves the invariant. *)
LEMMA ImportStep ==
  ASSUME QueueInv, NEW h \in Hashes, Import(h)
  PROVE  QueueInv'
<1> USE DEF QueueInv
<1>1. /\ h \in importing /\ importing' = importing \ {h} /\ finished' = finished \cup {h}
      /\ UNCHANGED <<pc, stages, queue, queues, queued, timers, aged>>
  BY DEF Import, Reports
<1>2. queued[h] \in Peers
  BY <1>1 DEF QueuedExactlyOnce, Present, TypeOK
<1>3. dropped' \subseteq Peers
  BY <1>2 DEF Import, TypeOK
<1>4. known' \subseteq Hashes \cup {Genesis} /\ height' \in Nat
  BY FetcherAssumption, SMTT(30) DEF Import, ChainInsert, TypeOK, chain
<1>5. TypeOK'
  BY <1>1, <1>3, <1>4 DEF TypeOK, stages, timers
<1>6. QueuedExactlyOnce'
  BY <1>1 DEF QueuedExactlyOnce, Present
<1>7. BlockQuota'
  BY <1>1 DEF BlockQuota
<1> QED
  BY <1>5, <1>6, <1>7

(* The initial state satisfies the invariant. *)
LEMMA InitQueueInv == Init => QueueInv
<1> SUFFICES ASSUME Init PROVE QueueInv
  OBVIOUS
<1>1. TypeOK
  <2>1. <<>> \in Seq(Announce)
    BY SMTT(30)
  <2>2. /\ announced \in [Hashes -> Seq(Announce)] /\ fetched \in [Hashes -> Seq(Announce)]
        /\ announces \in [Peers -> Int] /\ queues \in [Peers -> Int]
    BY <2>1, SMTT(30) DEF Init
  <2> QED
    BY <2>2 DEF Init, TypeOK
<1>2. QueuedExactlyOnce
  BY DEF Init, QueuedExactlyOnce, Present
<1>3. \A p \in Peers : {h \in Hashes : queued[h] = p} = {}
  BY FetcherAssumption DEF Init
<1>4. \A p \in Peers : Cardinality({h \in Hashes : queued[h] = p}) = 0
  BY <1>3, FS_EmptySet
<1>5. \A p \in Peers : queues[p] = 0
  BY DEF Init
<1>6. BlockQuota
  BY <1>4, <1>5, FetcherAssumption, SMTT(30) DEF BlockQuota
<1> QED
  BY <1>1, <1>2, <1>6 DEF QueueInv

(* Every step preserves the invariant. *)
LEMMA NextQueueInv == QueueInv /\ [Next]_vars => QueueInv'
<1> SUFFICES ASSUME QueueInv, [Next]_vars PROVE QueueInv'
  OBVIOUS
<1>1. CASE LoopTop
  BY <1>1, LoopTopStep
<1>2. CASE FetchTimer
  BY <1>2, FetchTimerStep
<1>3. CASE CompleteTimer
  BY <1>3, CompleteTimerStep
<1>4. ASSUME NEW p \in Peers, NEW h \in Hashes, NEW n \in Claims, Notify(p, h, n)
      PROVE  QueueInv'
  BY <1>4, NotifyStep
<1>5. ASSUME NEW p \in Peers, NEW h \in Hashes, Inject(p, h)
      PROVE  QueueInv'
  BY <1>5, InjectStep
<1>6. ASSUME NEW p \in Peers, NEW S \in SUBSET Hashes, NEW twice \in SUBSET S,
             FilterHeaders(p, S, twice)
      PROVE  QueueInv'
  BY <1>6, FilterHeadersStep
<1>7. ASSUME NEW p \in Peers, NEW B, FilterBodies(p, B)
      PROVE  QueueInv'
  BY <1>7, FilterBodiesStep
<1>8. ASSUME NEW h \in Hashes, Done(h)
      PROVE  QueueInv'
  BY <1>8, DoneStep
<1>9. ASSUME NEW h \in Hashes, Import(h)
      PROVE  QueueInv'
  BY <1>9, ImportStep
<1>10. ASSUME UNCHANGED imports, TypeOK' PROVE QueueInv'
  BY <1>10, QueueUntouched DEF QueueInv
<1>11. ASSUME NEW h \in Hashes, OtherImport(h)
       PROVE  QueueInv'
  <2>1. TypeOK'
    BY <1>11, FetcherAssumption, SMTT(30)
       DEF QueueInv, OtherImport, ChainInsert, TypeOK, stages, imports, timers
  <2> QED
    BY <1>10, <1>11, <2>1 DEF OtherImport
<1>12. ASSUME NEW h \in Hashes, Age(h)
       PROVE  QueueInv'
  <2>1. TypeOK'
    BY <1>12 DEF QueueInv, Age, TypeOK, stages, imports, timers, chain
  <2> QED
    BY <1>10, <1>12, <2>1 DEF Age
<1>13. CASE Stop
  <2>1. TypeOK'
    BY <1>13 DEF QueueInv, Stop, TypeOK, stages, imports, timers, chain
  <2> QED
    BY <1>10, <1>13, <2>1 DEF Stop
<1>14. CASE FilterNothing
  <2>1. TypeOK'
    BY <1>14 DEF QueueInv, FilterNothing, TypeOK, stages, imports, timers, chain
  <2> QED
    BY <1>10, <1>14, <2>1 DEF FilterNothing
<1>15. CASE UNCHANGED vars
  <2>1. TypeOK'
    BY <1>15 DEF QueueInv, vars, TypeOK, stages, imports, timers, chain
  <2> QED
    BY <1>10, <1>15, <2>1 DEF vars
<1> QED
  BY <1>1, <1>2, <1>3, <1>4, <1>5, <1>6, <1>7, <1>8, <1>9, <1>11, <1>12, <1>13, <1>14,
     <1>15 DEF Next

(* QueueInv is an invariant of the fetcher. *)
LEMMA QueueInvariant == Spec => []QueueInv
BY InitQueueInv, NextQueueInv, PTL DEF Spec

(* The fields of the Fetcher keep their types. *)
THEOREM FetcherTypes == Spec => []TypeOK
BY QueueInvariant, PTL DEF QueueInv

(* The queued set is exactly the waiting, running and unreported imports,  *)
(* each in one place, so no block is imported by two goroutines at a time. *)
THEOREM FetcherQueuedOnce == Spec => []QueuedExactlyOnce
BY QueueInvariant, PTL DEF QueueInv

(* The per peer counters of enqueue and forgetBlock are exact and never    *)
(* exceed blockLimit.                                                      *)
THEOREM FetcherBlockQuota == Spec => []BlockQuota
BY QueueInvariant, PTL DEF QueueInv


(* The announce counters. *)

(* forgetHash takes at least the entries it removes off each counter. *)
LEMMA ForgetNoLeak ==
  ASSUME TypeOK, NoLeakedCharge, NEW S \in SUBSET Hashes, NEW comp, forgetHash(S, comp)
  PROVE  NoLeakedCharge'
<1>1. SUFFICES ASSUME NEW p \in Peers
               PROVE  announces'[p] <= Cardinality(Entries(p, Hashes, announced'))
  BY DEF NoLeakedCharge
<1> DEFINE All == Entries(p, Hashes, announced)
           Gone == Entries(p, S, announced)
<1>2. Entries(p, Hashes, announced') = All \ Gone
  BY SMTT(30) DEF Entries, forgetHash, Erase
<1>3. All \cap Gone = Gone
  BY DEF Entries
<1>4. IsFiniteSet(All) /\ Cardinality(All) \in Nat /\ Cardinality(Gone) \in Nat
  BY EntriesFinite
<1>5. announces'[p] = announces[p] - Charge(p, S, comp) /\ announces[p] \in Int
  BY DEF forgetHash, TypeOK
<1>6. Charge(p, S, comp) \in Nat /\ Cardinality(Gone) <= Charge(p, S, comp)
  <2>1. Cardinality(Singles(p, S, fetching)) \in Nat
    BY HashesFinite DEF Singles
  <2>2. Cardinality(Singles(p, S, comp)) \in Nat
    BY HashesFinite DEF Singles
  <2>3. Cardinality(Entries(p, S, fetched)) \in Nat
    BY EntriesFinite
  <2> QED
    BY <1>4, <2>1, <2>2, <2>3, SMTT(30) DEF Charge
<1>7. announces[p] <= Cardinality(All)
  BY DEF NoLeakedCharge
<1> HIDE DEF All, Gone
<1>8. Cardinality(All \ Gone) = Cardinality(All) - Cardinality(Gone)
  BY <1>3, <1>4, FS_Difference
<1> QED
  BY <1>2, <1>4, <1>5, <1>6, <1>7, <1>8, SMTT(30)

(* An announcement raises the counter by one and adds one entry. *)
LEMMA NotifyNoLeak ==
  ASSUME TypeOK, NoLeakedCharge, NEW p \in Peers, NEW h \in Hashes, NEW n \in Claims,
         Notify(p, h, n)
  PROVE  NoLeakedCharge'
<1>1. CASE ~Admits(p, h, n)
  BY <1>1 DEF Notify, NoLeakedCharge
<1>2. CASE Admits(p, h, n)
  <2>1. SUFFICES ASSUME NEW q \in Peers
                 PROVE  announces'[q] <= Cardinality(Entries(q, Hashes, announced'))
    BY DEF NoLeakedCharge
  <2> DEFINE a == [origin |-> p, number |-> n]
             i == Len(announced[h]) + 1
             All == Entries(q, Hashes, announced)
             Now == Entries(q, Hashes, announced')
  <2>2. announces' = [announces EXCEPT ![p] = @ + 1]
        /\ announced' = [announced EXCEPT ![h] = Append(@, a)]
    BY <1>2 DEF Notify
  <2>3. announced[h] \in Seq(Announce) /\ announced \in [Hashes -> Seq(Announce)]
    BY DEF TypeOK
  <2>4. i \in 1..MaxAnnounces
    BY <2>3, FetcherAssumption, SMTT(30) DEF Notify
  <2>5. announced'[h] = Append(announced[h], a)
        /\ \A g \in Hashes \ {h} : announced'[g] = announced[g]
    BY <2>2, <2>3
  <2>6. /\ DOMAIN announced'[h] = DOMAIN announced[h] \cup {i}
        /\ announced'[h][i] = a
        /\ \A j \in DOMAIN announced[h] : announced'[h][j] = announced[h][j]
        /\ i \notin DOMAIN announced[h]
    BY <2>3, <2>5, SMTT(30)
  <2>7. All \subseteq Now
    BY <2>5, <2>6, SMTT(30) DEF Entries
  <2>8. IsFiniteSet(All) /\ IsFiniteSet(Now) /\ Cardinality(All) \in Nat
        /\ Cardinality(Now) \in Nat
    BY EntriesFinite
  <2>9. announces[q] \in Int /\ announces[q] <= Cardinality(All)
    BY DEF TypeOK, NoLeakedCharge
  <2>10. CASE q # p
    <3>1. announces'[q] = announces[q]
      BY <2>2, <2>10 DEF TypeOK
    <3> HIDE DEF All, Now
    <3>2. Cardinality(All) <= Cardinality(Now)
      BY <2>7, <2>8, FS_Subset
    <3>3. announces'[q] <= Cardinality(Now)
      BY <2>8, <2>9, <3>1, <3>2, SMTT(30)
    <3> QED
      BY <3>3 DEF Now
  <2>11. CASE q = p
    <3>1. announces'[q] = announces[q] + 1
      BY <2>2, <2>11 DEF TypeOK
    <3>2. <<h, i>> \in Now /\ <<h, i>> \notin All
      BY <2>4, <2>6, <2>11, SMTT(30) DEF Entries
    <3> HIDE DEF All, Now
    <3>3. Cardinality(All \cup {<<h, i>>}) = Cardinality(All) + 1
      BY <2>8, <3>2, FS_AddElement
    <3>4. Cardinality(All \cup {<<h, i>>}) <= Cardinality(Now)
      BY <2>7, <2>8, <3>2, FS_Subset
    <3>5. announces'[q] <= Cardinality(Now)
      BY <2>8, <2>9, <3>1, <3>3, <3>4, SMTT(30)
    <3> QED
      BY <3>5 DEF Now
  <2> QED
    BY <2>10, <2>11
<1> QED
  BY <1>1, <1>2

(* Every step keeps the counters at or below the pending announcements: it *)
(* announces, forgets some hashes, or leaves both alone.                   *)
LEMMA NextNoLeak == TypeOK /\ NoLeakedCharge /\ [Next]_vars => NoLeakedCharge'
<1> SUFFICES ASSUME TypeOK, NoLeakedCharge, [Next]_vars PROVE NoLeakedCharge'
  OBVIOUS
<1>1. ASSUME NEW S \in SUBSET Hashes, NEW comp, forgetHash(S, comp)
      PROVE  NoLeakedCharge'
  BY <1>1, ForgetNoLeak
<1>2. ASSUME UNCHANGED <<announces, announced>> PROVE NoLeakedCharge'
  BY <1>2 DEF NoLeakedCharge
<1>3. CASE LoopTop
  <2>1. Expired \in SUBSET Hashes /\ forgetHash(Expired, completing)
    BY <1>3 DEF LoopTop, Expired, Present
  <2> QED
    BY <1>1, <2>1
<1>4. CASE FetchTimer
  <2>1. aged \cap NonEmpty(announced) \in SUBSET Hashes
        /\ forgetHash(aged \cap NonEmpty(announced), completing)
    BY <1>4 DEF FetchTimer, NonEmpty
  <2> QED
    BY <1>1, <2>1
<1>5. CASE CompleteTimer
  <2>1. NonEmpty(fetched) \in SUBSET Hashes /\ forgetHash(NonEmpty(fetched), completing)
    BY <1>5 DEF CompleteTimer, NonEmpty
  <2> QED
    BY <1>1, <2>1
<1>6. ASSUME NEW p \in Peers, NEW h \in Hashes, Inject(p, h)
      PROVE  NoLeakedCharge'
  <2>1. PICK A : forgetHash(Refused(p, {h}, A), completing)
    BY <1>6 DEF Inject
  <2>2. Refused(p, {h}, A) \in SUBSET Hashes
    BY DEF Refused
  <2> QED
    BY <1>1, <2>1, <2>2
<1>7. ASSUME NEW p \in Peers, NEW S \in SUBSET Hashes, NEW twice \in SUBSET S,
             FilterHeaders(p, S, twice)
      PROVE  NoLeakedCharge'
  <2>1. PICK comp : \E T \in SUBSET Hashes : forgetHash(T, comp)
    BY <1>7 DEF FilterHeaders, Refused
  <2> QED
    BY <1>1, <2>1
<1>8. ASSUME NEW p \in Peers, NEW B, FilterBodies(p, B)
      PROVE  NoLeakedCharge'
  <2>1. PICK T \in SUBSET Hashes : forgetHash(T, completing)
    BY <1>8 DEF FilterBodies, Refused
  <2> QED
    BY <1>1, <2>1
<1>9. ASSUME NEW h \in Hashes, Done(h)
      PROVE  NoLeakedCharge'
  <2>1. {h} \in SUBSET Hashes /\ forgetHash({h}, completing)
    BY <1>9 DEF Done
  <2> QED
    BY <1>1, <2>1
<1>10. ASSUME NEW p \in Peers, NEW h \in Hashes, NEW n \in Claims, Notify(p, h, n)
       PROVE  NoLeakedCharge'
  BY <1>10, NotifyNoLeak
<1>11. ASSUME NEW h \in Hashes, Import(h) \/ OtherImport(h) \/ Age(h)
       PROVE  NoLeakedCharge'
  BY <1>2, <1>11 DEF Import, OtherImport, Age, stages
<1>12. CASE Stop \/ FilterNothing \/ UNCHANGED vars
  BY <1>2, <1>12 DEF Stop, FilterNothing, vars, stages
<1> QED
  BY <1>3, <1>4, <1>5, <1>6, <1>7, <1>8, <1>9, <1>10, <1>11, <1>12 DEF Next

(* No charge leaks: the counter that throttles a peer never exceeds the    *)
(* number of its announcements that are still pending.                     *)
THEOREM FetcherNoLeakedCharge == Spec => []NoLeakedCharge
<1>1. Init => NoLeakedCharge
  <2> SUFFICES ASSUME Init, NEW p \in Peers
               PROVE  announces[p] <= Cardinality(Entries(p, Hashes, announced))
    BY DEF NoLeakedCharge
  <2>1. announces[p] = 0
    BY DEF Init
  <2>2. Cardinality(Entries(p, Hashes, announced)) \in Nat
    BY EntriesFinite
  <2> QED
    BY <2>1, <2>2, SMTT(30)
<1>2. TypeOK /\ NoLeakedCharge /\ [Next]_vars => NoLeakedCharge'
  BY NextNoLeak
<1> QED
  BY <1>1, <1>2, FetcherTypes, PTL DEF Spec

-----------------------------------------------------------------------------
(* The stages of a hash. *)

(* Erasing hashes from all four stages keeps the stages exclusive. *)
LEMMA EraseExclusive ==
  ASSUME StagesExclusive, NEW S,
         announced' = Erase(announced, S, <<>>), fetching' = Erase(fetching, S, None),
         fetched' = Erase(fetched, S, <<>>), completing' = Erase(completing, S, None)
  PROVE  StagesExclusive'
BY SMTT(30) DEF StagesExclusive, Erase

(* A due announcement moves to fetching, where its hash is in no other     *)
(* stage.                                                                  *)
LEMMA FetchTimerExclusive ==
  TypeOK /\ StagesExclusive /\ FetchTimer => StagesExclusive'
<1> SUFFICES ASSUME TypeOK, StagesExclusive, FetchTimer,
                    NEW h \in Hashes
             PROVE  /\ announced'[h] # <<>> => /\ fetching'[h] = None /\ completing'[h] = None
                                               /\ fetched'[h] = <<>>
                    /\ \A i \in DOMAIN fetched'[h] : fetched'[h][i] = fetching'[h]
                    /\ fetched'[h] # <<>> => completing'[h] = None
  BY DEF StagesExclusive
<1> DEFINE due == aged \cap NonEmpty(announced)
<1>1. /\ announced' = Erase(announced, due, <<>>)
      /\ fetched' = Erase(fetched, due, <<>>)
      /\ completing' = Erase(completing, due, None)
      /\ \A g \in Hashes \ due : fetching'[g] = fetching[g]
  BY DEF FetchTimer, forgetHash
<1>2. CASE h \in due
  BY <1>1, <1>2, SMTT(30) DEF Erase
<1>3. CASE h \notin due
  BY <1>1, <1>3 DEF StagesExclusive, Erase
<1> QED
  BY <1>2, <1>3

(* A fetched header moves to completing, where its hash is in no other     *)
(* stage.                                                                  *)
LEMMA CompleteTimerExclusive ==
  TypeOK /\ StagesExclusive /\ CompleteTimer => StagesExclusive'
<1> SUFFICES ASSUME TypeOK, StagesExclusive, CompleteTimer,
                    NEW h \in Hashes
             PROVE  /\ announced'[h] # <<>> => /\ fetching'[h] = None /\ completing'[h] = None
                                               /\ fetched'[h] = <<>>
                    /\ \A i \in DOMAIN fetched'[h] : fetched'[h][i] = fetching'[h]
                    /\ fetched'[h] # <<>> => completing'[h] = None
  BY DEF StagesExclusive
<1> DEFINE due == NonEmpty(fetched)
<1>1. /\ announced' = Erase(announced, due, <<>>)
      /\ fetched' = Erase(fetched, due, <<>>)
      /\ fetching' = Erase(fetching, due, None)
      /\ \A g \in Hashes \ due : completing'[g] = completing[g]
  BY DEF CompleteTimer, forgetHash
<1>2. CASE h \in due
  BY <1>1, <1>2, SMTT(30) DEF Erase
<1>3. CASE h \notin due
  BY <1>1, <1>3 DEF StagesExclusive, Erase
<1> QED
  BY <1>2, <1>3

(* A requested header moves to fetched under the announcement in fetching, *)
(* or, for an empty block, to completing.                                  *)
LEMMA FilterHeadersExclusive ==
  ASSUME TypeOK, StagesExclusive, NEW p \in Peers, NEW S \in SUBSET Hashes, NEW twice,
         FilterHeaders(p, S, twice)
  PROVE  StagesExclusive'
<1> SUFFICES ASSUME NEW h \in Hashes
             PROVE  /\ announced'[h] # <<>> => /\ fetching'[h] = None /\ completing'[h] = None
                                               /\ fetched'[h] = <<>>
                    /\ \A i \in DOMAIN fetched'[h] : fetched'[h][i] = fetching'[h]
                    /\ fetched'[h] # <<>> => completing'[h] = None
  BY DEF StagesExclusive
<1> DEFINE mine == {g \in S : Requested(p, g)}
           new == mine \ ({g \in mine : fetching[g].number # Number[g]} \cup known)
           complete == new \cap EmptyBlocks
           incomplete == new \ EmptyBlocks
           comp == [g \in Hashes |-> IF g \in complete THEN fetching[g] ELSE completing[g]]
           forgotten(A) == (mine \ new) \cup Refused(p, complete, A)
<1>1. PICK A \in SUBSET complete :
        /\ announced' = Erase(announced, forgotten(A), <<>>)
        /\ fetching' = Erase(fetching, forgotten(A), None)
        /\ fetched' = [g \in Hashes |->
                         IF g \in incomplete
                         THEN IF g \in twice THEN <<fetching[g], fetching[g]>>
                                             ELSE <<fetching[g]>>
                         ELSE fetched[g]]
        /\ completing' = Erase(comp, forgotten(A), None)
  BY DEF FilterHeaders, forgetHash
<1> HIDE DEF mine, new, complete, incomplete, comp, forgotten
<1>2. /\ forgotten(A) \subseteq mine /\ forgotten(A) \cap incomplete = {}
      /\ incomplete \cap complete = {}
      /\ new \subseteq mine /\ complete \subseteq new /\ incomplete \subseteq new
  <2>1. /\ new \subseteq mine /\ complete \subseteq new /\ incomplete \subseteq new
        /\ incomplete \cap complete = {}
    BY DEF new, complete, incomplete
  <2>2. forgotten(A) \subseteq (mine \ new) \cup complete
    BY DEF forgotten, Refused
  <2> QED
    BY <2>1, <2>2
<1>3. \A g \in mine : fetching[g] # None /\ fetched[g] = <<>> /\ completing[g] = None
  BY DEF Requested, mine
<1>4. \A g \in mine : announced[g] = <<>>
  BY <1>3 DEF StagesExclusive, mine
<1>5. comp[h] = IF h \in complete THEN fetching[h] ELSE completing[h]
  BY DEF comp
<1>6. CASE h \notin mine
  BY <1>1, <1>2, <1>5, <1>6 DEF StagesExclusive, Erase
<1>7. CASE h \in incomplete
  BY <1>1, <1>2, <1>3, <1>4, <1>5, <1>7, SMTT(30) DEF Erase
<1>8. CASE h \in mine \ incomplete
  BY <1>1, <1>2, <1>3, <1>4, <1>8, SMTT(30) DEF Erase
<1> QED
  BY <1>6, <1>7, <1>8

(* An announcement is only let in when its hash is in no later stage. *)
LEMMA NotifyExclusive ==
  ASSUME TypeOK, StagesExclusive, NEW p \in Peers, NEW h \in Hashes, NEW n \in Claims,
         Notify(p, h, n)
  PROVE  StagesExclusive'
<1>1. UNCHANGED <<fetching, fetched, completing>>
  BY DEF Notify
<1>2. CASE ~Admits(p, h, n)
  BY <1>1, <1>2 DEF Notify, StagesExclusive
<1>3. CASE Admits(p, h, n)
  <2>1. /\ \A g \in Hashes \ {h} : announced'[g] = announced[g]
        /\ fetching[h] = None /\ completing[h] = None
    BY <1>3 DEF Notify, Admits, TypeOK
  <2>2. \A i \in DOMAIN fetched[h] : fetched[h][i] \in Announce
    BY SMTT(30) DEF TypeOK
  <2>3. DOMAIN fetched[h] = {}
    BY <2>1, <2>2, FetcherAssumption, SMTT(30) DEF StagesExclusive
  <2>4. fetched[h] = <<>>
    <3>1. fetched[h] \in Seq(Announce)
      BY DEF TypeOK
    <3>2. DOMAIN fetched[h] = 1..Len(fetched[h]) /\ Len(fetched[h]) \in Nat
      BY <3>1, SMTT(30)
    <3>3. 1 \notin 1..Len(fetched[h])
      BY <2>3, <3>2
    <3>4. Len(fetched[h]) = 0
      BY <3>2, <3>3, SMTT(30)
    <3> QED
      BY <3>1, <3>4, SMTT(30)
  <2> QED
    BY <1>1, <2>1, <2>4 DEF StagesExclusive
<1> QED
  BY <1>2, <1>3

(* The stages stay exclusive in every step. *)
LEMMA NextExclusive == TypeOK /\ StagesExclusive /\ [Next]_vars => StagesExclusive'
<1> SUFFICES ASSUME TypeOK, StagesExclusive, [Next]_vars PROVE StagesExclusive'
  OBVIOUS
<1>1. ASSUME UNCHANGED stages PROVE StagesExclusive'
  BY <1>1 DEF StagesExclusive, stages
<1>2. CASE LoopTop
  BY <1>2, EraseExclusive DEF LoopTop, forgetHash
<1>3. CASE FetchTimer
  BY <1>3, FetchTimerExclusive
<1>4. CASE CompleteTimer
  BY <1>4, CompleteTimerExclusive
<1>5. ASSUME NEW p \in Peers, NEW h \in Hashes, NEW n \in Claims, Notify(p, h, n)
      PROVE  StagesExclusive'
  BY <1>5, NotifyExclusive
<1>6. ASSUME NEW p \in Peers, NEW h \in Hashes, Inject(p, h)
      PROVE  StagesExclusive'
  BY <1>6, EraseExclusive DEF Inject, forgetHash
<1>7. ASSUME NEW p \in Peers, NEW S \in SUBSET Hashes, NEW twice \in SUBSET S,
             FilterHeaders(p, S, twice)
      PROVE  StagesExclusive'
  BY <1>7, FilterHeadersExclusive
<1>8. ASSUME NEW p \in Peers, NEW B, FilterBodies(p, B)
      PROVE  StagesExclusive'
  BY <1>8, EraseExclusive DEF FilterBodies, forgetHash
<1>9. ASSUME NEW h \in Hashes, Done(h)
      PROVE  StagesExclusive'
  BY <1>9, EraseExclusive DEF Done, forgetHash
<1>10. ASSUME NEW h \in Hashes, Import(h) \/ OtherImport(h) \/ Age(h)
       PROVE  StagesExclusive'
  BY <1>1, <1>10 DEF Import, OtherImport, Age
<1>11. CASE Stop \/ FilterNothing \/ UNCHANGED vars
  BY <1>1, <1>11 DEF Stop, FilterNothing, vars
<1> QED
  BY <1>2, <1>3, <1>4, <1>5, <1>6, <1>7, <1>8, <1>9, <1>10, <1>11 DEF Next

(* The stages announced, fetching and completing of a hash exclude each    *)
(* other, and a fetched header keeps the announcement it was fetched for.  *)
THEOREM FetcherStagesExclusive == Spec => []StagesExclusive
<1>1. Init => StagesExclusive
  BY SMTT(30) DEF Init, StagesExclusive
<1>2. TypeOK /\ StagesExclusive /\ [Next]_vars => StagesExclusive'
  BY NextExclusive
<1> QED
  BY <1>1, <1>2, FetcherTypes, PTL DEF Spec

-----------------------------------------------------------------------------
(* Blame. *)

(* What an announcement says is true when an honest peer made it. *)
Truthful(h, a) == a.origin \in Honest => a.number = Number[h] /\ h \notin BadHeaders

(* The strengthening of HonestNotDropped: an honest peer is the origin of  *)
(* true announcements in every stage, and of valid blocks in the queue.    *)
HonestInv ==
  /\ \A h \in Hashes :
       /\ \A i \in DOMAIN announced[h] : Truthful(h, announced[h][i])
       /\ \A i \in DOMAIN fetched[h] : Truthful(h, fetched[h][i])
       /\ fetching[h] # None => Truthful(h, fetching[h])
       /\ completing[h] # None => Truthful(h, completing[h])
       /\ queued[h] \in Honest => h \notin BadHeaders
  /\ HonestNotDropped

(* Erasing hashes from the stages leaves only announcements that were      *)
(* there before.                                                           *)
LEMMA EraseTruthful ==
  ASSUME HonestInv, NEW S, NEW h \in Hashes,
         announced' = Erase(announced, S, <<>>), fetching' = Erase(fetching, S, None),
         fetched' = Erase(fetched, S, <<>>), completing' = Erase(completing, S, None)
  PROVE  /\ \A i \in DOMAIN announced'[h] : Truthful(h, announced'[h][i])
         /\ \A i \in DOMAIN fetched'[h] : Truthful(h, fetched'[h][i])
         /\ fetching'[h] # None => Truthful(h, fetching'[h])
         /\ completing'[h] # None => Truthful(h, completing'[h])
<1>1. DOMAIN <<>> = {}
  BY SMTT(30)
<1>2. CASE h \in S
  BY <1>1, <1>2 DEF Erase
<1>3. CASE h \notin S
  BY <1>3 DEF Erase, HonestInv
<1> QED
  BY <1>2, <1>3

(* forgetBlock only takes blocks out of the queue. *)
LEMMA ForgetBlockHonest ==
  ASSUME HonestInv, NEW S, forgetBlock(S), NEW h \in Hashes
  PROVE  queued'[h] \in Honest => h \notin BadHeaders
<1>1. None \notin Honest
  BY FetcherAssumption
<1> QED
  BY <1>1 DEF HonestInv, forgetBlock, Erase

(* A block enters the queue in the name of the peer p that is its origin.  *)
LEMMA EnqueueHonest ==
  ASSUME HonestInv, NEW p, NEW A, enqueue(p, A), p \in Honest => A \cap BadHeaders = {},
         NEW h \in Hashes
  PROVE  queued'[h] \in Honest => h \notin BadHeaders
BY DEF HonestInv, enqueue

(* One announcement of the list is chosen as it is, with its own number. *)
LEMMA FetchTimerHonest == TypeOK /\ HonestInv /\ FetchTimer => HonestInv'
<1> SUFFICES ASSUME TypeOK, HonestInv, FetchTimer PROVE HonestInv'
  OBVIOUS
<1> DEFINE due == aged \cap NonEmpty(announced)
           wanted == due \ known
<1>1. PICK pick \in [wanted -> 1..MaxAnnounces] :
        /\ \A h \in wanted : pick[h] \in DOMAIN announced[h]
        /\ announced' = Erase(announced, due, <<>>)
        /\ fetching' = [h \in Hashes |-> IF h \in wanted THEN announced[h][pick[h]]
                                         ELSE IF h \in due THEN None ELSE fetching[h]]
        /\ fetched' = Erase(fetched, due, <<>>)
        /\ completing' = Erase(completing, due, None)
  BY DEF FetchTimer, forgetHash, Chosen
<1>2. UNCHANGED <<queued, dropped>>
  BY DEF FetchTimer, imports
<1> HIDE DEF due, wanted
<1>3. DOMAIN <<>> = {}
  BY SMTT(30)
<1>4. ASSUME NEW h \in Hashes
      PROVE  /\ \A i \in DOMAIN announced'[h] : Truthful(h, announced'[h][i])
             /\ \A i \in DOMAIN fetched'[h] : Truthful(h, fetched'[h][i])
             /\ completing'[h] # None => Truthful(h, completing'[h])
  <2>1. CASE h \in due
    BY <1>1, <1>3, <2>1 DEF Erase
  <2>2. CASE h \notin due
    BY <1>1, <2>2 DEF Erase, HonestInv
  <2> QED
    BY <2>1, <2>2
<1>5. ASSUME NEW h \in Hashes, fetching'[h] # None
      PROVE  Truthful(h, fetching'[h])
  BY <1>1, <1>5 DEF HonestInv
<1> QED
  BY <1>2, <1>4, <1>5 DEF HonestInv, HonestNotDropped

(* The announcement a header was fetched for is the one its body is asked  *)
(* for under.                                                              *)
LEMMA CompleteTimerHonest == TypeOK /\ HonestInv /\ CompleteTimer => HonestInv'
<1> SUFFICES ASSUME TypeOK, HonestInv, CompleteTimer PROVE HonestInv'
  OBVIOUS
<1> DEFINE due == NonEmpty(fetched)
           wanted == due \ known
<1>1. PICK pick \in [wanted -> 1..MaxAnnounces] :
        /\ \A h \in wanted : pick[h] \in DOMAIN fetched[h]
        /\ announced' = Erase(announced, due, <<>>)
        /\ fetching' = Erase(fetching, due, None)
        /\ fetched' = Erase(fetched, due, <<>>)
        /\ completing' = [h \in Hashes |-> IF h \in wanted THEN fetched[h][pick[h]]
                                           ELSE IF h \in due THEN None ELSE completing[h]]
  BY DEF CompleteTimer, forgetHash, Chosen
<1>2. UNCHANGED <<queued, dropped>>
  BY DEF CompleteTimer, imports
<1> HIDE DEF due, wanted
<1>3. DOMAIN <<>> = {}
  BY SMTT(30)
<1>4. ASSUME NEW h \in Hashes
      PROVE  /\ \A i \in DOMAIN announced'[h] : Truthful(h, announced'[h][i])
             /\ \A i \in DOMAIN fetched'[h] : Truthful(h, fetched'[h][i])
             /\ fetching'[h] # None => Truthful(h, fetching'[h])
  <2>1. CASE h \in due
    BY <1>1, <1>3, <2>1 DEF Erase
  <2>2. CASE h \notin due
    BY <1>1, <2>2 DEF Erase, HonestInv
  <2> QED
    BY <2>1, <2>2
<1>5. ASSUME NEW h \in Hashes, completing'[h] # None
      PROVE  Truthful(h, completing'[h])
  BY <1>1, <1>5 DEF HonestInv
<1> QED
  BY <1>2, <1>4, <1>5 DEF HonestInv, HonestNotDropped

(* A peer is charged with a wrong number only when the announcement it is  *)
(* judged by is its own; what it delivered enters the queue in its name.   *)
LEMMA FilterHeadersHonest ==
  ASSUME TypeOK, HonestInv, NEW p \in Peers, NEW S \in SUBSET Hashes, NEW twice,
         FilterHeaders(p, S, twice)
  PROVE  HonestInv'
<1> DEFINE mine == {g \in S : Requested(p, g)}
           wrong == {g \in mine : fetching[g].number # Number[g]}
           new == mine \ (wrong \cup known)
           complete == new \cap EmptyBlocks
           incomplete == new \ EmptyBlocks
           comp == [g \in Hashes |-> IF g \in complete THEN fetching[g] ELSE completing[g]]
           forgotten(A) == (mine \ new) \cup Refused(p, complete, A)
<1>1. PICK A \in SUBSET complete :
        /\ enqueue(p, A)
        /\ announced' = Erase(announced, forgotten(A), <<>>)
        /\ fetching' = Erase(fetching, forgotten(A), None)
        /\ fetched' = [g \in Hashes |->
                         IF g \in incomplete
                         THEN IF g \in twice THEN <<fetching[g], fetching[g]>>
                                             ELSE <<fetching[g]>>
                         ELSE fetched[g]]
        /\ completing' = Erase(comp, forgotten(A), None)
        /\ dropped' = IF wrong = {} THEN dropped ELSE dropped \cup {p}
  BY DEF FilterHeaders, forgetHash
<1>2. \A g \in mine : /\ g \in Hashes /\ fetching[g] # None /\ fetching[g].origin = p
                      /\ Truthful(g, fetching[g])
  BY DEF Requested, HonestInv
<1>3. new \subseteq mine /\ complete \subseteq new /\ incomplete \subseteq new
  OBVIOUS
<1>4. p \in Honest => wrong = {}
  BY <1>2 DEF Truthful
<1> HIDE DEF mine, wrong, new, complete, incomplete, forgotten
<1>5. HonestNotDropped'
  BY <1>1, <1>4 DEF HonestInv, HonestNotDropped
<1>6. p \in Honest => A \cap BadHeaders = {}
  BY <1>1, <1>2, <1>3 DEF Truthful
<1>7. ASSUME NEW h \in Hashes
      PROVE  queued'[h] \in Honest => h \notin BadHeaders
  BY <1>1, <1>6, EnqueueHonest
<1>8. DOMAIN <<>> = {}
  BY SMTT(30)
<1>9. ASSUME NEW h \in Hashes
       PROVE  /\ \A i \in DOMAIN announced'[h] : Truthful(h, announced'[h][i])
              /\ fetching'[h] # None => Truthful(h, fetching'[h])
  <2>1. CASE h \in forgotten(A)
    BY <1>1, <1>8, <2>1 DEF Erase
  <2>2. CASE h \notin forgotten(A)
    BY <1>1, <2>2 DEF Erase, HonestInv
  <2> QED
    BY <2>1, <2>2
<1>10. ASSUME NEW h \in Hashes, completing'[h] # None
       PROVE  Truthful(h, completing'[h])
  <2>1. completing'[h] = comp[h]
    BY <1>1, <1>10 DEF Erase
  <2>2. (comp[h] = fetching[h] /\ h \in complete) \/ comp[h] = completing[h]
    OBVIOUS
  <2> QED
    BY <1>2, <1>3, <1>10, <2>1, <2>2 DEF HonestInv
<1>11. ASSUME NEW h \in Hashes, NEW i \in DOMAIN fetched'[h]
       PROVE  Truthful(h, fetched'[h][i])
  <2>1. CASE h \in incomplete
    <3>1. fetched'[h] = <<fetching[h], fetching[h]>> \/ fetched'[h] = <<fetching[h]>>
      BY <1>1, <2>1
    <3>2. fetched'[h][i] = fetching[h]
      BY <1>11, <3>1, SMTT(30)
    <3> QED
      BY <1>2, <1>3, <2>1, <3>2
  <2>2. CASE h \notin incomplete
    BY <1>1, <1>11, <2>2 DEF HonestInv
  <2> QED
    BY <2>1, <2>2
<1> QED
  BY <1>5, <1>7, <1>9, <1>10, <1>11 DEF HonestInv

(* A body completes the block in the name of the peer it was asked from. *)
LEMMA FilterBodiesHonest ==
  ASSUME TypeOK, HonestInv, NEW p \in Peers, NEW B, FilterBodies(p, B)
  PROVE  HonestInv'
<1> DEFINE mine == {h \in Hashes : /\ completing[h] # None /\ completing[h].origin = p
                                   /\ queued[h] = None /\ Body[h] \in B}
           blocks == mine \ known
           forgotten(A) == (mine \ blocks) \cup Refused(p, blocks, A)
<1>1. PICK A \in SUBSET blocks :
        /\ enqueue(p, A)
        /\ announced' = Erase(announced, forgotten(A), <<>>)
        /\ fetching' = Erase(fetching, forgotten(A), None)
        /\ fetched' = Erase(fetched, forgotten(A), <<>>)
        /\ completing' = Erase(completing, forgotten(A), None)
  BY DEF FilterBodies, forgetHash
<1>2. dropped' = dropped
  BY DEF FilterBodies
<1>3. p \in Honest => A \cap BadHeaders = {}
  BY <1>1 DEF HonestInv, Truthful
<1> HIDE DEF mine, blocks, forgotten
<1> QED
  BY <1>1, <1>2, <1>3, EraseTruthful, EnqueueHonest DEF HonestInv, HonestNotDropped

(* An honest peer pushes valid blocks. *)
LEMMA InjectHonest ==
  ASSUME TypeOK, HonestInv, NEW p \in Peers, NEW h \in Hashes, Inject(p, h)
  PROVE  HonestInv'
<1>1. PICK A \in SUBSET {h} :
        /\ enqueue(p, A)
        /\ announced' = Erase(announced, Refused(p, {h}, A), <<>>)
        /\ fetching' = Erase(fetching, Refused(p, {h}, A), None)
        /\ fetched' = Erase(fetched, Refused(p, {h}, A), <<>>)
        /\ completing' = Erase(completing, Refused(p, {h}, A), None)
  BY DEF Inject, forgetHash
<1>2. dropped' = dropped /\ (p \in Honest => A \cap BadHeaders = {})
  BY <1>1 DEF Inject
<1> QED
  BY <1>1, <1>2, EraseTruthful, EnqueueHonest DEF HonestInv, HonestNotDropped

(* What joins the announced map is what the peer claimed. *)
LEMMA NotifyHonest ==
  ASSUME TypeOK, HonestInv, NEW p \in Peers, NEW h \in Hashes, NEW n \in Claims,
         Notify(p, h, n)
  PROVE  HonestInv'
<1>1. UNCHANGED <<fetching, fetched, completing, queued, dropped>>
  BY DEF Notify, imports
<1>2. CASE ~Admits(p, h, n)
  BY <1>1, <1>2 DEF Notify, HonestInv, HonestNotDropped
<1>3. CASE Admits(p, h, n)
  <2> DEFINE new == [origin |-> p, number |-> n]
  <2>1. announced[h] \in Seq(Announce) /\ new \in Announce
    <3>1. announced[h] \in Seq(Announce)
      BY DEF TypeOK
    <3>2. new \in Announce
      BY FetcherAssumption, SMTT(30) DEF Announce
    <3> QED
      BY <3>1, <3>2
  <2>2. Truthful(h, new)
    BY SMTT(30) DEF Notify, Truthful
  <2>3. /\ announced'[h] = Append(announced[h], new)
        /\ \A g \in Hashes \ {h} : announced'[g] = announced[g]
    BY <1>3 DEF Notify, TypeOK
  <2> HIDE DEF new
  <2>4. ASSUME NEW i \in DOMAIN announced'[h]
        PROVE  Truthful(h, announced'[h][i])
    <3>1. \/ i \in DOMAIN announced[h] /\ announced'[h][i] = announced[h][i]
          \/ announced'[h][i] = new
      BY <2>1, <2>3, <2>4, SMTT(30)
    <3> QED
      BY <2>2, <3>1 DEF HonestInv
  <2>5. ASSUME NEW g \in Hashes
        PROVE  \A i \in DOMAIN announced'[g] : Truthful(g, announced'[g][i])
    BY <2>3, <2>4 DEF HonestInv
  <2> QED
    BY <1>1, <2>5 DEF HonestInv, HonestNotDropped
<1> QED
  BY <1>2, <1>3

(* An import blames the peer in whose name the block was queued. *)
LEMMA ImportHonest ==
  ASSUME TypeOK, HonestInv, NEW h \in Hashes, Import(h)
  PROVE  HonestInv'
<1>1. UNCHANGED <<announced, fetching, fetched, completing, queued>>
  BY DEF Import, stages
<1>2. dropped' = dropped \/ (h \in BadHeaders /\ dropped' = dropped \cup {queued[h]})
  BY DEF Import
<1>3. HonestNotDropped'
  BY <1>2 DEF HonestInv, HonestNotDropped
<1> QED
  BY <1>1, <1>3 DEF HonestInv

(* No step turns a true announcement false or blames an honest peer. *)
LEMMA NextHonest == TypeOK /\ HonestInv /\ [Next]_vars => HonestInv'
<1> SUFFICES ASSUME TypeOK, HonestInv, [Next]_vars PROVE HonestInv'
  OBVIOUS
<1>1. ASSUME UNCHANGED <<announced, fetching, fetched, completing, queued, dropped>>
      PROVE  HonestInv'
  BY <1>1 DEF HonestInv, HonestNotDropped
<1>2. CASE LoopTop
  <2>1. dropped' = dropped
    BY <1>2 DEF LoopTop
  <2>2. PICK S : forgetBlock(S)
    BY <1>2 DEF LoopTop
  <2>3. /\ announced' = Erase(announced, Expired, <<>>)
        /\ fetching' = Erase(fetching, Expired, None)
        /\ fetched' = Erase(fetched, Expired, <<>>)
        /\ completing' = Erase(completing, Expired, None)
    BY <1>2 DEF LoopTop, forgetHash
  <2> QED
    BY <2>1, <2>2, <2>3, EraseTruthful, ForgetBlockHonest DEF HonestInv, HonestNotDropped
<1>3. CASE FetchTimer
  BY <1>3, FetchTimerHonest
<1>4. CASE CompleteTimer
  BY <1>4, CompleteTimerHonest
<1>5. ASSUME NEW p \in Peers, NEW h \in Hashes, NEW n \in Claims, Notify(p, h, n)
      PROVE  HonestInv'
  BY <1>5, NotifyHonest
<1>6. ASSUME NEW p \in Peers, NEW h \in Hashes, Inject(p, h)
      PROVE  HonestInv'
  BY <1>6, InjectHonest
<1>7. ASSUME NEW p \in Peers, NEW S \in SUBSET Hashes, NEW twice \in SUBSET S,
             FilterHeaders(p, S, twice)
      PROVE  HonestInv'
  BY <1>7, FilterHeadersHonest
<1>8. ASSUME NEW p \in Peers, NEW B, FilterBodies(p, B)
      PROVE  HonestInv'
  BY <1>8, FilterBodiesHonest
<1>9. ASSUME NEW h \in Hashes, Done(h)
      PROVE  HonestInv'
  <2>1. dropped' = dropped /\ forgetBlock({h})
    BY <1>9 DEF Done
  <2>2. /\ announced' = Erase(announced, {h}, <<>>)
        /\ fetching' = Erase(fetching, {h}, None)
        /\ fetched' = Erase(fetched, {h}, <<>>)
        /\ completing' = Erase(completing, {h}, None)
    BY <1>9 DEF Done, forgetHash
  <2> QED
    BY <2>1, <2>2, EraseTruthful, ForgetBlockHonest DEF HonestInv, HonestNotDropped
<1>10. ASSUME NEW h \in Hashes, Import(h)
       PROVE  HonestInv'
  BY <1>10, ImportHonest
<1>11. ASSUME NEW h \in Hashes, OtherImport(h) \/ Age(h)
       PROVE  HonestInv'
  BY <1>1, <1>11 DEF OtherImport, Age, stages, imports
<1>12. CASE Stop \/ FilterNothing \/ UNCHANGED vars
  BY <1>1, <1>12 DEF Stop, FilterNothing, vars, stages, imports
<1> QED
  BY <1>2, <1>3, <1>4, <1>5, <1>6, <1>7, <1>8, <1>9, <1>10, <1>11, <1>12 DEF Next

(* A peer that announces and pushes only valid blocks, and those under     *)
(* their own number, is never dropped by the fetcher, whatever the others  *)
(* announce, push and deliver for the same hashes.                         *)
THEOREM FetcherHonestNotDropped == Spec => []HonestNotDropped
<1>1. Init => HonestInv
  <2>1. DOMAIN <<>> = {} /\ None \notin Honest
    BY FetcherAssumption, SMTT(30)
  <2> QED
    BY <2>1 DEF Init, HonestInv, HonestNotDropped
<1>2. TypeOK /\ HonestInv /\ [Next]_vars => HonestInv'
  BY NextHonest
<1>3. HonestInv => HonestNotDropped
  BY DEF HonestInv
<1> QED
  BY <1>1, <1>2, <1>3, FetcherTypes, PTL DEF Spec

=============================================================================
