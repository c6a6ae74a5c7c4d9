------------------------------ MODULE FastSync ------------------------------
(***************************************************************************)
(* Fast sync over the block chain: the header processor and the content    *)
(* processor of fbc/downloader/downloader.go write headers, then bodies    *)
(* and receipts up to the pivot, then its state, and import the blocks     *)
(* above it in full.  A session that fails takes back the last headers.    *)
(* The sessions of fbc/sync.go follow each other, with other peers, and    *)
(* the process may stop between any two writes.                            *)
(*                                                                         *)
(* Chunks of headers and of blocks have length one.  How parts are fetched *)
(* is in Downloader: here a header is processed at any time, and content   *)
(* follows its header.                                                     *)
(***************************************************************************)
EXTENDS BlockChain

CONSTANTS
  MinFullBlocks,   \* fsMinFullBlocks: blocks imported in full
  PivotInterval,   \* fsPivotInterval: choices for the pivot
  ForceVerify,     \* fsHeaderForceVerify: headers wanted behind the pivot
  SafetyNet        \* fsHeaderSafetyNet: headers that are taken back

ASSUME FastSyncAssumption ==
  /\ {MinFullBlocks, PivotInterval, ForceVerify, SafetyNet} \subseteq Nat \ {0}
  /\ ForceVerify <= MinFullBlocks

VARIABLE
  fs     \* [on, goal, pivot, next, got, rollback, header, done, content, latest,
         \* lock, failed]: is fast sync wanted; the head of the peer; the next header,
         \* gotHeaders and the uncertain ones; the last block; what the two processors
         \* do; is the state of the peer's head synced; fsPivotLock, fsPivotFails > 0

fastVars == <<vars, fs>>

\* The block of that number below b.
At(b, n) == CHOOSE a \in Ancestors[b] : Number[a] = n

Idle(on, lock, failed) ==
  [on |-> on, goal |-> None, pivot |-> 0, next |-> 0, got |-> FALSE,
   rollback |-> {}, header |-> "end", done |-> 0, content |-> "end", latest |-> FALSE, lock |-> lock,
   failed |-> failed]

\* A process that starts looks whether its chain is empty.
Booting == Idle(IF world.goals = {} THEN "no" ELSE "boot", None, FALSE)

FastInit == Init /\ fs = Booting

NewProtocolManager ==
  /\ fs.on = "boot" /\ pc = "free"
  /\ fs' = [fs EXCEPT !.on = IF currentBlock = Genesis THEN "yes" ELSE "no"]
  /\ UNCHANGED vars

-----------------------------------------------------------------------------
\* synchronise and syncWithPeer.

\* Faulty: the search starts at the head header.
OriginsByHeader(b) ==
  {n \in 0 .. Number[b] : n <= Number[currentHeader] /\ At(b, n) \in headers}

\* findAncestor takes a header that is known, of a number up to the head fast block;
\* which one depends on the sixteen between two that it asks for.
Origins(b) ==
  {n \in 0 .. Number[b] : n <= Number[currentFastBlock] /\ At(b, n) \in headers}

\* A random one, so that enough blocks are left, unless it is locked in.
PivotsOf(b) ==
  IF fs.lock # None THEN {Number[fs.lock]}
  ELSE {IF Number[b] > MinFullBlocks + o THEN Number[b] - MinFullBlocks - o ELSE 0 :
          o \in 0 .. PivotInterval - 1}

\* The origin is moved back below the pivot, to get its state.
Below(origin, pivot) ==
  IF pivot >= origin THEN origin ELSE IF pivot > 0 THEN pivot - 1 ELSE 0

Synchronise(b) ==
  /\ fs.goal = None /\ pc = "free"
  /\ \/ fs.on = "yes"
     \/ fs.on = "no" /\ currentBlock = Genesis /\ currentFastBlock # Genesis
  /\ Td[b] > Td[currentBlock]
  /\ \E n \in Origins(b), p \in PivotsOf(b) :
       fs' = [fs EXCEPT !.on = "yes", !.goal = b, !.pivot = p,
                        !.next = Below(n, p) + 1, !.done = Below(n, p),
                        !.header = "run", !.content = "run", !.latest = TRUE]
  /\ UNCHANGED vars

\* Fast sync is over when there is a head block; a failure with a locked pivot counts.
SessionEnds ==
  /\ fs.goal # None /\ pc = "free"
  /\ fs.header \in {"end", "error"} /\ fs.content \in {"end", "error"}
  /\ fs' = Idle(IF currentBlock = Genesis THEN "yes" ELSE "no", fs.lock,
                fs.failed \/ (fs.lock # None /\ "error" \in {fs.header, fs.content}))
  /\ UNCHANGED vars

-----------------------------------------------------------------------------
\* processHeaders: InsertHeaderChain and WriteHeader under mu.

\* The last SafetyNet of the uncertain headers.
Trimmed(S) ==
  {x \in S : Cardinality({y \in S : Number[y] > Number[x]}) < SafetyNet}

\* A header has been processed: it may be taken back, and it is scheduled, unless
\* it is at the number of a locked pivot and not the pivot.
Processed(h, unknown) ==
  [fs EXCEPT
     !.rollback = IF unknown THEN Trimmed(@ \cup {h}) ELSE @,
     !.next = @ + 1, !.got = TRUE,
     !.header = IF fs.lock # None /\ Number[h] = fs.pivot /\ h # fs.lock
                  THEN "failed" ELSE "run"]

NextHeader == At(fs.goal, fs.next)

SkipHeader ==
  /\ fs.header = "run" /\ fs.next <= Number[fs.goal] /\ NextHeader \in headers
  /\ fs' = Processed(NextHeader, FALSE)
  /\ UNCHANGED vars

\* The total difficulty is written first.
WriteHeader ==
  LET h == NextHeader IN
  /\ fs.header = "run" /\ fs.next <= Number[fs.goal] /\ h \notin headers
  /\ pc = "free" /\ job["importer"] = None
  /\ IF Parent[h] \in tds
       THEN /\ tds' = tds \cup {h} /\ pc' = "writeHeader" /\ cur' = h
            /\ canonical' \in {c \in BOOLEAN : /\ Td[h] > Td[currentHeader] => c
                                               /\ Td[h] < Td[currentHeader] => ~c}
            /\ fs' = [fs EXCEPT !.header = "write"]
       ELSE /\ fs' = [fs EXCEPT !.header = "failed"]
            /\ UNCHANGED <<tds, pc, cur, canonical>>
  /\ UNCHANGED <<headers, bodies, states, canon, headBlock, headHeader, headFast, lookup,
                 memory, job, ready, block, todo, updateHeads, unlink, rewind, world, faults>>

HeaderWritten ==
  /\ pc' = "free" /\ cur' = None /\ canonical' = FALSE /\ block' = None /\ top' = 0
  /\ fs' = Processed(cur, TRUE)

WriteHeaderContent ==
  /\ pc = "writeHeader"
  /\ headers' = headers \cup {cur}
  /\ IF canonical
       THEN /\ pc' = "headerAbove" /\ top' = Number[cur] + 1 /\ block' = Parent[cur]
            /\ UNCHANGED <<cur, canonical, fs>>
       ELSE HeaderWritten
  /\ UNCHANGED <<tds, bodies, states, canon, headBlock, headHeader, headFast, lookup, memory,
                 job, ready, todo, updateHeads, unlink, target, resetting, world, faults>>

\* The numbers above the new head lose their hashes up to the first without one,
\* those below it are given to its ancestors down to the first that is right.
HeaderNumbers ==
  /\ pc = "headerAbove"
  /\ IF top \in Numbers /\ canon[top] # None
       THEN /\ canon' = [canon EXCEPT ![top] = None] /\ top' = top + 1
            /\ UNCHANGED <<pc, block>>
       ELSE IF canon[Number[block]] # block
       THEN /\ canon' = [canon EXCEPT ![Number[block]] = block] /\ block' = Parent[block]
            /\ UNCHANGED <<pc, top>>
       ELSE /\ canon' = [canon EXCEPT ![Number[cur]] = cur] /\ pc' = "headerHead"
            /\ UNCHANGED <<block, top>>
  /\ UNCHANGED <<tds, headers, bodies, states, headBlock, headHeader, headFast, lookup, memory,
                 job, ready, canonical, todo, cur, updateHeads, unlink, target, resetting,
                 world, faults, fs>>

HeaderHead ==
  /\ pc = "headerHead"
  /\ headHeader' = cur /\ currentHeader' = cur
  /\ HeaderWritten
  /\ UNCHANGED <<tds, headers, bodies, states, canon, headBlock, headFast, lookup,
                 currentBlock, currentFastBlock, job, ready, todo, updateHeads, unlink,
                 target, resetting, world, faults>>

\* All headers came: nothing is taken back, if the peer kept its promise.
HeadersEnd ==
  /\ fs.header = "run" /\ fs.next > Number[fs.goal]
  /\ fs' = IF \/ Td[fs.goal] > Td[currentHeader]
              \/ ~fs.got /\ Td[fs.goal] > Td[currentBlock]
             THEN [fs EXCEPT !.header = "failed"]
             ELSE [fs EXCEPT !.header = "end", !.rollback = {}]
  /\ UNCHANGED vars

\* A bad header, a timeout or a cancellation.
HeadersFail ==
  /\ fs.header = "run"
  /\ fs' = [fs EXCEPT !.header = "failed"]
  /\ UNCHANGED vars

-----------------------------------------------------------------------------
\* The headers of a failed session are taken back, from the last one down.

Top(S) == CHOOSE h \in S : \A x \in S : Number[x] <= Number[h]

\* The pivot is locked in if the session had come past it.
Locked ==
  LET pivots == {h \in fs.rollback : Number[h] = fs.pivot}
  IN  IF ~fs.failed /\ Number[Top(fs.rollback)] > fs.pivot /\ pivots # {}
        THEN Top(pivots) ELSE fs.lock

Rollback ==
  /\ fs.header = "failed" /\ pc = "free"
  /\ IF fs.rollback = {}
       THEN fs' = [fs EXCEPT !.header = "error"] /\ UNCHANGED <<pc, cur, faults>>
       ELSE /\ pc' = "rollHeader" /\ cur' = Top(fs.rollback)
            /\ faults' = faults \cup {"rollback"} /\ UNCHANGED fs
  /\ UNCHANGED <<disk, memory, job, ready, block, canonical, todo, updateHeads, unlink,
                 rewind, world>>

\* A head that is taken back becomes its parent; if that is missing a nil pointer
\* is followed.
Taken(head) == head = cur
Lost(head, has) == Taken(head) /\ ~has
Back(head, key, has) == IF Taken(head) /\ has THEN Parent[cur] ELSE key

RollHeader ==
  LET has == Parent[cur] \in headers IN
  /\ pc = "rollHeader"
  /\ currentHeader' = Back(currentHeader, currentHeader, has)
  /\ headHeader' = Back(currentHeader, headHeader, has)
  /\ pc' = IF Lost(currentHeader, has) THEN "panic" ELSE "rollFast"
  /\ UNCHANGED <<tds, headers, bodies, states, canon, headBlock, headFast, lookup,
                 currentBlock, currentFastBlock, write, rewind, world, faults, fs>>

RollFast ==
  LET has == GetBlock(Parent[cur]) IN
  /\ pc = "rollFast"
  /\ currentFastBlock' = Back(currentFastBlock, currentFastBlock, has)
  /\ headFast' = Back(currentFastBlock, headFast, has)
  /\ pc' = IF Lost(currentFastBlock, has) THEN "panic" ELSE "rollBlock"
  /\ UNCHANGED <<tds, headers, bodies, states, canon, headBlock, headHeader, lookup,
                 currentBlock, currentHeader, write, rewind, world, faults, fs>>

RollBlock ==
  LET has == GetBlock(Parent[cur])
      more == {h \in fs.rollback : Number[h] < Number[cur]} IN
  /\ pc = "rollBlock"
  /\ currentBlock' = Back(currentBlock, currentBlock, has)
  /\ headBlock' = Back(currentBlock, headBlock, has)
  /\ IF Lost(currentBlock, has) THEN pc' = "panic" /\ UNCHANGED <<cur, fs>>
     ELSE IF more # {} THEN pc' = "rollHeader" /\ cur' = Top(more) /\ UNCHANGED fs
     ELSE /\ pc' = "free" /\ cur' = None
          /\ fs' = [fs EXCEPT !.header = "error", !.rollback = {}, !.lock = Locked]
  /\ UNCHANGED <<tds, headers, bodies, states, canon, headHeader, headFast, lookup,
                 currentHeader, currentFastBlock, job, ready, block, canonical, todo,
                 updateHeads, unlink, rewind, world, faults>>

-----------------------------------------------------------------------------
\* processFastSyncContent.

NextBlock == At(fs.goal, fs.done + 1)

\* A block comes after its header, the pivot after some more.
Available ==
  /\ fs.content = "run" /\ fs.done + 1 < fs.next
  /\ fs.done + 1 = fs.pivot => fs.pivot + ForceVerify < fs.next

AtPivot == Available /\ fs.done + 1 = fs.pivot

\* The state of the peer's head is synced until the pivot comes, then that of the
\* pivot.
SyncState(b) ==
  /\ fs.content = "run" /\ b \notin states
  /\ \/ b = fs.goal /\ fs.latest /\ UNCHANGED fs
     \/ AtPivot /\ b = NextBlock /\ fs' = [fs EXCEPT !.latest = FALSE]
  /\ states' = states \cup {b}
  /\ UNCHANGED <<tds, headers, bodies, canon, headBlock, headHeader, headFast, lookup,
                 memory, pc, write, rewind, world, faults>>

\* The batch with body, receipts and lookup entries, without a lock.
InsertReceiptChain ==
  /\ Available /\ fs.done + 1 <= fs.pivot
  /\ AtPivot => NextBlock \in states
  /\ IF NextBlock \in headers
       THEN /\ bodies' = bodies \cup {NextBlock}
            /\ lookup' = IF NextBlock \in bodies THEN lookup ELSE Linked(NextBlock)
            /\ fs' = [fs EXCEPT !.content = "fast", !.latest = @ /\ ~AtPivot]
       ELSE fs' = [fs EXCEPT !.content = "error"] /\ UNCHANGED <<bodies, lookup>>
  /\ UNCHANGED <<tds, headers, states, canon, headBlock, headHeader, headFast, memory, pc,
                 write, rewind, world, faults>>

\* Then, under mu, the head fast block, if there is more difficulty.
ReceiptHead ==
  LET better == NextBlock \in tds /\ Td[NextBlock] > Td[currentFastBlock] IN
  /\ fs.content = "fast" /\ pc = "free"
  /\ headFast' = IF better THEN NextBlock ELSE headFast
  /\ currentFastBlock' = IF better THEN NextBlock ELSE currentFastBlock
  /\ fs' = IF fs.done + 1 = fs.pivot THEN [fs EXCEPT !.content = "commit"]
           ELSE [fs EXCEPT !.content = "run", !.done = @ + 1]
  /\ UNCHANGED <<tds, headers, bodies, states, canon, headBlock, headHeader, lookup,
                 currentBlock, currentHeader, pc, write, rewind, world, faults>>

\* The pivot becomes the head block, in memory only.
FastSyncCommitHead ==
  /\ fs.content = "commit" /\ pc = "free"
  /\ IF HasBlockAndState(NextBlock)
       THEN /\ currentBlock' = NextBlock
            /\ fs' = [fs EXCEPT !.content = "run", !.done = @ + 1]
       ELSE fs' = [fs EXCEPT !.content = "error"] /\ UNCHANGED currentBlock
  /\ UNCHANGED <<disk, currentHeader, currentFastBlock, pc, write, rewind, world, faults>>

\* importBlockResults: InsertChain under chainmu, with its outcome.
ImportAbove ==
  LET b == NextBlock IN
  /\ Available /\ fs.done + 1 > fs.pivot
  /\ job["importer"] = None /\ pc \notin {"writeHeader", "headerAbove", "headerHead"}
  /\ job' = [job EXCEPT !["importer"] = IF Insertable(b) THEN b ELSE None]
  /\ fs' = IF HasBlockAndState(b) THEN [fs EXCEPT !.done = @ + 1]
           ELSE [fs EXCEPT !.content = IF Insertable(b) THEN "import" ELSE "error"]
  /\ UNCHANGED <<disk, memory, pc, ready, block, canonical, todo, cur, updateHeads, unlink,
                 rewind, world, faults>>

ImportEnds ==
  /\ fs.content = "import" /\ job["importer"] = None
  /\ fs' = IF HasBlockAndState(NextBlock) THEN [fs EXCEPT !.content = "run", !.done = @ + 1]
           ELSE [fs EXCEPT !.content = "error"]
  /\ UNCHANGED vars

\* All content came, or the session was cancelled.
ContentEnds ==
  /\ fs.content = "run"
  /\ fs' = [fs EXCEPT !.content = IF fs.header = "end" /\ fs.done = Number[fs.goal]
                                    THEN "end" ELSE "error"]
  /\ UNCHANGED vars

-----------------------------------------------------------------------------
\* While fast sync is wanted the fetcher imports nothing.
ChainStep ==
  /\ Next
  /\ fs.on # "no" /\ job["importer"] = None => job'["importer"] = None
  /\ fs' = IF pc # "down" /\ pc' = "down" THEN Booting ELSE fs

FastNext ==
  \/ ChainStep \/ NewProtocolManager \/ SessionEnds
  \/ \E b \in world.goals : Synchronise(b)
  \/ SkipHeader \/ WriteHeader \/ WriteHeaderContent \/ HeaderNumbers \/ HeaderHead
  \/ HeadersEnd \/ HeadersFail \/ Rollback \/ RollHeader \/ RollFast \/ RollBlock
  \/ \E b \in Blocks : SyncState(b)
  \/ InsertReceiptChain \/ ReceiptHead \/ FastSyncCommitHead
  \/ ImportAbove \/ ImportEnds \/ ContentEnds

FastSpec == FastInit /\ [][FastNext]_fastVars
=============================================================================
