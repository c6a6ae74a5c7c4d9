----------------------------- MODULE BlockChain -----------------------------
(***************************************************************************)
(* The canonical chain of a full node: core/blockchain.go with the part of *)
(* core/headerchain.go it drives.  Two writers, the block importer         *)
(* (InsertChain, serialised by chainmu) and the miner, end in              *)
(* WriteBlockAndState, which holds the mutex mu; SetHead rewinds the chain *)
(* under the same mutex.  Under mu the code issues single Puts and Deletes *)
(* and one batch; each of them is a step here, so that the process may     *)
(* stop between any two and NewBlockChain must cope with what is on disk.  *)
(*                                                                         *)
(* The blocks form a constant tree: a hash determines number, parent,      *)
(* total difficulty and transactions.  State roots differ from block to    *)
(* block.  The LRU caches are transparent.  FastSync adds the writes of a  *)
(* fast sync.                                                              *)
(***************************************************************************)
EXTENDS Naturals, FiniteSets

CONSTANTS
  Blocks, Genesis, None,
  Parent,       \* [Blocks \ {Genesis} -> Blocks]
  Number,       \* [Blocks -> Nat]
  Td,           \* total difficulty of a block, [Blocks -> Nat]
  Ancestors,    \* a block and all blocks below it, [Blocks -> SUBSET Blocks]
  TxsOf,        \* the transactions of a block, [Blocks -> SUBSET Txs]
  Txs,
  MaxNumber,    \* the highest number of a block
  Mined,        \* the blocks this node seals; the others come from peers
  Worlds        \* what may happen: the blocks that exist beside the genesis
                \* block, the heads of peers the node syncs with in fast mode,
                \* whether SetHead is called and whether the process may stop
                \* at any write

ASSUME TreeAssumption ==
  /\ Genesis \in Blocks /\ None \notin Blocks /\ IsFiniteSet(Blocks)
  /\ Parent \in [Blocks \ {Genesis} -> Blocks]
  /\ Number \in [Blocks -> 0..MaxNumber] /\ MaxNumber \in Nat
  /\ \A b \in Blocks : Number[b] = 0 <=> b = Genesis
  /\ \A b \in Blocks \ {Genesis} : Number[b] = Number[Parent[b]] + 1
  /\ Td \in [Blocks -> Nat]
  /\ \A b \in Blocks \ {Genesis} : Td[b] > Td[Parent[b]]
  /\ Ancestors = [b \in Blocks |-> {b} \cup
                    (IF b = Genesis THEN {} ELSE Ancestors[Parent[b]])]
  /\ TxsOf \in [Blocks -> SUBSET Txs]
  /\ Mined \subseteq Blocks \ {Genesis}
  /\ Worlds \subseteq [blocks : SUBSET (Blocks \ {Genesis}), goals : SUBSET Blocks,
                       rewind : BOOLEAN, crash : BOOLEAN]

\* A transaction is executed at most once on a chain.
ASSUME TxAssumption ==
  \A b \in Blocks : \A a \in Ancestors[b] \ {b} : TxsOf[a] \cap TxsOf[b] = {}

VARIABLES
  tds, headers, bodies, states,          \* what the database holds of a block
  canon,                                 \* canonical hash of a number
  headBlock, headHeader, headFast,       \* the three head keys
  lookup,                                \* block of a transaction
  currentBlock, currentHeader, currentFastBlock,
  job,                                   \* block a writer has validated
  ready,                                 \* writers that have read the parent's td
  pc,                                    \* progress of the holder of mu
  block, canonical, todo, cur, updateHeads, unlink,  \* WriteBlockAndState
  target, top, resetting,                            \* SetHead
  world, faults           \* not in the code: what may happen, what has happened

disk   == <<tds, headers, bodies, states, canon, headBlock, headHeader,
            headFast, lookup>>
memory == <<currentBlock, currentHeader, currentFastBlock>>
write  == <<job, ready, block, canonical, todo, cur, updateHeads, unlink>>
rewind == <<target, top, resetting>>
vars   == <<disk, memory, pc, write, rewind, world, faults>>

Writers == {"importer", "miner"}
Numbers == 0..MaxNumber

Steps == {"free", "reorg", "canon", "head", "header", "fast", "lookup",
          "unlink", "batch", "rewind", "rewindHeader", "rewindTd", "unnumber",
          "blocks", "rewindFast", "load", "genesis", "stuck", "down",
          "writeHeader", "headerAbove", "headerHead", "rollHeader", "rollFast",
          "rollBlock", "panic"}

-----------------------------------------------------------------------------
\* What the database answers.

GetBlock(b) == b \in headers \cap bodies

HasBlockAndState(b) == GetBlock(b) /\ b \in states

\* The writer whose block it was goes on to its next block.
ReleaseWrite ==
  /\ job' = [w \in Writers |-> IF job[w] = block THEN None ELSE job[w]]
  /\ ready' = {w \in ready : job[w] # block}
  /\ block' = None /\ canonical' = FALSE /\ todo' = {} /\ cur' = None
  /\ updateHeads' = FALSE /\ unlink' = {}

ReleaseRewind == target' = 0 /\ top' = 0 /\ resetting' = FALSE

Init ==
  /\ tds = {Genesis} /\ headers = {Genesis} /\ bodies = {Genesis}
  /\ states = {Genesis}
  /\ canon = [n \in Numbers |-> IF n = 0 THEN Genesis ELSE None]
  /\ headBlock = Genesis /\ headHeader = Genesis /\ headFast = None
  /\ lookup = [t \in Txs |-> IF t \in TxsOf[Genesis] THEN Genesis ELSE None]
  /\ currentBlock = Genesis /\ currentHeader = Genesis
  /\ currentFastBlock = Genesis
  /\ job = [w \in Writers |-> None] /\ ready = {}
  /\ pc = "free"
  /\ block = None /\ canonical = FALSE /\ todo = {} /\ cur = None
  /\ updateHeads = FALSE /\ unlink = {}
  /\ target = 0 /\ top = 0 /\ resetting = FALSE
  /\ world \in Worlds /\ faults = {}

-----------------------------------------------------------------------------
\* A writer prepares a block without holding mu.

\* ValidateBody: a block that is known with its state is ignored, one whose
\* parent is not is refused; the others are processed on the parent's state.
Insertable(b) == ~HasBlockAndState(b) /\ HasBlockAndState(Parent[b])

InsertChain(b) ==
  /\ pc # "down" /\ ~resetting
  /\ job["importer"] = None
  /\ b \notin Mined /\ Insertable(b)
  /\ job' = [job EXCEPT !["importer"] = b]
  /\ UNCHANGED <<disk, memory, pc, ready, block, canonical, todo, cur,
                 updateHeads, unlink, rewind>>

\* commitNewWork takes the head under mu; the sealed block comes back later.
Seal(b) ==
  /\ pc = "free"
  /\ job["miner"] = None
  /\ b \in Mined \ headers /\ Parent[b] = currentBlock
  /\ job' = [job EXCEPT !["miner"] = b]
  /\ UNCHANGED <<disk, memory, pc, ready, block, canonical, todo, cur,
                 updateHeads, unlink, rewind>>

\* WriteBlockAndState reads the parent's total difficulty before it locks mu.
ReadParentTd(w) ==
  /\ job[w] # None /\ w \notin ready
  /\ IF Parent[job[w]] \in tds
       THEN ready' = ready \cup {w} /\ job' = job
       ELSE ready' = ready /\ job' = [job EXCEPT ![w] = None]
  /\ UNCHANGED <<disk, memory, pc, block, canonical, todo, cur, updateHeads,
                 unlink, rewind>>

-----------------------------------------------------------------------------
\* WriteBlockAndState under mu.

\* Faulty: the longest chain wins.
ForkChoiceByNumber(b) == {Number[b] > Number[currentBlock]}

\* The outcomes of the fork choice: more total difficulty wins, then the lower
\* number, then a coin.
ForkChoice(b) ==
  {c \in BOOLEAN :
     \/ Td[b] > Td[currentBlock] /\ c
     \/ Td[b] < Td[currentBlock] /\ ~c
     \/ /\ Td[b] = Td[currentBlock]
        /\ Number[b] < Number[currentBlock] => c
        /\ Number[b] > Number[currentBlock] => ~c}

\* reorg walks both chains down to the common block.
NewChain(b) == Ancestors[b] \ Ancestors[currentBlock]
OldChain(b) == Ancestors[currentBlock] \ Ancestors[b]

Common(b) ==
  CHOOSE a \in Ancestors[b] \cap Ancestors[currentBlock] :
    \A x \in Ancestors[b] \cap Ancestors[currentBlock] : Number[x] <= Number[a]

\* The walk loads every block it visits, except its two starting points, and
\* gives up at the first that is missing.
Walkable(b) ==
  \A x \in (NewChain(b) \cup OldChain(b) \cup {Common(b)}) \ {b, currentBlock} :
    GetBlock(x)

TxsIn(S) == UNION {TxsOf[b] : b \in S}

\* Faulty: what the new chain has again is not taken out.
DroppedAll(b) == TxsIn(OldChain(b))

\* TxDifference of the transactions of the two chains.
Dropped(b) == TxsIn(OldChain(b)) \ TxsIn(NewChain(b))

\* mu is taken, the total difficulty of the block written, and the course of
\* the rest decided; a reorg that cannot be walked ends in an error.
WriteBlockAndState(w) ==
  LET b == job[w] IN
  /\ pc = "free" /\ w \in ready
  /\ tds' = tds \cup {b}
  /\ \E c \in ForkChoice(b) :
       LET reorg == c /\ Parent[b] # currentBlock IN
       IF reorg /\ ~Walkable(b)
         THEN /\ pc' = "free"
              /\ job' = [job EXCEPT ![w] = None] /\ ready' = ready \ {w}
              /\ UNCHANGED <<block, canonical, todo, cur, updateHeads, unlink>>
         ELSE /\ pc' = IF reorg THEN "reorg" ELSE "batch"
              /\ block' = b /\ canonical' = c
              /\ todo' = IF reorg THEN NewChain(b) ELSE {}
              /\ unlink' = IF reorg THEN Dropped(b) ELSE {}
              /\ UNCHANGED <<job, ready, cur, updateHeads>>
  /\ UNCHANGED <<headers, bodies, states, canon, headBlock, headHeader,
                 headFast, lookup, memory, rewind>>

\* The new chain is inserted from its head down.
NextInsert(S) == CHOOSE b \in S : \A x \in S : Number[x] <= Number[b]

ReorgNext ==
  /\ pc = "reorg"
  /\ IF todo = {} THEN pc' = "unlink" /\ cur' = cur
                  ELSE pc' = "canon" /\ cur' = NextInsert(todo)
  /\ UNCHANGED <<disk, memory, job, ready, block, canonical, todo,
                 updateHeads, unlink, rewind>>

\* insert(cur), one step for each key it writes.
InsertCanon ==
  /\ pc = "canon"
  /\ updateHeads' = (canon[Number[cur]] # cur)
  /\ canon' = [canon EXCEPT ![Number[cur]] = cur]
  /\ pc' = "head"
  /\ UNCHANGED <<tds, headers, bodies, states, headBlock, headHeader, headFast,
                 lookup, memory, job, ready, block, canonical, todo, cur,
                 unlink, rewind>>

\* After insert the reorg goes on to the lookup entries of the block, and the
\* last insert of WriteBlockAndState releases mu.
Inserted ==
  IF cur \in todo
    THEN pc' = "lookup" /\ UNCHANGED write
    ELSE pc' = "free" /\ ReleaseWrite

InsertHead ==
  /\ pc = "head"
  /\ headBlock' = cur /\ currentBlock' = cur
  /\ IF updateHeads THEN pc' = "header" /\ UNCHANGED write ELSE Inserted
  /\ UNCHANGED <<tds, headers, bodies, states, canon, headHeader, headFast,
                 lookup, currentHeader, currentFastBlock, rewind>>

InsertHeader ==
  /\ pc = "header"
  /\ headHeader' = cur /\ currentHeader' = cur
  /\ pc' = "fast"
  /\ UNCHANGED <<tds, headers, bodies, states, canon, headBlock, headFast,
                 lookup, currentBlock, currentFastBlock, write, rewind>>

InsertFast ==
  /\ pc = "fast"
  /\ headFast' = cur /\ currentFastBlock' = cur
  /\ Inserted
  /\ UNCHANGED <<tds, headers, bodies, states, canon, headBlock, headHeader,
                 lookup, currentBlock, currentHeader, rewind>>

\* WriteTxLookupEntries points the transactions of a block to it.
Linked(b) == [t \in Txs |-> IF t \in TxsOf[b] THEN b ELSE lookup[t]]

ReorgLookup ==
  /\ pc = "lookup"
  /\ lookup' = Linked(cur)
  /\ todo' = todo \ {cur} /\ pc' = "reorg"
  /\ UNCHANGED <<tds, headers, bodies, states, canon, headBlock, headHeader,
                 headFast, memory, job, ready, block, canonical, cur,
                 updateHeads, unlink, rewind>>

\* The transactions only the old chain has lose their entries.
ReorgUnlink ==
  /\ pc = "unlink"
  /\ IF unlink = {}
       THEN pc' = "batch" /\ UNCHANGED <<lookup, unlink>>
       ELSE \E t \in unlink : /\ lookup' = [lookup EXCEPT ![t] = None]
                              /\ unlink' = unlink \ {t} /\ pc' = pc
  /\ UNCHANGED <<tds, headers, bodies, states, canon, headBlock, headHeader,
                 headFast, memory, job, ready, block, canonical, todo, cur,
                 updateHeads, rewind>>

\* batch.Write: header, body, receipts, state and, for a canonical block, its
\* lookup entries in one atomic write.
WriteBatch ==
  /\ pc = "batch"
  /\ headers' = headers \cup {block} /\ bodies' = bodies \cup {block}
  /\ states' = states \cup {block}
  /\ lookup' = IF canonical THEN Linked(block) ELSE lookup
  /\ IF canonical
       THEN /\ pc' = "canon" /\ cur' = block
            /\ UNCHANGED <<job, ready, block, canonical, todo, updateHeads,
                           unlink>>
       ELSE pc' = "free" /\ ReleaseWrite
  /\ UNCHANGED <<tds, canon, headBlock, headHeader, headFast, memory, rewind>>

-----------------------------------------------------------------------------
\* SetHead under mu.

SetHead(n) ==
  /\ world.rewind /\ pc = "free"
  /\ target' = n /\ top' = Number[currentHeader] /\ pc' = "rewind"
  /\ faults' = faults \cup {"rewind"}
  /\ UNCHANGED <<disk, memory, write, resetting>>

\* HeaderChain.SetHead deletes body, header and total difficulty of the head
\* header and moves on to its parent, if the database has it.
Above == currentHeader # None /\ Number[currentHeader] > target

RewindBody ==
  /\ pc = "rewind"
  /\ IF Above THEN bodies' = bodies \ {currentHeader} /\ pc' = "rewindHeader"
              ELSE bodies' = bodies /\ pc' = "unnumber"
  /\ UNCHANGED <<tds, headers, states, canon, headBlock, headHeader, headFast,
                 lookup, memory, write, rewind>>

RewindHeader ==
  /\ pc = "rewindHeader"
  /\ headers' = headers \ {currentHeader} /\ pc' = "rewindTd"
  /\ UNCHANGED <<tds, bodies, states, canon, headBlock, headHeader, headFast,
                 lookup, memory, write, rewind>>

RewindTd ==
  /\ pc = "rewindTd"
  /\ tds' = tds \ {currentHeader}
  /\ currentHeader' = IF Parent[currentHeader] \in headers
                        THEN Parent[currentHeader] ELSE None
  /\ pc' = "rewind"
  /\ UNCHANGED <<headers, bodies, states, canon, headBlock, headHeader,
                 headFast, lookup, currentBlock, currentFastBlock, write,
                 rewind>>

\* Faulty: the number of the new head is deleted too.
NumberedOneMore == top >= target /\ top > 0

\* Numbers still to delete.
Numbered == top > target

\* The canonical numbers above the target are deleted, from the number the
\* head header had; then the head header is written.
Unnumber ==
  /\ pc = "unnumber"
  /\ IF Numbered
       THEN /\ canon' = [canon EXCEPT ![top] = None] /\ top' = top - 1
            /\ UNCHANGED <<pc, headHeader, currentHeader>>
       ELSE /\ currentHeader' = IF currentHeader = None THEN Genesis
                                                        ELSE currentHeader
            /\ headHeader' = currentHeader' /\ pc' = "blocks"
            /\ UNCHANGED <<canon, top>>
  /\ UNCHANGED <<tds, headers, bodies, states, headBlock, headFast, lookup,
                 currentBlock, currentFastBlock, write, target, resetting>>

\* Faulty: the head is left where it was.
RewoundNever(h) == h

\* A head above the head header becomes the block of the head header.
Rewound(h) ==
  IF h # None /\ Number[currentHeader] < Number[h]
    THEN IF GetBlock(currentHeader) THEN currentHeader ELSE None
    ELSE h

OrGenesis(h) == IF h = None THEN Genesis ELSE h

RewindBlocks ==
  LET b == Rewound(currentBlock) IN
  /\ pc = "blocks"
  /\ currentBlock' = IF b \in states THEN b ELSE Genesis
  /\ currentFastBlock' = OrGenesis(Rewound(currentFastBlock))
  /\ headBlock' = currentBlock'
  /\ pc' = "rewindFast"
  /\ UNCHANGED <<tds, headers, bodies, states, canon, headHeader, headFast,
                 lookup, currentHeader, write, rewind>>

RewindFast ==
  /\ pc = "rewindFast"
  /\ headFast' = currentFastBlock /\ pc' = "load"
  /\ UNCHANGED <<tds, headers, bodies, states, canon, headBlock, headHeader,
                 lookup, memory, write, rewind>>

-----------------------------------------------------------------------------
\* Loading the chain, at the end of SetHead and when the process starts.

\* Faulty: only the header of the head block is looked for.
UsableByHeader(b) == b \in headers

\* loadLastState needs the head block with its body and its state.
Usable(b) == HasBlockAndState(b)

LoadHeads ==
  /\ currentBlock' = headBlock
  /\ currentHeader' = IF headHeader \in headers THEN headHeader ELSE headBlock
  /\ headHeader' = currentHeader'
  /\ currentFastBlock' = IF GetBlock(headFast) THEN headFast ELSE headBlock

\* Otherwise it calls Reset, which locks mu: SetHead, which holds mu, would
\* wait for itself.
LoadLastState ==
  /\ pc = "load"
  /\ IF Usable(headBlock)
       THEN /\ LoadHeads
            /\ IF resetting THEN pc' = "genesis" /\ UNCHANGED rewind
                            ELSE pc' = "free" /\ ReleaseRewind
       ELSE pc' = "stuck" /\ UNCHANGED <<memory, headHeader, rewind>>
  /\ UNCHANGED <<tds, headers, bodies, states, canon, headBlock, headFast,
                 lookup, write>>

\* ResetWithGenesisBlock after its SetHead(0).
ResetWithGenesisBlock ==
  /\ pc = "genesis"
  /\ tds' = tds \cup {Genesis} /\ headers' = headers \cup {Genesis}
  /\ bodies' = bodies \cup {Genesis}
  /\ canon' = [canon EXCEPT ![0] = Genesis]
  /\ headFast' = IF canon[0] = Genesis THEN headFast ELSE Genesis
  /\ headBlock' = Genesis /\ headHeader' = Genesis
  /\ currentBlock' = Genesis /\ currentHeader' = Genesis
  /\ currentFastBlock' = Genesis
  /\ pc' = "free" /\ ReleaseRewind
  /\ UNCHANGED <<states, lookup, write>>

\* The process stops, between any two writes.
Crash ==
  /\ world.crash /\ pc # "down"
  /\ currentBlock' = None /\ currentHeader' = None /\ currentFastBlock' = None
  /\ job' = [w \in Writers |-> None] /\ ready' = {}
  /\ block' = None /\ canonical' = FALSE /\ todo' = {} /\ cur' = None
  /\ updateHeads' = FALSE /\ unlink' = {}
  /\ pc' = "down" /\ ReleaseRewind
  /\ faults' = (faults \ {"rollback"}) \cup {"crash"}
  /\ UNCHANGED disk

\* NewHeaderChain and loadLastState: a head block that is not complete starts
\* Reset, whose SetHead(0) runs from the header of the head block, if any.
NewBlockChain ==
  /\ pc = "down"
  /\ IF Usable(headBlock)
       THEN LoadHeads /\ pc' = "free" /\ UNCHANGED <<rewind, faults>>
       ELSE /\ faults' = faults \cup {"reset"}
            /\ currentHeader' = IF headBlock \in headers THEN headBlock
                                                         ELSE Genesis
            /\ top' = Number[currentHeader'] /\ target' = 0
            /\ resetting' = TRUE /\ pc' = "rewind"
            /\ UNCHANGED <<headHeader, currentBlock, currentFastBlock>>
  /\ UNCHANGED <<tds, headers, bodies, states, canon, headBlock, headFast,
                 lookup, write>>

Step ==
  \/ \E b \in world.blocks : InsertChain(b) \/ Seal(b)
  \/ \E w \in Writers : ReadParentTd(w) \/ WriteBlockAndState(w)
  \/ ReorgNext \/ InsertCanon \/ InsertHead \/ InsertHeader \/ InsertFast
  \/ ReorgLookup \/ ReorgUnlink \/ WriteBatch
  \/ RewindBody \/ RewindHeader \/ RewindTd \/ Unnumber \/ RewindBlocks
  \/ RewindFast \/ LoadLastState \/ ResetWithGenesisBlock

Next ==
  /\ \/ Step /\ UNCHANGED faults
     \/ \E n \in Numbers : SetHead(n)
     \/ Crash \/ NewBlockChain
  /\ UNCHANGED world

Spec == Init /\ [][Next]_vars

-----------------------------------------------------------------------------
\* Properties.  mu protects them: they are claims about the moments it is free.

\* Every variable keeps its type, and no head is nil when it is used.
TypeOK ==
  /\ tds \subseteq Blocks /\ headers \subseteq Blocks
  /\ bodies \subseteq Blocks /\ states \subseteq Blocks
  /\ canon \in [Numbers -> Blocks \cup {None}]
  /\ headBlock \in Blocks /\ headHeader \in Blocks
  /\ headFast \in Blocks \cup {None}
  /\ lookup \in [Txs -> Blocks \cup {None}]
  /\ currentBlock \in Blocks \cup {None}
  /\ currentHeader \in Blocks \cup {None}
  /\ currentFastBlock \in Blocks \cup {None}
  /\ job \in [Writers -> (Blocks \ {Genesis}) \cup {None}]
  /\ ready \subseteq Writers
  /\ pc \in Steps
  /\ pc \in {"free", "rewindFast"} =>
       {currentBlock, currentHeader, currentFastBlock} \subseteq Blocks
  /\ block \in Blocks \cup {None} /\ canonical \in BOOLEAN
  /\ todo \subseteq Blocks /\ cur \in Blocks \cup {None}
  /\ updateHeads \in BOOLEAN /\ unlink \subseteq Txs
  /\ target \in Numbers /\ top \in 0..MaxNumber + 1 /\ resetting \in BOOLEAN
  /\ world \in Worlds
  /\ faults \subseteq {"rewind", "crash", "reset", "rollback"}

\* Does the node sync in fast mode, and are its peers on one branch?
Full == world.goals = {}
OneBranch == \A x, y \in world.goals : x \in Ancestors[y] \/ y \in Ancestors[x]

\* Whatever was interrupted, rewound, reset or taken back before, the heads the
\* node runs on are blocks and headers it has, with total difficulty, and the
\* head block is the one the disk names and has its state.  (FastSyncCommitHead
\* writes nothing, and Rollback may leave a head without state until the next
\* start.)
HeadComplete ==
  /\ TypeOK
  /\ pc = "free" => /\ GetBlock(currentBlock) /\ currentBlock \in tds
                    /\ currentHeader \in headers /\ currentHeader \in tds
                    /\ GetBlock(currentFastBlock) /\ currentFastBlock \in tds
                    /\ headHeader = currentHeader
                    /\ Full => headBlock = currentBlock
                    /\ "rollback" \notin faults => currentBlock \in states

\* The numbers up to a head name one chain that ends in the head.
CanonicalTo(h) ==
  /\ canon[Number[h]] = h
  /\ \A n \in 1..Number[h] : canon[n] # None /\ Parent[canon[n]] = canon[n - 1]

\* In a process that was rewound, at any time, and never stopped, reorg, insert
\* and WriteHeader leave no number behind on the chain that was abandoned.  In
\* fast mode it is the chain of the head header.
CanonicalUntilCrash ==
  pc = "free" /\ "crash" \notin faults /\ OneBranch =>
    CanonicalTo(IF Full THEN currentBlock ELSE currentHeader)

\* Of all blocks imported, by either writer, none has more total difficulty
\* than the head, although the fork choice compares with the head it finds
\* after the lock and with a parent difficulty read before it.  SetHead
\* forgets on purpose, a stop may come between the block and the head.
HeaviestHead ==
  pc = "free" /\ faults = {} /\ Full =>
    \A b \in Blocks : HasBlockAndState(b) => Td[b] <= Td[currentBlock]

\* A transaction has a lookup entry exactly if it is on the canonical chain,
\* and the entry names its block there: reorg moves and deletes entries one by
\* one.  (SetHead leaves the entries of what it removes.)
LookupCanonical ==
  pc = "free" /\ faults = {} /\ Full =>
    \A t \in Txs :
      IF \E b \in Ancestors[currentBlock] : t \in TxsOf[b]
        THEN lookup[t] \in Ancestors[currentBlock] /\ t \in TxsOf[lookup[t]]
        ELSE lookup[t] = None

\* As long as nothing was rewound every block on disk has its ancestors on
\* disk, wherever the process stopped, so a reorg can always walk.  In fast mode
\* this goes for headers, until a start resets the chain, and for bodies as long
\* as the peers are on one branch.
DatabaseClosed ==
  "rewind" \notin faults =>
    IF Full THEN \A b \in headers : b \in tds /\ \A a \in Ancestors[b] : HasBlockAndState(a)
    ELSE "reset" \notin faults =>
           /\ \A b \in headers : b \in tds /\ Ancestors[b] \subseteq headers
           /\ OneBranch => \A b \in bodies : Ancestors[b] \subseteq bodies

\* SetHead never finds its own new head unusable, in which case it would wait
\* for the mutex it holds; and with peers on one branch Rollback always finds the
\* parent that becomes a head.
NeverStuck == pc # "stuck" /\ (OneBranch => pc # "panic")

=============================================================================
