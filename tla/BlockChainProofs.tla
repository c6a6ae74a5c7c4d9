-------------------------- MODULE BlockChainProofs --------------------------
(***************************************************************************)
(* The chain of a full node for any tree of blocks, with two writers,      *)
(* SetHead, stops of the process between any two writes and restarts: the  *)
(* heads are usable (HeadComplete, NeverStuck), the database is closed     *)
(* (DatabaseClosed) and the head is the heaviest (HeaviestHead).  The      *)
(* inductive invariant of the heads is ChainInv; the steps that write      *)
(* blocks come first, then SetHead, the stop and the restart.              *)
(***************************************************************************)
EXTENDS BlockChain, WellFoundedInduction, TLAPS

\* The prover of a leaf that names no other one.
USE ZenonT(60)

Writing == {"reorg", "canon", "head", "header", "fast", "lookup", "unlink", "batch"}
Rewinding == {"rewind", "rewindHeader", "rewindTd", "unnumber", "blocks", "rewindFast",
              "load", "genesis"}
Heads == {currentBlock, currentHeader, currentFastBlock}

(* TypeOK in parts. *)
DiskType ==
  /\ tds \subseteq Blocks /\ headers \subseteq Blocks /\ bodies \subseteq Blocks
  /\ states \subseteq Blocks /\ canon \in [Numbers -> Blocks \cup {None}]
  /\ headBlock \in Blocks /\ headHeader \in Blocks /\ headFast \in Blocks \cup {None}
  /\ lookup \in [Txs -> Blocks \cup {None}]

HeadType ==
  /\ currentBlock \in Blocks \cup {None} /\ currentHeader \in Blocks \cup {None}
  /\ currentFastBlock \in Blocks \cup {None}
  /\ pc \in {"free", "rewindFast"} => Heads \subseteq Blocks

JobType ==
  /\ job \in [Writers -> (Blocks \ {Genesis}) \cup {None}] /\ ready \subseteq Writers
  /\ \A w \in ready : job[w] # None

WriteType ==
  /\ block \in Blocks \cup {None} /\ canonical \in BOOLEAN
  /\ todo \subseteq Blocks /\ cur \in Blocks \cup {None}
  /\ updateHeads \in BOOLEAN /\ unlink \subseteq Txs

RewindType ==
  /\ target \in Numbers /\ top \in Numbers /\ resetting \in BOOLEAN
  /\ world \in Worlds /\ faults \subseteq {"rewind", "crash", "reset", "rollback"}

(* A block or a header is on disk only with what was written before it and *)
(* is deleted after it.                                                    *)
DiskInv ==
  /\ pc \in Writing \cup Rewinding \cup {"free", "down"}
  /\ Genesis \in bodies /\ Genesis \in states
  /\ bodies \subseteq headers /\ headers \subseteq tds
  /\ pc = "rewindHeader" => currentHeader \in Blocks \ (bodies \cup {Genesis})
  /\ pc = "rewindTd" => currentHeader \in Blocks \ headers

(* During a write: the block may be a head before it is on disk, which     *)
(* only the batch changes.                                                 *)
WriteInv ==
  pc \in Writing =>
       /\ block \in tds \ {Genesis} /\ todo \subseteq bodies \cup {block}
       /\ headBlock = currentBlock /\ headHeader = currentHeader
       /\ currentBlock \in Blocks /\ currentHeader \in headers \cup {block}
       /\ currentFastBlock \in bodies \cup {block}
       /\ canonical \/ (pc = "batch" /\ currentBlock \in bodies \cap states)
       /\ pc \in {"unlink", "batch"} => todo = {}
       /\ pc \in {"canon", "head", "header", "fast"} =>
            cur \in todo \/ (cur = block /\ todo = {} /\ block \in bodies \cap states)
       /\ pc = "lookup" => cur \in todo
       /\ pc \in {"header", "fast"} => currentBlock = cur

FreeInv ==
  pc = "free" => /\ headBlock = currentBlock /\ headHeader = currentHeader
                 /\ currentBlock \in bodies \cap states
                 /\ currentHeader \in headers /\ currentFastBlock \in bodies

(* During SetHead: what was deleted lies above the head header. *)
RewindInv ==
  /\ pc = "down" => currentBlock = None
  /\ pc \in {"rewind", "rewindHeader", "rewindTd", "unnumber", "blocks"} =>
       currentBlock \in states \cup {None}
  /\ pc \in {"rewind", "unnumber"} =>
       /\ currentHeader \in headers \cup {None}
       /\ \/ currentBlock \in bodies \cup {None} \/ currentHeader = None
          \/ Number[currentBlock] > Number[currentHeader]
  /\ pc \in {"rewindHeader", "rewindTd"} =>
       currentBlock \in bodies \cup {None} \/ Number[currentBlock] >= Number[currentHeader]
  /\ pc = "blocks" =>
       /\ currentHeader \in headers
       /\ currentBlock \in bodies \cup {None} \/ Number[currentBlock] > Number[currentHeader]
  /\ pc = "rewindFast" => currentHeader \in headers
  /\ pc \in {"rewindFast", "load"} => headBlock \in bodies \cap states

(* The inductive invariant for the heads. *)
ChainInv ==
  /\ DiskType /\ HeadType /\ JobType /\ WriteType /\ RewindType
  /\ DiskInv /\ WriteInv /\ FreeInv /\ RewindInv

-----------------------------------------------------------------------------
(* Every non-empty set of numbers has a least one: the one induction the   *)
(* proofs use.                                                             *)
LEMMA LeastNumber ==
  ASSUME NEW T \in SUBSET Nat, T # {}
  PROVE  \E n \in T : \A m \in T : n <= m
<1> DEFINE R == OpToRel(<, Nat)
<1>1. IsWellFoundedOn(R, Nat)
  BY NatLessThanWellFounded
<1>2. PICK n \in T : \A m \in T : ~(<<m, n>> \in R)
  <2> HIDE DEF R
  <2> QED BY <1>1, WFMin
<1>3. \A m, k \in Nat : m < k => <<m, k>> \in R
  BY DEF OpToRel
<1> HIDE DEF R
<1>4. \A m \in T : m \in Nat /\ n \in Nat /\ ~(m < n)
  BY <1>2, <1>3
<1>5. \A m, k \in Nat : ~(m < k) => k <= m
  BY SMTT(30)
<1> QED
  BY <1>4, <1>5

(* So a set of blocks has a highest one, and that is what the reorg        *)
(* inserts next.                                                           *)
LEMMA NextInsertIn ==
  ASSUME NEW S \in SUBSET Blocks, S # {}
  PROVE  /\ NextInsert(S) \in S
         /\ \A x \in S : Number[x] <= Number[NextInsert(S)]
<1> DEFINE T == {MaxNumber - Number[x] : x \in S}
<1>1. \A x \in S : Number[x] \in Nat /\ MaxNumber - Number[x] \in Nat
  BY TreeAssumption, SMTT(30)
<1>2. T \in SUBSET Nat /\ T # {}
  BY <1>1
<1>3. PICK n \in T : \A m \in T : n <= m
  <2> HIDE DEF T
  <2> QED BY <1>2, LeastNumber
<1>4. PICK b \in S : n = MaxNumber - Number[b]
  OBVIOUS
<1>5. ASSUME NEW x \in S PROVE Number[x] <= Number[b]
  <2>1. MaxNumber - Number[b] <= MaxNumber - Number[x]
    BY <1>3, <1>4
  <2>2. MaxNumber \in Nat
    BY TreeAssumption
  <2> QED BY <1>1, <2>1, <2>2, SMTT(30)
<1> QED
  BY <1>5 DEF NextInsert

-----------------------------------------------------------------------------
(* A writer that prepares a block, InsertChain or the miner, preserves     *)
(* ChainInv.                                                               *)
LEMMA InsertChainInv ==
  ASSUME ChainInv, NEW b \in world.blocks, InsertChain(b) \/ Seal(b), UNCHANGED <<world, faults>>
  PROVE  ChainInv'
<1>1. b \in Blocks \ {Genesis}
  BY TreeAssumption DEF ChainInv, RewindType
<1>2. JobType'
  <2>1. JobType
    BY DEF ChainInv
  <2>2. ready' = ready /\ \E w \in Writers : job' = [job EXCEPT ![w] = b]
    BY DEF InsertChain, Seal, Writers
  <2>3. b # None
    BY <1>1, TreeAssumption
  <2> QED BY <1>1, <2>1, <2>2, <2>3, SMTT(30) DEF JobType
<1>3. DiskType' /\ HeadType' /\ WriteType' /\ RewindType'
  BY DEF ChainInv, DiskType, HeadType, Heads, WriteType, RewindType, InsertChain, Seal, disk,
         memory, rewind
<1>4. DiskInv' /\ WriteInv' /\ FreeInv' /\ RewindInv'
  BY SMTT(30) DEF ChainInv, DiskInv, WriteInv, FreeInv, RewindInv, InsertChain, Seal, disk, memory
<1> QED
  BY <1>2, <1>3, <1>4 DEF ChainInv

(* So does a writer that reads the total difficulty of the parent, before  *)
(* it takes mu.                                                            *)
LEMMA ReadParentTdInv ==
  ASSUME ChainInv, NEW w \in Writers, ReadParentTd(w), UNCHANGED <<world, faults>>
  PROVE  ChainInv'
<1>1. JobType'
  <2>1. /\ job \in [Writers -> (Blocks \ {Genesis}) \cup {None}] /\ ready \subseteq Writers
        /\ \A v \in ready : job[v] # None
        /\ job[w] # None /\ w \notin ready
    BY DEF ChainInv, JobType, ReadParentTd
  <2>2. CASE ready' = ready \cup {w} /\ job' = job
    BY <2>1, <2>2 DEF JobType
  <2>3. CASE ready' = ready /\ job' = [job EXCEPT ![w] = None]
    BY <2>1, <2>3 DEF JobType
  <2> QED BY <2>2, <2>3 DEF ReadParentTd
<1>2. DiskType' /\ HeadType' /\ WriteType' /\ RewindType'
  BY DEF ChainInv, DiskType, HeadType, Heads, WriteType, RewindType, ReadParentTd, disk,
         memory, rewind
<1>3. DiskInv' /\ WriteInv' /\ FreeInv' /\ RewindInv'
  BY SMTT(30) DEF ChainInv, DiskInv, WriteInv, FreeInv, RewindInv, ReadParentTd, disk, memory
<1> QED
  BY <1>1, <1>2, <1>3 DEF ChainInv

(* mu is taken: what the reorg will insert is on disk, but for the block.  *)
LEMMA WriteBlockAndStateInv ==
  ASSUME ChainInv, NEW w \in Writers, WriteBlockAndState(w), UNCHANGED <<world, faults>>
  PROVE  ChainInv'
<1> DEFINE b == job[w]
<1>1. /\ pc = "free" /\ b \in Blocks \ {Genesis} /\ tds' = tds \cup {b}
      /\ UNCHANGED <<headers, bodies, states, canon, headBlock, headHeader,
                     headFast, lookup, memory, rewind, cur, updateHeads>>
  BY DEF ChainInv, JobType, WriteBlockAndState
<1>2. /\ headBlock = currentBlock /\ headHeader = currentHeader
      /\ currentBlock \in bodies \cap states /\ currentHeader \in headers
      /\ currentFastBlock \in bodies /\ bodies \subseteq headers /\ headers \subseteq tds
      /\ headers \subseteq Blocks
  BY <1>1 DEF ChainInv, FreeInv, DiskInv, DiskType
<1>3. DiskType'
  BY <1>1 DEF ChainInv, DiskType
<1>4. RewindType'
  BY <1>1 DEF ChainInv, RewindType, rewind
<1>5. CASE /\ pc' = "free" /\ job' = [job EXCEPT ![w] = None] /\ ready' = ready \ {w}
           /\ UNCHANGED <<block, canonical, todo, unlink>>
  <2>1. JobType'
    BY <1>5 DEF ChainInv, JobType
  <2>2. HeadType' /\ WriteType'
    BY <1>1, <1>5 DEF ChainInv, HeadType, Heads, WriteType, memory
  <2>3. DiskInv' /\ WriteInv' /\ FreeInv' /\ RewindInv'
    BY <1>1, <1>2, <1>5 DEF ChainInv, DiskInv, WriteInv, FreeInv, RewindInv, memory, Writing
  <2> QED BY <1>3, <1>4, <2>1, <2>2, <2>3 DEF ChainInv
<1>6. CASE \E c \in BOOLEAN :
             LET reorg == c /\ Parent[b] # currentBlock IN
             /\ reorg => Walkable(b)
             /\ pc' = IF reorg THEN "reorg" ELSE "batch"
             /\ block' = b /\ canonical' = c
             /\ todo' = IF reorg THEN NewChain(b) ELSE {}
             /\ unlink' = IF reorg THEN Dropped(b) ELSE {}
             /\ UNCHANGED <<job, ready>>
  <2>1. PICK c \in BOOLEAN :
             LET reorg == c /\ Parent[b] # currentBlock IN
             /\ reorg => Walkable(b)
             /\ pc' = IF reorg THEN "reorg" ELSE "batch"
             /\ block' = b /\ canonical' = c
             /\ todo' = IF reorg THEN NewChain(b) ELSE {}
             /\ unlink' = IF reorg THEN Dropped(b) ELSE {}
             /\ UNCHANGED <<job, ready>>
    BY <1>6
  <2>2. /\ pc' \in {"reorg", "batch"} /\ block' = b /\ canonical' \in BOOLEAN
        /\ pc' = "batch" => todo' = {}
        /\ pc' = "reorg" => canonical'
        /\ UNCHANGED <<job, ready>>
    BY <2>1
  <2>3. todo' \subseteq bodies \cup {b} /\ unlink' \subseteq Txs
    <3>1. CASE Walkable(b)
      <4>1. NewChain(b) \subseteq bodies \cup {b} /\ OldChain(b) \subseteq Blocks
        BY <1>1, <1>2, <3>1 DEF Walkable, GetBlock
      <4>2. Dropped(b) \subseteq Txs
        BY <4>1, TreeAssumption, SMTT(30) DEF Dropped, TxsIn
      <4> QED BY <2>1, <4>1, <4>2
    <3>2. CASE ~Walkable(b)
      BY <2>1, <3>2
    <3> QED BY <3>1, <3>2
  <2>4. JobType'
    BY <2>2 DEF ChainInv, JobType
  <2>5. HeadType'
    BY <1>1, <2>2 DEF ChainInv, HeadType, memory
  <2>6. WriteType'
    BY <1>1, <1>2, <2>2, <2>3 DEF ChainInv, WriteType
  <2> HIDE DEF b
  <2>7. DiskInv' /\ FreeInv' /\ RewindInv'
    BY <1>1, <1>2, <2>2 DEF ChainInv, DiskInv, FreeInv, RewindInv, Writing, Rewinding
  <2>8. WriteInv'
    BY <1>1, <1>2, <2>2, <2>3 DEF WriteInv, memory
  <2> QED BY <1>3, <1>4, <2>4, <2>5, <2>6, <2>7, <2>8 DEF ChainInv
<1>7. \A c \in ForkChoice(b) : c \in BOOLEAN
  BY DEF ForkChoice
<1> QED
  BY <1>5, <1>6, <1>7 DEF WriteBlockAndState

-----------------------------------------------------------------------------
(* What a step of reorg and insert finds under mu. *)
LEMMA WritingFacts ==
  ASSUME ChainInv, pc \in Writing
  PROVE  /\ block \in Blocks \ {Genesis} /\ block \in tds /\ todo \subseteq bodies \cup {block}
         /\ todo \subseteq Blocks /\ bodies \subseteq headers /\ headers \subseteq tds
         /\ Genesis \in bodies /\ Genesis \in states
         /\ headBlock = currentBlock /\ headHeader = currentHeader
         /\ currentBlock \in Blocks /\ currentHeader \in headers \cup {block}
         /\ currentFastBlock \in bodies \cup {block}
         /\ canonical \/ (pc = "batch" /\ currentBlock \in bodies \cap states)
         /\ canonical \in BOOLEAN
BY DEF ChainInv, WriteInv, DiskInv, DiskType, WriteType

(* What a step of insert finds: cur is next in the new chain, or it is the *)
(* complete block at the end.                                              *)
LEMMA CurFacts ==
  ASSUME ChainInv, pc \in {"canon", "head", "header", "fast"}
  PROVE  /\ cur \in Blocks /\ cur \in bodies \cup {block} /\ canonical
         /\ cur \in todo \/ (cur = block /\ todo = {} /\ block \in bodies \cap states)
         /\ pc \in {"header", "fast"} => currentBlock = cur
BY DEF ChainInv, WriteInv, WriteType, DiskType, Writing

(* reorg turns to the next block of the new chain, or to the entries of    *)
(* the old one.                                                            *)
LEMMA ReorgNextInv ==
  ASSUME ChainInv, ReorgNext, UNCHANGED <<world, faults>>
  PROVE  ChainInv'
<1>1. pc = "reorg" /\ pc' \in {"unlink", "canon"} /\ pc \in Writing
  BY DEF ReorgNext, Writing
<1>2. /\ pc' = "unlink" => todo = {} /\ cur' = cur
      /\ pc' = "canon" => cur' \in todo
  BY NextInsertIn DEF ReorgNext, ChainInv, WriteType
<1>3. DiskType' /\ JobType' /\ RewindType'
  BY DEF ChainInv, DiskType, JobType, RewindType, ReorgNext, disk, rewind
<1>4. HeadType' /\ DiskInv' /\ FreeInv' /\ RewindInv'
  BY <1>1 DEF ChainInv, HeadType, DiskInv, FreeInv, RewindInv, ReorgNext, disk, memory, Writing
<1>5. WriteType'
  BY <1>1, <1>2 DEF ChainInv, WriteType, ReorgNext
<1>6. WriteInv'
  BY <1>1, <1>2 DEF ChainInv, WriteInv, ReorgNext, disk, memory, Writing
<1> QED
  BY <1>3, <1>4, <1>5, <1>6 DEF ChainInv

(* insert writes the canonical number. *)
LEMMA InsertCanonInv ==
  ASSUME ChainInv, InsertCanon, UNCHANGED <<world, faults>>
  PROVE  ChainInv'
<1>1. pc = "canon" /\ pc' = "head" /\ pc \in Writing /\ cur \in Blocks
  BY CurFacts DEF InsertCanon, Writing
<1>2. JobType' /\ RewindType'
  BY DEF ChainInv, JobType, RewindType, InsertCanon, rewind
<1>3. DiskType' /\ WriteType'
  BY <1>1, TreeAssumption DEF ChainInv, DiskType, WriteType, InsertCanon, Numbers
<1>4. HeadType' /\ DiskInv' /\ FreeInv' /\ RewindInv'
  BY <1>1 DEF ChainInv, HeadType, DiskInv, FreeInv, RewindInv, InsertCanon, memory, Writing
<1>5. WriteInv'
  BY <1>1 DEF ChainInv, WriteInv, InsertCanon, memory, Writing
<1> QED
  BY <1>2, <1>3, <1>4, <1>5 DEF ChainInv

(* The end of insert, with cur as the head block: the reorg goes on, or mu *)
(* is free and the block is complete.                                      *)
LEMMA InsertedInv ==
  ASSUME ChainInv, Inserted, pc \in {"head", "fast"},
         UNCHANGED <<world, faults, rewind, tds, headers, bodies, states, canon, lookup>>,
         UNCHANGED <<headHeader, currentHeader>>, headBlock' = cur, currentBlock' = cur,
         \/ UNCHANGED <<headFast, currentFastBlock>>
         \/ headFast' = cur /\ currentFastBlock' = cur
  PROVE  ChainInv'
<1>1. pc \in Writing /\ pc \in {"canon", "head", "header", "fast"}
  BY DEF Writing
<1>2. DiskType' /\ RewindType'
  BY <1>1, CurFacts DEF ChainInv, DiskType, RewindType, rewind
<1>3. CASE cur \in todo
  <2>1. pc' = "lookup" /\ UNCHANGED write
    BY <1>3 DEF Inserted
  <2>2. JobType' /\ WriteType' /\ HeadType'
    BY <1>1, <2>1, CurFacts DEF ChainInv, JobType, WriteType, HeadType, write
  <2>3. DiskInv' /\ FreeInv' /\ RewindInv'
    BY <1>1, <2>1 DEF ChainInv, DiskInv, FreeInv, RewindInv, Writing
  <2>4. WriteInv'
    BY <1>1, <1>3, <2>1, WritingFacts, CurFacts DEF WriteInv, write
  <2> QED BY <1>2, <2>2, <2>3, <2>4 DEF ChainInv
<1>4. CASE cur \notin todo
  <2>1. pc' = "free" /\ ReleaseWrite /\ cur = block /\ block \in bodies \cap states
    BY <1>1, <1>4, CurFacts DEF Inserted
  <2>2. JobType'
    BY <2>1 DEF ChainInv, JobType, ReleaseWrite, Writers
  <2>3. WriteType'
    BY <2>1 DEF WriteType, ReleaseWrite
  <2>4. HeadType'
    BY <1>1, <2>1, WritingFacts DEF ChainInv, HeadType, Heads, DiskType
  <2>5. DiskInv' /\ RewindInv' /\ WriteInv'
    BY <1>1, <2>1 DEF ChainInv, DiskInv, WriteInv, RewindInv, Writing, Rewinding
  <2>6. FreeInv'
    BY <1>1, <2>1, WritingFacts DEF FreeInv
  <2> QED BY <1>2, <2>2, <2>3, <2>4, <2>5, <2>6 DEF ChainInv
<1> QED
  BY <1>3, <1>4

(* insert moves the head block, on disk and in memory. *)
LEMMA InsertHeadInv ==
  ASSUME ChainInv, InsertHead, UNCHANGED <<world, faults>>
  PROVE  ChainInv'
<1>1. pc = "head" /\ pc \in Writing /\ headBlock' = cur /\ currentBlock' = cur
  BY DEF InsertHead, Writing
<1>2. CASE updateHeads
  <2>1. pc' = "header" /\ UNCHANGED write
    BY <1>2 DEF InsertHead
  <2>2. JobType' /\ RewindType' /\ WriteType'
    BY <2>1 DEF ChainInv, JobType, RewindType, WriteType, InsertHead, rewind, write
  <2>3. DiskType' /\ HeadType'
    BY <1>1, <2>1, CurFacts DEF ChainInv, DiskType, HeadType, InsertHead
  <2>4. DiskInv' /\ FreeInv' /\ RewindInv'
    BY <1>1, <2>1 DEF ChainInv, DiskInv, FreeInv, RewindInv, InsertHead, Writing, Rewinding
  <2>5. WriteInv'
    BY <1>1, <2>1, WritingFacts, CurFacts DEF WriteInv, InsertHead, write
  <2> QED BY <2>2, <2>3, <2>4, <2>5 DEF ChainInv
<1>3. CASE ~updateHeads
  <2>1. Inserted /\ pc \in {"head", "fast"}
    BY <1>1, <1>3 DEF InsertHead
  <2> QED BY <1>1, <2>1, InsertedInv DEF InsertHead
<1> QED
  BY <1>2, <1>3

(* insert moves the head header. *)
LEMMA InsertHeaderInv ==
  ASSUME ChainInv, InsertHeader, UNCHANGED <<world, faults>>
  PROVE  ChainInv'
<1>1. pc = "header" /\ pc' = "fast" /\ pc \in Writing
  BY DEF InsertHeader, Writing
<1>2. JobType' /\ RewindType' /\ WriteType'
  BY DEF ChainInv, JobType, RewindType, WriteType, InsertHeader, rewind, write
<1>3. DiskType' /\ HeadType'
  BY <1>1, CurFacts DEF ChainInv, DiskType, HeadType, InsertHeader
<1>4. DiskInv' /\ FreeInv' /\ RewindInv'
  BY <1>1 DEF ChainInv, DiskInv, FreeInv, RewindInv, InsertHeader, Writing, Rewinding
<1>5. WriteInv'
  BY <1>1, WritingFacts, CurFacts DEF WriteInv, InsertHeader, write
<1> QED
  BY <1>2, <1>3, <1>4, <1>5 DEF ChainInv

(* insert moves the head fast block and ends. *)
LEMMA InsertFastInv ==
  ASSUME ChainInv, InsertFast, UNCHANGED <<world, faults>>
  PROVE  ChainInv'
<1>1. pc = "fast" /\ pc \in Writing
  BY DEF InsertFast, Writing
<1>2. currentBlock = cur /\ headBlock = cur
  BY <1>1, WritingFacts, CurFacts
<1> QED
  BY <1>1, <1>2, InsertedInv DEF InsertFast

(* WriteTxLookupEntries keeps the type of the lookup entries. *)
LEMMA LinkedType ==
  ASSUME ChainInv, NEW b \in Blocks
  PROVE  Linked(b) \in [Txs -> Blocks \cup {None}]
BY DEF ChainInv, DiskType, Linked

(* reorg writes the lookup entries of a block. *)
LEMMA ReorgLookupInv ==
  ASSUME ChainInv, ReorgLookup, UNCHANGED <<world, faults>>
  PROVE  ChainInv'
<1>1. pc = "lookup" /\ pc' = "reorg" /\ pc \in Writing /\ cur \in Blocks
  BY DEF ReorgLookup, Writing, ChainInv, WriteInv, WriteType
<1>2. DiskType'
  BY <1>1, LinkedType DEF ChainInv, DiskType, ReorgLookup
<1>3. JobType' /\ RewindType' /\ WriteType'
  BY DEF ChainInv, JobType, RewindType, WriteType, ReorgLookup, rewind
<1>4. HeadType' /\ DiskInv' /\ FreeInv' /\ RewindInv'
  BY <1>1 DEF ChainInv, HeadType, DiskInv, FreeInv, RewindInv, ReorgLookup, memory, Writing
<1>5. WriteInv'
  BY <1>1 DEF ChainInv, WriteInv, ReorgLookup, memory
<1> QED
  BY <1>2, <1>3, <1>4, <1>5 DEF ChainInv

(* reorg deletes an entry of the old chain. *)
LEMMA ReorgUnlinkInv ==
  ASSUME ChainInv, ReorgUnlink, UNCHANGED <<world, faults>>
  PROVE  ChainInv'
<1>1. pc = "unlink" /\ pc' \in {"unlink", "batch"} /\ pc \in Writing
  BY DEF ReorgUnlink, Writing
<1>2. lookup' = lookup \/ \E t \in Txs : lookup' = [lookup EXCEPT ![t] = None]
  BY DEF ReorgUnlink, ChainInv, WriteType
<1>3. DiskType'
  BY <1>2 DEF ChainInv, DiskType, ReorgUnlink
<1>4. JobType' /\ RewindType' /\ WriteType'
  BY DEF ChainInv, JobType, RewindType, WriteType, ReorgUnlink, rewind
<1>5. HeadType' /\ DiskInv' /\ FreeInv' /\ RewindInv'
  BY <1>1 DEF ChainInv, HeadType, DiskInv, FreeInv, RewindInv, ReorgUnlink, memory, Writing
<1>6. WriteInv'
  <2>1. canonical
    BY <1>1, WritingFacts
  <2> QED BY <1>1, <2>1 DEF ChainInv, WriteInv, ReorgUnlink, memory
<1> QED
  BY <1>3, <1>4, <1>5, <1>6 DEF ChainInv

(* The batch makes the block complete. *)
LEMMA WriteBatchInv ==
  ASSUME ChainInv, WriteBatch, UNCHANGED <<world, faults>>
  PROVE  ChainInv'
<1>1. /\ pc = "batch" /\ pc \in Writing /\ todo = {}
      /\ headers' = headers \cup {block} /\ bodies' = bodies \cup {block}
      /\ states' = states \cup {block} /\ lookup' \in {lookup, Linked(block)}
      /\ UNCHANGED <<tds, canon, headBlock, headHeader, headFast, memory, rewind>>
  BY DEF WriteBatch, Writing, ChainInv, WriteInv
<1>2. DiskType'
  <2>1. lookup' \in [Txs -> Blocks \cup {None}]
    BY <1>1, WritingFacts, LinkedType DEF ChainInv, DiskType
  <2> QED BY <1>1, <2>1, WritingFacts DEF ChainInv, DiskType
<1>3. RewindType'
  BY <1>1 DEF ChainInv, RewindType, rewind
<1>4. CASE canonical
  <2>1. /\ pc' = "canon" /\ cur' = block
        /\ UNCHANGED <<job, ready, block, canonical, todo, updateHeads, unlink>>
    BY <1>4 DEF WriteBatch
  <2>2. JobType' /\ WriteType' /\ HeadType'
    BY <1>1, <2>1 DEF ChainInv, JobType, WriteType, HeadType, memory
  <2>3. DiskInv' /\ FreeInv' /\ RewindInv'
    BY <1>1, <2>1, WritingFacts DEF ChainInv, DiskInv, FreeInv, RewindInv, Writing, Rewinding
  <2>4. WriteInv'
    BY <1>1, <1>4, <2>1, WritingFacts DEF WriteInv, memory
  <2> QED BY <1>2, <1>3, <2>2, <2>3, <2>4 DEF ChainInv
<1>5. CASE ~canonical
  <2>1. pc' = "free" /\ ReleaseWrite /\ currentBlock \in bodies \cap states
    BY <1>1, <1>5, WritingFacts DEF WriteBatch
  <2>2. JobType'
    BY <2>1 DEF ChainInv, JobType, ReleaseWrite, Writers
  <2>3. WriteType'
    BY <2>1 DEF WriteType, ReleaseWrite
  <2>4. HeadType'
    BY <1>1, <2>1, WritingFacts DEF ChainInv, HeadType, Heads, DiskType, memory
  <2>5. DiskInv' /\ RewindInv' /\ WriteInv'
    BY <1>1, <2>1, WritingFacts DEF ChainInv, DiskInv, WriteInv, RewindInv, Writing, Rewinding
  <2>6. FreeInv'
    BY <1>1, <2>1, WritingFacts DEF FreeInv, memory
  <2> QED BY <1>2, <1>3, <2>2, <2>3, <2>4, <2>5, <2>6 DEF ChainInv
<1> QED
  BY <1>4, <1>5

-----------------------------------------------------------------------------
(* SetHead, the stop and the restart. *)

(* SetHead takes mu and notes where the head header was. *)
LEMMA SetHeadInv ==
  ASSUME ChainInv, NEW n \in Numbers, SetHead(n), UNCHANGED world
  PROVE  ChainInv'
<1>1. /\ pc = "free" /\ pc' = "rewind" /\ target' = n /\ top' = Number[currentHeader]
      /\ faults' = faults \cup {"rewind"} /\ UNCHANGED <<disk, memory, write, resetting>>
  BY DEF SetHead
<1>2. DiskType' /\ JobType' /\ WriteType'
  BY <1>1 DEF ChainInv, DiskType, JobType, WriteType, disk, write
<1>3. HeadType' /\ WriteInv' /\ FreeInv'
  BY <1>1 DEF ChainInv, HeadType, WriteInv, FreeInv, memory, Writing
<1>4. /\ currentHeader \in headers /\ currentHeader \in Blocks
      /\ currentBlock \in bodies \cap states
  BY <1>1 DEF ChainInv, FreeInv, DiskType
<1>5. RewindType'
  BY <1>1, <1>4, TreeAssumption DEF ChainInv, RewindType, Numbers
<1>6. DiskInv' /\ RewindInv'
  BY <1>1, <1>4 DEF ChainInv, DiskInv, RewindInv, disk, memory, Writing, Rewinding
<1> QED
  BY <1>2, <1>3, <1>5, <1>6 DEF ChainInv

(* SetHead deletes the body of the head header: a head block or head fast  *)
(* block it loses is above the head header from then on.                   *)
LEMMA RewindBodyInv ==
  ASSUME ChainInv, RewindBody, UNCHANGED <<world, faults>>
  PROVE  ChainInv'
<1>1. /\ pc = "rewind" /\ pc' \in {"rewindHeader", "unnumber"} /\ bodies' \subseteq bodies
      /\ UNCHANGED <<tds, headers, states, canon, headBlock, headHeader, headFast,
                     lookup, memory, write, rewind>>
  BY DEF RewindBody
<1>2. DiskType' /\ JobType' /\ WriteType' /\ RewindType'
  BY <1>1 DEF ChainInv, DiskType, JobType, WriteType, RewindType, write, rewind
<1>3. HeadType' /\ WriteInv' /\ FreeInv'
  BY <1>1 DEF ChainInv, HeadType, WriteInv, FreeInv, memory, Writing
<1>4. /\ currentHeader \in headers \cup {None} /\ headers \subseteq Blocks
      /\ currentBlock \in states \cup {None} /\ states \subseteq Blocks
      /\ \/ currentBlock \in bodies \cup {None} \/ currentHeader = None
         \/ Number[currentBlock] > Number[currentHeader]
  BY <1>1 DEF ChainInv, RewindInv, DiskType
<1>5. CASE Above
  <2>1. /\ pc' = "rewindHeader" /\ bodies' = bodies \ {currentHeader}
        /\ currentHeader \in Blocks /\ currentHeader # Genesis
    BY <1>4, <1>5, TreeAssumption, SMTT(30) DEF RewindBody, Above, ChainInv, RewindType, Numbers
  <2>2. \A b \in Blocks : Number[b] \in Nat
    BY TreeAssumption, SMTT(30)
  <2>3. DiskInv'
    BY <1>1, <2>1 DEF ChainInv, DiskInv, memory, Rewinding
  <2>4. currentBlock \in bodies' \cup {None} \/ Number[currentBlock] >= Number[currentHeader]
    <3>1. CASE currentBlock = currentHeader
      BY <2>1, <2>2, <3>1, SMTT(30)
    <3>2. CASE currentBlock # currentHeader /\ currentBlock \in bodies \cup {None}
      BY <2>1, <3>2
    <3>3. CASE currentBlock \notin bodies \cup {None}
      <4>1. currentBlock \in Blocks /\ Number[currentBlock] > Number[currentHeader]
        BY <1>4, <1>5, <3>3 DEF Above
      <4> QED BY <2>1, <2>2, <4>1, SMTT(30)
    <3> QED BY <3>1, <3>2, <3>3
  <2>5. RewindInv'
    BY <1>1, <1>4, <2>1, <2>4 DEF RewindInv, memory
  <2> QED BY <1>2, <1>3, <2>3, <2>5 DEF ChainInv
<1>6. CASE ~Above
  <2>1. pc' = "unnumber" /\ bodies' = bodies
    BY <1>6 DEF RewindBody
  <2>2. DiskInv' /\ RewindInv'
    BY <1>1, <2>1 DEF ChainInv, DiskInv, RewindInv, memory, Rewinding
  <2> QED BY <1>2, <1>3, <2>2 DEF ChainInv
<1> QED
  BY <1>5, <1>6

(* SetHead deletes the header. *)
LEMMA RewindHeaderInv ==
  ASSUME ChainInv, RewindHeader, UNCHANGED <<world, faults>>
  PROVE  ChainInv'
<1>1. pc = "rewindHeader" /\ pc' = "rewindTd" /\ headers' = headers \ {currentHeader}
  BY DEF RewindHeader
<1>2. DiskType' /\ JobType' /\ WriteType' /\ RewindType'
  BY DEF ChainInv, DiskType, JobType, WriteType, RewindType, RewindHeader, write, rewind
<1>3. HeadType' /\ WriteInv' /\ FreeInv'
  BY <1>1 DEF ChainInv, HeadType, WriteInv, FreeInv, RewindHeader, memory, Writing
<1>4. DiskInv' /\ RewindInv'
  BY <1>1 DEF ChainInv, DiskInv, RewindInv, RewindHeader, memory, Rewinding
<1> QED
  BY <1>2, <1>3, <1>4 DEF ChainInv

(* SetHead deletes the total difficulty and moves to the parent, if the    *)
(* database has it: numbers fall by one, so a head block that lost its     *)
(* body stays above the head header.                                       *)
LEMMA RewindTdInv ==
  ASSUME ChainInv, RewindTd, UNCHANGED <<world, faults>>
  PROVE  ChainInv'
<1>1. /\ pc = "rewindTd" /\ pc' = "rewind" /\ tds' = tds \ {currentHeader}
      /\ currentHeader' \in headers \cup {None}
      /\ currentHeader' # None => currentHeader' = Parent[currentHeader]
      /\ UNCHANGED <<headers, bodies, states, canon, headBlock, headHeader, headFast,
                     lookup, currentBlock, currentFastBlock, write, rewind>>
  BY DEF RewindTd
<1>2. DiskType' /\ JobType' /\ WriteType' /\ RewindType'
  BY <1>1 DEF ChainInv, DiskType, JobType, WriteType, RewindType, write, rewind
<1>3. HeadType' /\ WriteInv' /\ FreeInv'
  BY <1>1 DEF ChainInv, HeadType, WriteInv, FreeInv, DiskType, Writing
<1>4. /\ currentHeader \in Blocks \ headers /\ currentHeader # Genesis
      /\ currentBlock \in Blocks \cup {None}
      /\ currentBlock \in bodies \cup {None} \/ Number[currentBlock] >= Number[currentHeader]
  BY <1>1 DEF ChainInv, DiskInv, RewindInv, HeadType
<1>5. /\ \A b \in Blocks : Number[b] \in Nat
      /\ Number[currentHeader] = Number[Parent[currentHeader]] + 1
      /\ Parent[currentHeader] \in Blocks
  BY <1>4, TreeAssumption, SMTT(30)
<1>6. \/ currentBlock \in bodies \cup {None} \/ currentHeader' = None
      \/ Number[currentBlock] > Number[currentHeader']
  <2> SUFFICES ASSUME currentBlock \notin bodies \cup {None}, currentHeader' # None
               PROVE  Number[currentBlock] > Number[currentHeader']
    OBVIOUS
  <2>1. currentBlock \in Blocks /\ Number[currentBlock] >= Number[currentHeader]
    BY <1>4
  <2>2. currentHeader' = Parent[currentHeader]
    BY <1>1
  <2>3. Number[currentBlock] \in Nat /\ Number[Parent[currentHeader]] \in Nat
    BY <1>5, <2>1
  <2> QED BY <1>5, <2>1, <2>2, <2>3, SMTT(30)
<1>7. DiskInv'
  BY <1>1, <1>4 DEF ChainInv, DiskInv, Rewinding
<1>8. RewindInv'
  BY <1>1, <1>6 DEF ChainInv, RewindInv
<1> QED
  BY <1>2, <1>3, <1>7, <1>8 DEF ChainInv

(* SetHead deletes the canonical numbers, then writes the head header. *)
LEMMA UnnumberInv ==
  ASSUME ChainInv, Unnumber, UNCHANGED <<world, faults>>
  PROVE  ChainInv'
<1>1. /\ pc = "unnumber" /\ target \in Nat /\ top \in Numbers
      /\ UNCHANGED <<tds, headers, bodies, states, headBlock, headFast, lookup,
                     currentBlock, currentFastBlock, write, target, resetting>>
  BY TreeAssumption, SMTT(30) DEF Unnumber, ChainInv, RewindType, Numbers
<1>2. JobType' /\ WriteType'
  BY <1>1 DEF ChainInv, JobType, WriteType, write
<1>3. CASE Numbered
  <2>1. /\ canon' = [canon EXCEPT ![top] = None] /\ top' = top - 1 /\ pc' = pc
        /\ UNCHANGED <<headHeader, currentHeader>>
    BY <1>3 DEF Unnumber
  <2>2. DiskType'
    BY <1>1, <2>1 DEF ChainInv, DiskType
  <2>3. top' \in Numbers
    <3>1. top \in 0..MaxNumber /\ MaxNumber \in Nat /\ top > target
      BY <1>1, <1>3, TreeAssumption DEF Numbered, Numbers
    <3>2. top - 1 \in 0..MaxNumber
      BY <1>1, <3>1, SMTT(30)
    <3> QED BY <2>1, <3>2 DEF Numbers
  <2>4. RewindType'
    BY <1>1, <2>3 DEF ChainInv, RewindType
  <2>5. HeadType' /\ WriteInv' /\ FreeInv' /\ DiskInv' /\ RewindInv'
    BY <1>1, <2>1 DEF ChainInv, HeadType, WriteInv, FreeInv, DiskInv, RewindInv, Writing
  <2> QED BY <1>2, <2>2, <2>4, <2>5 DEF ChainInv
<1>4. CASE ~Numbered
  <2>1. /\ currentHeader' = (IF currentHeader = None THEN Genesis ELSE currentHeader)
        /\ headHeader' = currentHeader' /\ pc' = "blocks" /\ UNCHANGED <<canon, top>>
    BY <1>4 DEF Unnumber
  <2>2. currentHeader' \in headers /\ headers \subseteq Blocks /\ bodies \subseteq headers
    BY <1>1, <2>1 DEF ChainInv, RewindInv, DiskInv, DiskType
  <2>3. DiskType' /\ HeadType' /\ RewindType'
    BY <1>1, <2>1, <2>2 DEF ChainInv, DiskType, HeadType, RewindType
  <2>4. WriteInv' /\ FreeInv' /\ DiskInv'
    BY <1>1, <2>1 DEF ChainInv, WriteInv, FreeInv, DiskInv, Writing, Rewinding
  <2>5. currentBlock \in bodies \cup {None} \/ Number[currentBlock] > Number[currentHeader']
    <3>1. /\ Genesis \in bodies /\ currentBlock \in Blocks \cup {None}
          /\ \/ currentBlock \in bodies \cup {None} \/ currentHeader = None
             \/ Number[currentBlock] > Number[currentHeader]
      BY <1>1 DEF ChainInv, DiskInv, RewindInv, HeadType
    <3>2. /\ \A b \in Blocks \ {Genesis} : Number[b] > Number[Genesis]
          /\ Genesis # None
      BY TreeAssumption, SMTT(30)
    <3> QED BY <2>1, <3>1, <3>2
  <2>6. RewindInv'
    BY <1>1, <2>1, <2>2, <2>5 DEF ChainInv, RewindInv
  <2> QED BY <1>2, <2>3, <2>4, <2>6 DEF ChainInv
<1> QED
  BY <1>3, <1>4

(* SetHead moves the head block: one whose body was deleted is above the   *)
(* head header, so what it picks has body and state.                       *)
LEMMA RewindBlocksInv ==
  ASSUME ChainInv, RewindBlocks, UNCHANGED <<world, faults>>
  PROVE  ChainInv'
<1>1. /\ pc = "blocks" /\ pc' = "rewindFast"
      /\ currentBlock' = (IF Rewound(currentBlock) \in states THEN Rewound(currentBlock) ELSE Genesis)
      /\ currentFastBlock' = OrGenesis(Rewound(currentFastBlock))
      /\ headBlock' = currentBlock'
      /\ UNCHANGED <<tds, headers, bodies, states, canon, headHeader, headFast,
                     lookup, currentHeader, write, rewind>>
  BY DEF RewindBlocks
<1>2. /\ Genesis \in bodies \cap states /\ bodies \subseteq headers /\ headers \subseteq Blocks
      /\ states \subseteq Blocks
      /\ currentHeader \in headers /\ currentBlock \in states \cup {None}
      /\ currentBlock \in bodies \cup {None} \/ Number[currentBlock] > Number[currentHeader]
      /\ currentFastBlock \in Blocks \cup {None} /\ None \notin Blocks
  BY <1>1, TreeAssumption DEF ChainInv, DiskInv, DiskType, RewindInv, HeadType
<1>3. Rewound(currentBlock) \in states => Rewound(currentBlock) \in bodies
  <2>1. \A b \in Blocks : Number[b] \in Nat
    BY TreeAssumption, SMTT(30)
  <2> QED BY <1>2, <2>1 DEF Rewound, GetBlock
<1>4. currentBlock' \in bodies \cap states
  BY <1>1, <1>2, <1>3
<1>5. currentFastBlock' \in Blocks
  BY <1>1, <1>2 DEF OrGenesis, Rewound, GetBlock
<1>6. JobType' /\ WriteType' /\ RewindType'
  BY <1>1 DEF ChainInv, JobType, WriteType, RewindType, write, rewind
<1>7. DiskType' /\ HeadType'
  BY <1>1, <1>2, <1>4, <1>5 DEF ChainInv, DiskType, HeadType, Heads
<1>8. WriteInv' /\ FreeInv' /\ DiskInv'
  BY <1>1 DEF ChainInv, WriteInv, FreeInv, DiskInv, Writing, Rewinding
<1>9. RewindInv'
  BY <1>1, <1>2, <1>4 DEF RewindInv
<1> QED
  BY <1>6, <1>7, <1>8, <1>9 DEF ChainInv

(* SetHead writes the head fast block. *)
LEMMA RewindFastInv ==
  ASSUME ChainInv, RewindFast, UNCHANGED <<world, faults>>
  PROVE  ChainInv'
<1>1. pc = "rewindFast" /\ pc' = "load" /\ currentFastBlock \in Blocks
  BY DEF RewindFast, ChainInv, HeadType, Heads
<1>2. JobType' /\ WriteType' /\ RewindType'
  BY DEF ChainInv, JobType, WriteType, RewindType, RewindFast, write, rewind
<1>3. DiskType' /\ HeadType'
  BY <1>1 DEF ChainInv, DiskType, HeadType, RewindFast, memory
<1>4. WriteInv' /\ FreeInv' /\ DiskInv' /\ RewindInv'
  BY <1>1 DEF ChainInv, WriteInv, FreeInv, DiskInv, RewindInv, RewindFast, memory, Writing,
              Rewinding
<1> QED
  BY <1>2, <1>3, <1>4 DEF ChainInv

-----------------------------------------------------------------------------
(* loadLastState at the end of SetHead: the head block it chose is usable, *)
(* so the load never gets stuck.                                           *)
LEMMA LoadLastStateInv ==
  ASSUME ChainInv, LoadLastState, UNCHANGED <<world, faults>>
  PROVE  ChainInv'
<1>1. /\ pc = "load" /\ headBlock \in bodies \cap states /\ headBlock \in headers
      /\ Usable(headBlock)
  BY DEF LoadLastState, ChainInv, RewindInv, DiskInv, Usable, HasBlockAndState, GetBlock
<1>2. /\ LoadHeads /\ pc' \in {"free", "genesis"}
      /\ target' \in {target, 0} /\ top' \in {top, 0} /\ resetting' \in {resetting, FALSE}
      /\ UNCHANGED <<tds, headers, bodies, states, canon, headBlock, headFast, lookup, write>>
  BY <1>1 DEF LoadLastState, ReleaseRewind, rewind
<1>3. /\ currentBlock' = headBlock /\ currentHeader' \in headers
      /\ headHeader' = currentHeader' /\ currentFastBlock' \in bodies
  BY <1>1, <1>2 DEF LoadHeads, GetBlock
<1>4. JobType' /\ WriteType'
  BY <1>2 DEF ChainInv, JobType, WriteType, write
<1>5. 0 \in Numbers
  BY TreeAssumption, SMTT(30) DEF Numbers
<1>6. RewindType'
  BY <1>2, <1>5 DEF ChainInv, RewindType
<1>7. DiskType' /\ HeadType'
  BY <1>2, <1>3 DEF ChainInv, DiskType, HeadType, Heads
<1>8. DiskInv' /\ RewindInv' /\ WriteInv'
  BY <1>2, <1>3 DEF ChainInv, DiskInv, RewindInv, WriteInv, Writing, Rewinding
<1>9. FreeInv'
  BY <1>1, <1>2, <1>3 DEF FreeInv
<1> QED
  BY <1>4, <1>6, <1>7, <1>8, <1>9 DEF ChainInv

(* Reset writes the genesis block over whatever is left. *)
LEMMA ResetWithGenesisBlockInv ==
  ASSUME ChainInv, ResetWithGenesisBlock, UNCHANGED <<world, faults>>
  PROVE  ChainInv'
<1>1. /\ pc' = "free" /\ target' = 0 /\ top' = 0 /\ resetting' = FALSE
      /\ headers' = headers \cup {Genesis} /\ bodies' = bodies \cup {Genesis}
      /\ tds' = tds \cup {Genesis} /\ canon' = [canon EXCEPT ![0] = Genesis]
      /\ headBlock' = Genesis /\ headHeader' = Genesis /\ headFast' \in {headFast, Genesis}
      /\ currentBlock' = Genesis /\ currentHeader' = Genesis /\ currentFastBlock' = Genesis
      /\ UNCHANGED <<states, lookup, write>>
  BY DEF ResetWithGenesisBlock, ReleaseRewind
<1>2. Genesis \in Blocks /\ 0 \in Numbers
  BY TreeAssumption, SMTT(30) DEF Numbers
<1>3. DiskType' /\ HeadType'
  BY <1>1, <1>2 DEF ChainInv, DiskType, HeadType, Heads
<1>4. JobType' /\ WriteType'
  BY <1>1 DEF ChainInv, JobType, WriteType, write
<1>5. RewindType'
  BY <1>1, <1>2 DEF ChainInv, RewindType
<1>6. DiskInv' /\ RewindInv' /\ WriteInv' /\ FreeInv'
  BY <1>1, <1>2 DEF ChainInv, DiskInv, RewindInv, WriteInv, FreeInv, Writing, Rewinding
<1> QED
  BY <1>3, <1>4, <1>5, <1>6 DEF ChainInv

(* The process may stop between any two writes: DiskInv says nothing of    *)
(* the memory it loses.                                                    *)
LEMMA CrashInv ==
  ASSUME ChainInv, Crash, UNCHANGED world
  PROVE  ChainInv'
<1>1. /\ pc' = "down" /\ target' = 0 /\ top' = 0 /\ resetting' = FALSE /\ UNCHANGED disk
      /\ faults' = (faults \ {"rollback"}) \cup {"crash"}
      /\ currentBlock' = None /\ currentHeader' = None /\ currentFastBlock' = None
      /\ job' = [w \in Writers |-> None] /\ ready' = {}
      /\ block' = None /\ canonical' = FALSE /\ todo' = {} /\ cur' = None
      /\ updateHeads' = FALSE /\ unlink' = {}
  BY DEF Crash, ReleaseRewind
<1>2. 0 \in Numbers
  BY TreeAssumption, SMTT(30) DEF Numbers
<1>3. DiskType' /\ HeadType'
  BY <1>1 DEF ChainInv, DiskType, HeadType, Heads, disk
<1>4. JobType' /\ WriteType'
  BY <1>1 DEF JobType, WriteType
<1>5. RewindType'
  BY <1>1, <1>2 DEF ChainInv, RewindType
<1>6. DiskInv' /\ RewindInv' /\ WriteInv' /\ FreeInv'
  BY <1>1 DEF ChainInv, DiskInv, RewindInv, WriteInv, FreeInv, Writing, Rewinding, disk
<1> QED
  BY <1>3, <1>4, <1>5, <1>6 DEF ChainInv

(* A restart loads a usable head block, or resets the chain. *)
LEMMA NewBlockChainInv ==
  ASSUME ChainInv, NewBlockChain, UNCHANGED world
  PROVE  ChainInv'
<1>1. /\ pc = "down" /\ currentBlock = None
      /\ UNCHANGED <<tds, headers, bodies, states, canon, headBlock, headFast, lookup, write>>
  BY DEF NewBlockChain, ChainInv, RewindInv
<1>2. JobType' /\ WriteType'
  BY <1>1 DEF ChainInv, JobType, WriteType, write
<1>3. CASE Usable(headBlock)
  <2>1. LoadHeads /\ pc' = "free" /\ UNCHANGED <<rewind, faults>>
    BY <1>3 DEF NewBlockChain
  <2>2. headBlock \in bodies \cap states /\ headBlock \in headers
    BY <1>3 DEF Usable, HasBlockAndState, GetBlock
  <2>3. /\ currentBlock' = headBlock /\ currentHeader' \in headers
        /\ headHeader' = currentHeader' /\ currentFastBlock' \in bodies
    BY <2>1, <2>2 DEF LoadHeads, GetBlock
  <2>4. DiskType' /\ HeadType' /\ RewindType'
    BY <1>1, <2>1, <2>3 DEF ChainInv, DiskType, HeadType, Heads, RewindType, rewind
  <2>5. DiskInv' /\ RewindInv' /\ WriteInv'
    BY <1>1, <2>1 DEF ChainInv, DiskInv, RewindInv, WriteInv, Writing, Rewinding
  <2>6. FreeInv'
    BY <1>1, <2>1, <2>2, <2>3 DEF FreeInv
  <2> QED BY <1>2, <2>4, <2>5, <2>6 DEF ChainInv
<1>4. CASE ~Usable(headBlock)
  <2>1. /\ faults' = faults \cup {"reset"} /\ pc' = "rewind" /\ resetting' = TRUE
        /\ currentHeader' = (IF headBlock \in headers THEN headBlock ELSE Genesis)
        /\ top' = Number[currentHeader'] /\ target' = 0
        /\ UNCHANGED <<headHeader, currentBlock, currentFastBlock>>
    BY <1>4 DEF NewBlockChain
  <2>2. currentHeader' \in headers /\ currentHeader' \in Blocks
    BY <2>1 DEF ChainInv, DiskInv, DiskType
  <2>3. top' \in Numbers /\ 0 \in Numbers
    BY <2>1, <2>2, TreeAssumption, SMTT(30) DEF Numbers
  <2>4. DiskType' /\ HeadType' /\ RewindType'
    BY <1>1, <2>1, <2>2, <2>3 DEF ChainInv, DiskType, HeadType, Heads, RewindType
  <2>5. DiskInv' /\ RewindInv' /\ WriteInv' /\ FreeInv'
    BY <1>1, <2>1, <2>2 DEF ChainInv, DiskInv, RewindInv, WriteInv, FreeInv, Writing, Rewinding
  <2> QED BY <1>2, <2>4, <2>5 DEF ChainInv
<1> QED
  BY <1>3, <1>4

-----------------------------------------------------------------------------
(* ChainInv holds of a new database and is kept by every step. *)
LEMMA ChainInit == Init => ChainInv
<1> SUFFICES ASSUME Init PROVE ChainInv
  OBVIOUS
<1>1. Genesis \in Blocks /\ 0 \in Numbers /\ None \notin Blocks
  BY TreeAssumption, SMTT(30) DEF Numbers
<1>2. DiskType /\ HeadType /\ JobType /\ WriteType /\ RewindType
  BY <1>1 DEF Init, DiskType, HeadType, Heads, JobType, WriteType, RewindType
<1>3. DiskInv /\ WriteInv /\ FreeInv /\ RewindInv
  BY <1>1 DEF Init, DiskInv, WriteInv, FreeInv, RewindInv, Writing, Rewinding
<1> QED
  BY <1>2, <1>3 DEF ChainInv

(* One case per action. *)
LEMMA ChainInvStep == ChainInv /\ [Next]_vars => ChainInv'
<1> SUFFICES ASSUME ChainInv, [Next]_vars PROVE ChainInv'
  OBVIOUS
<1>1. CASE UNCHANGED vars
  <2>1. /\ UNCHANGED <<disk, memory, pc, write, rewind>> /\ UNCHANGED <<world, faults>>
    BY <1>1 DEF vars
  <2>2. DiskType' /\ HeadType' /\ JobType'
    BY <2>1 DEF disk, memory, write, ChainInv, DiskType, HeadType, Heads, JobType
  <2>3. WriteType' /\ RewindType'
    BY <2>1 DEF write, rewind, ChainInv, WriteType, RewindType
  <2>4. DiskInv' /\ WriteInv'
    BY <2>1 DEF disk, memory, write, ChainInv, DiskInv, WriteInv
  <2>5. FreeInv' /\ RewindInv'
    BY <2>1 DEF disk, memory, ChainInv, FreeInv, RewindInv
  <2> QED BY <2>2, <2>3, <2>4, <2>5 DEF ChainInv
<1>2. CASE Step /\ UNCHANGED <<world, faults>>
  <2>1. UNCHANGED <<world, faults>>
    BY <1>2
  <2>2. ASSUME NEW b \in world.blocks, InsertChain(b) \/ Seal(b) PROVE ChainInv'
    BY <2>1, <2>2, InsertChainInv
  <2>3. ASSUME NEW w \in Writers, ReadParentTd(w) PROVE ChainInv'
    BY <2>1, <2>3, ReadParentTdInv
  <2>4. ASSUME NEW w \in Writers, WriteBlockAndState(w) PROVE ChainInv'
    BY <2>1, <2>4, WriteBlockAndStateInv
  <2>5. ReorgNext \/ InsertCanon \/ InsertHead \/ InsertHeader \/ InsertFast \/ ReorgLookup
        \/ ReorgUnlink \/ WriteBatch => ChainInv'
    BY <2>1, ReorgNextInv, InsertCanonInv, InsertHeadInv, InsertHeaderInv, InsertFastInv,
       ReorgLookupInv, ReorgUnlinkInv, WriteBatchInv
  <2>6. RewindBody \/ RewindHeader \/ RewindTd \/ Unnumber \/ RewindBlocks \/ RewindFast
        \/ LoadLastState \/ ResetWithGenesisBlock => ChainInv'
    BY <2>1, RewindBodyInv, RewindHeaderInv, RewindTdInv, UnnumberInv, RewindBlocksInv,
       RewindFastInv, LoadLastStateInv, ResetWithGenesisBlockInv
  <2> QED BY <1>2, <2>2, <2>3, <2>4, <2>5, <2>6 DEF Step
<1>3. ASSUME NEW n \in Numbers, SetHead(n), UNCHANGED world PROVE ChainInv'
  BY <1>3, SetHeadInv
<1>4. CASE Crash /\ UNCHANGED world
  BY <1>4, CrashInv
<1>5. CASE NewBlockChain /\ UNCHANGED world
  BY <1>5, NewBlockChainInv
<1> QED
  BY <1>1, <1>2, <1>3, <1>4, <1>5 DEF Next

(* Every state of the chain satisfies ChainInv. *)
LEMMA ChainInductive == Spec => []ChainInv
<1> QED
  BY ChainInit, ChainInvStep, PTL DEF Spec

(* Whatever was interrupted, rewound or reset before, the heads a full     *)
(* node runs on are blocks and headers it has, with state and total        *)
(* difficulty (loadLastState, SetHead, insert).                            *)
THEOREM BlockChainHeadComplete == Spec => []HeadComplete
<1>1. ChainInv => HeadComplete
  <2> SUFFICES ASSUME ChainInv PROVE HeadComplete
    OBVIOUS
  <2>1. pc \in Steps
    BY DEF ChainInv, DiskInv, Writing, Rewinding, Steps
  <2>2. top \in 0..MaxNumber + 1
    BY TreeAssumption, SMTT(30) DEF ChainInv, RewindType, Numbers
  <2>3. TypeOK
    BY <2>1, <2>2 DEF TypeOK, ChainInv, DiskType, HeadType, Heads, JobType, WriteType, RewindType
  <2>4. ASSUME pc = "free"
        PROVE  /\ GetBlock(currentBlock) /\ currentBlock \in tds
               /\ currentHeader \in headers /\ currentHeader \in tds
               /\ GetBlock(currentFastBlock) /\ currentFastBlock \in tds
               /\ headHeader = currentHeader
               /\ headBlock = currentBlock /\ currentBlock \in states
    BY <2>4 DEF ChainInv, DiskInv, FreeInv, GetBlock
  <2> QED BY <2>3, <2>4 DEF HeadComplete
<1> QED
  BY <1>1, ChainInductive, PTL

(* SetHead never finds its own new head unusable, and so never waits for   *)
(* the mutex it holds.                                                     *)
THEOREM BlockChainNeverStuck == Spec => []NeverStuck
<1>1. ChainInv => NeverStuck
  BY DEF ChainInv, DiskInv, NeverStuck, Writing, Rewinding
<1> QED
  BY <1>1, ChainInductive, PTL

-----------------------------------------------------------------------------
(* As long as nothing is rewound: a block is written after its parent, and *)
(* the reset of NewBlockChain, which starts from the genesis header,       *)
(* deletes nothing.                                                        *)
ClosedInv ==
  "rewind" \notin faults =>
    /\ \A b \in headers : Ancestors[b] \subseteq bodies \cap states
    /\ \A w \in Writers : job[w] # None => Parent[job[w]] \in headers
    /\ pc \in Writing => Parent[block] \in headers
    /\ pc \in {"rewind", "unnumber"} => currentHeader = Genesis /\ target = 0
    /\ pc \notin {"rewindHeader", "rewindTd"}

(* A block is one of its ancestors, and the others are those of the parent. *)
LEMMA AncestorsOf ==
  ASSUME NEW b \in Blocks
  PROVE  /\ b \in Ancestors[b]
         /\ b = Genesis => Ancestors[b] = {b}
         /\ b # Genesis => Ancestors[b] = {b} \cup Ancestors[Parent[b]]
<1>1. Ancestors = [x \in Blocks |-> {x} \cup (IF x = Genesis THEN {} ELSE Ancestors[Parent[x]])]
  BY TreeAssumption
<1>2. Ancestors[b] = {b} \cup (IF b = Genesis THEN {} ELSE Ancestors[Parent[b]])
  BY <1>1
<1> QED
  BY <1>2

(* The writers: what they prepare, and write in the batch, has its parent  *)
(* on disk (Insertable, commitNewWork).                                    *)
LEMMA ClosedWriters ==
  ASSUME ChainInv, ClosedInv, "rewind" \notin faults, UNCHANGED faults,
         \/ \E b \in world.blocks : InsertChain(b) \/ Seal(b)
         \/ \E w \in Writers : ReadParentTd(w) \/ WriteBlockAndState(w)
  PROVE  ClosedInv'
<1>1. ASSUME NEW b \in world.blocks, InsertChain(b) \/ Seal(b)
      PROVE  ClosedInv'
  <2>1. Parent[b] \in headers
    BY <1>1 DEF InsertChain, Seal, Insertable, HasBlockAndState, GetBlock, ChainInv, FreeInv,
                DiskInv
  <2>2. PICK w \in Writers : job' = [job EXCEPT ![w] = b]
    BY <1>1 DEF InsertChain, Seal, Writers
  <2>3. UNCHANGED <<headers, bodies, states, pc, block, currentHeader, target>>
    BY <1>1 DEF InsertChain, Seal, disk, memory, rewind
  <2>4. job \in [Writers -> (Blocks \ {Genesis}) \cup {None}]
    BY DEF ChainInv, JobType
  <2>5. \A v \in Writers : job'[v] # None => Parent[job'[v]] \in headers
    BY <2>1, <2>2, <2>4 DEF ClosedInv
  <2> QED BY <2>3, <2>5 DEF ClosedInv
<1>2. ASSUME NEW w \in Writers, ReadParentTd(w)
      PROVE  ClosedInv'
  <2>1. UNCHANGED <<headers, bodies, states, pc, block, currentHeader, target>>
    BY <1>2 DEF ReadParentTd, disk, memory, rewind
  <2>2. job' = job \/ job' = [job EXCEPT ![w] = None]
    BY <1>2 DEF ReadParentTd
  <2>3. job \in [Writers -> (Blocks \ {Genesis}) \cup {None}]
    BY DEF ChainInv, JobType
  <2>4. \A v \in Writers : job'[v] # None => Parent[job'[v]] \in headers
    BY <2>2, <2>3 DEF ClosedInv
  <2> QED BY <2>1, <2>4 DEF ClosedInv
<1>3. ASSUME NEW w \in Writers, WriteBlockAndState(w)
      PROVE  ClosedInv'
  <2>1. /\ UNCHANGED <<headers, bodies, states, currentHeader, target>>
        /\ pc = "free" /\ w \in ready
    BY <1>3 DEF WriteBlockAndState, memory, rewind
  <2>2. \/ pc' = "free" /\ job' = [job EXCEPT ![w] = None]
        \/ pc' \in {"reorg", "batch"} /\ job' = job /\ block' = job[w]
    BY <1>3 DEF WriteBlockAndState
  <2>3. job \in [Writers -> (Blocks \ {Genesis}) \cup {None}] /\ job[w] # None
    BY <2>1 DEF ChainInv, JobType
  <2>4. \A v \in Writers : job'[v] # None => Parent[job'[v]] \in headers
    BY <2>2, <2>3 DEF ClosedInv
  <2>5. pc' \in Writing => Parent[block'] \in headers
    BY <2>2, <2>3 DEF ClosedInv, Writing
  <2>6. pc' \notin {"rewind", "unnumber", "rewindHeader", "rewindTd"}
    BY <2>2
  <2> QED BY <2>1, <2>4, <2>5, <2>6 DEF ClosedInv
<1> QED
  BY <1>1, <1>2, <1>3

(* The holder of mu: only the batch adds a header, under its parent. *)
LEMMA ClosedWrite ==
  ASSUME ChainInv, ClosedInv, "rewind" \notin faults, UNCHANGED faults,
         ReorgNext \/ InsertCanon \/ InsertHead \/ InsertHeader \/ InsertFast \/ ReorgLookup
         \/ ReorgUnlink \/ WriteBatch
  PROVE  ClosedInv'
<1>1. pc \in Writing
  BY DEF ReorgNext, InsertCanon, InsertHead, InsertHeader, InsertFast, ReorgLookup,
         ReorgUnlink, WriteBatch, Writing
<1>2. /\ block' = block \/ pc' = "free"
      /\ \A w \in Writers : job'[w] # None => job'[w] = job[w]
  BY DEF ReorgNext, InsertCanon, InsertHead, InsertHeader, InsertFast, ReorgLookup,
         ReorgUnlink, WriteBatch, Inserted, ReleaseWrite, write
<1>3. pc' \in Writing \cup {"free"}
  BY DEF ReorgNext, InsertCanon, InsertHead, InsertHeader, InsertFast, ReorgLookup,
         ReorgUnlink, WriteBatch, Inserted, Writing
<1>4. /\ headers \subseteq headers' /\ bodies \subseteq bodies' /\ states \subseteq states'
      /\ headers' = headers \/ (headers' = headers \cup {block} /\ block \in bodies' \cap states')
  BY DEF ReorgNext, InsertCanon, InsertHead, InsertHeader, InsertFast, ReorgLookup,
         ReorgUnlink, WriteBatch, disk
<1>5. block \in Blocks \ {Genesis} /\ Parent[block] \in headers
  BY <1>1 DEF ChainInv, WriteInv, DiskType, ClosedInv
<1>6. \A b \in headers' : Ancestors[b] \subseteq bodies' \cap states'
  <2>1. Ancestors[block] = {block} \cup Ancestors[Parent[block]]
    BY <1>5, AncestorsOf
  <2>2. \A b \in headers : Ancestors[b] \subseteq bodies \cap states
    BY DEF ClosedInv
  <2> QED BY <1>4, <1>5, <2>1, <2>2
<1>7. \A w \in Writers : job'[w] # None => Parent[job'[w]] \in headers'
  BY <1>2, <1>4 DEF ClosedInv
<1>8. pc' \in Writing => Parent[block'] \in headers'
  BY <1>2, <1>4, <1>5 DEF Writing
<1>9. pc' \notin {"rewind", "unnumber", "rewindHeader", "rewindTd"}
  BY <1>3 DEF Writing
<1> QED
  BY <1>6, <1>7, <1>8, <1>9 DEF ClosedInv

(* The SetHead(0) of a reset. *)
LEMMA ClosedRewind ==
  ASSUME ChainInv, ClosedInv, "rewind" \notin faults, UNCHANGED faults,
         RewindBody \/ RewindHeader \/ RewindTd \/ Unnumber \/ RewindBlocks \/ RewindFast
         \/ LoadLastState \/ ResetWithGenesisBlock
  PROVE  ClosedInv'
<1>1. ~(RewindHeader \/ RewindTd)
  BY DEF RewindHeader, RewindTd, ClosedInv
<1>2. Number[Genesis] = 0 /\ ~(0 > 0) /\ Genesis # None
  BY TreeAssumption, SMTT(30)
<1>3. CASE RewindBody
  <2>1. ~Above
    BY <1>2, <1>3 DEF RewindBody, Above, ClosedInv
  <2> QED
    BY <1>3, <2>1 DEF RewindBody, ClosedInv, memory, write, rewind, Writing
<1>4. CASE Unnumber
  BY <1>2, <1>4 DEF Unnumber, ClosedInv, write, Writing
<1>5. CASE RewindBlocks \/ RewindFast \/ LoadLastState
  BY <1>5 DEF RewindBlocks, RewindFast, LoadLastState, ClosedInv, write, Writing
<1>6. CASE ResetWithGenesisBlock
  <2>1. UNCHANGED <<headers, bodies, states, job>> /\ pc' = "free"
    BY <1>6 DEF ResetWithGenesisBlock, ChainInv, DiskInv, write
  <2> QED BY <2>1 DEF ClosedInv, Writing
<1> QED
  BY <1>1, <1>3, <1>4, <1>5, <1>6

(* A head block with a header is complete, so that a reset starts at the   *)
(* genesis header.                                                         *)
LEMMA ClosedLoad ==
  ASSUME ChainInv, ClosedInv, "rewind" \notin faults, Crash \/ NewBlockChain
  PROVE  ClosedInv'
<1>1. CASE Crash
  BY <1>1 DEF Crash, ReleaseRewind, ClosedInv, disk, Writing
<1>2. CASE NewBlockChain
  <2>1. headBlock \in headers => Usable(headBlock)
    <3>1. headBlock \in Blocks /\ headBlock \in Ancestors[headBlock]
      BY AncestorsOf DEF ChainInv, DiskType
    <3>2. \A b \in headers : Ancestors[b] \subseteq bodies \cap states
      BY DEF ClosedInv
    <3> QED BY <3>1, <3>2 DEF Usable, HasBlockAndState, GetBlock
  <2>2. /\ UNCHANGED <<headers, bodies, states, job>>
        /\ pc' \in {"free", "rewind"}
        /\ pc' = "rewind" => currentHeader' = Genesis /\ target' = 0
    BY <1>2, <2>1 DEF NewBlockChain, write
  <2>3. pc' \notin Writing \cup {"rewindHeader", "rewindTd", "unnumber"}
    BY <2>2 DEF Writing
  <2>4. /\ \A b \in headers : Ancestors[b] \subseteq bodies \cap states
        /\ \A w \in Writers : job[w] # None => Parent[job[w]] \in headers
    BY DEF ClosedInv
  <2> QED BY <2>2, <2>3, <2>4 DEF ClosedInv
<1> QED
  BY <1>1, <1>2

(* Every state of the chain satisfies ClosedInv. *)
LEMMA ClosedInductive == Spec => []ClosedInv
<1>1. Init => ClosedInv
  <2>1. Genesis \in Blocks /\ Ancestors[Genesis] = {Genesis}
    BY TreeAssumption, AncestorsOf
  <2> QED BY <2>1 DEF Init, ClosedInv, Writing
<1>2. ChainInv /\ ClosedInv /\ [Next]_vars => ClosedInv'
  <2> SUFFICES ASSUME ChainInv, ClosedInv, [Next]_vars PROVE ClosedInv'
    OBVIOUS
  <2>1. CASE UNCHANGED vars
    BY <2>1 DEF vars, disk, memory, write, rewind, ClosedInv
  <2>2. CASE Next /\ "rewind" \in faults
    <3>1. "rewind" \in faults'
      BY <2>2 DEF Next, SetHead, Crash, NewBlockChain
    <3> QED BY <3>1 DEF ClosedInv
  <2>3. CASE Next /\ "rewind" \notin faults
    <3>1. CASE Step /\ UNCHANGED faults
      BY <2>3, <3>1, ClosedWriters, ClosedWrite, ClosedRewind DEF Step
    <3>2. ASSUME NEW n \in Numbers, SetHead(n) PROVE ClosedInv'
      BY <3>2 DEF SetHead, ClosedInv
    <3>3. CASE Crash \/ NewBlockChain
      BY <2>3, <3>3, ClosedLoad
    <3> QED BY <2>3, <3>1, <3>2, <3>3 DEF Next
  <2> QED BY <2>1, <2>2, <2>3
<1> QED
  BY <1>1, <1>2, ChainInductive, PTL DEF Spec

(* As long as nothing was rewound every block on disk has its ancestors    *)
(* with their state on disk, wherever WriteBlockAndState was interrupted.  *)
THEOREM BlockChainDatabaseClosed == Spec => []DatabaseClosed
<1>1. ChainInv /\ ClosedInv => DatabaseClosed
  <2> SUFFICES ASSUME ChainInv, ClosedInv, "rewind" \notin faults
               PROVE  \A b \in headers :
                        /\ b \in tds
                        /\ \A a \in Ancestors[b] : a \in headers \cap bodies \cap states
    BY DEF DatabaseClosed, HasBlockAndState, GetBlock, ChainInv, DiskInv
  <2> QED BY DEF ChainInv, DiskInv, ClosedInv
<1> QED
  BY <1>1, ChainInductive, ClosedInductive, PTL

-----------------------------------------------------------------------------
(* As long as nothing is rewound and nothing stops: no block on disk is    *)
(* heavier than the head, or than the block that becomes the head.         *)
HeavyInv ==
  faults = {} =>
    /\ pc \in Writing \cup {"free"}
    /\ \A b \in bodies :
         Td[b] <= Td[IF pc \in Writing /\ canonical THEN block ELSE currentBlock]
    /\ pc \in Writing /\ ~canonical => Td[block] <= Td[currentBlock]


(* Faults are never forgotten. *)
LEMMA FaultsStay == [Next]_vars /\ faults' = {} => faults = {}
  BY DEF Next, SetHead, Crash, NewBlockChain, vars

(* The fork choice of WriteBlockAndState keeps the heavier of the block    *)
(* and the head, and insert makes that block the head.                     *)
LEMMA HeavyStep ==
  ASSUME ChainInv, HeavyInv, [Next]_vars, faults = {}, faults' = {}
  PROVE  HeavyInv'
<1> DEFINE Heavier == IF pc \in Writing /\ canonical THEN block ELSE currentBlock
<1>1. /\ pc \in Writing \cup {"free"} /\ currentBlock \in Blocks /\ bodies \subseteq Blocks
      /\ \A b \in bodies : Td[b] <= Td[Heavier]
      /\ pc \in Writing /\ ~canonical => Td[block] <= Td[currentBlock]
      /\ pc \in Writing => block \in Blocks
  BY DEF ChainInv, HeavyInv, WriteInv, FreeInv, DiskType
<1>2. Td \in [Blocks -> Nat]
  BY TreeAssumption
<1>3. CASE UNCHANGED vars
  BY <1>3 DEF vars, disk, memory, write, rewind, HeavyInv
<1>4. ~(Crash \/ NewBlockChain \/ \E n \in Numbers : SetHead(n))
  BY <1>1 DEF Crash, NewBlockChain, SetHead, Writing
<1>5. ~(RewindBody \/ RewindHeader \/ RewindTd \/ Unnumber \/ RewindBlocks \/ RewindFast
        \/ LoadLastState \/ ResetWithGenesisBlock)
  BY <1>1 DEF RewindBody, RewindHeader, RewindTd, Unnumber, RewindBlocks, RewindFast,
              LoadLastState, ResetWithGenesisBlock, Writing
<1>6. ASSUME \/ \E b \in world.blocks : InsertChain(b) \/ Seal(b)
             \/ \E w \in Writers : ReadParentTd(w)
      PROVE  HeavyInv'
  <2>1. UNCHANGED <<bodies, pc, currentBlock, block, canonical>>
    BY <1>6 DEF InsertChain, Seal, ReadParentTd, disk, memory
  <2> QED BY <2>1 DEF HeavyInv
<1>7. ASSUME NEW w \in Writers, WriteBlockAndState(w)
      PROVE  HeavyInv'
  <2>1. pc = "free" /\ Heavier = currentBlock /\ job[w] \in Blocks
        /\ UNCHANGED <<bodies, currentBlock>>
    BY <1>7 DEF WriteBlockAndState, memory, Writing, ChainInv, JobType
  <2>2. PICK c \in ForkChoice(job[w]) :
               \/ pc' = "free"
               \/ pc' \in {"reorg", "batch"} /\ block' = job[w] /\ canonical' = c
    BY <1>7 DEF WriteBlockAndState
  <2>3. /\ c => Td[job[w]] >= Td[currentBlock]
        /\ ~c => Td[job[w]] <= Td[currentBlock]
    BY <1>1, <1>2, <2>1, SMTT(30) DEF ForkChoice
  <2>4. \A b \in bodies : Td[b] <= Td[currentBlock]
    BY <1>1, <2>1
  <2>5. c => \A b \in bodies : Td[b] <= Td[job[w]]
    <3>1. \A b \in bodies : Td[b] \in Nat
      BY <1>1, <1>2
    <3>2. Td[job[w]] \in Nat /\ Td[currentBlock] \in Nat
      BY <1>1, <1>2, <2>1
    <3> QED BY <2>3, <2>4, <3>1, <3>2, SMTT(30)
  <2>6. CASE pc' = "free"
    BY <2>1, <2>4, <2>6 DEF HeavyInv, Writing
  <2>7. CASE pc' \in {"reorg", "batch"} /\ block' = job[w] /\ canonical' = c
    BY <2>1, <2>3, <2>4, <2>5, <2>7 DEF HeavyInv, Writing
  <2> QED BY <2>2, <2>6, <2>7
<1>8. ASSUME ReorgNext \/ InsertCanon \/ InsertHeader \/ ReorgLookup \/ ReorgUnlink
      PROVE  HeavyInv'
  <2>1. UNCHANGED <<bodies, currentBlock, block, canonical>> /\ pc \in Writing /\ pc' \in Writing
    BY <1>8 DEF ReorgNext, InsertCanon, InsertHeader, ReorgLookup, ReorgUnlink, disk, memory,
                write, Writing
  <2> QED BY <2>1 DEF HeavyInv
<1>9. ASSUME InsertHead \/ InsertFast
      PROVE  HeavyInv'
  <2>1. /\ canonical /\ pc \in Writing /\ Heavier = block /\ currentBlock' = cur
        /\ bodies' = bodies
    BY <1>9 DEF InsertHead, InsertFast, ChainInv, WriteInv, Writing
  <2>2. \/ pc' = "free" /\ currentBlock' = block
        \/ pc' \in Writing /\ UNCHANGED <<block, canonical>>
    BY <1>9 DEF InsertHead, InsertFast, Inserted, ChainInv, WriteInv, Writing, write
  <2>3. \A b \in bodies : Td[b] <= Td[block]
    BY <1>1, <2>1
  <2> HIDE DEF Heavier
  <2> QED BY <2>1, <2>2, <2>3 DEF HeavyInv, Writing
<1>10. ASSUME WriteBatch
       PROVE  HeavyInv'
  <2>1. /\ pc \in Writing /\ bodies' = bodies \cup {block} /\ UNCHANGED currentBlock
        /\ IF canonical THEN pc' = "canon" /\ UNCHANGED <<block, canonical>> ELSE pc' = "free"
    BY <1>10 DEF WriteBatch, Writing, memory
  <2>2. Td[block] <= Td[block] /\ Td[Heavier] \in Nat
    BY <1>1, <1>2, <2>1, SMTT(30)
  <2>3. \A b \in bodies \cup {block} : Td[b] <= Td[Heavier]
    BY <1>1, <2>1, <2>2
  <2>4. CASE canonical
    BY <2>1, <2>3, <2>4 DEF HeavyInv, Writing
  <2>5. CASE ~canonical
    BY <2>1, <2>3, <2>5 DEF HeavyInv, Writing
  <2> QED BY <2>4, <2>5
<1> HIDE DEF Heavier
<1> QED
  BY <1>3, <1>4, <1>5, <1>6, <1>7, <1>8, <1>9, <1>10 DEF Next, Step

(* Of all blocks either writer imported none is heavier than the head,     *)
(* although WriteBlockAndState reads the parent's difficulty before it     *)
(* takes mu.                                                               *)
THEOREM BlockChainHeaviestHead == Spec => []HeaviestHead
<1>1. Init => HeavyInv
  <2>1. Td[Genesis] <= Td[Genesis]
    BY TreeAssumption, SMTT(30)
  <2> QED BY <2>1 DEF Init, HeavyInv, Writing
<1>2. ChainInv /\ HeavyInv /\ [Next]_vars => HeavyInv'
  <2>1. faults' # {} => HeavyInv'
    BY DEF HeavyInv
  <2> QED BY <2>1, FaultsStay, HeavyStep
<1>3. HeavyInv => HeaviestHead
  <2>1. HeavyInv /\ pc = "free" /\ faults = {} => \A b \in bodies : Td[b] <= Td[currentBlock]
    BY DEF HeavyInv, Writing
  <2> QED BY <2>1 DEF HeaviestHead, HasBlockAndState, GetBlock
<1> QED
  BY <1>1, <1>2, <1>3, ChainInductive, PTL DEF Spec

=============================================================================
