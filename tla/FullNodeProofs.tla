--------------------------- MODULE FullNodeProofs ---------------------------
(***************************************************************************)
(* What a reorg and a rewind of a full node leave behind, for any tree of  *)
(* blocks: the canonical numbers name the chain of the head                *)
(* (CanonicalUntilCrash), and the lookup entries the blocks of that chain  *)
(* (LookupCanonical).  And FastSync without a peer to sync with in fast    *)
(* mode is BlockChain, so what is proved of Spec holds in the worlds of    *)
(* FastSpec in which the node only imports and mines.                      *)
(***************************************************************************)
EXTENDS BlockChainProofs, FastSync

\* The prover of a leaf that names no other one.
USE ZenonT(60)

(* The numbers name the chain of h. *)
CanonOn(h) == \A a \in Ancestors[h] : canon[Number[a]] = a

(* No crash: a block on disk is on disk as a whole, but for the one SetHead *)
(* deletes.                                                                 *)
WholeInv ==
  /\ pc \notin {"down", "genesis"} /\ ~resetting
  /\ headers \subseteq states
  /\ headers \subseteq bodies \cup (IF pc = "rewindHeader" THEN {currentHeader} ELSE {})

(* The head block is on the chain the numbers name, the head header on it  *)
(* too, perhaps lower: the last insert of a reorg does not move it.        *)
HeadCanon ==
  pc = "free" \/ (pc \in Writing /\ ~canonical) =>
    currentHeader \in Ancestors[currentBlock] /\ CanonOn(currentBlock)

(* During insert and reorg: of the chain of the new block what is not      *)
(* still to do is in place, and a head header on the chain that is         *)
(* abandoned is sure to be moved.                                          *)
ReorgCanon ==
  pc \in Writing /\ canonical =>
    /\ todo \subseteq Ancestors[block]
    /\ \A a \in Ancestors[block] \ (todo \cup {block}) : canon[Number[a]] = a
    /\ pc \in {"head", "header", "fast", "lookup"} => canon[Number[cur]] = cur
    /\ \/ currentHeader \in Ancestors[block]
       \/ \E x \in todo : canon[Number[x]] # x
       \/ pc = "head" /\ updateHeads
       \/ pc = "header"

(* During SetHead: the head header moves down the chain of the head block, *)
(* and only numbers above it are deleted.                                  *)
RewindCanon ==
  /\ pc \in {"rewind", "rewindHeader", "rewindTd"} =>
       /\ currentBlock \in Blocks /\ CanonOn(currentBlock)
       /\ currentHeader \in Ancestors[currentBlock] \cup {None}
  /\ pc = "unnumber" =>
       /\ currentBlock \in Blocks
       /\ currentHeader \in Ancestors[currentBlock] \cup {None}
       /\ currentHeader # None => Number[currentHeader] <= target
       /\ CanonOn(OrGenesis(currentHeader))
  /\ pc = "blocks" =>
       /\ currentBlock \in Blocks /\ currentHeader \in Ancestors[currentBlock]
       /\ headHeader = currentHeader /\ CanonOn(currentHeader)
  /\ pc \in {"rewindFast", "load"} =>
       headHeader = headBlock /\ CanonOn(headBlock)

CanonInv == WholeInv /\ HeadCanon /\ ReorgCanon /\ RewindCanon

-----------------------------------------------------------------------------
(* The tree of blocks.  Induction along the parents, by a block of least   *)
(* number that is not in S.                                                *)
LEMMA TreeInduction ==
  ASSUME NEW S \in SUBSET Blocks, Genesis \in S,
         \A b \in Blocks \ {Genesis} : Parent[b] \in S => b \in S
  PROVE  S = Blocks
<1> DEFINE T == {Number[b] : b \in Blocks \ S}
<1>1. /\ \A b \in Blocks : Number[b] \in Nat
      /\ \A b \in Blocks \ {Genesis} : Parent[b] \in Blocks /\ Number[b] = Number[Parent[b]] + 1
  BY TreeAssumption, SMTT(30)
<1>2. SUFFICES ASSUME Blocks \ S # {} PROVE FALSE
  OBVIOUS
<1>3. T \in SUBSET Nat /\ T # {}
  BY <1>1, <1>2, SMTT(30)
<1>4. PICK n \in T : \A m \in T : n <= m
  <2> HIDE DEF T
  <2> QED BY <1>3, LeastNumber
<1>5. PICK b \in Blocks \ S : n = Number[b]
  OBVIOUS
<1>6. b # Genesis /\ Parent[b] \in Blocks \ S
  BY <1>1, <1>5
<1>7. Number[b] <= Number[Parent[b]]
  BY <1>4, <1>5, <1>6, SMTT(30)
<1> QED
  BY <1>1, <1>5, <1>6, <1>7, SMTT(30)

(* An ancestor of a block is the block itself or lower and lighter. *)
LEMMA AncestorsBelow ==
  ASSUME NEW b \in Blocks, NEW a \in Ancestors[b]
  PROVE  /\ a \in Blocks /\ Number[a] <= Number[b] /\ Td[a] <= Td[b]
         /\ Number[a] = Number[b] \/ Td[a] = Td[b] => a = b
<1> DEFINE P(x, y) == /\ y \in Blocks /\ Number[y] <= Number[x] /\ Td[y] <= Td[x]
                      /\ Number[y] = Number[x] => y = x
                      /\ Td[y] = Td[x] => y = x
           S == {x \in Blocks : \A y \in Ancestors[x] : P(x, y)}
<1>1. \A x \in Blocks : Number[x] \in Nat /\ Td[x] \in Nat
  BY TreeAssumption, SMTT(30)
<1>2. Genesis \in S
  <2>1. Genesis \in Blocks /\ Ancestors[Genesis] = {Genesis}
    BY TreeAssumption, AncestorsOf
  <2> QED BY <1>1, <2>1, SMTT(30)
<1>3. ASSUME NEW x \in Blocks \ {Genesis}, Parent[x] \in S PROVE x \in S
  <2>1. /\ Parent[x] \in Blocks /\ Number[x] = Number[Parent[x]] + 1 /\ Td[x] > Td[Parent[x]]
        /\ Ancestors[x] = {x} \cup Ancestors[Parent[x]]
    BY TreeAssumption, AncestorsOf
  <2>2. ASSUME NEW y \in Ancestors[x] PROVE P(x, y)
    <3>1. CASE y = x
      BY <1>1, <3>1, SMTT(30)
    <3>2. CASE y \in Ancestors[Parent[x]]
      <4>1. P(Parent[x], y)
        BY <1>3, <3>2
      <4>2. /\ y \in Blocks /\ Number[y] <= Number[Parent[x]] /\ Td[y] <= Td[Parent[x]]
        BY <4>1
      <4>3. /\ Number[y] \in Nat /\ Td[y] \in Nat /\ Number[x] \in Nat /\ Td[x] \in Nat
            /\ Number[Parent[x]] \in Nat /\ Td[Parent[x]] \in Nat
        BY <1>1, <2>1, <4>2
      <4>4. Number[y] < Number[x] /\ Td[y] < Td[x]
        BY <2>1, <4>2, <4>3, SMTT(30)
      <4> QED BY <4>2, <4>3, <4>4, SMTT(30)
    <3> QED BY <2>1, <2>2, <3>1, <3>2
  <2> QED BY <2>2
<1>4. S = Blocks
  <2>1. S \in SUBSET Blocks
    OBVIOUS
  <2> HIDE DEF S
  <2> QED BY <1>2, <1>3, <2>1, TreeInduction
<1>5. P(b, a)
  BY <1>4, SMTT(30)
<1> QED
  BY <1>5

(* The ancestors of an ancestor are ancestors. *)
LEMMA AncestorsTransitive ==
  ASSUME NEW b \in Blocks, NEW a \in Ancestors[b]
  PROVE  Ancestors[a] \subseteq Ancestors[b]
<1> DEFINE S == {x \in Blocks : \A y \in Ancestors[x] : Ancestors[y] \subseteq Ancestors[x]}
<1>1. Genesis \in S
  <2>1. Genesis \in Blocks /\ Ancestors[Genesis] = {Genesis}
    BY TreeAssumption, AncestorsOf
  <2> QED BY <2>1
<1>2. ASSUME NEW x \in Blocks \ {Genesis}, Parent[x] \in S PROVE x \in S
  <2>1. Ancestors[x] = {x} \cup Ancestors[Parent[x]]
    BY AncestorsOf
  <2> QED BY <1>2, <2>1
<1>3. S = Blocks
  <2>1. S \in SUBSET Blocks
    OBVIOUS
  <2> HIDE DEF S
  <2> QED BY <1>1, <1>2, <2>1, TreeInduction
<1> QED
  BY <1>3

(* There is one ancestor for each number up to the block's. *)
LEMMA AncestorAt ==
  ASSUME NEW b \in Blocks, NEW n \in Nat, n <= Number[b]
  PROVE  \E a \in Ancestors[b] : Number[a] = n
<1> DEFINE S == {x \in Blocks : \A m \in Nat : m <= Number[x] =>
                                  \E y \in Ancestors[x] : Number[y] = m}
<1>1. Genesis \in S
  <2>1. Genesis \in Blocks /\ Genesis \in Ancestors[Genesis] /\ Number[Genesis] = 0
    BY TreeAssumption, AncestorsOf
  <2>2. \A m \in Nat : m <= 0 => m = 0
    BY SMTT(30)
  <2> QED BY <2>1, <2>2
<1>2. ASSUME NEW x \in Blocks \ {Genesis}, Parent[x] \in S PROVE x \in S
  <2>1. /\ Ancestors[x] = {x} \cup Ancestors[Parent[x]]
        /\ Parent[x] \in Blocks /\ Number[x] = Number[Parent[x]] + 1
        /\ Number[Parent[x]] \in Nat
    BY TreeAssumption, AncestorsOf, SMTT(30)
  <2>2. \A m \in Nat : m <= Number[x] => m <= Number[Parent[x]] \/ m = Number[x]
    BY <2>1, SMTT(30)
  <2>3. \A m \in Nat : m <= Number[Parent[x]] => \E y \in Ancestors[Parent[x]] : Number[y] = m
    BY <1>2
  <2> QED BY <2>1, <2>2, <2>3
<1>3. S = Blocks
  <2>1. S \in SUBSET Blocks
    OBVIOUS
  <2> HIDE DEF S
  <2> QED BY <1>1, <1>2, <2>1, TreeInduction
<1> QED
  BY <1>3

(* The genesis block is below every block. *)
LEMMA GenesisBelow ==
  ASSUME NEW b \in Blocks
  PROVE  Genesis \in Ancestors[b]
<1>1. Number[b] \in Nat
  BY TreeAssumption, SMTT(30)
<1>2. PICK a \in Ancestors[b] : Number[a] = 0
  BY <1>1, AncestorAt, SMTT(30)
<1> QED
  BY <1>2, AncestorsBelow, TreeAssumption

(* Of two ancestors of a block one is an ancestor of the other. *)
LEMMA AncestorsComparable ==
  ASSUME NEW b \in Blocks, NEW a \in Ancestors[b], NEW c \in Ancestors[b]
  PROVE  a \in Ancestors[c] \/ c \in Ancestors[a]
<1> DEFINE S == {x \in Blocks : \A y, z \in Ancestors[x] : y \in Ancestors[z] \/ z \in Ancestors[y]}
<1>1. Genesis \in S
  <2>1. Genesis \in Blocks /\ Ancestors[Genesis] = {Genesis}
    BY TreeAssumption, AncestorsOf
  <2> QED BY <2>1
<1>2. ASSUME NEW x \in Blocks \ {Genesis}, Parent[x] \in S PROVE x \in S
  <2>1. Ancestors[x] = {x} \cup Ancestors[Parent[x]]
    BY AncestorsOf
  <2> QED BY <1>2, <2>1
<1>3. S = Blocks
  <2>1. S \in SUBSET Blocks
    OBVIOUS
  <2> HIDE DEF S
  <2> QED BY <1>1, <1>2, <2>1, TreeInduction
<1> QED
  BY <1>3

(* A chain has one block of a number, and one block with a transaction. *)
LEMMA OneOnChain ==
  ASSUME NEW b \in Blocks, NEW a \in Ancestors[b], NEW c \in Ancestors[b]
  PROVE  /\ Number[a] = Number[c] => a = c
         /\ TxsOf[a] \cap TxsOf[c] # {} => a = c
<1>1. a \in Blocks /\ c \in Blocks
  BY AncestorsBelow
<1>2. a \in Ancestors[c] \/ c \in Ancestors[a]
  BY AncestorsComparable
<1>3. Number[a] = Number[c] => a = c
  BY <1>1, <1>2, AncestorsBelow
<1>4. TxsOf[a] \cap TxsOf[c] # {} => a = c
  BY <1>1, <1>2, TxAssumption
<1> QED
  BY <1>3, <1>4

-----------------------------------------------------------------------------
(* The canonical numbers.  The writers before they take mu change neither  *)
(* the disk nor the heads.                                                 *)
LEMMA WritersCanon ==
  ASSUME CanonInv,
         \/ \E b \in world.blocks : InsertChain(b) \/ Seal(b)
         \/ \E w \in Writers : ReadParentTd(w)
  PROVE  CanonInv'
<1>1. UNCHANGED <<disk, memory, pc, block, canonical, todo, cur, updateHeads, rewind>>
  BY DEF InsertChain, Seal, ReadParentTd
<1> QED
  BY <1>1 DEF CanonInv, WholeInv, HeadCanon, ReorgCanon, RewindCanon, CanonOn, OrGenesis, disk,
              memory, rewind

(* A chain of which every block is already canonical extends the head. *)
LEMMA NothingToMove ==
  ASSUME NEW b \in Blocks, currentBlock \in Blocks, CanonOn(currentBlock),
         b \notin Ancestors[currentBlock], \A x \in NewChain(b) : canon[Number[x]] = x
  PROVE  currentBlock \in Ancestors[b]
<1>1. Number[b] \in Nat /\ Number[currentBlock] \in Nat
  BY TreeAssumption, SMTT(30)
<1>2. b \in NewChain(b) /\ canon[Number[b]] = b
  BY AncestorsOf DEF NewChain
<1>3. CASE Number[b] <= Number[currentBlock]
  <2>1. PICK a \in Ancestors[currentBlock] : Number[a] = Number[b]
    BY <1>1, <1>3, AncestorAt
  <2>2. canon[Number[a]] = a
    BY DEF CanonOn
  <2> QED BY <1>2, <2>1, <2>2
<1>4. CASE Number[currentBlock] <= Number[b]
  <2>1. PICK y \in Ancestors[b] : Number[y] = Number[currentBlock]
    BY <1>1, <1>4, AncestorAt
  <2>2. canon[Number[currentBlock]] = currentBlock /\ currentBlock \in Ancestors[currentBlock]
    BY AncestorsOf DEF CanonOn
  <2>3. CASE y \in Ancestors[currentBlock]
    BY <2>1, <2>2, <2>3, OneOnChain
  <2>4. CASE y \notin Ancestors[currentBlock]
    BY <2>1, <2>2, <2>4 DEF NewChain
  <2> QED BY <2>3, <2>4
<1> QED
  BY <1>1, <1>3, <1>4, SMTT(30)

(* WriteBlockAndState: the blocks the two chains share are in place.       *)
LEMMA WriteBlockAndStateCanon ==
  ASSUME ChainInv, CanonInv, NEW w \in Writers, WriteBlockAndState(w)
  PROVE  CanonInv'
<1>1. /\ pc = "free" /\ w \in ready
      /\ UNCHANGED <<headers, bodies, states, canon, headBlock, headHeader, currentBlock,
                     currentHeader, currentFastBlock, resetting>>
  BY DEF WriteBlockAndState, memory, rewind
<1>2. /\ job[w] \in Blocks \ {Genesis} /\ currentBlock \in Blocks
      /\ currentHeader \in Ancestors[currentBlock] /\ CanonOn(currentBlock)
  BY <1>1 DEF ChainInv, JobType, FreeInv, DiskType, CanonInv, HeadCanon
<1>3. PICK c \in ForkChoice(job[w]) :
        LET reorg == c /\ Parent[job[w]] # currentBlock IN
        \/ pc' = "free"
        \/ /\ pc' = (IF reorg THEN "reorg" ELSE "batch")
           /\ block' = job[w] /\ canonical' = c
           /\ todo' = (IF reorg THEN NewChain(job[w]) ELSE {})
  BY DEF WriteBlockAndState
<1>4. WholeInv' /\ RewindCanon'
  <2>1. pc' \in {"free", "reorg", "batch"}
    BY <1>3
  <2> QED BY <1>1, <2>1 DEF CanonInv, WholeInv, RewindCanon
<1>5. HeadCanon'
  BY <1>1, <1>2 DEF HeadCanon, CanonOn
<1>6. CASE pc' = "free" \/ ~canonical'
  <2>1. ReorgCanon'
    BY <1>6 DEF ReorgCanon, Writing
  <2> QED BY <1>4, <1>5, <2>1 DEF CanonInv
<1>7. CASE /\ c /\ Parent[job[w]] # currentBlock /\ pc' = "reorg"
           /\ block' = job[w] /\ todo' = NewChain(job[w])
  <2>1. /\ NewChain(job[w]) \subseteq Ancestors[job[w]]
        /\ \A a \in Ancestors[job[w]] \ NewChain(job[w]) : canon[Number[a]] = a
    BY <1>2 DEF NewChain, CanonOn
  <2>2. currentHeader \in Ancestors[job[w]] \/ \E x \in NewChain(job[w]) : canon[Number[x]] # x
    <3>1. CASE job[w] \in Ancestors[currentBlock]
      <4>1. Td[job[w]] >= Td[currentBlock]
        BY <1>2, <1>7, TreeAssumption, SMTT(30) DEF ForkChoice
      <4>2. Td[job[w]] <= Td[currentBlock] /\ (Td[job[w]] = Td[currentBlock] => job[w] = currentBlock)
        BY <1>2, <3>1, AncestorsBelow
      <4>3. Td[job[w]] \in Nat /\ Td[currentBlock] \in Nat
        BY <1>2, TreeAssumption
      <4>4. job[w] = currentBlock
        BY <4>1, <4>2, <4>3, SMTT(30)
      <4> QED BY <1>2, <4>4
    <3>2. CASE job[w] \notin Ancestors[currentBlock] /\ \A x \in NewChain(job[w]) : canon[Number[x]] = x
      <4>1. currentBlock \in Ancestors[job[w]]
        BY <1>2, <3>2, NothingToMove
      <4> QED BY <1>2, <4>1, AncestorsTransitive
    <3> QED BY <3>1, <3>2
  <2>3. ReorgCanon'
    BY <1>1, <1>7, <2>1, <2>2 DEF ReorgCanon
  <2> QED BY <1>4, <1>5, <2>3 DEF CanonInv
<1>8. CASE /\ Parent[job[w]] = currentBlock /\ pc' = "batch"
           /\ block' = job[w] /\ todo' = {}
  <2>1. Ancestors[job[w]] = {job[w]} \cup Ancestors[currentBlock]
    BY <1>2, <1>8, AncestorsOf
  <2>2. ReorgCanon'
    BY <1>1, <1>2, <1>8, <2>1 DEF ReorgCanon, CanonOn
  <2> QED BY <1>4, <1>5, <2>2 DEF CanonInv
<1> QED
  BY <1>3, <1>6, <1>7, <1>8, SMTT(30)

(* During reorg cur is a block of the new chain. *)
LEMMA CurOnChain ==
  ASSUME ChainInv, CanonInv, pc \in {"canon", "head", "header", "fast", "lookup"}
  PROVE  /\ canonical /\ pc \in Writing /\ block \in Blocks /\ cur \in Ancestors[block]
         /\ cur \in Blocks /\ Number[cur] \in Numbers
<1>1. canonical /\ pc \in Writing /\ block \in Blocks
  BY DEF ChainInv, WriteInv, DiskType, Writing
<1>2. cur \in todo \/ cur = block
  BY <1>1 DEF ChainInv, WriteInv
<1>3. cur \in Ancestors[block]
  BY <1>1, <1>2, AncestorsOf DEF CanonInv, ReorgCanon
<1>4. cur \in Blocks
  BY <1>1, <1>3, AncestorsBelow
<1> QED
  BY <1>1, <1>3, <1>4, TreeAssumption DEF Numbers

(* The steps of reorg between two inserts. *)
LEMMA ReorgCanonKept ==
  ASSUME ChainInv, CanonInv, ReorgNext \/ ReorgLookup \/ ReorgUnlink
  PROVE  CanonInv'
<1>1. /\ pc \in {"reorg", "lookup", "unlink"} /\ pc' \in {"canon", "reorg", "unlink", "batch"}
      /\ todo' = todo \/ (pc = "lookup" /\ todo' = todo \ {cur})
      /\ UNCHANGED <<headers, bodies, states, canon, currentBlock, currentHeader, block,
                     canonical, resetting>>
  BY DEF ReorgNext, ReorgLookup, ReorgUnlink, disk, memory, rewind
<1>2. canonical /\ pc \in Writing /\ pc' \in Writing
  BY <1>1 DEF ChainInv, WriteInv, Writing
<1>3. WholeInv' /\ HeadCanon' /\ RewindCanon'
  BY <1>1, <1>2 DEF CanonInv, WholeInv, HeadCanon, RewindCanon
<1>4. /\ todo \subseteq Ancestors[block]
      /\ \A a \in Ancestors[block] \ (todo \cup {block}) : canon[Number[a]] = a
      /\ pc = "lookup" => canon[Number[cur]] = cur
      /\ currentHeader \in Ancestors[block] \/ \E x \in todo : canon[Number[x]] # x
  BY <1>1, <1>2 DEF CanonInv, ReorgCanon
<1>5. /\ todo' \subseteq Ancestors[block]
      /\ \A a \in Ancestors[block] \ (todo' \cup {block}) : canon[Number[a]] = a
      /\ currentHeader \in Ancestors[block] \/ \E x \in todo' : canon[Number[x]] # x
  BY <1>1, <1>4, SMTT(30)
<1>6. ReorgCanon'
  BY <1>1, <1>5 DEF ReorgCanon
<1> QED
  BY <1>3, <1>6 DEF CanonInv

(* insert writes the number of cur; the other blocks of the new chain have *)
(* other numbers.                                                          *)
LEMMA InsertCanonCanon ==
  ASSUME ChainInv, CanonInv, InsertCanon
  PROVE  CanonInv'
<1>1. /\ pc = "canon" /\ pc' = "head" /\ updateHeads' = (canon[Number[cur]] # cur)
      /\ canon' = [canon EXCEPT ![Number[cur]] = cur]
      /\ UNCHANGED <<headers, bodies, states, currentBlock, currentHeader, todo, cur, block,
                     canonical, resetting>>
  BY DEF InsertCanon, memory, rewind
<1>2. /\ canonical /\ pc \in Writing /\ block \in Blocks /\ cur \in Ancestors[block]
      /\ cur \in Blocks /\ Number[cur] \in Numbers
  BY <1>1, CurOnChain
<1>3. WholeInv' /\ HeadCanon' /\ RewindCanon'
  BY <1>1, <1>2 DEF CanonInv, WholeInv, HeadCanon, RewindCanon
<1>4. canon \in [Numbers -> Blocks \cup {None}]
  BY DEF ChainInv, DiskType
<1>5. canon'[Number[cur]] = cur
  BY <1>1, <1>2, <1>4
<1>6. ASSUME NEW a \in Ancestors[block] PROVE canon'[Number[a]] = canon[Number[a]] \/ a = cur
  <2>1. Number[a] = Number[cur] => a = cur
    BY <1>2, OneOnChain
  <2>2. a \in Blocks
    BY <1>2, AncestorsBelow
  <2>3. Number[a] \in Numbers
    BY <2>2, TreeAssumption DEF Numbers
  <2> QED BY <1>1, <1>4, <2>1, <2>3
<1>7. /\ todo \subseteq Ancestors[block]
      /\ \A a \in Ancestors[block] \ (todo \cup {block}) : canon[Number[a]] = a
      /\ currentHeader \in Ancestors[block] \/ \E x \in todo : canon[Number[x]] # x
  BY <1>1, <1>2 DEF CanonInv, ReorgCanon
<1>8. \A a \in Ancestors[block] \ (todo \cup {block}) : canon'[Number[a]] = a
  BY <1>5, <1>6, <1>7
<1>9. \/ currentHeader \in Ancestors[block] \/ \E x \in todo : canon'[Number[x]] # x
      \/ updateHeads'
  <2>1. ASSUME NEW x \in todo, canon[Number[x]] # x, x # cur PROVE canon'[Number[x]] # x
    BY <1>6, <1>7, <2>1
  <2>2. ASSUME canon[Number[cur]] # cur PROVE updateHeads'
    BY <1>1, <2>2
  <2> QED BY <1>7, <2>1, <2>2
<1>10. ReorgCanon'
  BY <1>1, <1>5, <1>7, <1>8, <1>9 DEF ReorgCanon
<1> QED
  BY <1>3, <1>10 DEF CanonInv

(* insert moves the heads to cur; after the last one the whole chain of    *)
(* the new head is in place.                                               *)
LEMMA InsertHeadsCanon ==
  ASSUME ChainInv, CanonInv, InsertHead \/ InsertHeader \/ InsertFast
  PROVE  CanonInv'
<1>1. /\ pc \in {"head", "header", "fast"} /\ pc' \in {"header", "fast", "lookup", "free"}
      /\ currentHeader' = (IF pc = "header" THEN cur ELSE currentHeader)
      /\ currentBlock' = (IF pc = "head" THEN cur ELSE currentBlock)
      /\ UNCHANGED <<headers, bodies, states, canon, resetting>>
  BY DEF InsertHead, InsertHeader, InsertFast, Inserted, rewind
<1>2. \/ pc' # "free" /\ UNCHANGED <<todo, cur, block, canonical, updateHeads>>
      \/ pc' = "free" /\ cur \notin todo /\ pc # "header"
  BY DEF InsertHead, InsertHeader, InsertFast, Inserted, write
<1>3. pc = "head" /\ pc' # "header" => ~updateHeads
  BY DEF InsertHead, InsertHeader, InsertFast
<1>4. /\ canonical /\ pc \in Writing /\ block \in Blocks /\ cur \in Ancestors[block]
  BY <1>1, CurOnChain
<1>5. /\ todo \subseteq Ancestors[block] /\ canon[Number[cur]] = cur
      /\ \A a \in Ancestors[block] \ (todo \cup {block}) : canon[Number[a]] = a
      /\ \/ currentHeader \in Ancestors[block] \/ \E x \in todo : canon[Number[x]] # x
         \/ pc = "head" /\ updateHeads
         \/ pc = "header"
  BY <1>1, <1>4 DEF CanonInv, ReorgCanon
<1>6. WholeInv' /\ RewindCanon'
  BY <1>1 DEF CanonInv, WholeInv, RewindCanon
<1>7. \/ currentHeader' \in Ancestors[block] \/ \E x \in todo : canon[Number[x]] # x
      \/ pc' = "header"
  BY <1>1, <1>3, <1>4, <1>5
<1>8. CASE pc' # "free"
  <2>1. HeadCanon'
    BY <1>2, <1>4, <1>8 DEF HeadCanon
  <2>2. ReorgCanon'
    BY <1>1, <1>2, <1>5, <1>7, <1>8 DEF ReorgCanon
  <2> QED BY <1>6, <2>1, <2>2 DEF CanonInv
<1>9. CASE pc' = "free"
  <2>1. cur = block /\ todo = {} /\ currentBlock' = block
    BY <1>1, <1>2, <1>4, <1>9 DEF ChainInv, WriteInv
  <2>2. currentHeader' \in Ancestors[block]
    BY <1>7, <1>9, <2>1
  <2>3. \A a \in Ancestors[block] : canon[Number[a]] = a
    BY <1>5, <2>1
  <2>4. HeadCanon'
    BY <1>1, <2>1, <2>2, <2>3 DEF HeadCanon, CanonOn
  <2>5. ReorgCanon'
    BY <1>9 DEF ReorgCanon, Writing
  <2> QED BY <1>6, <2>4, <2>5 DEF CanonInv
<1> QED
  BY <1>8, <1>9

(* The batch writes the block as a whole. *)
LEMMA WriteBatchCanon ==
  ASSUME ChainInv, CanonInv, WriteBatch
  PROVE  CanonInv'
<1>1. /\ pc = "batch" /\ pc' = (IF canonical THEN "canon" ELSE "free")
      /\ headers' = headers \cup {block} /\ bodies' = bodies \cup {block}
      /\ states' = states \cup {block}
      /\ canonical => UNCHANGED <<todo, block, canonical>>
      /\ UNCHANGED <<canon, currentBlock, currentHeader, resetting>>
  BY DEF WriteBatch, memory, rewind
<1>2. WholeInv' /\ RewindCanon'
  BY <1>1 DEF CanonInv, WholeInv, RewindCanon
<1>3. HeadCanon'
  BY <1>1 DEF CanonInv, HeadCanon, CanonOn, Writing
<1>4. ReorgCanon'
  BY <1>1 DEF CanonInv, ReorgCanon, Writing
<1> QED
  BY <1>2, <1>3, <1>4 DEF CanonInv

-----------------------------------------------------------------------------
(* SetHead: the head header moves down its own chain. *)
LEMMA SetHeadCanon ==
  ASSUME ChainInv, CanonInv, NEW n \in Numbers, SetHead(n)
  PROVE  CanonInv'
<1>1. pc = "free" /\ pc' = "rewind" /\ UNCHANGED <<disk, memory, write, resetting>>
  BY DEF SetHead
<1>2. currentBlock \in Blocks
  BY <1>1 DEF ChainInv, FreeInv, DiskType
<1>3. WholeInv' /\ HeadCanon' /\ ReorgCanon'
  BY <1>1 DEF CanonInv, WholeInv, HeadCanon, ReorgCanon, Writing, disk
<1>4. RewindCanon'
  BY <1>1, <1>2 DEF CanonInv, HeadCanon, RewindCanon, CanonOn, disk, memory
<1> QED
  BY <1>3, <1>4 DEF CanonInv

(* The deletion of the headers above the target. *)
LEMMA RewindHeadersCanon ==
  ASSUME ChainInv, CanonInv, RewindBody \/ RewindHeader \/ RewindTd
  PROVE  CanonInv'
<1>1. /\ pc \in {"rewind", "rewindHeader", "rewindTd"}
      /\ pc' \in {"rewind", "rewindHeader", "rewindTd", "unnumber"}
      /\ UNCHANGED <<states, canon, currentBlock, target, resetting>>
  BY DEF RewindBody, RewindHeader, RewindTd, memory, rewind
<1>2. HeadCanon' /\ ReorgCanon'
  BY <1>1 DEF HeadCanon, ReorgCanon, Writing
<1>3. /\ currentBlock \in Blocks /\ CanonOn(currentBlock)
      /\ currentHeader \in Ancestors[currentBlock] \cup {None}
  BY <1>1 DEF CanonInv, RewindCanon
<1>4. WholeInv'
  BY <1>1 DEF CanonInv, WholeInv, RewindBody, RewindHeader, RewindTd, memory
<1>5. currentHeader' \in Ancestors[currentBlock] \cup {None}
  <2>1. CASE RewindBody \/ RewindHeader
    BY <1>3, <2>1 DEF RewindBody, RewindHeader, memory
  <2>2. CASE RewindTd
    <3>1. currentHeader \in Blocks \ {Genesis} /\ currentHeader \in Ancestors[currentBlock]
      BY <1>3, <2>2, TreeAssumption DEF RewindTd, ChainInv, DiskInv
    <3>2. Parent[currentHeader] \in Blocks /\ Parent[currentHeader] \in Ancestors[currentHeader]
      BY <3>1, AncestorsOf, TreeAssumption
    <3>3. Ancestors[currentHeader] \subseteq Ancestors[currentBlock]
      BY <1>3, <3>1, AncestorsTransitive
    <3> QED BY <2>2, <3>2, <3>3 DEF RewindTd
  <2> QED BY <2>1, <2>2
<1>6. ASSUME pc' = "unnumber"
      PROVE  /\ currentHeader' # None => Number[currentHeader'] <= target
             /\ \A a \in Ancestors[OrGenesis(currentHeader')] : canon[Number[a]] = a
  <2>1. ~Above /\ currentHeader' = currentHeader
    BY <1>6 DEF RewindBody, RewindHeader, RewindTd, memory
  <2>2. Number[currentBlock] \in Nat /\ target \in Nat
    BY <1>3, TreeAssumption, SMTT(30) DEF ChainInv, RewindType, Numbers
  <2>3. currentHeader # None => Number[currentHeader] <= target
    <3>1. ASSUME currentHeader # None PROVE currentHeader \in Blocks
      BY <1>3, <3>1, AncestorsBelow
    <3>2. ASSUME currentHeader # None PROVE Number[currentHeader] \in Nat
      BY <3>1, <3>2, TreeAssumption, SMTT(30)
    <3> QED BY <2>1, <2>2, <3>2, SMTT(30) DEF Above
  <2>4. OrGenesis(currentHeader) \in Ancestors[currentBlock]
    <3>1. CASE currentHeader # None
      BY <1>3, <3>1 DEF OrGenesis
    <3>2. CASE currentHeader = None
      BY <1>3, <3>2, GenesisBelow DEF OrGenesis
    <3> QED BY <3>1, <3>2
  <2>5. Ancestors[OrGenesis(currentHeader)] \subseteq Ancestors[currentBlock]
    BY <1>3, <2>4, AncestorsTransitive
  <2>6. \A a \in Ancestors[OrGenesis(currentHeader)] : canon[Number[a]] = a
    BY <1>3, <2>5 DEF CanonOn
  <2> QED BY <2>1, <2>3, <2>6
<1>7. CanonOn(currentBlock)'
  BY <1>1, <1>3 DEF CanonOn
<1>8. pc' = "unnumber" => CanonOn(OrGenesis(currentHeader))'
  BY <1>1, <1>6 DEF CanonOn, OrGenesis
<1>9. RewindCanon'
  BY <1>1, <1>3, <1>5, <1>6, <1>7, <1>8 DEF RewindCanon
<1> QED
  BY <1>2, <1>4, <1>9 DEF CanonInv

(* The numbers above the target are deleted; the chain of the head header  *)
(* lies at or below it.                                                    *)
LEMMA UnnumberCanon ==
  ASSUME ChainInv, CanonInv, Unnumber
  PROVE  CanonInv'
<1>1. /\ pc = "unnumber" /\ pc' \in {"unnumber", "blocks"}
      /\ UNCHANGED <<headers, bodies, states, currentBlock, target, resetting>>
  BY DEF Unnumber
<1>2. WholeInv' /\ HeadCanon' /\ ReorgCanon'
  BY <1>1 DEF CanonInv, WholeInv, HeadCanon, ReorgCanon, Writing
<1>3. /\ currentBlock \in Blocks /\ currentHeader \in Ancestors[currentBlock] \cup {None}
      /\ currentHeader # None => Number[currentHeader] <= target
      /\ CanonOn(OrGenesis(currentHeader))
  BY <1>1 DEF CanonInv, RewindCanon
<1>4. OrGenesis(currentHeader) \in Blocks /\ Number[OrGenesis(currentHeader)] <= target
  <2>1. Genesis \in Blocks /\ Number[Genesis] = 0 /\ target \in Nat
    BY TreeAssumption, SMTT(30) DEF ChainInv, RewindType, Numbers
  <2>2. currentHeader # None => currentHeader \in Blocks
    BY <1>3, AncestorsBelow
  <2> QED BY <1>3, <2>1, <2>2, SMTT(30) DEF OrGenesis
<1>5. CASE Numbered
  <2>1. canon' = [canon EXCEPT ![top] = None] /\ UNCHANGED <<pc, currentHeader>>
    BY <1>5 DEF Unnumber
  <2>2. canon \in [Numbers -> Blocks \cup {None}] /\ top \in Nat /\ target \in Nat /\ top > target
    BY <1>5, TreeAssumption, SMTT(30) DEF ChainInv, DiskType, RewindType, Numbers, Numbered
  <2>3. ASSUME NEW a \in Ancestors[OrGenesis(currentHeader)] PROVE canon'[Number[a]] = a
    <3>1. a \in Blocks /\ Number[a] <= Number[OrGenesis(currentHeader)]
      BY <1>4, AncestorsBelow
    <3>2. /\ Number[a] \in Nat /\ Number[a] \in Numbers
          /\ Number[OrGenesis(currentHeader)] \in Nat
      BY <1>4, <3>1, TreeAssumption, SMTT(30) DEF Numbers
    <3>3. Number[a] # top
      BY <1>4, <2>2, <3>1, <3>2, SMTT(30)
    <3>4. canon[Number[a]] = a
      BY <1>3 DEF CanonOn
    <3> QED BY <2>1, <2>2, <3>2, <3>3, <3>4
  <2>4. CanonOn(OrGenesis(currentHeader))'
    BY <2>1, <2>3 DEF CanonOn, OrGenesis
  <2>5. RewindCanon'
    BY <1>1, <1>3, <2>1, <2>4 DEF RewindCanon
  <2> QED BY <1>2, <2>5 DEF CanonInv
<1>6. CASE ~Numbered
  <2>1. /\ currentHeader' = OrGenesis(currentHeader) /\ headHeader' = currentHeader'
        /\ pc' = "blocks" /\ UNCHANGED canon
    BY <1>6 DEF Unnumber, OrGenesis
  <2>2. OrGenesis(currentHeader) \in Ancestors[currentBlock]
    <3>1. CASE currentHeader # None
      BY <1>3, <3>1 DEF OrGenesis
    <3>2. CASE currentHeader = None
      BY <1>3, <3>2, GenesisBelow DEF OrGenesis
    <3> QED BY <3>1, <3>2
  <2>3. CanonOn(currentHeader)'
    BY <1>3, <2>1 DEF CanonOn
  <2>4. RewindCanon'
    BY <1>1, <1>3, <2>1, <2>2, <2>3 DEF RewindCanon
  <2> QED BY <1>2, <2>4 DEF CanonInv
<1> QED
  BY <1>5, <1>6

(* The head block becomes the block of the head header, which is complete. *)
LEMMA RewindBlocksCanon ==
  ASSUME ChainInv, CanonInv, RewindBlocks
  PROVE  CanonInv'
<1>1. /\ pc = "blocks" /\ pc' = "rewindFast"
      /\ currentBlock' = (IF Rewound(currentBlock) \in states THEN Rewound(currentBlock) ELSE Genesis)
      /\ headBlock' = currentBlock'
      /\ UNCHANGED <<headers, bodies, states, canon, headHeader, currentHeader, resetting>>
  BY DEF RewindBlocks, rewind
<1>2. WholeInv' /\ HeadCanon' /\ ReorgCanon'
  BY <1>1 DEF CanonInv, WholeInv, HeadCanon, ReorgCanon, Writing
<1>3. /\ currentBlock \in Blocks /\ currentHeader \in Ancestors[currentBlock]
      /\ CanonOn(currentHeader) /\ currentHeader \in headers \cap bodies \cap states
      /\ headHeader = currentHeader
  BY <1>1 DEF CanonInv, WholeInv, RewindCanon, ChainInv, RewindInv
<1>4. Rewound(currentBlock) = currentHeader
  <2>1. /\ currentHeader \in Blocks /\ Number[currentHeader] <= Number[currentBlock]
        /\ Number[currentHeader] = Number[currentBlock] => currentHeader = currentBlock
    BY <1>3, AncestorsBelow
  <2>2. Number[currentHeader] \in Nat /\ Number[currentBlock] \in Nat /\ None \notin Blocks
    BY <1>3, <2>1, TreeAssumption, SMTT(30)
  <2> QED BY <1>3, <2>1, <2>2, SMTT(30) DEF Rewound, GetBlock
<1>5. RewindCanon'
  BY <1>1, <1>3, <1>4 DEF RewindCanon, CanonOn
<1> QED
  BY <1>2, <1>5 DEF CanonInv

(* The head keys are read back. *)
LEMMA RewindLoadCanon ==
  ASSUME ChainInv, CanonInv, RewindFast \/ LoadLastState
  PROVE  CanonInv'
<1>1. CASE RewindFast
  <2>1. /\ pc = "rewindFast" /\ pc' = "load"
        /\ UNCHANGED <<headers, bodies, states, canon, headBlock, headHeader, resetting>>
    BY <1>1 DEF RewindFast, rewind
  <2> QED
    BY <2>1 DEF CanonInv, WholeInv, HeadCanon, ReorgCanon, RewindCanon, CanonOn, Writing
<1>2. CASE LoadLastState
  <2>1. /\ pc = "load" /\ headBlock \in bodies \cap states /\ headBlock \in headers
        /\ headBlock \in Blocks /\ Usable(headBlock)
    BY <1>2 DEF LoadLastState, ChainInv, RewindInv, DiskInv, DiskType, Usable, HasBlockAndState,
                GetBlock
  <2>2. ~resetting
    BY DEF CanonInv, WholeInv
  <2>3. /\ LoadHeads /\ pc' = "free" /\ resetting' = FALSE
        /\ UNCHANGED <<headers, bodies, states, canon>>
    BY <1>2, <2>1, <2>2 DEF LoadLastState, ReleaseRewind
  <2>4. currentBlock' = headBlock /\ currentHeader' = headBlock /\ CanonOn(headBlock)
    BY <2>1, <2>3 DEF LoadHeads, CanonInv, RewindCanon
  <2>5. headBlock \in Ancestors[headBlock]
    BY <2>1, AncestorsOf
  <2>6. HeadCanon'
    BY <2>3, <2>4, <2>5 DEF HeadCanon, CanonOn
  <2>7. WholeInv' /\ ReorgCanon' /\ RewindCanon'
    BY <2>1, <2>3 DEF CanonInv, WholeInv, ReorgCanon, RewindCanon, Writing
  <2> QED BY <2>6, <2>7 DEF CanonInv
<1> QED
  BY <1>1, <1>2

(* CanonInv holds as long as the process does not stop. *)
LEMMA CanonInductive == Spec => []("crash" \notin faults => CanonInv)
<1>1. Init => CanonInv
  <2>1. Genesis \in Blocks /\ Ancestors[Genesis] = {Genesis} /\ Number[Genesis] = 0 /\ 0 \in Numbers
    BY TreeAssumption, AncestorsOf, SMTT(30) DEF Numbers
  <2> SUFFICES ASSUME Init PROVE CanonInv
    OBVIOUS
  <2>2. /\ pc = "free" /\ currentBlock = Genesis /\ currentHeader = Genesis /\ ~resetting
        /\ headers = {Genesis} /\ bodies = {Genesis} /\ states = {Genesis}
    BY DEF Init
  <2>3. CanonOn(Genesis)
    BY <2>1 DEF Init, CanonOn
  <2>4. WholeInv /\ HeadCanon
    BY <2>1, <2>2, <2>3 DEF WholeInv, HeadCanon
  <2>5. ReorgCanon /\ RewindCanon
    BY <2>2 DEF ReorgCanon, RewindCanon, Writing
  <2> QED
    BY <2>4, <2>5 DEF CanonInv
<1>2. /\ ChainInv /\ [Next]_vars
      /\ "crash" \notin faults => CanonInv
      => ("crash" \notin faults => CanonInv)'
  <2> SUFFICES ASSUME ChainInv, [Next]_vars, "crash" \notin faults', CanonInv
               PROVE  CanonInv'
    <3>1. [Next]_vars /\ "crash" \notin faults' => "crash" \notin faults
      BY DEF Next, SetHead, Crash, NewBlockChain, vars
    <3> QED BY <3>1
  <2>1. CASE UNCHANGED vars
    BY <2>1 DEF vars, disk, memory, write, rewind, CanonInv, WholeInv, HeadCanon, ReorgCanon,
                RewindCanon, CanonOn, OrGenesis
  <2>2. ~Crash /\ ~NewBlockChain /\ ~ResetWithGenesisBlock
    BY DEF Crash, NewBlockChain, ResetWithGenesisBlock, CanonInv, WholeInv
  <2>3. CASE Step
    BY <2>2, <2>3, WritersCanon, WriteBlockAndStateCanon, ReorgCanonKept, InsertCanonCanon,
       InsertHeadsCanon, WriteBatchCanon, RewindHeadersCanon, UnnumberCanon, RewindBlocksCanon,
       RewindLoadCanon DEF Step
  <2>4. ASSUME NEW n \in Numbers, SetHead(n) PROVE CanonInv'
    BY <2>4, SetHeadCanon
  <2> QED BY <2>1, <2>2, <2>3, <2>4 DEF Next
<1> QED
  BY <1>1, <1>2, ChainInductive, PTL DEF Spec

(* Numbers that name every block of a chain name it in order. *)
LEMMA ChainNumbered ==
  ASSUME NEW h \in Blocks, CanonOn(h)
  PROVE  CanonicalTo(h)
<1>1. canon[Number[h]] = h
  BY AncestorsOf DEF CanonOn
<1>2. ASSUME NEW n \in 1..Number[h]
      PROVE  canon[n] # None /\ Parent[canon[n]] = canon[n - 1]
  <2>1. n \in Nat /\ n <= Number[h] /\ n >= 1
    BY TreeAssumption, SMTT(30)
  <2>2. PICK a \in Ancestors[h] : Number[a] = n
    BY <2>1, AncestorAt
  <2>3. a \in Blocks \ {Genesis} /\ None \notin Blocks /\ canon[n] = a
    BY <2>1, <2>2, AncestorsBelow, TreeAssumption, SMTT(30) DEF CanonOn
  <2>4. Parent[a] \in Ancestors[a] /\ Number[a] = Number[Parent[a]] + 1 /\ Number[Parent[a]] \in Nat
    BY <2>3, AncestorsOf, TreeAssumption, SMTT(30)
  <2>5. Parent[a] \in Ancestors[h] /\ Number[Parent[a]] = n - 1
    BY <2>1, <2>2, <2>4, AncestorsTransitive, SMTT(30)
  <2>6. canon[n - 1] = Parent[a]
    BY <2>5, SMTT(30) DEF CanonOn
  <2> QED BY <2>3, <2>6
<1> QED
  BY <1>1, <1>2 DEF CanonicalTo

(* In a process that was rewound, at any time, and never stopped, insert,  *)
(* reorg and SetHead leave the canonical numbers on the chain of the head  *)
(* block, and the head header on that chain.                               *)
THEOREM BlockChainCanonical == Spec => []CanonicalUntilCrash
<1>1. ChainInv /\ ("crash" \notin faults => CanonInv) => CanonicalUntilCrash
  <2> SUFFICES ASSUME ChainInv, CanonInv, pc = "free"
               PROVE  CanonicalTo(currentBlock) /\ CanonicalTo(currentHeader)
    BY DEF CanonicalUntilCrash
  <2>1. /\ currentBlock \in Blocks /\ currentHeader \in Ancestors[currentBlock]
        /\ CanonOn(currentBlock)
    BY DEF ChainInv, FreeInv, DiskType, CanonInv, HeadCanon
  <2>2. currentHeader \in Blocks /\ Ancestors[currentHeader] \subseteq Ancestors[currentBlock]
    BY <2>1, AncestorsBelow, AncestorsTransitive
  <2>3. CanonOn(currentHeader)
    BY <2>1, <2>2 DEF CanonOn
  <2> QED BY <2>1, <2>2, <2>3, ChainNumbered
<1> QED
  BY <1>1, ChainInductive, CanonInductive, PTL

-----------------------------------------------------------------------------

(* Every transaction of the chain of h, and no other, has an entry, and it *)
(* names its block.                                                        *)
LookupOn(h) ==
  \A t \in Txs : IF \E b \in Ancestors[h] : t \in TxsOf[b]
                   THEN lookup[t] \in Ancestors[h] /\ t \in TxsOf[lookup[t]]
                   ELSE lookup[t] = None

(* During a reorg: the entries of what is in place are right, and a        *)
(* transaction that is not on the new chain has no entry or is still to    *)
(* lose it.                                                                *)
ReorgEntries ==
  /\ todo \subseteq Ancestors[block] /\ (pc = "batch" => unlink = {})
  /\ \A a \in Ancestors[block] : TxsOf[a] \cap unlink = {}
  /\ \A a \in Ancestors[block] \ (todo \cup {block}) : \A t \in TxsOf[a] :
       lookup[t] \in Ancestors[block] /\ t \in TxsOf[lookup[t]]
  /\ \A t \in Txs \ unlink :
       (\A a \in Ancestors[block] : t \notin TxsOf[a]) => lookup[t] = None

LookupInv ==
  faults = {} =>
    /\ pc \in Writing \cup {"free"}
    /\ pc = "free" \/ ~canonical => LookupOn(currentBlock)
    /\ pc \in Writing /\ canonical =>
         IF pc \in {"canon", "head", "header", "fast"} /\ cur \notin todo
           THEN LookupOn(block) ELSE ReorgEntries

-----------------------------------------------------------------------------
(* The lookup entries.  WriteBlockAndState: the entries of the blocks the  *)
(* two chains share are right, and TxDifference has the rest of those of   *)
(* the old chain.                                                          *)
LEMMA WriteBlockAndStateLookup ==
  ASSUME ChainInv, LookupInv, faults = {}, NEW w \in Writers, WriteBlockAndState(w)
  PROVE  LookupInv'
<1>1. pc = "free" /\ w \in ready /\ UNCHANGED <<lookup, currentBlock>>
  BY DEF WriteBlockAndState, memory
<1>2. job[w] \in Blocks \ {Genesis} /\ currentBlock \in Blocks /\ LookupOn(currentBlock)
  BY <1>1 DEF ChainInv, JobType, FreeInv, DiskType, LookupInv
<1>3. PICK c \in ForkChoice(job[w]) :
        LET reorg == c /\ Parent[job[w]] # currentBlock IN
        \/ pc' = "free"
        \/ /\ pc' = (IF reorg THEN "reorg" ELSE "batch")
           /\ block' = job[w] /\ canonical' = c
           /\ todo' = (IF reorg THEN NewChain(job[w]) ELSE {})
           /\ unlink' = (IF reorg THEN Dropped(job[w]) ELSE {})
  BY DEF WriteBlockAndState
<1>4. LookupOn(currentBlock)' /\ pc' \in {"free", "reorg", "batch"}
  BY <1>1, <1>2, <1>3 DEF LookupOn
<1>5. CASE pc' = "free" \/ ~canonical'
  BY <1>4, <1>5 DEF LookupInv, Writing
<1>6. \A a \in Blocks : TxsOf[a] \subseteq Txs
  BY TreeAssumption
<1>7. CASE /\ pc' = "reorg" /\ block' = job[w] /\ todo' = NewChain(job[w])
           /\ unlink' = Dropped(job[w])
  <2> DEFINE b == job[w]
  <2>1. ASSUME NEW a \in Ancestors[b] PROVE TxsOf[a] \cap Dropped(b) = {}
    <3>1. CASE a \in NewChain(b)
      BY <3>1 DEF Dropped, TxsIn
    <3>2. CASE a \in Ancestors[currentBlock]
      <4>1. ASSUME NEW x \in OldChain(b) PROVE TxsOf[a] \cap TxsOf[x] = {}
        BY <1>2, <2>1, <3>2, <4>1, OneOnChain DEF OldChain
      <4> QED BY <4>1 DEF Dropped, TxsIn
    <3> QED BY <2>1, <3>1, <3>2 DEF NewChain
  <2>2. ASSUME NEW a \in Ancestors[b] \ NewChain(b), NEW t \in TxsOf[a]
        PROVE  lookup[t] \in Ancestors[b] /\ t \in TxsOf[lookup[t]]
    <3>1. a \in Ancestors[currentBlock] /\ a \in Blocks
      BY <1>2, <2>2, AncestorsBelow DEF NewChain
    <3>2. t \in Txs
      BY <1>6, <2>2, <3>1
    <3>3. lookup[t] \in Ancestors[currentBlock] /\ t \in TxsOf[lookup[t]]
      BY <1>2, <2>2, <3>1, <3>2 DEF LookupOn
    <3>4. lookup[t] = a
      BY <1>2, <2>2, <3>1, <3>3, OneOnChain
    <3> QED BY <2>2, <3>4
  <2>3. ASSUME NEW t \in Txs \ Dropped(b), \A a \in Ancestors[b] : t \notin TxsOf[a]
        PROVE  lookup[t] = None
    <3>1. t \notin TxsIn(NewChain(b)) /\ t \notin TxsIn(OldChain(b))
      BY <2>3 DEF Dropped, TxsIn, NewChain
    <3>2. \A a \in Ancestors[currentBlock] : t \notin TxsOf[a]
      BY <2>3, <3>1 DEF TxsIn, OldChain
    <3> QED BY <1>2, <3>2 DEF LookupOn
  <2>4. NewChain(b) \subseteq Ancestors[b]
    BY DEF NewChain
  <2>5. ReorgEntries'
    BY <1>1, <1>7, <2>1, <2>2, <2>3, <2>4 DEF ReorgEntries
  <2> QED BY <1>4, <1>7, <2>5 DEF LookupInv, Writing
<1>8. CASE /\ Parent[job[w]] = currentBlock /\ pc' = "batch"
           /\ block' = job[w] /\ todo' = {} /\ unlink' = {}
  <2>1. Ancestors[job[w]] = {job[w]} \cup Ancestors[currentBlock]
    BY <1>2, <1>8, AncestorsOf
  <2>2. ASSUME NEW a \in Ancestors[currentBlock], NEW t \in TxsOf[a]
        PROVE  lookup[t] \in Ancestors[currentBlock] /\ t \in TxsOf[lookup[t]]
    <3>1. t \in Txs
      BY <1>2, <1>6, <2>2, AncestorsBelow
    <3> QED BY <1>2, <2>2, <3>1 DEF LookupOn
  <2>3. ASSUME NEW t \in Txs, \A a \in Ancestors[currentBlock] : t \notin TxsOf[a]
        PROVE  lookup[t] = None
    BY <1>2, <2>3 DEF LookupOn
  <2>4. ReorgEntries'
    BY <1>1, <1>8, <2>1, <2>2, <2>3 DEF ReorgEntries
  <2> QED BY <1>4, <1>8, <2>4 DEF LookupInv, Writing
<1> QED
  BY <1>3, <1>5, <1>7, <1>8, SMTT(30)

(* reorg moves the entries of a block to the new chain. *)
LEMMA ReorgLookupLookup ==
  ASSUME ChainInv, LookupInv, faults = {}, ReorgLookup
  PROVE  LookupInv'
<1>1. /\ pc = "lookup" /\ pc' = "reorg" /\ lookup' = Linked(cur) /\ todo' = todo \ {cur}
      /\ UNCHANGED <<block, canonical, unlink>>
  BY DEF ReorgLookup
<1>2. canonical /\ block \in Blocks /\ cur \in todo /\ ReorgEntries
  BY <1>1 DEF ChainInv, WriteInv, DiskType, LookupInv, Writing
<1>3. cur \in Ancestors[block] /\ \A t \in TxsOf[cur] : t \notin unlink
  BY <1>2 DEF ReorgEntries
<1>4. \A a \in Ancestors[block] : TxsOf[a] \subseteq Txs
  BY <1>2, AncestorsBelow, TreeAssumption
<1>5. \A t \in Txs : lookup'[t] = IF t \in TxsOf[cur] THEN cur ELSE lookup[t]
  BY <1>1 DEF Linked
<1>6. ASSUME NEW a \in Ancestors[block] \ (todo' \cup {block}), NEW t \in TxsOf[a]
      PROVE  lookup'[t] \in Ancestors[block] /\ t \in TxsOf[lookup'[t]]
  <2>1. CASE t \in TxsOf[cur]
    BY <1>3, <1>4, <1>5, <2>1
  <2>2. CASE t \notin TxsOf[cur]
    <3>1. a \in Ancestors[block] \ (todo \cup {block}) /\ lookup'[t] = lookup[t]
      BY <1>1, <1>4, <1>5, <1>6, <2>2
    <3> QED BY <1>2, <1>6, <3>1 DEF ReorgEntries
  <2> QED BY <2>1, <2>2
<1>7. ASSUME NEW t \in Txs \ unlink, \A a \in Ancestors[block] : t \notin TxsOf[a]
      PROVE  lookup'[t] = None
  BY <1>2, <1>3, <1>5, <1>7 DEF ReorgEntries
<1>8. ReorgEntries'
  BY <1>1, <1>2, <1>6, <1>7 DEF ReorgEntries
<1> QED
  BY <1>1, <1>2, <1>8 DEF LookupInv, Writing

(* reorg deletes the entries only the old chain has. *)
LEMMA ReorgUnlinkLookup ==
  ASSUME ChainInv, LookupInv, faults = {}, ReorgUnlink
  PROVE  LookupInv'
<1>1. pc = "unlink" /\ pc' \in {"unlink", "batch"} /\ UNCHANGED <<block, canonical, todo>>
  BY DEF ReorgUnlink
<1>2. canonical /\ block \in Blocks /\ ReorgEntries
  BY <1>1 DEF ChainInv, WriteInv, DiskType, LookupInv, Writing
<1>3. lookup \in [Txs -> Blocks \cup {None}]
  BY DEF ChainInv, DiskType
<1>4. \A a \in Ancestors[block] : TxsOf[a] \subseteq Txs
  BY <1>2, AncestorsBelow, TreeAssumption
<1>5. ReorgEntries'
  <2>1. CASE unlink = {}
    BY <1>1, <1>2, <2>1 DEF ReorgUnlink, ReorgEntries
  <2>2. CASE unlink # {}
    <3>1. PICK t \in unlink : lookup' = [lookup EXCEPT ![t] = None] /\ unlink' = unlink \ {t}
                              /\ pc' = "unlink"
      BY <1>1, <2>2 DEF ReorgUnlink
    <3>2. \A a \in Ancestors[block] : t \notin TxsOf[a]
      BY <1>2 DEF ReorgEntries
    <3>3. \A x \in Txs : lookup'[x] = IF x = t THEN None ELSE lookup[x]
      BY <1>3, <3>1
    <3>4. ASSUME NEW a \in Ancestors[block] \ (todo \cup {block}), NEW x \in TxsOf[a]
          PROVE  lookup'[x] \in Ancestors[block] /\ x \in TxsOf[lookup'[x]]
      BY <1>2, <1>4, <3>2, <3>3, <3>4, SMTT(30) DEF ReorgEntries
    <3>5. ASSUME NEW x \in Txs \ unlink', \A a \in Ancestors[block] : x \notin TxsOf[a]
          PROVE  lookup'[x] = None
      BY <1>2, <3>1, <3>3, <3>5 DEF ReorgEntries
    <3>6. todo \subseteq Ancestors[block] /\ \A a \in Ancestors[block] : TxsOf[a] \cap unlink' = {}
      BY <1>2, <3>1 DEF ReorgEntries
    <3> QED BY <1>1, <3>1, <3>4, <3>5, <3>6 DEF ReorgEntries
  <2> QED BY <2>1, <2>2
<1> QED
  BY <1>1, <1>2, <1>5 DEF LookupInv, Writing

(* The batch has the entries of the block itself. *)
LEMMA WriteBatchLookup ==
  ASSUME ChainInv, LookupInv, faults = {}, WriteBatch
  PROVE  LookupInv'
<1>1. pc = "batch" /\ UNCHANGED currentBlock
  BY DEF WriteBatch, memory
<1>2. CASE ~canonical
  <2>1. pc' = "free" /\ lookup' = lookup
    BY <1>2 DEF WriteBatch
  <2>2. LookupOn(currentBlock)
    BY <1>2 DEF LookupInv
  <2> QED BY <1>1, <2>1, <2>2 DEF LookupInv, LookupOn, Writing
<1>3. CASE canonical
  <2>1. /\ pc' = "canon" /\ lookup' = Linked(block) /\ cur' = block
        /\ UNCHANGED <<block, canonical, todo>>
    BY <1>3 DEF WriteBatch
  <2>2. /\ block \in Blocks /\ todo = {} /\ unlink = {} /\ ReorgEntries
    BY <1>1, <1>3 DEF ChainInv, WriteInv, DiskType, LookupInv, ReorgEntries, Writing
  <2>3. \A t \in Txs : lookup'[t] = IF t \in TxsOf[block] THEN block ELSE lookup[t]
    BY <2>1 DEF Linked
  <2>4. block \in Ancestors[block]
    BY <2>2, AncestorsOf
  <2>5. ASSUME NEW t \in Txs, NEW a \in Ancestors[block], t \in TxsOf[a]
        PROVE  lookup'[t] \in Ancestors[block] /\ t \in TxsOf[lookup'[t]]
    <3>1. CASE t \in TxsOf[block]
      BY <2>3, <2>4, <3>1
    <3>2. CASE t \notin TxsOf[block]
      BY <2>2, <2>3, <2>5, <3>2 DEF ReorgEntries
    <3> QED BY <3>1, <3>2
  <2>6. ASSUME NEW t \in Txs, ~ \E a \in Ancestors[block] : t \in TxsOf[a]
        PROVE  lookup'[t] = None
    BY <2>2, <2>3, <2>4, <2>6 DEF ReorgEntries
  <2>7. LookupOn(block)'
    BY <2>1, <2>5, <2>6 DEF LookupOn
  <2> QED BY <1>3, <2>1, <2>2, <2>7 DEF LookupInv, Writing
<1> QED
  BY <1>2, <1>3

(* insert changes no entry; after the last one its block is the head.      *)
LEMMA InsertLookup ==
  ASSUME ChainInv, LookupInv, faults = {},
         ReorgNext \/ InsertCanon \/ InsertHead \/ InsertHeader \/ InsertFast
  PROVE  LookupInv'
<1>1. /\ pc \in {"reorg", "canon", "head", "header", "fast"} /\ UNCHANGED lookup
      /\ pc' \in {"canon", "unlink", "head", "header", "fast", "lookup", "free"}
  BY DEF ReorgNext, InsertCanon, InsertHead, InsertHeader, InsertFast, Inserted, disk
<1>2. canonical /\ pc \in Writing
  BY <1>1 DEF ChainInv, WriteInv, Writing
<1>3. CASE ReorgNext
  <2>1. /\ pc = "reorg" /\ UNCHANGED <<todo, block, canonical, unlink>>
        /\ \/ pc' = "unlink"
           \/ pc' = "canon" /\ cur' \in todo
    BY <1>3, NextInsertIn DEF ReorgNext, ChainInv, WriteType
  <2>2. ReorgEntries
    BY <1>2, <2>1 DEF LookupInv
  <2>3. ReorgEntries'
    BY <1>1, <2>1, <2>2 DEF ReorgEntries
  <2> QED BY <1>2, <2>1, <2>3 DEF LookupInv, Writing
<1>4. CASE ~ReorgNext /\ pc' # "free"
  <2>1. /\ pc \in {"canon", "head", "header", "fast"} /\ pc' \in {"head", "header", "fast", "lookup"}
        /\ UNCHANGED <<todo, cur, block, canonical, unlink>>
        /\ pc' = "lookup" => cur \in todo
    BY <1>4 DEF InsertCanon, InsertHead, InsertHeader, InsertFast, Inserted, write
  <2>2. IF cur \notin todo THEN LookupOn(block) ELSE ReorgEntries
    BY <1>2, <2>1 DEF LookupInv
  <2>3. IF cur \notin todo THEN LookupOn(block)' ELSE ReorgEntries'
    BY <1>1, <2>1, <2>2 DEF LookupOn, ReorgEntries
  <2> QED BY <1>2, <2>1, <2>3 DEF LookupInv, Writing
<1>5. CASE ~ReorgNext /\ pc' = "free"
  <2>1. /\ pc \in {"head", "fast"} /\ cur \notin todo
        /\ currentBlock' = (IF pc = "head" THEN cur ELSE currentBlock)
    BY <1>5 DEF InsertCanon, InsertHead, InsertHeader, InsertFast, Inserted
  <2>2. currentBlock' = block
    BY <1>2, <2>1 DEF ChainInv, WriteInv
  <2>3. LookupOn(block)
    BY <1>2, <2>1 DEF LookupInv
  <2> QED BY <1>1, <1>5, <2>2, <2>3 DEF LookupInv, LookupOn, Writing
<1> QED
  BY <1>3, <1>4, <1>5

(* A transaction has a lookup entry exactly if it is on the chain of the   *)
(* head, and the entry names its block there (reorg, WriteTxLookupEntries, *)
(* TxDifference).                                                          *)
THEOREM BlockChainLookup == Spec => []LookupCanonical
<1>1. Init => LookupInv
  <2>1. Genesis \in Blocks /\ Ancestors[Genesis] = {Genesis}
    BY TreeAssumption, AncestorsOf
  <2> QED BY <2>1 DEF Init, LookupInv, LookupOn, Writing
<1>2. ChainInv /\ LookupInv /\ [Next]_vars => LookupInv'
  <2> SUFFICES ASSUME ChainInv, LookupInv, [Next]_vars, faults = {}, faults' = {}
               PROVE  LookupInv'
    <3>1. faults' # {} => LookupInv'
      BY DEF LookupInv
    <3> QED BY <3>1, FaultsStay
  <2>1. CASE UNCHANGED vars
    BY <2>1 DEF vars, disk, memory, write, LookupInv, LookupOn, ReorgEntries
  <2>2. pc \in Writing \cup {"free"}
    BY DEF LookupInv
  <2>3. ~(Crash \/ NewBlockChain \/ \E n \in Numbers : SetHead(n))
    BY <2>2 DEF Crash, NewBlockChain, SetHead, Writing
  <2>4. ~(RewindBody \/ RewindHeader \/ RewindTd \/ Unnumber \/ RewindBlocks \/ RewindFast
          \/ LoadLastState \/ ResetWithGenesisBlock)
    BY <2>2 DEF RewindBody, RewindHeader, RewindTd, Unnumber, RewindBlocks, RewindFast,
                LoadLastState, ResetWithGenesisBlock, Writing
  <2>5. ASSUME \/ \E b \in world.blocks : InsertChain(b) \/ Seal(b)
               \/ \E w \in Writers : ReadParentTd(w)
        PROVE  LookupInv'
    <3>1. UNCHANGED <<lookup, pc, currentBlock, block, canonical, todo, cur, unlink>>
      BY <2>5 DEF InsertChain, Seal, ReadParentTd, disk, memory
    <3> QED BY <3>1 DEF LookupInv, LookupOn, ReorgEntries
  <2>6. CASE Step
    BY <2>4, <2>5, <2>6, WriteBlockAndStateLookup, ReorgLookupLookup, ReorgUnlinkLookup,
       WriteBatchLookup, InsertLookup DEF Step
  <2> QED BY <2>1, <2>3, <2>6 DEF Next
<1>3. LookupInv => LookupCanonical
  BY DEF LookupInv, LookupCanonical, LookupOn
<1> QED
  BY <1>1, <1>2, <1>3, ChainInductive, PTL DEF Spec

-----------------------------------------------------------------------------
(* A node without a peer to sync with in fast mode: the downloader stays   *)
(* idle, and pc stays in the steps of BlockChain.                          *)
IdleInv ==
  Full /\ fs.on = "no" /\ fs.goal = None /\ fs.header = "end" /\ fs.content = "end"

(* No step of the downloader is enabled then, so a step of FastSync is one *)
(* of BlockChain.                                                          *)
LEMMA IdleStep ==
  ASSUME ChainInv, IdleInv, FastNext
  PROVE  Next /\ IdleInv'
<1>1. pc \in Writing \cup Rewinding \cup {"free", "down"}
  BY DEF ChainInv, DiskInv
<1>2. ~(NewProtocolManager \/ SessionEnds \/ \E b \in world.goals : Synchronise(b))
  BY DEF IdleInv, Full, NewProtocolManager, SessionEnds
<1>3. ~(SkipHeader \/ WriteHeader \/ HeadersEnd \/ HeadersFail \/ Rollback)
  BY DEF IdleInv, SkipHeader, WriteHeader, HeadersEnd, HeadersFail, Rollback
<1>4. ~(WriteHeaderContent \/ HeaderNumbers \/ HeaderHead \/ RollHeader \/ RollFast \/ RollBlock)
  BY <1>1 DEF WriteHeaderContent, HeaderNumbers, HeaderHead, RollHeader, RollFast, RollBlock,
              Writing, Rewinding
<1>5. ~(\/ \E b \in Blocks : SyncState(b)
        \/ InsertReceiptChain \/ ReceiptHead \/ FastSyncCommitHead
        \/ ImportAbove \/ ImportEnds \/ ContentEnds)
  BY DEF IdleInv, SyncState, InsertReceiptChain, ReceiptHead, FastSyncCommitHead, ImportAbove,
         ImportEnds, ContentEnds, Available
<1>6. ChainStep
  BY <1>2, <1>3, <1>4, <1>5 DEF FastNext
<1>7. Next /\ world' = world /\ fs' \in {fs, Booting}
  BY <1>6 DEF ChainStep, Next
<1>8. Booting.on = "no" /\ Booting.goal = None /\ Booting.header = "end" /\ Booting.content = "end"
  BY DEF IdleInv, Full, Booting, Idle
<1> QED
  BY <1>7, <1>8 DEF IdleInv, Full

(* Such a node implements the chain of a full node: of the steps of        *)
(* FastSync it takes only those of BlockChain.                             *)
THEOREM FullNodeIsBlockChain == FastSpec /\ Full => Spec
<1>1. FastInit /\ Full => Init /\ ChainInv /\ IdleInv
  <2> SUFFICES ASSUME FastInit, Full PROVE Init /\ ChainInv /\ IdleInv
    OBVIOUS
  <2>1. Init /\ ChainInv
    BY ChainInit DEF FastInit
  <2>2. IdleInv
    BY DEF FastInit, IdleInv, Full, Booting, Idle
  <2> QED BY <2>1, <2>2
<1>2. ChainInv /\ IdleInv /\ [FastNext]_fastVars => [Next]_vars /\ ChainInv' /\ IdleInv'
  <2> SUFFICES ASSUME ChainInv, IdleInv, [FastNext]_fastVars
               PROVE  [Next]_vars /\ ChainInv' /\ IdleInv'
    OBVIOUS
  <2>1. CASE FastNext
    BY <2>1, IdleStep, ChainInvStep
  <2>2. CASE UNCHANGED fastVars
    <3>1. UNCHANGED vars /\ UNCHANGED fs
      BY <2>2 DEF fastVars
    <3>2. UNCHANGED world
      BY <3>1 DEF vars
    <3> QED BY <3>1, <3>2, ChainInvStep DEF IdleInv, Full
  <2> QED BY <2>1, <2>2
<1> QED
  BY <1>1, <1>2, PTL DEF FastSpec, Spec

(* So what is proved of Spec holds in the worlds of FastSpec in which the  *)
(* node imports blocks, mines, rewinds, stops and restarts.                *)
COROLLARY FullNodeSafe ==
  FastSpec /\ Full => [](/\ HeadComplete /\ NeverStuck /\ DatabaseClosed
                         /\ HeaviestHead /\ CanonicalUntilCrash /\ LookupCanonical)
<1> QED
  BY FullNodeIsBlockChain, BlockChainHeadComplete, BlockChainNeverStuck, BlockChainDatabaseClosed,
     BlockChainHeaviestHead, BlockChainCanonical, BlockChainLookup, PTL

=============================================================================
