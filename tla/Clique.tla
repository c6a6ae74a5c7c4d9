------------------------------- MODULE Clique -------------------------------
(***************************************************************************)
(* The authorization state of the proof-of-authority engine along one      *)
(* chain: consensus/clique/snapshot.go with the admission rules of Seal    *)
(* and verifySeal in clique.go.  Each step applies the header of the next  *)
(* block: its signer, the account voted on (coinbase) and the direction of *)
(* the vote (nonce).  A header without a vote has a zero coinbase and a    *)
(* zero nonce, that is, a vote against the zero address, which has no key. *)
(*                                                                         *)
(* The list of votes is a set: the block number in a vote orders it.       *)
(***************************************************************************)
EXTENDS Integers, FiniteSets

CONSTANTS
  Addresses,        \* accounts that are or may be voted signers
  Zero,             \* the zero address, one of them
  Genesis,          \* the signers in the genesis header
  Epoch,            \* blocks between two checkpoints
  Word,             \* 2^w, for unsigned block numbers of w bits
  MaxNumber,        \* bound on the length of the chain
  None

ASSUME CliqueAssumption ==
  /\ IsFiniteSet(Addresses) /\ Zero \in Addresses /\ None \notin BOOLEAN
  /\ Genesis \subseteq Addresses \ {Zero} /\ Genesis # {}
  /\ Epoch \in Nat \ {0} /\ MaxNumber \in Nat
  /\ Word \in Nat /\ Word > MaxNumber + Cardinality(Addresses) + 1

VARIABLES
  number,     \* the number of the last header applied
  signers,    \* Signers
  recents,    \* Recents: pairs of a block number and its signer
  votes,      \* Votes
  tally,      \* Tally, of every account; zero votes: no entry
  last        \* not in the code: the last vote of each signer on each
              \* account, since the checkpoint and the account's last change

vars == <<number, signers, recents, votes, tally, last>>

Vote == [signer : Addresses, block : Nat, address : Addresses,
         authorize : BOOLEAN]

NoTally == [authorize |-> FALSE, votes |-> 0]

\* Faulty: one block more.
LimitOneMore(S) == Cardinality(S) \div 2 + 2

\* Of this many blocks in a row a signer signs at most one.
Limit(S) == Cardinality(S) \div 2 + 1

Checkpoint(n) == n % Epoch = 0

\* newSnapshot for the genesis block.
Init ==
  /\ number = 0 /\ signers = Genesis /\ recents = {} /\ votes = {}
  /\ tally = [a \in Addresses |-> NoTally]
  /\ last = [s \in Addresses |-> [a \in Addresses |-> None]]

-----------------------------------------------------------------------------
\* Who may sign block n.

\* Unsigned subtraction wraps around.
Minus(m, n) == (m - n) % Word

\* Faulty: the signer waits for one more block.
SealAllowsLate(s, n) ==
  /\ s \in signers
  /\ \A r \in recents :
       r[2] = s => n >= Limit(signers) /\ r[1] < Minus(n, Limit(signers))

\* Seal: a recent signer waits unless block n shifts it out.
SealAllows(s, n) ==
  /\ s \in signers
  /\ \A r \in recents :
       r[2] = s => n >= Limit(signers) /\ r[1] <= Minus(n, Limit(signers))

\* verifySeal, which does not compare n with the limit.
VerifyAllows(s, n) ==
  /\ s \in signers
  /\ \A r \in recents : r[2] = s => r[1] <= Minus(n, Limit(signers))

\* The oldest signer is deleted to allow it to sign again.
Shifted(R, S, n) == {r \in R : ~(n >= Limit(S) /\ r[1] = n - Limit(S))}

\* A smaller set has a shorter window: the entry that left it is deleted.
Shrunk(R, S, n) == Shifted(R, S, n)

\* The checks of apply.
ApplyAllows(s, n) ==
  /\ s \in signers
  /\ \A r \in Shifted(recents, signers, n) : r[2] # s

-----------------------------------------------------------------------------
\* The votes.

validVote(a, authorize) == (a \in signers) = ~authorize

\* Faulty: a tally that exists is not added to.
castOnce(T, a, authorize) ==
  [T EXCEPT ![a] = [authorize |-> authorize, votes |-> 1]]

cast(T, a, authorize) ==
  [T EXCEPT ![a] = IF T[a].votes > 0
                     THEN [T[a] EXCEPT !.votes = @ + 1]
                     ELSE [authorize |-> authorize, votes |-> 1]]

\* uncast for every vote of V: only votes in the direction of the tally were
\* counted, and a tally without votes is deleted.
uncast(T, V) ==
  [a \in Addresses |->
     LET k == Cardinality({v \in V : /\ v.address = a
                                     /\ v.authorize = T[a].authorize})
     IN  IF k = 0 THEN T[a]
         ELSE IF T[a].votes > k THEN [T[a] EXCEPT !.votes = @ - k]
         ELSE NoTally]

\* Faulty: half of the signers are enough.
PassedByHalf(T, a) == 2 * T[a].votes >= Cardinality(signers)

Passed(T, a) == T[a].votes > Cardinality(signers) \div 2

\* The votes a deauthorized signer cast.
VotesOf(V, a) == {v \in V : v.signer = a}

\* apply for one header of signer s, which votes on account a.
Apply(s, a, authorize) ==
  LET n == number + 1
      votes0 == IF Checkpoint(n) THEN {} ELSE votes
      tally0 == IF Checkpoint(n) THEN [x \in Addresses |-> NoTally] ELSE tally
      old    == {v \in votes0 : v.signer = s /\ v.address = a}
      valid  == validVote(a, authorize)
      votes1 == (votes0 \ old) \cup
                  (IF valid THEN {[signer |-> s, block |-> n, address |-> a,
                                   authorize |-> authorize]} ELSE {})
      tally1 == IF valid THEN cast(uncast(tally0, old), a, authorize)
                         ELSE uncast(tally0, old)
      passed == Passed(tally1, a)
      added  == passed /\ tally1[a].authorize
      removed == passed /\ ~tally1[a].authorize
      void   == IF removed THEN VotesOf(votes1, a) ELSE {}
      R      == Shifted(recents, signers, n) \cup {<<n, s>>}
  IN /\ ApplyAllows(s, n)
     /\ number' = n
     /\ signers' = IF added THEN signers \cup {a}
                   ELSE IF removed THEN signers \ {a} ELSE signers
     /\ recents' = IF removed THEN Shrunk(R, signers \ {a}, n) ELSE R
     /\ votes' = {v \in votes1 \ void : ~(passed /\ v.address = a)}
     /\ tally' = IF passed THEN [uncast(tally1, void) EXCEPT ![a] = NoTally]
                           ELSE tally1
     /\ last' = [x \in Addresses |-> [y \in Addresses |->
                   IF (passed /\ y = a) \/ (removed /\ x = a) THEN None
                   ELSE IF x = s /\ y = a THEN authorize
                   ELSE IF Checkpoint(n) THEN None ELSE last[x][y]]]

-----------------------------------------------------------------------------
\* Headers.  Prepare puts no vote into a checkpoint, and verifyHeader accepts
\* none there; another header carries any vote.
Ballots(n) ==
  IF Checkpoint(n) THEN {<<Zero, FALSE>>} ELSE Addresses \X BOOLEAN

\* A signer seals a block on the chain and everybody applies its header.
Seal(s) ==
  /\ number < MaxNumber
  /\ SealAllows(s, number + 1)
  /\ \E a \in Addresses, authorize \in BOOLEAN :
       <<a, authorize>> \in Ballots(number + 1) /\ Apply(s, a, authorize)

Next == \E s \in Addresses \ {Zero} : Seal(s)

Spec == Init /\ [][Next]_vars

-----------------------------------------------------------------------------
\* Properties.

\* Every variable keeps its type, and a tally without votes is no entry.
TypeOK ==
  /\ number \in Nat /\ signers \subseteq Addresses
  /\ recents \subseteq Nat \X Addresses
  /\ votes \subseteq Vote
  /\ tally \in [Addresses -> [authorize : BOOLEAN, votes : Nat \ {0}]
                              \cup {NoTally}]
  /\ last \in [Addresses -> [Addresses -> BOOLEAN \cup {None}]]

\* The cached tally, which decides, is the number of votes in the list, all
\* of them for the change that is possible.  A standing vote is the last word
\* of a signer that is still one, given no earlier than the last checkpoint,
\* and each signer has one per account.  uncast, cast, the checkpoint and the
\* two discards of apply never let tally, list and last words drift apart.
TallyExact ==
  /\ TypeOK
  /\ \A a \in Addresses :
       /\ tally[a].votes = Cardinality({v \in votes : v.address = a})
       /\ tally[a].votes > 0 => tally[a].authorize = (a \notin signers)
       /\ \A v \in votes : v.address = a => v.authorize = (a \notin signers)
       /\ {v.signer : v \in {u \in votes : u.address = a}}
            = {s \in signers : last[s][a] = (a \notin signers)}
  /\ \A v \in votes : /\ v.signer \in signers
                       /\ \A n \in (v.block + 1)..number : ~Checkpoint(n)
  /\ \A u, v \in votes : u.signer = v.signer /\ u.address = v.address => u = v

\* The signer set changes by one account at a time, and only if more than
\* half of the signers want it, the signer of the block included.
MajorityRules ==
  [][signers' # signers =>
       \E a \in Addresses :
         /\ signers' \in {signers \cup {a}, signers \ {a}}
         /\ 2 * Cardinality({s \in signers :
                               \/ last[s][a] = (a \notin signers)
                               \/ <<number', s>> \in recents'})
              > Cardinality(signers)]_vars

\* However the set changes, Seal lets at least half of the signers sign the
\* next block: the wait for the others in its loop always has an end.
QuorumToSeal ==
  2 * Cardinality({s \in signers : SealAllows(s, number + 1)})
    >= Cardinality(signers)

\* A block that Seal signs is one that apply accepts, and the other way round:
\* no signer seals a block whose snapshot cannot be built, or waits for nothing.
\* verifySeal, with its unsigned difference, agrees from the first block that
\* can shift a signer out, however the set grew and shrank.  (Below the limit
\* its difference wraps around.)
SealAgrees ==
  \A s \in Addresses :
    /\ SealAllows(s, number + 1) <=> ApplyAllows(s, number + 1)
    /\ number + 1 >= Limit(signers) =>
         (VerifyAllows(s, number + 1) <=> ApplyAllows(s, number + 1))

=============================================================================
