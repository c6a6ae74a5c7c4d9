---------------------------- MODULE CliqueProofs ----------------------------
(***************************************************************************)
(* The snapshot of Clique for any accounts, genesis signers and epoch: the *)
(* window of recent signers (QuorumToSeal, SealAgrees), the tally of votes *)
(* (TallyExact) and the change of the signer set (MajorityRules).          *)
(***************************************************************************)
EXTENDS Clique, FiniteSetTheorems, TLAPS

\* The prover of a leaf that names no other one.
USE ZenonT(60)

(* The inductive invariant for the recent signers: one entry per block,    *)
(* and none older than the window of the present signer set, although that *)
(* window moves with every block and changes its length with the set.      *)
RecentsInv ==
  /\ number \in 0 .. MaxNumber /\ signers \subseteq Addresses
  /\ recents \subseteq (1 .. number) \X Addresses
  /\ \A r, q \in recents : r[1] = q[1] => r = q
  /\ \A r \in recents : r[1] + Limit(signers) > number

-----------------------------------------------------------------------------
(* Signer sets are finite, and the limit is about half of their size. *)
LEMMA SignersFinite ==
  ASSUME NEW S \in SUBSET Addresses
  PROVE  /\ IsFiniteSet(S) /\ Cardinality(S) \in Nat
         /\ Cardinality(S) <= Cardinality(Addresses)
         /\ Limit(S) \in Nat /\ Limit(S) >= 1
         /\ 2 * (Limit(S) - 1) <= Cardinality(S)
         /\ Limit(S) <= Cardinality(Addresses) + 1
<1>1. /\ IsFiniteSet(S) /\ Cardinality(S) \in Nat /\ Cardinality(Addresses) \in Nat
      /\ Cardinality(S) <= Cardinality(Addresses)
  BY CliqueAssumption, FS_Subset, FS_CardinalityType
<1> QED
  BY <1>1, SMTT(30) DEF Limit

(* The limit moves by at most one when one account joins or leaves. *)
LEMMA LimitMoves ==
  ASSUME NEW S \in SUBSET Addresses, NEW a \in Addresses
  PROVE  /\ Limit(S \cup {a}) >= Limit(S)
         /\ Limit(S \ {a}) + 1 >= Limit(S)
<1>1. IsFiniteSet(S) /\ Cardinality(S) \in Nat
  BY SignersFinite
<1>2. Cardinality(S \cup {a}) \in {Cardinality(S), Cardinality(S) + 1}
  BY <1>1, FS_AddElement
<1>3. Cardinality(S \ {a}) \in {Cardinality(S), Cardinality(S) - 1}
  BY <1>1, FS_RemoveElement
<1>4. Cardinality(S \ {a}) \in Nat
  BY SignersFinite
<1> QED
  BY <1>1, <1>2, <1>3, <1>4, SMTT(30) DEF Limit

(* What a header does to the set of signers and to the recent ones.  *)
LEMMA ApplyRecents ==
  ASSUME NEW s \in Addresses, NEW a \in Addresses, NEW authorize \in BOOLEAN,
         signers \subseteq Addresses, Apply(s, a, authorize)
  PROVE  LET n == number + 1
             R == Shifted(recents, signers, n) \cup {<<n, s>>}
         IN  /\ number' = n /\ s \in signers
             /\ \/ signers' = signers /\ recents' = R
                \/ signers' = signers \cup {a} /\ recents' = R
                \/ signers' = signers \ {a} /\ recents' = Shrunk(R, signers', n)
BY DEF Apply, ApplyAllows

(* The window holds after every header: the entry that leaves it is the    *)
(* one that apply deletes.                                                 *)
LEMMA RecentsStep ==
  ASSUME RecentsInv, NEW s \in Addresses, NEW a \in Addresses, NEW authorize \in BOOLEAN,
         number < MaxNumber, Apply(s, a, authorize)
  PROVE  RecentsInv'
<1> DEFINE n == number + 1
           R == Shifted(recents, signers, n) \cup {<<n, s>>}
<1>1. /\ number \in Nat /\ n \in 0 .. MaxNumber /\ signers \subseteq Addresses
      /\ recents \subseteq (1 .. number) \X Addresses
      /\ \A r, q \in recents : r[1] = q[1] => r = q
      /\ \A r \in recents : r[1] + Limit(signers) > number
  BY CliqueAssumption, SMTT(30) DEF RecentsInv
<1>2. /\ number' = n
      /\ \/ signers' = signers /\ recents' = R
         \/ signers' = signers \cup {a} /\ recents' = R
         \/ signers' = signers \ {a} /\ recents' = Shrunk(R, signers', n)
  BY <1>1, ApplyRecents, SMTT(30)
<1>3. signers' \subseteq Addresses
  BY <1>1, <1>2
<1>4. /\ Limit(signers) \in Nat /\ Limit(signers) >= 1
      /\ Limit(signers') \in Nat /\ Limit(signers') >= 1
  BY <1>1, <1>3, SignersFinite
<1>5. R \subseteq (1 .. n) \X Addresses /\ \A r, q \in R : r[1] = q[1] => r = q
  BY <1>1, SMTT(30) DEF Shifted
<1>6. recents' \subseteq R
  BY <1>2 DEF Shrunk, Shifted
<1>7. \A r \in R : r[1] \in Nat /\ r[1] + Limit(signers) > n
  BY <1>1, <1>4, <1>5, SMTT(30) DEF Shifted
<1>8. ASSUME NEW r \in recents'
      PROVE  r[1] + Limit(signers') > n
  <2>1. CASE signers' = signers \/ signers' = signers \cup {a}
    BY <1>1, <1>4, <1>6, <1>7, <2>1, LimitMoves, SMTT(30)
  <2>2. CASE signers' = signers \ {a} /\ recents' = Shrunk(R, signers', n)
    <3>1. Limit(signers') + 1 >= Limit(signers)
      BY <1>1, <2>2, LimitMoves
    <3>2. r \in R /\ ~(n >= Limit(signers') /\ r[1] = n - Limit(signers'))
      BY <1>6, <2>2 DEF Shrunk, Shifted
    <3>3. r[1] \in 1 .. n /\ r[1] + Limit(signers) > n
      BY <1>5, <1>7, <3>2
    <3> HIDE DEF R
    <3> QED BY <1>1, <1>4, <3>1, <3>2, <3>3, SMTT(30)
  <2> QED BY <1>2, <2>1, <2>2
<1> QED
  BY <1>1, <1>2, <1>3, <1>5, <1>6, <1>8 DEF RecentsInv

(* The window holds in every reachable state. *)
LEMMA RecentsInductive == Spec => []RecentsInv
<1>1. Init => RecentsInv
  BY CliqueAssumption, SMTT(30) DEF Init, RecentsInv
<1>2. RecentsInv /\ [Next]_vars => RecentsInv'
  <2> SUFFICES ASSUME RecentsInv, [Next]_vars PROVE RecentsInv'
    OBVIOUS
  <2>1. ASSUME NEW s \in Addresses, Seal(s) PROVE RecentsInv'
    <3>1. PICK a \in Addresses, authorize \in BOOLEAN : Apply(s, a, authorize)
      BY <2>1 DEF Seal
    <3> QED BY <2>1, <3>1, RecentsStep DEF Seal
  <2>2. CASE UNCHANGED vars
    BY <2>2 DEF vars, RecentsInv
  <2> QED BY <2>1, <2>2 DEF Next
<1> QED
  BY <1>1, <1>2, PTL DEF Spec

(* The unsigned difference that Seal and verifySeal take does not wrap     *)
(* around once the block number has reached the limit.                     *)
LEMMA MinusExact ==
  ASSUME RecentsInv, number + 1 >= Limit(signers)
  PROVE  Minus(number + 1, Limit(signers)) = number + 1 - Limit(signers)
<1>1. /\ number \in Nat /\ number <= MaxNumber /\ MaxNumber \in Nat
      /\ Limit(signers) \in Nat /\ Limit(signers) >= 1
      /\ Word \in Nat /\ Word > MaxNumber + Cardinality(Addresses) + 1
      /\ Cardinality(Addresses) \in Nat
  BY CliqueAssumption, SignersFinite, FS_CardinalityType, SMTT(30) DEF RecentsInv
<1>2. number + 1 - Limit(signers) \in 0 .. Word - 1
  BY <1>1, SMTT(30)
<1>3. \A x \in 0 .. Word - 1 : x % Word = x
  BY <1>1, SMTT(30)
<1> QED
  BY <1>1, <1>2, <1>3, SMTT(30) DEF Minus

(* A signer may seal unless it signed one of the last Limit - 1 blocks.    *)
LEMMA SealWindow ==
  ASSUME RecentsInv, NEW s \in signers
  PROVE  SealAllows(s, number + 1) <=>
           \A r \in recents : r[2] = s => r[1] + Limit(signers) = number + 1
<1>1. number \in Nat /\ Limit(signers) \in Nat /\ Limit(signers) >= 1
  BY CliqueAssumption, SignersFinite, SMTT(30) DEF RecentsInv
<1>2. \A r \in recents : r[1] \in Nat /\ r[1] >= 1 /\ r[1] + Limit(signers) > number
  BY <1>1, SMTT(30) DEF RecentsInv
<1>3. CASE number + 1 >= Limit(signers)
  BY <1>1, <1>2, <1>3, MinusExact, SMTT(30) DEF SealAllows
<1>4. CASE ~(number + 1 >= Limit(signers))
  BY <1>1, <1>2, <1>4, SMTT(30) DEF SealAllows
<1> QED
  BY <1>3, <1>4

(* Seal signs exactly the blocks that apply accepts, and verifySeal agrees *)
(* from the first block that can shift a signer out, for any signer set    *)
(* and however it changed (clique.go:486-493, :622-635, snapshot.go:200-215). *)
THEOREM CliqueSealAgrees == Spec => []SealAgrees
<1>1. RecentsInv => SealAgrees
  <2> SUFFICES ASSUME RecentsInv, NEW s \in Addresses
               PROVE  /\ SealAllows(s, number + 1) <=> ApplyAllows(s, number + 1)
                      /\ number + 1 >= Limit(signers) =>
                           (VerifyAllows(s, number + 1) <=> ApplyAllows(s, number + 1))
    BY DEF SealAgrees
  <2>1. number \in Nat /\ Limit(signers) \in Nat /\ Limit(signers) >= 1
    BY CliqueAssumption, SignersFinite, SMTT(30) DEF RecentsInv
  <2>2. \A r \in recents : r[1] \in Nat /\ r[1] >= 1 /\ r[1] + Limit(signers) > number
    BY <2>1, SMTT(30) DEF RecentsInv
  <2>3. CASE s \notin signers
    BY <2>3 DEF SealAllows, ApplyAllows, VerifyAllows
  <2>4. CASE s \in signers
    <3>1. ApplyAllows(s, number + 1) <=>
            \A r \in recents : r[2] = s => r[1] + Limit(signers) = number + 1
      BY <2>1, <2>2, <2>4, SMTT(30) DEF ApplyAllows, Shifted
    <3>2. ASSUME number + 1 >= Limit(signers)
          PROVE  VerifyAllows(s, number + 1) <=>
                   \A r \in recents : r[2] = s => r[1] + Limit(signers) = number + 1
      BY <2>1, <2>2, <2>4, <3>2, MinusExact, SMTT(30) DEF VerifyAllows
    <3> QED BY <2>4, <3>1, <3>2, SealWindow
  <2> QED BY <2>3, <2>4
<1> QED
  BY <1>1, RecentsInductive, PTL

(* However the signer set changes, at least half of the signers may sign   *)
(* the next block (clique.go:622-635): those who may not signed different  *)
(* blocks of a window of half the size of the set.                         *)
THEOREM CliqueQuorumToSeal == Spec => []QuorumToSeal
<1>1. RecentsInv => QuorumToSeal
  <2> SUFFICES ASSUME RecentsInv PROVE QuorumToSeal
    OBVIOUS
  <2> DEFINE n == number + 1
             L == Limit(signers)
             Free == {s \in signers : SealAllows(s, n)}
             Busy == signers \ Free
             Window == (n - L + 1) .. number
  <2>1. /\ number \in Nat /\ L \in Nat /\ L >= 1
        /\ IsFiniteSet(signers) /\ Cardinality(signers) \in Nat
        /\ 2 * (L - 1) <= Cardinality(signers)
    BY CliqueAssumption, SignersFinite, SMTT(30) DEF RecentsInv
  <2>2. IsFiniteSet(Window) /\ Cardinality(Window) = L - 1
    <3>1. /\ n - L + 1 \in Int /\ number \in Int
          /\ (IF n - L + 1 > number THEN 0 ELSE number - (n - L + 1) + 1) = L - 1
      BY <2>1, SMTT(30)
    <3>2. \A x, y \in Int : /\ IsFiniteSet(x .. y)
                            /\ Cardinality(x .. y) = IF x > y THEN 0 ELSE y - x + 1
      BY FS_Interval
    <3> QED BY <3>1, <3>2
  <2>3. ASSUME NEW s \in Busy
        PROVE  \E m \in Window : <<m, s>> \in recents
    <3>1. PICK r \in recents : r[2] = s /\ r[1] + L # n
      BY <2>3, SealWindow
    <3>2. r[1] \in 1 .. number /\ r = <<r[1], r[2]>> /\ r[1] + L > number
      BY SMTT(30) DEF RecentsInv
    <3>3. r[1] \in Window
      BY <2>1, <3>1, <3>2, SMTT(30)
    <3> QED BY <3>1, <3>2, <3>3
  <2> DEFINE f == [s \in Busy |-> CHOOSE m \in Window : <<m, s>> \in recents]
  <2>4. \A s \in Busy : f[s] \in Window /\ <<f[s], s>> \in recents
    BY <2>3
  <2>5. f \in Injection(Busy, Window)
    <3>1. ASSUME NEW s \in Busy, NEW t \in Busy, f[s] = f[t] PROVE s = t
      <4>1. <<f[s], s>> = <<f[t], t>>
        BY <2>4, <3>1 DEF RecentsInv
      <4> QED BY <4>1
    <3>2. f \in [Busy -> Window]
      BY <2>4
    <3> HIDE DEF f, Busy, Window
    <3> QED BY <3>1, <3>2 DEF Injection, IsInjective
  <2>6. IsFiniteSet(Busy) /\ Cardinality(Busy) <= L - 1
    BY <2>2, <2>5, FS_Injection, SMTT(30)
  <2>7. Cardinality(Busy) = Cardinality(signers) - Cardinality(Free)
    <3>1. signers \cap Free = Free
      OBVIOUS
    <3> QED BY <2>1, <3>1, FS_Difference
  <2>8. Cardinality(Free) \in Nat /\ Cardinality(Busy) \in Nat
    BY <2>1, <2>6, FS_Subset, FS_CardinalityType
  <2>9. 2 * Cardinality(Free) >= Cardinality(signers)
    BY <2>1, <2>6, <2>7, <2>8, SMTT(30)
  <2> QED
    BY <2>9 DEF QuorumToSeal
<1> QED
  BY <1>1, RecentsInductive, PTL

-----------------------------------------------------------------------------
(* The votes. *)

Tallies == [Addresses -> [authorize : BOOLEAN, votes : Nat \ {0}] \cup {NoTally}]
Words == [Addresses -> [Addresses -> BOOLEAN \cup {None}]]

At(V, a) == {v \in V : v.address = a}

(* The tally T counts the votes of the list V, all of them for the change  *)
(* of the signer set S that is possible.                                   *)
Counts(V, T, S) ==
  /\ T \in Tallies
  /\ \A a \in Addresses : /\ T[a].votes = Cardinality(At(V, a))
                          /\ T[a].votes > 0 => T[a].authorize = (a \notin S)

(* The list has the last words L of the signers that ask for a change that *)
(* is possible, and who is not a signer has no word.                       *)
Speaks(V, S, L) ==
  /\ L \in Words
  /\ \A s, a \in Addresses :
       /\ (\E v \in V : v.signer = s /\ v.address = a) <=> (s \in S /\ L[s][a] = (a \notin S))
       /\ s \notin S => L[s][a] = None

(* One vote per signer and account. *)
Listing(V, S) ==
  /\ IsFiniteSet(V) /\ V \subseteq Vote
  /\ \A v \in V : v.signer \in S /\ v.authorize = (v.address \notin S)
  /\ \A u, v \in V : u.signer = v.signer /\ u.address = v.address => u = v

(* No checkpoint came after a vote. *)
Fresh(V, n) == \A v \in V : v.block <= n /\ \A m \in (v.block + 1) .. n : ~Checkpoint(m)

(* The inductive invariant for the votes. *)
VotesInv ==
  /\ number \in Nat /\ signers \subseteq Addresses /\ recents \subseteq Nat \X Addresses
  /\ Listing(votes, signers) /\ Counts(votes, tally, signers) /\ Speaks(votes, signers, last)
  /\ Fresh(votes, number)

-----------------------------------------------------------------------------
(* uncast for a set of votes with at most one per account takes exactly    *)
(* those out of the count.                                                 *)
LEMMA UncastCounts ==
  ASSUME NEW V, NEW T, NEW S \in SUBSET Addresses, Listing(V, S), Counts(V, T, S),
         NEW W \in SUBSET V, \A u, v \in W : u.address = v.address => u = v
  PROVE  Counts(V \ W, uncast(T, W), S)
<1> DEFINE U == uncast(T, W)
           K(a) == {v \in W : v.address = a /\ v.authorize = T[a].authorize}
<1>1. ASSUME NEW a \in Addresses
      PROVE  /\ U[a] \in [authorize : BOOLEAN, votes : Nat \ {0}] \cup {NoTally}
             /\ U[a].votes = Cardinality(At(V \ W, a))
             /\ U[a].votes > 0 => U[a].authorize = (a \notin S)
  <2>0. /\ T[a] \in [authorize : BOOLEAN, votes : Nat \ {0}] \cup {NoTally}
        /\ T[a].votes = Cardinality(At(V, a)) /\ T[a].votes \in Nat
        /\ IsFiniteSet(At(V, a))
    BY FS_Subset, SMTT(30) DEF Counts, Tallies, NoTally, Listing, At
  <2>a. T[a].votes > 0 => T[a].authorize = (a \notin S)
    BY DEF Counts
  <2>1. U[a] = IF Cardinality(K(a)) = 0 THEN T[a]
               ELSE IF T[a].votes > Cardinality(K(a)) THEN [T[a] EXCEPT !.votes = @ - Cardinality(K(a))]
               ELSE NoTally
    BY DEF uncast
  <2>2. CASE At(W, a) = {}
    <3>1. K(a) = {} /\ At(V \ W, a) = At(V, a)
      BY <2>2 DEF At
    <3>2. U[a] = T[a]
      BY <2>1, <3>1, FS_EmptySet
    <3> QED BY <2>0, <2>a, <3>1, <3>2
  <2>3. CASE At(W, a) # {}
    <3>1. PICK w \in W : w.address = a
      BY <2>3 DEF At
    <3>2. At(W, a) = {w} /\ w \in At(V, a) /\ At(V \ W, a) = At(V, a) \ {w}
      BY <3>1 DEF At
    <3>3. Cardinality(At(V \ W, a)) = T[a].votes - 1 /\ T[a].votes > 0
      <4>1. Cardinality(At(V, a) \ {w}) = Cardinality(At(V, a)) - 1
        BY <2>0, <3>2, FS_RemoveElement
      <4>2. Cardinality(At(V, a)) # 0
        BY <2>0, <3>2, FS_EmptySet
      <4>3. Cardinality(At(V \ W, a)) = Cardinality(At(V, a)) - 1
        BY <3>2, <4>1
      <4>4. T[a].votes = Cardinality(At(V, a)) /\ T[a].votes \in Nat
        BY <2>0
      <4> QED BY <4>2, <4>3, <4>4, SMTT(30)
    <3>4. w.authorize = T[a].authorize
      BY <2>a, <3>1, <3>3 DEF Listing
    <3>5. K(a) = {w}
      BY <3>2, <3>4 DEF At
    <3>6. Cardinality(K(a)) = 1
      BY <3>5, FS_Singleton
    <3>7. T[a] \in [authorize : BOOLEAN, votes : Nat \ {0}]
      BY <2>0, <3>3, SMTT(30) DEF NoTally
    <3>8. CASE T[a].votes > 1
      <4>1. U[a] = [T[a] EXCEPT !.votes = @ - 1]
        BY <2>1, <3>6, <3>8, SMTT(30)
      <4>2. /\ U[a] \in [authorize : BOOLEAN, votes : Nat \ {0}]
            /\ U[a].votes = T[a].votes - 1 /\ U[a].authorize = T[a].authorize
        BY <2>0, <3>7, <3>8, <4>1, SMTT(30)
      <4> QED BY <2>a, <3>3, <4>2
    <3>9. CASE T[a].votes = 1
      <4>1. U[a] = NoTally
        BY <2>1, <3>6, <3>9, SMTT(30)
      <4> QED BY <3>3, <3>9, <4>1, SMTT(30) DEF NoTally
    <3> QED BY <2>0, <3>3, <3>8, <3>9, SMTT(30)
  <2> QED BY <2>2, <2>3
<1>2. U = [a \in Addresses |-> U[a]]
  BY DEF uncast
<1>3. U \in Tallies
  BY <1>1, <1>2 DEF Tallies
<1> QED
  BY <1>1, <1>3 DEF Counts

(* cast counts a new vote for the change that is possible. *)
LEMMA CastCounts ==
  ASSUME NEW V, NEW T, NEW S \in SUBSET Addresses, IsFiniteSet(V), Counts(V, T, S),
         NEW a \in Addresses, NEW w, w.address = a, w \notin V,
         NEW d \in BOOLEAN, d <=> a \notin S
  PROVE  Counts(V \cup {w}, cast(T, a, d), S)
<1> DEFINE U == cast(T, a, d)
<1>0. T \in Tallies
  BY DEF Counts
<1>1. /\ U = [x \in Addresses |-> U[x]]
      /\ T[a].votes > 0 => U[a] = [T[a] EXCEPT !.votes = @ + 1]
      /\ ~(T[a].votes > 0) => U[a] = [authorize |-> d, votes |-> 1]
      /\ \A x \in Addresses \ {a} : U[x] = T[x]
  <2>1. U = [x \in Addresses |-> U[x]]
    BY <1>0 DEF cast, Tallies
  <2>2. ASSUME T[a].votes > 0 PROVE U[a] = [T[a] EXCEPT !.votes = @ + 1]
    BY <1>0, <2>2 DEF cast, Tallies
  <2>3. ASSUME ~(T[a].votes > 0) PROVE U[a] = [authorize |-> d, votes |-> 1]
    BY <1>0, <2>3 DEF cast, Tallies
  <2>4. \A x \in Addresses \ {a} : U[x] = T[x]
    BY <1>0 DEF cast, Tallies
  <2> QED BY <2>1, <2>2, <2>3, <2>4
<1>2. At(V \cup {w}, a) = At(V, a) \cup {w} /\ w \notin At(V, a) /\ IsFiniteSet(At(V, a))
  BY FS_Subset DEF At
<1>3. Cardinality(At(V \cup {w}, a)) = Cardinality(At(V, a)) + 1
  BY <1>2, FS_AddElement
<1>4. \A x \in Addresses \ {a} : At(V \cup {w}, x) = At(V, x)
  BY DEF At
<1>5. /\ T[a].votes = Cardinality(At(V, a)) /\ T[a].votes \in Nat
      /\ T[a] \in [authorize : BOOLEAN, votes : Nat \ {0}] \cup {NoTally}
  BY SMTT(30) DEF Counts, Tallies, NoTally
<1>6. /\ U[a].votes = T[a].votes + 1
      /\ U[a] \in [authorize : BOOLEAN, votes : Nat \ {0}]
  <2>1. CASE T[a].votes > 0
    BY <1>1, <1>5, <2>1, SMTT(30) DEF NoTally
  <2>2. CASE T[a].votes = 0
    BY <1>1, <1>5, <2>2, SMTT(30)
  <2> QED BY <1>5, <2>1, <2>2, SMTT(30)
<1>7. U[a].authorize = (a \notin S)
  <2>1. CASE T[a].votes > 0
    <3>1. U[a].authorize = T[a].authorize
      BY <1>1, <1>5, <2>1 DEF NoTally
    <3> QED BY <2>1, <3>1 DEF Counts
  <2>2. CASE T[a].votes = 0
    BY <1>1, <2>2, SMTT(30)
  <2> QED BY <1>5, <2>1, <2>2, SMTT(30)
<1>8. U \in Tallies
  <2> HIDE DEF U
  <2> QED BY <1>0, <1>1, <1>6 DEF Tallies
<1>9. ASSUME NEW x \in Addresses
      PROVE  /\ U[x].votes = Cardinality(At(V \cup {w}, x))
             /\ U[x].votes > 0 => U[x].authorize = (x \notin S)
  <2>1. CASE x = a
    BY <1>3, <1>5, <1>6, <1>7, <2>1
  <2>2. CASE x # a
    <3>1. U[x] = T[x] /\ At(V \cup {w}, x) = At(V, x)
      BY <1>1, <1>4, <2>2
    <3> QED BY <3>1 DEF Counts
  <2> QED BY <2>1, <2>2
<1> QED
  BY <1>8, <1>9 DEF Counts
-----------------------------------------------------------------------------
(* The standing vote of s on a, and the words after s spoke d about a. *)
Old(V, s, a) == {v \in V : v.signer = s /\ v.address = a}

Said(L, s, a, d) ==
  [x \in Addresses |-> [y \in Addresses |-> IF x = s /\ y = a THEN d ELSE L[x][y]]]

(* The first discard of apply: the previous vote of s on a goes, and its   *)
(* header's vote d, invalid, is no vote.                                   *)
LEMMA WithdrawStep ==
  ASSUME NEW V, NEW T, NEW S \in SUBSET Addresses, NEW L,
         Listing(V, S), Counts(V, T, S), Speaks(V, S, L),
         NEW s \in S, NEW a \in Addresses, NEW d \in BOOLEAN, d <=> a \in S
  PROVE  LET W == V \ Old(V, s, a)
         IN  /\ Listing(W, S) /\ Counts(W, uncast(T, Old(V, s, a)), S)
             /\ Speaks(W, S, Said(L, s, a, d))
<1> DEFINE O == Old(V, s, a)
           M == Said(L, s, a, d)
<1>1. O \subseteq V /\ \A u, v \in O : u.address = v.address => u = v
  BY DEF Old, Listing
<1>2. Counts(V \ O, uncast(T, O), S)
  BY <1>1, UncastCounts
<1>3. Listing(V \ O, S)
  BY FS_Difference DEF Listing
<1>4. M \in Words
  BY SMTT(30) DEF Said, Speaks, Words
<1>5. ASSUME NEW x \in Addresses, NEW y \in Addresses
      PROVE  /\ (\E v \in V \ O : v.signer = x /\ v.address = y)
                  <=> (x \in S /\ M[x][y] = (y \notin S))
             /\ x \notin S => M[x][y] = None
  <2>1. CASE x = s /\ y = a
    <3>1. M[x][y] = d /\ ~ \E v \in V \ O : v.signer = x /\ v.address = y
      BY <2>1 DEF Said, Old
    <3> QED BY <2>1, <3>1
  <2>2. CASE ~(x = s /\ y = a)
    <3>1. M[x][y] = L[x][y]
      BY <2>2 DEF Said
    <3>2. (\E v \in V \ O : v.signer = x /\ v.address = y)
            <=> (\E v \in V : v.signer = x /\ v.address = y)
      BY <2>2 DEF Old
    <3> QED BY <3>1, <3>2, SMTT(30) DEF Speaks
  <2> QED BY <2>1, <2>2
<1>6. Speaks(V \ O, S, M)
  BY <1>4, <1>5 DEF Speaks
<1> QED
  BY <1>2, <1>3, <1>6

(* A valid vote d of block n on a takes the place of the previous one. *)
LEMMA CastStep ==
  ASSUME NEW V, NEW T, NEW S \in SUBSET Addresses, NEW L,
         Listing(V, S), Counts(V, T, S), Speaks(V, S, L),
         NEW s \in S, NEW a \in Addresses, NEW d \in BOOLEAN, d <=> a \notin S,
         NEW n \in Nat
  PROVE  LET w == [signer |-> s, block |-> n, address |-> a, authorize |-> d]
             W == (V \ Old(V, s, a)) \cup {w}
         IN  /\ Listing(W, S) /\ Counts(W, cast(uncast(T, Old(V, s, a)), a, d), S)
             /\ Speaks(W, S, Said(L, s, a, d))
<1> DEFINE O == Old(V, s, a)
           w == [signer |-> s, block |-> n, address |-> a, authorize |-> d]
           W == (V \ O) \cup {w}
           M == Said(L, s, a, d)
<1>1. O \subseteq V /\ \A u, v \in O : u.address = v.address => u = v
  BY DEF Old, Listing
<1>2. Counts(V \ O, uncast(T, O), S)
  BY <1>1, UncastCounts
<1>3. /\ IsFiniteSet(V \ O) /\ IsFiniteSet(W)
      /\ \A v \in V \ O : ~(v.signer = s /\ v.address = a)
  <2>1. IsFiniteSet(V \ O)
    BY FS_Difference DEF Listing
  <2>2. \A v \in V \ O : ~(v.signer = s /\ v.address = a)
    BY DEF Old
  <2> HIDE DEF w, O
  <2> QED BY <2>1, <2>2, FS_AddElement
<1>4. /\ w \in Vote /\ w.address = a /\ w.signer = s /\ w.authorize = d
      /\ w \notin V \ O
  BY <1>3 DEF Vote
<1> HIDE DEF w
<1>5. Counts(W, cast(uncast(T, O), a, d), S)
  BY <1>2, <1>3, <1>4, CastCounts
<1>6. Listing(W, S)
  <2>1. W \subseteq Vote /\ \A u, v \in W : u.signer = v.signer /\ u.address = v.address => u = v
    BY <1>3, <1>4, SMTT(30) DEF Listing
  <2>2. \A v \in W : v.signer \in S
    BY <1>4 DEF Listing
  <2>3. ASSUME NEW v \in W PROVE v.authorize = (v.address \notin S)
    <3>1. CASE v = w
      BY <1>4, <3>1
    <3>2. CASE v \in V
      BY <3>2 DEF Listing
    <3> QED BY <3>1, <3>2
  <2> QED BY <1>3, <2>1, <2>2, <2>3 DEF Listing
<1>7. M \in Words
  BY SMTT(30) DEF Said, Speaks, Words
<1>8. ASSUME NEW x \in Addresses, NEW y \in Addresses
      PROVE  /\ (\E v \in W : v.signer = x /\ v.address = y)
                  <=> (x \in S /\ M[x][y] = (y \notin S))
             /\ x \notin S => M[x][y] = None
  <2>1. CASE x = s /\ y = a
    <3>1. M[x][y] = d /\ \E v \in W : v.signer = x /\ v.address = y
      BY <1>4, <2>1 DEF Said
    <3> QED BY <2>1, <3>1
  <2>2. CASE ~(x = s /\ y = a)
    <3>1. M[x][y] = L[x][y]
      BY <2>2 DEF Said
    <3>2. (\E v \in W : v.signer = x /\ v.address = y)
            <=> (\E v \in V : v.signer = x /\ v.address = y)
      BY <1>4, <2>2 DEF Old
    <3> QED BY <3>1, <3>2, SMTT(30) DEF Speaks
  <2> QED BY <2>1, <2>2
<1>9. Speaks(W, S, M)
  BY <1>7, <1>8 DEF Speaks
<1> QED
  BY <1>5, <1>6, <1>9 DEF w

-----------------------------------------------------------------------------
(* The votes left, and the words left, when the proposal on a passed and   *)
(* gone is whether a lost its place.                                       *)
Left(V, a) == {v \in V : v.address # a}

Silent(L, a, gone) ==
  [x \in Addresses |-> [y \in Addresses |->
     IF y = a \/ (gone /\ x = a) THEN None ELSE L[x][y]]]

(* Silence is no word for or against an account. *)
LEMMA NoWord ==
  ASSUME NEW y, NEW Q
  PROVE  None # (y \notin Q)
<1>1. CASE y \in Q
  <2>1. (y \notin Q) = FALSE
    BY <1>1
  <2> QED BY <2>1, CliqueAssumption
<1>2. CASE y \notin Q
  <2>1. (y \notin Q) = TRUE
    BY <1>2
  <2> QED BY <2>1, CliqueAssumption
<1> QED
  BY <1>1, <1>2

(* Dropping every vote on a and its tally keeps the count of the others. *)
LEMMA DropCounts ==
  ASSUME NEW V, NEW T, NEW S \in SUBSET Addresses, NEW Q \in SUBSET Addresses,
         NEW a \in Addresses, Counts(V, T, S), S \ {a} = Q \ {a}
  PROVE  Counts(Left(V, a), [T EXCEPT ![a] = NoTally], Q)
<1> DEFINE U == [T EXCEPT ![a] = NoTally]
<1>1. T \in Tallies /\ U \in Tallies /\ U[a] = NoTally /\ \A x \in Addresses \ {a} : U[x] = T[x]
  BY DEF Counts, Tallies
<1>2. At(Left(V, a), a) = {} /\ \A x \in Addresses \ {a} : At(Left(V, a), x) = At(V, x)
  BY DEF At, Left
<1>3. ASSUME NEW x \in Addresses
      PROVE  /\ U[x].votes = Cardinality(At(Left(V, a), x))
             /\ U[x].votes > 0 => U[x].authorize = (x \notin Q)
  <2>1. CASE x = a
    BY <1>1, <1>2, <2>1, FS_EmptySet, SMTT(30) DEF NoTally
  <2>2. CASE x # a
    <3>1. U[x] = T[x] /\ At(Left(V, a), x) = At(V, x) /\ (x \in S <=> x \in Q)
      BY <1>1, <1>2, <2>2
    <3> QED BY <3>1 DEF Counts
  <2> QED BY <2>1, <2>2
<1> QED
  BY <1>1, <1>3 DEF Counts

(* a joins: the votes on it go, and nobody else's vote changes. *)
LEMMA JoinStep ==
  ASSUME NEW V, NEW T, NEW S \in SUBSET Addresses, NEW L, NEW a \in Addresses \ S,
         Listing(V, S), Counts(V, T, S), Speaks(V, S, L)
  PROVE  LET W == Left(V, a)
             Q == S \cup {a}
         IN  /\ Listing(W, Q) /\ Counts(W, [T EXCEPT ![a] = NoTally], Q)
             /\ Speaks(W, Q, Silent(L, a, FALSE))
<1> DEFINE W == Left(V, a)
           Q == S \cup {a}
           M == Silent(L, a, FALSE)
<1>1. Counts(W, [T EXCEPT ![a] = NoTally], Q)
  <2>1. Q \in SUBSET Addresses /\ S \ {a} = Q \ {a}
    OBVIOUS
  <2> HIDE DEF Q
  <2> QED BY <2>1, DropCounts
<1>2. W \subseteq V /\ \A v \in V : v \in W <=> v.address # a
  BY DEF Left
<1> HIDE DEF W
<1>3. Listing(W, Q)
  <2>1. IsFiniteSet(W)
    BY <1>2, FS_Subset DEF Listing
  <2>2. ASSUME NEW v \in W PROVE v.authorize = (v.address \notin Q)
    <3>1. v.address \in S <=> v.address \in Q
      BY <1>2
    <3> QED BY <1>2, <3>1 DEF Listing
  <2> QED BY <1>2, <2>1, <2>2 DEF Listing
<1>4. M \in Words
  BY SMTT(30) DEF Silent, Speaks, Words
<1>5. ASSUME NEW x \in Addresses, NEW y \in Addresses
      PROVE  /\ (\E v \in W : v.signer = x /\ v.address = y)
                  <=> (x \in Q /\ M[x][y] = (y \notin Q))
             /\ x \notin Q => M[x][y] = None
  <2>1. CASE y = a
    <3>1. M[x][y] = None
      BY <2>1 DEF Silent
    <3>2. ~(x \in Q /\ M[x][y] = (y \notin Q))
      BY <3>1, NoWord
    <3>3. ~ \E v \in W : v.signer = x /\ v.address = y
      BY <1>2, <2>1
    <3> HIDE DEF M, Q
    <3> QED BY <3>1, <3>2, <3>3
  <2>2. CASE y # a
    <3>1. M[x][y] = L[x][y] /\ (y \in S <=> y \in Q)
      BY <2>2 DEF Silent
    <3>2. (\E v \in W : v.signer = x /\ v.address = y)
            <=> (\E v \in V : v.signer = x /\ v.address = y)
      BY <1>2, <2>2
    <3>3. x \notin S => L[x][y] = None
      BY DEF Speaks
    <3>4. L[x][y] = (y \notin Q) => x \in S
      BY <3>3, NoWord
    <3>5. (\E v \in V : v.signer = x /\ v.address = y)
            <=> (x \in S /\ L[x][y] = (y \notin S))
      BY SMTT(30) DEF Speaks
    <3>6. (y \notin S) = (y \notin Q) /\ (x \in S => x \in Q)
      BY <3>1
    <3> HIDE DEF M, Q
    <3> QED BY <3>1, <3>2, <3>3, <3>4, <3>5, <3>6
  <2> QED BY <2>1, <2>2
<1>6. Speaks(W, Q, M)
  BY <1>4, <1>5 DEF Speaks
<1> QED
  BY <1>1, <1>3, <1>6 DEF W

(* a leaves: the votes on it and the votes it cast go, its words too. *)
LEMMA LeaveStep ==
  ASSUME NEW V, NEW T, NEW S \in SUBSET Addresses, NEW L, NEW a \in S,
         Listing(V, S), Counts(V, T, S), Speaks(V, S, L)
  PROVE  LET X == VotesOf(V, a)
             W == Left(V \ X, a)
             Q == S \ {a}
         IN  /\ Listing(W, Q) /\ Counts(W, [uncast(T, X) EXCEPT ![a] = NoTally], Q)
             /\ Speaks(W, Q, Silent(L, a, TRUE))
<1> DEFINE X == VotesOf(V, a)
           W == Left(V \ X, a)
           Q == S \ {a}
           M == Silent(L, a, TRUE)
<1>1. Counts(W, [uncast(T, X) EXCEPT ![a] = NoTally], Q)
  <2>1. X \subseteq V /\ \A u, v \in X : u.address = v.address => u = v
    BY DEF VotesOf, Listing
  <2>2. Counts(V \ X, uncast(T, X), S)
    BY <2>1, UncastCounts
  <2>3. Q \in SUBSET Addresses /\ S \ {a} = Q \ {a} /\ a \in Addresses
    OBVIOUS
  <2> HIDE DEF Q, X
  <2> QED BY <2>2, <2>3, DropCounts
<1>2. W \subseteq V /\ \A v \in V : v \in W <=> v.address # a /\ v.signer # a
  BY DEF Left, VotesOf
<1> HIDE DEF W
<1>3. Listing(W, Q)
  <2>1. IsFiniteSet(W)
    BY <1>2, FS_Subset DEF Listing
  <2>2. ASSUME NEW v \in W PROVE v.authorize = (v.address \notin Q)
    <3>1. v.address \in S <=> v.address \in Q
      BY <1>2
    <3> QED BY <1>2, <3>1 DEF Listing
  <2>3. \A v \in W : v.signer \in Q
    BY <1>2 DEF Listing
  <2> QED BY <1>2, <2>1, <2>2, <2>3 DEF Listing
<1>4. M \in Words
  BY SMTT(30) DEF Silent, Speaks, Words
<1>5. ASSUME NEW x \in Addresses, NEW y \in Addresses
      PROVE  /\ (\E v \in W : v.signer = x /\ v.address = y)
                  <=> (x \in Q /\ M[x][y] = (y \notin Q))
             /\ x \notin Q => M[x][y] = None
  <2>1. CASE y = a \/ x = a
    <3>1. M[x][y] = None
      BY <2>1 DEF Silent
    <3>2. ~(x \in Q /\ M[x][y] = (y \notin Q))
      BY <3>1, NoWord
    <3>3. ~ \E v \in W : v.signer = x /\ v.address = y
      BY <1>2, <2>1
    <3> HIDE DEF M, Q
    <3> QED BY <3>1, <3>2, <3>3
  <2>2. CASE y # a /\ x # a
    <3>1. M[x][y] = L[x][y] /\ (y \in S <=> y \in Q) /\ (x \in S <=> x \in Q)
      BY <2>2 DEF Silent
    <3>2. (\E v \in W : v.signer = x /\ v.address = y)
            <=> (\E v \in V : v.signer = x /\ v.address = y)
      BY <1>2, <2>2
    <3>3. /\ (\E v \in V : v.signer = x /\ v.address = y)
               <=> (x \in S /\ L[x][y] = (y \notin S))
          /\ x \notin S => L[x][y] = None
      BY DEF Speaks
    <3>4. (y \notin S) = (y \notin Q) /\ (x \in S <=> x \in Q)
      BY <3>1
    <3> HIDE DEF M, Q
    <3> QED BY <3>1, <3>2, <3>3, <3>4
  <2> QED BY <2>1, <2>2
<1>6. Speaks(W, Q, M)
  BY <1>4, <1>5 DEF Speaks
<1> QED
  BY <1>1, <1>3, <1>6 DEF W

-----------------------------------------------------------------------------
(* uncast for no vote changes nothing. *)
LEMMA UncastNone ==
  ASSUME NEW T \in Tallies
  PROVE  uncast(T, {}) = T
<1>1. \A a \in Addresses : {v \in {} : v.address = a /\ v.authorize = T[a].authorize} = {}
  OBVIOUS
<1>2. uncast(T, {}) = [a \in Addresses |-> T[a]]
  BY <1>1, FS_EmptySet DEF uncast
<1> QED
  BY <1>2 DEF Tallies

(* No votes, no tally and no words: at genesis and after a checkpoint. *)
LEMMA NoVotes ==
  ASSUME NEW S \in SUBSET Addresses, NEW n \in Nat
  PROVE  /\ Listing({}, S) /\ Fresh({}, n)
         /\ Counts({}, [x \in Addresses |-> NoTally], S)
         /\ Speaks({}, S, [x \in Addresses |-> [y \in Addresses |-> None]])
<1>1. Listing({}, S) /\ Fresh({}, n)
  BY FS_EmptySet DEF Listing, Fresh
<1>2. \A x \in Addresses : At({}, x) = {}
  BY DEF At
<1>3. Counts({}, [x \in Addresses |-> NoTally], S)
  BY <1>2, FS_EmptySet, SMTT(30) DEF Counts, Tallies, NoTally
<1>4. [x \in Addresses |-> [y \in Addresses |-> None]] \in Words
  BY DEF Words
<1>5. \A y \in Addresses : None # (y \notin S)
  BY NoWord
<1>6. Speaks({}, S, [x \in Addresses |-> [y \in Addresses |-> None]])
  BY <1>4, <1>5 DEF Speaks
<1> QED
  BY <1>1, <1>3, <1>6

(* What is there after the checkpoint's reset and the header's vote. *)
Spoken(V, T, L, s, a) ==
  /\ Listing(V, signers) /\ Counts(V, T, signers) /\ Speaks(V, signers, L)
  /\ Fresh(V, number + 1)
  /\ \A x \in Addresses : x = s \/ L[x][a] = last[x][a] \/ L[x][a] = None

(* And what becomes of it, whether or not the proposal on a passes. *)
Settled(V, T, L, a) ==
  \/ /\ ~Passed(T, a) /\ signers' = signers
     /\ votes' = V /\ tally' = T /\ last' = L
  \/ /\ Passed(T, a) /\ a \notin signers /\ signers' = signers \cup {a}
     /\ votes' = Left(V, a) /\ tally' = [T EXCEPT ![a] = NoTally]
     /\ last' = Silent(L, a, FALSE)
  \/ /\ Passed(T, a) /\ a \in signers /\ signers' = signers \ {a}
     /\ votes' = Left(V \ VotesOf(V, a), a)
     /\ tally' = [uncast(T, VotesOf(V, a)) EXCEPT ![a] = NoTally]
     /\ last' = Silent(L, a, TRUE)

(* apply in three parts: reset, vote, decision. *)
LEMMA ApplyParts ==
  ASSUME VotesInv, NEW s \in Addresses, NEW a \in Addresses, NEW d \in BOOLEAN,
         Apply(s, a, d)
  PROVE  /\ number' = number + 1 /\ s \in signers
         /\ \E V, T, L : Spoken(V, T, L, s, a) /\ Settled(V, T, L, a)
<1> DEFINE n == number + 1
           V0 == IF Checkpoint(n) THEN {} ELSE votes
           T0 == IF Checkpoint(n) THEN [x \in Addresses |-> NoTally] ELSE tally
           L0 == IF Checkpoint(n) THEN [x \in Addresses |-> [y \in Addresses |-> None]] ELSE last
           w == [signer |-> s, block |-> n, address |-> a, authorize |-> d]
           V1 == (V0 \ Old(V0, s, a)) \cup (IF validVote(a, d) THEN {w} ELSE {})
           T1 == IF validVote(a, d) THEN cast(uncast(T0, Old(V0, s, a)), a, d)
                                    ELSE uncast(T0, Old(V0, s, a))
           L1 == Said(L0, s, a, d)
<1>1. /\ n \in Nat /\ signers \in SUBSET Addresses /\ s \in signers /\ number' = n
  <2>1. number' = n /\ s \in signers
    BY DEF Apply, ApplyAllows
  <2> QED BY <2>1, SMTT(30) DEF VotesInv
<1>2. /\ Listing(V0, signers) /\ Counts(V0, T0, signers) /\ Speaks(V0, signers, L0)
      /\ Fresh(V0, n)
  <2>1. CASE Checkpoint(n)
    BY <1>1, <2>1, NoVotes
  <2>2. CASE ~Checkpoint(n)
    <3>1. V0 = votes /\ T0 = tally /\ L0 = last
      BY <2>2
    <3>2. Fresh(votes, n)
      <4> SUFFICES ASSUME NEW v \in votes
                   PROVE  v.block <= n /\ \A m \in (v.block + 1) .. n : ~Checkpoint(m)
        BY DEF Fresh
      <4>1. v.block \in Nat /\ v.block <= number /\ number \in Nat
        BY DEF VotesInv, Listing, Vote, Fresh
      <4>2. \A m \in (v.block + 1) .. number : ~Checkpoint(m)
        BY DEF VotesInv, Fresh
      <4>3. \A m \in (v.block + 1) .. n : m \in (v.block + 1) .. number \/ m = n
        BY <4>1, SMTT(30)
      <4> QED BY <2>2, <4>1, <4>2, <4>3, SMTT(30)
    <3> QED BY <3>1, <3>2 DEF VotesInv
  <2> QED BY <2>1, <2>2
<1> HIDE DEF V0, T0, L0
<1>3. Listing(V1, signers) /\ Counts(V1, T1, signers) /\ Speaks(V1, signers, L1)
  <2>1. CASE validVote(a, d)
    <3>1. d <=> a \notin signers
      BY <2>1 DEF validVote
    <3> QED BY <1>1, <1>2, <2>1, <3>1, CastStep
  <2>2. CASE ~validVote(a, d)
    <3>1. d <=> a \in signers
      BY <2>2, SMTT(30) DEF validVote
    <3>2. V1 = V0 \ Old(V0, s, a) /\ T1 = uncast(T0, Old(V0, s, a))
      BY <2>2
    <3> HIDE DEF V1, T1
    <3> QED BY <1>1, <1>2, <3>1, <3>2, WithdrawStep
  <2> QED BY <2>1, <2>2
<1>4. Fresh(V1, n)
  <2>1. \A v \in V1 : v \in V0 \/ v.block = n
    BY SMTT(30)
  <2> HIDE DEF V1, n
  <2>2. n <= n /\ \A m \in (n + 1) .. n : FALSE
    BY <1>1, SMTT(30)
  <2> QED BY <1>2, <2>1, <2>2 DEF Fresh
<1>5. \A x \in Addresses : x = s \/ L1[x][a] = last[x][a] \/ L1[x][a] = None
  BY DEF L0, Said
<1>6. Spoken(V1, T1, L1, s, a)
  BY <1>3, <1>4, <1>5 DEF Spoken
<1>7. Settled(V1, T1, L1, a)
  <2> DEFINE passed == Passed(T1, a)
             added == passed /\ T1[a].authorize
             removed == passed /\ ~T1[a].authorize
             void == IF removed THEN VotesOf(V1, a) ELSE {}
  <2>1. /\ signers' = IF added THEN signers \cup {a}
                      ELSE IF removed THEN signers \ {a} ELSE signers
        /\ votes' = {v \in V1 \ void : ~(passed /\ v.address = a)}
        /\ tally' = IF passed THEN [uncast(T1, void) EXCEPT ![a] = NoTally] ELSE T1
        /\ last' = [x \in Addresses |-> [y \in Addresses |->
                      IF (passed /\ y = a) \/ (removed /\ x = a) THEN None
                      ELSE IF x = s /\ y = a THEN d
                      ELSE IF Checkpoint(n) THEN None ELSE last[x][y]]]
    BY DEF Apply, Old, V0, T0
  <2> HIDE DEF V1, T1
  <2>2. \A x, y \in Addresses : L1[x][y] = IF x = s /\ y = a THEN d
                                ELSE IF Checkpoint(n) THEN None ELSE last[x][y]
    BY DEF Said, L0
  <2>3. L1 = [x \in Addresses |-> [y \in Addresses |-> L1[x][y]]]
    BY DEF Said
  <2> HIDE DEF L1, n
  <2>4. /\ last' = [x \in Addresses |-> [y \in Addresses |->
                      IF (passed /\ y = a) \/ (removed /\ x = a) THEN None ELSE L1[x][y]]]
    BY <2>1, <2>2
  <2>5. T1 \in Tallies /\ Cardinality(signers) \in Nat
    BY <1>1, <1>3, SignersFinite DEF Counts
  <2>6. passed => T1[a].votes > 0
    BY <2>5, SMTT(30) DEF Passed, Tallies, NoTally
  <2>7. passed => T1[a].authorize = (a \notin signers)
    BY <1>3, <2>6 DEF Counts
  <2>8. CASE ~passed
    <3>1. void = {} /\ signers' = signers /\ tally' = T1
      BY <2>1, <2>8
    <3>2. votes' = V1
      BY <2>1, <2>8, <3>1
    <3>3. last' = L1
      BY <2>3, <2>4, <2>8
    <3> QED BY <2>8, <3>1, <3>2, <3>3 DEF Settled
  <2>9. CASE passed /\ a \notin signers
    <3>1. added /\ ~removed /\ void = {}
      BY <2>7, <2>9
    <3>2. signers' = signers \cup {a} /\ tally' = [T1 EXCEPT ![a] = NoTally]
      BY <2>1, <2>5, <2>9, <3>1, UncastNone
    <3>3. votes' = Left(V1, a)
      BY <2>1, <2>9, <3>1 DEF Left
    <3>4. last' = Silent(L1, a, FALSE)
      BY <2>4, <2>9, <3>1 DEF Silent
    <3> QED BY <2>9, <3>2, <3>3, <3>4 DEF Settled
  <2>10. CASE passed /\ a \in signers
    <3>1. ~added /\ removed /\ void = VotesOf(V1, a)
      BY <2>7, <2>10
    <3>2. signers' = signers \ {a} /\ tally' = [uncast(T1, VotesOf(V1, a)) EXCEPT ![a] = NoTally]
      BY <2>1, <2>10, <3>1
    <3>3. votes' = Left(V1 \ VotesOf(V1, a), a)
      BY <2>1, <2>10, <3>1 DEF Left
    <3>4. last' = Silent(L1, a, TRUE)
      BY <2>4, <2>10, <3>1 DEF Silent
    <3> QED BY <2>10, <3>2, <3>3, <3>4 DEF Settled
  <2> QED BY <2>8, <2>9, <2>10
<1> QED
  BY <1>1, <1>6, <1>7

(* The votes stay exact through every header. *)
LEMMA VotesStep ==
  ASSUME VotesInv, NEW s \in Addresses, NEW a \in Addresses, NEW d \in BOOLEAN,
         Apply(s, a, d)
  PROVE  VotesInv'
<1>1. /\ number \in Nat /\ signers \in SUBSET Addresses /\ recents \subseteq Nat \X Addresses
  BY DEF VotesInv
<1>2. PICK V, T, L : Spoken(V, T, L, s, a) /\ Settled(V, T, L, a)
  BY ApplyParts
<1>3. /\ Listing(V, signers) /\ Counts(V, T, signers) /\ Speaks(V, signers, L)
      /\ Fresh(V, number + 1)
  BY <1>2 DEF Spoken
<1>4. /\ Listing(votes', signers') /\ Counts(votes', tally', signers')
      /\ Speaks(votes', signers', last') /\ votes' \subseteq V /\ signers' \subseteq Addresses
  <2>1. CASE signers' = signers /\ votes' = V /\ tally' = T /\ last' = L
    BY <1>1, <1>3, <2>1
  <2>2. CASE /\ a \notin signers /\ signers' = signers \cup {a}
             /\ votes' = Left(V, a) /\ tally' = [T EXCEPT ![a] = NoTally]
             /\ last' = Silent(L, a, FALSE)
    <3>1. votes' \subseteq V
      BY <2>2 DEF Left
    <3> QED BY <1>1, <1>3, <2>2, <3>1, JoinStep
  <2>3. CASE /\ a \in signers /\ signers' = signers \ {a}
             /\ votes' = Left(V \ VotesOf(V, a), a)
             /\ tally' = [uncast(T, VotesOf(V, a)) EXCEPT ![a] = NoTally]
             /\ last' = Silent(L, a, TRUE)
    <3>1. votes' \subseteq V
      BY <2>3 DEF Left
    <3> QED BY <1>1, <1>3, <2>3, <3>1, LeaveStep
  <2> QED BY <1>2, <2>1, <2>2, <2>3 DEF Settled
<1>5. number' = number + 1 /\ Fresh(votes', number')
  BY <1>3, <1>4, ApplyParts DEF Fresh
<1>6. recents' \subseteq Nat \X Addresses
  BY <1>1, ApplyRecents, SMTT(30) DEF Shifted, Shrunk
<1> QED
  BY <1>1, <1>4, <1>5, <1>6, SMTT(30) DEF VotesInv

(* The votes are exact in every reachable state. *)
LEMMA VotesInductive == Spec => []VotesInv
<1>1. Init => VotesInv
  <2> SUFFICES ASSUME Init PROVE VotesInv
    OBVIOUS
  <2>1. Genesis \in SUBSET Addresses /\ 0 \in Nat
    BY CliqueAssumption
  <2>2. /\ Listing(votes, signers) /\ Counts(votes, tally, signers)
        /\ Speaks(votes, signers, last) /\ Fresh(votes, number)
    BY <2>1, NoVotes DEF Init
  <2> QED BY <2>1, <2>2 DEF Init, VotesInv
<1>2. VotesInv /\ [Next]_vars => VotesInv'
  <2> SUFFICES ASSUME VotesInv, [Next]_vars PROVE VotesInv'
    OBVIOUS
  <2>1. ASSUME NEW s \in Addresses, Seal(s) PROVE VotesInv'
    <3>1. PICK a \in Addresses, d \in BOOLEAN : Apply(s, a, d)
      BY <2>1 DEF Seal
    <3> QED BY <3>1, VotesStep
  <2>2. CASE UNCHANGED vars
    BY <2>2 DEF vars, VotesInv
  <2> QED BY <2>1, <2>2 DEF Next
<1> QED
  BY <1>1, <1>2, PTL DEF Spec

(* For any accounts, genesis signers and epoch, apply (snapshot.go:165-282) *)
(* never lets the tally, the list of votes and the last words of the       *)
(* signers drift apart.                                                    *)
THEOREM CliqueTallyExact == Spec => []TallyExact
<1>1. VotesInv => TallyExact
  <2> SUFFICES ASSUME VotesInv PROVE TallyExact
    OBVIOUS
  <2>1. TypeOK
    BY DEF VotesInv, TypeOK, Listing, Counts, Speaks, Tallies, Words
  <2>2. ASSUME NEW a \in Addresses
        PROVE  /\ tally[a].votes = Cardinality({v \in votes : v.address = a})
               /\ tally[a].votes > 0 => tally[a].authorize = (a \notin signers)
    BY DEF VotesInv, Counts, At
  <2>3. ASSUME NEW a \in Addresses, NEW v \in votes, v.address = a
        PROVE  v.authorize = (a \notin signers)
    BY <2>3 DEF VotesInv, Listing
  <2>4. ASSUME NEW a \in Addresses
        PROVE  {v.signer : v \in {u \in votes : u.address = a}}
                 = {s \in signers : last[s][a] = (a \notin signers)}
    <3>1. \A s \in Addresses : (\E v \in votes : v.signer = s /\ v.address = a)
                                 <=> (s \in signers /\ last[s][a] = (a \notin signers))
      BY SMTT(30) DEF VotesInv, Speaks
    <3>2. signers \subseteq Addresses /\ \A v \in votes : v.signer \in signers
      BY DEF VotesInv, Listing
    <3> QED BY <3>1, <3>2
  <2>5. /\ \A v \in votes : /\ v.signer \in signers
                             /\ \A n \in (v.block + 1)..number : ~Checkpoint(n)
        /\ \A u, v \in votes : u.signer = v.signer /\ u.address = v.address => u = v
    BY DEF VotesInv, Listing, Fresh
  <2> QED BY <2>1, <2>2, <2>3, <2>4, <2>5 DEF TallyExact
<1> QED
  BY <1>1, VotesInductive, PTL

(* The set of signers changes by one account, and only if more than half   *)
(* of the signers want it: the passed tally (snapshot.go:243) counts       *)
(* different signers, whose last word it was.                              *)
THEOREM CliqueMajorityRules == Spec => MajorityRules
<1> DEFINE Want(a) == {s \in signers : \/ last[s][a] = (a \notin signers)
                                       \/ <<number', s>> \in recents'}
           Rules == signers' # signers =>
                      \E a \in Addresses :
                        /\ signers' \in {signers \cup {a}, signers \ {a}}
                        /\ 2 * Cardinality(Want(a)) > Cardinality(signers)
<1>1. ASSUME VotesInv, Next PROVE Rules
  <2> SUFFICES ASSUME signers' # signers
               PROVE  \E a \in Addresses :
                        /\ signers' \in {signers \cup {a}, signers \ {a}}
                        /\ 2 * Cardinality(Want(a)) > Cardinality(signers)
    OBVIOUS
  <2>1. PICK s \in Addresses, a \in Addresses, d \in BOOLEAN : Apply(s, a, d)
    BY <1>1 DEF Next, Seal
  <2>2. number \in Nat /\ signers \in SUBSET Addresses
    BY <1>1 DEF VotesInv
  <2>3. PICK V, T, L : Spoken(V, T, L, s, a) /\ Settled(V, T, L, a)
    BY <1>1, <2>1, ApplyParts
  <2>4. Passed(T, a) /\ signers' \in {signers \cup {a}, signers \ {a}}
    BY <2>3 DEF Settled
  <2>5. s \in signers /\ <<number', s>> \in recents'
    <3>1. s \in signers /\ number' = number + 1
      BY <1>1, <2>1, ApplyParts
    <3>2. \A S \in SUBSET Addresses : Limit(S) \in Nat /\ Limit(S) >= 1
      BY SignersFinite
    <3>3. signers' \in SUBSET Addresses
      BY <2>2, <2>4
    <3> QED BY <2>1, <2>2, <3>1, <3>2, <3>3, ApplyRecents, SMTT(30) DEF Shifted, Shrunk
  <2> DEFINE voters == At(V, a)
             wanting == Want(a)
  <2>6. ASSUME NEW v \in voters PROVE v.signer \in wanting
    <3>1. v \in V /\ v.address = a /\ v.signer \in signers /\ v.signer \in Addresses
      BY <2>2, <2>3 DEF At, Spoken, Listing
    <3>2. L[v.signer][a] = (a \notin signers)
      BY <2>3, <3>1, SMTT(30) DEF Spoken, Speaks
    <3>3. v.signer = s \/ L[v.signer][a] = last[v.signer][a] \/ L[v.signer][a] = None
      BY <2>3, <3>1 DEF Spoken
    <3>4. L[v.signer][a] # None
      BY <3>2, NoWord
    <3> QED BY <2>5, <3>1, <3>2, <3>3, <3>4
  <2>7. \A u, v \in voters : u.signer = v.signer => u = v
    BY <2>3 DEF At, Spoken, Listing
  <2>8. IsFiniteSet(wanting) /\ IsFiniteSet(signers)
    BY <2>2, FS_Subset, SignersFinite
  <2> DEFINE f == [v \in voters |-> v.signer]
  <2>9. f \in Injection(voters, wanting)
    <3> HIDE DEF voters, wanting
    <3> QED BY <2>6, <2>7 DEF Injection, IsInjective
  <2>10. IsFiniteSet(voters) /\ Cardinality(voters) <= Cardinality(wanting)
    <3> HIDE DEF voters, wanting, f
    <3> QED BY <2>8, <2>9, FS_Injection
  <2>11. T[a].votes = Cardinality(voters)
    BY <2>3 DEF Spoken, Counts
  <2>12. /\ Cardinality(voters) \in Nat /\ Cardinality(wanting) \in Nat
         /\ Cardinality(signers) \in Nat
    <3> HIDE DEF voters, wanting
    <3> QED BY <2>8, <2>10, FS_CardinalityType
  <2>13. 2 * Cardinality(wanting) > Cardinality(signers)
    <3>1. Cardinality(voters) > Cardinality(signers) \div 2
      BY <2>4, <2>11 DEF Passed
    <3> HIDE DEF voters, wanting
    <3> QED BY <2>10, <2>12, <3>1, SMTT(30)
  <2> QED BY <2>4, <2>13
<1>2. VotesInv /\ [Next]_vars =>
        [signers' # signers =>
           \E a \in Addresses :
             /\ signers' \in {signers \cup {a}, signers \ {a}}
             /\ 2 * Cardinality({s \in signers :
                                   \/ last[s][a] = (a \notin signers)
                                   \/ <<number', s>> \in recents'})
                  > Cardinality(signers)]_vars
  BY <1>1, Zenon
<1> QED
  BY <1>2, VotesInductive, PTL DEF MajorityRules, Spec
=============================================================================
