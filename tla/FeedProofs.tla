----------------------------- MODULE FeedProofs -----------------------------
(***************************************************************************)
(* The array of cases of Feed, for any set of subscriptions, any buffers   *)
(* and any number of sends: what find, delete and deactivate do to an      *)
(* array without duplicates, that every subscription is listed once, and   *)
(* that the array with its prefix implements Broadcast.                    *)
(***************************************************************************)
EXTENDS Feed, SequenceTheorems, TLAPS

\* The prover of a leaf that names no other one.
USE ZenonT(60)

Listed == {s \in Subs : owner[s] # "none" /\ removal[s] # "done"}

(* The inductive invariant.  A removal that is past its look into the      *)
(* inbox has its case in sendCases; only subscriptions are removed, and    *)
(* the scope knows no others; the prefix is used up when the lock is free. *)
FeedInv ==
  /\ TypeOK
  /\ IsInjective(inbox) /\ IsInjective(sendCases)
  /\ Range(inbox) \cap Range(sendCases) = {}
  /\ Range(inbox) \cup Range(sendCases) = Listed
  /\ \A s \in Subs : /\ removal[s] = "select" => s \notin Range(inbox)
                     /\ owner[s] = "none" => removal[s] = "no"
                     /\ s \in scope.subs \cup closer.todo => owner[s] # "none"
  /\ sender.pc = "idle" => cases = 0
  /\ sender.pc # "try" => sender.i = 1

\* The cases in the prefix of length n.
Prefix(cs, n) == {cs[i] : i \in 1 .. n}

-----------------------------------------------------------------------------
(* Arrays of cases *)

(* The set of a sequence, by its positions. *)
LEMMA SetOfSeq ==
  ASSUME NEW S, NEW cs \in Seq(S)
  PROVE  /\ Range(cs) = Prefix(cs, Len(cs)) /\ Range(cs) \subseteq S
         /\ Len(cs) \in Nat
         /\ IsInjective(cs) <=> \A i, j \in 1 .. Len(cs) : cs[i] = cs[j] => i = j
BY LenProperties, SMTT(30) DEF Range, Prefix, IsInjective

(* The inbox is appended to the array: SendStart. *)
LEMMA ConcatCases ==
  ASSUME NEW S, NEW cs \in Seq(S), NEW ds \in Seq(S)
  PROVE  /\ cs \o ds \in Seq(S) /\ Len(cs \o ds) = Len(cs) + Len(ds)
         /\ Range(cs \o ds) = Range(cs) \cup Range(ds)
         /\ IsInjective(cs) /\ IsInjective(ds) /\ Range(cs) \cap Range(ds) = {}
              => IsInjective(cs \o ds)
<1> DEFINE m == Len(cs)  n == Len(ds)  c == cs \o ds
<1>1. /\ c \in Seq(S) /\ Len(c) = m + n /\ m \in Nat /\ n \in Nat
      /\ \A i \in 1 .. m : c[i] = cs[i]
      /\ \A i \in 1 .. n : c[m + i] = ds[i]
      /\ \A i \in 1 .. m + n : i <= m \/ (i - m \in 1 .. n /\ c[i] = ds[i - m])
  BY ConcatProperties, LenProperties, SMTT(30)
<1>0. /\ Range(cs) = {cs[i] : i \in 1 .. m} /\ Range(ds) = {ds[i] : i \in 1 .. n}
      /\ Range(c) = {c[i] : i \in 1 .. m + n}
  <2>1. \A s \in Seq(S) : Range(s) = {s[i] : i \in 1 .. Len(s)}
    BY SetOfSeq DEF Prefix
  <2> HIDE DEF c
  <2>2. Range(c) = {c[i] : i \in 1 .. Len(c)}
    BY <1>1, <2>1
  <2>3. Range(cs) = {cs[i] : i \in 1 .. m} /\ Range(ds) = {ds[i] : i \in 1 .. n}
    BY <2>1
  <2> QED BY <1>1, <2>2, <2>3
<1>2. Range(c) = Range(cs) \cup Range(ds)
  <2>1. ASSUME NEW i \in 1 .. m + n
        PROVE  c[i] \in Range(cs) \cup Range(ds)
    BY <1>0, <1>1, SMTT(30)
  <2>2. ASSUME NEW i \in 1 .. m PROVE cs[i] \in Range(c)
    BY <1>0, <1>1, SMTT(30)
  <2>3. ASSUME NEW i \in 1 .. n PROVE ds[i] \in Range(c)
    <3>1. m + i \in 1 .. m + n /\ c[m + i] = ds[i]
      BY <1>1, SMTT(30)
    <3> QED BY <1>0, <3>1
  <2> QED BY <1>0, <2>1, <2>2, <2>3
<1>3. ASSUME IsInjective(cs), IsInjective(ds), Range(cs) \cap Range(ds) = {},
             NEW i \in 1 .. m + n, NEW j \in 1 .. m + n, c[i] = c[j]
      PROVE  i = j
  <2>1. \A k \in 1 .. m : cs[k] \notin Range(ds)
    BY <1>0, <1>3
  <2>2. \A k \in 1 .. n : ds[k] \in Range(ds)
    BY <1>0
  <2>3. CASE i <= m /\ j <= m
    BY <1>1, <1>3, <2>3, SetOfSeq, SMTT(30)
  <2>4. CASE i > m /\ j > m
    <3>1. i - m \in 1 .. n /\ j - m \in 1 .. n /\ ds[i - m] = ds[j - m]
      BY <1>1, <1>3, <2>4, SMTT(30)
    <3>2. i - m = j - m
      BY <1>3, <3>1, SetOfSeq
    <3> QED BY <1>1, <3>2, SMTT(30)
  <2> QED
    BY <1>1, <1>3, <2>1, <2>2, <2>3, <2>4, SMTT(30)
<1> QED
  BY <1>1, <1>2, <1>3, SetOfSeq

(* find returns the position of a case that is there. *)
LEMMA FindCase ==
  ASSUME NEW S, NEW cs \in Seq(S), NEW x, IsInjective(cs)
  PROVE  /\ x \in Range(cs) => find(cs, x) \in 1 .. Len(cs) /\ cs[find(cs, x)] = x
         /\ x \notin Range(cs) => find(cs, x) = 0
<1> SUFFICES ASSUME x \in Range(cs)
             PROVE  find(cs, x) \in 1 .. Len(cs) /\ cs[find(cs, x)] = x
  BY DEF find
<1>1. PICK i \in 1 .. Len(cs) : cs[i] = x
  BY SetOfSeq, SMTT(30) DEF Prefix
<1>2. \A j \in 1 .. i - 1 : cs[j] # x
  BY <1>1, SetOfSeq, SMTT(30)
<1> QED
  BY <1>1, <1>2 DEF find

(* delete takes out one case and keeps the order of the others, so the     *)
(* prefix of length k loses that case and no other.                        *)
LEMMA DeleteCase ==
  ASSUME NEW S, NEW cs \in Seq(S), IsInjective(cs), NEW i \in 1 .. Len(cs),
         NEW k \in 0 .. Len(cs)
  PROVE  LET d == delete(cs, i)
             l == IF i \in 1 .. k THEN k - 1 ELSE k
         IN  /\ d \in Seq(S) /\ IsInjective(d) /\ Len(d) = Len(cs) - 1
             /\ Range(d) = Range(cs) \ {cs[i]}
             /\ Prefix(d, l) = Prefix(cs, k) \ {cs[i]} /\ l \in 0 .. Len(d)
<1> DEFINE d == delete(cs, i)
           n == Len(cs)
           l == IF i \in 1 .. k THEN k - 1 ELSE k
           u == SubSeq(cs, 1, i - 1)
           v == SubSeq(cs, i + 1, n)
<1>1. n \in Nat /\ i \in 1 .. n /\ k \in 0 .. n /\ \A j \in 1 .. n : cs[j] \in S
  BY LenProperties
<1>2. u \in Seq(S) /\ Len(u) = i - 1 /\ \A j \in 1 .. i - 1 : u[j] = cs[j]
  <2>1. \A j \in 1 .. i - 1 : cs[j] \in S
    BY <1>1, SMTT(30)
  <2> QED BY <1>1, <2>1, SubSeqProperties, SMTT(30)
<1>3. v \in Seq(S) /\ Len(v) = n - i /\ \A j \in 1 .. n - i : v[j] = cs[i + j]
  <2>1. \A j \in i + 1 .. n : cs[j] \in S
    BY <1>1, SMTT(30)
  <2> QED BY <1>1, <2>1, SubSeqProperties, SMTT(30)
<1>0. /\ d \in Seq(S) /\ Len(d) = Len(u) + Len(v)
      /\ \A j \in 1 .. Len(u) + Len(v) : d[j] = IF j <= Len(u) THEN u[j] ELSE v[j - Len(u)]
  BY <1>2, <1>3, ConcatProperties DEF delete
<1> HIDE DEF d, u, v, n
<1>4. /\ d \in Seq(S) /\ Len(d) = n - 1
      /\ \A j \in 1 .. n - 1 : d[j] = IF j < i THEN cs[j] ELSE cs[j + 1]
  <2>2. ASSUME NEW j \in 1 .. n - 1
        PROVE  d[j] = IF j < i THEN cs[j] ELSE cs[j + 1]
    <3>1. CASE j < i
      BY <1>1, <1>2, <1>3, <1>0, <3>1, SMTT(30)
    <3>2. CASE j >= i
      <4>1. j - (i - 1) \in 1 .. n - i /\ i + (j - (i - 1)) = j + 1
        BY <1>1, <3>2, SMTT(30)
      <4> QED BY <1>1, <1>2, <1>3, <1>0, <3>2, <4>1, SMTT(30)
    <3> QED BY <1>1, <3>1, <3>2, SMTT(30)
  <2> QED BY <1>1, <1>2, <1>3, <1>0, <2>2, SMTT(30)
<1>5. \A j, m \in 1 .. n : cs[j] = cs[m] => j = m
  BY SetOfSeq DEF n
<1>6. ASSUME NEW j \in 1 .. n - 1, NEW m \in 1 .. n - 1, d[j] = d[m]
      PROVE  j = m
  <2> DEFINE pos(x) == IF x < i THEN x ELSE x + 1
  <2>1. pos(j) \in 1 .. n /\ pos(m) \in 1 .. n /\ cs[pos(j)] = cs[pos(m)]
    BY <1>1, <1>4, <1>6, SMTT(30)
  <2>2. pos(j) = pos(m)
    BY <1>5, <2>1
  <2> QED BY <1>1, <2>2, SMTT(30)
<1>7. IsInjective(d)
  BY <1>4, <1>6, SetOfSeq
<1>8. ASSUME NEW m \in 0 .. n
      PROVE  Prefix(d, IF i \in 1 .. m THEN m - 1 ELSE m) = Prefix(cs, m) \ {cs[i]}
  <2> DEFINE q == IF i \in 1 .. m THEN m - 1 ELSE m
  <2>1. ASSUME NEW j \in 1 .. q PROVE d[j] \in Prefix(cs, m) \ {cs[i]}
    <3> DEFINE p == IF j < i THEN j ELSE j + 1
    <3>1. p \in 1 .. m /\ p \in 1 .. n /\ p # i /\ d[j] = cs[p]
      BY <1>1, <1>4, SMTT(30)
    <3> HIDE DEF p
    <3> QED BY <1>1, <1>5, <3>1 DEF Prefix
  <2>2. ASSUME NEW j \in 1 .. m, cs[j] # cs[i] PROVE cs[j] \in Prefix(d, q)
    <3>1. CASE j < i
      <4>1. j \in 1 .. q /\ d[j] = cs[j]
        BY <1>1, <1>4, <3>1, SMTT(30)
      <4> QED BY <4>1 DEF Prefix
    <3>2. CASE j > i
      <4>1. j - 1 \in 1 .. q /\ d[j - 1] = cs[j]
        BY <1>1, <1>4, <3>2, SMTT(30)
      <4> QED BY <4>1 DEF Prefix
    <3> QED BY <1>1, <2>2, <3>1, <3>2, SMTT(30)
  <2> QED BY <2>1, <2>2 DEF Prefix
<1>9. Range(d) = Range(cs) \ {cs[i]}
  <2>1. Range(d) = Prefix(d, n - 1) /\ Range(cs) = Prefix(cs, n)
    BY <1>4, SetOfSeq DEF n
  <2> QED BY <1>1, <1>8, <2>1, SMTT(30)
<1> QED
  BY <1>1, <1>4, <1>7, <1>8, <1>9, SMTT(30) DEF d, n

(* deactivate keeps the set of cases, and the prefix loses the case i.     *)
LEMMA DeactivateCase ==
  ASSUME NEW S, NEW cs \in Seq(S), IsInjective(cs), NEW n \in 1 .. Len(cs),
         NEW i \in 1 .. n
  PROVE  LET d == deactivate(cs, i, n)
         IN  /\ d \in Seq(S) /\ IsInjective(d) /\ Len(d) = Len(cs)
             /\ Range(d) = Range(cs)
             /\ Prefix(d, n - 1) = Prefix(cs, n) \ {cs[i]}
<1> DEFINE d == deactivate(cs, i, n)
           N == Len(cs)
<1>1. N \in Nat /\ cs \in [1 .. N -> S] /\ i \in 1 .. N
  BY LenProperties, SMTT(30)
<1>2. \A j, m \in 1 .. N : cs[j] = cs[m] => j = m
  BY SetOfSeq
<1>3. /\ d \in Seq(S) /\ Len(d) = N
      /\ \A j \in 1 .. N : d[j] = IF j = n THEN cs[i] ELSE IF j = i THEN cs[n] ELSE cs[j]
  <2> DEFINE e == [cs EXCEPT ![i] = cs[n]]
  <2>1. /\ e \in Seq(S) /\ Len(e) = N
        /\ \A j \in 1 .. N : e[j] = IF j = i THEN cs[n] ELSE cs[j]
    BY <1>1, ExceptSeq, SMTT(30)
  <2>2. d = [e EXCEPT ![n] = cs[i]]
    BY DEF deactivate
  <2> QED BY <1>1, <2>1, <2>2, ExceptSeq, SMTT(30)
<1>4. \A j, m \in 1 .. N : d[j] = d[m] => j = m
  BY <1>1, <1>2, <1>3
<1>5. IsInjective(d)
  BY <1>3, <1>4, SetOfSeq
<1>6. Range(d) = {d[j] : j \in 1 .. N} /\ Range(cs) = {cs[j] : j \in 1 .. N}
  BY <1>3, SetOfSeq, SMTT(30) DEF Prefix
<1>7. Range(d) = Range(cs)
  BY <1>1, <1>3, <1>6
<1>8. Prefix(d, n - 1) = Prefix(cs, n) \ {cs[i]}
  <2>1. ASSUME NEW j \in 1 .. n - 1 PROVE d[j] \in Prefix(cs, n) \ {cs[i]}
    BY <1>1, <1>2, <1>3, SMTT(30) DEF Prefix
  <2>2. ASSUME NEW j \in 1 .. n, cs[j] # cs[i] PROVE cs[j] \in Prefix(d, n - 1)
    <3>1. CASE j = n
      <4>1. i \in 1 .. n - 1 /\ d[i] = cs[j]
        BY <1>1, <1>3, <2>2, <3>1, SMTT(30)
      <4> QED BY <4>1 DEF Prefix
    <3>2. CASE j # n
      <4>1. j \in 1 .. n - 1 /\ d[j] = cs[j]
        BY <1>1, <1>3, <2>2, <3>2, SMTT(30)
      <4> QED BY <4>1 DEF Prefix
    <3> QED BY <3>1, <3>2
  <2> QED BY <2>1, <2>2 DEF Prefix
<1> QED
  BY <1>3, <1>5, <1>7, <1>8

-----------------------------------------------------------------------------
(* The inductive invariant *)

(* A Send begins: the inbox moves behind the array. *)
LEMMA SendStartInv == FeedInv /\ SendStart => FeedInv'
<1> SUFFICES ASSUME FeedInv, SendStart PROVE FeedInv'
  OBVIOUS
<1> USE DEF FeedInv, TypeOK, SendStart, users
<1>1. /\ sendCases' \in Seq(Subs) /\ Len(sendCases') = Len(sendCases) + Len(inbox)
      /\ Range(sendCases') = Range(sendCases) \cup Range(inbox)
      /\ IsInjective(sendCases')
  BY ConcatCases, SMTT(30)
<1>2. inbox' \in Seq(Subs) /\ Range(inbox') = {} /\ IsInjective(inbox')
  BY SMTT(30) DEF Range, IsInjective
<1>3. last' \in 0 .. MaxSends /\ got' \in [Subs -> 0 .. last']
  BY FeedAssumption, SMTT(30)
<1>4. cases' \in 0 .. Len(sendCases') /\ sender' \in [pc : {"idle", "try", "select"}, i : 1 .. cases' + 1]
  BY <1>1, LenProperties, SMTT(30)
<1>5. TypeOK'
  BY <1>1, <1>2, <1>3, <1>4
<1> QED
  BY <1>1, <1>2, <1>5, SMTT(30) DEF Listed

(* A value is put into a channel with room: what Put does to the array, to *)
(* its prefix and to the values, which both ways of sending share.         *)
LEMMA PutInv ==
  ASSUME FeedInv, NEW i \in 1 .. cases, Room(sendCases[i]), Put(i)
  PROVE  /\ sendCases' \in Seq(Subs) /\ Len(sendCases') = Len(sendCases)
         /\ IsInjective(sendCases') /\ Range(sendCases') = Range(sendCases)
         /\ sendCases[i] \in Subs
         /\ Prefix(sendCases', cases') = Prefix(sendCases, cases) \ {sendCases[i]}
         /\ cases' = cases - 1 /\ cases \in 1 .. Len(sendCases)
         /\ got' = [got EXCEPT ![sendCases[i]] = last]
         /\ got' \in [Subs -> 0 .. last] /\ unread' \in [Subs -> 0 .. Cap]
<1>1. /\ sendCases \in Seq(Subs) /\ IsInjective(sendCases)
      /\ cases \in 0 .. Len(sendCases) /\ last \in Nat /\ got \in [Subs -> 0 .. last]
      /\ unread \in [Subs -> 0 .. Cap] /\ Cap \in Nat
  BY FeedAssumption, SMTT(30) DEF FeedInv, TypeOK
<1>2. /\ cases \in 1 .. Len(sendCases) /\ i \in 1 .. Len(sendCases)
      /\ sendCases[i] \in Subs
  BY <1>1, LenProperties, SMTT(30)
<1> DEFINE d == deactivate(sendCases, i, cases)
<1>3. /\ d \in Seq(Subs) /\ IsInjective(d) /\ Len(d) = Len(sendCases)
      /\ Range(d) = Range(sendCases)
      /\ Prefix(d, cases - 1) = Prefix(sendCases, cases) \ {sendCases[i]}
  <2>1. \A cs \in Seq(Subs) : IsInjective(cs) => \A n \in 1 .. Len(cs) : \A j \in 1 .. n :
           LET e == deactivate(cs, j, n) IN
             /\ e \in Seq(Subs) /\ IsInjective(e) /\ Len(e) = Len(cs)
             /\ Range(e) = Range(cs) /\ Prefix(e, n - 1) = Prefix(cs, n) \ {cs[j]}
    BY DeactivateCase
  <2> QED BY <1>1, <1>2, <2>1
<1>4. got' \in [Subs -> 0 .. last]
  <2>1. last \in 0 .. last
    BY <1>1, SMTT(30)
  <2>2. got' = [got EXCEPT ![sendCases[i]] = last]
    BY DEF Put
  <2> QED BY <1>1, <1>2, <2>1, <2>2
<1>5. unread' \in [Subs -> 0 .. Cap]
  <2>1. unread[sendCases[i]] + 1 \in 0 .. Cap
    BY <1>1, <1>2, SMTT(30) DEF Room
  <2> QED BY <1>1, <1>2, <2>1 DEF Put
<1> QED
  BY <1>2, <1>3, <1>4, <1>5 DEF Put

(* One round of the fast path. *)
LEMMA TrySendInv == FeedInv /\ TrySend => FeedInv'
<1> SUFFICES ASSUME FeedInv, TrySend PROVE FeedInv'
  OBVIOUS
<1>0. UNCHANGED <<inbox, last, owner, removal, scope, closer>>
  BY DEF TrySend
<1>1. /\ cases \in Nat /\ sender.i \in 1 .. cases /\ sender.i \in Nat
      /\ sender.pc = "try" /\ sender \in [pc : {"idle", "try", "select"}, i : Nat]
  BY LenProperties, SMTT(30) DEF TrySend, FeedInv, TypeOK
<1>2. CASE Room(sendCases[sender.i]) /\ Put(sender.i) /\ UNCHANGED sender
  <2>1. /\ sendCases' \in Seq(Subs) /\ Len(sendCases') = Len(sendCases)
        /\ IsInjective(sendCases') /\ Range(sendCases') = Range(sendCases)
        /\ cases' = cases - 1 /\ cases \in 1 .. Len(sendCases)
        /\ got' \in [Subs -> 0 .. last] /\ unread' \in [Subs -> 0 .. Cap]
    BY <1>1, <1>2, PutInv
  <2>2. sender' \in [pc : {"idle", "try", "select"}, i : 1 .. cases' + 1]
    BY <1>1, <1>2, <2>1, SMTT(30)
  <2>3. cases' \in 0 .. Len(sendCases')
    BY <2>1, LenProperties, SMTT(30) DEF FeedInv, TypeOK
  <2>4. TypeOK'
    BY <1>0, <2>1, <2>2, <2>3 DEF FeedInv, TypeOK
  <2> QED BY <1>0, <1>1, <1>2, <2>1, <2>4 DEF FeedInv, Listed
<1>3. CASE /\ ~Room(sendCases[sender.i]) /\ sender' = [sender EXCEPT !.i = @ + 1]
           /\ UNCHANGED <<sendCases, cases, got, unread>>
  <2>1. sender' \in [pc : {"idle", "try", "select"}, i : 1 .. cases' + 1] /\ sender'.pc = "try"
    BY <1>1, <1>3, SMTT(30)
  <2>2. TypeOK'
    BY <1>0, <1>3, <2>1 DEF FeedInv, TypeOK
  <2> QED BY <1>0, <1>3, <2>1, <2>2 DEF FeedInv, Listed
<1> QED
  BY <1>2, <1>3 DEF TrySend

(* A value is sent in the select. *)
LEMMA SelectSendInv == FeedInv /\ SelectSend => FeedInv'
<1> SUFFICES ASSUME FeedInv, SelectSend PROVE FeedInv'
  OBVIOUS
<1>0. /\ UNCHANGED <<inbox, last, owner, removal, scope, closer>>
      /\ sender' = [sender EXCEPT !.pc = "try"]
  BY DEF SelectSend
<1>1. PICK i \in 1 .. cases : Room(sendCases[i]) /\ Put(i)
  BY DEF SelectSend
<1>2. /\ sendCases' \in Seq(Subs) /\ Len(sendCases') = Len(sendCases)
      /\ IsInjective(sendCases') /\ Range(sendCases') = Range(sendCases)
      /\ cases' = cases - 1 /\ cases \in 1 .. Len(sendCases)
      /\ got' \in [Subs -> 0 .. last] /\ unread' \in [Subs -> 0 .. Cap]
  BY <1>1, PutInv
<1>3. /\ cases' \in 0 .. Len(sendCases') /\ sender'.pc = "try"
      /\ sender' \in [pc : {"idle", "try", "select"}, i : 1 .. cases' + 1]
  <2>1. sender.i = 1 /\ Len(sendCases) \in Nat /\ sender = [pc |-> "select", i |-> 1]
    BY LenProperties DEF FeedInv, TypeOK, SelectSend
  <2>2. cases' \in 0 .. Len(sendCases') /\ 1 \in 1 .. cases' + 1
    BY <1>2, <2>1, SMTT(30)
  <2>3. sender' = [pc |-> "try", i |-> 1]
    BY <1>0, <2>1
  <2> QED BY <2>2, <2>3
<1>4. TypeOK'
  BY <1>0, <1>2, <1>3 DEF FeedInv, TypeOK
<1> QED
  BY <1>0, <1>2, <1>3, <1>4 DEF FeedInv, Listed

(* A removal that waits for the sender or for sendLock has its case in the *)
(* array, at the position find returns.                                    *)
LEMMA WaitingIsListed ==
  ASSUME FeedInv, NEW s \in Subs, removal[s] = "select"
  PROVE  /\ s \in Range(sendCases) /\ s \notin Range(inbox)
         /\ find(sendCases, s) \in 1 .. Len(sendCases)
         /\ sendCases[find(sendCases, s)] = s
<1>1. s \in Range(sendCases) /\ s \notin Range(inbox)
  BY DEF FeedInv, Listed
<1> QED
  BY <1>1, FindCase, SMTT(30) DEF FeedInv, TypeOK

(* Such a removal is carried out, by the sender or by itself: the case is  *)
(* cut out of the array and out of the prefix.                             *)
LEMMA CutInv ==
  ASSUME FeedInv, NEW s \in Subs, removal[s] = "select",
         sendCases' = delete(sendCases, find(sendCases, s))
  PROVE  /\ sendCases' \in Seq(Subs) /\ IsInjective(sendCases')
         /\ Len(sendCases') = Len(sendCases) - 1 /\ Len(sendCases) \in Nat
         /\ Range(sendCases') = Range(sendCases) \ {s}
         /\ Prefix(sendCases', ActiveWithout(s)) = Prefix(sendCases, cases) \ {s}
         /\ ActiveWithout(s) \in 0 .. Len(sendCases')
<1>1. /\ sendCases \in Seq(Subs) /\ IsInjective(sendCases) /\ Len(sendCases) \in Nat
      /\ cases \in 0 .. Len(sendCases)
  BY LenProperties DEF FeedInv, TypeOK
<1>2. find(sendCases, s) \in 1 .. Len(sendCases) /\ sendCases[find(sendCases, s)] = s
  BY WaitingIsListed
<1>3. \A cs \in Seq(Subs) : IsInjective(cs) =>
        \A i \in 1 .. Len(cs), k \in 0 .. Len(cs) :
          LET d == delete(cs, i)
              l == IF i \in 1 .. k THEN k - 1 ELSE k
          IN  /\ d \in Seq(Subs) /\ IsInjective(d) /\ Len(d) = Len(cs) - 1
              /\ Range(d) = Range(cs) \ {cs[i]}
              /\ Prefix(d, l) = Prefix(cs, k) \ {cs[i]} /\ l \in 0 .. Len(d)
  BY DeleteCase
<1> QED
  BY <1>1, <1>2, <1>3, SMTT(30) DEF ActiveWithout

(* The sender receives the channel of a removal. *)
LEMMA SelectRemoveInv ==
  ASSUME NEW s \in Subs, FeedInv, SelectRemove(s)
  PROVE  FeedInv'
<1>0. /\ UNCHANGED <<inbox, last, got, unread, owner, scope, closer>>
      /\ cases' = ActiveWithout(s) /\ removal[s] = "select"
      /\ sender' = [sender EXCEPT !.pc = "try"]
      /\ removal' = [removal EXCEPT ![s] = "done"]
  BY DEF SelectRemove
<1>1. /\ sendCases' \in Seq(Subs) /\ IsInjective(sendCases')
      /\ Range(sendCases') = Range(sendCases) \ {s} /\ cases' \in 0 .. Len(sendCases')
  BY <1>0, CutInv DEF SelectRemove
<1>2. sender' = [pc |-> "try", i |-> 1]
  <2>1. sender = [pc |-> "select", i |-> 1]
    BY DEF FeedInv, TypeOK, SelectRemove
  <2> QED BY <1>0, <2>1
<1>3. sender' \in [pc : {"idle", "try", "select"}, i : 1 .. cases' + 1]
  <2>1. Len(sendCases') \in Nat
    BY <1>1, LenProperties
  <2>3. cases' \in Nat
    BY <1>1, <2>1, SMTT(30)
  <2>2. \A k \in Nat : 1 \in 1 .. k + 1
    BY SMTT(30)
  <2> QED BY <1>2, <2>2, <2>3
<1>4. TypeOK'
  BY <1>0, <1>1, <1>3 DEF FeedInv, TypeOK
<1>5. s \notin Range(inbox) /\ removal \in [Subs -> {"no", "select", "done"}]
  BY <1>0, WaitingIsListed DEF FeedInv, TypeOK
<1> QED
  BY <1>0, <1>1, <1>2, <1>4, <1>5 DEF FeedInv, Listed

(* The removal takes sendLock and deletes its case itself. *)
LEMMA RemoveLockedInv ==
  ASSUME NEW s \in Subs, FeedInv, RemoveLocked(s)
  PROVE  FeedInv'
<1>0. /\ UNCHANGED <<inbox, cases, sender, last, got, unread, owner, scope, closer>>
      /\ removal[s] = "select" /\ sender.pc = "idle" /\ cases = 0
      /\ removal' = [removal EXCEPT ![s] = "done"]
  BY DEF RemoveLocked, FeedInv
<1>1. /\ sendCases' \in Seq(Subs) /\ IsInjective(sendCases')
      /\ Range(sendCases') = Range(sendCases) \ {s} /\ Len(sendCases') \in Nat
  <2>1. sendCases' = delete(sendCases, find(sendCases, s))
    BY DEF RemoveLocked
  <2>2. /\ sendCases' \in Seq(Subs) /\ IsInjective(sendCases')
        /\ Range(sendCases') = Range(sendCases) \ {s}
    BY <1>0, <2>1, CutInv
  <2> QED BY <2>2, LenProperties
<1>2. cases' \in 0 .. Len(sendCases') /\ sender' \in [pc : {"idle", "try", "select"}, i : 1 .. cases' + 1]
  BY <1>0, <1>1, SMTT(30) DEF FeedInv, TypeOK
<1>4. TypeOK'
  BY <1>0, <1>1, <1>2 DEF FeedInv, TypeOK
<1>5. s \notin Range(inbox) /\ removal \in [Subs -> {"no", "select", "done"}]
  BY <1>0, WaitingIsListed DEF FeedInv, TypeOK
<1> QED
  BY <1>0, <1>1, <1>4, <1>5 DEF FeedInv, Listed

(* The first call of a removal: its case leaves the inbox, or it is in the *)
(* array and the removal waits.                                            *)
LEMMA OnceInv ==
  ASSUME FeedInv, NEW s \in Subs, owner[s] # "none", Once(s)
  PROVE  /\ inbox' \in Seq(Subs) /\ IsInjective(inbox')
         /\ removal' \in [Subs -> {"no", "select", "done"}]
         /\ \A t \in Subs : t # s => removal'[t] = removal[t]
         /\ Range(inbox') = IF removal'[s] = "done" THEN Range(inbox) \ {s} ELSE Range(inbox)
         /\ removal'[s] = "done" /\ removal[s] # "done" => s \in Range(inbox)
         /\ removal'[s] = "select" => s \notin Range(inbox)
         /\ removal[s] = "done" => removal'[s] = "done"
         /\ removal'[s] # "no"
<1>1. /\ inbox \in Seq(Subs) /\ IsInjective(inbox)
      /\ removal \in [Subs -> {"no", "select", "done"}]
      /\ removal[s] = "done" => s \notin Range(inbox)
      /\ removal[s] = "select" => s \notin Range(inbox)
  BY DEF FeedInv, TypeOK, Listed
<1>2. CASE removal[s] # "no"
  BY <1>1, <1>2 DEF Once
<1>3. CASE removal[s] = "no" /\ s \in Range(inbox)
  <2>1. find(inbox, s) \in 1 .. Len(inbox) /\ inbox[find(inbox, s)] = s /\ Len(inbox) \in Nat
    BY <1>1, <1>3, FindCase, LenProperties
  <2>2. inbox' = delete(inbox, find(inbox, s)) /\ removal' = [removal EXCEPT ![s] = "done"]
    BY <1>3, <2>1, SMTT(30) DEF Once
  <2>3. \A cs \in Seq(Subs) : IsInjective(cs) => \A i \in 1 .. Len(cs), k \in 0 .. Len(cs) :
          LET d == delete(cs, i) IN
            d \in Seq(Subs) /\ IsInjective(d) /\ Range(d) = Range(cs) \ {cs[i]}
    BY DeleteCase
  <2>4. inbox' \in Seq(Subs) /\ IsInjective(inbox') /\ Range(inbox') = Range(inbox) \ {s}
    <3>1. 0 \in 0 .. Len(inbox)
      BY <2>1, SMTT(30)
    <3> QED BY <1>1, <2>1, <2>2, <2>3, <3>1
  <2> QED BY <1>1, <1>3, <2>2, <2>4
<1>4. CASE removal[s] = "no" /\ s \notin Range(inbox)
  <2>1. find(inbox, s) = 0
    BY <1>1, <1>4, FindCase
  <2> QED BY <1>1, <1>4, <2>1 DEF Once
<1> QED
  BY <1>2, <1>3, <1>4

(* A subscriber calls Unsubscribe, or Close calls it for the subscriber.   *)
LEMMA RemovalInv ==
  ASSUME FeedInv, NEW s \in Subs, owner[s] # "none", Once(s), Elsewhere,
         owner' \in [Subs -> {"none", "subscribed", "nil", "loop", "leave", "gone"}],
         \A t \in Subs : (owner'[t] = "none") = (owner[t] = "none"),
         UNCHANGED <<scope, closer>>
  PROVE  FeedInv'
<1>1. UNCHANGED <<sendCases, cases, sender, last, got, unread>>
  BY DEF Elsewhere
<1>2. inbox' \in Seq(Subs) /\ removal' \in [Subs -> {"no", "select", "done"}]
  BY OnceInv
<1>3. TypeOK'
  BY <1>1, <1>2 DEF FeedInv, TypeOK
<1>4. Range(inbox') \cup Range(sendCases') = Listed'
  <2>1. Range(inbox) \cup Range(sendCases) = Listed /\ Range(inbox) \cap Range(sendCases) = {}
    BY DEF FeedInv
  <2>2. CASE removal'[s] # "done"
    <3>1. Listed' = Listed /\ Range(inbox') = Range(inbox)
      BY <2>2, OnceInv DEF Listed
    <3> QED BY <1>1, <2>1, <3>1
  <2>3. CASE removal'[s] = "done"
    <3>1. Range(inbox') = Range(inbox) \ {s} /\ s \notin Range(sendCases)
      BY <2>1, <2>3, OnceInv DEF Listed
    <3>2. Listed' = Listed \ {s}
      BY <2>3, OnceInv DEF Listed
    <3> QED BY <1>1, <2>1, <3>1, <3>2
  <2> QED BY <2>2, <2>3
<1>5. IsInjective(inbox') /\ Range(inbox') \subseteq Range(inbox)
  BY OnceInv
<1>6. ASSUME NEW t \in Subs
      PROVE  /\ removal'[t] = "select" => t \notin Range(inbox')
             /\ owner'[t] = "none" => removal'[t] = "no"
             /\ t \in scope'.subs \cup closer'.todo => owner'[t] # "none"
  <2>1. CASE t = s
    BY <1>5, <2>1, OnceInv DEF FeedInv
  <2>2. CASE t # s
    BY <1>5, <2>2, OnceInv DEF FeedInv
  <2> QED BY <2>1, <2>2
<1> QED
  BY <1>1, <1>3, <1>4, <1>5, <1>6 DEF FeedInv

(* Subscribe appends a case to the inbox. *)
LEMMA SubscribeInv ==
  ASSUME NEW s \in Subs, FeedInv, Subscribe(s)
  PROVE  FeedInv'
<1>1. /\ inbox' = Append(inbox, s) /\ owner[s] = "none" /\ removal[s] = "no"
      /\ owner' = [owner EXCEPT ![s] = "subscribed"] /\ inbox \in Seq(Subs)
      /\ UNCHANGED <<sendCases, cases, sender, last, got, unread, removal, scope, closer>>
  BY DEF Subscribe, FeedInv, TypeOK
<1>2. <<s>> \in Seq(Subs) /\ Range(<<s>>) = {s} /\ IsInjective(<<s>>)
  BY SMTT(30) DEF Range, IsInjective
<1>3. s \notin Range(inbox) /\ s \notin Range(sendCases)
  BY <1>1 DEF FeedInv, Listed
<1>4. inbox' \in Seq(Subs) /\ IsInjective(inbox') /\ Range(inbox') = Range(inbox) \cup {s}
  <2>1. inbox' = inbox \o <<s>> /\ IsInjective(inbox)
    BY <1>1, AppendIsConcat DEF FeedInv
  <2>2. \A ds \in Seq(Subs) :
          /\ inbox \o ds \in Seq(Subs) /\ Range(inbox \o ds) = Range(inbox) \cup Range(ds)
          /\ IsInjective(inbox) /\ IsInjective(ds) /\ Range(inbox) \cap Range(ds) = {}
               => IsInjective(inbox \o ds)
    BY <1>1, ConcatCases, SMTT(30)
  <2> QED BY <1>2, <1>3, <2>1, <2>2
<1>5. owner' \in [Subs -> {"none", "subscribed", "nil", "loop", "leave", "gone"}]
  BY <1>1 DEF FeedInv, TypeOK
<1>6. TypeOK'
  BY <1>1, <1>4, <1>5 DEF FeedInv, TypeOK
<1>7. Listed' = Listed \cup {s}
  BY <1>1, SMTT(30) DEF FeedInv, TypeOK, Listed
<1>8. \A t \in Subs : owner'[t] = IF t = s THEN "subscribed" ELSE owner[t]
  BY <1>1 DEF FeedInv, TypeOK
<1> QED
  BY <1>1, <1>3, <1>4, <1>6, <1>7, <1>8 DEF FeedInv

(* The steps that leave the feed alone keep it if the scope and its Close  *)
(* still know subscriptions only.                                          *)
LEMMA UsersInv ==
  ASSUME FeedInv, UNCHANGED <<feed, removal>>,
         owner' \in [Subs -> {"none", "subscribed", "nil", "loop", "leave", "gone"}],
         unread' \in [Subs -> 0 .. Cap],
         scope' \in [subs : SUBSET Subs, closed : BOOLEAN],
         closer' \in [pc : {"idle", "closing", "done"}, todo : SUBSET Subs],
         \A t \in Subs : /\ (owner'[t] = "none") = (owner[t] = "none")
                         /\ t \in scope'.subs \cup closer'.todo => owner[t] # "none"
  PROVE  FeedInv'
<1> USE DEF feed
<1>1. TypeOK'
  BY DEF FeedInv, TypeOK
<1>2. Listed' = Listed
  BY DEF Listed
<1> QED
  BY <1>1, <1>2 DEF FeedInv

(* Track, Receive and Untrack. *)
LEMMA UserInv ==
  ASSUME FeedInv, NEW s \in Subs, Track(s) \/ Receive(s) \/ Untrack(s)
  PROVE  FeedInv'
<1>0. /\ owner \in [Subs -> {"none", "subscribed", "nil", "loop", "leave", "gone"}]
      /\ unread \in [Subs -> 0 .. Cap] /\ Cap \in Nat
      /\ scope \in [subs : SUBSET Subs, closed : BOOLEAN]
      /\ closer \in [pc : {"idle", "closing", "done"}, todo : SUBSET Subs]
      /\ \A t \in Subs : t \in scope.subs \cup closer.todo => owner[t] # "none"
  BY FeedAssumption DEF FeedInv, TypeOK
<1>1. CASE Track(s)
  BY <1>0, <1>1, UsersInv DEF Track
<1>2. CASE Receive(s)
  <2>1. unread' \in [Subs -> 0 .. Cap]
    BY <1>0, <1>2, SMTT(30) DEF Receive
  <2> QED BY <1>0, <1>2, <2>1, UsersInv DEF Receive
<1>3. CASE Untrack(s)
  BY <1>0, <1>3, UsersInv, SMTT(30) DEF Untrack
<1> QED
  BY <1>1, <1>2, <1>3

(* The inductive invariant holds in every reachable state. *)
LEMMA FeedInductive == Spec => []FeedInv
<1>1. Init => FeedInv
  <2> SUFFICES ASSUME Init PROVE FeedInv
    OBVIOUS
  <2>1. TypeOK
    BY FeedAssumption, SetOfSeq, EmptySeq, SMTT(30) DEF Init, TypeOK
  <2>2. Range(sendCases) = {} /\ IsInjective(sendCases)
    BY SMTT(30) DEF Init, Range, IsInjective
  <2>3. Range(Early) \subseteq Subs
    BY FeedAssumption, SetOfSeq
  <2> QED
    BY <2>1, <2>2, <2>3, FeedAssumption DEF Init, FeedInv, Listed
<1>2. FeedInv /\ [Next]_vars => FeedInv'
  <2> SUFFICES ASSUME FeedInv, [Next]_vars PROVE FeedInv'
    OBVIOUS
  <2>1. CASE SendStart \/ TrySend \/ SelectSend
    BY <2>1, SendStartInv, TrySendInv, SelectSendInv
  <2>2. CASE TriedAll
    <3>1. /\ sender' = [pc |-> IF cases = 0 THEN "idle" ELSE "select", i |-> 1]
          /\ UNCHANGED <<inbox, sendCases, cases, last, got, users>> /\ cases \in Nat
      BY <2>2, LenProperties, SMTT(30) DEF TriedAll, FeedInv, TypeOK
    <3>2. \A k \in Nat : 1 \in 1 .. k + 1
      BY SMTT(30)
    <3>3. TypeOK'
      BY <3>1, <3>2 DEF FeedInv, TypeOK, users
    <3> QED BY <3>1, <3>3 DEF FeedInv, Listed, users
  <2>3. ASSUME NEW s \in Subs, SelectRemove(s) \/ RemoveLocked(s) \/ Subscribe(s)
        PROVE  FeedInv'
    BY <2>3, SelectRemoveInv, RemoveLockedInv, SubscribeInv
  <2>4. ASSUME NEW s \in Subs, Track(s) \/ Receive(s) \/ Untrack(s)
        PROVE  FeedInv'
    BY <2>4, UserInv
  <2>5. ASSUME NEW s \in Subs, Unsubscribe(s)
        PROVE  FeedInv'
    <3>1. /\ owner' \in [Subs -> {"none", "subscribed", "nil", "loop", "leave", "gone"}]
          /\ owner[s] = "loop" /\ owner'[s] = "leave"
          /\ \A t \in Subs : (owner'[t] = "none") = (owner[t] = "none")
      BY <2>5 DEF Unsubscribe, FeedInv, TypeOK
    <3> QED BY <2>5, <3>1, RemovalInv DEF Unsubscribe
  <2>6. ASSUME NEW s \in Subs, CloseOne(s)
        PROVE  FeedInv'
    <3>1. /\ UNCHANGED <<owner, scope>> /\ Elsewhere /\ owner[s] # "none"
          /\ owner \in [Subs -> {"none", "subscribed", "nil", "loop", "leave", "gone"}]
      BY <2>6 DEF CloseOne, FeedInv, TypeOK
    <3>2. CASE Once(s) /\ UNCHANGED closer
      BY <3>1, <3>2, RemovalInv
    <3>3. CASE closer' = [closer EXCEPT !.todo = @ \ {s}] /\ UNCHANGED <<inbox, removal>>
      BY <3>1, <3>3, UsersInv DEF FeedInv, TypeOK, Elsewhere, feed
    <3> QED BY <2>6, <3>2, <3>3 DEF CloseOne
  <2>7. CASE CloseStart
    BY <2>7, UsersInv DEF CloseStart, FeedInv, TypeOK
  <2>8. CASE CloseEnd
    BY <2>8, UsersInv DEF CloseEnd, FeedInv, TypeOK
  <2>9. CASE UNCHANGED vars
    BY <2>9 DEF vars, FeedInv, TypeOK, Listed
  <2> QED
    BY <2>1, <2>2, <2>3, <2>4, <2>5, <2>6, <2>7, <2>8, <2>9
    DEF Next, Send, User, Closing
<1> QED
  BY <1>1, <1>2, PTL DEF Spec

(* Every subscription is in exactly one of the two arrays, once, from      *)
(* Subscribe to the end of its removal, for any subscriptions, buffers and *)
(* sends: no removal searches for a case that is not there.                *)
THEOREM FeedListedOnce == Spec => []ListedOnce
<1>1. FeedInv => ListedOnce
  <2> SUFFICES ASSUME FeedInv PROVE ListedOnce
    OBVIOUS
  <2> DEFINE all == inbox \o sendCases
  <2>1. all \in Seq(Subs) /\ Range(all) = Listed /\ IsInjective(all)
    <3>1. inbox \in Seq(Subs) /\ sendCases \in Seq(Subs)
      BY DEF FeedInv, TypeOK
    <3> QED BY <3>1, ConcatCases DEF FeedInv
  <2> QED
    BY <2>1 DEF FeedInv, ListedOnce, Listed
<1> QED
  BY <1>1, FeedInductive, PTL

-----------------------------------------------------------------------------
(* The refinement.  The abstract members are the cases of both arrays, and *)
(* a Send owes its value to the cases of the prefix.                       *)
Members == Range(inbox) \cup Range(sendCases)
Sending == sender.pc # "idle"
Owe == IF sender.pc = "idle" THEN {} ELSE Prefix(sendCases, cases)

(* A step that leaves these alone is a stutter. *)
LEMMA Stutter ==
  ASSUME Members' = Members, Sending' = Sending, Owe' = Owe, UNCHANGED <<last, got>>
  PROVE  [Abstract!Next]_(Abstract!vars)
BY DEF Abstract!vars, Members, Sending, Owe, Prefix

(* A value is given to a member it is owed to. *)
LEMMA GiveStep ==
  ASSUME FeedInv, NEW i \in 1 .. cases, Room(sendCases[i]), Put(i),
         sender.pc # "idle", sender'.pc # "idle", UNCHANGED <<inbox, last>>
  PROVE  [Abstract!Next]_(Abstract!vars)
<1>1. /\ sendCases[i] \in Subs /\ sendCases[i] \in Owe
      /\ Owe' = Owe \ {sendCases[i]} /\ Members' = Members
      /\ got' = [got EXCEPT ![sendCases[i]] = last]
  <2>1. /\ sendCases[i] \in Subs /\ Range(sendCases') = Range(sendCases)
        /\ Prefix(sendCases', cases') = Prefix(sendCases, cases) \ {sendCases[i]}
        /\ got' = [got EXCEPT ![sendCases[i]] = last]
    BY PutInv
  <2>2. sendCases[i] \in Prefix(sendCases, cases)
    BY DEF Prefix
  <2> QED BY <2>1, <2>2 DEF Owe, Members
<1>2. PICK s \in Subs : s = sendCases[i]
  BY <1>1
<1>3. Abstract!Give(s)
  BY <1>1, <1>2 DEF Abstract!Give, Owe, Members, Prefix
<1> QED
  BY <1>3 DEF Abstract!Next

(* A member leaves, whether or not a value is owed to it. *)
LEMMA LeaveStep ==
  ASSUME NEW s \in Subs, s \in Members, Members' = Members \ {s}, Owe' = Owe \ {s},
         Sending' = Sending, UNCHANGED <<last, got>>
  PROVE  [Abstract!Next]_(Abstract!vars)
<1>1. Abstract!Leave(s)
  BY DEF Abstract!Leave, Owe, Members, Sending, Prefix
<1> QED
  BY <1>1 DEF Abstract!Next

(* The array of cases and its prefix implement the set of members and the  *)
(* set of those that the Send under way owes its value to, for any number  *)
(* of subscriptions and sends: nobody is skipped, and nobody is given the  *)
(* same value twice, whoever leaves meanwhile (feed.go:126-187).           *)
THEOREM FeedImplementsBroadcast == Spec => ImplementsBroadcast
<1>1. Init => Abstract!Init
  <2> SUFFICES ASSUME Init PROVE Abstract!Init
    OBVIOUS
  <2>1. Range(Early) \subseteq Subs
    BY FeedAssumption, SetOfSeq
  <2>2. Range(sendCases) = {}
    BY SMTT(30) DEF Init, Range
  <2> QED
    BY <2>1, <2>2 DEF Init, Abstract!Init
<1>2. FeedInv /\ [Next]_vars => [Abstract!Next]_(Abstract!vars)
  <2> SUFFICES ASSUME FeedInv, [Next]_vars PROVE [Abstract!Next]_(Abstract!vars)
    OBVIOUS
  <2>1. CASE SendStart
    <3>1. inbox \in Seq(Subs) /\ sendCases \in Seq(Subs)
      BY DEF FeedInv, TypeOK
    <3>2. /\ sendCases' \in Seq(Subs) /\ cases' = Len(sendCases')
          /\ Range(sendCases') = Members /\ Range(inbox') = {}
      <4>1. Range(inbox') = {}
        BY <2>1, SMTT(30) DEF SendStart, Range
      <4> QED BY <2>1, <3>1, <4>1, ConcatCases, SMTT(30) DEF SendStart, Members
    <3>3. Prefix(sendCases', cases') = Members
      BY <3>2, SetOfSeq
    <3>4. /\ sender.pc = "idle" /\ sender'.pc = "try" /\ last' = last + 1 /\ got' = got
          /\ Members' = Members /\ Owe' = Members
      BY <2>1, <3>2, <3>3 DEF SendStart, Members, Owe
    <3>5. Abstract!Begin
      BY <3>4 DEF Abstract!Begin, Owe, Members, Prefix
    <3> QED BY <3>5 DEF Abstract!Next
  <2>2. CASE TrySend
    <3>1. CASE Room(sendCases[sender.i]) /\ Put(sender.i) /\ UNCHANGED sender
      <4>1. sender.i \in 1 .. cases
        BY <2>2, SMTT(30) DEF TrySend, FeedInv, TypeOK
      <4> QED BY <2>2, <3>1, <4>1, GiveStep DEF TrySend
    <3>2. CASE /\ sender' = [sender EXCEPT !.i = @ + 1]
               /\ UNCHANGED <<sendCases, cases, got, unread>>
      BY <2>2, <3>2, Stutter DEF TrySend, FeedInv, TypeOK, Members, Sending, Owe
    <3> QED BY <2>2, <3>1, <3>2 DEF TrySend
  <2>3. CASE TriedAll
    <3>1. CASE cases = 0
      <4>1. /\ sender.pc = "try" /\ sender'.pc = "idle" /\ Owe = {} /\ Owe' = {}
            /\ UNCHANGED <<inbox, sendCases, cases, last, got>>
        BY <2>3, <3>1, SMTT(30) DEF TriedAll, Owe, Prefix
      <4>2. Abstract!End
        BY <4>1 DEF Abstract!End, Owe, Prefix
      <4> QED BY <4>2 DEF Abstract!Next
    <3>2. CASE cases # 0
      BY <2>3, <3>2, Stutter DEF TriedAll, Members, Sending, Owe
    <3> QED BY <3>1, <3>2
  <2>4. CASE SelectSend
    <3>1. PICK i \in 1 .. cases : Room(sendCases[i]) /\ Put(i)
      BY <2>4 DEF SelectSend
    <3>2. sender'.pc = "try"
      BY <2>4 DEF SelectSend, FeedInv, TypeOK
    <3> QED BY <2>4, <3>1, <3>2, GiveStep DEF SelectSend
  <2>5. ASSUME NEW s \in Subs, SelectRemove(s)
        PROVE  [Abstract!Next]_(Abstract!vars)
    <3>1. s \in Members /\ s \notin Range(inbox)
      BY <2>5, WaitingIsListed DEF SelectRemove, Members
    <3>2. /\ Range(sendCases') = Range(sendCases) \ {s}
          /\ Prefix(sendCases', cases') = Prefix(sendCases, cases) \ {s}
      BY <2>5, CutInv DEF SelectRemove
    <3>3. sender'.pc = "try"
      BY <2>5 DEF SelectRemove, FeedInv, TypeOK
    <3> QED BY <2>5, <3>1, <3>2, <3>3, LeaveStep DEF SelectRemove, Members, Owe, Sending
  <2>6. ASSUME NEW s \in Subs, RemoveLocked(s)
        PROVE  [Abstract!Next]_(Abstract!vars)
    <3>1. s \in Members /\ s \notin Range(inbox)
      BY <2>6, WaitingIsListed DEF RemoveLocked, Members
    <3>2. Range(sendCases') = Range(sendCases) \ {s}
      BY <2>6, CutInv DEF RemoveLocked
    <3> QED BY <2>6, <3>1, <3>2, LeaveStep DEF RemoveLocked, Members, Owe, Sending
  <2>7. ASSUME NEW s \in Subs, Once(s), owner[s] # "none", Elsewhere
        PROVE  [Abstract!Next]_(Abstract!vars)
    <3>1. CASE removal'[s] = "done" /\ removal[s] # "done"
      <4>1. s \in Range(inbox) /\ Range(inbox') = Range(inbox) \ {s}
        BY <2>7, <3>1, OnceInv
      <4>2. s \notin Range(sendCases) /\ Range(sendCases) = Prefix(sendCases, Len(sendCases))
        BY <4>1, SetOfSeq DEF FeedInv, TypeOK
      <4>3. s \notin Prefix(sendCases, cases)
        BY <4>2, LenProperties, SMTT(30) DEF Prefix, FeedInv, TypeOK
      <4> QED BY <2>7, <4>1, <4>2, <4>3, LeaveStep DEF Elsewhere, Members, Owe, Sending
    <3>2. CASE ~(removal'[s] = "done" /\ removal[s] # "done")
      <4>1. Range(inbox') = Range(inbox)
        BY <2>7, <3>2, OnceInv DEF FeedInv, Listed
      <4> QED BY <2>7, <4>1, Stutter DEF Elsewhere, Members, Owe, Sending
    <3> QED BY <3>1, <3>2
  <2>8. ASSUME NEW s \in Subs, Subscribe(s)
        PROVE  [Abstract!Next]_(Abstract!vars)
    <3>1. inbox \in Seq(Subs) /\ s \notin Members
      BY <2>8 DEF Subscribe, Members, FeedInv, Listed, TypeOK
    <3>2. Range(Append(inbox, s)) = Range(inbox) \cup {s}
      <4>1. <<s>> \in Seq(Subs) /\ Range(<<s>>) = {s} /\ Append(inbox, s) = inbox \o <<s>>
        BY <3>1, AppendIsConcat, SMTT(30) DEF Range
      <4>2. \A ds \in Seq(Subs) : Range(inbox \o ds) = Range(inbox) \cup Range(ds)
        BY <3>1, ConcatCases, SMTT(30)
      <4> QED BY <4>1, <4>2
    <3>3. /\ Members' = Members \cup {s}
          /\ UNCHANGED <<sendCases, cases, sender, last, got>>
      BY <2>8, <3>2 DEF Subscribe, Members
    <3>4. Abstract!Join(s)
      BY <3>1, <3>3 DEF Abstract!Join, Members
    <3> QED BY <3>4 DEF Abstract!Next
  <2>9. CASE UNCHANGED feed
    BY <2>9, Stutter DEF feed, Members, Owe, Sending
  <2>10. ASSUME NEW s \in Subs, Unsubscribe(s) PROVE [Abstract!Next]_(Abstract!vars)
    BY <2>7, <2>10 DEF Unsubscribe
  <2>11. ASSUME NEW s \in Subs, CloseOne(s) PROVE [Abstract!Next]_(Abstract!vars)
    <3>1. owner[s] # "none" /\ Elsewhere
      BY <2>11 DEF CloseOne, FeedInv
    <3> QED BY <2>7, <2>9, <2>11, <3>1 DEF CloseOne, Elsewhere, feed
  <2> QED
    BY <2>1, <2>2, <2>3, <2>4, <2>5, <2>6, <2>8, <2>9, <2>10, <2>11
    DEF Next, Send, User, Closing, Track, Receive, Untrack, CloseStart, CloseEnd, vars, feed
<1> QED
  BY <1>1, <1>2, FeedInductive, PTL DEF Spec, ImplementsBroadcast, Abstract!Spec
=============================================================================
