---------------------------- MODULE ServerProofs ----------------------------
(***************************************************************************)
(* The peers of Server, for any finite set of nodes, any slots and limits: *)
(* only the run loop adds a peer, right after its own check, so that the   *)
(* limit holds and no peer is replaced, however many connections passed    *)
(* the first check.                                                        *)
(***************************************************************************)
EXTENDS Server, FiniteSetTheorems, TLAPS

\* The prover of a leaf that names no other one.
USE ZenonT(60)

(* The entries of the map of peers are records. *)
PeersType ==
  /\ DOMAIN peers = Nodes /\ peers = [n \in Nodes |-> peers[n]]
  /\ \A n \in Nodes : peers[n] = [st |-> peers[n].st, flag |-> peers[n].flag, by |-> peers[n].by]

Counted == {n \in Connected \ Trusted : peers[n].flag # "static"}

PeersInv == PeersType /\ PeerLimit

(* What a step does to the map: it keeps it, takes a peer out, tells peers *)
(* to disconnect or adds one after encHandshakeChecks.                     *)
LEMMA PeersStep ==
  ASSUME Next
  PROVE  \/ UNCHANGED peers
         \/ \E ns \in SUBSET Nodes : Disconnect(ns)
         \/ \E n \in Nodes : peers' = [peers EXCEPT ![n] = NoPeer]
         \/ \E c \in Nodes \cup Slots :
              /\ ~TooMany(c) /\ ~Duplicate(c)
              /\ peers' = [peers EXCEPT ![conn[c].id] =
                             [st |-> "run", flag |-> conn[c].flag, by |-> c]]
<1>1. CASE RunStarts \/ RunEnds \/ LookupEnds \/ WaitEnds \/ Tick \/ ListenEnds \/ Stop \/ StopEnds
  BY <1>1 DEF RunStarts, RunEnds, LookupEnds, WaitEnds, Tick, ListenEnds, Stop, StopEnds, Rest
<1>2. CASE RunQuits
  BY <1>2 DEF RunQuits
<1>3. ASSUME NEW n \in Managed, AddStatic(n) \/ RemoveStatic(n)
      PROVE  UNCHANGED peers \/ \E ns \in SUBSET Nodes : Disconnect(ns)
  BY <1>3, ServerAssumption DEF AddStatic, RemoveStatic
<1>4. ASSUME NEW n \in Nodes, DelPeer(n)
      PROVE  peers' = [peers EXCEPT ![n] = NoPeer]
  BY <1>4 DEF DelPeer
<1>5. ASSUME NEW t \in Tasks, TaskDone(t)
      PROVE  UNCHANGED peers
  BY <1>5 DEF TaskDone
<1>6. ASSUME NEW c \in Nodes \cup Slots, ReceiveConn(c) \/ ConnStep(c)
      PROVE  UNCHANGED peers
  BY <1>6 DEF ReceiveConn, ConnStep, DialFails, SetupConn, HandshakeFails, Advance, Abandon, Rest
<1>7. ASSUME NEW c \in Nodes \cup Slots, Check(c)
      PROVE  \/ UNCHANGED peers
             \/ /\ ~TooMany(c) /\ ~Duplicate(c)
                /\ peers' = [peers EXCEPT ![conn[c].id] =
                               [st |-> "run", flag |-> conn[c].flag, by |-> c]]
  BY <1>7 DEF Check, encHandshakeChecks
<1>8. ASSUME NEW i \in Slots, NEW n \in Remote, Accept(i, n)
      PROVE  UNCHANGED peers
  BY <1>8 DEF Accept, Rest
<1> QED
  BY <1>1, <1>2, <1>3, <1>4, <1>5, <1>6, <1>7, <1>8 DEF Next

(* A map with no more counted peers keeps the limit. *)
LEMMA FewerCounted ==
  ASSUME PeerLimit, Counted' \subseteq Counted
  PROVE  PeerLimit'
<1>1. IsFiniteSet(Counted)
  BY ServerAssumption, FS_Subset DEF Counted, Connected
<1>2. Cardinality(Counted) \in Nat /\ Cardinality(Counted') \in Nat
      /\ Cardinality(Counted') <= Cardinality(Counted)
  BY <1>1, FS_Subset, FS_CardinalityType
<1> QED
  BY <1>2, ServerAssumption, SMTT(30) DEF PeerLimit, Counted

(* Disconnect changes the state of a peer only. *)
LEMMA DisconnectKeeps ==
  ASSUME PeersType, NEW ns \in SUBSET Nodes, Disconnect(ns)
  PROVE  /\ PeersType' /\ Connected' = Connected
         /\ \A n \in Nodes : peers'[n].flag = peers[n].flag /\ peers'[n].by = peers[n].by
<1>1. ASSUME NEW n \in Nodes
      PROVE  /\ peers'[n] = [st |-> peers'[n].st, flag |-> peers'[n].flag, by |-> peers'[n].by]
             /\ peers'[n].flag = peers[n].flag /\ peers'[n].by = peers[n].by
             /\ peers'[n] # NoPeer <=> peers[n] # NoPeer
  <2>1. peers[n] = [st |-> peers[n].st, flag |-> peers[n].flag, by |-> peers[n].by]
    BY DEF PeersType
  <2>2. \/ peers'[n] = peers[n]
        \/ peers[n].st = "run" /\ peers'[n] = [peers[n] EXCEPT !.st = "disc"]
    BY DEF Disconnect
  <2>3. CASE peers'[n] = peers[n]
    BY <2>1, <2>3
  <2>4. CASE peers[n].st = "run" /\ peers'[n] = [peers[n] EXCEPT !.st = "disc"]
    <3>1. peers'[n] = [st |-> "disc", flag |-> peers[n].flag, by |-> peers[n].by]
      BY <2>1, <2>4
    <3>2. peers'[n].st = "disc" /\ NoPeer.st = "none"
      BY <3>1, SMTT(30) DEF NoPeer
    <3> QED BY <2>4, <3>1, <3>2
  <2> QED BY <2>2, <2>3, <2>4
<1>2. DOMAIN peers' = Nodes /\ peers' = [n \in Nodes |-> peers'[n]]
  BY DEF Disconnect
<1> QED
  BY <1>1, <1>2 DEF PeersType, Connected

(* The invariant, and that a peer in the map is kept or taken out. *)
LEMMA PeersKept ==
  ASSUME PeersInv, [Next]_vars
  PROVE  /\ PeersInv'
         /\ \A n \in Connected : peers'[n] = NoPeer \/ peers'[n].by = peers[n].by
<1>1. CASE UNCHANGED peers
  BY <1>1 DEF PeersInv, PeersType, PeerLimit, Connected
<1>2. ASSUME NEW ns \in SUBSET Nodes, Disconnect(ns)
      PROVE  /\ PeersInv'
             /\ \A n \in Connected : peers'[n] = NoPeer \/ peers'[n].by = peers[n].by
  <2>1. /\ PeersType' /\ Connected' = Connected
        /\ \A n \in Nodes : peers'[n].flag = peers[n].flag /\ peers'[n].by = peers[n].by
    BY <1>2, DisconnectKeeps DEF PeersInv
  <2>2. Connected \subseteq Nodes
    BY DEF Connected
  <2>3. Counted' \subseteq Counted
    BY <2>1, <2>2 DEF Counted
  <2> QED BY <2>1, <2>2, <2>3, FewerCounted DEF PeersInv
<1>3. ASSUME NEW n \in Nodes, peers' = [peers EXCEPT ![n] = NoPeer]
      PROVE  /\ PeersInv'
             /\ \A m \in Connected : peers'[m] = NoPeer \/ peers'[m].by = peers[m].by
  <2>1. /\ peers'[n] = NoPeer /\ \A m \in Nodes \ {n} : peers'[m] = peers[m]
        /\ DOMAIN peers' = Nodes /\ peers' = [m \in Nodes |-> peers'[m]]
    BY <1>3 DEF PeersInv, PeersType
  <2>2. PeersType'
    BY <2>1 DEF PeersInv, PeersType, NoPeer
  <2>3. Connected' \subseteq Connected \ {n} /\ Connected \subseteq Nodes
    BY <2>1 DEF Connected
  <2>4. Counted' \subseteq Counted
    BY <2>1, <2>3 DEF Counted
  <2> QED BY <2>1, <2>2, <2>3, <2>4, FewerCounted DEF PeersInv
<1>4. ASSUME NEW c \in Nodes \cup Slots, ~TooMany(c), ~Duplicate(c),
             peers' = [peers EXCEPT ![conn[c].id] =
                         [st |-> "run", flag |-> conn[c].flag, by |-> c]]
      PROVE  /\ PeersInv'
             /\ \A m \in Connected : peers'[m] = NoPeer \/ peers'[m].by = peers[m].by
  <2> DEFINE id == conn[c].id
             entry == [st |-> "run", flag |-> conn[c].flag, by |-> c]
  <2>1. /\ id \in Nodes => peers'[id] = entry
        /\ \A m \in Nodes \ {id} : peers'[m] = peers[m]
        /\ DOMAIN peers' = Nodes /\ peers' = [m \in Nodes |-> peers'[m]]
    BY <1>4 DEF PeersInv, PeersType
  <2>2. id \notin Connected /\ Connected \subseteq Nodes
    BY <1>4 DEF Duplicate, Connected
  <2>3. entry = [st |-> entry.st, flag |-> entry.flag, by |-> entry.by] /\ entry.flag = conn[c].flag
    OBVIOUS
  <2> HIDE DEF entry, id
  <2>4. PeersType'
    BY <2>1, <2>3 DEF PeersInv, PeersType
  <2>5. Connected' \subseteq Connected \cup {id}
    BY <2>1 DEF Connected
  <2>6. CASE id \in Trusted \/ conn[c].flag = "static"
    <3>1. Counted' \subseteq Counted
      BY <2>1, <2>2, <2>3, <2>5, <2>6 DEF Counted, Connected
    <3> QED BY <2>1, <2>2, <2>4, <3>1, FewerCounted DEF PeersInv
  <2>7. CASE ~(id \in Trusted \/ conn[c].flag = "static")
    <3>1. ~(Cardinality(Connected) >= MaxPeers)
      BY <1>4, <2>7 DEF TooMany, id
    <3>2. IsFiniteSet(Connected) /\ Cardinality(Connected) \in Nat
      BY <2>2, ServerAssumption, FS_Subset, FS_CardinalityType
    <3>3. /\ IsFiniteSet(Connected \cup {id})
          /\ Cardinality(Connected \cup {id}) = Cardinality(Connected) + 1
      BY <2>2, <3>2, FS_AddElement
    <3>4. Counted' \subseteq Connected \cup {id}
      BY <2>5 DEF Counted
    <3>5. /\ Cardinality(Counted') \in Nat
          /\ Cardinality(Counted') <= Cardinality(Connected \cup {id})
      BY <3>3, <3>4, FS_Subset, FS_CardinalityType
    <3>6. Cardinality(Counted') <= MaxPeers
      BY <3>1, <3>2, <3>3, <3>5, ServerAssumption, SMTT(30)
    <3>7. PeerLimit'
      BY <3>6 DEF PeerLimit, Counted
    <3> QED BY <2>1, <2>2, <2>4, <3>7 DEF PeersInv
  <2> QED BY <2>6, <2>7
<1>5. CASE UNCHANGED vars
  BY <1>1, <1>5 DEF vars
<1> QED
  BY <1>1, <1>2, <1>3, <1>4, <1>5, PeersStep

(* The invariant holds in every state. *)
LEMMA PeersInductive == Spec => []PeersInv
<1>1. Init => PeersInv
  <2> SUFFICES ASSUME Init PROVE PeersInv
    OBVIOUS
  <2>1. peers = [n \in Nodes |-> NoPeer]
    BY DEF Init
  <2>2. PeersType
    BY <2>1 DEF PeersType, NoPeer
  <2>3. {n \in Connected \ Trusted : peers[n].flag # "static"} = {}
    BY <2>1 DEF Connected
  <2>4. Cardinality({n \in Connected \ Trusted : peers[n].flag # "static"}) = 0
    BY <2>3, FS_EmptySet
  <2> QED BY <2>2, <2>4, ServerAssumption, SMTT(30) DEF PeersInv, PeerLimit
<1>2. PeersInv /\ [Next]_vars => PeersInv'
  BY PeersKept
<1> QED
  BY <1>1, <1>2, PTL DEF Spec

(* Peers that are neither trusted nor static never exceed MaxPeers: the    *)
(* run loop checks again when it adds a connection (encHandshakeChecks).   *)
THEOREM ServerPeerLimit == Spec => []PeerLimit
<1>1. PeersInv => PeerLimit
  BY DEF PeersInv
<1> QED
  BY <1>1, PeersInductive, PTL

(* A peer in the map is never replaced by another connection to its node,  *)
(* so that its runPeer deletes no other peer (delpeer).                    *)
THEOREM ServerNeverReplaced == Spec => NeverReplaced
<1>1. PeersInv /\ [Next]_vars
      => [\A n \in Connected : peers'[n] = NoPeer \/ peers'[n].by = peers[n].by]_vars
  BY PeersKept
<1> QED
  BY <1>1, PeersInductive, PTL DEF Spec, NeverReplaced

=============================================================================
