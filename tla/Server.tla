------------------------------- MODULE Server -------------------------------
(***************************************************************************)
(* The peer-to-peer server of p2p/server.go and its dialer, p2p/dial.go:   *)
(* the run loop, the dial tasks it starts, the set-up of connections that  *)
(* were dialled or accepted, the peers, and Stop.                          *)
(*                                                                         *)
(* A connection is a node (the dial task for that node) or one of the      *)
(* slots of the listener.  A handshake succeeds or fails as the remote     *)
(* pleases, and a lookup finds what it finds.  Time is in one place, the   *)
(* dial history, whose entries are due in the order they were made.  The   *)
(* dialer looks at it only right after it has dropped those that are due,  *)
(* so an entry is dropped when it becomes due.                             *)
(***************************************************************************)
EXTENDS Integers, Sequences, FiniteSets, SequencesExt

CONSTANTS
  Nodes, Self,            \* remote nodes; one that is this server
  Barred,                 \* nodes outside netrestrict
  Trusted, StaticNodes,   \* configured nodes
  Managed,                \* nodes AddPeer and RemovePeer are called for
  Bootnodes,              \* a sequence
  Slots,                  \* MaxPendingPeers: slots of the listener
  MaxPeers, MaxDynDials,
  MaxActiveDialTasks,
  MaxResults              \* bound: nodes found by a lookup

ASSUME ServerAssumption ==
  /\ IsFiniteSet(Nodes) /\ Trusted \cup StaticNodes \cup Managed \cup Barred \subseteq Nodes
  /\ MaxPeers \in Nat /\ MaxDynDials \in Nat /\ MaxActiveDialTasks \in Nat \ {0}

VARIABLES
  ds,       \* the dialstate and the tasks that wait for a free place:
            \* [static, dialing, hist, lookup, buf, boot, wait, queue]
  conn,     \* [Nodes \cup Slots -> [st, id, flag]]: SetupConn.  "start": before
            \* it looks whether the server runs; "post", "add": in the handshake
            \* before posthandshake or addpeer, or waiting to be taken by the loop
  ended,    \* tasks in the channel taskdone
  peers,    \* [Nodes -> [st, flag, by]]: the map of the run loop and runPeer
  loop,     \* the run loop: [pc, c]
  listen,   \* is the listenLoop alive?
  stop      \* Stop: "no", "wait" (it holds srv.lock, quit is closed), "done"

vars == <<ds, conn, ended, peers, loop, listen, stop>>

NoPeer == [st |-> "none", flag |-> "none", by |-> "none"]
NoConn == [st |-> "none", id |-> Self, flag |-> "none"]
Connected == {n \in Nodes : peers[n] # NoPeer}
Quit == stop # "no"
LockFree == stop # "wait"

----------------------------------------------------------------------------
(* dialstate.  It looks at the peers as the handler of this turn leaves    *)
(* them.                                                                   *)

Dialing(S) == {n \in Nodes : S.dialing[n] # "none"}
Active(S) == Dialing(S) \cup {t \in {"lookup"} : S.lookup}
             \cup {t \in {"wait"} : S.wait # "no"}
NumRunning(S) == Cardinality(Active(S) \ ToSet(S.queue))

checkDial(S, n) ==
  n \notin Dialing(S) \cup Connected' \cup Barred \cup {Self} \cup ToSet(S.hist)

\* Static nodes that are refused for good.
Hopeless(S) == {n \in S.static : n \notin Dialing(S) \cup Connected' /\ n \in Barred \cup {Self}}

\* A round of newTasks: the state, the dials still needed and the tasks made.
addDial(A, flag, n) ==
  IF checkDial(A.S, n)
  THEN [S |-> [A.S EXCEPT !.dialing[n] = flag],
        need |-> IF flag = "dyn" THEN A.need - 1 ELSE A.need, new |-> Append(A.new, n)]
  ELSE A

\* The dials under way are not counted.
NeedDynPeers(S) == MaxDynDials - Cardinality({n \in Connected' : peers'[n].flag = "dyn"})
NeedDyn(S) ==
  MaxDynDials - Cardinality({n \in Connected' : peers'[n].flag = "dyn"})
              - Cardinality({n \in Nodes : S.dialing[n] = "dyn"})

\* Every static node that may be dialled is, in the order of the map.
Dialable(S) == {n \in S.static : checkDial(S, n)}
Statics(A, order) ==
  [A EXCEPT !.S.dialing = [n \in Nodes |-> IF n \in ToSet(order) THEN "static" ELSE @[n]],
            !.S.static = @ \ Hopeless(A.S), !.new = order]

\* The first boot node is tried and put last, if nobody is connected for long.
Fallback(A) ==
  IF Connected' = {} /\ A.S.boot # <<>> /\ A.need > 0
  THEN addDial([A EXCEPT !.S.boot = Append(Tail(@), Head(@))], "dyn", Head(A.S.boot))
  ELSE A

Randoms(A, found) ==
  LET k == A.need \div 2
  IN  FoldLeft(LAMBDA X, n : addDial(X, "dyn", n), A,
               SubSeq(found, 1, IF k < Len(found) THEN k ELSE Len(found)))

\* The results of lookups, while dials are needed; the tried ones are dropped.
FromLookup(A) ==
  FoldLeft(LAMBDA X, n : IF X.need > 0 THEN [addDial(X, "dyn", n) EXCEPT !.S.buf = Tail(@)] ELSE X,
           A, A.S.buf)

NewLookup(A) ==
  IF Len(A.S.buf) < A.need /\ ~A.S.lookup
  THEN [A EXCEPT !.S.lookup = TRUE, !.new = Append(@, "lookup")] ELSE A

NewWaitNever(A, nRunning) == A
\* Keeps the run loop ticking when nothing else would.
NewWait(A, nRunning) ==
  IF nRunning = 0 /\ A.new = <<>> /\ A.S.hist # <<>>
  THEN [A EXCEPT !.S.wait = "on", !.new = Append(@, "wait")] ELSE A

Orders == [ns \in SUBSET Nodes |-> SetToSeqs(ns)]
\* The node table, and so its lookups, never has this server itself.
Remote == Nodes \ {Self}
Found == {s \in UNION {[1 .. k -> Remote] : k \in 0 .. MaxDynDials \div 2} : IsInjective(s)}

\* What newTasks may make of S: the order of the map of static nodes, whether
\* the fallback interval is over, and the random nodes of the table are open.
newTasks(S) ==
  LET A == [S |-> S, need |-> NeedDyn(S), new |-> <<>>]
      B == {Statics(A, order) : order \in Orders[Dialable(A.S)]}
      C == B \cup {Fallback(X) : X \in B}
      D == {Randoms(X, found) : X \in C, found \in Found}
      nRunning == NumRunning(S) + Len(S.queue)
  IN  {NewWait(NewLookup(FromLookup(X)), nRunning) : X \in D}

----------------------------------------------------------------------------
(* scheduleTasks *)

\* The head of the queue is started while there are free places.
startTasks(S) ==
  LET free == MaxActiveDialTasks - NumRunning(S)
      k == IF free < Len(S.queue) THEN free ELSE Len(S.queue)
  IN  [S EXCEPT !.queue = SubSeq(@, k + 1, Len(@))]

\* The loop turns: from the state S the handler left, tasks are scheduled.
scheduleTasks(S, cs) ==
  LET Q == startTasks(S) IN
    /\ \/ /\ NumRunning(Q) < MaxActiveDialTasks
          /\ \E A \in newTasks(Q) : ds' = startTasks([A.S EXCEPT !.queue = A.new])
       \/ NumRunning(Q) = MaxActiveDialTasks /\ ds' = Q
    /\ conn' = [c \in Nodes \cup Slots |->
                  IF /\ c \in Dialing(ds') \ ToSet(ds'.queue)
                     /\ cs[c].st = "none" /\ c \notin ended'
                  THEN [st |-> "start", id |-> c, flag |-> ds'.dialing[c]] ELSE cs[c]]

----------------------------------------------------------------------------
(* The run loop *)

newDialState(static) ==
  [static |-> static, dialing |-> [n \in Nodes |-> "none"], hist |-> <<>>,
   lookup |-> FALSE, buf |-> <<>>, boot |-> Bootnodes, wait |-> "no", queue |-> <<>>]

Init ==
  /\ ds = newDialState(StaticNodes)
  /\ conn = [c \in Nodes \cup Slots |-> NoConn] /\ ended = {}
  /\ peers = [n \in Nodes |-> NoPeer]
  /\ loop = [pc |-> "start", c |-> "none"] /\ listen = TRUE /\ stop = "no"

Select == loop.pc = "select"
Turn(S, cs) == loop' = [pc |-> "select", c |-> "none"] /\ scheduleTasks(S, cs)

RunStarts ==
  /\ loop.pc = "start"
  /\ UNCHANGED <<ended, peers, listen, stop>> /\ Turn(ds, conn)

AddStatic(n) ==
  /\ Select
  /\ UNCHANGED <<ended, peers, listen, stop>>
  /\ Turn([ds EXCEPT !.static = @ \cup {n}], conn)

Disconnect(ns) ==
  peers' = [n \in Nodes |->
              IF n \in ns /\ peers[n].st = "run" THEN [peers[n] EXCEPT !.st = "disc"] ELSE peers[n]]

RemoveStatic(n) ==
  /\ Select
  /\ Disconnect({n}) /\ UNCHANGED <<ended, listen, stop>>
  /\ Turn([ds EXCEPT !.static = @ \ {n}], conn)

TaskDone(t) ==
  /\ Select /\ t \in ended
  /\ ended' = ended \ {t} /\ UNCHANGED <<peers, listen, stop>>
  /\ \/ /\ t \in Nodes
        /\ Turn([ds EXCEPT !.dialing[t] = "none", !.hist = Append(@, t)], conn)
     \/ /\ t = "lookup"
        /\ \E found \in UNION {[1 .. k -> Remote] : k \in 0 .. MaxResults} :
             Turn([ds EXCEPT !.lookup = FALSE, !.buf = @ \o found], conn)
     \/ /\ t = "wait"
        /\ Turn([ds EXCEPT !.wait = "no"], conn)

\* A connection arrives through posthandshake or addpeer.
ReceiveConn(c) ==
  /\ Select /\ conn[c].st \in {"post", "add"}
  /\ loop' = [pc |-> "check", c |-> c]
  /\ UNCHANGED <<ds, conn, ended, peers, listen, stop>>

\* The end of SetupConn, and of the dial task that called it.
Ended(c) == [conn EXCEPT ![c] = NoConn]
EndTask(c) == ended' = IF c \in Nodes THEN ended \cup {c} ELSE ended

\* Checked after the first handshake only.
TooManyEarly(c) ==
  /\ conn[c].st = "post" /\ conn[c].id \notin Trusted /\ conn[c].flag # "static"
  /\ Cardinality(Connected) >= MaxPeers
TooMany(c) ==
  /\ conn[c].id \notin Trusted /\ conn[c].flag # "static"
  /\ Cardinality(Connected) >= MaxPeers
DuplicateEarly(c) == conn[c].st = "post" /\ conn[c].id \in Connected
Duplicate(c) == conn[c].id \in Connected

\* encHandshakeChecks asks Self, which takes srv.lock, if it gets that far.
encHandshakeChecks(c) ==
  /\ ~TooMany(c) /\ ~Duplicate(c) /\ conn[c].id # Self
Blocked(c) == ~TooMany(c) /\ ~Duplicate(c) /\ ~LockFree

\* The answer reaches the connection, or the loop ends because of quit.
Answer(c, ok) ==
  \/ /\ ok /\ conn[c].st = "post"
     /\ UNCHANGED ended /\ Turn(ds, [conn EXCEPT ![c].st = "add"])
  \/ /\ ~ok \/ conn[c].st = "add"
     /\ EndTask(c) /\ Turn(ds, Ended(c))
  \/ /\ Quit
     /\ loop' = [pc |-> "quit", c |-> "none"] /\ UNCHANGED <<ds, conn, ended>>

\* With matching protocols, a connection past both handshakes is a peer.
Check(c) ==
  /\ loop = [pc |-> "check", c |-> c] /\ ~Blocked(c)
  /\ \E matching \in {TRUE} \cup {conn[c].st # "add"} :
       LET ok == matching /\ encHandshakeChecks(c) IN
         /\ peers' = IF ok /\ conn[c].st = "add"
                     THEN [peers EXCEPT ![conn[c].id] =
                             [st |-> "run", flag |-> conn[c].flag, by |-> c]]
                     ELSE peers
         /\ Answer(c, ok)
  /\ UNCHANGED <<listen, stop>>

\* A peer that disconnects, or was told to, is sent to delpeer by its runPeer.
DelPeer(n) ==
  /\ n \in Connected /\ loop.pc \in {"select", "spin"}
  /\ peers' = [peers EXCEPT ![n] = NoPeer] /\ UNCHANGED <<ended, listen, stop>>
  /\ \/ Select /\ Turn(ds, conn)
     \/ ~Select /\ UNCHANGED <<ds, conn, loop>>

\* Nobody waits for the dial tasks any more: they are forgotten.
RunQuits ==
  /\ (Select /\ Quit) \/ loop.pc = "quit"
  /\ loop' = [pc |-> "spin", c |-> "none"] /\ Disconnect(Nodes)
  /\ ds' = newDialState({}) /\ ended' = {}
  /\ conn' = [c \in Nodes \cup Slots |-> IF c \in Nodes THEN NoConn ELSE conn[c]]
  /\ UNCHANGED <<listen, stop>>

RunEnds ==
  /\ loop.pc = "spin" /\ Connected = {}
  /\ loop' = [pc |-> "over", c |-> "none"]
  /\ UNCHANGED <<ds, conn, ended, peers, listen, stop>>

----------------------------------------------------------------------------
(* Dial tasks, SetupConn, runPeer, listenLoop and Stop *)

Rest == UNCHANGED <<ds, peers, loop, listen, stop>>
Advance(c, st) == conn' = [conn EXCEPT ![c].st = st] /\ UNCHANGED ended /\ Rest
Abandon(c) == conn' = Ended(c) /\ EndTask(c) /\ Rest

\* The remote is not reached, neither at its known nor at its resolved endpoint.
DialFails(n) == conn[n].st = "start" /\ Abandon(n)

SetupConn(c) ==
  /\ conn[c].st = "start" /\ LockFree
  /\ IF stop = "no" THEN Advance(c, "post") ELSE Abandon(c)

\* The handshake before the checkpoint fails, or the checkpoint sees quit
\* before the loop has taken the connection.
HandshakeFails(c) == conn[c].st \in {"post", "add"} /\ loop.c # c /\ Abandon(c)

ConnStep(c) == (c \in Nodes /\ DialFails(c)) \/ SetupConn(c) \/ HandshakeFails(c)

LookupEnds ==
  /\ ds.lookup /\ "lookup" \notin ToSet(ds.queue) \cup ended
  /\ ended' = ended \cup {"lookup"} /\ UNCHANGED conn /\ Rest

WaitEnds ==
  /\ ds.wait = "due" /\ "wait" \notin ToSet(ds.queue) \cup ended
  /\ ended' = ended \cup {"wait"} /\ UNCHANGED conn /\ Rest

\* The oldest entry of the history is due: the one a waitExpireTask waits for.
Tick ==
  /\ ds.hist # <<>>
  /\ ds' = [ds EXCEPT !.hist = Tail(@), !.wait = IF @ = "on" THEN "due" ELSE @]
  /\ UNCHANGED <<conn, ended, peers, loop, listen, stop>>

Accept(i, n) ==
  /\ listen /\ ~Quit /\ conn[i] = NoConn /\ n \notin Barred
  /\ conn' = [conn EXCEPT ![i] = [st |-> "start", id |-> n, flag |-> "in"]]
  /\ UNCHANGED ended /\ Rest

\* The listenLoop sees that the listener is closed once it has a slot.
ListenEnds ==
  /\ listen /\ Quit /\ \E i \in Slots : conn[i] = NoConn
  /\ listen' = FALSE /\ UNCHANGED <<ds, conn, ended, peers, loop, stop>>

Stop ==
  /\ stop = "no"
  /\ stop' = "wait" /\ UNCHANGED <<ds, conn, ended, peers, loop, listen>>

StopEnds ==
  /\ stop = "wait" /\ loop.pc = "over" /\ ~listen
  /\ stop' = "done" /\ UNCHANGED <<ds, conn, ended, peers, loop, listen>>

Tasks == Nodes \cup {"lookup", "wait"}
Next ==
  \/ RunStarts \/ RunQuits \/ RunEnds
  \/ \E n \in Managed : AddStatic(n) \/ RemoveStatic(n)
  \/ \E n \in Nodes : DelPeer(n)
  \/ \E t \in Tasks : TaskDone(t)
  \/ \E c \in Nodes \cup Slots : ReceiveConn(c) \/ Check(c) \/ ConnStep(c)
  \/ LookupEnds \/ WaitEnds \/ Tick
  \/ \E i \in Slots, n \in Remote : Accept(i, n)
  \/ ListenEnds \/ Stop \/ StopEnds

Spec == Init /\ [][Next]_vars

\* The scheduler runs every goroutine that can go on: handshakes and dials end,
\* lookups return, entries of the history become due; the select of the loop
\* does not pass over finished tasks for ever.  A peer ends when it is told to.
\* A task is taken by TaskDone alone, which can always finish its turn, so its
\* strong fairness is stated by what it does to ended and loop.
TaskTaken == Select /\ UNCHANGED loop /\ \E t \in ended : ended' = ended \ {t}
Fairness ==
  /\ WF_vars(RunStarts \/ RunQuits \/ RunEnds \/ \E c \in Nodes \cup Slots : Check(c))
  /\ SF_<<ended, loop>>(TaskTaken)
  /\ \A c \in Nodes \cup Slots : WF_vars(ConnStep(c) \/ ReceiveConn(c))
  /\ WF_vars(Tick) /\ WF_vars(LookupEnds \/ WaitEnds)
  /\ WF_vars(ListenEnds \/ StopEnds \/ \E n \in Nodes : loop.pc = "spin" /\ DelPeer(n))
FairSpec == Spec /\ Fairness

----------------------------------------------------------------------------
(* Properties *)

\* The tasks that run never exceed the places, none is queued twice, and a
\* connection is being set up exactly for the dials that run
\* (server.go:488-507).
TypeOK ==
  /\ ds.static \subseteq Nodes /\ ToSet(ds.hist) \subseteq Nodes
  /\ ToSet(ds.queue) \subseteq Active(ds) /\ IsInjective(ds.queue) /\ IsInjective(ds.hist)
  /\ ended \subseteq Active(ds) \ ToSet(ds.queue)
  /\ NumRunning(ds) \in 0 .. MaxActiveDialTasks
  /\ \A n \in Nodes : conn[n].st # "none" <=> n \in Dialing(ds) \ (ToSet(ds.queue) \cup ended)

\* The nodes that were or are being dialled dynamically never exceed
\* maxDynDials: a dial is in dialing until its peer, if any, is in the map
\* (dial.go:175-186, the comment at server.go:572-574).
DynLimit ==
  /\ TypeOK
  /\ Cardinality({n \in Nodes : ds.dialing[n] = "dyn" \/ peers[n].flag = "dyn"}) <= MaxDynDials

\* Peers that are neither trusted nor static never exceed MaxPeers, although
\* many connections may pass the first check at the same time
\* (server.go:611-632).
PeerLimit ==
  Cardinality({n \in Connected \ Trusted : peers[n].flag # "static"}) <= MaxPeers

\* A peer in the map is never replaced by another connection to the same
\* node: the old runPeer would later delete the new one (server.go:569, :584).
NeverReplaced ==
  [][\A n \in Connected : peers'[n] = NoPeer \/ peers'[n].by = peers[n].by]_vars

\* A static node that is not connected is dialled again and again, also when
\* nothing happens that would turn the loop: the history expires without an
\* event (dial.go:241-248, and AddPeer's promise at server.go:282-284).
KeptDialled ==
  \A n \in StaticNodes \cup Managed :
    []<>(n \notin ds.static \/ n \in Dialing(ds) \/ n \in Connected \/ Quit)

\* "Stop terminates the server and all active peer connections.  It blocks until
\* all active connections have been closed" (server.go:336-337): once they have
\* been, it returns.
StopReturns == []<>(stop # "wait")
=============================================================================
