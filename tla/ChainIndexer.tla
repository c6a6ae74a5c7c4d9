---------------------------- MODULE ChainIndexer ----------------------------
(***************************************************************************)
(* The chain indexer of core/chain_indexer.go: sections of the canonical   *)
(* chain are processed in the background, without the lock, while events   *)
(* of new heads and reorgs arrive, and a child indexer follows its parent. *)
(*                                                                         *)
(* The chains the network may settle on are sequences of blocks that share *)
(* a prefix.  The head moves up one of them, or over to another one that   *)
(* is longer.  A header stands for the chain that ends in it.  What a      *)
(* backend does with a section is left out: it accepts it or fails.        *)
(***************************************************************************)
EXTENDS Integers, Sequences, SequencesExt

CONSTANTS
  Branches,     \* the chains: block number n is at position n + 1
  Size,         \* [Indexers -> sectionSize]
  Confirms,     \* [Indexers -> confirmsReq]
  MaxEvents,    \* the buffer of the event channel
  MaxFaults     \* bound: failures of a backend and restarts

Indexers == {"parent", "child"}
None == "none"
MaxSections == Max({Len(b) : b \in Branches}) \div Min({Size[i] : i \in Indexers})

VARIABLES
  head,       \* the canonical chain
  events,     \* heads in the channel of the event loop
  loop,       \* the event loop: [prev, pc]
  idx,        \* [Indexers -> [stored, known, update, later, shead]]
  cascaded,   \* cascadedHead of the parent
  proc,       \* [Indexers -> the section its update loop is processing]
  deep,       \* may a reorg be deeper than the confirmations?
  faults

vars == <<head, events, loop, idx, cascaded, proc, deep, faults>>

Number(h) == Len(h) - 1
Hash(h, n) == h[n + 1]          \* the block of that number in the chain of h

\* FindCommonAncestor: its number.
CommonAncestor(g, h) ==
  CHOOSE n \in 0 .. Number(g) :
    /\ n <= Number(h) /\ Hash(g, n) = Hash(h, n)
    /\ n = Number(g) \/ n = Number(h) \/ Hash(g, n + 1) # Hash(h, n + 1)

----------------------------------------------------------------------------
(* The database of an indexer *)

SectionHead(x, s) == IF s < 0 THEN None ELSE x.shead[s]

\* The heads of sections that are no longer valid are removed.
setValidSections(x, n) ==
  [x EXCEPT !.stored = n,
            !.shead = [s \in DOMAIN @ |-> IF s >= n /\ s < x.stored THEN None ELSE @[s]]]

----------------------------------------------------------------------------
(* newHead *)

Notify(x) == [x EXCEPT !.update = TRUE]

\* The sections that are complete and confirmed with the head number h.
SectionsUnconfirmed(i, h) == (h + 1) \div Size[i]
Sections(i, h) == IF h >= Confirms[i] THEN (h + 1 - Confirms[i]) \div Size[i] ELSE 0

Forward(i, x, h) ==
  IF Sections(i, h) > x.known THEN Notify([x EXCEPT !.known = Sections(i, h)]) ELSE x

Changed(i, h) == h \div Size[i]
Rollback(i, x, h) ==
  LET y == [x EXCEPT !.known = IF Changed(i, h) < @ THEN Changed(i, h) ELSE @]
  IN  IF Changed(i, h) < x.stored THEN setValidSections(y, Changed(i, h)) ELSE y

\* The parent rolls back, and its child if sections it was told of are gone.
ReorgTo(h) ==
  LET to == Changed("parent", h) * Size["parent"]
      tell == to < cascaded
  IN  /\ cascaded' = IF tell THEN to ELSE cascaded
      /\ idx' = [idx EXCEPT !["parent"] = Rollback("parent", @, h),
                            !["child"] = IF tell THEN Rollback("child", @, to) ELSE @]

----------------------------------------------------------------------------
(* The chain and the event loop *)

Empty == [stored |-> 0, known |-> 0, update |-> FALSE, later |-> FALSE,
          shead |-> [s \in 0 .. MaxSections |-> None]]
Idle == [pc |-> "idle", section |-> 0, old |-> None, num |-> 0, last |-> None]

Init ==
  /\ head \in {SubSeq(b, 1, 1) : b \in Branches}
  /\ events = <<>> /\ loop = [prev |-> head, pc |-> "select"] /\ cascaded = 0
  /\ idx = [i \in Indexers |-> Empty] /\ proc = [i \in Indexers |-> Idle]
  /\ deep \in BOOLEAN /\ faults = 0

\* A block becomes the head, by extension or by a reorg to a longer chain, and
\* its event is sent.
NewBlock(b) ==
  LET h == SubSeq(b, 1, Len(head) + 1) IN
    /\ Len(head) < Len(b) /\ Len(events) < MaxEvents
    /\ deep \/ Number(head) - CommonAncestor(head, h) <= Confirms["parent"]
    /\ head' = h /\ events' = Append(events, h)
    /\ UNCHANGED <<loop, idx, cascaded, proc, deep, faults>>

IsChild(g, h) == Front(h) = g
InReorg == loop.pc = "select" /\ events # <<>> /\ ~IsChild(loop.prev, Head(events))

\* An event that does not extend the last one: back to the common ancestor.
EventReorg ==
  /\ InReorg
  /\ ReorgTo(CommonAncestor(loop.prev, Head(events)))
  /\ loop' = [loop EXCEPT !.pc = "reorged"]
  /\ UNCHANGED <<head, events, proc, deep, faults>>

EventHead ==
  /\ events # <<>> /\ ~InReorg
  /\ idx' = [idx EXCEPT !["parent"] = Forward("parent", @, Number(Head(events)))]
  /\ loop' = [prev |-> Head(events), pc |-> "select"]
  /\ events' = Tail(events)
  /\ UNCHANGED <<head, cascaded, proc, deep, faults>>

----------------------------------------------------------------------------
(* The update loop *)

Elsewhere == UNCHANGED <<head, events, loop, deep>>

AgainNot(x) == x
\* Sections that are still to be processed are scheduled again, by a timer.
Again(x) == [x EXCEPT !.later = @ \/ x.known > x.stored]

UpdateStart(i) ==
  LET x == [idx[i] EXCEPT !.update = FALSE] IN
    /\ proc[i].pc = "idle" /\ idx[i].update
    /\ idx' = [idx EXCEPT ![i] = x]
    /\ proc' = IF x.known <= x.stored THEN proc
               ELSE [proc EXCEPT ![i] =
                       LET old == SectionHead(x, x.stored - 1)
                       IN  [pc |-> "read", section |-> x.stored, old |-> old,
                            num |-> x.stored * Size[i], last |-> old]]
    /\ UNCHANGED <<cascaded, faults>> /\ Elsewhere

\* backend.Reset fails: nothing is valid any more.
ResetFails(i) ==
  /\ proc[i].pc = "read" /\ proc[i].num = proc[i].section * Size[i] /\ faults < MaxFaults
  /\ idx' = [idx EXCEPT ![i] = setValidSections(@, 0)]
  /\ proc' = [proc EXCEPT ![i].pc = "failed"] /\ faults' = faults + 1
  /\ UNCHANGED cascaded /\ Elsewhere

\* The parent of a header, unknown for the genesis block.
ParentHash(h, n) == IF n = 0 THEN None ELSE Hash(h, n - 1)

ContinuousNot(i) == proc[i].num <= Number(head)
\* The canonical header of that number is there, and on top of the last one.
Continuous(i) ==
  proc[i].num <= Number(head) /\ ParentHash(head, proc[i].num) = proc[i].last

ProcessHeader(i) ==
  /\ proc[i].pc = "read"
  /\ proc' = [proc EXCEPT ![i] =
       IF ~Continuous(i) THEN [@ EXCEPT !.pc = "failed"]
       ELSE [@ EXCEPT !.num = @ + 1, !.last = Hash(head, proc[i].num),
                      !.pc = IF proc[i].num + 1 = (proc[i].section + 1) * Size[i]
                             THEN "read_all" ELSE "read"]]
  /\ UNCHANGED <<idx, cascaded, faults>> /\ Elsewhere

CommitFails(i) ==
  /\ proc[i].pc = "read_all" /\ faults < MaxFaults
  /\ proc' = [proc EXCEPT ![i].pc = "failed"] /\ faults' = faults + 1
  /\ UNCHANGED <<idx, cascaded>> /\ Elsewhere

SameParent(i) == proc[i].old = SectionHead(idx[i], proc[i].section - 1)

\* The section is complete; the parent tells its child.
Accept(i) ==
  LET p == proc[i]
      x == Again(setValidSections([idx[i] EXCEPT !.shead[p.section] = p.last], p.section + 1))
      end == (p.section + 1) * Size[i] - 1
  IN
    /\ p.pc = "read_all" /\ SameParent(i)
    /\ proc' = [proc EXCEPT ![i] = Idle]
    /\ \/ /\ i = "parent" /\ cascaded' = end
          /\ idx' = [idx EXCEPT ![i] = x, !["child"] = Forward("child", @, end)]
       \/ /\ i = "child" /\ idx' = [idx EXCEPT ![i] = x] /\ UNCHANGED cascaded
    /\ UNCHANGED faults /\ Elsewhere

\* Not retried until further notification.
Reject(i) ==
  /\ proc[i].pc = "failed" \/ (proc[i].pc = "read_all" /\ ~SameParent(i))
  /\ idx' = [idx EXCEPT ![i].known = idx[i].stored]
  /\ proc' = [proc EXCEPT ![i] = Idle]
  /\ UNCHANGED <<cascaded, faults>> /\ Elsewhere

\* The timer of the update loop fires.
AfterFunc(i) ==
  /\ idx[i].later
  /\ idx' = [idx EXCEPT ![i] = [Notify(@) EXCEPT !.later = FALSE]]
  /\ UNCHANGED <<cascaded, proc, faults>> /\ Elsewhere

\* Only the database survives.  The child is added to its parent, then the
\* event loop starts from the current head.
Restart ==
  LET db(i) == [Empty EXCEPT !.stored = idx[i].stored, !.shead = idx[i].shead] IN
    /\ faults < MaxFaults /\ faults' = faults + 1
    /\ idx' = [i \in Indexers |->
                 IF i = "parent" THEN Forward(i, db(i), Number(head))
                 ELSE IF idx["parent"].stored = 0 THEN db(i)
                 ELSE Forward(i, db(i), idx["parent"].stored * Size["parent"] - 1)]
    /\ proc' = [i \in Indexers |-> Idle] /\ cascaded' = 0
    /\ events' = <<>> /\ loop' = [prev |-> head, pc |-> "select"]
    /\ UNCHANGED <<head, deep>>

UpdateLoop(i) == UpdateStart(i) \/ ProcessHeader(i) \/ Accept(i) \/ Reject(i)
Next ==
  \/ \E b \in Branches : NewBlock(b)
  \/ EventReorg \/ EventHead \/ Restart
  \/ \E i \in Indexers :
       UpdateLoop(i) \/ ResetFails(i) \/ CommitFails(i) \/ AfterFunc(i)

Spec == Init /\ [][Next]_vars

\* Both loops run when they can, and timers fire.
Fairness ==
  /\ WF_vars(EventReorg \/ EventHead)
  /\ \A i \in Indexers : WF_vars(UpdateLoop(i)) /\ WF_vars(AfterFunc(i))
FairSpec == Spec /\ Fairness

----------------------------------------------------------------------------
(* Properties *)

\* A valid section has a head in the database (chain_indexer.go:402-414).
TypeOK ==
  \A i \in Indexers :
    /\ idx[i].stored \in 0 .. MaxSections /\ idx[i].known \in 0 .. MaxSections
    /\ proc[i].section \in 0 .. MaxSections
    /\ \A s \in 0 .. idx[i].stored - 1 : idx[i].shead[s] # None

\* The block the section s of the chain h ends with.
SectionEnd(i, s, h) == IF (s + 1) * Size[i] <= Len(h) THEN Hash(h, (s + 1) * Size[i] - 1) ELSE None
Indexes(i, h) == \A s \in 0 .. idx[i].stored - 1 : idx[i].shead[s] = SectionEnd(i, s, h)

\* The stored sections always belong to one chain, whatever reorgs, failures
\* and restarts come while a section is processed without the lock
\* (chain_indexer.go:292-316, :346-359).
ChainOfSections ==
  TypeOK /\ \A i \in Indexers : \E b \in Branches : Indexes(i, b)

\* If no reorg is deeper than the confirmations that are asked for, that chain
\* is the canonical one at all times (chain_indexer.go:245).
StoredCanonical == ~deep => \A i \in Indexers : Indexes(i, head)

\* Then, if no backend fails, every section that is confirmed gets indexed,
\* although notifications are dropped while one is pending
\* (chain_indexer.go:249-253, :320-328).
CatchesUp ==
  []<>(deep \/ faults > 0 \/ idx["parent"].stored = Sections("parent", Number(head)))
=============================================================================
