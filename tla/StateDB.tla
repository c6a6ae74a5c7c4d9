------------------------------ MODULE StateDB ------------------------------
(***************************************************************************)
(* The world state of core/state: live account objects over the account    *)
(* trie, the journal that undoes a failed call, and the writing of the     *)
(* objects to the trie between transactions and at the end of a block.     *)
(*                                                                         *)
(* The state database is one record, and every method is a function from   *)
(* it to the one it leaves.  A storage root is the content of the storage  *)
(* trie, so an object's trie is its root; a code hash is the code.  Logs,  *)
(* preimages, the refund counter and database errors are left out.         *)
(***************************************************************************)
EXTENDS Trie, SequencesExt

CONSTANTS
  AddrHash,      \* the key of each address in the account trie, a sequence of bytes
  Slots,         \* the storage keys of an account
  Words,         \* what a slot may hold, a set of positive numbers
  Codes,         \* contract codes
  Ripemd,        \* the address whose touch is never undone
  Worlds,        \* the accounts a behaviour starts from, the values of eip158 it may
                 \* start with, the <<method, address>> pairs its transactions call,
                 \* the most changes and snapshots of one
  MaxBalance, MaxNonce

VARIABLES
  world,         \* the member of Worlds this is
  db,            \* the StateDB
  codes,         \* the code in the database
  eip158         \* whether empty accounts are deleted in this block

vars == <<world, db, codes, eip158>>

Address == DOMAIN AddrHash
NoCode == "none"
NoWords == [s \in Slots |-> 0]

----------------------------------------------------------------------------
(* Objects *)

Account == [Nonce |-> 0, Balance |-> 0, Root |-> NoWords, CodeHash |-> NoCode]

\* armed is onDirty # nil; None marks a slot that is not in a storage map.
newObject(account) ==
  [data |-> account, cachedStorage |-> [s \in Slots |-> None],
   dirtyStorage |-> [s \in Slots |-> None], dirtyCode |-> FALSE,
   suicided |-> FALSE, touched |-> FALSE, deleted |-> FALSE, armed |-> TRUE]

empty(account) == account.Nonce = 0 /\ account.Balance = 0 /\ account.CodeHash = NoCode

GetState(o, s) ==
  IF o.cachedStorage[s] # None THEN o.cachedStorage[s] ELSE o.data.Root[s]

\* The object is loaded from the trie unless it is live.
getStateObject(D, a) ==
  IF D.stateObjects[a] # None THEN D
  ELSE LET r == TryGet(D.trie, AddrHash[a])
       IN  [D EXCEPT !.trie = r.node,
                     !.stateObjects[a] = IF r.value = None THEN None ELSE newObject(r.value)]

\* What getStateObject returns.
Object(D, a) ==
  LET o == getStateObject(D, a).stateObjects[a]
  IN  IF o # None /\ o.deleted THEN None ELSE o

\* Every setter ends like this: the first change of an object marks it dirty.
Changed(D, a, o) ==
  [D EXCEPT !.stateObjects[a] = [o EXCEPT !.armed = FALSE],
            !.stateObjectsDirty = IF o.armed THEN @ \union {a} ELSE @]

setBalance(D, a, v) == Changed(D, a, [Object(D, a) EXCEPT !.data.Balance = v])
setNonce(D, a, n) == Changed(D, a, [Object(D, a) EXCEPT !.data.Nonce = n])
setCode(D, a, c) == Changed(D, a, [Object(D, a) EXCEPT !.data.CodeHash = c, !.dirtyCode = TRUE])
setState(D, a, s, w) ==
  Changed(D, a, [Object(D, a) EXCEPT !.cachedStorage[s] = w, !.dirtyStorage[s] = w])

Journal(D, entry) == [D EXCEPT !.journal = Append(@, entry)]

createObject(D, a) ==
  LET L    == getStateObject(D, a)
      prev == Object(D, a)
      J    == IF prev = None THEN Journal(L, [change |-> "create", account |-> a])
                             ELSE Journal(L, [change |-> "reset", account |-> a, prev |-> prev])
  IN  Changed(J, a, newObject(Account))

GetOrNewStateObject(D, a) ==
  IF Object(D, a) = None THEN createObject(D, a) ELSE getStateObject(D, a)

----------------------------------------------------------------------------
(* The methods of a transaction *)

SetBalance(D, a, v) ==
  setBalance(Journal(D, [change |-> "balance", account |-> a, prev |-> Object(D, a).data.Balance]),
             a, v)

touchClean(D, a) ==
  LET o == Object(D, a)
  IN  Changed(Journal(D, [change |-> "touch", account |-> a, prev |-> o.touched,
                          prevDirty |-> FALSE]),
              a, [o EXCEPT !.touched = TRUE])

\* prevDirty keeps undo from unmarking an object that was dirty already.
touch(D, a) ==
  LET o == Object(D, a)
  IN  Changed(Journal(D, [change |-> "touch", account |-> a, prev |-> o.touched,
                          prevDirty |-> ~o.armed]),
              a, [o EXCEPT !.touched = TRUE])

\* Adding nothing to an empty account touches it.
AddBalance(D, a, v) ==
  LET L == GetOrNewStateObject(D, a)
      account == Object(L, a).data
  IN  CASE v > 0 -> SetBalance(L, a, account.Balance + v)
        [] v = 0 /\ empty(account) -> touch(L, a)
        [] v = 0 /\ ~empty(account) -> L

SubBalance(D, a, v) ==
  LET L == GetOrNewStateObject(D, a)
  IN  SetBalance(L, a, Object(L, a).data.Balance - v)

SetNonce(D, a, n) ==
  LET L == GetOrNewStateObject(D, a)
  IN  setNonce(Journal(L, [change |-> "nonce", account |-> a, prev |-> Object(L, a).data.Nonce]),
               a, n)

SetCode(D, a, c) ==
  LET L == GetOrNewStateObject(D, a)
  IN  setCode(Journal(L, [change |-> "code", account |-> a, prev |-> Object(L, a).data.CodeHash]),
              a, c)

SetState(D, a, s, w) ==
  LET L == GetOrNewStateObject(D, a)
  IN  setState(Journal(L, [change |-> "storage", account |-> a, key |-> s,
                           prev |-> GetState(Object(L, a), s)]),
               a, s, w)

Suicide(D, a) ==
  LET L == getStateObject(D, a)
      o == Object(D, a)
  IN  IF o = None THEN L
      ELSE Changed(Journal(L, [change |-> "suicide", account |-> a, prev |-> o.suicided,
                               prevbalance |-> o.data.Balance]),
                   a, [o EXCEPT !.suicided = TRUE, !.data.Balance = 0])

\* An existing balance is carried over, not journalled.
CreateAccount(D, a) ==
  LET prev == Object(D, a)
      L    == createObject(D, a)
  IN  IF prev = None THEN L ELSE setBalance(L, a, prev.data.Balance)

----------------------------------------------------------------------------
(* Revisions *)

undo(D, ch) ==
  LET a == ch.account IN
  CASE ch.change = "create"  -> [D EXCEPT !.stateObjects[a] = None,
                                          !.stateObjectsDirty = @ \ {a}]
    [] ch.change = "reset"   -> [D EXCEPT !.stateObjects[a] = ch.prev]
    [] ch.change = "suicide" ->
         IF Object(D, a) = None THEN getStateObject(D, a)
         ELSE setBalance([D EXCEPT !.stateObjects[a].suicided = ch.prev], a, ch.prevbalance)
    [] ch.change = "touch"   ->
         IF ch.prev \/ a = Ripemd THEN D
         ELSE [D EXCEPT !.stateObjects[a].touched = FALSE,
                        !.stateObjectsDirty = IF ch.prevDirty THEN @ ELSE @ \ {a}]
    [] ch.change = "balance" -> setBalance(D, a, ch.prev)
    [] ch.change = "nonce"   -> setNonce(D, a, ch.prev)
    [] ch.change = "code"    -> setCode(D, a, ch.prev)
    [] ch.change = "storage" -> setState(D, a, ch.key, ch.prev)

\* The latest change is undone first.
RevertToSnapshot(D, i) ==
  LET at == D.validRevisions[i].journalIndex
      R  == FoldRight(LAMBDA ch, E : undo(E, ch), From(D.journal, at + 1), D)
  IN  [R EXCEPT !.journal = SubSeq(@, 1, at), !.validRevisions = SubSeq(@, 1, i - 1)]

----------------------------------------------------------------------------
(* Finalising, committing and copying *)

\* updateTrie writes the dirty slots, a zero deletes one.
updateRoot(o) ==
  [o EXCEPT !.data.Root = [s \in Slots |-> IF o.dirtyStorage[s] = None THEN @[s]
                                           ELSE o.dirtyStorage[s]],
            !.dirtyStorage = [s \in Slots |-> None]]

deleteStateObject(D, a) ==
  [D EXCEPT !.stateObjects[a].deleted = TRUE, !.trie = TryDelete(@, AddrHash[a])]

updateStateObject(D, a) ==
  LET o == updateRoot(D.stateObjects[a])
  IN  [D EXCEPT !.stateObjects[a] = o, !.trie = TryUpdate(@, AddrHash[a], o.data)]

clearJournalAndRefund(D) == [D EXCEPT !.journal = <<>>, !.validRevisions = <<>>]

\* order is the order in which the dirty map is ranged over.
Finalise(D, order, deleteEmptyObjects) ==
  LET Step(E, a) ==
        LET o == E.stateObjects[a]
        IN  IF o.suicided \/ (deleteEmptyObjects /\ empty(o.data))
              THEN deleteStateObject(E, a) ELSE updateStateObject(E, a)
  IN  clearJournalAndRefund(FoldLeft(Step, D, order))

IntermediateRoot(D, order, deleteEmptyObjects) ==
  LET E == Finalise(D, order, deleteEmptyObjects)
  IN  [E EXCEPT !.trie = hashChildren(@)]

Live(D) == {a \in Address : D.stateObjects[a] # None}

\* The code that a commit writes.
DirtyCode(D) ==
  LET writes == {a \in D.stateObjectsDirty : D.stateObjects[a].dirtyCode /\ ~D.stateObjects[a].suicided}
  IN  {D.stateObjects[a].data.CodeHash : a \in writes} \ {NoCode}

CommitTo(D, order, deleteEmptyObjects) ==
  LET Step(E, a) ==
        LET o     == E.stateObjects[a]
            dirty == a \in D.stateObjectsDirty
        IN  CASE o.suicided \/ (dirty /\ deleteEmptyObjects /\ empty(o.data)) ->
                   deleteStateObject(E, a)
              [] ~o.suicided /\ dirty /\ ~(deleteEmptyObjects /\ empty(o.data)) ->
                   updateStateObject(E, a)
              [] OTHER -> E
      E == FoldLeft(Step, D, order)
  IN  clearJournalAndRefund([E EXCEPT !.trie = hashChildren(@), !.stateObjectsDirty = {}])

\* A state on the root of a trie, as New and Reset make it.
Opened(tr) ==
  [trie |-> tr, stateObjects |-> [a \in Address |-> None], stateObjectsDirty |-> {},
   journal |-> <<>>, validRevisions |-> <<>>]

deepCopyHash(o) ==
  [o EXCEPT !.cachedStorage = o.dirtyStorage, !.touched = FALSE, !.armed = TRUE,
            !.dirtyCode = FALSE]

\* Only dirty objects are copied; they start with what was not flushed as
\* their cache, untouched, and marked dirty already.
deepCopy(o) ==
  [o EXCEPT !.cachedStorage = o.dirtyStorage, !.touched = FALSE, !.armed = TRUE]

Copied(D) ==
  [D EXCEPT !.stateObjects = [a \in Address |-> IF a \in D.stateObjectsDirty
                                                THEN deepCopy(D.stateObjects[a]) ELSE None],
            !.journal = <<>>, !.validRevisions = <<>>]

----------------------------------------------------------------------------
(* What callers see.  C is the code in the database. *)

Code(o, C) ==
  IF o.dirtyCode \/ o.data.CodeHash \in C \union {NoCode} THEN o.data.CodeHash ELSE "missing"

AccountSeen(D, C, a) ==
  LET o == Object(D, a) IN
  IF o = None THEN None
  ELSE [nonce |-> o.data.Nonce, balance |-> o.data.Balance, code |-> Code(o, C),
        suicided |-> o.suicided, storage |-> [s \in Slots |-> GetState(o, s)]]

View(D, C) == [a \in Address |-> AccountSeen(D, C, a)]

Stored(D, a) == TryGet(D.trie, AddrHash[a]).value

HexKey == [a \in Address |-> keybytesToHex(AddrHash[a])]

\* The root a transaction that ended here would have.
RootNow(D, order, deleteEmptyObjects) == hash(Finalise(D, order, deleteEmptyObjects).trie)

Orders == [S \in SUBSET Address |-> SetToSeqs(S)]
AnyOrder == [S \in SUBSET Address |-> CHOOSE s \in Orders[S] : TRUE]

\* Objects that changes no longer mark dirty although they are not.
Slipped(D) ==
  {a \in Live(D) : ~D.stateObjects[a].armed /\ a \notin D.stateObjectsDirty}

----------------------------------------------------------------------------
(* Actions *)

Init ==
  /\ world \in Worlds
  /\ db = Opened(NewTrie(hash(Canonical(
            {<<HexKey[a], world.genesis[a]>> : a \in DOMAIN world.genesis}))))
  /\ codes = {}
  /\ eip158 \in world.forks

Call(method, a, D) ==
  /\ <<method, a>> \in world.calls
  /\ Len(D.journal) <= world.journal
  /\ db' = D
  /\ UNCHANGED <<world, codes, eip158>>

Balance(a) == IF Object(db, a) = None THEN 0 ELSE Object(db, a).data.Balance

DoAddBalance(a) ==
  \E v \in 0 .. MaxBalance - Balance(a) : Call("AddBalance", a, AddBalance(db, a, v))

\* The callers check the balance first.
DoSubBalance(a) ==
  \E v \in 1 .. Balance(a) : Call("SubBalance", a, SubBalance(db, a, v))

DoSetNonce(a) == \E n \in 1 .. MaxNonce : Call("SetNonce", a, SetNonce(db, a, n))
DoSetCode(a) == \E c \in Codes : Call("SetCode", a, SetCode(db, a, c))
DoSetState(a) ==
  \E s \in Slots, w \in Words \union {0} : Call("SetState", a, SetState(db, a, s, w))
DoSuicide(a) == Call("Suicide", a, Suicide(db, a))
DoCreateAccount(a) == Call("CreateAccount", a, CreateAccount(db, a))

\* view and root record what the revision has to bring back.
Snapshot ==
  /\ Len(db.validRevisions) < world.revisions
  /\ db' = [db EXCEPT !.validRevisions = Append(@,
              [journalIndex |-> Len(db.journal), view |-> View(db, codes),
               root |-> IF Slipped(db) # {} THEN None
                        ELSE RootNow(db, AnyOrder[db.stateObjectsDirty], eip158)])]
  /\ UNCHANGED <<world, codes, eip158>>

DoRevertToSnapshot ==
  /\ \E i \in DOMAIN db.validRevisions : db' = RevertToSnapshot(db, i)
  /\ UNCHANGED <<world, codes, eip158>>

DoFinalise ==
  /\ \E order \in Orders[db.stateObjectsDirty] : db' = Finalise(db, order, eip158)
  /\ UNCHANGED <<world, codes, eip158>>

DoIntermediateRoot ==
  /\ \E order \in Orders[db.stateObjectsDirty] : db' = IntermediateRoot(db, order, eip158)
  /\ UNCHANGED <<world, codes, eip158>>

\* ValidateState's root, the commit, and the state of the next block on it,
\* its trie taken from the past tries or loaded again.
Committed(D, order) ==
  CommitTo(IntermediateRoot(D, SelectSeq(order, LAMBDA a : a \in D.stateObjectsDirty), eip158),
           order, eip158)

NextState(D, warm) == Opened(IF warm THEN D.trie ELSE NewTrie(hash(D.trie)))

EndBlock ==
  /\ \E order \in Orders[Live(db)], warm \in BOOLEAN :
       db' = NextState(Committed(db, order), warm)
  /\ codes' = codes \union DirtyCode(db)
  /\ eip158' \in {eip158, TRUE}
  /\ UNCHANGED world

\* Copies are taken between transactions.  The copy is followed, its original
\* is not used again: the two share the trie.
Copy ==
  /\ db.journal = <<>>
  /\ db' = Copied(db)
  /\ UNCHANGED <<world, codes, eip158>>

Next ==
  \/ \E a \in Address :
       \/ DoAddBalance(a) \/ DoSubBalance(a) \/ DoSetNonce(a) \/ DoSetCode(a)
       \/ DoSetState(a) \/ DoSuicide(a) \/ DoCreateAccount(a)
  \/ Snapshot \/ DoRevertToSnapshot \/ DoFinalise \/ DoIntermediateRoot
  \/ EndBlock \/ Copy

Spec == Init /\ [][Next]_vars

----------------------------------------------------------------------------
(* Properties *)

\* Types: a dirty address has a live object, which Finalise and Copy rely on,
\* and a revision lies within the journal.
TypeOK ==
  /\ db.stateObjectsDirty \subseteq Live(db)
  /\ \A i \in DOMAIN db.validRevisions : db.validRevisions[i].journalIndex <= Len(db.journal)
  /\ codes \subseteq Codes
  /\ eip158 \in BOOLEAN

\* RevertToSnapshot brings back what callers saw when the snapshot was
\* taken, whatever was called in between, and the undone calls leave no
\* trace in the root either: a transaction that ends then has the root it
\* would have had at the snapshot.  (Unless an object had slipped by then;
\* and an empty account of an earlier fork does get deleted by an undone
\* call.)
RevertExact ==
  /\ TypeOK
  /\ \A i \in DOMAIN db.validRevisions :
       LET R == RevertToSnapshot(db, i)
           revision == db.validRevisions[i]
           emptyStored == \E a \in Address : Stored(db, a) # None /\ empty(Stored(db, a))
       IN  /\ View(R, codes) = revision.view
           /\ \/ revision.root = None \/ (eip158 /\ emptyStored)
              \/ RootNow(R, AnyOrder[R.stateObjectsDirty], eip158) = revision.root

\* When a transaction ends, in whatever order the dirty objects are written
\* and whichever parts of the trie are loaded, the trie holds the live
\* accounts, their slots included, and is the one trie with that content:
\* the root depends on nothing else.  (Slipped objects are not written.)
RootIsState ==
  LET E == Finalise(db, AnyOrder[db.stateObjectsDirty], eip158)
      content == {<<HexKey[a], Stored(E, a)>> :
                    a \in {x \in Address : Stored(E, x) # None}}
  IN  /\ \A a \in Address \ Slipped(db) :
           LET o == Object(E, a)
           IN  IF o = None THEN Stored(E, a) = None
               ELSE /\ Stored(E, a) = o.data
                    /\ \A s \in Slots : GetState(o, s) = o.data.Root[s]
      /\ hash(E.trie) = hash(Canonical(content))

\* The next block starts from the state that this one ends with: what is
\* read after committing and opening the root again, from memory or from
\* the database, is what was read before, the code included, except for
\* the accounts that had to be deleted.  And a copy, made of the dirty
\* objects only, reads like its original.
NothingLost ==
  /\ LET C == Committed(db, AnyOrder[Live(db)])
         gone == {a \in db.stateObjectsDirty :
                    \/ db.stateObjects[a].suicided
                    \/ eip158 /\ empty(db.stateObjects[a].data)}
     IN  \A warm \in BOOLEAN, a \in Address \ Slipped(db) :
           AccountSeen(NextState(C, warm), codes \union DirtyCode(db), a)
             = IF a \in gone THEN None ELSE AccountSeen(db, codes, a)
  /\ db.journal = <<>> /\ Slipped(db) = {} => View(Copied(db), codes) = View(db, codes)
============================================================================
