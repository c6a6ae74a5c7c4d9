-------------------------------- MODULE Trie --------------------------------
(***************************************************************************)
(* The Merkle Patricia trie of trie/trie.go: insert, delete and get on a   *)
(* tree of which parts are not loaded, the hashes that hasher.go caches in *)
(* the nodes, and the key encodings of encoding.go.                        *)
(*                                                                         *)
(* A hash is the encoding it is the hash of, so two nodes have the same    *)
(* hash exactly if they are encoded alike.  Every node is larger than 32   *)
(* bytes, which the nodes of an account trie are, and so is never embedded *)
(* in its parent.  Database errors and cache generations are left out: a   *)
(* node is unloaded by opening the trie again.                             *)
(***************************************************************************)
EXTENDS Integers, Sequences, FiniteSets

CONSTANTS
  None,
  Index      \* the nibbles that occur in keys and the terminator, 0 .. 16 in the code

Terminator == 16

----------------------------------------------------------------------------
(* Key encodings *)

keybytesToHex(str) ==
  [i \in 1 .. 2 * Len(str) + 1 |->
     IF i > 2 * Len(str) THEN Terminator
     ELSE IF i % 2 = 1 THEN str[(i + 1) \div 2] \div 16 ELSE str[i \div 2] % 16]

hasTerm(s) == Len(s) > 0 /\ s[Len(s)] = Terminator

From(s, i) == SubSeq(s, i, Len(s))

\* The flag nibble, the first nibble of an odd key, then two nibbles a byte.
hexToCompact(hex) ==
  LET term == IF hasTerm(hex) THEN 1 ELSE 0
      h    == SubSeq(hex, 1, Len(hex) - term)
      odd  == Len(h) % 2
      rest == From(h, odd + 1)
  IN  <<32 * term + (IF odd = 1 THEN 16 + h[1] ELSE 0)>>
        \o [i \in 1 .. Len(rest) \div 2 |-> 16 * rest[2 * i - 1] + rest[2 * i]]

compactToHex(compact) ==
  LET hex  == keybytesToHex(compact)
      base == SubSeq(hex, 1, Len(hex) - 1) \o (IF hex[1] >= 2 THEN <<Terminator>> ELSE <<>>)
  IN  From(base, 3 - (base[1] % 2))

prefixLen(a, b) ==
  CHOOSE m \in 0 .. Len(a) :
    /\ m <= Len(b) /\ SubSeq(a, 1, m) = SubSeq(b, 1, m)
    /\ m < Len(a) /\ m < Len(b) => a[m + 1] # b[m + 1]

----------------------------------------------------------------------------
(* Nodes.  hash is the cached hash of a node, None in a new one (newFlag). *)

Nil == [type |-> "nil"]
valueNode(v) == [type |-> "value", value |-> v]
hashNode(h) == [type |-> "hash", of |-> h]
shortNode(k, n) == [type |-> "short", Key |-> k, Val |-> n, hash |-> None]
fullNode(c) == [type |-> "full", Children |-> c, hash |-> None]

NoChildren == [i \in Index |-> Nil]

RECURSIVE hash(_)

\* The hash of a node is made of those of its children, unless it is cached.
hash(n) ==
  CASE n.type \in {"nil", "value"} -> n
    [] n.type = "hash"  -> n.of
    [] n.type = "short" -> IF n.hash # None THEN n.hash
                           ELSE [type |-> "short", Key |-> hexToCompact(n.Key),
                                 Val |-> hash(n.Val)]
    [] n.type = "full"  -> IF n.hash # None THEN n.hash
                           ELSE [type |-> "full",
                                 Children |-> [i \in Index |-> hash(n.Children[i])]]

RECURSIVE hashChildren(_)

\* Hashing leaves the hashes of the nodes it walked in them.
hashChildren(n) ==
  CASE n.type \in {"nil", "value", "hash"} -> n
    [] n.type = "short" ->
         IF n.hash # None THEN n
         ELSE LET m == [n EXCEPT !.Val = hashChildren(@)] IN [m EXCEPT !.hash = hash(m)]
    [] n.type = "full" ->
         IF n.hash # None THEN n
         ELSE LET m == [n EXCEPT !.Children = [i \in Index |-> hashChildren(@[i])]]
              IN  [m EXCEPT !.hash = hash(m)]

\* The encoding of a child that is not a value is its hash.
Ref(h) == IF h.type \in {"nil", "value"} THEN h ELSE hashNode(h)

decodeNode(h) ==
  CASE h.type = "short" -> [type |-> "short", Key |-> compactToHex(h.Key),
                            Val |-> Ref(h.Val), hash |-> h]
    [] h.type = "full"  -> [type |-> "full", hash |-> h,
                            Children |-> [i \in Index |-> Ref(h.Children[i])]]
    [] h.type = "nil"   -> Nil

resolve(n) == IF n.type = "hash" THEN decodeNode(n.of) ELSE n

----------------------------------------------------------------------------
(* insert and delete return whether anything changed and the new node. *)

Same(n) == [dirty |-> FALSE, node |-> n]
New(n) == [dirty |-> TRUE, node |-> n]
Put(c, i, n) == [c EXCEPT ![i] = n]

RECURSIVE insert(_, _, _)

insert(n, key, value) ==
  CASE key = <<>> -> [dirty |-> n # value, node |-> value]
    [] key # <<>> /\ n.type = "nil" -> New(shortNode(key, value))
    [] key # <<>> /\ n.type = "short" ->
         LET m == prefixLen(key, n.Key) IN
         IF m = Len(n.Key)
           THEN LET r == insert(n.Val, From(key, m + 1), value)
                IN  IF r.dirty THEN New(shortNode(n.Key, r.node)) ELSE Same(n)
           ELSE LET old == insert(Nil, From(n.Key, m + 2), n.Val).node
                    new == insert(Nil, From(key, m + 2), value).node
                    branch == fullNode(Put(Put(NoChildren, n.Key[m + 1], old), key[m + 1], new))
                IN  New(IF m = 0 THEN branch ELSE shortNode(SubSeq(key, 1, m), branch))
    [] key # <<>> /\ n.type = "full" ->
         LET r == insert(n.Children[key[1]], Tail(key), value)
         IN  IF r.dirty THEN New(fullNode(Put(n.Children, key[1], r.node))) ELSE Same(n)
    [] key # <<>> /\ n.type = "hash" ->
         LET r == insert(resolve(n), key, value)
         IN  IF r.dirty THEN r ELSE Same(resolve(n))

ReducedUnloaded(i, child) ==
  IF i # Terminator /\ child.type = "short"
    THEN shortNode(<<i>> \o child.Key, child.Val) ELSE shortNode(<<i>>, child)

\* The only child left, which is put in front of a nibble: a short node is
\* merged with it, so it has to be loaded.
Reduced(i, child) ==
  LET c == resolve(child) IN
  IF i # Terminator /\ c.type = "short" THEN shortNode(<<i>> \o c.Key, c.Val)
                                        ELSE shortNode(<<i>>, child)

RECURSIVE delete(_, _)

delete(n, key) ==
  CASE n.type = "nil"   -> Same(Nil)
    [] n.type = "value" -> New(Nil)
    [] n.type = "short" ->
         LET m == prefixLen(key, n.Key)
             r == delete(n.Val, From(key, m + 1))
         IN  IF m < Len(n.Key) THEN Same(n)
             ELSE IF m = Len(key) THEN New(Nil)
             ELSE IF ~r.dirty THEN Same(n)
             ELSE IF r.node.type = "short"
               THEN New(shortNode(n.Key \o r.node.Key, r.node.Val))
               ELSE New(shortNode(n.Key, r.node))
    [] n.type = "full" ->
         LET r    == delete(n.Children[key[1]], Tail(key))
             c    == Put(n.Children, key[1], r.node)
             left == {i \in Index : c[i] # Nil}
         IN  IF ~r.dirty THEN Same(n)
             ELSE IF Cardinality(left) = 1
               THEN LET i == CHOOSE x \in left : TRUE IN New(Reduced(i, c[i]))
               ELSE New(fullNode(c))
    [] n.type = "hash" ->
         LET r == delete(resolve(n), key)
         IN  IF r.dirty THEN r ELSE Same(resolve(n))

RECURSIVE tryGet(_, _)

\* The value of a key, or None, and the node with what had to be loaded.
tryGet(n, key) ==
  CASE n.type = "nil"   -> [value |-> None, node |-> n]
    [] n.type = "value" -> [value |-> n.value, node |-> n]
    [] n.type = "short" ->
         IF prefixLen(key, n.Key) < Len(n.Key) THEN [value |-> None, node |-> n]
         ELSE LET r == tryGet(n.Val, From(key, Len(n.Key) + 1))
              IN  [value |-> r.value, node |-> [n EXCEPT !.Val = r.node]]
    [] n.type = "full" ->
         LET r == tryGet(n.Children[key[1]], Tail(key))
         IN  [value |-> r.value, node |-> [n EXCEPT !.Children[key[1]] = r.node]]
    [] n.type = "hash" -> tryGet(resolve(n), key)

TryGet(root, key) == tryGet(root, keybytesToHex(key))
TryUpdate(root, key, v) == insert(root, keybytesToHex(key), valueNode(v)).node
TryDelete(root, key) == delete(root, keybytesToHex(key)).node

\* Opening a root that is no longer in memory loads its node only.
NewTrie(h) == decodeNode(h)

----------------------------------------------------------------------------
(* What the trie of a set of <<key, value>> pairs has to be: no node with  *)
(* a single child, no short node below a short node.                       *)

RECURSIVE Canonical(_)

Canonical(S) ==
  LET keys == {e[1] : e \in S}
      one  == CHOOSE e \in S : TRUE
      m    == CHOOSE l \in 0 .. Len(one[1]) - 1 :
                /\ \A k \in keys : SubSeq(k, 1, l) = SubSeq(one[1], 1, l)
                /\ \E k \in keys : k[l + 1] # one[1][l + 1]
      Below(l, T) == Canonical({<<From(e[1], l + 1), e[2]>> : e \in T})
  IN  CASE S = {} -> Nil
        [] Cardinality(S) = 1 /\ one[1] = <<>> -> valueNode(one[2])
        [] Cardinality(S) = 1 /\ one[1] # <<>> -> shortNode(one[1], valueNode(one[2]))
        [] Cardinality(S) > 1 /\ m > 0 -> shortNode(SubSeq(one[1], 1, m), Below(m, S))
        [] Cardinality(S) > 1 /\ m = 0 ->
             fullNode([i \in Index |-> Below(1, {e \in S : e[1][1] = i})])
============================================================================
