----------------------------- MODULE DictProofs -----------------------------
(***************************************************************************)
(* Proofs about redis' dict, for any keys and hashes and tables of any     *)
(* size: the tables stay well formed through every rehash, callers see a   *)
(* set of keys, a safe iterator returns each key that stays once, and a    *)
(* scan misses none.                                                       *)
(***************************************************************************)
EXTENDS DictLemmas
-----------------------------------------------------------------------------
(* Iterators.                                                              *)

\* k comes at or after e in chain c.
Rest(c, e, k) == \E p, q \in 1 .. Len(c) : c[p] = e /\ c[q] = k /\ p <= q

\* k is in a bucket after bucket i of table t.
Later(h, t, i, k) ==
    \E u \in {0, 1} : \E j \in DOMAIN h[u] : k \in Range(h[u][j]) /\ (u > t \/ (u = t /\ j > i))

\* An iterator at `it' has still to return k.
Ahead(h, it, k) ==
    \/ Later(h, it.table, it.index, k)
    \/ it.nextEntry # Nil /\ Rest(h[it.table][it.index], it.nextEntry, k)

\* An iterator under way is in a bucket, the entry it will go on with is in the
\* chain, what it has to return is ahead of it and what it has returned is not.
WalkInv(h, it, due, seen) ==
    /\ it.table \in {0, 1} /\ it.index \in DOMAIN h[it.table]
    /\ it.nextEntry # Nil => it.nextEntry \in Range(h[it.table][it.index])
    /\ \A k \in due : Ahead(h, it, k)
    /\ \A k \in seen : k \in KeysIn(h[0]) \cup KeysIn(h[1]) /\ ~Ahead(h, it, k)

\* The order of a chain, of all keys but x, is the same in g.
ChainKeeps(c, g, x) == \A e, k : e # x /\ k # x => (Rest(c, e, k) <=> Rest(g, e, k))

\* The keys of a chain are those found from their own entry on.
LEMMA RangeRest ==
    ASSUME NEW c \in Seq(Keys)
    PROVE  \A k : k \in Range(c) <=> Rest(c, k, k)
<1>1. Len(c) \in Nat /\ \A k : k \in Range(c) <=> \E p \in 1 .. Len(c) : c[p] = k
  BY KeysOfChain
<1>2. ASSUME NEW k, NEW p \in 1 .. Len(c), c[p] = k PROVE Rest(c, k, k)
  BY <1>1, <1>2 DEF Rest
<1> QED BY <1>1, <1>2 DEF Rest

\* A new head leaves the order of the others.
LEMMA PushKeeps ==
    ASSUME NEW c \in Seq(Keys), NEW x \in Keys
    PROVE  ChainKeeps(c, <<x>> \o c, x)
<1> DEFINE g == <<x>> \o c
<1>1. /\ Len(c) \in Nat /\ Len(g) = Len(c) + 1
      /\ g[1] = x /\ \A p \in 2 .. Len(c) + 1 : g[p] = c[p - 1]
  <2>1. <<x>> \in Seq(Keys) /\ Len(<<x>>) = 1 /\ <<x>>[1] = x
    OBVIOUS
  <2>2. Len(c) \in Nat
    BY LenProperties
  <2> QED BY <2>1, <2>2, ConcatProperties
<1> HIDE DEF g
<1>2. ASSUME NEW e, NEW k, Rest(c, e, k) PROVE Rest(g, e, k)
  <2>1. PICK p \in 1 .. Len(c), q \in 1 .. Len(c) : c[p] = e /\ c[q] = k /\ p <= q
    BY <1>2 DEF Rest
  <2>2. p + 1 \in 1 .. Len(g) /\ q + 1 \in 1 .. Len(g) /\ g[p + 1] = e /\ g[q + 1] = k /\ p + 1 <= q + 1
    <3>1. \A r \in 1 .. Len(c) : r + 1 \in 2 .. Len(c) + 1 /\ (r + 1) - 1 = r /\ r + 1 \in 1 .. Len(g)
      BY <1>1
    <3>2. \A r \in 1 .. Len(c) : g[r + 1] = c[r]
      BY <1>1, <3>1
    <3> QED BY <2>1, <3>1, <3>2
  <2> QED BY <2>2 DEF Rest
<1>3. ASSUME NEW e, NEW k, e # x, k # x, Rest(g, e, k) PROVE Rest(c, e, k)
  <2>1. PICK p \in 1 .. Len(g), q \in 1 .. Len(g) : g[p] = e /\ g[q] = k /\ p <= q
    BY <1>3 DEF Rest
  <2>2. p - 1 \in 1 .. Len(c) /\ q - 1 \in 1 .. Len(c) /\ c[p - 1] = e /\ c[q - 1] = k /\ p - 1 <= q - 1
    <3>1. p # 1 /\ q # 1
      BY <1>1, <1>3, <2>1
    <3>2. p \in 2 .. Len(c) + 1 /\ q \in 2 .. Len(c) + 1
      BY <1>1, <3>1
    <3> QED BY <1>1, <2>1, <3>2
  <2> QED BY <2>2 DEF Rest
<1> QED BY <1>2, <1>3 DEF ChainKeeps, g

\* A removed entry leaves the order of the others.
LEMMA UnlinkKeeps ==
    ASSUME NEW c, NEW i, NEW f, IsChain(c, i, f), NEW x \in Range(c)
    PROVE  ChainKeeps(c, Unlink(c, x), x)
<1> DEFINE g == Unlink(c, x)
<1>1. PICK r \in 1 .. Len(c) : c[r] = x
  BY KeysOfChain DEF IsChain
<1>2. /\ Len(c) \in Nat /\ Len(g) = Len(c) - 1
      /\ \A q \in 1 .. Len(c) - 1 : g[q] = IF q < r THEN c[q] ELSE c[q + 1]
  BY <1>1, UnlinkAt, Zenon
<1> HIDE DEF g
<1> DEFINE Old(q) == IF q < r THEN q ELSE q + 1
           New(q) == IF q < r THEN q ELSE q - 1
<1>3. \A q \in 1 .. Len(g) : Old(q) \in 1 .. Len(c) /\ g[q] = c[Old(q)]
  BY <1>2
<1>4. \A q \in 1 .. Len(c) : q # r => New(q) \in 1 .. Len(g) /\ g[New(q)] = c[q]
  <2> SUFFICES ASSUME NEW q \in 1 .. Len(c), q # r PROVE New(q) \in 1 .. Len(g) /\ g[New(q)] = c[q]
    OBVIOUS
  <2>1. CASE q < r
    BY <1>2, <2>1
  <2>2. CASE ~(q < r)
    <3>1. New(q) = q - 1 /\ q - 1 \in 1 .. Len(c) - 1 /\ ~(q - 1 < r) /\ (q - 1) + 1 = q
      BY <1>2, <2>2
    <3> QED BY <1>2, <3>1
  <2> QED BY <2>1, <2>2
<1>5. \A p, q \in Int : p <= q => Old(p) <= Old(q) /\ (p # r /\ q # r => New(p) <= New(q))
  OBVIOUS
<1> HIDE DEF Old, New
<1>6. ASSUME NEW e, NEW k, e # x, k # x, Rest(c, e, k) PROVE Rest(g, e, k)
  <2>1. PICK p \in 1 .. Len(c), q \in 1 .. Len(c) : c[p] = e /\ c[q] = k /\ p <= q
    BY <1>6 DEF Rest
  <2>2. p # r /\ q # r
    BY <1>1, <1>6, <2>1
  <2>3. New(p) \in 1 .. Len(g) /\ New(q) \in 1 .. Len(g) /\ g[New(p)] = e /\ g[New(q)] = k /\ New(p) <= New(q)
    BY <1>4, <1>5, <2>1, <2>2
  <2> QED BY <2>3 DEF Rest
<1>7. ASSUME NEW e, NEW k, Rest(g, e, k) PROVE Rest(c, e, k)
  <2>1. PICK p \in 1 .. Len(g), q \in 1 .. Len(g) : g[p] = e /\ g[q] = k /\ p <= q
    BY <1>7 DEF Rest
  <2>2. Old(p) \in 1 .. Len(c) /\ Old(q) \in 1 .. Len(c) /\ c[Old(p)] = e /\ c[Old(q)] = k /\ Old(p) <= Old(q)
    BY <1>3, <1>5, <2>1
  <2> QED BY <2>2 DEF Rest
<1> QED BY <1>6, <1>7 DEF ChainKeeps, g

\* g has the tables of h, but for the entry of x.
TablesKeep(h, g, x) ==
    \A t \in {0, 1} : /\ DOMAIN h[t] = DOMAIN g[t]
                      /\ \A i \in DOMAIN h[t] : /\ h[t][i] \in Seq(Keys) /\ g[t][i] \in Seq(Keys)
                                                /\ ChainKeeps(h[t][i], g[t][i], x)

\* What happens to an entry that the iterator will not go on with leaves what is
\* ahead of it as it was.
LEMMA WalkKeeps ==
    ASSUME NEW h, NEW g, NEW x, TablesKeep(h, g, x), NEW it, NEW due, NEW seen,
           WalkInv(h, it, due, seen), it.nextEntry # x
    PROVE  WalkInv(g, it, due \ {x}, seen \ {x})
<1>1. it.table \in {0, 1} /\ it.index \in DOMAIN h[it.table] /\ it.index \in DOMAIN g[it.table]
  BY DEF WalkInv, TablesKeep
<1>2. ASSUME NEW t \in {0, 1}, NEW i \in DOMAIN h[t], NEW k, k # x
      PROVE  k \in Range(h[t][i]) <=> k \in Range(g[t][i])
  <2>1. h[t][i] \in Seq(Keys) /\ g[t][i] \in Seq(Keys) /\ (Rest(h[t][i], k, k) <=> Rest(g[t][i], k, k))
    BY <1>2, Zenon DEF TablesKeep, ChainKeeps
  <2> QED BY <2>1, RangeRest
<1>3. \A t \in {0, 1} : DOMAIN h[t] = DOMAIN g[t]
  BY DEF TablesKeep
<1>4. ASSUME NEW k, k # x PROVE Ahead(h, it, k) <=> Ahead(g, it, k)
  <2>1. Later(h, it.table, it.index, k) <=> Later(g, it.table, it.index, k)
    BY <1>2, <1>3, <1>4 DEF Later
  <2>2. Rest(h[it.table][it.index], it.nextEntry, k) <=> Rest(g[it.table][it.index], it.nextEntry, k)
    BY <1>1, <1>4, Zenon DEF TablesKeep, ChainKeeps
  <2> QED BY <2>1, <2>2 DEF Ahead
<1>5. ASSUME NEW k, k # x, k \in KeysIn(h[0]) \cup KeysIn(h[1]) PROVE k \in KeysIn(g[0]) \cup KeysIn(g[1])
  BY <1>2, <1>3, <1>5 DEF KeysIn
<1>6. it.nextEntry # Nil => it.nextEntry \in Range(g[it.table][it.index])
  BY <1>1, <1>2 DEF WalkInv
<1> QED BY <1>1, <1>4, <1>5, <1>6 DEF WalkInv

\* A table that is the same but for one chain.
LEMMA OneChainKeeps ==
    ASSUME NEW h, NEW g, NEW x, NEW t \in {0, 1}, NEW b \in DOMAIN h[t], NEW c \in Seq(Keys),
           \A u \in {0, 1} : \A i \in DOMAIN h[u] : h[u][i] \in Seq(Keys),
           g[t] = SetChain(h[t], b, c), g[1 - t] = h[1 - t], ChainKeeps(h[t][b], c, x)
    PROVE  TablesKeep(h, g, x)
<1> SUFFICES ASSUME NEW u \in {0, 1}
             PROVE  /\ DOMAIN h[u] = DOMAIN g[u]
                    /\ \A i \in DOMAIN h[u] : /\ h[u][i] \in Seq(Keys) /\ g[u][i] \in Seq(Keys)
                                              /\ ChainKeeps(h[u][i], g[u][i], x)
  BY DEF TablesKeep
<1>1. \A y : ChainKeeps(y, y, x)
  BY DEF ChainKeeps
<1>2. u = t \/ u = 1 - t
  OBVIOUS
<1>3. CASE u = 1 - t
  BY <1>1, <1>3
<1>4. CASE u = t
  <2>1. DOMAIN g[t] = DOMAIN h[t] /\ g[t][b] = c /\ \A i \in DOMAIN h[t] : i # b => g[t][i] = h[t][i]
    BY DEF SetChain
  <2> QED BY <1>1, <1>4, <2>1
<1> QED BY <1>2, <1>3, <1>4

\* What DictInv says of the tables and the chains of a dict.
LEMMA ChainsAreChains ==
    ASSUME NEW s, DictInv(s), NEW t \in {0, 1}
    PROVE  /\ s.exp[t] \in {-1} \cup Exps /\ IsTable(s.ht[t], s.exp[t])
           /\ DOMAIN s.ht[t] = 0 .. Size(s.exp[t]) - 1
           /\ \A i \in DOMAIN s.ht[t] : /\ s.ht[t][i] \in Seq(Keys) /\ IsChain(s.ht[t][i], i, s.exp[t])
                                        /\ i \in Words /\ i \in Nat
<1>1. s.exp[t] \in {-1} \cup Exps /\ IsTable(s.ht[t], s.exp[t])
  BY DEF DictInv, Shape, TableInv
<1>2. DOMAIN s.ht[t] = 0 .. Size(s.exp[t]) - 1
  BY <1>1 DEF IsTable
<1>3. Size(s.exp[t]) \in Nat /\ Size(s.exp[t]) <= 2 ^ Bits /\ 2 ^ Bits \in Nat
  <2>1. Bits \in Nat /\ 2 ^ Bits \in Nat
    BY DictAssumption, PowerOfTwo
  <2>2. CASE s.exp[t] = -1
    BY <2>1, <2>2 DEF Size
  <2>3. CASE s.exp[t] \in Exps
    <3>1. s.exp[t] \in Nat /\ s.exp[t] <= Bits
      BY <2>3, DictAssumption DEF Exps
    <3> QED BY <2>1, <2>3, <3>1, PowerMonotone, Buckets
  <2> QED BY <1>1, <2>1, <2>2, <2>3
<1>4. ASSUME NEW i \in DOMAIN s.ht[t] PROVE i \in Words /\ i \in Nat
  BY <1>2, <1>3 DEF Words
<1>5. \A i \in DOMAIN s.ht[t] : s.ht[t][i] \in Seq(Keys) /\ IsChain(s.ht[t][i], i, s.exp[t])
  BY <1>1, <1>2, Zenon DEF IsTable
<1> QED BY <1>1, <1>2, <1>4, <1>5

\* dictAddRaw leaves an iterator what it has to return.
LEMMA InsertWalk ==
    ASSUME NEW s, DictInv(s), s.exp[0] # -1, NEW x \in Keys, x \notin Elements(s),
           NEW it, NEW due, NEW seen, WalkInv(s.ht, it, due, seen)
    PROVE  WalkInv(Insert(s, x).ht, it, due, seen)
<1> DEFINE g == Insert(s, x).ht
<1>1. PICK t \in {0, 1} : s.exp[t] \in Exps /\ g[t] = Push(s.ht[t], x, s.exp[t]) /\ g[1 - t] = s.ht[1 - t]
  BY InsertInv
<1> HIDE DEF g
<1> DEFINE b == Bucket(x, s.exp[t])
           c == <<x>> \o s.ht[t][b]
<1>2. \A u \in {0, 1} : \A i \in DOMAIN s.ht[u] : s.ht[u][i] \in Seq(Keys)
  BY ChainsAreChains
<1>3. b \in DOMAIN s.ht[t] /\ s.ht[t][b] \in Seq(Keys)
  BY <1>1, <1>2, ChainsAreChains, Buckets
<1>4. c \in Seq(Keys)
  <2>1. <<x>> \in Seq(Keys)
    OBVIOUS
  <2> QED BY <1>3, <2>1, ConcatProperties
<1>5. g[t] = SetChain(s.ht[t], b, c) /\ ChainKeeps(s.ht[t][b], c, x)
  BY <1>1, <1>3, PushKeeps, Zenon DEF Push, SetChain
<1> HIDE DEF b, c
<1>6. TablesKeep(s.ht, g, x)
  BY <1>1, <1>2, <1>3, <1>4, <1>5, OneChainKeeps
<1>7. \A k : Ahead(s.ht, it, k) => k \in Elements(s)
  <2> SUFFICES ASSUME NEW k, Ahead(s.ht, it, k) PROVE k \in Elements(s)
    OBVIOUS
  <2>1. CASE Later(s.ht, it.table, it.index, k)
    BY <2>1, ElementsOf DEF Later, KeysIn
  <2>2. CASE Rest(s.ht[it.table][it.index], it.nextEntry, k)
    <3> DEFINE z == s.ht[it.table][it.index]
    <3>1. it.table \in {0, 1} /\ it.index \in DOMAIN s.ht[it.table] /\ z \in Seq(Keys)
      BY <1>2 DEF WalkInv
    <3>2. k \in Range(z)
      BY <2>2, <3>1, KeysOfChain DEF Rest
    <3> QED BY <3>1, <3>2, ElementsOf DEF KeysIn
  <2> QED BY <2>1, <2>2 DEF Ahead
<1>8. x \notin due /\ x \notin seen
  BY <1>7, ElementsOf DEF WalkInv
<1>9. it.nextEntry # x
  <2>1. it.nextEntry # Nil => it.nextEntry \in Elements(s)
    BY ElementsOf DEF WalkInv, KeysIn
  <2> QED BY <2>1, DictAssumption
<1>10. WalkInv(g, it, due \ {x}, seen \ {x})
  BY <1>6, <1>9, WalkKeeps
<1>11. due \ {x} = due /\ seen \ {x} = seen
  BY <1>8
<1> QED BY <1>10, <1>11 DEF g

\* Deleting any key but the one the iterator has saved as next leaves it the others.
LEMMA DeletedWalk ==
    ASSUME NEW s, DictInv(s), NEW x \in Keys, NEW t \in {0, 1}, s.exp[t] \in Exps, x \in KeysIn(s.ht[t]),
           NEW it, NEW due, NEW seen, WalkInv(s.ht, it, due, seen), it.nextEntry # x
    PROVE  WalkInv(Deleted(s, x, t).ht, it, due \ {x}, seen \ {x})
<1> DEFINE g == Deleted(s, x, t).ht
           b == Bucket(x, s.exp[t])
           c == Unlink(s.ht[t][b], x)
<1> DEFINE z == Deleted(s, x, t)
<1>1. g[t] = SetChain(s.ht[t], b, c) /\ g[1 - t] = s.ht[1 - t]
  <2> HIDE DEF z
  <2>1. z.ht[t] = SetChain(s.ht[t], b, c) /\ z.ht[1 - t] = s.ht[1 - t]
    <3>1. HasKey(s, x, t)
      BY DEF HasKey
    <3>2. LostKey(s, z, x, t)
      BY <3>1, DeletedInv DEF z
    <3> QED BY <3>2 DEF LostKey
  <2> QED BY <2>1 DEF z
<1>2. \A u \in {0, 1} : \A i \in DOMAIN s.ht[u] : s.ht[u][i] \in Seq(Keys)
  BY ChainsAreChains
<1>3. b \in DOMAIN s.ht[t] /\ IsChain(s.ht[t][b], b, s.exp[t]) /\ x \in Range(s.ht[t][b])
  BY ChainsAreChains, Buckets, KeyInBucket
<1>4. c \in Seq(Keys) /\ ChainKeeps(s.ht[t][b], c, x)
  <2>1. PICK p \in 1 .. Len(s.ht[t][b]) : s.ht[t][b][p] = x
    BY <1>3, KeysOfChain, Zenon DEF IsChain
  <2> QED BY <1>3, <2>1, UnlinkAt, UnlinkKeeps, Zenon
<1> HIDE DEF g, b, c
<1>5. TablesKeep(s.ht, g, x)
  BY <1>1, <1>2, <1>3, <1>4, OneChainKeeps
<1> QED BY <1>5, WalkKeeps DEF g

\* The table that _dictExpand allocates is empty, and never the iterator's.
LEMMA ExpandedWalk ==
    ASSUME NEW s, DictInv(s), NEW m, Expanded(s, m),
           NEW it, NEW due, NEW seen, WalkInv(s.ht, it, due, seen)
    PROVE  WalkInv(m.ht, it, due, seen)
<1>1. CASE m = s
  BY <1>1
<1>2. CASE m # s
  <2>1. /\ ~Rehashing(s) /\ KeysIn(s.ht[1]) = {} /\ KeysIn(m.ht[1]) = {} /\ Elements(m) = Elements(s)
        /\ s.exp[0] # -1 => m.ht[0] = s.ht[0]
    BY <1>2 DEF Expanded
  <2>2. Size(-1) = 0
    BY DEF Size
  <2>3. s.exp[1] = -1
    BY <2>1 DEF DictInv
  <2>4. \A u \in {0, 1} : s.exp[u] = -1 => DOMAIN s.ht[u] = {}
    <3>1. \A u \in {0, 1} : DOMAIN s.ht[u] = 0 .. Size(s.exp[u]) - 1
      BY ChainsAreChains
    <3>2. 0 .. Size(-1) - 1 = {}
      BY <2>2
    <3> QED BY <3>1, <3>2, Zenon
  <2>5. it.table = 0 /\ s.exp[0] # -1
    BY <2>3, <2>4 DEF WalkInv
  <2>6. m.ht[0] = s.ht[0]
    BY <2>1, <2>5
  <2>7. \A k : Later(m.ht, 0, it.index, k) <=> Later(s.ht, 0, it.index, k)
    <3>1. \A j \in DOMAIN s.ht[1] : Range(s.ht[1][j]) = {}
      BY <2>1 DEF KeysIn
    <3>2. \A j \in DOMAIN m.ht[1] : Range(m.ht[1][j]) = {}
      BY <2>1 DEF KeysIn
    <3> QED BY <2>6, <3>1, <3>2 DEF Later
  <2>8. \A k : Ahead(m.ht, it, k) <=> Ahead(s.ht, it, k)
    BY <2>5, <2>6, <2>7 DEF Ahead
  <2>9. KeysIn(m.ht[0]) \cup KeysIn(m.ht[1]) = KeysIn(s.ht[0]) \cup KeysIn(s.ht[1])
    BY <2>1, <2>6
  <2> QED BY <2>5, <2>6, <2>8, <2>9 DEF WalkInv
<1> QED BY <1>1, <1>2

\* k is at or after position n of bucket i of table t, or in a later bucket.
From(h, t, i, n, k) == Later(h, t, i, k) \/ \E q \in n .. Len(h[t][i]) : h[t][i][q] = k

\* The iterator that has returned entry n of bucket i of table t.
At(h, t, i, n) ==
    [table |-> t, index |-> i, entry |-> h[t][i][n],
     nextEntry |-> IF n < Len(h[t][i]) THEN h[t][i][n + 1] ELSE Nil]

\* dictNext saves the entry after the one it returns: what is ahead of it is what
\* was, without the returned entry.
LEMMA AheadOfNext ==
    ASSUME NEW s, DictInv(s), NEW t \in {0, 1}, NEW i \in DOMAIN s.ht[t], NEW n \in 1 .. Len(s.ht[t][i])
    PROVE  LET c == s.ht[t][i]
               it == At(s.ht, t, i, n)
           IN  /\ \A k : From(s.ht, t, i, n, k) <=> k = c[n] \/ Ahead(s.ht, it, k)
               /\ ~Ahead(s.ht, it, c[n])
               /\ it.nextEntry # Nil => it.nextEntry \in Range(c)
<1> DEFINE c == s.ht[t][i]
           it == At(s.ht, t, i, n)
<1>1. /\ c \in Seq(Keys) /\ Len(c) \in Nat /\ \A p \in 1 .. Len(c) : c[p] \in Keys /\ c[p] \in Range(c)
      /\ \A p, q \in 1 .. Len(c) : c[p] = c[q] => p = q
  <2>1. c \in Seq(Keys) /\ IsChain(c, i, s.exp[t])
    BY ChainsAreChains
  <2> HIDE DEF c
  <2>2. Len(c) \in Nat /\ \A p \in 1 .. Len(c) : c[p] \in Range(c)
    BY <2>1, KeysOfChain
  <2>3. \A p \in 1 .. Len(c) : c[p] \in Keys
    BY <2>1, ElementOfSeq
  <2> QED BY <2>1, <2>2, <2>3 DEF IsChain
<1>2. it.table = t /\ it.index = i /\ it.nextEntry = IF n < Len(c) THEN c[n + 1] ELSE Nil
  BY DEF At
<1> HIDE DEF it
<1>3. ASSUME NEW k PROVE Ahead(s.ht, it, k) <=> Later(s.ht, t, i, k) \/ \E q \in n + 1 .. Len(c) : c[q] = k
  <2>1. CASE n < Len(c)
    <3>1. n + 1 \in 1 .. Len(c) /\ it.nextEntry = c[n + 1] /\ c[n + 1] # Nil
      BY <1>1, <1>2, <2>1, DictAssumption
    <3>2. Rest(c, c[n + 1], k) <=> \E q \in n + 1 .. Len(c) : c[q] = k
      <4>1. ASSUME Rest(c, c[n + 1], k) PROVE \E q \in n + 1 .. Len(c) : c[q] = k
        <5>1. PICK p \in 1 .. Len(c), q \in 1 .. Len(c) : c[p] = c[n + 1] /\ c[q] = k /\ p <= q
          BY <4>1 DEF Rest
        <5>2. p = n + 1
          BY <1>1, <3>1, <5>1
        <5> QED BY <5>1, <5>2
      <4>2. ASSUME NEW q \in n + 1 .. Len(c), c[q] = k PROVE Rest(c, c[n + 1], k)
        <5>1. q \in 1 .. Len(c) /\ n + 1 <= q
          BY <1>1
        <5> QED BY <3>1, <4>2, <5>1 DEF Rest
      <4> QED BY <4>1, <4>2
    <3> QED BY <1>2, <3>1, <3>2 DEF Ahead
  <2>2. CASE ~(n < Len(c))
    <3>1. it.nextEntry = Nil
      BY <1>2, <2>2
    <3>2. ~ \E q \in n + 1 .. Len(c) : c[q] = k
      BY <1>1, <2>2
    <3> QED BY <1>2, <3>1, <3>2 DEF Ahead
  <2> QED BY <2>1, <2>2
<1>4. ASSUME NEW k PROVE From(s.ht, t, i, n, k) <=> k = c[n] \/ Ahead(s.ht, it, k)
  <2>1. (\E q \in n .. Len(c) : c[q] = k) <=> k = c[n] \/ \E q \in n + 1 .. Len(c) : c[q] = k
    <3>0. Len(c) \in Nat /\ n \in 1 .. Len(c)
      BY <1>1
    <3> HIDE DEF c
    <3>1. \A q \in n .. Len(c) : q = n \/ q \in n + 1 .. Len(c)
      BY <3>0
    <3>2. n \in n .. Len(c)
      BY <3>0
    <3>3. \A q \in n + 1 .. Len(c) : q \in n .. Len(c)
      BY <3>0
    <3> QED BY <3>1, <3>2, <3>3
  <2> QED BY <1>3, <2>1 DEF From
<1>5. ~Later(s.ht, t, i, c[n])
  <2> SUFFICES ASSUME NEW u \in {0, 1}, NEW j \in DOMAIN s.ht[u], c[n] \in Range(s.ht[u][j]),
                      u > t \/ (u = t /\ j > i)
               PROVE  FALSE
    BY DEF Later
  <2>1. c[n] \in KeysIn(s.ht[t]) /\ c[n] \in KeysIn(s.ht[u])
    BY <1>1 DEF KeysIn
  <2>2. u = t
    <3>1. KeysIn(s.ht[0]) \cap KeysIn(s.ht[1]) = {}
      BY DEF DictInv
    <3> HIDE DEF c
    <3> QED BY <2>1, <3>1
  <2>3. Bucket(c[n], s.exp[t]) = i /\ Bucket(c[n], s.exp[t]) = j
    <3>1. IsTable(s.ht[t], s.exp[t]) /\ DOMAIN s.ht[t] = 0 .. Size(s.exp[t]) - 1
      BY ChainsAreChains
    <3>2. \A a \in DOMAIN s.ht[t] : \A k \in Range(s.ht[t][a]) : Bucket(k, s.exp[t]) = a
      BY <3>1, KeysOfTable
    <3>3. c[n] \in Range(s.ht[t][i]) /\ c[n] \in Range(s.ht[t][j]) /\ j \in DOMAIN s.ht[t]
      BY <1>1, <2>2
    <3> HIDE DEF c
    <3> QED BY <3>2, <3>3
  <2>4. i \in Nat
    BY ChainsAreChains
  <2> HIDE DEF c
  <2> QED BY <2>2, <2>3, <2>4
<1>6. ~Ahead(s.ht, it, c[n])
  <2>1. ~ \E q \in n + 1 .. Len(c) : c[q] = c[n]
    BY <1>1
  <2> QED BY <1>3, <1>5, <2>1
<1>7. it.nextEntry # Nil => it.nextEntry \in Range(c)
  <2>1. n < Len(c) => n + 1 \in 1 .. Len(c)
    BY <1>1
  <2> QED BY <1>1, <1>2, <2>1
<1> QED BY <1>4, <1>6, <1>7 DEF it

\* The first of the buckets ahead, in the order dictNext looks at them.
LEMMA FirstAhead ==
    ASSUME BucketsAhead # {}
    PROVE  \E p \in BucketsAhead : \A q \in BucketsAhead : p[1] < q[1] \/ (p[1] = q[1] /\ p[2] <= q[2])
<1>1. \A p \in BucketsAhead : p = <<p[1], p[2]>> /\ p[1] \in {0, 1} /\ p[2] \in Nat
  BY DEF BucketsAhead, Words
<1> DEFINE S(t) == {p[2] : p \in {q \in BucketsAhead : q[1] = t}}
<1>2. ASSUME NEW t \in {0, 1}, S(t) # {}
      PROVE  \E p \in BucketsAhead : p[1] = t /\ \A q \in BucketsAhead : q[1] = t => p[2] <= q[2]
  <2>1. S(t) \in SUBSET Nat
    BY <1>1
  <2>2. PICK i \in S(t) : \A j \in S(t) : i <= j
    <3> HIDE DEF S
    <3> QED BY <1>2, <2>1, LeastNat
  <2>3. PICK p \in BucketsAhead : p[1] = t /\ p[2] = i
    BY <2>2
  <2> QED BY <2>2, <2>3
<1>3. CASE S(0) # {}
  <2>1. PICK p \in BucketsAhead : p[1] = 0 /\ \A q \in BucketsAhead : q[1] = 0 => p[2] <= q[2]
    BY <1>2, <1>3
  <2> QED BY <1>1, <2>1
<1>4. CASE S(0) = {}
  <2>1. \A q \in BucketsAhead : q[1] = 1
    BY <1>1, <1>4
  <2>2. S(1) # {}
    BY <2>1
  <2>3. PICK p \in BucketsAhead : p[1] = 1 /\ \A q \in BucketsAhead : q[1] = 1 => p[2] <= q[2]
    BY <1>2, <2>2
  <2> QED BY <2>1, <2>3
<1> QED BY <1>3, <1>4

\* What is ahead of an iterator at the end of a chain is in the buckets ahead.
LEMMA InBucketsAhead ==
    ASSUME DictInv(d), iter.table \in {0, 1}
    PROVE  \A t \in {0, 1} : \A i \in DOMAIN d.ht[t] : \A k \in Range(d.ht[t][i]) :
              (t > iter.table \/ (t = iter.table /\ i > iter.index)) => <<t, i>> \in BucketsAhead
<1> SUFFICES ASSUME NEW t \in {0, 1}, NEW i \in DOMAIN d.ht[t], NEW k \in Range(d.ht[t][i]),
                    t > iter.table \/ (t = iter.table /\ i > iter.index)
             PROVE  <<t, i>> \in BucketsAhead
  OBVIOUS
<1>1. i \in Words
  BY ChainsAreChains
<1>2. d.ht[t][i] # <<>>
  BY EmptyChain
<1>3. t = 1 => Rehashing(d)
  <2>1. Size(-1) = 0
    BY DEF Size
  <2>2. d.exp[t] # -1
    BY <2>1, ChainsAreChains
  <2> QED BY <2>2 DEF DictInv
<1>4. t > iter.table => t = 1
  OBVIOUS
<1> QED BY <1>1, <1>2, <1>3, <1>4 DEF BucketsAhead

\* dictNext returns entry n of bucket i of table t, the first of those ahead.
Returns(t, i, n) ==
    /\ iter' = At(d.ht, t, i, n)
    /\ \A k : Ahead(d.ht, iter, k) <=> From(d.ht, t, i, n, k)
    /\ iterDue' = (IF iter = Fresh THEN Elements(d) ELSE iterDue) \ {d.ht[t][i][n]}
    /\ iterSeen' = (IF iter = Fresh THEN {} ELSE iterSeen) \cup
                      (IF iter = Fresh \/ d.ht[t][i][n] \in iterDue THEN {d.ht[t][i][n]} ELSE {})

\* dictNext returns the first entry of what was ahead: the saved next entry, or the
\* head of the first bucket ahead that is not empty.
LEMMA NextEntryOf ==
    ASSUME DictInv(d), iter = Fresh \/ WalkInv(d.ht, iter, iterDue, iterSeen), DictNext
    PROVE  \E t \in {0, 1} : \E i \in DOMAIN d.ht[t] : \E n \in 1 .. Len(d.ht[t][i]) : Returns(t, i, n)
<1> DEFINE p == CHOOSE p \in BucketsAhead : \A q \in BucketsAhead : p[1] < q[1] \/ (p[1] = q[1] /\ p[2] <= q[2])
           at == IF iter.nextEntry # Nil THEN <<iter.table, iter.index>> ELSE p
           c == d.ht[at[1]][at[2]]
           n == IF iter.nextEntry # Nil THEN CHOOSE i \in DOMAIN c : c[i] = iter.nextEntry ELSE 1
<1>1. /\ iter.nextEntry # Nil \/ BucketsAhead # {}
      /\ iter' = At(d.ht, at[1], at[2], n)
      /\ iterDue' = (IF iter = Fresh THEN Elements(d) ELSE iterDue) \ {c[n]}
      /\ iterSeen' = (IF iter = Fresh THEN {} ELSE iterSeen) \cup
                        (IF iter = Fresh \/ c[n] \in iterDue THEN {c[n]} ELSE {})
  BY Zenon DEF DictNext, At
<1>2. Fresh.nextEntry = Nil /\ Fresh.table = 0 /\ Fresh.index = -1
  BY DEF Fresh
<1>3. iter.table \in {0, 1} /\ iter.index \in Int
  <2>1. CASE iter = Fresh
    BY <1>2, <2>1
  <2>2. CASE WalkInv(d.ht, iter, iterDue, iterSeen)
    <3>1. iter.table \in {0, 1} /\ iter.index \in DOMAIN d.ht[iter.table]
      BY <2>2 DEF WalkInv
    <3>2. iter.index \in Nat
      BY <3>1, ChainsAreChains
    <3> QED BY <3>1, <3>2
  <2> QED BY <2>1, <2>2
<1>4. \A t \in {0, 1} : \A i \in DOMAIN d.ht[t] :
         /\ d.ht[t][i] \in Seq(Keys) /\ i \in Nat /\ DOMAIN d.ht[t][i] = 1 .. Len(d.ht[t][i])
         /\ Len(d.ht[t][i]) \in Nat /\ \A a, b \in 1 .. Len(d.ht[t][i]) : d.ht[t][i][a] = d.ht[t][i][b] => a = b
  <2> TAKE t \in {0, 1}
  <2> TAKE i \in DOMAIN d.ht[t]
  <2> DEFINE z == d.ht[t][i]
  <2>1. z \in Seq(Keys) /\ IsChain(z, i, d.exp[t]) /\ i \in Nat
    BY ChainsAreChains
  <2> HIDE DEF z
  <2>2. DOMAIN z = 1 .. Len(z) /\ Len(z) \in Nat
    BY <2>1, KeysOfChain
  <2>3. \A a, b \in 1 .. Len(z) : z[a] = z[b] => a = b
    BY <2>1 DEF IsChain
  <2> QED BY <2>1, <2>2, <2>3 DEF z
<1>5. SUFFICES /\ at[1] \in {0, 1} /\ at[2] \in DOMAIN d.ht[at[1]] /\ n \in 1 .. Len(c)
               /\ \A k : Ahead(d.ht, iter, k) <=> From(d.ht, at[1], at[2], n, k)
  <2> HIDE DEF n, at
  <2> QED BY <1>1, Zenon DEF Returns
<1>6. CASE iter.nextEntry # Nil
  <2>1. WalkInv(d.ht, iter, iterDue, iterSeen)
    BY <1>2, <1>6
  <2>2. at[1] = iter.table /\ at[2] = iter.index /\ iter.index \in DOMAIN d.ht[iter.table]
    BY <1>6, <2>1 DEF WalkInv
  <2> DEFINE z == d.ht[iter.table][iter.index]
  <2>3. c = z
    BY <2>2, Zenon
  <2>4. iter.nextEntry \in Range(z)
    BY <1>6, <2>1 DEF WalkInv
  <2>5. n \in 1 .. Len(z) /\ z[n] = iter.nextEntry
    <3>0. z \in Seq(Keys)
      BY <1>3, <1>4, <2>2
    <3>1. (\E a \in 1 .. Len(z) : z[a] = iter.nextEntry) /\ DOMAIN z = 1 .. Len(z)
      <4> HIDE DEF z
      <4> QED BY <2>4, <3>0, KeysOfChain
    <3>2. DOMAIN z = 1 .. Len(z)
      BY <3>1
    <3>3. n = CHOOSE i \in 1 .. Len(z) : z[i] = iter.nextEntry
      <4>1. n = CHOOSE i \in DOMAIN c : c[i] = iter.nextEntry
        BY <1>6
      <4> HIDE DEF n, c, z
      <4> QED BY <2>3, <3>2, <4>1
    <3> HIDE DEF n, z
    <3> QED BY <3>1, <3>3
  <2> HIDE DEF n, c, at
  <2>6. ASSUME NEW k PROVE Rest(z, iter.nextEntry, k) <=> \E q \in n .. Len(z) : z[q] = k
    <3>1. Len(z) \in Nat /\ \A a, b \in 1 .. Len(z) : z[a] = z[b] => a = b
      BY <1>3, <1>4, <2>2
    <3> HIDE DEF z
    <3>2. ASSUME NEW a \in 1 .. Len(z), NEW q \in 1 .. Len(z), z[a] = iter.nextEntry, z[q] = k, a <= q
          PROVE  q \in n .. Len(z)
      <4>1. a = n
        BY <2>5, <3>1, <3>2
      <4> HIDE DEF n
      <4> QED BY <2>5, <3>1, <3>2, <4>1
    <3>3. ASSUME NEW q \in n .. Len(z) PROVE q \in 1 .. Len(z) /\ n <= q
      <4> HIDE DEF n
      <4> QED BY <2>5, <3>1
    <3> QED BY <2>5, <3>2, <3>3 DEF Rest
  <2>7. ASSUME NEW k PROVE Ahead(d.ht, iter, k) <=> From(d.ht, at[1], at[2], n, k)
    BY <1>6, <2>2, <2>6 DEF Ahead, From
  <2> QED BY <1>3, <2>2, <2>3, <2>5, <2>7, Zenon
<1>7. CASE iter.nextEntry = Nil
  <2>1. BucketsAhead # {} /\ at = p /\ n = 1
    BY <1>1, <1>7, Zenon
  <2>2. p \in BucketsAhead /\ \A q \in BucketsAhead : p[1] < q[1] \/ (p[1] = q[1] /\ p[2] <= q[2])
    BY <2>1, FirstAhead
  <2> HIDE DEF p, at, n
  <2> DEFINE t == p[1]
             i == p[2]
  <2>3. /\ t \in {0, 1} /\ i \in DOMAIN d.ht[t] /\ d.ht[t][i] # <<>>
        /\ t > iter.table \/ (t = iter.table /\ i > iter.index)
    BY <2>2, <1>3 DEF BucketsAhead
  <2>4. 1 \in 1 .. Len(d.ht[t][i])
    <3>1. d.ht[t][i] \in Seq(Keys) /\ Len(d.ht[t][i]) \in Nat
      BY <1>4, <2>3
    <3>2. Len(d.ht[t][i]) # 0
      BY <2>3, <3>1, EmptySeq
    <3> QED BY <3>1, <3>2
  <2>5. ASSUME NEW k PROVE Later(d.ht, iter.table, iter.index, k) <=> Later(d.ht, t, i, k) \/ k \in Range(d.ht[t][i])
    <3>1. ASSUME NEW u \in {0, 1}, NEW j \in DOMAIN d.ht[u], k \in Range(d.ht[u][j]),
                 u > iter.table \/ (u = iter.table /\ j > iter.index)
          PROVE  Later(d.ht, t, i, k) \/ k \in Range(d.ht[t][i])
      <4>1. <<u, j>> \in BucketsAhead
        BY <1>3, <3>1, InBucketsAhead
      <4>2. t < u \/ (t = u /\ i <= j)
        BY <2>2, <4>1
      <4>3. i \in Nat /\ j \in Nat
        BY <1>4, <2>3
      <4> HIDE DEF t, i
      <4>4. (u > t \/ (u = t /\ j > i)) \/ (u = t /\ j = i)
        BY <2>3, <4>2, <4>3
      <4> QED BY <3>1, <4>4, Zenon DEF Later
    <3>2. ASSUME Later(d.ht, t, i, k) PROVE Later(d.ht, iter.table, iter.index, k)
      <4> HIDE DEF t, i
      <4>0. PICK u \in {0, 1} : \E j \in DOMAIN d.ht[u] : k \in Range(d.ht[u][j]) /\ (u > t \/ (u = t /\ j > i))
        BY <3>2 DEF Later
      <4>1. PICK j \in DOMAIN d.ht[u] : k \in Range(d.ht[u][j]) /\ (u > t \/ (u = t /\ j > i))
        BY <4>0
      <4>2. i \in Nat /\ j \in Nat
        BY <1>4, <2>3
      <4>3. u > iter.table \/ (u = iter.table /\ j > iter.index)
        <5>1. t \in {0, 1} /\ (t > iter.table \/ (t = iter.table /\ i > iter.index))
          BY <2>3
        <5>2. u > t \/ (u = t /\ j > i)
          BY <4>1
        <5> QED BY <1>3, <4>2, <5>1, <5>2
      <4> QED BY <4>1, <4>3 DEF Later
    <3>3. ASSUME k \in Range(d.ht[t][i]) PROVE Later(d.ht, iter.table, iter.index, k)
      BY <2>3, <3>3 DEF Later
    <3> QED BY <3>1, <3>2, <3>3, Zenon DEF Later
  <2>6. ASSUME NEW k PROVE k \in Range(d.ht[t][i]) <=> \E q \in 1 .. Len(d.ht[t][i]) : d.ht[t][i][q] = k
    <3>1. d.ht[t][i] \in Seq(Keys)
      BY <1>4, <2>3
    <3> QED BY <3>1, KeysOfChain
  <2>7. ASSUME NEW k PROVE Ahead(d.ht, iter, k) <=> From(d.ht, t, i, 1, k)
    <3> HIDE DEF t, i
    <3>1. Ahead(d.ht, iter, k) <=> Later(d.ht, iter.table, iter.index, k)
      BY <1>7 DEF Ahead
    <3> QED BY <2>5, <2>6, <3>1, Zenon DEF From
  <2> QED BY <2>1, <2>3, <2>4, <2>7
<1> QED BY <1>6, <1>7, Zenon
-----------------------------------------------------------------------------
(* The steps.                                                              *)

IterInv ==
    /\ d.pause = IF iter = Fresh THEN 0 ELSE 1
    /\ iter # Fresh => WalkInv(d.ht, iter, iterDue, iterSeen)

Inv == DictInv(d) /\ IterInv

\* s has the keys of d, and what an iterator has seen and has ahead of it.
Keeps(s) ==
    /\ DictInv(s) /\ Elements(s) = Elements(d) /\ s.pause = d.pause
    /\ iter # Fresh => WalkInv(s.ht, iter, iterDue, iterSeen)

\* An iterator pauses rehashing, so a step of it moves no entry under one.
LEMMA RehashStepKeeps ==
    ASSUME Inv
    PROVE  Keeps(d) /\ Keeps(RehashStep(d))
<1>1. Keeps(d)
  BY DEF Inv, IterInv, Keeps
<1>2. iter # Fresh => RehashStep(d) = d
  BY RehashStepInv DEF Inv, IterInv
<1>3. /\ DictInv(RehashStep(d)) /\ Elements(RehashStep(d)) = Elements(d) /\ RehashStep(d).pause = d.pause
  BY RehashStepInv DEF Inv
<1> QED BY <1>1, <1>2, <1>3 DEF Keeps

\* Growing or shrinking is not seen by callers, nor by an iterator.
LEMMA ExpandedKeeps ==
    ASSUME NEW s, Keeps(s), NEW m, Expanded(s, m)
    PROVE  Keeps(m)
<1>1. DictInv(m) /\ Elements(m) = Elements(d) /\ m.pause = d.pause
  BY DEF Keeps, Expanded
<1>2. iter # Fresh => WalkInv(m.ht, iter, iterDue, iterSeen)
  BY ExpandedWalk DEF Keeps
<1> QED BY <1>1, <1>2 DEF Keeps

\* dictAdd adds the key, answers whether it was new, and leaves an iterator its due.
LEMMA AddStep ==
    ASSUME Inv, NEW k \in Keys, Add(k)
    PROVE  /\ DictInv(d') /\ Elements(d') = Elements(d) \cup {k} /\ d'.pause = d.pause
           /\ iter # Fresh => WalkInv(d'.ht, iter, iterDue, iterSeen)
           /\ reply' = (k \notin Elements(d)) /\ UNCHANGED walks
<1>1. PICK allowed \in BOOLEAN, canResize \in BOOLEAN :
         LET e == ExpandIfNeeded(RehashStep(d), allowed, canResize)
         IN  /\ IF Holding(e, k) # {} THEN d' = e /\ reply' = FALSE
                                     ELSE d' = Insert(e, k) /\ reply' = TRUE
             /\ UNCHANGED walks
  BY DEF Add
<1> DEFINE e == ExpandIfNeeded(RehashStep(d), allowed, canResize)
<1>2. Keeps(e) /\ e.exp[0] # -1
  <2>1. Keeps(RehashStep(d)) /\ DictInv(RehashStep(d))
    BY RehashStepKeeps DEF Keeps
  <2>2. Expanded(RehashStep(d), e) /\ e.exp[0] # -1
    BY <2>1, ExpandIfNeededInv
  <2> QED BY <2>1, <2>2, ExpandedKeeps
<1>3. /\ IF Holding(e, k) # {} THEN d' = e /\ reply' = FALSE ELSE d' = Insert(e, k) /\ reply' = TRUE
      /\ UNCHANGED walks
  BY <1>1
<1> HIDE DEF e
<1>4. Holding(e, k) # {} <=> k \in Elements(d)
  BY <1>2, HoldingKey DEF Keeps
<1>5. CASE k \in Elements(d)
  <2>1. d' = e /\ reply' = FALSE
    BY <1>3, <1>4, <1>5
  <2>2. Elements(e) = Elements(d) \cup {k}
    BY <1>2, <1>5 DEF Keeps
  <2> QED BY <1>2, <1>3, <1>5, <2>1, <2>2, Zenon DEF Keeps
<1>6. CASE k \notin Elements(d)
  <2>1. d' = Insert(e, k) /\ reply' = TRUE
    BY <1>3, <1>4, <1>6
  <2>2. DictInv(Insert(e, k)) /\ Elements(Insert(e, k)) = Elements(d) \cup {k} /\ Insert(e, k).pause = d.pause
    <3>1. DictInv(e) /\ Elements(e) = Elements(d) /\ e.pause = d.pause
      BY <1>2 DEF Keeps
    <3>2. DictInv(Insert(e, k)) /\ Elements(Insert(e, k)) = Elements(e) \cup {k} /\ Insert(e, k).pause = e.pause
      BY <1>2, <1>6, <3>1, InsertInv
    <3> QED BY <3>1, <3>2
  <2>3. iter # Fresh => WalkInv(Insert(e, k).ht, iter, iterDue, iterSeen)
    BY <1>2, <1>6, InsertWalk DEF Keeps
  <2> QED BY <1>3, <1>6, <2>1, <2>2, <2>3, Zenon
<1> QED BY <1>5, <1>6

\* dictFind answers whether the key is there and changes no key.
LEMMA FindStep ==
    ASSUME Inv, NEW k \in Keys, Find(k)
    PROVE  Keeps(d') /\ reply' = (k \in Elements(d)) /\ UNCHANGED walks
<1>1. Keeps(d) /\ Keeps(RehashStep(d)) /\ DictInv(d)
  BY RehashStepKeeps DEF Inv
<1>2. CASE Total(d) = 0
  <2>1. reply' = FALSE /\ d' = d /\ UNCHANGED walks
    BY <1>2 DEF Find
  <2>2. (k \in Elements(d)) = FALSE
    BY <1>1, <1>2, TotalZero
  <2> QED BY <1>1, <2>1, <2>2, Zenon
<1>3. CASE Total(d) # 0
  <2>1. Elements(RehashStep(d)) # {} /\ DictInv(RehashStep(d))
    BY <1>1, <1>3, TotalZero DEF Keeps
  <2>2. RehashStep(d).exp[0] # -1
    BY <2>1, HasTable
  <2>3. Holding(RehashStep(d), k) # {} <=> k \in Elements(RehashStep(d))
    BY <2>1, <2>2, HoldingKey
  <2>4. d' = RehashStep(d) /\ reply' = (Holding(RehashStep(d), k) # {}) /\ UNCHANGED walks
    BY <1>3 DEF Find
  <2>5. Elements(RehashStep(d)) = Elements(d)
    BY <1>1 DEF Keeps
  <2> QED BY <1>1, <2>3, <2>4, <2>5
<1> QED BY <1>2, <1>3

\* dictGetRandomKey finds a key when there is one and changes none.
LEMMA RandomStep ==
    ASSUME Inv, GetRandomKey
    PROVE  Keeps(d') /\ reply' = (Elements(d) # {}) /\ UNCHANGED walks
<1>1. Keeps(d) /\ Keeps(RehashStep(d)) /\ (Total(d) = 0 <=> Elements(d) = {})
  BY RehashStepKeeps, TotalZero DEF Inv
<1>2. CASE Total(d) = 0
  BY <1>1, <1>2, Zenon DEF GetRandomKey
<1>3. CASE Total(d) # 0
  <2>1. d' = RehashStep(d) /\ reply' = TRUE /\ UNCHANGED walks
    BY <1>3 DEF GetRandomKey
  <2> QED BY <1>1, <1>3, <2>1, Zenon
<1> QED BY <1>2, <1>3

\* A key that was deleted is neither due nor seen.
LEMMA WalkShrinks ==
    ASSUME NEW h, NEW it, NEW due, NEW seen, WalkInv(h, it, due, seen), NEW x
    PROVE  WalkInv(h, it, due \ {x}, seen \ {x})
BY DEF WalkInv

\* dictDelete removes the key, answers whether it was there, and leaves an iterator
\* what else is due.
LEMMA DeleteStep ==
    ASSUME Inv, NEW k \in Keys, Delete(k)
    PROVE  /\ DictInv(d') /\ Elements(d') = Elements(d) \ {k} /\ d'.pause = d.pause
           /\ iter # Fresh => WalkInv(d'.ht, iter, iterDue', iterSeen')
           /\ reply' = (k \in Elements(d)) /\ UNCHANGED iter
<1> DEFINE s == RehashStep(d)
           t == CHOOSE t \in Holding(s, k) : \A u \in Holding(s, k) : t <= u
<1>1. /\ iter.nextEntry # k /\ UNCHANGED iter /\ iterDue' = iterDue \ {k} /\ iterSeen' = iterSeen \ {k}
      /\ IF Total(d) = 0 THEN reply' = FALSE /\ UNCHANGED d
         ELSE IF Holding(s, k) = {} THEN reply' = FALSE /\ d' = s
         ELSE reply' = TRUE /\ d' = Deleted(s, k, t)
  BY DEF Delete, Deleted
<1>2. Keeps(d) /\ Keeps(s) /\ (Total(d) = 0 <=> Elements(d) = {})
  BY RehashStepKeeps, TotalZero DEF Inv
<1> HIDE DEF s
<1>3. ASSUME NEW m, Keeps(m), k \notin Elements(d)
      PROVE  /\ DictInv(m) /\ Elements(m) = Elements(d) \ {k} /\ m.pause = d.pause
             /\ iter # Fresh => WalkInv(m.ht, iter, iterDue \ {k}, iterSeen \ {k})
  BY <1>3, WalkShrinks DEF Keeps
<1>4. CASE Total(d) = 0
  <2>1. reply' = FALSE /\ d' = d
    BY <1>1, <1>4
  <2>2. k \notin Elements(d) /\ (k \in Elements(d)) = FALSE
    BY <1>2, <1>4
  <2>3. /\ DictInv(d) /\ Elements(d) = Elements(d) \ {k}
        /\ iter # Fresh => WalkInv(d.ht, iter, iterDue \ {k}, iterSeen \ {k})
    BY <1>2, <1>3, <2>2
  <2> QED BY <1>1, <2>1, <2>2, <2>3, Zenon
<1>5. CASE Total(d) # 0
  <2>1. DictInv(s) /\ Elements(s) = Elements(d) /\ s.exp[0] # -1
    BY <1>2, <1>5, HasTable DEF Keeps
  <2>2. /\ Holding(s, k) = {u \in {0, 1} : k \in KeysIn(s.ht[u])}
        /\ \A u \in Holding(s, k) : s.exp[u] \in Exps
        /\ Holding(s, k) # {} <=> k \in Elements(d)
    BY <2>1, HoldingKey
  <2>3. CASE k \notin Elements(d)
    <3>1. reply' = FALSE /\ d' = s
      BY <1>1, <1>5, <2>2, <2>3
    <3>2. (k \in Elements(d)) = FALSE
      BY <2>3
    <3>3. /\ DictInv(s) /\ Elements(s) = Elements(d) \ {k} /\ s.pause = d.pause
          /\ iter # Fresh => WalkInv(s.ht, iter, iterDue \ {k}, iterSeen \ {k})
      BY <1>2, <1>3, <2>3
    <3> QED BY <1>1, <3>1, <3>2, <3>3, Zenon
  <2>4. CASE k \in Elements(d)
    <3>1. t \in {0, 1} /\ s.exp[t] \in Exps /\ k \in KeysIn(s.ht[t])
      <4>1. \E u \in Holding(s, k) : \A v \in Holding(s, k) : u <= v
        <5>1. CASE 0 \in Holding(s, k)
          BY <2>2, <5>1
        <5>2. CASE 0 \notin Holding(s, k)
          BY <2>2, <2>4, <5>2
        <5> QED BY <5>1, <5>2
      <4>2. t \in Holding(s, k)
        BY <4>1
      <4> HIDE DEF t
      <4> QED BY <2>2, <4>2
    <3>2. reply' = TRUE /\ d' = Deleted(s, k, t)
      BY <1>1, <1>5, <2>2, <2>4
    <3> HIDE DEF t
    <3>3. /\ DictInv(Deleted(s, k, t)) /\ Elements(Deleted(s, k, t)) = Elements(d) \ {k}
          /\ Deleted(s, k, t).pause = d.pause
      <4>1. DictInv(s) /\ Elements(s) = Elements(d) /\ s.pause = d.pause
        BY <1>2, <2>1 DEF Keeps
      <4>2. /\ DictInv(Deleted(s, k, t)) /\ Elements(Deleted(s, k, t)) = Elements(s) \ {k}
            /\ Deleted(s, k, t).pause = s.pause
        <5>1. HasKey(s, k, t)
          BY <3>1, <4>1 DEF HasKey
        <5>2. LostKey(s, Deleted(s, k, t), k, t)
          BY <3>1, <5>1, DeletedInv
        <5> QED BY <5>2 DEF LostKey
      <4> QED BY <4>1, <4>2
    <3>4. iter # Fresh => WalkInv(Deleted(s, k, t).ht, iter, iterDue \ {k}, iterSeen \ {k})
      BY <1>1, <1>2, <2>1, <3>1, DeletedWalk, Zenon DEF Keeps
    <3> QED BY <1>1, <2>4, <3>2, <3>3, <3>4, Zenon
  <2> QED BY <2>3, <2>4
<1> QED BY <1>4, <1>5

\* A new or emptied dict is in order and has no key.
LEMMA NewDictInv == DictInv(NewDict) /\ Elements(NewDict) = {} /\ NewDict.pause = 0
<1>1. /\ \A t \in {0, 1} : NewDict.ht[t] = Table(-1) /\ NewDict.used[t] = 0 /\ NewDict.exp[t] = -1
      /\ NewDict.rehashidx = -1 /\ NewDict.pause = 0
  BY DEF NewDict
<1>2. IsTable(Table(-1), -1) /\ KeysIn(Table(-1)) = {} /\ Cardinality(KeysIn(Table(-1))) = 0 /\ Table(-1) \in AllTables
  BY EmptyTable, TableIsTable
<1>3. Shape(NewDict)
  BY <1>2 DEF NewDict, Shape
<1>4. ~Rehashing(NewDict)
  BY <1>1 DEF Rehashing
<1>5. DictInv(NewDict)
  BY <1>1, <1>2, <1>3, <1>4 DEF DictInv, TableInv
<1>6. Elements(NewDict) = {}
  BY <1>1, <1>2, ElementsOf
<1> QED BY <1>1, <1>5, <1>6

\* dictPauseRehashing and dictResumeRehashing.
LEMMA PauseInv ==
    ASSUME NEW s, DictInv(s), NEW n \in Int
    PROVE  LET m == [s EXCEPT !.pause = n]
           IN  DictInv(m) /\ Elements(m) = Elements(s) /\ m.ht = s.ht /\ m.pause = n
<1> DEFINE m == [s EXCEPT !.pause = n]
<1>1. /\ m.ht = s.ht /\ m.used = s.used /\ m.exp = s.exp /\ m.rehashidx = s.rehashidx /\ m.pause = n
      /\ Shape(m)
  BY DEF DictInv, Shape
<1> HIDE DEF m
<1>2. DictInv(m)
  BY <1>1 DEF DictInv, TableInv, Rehashing
<1>3. Elements(m) = Elements(s)
  BY <1>1, ElementsOf
<1> QED BY <1>1, <1>2, <1>3 DEF m

\* Every key is ahead of an iterator that has not begun.
LEMMA FreshAhead ==
    ASSUME DictInv(d), iter = Fresh
    PROVE  \A k \in Elements(d) : Ahead(d.ht, iter, k)
<1> SUFFICES ASSUME NEW k \in Elements(d) PROVE Later(d.ht, 0, -1, k)
  BY DEF Ahead, Fresh
<1>1. PICK t \in {0, 1} : k \in KeysIn(d.ht[t])
  BY ElementsOf
<1>2. PICK i \in DOMAIN d.ht[t] : k \in Range(d.ht[t][i])
  BY <1>1 DEF KeysIn
<1>3. i \in Nat
  BY ChainsAreChains
<1>4. t > 0 \/ (t = 0 /\ i > -1)
  BY <1>3
<1> QED BY <1>2, <1>4 DEF Later

\* Only keys of the dict are ahead of an iterator.
LEMMA AheadIsKey ==
    ASSUME DictInv(d), iter = Fresh \/ WalkInv(d.ht, iter, iterDue, iterSeen), NEW k, Ahead(d.ht, iter, k)
    PROVE  k \in Elements(d)
<1>1. CASE Later(d.ht, iter.table, iter.index, k)
  BY <1>1, ElementsOf DEF Later, KeysIn
<1>2. CASE iter.nextEntry # Nil /\ Rest(d.ht[iter.table][iter.index], iter.nextEntry, k)
  <2> DEFINE z == d.ht[iter.table][iter.index]
  <2>1. iter.table \in {0, 1} /\ iter.index \in DOMAIN d.ht[iter.table]
    <3>1. Fresh.nextEntry = Nil
      BY DEF Fresh
    <3>2. WalkInv(d.ht, iter, iterDue, iterSeen)
      BY <1>2, <3>1
    <3> QED BY <3>2 DEF WalkInv
  <2>2. z \in Seq(Keys)
    BY <2>1, ChainsAreChains
  <2>3. k \in Range(z)
    BY <1>2, <2>2, KeysOfChain DEF Rest
  <2> QED BY <2>1, <2>3, ElementsOf DEF KeysIn
<1> QED BY <1>1, <1>2 DEF Ahead

\* dictNext preserves the invariant and returns a key not returned before.
LEMMA DictNextStep ==
    ASSUME Inv, DictNext
    PROVE  /\ Inv' /\ Elements(d') = Elements(d) /\ UNCHANGED reply
           /\ iter' # Fresh /\ (iter # Fresh => iter'.entry \notin iterSeen)
<1>1. DictInv(d) /\ (iter = Fresh \/ WalkInv(d.ht, iter, iterDue, iterSeen))
  BY DEF Inv, IterInv
<1>2. PICK t \in {0, 1} : \E i \in DOMAIN d.ht[t] : \E n \in 1 .. Len(d.ht[t][i]) : Returns(t, i, n)
  BY <1>1, NextEntryOf
<1>2a. PICK i \in DOMAIN d.ht[t] : \E n \in 1 .. Len(d.ht[t][i]) : Returns(t, i, n)
  BY <1>2
<1>3. PICK n \in 1 .. Len(d.ht[t][i]) : Returns(t, i, n)
  BY <1>2a
<1> DEFINE x == d.ht[t][i][n]
<1>4. /\ \A k : From(d.ht, t, i, n, k) <=> k = x \/ Ahead(d.ht, iter', k)
      /\ ~Ahead(d.ht, iter', x)
      /\ iter'.nextEntry # Nil => iter'.nextEntry \in Range(d.ht[t][i])
  <2>1. /\ \A k : From(d.ht, t, i, n, k) <=> k = x \/ Ahead(d.ht, At(d.ht, t, i, n), k)
        /\ ~Ahead(d.ht, At(d.ht, t, i, n), x)
        /\ At(d.ht, t, i, n).nextEntry # Nil => At(d.ht, t, i, n).nextEntry \in Range(d.ht[t][i])
    BY <1>1, AheadOfNext, Zenon
  <2>2. iter' = At(d.ht, t, i, n)
    BY <1>3 DEF Returns
  <2> HIDE DEF x
  <2> QED BY <2>1, <2>2
<1>5. iter'.table = t /\ iter'.index = i /\ iter'.entry = x
  BY <1>3 DEF Returns, At
<1>6. iterDue' = (IF iter = Fresh THEN Elements(d) ELSE iterDue) \ {x}
  BY <1>3 DEF Returns
<1>7. iterSeen' = (IF iter = Fresh THEN {} ELSE iterSeen) \cup (IF iter = Fresh \/ x \in iterDue THEN {x} ELSE {})
  BY <1>3 DEF Returns
<1> HIDE DEF x
<1>8. \A k : Ahead(d.ht, iter, k) <=> k = x \/ Ahead(d.ht, iter', k)
  BY <1>3, <1>4 DEF Returns
<1>9. iter' # Fresh
  <2>1. i \in Nat /\ Fresh.index = -1
    BY <1>1, ChainsAreChains DEF Fresh
  <2> QED BY <1>5, <2>1
<1>10. \A k \in iterDue' : Ahead(d.ht, iter', k)
  <2>1. \A k \in IF iter = Fresh THEN Elements(d) ELSE iterDue : Ahead(d.ht, iter, k)
    BY <1>1, FreshAhead DEF WalkInv
  <2> QED BY <1>6, <1>8, <2>1
<1>11. \A k \in iterSeen' : k \in Elements(d) /\ ~Ahead(d.ht, iter', k)
  <2>1. x \in Elements(d)
    BY <1>1, <1>8, AheadIsKey, Zenon
  <2>2. \A k \in IF iter = Fresh THEN {} ELSE iterSeen : k \in Elements(d) /\ ~Ahead(d.ht, iter, k)
    BY <1>1, ElementsOf DEF WalkInv
  <2> QED BY <1>4, <1>7, <1>8, <2>1, <2>2
<1>12. WalkInv(d.ht, iter', iterDue', iterSeen')
  <2>1. iter'.nextEntry # Nil => iter'.nextEntry \in Range(d.ht[iter'.table][iter'.index])
    BY <1>4, <1>5
  <2>2. \A k \in iterSeen' : k \in KeysIn(d.ht[0]) \cup KeysIn(d.ht[1]) /\ ~Ahead(d.ht, iter', k)
    BY <1>11, ElementsOf
  <2>3. iter'.table \in {0, 1} /\ iter'.index \in DOMAIN d.ht[iter'.table]
    BY <1>5
  <2> QED BY <1>10, <2>1, <2>2, <2>3 DEF WalkInv
<1>13. DictInv(d') /\ Elements(d') = Elements(d) /\ d'.ht = d.ht /\ d'.pause = 1
  <2>1. d' = (IF iter = Fresh THEN [d EXCEPT !.pause = @ + 1] ELSE d)
    BY Zenon DEF DictNext
  <2>2. CASE iter = Fresh
    <3>1. d' = [d EXCEPT !.pause = 1]
      BY <2>1, <2>2 DEF Inv, IterInv
    <3> QED BY <1>1, <3>1, PauseInv
  <2>3. CASE iter # Fresh
    BY <1>1, <2>1, <2>3 DEF Inv, IterInv
  <2> QED BY <2>2, <2>3
<1>14. Inv'
  BY <1>9, <1>12, <1>13 DEF Inv, IterInv
<1>15. iter # Fresh => x \notin iterSeen
  BY <1>1, <1>8 DEF WalkInv
<1>16. UNCHANGED reply
  BY Zenon DEF DictNext
<1> QED BY <1>5, <1>9, <1>13, <1>14, <1>15, <1>16

\* An iterator at the end of its chain with no bucket left has nothing ahead.
LEMMA DictNextEndStep ==
    ASSUME Inv, DictNextEnd
    PROVE  Inv' /\ Elements(d') = Elements(d) /\ UNCHANGED reply /\ iterDue' = {}
<1>1. /\ iter # Fresh /\ iter.nextEntry = Nil /\ BucketsAhead = {} /\ iter' = Fresh
      /\ d' = [d EXCEPT !.pause = @ - 1] /\ UNCHANGED <<reply, iterDue>>
  BY DEF DictNextEnd
<1>2. DictInv(d) /\ d.pause = 1 /\ WalkInv(d.ht, iter, iterDue, iterSeen)
  BY <1>1 DEF Inv, IterInv
<1>3. ASSUME NEW k PROVE ~Ahead(d.ht, iter, k)
  BY <1>1, <1>2, InBucketsAhead DEF Ahead, Later, WalkInv
<1>4. iterDue = {}
  BY <1>2, <1>3 DEF WalkInv
<1>5. d' = [d EXCEPT !.pause = 0]
  BY <1>1, <1>2
<1>6. DictInv(d') /\ Elements(d') = Elements(d) /\ d'.pause = 0
  BY <1>2, <1>5, PauseInv
<1> QED BY <1>1, <1>4, <1>6 DEF Inv, IterInv

\* dictReleaseIterator ends the pause of rehashing.
LEMMA ReleaseStep ==
    ASSUME Inv, ReleaseIterator
    PROVE  Inv' /\ Elements(d') = Elements(d) /\ UNCHANGED reply /\ iterDue' = {}
<1>1. /\ iter # Fresh /\ iter' = Fresh /\ iterDue' = {}
      /\ d' = [d EXCEPT !.pause = @ - 1] /\ UNCHANGED reply
  BY DEF ReleaseIterator
<1>2. DictInv(d) /\ d.pause = 1
  BY <1>1 DEF Inv, IterInv
<1>3. d' = [d EXCEPT !.pause = 0]
  BY <1>1, <1>2
<1>4. DictInv(d') /\ Elements(d') = Elements(d) /\ d'.pause = 0
  BY <1>2, <1>3, PauseInv
<1> QED BY <1>1, <1>4 DEF Inv, IterInv

\* dictExpand, dictResize and dictRehashMilliseconds are invisible.
LEMMA ResizeStep ==
    ASSUME Inv, NEW n \in 1 .. 2 ^ Bits, Resize(n)
    PROVE  Keeps(d') /\ UNCHANGED <<reply, walks>>
<1>1. Keeps(d) /\ DictInv(d)
  BY RehashStepKeeps DEF Inv
<1>2. Expanded(d, Expand(d, n))
  BY <1>1, ExpandInv
<1> QED BY <1>1, <1>2, ExpandedKeeps DEF Resize

\* dictResize keeps the keys and an iterator's due.
LEMMA DictResizeStep ==
    ASSUME Inv, DictResize
    PROVE  Keeps(d') /\ UNCHANGED <<reply, walks>>
<1> DEFINE n == IF d.used[0] < 2 ^ InitialExp THEN 2 ^ InitialExp ELSE d.used[0]
<1>1. Resize(n)
  BY DEF DictResize
<1>2. n \in 1 .. 2 ^ Bits
  <2>1. d.used[0] \in Nat /\ d.used[0] < 2 ^ Bits /\ 2 ^ Bits \in Nat
    BY NothingUsed DEF Inv
  <2>2. InitialExp \in Nat /\ Bits \in Nat /\ InitialExp <= Bits
    BY DictAssumption
  <2>3. 2 ^ InitialExp \in Nat \ {0} /\ 2 ^ InitialExp <= 2 ^ Bits
    BY <2>2, PowerOfTwo, PowerMonotone
  <2> QED BY <2>1, <2>3
<1> HIDE DEF n
<1> QED BY <1>1, <1>2, ResizeStep

\* dictRehashMilliseconds, which does nothing during an iteration, keeps the keys.
LEMMA RehashMillisecondsStep ==
    ASSUME Inv, RehashMilliseconds
    PROVE  Keeps(d') /\ UNCHANGED <<reply, walks>>
<1>1. Rehashing(d) /\ d.pause = 0 /\ d' = Rehash(d) /\ UNCHANGED <<reply, walks>>
  BY DEF RehashMilliseconds
<1>2. d' = RehashStep(d)
  BY <1>1 DEF RehashStep
<1> QED BY <1>1, <1>2, RehashStepKeeps

\* A step that leaves the keys and the iterator's due preserves the invariant.
LEMMA KeepsInv ==
    ASSUME Inv, Keeps(d'), UNCHANGED walks
    PROVE  Inv'
BY DEF Inv, IterInv, Keeps, walks

\* The dict begins empty and in order.
LEMMA InitInv == Init => Inv /\ Elements(d) = {}
BY NewDictInv DEF Init, Inv, IterInv

\* Every step preserves the invariant.
LEMMA InvStep == Inv /\ [Next]_vars => Inv'
<1> SUFFICES ASSUME Inv, [Next]_vars PROVE Inv'
  OBVIOUS
<1>1. ASSUME NEW k \in Keys, Add(k) PROVE Inv'
  BY <1>1, AddStep DEF Inv, IterInv, walks
<1>2. ASSUME NEW k \in Keys, Find(k) PROVE Inv'
  BY <1>2, FindStep, KeepsInv
<1>3. ASSUME NEW k \in Keys, Delete(k) PROVE Inv'
  BY <1>3, DeleteStep DEF Inv, IterInv
<1>4. CASE GetRandomKey
  BY <1>4, RandomStep, KeepsInv
<1>5. CASE Clear
  BY <1>5, NewDictInv DEF Clear, Inv, IterInv
<1>6. ASSUME NEW n \in 1 .. 2 ^ Bits, Resize(n) PROVE Inv'
  BY <1>6, ResizeStep, KeepsInv
<1>7. CASE DictResize
  BY <1>7, DictResizeStep, KeepsInv
<1>8. CASE RehashMilliseconds
  BY <1>8, RehashMillisecondsStep, KeepsInv
<1>9. CASE DictNext
  BY <1>9, DictNextStep
<1>10. CASE DictNextEnd
  BY <1>10, DictNextEndStep
<1>11. CASE ReleaseIterator
  BY <1>11, ReleaseStep
<1>12. CASE Scan
  BY <1>12, Zenon DEF Scan, Inv, IterInv
<1>13. CASE UNCHANGED vars
  BY <1>13 DEF vars, Inv, IterInv
<1> QED BY <1>1, <1>2, <1>3, <1>4, <1>5, <1>6, <1>7, <1>8, <1>9, <1>10, <1>11, <1>12, <1>13 DEF Next

\* Inv is an invariant.
LEMMA AlwaysInv == Spec => []Inv
<1>1. Init => Inv
  BY InitInv
<1> QED BY <1>1, InvStep, PTL DEF Spec

\* The tables stay well formed, through growing, shrinking, rehashing and iterating.
THEOREM TablesStayWellFormed == Spec => []WellFormed
<1>1. Inv => WellFormed
  <2> SUFFICES ASSUME Inv PROVE WellFormed
    OBVIOUS
  <2>1. ASSUME NEW t \in {0, 1}
        PROVE  /\ d.exp[t] \in {-1} \cup InitialExp .. Bits
               /\ DOMAIN d.ht[t] = 0 .. Size(d.exp[t]) - 1
               /\ \A i \in DOMAIN d.ht[t] : \A k \in Range(d.ht[t][i]) : Bucket(k, d.exp[t]) = i
               /\ \A i \in DOMAIN d.ht[t] : Len(d.ht[t][i]) = Cardinality(Range(d.ht[t][i]))
               /\ d.used[t] = Cardinality(KeysOf(d, t))
    <3>1. /\ d.exp[t] \in {-1} \cup Exps /\ IsTable(d.ht[t], d.exp[t]) /\ DOMAIN d.ht[t] = 0 .. Size(d.exp[t]) - 1
          /\ \A i \in DOMAIN d.ht[t] : IsChain(d.ht[t][i], i, d.exp[t])
      BY ChainsAreChains, Zenon DEF Inv
    <3>2. \A i \in DOMAIN d.ht[t] : \A k \in Range(d.ht[t][i]) : Bucket(k, d.exp[t]) = i
      BY <3>1, KeysOfTable
    <3>3. \A i \in DOMAIN d.ht[t] : Len(d.ht[t][i]) = Cardinality(Range(d.ht[t][i]))
      BY <3>1, ChainLength
    <3>4. d.used[t] = Cardinality(KeysOf(d, t))
      <4>1. d.used[t] = Cardinality(KeysIn(d.ht[t]))
        BY DEF Inv, DictInv, TableInv
      <4>2. KeysOf(d, t) = KeysIn(d.ht[t])
        BY DEF KeysIn, KeysOf
      <4> QED BY <4>1, <4>2
    <3> QED BY <3>1, <3>2, <3>3, <3>4, Zenon DEF Exps
  <2>2. KeysOf(d, 0) \cap KeysOf(d, 1) = {}
    BY DEF Inv, DictInv, KeysIn, KeysOf
  <2> QED BY <2>1, <2>2, Zenon DEF Inv, IterInv, DictInv, WellFormed
<1> QED BY <1>1, AlwaysInv, PTL

\* To its callers the dict is a set: every operation answers and acts as on a set,
\* whichever tables the keys are in, and no step of a rehash can be seen.
THEOREM DictIsASet == Spec => KeySetSpec
<1>1. Init => KeySetOf!Init
  BY InitInv DEF Init, KeySetOf!Init
<1>2. Inv /\ [Next]_vars => [KeySetOf!Next]_<<Elements(d), reply>>
  <2> SUFFICES ASSUME Inv, [Next]_vars PROVE KeySetOf!Next \/ UNCHANGED <<Elements(d), reply>>
    OBVIOUS
  <2>1. ASSUME NEW k \in Keys, Add(k) PROVE KeySetOf!Next
    BY <2>1, AddStep DEF KeySetOf!Next, KeySetOf!Add
  <2>2. ASSUME NEW k \in Keys, Find(k) PROVE KeySetOf!Next
    BY <2>2, FindStep DEF KeySetOf!Next, KeySetOf!Find, Keeps
  <2>3. ASSUME NEW k \in Keys, Delete(k) PROVE KeySetOf!Next
    BY <2>3, DeleteStep DEF KeySetOf!Next, KeySetOf!Delete
  <2>4. CASE GetRandomKey
    BY <2>4, RandomStep DEF KeySetOf!Next, KeySetOf!Random, Keeps
  <2>5. CASE Clear
    BY <2>5, NewDictInv DEF Clear, KeySetOf!Next, KeySetOf!Clear
  <2>6. ASSUME NEW n \in 1 .. 2 ^ Bits, Resize(n) PROVE UNCHANGED <<Elements(d), reply>>
    BY <2>6, ResizeStep DEF Keeps
  <2>7. CASE DictResize
    BY <2>7, DictResizeStep DEF Keeps
  <2>8. CASE RehashMilliseconds
    BY <2>8, RehashMillisecondsStep DEF Keeps
  <2>9. CASE DictNext
    BY <2>9, DictNextStep
  <2>10. CASE DictNextEnd
    BY <2>10, DictNextEndStep
  <2>11. CASE ReleaseIterator
    BY <2>11, ReleaseStep
  <2>12. CASE Scan
    BY <2>12, Zenon DEF Scan
  <2>13. CASE UNCHANGED vars
    BY <2>13 DEF vars
  <2> QED BY <2>1, <2>2, <2>3, <2>4, <2>5, <2>6, <2>7, <2>8, <2>9, <2>10, <2>11, <2>12, <2>13 DEF Next
<1> QED BY <1>1, <1>2, AlwaysInv, PTL DEF Spec, KeySetSpec, KeySetOf!Spec

\* A safe iterator returns no key twice, and when it is done has returned every key
\* that was there all along, although keys were added and deleted and a rehash was
\* started meanwhile.
THEOREM IteratorReturnsEachOnce == Spec => IteratesOnce
<1> DEFINE Once == /\ (iter' # iter /\ iter' # Fresh /\ iter # Fresh) => iter'.entry \notin iterSeen
                   /\ (iter # Fresh /\ iter' = Fresh) => iterDue' = {}
<1>1. Inv /\ [Next]_vars => [Once]_vars
  <2> SUFFICES ASSUME Inv, Next PROVE Once
    OBVIOUS
  <2>1. CASE UNCHANGED iter
    BY <2>1
  <2>2. CASE DictNext
    BY <2>2, DictNextStep
  <2>3. CASE DictNextEnd
    BY <2>3, DictNextEndStep DEF DictNextEnd
  <2>4. CASE ReleaseIterator
    BY <2>4, ReleaseStep DEF ReleaseIterator
  <2>5. UNCHANGED iter \/ DictNext \/ DictNextEnd \/ ReleaseIterator
    BY Zenon DEF Next, Add, Find, Delete, GetRandomKey, Clear, Resize, DictResize, RehashMilliseconds, Scan, walks
  <2> HIDE DEF Once
  <2> QED BY <2>1, <2>2, <2>3, <2>4, <2>5
<1> QED BY <1>1, AlwaysInv, PTL DEF Spec, IteratesOnce
-----------------------------------------------------------------------------
(* Scans.                                                                  *)

\* The inductive invariant: the keys a scan still owes are those that the reversed
\* cursor has yet to come to.
ScanInv ==
    /\ cursor \in {-1} \cup Words /\ scanDue \subseteq Elements(d)
    /\ cursor = -1 => scanDue = {}
    /\ cursor # -1 => \A k \in scanDue : Rev[cursor] <= Rev[Hash[k]]

\* The hash of a key, and the bucket it is in.
LEMMA KeyOfTable ==
    ASSUME NEW s, DictInv(s), NEW t \in {0, 1}, NEW k \in KeysIn(s.ht[t])
    PROVE  /\ s.exp[t] \in Exps /\ s.exp[t] \in 0 .. Bits
           /\ k \in Keys /\ Hash[k] \in Words
           /\ k \in Range(s.ht[t][Hash[k] % 2 ^ s.exp[t]])
<1>1. IsTable(s.ht[t], s.exp[t]) /\ s.exp[t] \in {-1} \cup Exps
  BY DEF DictInv, TableInv, Shape
<1>2. k \in Keys /\ s.exp[t] # -1
  <2>1. 0 .. Size(-1) - 1 = {}
    BY DEF Size
  <2> QED BY <1>1, <2>1, KeysOfTable
<1>3. s.exp[t] \in Exps
  BY <1>1, <1>2
<1>4. s.exp[t] \in 0 .. Bits
  BY <1>3, DictAssumption DEF Exps
<1>5. k \in Range(s.ht[t][Bucket(k, s.exp[t])])
  BY <1>1, <1>2, <1>3, KeyInBucket
<1>6. Bucket(k, s.exp[t]) = Hash[k] % 2 ^ s.exp[t]
  BY <1>3, Buckets DEF Bucket
<1> QED BY <1>2, <1>3, <1>4, <1>5, <1>6, DictAssumption

\* The bucket at the cursor has the keys that the next cursor passes.
LEMMA ScanOne ==
    ASSUME NEW s, DictInv(s), NEW t \in {0, 1}, NEW v \in Words, NEW k \in KeysIn(s.ht[t]),
           Rev[v] <= Rev[Hash[k]], Rev[Hash[k]] < Past(v, s.exp[t])
    PROVE  k \in Range(s.ht[t][v % Size(s.exp[t])])
<1>1. /\ s.exp[t] \in Exps /\ s.exp[t] \in 0 .. Bits /\ Hash[k] \in Words
      /\ k \in Range(s.ht[t][Hash[k] % 2 ^ s.exp[t]])
  BY KeyOfTable
<1>2. Hash[k] % 2 ^ s.exp[t] = v % 2 ^ s.exp[t]
  BY <1>1, UpToBlockEnd
<1>3. Size(s.exp[t]) = 2 ^ s.exp[t]
  BY <1>1, Buckets
<1> QED BY <1>1, <1>2, <1>3

\* So have the expansions of that bucket in the larger table.
LEMMA ScanLarger ==
    ASSUME NEW s, DictInv(s), NEW t \in {0, 1}, NEW v \in Words, NEW k \in KeysIn(s.ht[t]),
           NEW e \in 0 .. s.exp[t], Rev[v] <= Rev[Hash[k]], Rev[Hash[k]] < Past(v, e)
    PROVE  \E i \in Expansions(v, e, s.exp[t])[1] : k \in Range(s.ht[t][i])
<1>1. /\ s.exp[t] \in 0 .. Bits /\ Hash[k] \in Words
      /\ k \in Range(s.ht[t][Hash[k] % 2 ^ s.exp[t]])
  BY KeyOfTable
<1>2. Hash[k] \in Passed(v, Past(v, e))
  BY <1>1 DEF Passed
<1>3. Expansions(v, e, s.exp[t])[1] = {x % 2 ^ s.exp[t] : x \in Passed(v, Past(v, e))}
  BY <1>1, ExpansionsAre
<1> QED BY <1>1, <1>2, <1>3

\* A scan ends, or its cursor is at the end of a block whose keys were emitted.
Moves(due, emitted, next, p) ==
    /\ next \in Words /\ p \in 1 .. 2 ^ Bits
    /\ p = 2 ^ Bits => next = 0
    /\ p # 2 ^ Bits => Rev[next] = p
    /\ \A k \in due : Rev[Hash[k]] < p => k \in emitted

\* Then what is still due comes after the next cursor.
LEMMA DueAfter ==
    ASSUME NEW due, due \subseteq Elements(d), DictInv(d), NEW emitted, NEW next, NEW p,
           Moves(due, emitted, next, p),
           cursor' = IF next = 0 THEN -1 ELSE next, scanDue' = due \ emitted, UNCHANGED d
    PROVE  ScanInv'
<1>1. ASSUME NEW k \in due PROVE Rev[Hash[k]] \in Words
  <2>1. k \in KeysIn(d.ht[0]) \/ k \in KeysIn(d.ht[1])
    BY <1>1, ElementsOf
  <2>2. Hash[k] \in Words
    BY <2>1, KeyOfTable
  <2> QED BY <2>2, RevBits
<1>2. \A k \in due : Rev[Hash[k]] \in Nat /\ Rev[Hash[k]] < 2 ^ Bits
  BY <1>1, WordsAre
<1>3. scanDue' \subseteq Elements(d)'
  OBVIOUS
<1>4. CASE next = 0
  <2>1. p = 2 ^ Bits
    BY <1>4, RevZero, WordsAre DEF Moves
  <2>2. scanDue' = {}
    BY <1>2, <2>1 DEF Moves
  <2> QED BY <1>3, <1>4, <2>2 DEF ScanInv
<1>5. CASE next # 0
  <2>1. cursor' = next /\ next \in Words /\ Rev[next] = p /\ p \in Nat
    BY <1>5, WordsAre DEF Moves
  <2>2. \A k \in due \ emitted : Rev[next] <= Rev[Hash[k]]
    BY <1>2, <2>1 DEF Moves
  <2>3. next # -1
    BY <2>1, WordsAre
  <2> QED BY <1>3, <2>1, <2>2, <2>3 DEF ScanInv
<1> QED BY <1>4, <1>5

\* dictScan emits what its cursor passes, in one table or in both.
LEMMA ScanStep ==
    ASSUME Inv, ScanInv, Scan
    PROVE  ScanInv'
<1> DEFINE v == IF cursor = -1 THEN 0 ELSE cursor
           due == IF cursor = -1 THEN Elements(d) ELSE scanDue
           small == IF d.exp[0] > d.exp[1] THEN 1 ELSE 0
           one == Range(d.ht[0][v % Size(d.exp[0])])
           loop == Expansions(v, d.exp[small], d.exp[1 - small])
           both == Range(d.ht[small][v % Size(d.exp[small])])
                      \cup UNION {Range(d.ht[1 - small][i]) : i \in loop[1]}
           emitted == IF Total(d) = 0 THEN {} ELSE IF Rehashing(d) THEN both ELSE one
           next == IF Total(d) = 0 THEN 0
                   ELSE IF Rehashing(d) THEN loop[2] ELSE NextCursor(v, d.exp[0])
<1>1. cursor' = (IF next = 0 THEN -1 ELSE next) /\ scanDue' = due \ emitted /\ UNCHANGED d
  BY Zenon DEF Scan
<1>2. DictInv(d)
  BY DEF Inv
<1>3. v \in Words /\ due \subseteq Elements(d)
  BY WordsAre DEF ScanInv
<1>4. \A k \in due : Hash[k] \in Words /\ Rev[v] <= Rev[Hash[k]]
  <2>1. ASSUME NEW k \in due PROVE Hash[k] \in Words /\ Rev[Hash[k]] \in Nat
    <3>1. k \in KeysIn(d.ht[0]) \/ k \in KeysIn(d.ht[1])
      BY <1>3, ElementsOf
    <3>2. Hash[k] \in Words
      BY <1>2, <3>1, KeyOfTable
    <3> QED BY <3>2, RevBits, WordsAre
  <2>2. CASE cursor = -1
    BY <2>1, <2>2, RevZero
  <2>3. CASE cursor # -1
    BY <2>1, <2>3 DEF ScanInv
  <2> QED BY <2>2, <2>3
<1> HIDE DEF v, due
<1>5. CASE Total(d) = 0
  <2>1. due = {} /\ next = 0
    BY <1>2, <1>3, <1>5, TotalZero
  <2> HIDE DEF emitted, next
  <2>2. Moves(due, emitted, next, 2 ^ Bits)
    <3>1. 2 ^ Bits \in 1 .. 2 ^ Bits
      BY WordsAre
    <3> QED BY <2>1, <3>1, RevZero, WordsAre DEF Moves
  <2> QED BY <1>1, <1>2, <1>3, <2>2, DueAfter
<1>6. CASE Total(d) # 0 /\ ~Rehashing(d)
  <2> DEFINE e == d.exp[0]
  <2>1. emitted = one /\ next = NextCursor(v, e)
    BY <1>6
  <2>2. e \in 0 .. Bits
    <3>1. Elements(d) # {}
      BY <1>2, <1>6, TotalZero
    <3>2. e # -1 /\ e \in {-1} \cup Exps
      BY <1>2, <3>1, HasTable DEF DictInv, Shape
    <3> QED BY <3>2, DictAssumption DEF Exps
  <2>3. /\ next \in Words /\ Past(v, e) \in 1 .. 2 ^ Bits
        /\ Past(v, e) = 2 ^ Bits => next = 0
        /\ Past(v, e) # 2 ^ Bits => Rev[next] = Past(v, e)
    <3> HIDE DEF e, next, one, emitted
    <3> QED BY <1>3, <2>1, <2>2, NextBlock
  <2>4. ASSUME NEW k \in due, Rev[Hash[k]] < Past(v, e) PROVE k \in one
    <3>1. k \in KeysIn(d.ht[0])
      <4>1. k \in KeysIn(d.ht[0]) \/ k \in KeysIn(d.ht[1])
        BY <1>3, ElementsOf
      <4>2. d.exp[1] \notin Exps
        <5>1. d.exp[1] = -1
          BY <1>2, <1>6 DEF DictInv
        <5> QED BY <5>1, Buckets
      <4> QED BY <1>2, <4>1, <4>2, KeyOfTable
    <3> QED BY <1>2, <1>3, <1>4, <2>4, <3>1, ScanOne
  <2>5. Moves(due, emitted, next, Past(v, e))
    <3> HIDE DEF e, next, one, emitted
    <3> QED BY <2>1, <2>3, <2>4 DEF Moves
  <2> HIDE DEF emitted, next, e
  <2> QED BY <1>1, <1>2, <1>3, <2>5, DueAfter
<1>7. CASE Total(d) # 0 /\ Rehashing(d)
  <2> DEFINE large == 1 - small
             e == d.exp[small]
             f == d.exp[large]
  <2>1. emitted = both /\ next = loop[2]
    BY <1>7
  <2>2. small \in {0, 1} /\ large \in {0, 1} /\ {small, large} = {0, 1}
    OBVIOUS
  <2>3. e \in 0 .. f /\ f \in 0 .. Bits /\ e \in 0 .. Bits
    <3>1. d.exp[0] # -1 /\ d.exp[1] # -1 /\ d.exp[0] \in {-1} \cup Exps /\ d.exp[1] \in {-1} \cup Exps
      BY <1>2, <1>7 DEF DictInv, Shape
    <3>2. d.exp[0] \in 0 .. Bits /\ d.exp[1] \in 0 .. Bits
      BY <3>1, DictAssumption DEF Exps
    <3> QED BY <3>2, WordsAre
  <2> HIDE DEF small, large
  <2>4. loop = Expansions(v, e, f)
    BY DEF large
  <2>5. /\ next \in Words /\ Past(v, e) \in 1 .. 2 ^ Bits
        /\ Past(v, e) = 2 ^ Bits => next = 0
        /\ Past(v, e) # 2 ^ Bits => Rev[next] = Past(v, e)
    <3> HIDE DEF loop, next, e, f
    <3>1. Past(v, e) \in 1 .. 2 ^ Bits
      BY <1>3, <2>3, NextBlock
    <3>2. /\ Expansions(v, e, f)[2] \in Words
          /\ Past(v, e) = 2 ^ Bits => Expansions(v, e, f)[2] = 0
          /\ Past(v, e) # 2 ^ Bits => Rev[Expansions(v, e, f)[2]] = Past(v, e)
      BY <1>3, <2>3, ExpansionsAre
    <3> QED BY <2>1, <2>4, <3>1, <3>2
  <2>6. ASSUME NEW k \in due, Rev[Hash[k]] < Past(v, e) PROVE k \in both
    <3>1. k \in KeysIn(d.ht[small]) \/ k \in KeysIn(d.ht[large])
      <4>1. k \in KeysIn(d.ht[0]) \/ k \in KeysIn(d.ht[1])
        BY <1>3, ElementsOf
      <4> QED BY <2>2, <4>1
    <3>2. CASE k \in KeysIn(d.ht[small])
      <4>1. k \in Range(d.ht[small][v % Size(e)])
        BY <1>2, <1>3, <1>4, <2>2, <2>6, <3>2, ScanOne
      <4> QED BY <4>1
    <3>3. CASE k \in KeysIn(d.ht[large])
      <4>1. \E i \in Expansions(v, e, d.exp[large])[1] : k \in Range(d.ht[large][i])
        <5>1. e \in 0 .. d.exp[large]
          BY <2>3
        <5> HIDE DEF e
        <5> QED BY <1>2, <1>3, <1>4, <2>2, <2>6, <3>3, <5>1, ScanLarger
      <4>2. \E i \in loop[1] : k \in Range(d.ht[large][i])
        BY <2>4, <4>1
      <4> HIDE DEF loop
      <4> QED BY <4>2 DEF large
    <3> QED BY <3>1, <3>2, <3>3
  <2>7. Moves(due, emitted, next, Past(v, e))
    <3> HIDE DEF e, f, next, both, emitted
    <3> QED BY <2>1, <2>5, <2>6 DEF Moves
  <2> HIDE DEF emitted, next, e
  <2> QED BY <1>1, <1>2, <1>3, <2>7, DueAfter
<1> QED BY <1>5, <1>6, <1>7

\* A step that leaves the cursor and the keys that are due preserves the invariant.
LEMMA ScanKept ==
    ASSUME ScanInv, UNCHANGED cursor, scanDue' \subseteq scanDue, scanDue' \subseteq Elements(d')
    PROVE  ScanInv'
BY DEF ScanInv

\* Every step preserves the invariant of the scan.
LEMMA ScanInvStep == Inv /\ ScanInv /\ [Next]_vars => ScanInv'
<1> SUFFICES ASSUME Inv, ScanInv, [Next]_vars PROVE ScanInv'
  OBVIOUS
<1>0. scanDue \subseteq Elements(d)
  BY DEF ScanInv
<1>1. ASSUME NEW k \in Keys, Add(k) PROVE ScanInv'
  BY <1>0, <1>1, AddStep, ScanKept DEF walks
<1>2. ASSUME NEW k \in Keys, Find(k) PROVE ScanInv'
  BY <1>0, <1>2, FindStep, ScanKept DEF walks, Keeps
<1>3. ASSUME NEW k \in Keys, Delete(k) PROVE ScanInv'
  <2>1. UNCHANGED cursor /\ scanDue' = scanDue \ {k}
    BY <1>3, Zenon DEF Delete
  <2>2. Elements(d') = Elements(d) \ {k}
    BY <1>3, DeleteStep
  <2> QED BY <1>0, <2>1, <2>2, ScanKept
<1>4. CASE GetRandomKey
  BY <1>0, <1>4, RandomStep, ScanKept DEF walks, Keeps
<1>5. CASE Clear
  BY <1>5, ScanKept DEF Clear
<1>6. ASSUME NEW n \in 1 .. 2 ^ Bits, Resize(n) PROVE ScanInv'
  BY <1>0, <1>6, ResizeStep, ScanKept DEF walks, Keeps
<1>7. CASE DictResize
  BY <1>0, <1>7, DictResizeStep, ScanKept DEF walks, Keeps
<1>8. CASE RehashMilliseconds
  BY <1>0, <1>8, RehashMillisecondsStep, ScanKept DEF walks, Keeps
<1>9. CASE DictNext
  <2>1. UNCHANGED <<cursor, scanDue>>
    BY <1>9, Zenon DEF DictNext
  <2> QED BY <1>0, <1>9, <2>1, DictNextStep, ScanKept
<1>10. CASE DictNextEnd
  <2>1. UNCHANGED <<cursor, scanDue>>
    BY <1>10 DEF DictNextEnd
  <2> QED BY <1>0, <1>10, <2>1, DictNextEndStep, ScanKept
<1>11. CASE ReleaseIterator
  <2>1. UNCHANGED <<cursor, scanDue>>
    BY <1>11 DEF ReleaseIterator
  <2> QED BY <1>0, <1>11, <2>1, ReleaseStep, ScanKept
<1>12. CASE Scan
  BY <1>12, ScanStep
<1>13. CASE UNCHANGED vars
  BY <1>13 DEF vars, ScanInv
<1> QED BY <1>1, <1>2, <1>3, <1>4, <1>5, <1>6, <1>7, <1>8, <1>9, <1>10, <1>11, <1>12, <1>13 DEF Next

\* When dictScan returns 0, every key that was in the dict from the start of the
\* scan to its end has been emitted, although the tables grew, shrank and were
\* rehashed between its calls.
THEOREM ScanMissesNothing == Spec => []ScanComplete
<1>1. Init => ScanInv
  BY DEF Init, ScanInv
<1>2. ScanInv => ScanComplete
  BY DEF ScanInv, ScanComplete
<1> QED BY <1>1, <1>2, AlwaysInv, ScanInvStep, PTL DEF Spec
=============================================================================
