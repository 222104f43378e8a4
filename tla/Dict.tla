-------------------------------- MODULE Dict --------------------------------
(***************************************************************************)
(* redis/src/dict.c: a hash table that grows and shrinks by moving its     *)
(* buckets to a second table, a few at a time, while it is being used,     *)
(* iterated (dictNext, safe iterators) and scanned (dictScan).             *)
(*                                                                         *)
(* A key stands for its entry; a bucket is the sequence of its chain.      *)
(***************************************************************************)
EXTENDS Integers, FiniteSets, Sequences, Functions

CONSTANTS
    Keys,
    Hash,           \* the hash of each key
    Bits,           \* width of a hash and of a scan cursor
    InitialExp,     \* DICT_HT_INITIAL_EXP
    EmptyVisits,    \* empty buckets a step of dictRehash may visit (10)
    ForceRatio      \* dict_force_resize_ratio

Words == 0 .. 2 ^ Bits - 1
Nil == "nil"

ASSUME DictAssumption ==
    /\ Bits \in Nat /\ InitialExp \in 0 .. Bits
    /\ IsFiniteSet(Keys) /\ Cardinality(Keys) < 2 ^ Bits
    /\ EmptyVisits \in Nat \ {0} /\ ForceRatio \in Nat
    /\ Hash \in [Keys -> Words]
    /\ Nil \notin Keys

VARIABLES
    d,              \* struct dict: ht, used, exp (two of each), rehashidx, pause
    reply,          \* what the last operation returned
    iter,           \* a safe iterator: table, index, entry, nextEntry
    iterDue,        \* history: keys present ever since its first dictNext
    iterSeen,       \* history: keys it has returned
    cursor,         \* of dictScan; -1 when no scan is under way
    scanDue         \* history: keys present since the scan began, not emitted

vars == <<d, reply, iter, iterDue, iterSeen, cursor, scanDue>>
-----------------------------------------------------------------------------
Size(e) == IF e = -1 THEN 0 ELSE 2 ^ e
Table(e) == [i \in 0 .. Size(e) - 1 |-> <<>>]
Bucket(k, e) == Hash[k] % Size(e)
Rehashing(s) == s.rehashidx # -1
Total(s) == s.used[0] + s.used[1]
Tables(s) == IF Rehashing(s) THEN {0, 1} ELSE {0}
KeysOf(s, t) == UNION {Range(s.ht[t][i]) : i \in DOMAIN s.ht[t]}
Elements(s) == KeysOf(s, 0) \cup KeysOf(s, 1)

\* _dictReset of both tables, as in _dictInit and dictEmpty.
NewDict ==
    [ht |-> [t \in {0, 1} |-> Table(-1)], used |-> [t \in {0, 1} |-> 0],
     exp |-> [t \in {0, 1} |-> -1], rehashidx |-> -1, pause |-> 0]

\* _dictNextExp: the least exponent whose table has room for n keys.
NextExp(n) == CHOOSE e \in InitialExp .. Bits : 2 ^ e >= n /\ \A f \in InitialExp .. e - 1 : 2 ^ f < n

\* _dictExpand: allocates the table, or the second one and starts a rehash.  The
\* unchanged dict stands for DICT_ERR: a success always changes it.
Expand(s, n) ==
    LET e == NextExp(n)
        t == IF s.exp[0] = -1 THEN 0 ELSE 1
    IN  IF Rehashing(s) \/ s.used[0] > n \/ e = s.exp[0] THEN s
        ELSE [s EXCEPT !.ht[t] = Table(e), !.used[t] = 0, !.exp[t] = e,
                       !.rehashidx = IF t = 1 THEN 0 ELSE @]

\* dictRehash when every key has moved: the second table becomes the first.
FinishRehash(s) ==
    [s EXCEPT !.ht = [t \in {0, 1} |-> IF t = 0 THEN s.ht[1] ELSE Table(-1)],
              !.used = [t \in {0, 1} |-> IF t = 0 THEN s.used[1] ELSE 0],
              !.exp = [t \in {0, 1} |-> IF t = 0 THEN s.exp[1] ELSE -1],
              !.rehashidx = -1]

\* k becomes the head of its chain in a table of exponent e.
Push(table, k, e) == [table EXCEPT ![Bucket(k, e)] = <<k>> \o @]

\* Mutant of MoveBucket: only the head of the chain goes to the second table.
MoveBucketHead(s, b) ==
    LET k == Head(s.ht[0][b])
    IN  [s EXCEPT !.ht[0][b] = <<>>, !.ht[1] = Push(@, k, s.exp[1]),
                  !.used[0] = @ - Len(s.ht[0][b]), !.used[1] = @ + 1,
                  !.rehashidx = b + 1]

\* The keys of a chain pushed one by one onto the chains of a table of exponent e.
PushAll(table, chain, e) ==
    LET After[n \in 0 .. Len(chain)] == IF n = 0 THEN table ELSE Push(After[n - 1], chain[n], e)
    IN  After[Len(chain)]

\* The keys of bucket b of the first table move to the second.
MoveBucket(s, b) ==
    LET chain == s.ht[0][b]
    IN  [s EXCEPT !.ht[0][b] = <<>>, !.ht[1] = PushAll(@, chain, s.exp[1]),
                  !.used[0] = @ - Len(chain), !.used[1] = @ + Len(chain),
                  !.rehashidx = b + 1]

\* dictRehash(d, 1): the next bucket that is not empty is moved, unless the
\* empty ones before it use up the visits.
Rehash(s) ==
    LET b == CHOOSE i \in s.rehashidx .. Size(s.exp[0]) - 1 :
                 /\ s.ht[0][i] # <<>>
                 /\ \A j \in s.rehashidx .. i - 1 : s.ht[0][j] = <<>>
        moved == IF s.used[0] = 0 THEN s ELSE MoveBucket(s, b)
    IN  IF s.used[0] # 0 /\ b - s.rehashidx >= EmptyVisits
        THEN [s EXCEPT !.rehashidx = @ + EmptyVisits]
        ELSE IF moved.used[0] = 0 THEN FinishRehash(moved) ELSE moved

\* Mutant of RehashStep: an iterator or a scan does not pause it.
RehashStepUnpaused(s) == IF Rehashing(s) THEN Rehash(s) ELSE s

\* _dictRehashStep, as every operation calls it.
RehashStep(s) == IF Rehashing(s) /\ s.pause = 0 THEN Rehash(s) ELSE s

\* _dictExpandIfNeeded.  `allowed' is the answer of the type's expandAllowed,
\* `canResize' the global dict_can_resize, which others set at any time.
ExpandIfNeeded(s, allowed, canResize) ==
    LET size == Size(s.exp[0])
    IN  IF Rehashing(s) THEN s
        ELSE IF size = 0 THEN Expand(s, 2 ^ InitialExp)
        ELSE IF s.used[0] >= size /\ allowed
                  /\ (canResize \/ s.used[0] \div size > ForceRatio)
             THEN Expand(s, s.used[0] + 1) ELSE s

\* The tables in whose bucket for k the chain has k.
Holding(s, k) == {t \in Tables(s) : k \in Range(s.ht[t][Bucket(k, s.exp[t])])}

\* Mutant of Insert: new keys always go to the first table.
InsertFirst(s, k) ==
    [s EXCEPT !.ht[0] = Push(@, k, s.exp[0]), !.used[0] = @ + 1]

\* The end of dictAddRaw: k becomes the head of its chain, in the second table
\* while there is one.
Insert(s, k) ==
    LET t == IF Rehashing(s) THEN 1 ELSE 0
    IN  [s EXCEPT !.ht[t] = Push(@, k, s.exp[t]), !.used[t] = @ + 1]
-----------------------------------------------------------------------------
(* Operations.                                                             *)

Fresh == [table |-> 0, index |-> -1, entry |-> Nil, nextEntry |-> Nil]

Init ==
    /\ d = NewDict /\ reply = FALSE
    /\ iter = Fresh /\ iterDue = {} /\ iterSeen = {}
    /\ cursor = -1 /\ scanDue = {}

walks == <<iter, iterDue, iterSeen, cursor, scanDue>>

\* dictAdd, dictReplace, dictAddOrFind, all by dictAddRaw and _dictKeyIndex.
Add(k) ==
    \E allowed, canResize \in BOOLEAN :
        LET s == RehashStep(d)
            e == ExpandIfNeeded(s, allowed, canResize)
        IN  /\ IF Holding(e, k) # {} THEN d' = e /\ reply' = FALSE
                                    ELSE d' = Insert(e, k) /\ reply' = TRUE
            /\ UNCHANGED walks

\* dictFind and dictFetchValue.
Find(k) ==
    LET s == RehashStep(d)
    IN  /\ IF Total(d) = 0 THEN reply' = FALSE /\ UNCHANGED d
                           ELSE d' = s /\ reply' = (Holding(s, k) # {})
        /\ UNCHANGED walks

\* dictGetRandomKey: a bucket that has entries, of those not known to be empty.
GetRandomKey ==
    LET s == RehashStep(d)
    IN  /\ IF Total(d) = 0 THEN reply' = FALSE /\ UNCHANGED d
           ELSE /\ d' = s
                /\ \E t \in Tables(s) : \E i \in DOMAIN s.ht[t] :
                      /\ t = 0 => i >= s.rehashidx
                      /\ s.ht[t][i] # <<>> /\ reply' = TRUE
        /\ UNCHANGED walks

\* A chain without k: the entry before it, or the bucket, goes on to the one after.
Unlink(chain, k) ==
    LET i == CHOOSE i \in DOMAIN chain : chain[i] = k
    IN  SubSeq(chain, 1, i - 1) \o SubSeq(chain, i + 1, Len(chain))

\* dictDelete and dictUnlink, by dictGenericDelete.  The user of an iterator may
\* delete what it returned, not the entry it will go on with.
Delete(k) ==
    LET s == RehashStep(d)
        t == CHOOSE t \in Holding(s, k) : \A u \in Holding(s, k) : t <= u
    IN  /\ iter.nextEntry # k
        /\ IF Total(d) = 0 THEN reply' = FALSE /\ UNCHANGED d
           ELSE IF Holding(s, k) = {} THEN reply' = FALSE /\ d' = s
           ELSE /\ reply' = TRUE
                /\ d' = [s EXCEPT !.ht[t][Bucket(k, s.exp[t])] = Unlink(@, k),
                                  !.used[t] = @ - 1]
        /\ iterDue' = iterDue \ {k} /\ iterSeen' = iterSeen \ {k} /\ scanDue' = scanDue \ {k}
        /\ UNCHANGED <<iter, cursor>>

\* dictEmpty, which would free what an iterator points to.
Clear ==
    /\ iter = Fresh
    /\ d' = NewDict /\ reply' = TRUE /\ scanDue' = {}
    /\ UNCHANGED <<iter, iterDue, iterSeen, cursor>>

\* dictExpand and dictTryExpand.
Resize(n) ==
    /\ d' = Expand(d, n)
    /\ UNCHANGED <<reply, walks>>

\* dictResize, when dict_can_resize lets it.
DictResize ==
    /\ ~Rehashing(d)
    /\ Resize(IF d.used[0] < 2 ^ InitialExp THEN 2 ^ InitialExp ELSE d.used[0])

\* dictRehashMilliseconds, one step at a time.
RehashMilliseconds ==
    /\ Rehashing(d) /\ d.pause = 0 /\ d' = Rehash(d)
    /\ UNCHANGED <<reply, walks>>

-----------------------------------------------------------------------------
(* A safe iterator.  One that has not been asked yet, or was released, is   *)
(* Fresh.                                                                  *)

\* The buckets dictNext has still to look at, in the order it does.
BucketsAhead ==
    {p \in {0, 1} \X Words :
        /\ p[2] \in DOMAIN d.ht[p[1]] /\ d.ht[p[1]][p[2]] # <<>>
        /\ \/ p[1] = iter.table /\ p[2] > iter.index
           \/ p[1] > iter.table /\ Rehashing(d)}

\* dictNext when it has an entry to return: the next one of the chain, or the
\* first of the next bucket that has one.
DictNext ==
    LET first == iter = Fresh
        ahead == BucketsAhead
        p == CHOOSE p \in ahead : \A q \in ahead : p[1] < q[1] \/ (p[1] = q[1] /\ p[2] <= q[2])
        at == IF iter.nextEntry # Nil THEN <<iter.table, iter.index>> ELSE p
        chain == d.ht[at[1]][at[2]]
        n == IF iter.nextEntry # Nil
             THEN CHOOSE i \in DOMAIN chain : chain[i] = iter.nextEntry ELSE 1
    IN  /\ iter.nextEntry # Nil \/ ahead # {}
        /\ iter' = [table |-> at[1], index |-> at[2], entry |-> chain[n],
                    nextEntry |-> IF n < Len(chain) THEN chain[n + 1] ELSE Nil]
        /\ d' = IF first THEN [d EXCEPT !.pause = @ + 1] ELSE d
        /\ iterDue' = (IF first THEN Elements(d) ELSE iterDue) \ {chain[n]}
        /\ iterSeen' = (IF first THEN {} ELSE iterSeen) \cup
                           (IF first \/ chain[n] \in iterDue THEN {chain[n]} ELSE {})
        /\ UNCHANGED <<reply, cursor, scanDue>>

\* dictNext returns NULL and the iterator is released.
DictNextEnd ==
    /\ iter # Fresh /\ iter.nextEntry = Nil /\ BucketsAhead = {}
    /\ iter' = Fresh /\ d' = [d EXCEPT !.pause = @ - 1]
    /\ UNCHANGED <<reply, iterDue, iterSeen, cursor, scanDue>>

\* dictReleaseIterator before the end.
ReleaseIterator ==
    /\ iter # Fresh
    /\ iter' = Fresh /\ d' = [d EXCEPT !.pause = @ - 1] /\ iterDue' = {} /\ iterSeen' = {}
    /\ UNCHANGED <<reply, cursor, scanDue>>
-----------------------------------------------------------------------------
(* dictScan.                                                               *)

Bit(v, i) == (v \div 2 ^ i) % 2

\* rev: the bits of a word in the opposite order.
Rev == [v \in Words |-> CHOOSE u \in Words : \A i \in 0 .. Bits - 1 : Bit(u, i) = Bit(v, Bits - 1 - i)]

\* Mutant of NextCursor: an ordinary counter.
NextCursorPlain(v, e) == (v + 1) % 2 ^ e

\* v |= ~mask, and the reversed cursor incremented.
NextCursor(v, e) ==
    LET unmasked == (v % 2 ^ e) + (2 ^ Bits - 2 ^ e)
    IN  Rev[(Rev[unmasked] + 1) % 2 ^ Bits]

\* The do loop over the expansions, in the table of exponent f, of a bucket of
\* the table of exponent e: the buckets it visits, and the cursor it ends with.
Expansions(v, e, f) ==
    LET Loop[u \in Words] ==
            LET next == NextCursor(u, f)
            IN  IF (next \div 2 ^ e) % 2 ^ (f - e) = 0 THEN <<{u % 2 ^ f}, next>>
                ELSE <<{u % 2 ^ f} \cup Loop[next][1], Loop[next][2]>>
    IN  Loop[v]

\* One call of dictScan: the bucket at the cursor, and while rehashing the one of
\* the smaller table and all its expansions in the larger.
Scan ==
    LET v == IF cursor = -1 THEN 0 ELSE cursor
        due == IF cursor = -1 THEN Elements(d) ELSE scanDue
        small == IF d.exp[0] > d.exp[1] THEN 1 ELSE 0
        one == Range(d.ht[0][v % Size(d.exp[0])])
        loop == Expansions(v, d.exp[small], d.exp[1 - small])
        both == Range(d.ht[small][v % Size(d.exp[small])])
                   \cup UNION {Range(d.ht[1 - small][i]) : i \in loop[1]}
        emitted == IF Total(d) = 0 THEN {} ELSE IF Rehashing(d) THEN both ELSE one
        next == IF Total(d) = 0 THEN 0
                ELSE IF Rehashing(d) THEN loop[2] ELSE NextCursor(v, d.exp[0])
    IN  /\ cursor' = IF next = 0 THEN -1 ELSE next
        /\ scanDue' = due \ emitted
        /\ UNCHANGED <<d, reply, iter, iterDue, iterSeen>>
-----------------------------------------------------------------------------
Next ==
    \/ \E k \in Keys : Add(k) \/ Find(k) \/ Delete(k)
    \/ GetRandomKey \/ Clear
    \/ \E n \in 1 .. 2 ^ Bits : Resize(n)
    \/ DictResize \/ RehashMilliseconds
    \/ DictNext \/ DictNextEnd \/ ReleaseIterator
    \/ Scan

Spec == Init /\ [][Next]_vars
FairSpec == Spec /\ WF_vars(Scan)
-----------------------------------------------------------------------------
(* Properties.                                                             *)

\* The tables are well formed: every key is once in one table, in the bucket its
\* hash selects; ht_used counts the chains; there is a second table exactly
\* while rehashing, and then the buckets before rehashidx are empty (on which
\* dictGetRandomKey and dictRehash rely, with an assertion); rehashing is
\* paused exactly while there is an iterator.
WellFormed ==
    /\ \A t \in {0, 1} :
          /\ d.exp[t] \in {-1} \cup InitialExp .. Bits
          /\ DOMAIN d.ht[t] = 0 .. Size(d.exp[t]) - 1
          /\ \A i \in DOMAIN d.ht[t] : \A k \in Range(d.ht[t][i]) : Bucket(k, d.exp[t]) = i
          /\ \A i \in DOMAIN d.ht[t] : Len(d.ht[t][i]) = Cardinality(Range(d.ht[t][i]))
          /\ d.used[t] = Cardinality(KeysOf(d, t))
    /\ KeysOf(d, 0) \cap KeysOf(d, 1) = {}
    /\ Rehashing(d) <=> d.exp[1] # -1
    /\ Rehashing(d) => /\ d.rehashidx \in 0 .. Size(d.exp[0])
                       /\ \A i \in 0 .. d.rehashidx - 1 : d.ht[0][i] = <<>>
    /\ d.pause = IF iter = Fresh THEN 0 ELSE 1

\* To its callers the dict is a set of keys, whatever rehash is going on.
KeySetOf == INSTANCE KeySet WITH elements <- Elements(d)
KeySetSpec == KeySetOf!Spec

\* "The function guarantees all elements present in the dictionary get returned
\* between the start and end of the iteration": when dictScan returns 0, every
\* key that was there all the time has been emitted, although the table grew,
\* shrank or was being rehashed between the calls.
ScanComplete == cursor = -1 => scanDue = {}

\* A safe iterator returns every key that stays in the dict exactly once, although
\* keys are added, the returned ones deleted, and a rehash started meanwhile.
IteratesOnce ==
    [][/\ (iter' # iter /\ iter' # Fresh /\ iter # Fresh) => iter'.entry \notin iterSeen
       /\ (iter # Fresh /\ iter' = Fresh) => iterDue' = {}]_vars

\* A scan whose caller goes on ends, although the table changes meanwhile.
ScanEnds == cursor # -1 ~> cursor = -1
=============================================================================
