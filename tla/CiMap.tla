------------------------------- MODULE CiMap -------------------------------
(***************************************************************************)
(* The hash map of ci_map.c: Robin Hood open addressing with backward-     *)
(* shift deletion, and a preindex byte per route that holds a routing      *)
(* value (0 = no key routed yet) and the longest probe of the route.       *)
(*                                                                         *)
(* A map is [buckets, used_limit, kvs, pre]; kvs[p] = [key, val] and       *)
(* pre[r] = [route, max].  used_limit counts down to the next resize.      *)
(*                                                                         *)
(* A 32-bit hash is used by its low bits (bucket) and by its top bits      *)
(* (preindex), as many of each as the table has; Lo and Hi give them for a *)
(* table of HashSpan buckets, the largest that is considered.              *)
(*                                                                         *)
(* Objects of the same content (Same) are one key in a map made by         *)
(* ci_map_ident_new and used through put / find / remove (Ident = TRUE);   *)
(* in pointer mode, set / get / delete, every object is a key of its own.  *)
(***************************************************************************)
EXTENDS Integers, Sequences, FiniteSets

CONSTANTS
    Keys,        \* the objects used as keys
    Vals,        \* [Keys -> sets of values], the values the client gives a key
    NULL,        \* the null pointer
    Same,        \* [Keys -> Keys], the representative of an object's content
    Setups       \* the maps considered, see setup

\* The sizes of a table are powers of two: each the double of another one.
ASSUME MapAssumption ==
    /\ NULL \notin Keys
    /\ Same \in [Keys -> Keys] /\ \A k \in Keys : Same[Same[k]] = Same[k]
    /\ \A s \in Setups :
        /\ s.obj \subseteq Keys /\ s.psl \in Nat /\ s.psl >= 4
        /\ s.min \in Nat \ {0} /\ s.span \in Nat /\ {s.min, s.span} \subseteq s.sizes
        /\ \A n \in s.sizes : /\ n \in s.min .. s.span /\ s.span % n = 0
                              /\ n = s.min \/ (n % 2 = 0 /\ n \div 2 \in s.sizes)
        /\ s.span > 65536 => 65536 \in s.sizes
        /\ \A o \in s.obj : {s.lo[o], s.hi[o]} \subseteq 0 .. s.span - 1
        /\ s.ident => \A o \in s.obj :
             Same[o] \in s.obj /\ s.lo[Same[o]] = s.lo[o] /\ s.hi[Same[o]] = s.hi[o]

VARIABLES
    setup,    \* the kind of map and of client: chosen once
    m,        \* the map
    call,     \* the last call and its arguments; no action depends on it
    ret,      \* what it returned
    view,     \* what a lookup of each key answers, recomputed after every call
    deleted   \* has an entry been deleted since the table was last built?

Obj        == setup.obj
Lo         == setup.lo          \* [Obj -> 0 .. HashSpan - 1], low bits of the hash
Hi         == setup.hi          \* and its top bits
Ident      == setup.ident       \* which of the two modes
Sizes      == setup.sizes       \* the bucket counts of a table,
HashSpan   == setup.span        \* bound: the largest of them
MinBuckets == setup.min         \* CI_MAP_MIN_BUCKETS
PslMax     == setup.psl         \* largest value of the 5-bit max field
Deletes    == setup.deletes     \* does the client delete keys?
Replaces   == setup.replaces    \* does it set a key that is there after it deleted another?

vars == <<setup, m, call, ret, view, deleted>>

Val == UNION {Vals[o] : o \in Keys}

Empty == [key |-> NULL, val |-> NULL]
NoRoute == [route |-> 0, max |-> 0]

\* Mutant: the table may fill up.
LimitFull(b) == b

\* used_limit of an empty table: buckets * CI_MAP_LOAD_FACTOR (0.8), truncated.
Limit(b) == (b * 4) \div 5

\* ci_map_init
NewMap(b) == [buckets |-> b, used_limit |-> Limit(b),
              kvs |-> [p \in 0 .. b - 1 |-> Empty],
              pre |-> [r \in 0 .. b - 1 |-> NoRoute]]

\* ci_map__round_up2 and the minimum of ci_map__resize.
RoundUp(n) == CHOOSE b \in Sizes : b >= n /\ \A c \in Sizes : c >= n => b <= c

\* The preindex is used by 16 bits of the hash at most (CI_MAP__PMASK_CAP).
Routes(t) == IF t.buckets <= 65536 THEN t.buckets ELSE 65536

Idx(t, o) == Lo[o] % t.buckets
PIdx(t, o) == Hi[o] \div (HashSpan \div Routes(t))

\* The slot d places ahead of slot p, and the number of places from p to q.
Ahead(t, p, d) == (p + d) % t.buckets
Distance(t, p, q) == (q + t.buckets - p) % t.buckets

\* ci_map__home_pos and ci_map__slot_psl
HomePos(t, o) == (Idx(t, o) + 4 * t.pre[PIdx(t, o)].route) % t.buckets
SlotPsl(t, p) == Distance(t, HomePos(t, t.kvs[p].key), p)

\* hashcmp(a, b)
KeyCmp(a, b) == IF Ident THEN Same[a] = Same[b] ELSE a = b

-----------------------------------------------------------------------------
\* Insertion

\* ci_map__choose_preindex: the first of 7 windows of 4 slots with more than 2
\* empty ones, else the first of the emptiest, else 1.
ChoosePreindex(t, idx) ==
    LET free(v) == Cardinality({j \in 0 .. 3 : t.kvs[(idx + 4 * v + j) % t.buckets].key = NULL})
        good    == {v \in 1 .. 7 : free(v) > 2}
        best    == {v \in 1 .. 7 : free(v) > 0 /\ \A w \in 1 .. 7 : free(w) <= free(v)}
        first(S) == CHOOSE v \in S : \A w \in S : v <= w
    IN  IF good # {} THEN first(good) ELSE IF best # {} THEN first(best) ELSE 1

\* Choose a route for the key's preindex if it has none.
Routed(t, o) ==
    IF t.pre[PIdx(t, o)].route # 0 THEN t
    ELSE [t EXCEPT !.pre[PIdx(t, o)].route = ChoosePreindex(t, Idx(t, o))]

\* Mutant: the longest probe is not kept.
RaiseMaxNever(t, r, psl) == t

\* Raise the longest probe of a route, clamped to 5 bits.
RaiseMax(t, r, psl) ==
    [t EXCEPT !.pre[r].max = IF psl > @ THEN (IF psl > PslMax THEN PslMax ELSE psl) ELSE @]

\* The pair key, val in hand, at distance psl from its home, and the table it
\* is to go to; done at the end of the loop.
Cursor(t, key, val, psl, done) ==
    [t |-> t, key |-> key, val |-> val, psl |-> psl, done |-> done]

\* Put it into a slot, with the longest probe of its route.
Stored(s, pos) ==
    [RaiseMax(s.t, PIdx(s.t, s.key), s.psl) EXCEPT !.kvs[pos] = [key |-> s.key, val |-> s.val]]

\* One probe of ci_map__insert_noresize.  An incumbent with a shorter probe is
\* displaced, and the loop goes on with it, unless this is one of the first four
\* probes (robin is FALSE).
Probe(s, pos, robin) ==
    LET cur == s.t.kvs[pos]
        displaced == robin /\ SlotPsl(s.t, pos) < s.psl
    IN  CASE s.done -> s
          [] ~s.done /\ cur.key = NULL ->
               Cursor([Stored(s, pos) EXCEPT !.used_limit = @ - 1], s.key, s.val, s.psl, TRUE)
          [] ~s.done /\ cur.key # NULL /\ cur.key = s.key ->
               Cursor([s.t EXCEPT !.kvs[pos].val = s.val], s.key, s.val, s.psl, TRUE)
          [] ~s.done /\ cur.key \notin {NULL, s.key} /\ displaced ->
               Cursor(Stored(s, pos), cur.key, cur.val, SlotPsl(s.t, pos) + 1, FALSE)
          [] ~s.done /\ cur.key \notin {NULL, s.key} /\ ~displaced ->
               Cursor(s.t, s.key, s.val, s.psl + 1, FALSE)

\* ci_map__insert_noresize.  The loop ends at an empty slot at the latest, so
\* after as many probes as there are slots it has ended.
InsertNoResize(t0, key, val) ==
    LET t == Routed(t0, key)
        loop[i \in 0 .. t.buckets] ==
          IF i = 0 THEN Cursor(t, key, val, 0, FALSE)
          ELSE Probe(loop[i - 1], Ahead(t, HomePos(t, key), i - 1), i > 4)
    IN  loop[t.buckets].t

\* Insert into t the pairs of another table, in slot order from a slot on.
Reinserted(t, old, first) ==
    LET filled[i \in 0 .. old.buckets] ==
          IF i = 0 THEN t
          ELSE LET u == filled[i - 1]
                   kv == old.kvs[i - 1]
               IN  IF kv.key = NULL \/ i <= first THEN u ELSE InsertNoResize(u, kv.key, kv.val)
    IN  filled[old.buckets]

\* Mutant: the first slot is skipped.
ResizeSkips(t, n) == Reinserted(NewMap(RoundUp(n)), t, 1)

\* ci_map__resize
Resize(t, n) == Reinserted(NewMap(RoundUp(n)), t, 0)

-----------------------------------------------------------------------------
\* Lookup.  Both return the slot of the key, or -1.

Probed(t, o, d) == Ahead(t, HomePos(t, o), d)

\* The first probe distance of a set, as a slot.
FirstSlot(t, o, D) ==
    IF D = {} THEN -1 ELSE Probed(t, o, CHOOSE d \in D : \A e \in D : d <= e)

\* ci_map_find_kv_inline: four slots unconditionally, then up to the route's
\* longest probe; when that is saturated, up to the first empty slot.
FindPtr(t, o) ==
    LET max  == t.pre[PIdx(t, o)].max
        span == IF max < 3 THEN 3 ELSE IF max = PslMax THEN t.buckets - 1 ELSE max
        stop(d) == max = PslMax /\ \E e \in 4 .. d - 1 : t.kvs[Probed(t, o, e)].key = NULL
    IN  IF t.pre[PIdx(t, o)].route = 0 THEN -1
        ELSE FirstSlot(t, o, {d \in 0 .. span : t.kvs[Probed(t, o, d)].key = o /\ ~stop(d)})

\* Mutant: the last slot of the probe is not compared.
FindIdentShort(t, o) ==
    LET max == t.pre[PIdx(t, o)].max
        stop(d) == \E e \in 0 .. d : t.kvs[Probed(t, o, e)].key = NULL
    IN  IF t.pre[PIdx(t, o)].route = 0 THEN -1
        ELSE FirstSlot(t, o, {d \in 0 .. max - 1 :
                                 ~stop(d) /\ KeyCmp(o, t.kvs[Probed(t, o, d)].key)})

\* ci_map_find_kv_hash: up to the route's longest probe or the first empty slot;
\* a saturated longest probe counts as 255.
FindIdent(t, o) ==
    LET max  == t.pre[PIdx(t, o)].max
        span == IF max < PslMax THEN max ELSE IF t.buckets > 256 THEN 255 ELSE t.buckets - 1
        stop(d) == \E e \in 0 .. d : t.kvs[Probed(t, o, e)].key = NULL
    IN  IF t.pre[PIdx(t, o)].route = 0 THEN -1
        ELSE FirstSlot(t, o, {d \in 0 .. span :
                                 ~stop(d) /\ KeyCmp(o, t.kvs[Probed(t, o, d)].key)})

Find(t, o) == IF Ident THEN FindIdent(t, o) ELSE FindPtr(t, o)

\* ci_map_get, ci_map_find
Get(t, o) == IF Find(t, o) = -1 THEN NULL ELSE t.kvs[Find(t, o)].val

-----------------------------------------------------------------------------
\* Deletion: pull back the entries behind the hole until an empty slot or an
\* entry at its home.
BackShift(t, pos) ==
    LET stops(n) == LET q == Ahead(t, pos, n + 1) IN t.kvs[q].key = NULL \/ SlotPsl(t, q) = 0
        moved == CHOOSE n \in 0 .. t.buckets - 1 : stops(n) /\ \A k \in 0 .. n - 1 : ~stops(k)
    IN  [t EXCEPT !.used_limit = @ + 1,
                  !.kvs = [p \in DOMAIN @ |-> IF Distance(t, pos, p) < moved THEN @[Ahead(t, p, 1)]
                                              ELSE IF Distance(t, pos, p) = moved THEN Empty
                                              ELSE @[p]]]

-----------------------------------------------------------------------------
\* The API

Lookups(t) ==
    [k \in Keys |-> IF k \in Obj /\ (Ident => Same[k] = k) THEN Get(t, k) ELSE NULL]

Init ==
    /\ setup \in Setups
    /\ m = NewMap(MinBuckets) /\ view = Lookups(m)
    /\ call = <<"other">> /\ ret = 1 /\ deleted = FALSE

\* The object that a content is looked up by: the key of a call.
Rep(o) == IF Ident THEN Same[o] ELSE o

\* ci_map_set (pointer mode) resizes before it knows whether the key is there;
\* ci_map_put (identity mode) looks the key up first.
Put(o, v) ==
    LET hit  == FindIdent(m, o)
        full == m.used_limit = 0
    IN  /\ call' = <<"set", Rep(o), v>>
        /\ deleted /\ ~Replaces => Find(m, o) = -1
        /\ IF Ident /\ hit # -1
             THEN m' = [m EXCEPT !.kvs[hit].val = v] /\ ret' = 1 /\ UNCHANGED deleted
             ELSE
               \/ /\ full => m.buckets * 2 <= HashSpan
                  /\ m' = InsertNoResize(IF full THEN Resize(m, m.buckets * 2) ELSE m, o, v)
                  /\ ret' = 1
                  /\ deleted' = (deleted /\ ~full)
               \/ full /\ m' = m /\ ret' = 0 /\ UNCHANGED deleted    \* calloc fails

\* ci_map_delete, ci_map_remove
Delete(o) ==
    /\ Deletes /\ call' = <<"delete", Rep(o)>>
    /\ IF Find(m, o) = -1 THEN m' = m /\ ret' = 0 /\ UNCHANGED deleted
       ELSE m' = BackShift(m, Find(m, o)) /\ ret' = 1 /\ deleted' = TRUE

Clear ==
    /\ call' = <<"clear">>
    /\ m' = NewMap(m.buckets) /\ ret' = 1 /\ deleted' = FALSE

\* ci_map_ensure_space, which does not say whether it could; ci_map_len is
\* Limit - used_limit.
EnsureSpace(cnt) ==
    LET len  == Limit(m.buckets) - m.used_limit
        want == ((len + cnt) * 5) \div 4 + 1
    IN  /\ call' = <<"other">> /\ ret' = 1
        /\ \/ m' = m /\ UNCHANGED deleted      \* there is room, or calloc fails
           \/ /\ m.used_limit < cnt /\ want <= HashSpan
              /\ m' = Resize(m, want) /\ deleted' = FALSE

Next ==
    /\ \/ \E o \in Obj : \E v \in Vals[o] \cap Obj : Put(o, v)
       \/ \E o \in Obj : Delete(o)
       \/ Clear
       \/ EnsureSpace(Limit(MinBuckets))
    /\ view' = Lookups(m')
    /\ UNCHANGED setup

Spec == Init /\ [][Next]_vars

-----------------------------------------------------------------------------
\* Properties

Used(t) == {p \in 0 .. t.buckets - 1 : t.kvs[p].key # NULL}

\* The shape of a map.  used_limit, an unsigned countdown, never wraps and is
\* what ci_map_len takes it for after any mix of inserts, displacements,
\* deletions and resizes; the table always keeps an empty slot, which ends the
\* probe loops.
TypeOK ==
    /\ m.buckets \in Sizes
    /\ m.used_limit \in 0 .. Limit(m.buckets)
    /\ m.kvs \in [0 .. m.buckets - 1 -> [key : Obj \cup {NULL}, val : Val \cup {NULL}]]
    /\ m.pre \in [0 .. m.buckets - 1 -> [route : 0 .. 7, max : 0 .. PslMax]]
    /\ \E p \in 0 .. m.buckets - 1 : m.kvs[p].key = NULL
    /\ Limit(m.buckets) - m.used_limit = Cardinality(Used(m))

\* A key has at most one entry, so iteration visits it once.
NoDuplicateKeys == \A p, q \in Used(m) : KeyCmp(m.kvs[p].key, m.kvs[q].key) => p = q

\* Every entry can be looked up: displacement, backward shift and the shared
\* route bytes never put a key out of reach of its probe.
EveryEntryFound == \A p \in Used(m) : Find(m, m.kvs[p].key) # -1

Abs == INSTANCE MapSpec WITH Key <- Keys, NoVal <- NULL, dict <- view

\* Lookups answer like a dictionary.  A set that succeeds changes the answer for
\* its own key, to its own value, and no other answer; one that fails, and a
\* resize, change none; a delete removes the answer for its own key, no other,
\* and says whether there was one.
RefinesMap == Abs!DSpec

\* What the runs tell states by: all but the last call.
Visible == <<setup, m, ret, view, deleted>>
=============================================================================
