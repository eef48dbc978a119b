------------------------------- MODULE CiTree -------------------------------
(***************************************************************************)
(* The ordered map of ci_tree.c: a B-tree with at most MaxItems pairs in a *)
(* node.  A node is [leaf, items, kids]; items and kids are sequences.  An *)
(* index in the code counts from 0, a position in a sequence from 1.       *)
(*                                                                         *)
(* hint is the word that remembers, per depth, where the last search of a  *)
(* node ended; lookups change it too.  mem is the number of mallocs that   *)
(* succeed during a call.                                                  *)
(*                                                                         *)
(* A loop over the tree holds an iterator, a stack of nodes with an index. *)
(* While it runs the client looks keys up and replaces values, but does    *)
(* not insert or delete: a node on the stack stays where it is and is      *)
(* identified by the indices below it.                                     *)
(***************************************************************************)
EXTENDS Integers, Sequences, FiniteSets, SequencesExt

CONSTANTS
    Keys,       \* the keys, numbers: t->cmp is a total order
    Touched,    \* bound: the keys the client looks up, sets and deletes
    InLoop,     \* bound: the keys it looks up and sets in the body of a loop
    LoopHints,  \* bound: the bytes of the hint when a loop begins
    Vals,       \* [Keys -> sets of values], the values the client gives a key
    NULL,       \* no tree node, no value
    MaxItems,   \* CI_TREE_MAX_ITEMS
    HintBytes,  \* depths that have a byte in the hint (8 in the code)
    Prefilled,  \* the trees to start from, as sequences of keys to insert
    MaxMallocs  \* bound: mallocs that succeed in one call

ASSUME TreeAssumption ==
    /\ Keys \subseteq Int /\ Touched \subseteq Keys /\ InLoop \subseteq Touched
    /\ MaxItems \in Nat /\ MaxItems >= 3
    /\ HintBytes \in Nat \ {0} /\ MaxMallocs \in Nat

VARIABLES
    t,     \* the tree: root, count, height, hint
    call,  \* the last call and its arguments; no action depends on it
    ret,   \* what it returned
    view,  \* what a lookup of each key answers, recomputed after every call
    it     \* the iterator of the loop in progress, or NULL

vars == <<t, call, ret, view, it>>

MinItems == MaxItems \div 2

Node(leaf, items, kids) == [leaf |-> leaf, items |-> items, kids |-> kids]

NoHint == [d \in 0 .. HintBytes - 1 |-> 0]
NewTree == [root |-> NULL, count |-> 0, height |-> 0, hint |-> NoHint]

-----------------------------------------------------------------------------
\* Search

\* The binary search of ci_tree_bsearch_hint between two indices.
RECURSIVE BinSearch(_, _, _, _)
BinSearch(items, key, lo, hi) ==
    LET mid == (lo + hi) \div 2
        k   == items[mid + 1].key
    IN  CASE lo > hi              -> [i |-> lo, found |-> FALSE]
          [] lo <= hi /\ key = k  -> [i |-> mid, found |-> TRUE]
          [] lo <= hi /\ key < k  -> BinSearch(items, key, lo, mid - 1)
          [] lo <= hi /\ key > k  -> BinSearch(items, key, mid + 1, hi)

\* The hint notes where the binary search ended.
Noted(r, hint, depth) ==
    [i |-> r.i, found |-> r.found,
     hint |-> IF depth < HintBytes THEN [hint EXCEPT ![depth] = r.i] ELSE hint]

\* Mutant: the half below the hinted pair ends one pair too low.
SearchSkips(items, key, idx, hint, depth) ==
    Noted(BinSearch(items, key, 0, IF idx > 0 /\ key < items[idx + 1].key
                                     THEN idx - 2 ELSE Len(items) - 1), hint, depth)

\* Compare with the hinted pair first, except when its index is 0, and go on in
\* the half it leaves.  A hit on it keeps the hint.
SearchNear(items, key, idx, hint, depth) ==
    CASE idx <= 0 -> Noted(BinSearch(items, key, 0, Len(items) - 1), hint, depth)
      [] idx > 0 /\ key = items[idx + 1].key -> [i |-> idx, found |-> TRUE, hint |-> hint]
      [] idx > 0 /\ key > items[idx + 1].key ->
           Noted(BinSearch(items, key, idx + 1, Len(items) - 1), hint, depth)
      [] idx > 0 /\ key < items[idx + 1].key ->
           Noted(BinSearch(items, key, 0, idx - 1), hint, depth)

\* ci_tree_bsearch_hint: the index, clamped, is 0 at depths without a hint.
Search(items, key, hint, depth) ==
    LET top == Len(items) - 1
    IN  SearchNear(items, key, IF depth >= HintBytes THEN 0
                               ELSE IF hint[depth] < top THEN hint[depth] ELSE top, hint, depth)

\* ci_tree_find_kv: the value found, or NULL, and the new hint.
RECURSIVE Lookup(_, _, _, _)
LookupAt(node, key, depth, s) ==
    CASE s.found -> [val |-> node.items[s.i + 1].val, hint |-> s.hint]
      [] ~s.found /\ node.leaf -> [val |-> NULL, hint |-> s.hint]
      [] ~s.found /\ ~node.leaf -> Lookup(node.kids[s.i + 1], key, s.hint, depth + 1)
Lookup(node, key, hint, depth) ==
    IF node = NULL THEN [val |-> NULL, hint |-> hint]
    ELSE LookupAt(node, key, depth, Search(node.items, key, hint, depth))

-----------------------------------------------------------------------------
\* Insertion

\* ci_tree_node_split: the left half stays, then the median and the new right
\* node.
LeftHalf(n) ==
    LET mid == MaxItems \div 2
    IN  Node(n.leaf, SubSeq(n.items, 1, mid),
             IF n.leaf THEN <<>> ELSE SubSeq(n.kids, 1, mid + 1))
Median(n) == n.items[MaxItems \div 2 + 1]
RightHalf(n) ==
    LET mid == MaxItems \div 2
    IN  Node(n.leaf, SubSeq(n.items, mid + 2, Len(n.items)), SubSeq(n.kids, mid + 2, Len(n.kids)))

\* The full child at index i is split; ci_tree_node_shift_right makes room.
SplitKid(n, i) ==
    LET kid == n.kids[i + 1]
    IN  [n EXCEPT !.items = InsertAt(n.items, i + 1, Median(kid)),
                  !.kids  = InsertAt([n.kids EXCEPT ![i + 1] = LeftHalf(kid)],
                                     i + 2, RightHalf(kid))]

Outcome(res, node, hint, mem) == [res |-> res, node |-> node, hint |-> hint, mem |-> mem]

\* ci_tree_node_set, in three parts: after the call for the child with index i,
\* whose outcome is c; after the search s; the search.  "split": the node is full
\* and its parent must split it.
RECURSIVE NodeSet(_, _, _, _, _)
SetKid(n, item, depth, i, c) ==
    CASE c.res # "split" -> [c EXCEPT !.node = n]
      [] c.res = "split" /\ Len(n.items) = MaxItems -> [c EXCEPT !.node = n]
      [] c.res = "split" /\ Len(n.items) < MaxItems /\ c.mem = 0 -> Outcome("nomem", n, c.hint, 0)
      [] c.res = "split" /\ Len(n.items) < MaxItems /\ c.mem > 0 ->
           NodeSet(SplitKid(n, i), item, depth, c.hint, c.mem - 1)
SetAt(node, item, depth, mem, s) ==
    LET After(c) == SetKid([node EXCEPT !.kids[s.i + 1] = c.node], item, depth, s.i, c)
    IN  CASE s.found -> Outcome("replaced", [node EXCEPT !.items[s.i + 1] = item], s.hint, mem)
          [] ~s.found /\ node.leaf /\ Len(node.items) = MaxItems ->
               Outcome("split", node, s.hint, mem)
          [] ~s.found /\ node.leaf /\ Len(node.items) < MaxItems ->
               Outcome("inserted", [node EXCEPT !.items = InsertAt(@, s.i + 1, item)], s.hint, mem)
          [] ~s.found /\ ~node.leaf ->
               After(NodeSet(node.kids[s.i + 1], item, depth + 1, s.hint, mem))
NodeSet(node, item, depth, hint, mem) ==
    SetAt(node, item, depth, mem, Search(node.items, item.key, hint, depth))

\* ci_tree_set: whether it succeeded, and the tree.  A full root is split, and
\* the call starts over; new_root is freed when the second malloc fails.
RECURSIVE TreeSet(_, _, _)
SetRoot(u, item, r) ==
    CASE r.res = "replaced" -> [ok |-> TRUE, tree |-> u]
      [] r.res = "inserted" -> [ok |-> TRUE, tree |-> [u EXCEPT !.count = @ + 1]]
      [] r.res = "nomem" \/ (r.res = "split" /\ r.mem < 2) -> [ok |-> FALSE, tree |-> u]
      [] r.res = "split" /\ r.mem >= 2 ->
           TreeSet([u EXCEPT !.root = Node(FALSE, <<Median(@)>>, <<LeftHalf(@), RightHalf(@)>>),
                             !.height = @ + 1], item, r.mem - 2)
TreeSet(tr, item, mem) ==
    LET Into(r) == SetRoot([tr EXCEPT !.root = r.node, !.hint = r.hint], item, r)
    IN  IF tr.root # NULL THEN Into(NodeSet(tr.root, item, 0, tr.hint, mem))
        ELSE IF mem = 0 THEN [ok |-> FALSE, tree |-> tr]
        ELSE [ok |-> TRUE, tree |-> [tr EXCEPT !.root = Node(TRUE, <<item>>, <<>>),
                                               !.count = @ + 1, !.height = @ + 1]]

-----------------------------------------------------------------------------
\* Deletion

\* The pair between two neighbours rotates through the parent.  Leaves have no
\* child to hand over.
Ends(k, f(_)) == IF k = <<>> THEN <<>> ELSE f(k)
RotateRight(n, i, left, right) ==
    [n EXCEPT !.items[i + 1] = Last(left.items),
              !.kids[i + 1] = [left EXCEPT !.items = Front(@), !.kids = Ends(@, Front)],
              !.kids[i + 2] = Node(right.leaf, <<n.items[i + 1]>> \o right.items,
                                   Ends(left.kids, LAMBDA k : <<Last(k)>>) \o right.kids)]
RotateLeft(n, i, left, right) ==
    [n EXCEPT !.items[i + 1] = Head(right.items),
              !.kids[i + 1] = Node(left.leaf, Append(left.items, n.items[i + 1]),
                                   left.kids \o Ends(right.kids, LAMBDA k : <<Head(k)>>)),
              !.kids[i + 2] = [right EXCEPT !.items = Tail(@), !.kids = Ends(@, Tail)]]
Merge(n, i, left, right) ==
    LET both == Node(left.leaf, left.items \o <<n.items[i + 1]>> \o right.items,
                     left.kids \o right.kids)
    IN  [n EXCEPT !.items = RemoveAt(@, i + 1),
                  !.kids  = RemoveAt([@ EXCEPT ![i + 1] = both], i + 2)]

\* ci_tree_node_rebalance of the child at index i; the last one is taken with
\* the neighbour on its left.
RebalanceAt(n, i, left, right) ==
    CASE Len(left.items) + Len(right.items) < MaxItems -> Merge(n, i, left, right)
      [] /\ Len(left.items) + Len(right.items) >= MaxItems
         /\ Len(left.items) > Len(right.items) -> RotateRight(n, i, left, right)
      [] /\ Len(left.items) + Len(right.items) >= MaxItems
         /\ Len(left.items) <= Len(right.items) -> RotateLeft(n, i, left, right)
Rebalance(n, i) ==
    LET j == IF i = Len(n.items) THEN i - 1 ELSE i
    IN  RebalanceAt(n, j, n.kids[j + 1], n.kids[j + 2])

\* Mutant: a child that has become too small is left as it is.
NoRebalance(n, i) == n
\* The end of ci_tree_node_delete in a branch node.
Rebalanced(n, i) == IF Len(n.kids[i + 1].items) < MinItems THEN Rebalance(n, i) ELSE n

\* ci_tree_node_delete with CI_TREE_POPMAX: the node without its largest pair,
\* and that pair.
RECURSIVE PopMax(_)
PopMax(node) ==
    LET i == Len(node.items)
        After(c) == [c EXCEPT !.node = Rebalanced([node EXCEPT !.kids[i + 1] = c.node], i)]
    IN  IF node.leaf THEN [node |-> [node EXCEPT !.items = Front(@)], item |-> Last(node.items)]
        ELSE After(PopMax(node.kids[i + 1]))

\* ci_tree_node_delete with CI_TREE_DELKEY, after the search s.
RECURSIVE NodeDelete(_, _, _, _)
Deleted(done, n, hint) == [done |-> done, node |-> n, hint |-> hint]
DeleteAt(node, key, depth, s) ==
    LET Pop(c) == Rebalanced([node EXCEPT !.kids[s.i + 1] = c.node, !.items[s.i + 1] = c.item],
                             s.i)
        With(kid) == [node EXCEPT !.kids[s.i + 1] = kid]
        After(c) == [c EXCEPT !.node = IF c.done THEN Rebalanced(With(@), s.i) ELSE With(@)]
    IN  CASE node.leaf /\ ~s.found -> Deleted(FALSE, node, s.hint)
          [] node.leaf /\ s.found ->
               Deleted(TRUE, [node EXCEPT !.items = RemoveAt(@, s.i + 1)], s.hint)
          [] ~node.leaf /\ s.found -> Deleted(TRUE, Pop(PopMax(node.kids[s.i + 1])), s.hint)
          [] ~node.leaf /\ ~s.found ->
               After(NodeDelete(node.kids[s.i + 1], key, depth + 1, s.hint))
NodeDelete(node, key, depth, hint) ==
    DeleteAt(node, key, depth, Search(node.items, key, hint, depth))

\* An empty root goes away.
ShrinkRoot(tr) ==
    IF tr.root.items # <<>> THEN tr
    ELSE [tr EXCEPT !.root = IF @.leaf THEN NULL ELSE @.kids[1], !.height = @ - 1]

\* ci_tree_delete: whether the key was there, and the tree.
TreeDelete(tr, key) ==
    LET From(r) == [tr EXCEPT !.root = r.node, !.hint = r.hint]
        After(r) == [ok |-> r.done,
                   tree |-> IF r.done THEN [ShrinkRoot(From(r)) EXCEPT !.count = @ - 1]
                                      ELSE From(r)]
    IN  IF tr.root = NULL THEN [ok |-> FALSE, tree |-> tr]
        ELSE After(NodeDelete(tr.root, key, 0, tr.hint))

-----------------------------------------------------------------------------
\* Iteration.  The stack is the sequence of the indices of its entries: the
\* node above an entry with index j is the entry's child j (forward) or j + 1
\* (backward).

RECURSIVE Above(_, _, _)
Above(node, stack, rev) ==
    IF Len(stack) = 1 THEN node
    ELSE Above(node.kids[Head(stack) + (IF rev THEN 2 ELSE 1)], Tail(stack), rev)

\* Mutant: the children on the edge are not pushed.
PushTop(node, rev) == <<IF rev THEN Len(node.items) - 1 ELSE 0>>

\* ci_tree_iter_push_left, ci_tree_iter_push_right
RECURSIVE PushEdge(_, _)
PushEdge(node, rev) ==
    LET j == IF rev THEN Len(node.items) - 1 ELSE 0
    IN  IF node.leaf THEN <<j>>
        ELSE <<j>> \o PushEdge(node.kids[IF rev THEN j + 2 ELSE j + 1], rev)

\* The while loop of ci_tree_iter_forward and _backward: the stack after the
\* step and the pair it returns, or NULL when the stack is empty.
RECURSIVE IterStep(_, _, _)
IterAt(node, root, stack, rev) ==
    LET idx == Last(stack)
    IN  IF IF rev THEN idx < 0 ELSE idx = Len(node.items)
          THEN IterStep(root, Front(stack), rev)
          ELSE [stack |-> Append(Front(stack), IF rev THEN idx - 1 ELSE idx + 1)
                          \o (IF node.leaf THEN <<>>
                              ELSE PushEdge(node.kids[IF rev THEN idx + 1 ELSE idx + 2], rev)),
                kv |-> node.items[idx + 1]]
IterStep(root, stack, rev) ==
    IF stack = <<>> THEN [stack |-> <<>>, kv |-> NULL]
    ELSE IterAt(Above(root, stack, rev), root, stack, rev)

-----------------------------------------------------------------------------
\* The API

NoLoop == it = NULL
Lookups(tr) == [k \in Keys |-> Lookup(tr.root, k, tr.hint, 0).val]
Seen == view' = Lookups(t')

RECURSIVE Filled(_, _)
Filled(tr, keys) ==
    IF keys = <<>> THEN tr
    ELSE LET item == [key |-> Head(keys), val |-> CHOOSE v \in Vals[Head(keys)] : TRUE]
         IN  Filled(TreeSet(tr, item, MaxMallocs).tree, Tail(keys))

Init ==
    /\ \E s \in Prefilled : t = Filled(NewTree, s)
    /\ call = <<"other">> /\ ret = 1 /\ it = NULL
    /\ view = Lookups(t)

\* A call changed the tree, and returns.
Returns(r) ==
    /\ t' = r.tree /\ ret' = (IF r.ok THEN 1 ELSE 0)
    /\ Seen /\ UNCHANGED it

Set(k, v, mem) ==
    /\ NoLoop \/ (k \in InLoop /\ view[k] # NULL)
    /\ call' = <<"set", k, v>>
    /\ Returns(TreeSet(t, [key |-> k, val |-> v], mem))

\* ci_tree_get
Get(k) ==
    /\ NoLoop \/ k \in InLoop
    /\ call' = <<"other">>
    /\ Returns([ok |-> TRUE, tree |-> [t EXCEPT !.hint = Lookup(t.root, k, @, 0).hint]])

Delete(k) == NoLoop /\ call' = <<"delete", k>> /\ Returns(TreeDelete(t, k))

\* ci_tree_clear; the hint stays.
Clear ==
    /\ NoLoop /\ call' = <<"clear">>
    /\ Returns([ok |-> TRUE, tree |-> [NewTree EXCEPT !.hint = t.hint]])

\* A call that only moves the iterator.
Looks == call' = <<"other">> /\ ret' = 1 /\ UNCHANGED <<t, view>>

\* ci_tree_iter_new, ci_tree_iter_new_reverse
LoopBegin(rev) ==
    /\ NoLoop /\ \A d \in DOMAIN t.hint : t.hint[d] \in LoopHints
    /\ it' = [rev |-> rev, started |-> FALSE, stack |-> <<>>, keys |-> <<>>, done |-> FALSE]
    /\ Looks

\* ci_tree_iter_next; keys are the keys it has returned.
LoopStep ==
    LET Moved(r) == [it EXCEPT !.started = TRUE, !.stack = r.stack, !.done = r.kv = NULL,
                               !.keys = IF r.kv = NULL THEN @ ELSE Append(@, r.kv.key)]
    IN  /\ ~NoLoop /\ ~it.done
        /\ it' = Moved(IterStep(t.root, IF it.started \/ t.root = NULL THEN it.stack
                                        ELSE PushEdge(t.root, it.rev), it.rev))
        /\ Looks

\* The iterator is released, at the end of the loop or before.
LoopEnd == ~NoLoop /\ it' = NULL /\ Looks

Next ==
    \/ \E k \in Touched : Get(k) \/ Delete(k)
    \/ \E k \in Touched, mem \in 0 .. MaxMallocs : \E v \in Vals[k] : Set(k, v, mem)
    \/ Clear \/ LoopStep \/ LoopEnd
    \/ \E rev \in BOOLEAN : LoopBegin(rev)

Spec == Init /\ [][Next]_vars

-----------------------------------------------------------------------------
\* Properties

\* The pairs of a subtree in order: pair i after child i, before child i + 1.
RECURSIVE Flat(_)
Flat(node) ==
    IF node = NULL THEN <<>>
    ELSE IF node.leaf THEN node.items
    ELSE FoldLeft(LAMBDA acc, i : acc \o <<node.items[i]>> \o Flat(node.kids[i + 1]),
                  Flat(node.kids[1]), [i \in DOMAIN node.items |-> i])

\* A subtree of height h with at least min pairs in its top node.
RECURSIVE Shaped(_, _, _)
Shaped(node, h, min) ==
    /\ node.leaf <=> h = 1
    /\ Len(node.items) \in min .. MaxItems
    /\ Len(node.kids) = IF node.leaf THEN 0 ELSE Len(node.items) + 1
    /\ \A i \in DOMAIN node.kids : Shaped(node.kids[i], h - 1, MinItems - 1)

\* The shape ci_tree.c keeps: every leaf at depth height, no node above
\* CI_TREE_MAX_ITEMS pairs, none but the root below CI_TREE_MIN_ITEMS - 1 (what
\* ci_tree_node_split leaves on the right), the pairs strictly ascending, and
\* count their number; the hint is one index per depth.
TypeOK ==
    LET flat == Flat(t.root)
    IN  /\ IF t.root = NULL THEN t.height = 0 ELSE Shaped(t.root, t.height, 1)
        /\ t.count = Len(flat)
        /\ \A i \in 1 .. Len(flat) - 1 : flat[i].key < flat[i + 1].key
        /\ \A i \in DOMAIN flat : flat[i].key \in Keys /\ flat[i].val \in Vals[flat[i].key]
        /\ t.hint \in [0 .. HintBytes - 1 -> 0 .. MaxItems]
        /\ ret \in {0, 1}

\* A loop returns the keys of the tree in ascending order (descending for the
\* reverse iterator), each once, and has returned all of them when it is done;
\* lookups and replaced values in its body make no difference
\* (ci_tree_iter_forward, ci_tree_iter_backward).
LoopInOrder ==
    it # NULL =>
        LET flat  == Flat(t.root)
            keys  == [i \in DOMAIN flat |-> flat[i].key]
            order == IF it.rev THEN Reverse(keys) ELSE keys
        IN  /\ IsPrefix(it.keys, order)
            /\ it.done => it.keys = order

Dict == INSTANCE MapSpec WITH Key <- Keys, Val <- UNION {Vals[k] : k \in Keys},
                              NoVal <- NULL, dict <- view

\* Lookups with any history of hints answer as the map that ci_tree_set and
\* ci_tree_delete promise: a set that succeeds stores its own value under its
\* own key and touches no other, a failed one (no memory, between two splits
\* too) loses nothing, a delete removes its own key and no other and says
\* whether it was there.
TreeIsMap == [][Dict!DNext]_vars

\* What the run tells states by: all but the last call.
Visible == <<t, ret, view, it>>
=============================================================================
