------------------------------- MODULE TgMem -------------------------------
(***************************************************************************)
(* The slot allocator of tgmemlib, for one object type: a chain of arenas  *)
(* (heads[tag], newest first) placed by the probe strategy, one stripe per *)
(* arena.  The types are independent of each other: each has its own chain *)
(* and its own stripe counter.                                             *)
(*                                                                         *)
(* An arena is [bump, freelist, live]: the number of slots ever handed out *)
(* by the bump pointer, the LIFO list of returned slots, live_count.       *)
(*                                                                         *)
(* blocks is the client's side: what it got from tg_alloc and              *)
(* tg_alloc_linked and the allocator has not taken back.  freeing is the   *)
(* stack of tg_free calls that are inside the type's destructor; the       *)
(* destructor may free other objects, allocate, and for a block of several *)
(* slots it calls tg_free_linked once.                                     *)
(*                                                                         *)
(* The loops of tg_arena_bubblesort_freelist and tg_cleanup are steps of   *)
(* their own; op is the call in progress, and nothing else runs meanwhile. *)
(***************************************************************************)
EXTENDS Integers, Sequences, FiniteSets, Functions

CONSTANTS
    Cap,        \* tg_arena_capacity: slots in one arena
    MaxStripes, \* max_stripes of the probe strategy
    MaxCount,   \* bound: most slots asked of tg_alloc_linked
    MaxDepth    \* bound: nesting of destructors

ASSUME SizeAssumption ==
    /\ Cap \in Nat \ {0} /\ MaxStripes \in Nat \ {0}
    /\ MaxCount \in Nat /\ MaxDepth \in Nat

VARIABLES chain, ar, stripe_next, blocks, freeing, op

vars == <<chain, ar, stripe_next, blocks, freeing, op>>

Stripe == 0 .. MaxStripes - 1
Slot == 0 .. Cap - 1
Arena == [bump : 0 .. Cap, freelist : Seq(Slot), live : Int]
Block == [a : Stripe, slot : Slot, n : 1 .. Cap]

Idle == [kind |-> "idle"]
Sorting(n, i, pos, swapped) ==
    [kind |-> "sort", n |-> n, i |-> i, pos |-> pos, swapped |-> swapped]
Cleaning(i) == [kind |-> "clean", i |-> i]

\* tg_arena_new
FreshArena == [bump |-> 0, freelist |-> <<>>, live |-> 0]

Slots(b) == b.slot .. b.slot + b.n - 1

\* tg_allocator_register_type: the first arena is mapped.
Init ==
    /\ \E s \in Stripe : chain = <<s>> /\ stripe_next = s + 1
    /\ ar = [s \in Stripe |-> FreshArena]
    /\ blocks = {} /\ freeing = <<>> /\ op = Idle

-----------------------------------------------------------------------------
\* Mutant: the counter does not pass the stripe that was taken.
MapArenaSame(s) ==
    /\ s \in Stripe /\ s >= stripe_next
    /\ stripe_next' = s
    /\ chain' = <<s>> \o chain

\* probe_arena_mmap: the first stripe at or after stripe_next that nothing
\* else occupies; a stripe is never tried again.
MapArena(s) ==
    /\ s \in Stripe /\ s >= stripe_next
    /\ stripe_next' = s + 1
    /\ chain' = <<s>> \o chain

\* No stripe is left, or all the rest are occupied.
MapFails == stripe_next' = MaxStripes

\* Remove the elements i .. i + n - 1 of a list.
RemoveRun(s, i, n) ==
    [j \in 1 .. Len(s) - n |-> IF j < i THEN s[j] ELSE s[j + n]]

\* Mutants: the list behind the run is not linked again; a list of slots
\* counts as one.
TakeRunCut(a, k, n) == [a EXCEPT !.freelist = SubSeq(a.freelist, 1, k - 1), !.live = a.live + n]
GiveBackOne(a, list) == [a EXCEPT !.freelist = list \o a.freelist, !.live = a.live - 1]

\* n slots leave an arena, from position k of the freelist or from the bump
\* pointer; a list of slots comes back.
TakeRun(a, k, n) == [a EXCEPT !.freelist = RemoveRun(a.freelist, k, n), !.live = a.live + n]
TakeBump(a, n) == [a EXCEPT !.bump = a.bump + n, !.live = a.live + n]
GiveBack(a, list) == [a EXCEPT !.freelist = list \o a.freelist, !.live = a.live - Len(list)]

\* Mutant: off by one at the end of the arena.
CanAllocPast(a) == a.freelist # <<>> \/ a.bump <= Cap

\* tg_arena_alloc: the freelist first, then the bump pointer.
CanAlloc(a) == a.freelist # <<>> \/ a.bump < Cap
AllocSlot(a) == IF a.freelist # <<>> THEN a.freelist[1] ELSE a.bump
AfterAlloc(a) ==
    IF a.freelist # <<>> THEN TakeRun(a, 1, 1) ELSE TakeBump(a, 1)

NewBlock(s, slot, n) == blocks' = blocks \cup {[a |-> s, slot |-> slot, n |-> n]}

\* tg_alloc looks at the head arena only.
AllocHead ==
    LET h == chain[1]
    IN  /\ op = Idle /\ CanAlloc(ar[h])
        /\ NewBlock(h, AllocSlot(ar[h]), 1)
        /\ ar' = [ar EXCEPT ![h] = AfterAlloc(ar[h])]
        /\ UNCHANGED <<chain, stripe_next, freeing, op>>

AllocNewArena ==
    /\ op = Idle /\ ~CanAlloc(ar[chain[1]])
    /\ \E s \in Stripe :
          /\ MapArena(s)
          /\ NewBlock(s, 0, 1)
          /\ ar' = [ar EXCEPT ![s] = AfterAlloc(FreshArena)]
    /\ UNCHANGED <<freeing, op>>

AllocFails ==
    /\ op = Idle /\ ~CanAlloc(ar[chain[1]])
    /\ MapFails
    /\ UNCHANGED <<chain, ar, blocks, freeing, op>>

-----------------------------------------------------------------------------
\* tg_alloc_linked(n slots)

LinkedBegin(n) ==
    /\ op = Idle
    /\ op' = Sorting(n, 1, 1, FALSE)
    /\ UNCHANGED <<chain, ar, stripe_next, blocks, freeing>>

SortArena == chain[op.i]
SortList == ar[SortArena].freelist

Swap(a, p) ==
    [a EXCEPT !.freelist = [a.freelist EXCEPT ![p] = a.freelist[p + 1],
                                              ![p + 1] = a.freelist[p]]]

\* One comparison of a bubble-sort pass.
SortStep ==
    LET f == SortList
        p == op.pos
    IN  /\ op.kind = "sort" /\ p < Len(f)
        /\ IF f[p] > f[p + 1]
             THEN /\ ar' = [ar EXCEPT ![SortArena] = Swap(ar[SortArena], p)]
                  /\ op' = Sorting(op.n, op.i, p + 1, TRUE)
             ELSE /\ op' = Sorting(op.n, op.i, p + 1, op.swapped)
                  /\ UNCHANGED ar
        /\ UNCHANGED <<chain, stripe_next, blocks, freeing>>

PassDone == op.kind = "sort" /\ op.pos >= Len(SortList)

\* Mutant: slots in address order pass for adjacent ones.
RunStartsOrdered(f, n) ==
    LET w == IF n < 2 THEN 2 ELSE n
    IN  {k \in 1 .. Len(f) - w + 1 : \A j \in 0 .. w - 1 : f[k + j] >= f[k] + j}

\* tg_freelist_find_run: the list positions where n adjacent slots in address
\* order start.  The scan compares neighbours, so it needs two even for n = 1.
RunStarts(f, n) ==
    LET w == IF n < 2 THEN 2 ELSE n
    IN  {k \in 1 .. Len(f) - w + 1 : \A j \in 0 .. w - 1 : f[k + j] = f[k] + j}

LinkedFromList ==
    LET f == SortList
        s == SortArena
    IN  /\ PassDone
        /\ \E k \in RunStarts(f, op.n) :
              /\ \A j \in RunStarts(f, op.n) : k <= j
              /\ NewBlock(s, f[k], op.n)
              /\ ar' = [ar EXCEPT ![s] = TakeRun(ar[s], k, op.n)]
        /\ op' = Idle
        /\ UNCHANGED <<chain, stripe_next, freeing>>

\* Mutant: swapped is not reset before the next pass.
SortAgainSwapped ==
    /\ PassDone /\ RunStarts(SortList, op.n) = {} /\ op.swapped
    /\ op' = Sorting(op.n, op.i, 1, TRUE)
    /\ UNCHANGED <<chain, ar, stripe_next, blocks, freeing>>

SortAgain ==
    /\ PassDone /\ RunStarts(SortList, op.n) = {} /\ op.swapped
    /\ op' = Sorting(op.n, op.i, 1, FALSE)
    /\ UNCHANGED <<chain, ar, stripe_next, blocks, freeing>>

\* The freelist is sorted and has no run.
Sorted == PassDone /\ RunStarts(SortList, op.n) = {} /\ ~op.swapped

LinkedFromBump ==
    LET s == SortArena
    IN  /\ Sorted /\ ar[s].bump + op.n <= Cap
        /\ NewBlock(s, ar[s].bump, op.n)
        /\ ar' = [ar EXCEPT ![s] = TakeBump(ar[s], op.n)]
        /\ op' = Idle
        /\ UNCHANGED <<chain, stripe_next, freeing>>

\* This arena cannot serve the request: walk to the next older one.
LinkedNextArena ==
    /\ Sorted /\ ar[SortArena].bump + op.n > Cap /\ op.i < Len(chain)
    /\ op' = Sorting(op.n, op.i + 1, 1, FALSE)
    /\ UNCHANGED <<chain, ar, stripe_next, blocks, freeing>>

\* None can: map a new arena and use its bump pointer, if n slots fit at all.
LinkedNewArena ==
    /\ Sorted /\ ar[SortArena].bump + op.n > Cap /\ op.i = Len(chain)
    /\ \E s \in Stripe :
          /\ MapArena(s)
          /\ IF op.n <= Cap
               THEN /\ NewBlock(s, 0, op.n)
                    /\ ar' = [ar EXCEPT ![s] = TakeBump(FreshArena, op.n)]
               ELSE /\ ar' = [ar EXCEPT ![s] = FreshArena]
                    /\ UNCHANGED blocks
    /\ op' = Idle
    /\ UNCHANGED freeing

\* Mutant: no new arena is tried.
LinkedGivesUp ==
    /\ Sorted /\ ar[SortArena].bump + op.n > Cap /\ op.i = Len(chain)
    /\ op' = Idle
    /\ UNCHANGED <<chain, ar, stripe_next, blocks, freeing>>

LinkedFails ==
    /\ Sorted /\ ar[SortArena].bump + op.n > Cap /\ op.i = Len(chain)
    /\ MapFails
    /\ op' = Idle
    /\ UNCHANGED <<chain, ar, blocks, freeing>>

-----------------------------------------------------------------------------
\* tg_free

\* The call enters the destructor, perhaps from another object's destructor.
FreeBegin(b) ==
    /\ op = Idle /\ Len(freeing) < MaxDepth
    /\ b \in blocks /\ b \notin Range(freeing)
    /\ freeing' = <<b>> \o freeing
    /\ UNCHANGED <<chain, ar, stripe_next, blocks, op>>

\* tg_free_linked: the destructor returns the slots after the first, in
\* ascending order.
TailSlots(b) == [j \in 1 .. b.n - 1 |-> b.slot + b.n - j]
FirstSlot(b) == [b EXCEPT !.n = 1]

FreeLinked ==
    LET b == freeing[1]
    IN  /\ op = Idle /\ freeing # <<>> /\ b.n > 1
        /\ ar' = [ar EXCEPT ![b.a] = GiveBack(ar[b.a], TailSlots(b))]
        /\ blocks' = (blocks \ {b}) \cup {FirstSlot(b)}
        /\ freeing' = [freeing EXCEPT ![1] = FirstSlot(b)]
        /\ UNCHANGED <<chain, stripe_next, op>>

\* The destructor has returned: push the slot on the freelist.
FreeEnd ==
    LET b == freeing[1]
    IN  /\ op = Idle /\ freeing # <<>> /\ b.n = 1
        /\ ar' = [ar EXCEPT ![b.a] = GiveBack(ar[b.a], <<b.slot>>)]
        /\ blocks' = blocks \ {b}
        /\ freeing' = RemoveRun(freeing, 1, 1)
        /\ UNCHANGED <<chain, stripe_next, op>>

-----------------------------------------------------------------------------
\* tg_cleanup, called between two operations of the program

CleanupBegin ==
    /\ op = Idle /\ freeing = <<>>
    /\ op' = Cleaning(2)
    /\ UNCHANGED <<chain, ar, stripe_next, blocks, freeing>>

CleanupStep ==
    /\ op.kind = "clean" /\ op.i <= Len(chain)
    /\ IF ar[chain[op.i]].live = 0
         THEN chain' = RemoveRun(chain, op.i, 1) /\ UNCHANGED op
         ELSE op' = Cleaning(op.i + 1) /\ UNCHANGED chain
    /\ UNCHANGED <<ar, stripe_next, blocks, freeing>>

\* Mutant: live_count of the head is not looked at.
CleanupEndAlways ==
    /\ op.kind = "clean" /\ op.i > Len(chain)
    /\ chain' = IF Len(chain) > 1 THEN RemoveRun(chain, 1, 1) ELSE chain
    /\ op' = Idle
    /\ UNCHANGED <<ar, stripe_next, blocks, freeing>>

\* The head goes last, and only if another arena stays.
CleanupEnd ==
    /\ op.kind = "clean" /\ op.i > Len(chain)
    /\ chain' = IF ar[chain[1]].live = 0 /\ Len(chain) > 1
                  THEN RemoveRun(chain, 1, 1) ELSE chain
    /\ op' = Idle
    /\ UNCHANGED <<ar, stripe_next, blocks, freeing>>

-----------------------------------------------------------------------------
InCall ==
    \/ SortStep \/ LinkedFromList \/ SortAgain \/ LinkedFromBump
    \/ LinkedNextArena \/ LinkedNewArena \/ LinkedFails
    \/ CleanupStep \/ CleanupEnd

Next ==
    \/ AllocHead \/ AllocNewArena \/ AllocFails
    \/ \E n \in 1 .. MaxCount : LinkedBegin(n)
    \/ \E b \in blocks : FreeBegin(b)
    \/ FreeLinked \/ FreeEnd \/ CleanupBegin
    \/ InCall

\* A call in progress is straight-line code and runs on.
Spec == Init /\ [][Next]_vars /\ WF_vars(InCall)

-----------------------------------------------------------------------------
\* Properties

In(s) == {b \in blocks : b.a = s}
HeldBy(B) == UNION {Slots(b) : b \in B}

\* Shapes of the state; the call in progress is at an arena of the chain.
TypeOK ==
    /\ chain \in Seq(Stripe) /\ chain # <<>>
    /\ ar \in [Stripe -> Arena]
    /\ stripe_next \in 0 .. MaxStripes
    /\ blocks \subseteq Block
    /\ freeing \in Seq(Block)
    /\ \/ op = Idle
       \/ /\ op \in [kind : {"sort"}, n : 1 .. MaxCount, i : Nat \ {0}, pos : Nat \ {0},
                     swapped : BOOLEAN]
          /\ op.i <= Len(chain)
       \/ op \in [kind : {"clean"}, i : Nat \ {0, 1}]

\* An arena a and the blocks B in it: two blocks share no slot, no slot of a
\* block is on the freelist, the freelist has no slot twice, and all stay
\* below the bump pointer.
Owned(a, B) ==
    /\ \A b \in B : /\ b.slot + b.n <= a.bump
                    /\ \A i \in DOMAIN a.freelist : a.freelist[i] \notin Slots(b)
    /\ \A b, c \in B : b # c => Slots(b) \cap Slots(c) = {}
    /\ \A i, j \in DOMAIN a.freelist : i # j => a.freelist[i] # a.freelist[j]
    /\ \A i \in DOMAIN a.freelist : a.freelist[i] < a.bump

\* Every slot below the bump pointer is held or on the freelist.
Complete(a, B) == \A x \in 0 .. a.bump - 1 : x \in HeldBy(B) \/ x \in Range(a.freelist)

Counted(a, B) == a.live = Cardinality(HeldBy(B))

\* A slot has one owner, and it is mapped: neither a tg_alloc nor the run
\* search of tg_alloc_linked hands out memory that is in use, whatever was
\* freed in whatever order, from nested destructors too.
OneOwner ==
    /\ \A b \in blocks : b.a \in Range(chain)
    /\ \A s \in Range(chain) : Owned(ar[s], In(s))

\* live_count, which tg_cleanup trusts before it unmaps an arena, is the
\* number of slots that clients hold in it.
LiveCount == \A s \in Range(chain) : Counted(ar[s], In(s))

\* Nothing leaks: no slot is forgotten by both the freelist and the clients.
NoSlotLost == \A s \in Range(chain) : Complete(ar[s], In(s))

\* An arena is in the chain once and its stripe is behind the counter; every
\* tg_free in progress is about a block of its own.
ChainAndStack ==
    /\ \A i, j \in DOMAIN chain : i # j => chain[i] # chain[j]
    /\ \A i \in DOMAIN chain : chain[i] < stripe_next
    /\ \A i \in DOMAIN freeing : freeing[i] \in blocks
    /\ \A i, j \in DOMAIN freeing : i # j => freeing[i] # freeing[j]

\* The inductive invariant of the proofs.
IInv == TypeOK /\ ChainAndStack /\ OneOwner /\ LiveCount /\ NoSlotLost

\* tg_cleanup takes no arena that a client holds slots of, and always leaves
\* one: an arena leaves the chain only when it is empty.
CleanupKeepsLive ==
    [][/\ chain' # <<>>
       /\ \A s \in Range(chain) : s \notin Range(chain') => In(s) = {}]_vars

\* The bubble sort and the walks over the chain end: a call returns.
CallsReturn == (op # Idle) ~> (op = Idle)

\* A tg_alloc_linked that fits in an arena fails only for want of a stripe:
\* when the freelists and bump pointers of the whole chain have no room for
\* it, a new arena is mapped and serves it.
LinkedServes ==
    [][op.kind = "sort" /\ op' = Idle /\ blocks' = blocks =>
          op.n > Cap \/ stripe_next' = MaxStripes]_vars
=============================================================================
