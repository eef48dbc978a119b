------------------------------ MODULE CiTimer ------------------------------
(***************************************************************************)
(* ci_timer.c: timers in an array heap, timers that expire within          *)
(* batch_step of one another chained to one heap slot, and a poll loop     *)
(* that runs their callbacks.                                              *)
(*                                                                         *)
(* A timer is a number, 0 the NULL pointer; positions count from 1, so the *)
(* parent of p is p \div 2.  Callbacks may call start, stop and restart.   *)
(***************************************************************************)
EXTENDS Integers, Sequences, FiniteSets, FiniteSetsExt, TLC

CONSTANTS Timers,       \* 1..n
          Plans,        \* [kinds, stops]: [interval, periodic, nobatch] of each timer, and a
                        \* bound on the calls of stop and restart
          Batch,        \* ci_timerheap.batch_step
          FirstCap,     \* 16: capacity of the first allocation
          Realloc,      \* outcomes of realloc
          Careful,      \* stop and restart only what delete can handle
          MaxNow        \* bound: the clock stops here

Kinds == [interval : Nat \ {0}, periodic : BOOLEAN, nobatch : BOOLEAN]
ASSUME TimerAssumption ==
  /\ IsFiniteSet(Timers) /\ Timers = 1..Cardinality(Timers)
  /\ Plans \subseteq [kinds : [Timers -> Kinds], stops : Nat]
  /\ Batch \in Nat /\ FirstCap \in Nat \ {0} /\ MaxNow \in Nat

VARIABLES now,          \* ci_now__cached
          kind,         \* what ci_timer_new and ci_timer_periodic_new made
          tm,           \* the timers' fields; link is the union of prev and heap_idx
          heap,         \* ci_timerheap.timers, up to size
          cap,          \* ci_timerheap.capacity
          poll,         \* where ci_timerheap_poll is
          due,          \* history: timers started or rescheduled and not fired or stopped since
          stops         \* calls of stop and restart left
vars == <<now, kind, tm, heap, cap, poll, due, stops>>

NULL == 0
Idx(p) == [is |-> "idx", v |-> p]
Prev(t) == [is |-> "prev", v |-> t]
ci_timer_new == [active |-> FALSE, inheap |-> FALSE, expires |-> 0, next |-> NULL, link |-> Prev(NULL)]
Idle == [pc |-> "idle", now |-> 0, min |-> NULL, cur |-> NULL]

Init ==
  /\ now = 0
  /\ \E p \in Plans : kind = p.kinds /\ stops = p.stops
  /\ tm = [t \in Timers |-> ci_timer_new]
  /\ heap = << >> /\ cap = 0
  /\ poll = Idle /\ due = {}

(* Doubles, from the first allocation on, until the timers fit.            *)
ensure_late(c, needed) == IF needed < c + 2 THEN c ELSE IF c = 0 THEN FirstCap ELSE 2 * c        \* mutant
ci_timerheap_ensure(c, needed) ==
  IF needed <= c THEN c ELSE IF c = 0 THEN FirstCap ELSE 2 * c

(***************************************************************************)
(* A heap with its timers.  Every exchange in the heap rewrites heap_idx   *)
(* of the timers that moved.                                               *)
(***************************************************************************)
Place(h, m) == [h |-> h, m |-> m]
Reindex(old, h, m) ==
  LET Moved(t) == {i \in DOMAIN h : h[i] = t /\ (i > Len(old) \/ old[i] # t)}
  IN  [t \in Timers |-> IF Moved(t) # {} THEN [m[t] EXCEPT !.link = Idx(Max(Moved(t)))] ELSE m[t]]
(* Overwrites position p by the last timer and shrinks.                    *)
CutLast(h, p) == [i \in 1..(Len(h) - 1) |-> h[IF i = p THEN Len(h) ELSE i]]
Swapped(h, p, q) == [i \in DOMAIN h |-> h[IF i = p THEN q ELSE IF i = q THEN p ELSE i]]

ci_timer_chain_drop(m, head, t) ==       \* mutant
  [m EXCEPT ![head].next = t, ![t].next = head, ![t].link = Prev(head)]
ci_timer_chain(m, head, t) ==
  IF m[head].next = NULL
  THEN [m EXCEPT ![head].next = t, ![t].next = head, ![t].link = Prev(head)]
  ELSE [m EXCEPT ![head].next = t, ![t].next = m[head].next, ![t].link = Prev(head),
                 ![m[head].next].link = Prev(t)]

(***************************************************************************)
(* ci_timerheap_insert.  The timer floats up from the new last position.   *)
(* At each position it first looks for a timer to be chained to, its       *)
(* parent or one of the three before it, and then whether to swap with its *)
(* parent: it comes to rest at the lowest ancestor of the last position    *)
(* where one of these ends the loop.                                       *)
(***************************************************************************)
Ancestors(n) == LET Up[k \in 0..n] == IF k = 0 THEN n ELSE Up[k - 1] \div 2
                IN  {Up[k] : k \in 0..n} \ {0}
(* The heap when the timer has floated to p: the ancestors below p came down. *)
Floated(h, t, p) ==
  LET n == Len(h) + 1
  IN  [i \in 1..n |-> IF i = p THEN t ELSE IF i \in Ancestors(n) /\ i > p THEN h[i \div 2] ELSE h[i]]
BatchOf(t) == IF kind[t].nobatch THEN 0 ELSE Batch
CloseSigned(a, b, batch) == a >= b \/ b - a <= batch  \* mutant
Close(a, b, batch) == (IF a > b THEN a - b ELSE b - a) <= batch
Candidates(p) == IF p > 5 THEN <<p \div 2, p - 1, p - 2, p - 3>> ELSE <<p \div 2>>
Mates(h, m, t, p) ==
  {k \in DOMAIN Candidates(p) : BatchOf(t) > 0 /\ p > 1
                                /\ Close(m[t].expires, m[h[Candidates(p)[k]]].expires, BatchOf(t))}
Rests(h, m, t, p) ==
  p = 1 \/ Mates(h, m, t, p) # {} \/ m[t].expires >= m[h[p \div 2]].expires
(* "right child smaller than left -- swap siblings", of p and the position before. *)
SwapLeft(h, m, p) ==
  IF p % 2 = 0 /\ m[h[p]].expires < m[h[p - 1]].expires THEN Swapped(h, p, p - 1) ELSE h
ci_timerheap_insert(h, m0, t) ==
  LET m == [m0 EXCEPT ![t].link = Idx(Len(h) + 1), ![t].inheap = TRUE]
      p == Max({a \in Ancestors(Len(h) + 1) : Rests(h, m, t, a)})
      up == Floated(h, t, p)
      mates == Mates(h, m, t, p)
      cut == CutLast(up, p)
      rest == SwapLeft(up, m, p)
  IN  IF mates # {}
      THEN Place(cut, ci_timer_chain(Reindex(h, cut, [m EXCEPT ![t].inheap = FALSE]), h[Candidates(p)[Min(mates)]], t))
      ELSE Place(rest, Reindex(h, rest, m))

(* No sift: the last timer goes where the deleted one was.  The prev of a  *)
(* chained timer, taken for an index, is beyond every heap.                *)
delete_tail(h, m, t) == Place(SubSeq(h, 1, Len(h) - 1), [m EXCEPT ![t].inheap = FALSE])   \* mutant
delete_stay(h, m, t) == Place(h, [m EXCEPT ![t].inheap = FALSE])   \* mutant
ci_timerheap_delete(h, m, t) ==
  LET p == IF m[t].link.is = "idx" THEN m[t].link.v ELSE Len(h) + 1
      cut == CutLast(h, p)
  IN  Place(cut, Reindex(h, cut, [m EXCEPT ![t].inheap = FALSE]))

(***************************************************************************)
(* What the program calls, between polls or from a callback.               *)
(***************************************************************************)
Client == poll.pc \in {"idle", "callback"}
Started(m, t) == [m EXCEPT ![t].expires = now + kind[t].interval, ![t].active = TRUE]
Put(h, m, t) ==
  LET q == ci_timerheap_insert(h, m, t)
  IN  /\ heap' = q.h /\ tm' = q.m
      /\ \E ok \in Realloc : cap' = IF ok THEN ci_timerheap_ensure(cap, Len(h) + 1) ELSE cap
ci_timer_start(t) ==
  /\ Client /\ ~tm[t].active /\ now + kind[t].interval <= MaxNow
  /\ Put(heap, Started(tm, t), t)
  /\ due' = due \union {t}
  /\ UNCHANGED <<now, kind, poll, stops>>
(* An active timer may have fired, may be chained, and may head a chain:   *)
(* delete looks at none of this.  (size 0 would wrap around.)              *)
Stoppable(t) ==
  /\ Client /\ tm[t].active /\ heap # << >>
  /\ stops > 0 /\ stops' = stops - 1
  /\ Careful => tm[t].inheap /\ tm[t].next = NULL
Deactivated(t) == [tm EXCEPT ![t].active = FALSE]
ci_timer_stop(t) ==
  /\ Stoppable(t)
  /\ LET q == ci_timerheap_delete(heap, Deactivated(t), t) IN heap' = q.h /\ tm' = q.m
  /\ due' = due \ {t}
  /\ UNCHANGED <<now, kind, cap, poll>>
ci_timer_restart(t) ==
  /\ Stoppable(t) /\ now + kind[t].interval <= MaxNow
  /\ LET q == ci_timerheap_delete(heap, Deactivated(t), t) IN Put(q.h, Started(q.m, t), t)
  /\ due' = due \union {t}
  /\ UNCHANGED <<now, kind, poll>>
(* ci_now_set and ci_now_update.                                           *)
ci_now_update == Client /\ now < MaxNow /\ now' = now + 1 /\ UNCHANGED <<kind, tm, heap, cap, poll, due, stops>>

(***************************************************************************)
(* ci_timerheap_poll, from callback to callback.  (A poll that finds       *)
(* nothing expired changes nothing.)                                       *)
(***************************************************************************)
PollBegin ==
  /\ poll.pc = "idle" /\ heap # << >> /\ tm[heap[1]].expires <= now
  /\ poll' = [Idle EXCEPT !.pc = "loop", !.now = now]
  /\ UNCHANGED <<now, kind, tm, heap, cap, due, stops>>
Expired == heap # << >> /\ tm[heap[1]].expires <= poll.now
PollEnd ==
  /\ poll.pc = "loop" /\ ~Expired /\ poll' = Idle
  /\ UNCHANGED <<now, kind, tm, heap, cap, due, stops>>
(* The root leaves the heap, and its callback starts.                      *)
PollHead ==
  /\ poll.pc = "loop" /\ Expired
  /\ LET q == ci_timerheap_delete(heap, tm, heap[1]) IN heap' = q.h /\ tm' = q.m
  /\ poll' = [poll EXCEPT !.pc = "callback", !.min = heap[1], !.cur = heap[1]]
  /\ due' = due \ {heap[1]}
  /\ UNCHANGED <<now, kind, cap, stops>>
(* A callback returns.  Only now is next read, and that of a chained timer *)
(* cleared, to find the next callback of the chain.                        *)
Following == tm[poll.cur].next
Unlinked == IF poll.cur = poll.min THEN tm ELSE [tm EXCEPT ![poll.cur].next = NULL]
ChainDone == Following = poll.min \/ (poll.cur = poll.min /\ Following = NULL)
PollChained ==
  /\ poll.pc = "callback" /\ ~ChainDone
  /\ tm' = Unlinked
  /\ poll' = IF Following = NULL THEN [poll EXCEPT !.pc = "crash"] ELSE [poll EXCEPT !.cur = Following]
  /\ due' = due \ {Following}
  /\ UNCHANGED <<now, kind, heap, cap, stops>>
(* The end of the chain; of all its timers the head alone is rescheduled.  *)
PollRearm ==
  /\ poll.pc = "callback" /\ ChainDone
  /\ poll' = [poll EXCEPT !.pc = "loop", !.min = NULL, !.cur = NULL]
  /\ LET m == [Unlinked EXCEPT ![poll.min].next = NULL]
     IN  IF kind[poll.min].periodic
         THEN /\ Put(heap, [m EXCEPT ![poll.min].expires = @ + kind[poll.min].interval], poll.min)
              /\ due' = due \union {poll.min}
         ELSE tm' = m /\ UNCHANGED <<heap, cap, due>>
  /\ UNCHANGED <<now, kind, stops>>

Poll == PollBegin \/ PollEnd \/ PollHead \/ PollChained \/ PollRearm
Program == \E t \in Timers : ci_timer_start(t) \/ ci_timer_stop(t) \/ ci_timer_restart(t)
Next == Program \/ Poll \/ ci_now_update
(* The event loop polls for ever, callbacks return, the clock goes on: the *)
(* weak fairness of Poll and of ci_now_update, spelled out (Poll alone     *)
(* changes poll, in each of its steps).                                    *)
PollPending == poll.pc # "idle" \/ (heap # << >> /\ tm[heap[1]].expires <= now)
ClockPending == Client /\ now < MaxNow
Fairness == /\ []<>~PollPending \/ []<><<poll' # poll>>_vars
            /\ []<>~ClockPending \/ []<><<now' # now>>_vars
Spec == Init /\ [][Next]_vars /\ Fairness

-----------------------------------------------------------------------------
(***************************************************************************)
(* Properties.                                                             *)
(***************************************************************************)
(* The fields have their types, the array is never longer than its buffer, *)
(* and poll follows no null pointer.                                       *)
TypeOK ==
  /\ now \in 0..MaxNow /\ kind \in {p.kinds : p \in Plans} /\ due \subseteq Timers
  /\ heap \in Seq(Timers) /\ Len(heap) <= cap
  /\ poll.pc \in {"idle", "loop", "callback"} /\ poll.min \in Timers \union {NULL} /\ poll.cur \in Timers \union {NULL}
  /\ \A t \in Timers : tm[t].next \in Timers \union {NULL} /\ tm[t].expires \in Nat

(* Along(t, head)[k]: the timer k steps of next after t on the chain of    *)
(* head, NULL behind its end.                                              *)
Along(t, head) ==
  LET At[k \in 0..Cardinality(Timers)] ==
        IF k = 0 THEN t
        ELSE LET u == At[k - 1]
                 n == IF u = NULL THEN NULL ELSE tm[u].next
             IN  IF n = head THEN NULL ELSE n
  IN  At
Steps == 1..Cardinality(Timers)
InHeap(t) == {i \in DOMAIN heap : heap[i] = t}
Chained(t) == {c \in (DOMAIN heap) \X Steps : Along(heap[c[1]], heap[c[1]])[c[2]] = t}
(* What the poll under way has still to fire.                              *)
Firing(t) == {k \in Steps : poll.pc = "callback" /\ Along(poll.cur, poll.min)[k] = t}

(* Insert, chain, delete and poll between them lose no timer and keep none *)
(* twice: a timer that is due is in one slot of the heap (and knows it) or *)
(* in one chain, and the others are nowhere.  An active periodic timer is  *)
(* due or in its callback (ci_timer.h: "fires at `expires`, then           *)
(* reschedules"), for periodic timers that are NOBATCH, so that none is    *)
(* ever in a chain.                                                        *)
InOnePlace ==
  /\ \A t \in Timers : kind[t].periodic /\ tm[t].active
                       => t \in due \/ (poll.pc = "callback" /\ t = poll.min)
  /\ \A t \in Timers :
       /\ Cardinality(InHeap(t)) + Cardinality(Chained(t)) + Cardinality(Firing(t)) = IF t \in due THEN 1 ELSE 0
       /\ tm[t].inheap <=> InHeap(t) # {}
       /\ \A i \in InHeap(t) : tm[t].link = Idx(i)
       /\ \A c \in Chained(t) : tm[t].link = Prev(Along(heap[c[1]], heap[c[1]])[c[2] - 1])

(* A callback runs only for a timer that is due: once for each start or    *)
(* rescheduling, and never after stop.                                     *)
Fires(t) == poll'.pc = "callback" /\ poll'.cur = t /\ poll'.cur # poll.cur
FiresOnlyDue == [][\A t \in Timers : Fires(t) => t \in due]_vars

(* Batching is the only reason to fire before the time, and by batch_step  *)
(* at most; a NOBATCH timer never fires early.                             *)
NotEarly == [][\A t \in Timers : Fires(t) => tm[t].expires <= poll.now + (IF kind[t].nobatch THEN 0 ELSE Batch)]_vars

(* Where every timer is one-shot, each that is started fires or is         *)
(* stopped, although delete leaves the heap out of order: once the clock   *)
(* allows no more starts, nothing stays due.                               *)
OneShots == \A t \in Timers : ~kind[t].periodic
AllFire == <>[](OneShots => due = {})
=============================================================================
