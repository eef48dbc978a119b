----------------------------- MODULE MCCiTimer -----------------------------
(* Six one-shot timers that fill the heap far enough for every batching      *)
(* check, four that are stopped and restarted, and periodic ones among them. *)
EXTENDS CiTimer

Kind(interval, periodic, nobatch) == [interval |-> interval, periodic |-> periodic, nobatch |-> nobatch]
OneShot(interval) == Kind(interval, FALSE, FALSE)
Unused == OneShot(MaxNow + 1)
MCTimers == 1..6
MCPlans == {
  [kinds |-> <<OneShot(4), Kind(4, FALSE, TRUE), Kind(4, FALSE, TRUE), OneShot(6), OneShot(6), OneShot(6)>>,
   stops |-> 0],
  [kinds |-> <<OneShot(3), OneShot(4), OneShot(6), Kind(5, FALSE, TRUE), Unused, Unused>>, stops |-> 2],
  [kinds |-> <<Kind(3, TRUE, TRUE), OneShot(5), OneShot(6), Kind(4, TRUE, TRUE), Unused, Unused>>, stops |-> 1] }
=============================================================================
