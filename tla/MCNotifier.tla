----------------------------- MODULE MCNotifier -----------------------------
(* Two alerts and a pool of one thread, so that one of them has to queue.  *)
EXTENDS Notifier

CONSTANTS a1, a2

MCAlerts == {a1, a2}
=============================================================================
