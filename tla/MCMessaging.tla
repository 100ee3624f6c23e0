---------------------------- MODULE MCMessaging ----------------------------
(* Values for the messaging layer: two runs, two workers, two exchanges.   *)
EXTENDS Messaging, TLC
CONSTANTS p1, p2, s1, h1, k1, email, dashboard, q1, w1, w2, x1, x2

(* One milestone, of the second day; the second retry waits a tick.        *)
DueDay == k1 :> 1
Backoff  == <<0, 1>>
=============================================================================
