----------------------- MODULE MCNotificationDelivery -----------------------
(* Instances of NotificationDelivery for TLC: replicas e1 and e2 run the    *)
(* worker cycle as w1 and w2, and h1 is an HTTP request served by e1.       *)
EXTENDS NotificationDelivery, TLC

CONSTANTS e1, e2, w1, w2, h1

MCEngineOf == [p \in Procs |-> IF p = w2 THEN e2 ELSE e1]
MCDelays == <<1>>

NtfSymmetry == Permutations(Notifications)

=============================================================================
