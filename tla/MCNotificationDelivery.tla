------------------------ MODULE MCNotificationDelivery ------------------------
(***************************************************************************)
(* Small instances of NotificationDelivery: the scheduler's worker sees    *)
(* every row, the intake worker the rows of its event.                     *)
(***************************************************************************)
EXTENDS NotificationDelivery

CONSTANTS d1, d2, scheduler, intake

OneEvent == [w \in Workers |-> IF w = scheduler THEN Deliveries ELSE {d1}]

ASSUME {d1} \subseteq Deliveries /\ scheduler \in Workers

==============================================================================
