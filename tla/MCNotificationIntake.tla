------------------------- MODULE MCNotificationIntake -------------------------
(***************************************************************************)
(* A small instance of NotificationIntake: two requests that resolve       *)
(* different recipients for one event, a third one with another payload,   *)
(* and the scheduler's worker; d1 is routed, u1 and u2 are not.            *)
(***************************************************************************)
EXTENDS NotificationIntake

CONSTANTS d1, u1, u2, r1, r2, r3, scheduler, p, q

Drifting == [r \in Requests |->
  CASE r = r1 -> {d1, u1, u2} [] r = r2 -> {d1, u2} [] r = r3 -> {d1}]
Payloads == [r \in Requests |-> IF r = r3 THEN q ELSE p]

EveryRow == [w \in Workers |-> Deliveries]
OwnRows ==
  [w \in Workers |-> IF w \in Requests THEN Drifting[w] \intersect Deliveries
                                       ELSE Deliveries]

==============================================================================
