----------------------------- MODULE MCDelivery -----------------------------
(* Two events: one that both consumers handle, caused by one member,        *)
(* and one that neither does.                                               *)
EXTENDS Delivery, TLC

CONSTANTS e1, e2, u1, audit

MCActor == e1 :> u1 @@ e2 :> None
MCRecorded == audit :> {e1, SubjectNotificationSent}
=============================================================================
