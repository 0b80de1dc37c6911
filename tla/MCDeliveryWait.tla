--------------------------- MODULE MCDeliveryWait ---------------------------
(***************************************************************************)
(* DeliveryWait for TLC.  The loop over several waits on one file is       *)
(* explored with the atomic observation of the named checks; the kinds     *)
(* whose observation takes many requests run one wait each.                *)
(***************************************************************************)
EXTENDS DeliveryWait

CONSTANTS t1, t2

MCTargets == [k \in Kind |-> IF k = "checks" THEN {t1, t2} ELSE {t1}]
MCMaxWaits == [k \in Kind |-> IF k = "checks" THEN 2 ELSE 1]
MCPacket == <<"a", "b", "c">>
MCMaxAttempts == <<2, 1>>
=============================================================================
