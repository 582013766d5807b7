------------------------------ MODULE MCUdpScan ------------------------------
(***************************************************************************)
(* Small instances of the UDP scan for TLC.  One address has two ports to  *)
(* probe, and one target is probed from the port it is probed at; a batch  *)
(* has one target, so that the processor asks again.                       *)
(***************************************************************************)
EXTENDS UdpScan

CONSTANTS t1, t2, t3, a1, a2

MCAddr == t1 :> a1 @@ t2 :> a1 @@ t3 :> a2
MCSport == [t \in Targets |-> IF t = t2 THEN 53 ELSE 4000]
MCDport == [t \in Targets |-> IF t = t1 THEN 123 ELSE 53]

MCFiles == {<<t1, "malformed", t2>>, <<t1, t3>>}
=============================================================================
