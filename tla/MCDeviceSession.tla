-------------------------- MODULE MCDeviceSession --------------------------
(***************************************************************************)
(* Instances of DeviceSession for TLC.                                     *)
(***************************************************************************)
EXTENDS DeviceSession

CONSTANTS p1, p2, p3, c1, c2, c3, h1, h2, d1, d2

AllGood == [c \in Client |-> "good"]
OneHost == [c \in Client |-> h1]
OneDevice == [h \in Host |-> d1]
OneClient == [p \in Proc |-> c1]

\* Each goroutine on an alias of its own, the last one for another switch.
ClientPerProc == [p \in Proc |-> CASE p = p1 -> c1 [] p = p2 -> c2 [] p = p3 -> c3]
LastElsewhere == [c \in Client |-> IF c = c3 THEN h2 ELSE h1]
DevicePerHost == [h \in Host |-> IF h = h1 THEN d1 ELSE d2]

NoneElsewhere == [c \in Client |-> IF c = c3 THEN "none" ELSE "good"]
=============================================================================
