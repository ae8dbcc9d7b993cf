----------------------------- MODULE MCPortMap ------------------------------
(* Instances of PortMap for TLC.                                           *)
EXTENDS PortMap, TLC

(* The generator's numbers that are not a marker: 7, 11, 15, ...           *)
OrdinaryPorts(n) == {4 * k + 3 : k \in 1..n}
FourPorts == OrdinaryPorts(4)
=============================================================================
