----------------------------- MODULE MCNetwork ------------------------------
(* Small instances of Network for TLC. *)
EXTENDS Network, TLC

CONSTANTS c1, c2, c3

\* Containers with one, two and no ports.
PortsThree == (c1 :> <<80>>) @@ (c2 :> <<80, 22>>) @@ (c3 :> <<>>)
MapFaults == {"-A"}
Hosts == {MapFaults, Command \ {"-D"}, Command}
=============================================================================
