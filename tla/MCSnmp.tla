------------------------------- MODULE MCSnmp -------------------------------
(* Small instances of SnmpRound for TLC. *)
EXTENDS SnmpRound, TLC

CONSTANTS a, b, c, h1, h2, ip1, ip2

\* Two names of one address, and a second address under the name of one of them.
ThreeTargets == {a, b, c}
ThreeHostOf == (a :> h1) @@ (b :> h2) @@ (c :> h1)
ThreeIpOf == (a :> ip1) @@ (b :> ip1) @@ (c :> ip2)

\* An old and a new device that keep the hostname and change the address.
TwoTargets == {a, c}
TwoHostOf == (a :> h1) @@ (c :> h1)
TwoIpOf == (a :> ip1) @@ (c :> ip2)
=============================================================================
