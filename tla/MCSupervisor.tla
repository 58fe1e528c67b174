--------------------------- MODULE MCSupervisor ---------------------------
(* Small policies for the supervisor: the ratios of policy.rs, scaled.     *)
EXTENDS Supervisor

CONSTANT p1

OnePeer == {p1}
NoPeers == {}
Dial == [initial |-> 1, max |-> 2]
Unreachable == [initial |-> 2, max |-> 4]
Upgrade == [initial |-> 1, max |-> 2]
NoJitter == {0}
BothSeeds == {"Up", "Reconnecting"}
UpSeed == {"Up"}
=============================================================================
