--------------------------- MODULE MCUpnpForwarding ---------------------------
(* UpnpForwarding with two machines whose chains meet on both ports, in the  *)
(* opposite order.                                                           *)
EXTENDS UpnpForwarding

CONSTANTS a, b, a1, a2, a3

TwoMachines == {a, b}
TwoPorts    == {1, 2}
ThreeAddresses == {a1, a2, a3}

Crossed == [m \in TwoMachines |-> IF m = a THEN <<1, 2>> ELSE <<2, 1>>]

AllKinds == {"move", "restart", "foreign", "gone", "offline", "silent", "refuse",
             "timeout", "trigger", "kill"}

=============================================================================
