-------------------------- MODULE MCSettingsDriver --------------------------
(***************************************************************************)
(* Instances of SettingsDriver for TLC.                                    *)
(***************************************************************************)
EXTENDS SettingsDriver

row(vid, idx, tagged, untagged) ==
    [vid |-> vid, idx |-> idx, tagged |-> tagged, untagged |-> untagged]

PortCall(port, enabled, speed, force) ==
    [op |-> "port", port |-> port, enabled |-> enabled, speed |-> speed,
     flow |-> ~enabled, force |-> force]

ProtectionCall(loop, pps, force) ==
    [op |-> "protection", loop |-> loop, storm |-> TRUE, pps |-> pps, force |-> force]

ManagementCall(on, router, uplink, force) ==
    [op |-> "management", eee |-> ~on, led |-> ~on, snmp |-> on, snoop |-> on,
     drop |-> ~on, router |-> router, uplink |-> uplink, force |-> force]

RatesCall(port, ingress, egress) ==
    [op |-> "rates", port |-> port, ingress |-> ingress, egress |-> egress,
     force |-> FALSE]

NameCall(name) == [op |-> "name", name |-> name, force |-> FALSE]

\* Two ports: port 1 carries the management VLAN untagged.
TwoPorts == <<{row(1, 1, {}, {1}), row(8, 2, {1}, {2})}, <<1, 8>>>>

\* Every operation, with values to accept, to refuse, and to force.
AllCalls ==
    {PortCall(1, FALSE, "auto", FALSE), PortCall(1, TRUE, "10-full", FALSE),
     PortCall(2, FALSE, "100-full", FALSE), PortCall(3, TRUE, "auto", FALSE),
     PortCall(1, FALSE, "auto", TRUE), PortCall(1, TRUE, "2500", FALSE),
     ProtectionCall(TRUE, 500000, FALSE), ProtectionCall(TRUE, 0, FALSE),
     ProtectionCall(FALSE, 100, FALSE),
     ManagementCall(TRUE, 2, 2, FALSE), ManagementCall(FALSE, 0, 0, FALSE),
     ManagementCall(FALSE, 2, 1, TRUE), ManagementCall(TRUE, -1, 0, FALSE),
     RatesCall(1, 1000000, 0), RatesCall(2, 32, 33), RatesCall(3, 32, 32),
     NameCall("core"), NameCall("a b")}

\* The owner sets both ports and both rates, moves the management VLAN.
OwnerRequests ==
    {[cgi |-> "port", map |-> {0, 1}, state |-> {0, 1}, flwcl |-> {},
      speed |-> [i \in Slots |-> IF i < 2 THEN 1 ELSE -1]],
     [cgi |-> "rate", selMask |-> {1}, ingress |-> [i \in Slots |-> 5],
      egress |-> [i \in Slots |-> 0]],
     [RowRequest({}, row(1, 1, {}, {1, 2})) EXCEPT !.cgi = "mod"]}

\* The smallest call whose success leaves a setting as it was.
IsolationCall == {[ManagementCall(TRUE, 0, 2, FALSE) EXCEPT
                     !.eee = FALSE, !.led = FALSE, !.drop = FALSE]}
=============================================================================
