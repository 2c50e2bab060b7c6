---------------------------- MODULE MCVlanDriver ----------------------------
(***************************************************************************)
(* Instances of VlanDriver for TLC.                                        *)
(***************************************************************************)
EXTENDS VlanDriver, TLC

row(vid, idx, tagged, untagged) ==
    [vid |-> vid, idx |-> idx, tagged |-> tagged, untagged |-> untagged]

PortCall(port, vid, tagged, untagged, force) ==
    [op |-> "port", port |-> port, pvid |-> vid, tagged |-> tagged,
     untagged |-> untagged, force |-> force]

VlanCall(vid, tagged, untagged, force) ==
    [op |-> "vlan", vid |-> vid, tagged |-> tagged, untagged |-> untagged,
     force |-> force]

Calls1(op, vids, force) ==
    {[op |-> op, vid |-> vid, force |-> force] : vid \in vids}

\* Every configuration of one port over the VLANs vids, and one that lists a
\* VLAN both tagged and untagged.
PortCalls(port, pvids, vids, force) ==
    (UNION {{PortCall(port, v, t, u, force) : v \in pvids, u \in SUBSET (vids \ t)} :
             t \in SUBSET vids})
    \cup {PortCall(port, v, vids, {v}, force) : v \in pvids}

----------------------------------------------------------------------------
(* The provider's calls, on two ports.                                     *)

TwoByTwo ==
    {<<{row(1, 1, {}, {1, 2}), row(8, 2, {1}, {})}, <<1, 1>>>>,
     <<{row(1, 1, {}, {1})}, <<1, 1>>>>}

\* Well-formed, with a third VLAN in the last slot.
WellFormed == {<<{row(1, 1, {}, {1, 2}), row(8, 2, {1}, {}), row(9, 3, {}, {})}, <<1, 1>>>>}

\* Port 1 also joins two VLANs, and leaves them, in one call.
ProviderCalls ==
    PortCalls(1, {1, 8}, {1, 8}, FALSE) \cup PortCalls(2, {1, 8}, {1, 8}, FALSE)
    \cup {PortCall(1, 8, {1, 9}, {8}, FALSE)}
    \cup Calls1("ensure", {8, 4095}, FALSE) \cup Calls1("delete", {1, 8}, FALSE)

\* With force, by the other two operations, and for a port or a VLAN that the
\* switch does not have: of the two native VLANs forced together it takes one.
AllCalls ==
    PortCalls(1, {8}, {1, 8}, FALSE)
    \cup {PortCall(1, 1, {8}, {1}, FALSE), PortCall(1, 8, {}, {8}, TRUE), PortCall(2, 0, {1}, {}, FALSE),
          PortCall(3, 1, {}, {1}, FALSE), PortCall(1, 9, {}, {9}, FALSE)}
    \cup Calls1("ensure", {8}, FALSE) \cup Calls1("delete", {1, 8}, FALSE)
    \cup Calls1("delete", {1}, TRUE)
    \cup {VlanCall(1, {2}, {1}, FALSE), VlanCall(1, {}, {2}, FALSE),
          VlanCall(8, {1}, {1, 2}, FALSE), VlanCall(0, {}, {}, FALSE)}
    \cup {[op |-> "pvid", wanted |-> w, force |-> FALSE] :
             w \in {2 :> 1, 2 :> 8, 1 :> 8 @@ 2 :> 8}}
    \cup {[op |-> "pvid", wanted |-> 1 :> 8 @@ 2 :> 9, force |-> TRUE]}

\* The owner puts port 2 back, or takes it out of everything.
OwnerRequests ==
    {RowRequest({}, row(8, 2, {2}, {})), PVIDRequest(<<1, 1>>),
     [RowRequest({}, row(1, 1, {}, {1})) EXCEPT !.cgi = "mod"]}

NoRequests == {}

----------------------------------------------------------------------------
(* The smallest calls that show a disagreement.                            *)

DeleteManagement == Calls1("delete", {1}, FALSE)
EmptyingSeed == {<<{row(1, 1, {1}, {}), row(8, 2, {}, {1})}, <<8>>>>}
OneOtherRequest == {PVIDRequest(<<8>>)}
=============================================================================
