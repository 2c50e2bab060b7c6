---------------------------- MODULE FakeSwitch ----------------------------
(***************************************************************************)
(* The 802.1Q half of the emulated GS1200 in internal/fakeswitch: the VLAN *)
(* table, the native VLAN of each port, the one web session, the pages     *)
(* that serve them and the CGI endpoints that change them.  A request is   *)
(* served atomically, under Switch.mu.                                     *)
(***************************************************************************)
EXTENDS VlanTable

CONSTANTS
    PortCount,      \* ports of this model
    Management      \* its management VLAN

ASSUME SwitchAssumption ==
    PortCount \in MappedPort /\ Management \in 1..4094

VARIABLES
    vlans,      \* Switch.vlans: the rows of the table
    pvid,       \* Switch.pvid: [Port -> VLAN id]
    session     \* Switch.token: who logged in ("driver", "other"), or "free"

device == <<vlans, pvid, session>>

Port == 1..PortCount

\* logon.cgi with the right password: granted if nobody holds the session.
Logon(who) ==
    /\ session = "free"
    /\ session' = who
    /\ UNCHANGED <<vlans, pvid>>

LogonRefused == session # "free"

\* zlogout.cgi with the token of who's login.
Logout(who) ==
    /\ session' = IF session = who THEN "free" ELSE session
    /\ UNCHANGED <<vlans, pvid>>

----------------------------------------------------------------------------
(* Pages.                                                                  *)

\* vlanEntry.xml, which needs no session.
VlanEntry == {WireRow(e) : e \in vlans}

\* zVLAN_1Q_List.html, or without a session a redirect to the login page.
ListPage ==
    IF session = "free" THEN [redirect |-> TRUE]
    ELSE [redirect |-> FALSE, pvids |-> pvid, portMax |-> PortCount, mgmt |-> Management]

----------------------------------------------------------------------------
(* CGI endpoints.  Each answers 200 whatever it did.                       *)

AddRow(r) ==
    /\ vlans' = vlans \cup {[vid |-> r.vid, idx |-> r.idx,
                             tagged |-> DecodePorts(r.tagMbrs),
                             untagged |-> DecodePorts(r.untagMbrs)]}
    /\ UNCHANGED pvid

\* The row is found by its VLAN id; the slot in the request is not looked at.
ModRow(r) ==
    /\ vlans' = {IF e.vid # r.vid THEN e
                 ELSE [e EXCEPT !.tagged = DecodePorts(r.tagMbrs),
                                !.untagged = DecodePorts(r.untagMbrs)] : e \in vlans}
    /\ UNCHANGED pvid

\* Refused while some port has the VLAN as its PVID.
DelRow(r) ==
    /\ vlans' = IF \E p \in Port : pvid[p] = r.vid THEN vlans
                ELSE WithoutVLAN(vlans, r.vid)
    /\ UNCHANGED pvid

\* Ports whose entry is absent or names an unknown VLAN keep theirs.
SetPVIDs(r) ==
    /\ pvid' = [p \in Port |->
                  IF p - 1 \in DOMAIN r.vids /\ HasVLAN(vlans, r.vids[p - 1])
                    THEN r.vids[p - 1] ELSE pvid[p]]
    /\ UNCHANGED vlans

\* zqvlanSet.cgi and zqvlanPvidSet.cgi.  They ask whether there is a session,
\* not whose it is.
Accept(r) ==
    /\ IF session = "free" THEN UNCHANGED <<vlans, pvid>>
       ELSE CASE r.cgi = "add" -> AddRow(r)
              [] r.cgi = "mod" -> ModRow(r)
              [] r.cgi = "del" -> DelRow(r)
              [] r.cgi = "pvid" -> SetPVIDs(r)
    /\ UNCHANGED session

----------------------------------------------------------------------------
Row == [vid : 1..4094, idx : Nat, tagged : SUBSET Port, untagged : SUBSET Port]

\* The native VLAN of each port.
Natives == [Port -> 1..4094]

\* A request as the pages of the web interface send it.
WellFormedRequest(r) ==
    \/ r.cgi = "pvid"
    \/ /\ r \in [cgi : {"add", "mod", "del"}, vid : 1..4094, idx : Nat,
                 tagMbrs : SUBSET Port, untagMbrs : SUBSET Port]
       /\ r.tagMbrs \cap r.untagMbrs = {}

\* A table as the device keeps it: it addresses VLANs by their ids and by their
\* slots, and a port is in a VLAN tagged or untagged.
SoundTable(rows) ==
    /\ rows \subseteq Row
    /\ \A e \in rows : e.tagged \cap e.untagged = {}
    /\ \A e, f \in rows : e # f => e.vid # f.vid /\ e.idx # f.idx

\* The types of the device's state.
DeviceTypeOK ==
    /\ vlans \subseteq Row
    /\ pvid \in Natives
    /\ session \in {"free", "driver", "other"}
=============================================================================
