----------------------------- MODULE VlanTable -----------------------------
(***************************************************************************)
(* The data of the VLAN driver: port bitmaps, VLAN rows, a port's view of  *)
(* them, and the checks made on them before anything is sent               *)
(* (internal/zyxel/ports.go, types.go, and the pure parts of vlan.go and   *)
(* port.go).                                                               *)
(*                                                                         *)
(* A Go slice of ports, kept sorted and without duplicates, is a set; so   *)
(* is the table, whose order is that of the rows' slots.  A row is a       *)
(* record [vid, idx, tagged, untagged].  An integer bitmap is the set of   *)
(* the positions of its one bits, so that 6 is {1, 2}.                     *)
(***************************************************************************)
EXTENDS Integers, FiniteSets

CONSTANT IntBits    \* width of a Go int: 64, or 32 on the arm and 386 builds

ASSUME IntBitsAssumption == IntBits \in {32, 64}

----------------------------------------------------------------------------
(* Port bitmaps.                                                           *)

\* Mutant: port 1 taken to be bit 0.
DecodePorts_Unshifted(bitmap) == {i + 1 : i \in bitmap \cap (0..31)}

\* Port 1 is bit 1: shift right by one, then bit i is port i + 1.  An int is
\* signed: the shift fills in from the left with the sign, its highest bit.
DecodePorts(bitmap) ==
    LET sign == bitmap \cap {IntBits - 1}
        shifted == {b - 1 : b \in bitmap \ {0}} \cup sign
    IN  {i + 1 : i \in shifted \cap (0..31)}

\* The union of 1 << port; a shift past the width of int is 0.
EncodePorts(ports) == {p \in ports : 1 <= p /\ p < IntBits}

\* The ports whose bit is neither shifted out of an int nor its sign.
MappedPort == {p \in 1..32 : p < IntBits - 1}

Disjoint(tagged, untagged) == untagged \ tagged

\* One record of vlanEntry.xml, as sent and as read.
WireRow(e) == [vid |-> e.vid, idx |-> e.idx,
               tagMbrs |-> EncodePorts(e.tagged),
               untagMbrs |-> EncodePorts(e.untagged)]

ParseVLANEntries(payload) ==
    {LET tagged == DecodePorts(r.tagMbrs)
     IN  [vid |-> r.vid, idx |-> r.idx, tagged |-> tagged,
          untagged |-> Disjoint(tagged, DecodePorts(r.untagMbrs))] : r \in payload}

\* zVLAN_1Q_List.html.  In the login page it redirects to without a session,
\* none of the patterns is found and every value stays at its zero.
ParseListPage(page) ==
    IF page.redirect
      THEN [pvids |-> <<>>, portCount |-> 0, mgmt |-> 0]
      ELSE [pvids |-> page.pvids, portCount |-> page.portMax, mgmt |-> page.mgmt]

----------------------------------------------------------------------------
(* The table.                                                              *)

Members(e) == e.tagged \cup e.untagged

HasVLAN(rows, vid) == \E e \in rows : e.vid = vid

\* The first row for vid, in slot order.
VLAN(rows, vid) ==
    CHOOSE e \in rows :
        e.vid = vid /\ \A f \in rows : f.vid = vid => e.idx <= f.idx

MembersOf(rows, vid) ==
    IF HasVLAN(rows, vid) THEN Members(VLAN(rows, vid)) ELSE {}

WithoutVLAN(rows, vid) == {e \in rows : e.vid # vid}

\* Mutant: the slot after the last of a table taken to have no gaps.
FirstFreeIndex_Count(rows) == Cardinality(rows) + 1

FirstFreeIndex(rows) ==
    LET used == {e.idx : e \in rows} \ {0}
    IN  CHOOSE i \in 1..(Cardinality(used) + 1) :
            i \notin used /\ 1..(i - 1) \subseteq used

ValidVID(vid) == 1 <= vid /\ vid <= 4094

----------------------------------------------------------------------------
(* The guard.  Its check that the management VLAN does not end up empty    *)
(* never decides anything: emptying it loses a port.                       *)

\* Mutant: only the deletion of the management VLAN is refused.
GuardRefuses_DeletionOnly(mgmt, rows, proposed, proposedPVID, force) ==
    /\ ~force /\ mgmt # 0
    /\ \/ HasVLAN(rows, mgmt) /\ ~HasVLAN(proposed, mgmt)
       \/ \E p \in DOMAIN proposedPVID : ~HasVLAN(proposed, proposedPVID[p])

GuardRefuses(mgmt, rows, proposed, proposedPVID, force) ==
    /\ ~force /\ mgmt # 0
    /\ \/ ~(MembersOf(rows, mgmt) \subseteq MembersOf(proposed, mgmt))
       \/ \E p \in DOMAIN proposedPVID : ~HasVLAN(proposed, proposedPVID[p])

----------------------------------------------------------------------------
(* One port's view, and the plan of a change to it.                        *)

\* An entry that is not in the map reads as zero.
PVIDOf(pvids, port) == IF port \in DOMAIN pvids THEN pvids[port] ELSE 0

ReadPort(rows, pvids, port) ==
    [pvid |-> PVIDOf(pvids, port),
     tagged |-> {e.vid : e \in {f \in rows : port \in f.tagged}},
     untagged |-> {e.vid : e \in {f \in rows : port \in f.untagged}}]

PVIDNotUntagged(pvid, untagged, force) ==
    ~force /\ pvid # 0 /\ pvid \notin untagged

\* Mutant: the row is rebuilt from this port alone.
MoveBit_OthersDropped(e, port, wantTagged, wantUntagged) ==
    LET tagged == {p \in {port} : e.vid \in wantTagged}
    IN  [e EXCEPT !.tagged = tagged,
                  !.untagged = {p \in {port} : e.vid \in wantUntagged}]

\* The row with only this port's bit moved.
MoveBit(e, port, wantTagged, wantUntagged) ==
    LET tagged == (e.tagged \ {port}) \cup {p \in {port} : e.vid \in wantTagged}
        untagged == (e.untagged \ {port}) \cup {p \in {port} : e.vid \in wantUntagged}
    IN  [e EXCEPT !.tagged = tagged, !.untagged = Disjoint(tagged, untagged)]

PlanPortChanges(rows, port, wantTagged, wantUntagged) ==
    LET AsWanted(e) == /\ (port \in e.tagged) = (e.vid \in wantTagged)
                       /\ (port \in e.untagged) = (e.vid \in wantUntagged)
        stale == {e \in rows : ~AsWanted(e)}
        wanted == wantTagged \cup wantUntagged
        Moved(S) == {MoveBit(e, port, wantTagged, wantUntagged) : e \in S}
    IN  [joins |-> Moved({e \in stale : e.vid \in wanted}),
         leaves |-> Moved({e \in stale : e.vid \notin wanted}),
         proposed |-> (rows \ stale) \cup Moved(stale)]

ChangedPorts(before, after) ==
    {p \in DOMAIN after : PVIDOf(before, p) # after[p]}

----------------------------------------------------------------------------
(* The CGI requests the driver sends.                                      *)

\* applyVLANEntry: modify the row when the table read has it, else add it in
\* the first free slot.
RowRequest(rows, wanted) ==
    [cgi |-> IF HasVLAN(rows, wanted.vid) THEN "mod" ELSE "add",
     vid |-> wanted.vid,
     idx |-> IF HasVLAN(rows, wanted.vid)
               THEN VLAN(rows, wanted.vid).idx ELSE FirstFreeIndex(rows),
     tagMbrs |-> EncodePorts(wanted.tagged),
     untagMbrs |-> EncodePorts(Disjoint(wanted.tagged, wanted.untagged))]

DeleteRequest(e) ==
    [cgi |-> "del", vid |-> e.vid, idx |-> e.idx,
     tagMbrs |-> EncodePorts(e.tagged), untagMbrs |-> EncodePorts(e.untagged)]

\* applyPVID: the whole merged table, indexed from zero.
PVIDRequest(merged) ==
    [cgi |-> "pvid", vids |-> [i \in {p - 1 : p \in DOMAIN merged} |-> merged[i + 1]]]
=============================================================================
