--------------------------- MODULE PortViewProofs ---------------------------
(***************************************************************************)
(* Theorems about what the calls of VlanDriver do to the ports: without    *)
(* force they keep the management VLAN its ports, and the provider's calls *)
(* keep every native VLAN in order and implement the abstract switch of    *)
(* PortView.                                                               *)
(***************************************************************************)
EXTENDS VlanDriverProofs

----------------------------------------------------------------------------
(* The ports of the management VLAN.                                       *)

\* Others do not create a second management VLAN, and nobody else writes in
\* the middle of a call.
OthersStayOut ==
    /\ \A r \in OtherRequests : r.cgi = "add" => r.vid # Management
    /\ ~SessionLoss \/ OtherRequests = {}

OneRow(rows, vid) == \A e, f \in rows : e.vid = vid /\ f.vid = vid => e = f

Pending == todo.joins \cup todo.leaves

\* Sent now, this request would leave the ports of the management VLAN in it.
KeepsManagement(r) ==
    /\ r.cgi = "add" => ~HasVLAN(vlans, Management)
    /\ r.cgi = "mod" => MembersOf(vlans, Management) \subseteq r.tagMbrs \cup r.untagMbrs
    /\ r.cgi = "del" => MembersOf(vlans, Management) = {}

ManagementSafe ==
    /\ OneRow(vlans, Management)
    /\ \A r \in todo.leaves : r.cgi # "add"
    /\ session = "driver" =>
         \A r \in todo.joins : r.cgi = "add" => ~HasVLAN(vlans, r.vid) /\ todo.joins = {r}
    /\ session = "driver" /\ ~call.force =>
         \A r \in Pending : r.vid = Management =>
             KeepsManagement(r) /\ \A s \in Pending : s.vid = Management => s = r

\* Until its logout a call is alone with the device.
LEMMA CallIsAlone ==
    ASSUME OthersStayOut, IInv, Working
    PROVE  session \in {"driver", "free"} /\ Safe
  BY DEF OthersStayOut, IInv, SessionOK, DeviceOK, Safe

\* The members of a VLAN with at most one row depend on that row only.
LEMMA MembersOfOne ==
    ASSUME NEW rows, RowsOK(rows), NEW vid, OneRow(rows, vid)
    PROVE  /\ \A e \in rows : e.vid = vid => MembersOf(rows, vid) = Members(e)
           /\ (\A e \in rows : e.vid # vid) => MembersOf(rows, vid) = {}
<1>1. \A e \in rows : e.idx \in Nat
  BY DEF RowsOK, Row
<1>2. ASSUME NEW e \in rows, e.vid = vid PROVE MembersOf(rows, vid) = Members(e)
  BY <1>1, <1>2, OnlyRow DEF OneRow
<1> QED
  BY <1>2 DEF MembersOf, HasVLAN

\* A request for another VLAN leaves the row of this one alone.
LEMMA OtherVLANStays ==
    ASSUME DeviceOK, NEW r, WellFormedRequest(r), Accept(r),
           NEW vid, OneRow(vlans, vid), r.cgi = "pvid" \/ r.vid # vid
    PROVE  /\ OneRow(vlans, vid)' /\ MembersOf(vlans, vid)' = MembersOf(vlans, vid)
           /\ HasVLAN(vlans, vid)' <=> HasVLAN(vlans, vid)
<1>1. RowsOK(vlans) /\ RowsOK(vlans')
  BY AcceptKeepsDevice DEF DeviceOK
<1>2. \A e : e.vid = vid => (e \in vlans' <=> e \in vlans)
  <2>1. CASE r.cgi = "pvid"
    BY <2>1 DEF Accept, SetPVIDs
  <2>2. CASE r.cgi # "pvid"
    <3>1. RowRequestOK(r) /\ r.vid # vid
      BY <2>2 DEF RowRequestOK
    <3>2. CASE vlans' = vlans \cup {Added(r)}
      <4>1. Added(r).vid = r.vid
        BY DEF Added
      <4> QED
        BY <3>1, <3>2, <4>1
    <3>3. CASE vlans' = {Modified(r, e) : e \in vlans}
      <4>1. ASSUME NEW e \in vlans
            PROVE  /\ Modified(r, e).vid = e.vid
                   /\ e.vid # r.vid => Modified(r, e) = e
        BY <1>1, <3>1, ModifiedRow DEF RowsOK
      <4> QED
        BY <3>1, <3>3, <4>1
    <3>4. CASE vlans' = WithoutVLAN(vlans, r.vid)
      BY <3>1, <3>4 DEF WithoutVLAN
    <3> QED
      BY <3>1, <3>2, <3>3, <3>4, AcceptedRequest
  <2> QED
    BY <2>1, <2>2
<1>3. OneRow(vlans', vid)
  BY <1>2 DEF OneRow
<1>4. HasVLAN(vlans', vid) <=> HasVLAN(vlans, vid)
  BY <1>2 DEF HasVLAN
<1>5. MembersOf(vlans', vid) = MembersOf(vlans, vid)
  <2>1. CASE HasVLAN(vlans, vid)
    <3>1. PICK e \in vlans : e.vid = vid
      BY <2>1 DEF HasVLAN
    <3>2. e \in vlans'
      BY <1>2, <3>1
    <3> QED
      BY <1>1, <1>3, <3>1, <3>2, MembersOfOne
  <2>2. CASE ~HasVLAN(vlans, vid)
    BY <1>4, <2>2 DEF MembersOf
  <2> QED
    BY <2>1, <2>2
<1> QED
  BY <1>3, <1>4, <1>5

\* A request for this VLAN leaves it one row, if it adds none to another, and
\* its ports, if the request keeps them.
LEMMA ThisVLANChanges ==
    ASSUME DeviceOK, NEW r, RowRequestOK(r), Accept(r), OneRow(vlans, r.vid),
           r.cgi = "add" => ~HasVLAN(vlans, r.vid)
    PROVE  /\ OneRow(vlans, r.vid)'
           /\ (\/ r.cgi = "add"
               \/ r.cgi = "mod" /\ MembersOf(vlans, r.vid) \subseteq r.tagMbrs \cup r.untagMbrs
               \/ r.cgi = "del" /\ MembersOf(vlans, r.vid) = {})
                => MembersOf(vlans, r.vid) \subseteq MembersOf(vlans, r.vid)'
<1>1. RowsOK(vlans) /\ RowsOK(vlans')
  BY AcceptKeepsDevice DEF DeviceOK, RowRequestOK
<1>2. CASE UNCHANGED vlans
  BY <1>2 DEF OneRow
<1>3. CASE r.cgi = "add" /\ vlans' = vlans \cup {Added(r)}
  <2>1. OneRow(vlans', r.vid)
    BY <1>3 DEF OneRow, HasVLAN
  <2>2. MembersOf(vlans, r.vid) = {}
    BY <1>3 DEF MembersOf
  <2> QED
    BY <2>1, <2>2
<1>4. CASE r.cgi = "mod" /\ vlans' = {Modified(r, e) : e \in vlans}
  <2>1. ASSUME NEW e \in vlans
        PROVE  /\ Modified(r, e).vid = e.vid
               /\ e.vid = r.vid => Members(Modified(r, e)) = r.tagMbrs \cup r.untagMbrs
    BY <1>1, ModifiedRow DEF RowsOK, Members
  <2>2. OneRow(vlans', r.vid)
    BY <1>4, <2>1 DEF OneRow
  <2>3. CASE HasVLAN(vlans, r.vid)
    <3>1. PICK e \in vlans : e.vid = r.vid
      BY <2>3 DEF HasVLAN
    <3>2. Modified(r, e) \in vlans' /\ Modified(r, e).vid = r.vid
      BY <1>4, <2>1, <3>1
    <3>3. MembersOf(vlans', r.vid) = Members(Modified(r, e))
      BY <1>1, <2>2, <3>2, MembersOfOne
    <3> QED
      BY <1>4, <2>1, <2>2, <3>1, <3>3
  <2>4. CASE ~HasVLAN(vlans, r.vid)
    <3>1. MembersOf(vlans, r.vid) = {}
      BY <2>4 DEF MembersOf
    <3> QED
      BY <2>2, <3>1
  <2> QED
    BY <2>3, <2>4
<1>5. CASE r.cgi = "del" /\ vlans' = WithoutVLAN(vlans, r.vid)
  <2>1. OneRow(vlans', r.vid)
    BY <1>5 DEF OneRow, WithoutVLAN
  <2> QED
    BY <1>5, <2>1
<1> QED
  BY <1>2, <1>3, <1>4, <1>5, AcceptedRequest

\* What the page says of the management VLAN is known while the session is.
LEMMA ManagementIsRead ==
    ASSUME IInv, session = "driver", pc = "plan"
    PROVE  config.mgmt = Management /\ config.pvids \in Natives
<1>1. config.portCount = PortCount /\ PageOK(config.pvids, config.portCount, config.mgmt)
  BY DEF IInv, SessionOK, ConfigOK, ReadOK
<1>2. config.portCount # 0
  BY <1>1, SwitchAssumption DEF MappedPort
<1>3. config.mgmt = Management /\ config.pvids \in Natives
  BY <1>1, <1>2 DEF PageOK
<1> QED
  BY <1>3 DEF Natives

\* A plan that the guard lets through asks for nothing that takes a port out
\* of the management VLAN.
LEMMA PlansKeepManagement ==
    ASSUME IInv, ReadsDevice, Plan, pc' = "send", session = "driver",
           OneRow(vlans, Management)
    PROVE  /\ \A r \in todo'.leaves : r.cgi # "add"
           /\ \A r \in todo'.joins : r.cgi = "add" => /\ ~HasVLAN(vlans, r.vid)
                                                      /\ todo'.joins = {r}
           /\ ~call.force =>
                \A r, s \in todo'.joins \cup todo'.leaves :
                    r.vid = Management /\ s.vid = Management =>
                        KeepsManagement(r) /\ s = r
<1>1. pc = "plan" /\ config.rows = vlans
  BY Planned DEF ReadsDevice, Safe
<1>2. RowsOK(vlans) /\ \A e \in vlans : e.idx \in Nat
  BY DEF IInv, DeviceOK, RowsOK, Row
<1>3. config.mgmt = Management /\ Management # 0
  BY <1>1, ManagementIsRead, PortsFit
<1>4. ASSUME ~call.force, NEW proposed, NEW pvids, ~Refuses(proposed, pvids)
      PROVE  MembersOf(vlans, Management) \subseteq MembersOf(proposed, Management)
  BY <1>1, <1>3, <1>4 DEF Refuses, GuardRefuses
<1>5. ASSUME NEW wanted, PlannedRow(wanted)
      PROVE  /\ todo'.leaves = {}
             /\ \A r \in todo'.joins :
                  /\ r.cgi = "add" => ~HasVLAN(vlans, r.vid)
                  /\ todo'.joins = {r}
                  /\ ~call.force /\ r.vid = Management => KeepsManagement(r)
  <2> DEFINE r == RowRequest(vlans, wanted)
             proposed == WithoutVLAN(vlans, call.vid) \cup {wanted}
  <2>1. todo'.joins = {r} /\ todo'.leaves = {}
    BY <1>1, <1>5 DEF PlannedRow
  <2>2. /\ wanted.tagged \in SUBSET MappedPort /\ wanted.untagged \in SUBSET MappedPort
        /\ wanted.tagged \cap wanted.untagged = {} /\ wanted.vid = call.vid /\ wanted.idx \in Nat
    BY <1>5, PortsFit DEF PlannedRow
  <2>3. /\ r = [cgi |-> r.cgi, vid |-> wanted.vid, idx |-> r.idx,
                tagMbrs |-> wanted.tagged, untagMbrs |-> wanted.untagged]
        /\ r.cgi \in {"add", "mod"}
        /\ r.cgi = "mod" <=> HasVLAN(vlans, wanted.vid)
    BY <1>2, <2>2, RowRequestSends DEF RowsOK
  <2> HIDE DEF r
  <2>4. r.vid = wanted.vid /\ r.tagMbrs \cup r.untagMbrs = Members(wanted)
    BY <2>3 DEF Members
  <2>5. r.cgi = "add" => ~HasVLAN(vlans, r.vid)
    BY <2>3, <2>4
  <2>6. ASSUME ~call.force, r.vid = Management PROVE KeepsManagement(r)
    <3>1. ~Refuses(proposed, config.pvids)
      BY <1>1, <1>5 DEF PlannedRow
    <3>2. MembersOf(vlans, Management) \subseteq MembersOf(proposed, Management)
      BY <1>4, <2>6, <3>1
    <3>3. \A f \in proposed : f.idx \in Nat /\ (f.vid = wanted.vid => f = wanted)
      BY <1>2, <2>2 DEF WithoutVLAN
    <3>4. wanted \in proposed
      OBVIOUS
    <3> HIDE DEF proposed
    <3>5. MembersOf(proposed, wanted.vid) = Members(wanted)
      BY <3>3, <3>4, OnlyRow
    <3> QED
      BY <2>3, <2>4, <2>5, <2>6, <3>2, <3>5 DEF KeepsManagement
  <2> QED
    BY <2>1, <2>5, <2>6
<1>6. ASSUME PlannedDelete
      PROVE  /\ todo'.joins = {}
             /\ \A r \in todo'.leaves :
                  /\ r.cgi = "del" /\ todo'.leaves = {r}
                  /\ ~call.force /\ r.vid = Management => KeepsManagement(r)
  <2> DEFINE e == VLAN(vlans, call.vid)
             r == DeleteRequest(e)
             proposed == WithoutVLAN(vlans, call.vid)
  <2>1. todo'.joins = {} /\ todo'.leaves = {r} /\ HasVLAN(vlans, call.vid)
    BY <1>1, <1>6 DEF PlannedDelete
  <2>2. r.cgi = "del" /\ r.vid = call.vid
    BY <1>2, <2>1, VLANIsARow DEF DeleteRequest
  <2> HIDE DEF r
  <2>3. ASSUME ~call.force, r.vid = Management PROVE KeepsManagement(r)
    <3>1. ~Refuses(proposed, config.pvids)
      BY <1>1, <1>6 DEF PlannedDelete
    <3>2. MembersOf(vlans, Management) \subseteq MembersOf(proposed, Management)
      BY <1>4, <2>3, <3>1
    <3>3. MembersOf(proposed, Management) = {}
      BY <2>2, <2>3 DEF WithoutVLAN, MembersOf, HasVLAN
    <3> QED
      BY <2>2, <3>2, <3>3 DEF KeepsManagement
  <2> QED
    BY <2>1, <2>2, <2>3
<1>7. ASSUME PlannedPort
      PROVE  \A r, s \in todo'.joins \cup todo'.leaves :
               /\ r.cgi = "mod"
               /\ r.vid = Management /\ s.vid = Management /\ ~call.force =>
                    KeepsManagement(r) /\ s = r
  <2> DEFINE untagged == Disjoint(call.tagged, call.untagged)
             Moved(e) == MoveBit(e, call.port, call.tagged, untagged)
  <2> SUFFICES ASSUME NEW r \in todo'.joins \cup todo'.leaves,
                      NEW s \in todo'.joins \cup todo'.leaves
               PROVE  /\ r.cgi = "mod"
                      /\ r.vid = Management /\ s.vid = Management /\ ~call.force =>
                           KeepsManagement(r) /\ s = r
    OBVIOUS
  <2>1. PICK e \in vlans : /\ r.cgi = "mod" /\ r.vid = e.vid
                           /\ r.tagMbrs = Moved(e).tagged
                           /\ r.untagMbrs = Moved(e).untagged
                           /\ r = RowRequest(vlans, Moved(e))
    BY <1>1, <1>7, PortRequests
  <2>2. PICK f \in vlans : s.vid = f.vid /\ s = RowRequest(vlans, Moved(f))
    BY <1>1, <1>7, PortRequests
  <2>3. ASSUME r.vid = Management, s.vid = Management, ~call.force
        PROVE  KeepsManagement(r) /\ s = r
    <3>1. e = f
      BY <2>1, <2>2, <2>3 DEF OneRow
    <3>2. /\ call.port \in Port /\ call.tagged \cap untagged = {}
          /\ ~Refuses(PortChanges.proposed, MergedPVIDs)
      BY <1>7 DEF PlannedPort, Disjoint
    <3>3. \A g \in vlans : /\ g = [vid |-> g.vid, idx |-> g.idx,
                                   tagged |-> g.tagged, untagged |-> g.untagged]
                           /\ g.tagged \cap g.untagged = {} /\ g \in Row
      BY <1>2 DEF RowsOK, Row
    <3> HIDE DEF untagged
    <3>4. PortChanges.proposed = {Moved(g) : g \in vlans}
      BY <1>1, <3>2, <3>3, PortPlan DEF PortChanges, untagged
    <3>5. \A g \in vlans : Moved(g).vid = g.vid /\ Moved(g).idx \in Nat
      BY <3>2, <3>3, MovedRow
    <3> HIDE DEF Moved
    <3>6. /\ Moved(e) \in PortChanges.proposed
          /\ \A n \in PortChanges.proposed :
               n.idx \in Nat /\ (n.vid = Moved(e).vid => n = Moved(e))
      BY <2>1, <2>3, <3>4, <3>5 DEF OneRow
    <3>7. MembersOf(PortChanges.proposed, Moved(e).vid) = Members(Moved(e))
      BY <3>6, OnlyRow
    <3>8. MembersOf(vlans, Management) \subseteq MembersOf(PortChanges.proposed, Management)
      BY <1>4, <2>3, <3>2
    <3>9. MembersOf(vlans, Management) \subseteq r.tagMbrs \cup r.untagMbrs
      BY <2>1, <2>3, <3>5, <3>7, <3>8 DEF Members
    <3> QED
      BY <2>1, <2>2, <3>1, <3>9 DEF KeepsManagement
  <2> QED
    BY <2>1, <2>3
<1>8. CASE \E wanted : PlannedRow(wanted)
  BY <1>5, <1>8
<1>9. CASE PlannedDelete
  BY <1>6, <1>9
<1>10. CASE PlannedPVID
  BY <1>10 DEF PlannedPVID
<1>11. CASE PlannedPort
  BY <1>7, <1>11
<1> QED
  BY <1>8, <1>9, <1>10, <1>11, Planned

\* A request of a call leaves the management VLAN its only row, and, without
\* force, its ports.
LEMMA SendingKeepsManagement ==
    ASSUME OthersStayOut, IInv, ManagementSafe, pc = "send", NEW r \in Ready, Accept(r)
    PROVE  /\ OneRow(vlans, Management)'
           /\ ~call.force =>
                MembersOf(vlans, Management) \subseteq MembersOf(vlans, Management)'
<1>1. WellFormedRequest(r) /\ (r.cgi = "pvid" \/ (RowRequestOK(r) /\ r \in Pending))
  BY DEF IInv, TodoOK, Ready, Pending, RowRequestOK, WellFormedRequest
<1>2. DeviceOK /\ OneRow(vlans, Management)
  BY DEF IInv, ManagementSafe
<1>3. session \in {"driver", "free"}
  BY CallIsAlone DEF Working
<1>4. CASE session = "free"
  <2>1. UNCHANGED vlans
    BY <1>4 DEF Accept
  <2> QED
    BY <1>2, <2>1 DEF OneRow
<1>5. CASE r.cgi = "pvid" \/ r.vid # Management
  BY <1>1, <1>2, <1>5, OtherVLANStays
<1>6. CASE session = "driver" /\ r.cgi # "pvid" /\ r.vid = Management
  <2>1. r.cgi = "add" => ~HasVLAN(vlans, Management)
    BY <1>1, <1>6 DEF ManagementSafe, Pending
  <2>2. ~call.force => KeepsManagement(r)
    BY <1>1, <1>6 DEF ManagementSafe
  <2>3. r.cgi \in {"add", "mod", "del"}
    BY <1>1, <1>6, RequestFields
  <2> QED
    BY <1>1, <1>2, <1>6, <2>1, <2>2, <2>3, ThisVLANChanges DEF KeepsManagement
<1> QED
  BY <1>3, <1>4, <1>5, <1>6

\* The requests that are left after one was sent still keep the VLAN: at most
\* one of a call's requests is for it.
LEMMA RestKeepsManagement ==
    ASSUME OthersStayOut, IInv, ManagementSafe, NEW r \in Ready, SendWrite(r)
    PROVE  ManagementSafe'
<1>1. /\ pc = "send" /\ (Accept(r) \/ UNCHANGED device)
      /\ todo' = [joins |-> todo.joins \ {r}, pvids |-> todo.pvids \ {r},
                  leaves |-> todo.leaves \ {r}]
      /\ UNCHANGED call
  BY DEF SendWrite, NextToSend, Without, IInv, TodoOK
<1>2. /\ todo'.joins = todo.joins \ {r} /\ todo'.leaves = todo.leaves \ {r}
      /\ Pending' = Pending \ {r}
  BY <1>1 DEF Pending
<1>3. OneRow(vlans, Management)'
  BY <1>1, SendingKeepsManagement DEF device, OneRow, ManagementSafe
<1>4. UNCHANGED session
  BY <1>1 DEF device, Accept
<1>5. ASSUME NEW s \in todo'.joins, s.cgi = "add", session' = "driver" PROVE FALSE
  <2>1. s \in todo.joins /\ s # r /\ todo.joins = {s}
    BY <1>2, <1>4, <1>5 DEF ManagementSafe
  <2> QED
    BY <2>1 DEF Ready
<1>6. ASSUME session' = "driver", ~call.force, NEW s \in Pending', s.vid = Management
      PROVE  KeepsManagement(s)' /\ \A q \in Pending' : q.vid = Management => q = s
  <2>1. /\ s \in Pending /\ s # r /\ KeepsManagement(s)
        /\ \A q \in Pending : q.vid = Management => q = s
    BY <1>2, <1>4, <1>6 DEF ManagementSafe
  <2>2. r.cgi = "pvid" \/ r.vid # Management
    <3>1. r \in todo.pvids \/ r \in Pending
      BY DEF Ready, Pending
    <3> QED
      BY <2>1, <3>1 DEF IInv, TodoOK
  <2>3. WellFormedRequest(r) /\ DeviceOK /\ OneRow(vlans, Management)
    BY DEF IInv, TodoOK, Ready, RowRequestOK, WellFormedRequest, ManagementSafe
  <2>4. /\ MembersOf(vlans, Management)' = MembersOf(vlans, Management)
        /\ HasVLAN(vlans, Management)' <=> HasVLAN(vlans, Management)
    BY <1>1, <2>2, <2>3, OtherVLANStays DEF device
  <2> QED
    BY <1>2, <2>1, <2>4 DEF KeepsManagement
<1> QED
  BY <1>1, <1>2, <1>3, <1>5, <1>6 DEF ManagementSafe

\* Every step keeps what the theorem below needs.
LEMMA ManagementStaysSafe ==
    ASSUME OthersStayOut, IInv, ReadsDevice, ManagementSafe, [Next]_vars
    PROVE  ManagementSafe'
<1>1. ASSUME UNCHANGED <<vlans, call, todo>>, session' = "driver" => session = "driver"
      PROVE  ManagementSafe'
  BY <1>1 DEF ManagementSafe, OneRow, Pending, KeepsManagement
<1>2. ASSUME OneRow(vlans', Management), todo' = NothingToSend PROVE ManagementSafe'
  BY <1>2 DEF ManagementSafe, OneRow, Pending, NothingToSend
<1>3. ASSUME UNCHANGED vlans, todo' = NothingToSend PROVE ManagementSafe'
  BY <1>2, <1>3 DEF ManagementSafe, OneRow
<1>4. CASE UNCHANGED vars
  BY <1>1, <1>4 DEF vars, device, driver
<1>5. ASSUME NEW c \in Calls, Start(c) PROVE ManagementSafe'
  BY <1>3, <1>5 DEF Start, device, IInv, TodoOK
<1>6. CASE Login
  BY <1>3, <1>6 DEF Login, Logon, device, IInv, TodoOK
<1>7. CASE ReadTable \/ ReadPage \/ Verify
  BY <1>1, <1>7 DEF ReadTable, ReadPage, Verify, device
<1>8. CASE ReadFails
  BY <1>3, <1>8 DEF ReadFails, device
<1>9. CASE Plan
  <2>1. UNCHANGED <<vlans, pvid, session, call>>
    BY <1>9 DEF Plan, PlanEnsure, PlanVLAN, PlanDelete, PlanPVID, PlanPort, Decided, Proceed,
       device
  <2>2. CASE pc' # "send"
    <3>1. todo' = NothingToSend
      BY <1>9, <2>2, PlansAreOK DEF TodoOK
    <3> QED
      BY <1>3, <2>1, <3>1
  <2>3. CASE pc' = "send" /\ session = "driver"
    <3>1. /\ \A r \in todo'.leaves : r.cgi # "add"
          /\ \A r \in todo'.joins : r.cgi = "add" => /\ ~HasVLAN(vlans, r.vid)
                                                     /\ todo'.joins = {r}
          /\ ~call.force =>
                \A r, s \in todo'.joins \cup todo'.leaves :
                    r.vid = Management /\ s.vid = Management =>
                        KeepsManagement(r) /\ s = r
      BY <1>9, <2>3, PlansKeepManagement DEF ManagementSafe
    <3>2. \A r : KeepsManagement(r) => KeepsManagement(r)'
      BY <2>1 DEF KeepsManagement
    <3> QED
      BY <2>1, <3>1, <3>2 DEF ManagementSafe, OneRow, Pending
  <2>4. CASE pc' = "send" /\ session # "driver"
    <3>1. \A r \in todo'.leaves : r.cgi # "add"
      <4>1. \A e : DeleteRequest(e).cgi = "del"
        BY DEF DeleteRequest
      <4>2. PlannedDelete => \A r \in todo'.leaves : r.cgi = "del"
        BY <4>1 DEF PlannedDelete
      <4>3. PlannedPort => \A r \in todo'.leaves : r.cgi = "mod"
        BY PortRequests
      <4>4. ASSUME NEW wanted, PlannedRow(wanted) PROVE todo'.leaves = {}
        BY <4>4 DEF PlannedRow
      <4>5. PlannedPVID => todo'.leaves = {}
        BY DEF PlannedPVID
      <4> QED
        BY <1>9, <2>4, <4>2, <4>3, <4>4, <4>5, Planned
    <3> QED
      BY <2>1, <2>4, <3>1 DEF ManagementSafe, OneRow
  <2> QED
    BY <2>2, <2>3, <2>4
<1>10. ASSUME NEW r \in Ready, SendWrite(r) PROVE ManagementSafe'
  BY <1>10, RestKeepsManagement
<1>11. ASSUME NEW r \in Ready, SendFails(r) PROVE ManagementSafe'
  <2>1. OneRow(vlans, Management)'
    BY <1>11, SendingKeepsManagement DEF SendFails, device, OneRow, ManagementSafe
  <2> QED
    BY <1>2, <1>11, <2>1 DEF SendFails, OneRow
<1>12. CASE LogsOut \/ LogoutFails
  BY <1>3, <1>12 DEF LogsOut, LogoutFails, Return, Logout, device, IInv, TodoOK
<1>13. CASE SessionExpires \/ OtherLogsIn \/ OtherLogsOut
  BY <1>1, <1>13 DEF SessionExpires, OtherLogsIn, OtherLogsOut, Logon, Logout, driver
<1>14. CASE OtherWrites
  <2>1. PICK r \in OtherRequests : Accept(r)
    BY <1>14 DEF OtherWrites
  <2>2. UNCHANGED driver /\ session = "other"
    BY <1>14 DEF OtherWrites
  <2>3. todo = NothingToSend
    BY <2>2, CallIsAlone DEF Working, IInv, TodoOK
  <2>4. WellFormedRequest(r) /\ DeviceOK /\ OneRow(vlans, Management)
    BY OthersAssumption DEF IInv, ManagementSafe
  <2>5. CASE r.cgi = "pvid" \/ r.vid # Management
    BY <2>1, <2>2, <2>3, <2>4, <2>5, <1>2, OtherVLANStays DEF driver, OneRow
  <2>6. CASE r.cgi # "pvid" /\ r.vid = Management
    <3>1. RowRequestOK(r) /\ r.cgi # "add"
      BY <2>4, <2>6 DEF RowRequestOK, OthersStayOut
    <3>2. OneRow(vlans, Management)'
      BY <2>1, <2>4, <2>6, <3>1, ThisVLANChanges
    <3> QED
      BY <2>2, <2>3, <3>2, <1>2 DEF driver, OneRow
  <2> QED
    BY <2>5, <2>6
<1> QED
  BY <1>4, <1>5, <1>6, <1>7, <1>8, <1>9, <1>10, <1>11, <1>12, <1>13, <1>14 DEF Next

\* Without force no step of a call takes a port out of the management VLAN,
\* however its requests are lost or ignored, as long as nobody else writes in
\* the middle of a call or creates a second management VLAN.
THEOREM ManagementIsKept ==
    ASSUME OthersStayOut
    PROVE  Spec => ManagementKept
<1>1. Init => ReadsDevice /\ ManagementSafe
  BY SeedsAssumption
     DEF Init, ReadsDevice, ManagementSafe, OneRow, Pending, NothingToSend, SoundTable
<1>2. IInv /\ ManagementSafe /\ [Next]_vars =>
        [pc # "idle" /\ driver' # driver /\ ~call.force =>
           MembersOf(vlans, Management) \subseteq MembersOf(vlans', Management)]_vars
  <2> SUFFICES ASSUME IInv, ManagementSafe, Next, driver' # driver, ~call.force
               PROVE  MembersOf(vlans, Management) \subseteq MembersOf(vlans', Management)
    OBVIOUS
  <2>1. ASSUME UNCHANGED vlans
        PROVE  MembersOf(vlans, Management) \subseteq MembersOf(vlans', Management)
    BY <2>1
  <2>2. ASSUME NEW r \in Ready, SendWrite(r) \/ SendFails(r)
        PROVE  MembersOf(vlans, Management) \subseteq MembersOf(vlans', Management)
    <3>1. pc = "send" /\ (Accept(r) \/ UNCHANGED vlans)
      BY <2>2 DEF SendWrite, SendFails, device
    <3> QED
      BY <2>1, <3>1, SendingKeepsManagement
  <2>3. CASE Plan
    BY <2>1, <2>3 DEF Plan, PlanEnsure, PlanVLAN, PlanDelete, PlanPVID, PlanPort, Decided,
       Proceed, device
  <2>4. CASE (\E c \in Calls : Start(c)) \/ Login \/ ReadTable \/ ReadPage \/ ReadFails \/ Verify
    BY <2>1, <2>4 DEF Start, Login, Logon, ReadTable, ReadPage, ReadFails, Verify, device
  <2>5. CASE LogsOut \/ LogoutFails
    BY <2>1, <2>5 DEF LogsOut, LogoutFails, Logout, device
  <2>6. CASE SessionExpires \/ OtherLogsIn \/ OtherLogsOut \/ OtherWrites
    BY <2>6, OutsideSteps
  <2> QED
    BY <2>2, <2>3, <2>4, <2>5, <2>6 DEF Next
<1>3. IInv /\ ReadsDevice /\ ManagementSafe /\ [Next]_vars => ManagementSafe'
  BY ManagementStaysSafe
<1> QED
  BY <1>1, <1>2, <1>3, InductiveInvariant, ReadsDeviceStays, PTL DEF Spec, ManagementKept

----------------------------------------------------------------------------
(* The abstract switch of PortView.                                        *)

\* A VLAN has at most one row.
OneRowEach(rows) == \A e, f \in rows : e.vid = f.vid => e = f

\* The VLANs that a port carries are those it is a member of.
LEMMA CarriesIsMembership ==
    ASSUME NEW rows, RowsOK(rows), OneRowEach(rows), NEW p, NEW vid
    PROVE  p \in MembersOf(rows, vid) <=> \E e \in rows : e.vid = vid /\ p \in Members(e)
<1>1. OneRow(rows, vid)
  BY DEF OneRowEach, OneRow
<1> QED
  BY <1>1, MembersOfOne

\* The view of a port of a table whose native VLANs belong is sound.
LEMMA ViewIsSound ==
    ASSUME NEW rows, RowsOK(rows), OneRowEach(rows), \A e \in rows : e.vid \in KnownVIDs,
           NEW natives, NEW p \in DOMAIN natives, p \in MembersOf(rows, natives[p])
    PROVE  PV!Sound(ReadPort(rows, natives, p), {e.vid : e \in rows})
<1> DEFINE v == ReadPort(rows, natives, p)
<1>1. v = [pvid |-> natives[p],
           tagged |-> {e.vid : e \in {f \in rows : p \in f.tagged}},
           untagged |-> {e.vid : e \in {f \in rows : p \in f.untagged}}]
  BY DEF ReadPort, PVIDOf
<1>2. /\ v.pvid = natives[p]
      /\ v.tagged = {e.vid : e \in {f \in rows : p \in f.tagged}}
      /\ v.untagged = {e.vid : e \in {f \in rows : p \in f.untagged}}
  BY <1>1
<1> HIDE DEF v
<1>3. PICK e \in rows : e.vid = natives[p] /\ p \in Members(e)
  BY CarriesIsMembership
<1>4. v.pvid \in v.tagged \cup v.untagged
  BY <1>2, <1>3 DEF Members
<1>5. v.tagged \cup v.untagged \subseteq {f.vid : f \in rows}
  BY <1>2
<1>6. v.tagged \cap v.untagged = {}
  BY <1>2 DEF RowsOK, OneRowEach
<1>7. v.tagged \in SUBSET KnownVIDs /\ v.untagged \in SUBSET KnownVIDs /\ v.pvid \in KnownVIDs
  BY <1>2, <1>3
<1>8. v \in [pvid : KnownVIDs, tagged : SUBSET KnownVIDs, untagged : SUBSET KnownVIDs]
  BY <1>1, <1>2, <1>7
<1> QED
  BY <1>4, <1>5, <1>6, <1>8 DEF PV!Sound, PV!Views, PV!Carries, v

----------------------------------------------------------------------------
(* The provider's use of the driver, and what its calls have left to send. *)

\* The calls that the resources make: without force, by EnsureVLAN, DeleteVLAN
\* and WritePort with a native VLAN, on a switch that is nobody else's, does
\* what it is asked, and has every native VLAN in order at first.
ProviderUse ==
    /\ ~MayIgnore /\ OtherRequests = {}
    /\ \A c \in Calls : /\ ~c.force /\ c.op \in {"ensure", "delete", "port"}
                        /\ c.op = "port" => c.pvid # 0
    /\ \A seed \in Seeds : \A p \in Port : p \in MembersOf(seed[1], seed[2][p])

Moved(e) == MoveBit(e, call.port, call.tagged, Disjoint(call.tagged, call.untagged))

EnsureLeft ==
    /\ todo.pvids = {} /\ todo.leaves = {}
    /\ \A r \in todo.joins : /\ r.cgi = "add" /\ r.vid = call.vid
                             /\ r.tagMbrs = {} /\ r.untagMbrs = {}

DeleteLeft ==
    /\ todo.joins = {} /\ todo.pvids = {}
    /\ \A r \in todo.leaves : r.cgi = "del"

\* A request of WritePort moves the bit of the call's port in a row that the
\* device has as it was read.
MovesRow(r) ==
    /\ r.cgi = "mod"
    /\ \E e \in vlans : /\ r.vid = e.vid
                        /\ r.tagMbrs = Moved(e).tagged /\ r.untagMbrs = Moved(e).untagged

\* Either it is still to be sent, or the port is in every VLAN that it joins
\* and has its native VLAN.
PortLeft ==
    /\ call.port \in Port
    /\ call.pvid \in Disjoint(call.tagged, call.untagged)
    /\ \A vid \in Wanted : HasVLAN(vlans, vid)
    /\ \A r \in Pending : MovesRow(r) /\ \A s \in Pending : s.vid = r.vid => s = r
    /\ \A r \in todo.joins : r.vid \in Wanted
    /\ \A r \in todo.leaves : r.vid \notin Wanted
    /\ \A e \in vlans : e.vid \in Wanted =>
          call.port \in Members(e) \/ \E r \in todo.joins : r.vid = e.vid
    /\ \A r \in todo.pvids :
          /\ DOMAIN r.vids = {p - 1 : p \in Port}
          /\ \A p \in Port : r.vids[p - 1] = IF p = call.port THEN call.pvid ELSE pvid[p]
    /\ todo.pvids = {} => pvid[call.port] = call.pvid

Left ==
    /\ call.op = "ensure" => EnsureLeft
    /\ call.op = "delete" => DeleteLeft
    /\ call.op = "port" => PortLeft

ViewSafe ==
    /\ NativeVLANBelongs
    /\ \A e \in vlans : e.vid \in KnownVIDs
    /\ pc = "send" /\ session = "driver" => Left

\* What the proof of a step of the abstract switch starts from.
AllSafe == IInv /\ ReadsDevice /\ SlotsKept /\ ManagementSafe /\ ViewSafe

\* Rows without a common id are one per VLAN.
LEMMA OneRowPerVLAN == SlotsUnique => OneRowEach(vlans)
  BY DEF SlotsUnique, OneRowEach

\* Under the provider's use the call is one of three.
LEMMA ProvidersCall ==
    ASSUME ProviderUse, IInv, pc # "idle"
    PROVE  /\ call \in Calls /\ ~call.force /\ call.op \in {"ensure", "delete", "port"}
           /\ call.op = "port" => call.pvid # 0
           /\ session # "other"
  BY DEF ProviderUse, IInv, CallOK, SessionOK

\* What a plan leaves to send.
LEMMA PlansLeave ==
    ASSUME ProviderUse, AllSafe, Plan, pc' = "send", session = "driver"
    PROVE  Left'
<1>1. /\ pc = "plan" /\ config.rows = vlans /\ UNCHANGED <<vlans, pvid, session, call, config>>
      /\ config.pvids = pvid \/ DOMAIN config.pvids = {}
  BY Planned DEF AllSafe, ReadsDevice, Safe
<1>2. /\ call \in Calls /\ ~call.force /\ call.op \in {"ensure", "delete", "port"}
      /\ call.op = "port" => call.pvid # 0
  BY <1>1, ProvidersCall DEF AllSafe
<1>3. IInv /\ RowsOK(vlans) /\ \A e \in vlans : e.idx \in Nat
  BY DEF AllSafe, IInv, DeviceOK, RowsOK, Row
<1>4. ASSUME NEW wanted, PlannedRow(wanted) PROVE Left'
  <2> DEFINE r == RowRequest(vlans, wanted)
  <2>1. /\ todo'.joins = {r} /\ todo'.pvids = {} /\ todo'.leaves = {}
        /\ call.op = "ensure" /\ ~HasVLAN(vlans, wanted.vid) /\ wanted.vid = call.vid
        /\ wanted.tagged = {} /\ wanted.untagged = {}
    BY <1>1, <1>2, <1>4 DEF PlannedRow
  <2>2. EncodePorts({}) = {} /\ Disjoint({}, {}) = {}
    BY DEF EncodePorts, Disjoint
  <2>3. r.cgi = "add" /\ r.vid = wanted.vid /\ r.tagMbrs = {} /\ r.untagMbrs = {}
    BY <2>1, <2>2 DEF RowRequest
  <2> HIDE DEF r
  <2>4. EnsureLeft'
    BY <1>1, <2>1, <2>3 DEF EnsureLeft
  <2> QED
    BY <1>1, <2>1, <2>4 DEF Left
<1>5. ASSUME PlannedDelete PROVE Left'
  <2>1. \A e : DeleteRequest(e).cgi = "del"
    BY DEF DeleteRequest
  <2>2. DeleteLeft'
    BY <1>5, <2>1 DEF PlannedDelete, DeleteLeft
  <2> QED
    BY <1>1, <1>5, <2>2 DEF Left, PlannedDelete
<1>6. ASSUME PlannedPort PROVE Left'
  <2> DEFINE untagged == Disjoint(call.tagged, call.untagged)
  <2>1. /\ call.op = "port" /\ call.port \in Port
        /\ \A vid \in Wanted : HasVLAN(vlans, vid)
        /\ call.pvid \in untagged /\ call.tagged \cap untagged = {}
    BY <1>1, <1>2, <1>6 DEF PlannedPort, PVIDNotUntagged, Disjoint
  <2>2. /\ todo'.joins = {RowRequest(vlans, n) : n \in PortChanges.joins}
        /\ todo'.pvids = {PVIDRequest(MergedPVIDs) :
                            p \in ChangedPorts(config.pvids, MergedPVIDs)}
        /\ todo'.leaves = {RowRequest(vlans, n) : n \in PortChanges.leaves}
    BY <1>1, <1>6 DEF PlannedPort
  <2>3. ASSUME NEW r \in todo'.joins \cup todo'.leaves
        PROVE  \E e \in vlans : /\ r.cgi = "mod" /\ r.vid = e.vid
                                /\ r.tagMbrs = Moved(e).tagged
                                /\ r.untagMbrs = Moved(e).untagged
                                /\ r \in todo'.joins => r.vid \in Wanted
                                /\ r \in todo'.leaves => r.vid \notin Wanted
                                /\ r = RowRequest(vlans, Moved(e))
    BY <1>1, <1>3, <1>6, PortRequests DEF Moved
  <2>4. ASSUME NEW r \in todo'.joins \cup todo'.leaves,
               NEW s \in todo'.joins \cup todo'.leaves, s.vid = r.vid
        PROVE  s = r
    <3>1. PICK e \in vlans : r.vid = e.vid /\ r = RowRequest(vlans, Moved(e))
      BY <2>3
    <3>2. PICK f \in vlans : s.vid = f.vid /\ s = RowRequest(vlans, Moved(f))
      BY <2>3
    <3>3. e = f
      BY <2>4, <3>1, <3>2, OneRowPerVLAN DEF AllSafe, SlotsKept, OneRowEach
    <3> QED
      BY <3>1, <3>2, <3>3
  <2>5. ASSUME NEW e \in vlans, e.vid \in Wanted
        PROVE  call.port \in Members(e) \/ \E r \in todo'.joins : r.vid = e.vid
    <3>1. e \in Row /\ e.tagged \cap e.untagged = {}
      BY <1>3 DEF RowsOK
    <3>2. /\ Moved(e).vid = e.vid
          /\ call.port \in Moved(e).tagged <=> e.vid \in call.tagged
          /\ call.port \in Moved(e).untagged <=> e.vid \in untagged
      BY <2>1, <3>1, MovedRow DEF Moved
    <3>3. \A g \in vlans : /\ g = [vid |-> g.vid, idx |-> g.idx,
                                   tagged |-> g.tagged, untagged |-> g.untagged]
                           /\ g.tagged \cap g.untagged = {}
      BY <1>3 DEF RowsOK, Row
    <3> HIDE DEF untagged
    <3>4. /\ Moved(e) \in PortChanges.joins \cup PortChanges.leaves \/ Moved(e) = e
          /\ \A n \in PortChanges.leaves : n.vid \notin Wanted
      BY <1>1, <2>1, <3>3, PortPlan DEF PortChanges, Moved, Wanted, untagged
    <3>5. CASE Moved(e) = e
      BY <2>5, <3>2, <3>5 DEF Wanted, Members, untagged
    <3>6. CASE Moved(e) \in PortChanges.joins
      <4>1. RowRequest(vlans, Moved(e)).vid = Moved(e).vid
        BY DEF RowRequest
      <4> QED
        BY <2>2, <3>2, <3>6, <4>1
    <3> QED
      BY <2>5, <3>2, <3>4, <3>5, <3>6
  <2>6. config.pvids = pvid /\ DOMAIN pvid = Port
    <3> DEFINE read == config.pvids
               ports == DOMAIN read
    <3>1. pc = "plan"
      BY <1>1
    <3>2. read \in Natives
      BY <1>3, <3>1, ManagementIsRead
    <3>3. ports = Port
      BY <3>2 DEF Natives
    <3>4. read = pvid \/ ports = {}
      BY <1>1
    <3> HIDE DEF read, ports
    <3>5. read = pvid
      BY <2>1, <3>3, <3>4
    <3> QED
      BY <3>3, <3>5 DEF read, ports
  <2>7. MergedPVIDs = [p \in Port |-> IF p = call.port THEN call.pvid ELSE pvid[p]]
    <3>1. Port \cup {call.port} = Port /\ DOMAIN pvid = Port /\ call.pvid # 0
      BY <1>2, <2>1, <2>6
    <3> QED
      BY <2>6, <3>1 DEF MergedPVIDs, Merged
  <2>8. \A r \in todo'.pvids :
          /\ DOMAIN r.vids = {p - 1 : p \in Port}
          /\ \A p \in Port : r.vids[p - 1] = IF p = call.port THEN call.pvid ELSE pvid[p]
    <3> DEFINE r == PVIDRequest(MergedPVIDs)
               ports == {p - 1 : p \in Port}
    <3>1. r.vids = [i \in ports |-> MergedPVIDs[i + 1]]
      BY <2>7 DEF PVIDRequest
    <3> HIDE DEF r
    <3>2. ASSUME NEW p \in Port PROVE r.vids[p - 1] = MergedPVIDs[p]
      <4>1. p - 1 \in ports /\ (p - 1) + 1 = p
        BY PortsFit DEF Port
      <4> QED
        BY <3>1, <4>1
    <3> QED
      BY <2>2, <2>7, <3>1, <3>2 DEF r
  <2>9. todo'.pvids = {} => pvid[call.port] = call.pvid
    <3>1. ASSUME todo'.pvids = {} PROVE ChangedPorts(config.pvids, MergedPVIDs) = {}
      BY <2>2, <3>1
    <3> QED
      BY <2>1, <2>6, <2>7, <3>1 DEF ChangedPorts, PVIDOf
  <2>10. \A r \in todo'.joins \cup todo'.leaves : MovesRow(r)'
    BY <1>1, <2>3 DEF MovesRow, Moved
  <2>11. PortLeft'
    BY <1>1, <2>1, <2>3, <2>4, <2>5, <2>8, <2>9, <2>10 DEF PortLeft, Pending, Wanted
  <2> QED
    BY <1>1, <2>1, <2>11 DEF Left
<1>7. ~PlannedPVID
  BY <1>2 DEF PlannedPVID
<1> QED
  BY <1>3, <1>4, <1>5, <1>6, <1>7, Planned

----------------------------------------------------------------------------
(* The steps of the abstract switch.                                       *)

VIDsOf(rows) == {e.vid : e \in rows}

\* A row without members is what creating a VLAN adds.
LEMMA CreateStep ==
    ASSUME NEW row, row.vid \in KnownVIDs, ~HasVLAN(vlans, row.vid),
           row.tagged = {}, row.untagged = {}, vlans' = vlans \cup {row}, UNCHANGED pvid
    PROVE  PV!Create(row.vid)
<1>1. row.vid \notin VIDsOf(vlans) /\ VIDsOf(vlans') = VIDsOf(vlans) \cup {row.vid}
  BY DEF HasVLAN, VIDsOf
<1>2. ASSUME NEW p PROVE ReadPort(vlans', pvid', p) = ReadPort(vlans, pvid, p)
  <2>1. /\ {f \in vlans' : p \in f.tagged} = {f \in vlans : p \in f.tagged}
        /\ {f \in vlans' : p \in f.untagged} = {f \in vlans : p \in f.untagged}
    OBVIOUS
  <2> QED
    BY <2>1 DEF ReadPort, PVIDOf
<1> QED
  BY <1>1, <1>2 DEF PV!Create, VIDsOf

\* The view of a port without a VLAN.
Removed(v, vid) == [v EXCEPT !.tagged = @ \ {vid}, !.untagged = @ \ {vid}]

\* A port's view with other tagged VLANs.
LEMMA TaggedReplaced ==
    ASSUME NEW n, NEW t, NEW u, NEW tNow
    PROVE  [[pvid |-> n, tagged |-> t, untagged |-> u] EXCEPT !.tagged = tNow] =
           [pvid |-> n, tagged |-> tNow, untagged |-> u]
  OBVIOUS

\* A port's view with other untagged VLANs.
LEMMA UntaggedReplaced ==
    ASSUME NEW n, NEW t, NEW u, NEW uNow
    PROVE  [[pvid |-> n, tagged |-> t, untagged |-> u] EXCEPT !.untagged = uNow] =
           [pvid |-> n, tagged |-> t, untagged |-> uNow]
  OBVIOUS

\* A port's view without a VLAN, field by field.
LEMMA ViewRemoved ==
    ASSUME NEW n, NEW t, NEW u, NEW vid
    PROVE  Removed([pvid |-> n, tagged |-> t, untagged |-> u], vid) =
           [pvid |-> n, tagged |-> t \ {vid}, untagged |-> u \ {vid}]
<1> DEFINE v == [pvid |-> n, tagged |-> t, untagged |-> u]
<1>1. v.tagged = t /\ v.untagged = u
  OBVIOUS
<1>2. [v EXCEPT !.tagged = t \ {vid}] = [pvid |-> n, tagged |-> t \ {vid}, untagged |-> u]
  BY TaggedReplaced
<1>3. [[pvid |-> n, tagged |-> t \ {vid}, untagged |-> u] EXCEPT !.untagged = u \ {vid}] =
      [pvid |-> n, tagged |-> t \ {vid}, untagged |-> u \ {vid}]
  BY UntaggedReplaced
<1> HIDE DEF v
<1>4. Removed(v, vid) =
      [[v EXCEPT !.tagged = t \ {vid}] EXCEPT !.untagged = u \ {vid}]
  BY <1>1, Zenon DEF Removed
<1>5. Removed(v, vid) = [pvid |-> n, tagged |-> t \ {vid}, untagged |-> u \ {vid}]
  BY <1>2, <1>3, <1>4, Zenon
<1> QED
  BY <1>5 DEF v

ViewOf(rows, natives) == [p \in Port |-> ReadPort(rows, natives, p)]

\* What removing a VLAN means for the abstract switch.
LEMMA RemoveIs ==
    ASSUME NEW vid, vid \in VIDsOf(vlans), VIDsOf(vlans') = VIDsOf(vlans) \ {vid},
           \A p \in Port : ViewOf(vlans, pvid)[p].pvid # vid,
           vid = Management =>
             \A p \in Port : Management \notin PV!Carries(ViewOf(vlans, pvid)[p]),
           ViewOf(vlans', pvid') = [p \in Port |-> Removed(ViewOf(vlans, pvid)[p], vid)]
    PROVE  PV!Remove(vid)
  BY DEF PV!Remove, VIDsOf, ViewOf, Removed

\* Without its row a VLAN is known to the switch and carried by its ports no more.
LEMMA RemoveStep ==
    ASSUME NEW vid \in KnownVIDs, HasVLAN(vlans, vid), DOMAIN pvid = Port,
           \A p \in Port : pvid[p] # vid,
           vid = Management => \A e \in vlans : e.vid = vid => Members(e) = {},
           vlans' = WithoutVLAN(vlans, vid), UNCHANGED pvid
    PROVE  PV!Remove(vid)
<1>1. vid \in VIDsOf(vlans) /\ VIDsOf(vlans') = VIDsOf(vlans) \ {vid}
  BY DEF HasVLAN, VIDsOf, WithoutVLAN
<1>2. ASSUME NEW p \in Port
      PROVE  /\ ReadPort(vlans, pvid, p).pvid # vid
             /\ ReadPort(vlans', pvid', p) = Removed(ReadPort(vlans, pvid, p), vid)
             /\ vid = Management => Management \notin PV!Carries(ReadPort(vlans, pvid, p))
  <2> DEFINE t == {e.vid : e \in {f \in vlans : p \in f.tagged}}
             u == {e.vid : e \in {f \in vlans : p \in f.untagged}}
             tNow == {e.vid : e \in {f \in vlans' : p \in f.tagged}}
             uNow == {e.vid : e \in {f \in vlans' : p \in f.untagged}}
             native == IF p \in DOMAIN pvid THEN pvid[p] ELSE 0
  <2>1. /\ ReadPort(vlans, pvid, p) = [pvid |-> native, tagged |-> t, untagged |-> u]
        /\ ReadPort(vlans', pvid', p) = [pvid |-> native, tagged |-> tNow, untagged |-> uNow]
    BY DEF ReadPort, PVIDOf
  <2>2. tNow = t \ {vid} /\ uNow = u \ {vid}
    BY DEF WithoutVLAN
  <2>3. vid = Management => vid \notin t \cup u
    BY DEF Members
  <2>4. native # vid
    OBVIOUS
  <2> HIDE DEF t, u, tNow, uNow, native
  <2>5. Removed([pvid |-> native, tagged |-> t, untagged |-> u], vid) =
        [pvid |-> native, tagged |-> tNow, untagged |-> uNow]
    BY <2>2, ViewRemoved
  <2>6. PV!Carries([pvid |-> native, tagged |-> t, untagged |-> u]) = t \cup u
    BY DEF PV!Carries
  <2>7. [pvid |-> native, tagged |-> t, untagged |-> u].pvid = native
    OBVIOUS
  <2> QED
    BY <2>1, <2>3, <2>4, <2>5, <2>6, <2>7
<1>3. \A p \in Port : ViewOf(vlans, pvid)[p] = ReadPort(vlans, pvid, p)
  BY DEF ViewOf
<1>4. ViewOf(vlans', pvid') = [p \in Port |-> Removed(ViewOf(vlans, pvid)[p], vid)]
  BY <1>2, <1>3 DEF ViewOf
<1> QED
  BY <1>1, <1>2, <1>3, <1>4, RemoveIs

\* One port's view changes, in its native VLAN or in one membership.
LEMMA MoveStep ==
    ASSUME NEW q \in Port, VIDsOf(vlans') = VIDsOf(vlans),
           \A p \in Port : p # q => ReadPort(vlans', pvid', p) = ReadPort(vlans, pvid, p),
           PV!Sound(ReadPort(vlans', pvid', q), VIDsOf(vlans)),
           LET old == ReadPort(vlans, pvid, q)
               new == ReadPort(vlans', pvid', q)
           IN  /\ \/ new.tagged = old.tagged /\ new.untagged = old.untagged
                  \/ /\ new.pvid = old.pvid
                     /\ \E vid \in KnownVIDs : /\ new.tagged \ {vid} = old.tagged \ {vid}
                                               /\ new.untagged \ {vid} = old.untagged \ {vid}
               /\ Management \in PV!Carries(old) => Management \in PV!Carries(new)
    PROVE  PV!Move(q)
<1> DEFINE view == [p \in Port |-> ReadPort(vlans, pvid, p)]
           viewNow == [p \in Port |-> ReadPort(vlans', pvid', p)]
<1>1. viewNow = [view EXCEPT ![q] = viewNow[q]]
  OBVIOUS
<1>2. view[q] = ReadPort(vlans, pvid, q) /\ viewNow[q] = ReadPort(vlans', pvid', q)
  OBVIOUS
<1> HIDE DEF view, viewNow
<1> QED
  BY <1>1, <1>2 DEF PV!Move, VIDsOf, view, viewNow

----------------------------------------------------------------------------
(* What each request of a call does to the view of the ports.              *)

\* While a table has one row for each VLAN, native VLANs that belong go on
\* belonging if no port loses its row in them.
LEMMA NativesStay ==
    ASSUME RowsOK(vlans), RowsOK(vlans)', OneRowEach(vlans), OneRowEach(vlans)',
           NEW p, p \in MembersOf(vlans, pvid[p]),
           \A e \in vlans : e.vid = pvid[p] /\ p \in Members(e) =>
               \E f \in vlans' : f.vid = pvid'[p] /\ p \in Members(f)
    PROVE  p \in MembersOf(vlans', pvid'[p])
<1>1. PICK e \in vlans : e.vid = pvid[p] /\ p \in Members(e)
  BY CarriesIsMembership
<1>2. PICK f \in vlans' : f.vid = pvid'[p] /\ p \in Members(f)
  BY <1>1
<1> QED
  BY <1>2, CarriesIsMembership

\* The table after a request of a call: one row each, rows that are in order,
\* and the management VLAN with its ports.
LEMMA RequestsKeepTable ==
    ASSUME ProviderUse, AllSafe, pc = "send", NEW r \in Ready, Accept(r)
    PROVE  /\ DeviceOK' /\ RowsOK(vlans)' /\ OneRowEach(vlans)' /\ SlotsUnique'
           /\ RowsOK(vlans) /\ OneRowEach(vlans) /\ UNCHANGED session
           /\ \A p : p \in MembersOf(vlans, Management) => p \in MembersOf(vlans', Management)
           /\ call.op \in {"ensure", "delete", "port"}
           /\ r.cgi = "pvid" \/ (RowRequestOK(r) /\ r \in Pending)
<1>1. WellFormedRequest(r) /\ (r.cgi = "pvid" \/ (RowRequestOK(r) /\ r \in Pending))
  BY DEF AllSafe, IInv, TodoOK, Ready, Pending, RowRequestOK, WellFormedRequest
<1>2. r.cgi = "add" => Fresh(r)
  BY <1>1 DEF AllSafe, SlotsKept, Pending, Ready, IInv, TodoOK
<1>3. DeviceOK /\ SlotsUnique
  BY DEF AllSafe, IInv, SlotsKept
<1>4. DeviceOK' /\ UNCHANGED session
  BY <1>1, <1>3, AcceptKeepsDevice
<1>5. SlotsUnique'
  BY <1>1, <1>2, <1>3, AcceptKeepsSlots
<1>6. OneRowEach(vlans) /\ OneRowEach(vlans)'
  BY <1>3, <1>5 DEF OneRowEach, SlotsUnique
<1>7. ~call.force /\ call.op \in {"ensure", "delete", "port"}
  BY ProvidersCall DEF AllSafe
<1>8. OthersStayOut
  BY DEF ProviderUse, OthersStayOut
<1>9. MembersOf(vlans, Management) \subseteq MembersOf(vlans, Management)'
  BY <1>7, <1>8, SendingKeepsManagement DEF AllSafe
<1> QED
  BY <1>1, <1>3, <1>4, <1>5, <1>6, <1>7, <1>9 DEF DeviceOK

\* What is shown of every step: it is one of the abstract switch's or none, and
\* leaves every native VLAN in order.
Shown ==
    /\ NativeVLANBelongs' /\ (\A e \in vlans' : e.vid \in KnownVIDs)
    /\ PV!Next \/ UNCHANGED <<vlans, pvid>>

\* EnsureVLAN's request creates a VLAN without ports.
LEMMA EnsureSent ==
    ASSUME ProviderUse, AllSafe, pc = "send", session = "driver", call.op = "ensure",
           NEW r \in Ready, Accept(r)
    PROVE  Shown
<1>1. /\ r.cgi = "add" /\ r.vid = call.vid /\ r.tagMbrs = {} /\ r.untagMbrs = {}
      /\ r \in todo.joins
  BY DEF AllSafe, ViewSafe, Left, EnsureLeft, Ready
<1>2. /\ RowsOK(vlans) /\ RowsOK(vlans)' /\ OneRowEach(vlans) /\ OneRowEach(vlans)'
      /\ RowRequestOK(r)
  BY <1>1, RequestsKeepTable
<1>3. r.vid \in KnownVIDs
  <2>1. call \in Calls
    BY DEF AllSafe, IInv, CallOK
  <2> QED
    BY <1>1, <2>1 DEF KnownVIDs
<1>4. ~HasVLAN(vlans, r.vid)
  BY <1>1 DEF AllSafe, SlotsKept, Fresh, HasVLAN
<1>5. vlans' = vlans \cup {Added(r)} /\ UNCHANGED pvid
  BY <1>1, <1>2, AcceptedRequest
<1>6. Added(r).vid = r.vid /\ Added(r).tagged = {} /\ Added(r).untagged = {}
  BY <1>1 DEF Added
<1>7. PV!Next
  <2>1. PV!Create(Added(r).vid)
    BY <1>3, <1>4, <1>5, <1>6, CreateStep
  <2> QED
    BY <1>3, <1>6, <2>1 DEF PV!Next
<1>8. ASSUME NEW p \in Port PROVE p \in MembersOf(vlans', pvid'[p])
  BY <1>2, <1>5, NativesStay DEF AllSafe, ViewSafe, NativeVLANBelongs
<1>9. \A e \in vlans' : e.vid \in KnownVIDs
  BY <1>3, <1>5, <1>6 DEF AllSafe, ViewSafe
<1> QED
  BY <1>7, <1>8, <1>9 DEF Shown, NativeVLANBelongs

\* DeleteVLAN's request removes a VLAN that is no port's native VLAN, or the
\* device refuses it.
LEMMA DeleteSent ==
    ASSUME ProviderUse, AllSafe, pc = "send", session = "driver", call.op = "delete",
           NEW r \in Ready, Accept(r)
    PROVE  Shown
<1>1. r.cgi = "del" /\ r \in todo.leaves
  BY DEF AllSafe, ViewSafe, Left, DeleteLeft, Ready
<1>2. /\ RowsOK(vlans) /\ RowsOK(vlans)' /\ OneRowEach(vlans) /\ OneRowEach(vlans)'
      /\ RowRequestOK(r)
  BY <1>1, RequestsKeepTable
<1>3. CASE UNCHANGED <<vlans, pvid>>
  BY <1>3 DEF Shown, AllSafe, ViewSafe, NativeVLANBelongs
<1>4. CASE /\ \A p \in Port : pvid[p] # r.vid
           /\ vlans' = WithoutVLAN(vlans, r.vid) /\ UNCHANGED pvid
  <2>1. ASSUME NEW p \in Port PROVE p \in MembersOf(vlans', pvid'[p])
    BY <1>2, <1>4, NativesStay DEF AllSafe, ViewSafe, NativeVLANBelongs, WithoutVLAN
  <2>2. \A e \in vlans' : e.vid \in KnownVIDs
    BY <1>4 DEF AllSafe, ViewSafe, WithoutVLAN
  <2>3. CASE HasVLAN(vlans, r.vid)
    <3>1. r.vid \in KnownVIDs
      BY <2>3 DEF HasVLAN, AllSafe, ViewSafe
    <3>2. ASSUME r.vid = Management, NEW e \in vlans, e.vid = r.vid PROVE Members(e) = {}
      <4>1. KeepsManagement(r)
        BY <1>1, <3>2, ProvidersCall DEF AllSafe, ManagementSafe, Pending
      <4>2. MembersOf(vlans, Management) = {}
        BY <1>1, <4>1 DEF KeepsManagement
      <4> QED
        BY <1>2, <3>2, <4>2, CarriesIsMembership
    <3>3. DOMAIN pvid = Port
      BY DEF AllSafe, IInv, DeviceOK, Natives
    <3>4. PV!Remove(r.vid)
      BY <1>4, <2>3, <3>1, <3>2, <3>3, RemoveStep
    <3>5. PV!Next
      BY <3>1, <3>4 DEF PV!Next
    <3> QED
      BY <2>1, <2>2, <3>5 DEF Shown, NativeVLANBelongs
  <2>4. CASE ~HasVLAN(vlans, r.vid)
    <3>1. vlans' = vlans
      BY <1>4, <2>4 DEF HasVLAN, WithoutVLAN
    <3> QED
      BY <1>3, <1>4, <3>1
  <2> QED
    BY <2>3, <2>4
<1> QED
  BY <1>1, <1>2, <1>3, <1>4, AcceptedRequest

\* WritePort's requests for rows: each moves the bit of the call's port in one
\* row, into a VLAN that is wanted or out of one that is not.
LEMMA PortRowSent ==
    ASSUME ProviderUse, AllSafe, pc = "send", session = "driver", call.op = "port",
           NEW r \in Ready, r \notin todo.pvids, Accept(r)
    PROVE  /\ UNCHANGED pvid
           /\ vlans' = {Modified(r, e) : e \in vlans}
           /\ \E e \in vlans :
                /\ e.vid = r.vid
                /\ Modified(r, e).tagged \ {call.port} = e.tagged \ {call.port}
                /\ Modified(r, e).untagged \ {call.port} = e.untagged \ {call.port}
                /\ call.port \in Members(Modified(r, e)) <=> r.vid \in Wanted
           /\ \A e \in vlans : /\ Modified(r, e).vid = e.vid
                               /\ e.vid # r.vid => Modified(r, e) = e
<1>1. r \in Pending /\ PortLeft
  BY DEF AllSafe, ViewSafe, Left, Ready, Pending
<1>2. MovesRow(r) /\ r.cgi = "mod" /\ call.port \in Port
  BY <1>1 DEF PortLeft, MovesRow
<1>3. RowRequestOK(r) /\ RowsOK(vlans)
  BY <1>2, RequestsKeepTable
<1>4. UNCHANGED pvid /\ vlans' = {Modified(r, e) : e \in vlans}
  BY <1>2, <1>3, AcceptedRequest
<1>5. ASSUME NEW e \in vlans
      PROVE  /\ Modified(r, e).vid = e.vid
             /\ e.vid = r.vid => /\ Modified(r, e).tagged = r.tagMbrs
                                 /\ Modified(r, e).untagged = r.untagMbrs
             /\ e.vid # r.vid => Modified(r, e) = e
  BY <1>3, ModifiedRow DEF RowsOK
<1>6. PICK e \in vlans : /\ r.vid = e.vid
                         /\ r.tagMbrs = Moved(e).tagged /\ r.untagMbrs = Moved(e).untagged
  BY <1>2 DEF MovesRow
<1>7. /\ Moved(e).tagged \ {call.port} = e.tagged \ {call.port}
      /\ Moved(e).untagged \ {call.port} = e.untagged \ {call.port}
      /\ call.port \in Moved(e).tagged <=> e.vid \in call.tagged
      /\ call.port \in Moved(e).untagged <=> e.vid \in Disjoint(call.tagged, call.untagged)
  <2>1. call.tagged \cap Disjoint(call.tagged, call.untagged) = {}
    BY DEF Disjoint
  <2>2. e \in Row /\ e.tagged \cap e.untagged = {}
    BY <1>3 DEF RowsOK
  <2> QED
    BY <1>2, <2>1, <2>2, MovedRow DEF Moved
<1>8. call.port \in Members(Modified(r, e)) <=> r.vid \in Wanted
  BY <1>5, <1>6, <1>7 DEF Members, Wanted
<1> QED
  BY <1>4, <1>5, <1>6, <1>7, <1>8

\* The VLANs that a port carries are those whose members it is among.
LEMMA CarriedIsMember ==
    ASSUME NEW rows, RowsOK(rows), OneRowEach(rows), NEW natives, NEW p, NEW vid
    PROVE  vid \in PV!Carries(ReadPort(rows, natives, p)) <=> p \in MembersOf(rows, vid)
<1>1. /\ ReadPort(rows, natives, p).tagged = {e.vid : e \in {f \in rows : p \in f.tagged}}
      /\ ReadPort(rows, natives, p).untagged = {e.vid : e \in {f \in rows : p \in f.untagged}}
  BY DEF ReadPort, PVIDOf
<1> QED
  BY <1>1, CarriesIsMembership DEF PV!Carries, Members

\* What joins or leaves one VLAN is one port, and not its native VLAN.
LEMMA PortRowShown ==
    ASSUME ProviderUse, AllSafe, pc = "send", session = "driver", call.op = "port",
           NEW r \in Ready, r \notin todo.pvids, Accept(r)
    PROVE  Shown
<1> DEFINE q == call.port
           new(e) == Modified(r, e)
<1>1. /\ UNCHANGED pvid
      /\ vlans' = {new(e) : e \in vlans}
      /\ \A e \in vlans : new(e).vid = e.vid /\ (e.vid # r.vid => new(e) = e)
  BY PortRowSent
<1>2. PICK e \in vlans : /\ e.vid = r.vid
                         /\ new(e).tagged \ {q} = e.tagged \ {q}
                         /\ new(e).untagged \ {q} = e.untagged \ {q}
                         /\ q \in Members(new(e)) <=> r.vid \in Wanted
  BY PortRowSent
<1>3. /\ RowsOK(vlans) /\ RowsOK(vlans)' /\ OneRowEach(vlans) /\ OneRowEach(vlans)'
      /\ \A p : p \in MembersOf(vlans, Management) => p \in MembersOf(vlans', Management)
  BY RequestsKeepTable
<1>4. /\ PortLeft /\ NativeVLANBelongs /\ \A f \in vlans : f.vid \in KnownVIDs
      /\ r \in Pending
  BY DEF AllSafe, ViewSafe, Left, Ready, Pending
<1>5. q \in Port
  BY <1>4 DEF PortLeft
<1> HIDE DEF new
<1>6. \A f \in vlans : f.vid = e.vid => f = e
  BY <1>3 DEF OneRowEach
<1>7. r \in todo.joins => r.vid \in Wanted
  BY <1>4 DEF PortLeft
<1>8. r \notin todo.joins => r.vid # pvid[q]
  <2> HAVE r \notin todo.joins
  <2>1. todo.pvids = {} /\ r \in todo.leaves
    BY DEF Ready
  <2> QED
    BY <1>4, <2>1 DEF PortLeft, Wanted
<1>9. ASSUME NEW f \in vlans, NEW p \in Port, p \in Members(f), p # q \/ f.vid = pvid[q]
      PROVE  p \in Members(new(f))
  <2>1. CASE f.vid # r.vid
    BY <1>1, <1>9, <2>1
  <2>2. CASE f.vid = r.vid
    <3>1. f = e
      BY <1>2, <1>6, <2>2
    <3> QED
      BY <1>2, <1>7, <1>8, <1>9, <2>2, <3>1 DEF Members
  <2> QED
    BY <2>1, <2>2
<1>10. ASSUME NEW p \in Port PROVE p \in MembersOf(vlans', pvid'[p])
  <2>1. p \in MembersOf(vlans, pvid[p])
    BY <1>4 DEF NativeVLANBelongs
  <2>2. ASSUME NEW f \in vlans, f.vid = pvid[p], p \in Members(f)
        PROVE  \E g \in vlans' : g.vid = pvid'[p] /\ p \in Members(g)
    <3>1. p \in Members(new(f))
      BY <1>9, <2>2
    <3>2. new(f) \in vlans' /\ new(f).vid = pvid'[p]
      BY <1>1, <2>2
    <3> QED
      BY <3>1, <3>2
  <2> QED
    BY <1>3, <2>1, <2>2, NativesStay
<1>11. VIDsOf(vlans') = VIDsOf(vlans) /\ \A f \in vlans' : f.vid \in KnownVIDs
  BY <1>1, <1>4 DEF VIDsOf
<1>12. ASSUME NEW p, p # q
       PROVE  ReadPort(vlans', pvid', p) = ReadPort(vlans, pvid, p)
  <2>1. \A f \in vlans : /\ p \in new(f).tagged <=> p \in f.tagged
                         /\ p \in new(f).untagged <=> p \in f.untagged
    BY <1>1, <1>2, <1>6, <1>12
  <2>2. /\ {f.vid : f \in {g \in vlans' : p \in g.tagged}} =
             {f.vid : f \in {g \in vlans : p \in g.tagged}}
        /\ {f.vid : f \in {g \in vlans' : p \in g.untagged}} =
             {f.vid : f \in {g \in vlans : p \in g.untagged}}
    BY <1>1, <2>1
  <2> QED
    BY <1>1, <2>2 DEF ReadPort, PVIDOf
<1>13. PV!Sound(ReadPort(vlans', pvid', q), VIDsOf(vlans))
  <2>1. q \in DOMAIN pvid'
    BY <1>1, <1>5 DEF AllSafe, IInv, DeviceOK, Natives
  <2>2. q \in MembersOf(vlans', pvid'[q])
    BY <1>5, <1>10
  <2>3. PV!Sound(ReadPort(vlans', pvid', q), {f.vid : f \in vlans'})
    BY <1>3, <1>11, <2>1, <2>2, ViewIsSound
  <2> QED
    BY <1>11, <2>3 DEF VIDsOf
<1>14. LET old == ReadPort(vlans, pvid, q)
           now == ReadPort(vlans', pvid', q)
       IN  /\ now.pvid = old.pvid
           /\ now.tagged \ {r.vid} = old.tagged \ {r.vid}
           /\ now.untagged \ {r.vid} = old.untagged \ {r.vid}
           /\ r.vid \in KnownVIDs
  <2>1. /\ {f.vid : f \in {g \in vlans' : q \in g.tagged}} \ {r.vid} =
             {f.vid : f \in {g \in vlans : q \in g.tagged}} \ {r.vid}
        /\ {f.vid : f \in {g \in vlans' : q \in g.untagged}} \ {r.vid} =
             {f.vid : f \in {g \in vlans : q \in g.untagged}} \ {r.vid}
    BY <1>1
  <2> QED
    BY <1>1, <1>2, <1>4, <2>1 DEF ReadPort, PVIDOf
<1>15. Management \in PV!Carries(ReadPort(vlans, pvid, q)) =>
         Management \in PV!Carries(ReadPort(vlans', pvid', q))
  BY <1>3, CarriedIsMember
<1>16. PV!Move(q)
  BY <1>5, <1>11, <1>12, <1>13, <1>14, <1>15, MoveStep
<1> QED
  BY <1>5, <1>10, <1>11, <1>16 DEF Shown, NativeVLANBelongs, PV!Next

\* WritePort's native VLAN: the other ports keep theirs, and the port belongs to
\* its new one, because its joins have gone before.
LEMMA PVIDSent ==
    ASSUME ProviderUse, AllSafe, pc = "send", session = "driver", call.op = "port",
           NEW r \in Ready, r \in todo.pvids, Accept(r)
    PROVE  /\ UNCHANGED vlans /\ call.port \in Port
           /\ pvid' \in Natives
           /\ \A p \in Port : pvid'[p] = IF p = call.port THEN call.pvid ELSE pvid[p]
           /\ \E e \in vlans : e.vid = call.pvid /\ call.port \in Members(e)
<1>1. r.cgi = "pvid" /\ PortLeft /\ todo.joins = {} /\ DeviceOK'
  <2>1. r.cgi = "pvid"
    BY DEF AllSafe, IInv, TodoOK
  <2>2. todo.joins = {}
    BY <2>1 DEF Ready, AllSafe, IInv, TodoOK, RowRequestOK
  <2> QED
    BY <2>1, <2>2, RequestsKeepTable DEF AllSafe, ViewSafe, Left
<1>2. SetPVIDs(r)
  BY <1>1 DEF Accept
<1>3. /\ call.port \in Port /\ call.pvid \in Wanted
      /\ \A vid \in Wanted : HasVLAN(vlans, vid)
      /\ \A p \in Port : r.vids[p - 1] = IF p = call.port THEN call.pvid ELSE pvid[p]
      /\ \A p \in Port : p - 1 \in DOMAIN r.vids
      /\ \A e \in vlans : e.vid \in Wanted => call.port \in Members(e)
  BY <1>1 DEF PortLeft, Wanted
<1>4. ASSUME NEW p \in Port
      PROVE  pvid'[p] = IF p = call.port THEN call.pvid ELSE pvid[p]
  <2>1. pvid'[p] = IF HasVLAN(vlans, r.vids[p - 1]) THEN r.vids[p - 1] ELSE pvid[p]
    BY <1>2, <1>3 DEF SetPVIDs
  <2> QED
    BY <1>3, <2>1
<1>5. UNCHANGED vlans /\ \E e \in vlans : e.vid = call.pvid /\ call.port \in Members(e)
  BY <1>2, <1>3 DEF SetPVIDs, HasVLAN
<1> QED
  BY <1>1, <1>3, <1>4, <1>5 DEF DeviceOK

\* To the abstract switch it is a step of one port, which gets a native VLAN that
\* it carries.
LEMMA PVIDShown ==
    ASSUME ProviderUse, AllSafe, pc = "send", session = "driver", call.op = "port",
           NEW r \in Ready, r \in todo.pvids, Accept(r)
    PROVE  Shown
<1> DEFINE q == call.port
<1>1. /\ vlans' = vlans /\ q \in Port /\ q \in DOMAIN pvid'
      /\ \A p \in Port : pvid'[p] = IF p = q THEN call.pvid ELSE pvid[p]
      /\ \E e \in vlans : e.vid = call.pvid /\ q \in Members(e)
  BY PVIDSent DEF Natives
<1>2. RowsOK(vlans) /\ OneRowEach(vlans)
  BY RequestsKeepTable
<1>3. NativeVLANBelongs /\ \A f \in vlans : f.vid \in KnownVIDs
  BY DEF AllSafe, ViewSafe
<1>4. Port = DOMAIN pvid /\ Port = DOMAIN pvid'
  BY PVIDSent DEF AllSafe, IInv, DeviceOK, Natives
<1>5. ASSUME NEW p \in Port PROVE p \in MembersOf(vlans', pvid'[p])
  <2>1. CASE p = q
    BY <1>1, <1>2, <2>1, CarriesIsMembership
  <2>2. CASE p # q
    BY <1>1, <1>3, <2>2 DEF NativeVLANBelongs
  <2> QED
    BY <2>1, <2>2
<1>6. ASSUME NEW p \in Port, p # q
      PROVE  ReadPort(vlans', pvid', p) = ReadPort(vlans, pvid, p)
  BY <1>1, <1>4, <1>6 DEF ReadPort, PVIDOf
<1>7. PV!Sound(ReadPort(vlans', pvid', q), VIDsOf(vlans))
  <2>1. q \in MembersOf(vlans, pvid'[q])
    BY <1>1, <1>5
  <2> DEFINE natives == pvid'
  <2> HIDE DEF natives
  <2>2. q \in DOMAIN natives /\ q \in MembersOf(vlans, natives[q])
    BY <1>1, <2>1 DEF natives
  <2>3. PV!Sound(ReadPort(vlans, natives, q), {f.vid : f \in vlans})
    BY <1>2, <1>3, <2>2, ViewIsSound
  <2> QED
    BY <1>1, <2>3 DEF VIDsOf, natives
<1>8. /\ ReadPort(vlans', pvid', q).tagged = ReadPort(vlans, pvid, q).tagged
      /\ ReadPort(vlans', pvid', q).untagged = ReadPort(vlans, pvid, q).untagged
  BY <1>1 DEF ReadPort, PVIDOf
<1>9. PV!Move(q)
  <2>1. VIDsOf(vlans') = VIDsOf(vlans)
    BY <1>1
  <2> QED
    BY <1>1, <1>6, <1>7, <1>8, <2>1, MoveStep DEF PV!Carries
<1> QED
  BY <1>1, <1>3, <1>5, <1>9 DEF Shown, NativeVLANBelongs, PV!Next

\* Every request of a call that the device takes is shown to be such a step.
LEMMA SentIsShown ==
    ASSUME ProviderUse, AllSafe, pc = "send", NEW r \in Ready, Accept(r)
    PROVE  Shown
<1>1. call.op \in {"ensure", "delete", "port"} /\ session \in {"free", "driver"}
  BY ProvidersCall DEF AllSafe, IInv, DeviceOK
<1>2. CASE session = "free"
  BY <1>2 DEF Accept, Shown, AllSafe, ViewSafe, NativeVLANBelongs
<1>3. CASE session = "driver"
  BY <1>1, <1>3, EnsureSent, DeleteSent, PortRowShown, PVIDShown
<1> QED
  BY <1>1, <1>2, <1>3

\* What is left to send goes on being what the device needs.
LEMMA LeftStays ==
    ASSUME ProviderUse, AllSafe, session = "driver", NEW r \in Ready, SendWrite(r)
    PROVE  Left'
<1>1. /\ pc = "send" /\ Accept(r) /\ UNCHANGED call
      /\ todo' = [joins |-> todo.joins \ {r}, pvids |-> todo.pvids \ {r},
                  leaves |-> todo.leaves \ {r}]
  BY DEF SendWrite, NextToSend, Without, AllSafe, IInv, TodoOK, ProviderUse
<1>2. /\ todo'.joins = todo.joins \ {r} /\ todo'.pvids = todo.pvids \ {r}
      /\ todo'.leaves = todo.leaves \ {r} /\ Pending' = Pending \ {r}
  BY <1>1 DEF Pending
<1>3. Left
  BY <1>1 DEF AllSafe, ViewSafe
<1>4. call.op = "ensure" => EnsureLeft'
  BY <1>1, <1>2, <1>3 DEF Left, EnsureLeft
<1>5. call.op = "delete" => DeleteLeft'
  BY <1>2, <1>3 DEF Left, DeleteLeft
<1>6. ASSUME call.op = "port", r \in todo.pvids PROVE PortLeft'
  <2>1. /\ UNCHANGED vlans
        /\ \A p \in Port : pvid'[p] = IF p = call.port THEN call.pvid ELSE pvid[p]
    BY <1>1, <1>6, PVIDSent
  <2>2. PortLeft
    BY <1>3, <1>6 DEF Left
  <2>3. r \notin todo.joins
    BY <1>6 DEF AllSafe, IInv, TodoOK, RowRequestOK
  <2>4. \A s : MovesRow(s) => MovesRow(s)'
    BY <1>1, <2>1 DEF MovesRow, Moved
  <2>5. UNCHANGED Wanted
    BY <1>1 DEF Wanted
  <2> QED
    BY <1>1, <1>2, <2>1, <2>2, <2>3, <2>4, <2>5 DEF PortLeft
<1>7. ASSUME call.op = "port", r \notin todo.pvids PROVE PortLeft'
  <2> DEFINE new(e) == Modified(r, e)
  <2>1. /\ UNCHANGED pvid /\ vlans' = {new(e) : e \in vlans}
        /\ \A e \in vlans : new(e).vid = e.vid /\ (e.vid # r.vid => new(e) = e)
    BY <1>1, <1>7, PortRowSent
  <2>2. PICK e \in vlans : /\ e.vid = r.vid
                           /\ call.port \in Members(new(e)) <=> r.vid \in Wanted
    BY <1>1, <1>7, PortRowSent
  <2>3. PortLeft /\ r \in Pending
    BY <1>3, <1>7 DEF Left, Ready, Pending
  <2>4. \A f \in vlans : f.vid = e.vid => f = e
    BY OneRowPerVLAN DEF AllSafe, SlotsKept, OneRowEach
  <2> HIDE DEF new
  <2>5. \A vid : HasVLAN(vlans', vid) <=> HasVLAN(vlans, vid)
    BY <2>1 DEF HasVLAN
  <2>6. ASSUME NEW s \in Pending' PROVE MovesRow(s)'
    <3>1. s \in Pending /\ s # r /\ s.vid # r.vid
      BY <1>2, <2>3 DEF PortLeft
    <3>2. MovesRow(s)
      BY <2>3, <3>1 DEF PortLeft
    <3>3. PICK f \in vlans : /\ s.vid = f.vid
                             /\ s.tagMbrs = Moved(f).tagged /\ s.untagMbrs = Moved(f).untagged
      BY <3>2 DEF MovesRow
    <3>4. f \in vlans' /\ s.cgi = "mod"
      BY <2>1, <3>1, <3>2, <3>3 DEF MovesRow
    <3> QED
      BY <1>1, <3>3, <3>4 DEF MovesRow, Moved
  <2>7. ASSUME NEW g \in vlans', g.vid \in Wanted
        PROVE  call.port \in Members(g) \/ \E s \in todo'.joins : s.vid = g.vid
    <3>1. PICK f \in vlans : g = new(f)
      BY <2>1
    <3>2. CASE f.vid = r.vid
      BY <2>1, <2>2, <2>4, <2>7, <3>1, <3>2
    <3>3. CASE f.vid # r.vid
      BY <1>2, <2>1, <2>3, <2>7, <3>1, <3>3 DEF PortLeft
    <3> QED
      BY <3>2, <3>3
  <2>8. \A s, t \in Pending' : t.vid = s.vid => t = s
    BY <1>2, <2>3 DEF PortLeft
  <2>9. UNCHANGED Wanted /\ todo'.pvids = todo.pvids
    BY <1>1, <1>2, <1>7 DEF Wanted
  <2>10. /\ call.port \in Port /\ call.pvid \in Disjoint(call.tagged, call.untagged)
         /\ \A vid \in Wanted : HasVLAN(vlans', vid)
         /\ \A s \in todo'.joins : s.vid \in Wanted
         /\ \A s \in todo'.leaves : s.vid \notin Wanted
    BY <1>2, <2>3, <2>5 DEF PortLeft
  <2>11. /\ \A s \in todo'.pvids :
              /\ DOMAIN s.vids = {p - 1 : p \in Port}
              /\ \A p \in Port : s.vids[p - 1] = IF p = call.port THEN call.pvid ELSE pvid'[p]
         /\ todo'.pvids = {} => pvid'[call.port] = call.pvid
    BY <2>1, <2>3, <2>9 DEF PortLeft
  <2> QED
    BY <1>1, <2>6, <2>7, <2>8, <2>9, <2>10, <2>11 DEF PortLeft
<1> QED
  BY <1>1, <1>4, <1>5, <1>6, <1>7 DEF Left

\* Every step of the driver is one of the abstract switch's, or none, and
\* keeps what the next one needs.
LEMMA StepsAreShown ==
    ASSUME ProviderUse, AllSafe, [Next]_vars
    PROVE  ViewSafe' /\ (PV!Next \/ UNCHANGED <<vlans, pvid>>)
<1>1. ASSUME UNCHANGED <<vlans, pvid>>, pc' # "send" \/ session' # "driver"
      PROVE  ViewSafe' /\ UNCHANGED <<vlans, pvid>>
  BY <1>1 DEF AllSafe, ViewSafe, NativeVLANBelongs
<1>2. ASSUME UNCHANGED <<vlans, pvid, driver>>, session' = "driver" => session = "driver"
      PROVE  ViewSafe' /\ UNCHANGED <<vlans, pvid>>
  BY <1>2 DEF AllSafe, ViewSafe, NativeVLANBelongs, Left, EnsureLeft, DeleteLeft, PortLeft,
     MovesRow, Moved, Pending, Wanted, driver
<1>3. ASSUME Shown, pc' # "send"
      PROVE  ViewSafe' /\ (PV!Next \/ UNCHANGED <<vlans, pvid>>)
  BY <1>3 DEF Shown, ViewSafe
<1>4. CASE UNCHANGED vars
  BY <1>2, <1>4 DEF vars, device
<1>5. CASE \/ \E c \in Calls : Start(c)
           \/ Login \/ ReadTable \/ ReadPage \/ ReadFails \/ Verify \/ LogsOut \/ LogoutFails
  <2>1. UNCHANGED <<vlans, pvid>> /\ pc' # "send"
    BY <1>5 DEF Start, Login, Logon, ReadTable, ReadPage, ReadFails, Finish, Verify, LogsOut,
       LogoutFails, Logout, Return, device
  <2> QED
    BY <1>1, <2>1
<1>6. CASE Plan
  <2>1. UNCHANGED <<vlans, pvid, session>>
    BY <1>6 DEF Plan, PlanEnsure, PlanVLAN, PlanDelete, PlanPVID, PlanPort, Decided, Proceed,
       device
  <2>2. CASE pc' = "send" /\ session = "driver"
    <3>1. Left'
      BY <1>6, <2>2, PlansLeave
    <3> QED
      BY <2>1, <3>1 DEF AllSafe, ViewSafe, NativeVLANBelongs
  <2> QED
    BY <1>1, <2>1, <2>2
<1>7. ASSUME NEW r \in Ready, SendWrite(r)
      PROVE  ViewSafe' /\ (PV!Next \/ UNCHANGED <<vlans, pvid>>)
  <2>1. pc = "send" /\ Accept(r) /\ UNCHANGED session
    BY <1>7 DEF SendWrite, ProviderUse, Accept
  <2>2. Shown
    BY <2>1, SentIsShown
  <2>3. session = "driver" => Left'
    BY <1>7, LeftStays
  <2> QED
    BY <2>1, <2>2, <2>3 DEF Shown, ViewSafe
<1>8. ASSUME NEW r \in Ready, SendFails(r)
      PROVE  ViewSafe' /\ (PV!Next \/ UNCHANGED <<vlans, pvid>>)
  <2>1. pc = "send" /\ pc' = "logout" /\ (Accept(r) \/ UNCHANGED device)
    BY <1>8 DEF SendFails, Finish
  <2>2. CASE Accept(r)
    BY <1>3, <2>1, <2>2, SentIsShown
  <2>3. CASE UNCHANGED device
    BY <1>1, <2>1, <2>3 DEF device
  <2> QED
    BY <2>1, <2>2, <2>3
<1>9. CASE SessionExpires \/ OtherLogsOut
  BY <1>2, <1>9 DEF SessionExpires, OtherLogsOut, Logout
<1>10. ~OtherLogsIn /\ ~OtherWrites
  BY DEF OtherLogsIn, OtherWrites, ProviderUse
<1> QED
  BY <1>4, <1>5, <1>6, <1>7, <1>8, <1>9, <1>10 DEF Next

\* The table that the device starts from is in order, and so is its view.
LEMMA StartsInOrder ==
    ASSUME ProviderUse, Init
    PROVE  ViewSafe /\ PV!Init
<1>1. PICK seed \in Seeds : vlans = seed[1] /\ pvid = seed[2]
  BY DEF Init
<1>2. SoundTable(vlans) /\ IsFiniteSet(vlans) /\ DOMAIN pvid = Port
  BY <1>1, SeedIsOK DEF Natives
<1>3. RowsOK(vlans) /\ OneRowEach(vlans)
  BY <1>2 DEF SoundTable, RowsOK, OneRowEach
<1>4. NativeVLANBelongs
  BY <1>1 DEF ProviderUse, NativeVLANBelongs
<1>5. \A e \in vlans : e.vid \in KnownVIDs
  BY <1>1 DEF KnownVIDs
<1>6. ASSUME NEW p \in Port PROVE PV!Sound(ReadPort(vlans, pvid, p), VIDsOf(vlans))
  BY <1>2, <1>3, <1>4, <1>5, <1>6, ViewIsSound DEF NativeVLANBelongs, VIDsOf
<1>7. ViewSafe
  BY <1>4, <1>5 DEF Init, ViewSafe
<1>8. PV!Init
  BY <1>5, <1>6 DEF PV!Init, PV!Sound, VIDsOf
<1> QED
  BY <1>7, <1>8

\* ProviderUse keeps everybody else out.
LEMMA ProvidersAlone == ProviderUse => OthersAddNone /\ OthersStayOut
  BY DEF ProviderUse, OthersAddNone, OthersStayOut

\* What the steps of the abstract switch rest on holds throughout.
THEOREM AllStaysSafe ==
    ASSUME ProviderUse
    PROVE  Spec => []AllSafe
<1>1. Init => ReadsDevice /\ SlotsKept /\ ManagementSafe /\ ViewSafe
  <2>1. Init => ReadsDevice /\ SlotsKept /\ ManagementSafe
    BY SeedsAssumption
       DEF Init, ReadsDevice, SlotsKept, SlotsUnique, ManagementSafe, OneRow, Pending,
           NothingToSend, SoundTable
  <2> QED
    BY <2>1, StartsInOrder
<1>2. AllSafe /\ [Next]_vars => ViewSafe'
  BY StepsAreShown
<1>3. IInv /\ ReadsDevice /\ ManagementSafe /\ [Next]_vars => ManagementSafe'
  BY ManagementStaysSafe, ProvidersAlone
<1>4. IInv /\ SlotsKept /\ [Next]_vars => SlotsKept'
  BY SlotsKeptStep, ProvidersAlone
<1> QED
  BY <1>1, <1>2, <1>3, <1>4, InductiveInvariant, ReadsDeviceStays, PTL DEF Spec, AllSafe

\* The native VLAN of a port is always one it belongs to, wherever a sequence of
\* the provider's calls breaks off: joins go before the native VLAN, which goes
\* before leaves, and DeleteVLAN removes no port's native VLAN.
THEOREM NativeVLANsBelong ==
    ASSUME ProviderUse
    PROVE  Spec => []NativeVLANBelongs
<1>1. AllSafe => NativeVLANBelongs
  BY DEF AllSafe, ViewSafe
<1> QED
  BY <1>1, AllStaysSafe, PTL

\* The provider's calls implement the abstract switch, in which one port changes
\* at a time, in one respect at a time: every request that the device takes is
\* one of its steps, and every other step of the driver is none.
THEOREM CallsMoveOnePort ==
    ASSUME ProviderUse
    PROVE  Spec => ImplementsPortView
<1>1. Init => PV!Init
  BY StartsInOrder
<1>2. AllSafe /\ [Next]_vars =>
        [PV!Next]_<<{e.vid : e \in vlans}, [p \in Port |-> ReadPort(vlans, pvid, p)]>>
  <2>1. ASSUME UNCHANGED <<vlans, pvid>>
        PROVE  UNCHANGED <<{e.vid : e \in vlans}, [p \in Port |-> ReadPort(vlans, pvid, p)]>>
    BY <2>1
  <2> QED
    BY <2>1, StepsAreShown
<1> QED
  BY <1>1, <1>2, AllStaysSafe, PTL DEF Spec, ImplementsPortView, PV!Spec
=============================================================================
