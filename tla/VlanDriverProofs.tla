-------------------------- MODULE VlanDriverProofs --------------------------
(***************************************************************************)
(* Theorems about VlanDriver, for any calls, any table to start from, any  *)
(* number of ports, and every combination of faults.                       *)
(***************************************************************************)
EXTENDS VlanDriver, VlanTableProofs

----------------------------------------------------------------------------
(* The inductive invariant: what holds whoever interferes.                 *)

\* The session of a call has been asked for and not yet given back.
Working == pc \notin {"idle", "login"}

\* A configuration that was read has a list page, or the login page, which
\* shows neither native VLANs, nor ports, nor a management VLAN.
PageOK(pvids, portCount, mgmt) ==
    \/ DOMAIN pvids = {} /\ portCount = 0 /\ mgmt = 0
    \/ pvids \in Natives /\ portCount = PortCount /\ mgmt = Management

ReadOK(read) ==
    /\ read = [rows |-> read.rows, pvids |-> read.pvids,
               portCount |-> read.portCount, mgmt |-> read.mgmt]
    /\ RowsOK(read.rows)
    /\ PageOK(read.pvids, read.portCount, read.mgmt)

ConfigOK == ReadOK(config)

CallOK ==
    /\ call \in Calls \cup {NoCall}
    /\ pc # "idle" => call \in Calls
    /\ pc # "idle" /\ call.op \in {"ensure", "vlan"} => ValidVID(call.vid)

TodoOK ==
    /\ todo = [joins |-> todo.joins, pvids |-> todo.pvids, leaves |-> todo.leaves]
    /\ \A r \in todo.joins \cup todo.leaves : RowRequestOK(r)
    /\ \A r \in todo.pvids : r.cgi = "pvid"
    /\ pc # "send" => todo = NothingToSend

TagsOK ==
    /\ pc \in {"idle", "login", "table", "page", "plan", "send", "tableBack",
               "pageBack", "verify", "logout"}
    /\ outcome \in {"none", "ok", "error", "busy", "unsafe", "inUse"}

\* Who holds the session.  While the driver does, the page that it read is the
\* device's and not the login page.
SessionOK ==
    /\ ~SessionLoss /\ Working => session = "driver"
    /\ OtherRequests = {} => session # "other"
    /\ session = "driver" /\ pc \in {"plan", "verify"} => config.portCount = PortCount

IInv == DeviceOK /\ ConfigOK /\ CallOK /\ TodoOK /\ TagsOK /\ SessionOK

\* The fields of a call, by operation.
LEMMA CallFields ==
    ASSUME NEW c \in Calls
    PROVE  /\ c.op \in {"port", "ensure", "delete", "vlan", "pvid"} /\ c.force \in BOOLEAN
           /\ c.op = "port" => /\ c.port \in Int /\ c.pvid \in Int
                               /\ c.tagged \in SUBSET Int /\ c.untagged \in SUBSET Int
           /\ c.op \in {"ensure", "delete", "vlan"} => c.vid \in Int
           /\ c.op = "vlan" => c.tagged \in SUBSET Port /\ c.untagged \in SUBSET Port
           /\ c.op = "pvid" => /\ DOMAIN c.wanted \subseteq Int
                               /\ c.wanted \in [DOMAIN c.wanted -> Int]
  BY CallsAssumption, PortsAssumption DEF Call, PVIDCall

\* What a Config is made of.
LEMMA ReadIsOK ==
    ASSUME NEW rows, RowsOK(rows), NEW pvids, NEW portCount, NEW mgmt,
           PageOK(pvids, portCount, mgmt)
    PROVE  ReadOK([rows |-> rows, pvids |-> pvids, portCount |-> portCount, mgmt |-> mgmt])
  BY DEF ReadOK

\* The page that is read is the device's, or the login page if there is no
\* session.
LEMMA PageIsRead ==
    LET page == ParseListPage(ListPage)
    IN  /\ DeviceOK => PageOK(page.pvids, page.portCount, page.mgmt)
        /\ session # "free" => page = [pvids |-> pvid, portCount |-> PortCount,
                                      mgmt |-> Management]
        /\ session = "free" => DOMAIN page.pvids = {}
<1> DEFINE page == ParseListPage(ListPage)
<1>1. CASE session = "free"
  <2> DEFINE empty == <<>>
  <2>1. DOMAIN empty = {}
    OBVIOUS
  <2>2. page = [pvids |-> empty, portCount |-> 0, mgmt |-> 0]
    BY <1>1 DEF ParseListPage, ListPage
  <2> HIDE DEF empty, page
  <2>3. DOMAIN page.pvids = {} /\ page.portCount = 0 /\ page.mgmt = 0
    BY <2>1, <2>2
  <2> QED
    BY <1>1, <2>3 DEF PageOK, page
<1>2. CASE session # "free"
  <2>1. page = [pvids |-> pvid, portCount |-> PortCount, mgmt |-> Management]
    BY <1>2 DEF ParseListPage, ListPage
  <2> HIDE DEF page
  <2>2. page.pvids = pvid /\ page.portCount = PortCount /\ page.mgmt = Management
    BY <2>1
  <2>3. DeviceOK => pvid \in Natives
    BY DEF DeviceOK
  <2>4. DeviceOK => PageOK(page.pvids, page.portCount, page.mgmt)
    <3>1. DeviceOK => PageOK(pvid, PortCount, Management)
      BY <2>3 DEF PageOK
    <3> QED
      BY <2>2, <3>1
  <2> QED
    BY <1>2, <2>1, <2>4, Zenon DEF page
<1> QED
  BY <1>1, <1>2

\* Nothing was read: there are no rows, and the values of the page are zero.
LEMMA NothingReadIsOK == ReadOK(NoConfig)
<1>1. IsFiniteSet({})
  BY FS_EmptySet
<1>2. DOMAIN <<>> = {}
  OBVIOUS
<1> DEFINE empty == <<>>
<1> HIDE DEF empty
<1>3. DOMAIN empty = {}
  BY <1>2 DEF empty
<1>4. RowsOK({}) /\ PageOK(empty, 0, 0)
  BY <1>1, <1>3 DEF RowsOK, PageOK
<1>5. ReadOK([rows |-> {}, pvids |-> empty, portCount |-> 0, mgmt |-> 0])
  BY <1>4, ReadIsOK
<1> QED
  BY <1>5 DEF NoConfig, empty

\* What the device is seeded with.
LEMMA SeedIsOK ==
    ASSUME NEW seed \in Seeds
    PROVE  SoundTable(seed[1]) /\ IsFiniteSet(seed[1]) /\ seed[2] \in Natives
  BY SeedsAssumption

\* What is planned is not sent without the device's table: at first there is
\* neither a call nor a configuration.
LEMMA InitIInv == Init => IInv
<1> SUFFICES ASSUME Init PROVE IInv
  OBVIOUS
<1>1. PICK seed \in Seeds : vlans = seed[1] /\ pvid = seed[2]
  BY DEF Init
<1>2. DeviceOK
  <2>1. SoundTable(vlans) /\ IsFiniteSet(vlans) /\ pvid \in Natives
    BY <1>1, SeedIsOK
  <2>2. RowsOK(vlans)
    BY <2>1 DEF SoundTable, RowsOK
  <2> QED
    BY <2>1, <2>2 DEF DeviceOK, Init
<1>3. ConfigOK
  BY NothingReadIsOK DEF Init, ConfigOK
<1>4. CallOK /\ TodoOK /\ TagsOK /\ SessionOK
  BY DEF Init, CallOK, TodoOK, NothingToSend, TagsOK, SessionOK, Working
<1> QED
  BY <1>2, <1>3, <1>4 DEF IInv

----------------------------------------------------------------------------
(* Every step keeps the inductive invariant.                               *)

\* A row that the driver wants is requested in a form the device can keep.
LEMMA RowRequestIsOK ==
    ASSUME NEW rows, RowsOK(rows), NEW wanted, wanted.vid \in 1..4094,
           wanted.tagged \in SUBSET Port, wanted.untagged \in SUBSET Port,
           wanted.tagged \cap wanted.untagged = {}
    PROVE  RowRequestOK(RowRequest(rows, wanted))
<1> DEFINE r == RowRequest(rows, wanted)
<1>1. /\ wanted.tagged \in SUBSET MappedPort /\ wanted.untagged \in SUBSET MappedPort
  BY PortsFit
<1>2. \A e \in rows : e.idx \in Nat
  BY DEF RowsOK, Row
<1>3. /\ r = [cgi |-> r.cgi, vid |-> wanted.vid, idx |-> r.idx,
              tagMbrs |-> wanted.tagged, untagMbrs |-> wanted.untagged]
      /\ r.cgi \in {"add", "mod"} /\ r.idx \in Nat
  BY <1>1, <1>2, RowRequestSends DEF RowsOK
<1> HIDE DEF r
<1>4. r.tagMbrs = wanted.tagged /\ r.untagMbrs = wanted.untagged
  BY <1>3
<1>5. r \in [cgi : {"add", "mod", "del"}, vid : 1..4094, idx : Nat,
             tagMbrs : SUBSET Port, untagMbrs : SUBSET Port]
  BY <1>3
<1>6. r.cgi # "pvid"
  BY <1>3
<1>7. RowRequestOK(r)
  BY <1>4, <1>5, <1>6 DEF RowRequestOK, WellFormedRequest
<1> QED
  BY <1>7 DEF r

\* So is the deletion of a row.
LEMMA DeleteRequestIsOK ==
    ASSUME NEW rows, RowsOK(rows), NEW e \in rows
    PROVE  RowRequestOK(DeleteRequest(e))
<1> DEFINE r == DeleteRequest(e)
<1>1. /\ e.vid \in 1..4094 /\ e.idx \in Nat /\ e.tagged \in SUBSET Port
      /\ e.untagged \in SUBSET Port /\ e.tagged \cap e.untagged = {}
  BY DEF RowsOK, Row
<1>2. e.tagged \in SUBSET MappedPort /\ e.untagged \in SUBSET MappedPort
  BY <1>1, PortsFit
<1>3. r = [cgi |-> "del", vid |-> e.vid, idx |-> e.idx, tagMbrs |-> e.tagged,
           untagMbrs |-> e.untagged]
  BY <1>2, PortBitsEncoded DEF DeleteRequest
<1> HIDE DEF r
<1>4. r \in [cgi : {"add", "mod", "del"}, vid : 1..4094, idx : Nat,
             tagMbrs : SUBSET Port, untagMbrs : SUBSET Port]
  BY <1>1, <1>3
<1>5. r.cgi # "pvid" /\ r.tagMbrs \cap r.untagMbrs = {}
  BY <1>1, <1>3
<1>6. RowRequestOK(r)
  BY <1>4, <1>5 DEF RowRequestOK, WellFormedRequest
<1> QED
  BY <1>6 DEF r

\* A row with the bit of a port moved is still a row.
LEMMA MovedRow ==
    ASSUME NEW e \in Row, e.tagged \cap e.untagged = {}, NEW port \in Port,
           NEW wantTagged, NEW wantUntagged, wantTagged \cap wantUntagged = {}
    PROVE  LET n == MoveBit(e, port, wantTagged, wantUntagged)
           IN  /\ n.vid = e.vid /\ n.idx = e.idx /\ n.idx \in Nat
               /\ n.tagged \in SUBSET Port /\ n.untagged \in SUBSET Port
               /\ n.tagged \cap n.untagged = {}
               /\ n.tagged \ {port} = e.tagged \ {port}
               /\ n.untagged \ {port} = e.untagged \ {port}
               /\ port \in n.tagged <=> e.vid \in wantTagged
               /\ port \in n.untagged <=> e.vid \in wantUntagged
<1> DEFINE v == e.vid
           i == e.idx
           t == e.tagged
           u == e.untagged
<1>1. e = [vid |-> v, idx |-> i, tagged |-> t, untagged |-> u]
  BY DEF Row
<1>2. /\ i \in Nat /\ t \in SUBSET Port /\ u \in SUBSET Port
      /\ t \cap u = {}
  BY DEF Row
<1> HIDE DEF v, i, t, u
<1> DEFINE n == MoveBit(e, port, wantTagged, wantUntagged)
<1>3. /\ n.vid = v /\ n.idx = i
      /\ n.tagged \ {port} = t \ {port} /\ n.untagged \ {port} = u \ {port}
      /\ n.tagged \cap n.untagged = {}
      /\ port \in n.tagged <=> v \in wantTagged
      /\ port \in n.untagged <=> v \in wantUntagged
  BY <1>1, <1>2, MoveBitMovesOnePort
<1> HIDE DEF n
<1>4. n.tagged \in SUBSET Port /\ n.untagged \in SUBSET Port
  <2>1. n.tagged \subseteq t \cup {port} /\ n.untagged \subseteq u \cup {port}
    BY <1>3
  <2> QED
    BY <1>2, <2>1
<1> QED
  BY <1>2, <1>3, <1>4 DEF n, v, i, t, u

\* The planned changes to a port are requested in such a form too.
LEMMA PortRequestsAreOK ==
    ASSUME NEW rows, RowsOK(rows), NEW port \in Port,
           NEW wantTagged, NEW wantUntagged, wantTagged \cap wantUntagged = {}
    PROVE  LET plan == PlanPortChanges(rows, port, wantTagged, wantUntagged)
           IN  \A n \in plan.joins \cup plan.leaves : RowRequestOK(RowRequest(rows, n))
<1> DEFINE plan == PlanPortChanges(rows, port, wantTagged, wantUntagged)
<1> SUFFICES ASSUME NEW n \in plan.joins \cup plan.leaves
             PROVE  RowRequestOK(RowRequest(rows, n))
  OBVIOUS
<1>1. \A e \in rows : /\ e = [vid |-> e.vid, idx |-> e.idx,
                              tagged |-> e.tagged, untagged |-> e.untagged]
                      /\ e.tagged \cap e.untagged = {}
  BY DEF RowsOK, Row
<1>2. PICK e \in rows : n = MoveBit(e, port, wantTagged, wantUntagged)
  BY <1>1, PortPlan
<1>3. e \in Row /\ e.tagged \cap e.untagged = {}
  BY DEF RowsOK
<1>4. /\ n.vid \in 1..4094 /\ n.tagged \in SUBSET Port /\ n.untagged \in SUBSET Port
      /\ n.tagged \cap n.untagged = {}
  <2> HIDE DEF plan
  <2> DEFINE m == MoveBit(e, port, wantTagged, wantUntagged)
  <2>1. /\ m.vid = e.vid /\ m.tagged \in SUBSET Port /\ m.untagged \in SUBSET Port
        /\ m.tagged \cap m.untagged = {}
    BY <1>3, MovedRow
  <2> HIDE DEF m
  <2>2. n = m
    BY <1>2 DEF m
  <2>3. e.vid \in 1..4094
    BY DEF RowsOK, Row
  <2> QED
    BY <2>1, <2>2, <2>3
<1> QED
  BY <1>4, RowRequestIsOK

\* The port of a call that gets past WritePort's check is a port of the switch:
\* its number was compared with the one on the device's page.
LEMMA PortChecked ==
    ASSUME IInv, pc = "plan", call.op = "port",
           ~(call.port < 1 \/ (config.portCount > 0 /\ call.port > config.portCount))
    PROVE  call.port \in Port
<1>1. call \in Calls
  BY DEF IInv, CallOK
<1>2. CASE SessionLoss
  BY <1>1, <1>2, PortsAssumption
<1>3. CASE ~SessionLoss
  <2>1. config.portCount = PortCount
    BY <1>3 DEF IInv, SessionOK, Working
  <2>2. call.port \in Int /\ PortCount \in Nat /\ PortCount > 0
    BY <1>1, CallFields, SwitchAssumption DEF MappedPort
  <2> QED
    BY <2>1, <2>2 DEF Port
<1> QED
  BY <1>2, <1>3

\* Every plan, of whichever operation, is sent in a form the device can keep.
LEMMA PlansAreOK == ASSUME IInv, Plan PROVE TodoOK'
<1> DEFINE Quiet == todo' = NothingToSend
<1>1. /\ pc = "plan" /\ RowsOK(config.rows) /\ call \in Calls /\ todo = NothingToSend
      /\ call.op \in {"ensure", "vlan"} => call.vid \in 1..4094
  <2>1. pc = "plan"
    BY DEF Plan, PlanEnsure, PlanVLAN, PlanDelete, PlanPVID, PlanPort
  <2>2. RowsOK(config.rows) /\ todo = NothingToSend
    BY <2>1 DEF IInv, ConfigOK, ReadOK, TodoOK
  <2>3. call \in Calls /\ (call.op \in {"ensure", "vlan"} => ValidVID(call.vid))
    BY <2>1 DEF IInv, CallOK
  <2>4. call.op \in {"ensure", "vlan"} => call.vid \in Int
    BY <2>3, CallFields
  <2>5. ASSUME call.op \in {"ensure", "vlan"} PROVE call.vid \in 1..4094
    <3> DEFINE vid == call.vid
    <3>1. vid \in Int /\ 1 <= vid /\ vid <= 4094
      BY <2>3, <2>4, <2>5 DEF ValidVID
    <3> HIDE DEF vid
    <3>2. vid \in 1..4094
      BY <3>1
    <3> QED
      BY <3>2 DEF vid
  <2> QED
    BY <2>1, <2>2, <2>3, <2>5
<1>2. ASSUME UNCHANGED todo PROVE TodoOK'
  BY <1>1, <1>2 DEF TodoOK, NothingToSend
<1>3. ASSUME NEW joins, NEW pvids, NEW leaves,
             Proceed([joins |-> joins, pvids |-> pvids, leaves |-> leaves]),
             \A r \in joins \cup leaves : RowRequestOK(r), \A r \in pvids : r.cgi = "pvid"
      PROVE  TodoOK'
  BY <1>3 DEF Proceed, NextToSend, TodoOK, NothingToSend
<1>4. CASE PlanEnsure
  <2> DEFINE wanted == [vid |-> call.vid, idx |-> 0, tagged |-> {}, untagged |-> {}]
             r == RowRequest(config.rows, wanted)
  <2>1. CASE UNCHANGED todo
    BY <1>2, <2>1
  <2>2. CASE Proceed([NothingToSend EXCEPT !.joins = {r}])
    <3>1. RowRequestOK(r)
      BY <1>1, <1>4, RowRequestIsOK DEF PlanEnsure
    <3> HIDE DEF r
    <3>2. Proceed([joins |-> {r}, pvids |-> {}, leaves |-> {}])
      BY <2>2 DEF NothingToSend
    <3> QED
      BY <1>3, <3>1, <3>2
  <2> QED
    BY <1>4, <2>1, <2>2 DEF PlanEnsure, Decided
<1>5. CASE PlanVLAN
  <2> DEFINE wanted == [vid |-> call.vid, idx |-> 0, tagged |-> call.tagged,
                        untagged |-> Disjoint(call.tagged, call.untagged)]
             r == RowRequest(config.rows, wanted)
  <2>1. CASE UNCHANGED todo
    BY <1>2, <2>1
  <2>2. CASE Proceed([NothingToSend EXCEPT !.joins = {r}])
    <3>1. call.tagged \in SUBSET Port /\ call.untagged \in SUBSET Port
      BY <1>1, <1>5, CallFields DEF PlanVLAN
    <3>2. wanted.untagged \in SUBSET Port /\ wanted.tagged \cap wanted.untagged = {}
      BY <3>1 DEF Disjoint
    <3>3. RowRequestOK(r)
      BY <1>1, <1>5, <3>1, <3>2, RowRequestIsOK DEF PlanVLAN
    <3> HIDE DEF r
    <3>4. Proceed([joins |-> {r}, pvids |-> {}, leaves |-> {}])
      BY <2>2 DEF NothingToSend
    <3> QED
      BY <1>3, <3>3, <3>4
  <2> QED
    BY <1>5, <2>1, <2>2 DEF PlanVLAN, Decided
<1>6. CASE PlanDelete
  <2> DEFINE r == DeleteRequest(VLAN(config.rows, call.vid))
  <2>1. CASE UNCHANGED todo
    BY <1>2, <2>1
  <2>2. CASE /\ HasVLAN(config.rows, call.vid)
             /\ Proceed([NothingToSend EXCEPT !.leaves = {r}])
    <3>1. \A e \in config.rows : e.idx \in Nat
      BY <1>1 DEF RowsOK, Row
    <3>2. VLAN(config.rows, call.vid) \in config.rows
      BY <2>2, <3>1, VLANIsARow
    <3>3. RowRequestOK(r)
      BY <1>1, <3>2, DeleteRequestIsOK
    <3> HIDE DEF r
    <3>4. Proceed([joins |-> {}, pvids |-> {}, leaves |-> {r}])
      BY <2>2 DEF NothingToSend
    <3> QED
      BY <1>3, <3>3, <3>4
  <2> QED
    BY <1>6, <2>1, <2>2 DEF PlanDelete, Decided
<1>7. CASE PlanPVID
  <2> DEFINE r == PVIDRequest(Merged(call.wanted))
  <2>1. CASE UNCHANGED todo
    BY <1>2, <2>1
  <2>2. CASE NextToSend([NothingToSend EXCEPT !.pvids = {r}])
    <3>1. r.cgi = "pvid"
      BY DEF PVIDRequest
    <3> HIDE DEF r
    <3>2. NextToSend([joins |-> {}, pvids |-> {r}, leaves |-> {}])
      BY <2>2 DEF NothingToSend
    <3> QED
      BY <3>1, <3>2 DEF NextToSend, TodoOK, NothingToSend
  <2> QED
    BY <1>7, <2>1, <2>2 DEF PlanPVID, Decided
<1>8. CASE PlanPort
  <2> DEFINE untagged == Disjoint(call.tagged, call.untagged)
             plan == PlanPortChanges(config.rows, call.port, call.tagged, untagged)
             merged == IF call.pvid = 0 THEN config.pvids
                       ELSE Merged([p \in {call.port} |-> call.pvid])
             Requests(rows) == {RowRequest(config.rows, e) : e \in rows}
             native == {PVIDRequest(merged) : p \in ChangedPorts(config.pvids, merged)}
  <2>1. CASE UNCHANGED todo
    BY <1>2, <2>1
  <2>2. CASE /\ ~(call.port < 1 \/ (config.portCount > 0 /\ call.port > config.portCount))
             /\ Proceed([joins |-> Requests(plan.joins), pvids |-> native,
                         leaves |-> Requests(plan.leaves)])
    <3>1. call.port \in Port
      BY <1>1, <1>8, <2>2, PortChecked DEF PlanPort
    <3>2. call.tagged \cap untagged = {}
      BY DEF Disjoint
    <3> HIDE DEF untagged
    <3>3. \A n \in plan.joins \cup plan.leaves : RowRequestOK(RowRequest(config.rows, n))
      BY <1>1, <3>1, <3>2, PortRequestsAreOK
    <3> HIDE DEF plan
    <3>4. \A r \in Requests(plan.joins) \cup Requests(plan.leaves) : RowRequestOK(r)
      BY <3>3
    <3>5. \A m : PVIDRequest(m).cgi = "pvid"
      BY DEF PVIDRequest
    <3>6. \A r \in native : r.cgi = "pvid"
      BY <3>5
    <3> HIDE DEF native, Requests
    <3> QED
      BY <1>3, <2>2, <3>4, <3>6
  <2> QED
    BY <1>8, <2>1, <2>2 DEF PlanPort, Decided
<1> QED
  BY <1>4, <1>5, <1>6, <1>7, <1>8 DEF Plan

\* The inductive invariant is kept by every step.
LEMMA NextKeepsIInv == IInv /\ [Next]_vars => IInv'
<1> SUFFICES ASSUME IInv, [Next]_vars PROVE IInv'
  OBVIOUS
<1> USE DEF IInv
<1>1. ASSUME UNCHANGED <<vlans, pvid>>, session' \in {"free", "driver", "other"}
      PROVE  DeviceOK'
  BY <1>1 DEF DeviceOK, RowsOK
<1>2. ASSUME UNCHANGED config PROVE ConfigOK'
  BY <1>2 DEF ConfigOK
<1>3. session \in {"free", "driver", "other"}
  BY DEF DeviceOK, DeviceTypeOK
<1>4. ASSUME UNCHANGED <<call, todo>>, pc' \in {"table", "page", "plan", "send", "tableBack",
                                     "pageBack", "verify", "logout"}, pc # "idle"
      PROVE  CallOK' /\ (pc # "send" => TodoOK')
  BY <1>4 DEF CallOK, TodoOK, NothingToSend
<1>5. ASSUME UNCHANGED driver
      PROVE  ConfigOK' /\ CallOK' /\ TodoOK' /\ TagsOK'
  BY <1>5, <1>2 DEF driver, CallOK, TodoOK, TagsOK, NothingToSend
<1>6. ASSUME UNCHANGED vars PROVE IInv'
  <2>1. UNCHANGED driver /\ UNCHANGED <<vlans, pvid, session>>
    BY <1>6 DEF vars, device
  <2>2. SessionOK'
    BY <2>1 DEF driver, SessionOK, Working
  <2> QED
    BY <2>1, <2>2, <1>1, <1>3, <1>5
<1>7. ASSUME NEW c \in Calls, Start(c) PROVE IInv'
  <2> USE <1>7 DEF Start
  <2>1. DeviceOK' /\ ConfigOK'
    BY <1>1, <1>2, <1>3 DEF device
  <2>2. CallOK'
    BY DEF CallOK
  <2>3. TodoOK' /\ TagsOK'
    BY DEF TodoOK, TagsOK
  <2>4. SessionOK'
    BY DEF SessionOK, Working, device
  <2> QED
    BY <2>1, <2>2, <2>3, <2>4
<1>8. CASE Login
  <2> USE <1>8 DEF Login, Logon, LogonRefused
  <2>1. DeviceOK' /\ ConfigOK'
    BY <1>1, <1>2, <1>3 DEF device
  <2>2. CallOK' /\ TodoOK' /\ TagsOK'
    BY DEF CallOK, TodoOK, TagsOK
  <2>3. SessionOK'
    BY DEF SessionOK, Working, device
  <2> QED
    BY <2>1, <2>2, <2>3
<1>9. CASE ReadTable
  <2> USE <1>9 DEF ReadTable
  <2>1. DeviceOK'
    BY <1>1, <1>3 DEF device
  <2>2. RowsOK(vlans) /\ ParseVLANEntries(VlanEntry) = vlans
    BY TableIsRead DEF DeviceOK, VlanEntry
  <2>3. config' = [rows |-> vlans, pvids |-> config.pvids,
                   portCount |-> config.portCount, mgmt |-> config.mgmt]
    BY <2>2 DEF ConfigOK, ReadOK
  <2>4. ConfigOK'
    <3>1. PageOK(config.pvids, config.portCount, config.mgmt)
      BY DEF ConfigOK, ReadOK
    <3>2. ReadOK([rows |-> vlans, pvids |-> config.pvids,
                  portCount |-> config.portCount, mgmt |-> config.mgmt])
      BY <2>2, <3>1, ReadIsOK
    <3>3. ReadOK(config')
      BY <2>3, <3>2, Zenon
    <3> QED
      BY <3>3 DEF ConfigOK
  <2>5. CallOK' /\ TodoOK' /\ TagsOK'
    BY DEF CallOK, TodoOK, TagsOK
  <2>6. SessionOK'
    BY DEF SessionOK, Working, device
  <2> QED
    BY <2>1, <2>4, <2>5, <2>6
<1>10. CASE ReadPage
  <2> USE <1>10 DEF ReadPage
  <2>1. DeviceOK'
    BY <1>1, <1>3 DEF device
  <2> DEFINE page == ParseListPage(ListPage)
  <2>2. /\ config' = [rows |-> config.rows, pvids |-> page.pvids,
                      portCount |-> page.portCount, mgmt |-> page.mgmt]
        /\ UNCHANGED <<vlans, pvid, session>>
    BY DEF device
  <2>3. /\ PageOK(page.pvids, page.portCount, page.mgmt)
        /\ session = "driver" => page.portCount = PortCount
    BY PageIsRead
  <2> HIDE DEF page
  <2>4. RowsOK(config.rows)
    BY DEF ConfigOK, ReadOK
  <2>5. ReadOK(config')
    BY <2>2, <2>3, <2>4, ReadIsOK
  <2>6. ConfigOK'
    BY <2>5 DEF ConfigOK
  <2>7. CallOK' /\ TodoOK' /\ TagsOK'
    BY DEF CallOK, TodoOK, TagsOK
  <2>8. SessionOK'
    BY <2>2, <2>3 DEF SessionOK, Working
  <2> QED
    BY <2>1, <2>6, <2>7, <2>8
<1>11. CASE ReadFails
  <2> USE <1>11 DEF ReadFails, Finish
  <2>1. DeviceOK' /\ ConfigOK'
    BY <1>1, <1>2, <1>3 DEF device
  <2>2. CallOK' /\ TodoOK' /\ TagsOK'
    BY DEF CallOK, TodoOK, TagsOK, NothingToSend
  <2>3. SessionOK'
    BY DEF SessionOK, Working, device
  <2> QED
    BY <2>1, <2>2, <2>3
<1>12. CASE Plan
  <2>1. /\ pc = "plan" /\ UNCHANGED <<vlans, pvid, session, call, config>>
        /\ pc' \in {"send", "tableBack", "logout"}
        /\ outcome' \in {"none", "ok", "error", "busy", "unsafe", "inUse"}
    <3>1. ASSUME NEW result \in {"ok", "error", "unsafe", "inUse"}, Decided(result)
          PROVE  /\ UNCHANGED <<vlans, pvid, session, call, config>>
                 /\ pc' = "logout" /\ outcome' = result
      BY <3>1 DEF Decided, Finish, device
    <3>2. ASSUME NEW requests, Proceed(requests)
          PROVE  /\ UNCHANGED <<vlans, pvid, session, call, config, outcome>>
                 /\ pc' \in {"send", "tableBack"}
      BY <3>2 DEF Proceed, NextToSend, device
    <3>3. CASE PlanEnsure \/ PlanVLAN \/ PlanDelete \/ PlanPort
      <4>1. pc = "plan" /\ ((\E result \in {"ok", "error", "unsafe", "inUse"} : Decided(result))
                            \/ \E requests : Proceed(requests))
        BY <3>3 DEF PlanEnsure, PlanVLAN, PlanDelete, PlanPort
      <4> QED
        BY <3>1, <3>2, <4>1 DEF TagsOK
    <3>4. CASE PlanPVID
      <4>1. pc = "plan" /\ ((\E result \in {"ok", "error", "unsafe", "inUse"} : Decided(result))
                            \/ \E requests : /\ NextToSend(requests)
                                              /\ UNCHANGED <<device, call, config, outcome>>)
        BY <3>4 DEF PlanPVID
      <4>2. ASSUME NEW requests, NextToSend(requests),
                   UNCHANGED <<device, call, config, outcome>>
            PROVE  /\ UNCHANGED <<vlans, pvid, session, call, config, outcome>>
                   /\ pc' \in {"send", "tableBack"}
        BY <4>2 DEF NextToSend, device
      <4> QED
        BY <3>1, <4>1, <4>2 DEF TagsOK
    <3> QED
      BY <1>12, <3>3, <3>4 DEF Plan
  <2>2. DeviceOK' /\ ConfigOK'
    BY <1>1, <1>2, <1>3, <2>1
  <2>3. CallOK' /\ TagsOK'
    BY <2>1 DEF CallOK, TagsOK
  <2>4. TodoOK'
    BY <1>12, PlansAreOK
  <2>5. SessionOK'
    BY <2>1 DEF SessionOK, Working
  <2> QED
    BY <2>2, <2>3, <2>4, <2>5
<1>13. ASSUME NEW r, r \in Ready PROVE r.cgi = "pvid" \/ RowRequestOK(r)
  BY <1>13 DEF Ready, TodoOK
<1>14. ASSUME NEW r, r \in Ready, Accept(r) \/ UNCHANGED device
       PROVE  DeviceOK' /\ UNCHANGED session
  <2>1. WellFormedRequest(r)
    BY <1>13, <1>14 DEF WellFormedRequest, RowRequestOK
  <2>2. CASE UNCHANGED device
    BY <2>2, <1>1, <1>3 DEF device
  <2>3. CASE Accept(r)
    BY <2>1, <2>3, AcceptKeepsDevice
  <2> QED
    BY <1>14, <2>2, <2>3
<1>15. ASSUME NEW r \in Ready, SendWrite(r) PROVE IInv'
  <2> USE <1>15 DEF SendWrite
  <2>1. DeviceOK' /\ UNCHANGED session
    BY <1>14
  <2>2. ConfigOK'
    BY <1>2
  <2>3. todo' = Without(r) /\ pc' \in {"send", "tableBack"} /\ (pc' # "send" => todo' = NothingToSend)
    BY DEF NextToSend
  <2>4. todo' = [joins |-> todo.joins \ {r}, pvids |-> todo.pvids \ {r},
                 leaves |-> todo.leaves \ {r}]
    BY <2>3 DEF Without, TodoOK
  <2>5. TodoOK'
    BY <2>3, <2>4 DEF TodoOK
  <2>6. CallOK' /\ TagsOK'
    BY <2>3 DEF CallOK, TagsOK
  <2>7. SessionOK'
    BY <2>1, <2>3 DEF SessionOK, Working
  <2> QED
    BY <2>1, <2>2, <2>5, <2>6, <2>7
<1>16. ASSUME NEW r \in Ready, SendFails(r) PROVE IInv'
  <2> USE <1>16 DEF SendFails, Finish
  <2>1. DeviceOK' /\ UNCHANGED session
    BY <1>14
  <2>2. ConfigOK'
    BY <1>2
  <2>3. CallOK' /\ TodoOK' /\ TagsOK'
    BY DEF CallOK, TodoOK, TagsOK, NothingToSend
  <2>4. SessionOK'
    BY <2>1 DEF SessionOK, Working
  <2> QED
    BY <2>1, <2>2, <2>3, <2>4
<1>17. CASE Verify
  <2> USE <1>17 DEF Verify, Finish
  <2>1. DeviceOK' /\ ConfigOK'
    BY <1>1, <1>2, <1>3 DEF device
  <2>2. CallOK' /\ TodoOK' /\ TagsOK'
    BY DEF CallOK, TodoOK, TagsOK
  <2>3. SessionOK'
    BY DEF SessionOK, Working, device
  <2> QED
    BY <2>1, <2>2, <2>3
<1>18. ASSUME NEW result \in {"none", "ok", "error", "busy", "unsafe", "inUse"}, Return(result),
              UNCHANGED <<vlans, pvid>>, session' \in {session, "free"}
       PROVE  IInv'
  <2> USE <1>18 DEF Return
  <2>1. DeviceOK'
    BY <1>1, <1>3
  <2>2. ConfigOK'
    BY NothingReadIsOK DEF ConfigOK
  <2>3. CallOK' /\ TodoOK' /\ TagsOK'
    BY DEF CallOK, TodoOK, TagsOK
  <2>4. SessionOK'
    BY DEF SessionOK, Working
  <2> QED
    BY <2>1, <2>2, <2>3, <2>4
<1>19. CASE LogsOut \/ LogoutFails
  <2>1. outcome \in {"none", "ok", "error", "busy", "unsafe", "inUse"}
    BY DEF TagsOK
  <2>2. PICK result \in {outcome, "error"} : Return(result)
    BY <1>19 DEF LogsOut, LogoutFails
  <2>3. UNCHANGED <<vlans, pvid>> /\ session' \in {session, "free"}
    BY <1>19 DEF LogsOut, LogoutFails, Logout, device
  <2> QED
    BY <2>1, <2>2, <2>3, <1>18
<1>20. ASSUME UNCHANGED driver, UNCHANGED <<vlans, pvid>>,
              \/ session = "driver" /\ session' = "free" /\ (pc = "idle" \/ SessionLoss)
              \/ session = "free" /\ session' = "other" /\ OtherRequests # {}
              \/ session = "other" /\ session' = "free"
       PROVE  IInv'
  <2>1. SessionOK'
    BY <1>20 DEF driver, SessionOK, Working
  <2> QED
    BY <1>20, <2>1, <1>1, <1>5
<1>21. CASE SessionExpires
  BY <1>21, <1>20 DEF SessionExpires, driver
<1>22. CASE OtherLogsIn \/ OtherLogsOut
  BY <1>22, <1>20 DEF OtherLogsIn, OtherLogsOut, Logon, Logout
<1>23. CASE OtherWrites
  <2>1. UNCHANGED driver
    BY <1>23 DEF OtherWrites
  <2>2. DeviceOK' /\ UNCHANGED session
    BY <1>23, OthersAssumption, AcceptKeepsDevice DEF OtherWrites
  <2>3. SessionOK'
    BY <2>1, <2>2 DEF driver, SessionOK, Working
  <2> QED
    BY <1>5, <2>1, <2>2, <2>3
<1> QED
  BY <1>6, <1>7, <1>8, <1>9, <1>10, <1>11, <1>12, <1>15, <1>16, <1>17, <1>19, <1>21, <1>22, <1>23
     DEF Next

\* Whatever is called, however requests and sessions are lost and whoever else
\* writes, the inductive invariant holds.
THEOREM InductiveInvariant == Spec => []IInv
  BY InitIInv, NextKeepsIInv, PTL DEF Spec

\* The types of the variables: what the driver sends never makes the device
\* hold a row that it could not read back, and nothing is left to send when a
\* call moves on.
THEOREM TypeCorrect == Spec => []TypeOK
<1>1. IInv => TypeOK
  <2> SUFFICES ASSUME IInv PROVE TypeOK
    OBVIOUS
  <2>1. config.rows \subseteq Row
    BY DEF IInv, ConfigOK, ReadOK, RowsOK
  <2>2. DOMAIN config.pvids \in {{}, Port}
    <3> DEFINE pvids == config.pvids
               ports == DOMAIN pvids
    <3>1. PageOK(pvids, config.portCount, config.mgmt)
      BY DEF IInv, ConfigOK, ReadOK
    <3>2. ports = {} \/ ports = Port
      BY <3>1 DEF PageOK, Natives
    <3> HIDE DEF ports
    <3>3. ports \in {{}, Port}
      BY <3>2
    <3> QED
      BY <3>3 DEF ports
  <2>3. DeviceTypeOK
    BY DEF IInv, DeviceOK, RowsOK, DeviceTypeOK
  <2> QED
    BY <2>1, <2>2, <2>3 DEF IInv, CallOK, TodoOK, TagsOK, TypeOK
<1> QED
  BY <1>1, InductiveInvariant, PTL

----------------------------------------------------------------------------
(* Success is what the device shows.                                       *)

\* Nobody but the call can write while it works.
Safe == session = "driver" \/ OtherRequests = {}

\* What was read is what the device has.
ReadsDevice ==
    Safe =>
        /\ pc \in {"page", "plan", "pageBack", "verify"} => config.rows = vlans
        /\ pc \in {"plan", "verify"} =>
             config.pvids = pvid \/ DOMAIN config.pvids = {}

\* The steps of others, and those that only move the session: while a call
\* works nobody who could write gets in without its session being lost.
LEMMA OutsideSteps ==
    ASSUME IInv, SessionExpires \/ OtherLogsIn \/ OtherLogsOut \/ OtherWrites
    PROVE  /\ UNCHANGED driver
           /\ Safe' => Safe /\ UNCHANGED <<vlans, pvid>>
<1>1. OtherRequests = {} => session # "other"
  BY DEF IInv, SessionOK
<1>2. CASE SessionExpires
  BY <1>2 DEF SessionExpires, Safe
<1>3. CASE OtherLogsIn
  BY <1>3 DEF OtherLogsIn, Logon, Safe
<1>4. CASE OtherLogsOut
  BY <1>1, <1>4 DEF OtherLogsOut, Logout, Safe
<1>5. CASE OtherWrites
  BY <1>1, <1>5 DEF OtherWrites, Accept, Safe
<1> QED
  BY <1>2, <1>3, <1>4, <1>5

\* The steps of a call, by where they lead and what they leave alone.
LEMMA CallSteps ==
    ASSUME Next
    PROVE  \/ ReadTable \/ ReadPage \/ Plan \/ Verify
           \/ SessionExpires \/ OtherLogsIn \/ OtherLogsOut \/ OtherWrites
           \/ pc' \in {"idle", "login", "table", "tableBack", "send"}
           \/ pc' = "logout" /\ outcome' = "error"
           \/ \E r \in Ready : SendWrite(r)
<1>1. ASSUME NEW c \in Calls, Start(c) PROVE pc' \in {"idle", "login"}
  BY <1>1 DEF Start
<1>2. Login => pc' \in {"idle", "table"}
  BY DEF Login
<1>3. ReadFails => pc' = "logout" /\ outcome' = "error"
  BY DEF ReadFails, Finish
<1>4. ASSUME NEW r \in Ready, SendFails(r) PROVE pc' = "logout" /\ outcome' = "error"
  BY <1>4 DEF SendFails, Finish
<1>5. LogsOut \/ LogoutFails => pc' = "idle"
  BY DEF LogsOut, LogoutFails, Return
<1> QED
  BY <1>1, <1>2, <1>3, <1>4, <1>5 DEF Next

\* What a call reads stays what the device has until the call itself writes.
LEMMA ReadsDeviceStays == IInv /\ ReadsDevice /\ [Next]_vars => ReadsDevice'
<1> SUFFICES ASSUME IInv, ReadsDevice, [Next]_vars PROVE ReadsDevice'
  OBVIOUS
<1>1. ASSUME UNCHANGED driver, Safe' => Safe /\ UNCHANGED <<vlans, pvid>>
      PROVE  ReadsDevice'
  BY <1>1 DEF ReadsDevice, driver
<1>2. ASSUME pc' \notin {"page", "plan", "pageBack", "verify"} PROVE ReadsDevice'
  BY <1>2 DEF ReadsDevice
<1>3. CASE UNCHANGED vars
  BY <1>1, <1>3 DEF vars, device, Safe
<1>4. CASE ReadTable
  <2>1. ParseVLANEntries(VlanEntry) = vlans
    BY TableIsRead DEF IInv, DeviceOK, VlanEntry
  <2>2. config' = [config EXCEPT !.rows = vlans] /\ UNCHANGED vlans
    BY <1>4, <2>1 DEF ReadTable, device
  <2>3. config'.rows = vlans
    BY <2>2 DEF IInv, ConfigOK, ReadOK
  <2>4. pc' \in {"page", "pageBack"}
    BY <1>4 DEF ReadTable
  <2> QED
    BY <2>2, <2>3, <2>4 DEF ReadsDevice
<1>5. CASE ReadPage
  <2> DEFINE page == ParseListPage(ListPage)
  <2>1. page.pvids = pvid \/ DOMAIN page.pvids = {}
    BY PageIsRead
  <2>2. /\ config'.rows = config.rows /\ config'.pvids = page.pvids
        /\ UNCHANGED <<vlans, pvid, session>> /\ pc \in {"page", "pageBack"}
    BY <1>5 DEF ReadPage, device
  <2> HIDE DEF page
  <2> QED
    BY <2>1, <2>2 DEF ReadsDevice, Safe
<1>6. CASE Plan
  <2>1. pc' \in {"logout", "send", "tableBack"}
    BY <1>6 DEF Plan, PlanEnsure, PlanVLAN, PlanDelete, PlanPVID, PlanPort, Decided, Finish,
       Proceed, NextToSend
  <2> QED
    BY <1>2, <2>1
<1>7. CASE Verify
  BY <1>2, <1>7 DEF Verify, Finish
<1>8. CASE SessionExpires \/ OtherLogsIn \/ OtherLogsOut \/ OtherWrites
  BY <1>1, <1>8, OutsideSteps
<1>9. CASE \E r \in Ready : SendWrite(r)
  BY <1>2, <1>9 DEF SendWrite, NextToSend
<1> QED
  BY <1>2, <1>3, <1>4, <1>5, <1>6, <1>7, <1>8, <1>9, CallSteps

\* The ports that WritePVID leaves out of the ports to verify had the native VLAN
\* wanted for them when the configuration was read, and are sent it again.
UnmovedKept ==
    Safe /\ call.op = "pvid" /\ pc \in {"send", "tableBack", "pageBack", "verify"} =>
        /\ todo.joins = {} /\ todo.leaves = {}
        /\ \A p \in DOMAIN call.wanted \ changed :
             /\ PVIDOf(pvid, p) = call.wanted[p]
             /\ \A r \in todo.pvids :
                  p - 1 \in DOMAIN r.vids => r.vids[p - 1] = call.wanted[p]

\* What WritePVID plans moves no port that it does not verify.
LEMMA UnmovedPlanned == IInv /\ ReadsDevice /\ Plan => UnmovedKept'
<1> SUFFICES ASSUME IInv, ReadsDevice, Plan, Safe', call'.op = "pvid",
                    pc' \in {"send", "tableBack", "pageBack", "verify"}
             PROVE  /\ todo'.joins = {} /\ todo'.leaves = {}
                    /\ \A p \in DOMAIN call'.wanted \ changed' :
                         /\ PVIDOf(pvid', p) = call'.wanted[p]
                         /\ \A r \in todo'.pvids :
                              p - 1 \in DOMAIN r.vids => r.vids[p - 1] = call'.wanted[p]
  BY DEF UnmovedKept
<1> DEFINE merged == Merged(call.wanted)
           request == PVIDRequest(merged)
<1>1. ASSUME NEW result, Decided(result) PROVE FALSE
  BY <1>1 DEF Decided, Finish
<1>2. PlanPVID
  BY DEF Plan, PlanEnsure, PlanVLAN, PlanDelete, PlanPort, Decided, Proceed
<1>3. /\ pc = "plan" /\ call.op = "pvid" /\ DOMAIN config.pvids # {}
      /\ NextToSend([NothingToSend EXCEPT !.pvids = {request}])
      /\ changed' = ChangedPorts(config.pvids, merged)
      /\ UNCHANGED <<device, call, config>>
  BY <1>1, <1>2 DEF PlanPVID
<1>4. config.pvids = pvid /\ UNCHANGED <<pvid, call>>
  BY <1>3 DEF ReadsDevice, Safe, device
<1>5. call \in Calls
  BY <1>3 DEF IInv, CallOK
<1>6. DOMAIN call.wanted \subseteq Int
  BY <1>3, <1>5, CallFields
<1> HIDE DEF request
<1>7. todo' = [joins |-> {}, pvids |-> {request}, leaves |-> {}]
  BY <1>3 DEF NextToSend, NothingToSend
<1>8. ASSUME NEW p \in DOMAIN call.wanted \ changed'
      PROVE  /\ PVIDOf(pvid, p) = call.wanted[p]
             /\ p - 1 \in DOMAIN request.vids => request.vids[p - 1] = call.wanted[p]
  <2>1. p \in DOMAIN merged /\ merged[p] = call.wanted[p]
    BY DEF Merged
  <2> HIDE DEF merged
  <2>2. PVIDOf(pvid, p) = call.wanted[p]
    BY <1>3, <1>4, <2>1 DEF ChangedPorts
  <2>3. (p - 1) + 1 = p
    BY <1>6
  <2>4. p - 1 \in DOMAIN request.vids => request.vids[p - 1] = merged[(p - 1) + 1]
    BY DEF request, PVIDRequest
  <2> QED
    BY <2>1, <2>2, <2>3, <2>4
<1> QED
  BY <1>4, <1>7, <1>8

\* Nor does sending it move them.
LEMMA UnmovedSent ==
    ASSUME IInv, UnmovedKept, NEW r \in Ready, SendWrite(r)
    PROVE  UnmovedKept'
<1> SUFFICES ASSUME Safe', call.op = "pvid"
             PROVE  /\ todo'.joins = {} /\ todo'.leaves = {}
                    /\ \A p \in DOMAIN call.wanted \ changed :
                         /\ PVIDOf(pvid', p) = call.wanted[p]
                         /\ \A s \in todo'.pvids :
                              p - 1 \in DOMAIN s.vids => s.vids[p - 1] = call.wanted[p]
  BY DEF UnmovedKept, SendWrite
<1>1. pc = "send" /\ UNCHANGED session /\ (Accept(r) \/ UNCHANGED pvid)
  BY DEF SendWrite, Accept, device
<1>2. /\ todo.joins = {} /\ todo.leaves = {}
      /\ \A p \in DOMAIN call.wanted \ changed :
           /\ PVIDOf(pvid, p) = call.wanted[p]
           /\ \A s \in todo.pvids :
                p - 1 \in DOMAIN s.vids => s.vids[p - 1] = call.wanted[p]
  BY <1>1 DEF UnmovedKept, Safe
<1>3. r \in todo.pvids /\ r.cgi = "pvid"
  BY <1>2 DEF Ready, IInv, TodoOK
<1>4. todo' = [joins |-> todo.joins \ {r}, pvids |-> todo.pvids \ {r},
               leaves |-> todo.leaves \ {r}]
  BY DEF SendWrite, NextToSend, Without, IInv, TodoOK
<1>5. UNCHANGED pvid \/ SetPVIDs(r)
  BY <1>1, <1>3 DEF Accept
<1>6. DOMAIN pvid = Port
  BY DEF IInv, DeviceOK, Natives
<1>7. ASSUME NEW p \in DOMAIN call.wanted \ changed
      PROVE  PVIDOf(pvid', p) = call.wanted[p]
  <2>1. CASE UNCHANGED pvid
    BY <1>2, <2>1
  <2>2. CASE SetPVIDs(r) /\ p \in Port
    <3>1. pvid'[p] = pvid[p] \/ (p - 1 \in DOMAIN r.vids /\ pvid'[p] = r.vids[p - 1])
      BY <2>2 DEF SetPVIDs
    <3>2. p \in DOMAIN pvid'
      BY <2>2 DEF SetPVIDs
    <3> QED
      BY <1>2, <1>3, <1>6, <2>2, <3>1, <3>2 DEF PVIDOf
  <2>3. CASE SetPVIDs(r) /\ p \notin Port
    <3>1. p \notin DOMAIN pvid'
      BY <2>3 DEF SetPVIDs
    <3> QED
      BY <1>2, <1>6, <2>3, <3>1 DEF PVIDOf
  <2> QED
    BY <1>5, <2>1, <2>2, <2>3
<1> QED
  BY <1>2, <1>4, <1>7

\* Nothing else does while nobody else can write.
LEMMA UnmovedStays == IInv /\ ReadsDevice /\ UnmovedKept /\ [Next]_vars => UnmovedKept'
<1> SUFFICES ASSUME IInv, ReadsDevice, UnmovedKept, [Next]_vars PROVE UnmovedKept'
  OBVIOUS
<1>1. ASSUME pc' \notin {"send", "tableBack", "pageBack", "verify"} PROVE UnmovedKept'
  BY <1>1 DEF UnmovedKept
<1>2. ASSUME UNCHANGED <<pc, call, todo, changed>>, Safe' => Safe /\ UNCHANGED <<vlans, pvid>>
      PROVE  UnmovedKept'
  BY <1>2 DEF UnmovedKept
<1>3. CASE UNCHANGED vars
  BY <1>2, <1>3 DEF vars, driver, device, Safe
<1>4. CASE SessionExpires \/ OtherLogsIn \/ OtherLogsOut \/ OtherWrites
  BY <1>2, <1>4, OutsideSteps DEF driver
<1>5. ASSUME NEW c \in Calls, Start(c) PROVE UnmovedKept'
  BY <1>1, <1>5 DEF Start
<1>6. CASE Login
  BY <1>1, <1>6 DEF Login
<1>7. CASE ReadFails
  BY <1>1, <1>7 DEF ReadFails, Finish
<1>8. CASE ReadTable \/ ReadPage
  <2>1. UNCHANGED <<pvid, session, call, todo, changed>>
    BY <1>8 DEF ReadTable, ReadPage, device
  <2>2. pc' \in {"pageBack", "verify"} => pc \in {"tableBack", "pageBack"}
    BY <1>8 DEF ReadTable, ReadPage
  <2>3. pc' \notin {"send", "tableBack"}
    BY <1>8 DEF ReadTable, ReadPage
  <2> QED
    BY <2>1, <2>2, <2>3 DEF UnmovedKept, Safe
<1>9. CASE Plan
  BY <1>9, UnmovedPlanned
<1>10. ASSUME NEW r \in Ready, SendWrite(r) PROVE UnmovedKept'
  BY <1>10, UnmovedSent
<1>11. ASSUME NEW r \in Ready, SendFails(r) PROVE UnmovedKept'
  BY <1>1, <1>11 DEF SendFails, Finish
<1>12. CASE Verify
  BY <1>1, <1>12 DEF Verify, Finish
<1>13. CASE LogsOut \/ LogoutFails
  BY <1>1, <1>13 DEF LogsOut, LogoutFails, Return
<1> QED
  BY <1>3, <1>4, <1>5, <1>6, <1>7, <1>8, <1>9, <1>10, <1>11, <1>12, <1>13 DEF Next

\* The native VLANs that verify are those the device has: the page they are read
\* from is not the login page, on which each would be 0.
LEMMA VerifiedPVIDs ==
    ASSUME IInv, ReadsDevice, UnmovedKept, Safe, pc = "verify", call.op = "pvid", Verified
    PROVE  AsAsked(vlans, pvid)
<1>1. call \in Calls
  BY DEF IInv, CallOK
<1>2. \A p \in changed : PVIDOf(config.pvids, p) = call.wanted[p]
  BY DEF Verified
<1>3. ASSUME NEW p \in DOMAIN call.wanted PROVE PVIDOf(pvid, p) = call.wanted[p]
  <2>1. CASE p \notin changed
    BY <2>1 DEF UnmovedKept
  <2>2. CASE p \in changed /\ config.pvids = pvid
    BY <1>2, <2>2
  <2>3. CASE p \in changed /\ DOMAIN config.pvids = {}
    <3>1. call.wanted[p] = 0
      BY <1>2, <2>3 DEF PVIDOf
    <3>2. ~SessionLoss
      BY <1>1, <3>1, PortsAssumption
    <3>3. config.portCount = PortCount
      BY <3>2 DEF IInv, SessionOK, Working
    <3>4. PortCount \in Nat /\ PortCount > 0 /\ 1 \in Port
      BY SwitchAssumption DEF MappedPort, Port
    <3>5. config.pvids \in Natives
      BY <3>3, <3>4 DEF IInv, ConfigOK, ReadOK, PageOK
    <3> QED
      BY <2>3, <3>4, <3>5 DEF Natives
  <2> QED
    BY <2>1, <2>2, <2>3 DEF ReadsDevice
<1> QED
  BY <1>3 DEF AsAsked

\* What is read of the other operations is what the device has.
LEMMA ReadIsApplied ==
    ASSUME IInv, ReadsDevice, Safe, pc = "verify", call.op # "pvid",
           AsAsked(config.rows, config.pvids)
    PROVE  AsAsked(vlans, pvid)
<1>1. config.rows = vlans
  BY DEF ReadsDevice
<1>2. CASE config.pvids = pvid
  BY <1>1, <1>2
<1>3. CASE DOMAIN config.pvids = {}
  <2>1. CASE call.op = "port"
    <3>1. call \in Calls
      BY DEF IInv, CallOK
    <3>2. call.pvid = 0
      BY <1>3, <2>1 DEF AsAsked, ReadPort, PVIDOf
    <3> QED
      BY <1>1, <2>1, <3>2 DEF AsAsked, ReadPort, PVIDOf
  <2>2. CASE call.op # "port"
    BY <1>1, <2>2 DEF AsAsked
  <2> QED
    BY <2>1, <2>2
<1> QED
  BY <1>2, <1>3 DEF ReadsDevice

\* What is verified is what the device has, so what verifies is applied.
LEMMA VerifiedIsApplied ==
    ASSUME IInv, ReadsDevice, UnmovedKept, Safe, pc = "verify", Verified
    PROVE  AsAsked(vlans, pvid)
<1>1. CASE call.op = "pvid"
  BY <1>1, VerifiedPVIDs
<1>2. CASE call.op # "pvid"
  <2>1. AsAsked(config.rows, config.pvids)
    BY <1>2 DEF Verified
  <2> QED
    BY <1>2, <2>1, ReadIsApplied
<1> QED
  BY <1>1, <1>2

\* A call that has nothing to do has already got what it asks for.
LEMMA NothingToDo ==
    ASSUME IInv, ReadsDevice, Safe, Plan, outcome' = "ok", pc' = "logout"
    PROVE  IF call.op = "ensure" THEN HasVLAN(vlans, call.vid) ELSE AsAsked(vlans, pvid)
<1>1. pc = "plan" /\ config.rows = vlans
  BY DEF Plan, PlanEnsure, PlanVLAN, PlanDelete, PlanPVID, PlanPort, ReadsDevice
<1>2. ASSUME NEW result, result # "ok", Decided(result) PROVE FALSE
  BY <1>2 DEF Decided, Finish
<1>3. ASSUME NEW requests, Proceed(requests) PROVE FALSE
  BY <1>3 DEF Proceed, NextToSend
<1>4. CASE PlanEnsure
  BY <1>1, <1>2, <1>3, <1>4 DEF PlanEnsure
<1>5. CASE PlanVLAN
  BY <1>2, <1>3, <1>5 DEF PlanVLAN
<1>6. CASE PlanDelete
  BY <1>2, <1>3, <1>6 DEF PlanDelete
<1>7. CASE PlanPVID
  <2> DEFINE merged == Merged(call.wanted)
  <2>1. DOMAIN config.pvids # {} /\ ChangedPorts(config.pvids, merged) = {}
    BY <1>2, <1>7 DEF PlanPVID, NextToSend
  <2>2. call.op = "pvid"
    BY <1>7 DEF PlanPVID
  <2>3. \A p \in DOMAIN call.wanted : p \in DOMAIN merged /\ merged[p] = call.wanted[p]
    BY DEF Merged
  <2> HIDE DEF merged
  <2>4. \A p \in DOMAIN call.wanted : PVIDOf(config.pvids, p) = call.wanted[p]
    BY <2>1, <2>3 DEF ChangedPorts
  <2>5. config.pvids = pvid
    BY <1>1, <2>1 DEF ReadsDevice
  <2> QED
    BY <2>2, <2>4, <2>5 DEF AsAsked
<1>8. CASE PlanPort
  BY <1>2, <1>3, <1>8 DEF PlanPort
<1> QED
  BY <1>4, <1>5, <1>6, <1>7, <1>8 DEF Plan

\* Success is what the device shows, whatever the device answered or ignored,
\* whatever was lost, and whether or not the session was: OkMeansApplied holds
\* of every instance.
THEOREM SuccessIsShown == Spec => []OkMeansApplied
<1>1. Init => ReadsDevice /\ UnmovedKept /\ OkMeansApplied
  BY DEF Init, ReadsDevice, UnmovedKept, OkMeansApplied
<1>2. IInv /\ ReadsDevice /\ UnmovedKept /\ OkMeansApplied /\ [Next]_vars
        => OkMeansApplied'
  <2> SUFFICES ASSUME IInv, ReadsDevice, UnmovedKept, OkMeansApplied, [Next]_vars, Safe',
                      pc' = "logout", outcome' = "ok"
               PROVE  (IF call.op = "ensure" THEN HasVLAN(vlans, call.vid)
                       ELSE AsAsked(vlans, pvid))'
    BY DEF OkMeansApplied, Safe
  <2>1. ASSUME UNCHANGED driver, Safe, UNCHANGED <<vlans, pvid>>
        PROVE  (IF call.op = "ensure" THEN HasVLAN(vlans, call.vid)
                ELSE AsAsked(vlans, pvid))'
    BY <2>1 DEF OkMeansApplied, Safe, driver, AsAsked
  <2>2. CASE UNCHANGED vars
    BY <2>1, <2>2 DEF vars, device, Safe
  <2>3. CASE SessionExpires \/ OtherLogsIn \/ OtherLogsOut \/ OtherWrites
    BY <2>1, <2>3, OutsideSteps
  <2>4. CASE Plan
    <3>1. UNCHANGED <<device, call>>
      BY <2>4 DEF Plan, PlanEnsure, PlanVLAN, PlanDelete, PlanPVID, PlanPort, Decided, Proceed
    <3>2. Safe
      BY <3>1 DEF device, Safe
    <3> QED
      BY <2>4, <3>1, <3>2, NothingToDo DEF device, AsAsked
  <2>5. CASE Verify
    <3>1. /\ UNCHANGED <<device, call>> /\ pc = "verify"
          /\ Verified
      BY <2>5 DEF Verify, Finish
    <3>2. Safe
      BY <3>1 DEF device, Safe
    <3>3. AsAsked(vlans, pvid)
      BY <3>1, <3>2, VerifiedIsApplied
    <3>4. call.op = "ensure" => HasVLAN(vlans, call.vid)
      BY <3>3 DEF AsAsked
    <3> QED
      BY <3>1, <3>3, <3>4 DEF device, AsAsked
  <2>6. CASE ReadTable \/ ReadPage
    BY <2>6 DEF ReadTable, ReadPage
  <2>7. CASE \E r \in Ready : SendWrite(r)
    BY <2>7 DEF SendWrite, NextToSend
  <2> QED
    BY <2>2, <2>3, <2>4, <2>5, <2>6, <2>7, CallSteps
<1> QED
  BY <1>1, <1>2, InductiveInvariant, ReadsDeviceStays, UnmovedStays, PTL DEF Spec

----------------------------------------------------------------------------
(* What a plan sends, by operation, once it has been let through.          *)

Wanted == call.tagged \cup Disjoint(call.tagged, call.untagged)

PlannedRow(wanted) ==
    /\ call.op \in {"ensure", "vlan"}
    /\ wanted.vid = call.vid /\ wanted.idx = 0
    /\ wanted.tagged \in SUBSET Port /\ wanted.untagged \in SUBSET Port
    /\ wanted.tagged \cap wanted.untagged = {}
    /\ call.op = "ensure" => /\ ~HasVLAN(config.rows, call.vid)
                             /\ wanted.tagged = {} /\ wanted.untagged = {}
    /\ ~Refuses(WithoutVLAN(config.rows, call.vid) \cup {wanted}, config.pvids)
    /\ todo' = [joins |-> {RowRequest(config.rows, wanted)}, pvids |-> {}, leaves |-> {}]

PlannedDelete ==
    /\ call.op = "delete"
    /\ HasVLAN(config.rows, call.vid)
    /\ ~Refuses(WithoutVLAN(config.rows, call.vid), config.pvids)
    /\ todo' = [joins |-> {}, pvids |-> {},
                leaves |-> {DeleteRequest(VLAN(config.rows, call.vid))}]

PlannedPVID == call.op = "pvid" /\ todo'.joins = {} /\ todo'.leaves = {}

PortChanges ==
    PlanPortChanges(config.rows, call.port, call.tagged,
                    Disjoint(call.tagged, call.untagged))

MergedPVIDs ==
    IF call.pvid = 0 THEN config.pvids ELSE Merged([p \in {call.port} |-> call.pvid])

PlannedPort ==
    /\ call.op = "port"
    /\ call.port \in Port
    /\ \A vid \in Wanted : HasVLAN(config.rows, vid)
    /\ ~PVIDNotUntagged(call.pvid, Disjoint(call.tagged, call.untagged), call.force)
    /\ ~Refuses(PortChanges.proposed, MergedPVIDs)
    /\ todo' = [joins |-> {RowRequest(config.rows, n) : n \in PortChanges.joins},
                pvids |-> {PVIDRequest(MergedPVIDs) :
                             p \in ChangedPorts(config.pvids, MergedPVIDs)},
                leaves |-> {RowRequest(config.rows, n) : n \in PortChanges.leaves}]

\* A plan that leads to sending is that of one operation, as it was let through.
LEMMA Planned ==
    ASSUME IInv, Plan, pc' = "send"
    PROVE  /\ pc = "plan" /\ UNCHANGED <<vlans, pvid, session, call, config>>
           /\ \/ \E wanted : PlannedRow(wanted)
              \/ PlannedDelete \/ PlannedPVID \/ PlannedPort
<1>1. pc = "plan" /\ call \in Calls
  BY DEF Plan, PlanEnsure, PlanVLAN, PlanDelete, PlanPVID, PlanPort, IInv, CallOK
<1>2. ASSUME NEW result, Decided(result) PROVE FALSE
  BY <1>2 DEF Decided, Finish
<1>3. ASSUME NEW requests, Proceed(requests)
      PROVE  todo' = requests /\ UNCHANGED <<vlans, pvid, session, call, config>>
  BY <1>3 DEF Proceed, NextToSend, device
<1>4. CASE PlanEnsure
  <2> DEFINE wanted == [vid |-> call.vid, idx |-> 0, tagged |-> {}, untagged |-> {}]
             r == RowRequest(config.rows, wanted)
  <2>1. /\ call.op = "ensure" /\ ~HasVLAN(config.rows, call.vid)
        /\ ~Refuses(config.rows \cup {wanted}, config.pvids)
        /\ Proceed([NothingToSend EXCEPT !.joins = {r}])
    BY <1>2, <1>4 DEF PlanEnsure
  <2>2. WithoutVLAN(config.rows, call.vid) = config.rows
    BY <2>1 DEF WithoutVLAN, HasVLAN
  <2> HIDE DEF r
  <2>3. todo' = [joins |-> {r}, pvids |-> {}, leaves |-> {}]
    BY <1>3, <2>1 DEF NothingToSend
  <2>4. /\ wanted.vid = call.vid /\ wanted.idx = 0
        /\ wanted.tagged = {} /\ wanted.untagged = {}
    OBVIOUS
  <2> HIDE DEF wanted
  <2>5. PlannedRow(wanted)
    BY <2>1, <2>2, <2>3, <2>4 DEF PlannedRow, r
  <2> QED
    BY <1>1, <1>3, <2>1, <2>5
<1>5. CASE PlanVLAN
  <2> DEFINE wanted == [vid |-> call.vid, idx |-> 0, tagged |-> call.tagged,
                        untagged |-> Disjoint(call.tagged, call.untagged)]
             r == RowRequest(config.rows, wanted)
  <2>1. /\ call.op = "vlan"
        /\ ~Refuses(WithoutVLAN(config.rows, call.vid) \cup {wanted}, config.pvids)
        /\ Proceed([NothingToSend EXCEPT !.joins = {r}])
    BY <1>2, <1>5 DEF PlanVLAN
  <2>2. call.tagged \in SUBSET Port /\ call.untagged \in SUBSET Port
    BY <1>1, <2>1, CallFields
  <2>3. /\ wanted.vid = call.vid /\ wanted.idx = 0
        /\ wanted.tagged \in SUBSET Port /\ wanted.untagged \in SUBSET Port
        /\ wanted.tagged \cap wanted.untagged = {}
    BY <2>2 DEF Disjoint
  <2> HIDE DEF r
  <2>4. todo' = [joins |-> {r}, pvids |-> {}, leaves |-> {}]
    BY <1>3, <2>1 DEF NothingToSend
  <2> HIDE DEF wanted
  <2>5. PlannedRow(wanted)
    BY <2>1, <2>3, <2>4 DEF PlannedRow, r
  <2> QED
    BY <1>1, <1>3, <2>1, <2>5
<1>6. CASE PlanDelete
  <2> DEFINE r == DeleteRequest(VLAN(config.rows, call.vid))
  <2>1. /\ call.op = "delete" /\ HasVLAN(config.rows, call.vid)
        /\ ~Refuses(WithoutVLAN(config.rows, call.vid), config.pvids)
        /\ Proceed([NothingToSend EXCEPT !.leaves = {r}])
    BY <1>2, <1>6 DEF PlanDelete
  <2> HIDE DEF r
  <2>2. todo' = [joins |-> {}, pvids |-> {}, leaves |-> {r}]
    BY <1>3, <2>1 DEF NothingToSend
  <2>3. PlannedDelete
    BY <2>1, <2>2 DEF PlannedDelete, r
  <2> QED
    BY <1>1, <1>3, <2>1, <2>3
<1>7. CASE PlanPVID
  <2> DEFINE r == PVIDRequest(Merged(call.wanted))
  <2>1. /\ call.op = "pvid" /\ NextToSend([NothingToSend EXCEPT !.pvids = {r}])
        /\ UNCHANGED <<device, call, config>>
    BY <1>2, <1>7 DEF PlanPVID
  <2> HIDE DEF r
  <2>2. todo' = [joins |-> {}, pvids |-> {r}, leaves |-> {}]
    BY <2>1 DEF NothingToSend, NextToSend
  <2>3. PlannedPVID
    BY <2>1, <2>2 DEF PlannedPVID
  <2> QED
    BY <1>1, <2>1, <2>3 DEF device
<1>8. CASE PlanPort
  <2> DEFINE requests ==
               [joins |-> {RowRequest(config.rows, n) : n \in PortChanges.joins},
                pvids |-> {PVIDRequest(MergedPVIDs) :
                             p \in ChangedPorts(config.pvids, MergedPVIDs)},
                leaves |-> {RowRequest(config.rows, n) : n \in PortChanges.leaves}]
  <2>1. /\ call.op = "port"
        /\ ~(call.port < 1 \/ (config.portCount > 0 /\ call.port > config.portCount))
        /\ \A vid \in Wanted : HasVLAN(config.rows, vid)
        /\ ~PVIDNotUntagged(call.pvid, Disjoint(call.tagged, call.untagged), call.force)
        /\ ~Refuses(PortChanges.proposed, MergedPVIDs)
        /\ Proceed(requests)
    BY <1>2, <1>8 DEF PlanPort, PortChanges, MergedPVIDs, Wanted
  <2>2. call.port \in Port
    BY <1>1, <2>1, PortChecked
  <2>3. PlannedPort
    BY <1>3, <2>1, <2>2 DEF PlannedPort
  <2> QED
    BY <1>1, <1>3, <2>1, <2>3
<1> QED
  BY <1>4, <1>5, <1>6, <1>7, <1>8 DEF Plan

\* The requests of a port's plan modify rows that were read, moving the bit of
\* that port; there is one per row, and joins and leaves differ in what is wanted.
LEMMA PortRequests ==
    ASSUME IInv, PlannedPort, NEW r \in todo'.joins \cup todo'.leaves
    PROVE  \E e \in config.rows :
             LET n == MoveBit(e, call.port, call.tagged, Disjoint(call.tagged, call.untagged))
             IN  /\ r.cgi = "mod" /\ r.vid = e.vid
                 /\ r.tagMbrs = n.tagged /\ r.untagMbrs = n.untagged
                 /\ r \in todo'.joins => r.vid \in Wanted
                 /\ r \in todo'.leaves => r.vid \notin Wanted
                 /\ r = RowRequest(config.rows, n)
<1> DEFINE untagged == Disjoint(call.tagged, call.untagged)
           Moved(e) == MoveBit(e, call.port, call.tagged, untagged)
<1>1. RowsOK(config.rows) /\ call.tagged \cap untagged = {} /\ call.port \in Port
  BY DEF IInv, ConfigOK, ReadOK, PlannedPort, Disjoint
<1>2. \A e \in config.rows : /\ e = [vid |-> e.vid, idx |-> e.idx,
                                     tagged |-> e.tagged, untagged |-> e.untagged]
                             /\ e.tagged \cap e.untagged = {} /\ e \in Row
                             /\ e.idx \in Nat
  BY <1>1 DEF RowsOK, Row
<1>3. /\ todo'.joins = {RowRequest(config.rows, n) : n \in PortChanges.joins}
      /\ todo'.leaves = {RowRequest(config.rows, n) : n \in PortChanges.leaves}
  BY DEF PlannedPort
<1> HIDE DEF untagged
<1>4. /\ \A n \in PortChanges.joins \cup PortChanges.leaves :
           \E e \in config.rows : n = Moved(e)
      /\ \A n \in PortChanges.joins : n.vid \in call.tagged \cup untagged
      /\ \A n \in PortChanges.leaves : n.vid \notin call.tagged \cup untagged
  BY <1>1, <1>2, PortPlan DEF PortChanges, untagged
<1>5. ASSUME NEW n \in PortChanges.joins \cup PortChanges.leaves,
             r = RowRequest(config.rows, n)
      PROVE  \E e \in config.rows :
               /\ r = RowRequest(config.rows, Moved(e))
               /\ r.cgi = "mod" /\ r.vid = e.vid /\ r.vid = n.vid
               /\ r.tagMbrs = Moved(e).tagged /\ r.untagMbrs = Moved(e).untagged
  <2>1. PICK e \in config.rows : n = Moved(e)
    BY <1>4
  <2>2. /\ n.vid = e.vid
        /\ n.tagged \in SUBSET Port /\ n.untagged \in SUBSET Port
        /\ n.tagged \cap n.untagged = {}
    BY <1>1, <1>2, <2>1, MovedRow
  <2>3. HasVLAN(config.rows, n.vid)
    BY <2>2 DEF HasVLAN
  <2>4. n.tagged \in SUBSET MappedPort /\ n.untagged \in SUBSET MappedPort
    BY <2>2, PortsFit
  <2>5. /\ r = [cgi |-> r.cgi, vid |-> n.vid, idx |-> r.idx, tagMbrs |-> n.tagged,
                untagMbrs |-> n.untagged]
        /\ r.cgi = "mod" <=> HasVLAN(config.rows, n.vid)
    BY <1>1, <1>2, <1>5, <2>2, <2>4, RowRequestSends DEF RowsOK
  <2>6. r.vid = n.vid /\ r.tagMbrs = n.tagged /\ r.untagMbrs = n.untagged
    BY <2>5
  <2> QED
    BY <1>5, <2>1, <2>2, <2>3, <2>5, <2>6
<1>6. r \in todo'.joins => r.vid \in Wanted
  BY <1>3, <1>4, <1>5 DEF Wanted, untagged
<1>7. r \in todo'.leaves => r.vid \notin Wanted
  BY <1>3, <1>4, <1>5 DEF Wanted, untagged
<1>8. PICK n \in PortChanges.joins \cup PortChanges.leaves : r = RowRequest(config.rows, n)
  BY <1>3
<1> QED
  BY <1>5, <1>6, <1>7, <1>8 DEF untagged

----------------------------------------------------------------------------
(* Ids and slots are unique.                                               *)

\* Others do not create VLANs.
OthersAddNone == \A r \in OtherRequests : r.cgi # "add"

\* No row of the device has the id or the slot of this request.
Fresh(r) == \A e \in vlans : e.vid # r.vid /\ e.idx # r.idx

SlotsKept ==
    /\ SlotsUnique
    /\ pc \in {"page", "plan"} =>
         \A e \in vlans : \E f \in config.rows : f.vid = e.vid /\ f.idx = e.idx
    /\ \A r \in todo.joins : r.cgi = "add" => Fresh(r) /\ todo.joins = {r}
    /\ \A r \in todo.leaves : r.cgi # "add"

\* Only adding a row gives the table an id or a slot that it did not have.
LEMMA OnlyAddGrows ==
    ASSUME DeviceOK, NEW r, WellFormedRequest(r), Accept(r), r.cgi # "add"
    PROVE  \A e \in vlans' : \E f \in vlans : f.vid = e.vid /\ f.idx = e.idx
<1>1. CASE r.cgi = "pvid"
  BY <1>1 DEF Accept, SetPVIDs
<1>2. CASE r.cgi # "pvid"
  <2>1. RowRequestOK(r)
    BY <1>2 DEF RowRequestOK
  <2>2. CASE vlans' = {Modified(r, e) : e \in vlans}
    <3>1. ASSUME NEW e \in vlans
          PROVE  Modified(r, e).vid = e.vid /\ Modified(r, e).idx = e.idx
      BY <2>1, ModifiedRow DEF DeviceOK, RowsOK
    <3> QED
      BY <2>2, <3>1
  <2>3. CASE vlans' = WithoutVLAN(vlans, r.vid)
    BY <2>3 DEF WithoutVLAN
  <2> QED
    BY <2>1, <2>2, <2>3, AcceptedRequest
<1> QED
  BY <1>1, <1>2

\* What others send keeps ids and slots unique, and so does what the driver
\* sends if a row that it adds is new.
LEMMA AcceptKeepsSlots ==
    ASSUME DeviceOK, SlotsUnique, NEW r, WellFormedRequest(r), Accept(r),
           r.cgi = "add" => Fresh(r)
    PROVE  SlotsUnique'
<1>1. CASE r.cgi = "pvid"
  BY <1>1 DEF Accept, SetPVIDs, SlotsUnique
<1>2. CASE r.cgi # "pvid"
  <2>1. RowRequestOK(r)
    BY <1>2 DEF RowRequestOK
  <2>2. CASE UNCHANGED vlans
    BY <2>2 DEF SlotsUnique
  <2>3. CASE r.cgi = "add" /\ vlans' = vlans \cup {Added(r)}
    <3>1. Added(r).vid = r.vid /\ Added(r).idx = r.idx
      BY DEF Added
    <3> QED
      BY <2>3, <3>1 DEF SlotsUnique, Fresh
  <2>4. CASE vlans' = {Modified(r, e) : e \in vlans}
    <3>1. ASSUME NEW e \in vlans
          PROVE  Modified(r, e).vid = e.vid /\ Modified(r, e).idx = e.idx
      BY <2>1, ModifiedRow DEF DeviceOK, RowsOK
    <3> QED
      BY <2>4, <3>1 DEF SlotsUnique
  <2>5. CASE vlans' = WithoutVLAN(vlans, r.vid)
    BY <2>5 DEF WithoutVLAN, SlotsUnique
  <2> QED
    BY <2>1, <2>2, <2>3, <2>4, <2>5, AcceptedRequest
<1> QED
  BY <1>1, <1>2

\* A row is requested in a slot, and with an id, that no row read has.
LEMMA AddsAreFresh ==
    ASSUME NEW rows, RowsOK(rows), NEW wanted, RowRequest(rows, wanted).cgi = "add"
    PROVE  \A f \in rows : /\ f.vid # RowRequest(rows, wanted).vid
                           /\ f.idx # RowRequest(rows, wanted).idx
<1>1. ~HasVLAN(rows, wanted.vid)
  BY DEF RowRequest
<1>2. /\ RowRequest(rows, wanted).vid = wanted.vid
      /\ RowRequest(rows, wanted).idx = FirstFreeIndex(rows)
  BY <1>1 DEF RowRequest
<1>3. \A e \in rows : e.idx \in Nat
  BY DEF RowsOK, Row
<1>4. \A e \in rows : e.idx # FirstFreeIndex(rows)
  BY <1>3, FirstFreeIndexIsFree DEF RowsOK
<1> QED
  BY <1>1, <1>2, <1>4 DEF HasVLAN

\* What a plan adds is new to the device too: since the table was read it may
\* have lost rows, but got none.
LEMMA PlansKeepSlots ==
    ASSUME IInv, SlotsKept, Plan
    PROVE  SlotsKept'
<1>1. pc = "plan" /\ UNCHANGED <<vlans, config>> /\ pc' \in {"send", "tableBack", "logout"}
  BY DEF Plan, PlanEnsure, PlanVLAN, PlanDelete, PlanPVID, PlanPort, Decided, Finish, Proceed,
     NextToSend, device
<1>2. SlotsUnique'
  BY <1>1 DEF SlotsKept, SlotsUnique
<1>3. RowsOK(config.rows)
  BY DEF IInv, ConfigOK, ReadOK
<1>4. CASE pc' # "send"
  <2>1. todo' = NothingToSend
    BY <1>4, PlansAreOK DEF TodoOK
  <2> QED
    BY <1>1, <1>2, <2>1 DEF SlotsKept, NothingToSend
<1>5. CASE pc' = "send"
  <2>1. ASSUME NEW wanted, PlannedRow(wanted) PROVE SlotsKept'
    <3> DEFINE r == RowRequest(config.rows, wanted)
    <3>1. r.cgi = "add" => Fresh(r)
      BY <1>1, <1>3, AddsAreFresh DEF SlotsKept, Fresh
    <3> HIDE DEF r
    <3>2. todo'.joins = {r} /\ todo'.leaves = {}
      BY <2>1 DEF PlannedRow, r
    <3>3. \A s : Fresh(s) => Fresh(s)'
      BY <1>1 DEF Fresh
    <3> QED
      BY <1>1, <1>2, <1>5, <3>1, <3>2, <3>3 DEF SlotsKept
  <2>2. CASE PlannedDelete
    <3>1. \A e : DeleteRequest(e).cgi = "del"
      BY DEF DeleteRequest
    <3>2. todo'.joins = {} /\ \A r \in todo'.leaves : r.cgi = "del"
      BY <2>2, <3>1 DEF PlannedDelete
    <3> QED
      BY <1>1, <1>2, <1>5, <3>2 DEF SlotsKept
  <2>3. CASE PlannedPVID
    BY <1>1, <1>2, <1>5, <2>3 DEF PlannedPVID, SlotsKept
  <2>4. CASE PlannedPort
    <3>1. \A r \in todo'.joins \cup todo'.leaves : r.cgi = "mod"
      BY <2>4, PortRequests
    <3> QED
      BY <1>1, <1>2, <1>5, <3>1 DEF SlotsKept
  <2> QED
    BY <1>5, <2>1, <2>2, <2>3, <2>4, Planned
<1> QED
  BY <1>4, <1>5

\* Every step keeps what the theorem below needs.
LEMMA SlotsKeptStep ==
    ASSUME OthersAddNone
    PROVE  IInv /\ SlotsKept /\ [Next]_vars => SlotsKept'
<1> SUFFICES ASSUME IInv, SlotsKept, [Next]_vars PROVE SlotsKept'
  OBVIOUS
<1>1. ASSUME UNCHANGED <<vlans, todo>>, pc' \notin {"page", "plan"} PROVE SlotsKept'
  BY <1>1 DEF SlotsKept, SlotsUnique, Fresh
<1>2. ASSUME UNCHANGED <<vlans, todo, config>>, pc \in {"page", "plan"} PROVE SlotsKept'
  BY <1>2 DEF SlotsKept, SlotsUnique, Fresh
<1>3. ASSUME UNCHANGED vlans, todo' = NothingToSend, pc' \notin {"page", "plan"}
      PROVE  SlotsKept'
  BY <1>3 DEF SlotsKept, SlotsUnique, NothingToSend
<1>4. ASSUME UNCHANGED <<vlans, driver>> PROVE SlotsKept'
  BY <1>4 DEF SlotsKept, SlotsUnique, Fresh, driver
<1>5. CASE UNCHANGED vars
  BY <1>4, <1>5 DEF vars, device
<1>6. ASSUME NEW c \in Calls, Start(c) PROVE SlotsKept'
  BY <1>1, <1>6 DEF Start, device
<1>7. CASE Login
  BY <1>1, <1>7 DEF Login, Logon, device
<1>8. CASE ReadTable
  <2>1. ParseVLANEntries(VlanEntry) = vlans
    BY TableIsRead DEF IInv, DeviceOK, VlanEntry
  <2>2. config' = [config EXCEPT !.rows = vlans] /\ UNCHANGED <<vlans, todo>>
    BY <1>8, <2>1 DEF ReadTable, device
  <2>3. config'.rows = vlans
    BY <2>2 DEF IInv, ConfigOK, ReadOK
  <2> QED
    BY <2>2, <2>3 DEF SlotsKept, SlotsUnique, Fresh
<1>9. CASE ReadPage
  <2>1. /\ config'.rows = config.rows /\ UNCHANGED <<vlans, todo>>
        /\ pc' \in {"page", "plan"} => pc = "page"
    BY <1>9 DEF ReadPage, device
  <2> QED
    BY <2>1 DEF SlotsKept, SlotsUnique, Fresh
<1>10. CASE ReadFails
  BY <1>3, <1>10 DEF ReadFails, Finish, device
<1>11. CASE Plan
  BY <1>11, PlansKeepSlots
<1>12. ASSUME NEW r \in Ready PROVE WellFormedRequest(r) /\ (r.cgi = "add" => Fresh(r))
  BY DEF Ready, IInv, TodoOK, RowRequestOK, WellFormedRequest, SlotsKept
<1>13. ASSUME NEW r \in Ready, SendFails(r) PROVE SlotsKept'
  <2>1. SlotsUnique'
    BY <1>12, <1>13, AcceptKeepsSlots DEF SendFails, device, SlotsKept, SlotsUnique, IInv
  <2> QED
    BY <1>13, <2>1 DEF SendFails, Finish, SlotsKept, NothingToSend
<1>14. ASSUME NEW r \in Ready, SendWrite(r) PROVE SlotsKept'
  <2>1. SlotsUnique'
    BY <1>12, <1>14, AcceptKeepsSlots DEF SendWrite, device, SlotsKept, SlotsUnique, IInv
  <2>2. todo' = [joins |-> todo.joins \ {r}, pvids |-> todo.pvids \ {r},
                 leaves |-> todo.leaves \ {r}]
    BY <1>14 DEF SendWrite, NextToSend, Without, IInv, TodoOK
  <2>3. pc' \in {"send", "tableBack"}
    BY <1>14 DEF SendWrite, NextToSend
  <2>4. ASSUME NEW s \in todo'.joins, s.cgi = "add" PROVE FALSE
    <3>1. s \in todo.joins /\ s # r
      BY <2>2
    <3>2. todo.joins = {s}
      BY <2>4, <3>1 DEF SlotsKept
    <3> QED
      BY <3>1, <3>2 DEF Ready
  <2> QED
    BY <2>1, <2>2, <2>3, <2>4 DEF SlotsKept
<1>15. CASE Verify
  BY <1>1, <1>15 DEF Verify, Finish, device
<1>16. CASE LogsOut \/ LogoutFails
  BY <1>1, <1>16 DEF LogsOut, LogoutFails, Logout, Return, device
<1>17. CASE SessionExpires \/ OtherLogsIn \/ OtherLogsOut
  BY <1>4, <1>17 DEF SessionExpires, OtherLogsIn, OtherLogsOut, Logon, Logout
<1>18. CASE OtherWrites
  <2>1. PICK r \in OtherRequests : Accept(r)
    BY <1>18 DEF OtherWrites
  <2>2. WellFormedRequest(r) /\ r.cgi # "add" /\ UNCHANGED driver
    BY <1>18, OthersAssumption DEF OthersAddNone, OtherWrites
  <2>3. SlotsUnique'
    BY <2>1, <2>2, AcceptKeepsSlots DEF SlotsKept, IInv
  <2>4. \A e \in vlans' : \E f \in vlans : f.vid = e.vid /\ f.idx = e.idx
    BY <2>1, <2>2, OnlyAddGrows DEF IInv
  <2>5. \A s : Fresh(s) => Fresh(s)'
    BY <2>4 DEF Fresh
  <2> QED
    BY <2>2, <2>3, <2>4, <2>5 DEF SlotsKept, driver
<1> QED
  BY <1>5, <1>6, <1>7, <1>8, <1>9, <1>10, <1>11, <1>13, <1>14, <1>15, <1>16, <1>17, <1>18
     DEF Next

\* If nobody else creates VLANs, creating them never gives one id or one slot
\* to two rows, whatever others delete meanwhile, whichever answers are lost,
\* and even if the device ignores requests.
THEOREM SlotsStayUnique ==
    ASSUME OthersAddNone
    PROVE  Spec => []SlotsUnique
<1>1. Init => SlotsKept
  BY SeedsAssumption DEF Init, SlotsKept, SlotsUnique, SoundTable, NothingToSend
<1>2. IInv /\ SlotsKept /\ [Next]_vars => SlotsKept'
  BY SlotsKeptStep
<1>3. SlotsKept => SlotsUnique
  BY DEF SlotsKept
<1> QED
  BY <1>1, <1>2, <1>3, InductiveInvariant, PTL DEF Spec
=============================================================================
