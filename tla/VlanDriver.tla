---------------------------- MODULE VlanDriver ----------------------------
(***************************************************************************)
(* The write operations of internal/zyxel on VLANs: EnsureVLAN, WritePort, *)
(* DeleteVLAN, WriteVLAN and WritePVID, each a read-modify-verify cycle    *)
(* inside one session, against the device of FakeSwitch.                   *)
(*                                                                         *)
(* Calls are made one after the other, in any order: withSession holds the *)
(* device's lock from the login to the logout (module DeviceSession), so   *)
(* calls of concurrent goroutines do not overlap.  What does interleave is *)
(* everybody else: the session may be lost in the middle of a call, and    *)
(* somebody else may use the web interface whenever the session is free.   *)
(* One HTTP exchange is one step.                                          *)
(***************************************************************************)
EXTENDS FakeSwitch

CONSTANTS
    Calls,          \* the calls made, see Call
    Seeds,          \* the device's initial <<vlans, pvid>>
    OtherRequests,  \* writes that others make from the web interface
    NetworkFaults,  \* may a request or its answer be lost, a ctx be cancelled
    MayIgnore,      \* may the device answer 200 and apply nothing
    SessionLoss     \* may the device time out a session in use

VARIABLES
    pc,         \* where the call is
    call,       \* the call being made, or the last one made
    config,     \* current: the Config read from the device
    todo,       \* CGI requests still to send, by phase
    changed,    \* WritePVID's changed: the ports whose native VLAN it moves
    outcome     \* what the call returns

driver == <<pc, call, config, todo, changed, outcome>>
vars == <<device, driver>>

Call ==
    [op : {"port"}, port : Int, pvid : Int, tagged : SUBSET Int,
     untagged : SUBSET Int, force : BOOLEAN]
    \cup [op : {"ensure", "delete"}, vid : Int, force : BOOLEAN]
    \cup [op : {"vlan"}, vid : Int, tagged : SUBSET Int, untagged : SUBSET Int,
          force : BOOLEAN]

\* WritePVID takes a map from ports to the native VLANs they are to have.
PVIDCall(c) ==
    /\ c \in [op : {"pvid"}, wanted : {c.wanted}, force : BOOLEAN]
    /\ DOMAIN c.wanted \subseteq Int /\ c.wanted \in [DOMAIN c.wanted -> Int]

ASSUME CallsAssumption == \A c \in Calls : c \in Call \/ PVIDCall(c)

\* The members of a VLAN that a call lists are ports of the switch.  The port of
\* WritePort is compared with the number of ports on the page that was read,
\* which is not there when the session was lost (port.go:159).  Nor does that page
\* have any native VLAN, and one that is not there reads as 0: no call wants 0.
ASSUME PortsAssumption ==
    \A c \in Calls :
        /\ c.op = "vlan" => c.tagged \cup c.untagged \subseteq Port
        /\ c.op = "port" /\ SessionLoss => c.port \in Port
        /\ c.op = "pvid" /\ SessionLoss =>
             \A p \in DOMAIN c.wanted : c.wanted[p] # 0

ASSUME SeedsAssumption ==
    \A seed \in Seeds :
        SoundTable(seed[1]) /\ IsFiniteSet(seed[1]) /\ seed[2] \in Natives

ASSUME OthersAssumption == \A r \in OtherRequests : WellFormedRequest(r)

NoCall == [op |-> "none", force |-> FALSE]
NoConfig == [rows |-> {}, pvids |-> <<>>, portCount |-> 0, mgmt |-> 0]
NothingToSend == [joins |-> {}, pvids |-> {}, leaves |-> {}]

Init ==
    /\ \E seed \in Seeds : vlans = seed[1] /\ pvid = seed[2]
    /\ session = "free"
    /\ pc = "idle"
    /\ call = NoCall
    /\ config = NoConfig
    /\ todo = NothingToSend
    /\ changed = {}
    /\ outcome = "none"

----------------------------------------------------------------------------
(* The cycle every write goes through.                                     *)

\* An operation is called.  EnsureVLAN and WriteVLAN refuse an id out of range
\* before they touch the device.
Start(c) ==
    /\ pc = "idle"
    /\ call' = c
    /\ IF c.op \in {"ensure", "vlan"} /\ ~ValidVID(c.vid)
         THEN pc' = "idle" /\ outcome' = "error"
         ELSE pc' = "login" /\ outcome' = "none"
    /\ UNCHANGED <<device, config, todo, changed>>

\* withSession: a refused login ends the call.
Login ==
    /\ pc = "login"
    /\ \/ /\ Logon("driver")
          /\ pc' = "table"
          /\ UNCHANGED outcome
       \/ /\ LogonRefused
          /\ pc' = "idle" /\ outcome' = "busy"
          /\ UNCHANGED device
    /\ UNCHANGED <<call, config, todo, changed>>

\* The work ends; the logout is next.
Finish(result) ==
    /\ pc' = "logout"
    /\ outcome' = result

\* readState, first request: vlanEntry.xml.
ReadTable ==
    /\ pc \in {"table", "tableBack"}
    /\ config' = [config EXCEPT !.rows = ParseVLANEntries(VlanEntry)]
    /\ pc' = IF pc = "table" THEN "page" ELSE "pageBack"
    /\ UNCHANGED <<device, call, todo, changed, outcome>>

\* readState, second request: zVLAN_1Q_List.html.
ReadPage ==
    /\ pc \in {"page", "pageBack"}
    /\ LET page == ParseListPage(ListPage)
       IN  config' = [rows |-> config.rows, pvids |-> page.pvids,
                      portCount |-> page.portCount, mgmt |-> page.mgmt]
    /\ pc' = IF pc = "page" THEN "plan" ELSE "verify"
    /\ UNCHANGED <<device, call, todo, changed, outcome>>

\* A read fails; so does the call.
ReadFails ==
    /\ NetworkFaults
    /\ pc \in {"table", "page", "tableBack", "pageBack"}
    /\ Finish("error")
    /\ todo' = NothingToSend
    /\ UNCHANGED <<device, call, config, changed>>

\* The change is refused, or there is nothing to do: nothing is sent.
Decided(result) ==
    /\ Finish(result)
    /\ UNCHANGED <<device, call, config, todo, changed>>

\* The read-back follows the last request.
NextToSend(requests) ==
    /\ todo' = requests
    /\ pc' = IF requests = NothingToSend THEN "tableBack" ELSE "send"

Proceed(requests) ==
    /\ NextToSend(requests)
    /\ UNCHANGED <<device, call, config, changed, outcome>>

Refuses(proposed, proposedPVID) ==
    GuardRefuses(config.mgmt, config.rows, proposed, proposedPVID, call.force)

----------------------------------------------------------------------------
(* The five operations, between the read and the first write.              *)

PlanEnsure ==
    /\ pc = "plan" /\ call.op = "ensure"
    /\ LET wanted == [vid |-> call.vid, idx |-> 0, tagged |-> {}, untagged |-> {}]
       IN  IF HasVLAN(config.rows, call.vid) THEN Decided("ok")
           ELSE IF Refuses(config.rows \cup {wanted}, config.pvids) THEN Decided("unsafe")
           ELSE Proceed([NothingToSend EXCEPT !.joins = {RowRequest(config.rows, wanted)}])

PlanVLAN ==
    /\ pc = "plan" /\ call.op = "vlan"
    /\ LET wanted == [vid |-> call.vid, idx |-> 0, tagged |-> call.tagged,
                      untagged |-> Disjoint(call.tagged, call.untagged)]
       IN  IF Refuses(WithoutVLAN(config.rows, call.vid) \cup {wanted}, config.pvids)
             THEN Decided("unsafe")
             ELSE Proceed([NothingToSend EXCEPT !.joins = {RowRequest(config.rows, wanted)}])

PlanDelete ==
    /\ pc = "plan" /\ call.op = "delete"
    /\ IF ~HasVLAN(config.rows, call.vid) THEN Decided("error")
       ELSE IF \E p \in DOMAIN config.pvids : config.pvids[p] = call.vid
              THEN Decided("inUse")
       ELSE IF Refuses(WithoutVLAN(config.rows, call.vid), config.pvids)
              THEN Decided("unsafe")
       ELSE Proceed([NothingToSend EXCEPT
                       !.leaves = {DeleteRequest(VLAN(config.rows, call.vid))}])

\* The values read, with those of the ports that are wanted replaced.
Merged(wanted) ==
    [p \in DOMAIN config.pvids \cup DOMAIN wanted |->
       IF p \in DOMAIN wanted THEN wanted[p] ELSE config.pvids[p]]

PlanPVID ==
    /\ pc = "plan" /\ call.op = "pvid"
    /\ LET merged == Merged(call.wanted)
           moved == ChangedPorts(config.pvids, merged)
       IN  IF DOMAIN config.pvids = {} THEN Decided("error")
           ELSE IF Refuses(config.rows, merged) THEN Decided("unsafe")
           ELSE IF moved = {} THEN Decided("ok")
           ELSE /\ NextToSend([NothingToSend EXCEPT !.pvids = {PVIDRequest(merged)}])
                /\ changed' = moved
                /\ UNCHANGED <<device, call, config, outcome>>

\* WritePort: joins, then the PVID if it moves, then leaves.
PlanPort ==
    /\ pc = "plan" /\ call.op = "port"
    /\ LET untagged == Disjoint(call.tagged, call.untagged)
           plan == PlanPortChanges(config.rows, call.port, call.tagged, untagged)
           merged == IF call.pvid = 0 THEN config.pvids
                     ELSE Merged([p \in {call.port} |-> call.pvid])
           Requests(rows) == {RowRequest(config.rows, e) : e \in rows}
       IN  IF call.port < 1 \/ (config.portCount > 0 /\ call.port > config.portCount)
             THEN Decided("error")
           ELSE IF \E vid \in call.tagged \cup untagged : ~HasVLAN(config.rows, vid)
             THEN Decided("error")
           ELSE IF PVIDNotUntagged(call.pvid, untagged, call.force) THEN Decided("unsafe")
           ELSE IF Refuses(plan.proposed, merged) THEN Decided("unsafe")
           ELSE Proceed([joins |-> Requests(plan.joins),
                         pvids |-> {PVIDRequest(merged) :
                                      p \in ChangedPorts(config.pvids, merged)},
                         leaves |-> Requests(plan.leaves)])

----------------------------------------------------------------------------
(* Sending, reading back, and the logout.                                  *)

\* Mutant: the PVID goes last.
Ready_PVIDLast ==
    CASE todo.joins # {} -> todo.joins
      [] todo.joins = {} /\ todo.leaves # {} -> todo.leaves
      [] OTHER -> todo.pvids

\* The requests of the first phase that has any left.  Within a phase the code
\* goes by slot; here any order is taken.
Ready ==
    CASE todo.joins # {} -> todo.joins
      [] todo.joins = {} /\ todo.pvids # {} -> todo.pvids
      [] OTHER -> todo.leaves

Without(r) == [phase \in DOMAIN todo |-> todo[phase] \ {r}]

\* A CGI request is sent and answered 200; the answer does not tell whether
\* the device applied it.
SendWrite(r) ==
    /\ pc = "send" /\ r \in Ready
    /\ Accept(r) \/ (MayIgnore /\ UNCHANGED device)
    /\ NextToSend(Without(r))
    /\ UNCHANGED <<call, config, changed, outcome>>

\* The exchange fails, before or after the device applied the request.  What
\* was already applied stays.
SendFails(r) ==
    /\ NetworkFaults
    /\ pc = "send" /\ r \in Ready
    /\ Accept(r) \/ UNCHANGED device
    /\ Finish("error")
    /\ todo' = NothingToSend
    /\ UNCHANGED <<call, config, changed>>

\* Do these values show what the call asked for?
AsAsked(rows, pvids) ==
    \/ /\ call.op = "port"
       /\ LET got == ReadPort(rows, pvids, call.port)
          IN  /\ got.tagged = call.tagged
              /\ got.untagged = Disjoint(call.tagged, call.untagged)
              /\ call.pvid # 0 => got.pvid = call.pvid
    \/ /\ call.op = "ensure"
       /\ HasVLAN(rows, call.vid) /\ MembersOf(rows, call.vid) = {}
    \/ /\ call.op = "vlan"
       /\ HasVLAN(rows, call.vid)
       /\ VLAN(rows, call.vid).tagged = call.tagged
       /\ VLAN(rows, call.vid).untagged = Disjoint(call.tagged, call.untagged)
    \/ call.op = "delete" /\ ~HasVLAN(rows, call.vid)
    \/ /\ call.op = "pvid"
       /\ \A p \in DOMAIN call.wanted : PVIDOf(pvids, p) = call.wanted[p]

\* Mutant: one port that shows its native VLAN is enough.
Verified_AnyPort ==
    IF call.op = "pvid"
      THEN \E p \in changed : PVIDOf(config.pvids, p) = call.wanted[p]
      ELSE AsAsked(config.rows, config.pvids)

\* What is read back shows what was asked for.  WritePVID looks only at the ports
\* whose native VLAN it has moved.
Verified ==
    IF call.op = "pvid"
      THEN \A p \in changed : PVIDOf(config.pvids, p) = call.wanted[p]
      ELSE AsAsked(config.rows, config.pvids)

\* Mutant: the read-back of a port stops at its VLANs.
Verify_NoPVID ==
    /\ pc = "verify"
    /\ LET pvids == IF call.op = "port" THEN [p \in {call.port} |-> call.pvid]
                    ELSE config.pvids
       IN  Finish(IF AsAsked(config.rows, pvids) THEN "ok" ELSE "error")
    /\ UNCHANGED <<device, call, config, todo, changed>>

\* The CGI endpoints answer 200 whether or not they applied anything: only the
\* configuration read back decides.
Verify ==
    /\ pc = "verify"
    /\ Finish(IF Verified THEN "ok" ELSE "error")
    /\ UNCHANGED <<device, call, config, todo, changed>>

\* The logout, then the deferred Unlock; config and changed are local variables.
Return(result) ==
    /\ pc = "logout"
    /\ pc' = "idle"
    /\ outcome' = result
    /\ config' = NoConfig /\ changed' = {}
    /\ UNCHANGED <<call, todo>>

LogsOut == Logout("driver") /\ Return(outcome)

\* The logout or its answer is lost, which is an error unless the work had one.
LogoutFails ==
    /\ NetworkFaults
    /\ Logout("driver") \/ UNCHANGED device
    /\ Return(IF outcome = "ok" THEN "error" ELSE outcome)

----------------------------------------------------------------------------
(* Everybody else.                                                         *)

\* The device times a session out: one left behind by a failed logout, or,
\* under SessionLoss, one that is in use.
SessionExpires ==
    /\ session = "driver"
    /\ pc = "idle" \/ SessionLoss
    /\ session' = "free"
    /\ UNCHANGED <<vlans, pvid, driver>>

OtherLogsIn ==
    /\ OtherRequests # {}
    /\ Logon("other")
    /\ UNCHANGED driver

OtherLogsOut == session = "other" /\ Logout("other") /\ UNCHANGED driver

OtherWrites ==
    /\ session = "other"
    /\ \E r \in OtherRequests : Accept(r)
    /\ UNCHANGED driver

----------------------------------------------------------------------------
Plan == PlanEnsure \/ PlanVLAN \/ PlanDelete \/ PlanPVID \/ PlanPort

Next ==
    \/ \E c \in Calls : Start(c)
    \/ Login \/ ReadTable \/ ReadPage \/ ReadFails
    \/ Plan
    \/ \E r \in Ready : SendWrite(r) \/ SendFails(r)
    \/ Verify \/ LogsOut \/ LogoutFails
    \/ SessionExpires \/ OtherLogsIn \/ OtherLogsOut \/ OtherWrites

Spec == Init /\ [][Next]_vars

----------------------------------------------------------------------------
(* Properties.                                                             *)

\* The types of the variables.
TypeOK ==
    /\ DeviceTypeOK
    /\ pc \in {"idle", "login", "table", "page", "plan", "send", "tableBack",
               "pageBack", "verify", "logout"}
    /\ call \in Calls \cup {NoCall}
    /\ config.rows \subseteq Row
    /\ DOMAIN config.pvids \in {{}, Port}
    /\ outcome \in {"none", "ok", "error", "busy", "unsafe", "inUse"}
    /\ pc # "send" => todo = NothingToSend

\* The safety refusals of README.md:126-137: without force no step of a call
\* takes a port out of the management VLAN, or the VLAN away from its ports.
ManagementKept ==
    [][pc # "idle" /\ driver' # driver /\ ~call.force =>
         MembersOf(vlans, Management) \subseteq MembersOf(vlans', Management)]_vars

\* WritePort's order (port.go:189-192): "at no point is the port's native VLAN
\* one it does not belong to", wherever a sequence of calls breaks off.
NativeVLANBelongs == \A p \in Port : p \in MembersOf(vlans, pvid[p])

\* Success is what the device shows, never what it answered: unless somebody
\* else could write after the session was lost, the device is as asked when a
\* call is about to report success.
OkMeansApplied ==
    /\ pc = "logout" /\ outcome = "ok"
    /\ session = "driver" \/ OtherRequests = {}
    =>
        IF call.op = "ensure" THEN HasVLAN(vlans, call.vid) ELSE AsAsked(vlans, pvid)

\* The device addresses VLANs by slot: creating VLANs never gives one slot or
\* one VLAN id to two rows, whatever gaps deletions have left.
SlotsUnique ==
    \A e, f \in vlans : e # f => e.vid # f.vid /\ e.idx # f.idx

\* The VLAN ids that can come up.
KnownVIDs ==
    (UNION {{e.vid : e \in seed[1]} : seed \in Seeds})
    \cup {c.vid : c \in {d \in Calls : d.op \in {"ensure", "vlan"}}}

\* The calls implement the abstract switch of PortView, which moves one bit of
\* one port at a time: "only this port's bit ever changes" (port.go:143).
PV == INSTANCE PortView WITH
        Ports <- Port,
        VIDs <- KnownVIDs,
        Mgmt <- Management,
        known <- {e.vid : e \in vlans},
        view <- [p \in Port |-> ReadPort(vlans, pvid, p)]

ImplementsPortView == PV!Spec
=============================================================================
