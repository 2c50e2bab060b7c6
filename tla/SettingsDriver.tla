-------------------------- MODULE SettingsDriver --------------------------
(***************************************************************************)
(* The write operations of internal/zyxel on settings: WritePortSettings,  *)
(* WriteProtection and WriteDeviceName (settings.go), WriteManagement and  *)
(* WritePortRates (management.go), against the device of FakeSettings.     *)
(*                                                                         *)
(* As in VlanDriver, calls are made one after the other, one HTTP exchange *)
(* is one step, and between two steps the session may be lost and somebody *)
(* else may use the web interface.                                         *)
(***************************************************************************)
EXTENDS FakeSettings

CONSTANTS
    Calls,          \* the calls made
    Seed,           \* the device's initial <<vlans, pvid>>
    BadNames,       \* names that the firmware's rule refuses
    OtherRequests,  \* writes that others make from the web interface
    NetworkFaults,  \* may a request or its answer be lost, a ctx be cancelled
    MayIgnore,      \* may the device answer 200 and apply nothing
    SessionLoss,    \* may the device time out a session in use
    MaxCalls        \* bound: calls made

Call ==
    [op : {"port"}, port : Int, enabled : BOOLEAN, speed : STRING, flow : BOOLEAN,
     force : BOOLEAN]
    \cup [op : {"protection"}, loop : BOOLEAN, storm : BOOLEAN, pps : Nat, force : BOOLEAN]
    \cup [op : {"management"}, eee : BOOLEAN, led : BOOLEAN, snmp : BOOLEAN,
          snoop : BOOLEAN, drop : BOOLEAN, router : Int, uplink : Int, force : BOOLEAN]
    \cup [op : {"rates"}, port : Int, ingress : Int, egress : Int, force : BOOLEAN]
    \cup [op : {"name"}, name : STRING, force : BOOLEAN]

ASSUME CallsAssumption == Calls \subseteq Call /\ MaxCalls \in Nat

ASSUME SeedAssumption ==
    SoundTable(Seed[1]) /\ IsFiniteSet(Seed[1]) /\ Seed[2] \in Natives

ASSUME OthersAssumption == \A r \in OtherRequests : WellFormedSetting(r)

VARIABLES
    made,       \* calls made so far
    pc,         \* where the call is
    call,       \* the call being made, or the last one made
    pages,      \* the pages still to read
    got,        \* what the pages read so far showed
    todo,       \* the CGI requests still to send
    outcome     \* what the call returns

driver == <<made, pc, call, pages, got, todo, outcome>>
vars == <<device, settings, driver>>

NoCall == [op |-> "none", force |-> FALSE]
Nothing == <<>>

Init ==
    /\ vlans = Seed[1] /\ pvid = Seed[2] /\ session = "free"
    /\ InitSettings
    /\ made = 0
    /\ pc = "idle"
    /\ call = NoCall
    /\ pages = <<>>
    /\ got = Nothing
    /\ todo = <<>>
    /\ outcome = "none"

----------------------------------------------------------------------------
(* What the pages show.                                                    *)

SpeedToCode ==
    [name \in {"auto", "1000-full", "100-auto", "100-full", "10-auto", "10-full"} |->
       CASE name = "auto" -> 0     [] name = "1000-full" -> 1 [] name = "100-auto" -> 2
         [] name = "100-full" -> 3 [] name = "10-auto" -> 4   [] name = "10-full" -> 5]

CodeToSpeed(code) == CHOOSE name \in DOMAIN SpeedToCode : SpeedToCode[name] = code

RateUnit == 32      \* rateUnitKbps

Scale(units) == [p \in DOMAIN units |-> units[p] * RateUnit]

ParsePortPage(page) ==
    [ports |-> [p \in {q \in DOMAIN page.state : q <= page.max} |->
                  [enabled |-> page.state[p], speed |-> CodeToSpeed(page.spd_cfg[p]),
                   flow |-> page.fc_cfg[p]]],
     loop |-> page.lpEn, storm |-> page.sc_en, pps |-> page.pps]

ParseManagementPage(page) ==
    [eee |-> page.enable_bit # {}, led |-> page.led_eco, snmp |-> page.snmpv2]

ParseIGMPPage(page) ==
    [snoop |-> page.state, drop |-> page.umcdropState,
     router |-> IF page.rstic = {} THEN 0 ELSE LowestBit(page.rstic) + 1]

\* This page alone is not checked for having been served: the login page in
\* its place reads as no ports and no isolation.
ParseAdvancedPage(page) ==
    IF page.page = "zlogin" THEN [ingress |-> <<>>, egress |-> <<>>, uplink |-> 0]
    ELSE [ingress |-> Scale(page.ingress), egress |-> Scale(page.egress),
          uplink |-> IF page.port_iso \in {{}, AllUplinks} THEN 0
                     ELSE LowestBit(page.port_iso)]

Shows(path) ==
    CASE path = "zPort" -> ParsePortPage(Page(path))
      [] path = "zManagement" -> ParseManagementPage(Page(path))
      [] path = "zIGMP_Snooping" -> ParseIGMPPage(Page(path))
      [] path = "zadvenced_set_modify" -> ParseAdvancedPage(Page(path))
      [] path = "zlogin" -> [name |-> Page(path).name]
      [] path = "vlanEntry" -> [rows |-> ParseVLANEntries(VlanEntry)]
      [] path = "zVLAN_1Q_List" -> [mgmt |-> ParseListPage(ListPage).mgmt]

\* The pages whose parser reports an error when it is given the login page.
Refused(path) ==
    /\ path \in {"zPort", "zManagement", "zIGMP_Snooping"}
    /\ Page(path).page = "zlogin"

\* readSettings, readManagement, and the login page of WriteDeviceName.
PagesFor(op) ==
    CASE op \in {"port", "protection"} -> <<"zPort">>
      [] op \in {"management", "rates"} ->
           <<"zManagement", "zIGMP_Snooping", "zadvenced_set_modify">>
      [] op = "name" -> <<"zlogin">>

----------------------------------------------------------------------------
(* The cycle every write goes through.                                     *)

UnknownSpeed(c) == c.op = "port" /\ c.speed \notin DOMAIN SpeedToCode

StormOutOfRange(c) == c.op = "protection" /\ c.storm /\ c.pps \notin 1..500000

NegativeRouter(c) == c.op = "management" /\ c.router < 0

BadName(c) == c.op = "name" /\ c.name \in BadNames

OffGrid(c) ==
    /\ c.op = "rates"
    /\ \E kbps \in {c.ingress, c.egress} :
         \/ kbps # 0 /\ (kbps < 32 \/ kbps > 1000000)
         \/ kbps % RateUnit # 0

LoopUnguarded(c) == c.op = "protection" /\ ~c.loop /\ ~c.force

\* What is refused before the device is touched.
Malformed(c) ==
    UnknownSpeed(c) \/ StormOutOfRange(c) \/ NegativeRouter(c) \/ BadName(c) \/ OffGrid(c)

\* An operation is called.
Start(c) ==
    /\ pc = "idle" /\ made < MaxCalls
    /\ made' = made + 1
    /\ call' = c
    /\ outcome' = CASE Malformed(c) -> "error"
                    [] ~Malformed(c) /\ LoopUnguarded(c) -> "unsafe"
                    [] OTHER -> "none"
    /\ pc' = IF outcome' = "none" THEN "login" ELSE "idle"
    /\ UNCHANGED <<device, settings, pages, got, todo>>

\* withSession.  WriteProtection and WriteDeviceName read nothing first.
Login ==
    /\ pc = "login"
    /\ \/ /\ Logon("driver")
          /\ IF call.op \in {"protection", "name"}
               THEN pc' = "plan" /\ UNCHANGED pages
               ELSE pc' = "read" /\ pages' = PagesFor(call.op)
          /\ UNCHANGED outcome
       \/ /\ LogonRefused
          /\ pc' = "idle" /\ outcome' = "busy"
          /\ UNCHANGED <<device, pages>>
    /\ UNCHANGED <<settings, made, call, got, todo>>

\* The work ends; the logout is next.
Finish(result) ==
    /\ pc' = "logout"
    /\ outcome' = result

\* What a page shows, and what the pages before it did.
Adding(shown, before) ==
    [f \in DOMAIN shown \cup DOMAIN before |->
       IF f \in DOMAIN shown THEN shown[f] ELSE before[f]]

After == [read |-> "plan", guardRead |-> "guard", readBack |-> "verify"]

ReadPage ==
    /\ pc \in DOMAIN After /\ ~Refused(Head(pages))
    /\ got' = Adding(Shows(Head(pages)), got)
    /\ pages' = Tail(pages)
    /\ pc' = IF pages' = <<>> THEN After[pc] ELSE pc
    /\ UNCHANGED <<device, settings, made, call, todo, outcome>>

\* The page is not the one expected, or the exchange fails.
ReadFails ==
    /\ pc \in DOMAIN After /\ (Refused(Head(pages)) \/ NetworkFaults)
    /\ Finish("error")
    /\ pages' = <<>>
    /\ UNCHANGED <<device, settings, made, call, got, todo>>

\* The change is refused, or there is nothing to do: nothing is sent.
Decided(result) ==
    /\ Finish(result)
    /\ UNCHANGED <<device, settings, made, call, pages, got, todo>>

\* The read-back follows the last request, and starts from nothing.
NextToSend(requests) ==
    /\ todo' = requests
    /\ IF requests = <<>>
         THEN pc' = "readBack" /\ pages' = PagesFor(call.op) /\ got' = Nothing
         ELSE pc' = "send" /\ UNCHANGED <<pages, got>>

Proceed(requests) ==
    /\ NextToSend(requests)
    /\ UNCHANGED <<device, settings, made, call, outcome>>

Slots == 0..7       \* the forms have eight slots whatever the model

\* 1 << n of a Go int.
Bit(n) == {n} \cap (0..(IntBits - 1))

----------------------------------------------------------------------------
(* WritePortSettings.                                                      *)

WantPort == [enabled |-> call.enabled, speed |-> call.speed, flow |-> call.flow]

\* Every port as read, this one as wanted.
MergedPorts ==
    [p \in DOMAIN got.ports |-> IF p = call.port THEN WantPort ELSE got.ports[p]]

\* Mutant: every port read is named in the map.
PortRequest_AllNamed ==
    [cgi |-> "port", map |-> {p - 1 : p \in DOMAIN got.ports},
     state |-> {p - 1 : p \in {q \in DOMAIN got.ports : MergedPorts[q].enabled}},
     flwcl |-> {p - 1 : p \in {q \in DOMAIN got.ports : MergedPorts[q].flow}},
     speed |-> [i \in Slots |-> IF i + 1 \in DOMAIN got.ports
                                  THEN SpeedToCode[MergedPorts[i + 1].speed] ELSE -1]]

PortRequest ==
    [cgi |-> "port", map |-> Bit(call.port - 1),
     state |-> {p - 1 : p \in {q \in DOMAIN got.ports : MergedPorts[q].enabled}},
     flwcl |-> {p - 1 : p \in {q \in DOMAIN got.ports : MergedPorts[q].flow}},
     speed |-> [i \in Slots |-> IF i + 1 \in DOMAIN got.ports
                                  THEN SpeedToCode[MergedPorts[i + 1].speed] ELSE -1]]

PlanPort ==
    /\ pc = "plan" /\ call.op = "port"
    /\ IF call.port \notin DOMAIN got.ports THEN Decided("error")
       ELSE IF got.ports[call.port] = WantPort THEN Decided("ok")
       ELSE IF got.ports[call.port].enabled /\ ~call.enabled
         THEN /\ pc' = "guardRead"
              /\ pages' = <<"vlanEntry", "zVLAN_1Q_List">>
              /\ UNCHANGED <<device, settings, made, call, got, todo, outcome>>
       ELSE Proceed(<<PortRequest>>)

\* Mutant: the native VLAN's ports are not looked at, only the tagged ones.
ShutdownRefused_TaggedOnly ==
    /\ ~call.force /\ got.mgmt # 0 /\ HasVLAN(got.rows, got.mgmt)
    /\ call.port \in VLAN(got.rows, got.mgmt).tagged

\* guardPortShutdown.
ShutdownRefused ==
    /\ ~call.force /\ got.mgmt # 0
    /\ call.port \in MembersOf(got.rows, got.mgmt)

GuardShutdown ==
    /\ pc = "guard"
    /\ IF ShutdownRefused THEN Decided("unsafe") ELSE Proceed(<<PortRequest>>)

----------------------------------------------------------------------------
(* WriteProtection, WriteDeviceName, WriteManagement.                      *)

SetRequest(params) == [cgi |-> "knobs", params |-> params]

PlanProtection ==
    /\ pc = "plan" /\ call.op = "protection"
    /\ Proceed(<<SetRequest([loop |-> call.loop, storm |-> call.storm, pps |-> call.pps])>>)

PlanName ==
    /\ pc = "plan" /\ call.op = "name"
    /\ Proceed(<<SetRequest([name |-> call.name])>>)

\* Mutant: the uplink's bitmap counts from zero as the router's does.
Wire_OneBitmap(knob, value) ==
    CASE knob = "router" -> IF value > 0 THEN Bit(value - 1) ELSE {}
      [] knob = "uplink" -> IF value > 0 THEN Bit(value - 1) ELSE AllUplinks
      [] OTHER -> value

\* How the value of a setting is sent.
Wire(knob, value) ==
    CASE knob = "router" -> IF value > 0 THEN Bit(value - 1) ELSE {}
      [] knob = "uplink" -> IF value > 0 THEN Bit(value) ELSE AllUplinks
      [] OTHER -> value

\* Only what moves is sent, and the router only if snooping is wanted.
Moved(fields) ==
    [k \in {f \in fields : call[f] # got[f] /\ (f = "router" => call.snoop)} |->
       Wire(k, call[k])]

\* The request to the endpoint of these settings, if one of them moves.
IfMoved(fields) ==
    IF DOMAIN Moved(fields) = {} THEN <<>> ELSE <<SetRequest(Moved(fields))>>

\* zeeeSet.cgi, led_cfg.cgi, zsnmp.cgi, zigmpSnooping.cgi, zmvlanSet.cgi.
PlanManagement ==
    /\ pc = "plan" /\ call.op = "management"
    /\ IF got.snmp /\ ~call.snmp /\ ~call.force THEN Decided("unsafe")
       ELSE Proceed(IfMoved({"eee"}) \o IfMoved({"led"}) \o IfMoved({"snmp"})
                    \o IfMoved({"snoop", "router", "drop"}) \o IfMoved({"uplink"}))

----------------------------------------------------------------------------
(* WritePortRates.                                                         *)

\* Mutant: the figures are sent as they were typed.
Slot_InKbps(read, wanted) ==
    [i \in Slots |-> IF i + 1 = call.port THEN wanted
                     ELSE IF i + 1 \in DOMAIN read THEN read[i + 1] ELSE 0]

Slot(read, wanted) ==
    [i \in Slots |-> (IF i + 1 = call.port THEN wanted
                      ELSE IF i + 1 \in DOMAIN read THEN read[i + 1] ELSE 0) \div RateUnit]

RateRequest ==
    [cgi |-> "rate", selMask |-> Bit(call.port - 1),
     ingress |-> Slot(got.ingress, call.ingress),
     egress |-> Slot(got.egress, call.egress)]

\* Mutant: the port is not compared with how many the switch has.
PlanRates_NoUpperBound ==
    /\ pc = "plan" /\ call.op = "rates"
    /\ IF call.port < 1 THEN Decided("error") ELSE Proceed(<<RateRequest>>)

PlanRates ==
    /\ pc = "plan" /\ call.op = "rates"
    /\ IF call.port \notin DOMAIN got.ingress THEN Decided("error")
       ELSE Proceed(<<RateRequest>>)

----------------------------------------------------------------------------
(* Sending, reading back, and the logout.                                  *)

SendWrite ==
    /\ pc = "send"
    /\ AcceptSettings(Head(todo)) \/ (MayIgnore /\ UNCHANGED <<device, settings>>)
    /\ NextToSend(Tail(todo))
    /\ UNCHANGED <<made, call, outcome>>

\* The exchange fails, before or after the device applied the request.
SendFails ==
    /\ NetworkFaults
    /\ pc = "send"
    /\ AcceptSettings(Head(todo)) \/ UNCHANGED <<device, settings>>
    /\ Finish("error")
    /\ todo' = <<>>
    /\ UNCHANGED <<made, call, pages, got>>

PortShown(now) == call.port \in DOMAIN now.ports /\ now.ports[call.port] = WantPort

ProtectionShown(now) == now.loop = call.loop /\ now.storm = call.storm

ManagementShown(now) ==
    \A k \in {"eee", "led", "snmp", "snoop", "drop"} : now[k] = call[k]

RatesShown(now) ==
    now.ingress[call.port] = call.ingress /\ now.egress[call.port] = call.egress

\* Do these values show what the read-back looks at?
AsAsked(now) ==
    CASE call.op = "port" -> PortShown(now)
      [] call.op = "protection" -> ProtectionShown(now)
      [] call.op = "management" -> ManagementShown(now)
      [] call.op = "rates" -> RatesShown(now)
      [] call.op = "name" -> now.name = call.name

\* WritePortRates indexes the lists of the read-back without looking at their
\* length.
IndexPanics == call.op = "rates" /\ call.port \notin DOMAIN got.ingress

\* Mutant: every request was answered 200, so the call succeeded.
Verify_Trusting ==
    /\ pc = "verify" /\ ~IndexPanics
    /\ Finish("ok")
    /\ UNCHANGED <<device, settings, made, call, pages, got, todo>>

Verify ==
    /\ pc = "verify" /\ ~IndexPanics
    /\ Finish(IF AsAsked(got) THEN "ok" ELSE "error")
    /\ UNCHANGED <<device, settings, made, call, pages, got, todo>>

Return(result) ==
    /\ pc' = "idle"
    /\ outcome' = result
    /\ got' = Nothing
    /\ UNCHANGED <<settings, made, call, pages, todo>>

\* The panic ends the provider's process, and nothing logs out; Terraform
\* starts another.
Panic ==
    /\ pc = "verify" /\ IndexPanics
    /\ Return("panic")
    /\ UNCHANGED device

LogsOut == pc = "logout" /\ Logout("driver") /\ Return(outcome)

\* The logout or its answer is lost, which is an error unless the work had one.
LogoutFails ==
    /\ NetworkFaults
    /\ pc = "logout"
    /\ Logout("driver") \/ UNCHANGED device
    /\ Return(IF outcome = "ok" THEN "error" ELSE outcome)

----------------------------------------------------------------------------
(* Everybody else.                                                         *)

\* The device times a session out: one left behind, or, under SessionLoss, one
\* that is in use.
SessionExpires ==
    /\ session = "driver"
    /\ pc = "idle" \/ SessionLoss
    /\ session' = "free"
    /\ UNCHANGED <<vlans, pvid, settings, driver>>

OtherLogsIn ==
    /\ OtherRequests # {}
    /\ Logon("other")
    /\ UNCHANGED <<settings, driver>>

OtherLogsOut == session = "other" /\ Logout("other") /\ UNCHANGED <<settings, driver>>

OtherWrites ==
    /\ session = "other"
    /\ \E r \in OtherRequests : AcceptSettings(r)
    /\ UNCHANGED driver

----------------------------------------------------------------------------
Plan == PlanPort \/ PlanProtection \/ PlanName \/ PlanManagement \/ PlanRates

Next ==
    \/ \E c \in Calls : Start(c)
    \/ Login \/ ReadPage \/ ReadFails
    \/ Plan \/ GuardShutdown
    \/ SendWrite \/ SendFails
    \/ Verify \/ Panic \/ LogsOut \/ LogoutFails
    \/ SessionExpires \/ OtherLogsIn \/ OtherLogsOut \/ OtherWrites

Spec == Init /\ [][Next]_vars

----------------------------------------------------------------------------
(* Properties.                                                             *)

\* The types of the variables.
TypeOK ==
    /\ DeviceTypeOK /\ SettingsTypeOK
    /\ pc \in {"idle", "login", "read", "plan", "guardRead", "guard", "send",
               "readBack", "verify", "logout"}
    /\ made \in 0..MaxCalls
    /\ call \in Calls \cup {NoCall}
    /\ outcome \in {"none", "ok", "error", "busy", "unsafe", "panic"}
    /\ pc \in DOMAIN After <=> pages # <<>>
    /\ pc = "send" <=> todo # <<>>

\* What the device holds, in the driver's terms.
Actual ==
    Adding([ports |-> [p \in Port |-> [enabled |-> ports[p].enabled,
                                       speed |-> CodeToSpeed(ports[p].speed),
                                       flow |-> ports[p].flow]],
            ingress |-> [p \in Port |-> rates[p].ingress * RateUnit],
            egress |-> [p \in Port |-> rates[p].egress * RateUnit]], knobs)

\* Success is what the device shows: when a call that kept its session is about
\* to report it, the device is as asked in everything the read-back looks at,
\* whatever requests it ignored.
OkMeansApplied ==
    pc = "logout" /\ outcome = "ok" /\ session = "driver" => AsAsked(Actual)

\* README.md:117-118, "every write is read back and compared against what was
\* asked": success means that every setting asked for has been applied.
EverySettingApplied ==
    pc = "logout" /\ outcome = "ok" /\ session = "driver" =>
        /\ call.op = "management" => \A k \in {"router", "uplink"} : knobs[k] = call[k]
        /\ call.op = "protection" /\ call.storm => knobs.pps = call.pps

DriverStep == driver' # driver

\* No port of the management VLAN is shut by this step.
ManagementPortsStayOn ==
    \A p \in MembersOf(vlans, Management) : ports[p].enabled => ports'[p].enabled

\* "Two ports can therefore be written independently" (settings.go:194-198):
\* the forms carry every port's values as they were read, and yet a call moves
\* its own port only, to the values asked, even when its session was lost and
\* the values of the other ports have changed since.
PortsMoveAsAsked ==
    [][DriverStep =>
         \A p \in Port :
           /\ ports'[p] # ports[p] => /\ call.op = "port" /\ p = call.port
                                      /\ Actual'.ports[p] = WantPort
           /\ rates'[p] # rates[p] => /\ call.op = "rates" /\ p = call.port
                                      /\ Actual'.ingress[p] = call.ingress
                                      /\ Actual'.egress[p] = call.egress]_vars

\* A request moves a switch-wide setting only to the value asked, the ones the
\* read-back does not look at included, wherever the call breaks off.
KnobsMoveAsAsked ==
    [][DriverStep =>
         \A k \in DOMAIN knobs :
           knobs'[k] # knobs[k] => k \in DOMAIN call /\ knobs'[k] = call[k]]_vars

\* The safety refusals of README.md:128-137: without force no call switches loop
\* prevention or SNMP off, whoever has the session by the time it writes, and none
\* that kept its session shuts a port of the management VLAN.
NothingUnrecoverable ==
    [][DriverStep /\ ~call.force =>
         /\ session = "driver" => ManagementPortsStayOn
         /\ knobs.loop => knobs'.loop
         /\ knobs.snmp => knobs'.snmp]_vars

\* The read-back of WritePortRates can only be short of the port it indexes
\* (management.go:367) when the session was lost.
PanicNeedsLostSession ==
    [][outcome' = "panic" /\ outcome # "panic" => session # "driver"]_vars
=============================================================================
