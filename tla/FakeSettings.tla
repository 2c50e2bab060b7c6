--------------------------- MODULE FakeSettings ---------------------------
(***************************************************************************)
(* The other half of the emulated GS1200: the settings of its ports, their *)
(* rate limits and the switch-wide settings, the pages that show them and  *)
(* the CGI endpoints that set them (internal/fakeswitch/fakeswitch.go and  *)
(* management.go).                                                         *)
(*                                                                         *)
(* A list on a page is a sequence, whose position p is port p.  In a       *)
(* request the lists and bitmaps start at 0 for port 1, except the bitmap  *)
(* of the port isolation, in which port 1 is bit 1.                        *)
(***************************************************************************)
EXTENDS FakeSwitch, Sequences

VARIABLES
    ports,      \* portEnabled, portSpeed, portFlow
    rates,      \* ingressUnits, egressUnits: per port, in steps of 32 kbps
    knobs       \* the switch-wide settings

settings == <<ports, rates, knobs>>

\* What New starts with.
InitSettings ==
    /\ ports = [p \in Port |-> [enabled |-> TRUE, speed |-> 0, flow |-> FALSE]]
    /\ rates = [p \in Port |-> [ingress |-> 0, egress |-> 0]]
    /\ knobs = [name |-> "switch-a", loop |-> TRUE, storm |-> FALSE, pps |-> 0,
                eee |-> FALSE, led |-> FALSE, snmp |-> TRUE,
                snoop |-> TRUE, drop |-> FALSE, router |-> 0, uplink |-> 0]

----------------------------------------------------------------------------
(* Pages.                                                                  *)

AllUplinks == 1..10     \* 2046, "no isolation"

LowestBit(bitmap) ==
    CHOOSE i \in bitmap \cap (0..31) : \A j \in bitmap \cap (0..31) : i <= j

LoginPage == [page |-> "zlogin", name |-> knobs.name]

PortPage ==
    [page |-> "zPort", max |-> PortCount,
     state |-> [p \in Port |-> ports[p].enabled],
     spd_cfg |-> [p \in Port |-> ports[p].speed],
     fc_cfg |-> [p \in Port |-> ports[p].flow],
     lpEn |-> knobs.loop, sc_en |-> knobs.storm, pps |-> knobs.pps]

ManagementPage ==
    [page |-> "zManagement", enable_bit |-> IF knobs.eee THEN 0..4 ELSE {},
     led_eco |-> knobs.led, snmpv2 |-> knobs.snmp]

IGMPPage ==
    [page |-> "zIGMP_Snooping", state |-> knobs.snoop, umcdropState |-> knobs.drop,
     rstic |-> IF knobs.router > 0 THEN {knobs.router - 1} ELSE {}]

AdvancedPage ==
    [page |-> "zadvenced_set_modify",
     port_iso |-> IF knobs.uplink > 0 THEN {knobs.uplink} ELSE AllUplinks,
     ingress |-> [p \in Port |-> rates[p].ingress],
     egress |-> [p \in Port |-> rates[p].egress]]

\* Without a session each of these redirects to the login page.
Page(path) ==
    IF session = "free" THEN LoginPage
    ELSE CASE path = "zlogin" -> LoginPage
           [] path = "zPort" -> PortPage
           [] path = "zManagement" -> ManagementPage
           [] path = "zIGMP_Snooping" -> IGMPPage
           [] path = "zadvenced_set_modify" -> AdvancedPage

----------------------------------------------------------------------------
(* CGI endpoints.  Each answers 200 whatever it did.                       *)

\* zport_setting.cgi: the ports in g_port_map, and no other.
SetPorts(r) ==
    /\ ports' = [p \in Port |->
                   IF p - 1 \notin r.map THEN ports[p]
                   ELSE [enabled |-> p - 1 \in r.state, flow |-> p - 1 \in r.flwcl,
                         speed |-> IF p - 1 \in DOMAIN r.speed /\ r.speed[p - 1] # -1
                                     THEN r.speed[p - 1] ELSE ports[p].speed]]
    /\ UNCHANGED <<rates, knobs>>

\* zrate_limit_set.cgi: the ports in g_selMask, and no other.
SetRates(r) ==
    /\ rates' = [p \in Port |->
                   IF p - 1 \in r.selMask /\ p - 1 \in DOMAIN r.ingress
                     THEN [ingress |-> r.ingress[p - 1], egress |-> r.egress[p - 1]]
                     ELSE rates[p]]
    /\ UNCHANGED <<ports, knobs>>

\* The bitmaps of igmpSet and isolationSet become a port, 0 for none.
Stored(knob, value) ==
    CASE knob = "router" -> IF value \cap (0..31) = {} THEN 0 ELSE LowestBit(value) + 1
      [] knob = "uplink" -> IF value = AllUplinks \/ value \cap (0..31) = {} THEN 0
                            ELSE LowestBit(value)
      [] OTHER -> value

\* The endpoints of switch-wide settings: each sets the parameters it is given
\* and keeps the rest.
SetKnobs(r) ==
    /\ knobs' = [k \in DOMAIN knobs |->
                   IF k \in DOMAIN r.params THEN Stored(k, r.params[k]) ELSE knobs[k]]
    /\ UNCHANGED <<ports, rates>>

AcceptSettings(r) ==
    IF r.cgi \in {"add", "mod", "del", "pvid"} THEN Accept(r) /\ UNCHANGED settings
    ELSE /\ IF session = "free" THEN UNCHANGED settings
            ELSE CASE r.cgi = "port" -> SetPorts(r)
                   [] r.cgi = "rate" -> SetRates(r)
                   [] r.cgi = "knobs" -> SetKnobs(r)
         /\ UNCHANGED device

----------------------------------------------------------------------------
Switches == {"loop", "storm", "eee", "led", "snmp", "snoop", "drop"}

KnobNames == Switches \cup {"name", "pps", "router", "uplink"}

KnobOK(knob, value) ==
    /\ knob \in Switches => value \in BOOLEAN
    /\ knob = "pps" => value \in Nat
    /\ knob = "router" => value \in 0..32
    /\ knob = "uplink" => value \in 0..31

KnobsOK == DOMAIN knobs = KnobNames /\ \A k \in KnobNames : KnobOK(k, knobs[k])

\* What the device keeps for each port.
PortSettings == [Port -> [enabled : BOOLEAN, speed : 0..5, flow : BOOLEAN]]

Gigabit == 31250    \* units

UnitRange == 0..Gigabit

Limits == [ingress : UnitRange, egress : UnitRange]

RateLimits == [Port -> Limits]

\* A request as the pages of the web interface send it.
WellFormedSetting(r) ==
    \/ r.cgi \in {"add", "mod", "del", "pvid"} /\ WellFormedRequest(r)
    \/ r.cgi = "port" /\ \A i \in DOMAIN r.speed : r.speed[i] \in -1..5
    \/ r.cgi = "rate" /\ \A i \in DOMAIN r.ingress :
                            [ingress |-> r.ingress[i], egress |-> r.egress[i]] \in Limits
    \/ r.cgi = "knobs" /\ \A k \in DOMAIN r.params : KnobOK(k, Stored(k, r.params[k]))

\* The types of the settings.
SettingsTypeOK == ports \in PortSettings /\ rates \in RateLimits /\ KnobsOK
=============================================================================
