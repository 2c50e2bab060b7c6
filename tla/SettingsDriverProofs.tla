----------------------- MODULE SettingsDriverProofs -----------------------
(***************************************************************************)
(* Theorems about SettingsDriver, for any calls, any number of ports and   *)
(* of calls, and every combination of faults.                              *)
(***************************************************************************)
EXTENDS SettingsDriver, VlanTableProofs, SequenceTheorems

----------------------------------------------------------------------------
(* Sequences of pages and of requests.                                     *)

IsSeq(s) == s \in Seq(Range(s))

\* What is left of a sequence after its head, and what was in it.
LEMMA HeadAndTail ==
    ASSUME NEW s, IsSeq(s), s # <<>>
    PROVE  /\ IsSeq(Tail(s)) /\ Head(s) \in Range(s)
           /\ Range(s) = {Head(s)} \cup Range(Tail(s))
<1>1. /\ Head(s) \in Range(s) /\ Tail(s) \in Seq(Range(s)) /\ Len(Tail(s)) = Len(s) - 1
      /\ \A i \in 1..Len(Tail(s)) : Tail(s)[i] = s[i + 1]
  BY HeadTailProperties DEF IsSeq
<1>2. Len(s) \in Nat \ {0} /\ DOMAIN s = 1..Len(s)
  BY EmptySeq, LenProperties DEF IsSeq
<1>3. Range(s) = {s[i] : i \in 1..Len(s)} /\ Range(Tail(s)) =
           {Tail(s)[i] : i \in 1..Len(Tail(s))}
  BY <1>1, RangeEquality DEF IsSeq
<1>4. Head(s) = s[1]
  BY <1>2 DEF IsSeq
<1>5. ASSUME NEW i \in 1..Len(s) PROVE s[i] \in {Head(s)} \cup Range(Tail(s))
  <2>1. CASE i = 1
    BY <1>4, <2>1
  <2>2. CASE i # 1
    <3>1. i - 1 \in 1..Len(Tail(s)) /\ (i - 1) + 1 = i
      BY <1>1, <1>2, <2>2
    <3>2. Tail(s)[i - 1] = s[i]
      BY <1>1, <3>1
    <3> QED
      BY <1>3, <3>1, <3>2
  <2> QED
    BY <2>1, <2>2
<1>6. ASSUME NEW i \in 1..Len(Tail(s)) PROVE Tail(s)[i] \in Range(s)
  <2>1. i + 1 \in 1..Len(s) /\ Tail(s)[i] = s[i + 1]
    BY <1>1, <1>2
  <2> QED
    BY <1>3, <2>1
<1>7. IsSeq(Tail(s))
  BY <1>1, SeqOfRange DEF IsSeq
<1> QED
  BY <1>1, <1>3, <1>5, <1>6, <1>7

\* No page and no request: nothing is in the empty sequence.
LEMMA NoneIsSeq == IsSeq(<<>>) /\ Range(<<>>) = {}
<1>1. Range(<<>>) = {}
  BY DEF Range
<1> QED
  BY <1>1, EmptySeq DEF IsSeq

\* A single page or request.
LEMMA OneIsSeq ==
    ASSUME NEW x
    PROVE  IsSeq(<<x>>) /\ Range(<<x>>) = {x} /\ <<x>> # <<>>
<1>1. Range(<<x>>) = {x}
  BY DEF Range
<1>2. <<x>> \in Seq({x})
  OBVIOUS
<1> QED
  BY <1>1, <1>2 DEF IsSeq

\* The requests of two endpoints, one after the other.
LEMMA JoinIsSeq ==
    ASSUME NEW s, NEW t, IsSeq(s), IsSeq(t)
    PROVE  IsSeq(s \o t) /\ Range(s \o t) = Range(s) \cup Range(t)
<1> DEFINE S == Range(s) \cup Range(t)
<1>1. s \in Seq(S) /\ t \in Seq(S)
  BY SeqMonotonic DEF IsSeq
<1>2. Range(s \o t) = S
  BY <1>1, RangeConcatenation
<1>3. s \o t \in Seq(S)
  BY <1>1, ConcatProperties
<1> QED
  BY <1>2, <1>3 DEF IsSeq

\* The two pages of guardPortShutdown.
LEMMA TwoIsSeq ==
    ASSUME NEW x, NEW y
    PROVE  IsSeq(<<x, y>>) /\ Range(<<x, y>>) = {x, y} /\ <<x, y>> # <<>>
<1>1. Range(<<x, y>>) = {x, y}
  BY DEF Range
<1>2. <<x, y>> \in Seq({x, y})
  OBVIOUS
<1> QED
  BY <1>1, <1>2 DEF IsSeq

\* The three pages of readManagement.
LEMMA ThreeIsSeq ==
    ASSUME NEW x, NEW y, NEW z
    PROVE  IsSeq(<<x, y, z>>) /\ Range(<<x, y, z>>) = {x, y, z} /\ <<x, y, z>> # <<>>
<1>1. Range(<<x, y, z>>) = {x, y, z}
  BY DEF Range
<1>2. <<x, y, z>> \in Seq({x, y, z})
  OBVIOUS
<1> QED
  BY <1>1, <1>2 DEF IsSeq

----------------------------------------------------------------------------
(* Conversions.                                                            *)

\* A speed and its code name each other.
LEMMA SpeedRoundTrip ==
    ASSUME NEW name \in DOMAIN SpeedToCode
    PROVE  SpeedToCode[name] \in 0..5 /\ CodeToSpeed(SpeedToCode[name]) = name
<1>1. SpeedToCode[name] \in 0..5
  BY DEF SpeedToCode
<1>2. \A other \in DOMAIN SpeedToCode :
        SpeedToCode[other] = SpeedToCode[name] => other = name
  BY DEF SpeedToCode
<1> QED
  BY <1>1, <1>2 DEF CodeToSpeed

\* The lowest bit of a bitmap of one bit.
LEMMA LowestBitIs == \A n \in 0..31 : LowestBit({n}) = n
  BY DEF LowestBit

\* A bit of an int is that bit, or it is shifted out.
LEMMA BitIs ==
    ASSUME NEW n \in Int
    PROVE  /\ Bit(n) = {n} \/ Bit(n) = {}
           /\ n \in 0..31 => Bit(n) = {n}
           /\ Bit(n) # AllUplinks
<1>1. Bit(n) = {n} \/ Bit(n) = {}
  BY DEF Bit
<1>2. n \in 0..31 => n \in 0..(IntBits - 1)
  BY IntBitsAssumption
<1>3. n \in 0..31 => Bit(n) = {n}
  BY <1>2 DEF Bit
<1>4. 1 \in AllUplinks /\ 2 \in AllUplinks
  BY DEF AllUplinks
<1>5. Bit(n) # AllUplinks
  BY <1>1, <1>4
<1> QED
  BY <1>1, <1>3, <1>5

\* What the device stores for a bitmap with the bit of a port.
LEMMA BitStored ==
    ASSUME NEW n \in Int
    PROVE  /\ Stored("router", Bit(n)) \in 0..32 /\ Stored("uplink", Bit(n)) \in 0..31
           /\ n \in 0..31 => Stored("router", Bit(n)) = n + 1 /\ Stored("uplink", Bit(n)) = n
           /\ Stored("router", {}) = 0 /\ Stored("uplink", AllUplinks) = 0
<1>1. Stored("router", {}) = 0 /\ Stored("uplink", AllUplinks) = 0
  BY DEF Stored
<1>2. CASE Bit(n) \cap (0..31) = {}
  <2>1. n \notin 0..31
    BY <1>2, BitIs
  <2> QED
    BY <1>1, <1>2, <2>1 DEF Stored
<1>3. CASE Bit(n) \cap (0..31) # {}
  <2>1. n \in 0..31 /\ Bit(n) = {n} /\ Bit(n) # AllUplinks
    BY <1>3, BitIs
  <2>2. LowestBit(Bit(n)) = n
    BY <2>1, LowestBitIs
  <2> QED
    BY <1>1, <1>3, <2>1, <2>2 DEF Stored
<1> QED
  BY <1>2, <1>3

\* The numbers of a management call that fit the device's bitmaps.
BitmapsFit(c) == c.op = "management" => c.router \in 0..32 /\ c.uplink \in 0..31

\* What the device stores of a setting as it is sent: a value of its type, and
\* the one asked for if its port fits the bitmap.
LEMMA WireStored ==
    ASSUME NEW k \in KnobNames, NEW value,
           k \in {"router", "uplink"} => value \in Int,
           k \notin {"router", "uplink"} => KnobOK(k, value)
    PROVE  /\ KnobOK(k, Stored(k, Wire(k, value)))
           /\ k = "router" /\ value \in 0..32 => Stored(k, Wire(k, value)) = value
           /\ k = "uplink" /\ value \in 0..31 => Stored(k, Wire(k, value)) = value
           /\ k \notin {"router", "uplink"} => Stored(k, Wire(k, value)) = value
<1>1. CASE k \notin {"router", "uplink"}
  BY <1>1 DEF Wire, Stored
<1>2. CASE k = "router"
  <2>1. CASE value > 0
    <3>1. Stored(k, Wire(k, value)) = Stored("router", Bit(value - 1)) /\ value - 1 \in Int
      BY <1>2, <2>1 DEF Wire
    <3>2. Stored(k, Wire(k, value)) \in 0..32
      BY <3>1, BitStored
    <3>3. value \in 0..32 => Stored(k, Wire(k, value)) = value
      BY <2>1, <3>1, BitStored
    <3> QED
      BY <1>2, <3>2, <3>3 DEF KnobOK, Switches
  <2>2. CASE ~(value > 0)
    <3>1. Stored(k, Wire(k, value)) = 0
      BY <1>2, <2>2, BitStored DEF Wire
    <3> QED
      BY <1>2, <2>2, <3>1 DEF KnobOK, Switches
  <2> QED
    BY <2>1, <2>2
<1>3. CASE k = "uplink"
  <2>1. CASE value > 0
    <3>1. Stored(k, Wire(k, value)) = Stored("uplink", Bit(value))
      BY <1>3, <2>1 DEF Wire
    <3>2. Stored(k, Wire(k, value)) \in 0..31
      BY <1>3, <3>1, BitStored
    <3>3. value \in 0..31 => Stored(k, Wire(k, value)) = value
      BY <1>3, <2>1, <3>1, BitStored
    <3> QED
      BY <1>3, <3>2, <3>3 DEF KnobOK, Switches
  <2>2. CASE ~(value > 0)
    <3>1. Stored(k, Wire(k, value)) = 0
      BY <1>3, <2>2, BitStored DEF Wire
    <3> QED
      BY <1>3, <2>2, <3>1 DEF KnobOK, Switches
  <2> QED
    BY <2>1, <2>2
<1> QED
  BY <1>1, <1>2, <1>3

----------------------------------------------------------------------------
(* The pages.                                                              *)

Paths == {"zPort", "zManagement", "zIGMP_Snooping", "zadvenced_set_modify", "zlogin",
          "vlanEntry", "zVLAN_1Q_List"}

\* What a page shows.
Fields(path) ==
    CASE path = "zPort" -> {"ports", "loop", "storm", "pps"}
      [] path = "zManagement" -> {"eee", "led", "snmp"}
      [] path = "zIGMP_Snooping" -> {"snoop", "drop", "router"}
      [] path = "zadvenced_set_modify" -> {"ingress", "egress", "uplink"}
      [] path = "zlogin" -> {"name"}
      [] path = "vlanEntry" -> {"rows"}
      [] path = "zVLAN_1Q_List" -> {"mgmt"}

\* A parser returns the fields of its page whatever page it was given.
LEMMA PageFields ==
    ASSUME NEW path \in Paths
    PROVE  DOMAIN Shows(path) = Fields(path)
<1>1. CASE path = "zPort"
  BY <1>1 DEF Shows, ParsePortPage, Fields
<1>2. CASE path = "zManagement"
  BY <1>2 DEF Shows, ParseManagementPage, Fields
<1>3. CASE path = "zIGMP_Snooping"
  BY <1>3 DEF Shows, ParseIGMPPage, Fields
<1>4. CASE path = "zadvenced_set_modify"
  <2>1. Shows(path) = ParseAdvancedPage(Page(path))
    BY <1>4 DEF Shows
  <2> DEFINE page == Page(path)
  <2> HIDE DEF page
  <2>2. DOMAIN ParseAdvancedPage(page) = {"ingress", "egress", "uplink"}
    BY DEF ParseAdvancedPage
  <2> QED
    BY <1>4, <2>1, <2>2 DEF Fields, page
<1>5. CASE path \in {"zlogin", "vlanEntry", "zVLAN_1Q_List"}
  BY <1>5 DEF Shows, Fields
<1> QED
  BY <1>1, <1>2, <1>3, <1>4, <1>5 DEF Paths

\* What the device holds, by field of a page.
Truth(f) ==
    CASE f = "rows" -> vlans
      [] f = "mgmt" -> Management
      [] OTHER -> Actual[f]

\* The switch-wide settings are shown as they are kept.
LEMMA KnobIsActual ==
    ASSUME KnobsOK, NEW k \in KnobNames
    PROVE  Truth(k) = knobs[k]
<1>1. k \in DOMAIN knobs /\ k \notin {"ports", "ingress", "egress", "rows", "mgmt"}
  BY DEF KnobsOK, KnobNames, Switches
<1> QED
  BY <1>1 DEF Truth, Actual, Adding

\* The list of ports on zPort.html is that of the switch.
LEMMA PortsShown == ParsePortPage(PortPage).ports = Actual.ports
<1> DEFINE page == PortPage
<1>1. /\ page.max = PortCount /\ DOMAIN page.state = Port
      /\ \A p \in Port : /\ page.state[p] = ports[p].enabled
                         /\ page.spd_cfg[p] = ports[p].speed
                         /\ page.fc_cfg[p] = ports[p].flow
  BY DEF PortPage
<1> HIDE DEF page
<1>2. {q \in DOMAIN page.state : q <= page.max} = Port
  BY <1>1, SwitchAssumption DEF MappedPort, Port
<1>3. ParsePortPage(page).ports =
        [p \in Port |-> [enabled |-> page.state[p], speed |-> CodeToSpeed(page.spd_cfg[p]),
                        flow |-> page.fc_cfg[p]]]
  BY <1>2 DEF ParsePortPage
<1>4. Actual.ports = [p \in Port |-> [enabled |-> ports[p].enabled,
                                     speed |-> CodeToSpeed(ports[p].speed),
                                     flow |-> ports[p].flow]]
  BY DEF Actual, Adding
<1> QED
  BY <1>1, <1>3, <1>4 DEF page

\* To whoever has a session a page shows what the device holds.
LEMMA PageShows ==
    ASSUME DeviceOK, KnobsOK, session # "free", NEW path \in Paths,
           NEW f \in Fields(path)
    PROVE  Shows(path)[f] = Truth(f)
<1>1. /\ \A k \in {"loop", "storm", "eee", "led", "snmp", "snoop", "drop"} :
           Truth(k) = knobs[k] /\ knobs[k] \in BOOLEAN
      /\ \A k \in {"name", "pps", "router", "uplink"} : Truth(k) = knobs[k]
      /\ knobs.router \in 0..32 /\ knobs.uplink \in 0..31
  BY KnobIsActual DEF KnobsOK, KnobOK, KnobNames, Switches
<1>2. CASE path = "zPort"
  <2>1. Shows(path) = ParsePortPage(PortPage)
    BY <1>2 DEF Shows, Page
  <2>2. Shows(path)["ports"] = Truth("ports")
    <3>1. Truth("ports") = Actual.ports
      BY DEF Truth
    <3> QED
      BY <2>1, <3>1, PortsShown
  <2>3. /\ Shows(path)["loop"] = knobs.loop /\ Shows(path)["storm"] = knobs.storm
        /\ Shows(path)["pps"] = knobs.pps
    BY <2>1 DEF ParsePortPage, PortPage
  <2> QED
    BY <1>1, <1>2, <2>2, <2>3 DEF Fields
<1>3. CASE path = "zManagement"
  <2>1. Shows(path) = ParseManagementPage(ManagementPage)
    BY <1>3 DEF Shows, Page
  <2>2. (IF knobs.eee THEN 0..4 ELSE {}) # {} <=> knobs.eee
    BY <1>1
  <2>3. /\ Shows(path)["eee"] = knobs.eee /\ Shows(path)["led"] = knobs.led
        /\ Shows(path)["snmp"] = knobs.snmp
    BY <1>1, <2>1, <2>2 DEF ParseManagementPage, ManagementPage
  <2> QED
    BY <1>1, <1>3, <2>3 DEF Fields
<1>4. CASE path = "zIGMP_Snooping"
  <2>1. Shows(path) = ParseIGMPPage(IGMPPage)
    BY <1>4 DEF Shows, Page
  <2>2. knobs.router > 0 => LowestBit({knobs.router - 1}) + 1 = knobs.router
    <3> DEFINE n == knobs.router
    <3>1. n \in 0..32
      BY <1>1
    <3> HIDE DEF n
    <3>2. n > 0 => n - 1 \in 0..31
      BY <3>1
    <3>3. n > 0 => LowestBit({n - 1}) = n - 1
      BY <3>2, LowestBitIs
    <3>4. n > 0 => LowestBit({n - 1}) + 1 = n
      BY <3>1, <3>3
    <3> QED
      BY <3>4 DEF n
  <2>3. /\ Shows(path)["snoop"] = knobs.snoop /\ Shows(path)["drop"] = knobs.drop
        /\ Shows(path)["router"] = knobs.router
    BY <1>1, <2>1, <2>2 DEF ParseIGMPPage, IGMPPage
  <2> QED
    BY <1>1, <1>4, <2>3 DEF Fields
<1>5. CASE path = "zadvenced_set_modify"
  <2>1. Shows(path) = ParseAdvancedPage(AdvancedPage)
    BY <1>5 DEF Shows, Page
  <2>2. /\ Shows(path)["ingress"] = [p \in Port |-> rates[p].ingress * RateUnit]
        /\ Shows(path)["egress"] = [p \in Port |-> rates[p].egress * RateUnit]
    BY <2>1 DEF ParseAdvancedPage, AdvancedPage, Scale
  <2>3. Shows(path)["uplink"] = knobs.uplink
    <3>1. 1 \in AllUplinks /\ 2 \in AllUplinks
      BY DEF AllUplinks
    <3>2. CASE knobs.uplink > 0
      <4>1. AdvancedPage.port_iso = {knobs.uplink} /\ {knobs.uplink} # AllUplinks
        BY <3>1, <3>2 DEF AdvancedPage
      <4>2. LowestBit({knobs.uplink}) = knobs.uplink
        <5> DEFINE n == knobs.uplink
        <5>1. n \in 0..31
          BY <1>1
        <5> HIDE DEF n
        <5>2. LowestBit({n}) = n
          BY <5>1, LowestBitIs
        <5> QED
          BY <5>2 DEF n
      <4> DEFINE page == AdvancedPage
      <4>3. page.page # "zlogin"
        BY DEF AdvancedPage
      <4>4. {knobs.uplink} # {}
        OBVIOUS
      <4> HIDE DEF page
      <4>5. page.port_iso = {knobs.uplink} /\ page.port_iso \notin {{}, AllUplinks}
        BY <4>1, <4>4 DEF page
      <4>6. ParseAdvancedPage(page).uplink = LowestBit(page.port_iso)
        BY <4>3, <4>5 DEF ParseAdvancedPage
      <4> QED
        BY <2>1, <4>2, <4>5, <4>6 DEF page
    <3>3. CASE ~(knobs.uplink > 0)
      BY <1>1, <2>1, <3>3 DEF ParseAdvancedPage, AdvancedPage
    <3> QED
      BY <3>2, <3>3
  <2>4. /\ Truth("ingress") = [p \in Port |-> rates[p].ingress * RateUnit]
        /\ Truth("egress") = [p \in Port |-> rates[p].egress * RateUnit]
    BY DEF Truth, Actual, Adding
  <2> QED
    BY <1>1, <1>5, <2>2, <2>3, <2>4 DEF Fields
<1>6. CASE path = "zlogin"
  <2>1. Shows(path)["name"] = knobs.name
    BY <1>6 DEF Shows, Page, LoginPage
  <2> QED
    BY <1>1, <1>6, <2>1 DEF Fields
<1>7. CASE path = "vlanEntry"
  <2>1. Shows(path)["rows"] = ParseVLANEntries(VlanEntry)
    BY <1>7 DEF Shows
  <2>2. ParseVLANEntries(VlanEntry) = vlans
    BY TableIsRead DEF DeviceOK, VlanEntry
  <2> QED
    BY <1>7, <2>1, <2>2 DEF Fields, Truth
<1>8. CASE path = "zVLAN_1Q_List"
  <2>1. Shows(path)["mgmt"] = Management
    BY <1>8 DEF Shows, ParseListPage, ListPage
  <2> QED
    BY <1>8, <2>1 DEF Fields, Truth
<1> QED
  BY <1>2, <1>3, <1>4, <1>5, <1>6, <1>7, <1>8 DEF Paths

\* The lists of a page that is not refused are of the switch's ports, or empty,
\* whoever has the session; SNMP is shown on or off.
LEMMA PageLists ==
    ASSUME SettingsTypeOK, NEW path \in Paths, ~Refused(path)
    PROVE  /\ "ports" \in Fields(path) => DOMAIN Shows(path)["ports"] = Port
           /\ "ingress" \in Fields(path) => DOMAIN Shows(path)["ingress"] \subseteq Port
           /\ "snmp" \in Fields(path) => Shows(path)["snmp"] \in BOOLEAN
<1>1. CASE path = "zPort"
  <2>1. session # "free"
    BY <1>1 DEF Refused, Page, LoginPage
  <2>2. Shows(path) = ParsePortPage(PortPage)
    BY <1>1, <2>1 DEF Shows, Page
  <2>3. DOMAIN Shows(path)["ports"] = Port
    BY <2>2 DEF ParsePortPage, PortPage, Port
  <2> QED
    BY <1>1, <2>3 DEF Fields
<1>2. CASE path = "zadvenced_set_modify" /\ session = "free"
  <2> DEFINE empty == <<>>
  <2>1. DOMAIN empty = {}
    OBVIOUS
  <2>2. Shows(path) = [ingress |-> empty, egress |-> empty, uplink |-> 0]
    BY <1>2 DEF Shows, Page, LoginPage, ParseAdvancedPage
  <2> HIDE DEF empty
  <2>3. DOMAIN Shows(path)["ingress"] = {}
    BY <2>1, <2>2
  <2> QED
    BY <1>2, <2>3 DEF Fields
<1>3. CASE path = "zadvenced_set_modify" /\ session # "free"
  <2>1. Shows(path) = ParseAdvancedPage(AdvancedPage)
    BY <1>3 DEF Shows, Page
  <2>2. DOMAIN Shows(path)["ingress"] = Port
    BY <2>1 DEF ParseAdvancedPage, AdvancedPage, Scale
  <2> QED
    BY <1>3, <2>2 DEF Fields
<1>4. CASE path = "zManagement"
  <2>1. session # "free"
    BY <1>4 DEF Refused, Page, LoginPage
  <2>2. Shows(path) = ParseManagementPage(ManagementPage)
    BY <1>4, <2>1 DEF Shows, Page
  <2>3. Shows(path)["snmp"] = knobs.snmp
    BY <2>2 DEF ParseManagementPage, ManagementPage
  <2>4. knobs.snmp \in BOOLEAN
    BY DEF SettingsTypeOK, KnobsOK, KnobOK, KnobNames, Switches
  <2> QED
    BY <1>4, <2>3, <2>4 DEF Fields
<1>5. CASE path \notin {"zPort", "zadvenced_set_modify", "zManagement"}
  BY <1>5 DEF Fields, Paths
<1> QED
  BY <1>1, <1>2, <1>3, <1>4, <1>5

----------------------------------------------------------------------------
(* The inductive invariant.                                                *)

\* The session of a call has been asked for and not yet given back.
Working == pc \notin {"idle", "login"}

Reading == pc \in {"read", "guardRead", "readBack"}

TagsOK ==
    /\ pc \in {"idle", "login", "read", "plan", "guardRead", "guard", "send",
               "readBack", "verify", "logout"}
    /\ outcome \in {"none", "ok", "error", "busy", "unsafe", "panic"}
    /\ made \in 0..MaxCalls

\* A call that has begun was not refused before.  What it plans for is a port
\* of the switch, though the session may be lost by then.
CallOK ==
    /\ call \in Calls \cup {NoCall}
    /\ pc # "idle" => call \in Calls /\ ~Malformed(call) /\ ~LoopUnguarded(call)
    /\ pc \in {"guardRead", "guard"} => call.op = "port"
    /\ pc \in {"guardRead", "guard", "send", "readBack", "verify"} =>
         (call.op \in {"port", "rates"} => call.port \in Port)

PagesOK ==
    /\ IsSeq(pages) /\ Range(pages) \subseteq Paths
    /\ Reading <=> pages # <<>>

\* The pages that an operation reads, and those that the call has asked for.
Needs(op) ==
    CASE op \in {"port", "protection"} -> {"zPort"}
      [] op \in {"management", "rates"} ->
           {"zManagement", "zIGMP_Snooping", "zadvenced_set_modify"}
      [] op = "name" -> {"zlogin"}

Asked ==
    CASE pc \in {"guardRead", "guard"} -> {"zPort", "vlanEntry", "zVLAN_1Q_List"}
      [] pc \in {"read", "readBack", "verify"} -> Needs(call.op)
      [] pc = "plan" -> IF call.op \in {"protection", "name"} THEN {} ELSE Needs(call.op)
      [] OTHER -> {}

\* Every page that was asked for is still to be read, or it has been.
GotOK ==
    /\ \A path \in Asked : path \in Range(pages) \/ Fields(path) \subseteq DOMAIN got
    /\ ~Working => DOMAIN got = {}
    /\ "ports" \in DOMAIN got => DOMAIN got["ports"] = Port
    /\ "ingress" \in DOMAIN got => DOMAIN got["ingress"] \subseteq Port
    /\ "snmp" \in DOMAIN got => got["snmp"] \in BOOLEAN

\* While the driver has the session, what it read is what the device holds,
\* from the first page of a read to the decision on it.
GotShows ==
    session = "driver" /\ pc \notin {"idle", "login", "send", "logout"} =>
        \A f \in DOMAIN got : got[f] = Truth(f)

\* A request is for the call's own port or settings, with the values asked.
PortRequestOK(r) ==
    /\ r.cgi = "port" /\ r.map \subseteq {call.port - 1}
    /\ call.port - 1 \in r.state <=> call.enabled
    /\ call.port - 1 \in r.flwcl <=> call.flow
    /\ DOMAIN r.speed = Slots
    /\ call.port - 1 \in Slots => r.speed[call.port - 1] = SpeedToCode[call.speed]

\* A rate that is refused, and how the others are sent.
OffTheGrid(kbps) ==
    \/ kbps # 0 /\ (kbps < 32 \/ kbps > 1000000)
    \/ kbps % RateUnit # 0

Units(kbps) == kbps \div RateUnit

\* How a rate is shown.
Kbps(units) == units * RateUnit

RateRequestOK(r) ==
    /\ r.cgi = "rate" /\ r.selMask \subseteq {call.port - 1}
    /\ DOMAIN r.ingress = Slots
    /\ call.port - 1 \in Slots => /\ r.ingress[call.port - 1] = Units(call.ingress)
                                  /\ r.egress[call.port - 1] = Units(call.egress)

\* WriteManagement is not to switch SNMP off.
KeepsSNMP == call.op = "management" /\ ~call.snmp /\ ~call.force

KnobRequestOK(r) ==
    /\ r.cgi = "knobs"
    /\ \A k \in DOMAIN r.params :
          /\ k \in KnobNames /\ k \in DOMAIN call
          /\ r.params[k] = Wire(k, call[k])
    /\ KeepsSNMP => "snmp" \notin DOMAIN r.params

RequestOK(r) ==
    /\ call.op = "port" => PortRequestOK(r)
    /\ call.op = "rates" => RateRequestOK(r)
    /\ call.op \in {"protection", "name", "management"} => KnobRequestOK(r)

TodoOK ==
    /\ IsSeq(todo)
    /\ pc = "send" <=> todo # <<>>
    /\ \A r \in Range(todo) : RequestOK(r)

\* What is to be sent without force shuts no port of the management VLAN that
\* is open.
Recoverable ==
    call.op = "port" /\ ~call.enabled /\ call.port \in MembersOf(vlans, Management) =>
        ~ports[call.port].enabled

SafeToSend == pc = "send" /\ session = "driver" /\ ~call.force => Recoverable

DriverOK == TagsOK /\ CallOK /\ PagesOK /\ GotOK /\ GotShows /\ TodoOK /\ SafeToSend

IInv == DeviceOK /\ SettingsTypeOK /\ DriverOK

\* The fields of a call, by operation.
LEMMA CallFields ==
    ASSUME NEW c \in Calls
    PROVE  /\ c.op \in {"port", "protection", "management", "rates", "name"}
           /\ c.force \in BOOLEAN
           /\ c.op = "port" => /\ c.port \in Int /\ c.enabled \in BOOLEAN
                               /\ c.flow \in BOOLEAN
           /\ c.op = "rates" => c.port \in Int /\ c.ingress \in Int /\ c.egress \in Int
           /\ c.op = "protection" =>
                /\ DOMAIN c = {"op", "loop", "storm", "pps", "force"}
                /\ c.loop \in BOOLEAN /\ c.storm \in BOOLEAN /\ c.pps \in Nat
           /\ c.op = "name" => DOMAIN c = {"op", "name", "force"}
           /\ c.op = "management" =>
                /\ DOMAIN c = {"op", "eee", "led", "snmp", "snoop", "drop", "router",
                               "uplink", "force"}
                /\ \A k \in {"eee", "led", "snmp", "snoop", "drop"} : c[k] \in BOOLEAN
                /\ c.router \in Int /\ c.uplink \in Int
<1>1. c \in Call
  BY CallsAssumption
<1> QED
  BY <1>1 DEF Call

----------------------------------------------------------------------------
(* What is read.                                                           *)

\* The pages that an operation reads, in order.
LEMMA PagesForIs ==
    ASSUME NEW op \in {"port", "protection", "management", "rates", "name"}
    PROVE  /\ IsSeq(PagesFor(op)) /\ PagesFor(op) # <<>>
           /\ Range(PagesFor(op)) = Needs(op) /\ Needs(op) \subseteq Paths
<1>1. CASE op \in {"port", "protection", "name"}
  <2>1. PICK path \in {"zPort", "zlogin"} : PagesFor(op) = <<path>> /\ Needs(op) = {path}
    BY <1>1 DEF PagesFor, Needs
  <2> QED
    BY <2>1, OneIsSeq DEF Paths
<1>2. CASE op \in {"management", "rates"}
  <2> DEFINE three == <<"zManagement", "zIGMP_Snooping", "zadvenced_set_modify">>
  <2>1. /\ IsSeq(three) /\ three # <<>>
        /\ Range(three) = {"zManagement", "zIGMP_Snooping", "zadvenced_set_modify"}
    BY ThreeIsSeq, Zenon
  <2>2. PagesFor(op) = three
    BY <1>2 DEF PagesFor
  <2> HIDE DEF three
  <2> QED
    BY <1>2, <2>1, <2>2 DEF Needs, Paths
<1> QED
  BY <1>1, <1>2

\* The two pages that a shutdown is checked with.
LEMMA GuardPagesAre ==
    LET guardPages == <<"vlanEntry", "zVLAN_1Q_List">>
    IN  /\ IsSeq(guardPages) /\ guardPages # <<>>
        /\ Range(guardPages) = {"vlanEntry", "zVLAN_1Q_List"}
  BY TwoIsSeq, Zenon

\* Nothing has been read.
LEMMA NothingIsRead == DOMAIN Nothing = {}
  BY DEF Nothing

----------------------------------------------------------------------------
(* What is sent.                                                           *)

\* The form for the ports names the call's port, with the values asked.
LEMMA PortRequestIsOK ==
    ASSUME NEW c \in Calls, call = c, call.op = "port", call.port \in Port,
           DOMAIN got.ports = Port
    PROVE  PortRequestOK(PortRequest)
<1>1. /\ call.port \in Port /\ call.enabled \in BOOLEAN /\ call.flow \in BOOLEAN
      /\ Port \subseteq Int /\ call.port \in Int
  BY CallFields, SwitchAssumption DEF MappedPort, Port
<1>2. MergedPorts[call.port] = WantPort
  BY <1>1 DEF MergedPorts
<1> DEFINE Of(S) == {p - 1 : p \in S}
<1>3. \A S \in SUBSET Port : call.port - 1 \in Of(S) <=> call.port \in S
  <2> SUFFICES ASSUME NEW S \in SUBSET Port, call.port - 1 \in Of(S) PROVE call.port \in S
    OBVIOUS
  <2>1. PICK p \in S : p - 1 = call.port - 1
    OBVIOUS
  <2> DEFINE n == call.port
  <2>2. n \in Int /\ p \in Int /\ p - 1 = n - 1
    BY <1>1, <2>1
  <2> HIDE DEF n
  <2>3. p = n
    BY <2>2
  <2> QED
    BY <2>3 DEF n
<1> HIDE DEF Of
<1>4. /\ call.port \in {q \in Port : MergedPorts[q].enabled} <=> call.enabled
      /\ call.port \in {q \in Port : MergedPorts[q].flow} <=> call.flow
  BY <1>1, <1>2 DEF WantPort
<1>5. Bit(call.port - 1) \subseteq {call.port - 1}
  BY DEF Bit
<1> DEFINE speeds == [i \in Slots |-> IF i + 1 \in Port THEN SpeedToCode[MergedPorts[i + 1].speed]
                                      ELSE -1]
<1>6. PortRequest = [cgi |-> "port", map |-> Bit(call.port - 1),
                     state |-> Of({q \in Port : MergedPorts[q].enabled}),
                     flwcl |-> Of({q \in Port : MergedPorts[q].flow}),
                     speed |-> speeds]
  BY DEF PortRequest, Of
<1>7. call.port - 1 \in Slots => speeds[call.port - 1] = SpeedToCode[call.speed]
  <2>1. (call.port - 1) + 1 = call.port
    <3>1. \A n \in Int : (n - 1) + 1 = n
      OBVIOUS
    <3>2. call.port \in Int
      BY <1>1
    <3> QED
      BY <3>1, <3>2
  <2>2. call.port - 1 \in Slots =>
          speeds[call.port - 1] = SpeedToCode[MergedPorts[call.port].speed]
    BY <1>1, <2>1
  <2> QED
    BY <1>2, <2>2 DEF WantPort
<1>8. DOMAIN speeds = Slots
  OBVIOUS
<1> HIDE DEF speeds
<1> DEFINE r == PortRequest
<1>9. /\ r.cgi = "port" /\ r.map = Bit(call.port - 1)
      /\ r.state = Of({q \in Port : MergedPorts[q].enabled})
      /\ r.flwcl = Of({q \in Port : MergedPorts[q].flow})
      /\ r.speed = speeds
  BY <1>6
<1> HIDE DEF r
<1>10. r.cgi = "port" /\ r.map \subseteq {call.port - 1}
  BY <1>5, <1>9
<1>11. /\ call.port - 1 \in r.state <=> call.enabled
       /\ call.port - 1 \in r.flwcl <=> call.flow
  BY <1>3, <1>4, <1>9
<1>12. /\ DOMAIN r.speed = Slots
       /\ call.port - 1 \in Slots => r.speed[call.port - 1] = SpeedToCode[call.speed]
  BY <1>7, <1>8, <1>9
<1> QED
  BY <1>10, <1>11, <1>12 DEF PortRequestOK, r

\* The form for the rates does too.
LEMMA RateRequestIsOK ==
    ASSUME NEW c \in Calls, call = c, call.op = "rates"
    PROVE  RateRequestOK(RateRequest)
<1>1. call.port \in Int
  BY CallFields
<1>2. /\ RateRequest.cgi = "rate" /\ RateRequest.selMask = Bit(call.port - 1)
      /\ RateRequest.ingress = Slot(got.ingress, call.ingress)
      /\ RateRequest.egress = Slot(got.egress, call.egress)
  BY DEF RateRequest
<1>3. ASSUME NEW read, NEW wanted
      PROVE  /\ DOMAIN Slot(read, wanted) = Slots
             /\ call.port - 1 \in Slots =>
                  Slot(read, wanted)[call.port - 1] = Units(wanted)
  <2>1. (call.port - 1) + 1 = call.port
    <3>1. \A n \in Int : (n - 1) + 1 = n
      OBVIOUS
    <3>2. call.port \in Int
      BY <1>1
    <3> QED
      BY <3>1, <3>2
  <2> QED
    BY <2>1, SMT DEF Slot, Units
<1>4. Bit(call.port - 1) \subseteq {call.port - 1}
  BY DEF Bit
<1> QED
  BY <1>2, <1>3, <1>4 DEF RateRequestOK

\* The settings that a call names have values of their types.
LEMMA CallKnobs ==
    ASSUME NEW c \in Calls, c.op \in {"protection", "name", "management"},
           NEW k \in KnobNames, k \in DOMAIN c
    PROVE  /\ k \in {"router", "uplink"} => c[k] \in Int
           /\ k \notin {"router", "uplink"} => KnobOK(k, c[k])
<1>1. CASE c.op = "protection"
  <2>1. k \in {"loop", "storm", "pps"}
    BY <1>1, CallFields DEF KnobNames, Switches
  <2> QED
    BY <1>1, <2>1, CallFields DEF KnobOK, Switches
<1>2. CASE c.op = "name"
  <2>1. k = "name"
    BY <1>2, CallFields DEF KnobNames, Switches
  <2> QED
    BY <2>1 DEF KnobOK, Switches
<1>3. CASE c.op = "management"
  <2>1. k \in {"eee", "led", "snmp", "snoop", "drop", "router", "uplink"}
    BY <1>3, CallFields DEF KnobNames, Switches
  <2> QED
    BY <1>3, <2>1, CallFields DEF KnobOK, Switches
<1> QED
  BY <1>1, <1>2, <1>3

\* WriteProtection and WriteDeviceName send what they were called with.
LEMMA SetRequestsAreOK ==
    ASSUME NEW c \in Calls, call = c
    PROVE  /\ call.op = "protection" =>
                KnobRequestOK(SetRequest([loop |-> call.loop, storm |-> call.storm,
                                          pps |-> call.pps]))
           /\ call.op = "name" => KnobRequestOK(SetRequest([name |-> call.name]))
<1>1. ASSUME call.op = "protection"
      PROVE  KnobRequestOK(SetRequest([loop |-> call.loop, storm |-> call.storm,
                                       pps |-> call.pps]))
  <2> DEFINE params == [loop |-> call.loop, storm |-> call.storm, pps |-> call.pps]
             r == SetRequest(params)
  <2>1. /\ DOMAIN params = {"loop", "storm", "pps"}
        /\ \A k \in DOMAIN params : params[k] = call[k]
    OBVIOUS
  <2>2. r.cgi = "knobs" /\ r.params = params
    BY DEF SetRequest
  <2> HIDE DEF params, r
  <2>3. {"loop", "storm", "pps"} \subseteq DOMAIN call
    BY <1>1, CallFields
  <2>4. ASSUME NEW k \in DOMAIN params
        PROVE  k \in KnobNames /\ k \in DOMAIN call /\ params[k] = Wire(k, call[k])
    BY <2>1, <2>3 DEF KnobNames, Switches, Wire
  <2>5. KnobRequestOK(r)
    BY <1>1, <2>2, <2>4 DEF KnobRequestOK, KeepsSNMP
  <2> QED
    BY <2>5 DEF r, params
<1>2. ASSUME call.op = "name"
      PROVE  KnobRequestOK(SetRequest([name |-> call.name]))
  <2> DEFINE params == [name |-> call.name]
             r == SetRequest(params)
  <2>1. DOMAIN params = {"name"} /\ params["name"] = call["name"]
    OBVIOUS
  <2>2. r.cgi = "knobs" /\ r.params = params
    BY DEF SetRequest
  <2> HIDE DEF params, r
  <2>3. "name" \in DOMAIN call
    BY <1>2, CallFields
  <2>4. ASSUME NEW k \in DOMAIN params
        PROVE  k \in KnobNames /\ k \in DOMAIN call /\ params[k] = Wire(k, call[k])
    BY <2>1, <2>3 DEF KnobNames, Switches, Wire
  <2>5. KnobRequestOK(r)
    BY <1>2, <2>2, <2>4 DEF KnobRequestOK, KeepsSNMP
  <2> QED
    BY <2>5 DEF r, params
<1> QED
  BY <1>1, <1>2

\* WriteManagement sends to an endpoint what moves of its settings.
LEMMA MovedIsOK ==
    ASSUME NEW c \in Calls, call = c, call.op = "management",
           NEW fields, fields \subseteq {"eee", "led", "snmp", "snoop", "drop", "router", "uplink"},
           got.snmp \in BOOLEAN, ~(got.snmp /\ ~call.snmp /\ ~call.force)
    PROVE  /\ IsSeq(IfMoved(fields))
           /\ \A r \in Range(IfMoved(fields)) : KnobRequestOK(r)
<1> DEFINE params == Moved(fields)
           r == SetRequest(params)
<1>1. DOMAIN params \subseteq fields /\ \A k \in DOMAIN params : params[k] = Wire(k, call[k])
  BY DEF Moved
<1>8. KeepsSNMP => "snmp" \notin DOMAIN params
  <2>1. call.snmp \in BOOLEAN
    BY CallFields
  <2>2. KeepsSNMP => call["snmp"] = got["snmp"]
    BY <2>1 DEF KeepsSNMP
  <2> QED
    BY <2>2 DEF Moved
<1>2. r.cgi = "knobs" /\ r.params = params
  BY DEF SetRequest
<1>3. IfMoved(fields) = <<>> \/ IfMoved(fields) = <<r>>
  BY DEF IfMoved
<1> HIDE DEF params, r
<1>4. {"eee", "led", "snmp", "snoop", "drop", "router", "uplink"} \subseteq DOMAIN call
  BY CallFields
<1>5. KnobRequestOK(r)
  BY <1>1, <1>2, <1>4, <1>8 DEF KnobRequestOK, KnobNames, Switches
<1>6. CASE IfMoved(fields) = <<>>
  BY <1>6, NoneIsSeq
<1>7. CASE IfMoved(fields) = <<r>>
  BY <1>5, <1>7, OneIsSeq
<1> QED
  BY <1>3, <1>6, <1>7

\* Its requests are those of the five endpoints, and unless the call refuses
\* they do not switch SNMP off without force.
LEMMA ManagementIsOK ==
    ASSUME NEW c \in Calls, call = c, call.op = "management",
           got.snmp \in BOOLEAN, ~(got.snmp /\ ~call.snmp /\ ~call.force)
    PROVE  LET requests == IfMoved({"eee"}) \o IfMoved({"led"}) \o IfMoved({"snmp"})
                           \o IfMoved({"snoop", "router", "drop"}) \o IfMoved({"uplink"})
           IN  IsSeq(requests) /\ \A r \in Range(requests) : KnobRequestOK(r)
<1> DEFINE OK(s) == IsSeq(s) /\ \A r \in Range(s) : KnobRequestOK(r)
           a == IfMoved({"eee"})
           b == IfMoved({"led"})
           d == IfMoved({"snmp"})
           e == IfMoved({"snoop", "router", "drop"})
           f == IfMoved({"uplink"})
<1>1. OK(a) /\ OK(b) /\ OK(d) /\ OK(e) /\ OK(f)
  BY MovedIsOK
<1>2. \A s, t : OK(s) /\ OK(t) => OK(s \o t)
  BY JoinIsSeq
<1> HIDE DEF OK, a, b, d, e, f
<1>3. OK(a \o b \o d \o e \o f)
  BY <1>1, <1>2
<1> QED
  BY <1>3 DEF OK, a, b, d, e, f

----------------------------------------------------------------------------
(* What the device does with it.                                           *)

\* A form for the ports moves the call's port, to the values asked, and no
\* other.
LEMMA PortSent ==
    ASSUME ports \in PortSettings, NEW c \in Calls, call = c, call.op = "port",
           ~UnknownSpeed(call), call.port \in Port,
           NEW r, PortRequestOK(r), AcceptSettings(r)
    PROVE  /\ UNCHANGED <<device, rates, knobs>> /\ ports' \in PortSettings
           /\ \A p \in Port : ports'[p] # ports[p] =>
                /\ p = call.port
                /\ ports'[p].enabled = call.enabled /\ ports'[p].flow = call.flow
                /\ call.port - 1 \in Slots => ports'[p].speed = SpeedToCode[call.speed]
<1>1. /\ r.cgi = "port" /\ r.map \subseteq {call.port - 1}
      /\ call.port - 1 \in r.state <=> call.enabled
      /\ call.port - 1 \in r.flwcl <=> call.flow
      /\ DOMAIN r.speed = Slots
      /\ call.port - 1 \in Slots => r.speed[call.port - 1] = SpeedToCode[call.speed]
  BY DEF PortRequestOK
<1>2. call.enabled \in BOOLEAN /\ call.flow \in BOOLEAN /\ call.port \in Int /\ Port \subseteq Int
  BY CallFields DEF Port
<1>3. SpeedToCode[call.speed] \in 0..5
  BY SpeedRoundTrip DEF UnknownSpeed
<1>4. UNCHANGED device /\ (UNCHANGED settings \/ SetPorts(r))
  BY <1>1 DEF AcceptSettings
<1>5. CASE UNCHANGED settings
  BY <1>4, <1>5 DEF settings
<1>6. CASE SetPorts(r)
  <2> DEFINE Set(p) == [enabled |-> p - 1 \in r.state, flow |-> p - 1 \in r.flwcl,
                        speed |-> IF p - 1 \in DOMAIN r.speed /\ r.speed[p - 1] # -1
                                    THEN r.speed[p - 1] ELSE ports[p].speed]
  <2>1. /\ UNCHANGED <<rates, knobs>>
        /\ ports' = [p \in Port |-> IF p - 1 \notin r.map THEN ports[p] ELSE Set(p)]
    BY <1>6 DEF SetPorts
  <2> DEFINE q == call.port
             set == Set(q)
             Entry == [enabled : BOOLEAN, speed : 0..5, flow : BOOLEAN]
  <2>2. set.enabled = call.enabled /\ set.flow = call.flow
    BY <1>1, <1>2
  <2>3. ports[q].speed \in 0..5
    BY DEF PortSettings
  <2>4. set.speed \in 0..5 /\ (q - 1 \in Slots => set.speed = SpeedToCode[call.speed])
    BY <1>1, <1>3, <2>3
  <2>5. set \in Entry
    <3>1. set = [enabled |-> set.enabled, flow |-> set.flow, speed |-> set.speed]
      OBVIOUS
    <3> HIDE DEF set
    <3> QED
      BY <1>2, <2>2, <2>4, <3>1
  <2>6. ASSUME NEW p \in Port, p - 1 \in r.map PROVE p = q
    BY <1>1, <1>2, <2>6
  <2> HIDE DEF Set, set, q
  <2>7. ASSUME NEW p \in Port
        PROVE  ports'[p] = ports[p] \/ (p = q /\ ports'[p] = set)
    BY <2>1, <2>6 DEF set
  <2>8. ports' \in PortSettings
    <3>1. DOMAIN ports' = Port /\ ports' = [p \in Port |-> ports'[p]]
      BY <2>1
    <3>2. \A p \in Port : ports[p] \in Entry
      BY DEF PortSettings
    <3>3. \A p \in Port : ports'[p] \in Entry
      BY <2>5, <2>7, <3>2
    <3> HIDE DEF Entry
    <3>4. ports' \in [Port -> Entry]
      BY <3>1, <3>3
    <3> QED
      BY <3>4 DEF PortSettings, Entry
  <2> QED
    BY <1>4, <2>1, <2>2, <2>4, <2>7, <2>8 DEF q
<1> QED
  BY <1>4, <1>5, <1>6

\* A rate that is not refused is a number of units that the device keeps.
LEMMA RateFits ==
    ASSUME NEW kbps, kbps \in Int, ~OffTheGrid(kbps)
    PROVE  Units(kbps) \in UnitRange /\ Kbps(Units(kbps)) = kbps
<1>1. kbps <= 1000000 /\ kbps >= 0 /\ kbps % 32 = 0
  BY SMT DEF OffTheGrid, RateUnit
<1>2. /\ Units(kbps) \in Int /\ 0 <= Units(kbps) /\ Units(kbps) <= 31250
      /\ Kbps(Units(kbps)) = kbps
  BY <1>1, SMT DEF Units, Kbps, RateUnit
<1>3. Gigabit \in Int /\ Units(kbps) <= Gigabit
  BY <1>2 DEF Gigabit
<1>4. Units(kbps) \in UnitRange
  BY <1>2, <1>3 DEF UnitRange
<1> QED
  BY <1>2, <1>4

\* So are the rates of a call that is not refused.
LEMMA RatesFit ==
    ASSUME NEW c \in Calls, c.op = "rates", ~OffGrid(c)
    PROVE  LET sent == [ingress |-> Units(c.ingress), egress |-> Units(c.egress)]
           IN  /\ sent \in Limits
               /\ Kbps(sent.ingress) = c.ingress /\ Kbps(sent.egress) = c.egress
<1>1. c.ingress \in Int /\ c.egress \in Int
  BY CallFields
<1>2. ~OffTheGrid(c.ingress) /\ ~OffTheGrid(c.egress)
  BY SMT DEF OffGrid, OffTheGrid
<1>3. Units(c.ingress) \in UnitRange /\ Kbps(Units(c.ingress)) = c.ingress
  BY <1>1, <1>2, RateFits
<1>4. Units(c.egress) \in UnitRange /\ Kbps(Units(c.egress)) = c.egress
  BY <1>1, <1>2, RateFits
<1> QED
  BY <1>3, <1>4 DEF Limits

\* A form for the rates moves the call's port, to the rates asked, and no
\* other.
LEMMA RateSent ==
    ASSUME rates \in RateLimits, NEW c \in Calls, call = c, call.op = "rates",
           ~OffGrid(call), call.port \in Port,
           NEW r, RateRequestOK(r), AcceptSettings(r)
    PROVE  /\ UNCHANGED <<device, ports, knobs>> /\ rates' \in RateLimits
           /\ \A p \in Port : rates'[p] # rates[p] =>
                /\ p = call.port
                /\ Kbps(rates'[p].ingress) = call.ingress
                /\ Kbps(rates'[p].egress) = call.egress
<1>1. /\ r.cgi = "rate" /\ r.selMask \subseteq {call.port - 1}
      /\ DOMAIN r.ingress = Slots
      /\ call.port - 1 \in Slots => /\ r.ingress[call.port - 1] = Units(call.ingress)
                                    /\ r.egress[call.port - 1] = Units(call.egress)
  BY DEF RateRequestOK
<1>2. call.port \in Int /\ Port \subseteq Int
  BY CallFields DEF Port
<1> DEFINE q == call.port
           set == [ingress |-> Units(call.ingress), egress |-> Units(call.egress)]
           Set(p) == [ingress |-> r.ingress[p - 1], egress |-> r.egress[p - 1]]
<1>3. set \in Limits /\ Kbps(set.ingress) = call.ingress
      /\ Kbps(set.egress) = call.egress
  BY RatesFit
<1>7. q - 1 \in Slots => Set(q) = set
  BY <1>1
<1> HIDE DEF set, Set
<1>4. UNCHANGED device /\ (UNCHANGED settings \/ SetRates(r))
  BY <1>1 DEF AcceptSettings
<1>5. CASE UNCHANGED settings
  BY <1>4, <1>5 DEF settings
<1>6. CASE SetRates(r)
  <2>1. /\ UNCHANGED <<ports, knobs>>
        /\ rates' = [p \in Port |-> IF p - 1 \in r.selMask /\ p - 1 \in Slots
                                      THEN Set(p) ELSE rates[p]]
    BY <1>1, <1>6 DEF SetRates, Set
  <2>2. ASSUME NEW p \in Port, p - 1 \in r.selMask PROVE p = q
    BY <1>1, <1>2, <2>2
  <2>3. ASSUME NEW p \in Port
        PROVE  rates'[p] = rates[p] \/ (p = q /\ rates'[p] = set)
    BY <1>7, <2>1, <2>2
  <2>4. rates' \in RateLimits
    <3>1. DOMAIN rates' = Port /\ rates' = [p \in Port |-> rates'[p]]
      BY <2>1
    <3>2. \A p \in Port : rates[p] \in Limits
      BY DEF RateLimits
    <3>3. \A p \in Port : rates'[p] \in Limits
      BY <1>3, <2>3, <3>2
    <3> QED
      BY <3>1, <3>3 DEF RateLimits
  <2>5. ASSUME NEW p \in Port, rates'[p] # rates[p]
        PROVE  /\ p = call.port
               /\ Kbps(rates'[p].ingress) = call.ingress
               /\ Kbps(rates'[p].egress) = call.egress
    <3>1. p = call.port /\ rates'[p] = set
      BY <2>3, <2>5
    <3> QED
      BY <1>3, <3>1
  <2> QED
    BY <1>4, <2>1, <2>4, <2>5
<1> QED
  BY <1>4, <1>5, <1>6

\* A request for switch-wide settings moves those that the call names, to what
\* the device stores for the value asked.
LEMMA KnobsSent ==
    ASSUME KnobsOK, NEW c \in Calls, call = c,
           call.op \in {"protection", "name", "management"},
           NEW r, KnobRequestOK(r), AcceptSettings(r)
    PROVE  /\ UNCHANGED <<device, ports, rates>> /\ KnobsOK'
           /\ \A k \in KnobNames : knobs'[k] # knobs[k] =>
                k \in DOMAIN call /\ knobs'[k] = Stored(k, Wire(k, call[k]))
           /\ KeepsSNMP => knobs'["snmp"] = knobs["snmp"]
<1>1. /\ r.cgi = "knobs"
      /\ \A k \in DOMAIN r.params :
           k \in KnobNames /\ k \in DOMAIN call /\ r.params[k] = Wire(k, call[k])
      /\ KeepsSNMP => "snmp" \notin DOMAIN r.params
  BY DEF KnobRequestOK
<1>2. UNCHANGED device /\ (UNCHANGED settings \/ SetKnobs(r))
  BY <1>1 DEF AcceptSettings
<1>3. CASE UNCHANGED settings
  BY <1>2, <1>3 DEF settings, KnobsOK
<1>4. CASE SetKnobs(r)
  <2>1. /\ UNCHANGED <<ports, rates>>
        /\ knobs' = [k \in KnobNames |->
                       IF k \in DOMAIN r.params THEN Stored(k, r.params[k]) ELSE knobs[k]]
    BY <1>4 DEF SetKnobs, KnobsOK
  <2>2. ASSUME NEW k \in KnobNames
        PROVE  /\ knobs'[k] # knobs[k] =>
                    k \in DOMAIN call /\ knobs'[k] = Stored(k, Wire(k, call[k]))
               /\ KnobOK(k, knobs'[k])
    <3>1. CASE k \in DOMAIN r.params
      <4>1. k \in DOMAIN call /\ knobs'[k] = Stored(k, Wire(k, call[k]))
        BY <1>1, <2>1, <3>1
      <4>2. KnobOK(k, Stored(k, Wire(k, call[k])))
        BY <4>1, CallKnobs, WireStored
      <4> QED
        BY <4>1, <4>2
    <3>2. CASE k \notin DOMAIN r.params
      BY <2>1, <3>2 DEF KnobsOK
    <3> QED
      BY <3>1, <3>2
  <2>3. KnobsOK'
    BY <2>1, <2>2 DEF KnobsOK
  <2>4. KeepsSNMP => knobs'["snmp"] = knobs["snmp"]
    BY <1>1, <2>1 DEF KnobNames, Switches
  <2> QED
    BY <1>2, <2>1, <2>2, <2>3, <2>4
<1> QED
  BY <1>2, <1>3, <1>4

\* What others send keeps the device and its settings well-formed.
LEMMA OthersKeepDevice ==
    ASSUME DeviceOK, SettingsTypeOK, NEW r \in OtherRequests, AcceptSettings(r)
    PROVE  DeviceOK' /\ SettingsTypeOK' /\ UNCHANGED session
<1>1. WellFormedSetting(r)
  BY OthersAssumption
<1>2. CASE r.cgi \in {"add", "mod", "del", "pvid"}
  <2>1. WellFormedRequest(r) /\ Accept(r) /\ UNCHANGED settings
    BY <1>1, <1>2 DEF AcceptSettings, WellFormedSetting
  <2>2. DeviceOK' /\ UNCHANGED session
    BY <2>1, AcceptKeepsDevice
  <2>3. SettingsTypeOK'
    BY <2>1 DEF settings, SettingsTypeOK, KnobsOK
  <2> QED
    BY <2>2, <2>3
<1>3. CASE r.cgi \in {"port", "rate", "knobs"}
  <2>1. /\ UNCHANGED device
        /\ \/ UNCHANGED settings
           \/ r.cgi = "port" /\ SetPorts(r)
           \/ r.cgi = "rate" /\ SetRates(r)
           \/ r.cgi = "knobs" /\ SetKnobs(r)
    BY <1>3 DEF AcceptSettings
  <2>2. DeviceOK' /\ UNCHANGED session
    BY <2>1 DEF device, DeviceOK, RowsOK
  <2>3. CASE UNCHANGED settings
    BY <2>2, <2>3 DEF settings, SettingsTypeOK, KnobsOK
  <2>4. CASE r.cgi = "port" /\ SetPorts(r)
    <3> DEFINE Entry == [enabled : BOOLEAN, speed : 0..5, flow : BOOLEAN]
    <3>1. /\ UNCHANGED <<rates, knobs>>
          /\ ports' = [p \in Port |->
               IF p - 1 \notin r.map THEN ports[p]
               ELSE [enabled |-> p - 1 \in r.state, flow |-> p - 1 \in r.flwcl,
                     speed |-> IF p - 1 \in DOMAIN r.speed /\ r.speed[p - 1] # -1
                                 THEN r.speed[p - 1] ELSE ports[p].speed]]
      BY <2>4 DEF SetPorts
    <3>2. \A i \in DOMAIN r.speed : r.speed[i] \in -1..5
      BY <1>1, <2>4 DEF WellFormedSetting
    <3>3. \A p \in Port : ports[p] \in Entry
      BY DEF SettingsTypeOK, PortSettings
    <3>4. ASSUME NEW p \in Port PROVE ports'[p] \in Entry
      <4> DEFINE speed == IF p - 1 \in DOMAIN r.speed /\ r.speed[p - 1] # -1
                            THEN r.speed[p - 1] ELSE ports[p].speed
      <4>1. speed \in 0..5
        <5>1. ports[p].speed \in 0..5
          BY <3>3
        <5>2. \A n \in -1..5 : n # -1 => n \in 0..5
          OBVIOUS
        <5> QED
          BY <3>2, <5>1, <5>2
      <4>2. \/ ports'[p] = ports[p]
            \/ ports'[p] = [enabled |-> p - 1 \in r.state, flow |-> p - 1 \in r.flwcl,
                            speed |-> speed]
        BY <3>1
      <4> HIDE DEF speed
      <4>3. [enabled |-> p - 1 \in r.state, flow |-> p - 1 \in r.flwcl, speed |-> speed]
              \in Entry
        BY <4>1
      <4> QED
        BY <3>3, <4>2, <4>3
    <3>5. DOMAIN ports' = Port /\ ports' = [p \in Port |-> ports'[p]]
      BY <3>1
    <3> HIDE DEF Entry
    <3>6. ports' \in [Port -> Entry]
      BY <3>4, <3>5
    <3>7. ports' \in PortSettings
      BY <3>6 DEF PortSettings, Entry
    <3> QED
      BY <2>2, <3>1, <3>7 DEF SettingsTypeOK, KnobsOK
  <2>5. CASE r.cgi = "rate" /\ SetRates(r)
    <3> DEFINE Set(i) == [ingress |-> r.ingress[i], egress |-> r.egress[i]]
    <3>1. /\ UNCHANGED <<ports, knobs>>
          /\ rates' = [p \in Port |-> IF p - 1 \in r.selMask /\ p - 1 \in DOMAIN r.ingress
                                        THEN Set(p - 1) ELSE rates[p]]
      BY <2>5 DEF SetRates
    <3>2. \A i \in DOMAIN r.ingress : Set(i) \in Limits
      BY <1>1, <2>5 DEF WellFormedSetting
    <3> HIDE DEF Set
    <3>3. \A p \in Port : rates[p] \in Limits
      BY DEF SettingsTypeOK, RateLimits
    <3>4. ASSUME NEW p \in Port PROVE rates'[p] \in Limits
      BY <3>1, <3>2, <3>3
    <3>5. rates' \in RateLimits
      BY <3>1, <3>4 DEF RateLimits
    <3> QED
      BY <2>2, <3>1, <3>5 DEF SettingsTypeOK, KnobsOK
  <2>6. CASE r.cgi = "knobs" /\ SetKnobs(r)
    <3>1. /\ UNCHANGED <<ports, rates>>
          /\ knobs' = [k \in KnobNames |->
                         IF k \in DOMAIN r.params THEN Stored(k, r.params[k]) ELSE knobs[k]]
      BY <2>6 DEF SetKnobs, SettingsTypeOK, KnobsOK
    <3>2. \A k \in DOMAIN r.params : KnobOK(k, Stored(k, r.params[k]))
      BY <1>1, <2>6 DEF WellFormedSetting
    <3>3. \A k \in KnobNames : KnobOK(k, knobs[k])
      BY DEF SettingsTypeOK, KnobsOK
    <3>4. KnobsOK'
      BY <3>1, <3>2, <3>3 DEF KnobsOK
    <3> QED
      BY <2>2, <3>1, <3>4 DEF SettingsTypeOK
  <2> QED
    BY <2>1, <2>2, <2>3, <2>4, <2>5, <2>6
<1> QED
  BY <1>1, <1>2, <1>3 DEF WellFormedSetting

----------------------------------------------------------------------------
(* The invariant holds at first, and every step keeps it.                  *)

\* The state that New, the seed and an idle driver start with.
LEMMA InitIInv == Init => IInv
<1> SUFFICES ASSUME Init PROVE IInv
  OBVIOUS
<1>1. DeviceOK
  BY SeedAssumption DEF Init, DeviceOK, RowsOK, SoundTable
<1>2. SettingsTypeOK
  <2>1. ports \in PortSettings
    BY DEF Init, InitSettings, PortSettings
  <2>2. rates \in RateLimits
    <3>1. 0 \in UnitRange
      BY DEF UnitRange, Gigabit
    <3> QED
      BY <3>1 DEF Init, InitSettings, RateLimits, Limits
  <2>3. KnobsOK
    BY DEF Init, InitSettings, KnobsOK, KnobOK, KnobNames, Switches
  <2> QED
    BY <2>1, <2>2, <2>3 DEF SettingsTypeOK
<1>3. /\ pc = "idle" /\ call = NoCall /\ pages = <<>> /\ got = Nothing /\ todo = <<>>
      /\ outcome = "none" /\ made = 0
  BY DEF Init
<1>4. TagsOK /\ CallOK /\ SafeToSend /\ GotShows
  BY <1>3, CallsAssumption DEF TagsOK, CallOK, SafeToSend, GotShows
<1>5. PagesOK /\ TodoOK
  BY <1>3, NoneIsSeq DEF PagesOK, TodoOK, Reading
<1>6. GotOK
  BY <1>3, NothingIsRead DEF GotOK, Asked
<1> QED
  BY <1>1, <1>2, <1>4, <1>5, <1>6 DEF IInv, DriverOK

\* What the driver has to read or to send, by where it is.
LEMMA Doing ==
    ASSUME IInv
    PROVE  /\ pc \notin {"read", "guardRead", "readBack"} => pages = <<>>
           /\ pc # "send" => todo = <<>>
           /\ pc \in {"idle", "login"} => DOMAIN got = {}
           /\ pc # "idle" => call \in Calls /\ ~Malformed(call) /\ ~LoopUnguarded(call)
  BY DEF IInv, DriverOK, PagesOK, Reading, TodoOK, GotOK, Working, CallOK

\* A call whose work ends has nothing left to read or to send.
LEMMA AtLogout ==
    ASSUME IInv, pc \notin {"idle", "login"}, pc' = "logout",
           outcome' \in {"ok", "error", "unsafe"}, UNCHANGED <<made, call, got>>,
           pages' = <<>>, todo' = <<>>
    PROVE  DriverOK'
<1>1. call \in Calls /\ ~Malformed(call) /\ ~LoopUnguarded(call)
  BY Doing
<1>2. TagsOK'
  BY DEF IInv, DriverOK, TagsOK
<1>3. CallOK' /\ GotShows' /\ SafeToSend'
  BY <1>1 DEF CallOK, GotShows, SafeToSend
<1>4. PagesOK' /\ TodoOK'
  BY NoneIsSeq DEF PagesOK, TodoOK, Reading
<1>5. GotOK'
  BY DEF IInv, DriverOK, GotOK, Asked, Working
<1> QED
  BY <1>2, <1>3, <1>4, <1>5 DEF DriverOK

\* A call that has returned forgets what it read.
LEMMA AtIdle ==
    ASSUME IInv, pc' = "idle",
           outcome' \in {"none", "ok", "error", "busy", "unsafe", "panic"},
           UNCHANGED <<made, call>>, DOMAIN got' = {}, pages' = <<>>, todo' = <<>>
    PROVE  DriverOK'
<1>1. TagsOK' /\ CallOK' /\ GotShows' /\ SafeToSend'
  BY DEF IInv, DriverOK, TagsOK, CallOK, GotShows, SafeToSend
<1>2. PagesOK' /\ TodoOK'
  BY NoneIsSeq DEF PagesOK, TodoOK, Reading
<1>3. GotOK'
  BY DEF GotOK, Asked
<1> QED
  BY <1>1, <1>2, <1>3 DEF DriverOK

\* A call that sends what it has to send goes on with the read-back.
LEMMA AtSend ==
    ASSUME IInv, pc \in {"plan", "guard", "send"},
           call.op \in {"port", "rates"} => call.port \in Port,
           NEW requests, IsSeq(requests), \A r \in Range(requests) : RequestOK(r),
           NextToSend(requests), UNCHANGED <<made, call, outcome>>, SafeToSend'
    PROVE  DriverOK'
<1>1. call \in Calls /\ ~Malformed(call) /\ ~LoopUnguarded(call)
  BY Doing
<1>2. todo' = requests /\ pages = <<>>
  BY Doing DEF NextToSend
<1>3. \A r : RequestOK(r) => RequestOK(r)'
  BY DEF RequestOK, PortRequestOK, RateRequestOK, KnobRequestOK, KeepsSNMP
<1>4. CASE requests = <<>>
  <2>1. pc' = "readBack" /\ pages' = PagesFor(call.op) /\ got' = Nothing
    BY <1>4 DEF NextToSend
  <2>2. /\ IsSeq(pages') /\ pages' # <<>> /\ Range(pages') = Needs(call.op)
        /\ Range(pages') \subseteq Paths
    BY <1>1, <2>1, CallFields, PagesForIs
  <2>3. TagsOK' /\ CallOK'
    BY <1>1, <2>1 DEF IInv, DriverOK, TagsOK, CallOK
  <2>4. PagesOK'
    BY <2>1, <2>2 DEF PagesOK, Reading
  <2>5. DOMAIN got' = {}
    BY <2>1, NothingIsRead
  <2>6. Asked' = Needs(call.op)
    BY <2>1 DEF Asked, Needs
  <2>7. GotOK' /\ GotShows'
    BY <2>2, <2>5, <2>6 DEF GotOK, GotShows
  <2>8. TodoOK'
    BY <1>2, <1>4, <2>1, NoneIsSeq DEF TodoOK
  <2> QED
    BY <2>3, <2>4, <2>7, <2>8 DEF DriverOK
<1>5. CASE requests # <<>>
  <2>1. pc' = "send" /\ UNCHANGED <<pages, got>>
    BY <1>5 DEF NextToSend
  <2>2. TagsOK' /\ CallOK' /\ GotShows'
    BY <1>1, <2>1 DEF IInv, DriverOK, TagsOK, CallOK, GotShows
  <2>3. PagesOK'
    BY <1>2, <2>1, NoneIsSeq DEF PagesOK, Reading
  <2>4. GotOK'
    BY <2>1 DEF IInv, DriverOK, GotOK, Asked, Working
  <2>5. TodoOK'
    BY <1>2, <1>3, <1>5, <2>1 DEF TodoOK
  <2> QED
    BY <2>2, <2>3, <2>4, <2>5 DEF DriverOK
<1> QED
  BY <1>4, <1>5

\* What others do is not seen by the driver, which has no session by then.
LEMMA Elsewhere ==
    ASSUME IInv, UNCHANGED driver, session' # "driver"
    PROVE  DriverOK'
<1>1. TagsOK' /\ CallOK' /\ PagesOK' /\ TodoOK'
  <2>1. \A r : RequestOK(r) => RequestOK(r)'
    BY DEF RequestOK, PortRequestOK, RateRequestOK, KnobRequestOK, KeepsSNMP, driver
  <2>2. TodoOK'
    BY <2>1 DEF IInv, DriverOK, TodoOK, driver
  <2> QED
    BY <2>2 DEF IInv, DriverOK, TagsOK, CallOK, PagesOK, Reading, driver
<1>2. GotOK'
  BY DEF IInv, DriverOK, GotOK, Asked, Working, driver
<1>3. GotShows' /\ SafeToSend'
  BY DEF GotShows, SafeToSend
<1> QED
  BY <1>1, <1>2, <1>3 DEF DriverOK

\* What the device holds stays while nobody writes.
LEMMA TruthStays ==
    ASSUME UNCHANGED <<vlans, settings>>
    PROVE  /\ \A f : Truth(f)' = Truth(f)
           /\ SettingsTypeOK => SettingsTypeOK'
<1>1. UNCHANGED <<ports, rates, knobs>>
  BY DEF settings
<1>2. Actual' = Actual
  BY <1>1 DEF Actual
<1>3. \A f : Truth(f)' = Truth(f)
  BY <1>2 DEF Truth
<1>4. SettingsTypeOK => SettingsTypeOK'
  BY <1>1 DEF SettingsTypeOK, KnobsOK
<1> QED
  BY <1>3, <1>4

\* An operation that is called and not refused logs in next.
LEMMA StartKeepsIInv ==
    ASSUME IInv, NEW c \in Calls, Start(c)
    PROVE  IInv'
<1>1. /\ pc = "idle" /\ made < MaxCalls /\ made' = made + 1 /\ call' = c
      /\ UNCHANGED <<device, settings, pages, got, todo>>
      /\ pc' = IF outcome' = "none" THEN "login" ELSE "idle"
  BY DEF Start
<1>2. /\ outcome' \in {"none", "error", "unsafe"}
      /\ outcome' = "none" => ~Malformed(c) /\ ~LoopUnguarded(c)
  BY DEF Start
<1>3. DeviceOK' /\ SettingsTypeOK'
  BY <1>1, TruthStays DEF IInv, DeviceOK, RowsOK, device
<1>4. pages = <<>> /\ todo = <<>> /\ DOMAIN got = {}
  BY <1>1, Doing
<1>5. TagsOK'
  BY <1>1, <1>2, CallsAssumption DEF IInv, DriverOK, TagsOK
<1>6. CallOK' /\ GotShows' /\ SafeToSend'
  BY <1>1, <1>2 DEF CallOK, GotShows, SafeToSend
<1>7. PagesOK' /\ TodoOK'
  BY <1>1, <1>4, NoneIsSeq DEF PagesOK, TodoOK, Reading
<1>8. GotOK'
  BY <1>1, <1>4 DEF GotOK, Asked
<1> QED
  BY <1>3, <1>5, <1>6, <1>7, <1>8 DEF IInv, DriverOK

\* With the session the call reads its pages, or plans without them.
LEMMA LoginKeepsIInv ==
    ASSUME IInv, Login
    PROVE  IInv'
<1>1. /\ pc = "login" /\ call \in Calls /\ ~Malformed(call) /\ ~LoopUnguarded(call)
      /\ pages = <<>> /\ todo = <<>> /\ DOMAIN got = {}
  BY Doing DEF Login
<1>2. UNCHANGED <<settings, vlans, pvid, made, call, got, todo>>
  BY DEF Login, Logon, device
<1>3. DeviceOK' /\ SettingsTypeOK'
  <2>1. session' \in {"free", "driver", "other"}
    BY DEF IInv, DeviceOK, Login, Logon, device
  <2> QED
    BY <1>2, <2>1, TruthStays DEF IInv, DeviceOK, RowsOK
<1>4. CASE pc' = "idle"
  <2>1. outcome' = "busy" /\ UNCHANGED pages
    BY <1>4 DEF Login
  <2> QED
    BY <1>1, <1>2, <1>3, <1>4, <2>1, AtIdle DEF IInv
<1>5. CASE pc' # "idle"
  <2>1. /\ UNCHANGED outcome
        /\ IF call.op \in {"protection", "name"} THEN pc' = "plan" /\ UNCHANGED pages
           ELSE pc' = "read" /\ pages' = PagesFor(call.op)
    BY <1>5 DEF Login
  <2>2. /\ IsSeq(PagesFor(call.op)) /\ PagesFor(call.op) # <<>>
        /\ Range(PagesFor(call.op)) = Needs(call.op) /\ Needs(call.op) \subseteq Paths
    BY <1>1, CallFields, PagesForIs
  <2>3. TagsOK' /\ CallOK' /\ SafeToSend'
    BY <1>1, <1>2, <2>1 DEF IInv, DriverOK, TagsOK, CallOK, SafeToSend
  <2>4. PagesOK'
    BY <1>1, <2>1, <2>2, NoneIsSeq DEF PagesOK, Reading
  <2>5. GotOK' /\ GotShows'
    <3>1. Asked' = {} \/ (Asked' = Needs(call.op) /\ Range(pages') = Needs(call.op))
      BY <1>2, <2>1, <2>2 DEF Asked, Needs
    <3> QED
      BY <1>1, <1>2, <3>1 DEF GotOK, GotShows
  <2>6. TodoOK'
    BY <1>1, <1>2, <2>1, NoneIsSeq DEF TodoOK
  <2> QED
    BY <1>3, <2>3, <2>4, <2>5, <2>6 DEF IInv, DriverOK
<1> QED
  BY <1>4, <1>5

\* A page that is read adds what it shows.
LEMMA ReadPageKeepsIInv ==
    ASSUME IInv, ReadPage
    PROVE  IInv'
<1> DEFINE path == Head(pages)
           rest == Tail(pages)
<1>1. /\ pc \in {"read", "guardRead", "readBack"} /\ ~Refused(path)
      /\ got' = Adding(Shows(path), got) /\ pages' = rest
      /\ pc' = IF rest = <<>> THEN After[pc] ELSE pc
      /\ UNCHANGED <<device, settings, made, call, todo, outcome>>
  BY DEF ReadPage, After
<1>2. /\ IsSeq(rest) /\ path \in Range(pages) /\ Range(pages) = {path} \cup Range(rest)
      /\ Range(pages) \subseteq Paths
  BY <1>1, HeadAndTail DEF IInv, DriverOK, PagesOK, Reading
<1>3. /\ call \in Calls /\ ~Malformed(call) /\ ~LoopUnguarded(call) /\ todo = <<>>
  BY <1>1, Doing
<1> HIDE DEF path, rest
<1>4. DeviceOK' /\ SettingsTypeOK' /\ UNCHANGED session /\ \A f : Truth(f)' = Truth(f)
  BY <1>1, TruthStays DEF IInv, DeviceOK, RowsOK, device
<1>6. \/ /\ rest = <<>>
         /\ \/ pc = "read" /\ pc' = "plan"
            \/ pc = "guardRead" /\ pc' = "guard"
            \/ pc = "readBack" /\ pc' = "verify"
      \/ rest # <<>> /\ pc' = pc
  BY <1>1 DEF After
<1>7. TagsOK' /\ CallOK' /\ SafeToSend'
  BY <1>1, <1>3, <1>6 DEF IInv, DriverOK, TagsOK, CallOK, SafeToSend
<1>8. PagesOK' /\ TodoOK'
  BY <1>1, <1>2, <1>3, <1>6, NoneIsSeq DEF PagesOK, Reading, TodoOK
<1>9. Asked' \subseteq Asked
  BY <1>1, <1>6 DEF Asked, Needs
<1>10. /\ DOMAIN got' = Fields(path) \cup DOMAIN got
       /\ \A f \in Fields(path) : got'[f] = Shows(path)[f]
       /\ \A f \in DOMAIN got \ Fields(path) : got'[f] = got[f]
  <2> DEFINE shown == Shows(path)
  <2>1. DOMAIN shown = Fields(path) /\ got' = Adding(shown, got)
    BY <1>1, <1>2, PageFields
  <2> HIDE DEF shown
  <2>2. got' = [f \in DOMAIN shown \cup DOMAIN got |->
                  IF f \in DOMAIN shown THEN shown[f] ELSE got[f]]
    BY <2>1 DEF Adding
  <2>3. /\ DOMAIN got' = DOMAIN shown \cup DOMAIN got
        /\ \A f \in DOMAIN shown : got'[f] = shown[f]
        /\ \A f \in DOMAIN got \ DOMAIN shown : got'[f] = got[f]
    BY <2>2
  <2>4. /\ DOMAIN got' = Fields(path) \cup DOMAIN got
        /\ \A f \in Fields(path) : got'[f] = shown[f]
        /\ \A f \in DOMAIN got \ Fields(path) : got'[f] = got[f]
    BY <2>1, <2>3
  <2> QED
    BY <2>4 DEF shown
<1>11. GotOK'
  <2>1. \A p \in Asked' : p \in Range(pages') \/ Fields(p) \subseteq DOMAIN got'
    BY <1>1, <1>2, <1>9, <1>10 DEF IInv, DriverOK, GotOK
  <2>2. /\ "ports" \in DOMAIN got' => DOMAIN got'["ports"] = Port
        /\ "ingress" \in DOMAIN got' => DOMAIN got'["ingress"] \subseteq Port
        /\ "snmp" \in DOMAIN got' => got'["snmp"] \in BOOLEAN
    <3>1. /\ "ports" \in Fields(path) => DOMAIN Shows(path)["ports"] = Port
          /\ "ingress" \in Fields(path) => DOMAIN Shows(path)["ingress"] \subseteq Port
          /\ "snmp" \in Fields(path) => Shows(path)["snmp"] \in BOOLEAN
      BY <1>1, <1>2, PageLists DEF IInv
    <3>2. /\ "ports" \in DOMAIN got => DOMAIN got["ports"] = Port
          /\ "ingress" \in DOMAIN got => DOMAIN got["ingress"] \subseteq Port
          /\ "snmp" \in DOMAIN got => got["snmp"] \in BOOLEAN
      BY DEF IInv, DriverOK, GotOK
    <3> QED
      BY <1>10, <3>1, <3>2
  <2>3. Working'
    BY <1>1, <1>6 DEF Working
  <2> QED
    BY <2>1, <2>2, <2>3 DEF GotOK
<1>12. GotShows'
  <2> SUFFICES ASSUME session = "driver", NEW f \in DOMAIN got'
               PROVE  got'[f] = Truth(f)
    BY <1>4 DEF GotShows
  <2>1. CASE f \in Fields(path)
    BY <1>2, <1>10, <2>1, PageShows DEF IInv, SettingsTypeOK
  <2>2. CASE f \notin Fields(path)
    BY <1>1, <1>10, <2>2 DEF IInv, DriverOK, GotShows
  <2> QED
    BY <2>1, <2>2
<1> QED
  BY <1>4, <1>7, <1>8, <1>11, <1>12 DEF IInv, DriverOK

\* What the device does with a request of the call, if it takes it: only what
\* the call names moves, a port or its rates to the values asked, a switch-wide
\* setting to what the device stores for the value asked; and SNMP is not
\* switched off without force.
Moves ==
    /\ UNCHANGED device
    /\ \A p \in Port : ports'[p] # ports[p] =>
         /\ call.op = "port" /\ p = call.port
         /\ ports'[p].enabled = call.enabled /\ ports'[p].flow = call.flow
         /\ call.port - 1 \in Slots => ports'[p].speed = SpeedToCode[call.speed]
    /\ \A p \in Port : rates'[p] # rates[p] =>
         /\ call.op = "rates" /\ p = call.port
         /\ Kbps(rates'[p].ingress) = call.ingress
         /\ Kbps(rates'[p].egress) = call.egress
    /\ \A k \in KnobNames : knobs'[k] # knobs[k] =>
         /\ call.op \in {"protection", "name", "management"} /\ k \in DOMAIN call
         /\ knobs'[k] = Stored(k, Wire(k, call[k]))
    /\ KeepsSNMP => knobs'["snmp"] = knobs["snmp"]

\* A request that is sent moves what the call asks for.
LEMMA SentMoves ==
    ASSUME IInv, pc = "send",
           AcceptSettings(Head(todo)) \/ UNCHANGED <<device, settings>>
    PROVE  Moves /\ SettingsTypeOK'
<1>1. /\ call \in Calls /\ ~Malformed(call)
      /\ call.op \in {"port", "rates"} => call.port \in Port
  BY Doing DEF IInv, DriverOK, CallOK
<1>2. SettingsTypeOK /\ ports \in PortSettings /\ rates \in RateLimits /\ KnobsOK
  BY DEF IInv, SettingsTypeOK
<1>3. CASE UNCHANGED <<device, settings>>
  BY <1>2, <1>3, TruthStays DEF Moves, device, settings
<1>4. CASE AcceptSettings(Head(todo))
  <2> DEFINE r == Head(todo)
  <2>1. RequestOK(r)
    BY HeadAndTail DEF IInv, DriverOK, TodoOK
  <2>2. AcceptSettings(r)
    BY <1>4
  <2> HIDE DEF r
  <2>3. CASE call.op = "port"
    <3>1. PortRequestOK(r) /\ ~UnknownSpeed(call)
      BY <1>1, <2>1, <2>3 DEF RequestOK, Malformed
    <3>2. /\ UNCHANGED <<device, rates, knobs>> /\ ports' \in PortSettings
          /\ \A p \in Port : ports'[p] # ports[p] =>
               /\ p = call.port
               /\ ports'[p].enabled = call.enabled /\ ports'[p].flow = call.flow
               /\ call.port - 1 \in Slots => ports'[p].speed = SpeedToCode[call.speed]
      BY <1>1, <1>2, <2>2, <2>3, <3>1, PortSent
    <3> QED
      BY <1>2, <2>3, <3>2 DEF Moves, SettingsTypeOK, KnobsOK
  <2>4. CASE call.op = "rates"
    <3>1. RateRequestOK(r) /\ ~OffGrid(call)
      BY <1>1, <2>1, <2>4 DEF RequestOK, Malformed
    <3>2. /\ UNCHANGED <<device, ports, knobs>> /\ rates' \in RateLimits
          /\ \A p \in Port : rates'[p] # rates[p] =>
               /\ p = call.port
               /\ Kbps(rates'[p].ingress) = call.ingress
               /\ Kbps(rates'[p].egress) = call.egress
      BY <1>1, <1>2, <2>2, <2>4, <3>1, RateSent
    <3> QED
      BY <1>2, <2>4, <3>2 DEF Moves, SettingsTypeOK, KnobsOK
  <2>5. CASE call.op \in {"protection", "name", "management"}
    <3>1. KnobRequestOK(r)
      BY <2>1, <2>5 DEF RequestOK
    <3>2. /\ UNCHANGED <<device, ports, rates>> /\ KnobsOK'
          /\ \A k \in KnobNames : knobs'[k] # knobs[k] =>
               k \in DOMAIN call /\ knobs'[k] = Stored(k, Wire(k, call[k]))
          /\ KeepsSNMP => knobs'["snmp"] = knobs["snmp"]
      BY <1>1, <1>2, <2>2, <2>5, <3>1, KnobsSent
    <3> QED
      BY <1>2, <2>5, <3>2 DEF Moves, SettingsTypeOK
  <2> QED
    BY <1>1, <2>3, <2>4, <2>5, CallFields
<1> QED
  BY <1>3, <1>4

\* A switch that a request moves has the value asked.
LEMMA SwitchMoves ==
    ASSUME IInv, pc = "send", Moves, NEW k \in Switches, knobs'[k] # knobs[k]
    PROVE  /\ call.op \in {"protection", "name", "management"} /\ k \in DOMAIN call
           /\ knobs'[k] = call[k]
<1>1. /\ call.op \in {"protection", "name", "management"} /\ k \in DOMAIN call
      /\ knobs'[k] = Stored(k, Wire(k, call[k]))
  BY DEF Moves, KnobNames
<1>2. k \notin {"router", "uplink"}
  BY DEF Switches
<1> QED
  BY <1>1, <1>2 DEF Stored, Wire

\* What could be undone before a request can be undone after it.
LEMMA StaysRecoverable ==
    ASSUME IInv, pc = "send", Moves, SettingsTypeOK', Recoverable, UNCHANGED call
    PROVE  Recoverable'
<1>1. UNCHANGED vlans
  BY DEF Moves, device
<1>2. ASSUME call.op = "port", ~call.enabled, call.port \in MembersOf(vlans, Management)
      PROVE  ~ports'[call.port].enabled
  <2>1. ~ports[call.port].enabled
    BY <1>2 DEF Recoverable
  <2>2. call.port \in Port
    BY <1>2 DEF IInv, DriverOK, CallOK
  <2>3. ports'[call.port] = ports[call.port] \/ ports'[call.port].enabled = call.enabled
    BY <2>2 DEF Moves
  <2> QED
    BY <1>2, <2>1, <2>3
<1> QED
  BY <1>1, <1>2 DEF Recoverable

\* A request that is sent, and one whose exchange fails.
LEMMA SendsKeepIInv ==
    ASSUME IInv, SendWrite \/ SendFails
    PROVE  IInv'
<1>1. pc = "send" /\ Moves /\ SettingsTypeOK' /\ UNCHANGED <<made, call>>
  BY SentMoves DEF SendWrite, SendFails
<1>2. DeviceOK' /\ UNCHANGED <<vlans, pvid, session>>
  BY <1>1 DEF IInv, Moves, device, DeviceOK, RowsOK
<1>3. CASE SendWrite
  <2>1. IsSeq(Tail(todo)) /\ \A r \in Range(Tail(todo)) : RequestOK(r)
    BY <1>1, HeadAndTail DEF IInv, DriverOK, TodoOK
  <2>2. call.op \in {"port", "rates"} => call.port \in Port
    BY <1>1 DEF IInv, DriverOK, CallOK
  <2>3. SafeToSend'
    BY <1>1, <1>2, StaysRecoverable DEF IInv, DriverOK, SafeToSend
  <2>4. NextToSend(Tail(todo)) /\ UNCHANGED outcome
    BY <1>3 DEF SendWrite
  <2>5. DriverOK'
    BY <1>1, <2>1, <2>2, <2>3, <2>4, AtSend
  <2> QED
    BY <1>1, <1>2, <2>5 DEF IInv
<1>4. CASE SendFails
  <2>1. /\ pc' = "logout" /\ outcome' = "error" /\ UNCHANGED <<pages, got>>
        /\ todo' = <<>> /\ pages = <<>>
    BY <1>1, <1>4, Doing DEF SendFails, Finish
  <2>2. DriverOK'
    BY <1>1, <2>1, AtLogout
  <2> QED
    BY <1>1, <1>2, <2>2 DEF IInv
<1> QED
  BY <1>3, <1>4

\* Where a decision is made, the pages it is made on have been read.
LEMMA WasRead ==
    ASSUME IInv, pc \in {"plan", "guard", "verify"}, NEW path \in Asked
    PROVE  /\ Fields(path) \subseteq DOMAIN got
           /\ session = "driver" => \A f \in Fields(path) : got[f] = Truth(f)
<1>1. pages = <<>>
  BY Doing
<1>2. Fields(path) \subseteq DOMAIN got
  BY <1>1, NoneIsSeq DEF IInv, DriverOK, GotOK
<1> QED
  BY <1>2 DEF IInv, DriverOK, GotShows

\* The call's port as WritePortSettings finds it.
LEMMA PortWasRead ==
    ASSUME IInv, (pc = "plan" /\ call.op = "port") \/ pc = "guard"
    PROVE  /\ call \in Calls /\ call.op = "port" /\ DOMAIN got.ports = Port
           /\ session = "driver" =>
                \A p \in Port : got.ports[p].enabled = ports[p].enabled
<1>1. call \in Calls /\ call.op = "port"
  BY Doing DEF IInv, DriverOK, CallOK
<1>2. "zPort" \in Asked /\ "ports" \in Fields("zPort")
  BY <1>1 DEF Asked, Needs, Fields
<1>3. DOMAIN got.ports = Port
  BY <1>2, WasRead DEF IInv, DriverOK, GotOK
<1>4. session = "driver" => got["ports"] = Actual.ports
  BY <1>2, WasRead DEF Truth
<1>5. \A p \in Port : Actual.ports[p].enabled = ports[p].enabled
  BY DEF Actual, Adding
<1> QED
  BY <1>1, <1>3, <1>4, <1>5

\* The form for the ports is sent only if it shuts no port of the management
\* VLAN that is open.
LEMMA PortPlanned ==
    ASSUME IInv, (pc = "plan" /\ call.op = "port") \/ pc = "guard",
           call.port \in Port, Proceed(<<PortRequest>>),
           session = "driver" /\ ~call.force /\ ~call.enabled
             /\ call.port \in MembersOf(vlans, Management) => ~got.ports[call.port].enabled
    PROVE  IInv'
<1>1. /\ call \in Calls /\ call.op = "port" /\ DOMAIN got.ports = Port
      /\ session = "driver" => \A p \in Port : got.ports[p].enabled = ports[p].enabled
  BY PortWasRead
<1>2. /\ NextToSend(<<PortRequest>>)
      /\ UNCHANGED <<device, settings, made, call, outcome>>
  BY DEF Proceed
<1>3. UNCHANGED <<vlans, pvid, session, ports, rates, knobs>>
  BY <1>2 DEF device, settings
<1> DEFINE r == PortRequest
<1>4. RequestOK(r)
  BY <1>1, PortRequestIsOK DEF RequestOK
<1> HIDE DEF r
<1>5. IsSeq(<<r>>) /\ Range(<<r>>) = {r}
  BY OneIsSeq
<1>6. \A x \in Range(<<r>>) : RequestOK(x)
  BY <1>4, <1>5
<1>7. SafeToSend'
  BY <1>1, <1>2, <1>3 DEF SafeToSend, Recoverable
<1>8. NextToSend(<<r>>)
  BY <1>2 DEF r
<1> DEFINE requests == <<r>>
<1> HIDE DEF requests
<1>9. IsSeq(requests) /\ (\A x \in Range(requests) : RequestOK(x)) /\ NextToSend(requests)
  BY <1>5, <1>6, <1>8 DEF requests
<1>10. DriverOK'
  BY <1>1, <1>2, <1>7, <1>9, AtSend
<1>11. DeviceOK' /\ SettingsTypeOK'
  BY <1>3, TruthStays DEF IInv, DeviceOK, RowsOK, settings
<1> QED
  BY <1>10, <1>11 DEF IInv

\* A decision to send nothing.
LEMMA DecidedKeepsIInv ==
    ASSUME IInv, pc \in {"plan", "guard", "verify"},
           NEW result \in {"ok", "error", "unsafe"}, Decided(result)
    PROVE  IInv'
<1>1. /\ pc' = "logout" /\ outcome' = result
      /\ UNCHANGED <<device, settings, made, call, pages, got, todo>>
      /\ pages = <<>> /\ todo = <<>>
  BY Doing DEF Decided, Finish
<1>2. DriverOK'
  BY <1>1, AtLogout
<1>3. DeviceOK' /\ SettingsTypeOK'
  BY <1>1, TruthStays DEF IInv, DeviceOK, RowsOK, device
<1> QED
  BY <1>2, <1>3 DEF IInv

\* WritePortSettings, before and after it looked at the management VLAN.
LEMMA PlanPortKeepsIInv ==
    ASSUME IInv, PlanPort
    PROVE  IInv'
<1>1. pc = "plan" /\ call.op = "port" /\ call \in Calls /\ DOMAIN got.ports = Port
      /\ ~Malformed(call) /\ ~LoopUnguarded(call)
  BY PortWasRead, Doing DEF PlanPort
<1>2. CASE Decided("error") \/ Decided("ok")
  BY <1>1, <1>2, DecidedKeepsIInv
<1>3. CASE /\ call.port \in Port /\ ~(got.ports[call.port].enabled /\ ~call.enabled)
           /\ Proceed(<<PortRequest>>)
  BY <1>1, <1>3, PortPlanned
<1>4. CASE /\ call.port \in Port /\ pc' = "guardRead"
           /\ pages' = <<"vlanEntry", "zVLAN_1Q_List">>
           /\ UNCHANGED <<device, settings, made, call, got, todo, outcome>>
  <2>1. /\ IsSeq(pages') /\ pages' # <<>>
        /\ Range(pages') = {"vlanEntry", "zVLAN_1Q_List"}
    BY <1>4, GuardPagesAre
  <2>2. DeviceOK' /\ SettingsTypeOK' /\ UNCHANGED session /\ \A f : Truth(f)' = Truth(f)
    BY <1>4, TruthStays DEF IInv, DeviceOK, RowsOK, device
  <2>3. TagsOK' /\ CallOK' /\ SafeToSend'
    BY <1>1, <1>4 DEF IInv, DriverOK, TagsOK, CallOK, SafeToSend
  <2>4. PagesOK'
    BY <1>4, <2>1 DEF PagesOK, Reading, Paths
  <2>5. TodoOK'
    <3>1. todo = <<>>
      BY <1>1, Doing
    <3> QED
      BY <1>4, <3>1, NoneIsSeq DEF TodoOK
  <2>6. GotOK'
    <3>1. Fields("zPort") \subseteq DOMAIN got
      BY <1>1, WasRead DEF Asked, Needs
    <3>2. Asked' = {"zPort", "vlanEntry", "zVLAN_1Q_List"}
      BY <1>4 DEF Asked
    <3>3. Working'
      BY <1>4 DEF Working
    <3>4. /\ "ports" \in DOMAIN got' => DOMAIN got'["ports"] = Port
          /\ "ingress" \in DOMAIN got' => DOMAIN got'["ingress"] \subseteq Port
          /\ "snmp" \in DOMAIN got' => got'["snmp"] \in BOOLEAN
      BY <1>4 DEF IInv, DriverOK, GotOK
    <3> QED
      BY <1>4, <2>1, <3>1, <3>2, <3>3, <3>4 DEF GotOK
  <2>7. GotShows'
    BY <1>1, <1>4, <2>2 DEF IInv, DriverOK, GotShows
  <2> QED
    BY <2>2, <2>3, <2>4, <2>5, <2>6, <2>7 DEF IInv, DriverOK
<1> QED
  BY <1>1, <1>2, <1>3, <1>4 DEF PlanPort

\* guardPortShutdown, once it has read the table and the list page.
LEMMA GuardKeepsIInv ==
    ASSUME IInv, GuardShutdown
    PROVE  IInv'
<1>1. pc = "guard"
  BY DEF GuardShutdown
<1>2. CASE Decided("unsafe")
  BY <1>1, <1>2, DecidedKeepsIInv
<1>3. CASE ~ShutdownRefused /\ Proceed(<<PortRequest>>)
  <2>1. call.port \in Port
    BY <1>1, PortWasRead DEF IInv, DriverOK, CallOK
  <2>2. /\ "vlanEntry" \in Asked /\ "rows" \in Fields("vlanEntry")
        /\ "zVLAN_1Q_List" \in Asked /\ "mgmt" \in Fields("zVLAN_1Q_List")
    BY <1>1 DEF Asked, Fields
  <2>3. session = "driver" => got["rows"] = vlans /\ got["mgmt"] = Management
    BY <1>1, <2>2, WasRead DEF Truth
  <2>4. session = "driver" /\ ~call.force => call.port \notin MembersOf(vlans, Management)
    BY <1>3, <2>3, PortsFit DEF ShutdownRefused
  <2> QED
    BY <1>1, <1>3, <2>1, <2>4, PortPlanned
<1> QED
  BY <1>2, <1>3 DEF GuardShutdown

\* Requests that are right for the call, and safe to send.
LEMMA PlannedKeepsIInv ==
    ASSUME IInv, pc = "plan", call.op \in {"port", "rates"} => call.port \in Port,
           NEW requests, IsSeq(requests), \A r \in Range(requests) : RequestOK(r),
           Proceed(requests), session = "driver" /\ ~call.force => Recoverable
    PROVE  IInv'
<1>1. /\ NextToSend(requests)
      /\ UNCHANGED <<device, settings, made, call, outcome>>
  BY DEF Proceed
<1>2. UNCHANGED <<vlans, pvid, session, ports, rates, knobs>>
  BY <1>1 DEF device, settings
<1>3. SafeToSend'
  BY <1>1, <1>2 DEF SafeToSend, Recoverable
<1>4. DriverOK'
  BY <1>1, <1>3, AtSend
<1>5. DeviceOK' /\ SettingsTypeOK'
  BY <1>2, TruthStays DEF IInv, DeviceOK, RowsOK, settings
<1> QED
  BY <1>4, <1>5 DEF IInv

\* WriteProtection and WriteDeviceName.
LEMMA PlanSetKeepsIInv ==
    ASSUME IInv, PlanProtection \/ PlanName
    PROVE  IInv'
<1>1. pc = "plan" /\ call \in Calls /\ call.op \in {"protection", "name"}
  BY Doing DEF PlanProtection, PlanName
<1> DEFINE loops == SetRequest([loop |-> call.loop, storm |-> call.storm, pps |-> call.pps])
           names == SetRequest([name |-> call.name])
<1>2. /\ call.op = "protection" => KnobRequestOK(loops)
      /\ call.op = "name" => KnobRequestOK(names)
  BY <1>1, SetRequestsAreOK
<1>3. \/ call.op = "protection" /\ Proceed(<<loops>>)
      \/ call.op = "name" /\ Proceed(<<names>>)
  BY DEF PlanProtection, PlanName
<1> HIDE DEF loops, names
<1>4. PICK r : KnobRequestOK(r) /\ Proceed(<<r>>)
  BY <1>2, <1>3
<1>5. RequestOK(r)
  BY <1>1, <1>4 DEF RequestOK
<1> DEFINE requests == <<r>>
<1>6. IsSeq(requests) /\ Range(requests) = {r} /\ Proceed(requests)
  BY <1>4, OneIsSeq
<1> HIDE DEF requests
<1>7. \A x \in Range(requests) : RequestOK(x)
  BY <1>5, <1>6
<1>8. Recoverable
  BY <1>1 DEF Recoverable
<1> QED
  BY <1>1, <1>6, <1>7, <1>8, PlannedKeepsIInv

\* WriteManagement sends without force only what leaves SNMP as it was.
LEMMA PlanManagementKeepsIInv ==
    ASSUME IInv, PlanManagement
    PROVE  IInv'
<1>1. pc = "plan" /\ call \in Calls /\ call.op = "management"
  BY Doing DEF PlanManagement
<1>2. CASE Decided("unsafe")
  BY <1>1, <1>2, DecidedKeepsIInv
<1> DEFINE requests == IfMoved({"eee"}) \o IfMoved({"led"}) \o IfMoved({"snmp"})
                       \o IfMoved({"snoop", "router", "drop"}) \o IfMoved({"uplink"})
<1>3. CASE ~(got.snmp /\ ~call.snmp /\ ~call.force) /\ Proceed(requests)
  <2>1. "zManagement" \in Asked /\ "snmp" \in Fields("zManagement")
    BY <1>1 DEF Asked, Needs, Fields
  <2>2. got.snmp \in BOOLEAN
    BY <1>1, <2>1, WasRead DEF IInv, DriverOK, GotOK
  <2>3. IsSeq(requests) /\ \A r \in Range(requests) : KnobRequestOK(r)
    BY <1>1, <1>3, <2>2, ManagementIsOK
  <2> HIDE DEF requests
  <2>4. \A r \in Range(requests) : RequestOK(r)
    BY <1>1, <2>3 DEF RequestOK
  <2>5. Recoverable
    BY <1>1 DEF Recoverable
  <2> QED
    BY <1>1, <1>3, <2>3, <2>4, <2>5, PlannedKeepsIInv
<1> QED
  BY <1>2, <1>3 DEF PlanManagement

\* WritePortRates sends for a port of the switch.
LEMMA PlanRatesKeepsIInv ==
    ASSUME IInv, PlanRates
    PROVE  IInv'
<1>1. pc = "plan" /\ call \in Calls /\ call.op = "rates"
  BY Doing DEF PlanRates
<1>2. CASE Decided("error")
  BY <1>1, <1>2, DecidedKeepsIInv
<1>3. CASE call.port \in DOMAIN got.ingress /\ Proceed(<<RateRequest>>)
  <2>1. /\ "zadvenced_set_modify" \in Asked
        /\ "ingress" \in Fields("zadvenced_set_modify")
    BY <1>1 DEF Asked, Needs, Fields
  <2>2. call.port \in Port
    BY <1>1, <1>3, <2>1, WasRead DEF IInv, DriverOK, GotOK
  <2> DEFINE r == RateRequest
  <2>3. RequestOK(r)
    BY <1>1, RateRequestIsOK DEF RequestOK
  <2>4. Proceed(<<r>>)
    BY <1>3
  <2> HIDE DEF r
  <2> DEFINE requests == <<r>>
  <2>5. IsSeq(requests) /\ Range(requests) = {r} /\ Proceed(requests)
    BY <2>4, OneIsSeq
  <2> HIDE DEF requests
  <2>6. \A x \in Range(requests) : RequestOK(x)
    BY <2>3, <2>5
  <2>7. Recoverable
    BY <1>1 DEF Recoverable
  <2> QED
    BY <1>1, <2>2, <2>5, <2>6, <2>7, PlannedKeepsIInv
<1> QED
  BY <1>2, <1>3 DEF PlanRates

\* What the driver does not do itself: it loses its session, or has none.
LEMMA OutsideKeepsIInv ==
    ASSUME IInv, SessionExpires \/ OtherLogsIn \/ OtherLogsOut \/ OtherWrites
    PROVE  IInv' /\ UNCHANGED driver /\ session' # "driver"
<1>1. CASE OtherWrites
  <2>1. PICK r \in OtherRequests : AcceptSettings(r) /\ session = "other"
              /\ UNCHANGED driver
    BY <1>1 DEF OtherWrites
  <2>2. DeviceOK' /\ SettingsTypeOK' /\ UNCHANGED session
    BY <2>1, OthersKeepDevice DEF IInv
  <2>3. DriverOK'
    BY <2>1, <2>2, Elsewhere
  <2> QED
    BY <2>1, <2>2, <2>3 DEF IInv
<1>2. CASE SessionExpires \/ OtherLogsIn \/ OtherLogsOut
  <2>1. /\ UNCHANGED <<vlans, pvid, settings, driver>>
        /\ session' \in {"free", "other"}
    BY <1>2 DEF SessionExpires, OtherLogsIn, OtherLogsOut, Logon, Logout
  <2>2. DeviceOK' /\ SettingsTypeOK'
    BY <2>1, TruthStays DEF IInv, DeviceOK, RowsOK
  <2>3. DriverOK'
    BY <2>1, Elsewhere
  <2> QED
    BY <2>1, <2>2, <2>3 DEF IInv
<1> QED
  BY <1>1, <1>2

\* A call that ends: it panics, or logs out.
LEMMA ReturnsKeepIInv ==
    ASSUME IInv, Panic \/ LogsOut \/ LogoutFails
    PROVE  IInv'
<1>1. /\ pc \in {"verify", "logout"} /\ pc' = "idle" /\ got' = Nothing
      /\ outcome' \in {"none", "ok", "error", "busy", "unsafe", "panic"}
      /\ UNCHANGED <<settings, vlans, pvid, made, call, pages, todo>>
      /\ session' \in {session, "free"}
  BY DEF Panic, LogsOut, LogoutFails, Return, Logout, device, IInv, DriverOK, TagsOK
<1>2. pages = <<>> /\ todo = <<>>
  BY <1>1, Doing
<1>3. DOMAIN got' = {}
  BY <1>1, NothingIsRead
<1>4. DriverOK'
  BY <1>1, <1>2, <1>3, AtIdle
<1>5. DeviceOK' /\ SettingsTypeOK'
  BY <1>1, TruthStays DEF IInv, DeviceOK, RowsOK
<1> QED
  BY <1>4, <1>5 DEF IInv

\* Every step keeps the invariant.
LEMMA NextKeepsIInv == IInv /\ [Next]_vars => IInv'
<1> SUFFICES ASSUME IInv, [Next]_vars PROVE IInv'
  OBVIOUS
<1>1. ASSUME NEW c \in Calls, Start(c) PROVE IInv'
  BY <1>1, StartKeepsIInv
<1>2. CASE Login
  BY <1>2, LoginKeepsIInv
<1>3. CASE ReadPage
  BY <1>3, ReadPageKeepsIInv
<1>4. CASE ReadFails
  <2>1. /\ pc \in {"read", "guardRead", "readBack"} /\ pc' = "logout"
        /\ outcome' = "error" /\ pages' = <<>>
        /\ UNCHANGED <<device, settings, made, call, got, todo>> /\ todo = <<>>
    BY <1>4, Doing DEF ReadFails, Finish, After
  <2>2. DriverOK'
    BY <2>1, AtLogout
  <2>3. DeviceOK' /\ SettingsTypeOK'
    BY <2>1, TruthStays DEF IInv, DeviceOK, RowsOK, device
  <2> QED
    BY <2>2, <2>3 DEF IInv
<1>5. CASE Plan
  BY <1>5, PlanPortKeepsIInv, PlanSetKeepsIInv, PlanManagementKeepsIInv,
     PlanRatesKeepsIInv DEF Plan
<1>6. CASE GuardShutdown
  BY <1>6, GuardKeepsIInv
<1>7. CASE SendWrite \/ SendFails
  BY <1>7, SendsKeepIInv
<1>8. CASE Verify
  BY <1>8, DecidedKeepsIInv DEF Verify, Decided
<1>9. CASE Panic \/ LogsOut \/ LogoutFails
  BY <1>9, ReturnsKeepIInv
<1>10. CASE SessionExpires \/ OtherLogsIn \/ OtherLogsOut \/ OtherWrites
  BY <1>10, OutsideKeepsIInv
<1>11. CASE UNCHANGED vars
  <2>1. UNCHANGED <<vlans, pvid, session, settings, driver, ports, rates, knobs>>
    BY <1>11 DEF vars, device, settings
  <2>2. DeviceOK' /\ SettingsTypeOK' /\ \A f : Truth(f)' = Truth(f)
    BY <2>1, TruthStays DEF IInv, DeviceOK, RowsOK
  <2>3. TagsOK' /\ CallOK' /\ PagesOK' /\ GotOK' /\ TodoOK'
    <3>1. \A r : RequestOK(r) => RequestOK(r)'
      BY <2>1 DEF RequestOK, PortRequestOK, RateRequestOK, KnobRequestOK, KeepsSNMP, driver
    <3>2. TodoOK'
      BY <2>1, <3>1 DEF IInv, DriverOK, TodoOK, driver
    <3>3. GotOK'
      BY <2>1 DEF IInv, DriverOK, GotOK, Asked, Working, driver
    <3> QED
      BY <2>1, <3>2, <3>3 DEF IInv, DriverOK, TagsOK, CallOK, PagesOK, Reading, driver
  <2>4. GotShows' /\ SafeToSend'
    BY <2>1, <2>2 DEF IInv, DriverOK, GotShows, SafeToSend, Recoverable, driver
  <2> QED
    BY <2>2, <2>3, <2>4 DEF IInv, DriverOK
<1> QED
  BY <1>1, <1>2, <1>3, <1>4, <1>5, <1>6, <1>7, <1>8, <1>9, <1>10, <1>11 DEF Next

\* Whatever is called, however requests, answers and sessions are lost and
\* whatever others write meanwhile, the inductive invariant holds.
THEOREM InductiveInvariant == Spec => []IInv
  BY InitIInv, NextKeepsIInv, PTL DEF Spec

\* The types of the variables: nothing that is sent puts a value into the device
\* that its pages could not show, and a call that moves on has no page left to
\* read and no request left to send.
THEOREM TypeCorrect == Spec => []TypeOK
<1>1. IInv => TypeOK
  <2> SUFFICES ASSUME IInv PROVE TypeOK
    OBVIOUS
  <2>1. DeviceTypeOK
    BY DEF IInv, DeviceOK, RowsOK, DeviceTypeOK
  <2>2. pc \in DOMAIN After <=> pages # <<>>
    BY DEF IInv, DriverOK, PagesOK, Reading, After
  <2> QED
    BY <2>1, <2>2 DEF IInv, DriverOK, TagsOK, CallOK, TodoOK, TypeOK
<1> QED
  BY <1>1, InductiveInvariant, PTL

----------------------------------------------------------------------------
(* Success is what the device shows.                                       *)

\* The fields that the read-back of an operation looks at.
Verified(op) ==
    CASE op = "port" -> {"ports"}
      [] op = "protection" -> {"loop", "storm"}
      [] op = "management" -> {"eee", "led", "snmp", "snoop", "drop"}
      [] op = "rates" -> {"ingress", "egress"}
      [] op = "name" -> {"name"}

\* What the read-back shows of these fields is all that it depends on.
LEMMA OnlyVerified ==
    ASSUME call \in Calls, NEW now, \A f \in Verified(call.op) : now[f] = Actual[f]
    PROVE  AsAsked(now) <=> AsAsked(Actual)
<1>1. CASE call.op = "port"
  <2>1. now.ports = Actual.ports
    BY <1>1 DEF Verified
  <2> QED
    BY <1>1, <2>1 DEF AsAsked, PortShown
<1>2. CASE call.op = "protection"
  <2>1. now.loop = Actual.loop /\ now.storm = Actual.storm
    BY <1>2 DEF Verified
  <2> QED
    BY <1>2, <2>1 DEF AsAsked, ProtectionShown
<1>3. CASE call.op = "management"
  BY <1>3 DEF AsAsked, ManagementShown, Verified
<1>4. CASE call.op = "rates"
  <2>1. now.ingress = Actual.ingress /\ now.egress = Actual.egress
    BY <1>4 DEF Verified
  <2> QED
    BY <1>4, <2>1 DEF AsAsked, RatesShown
<1>5. CASE call.op = "name"
  <2>1. now.name = Actual.name
    BY <1>5 DEF Verified
  <2> QED
    BY <1>5, <2>1 DEF AsAsked
<1> QED
  BY <1>1, <1>2, <1>3, <1>4, <1>5, CallFields

\* To a call that kept its session, the read-back shows what the device holds.
LEMMA ReadBackShows ==
    ASSUME IInv, pc = "verify", session = "driver", NEW f \in Verified(call.op)
    PROVE  got[f] = Actual[f]
<1>1. call \in Calls
  BY Doing
<1>2. PICK path \in Asked : f \in Fields(path)
  <2>1. Asked = Needs(call.op)
    BY DEF Asked
  <2>2. \E path \in Needs(call.op) : f \in Fields(path)
    BY <1>1, CallFields DEF Verified, Needs, Fields
  <2> QED
    BY <2>1, <2>2
<1>3. got[f] = Truth(f)
  BY <1>2, WasRead
<1>4. f \notin {"rows", "mgmt"}
  BY <1>1, CallFields DEF Verified
<1> QED
  BY <1>3, <1>4 DEF Truth

\* WritePortSettings sends nothing for a port that already is as asked.
LEMMA NothingToDo ==
    ASSUME IInv, PlanPort, pc' = "logout", outcome' = "ok", session = "driver"
    PROVE  AsAsked(Actual)
<1>1. pc = "plan" /\ call.op = "port" /\ call \in Calls /\ DOMAIN got.ports = Port
  BY PortWasRead DEF PlanPort
<1>2. call.port \in DOMAIN got.ports /\ got.ports[call.port] = WantPort
  BY DEF PlanPort, Decided, Finish, Proceed, NextToSend
<1>3. "zPort" \in Asked /\ "ports" \in Fields("zPort")
  BY <1>1 DEF Asked, Needs, Fields
<1>4. got["ports"] = Actual.ports
  BY <1>1, <1>3, WasRead DEF Truth
<1> QED
  BY <1>1, <1>2, <1>4 DEF AsAsked, PortShown

\* A call that reports success and still has its session is not over before the
\* device shows what was asked, and nobody can change it before the logout.
LEMMA SuccessStays == IInv /\ OkMeansApplied /\ [Next]_vars => OkMeansApplied'
<1> SUFFICES ASSUME IInv, OkMeansApplied, [Next]_vars,
                    pc' = "logout", outcome' = "ok", session' = "driver"
             PROVE  AsAsked(Actual)'
  BY DEF OkMeansApplied
<1>1. ASSUME UNCHANGED <<settings, call>> PROVE AsAsked(Actual)' = AsAsked(Actual)
  <2>1. Actual' = Actual
    BY <1>1 DEF settings, Actual
  <2> QED
    BY <1>1, <2>1 DEF AsAsked, PortShown, ProtectionShown, ManagementShown, RatesShown,
       WantPort
<1>2. CASE Verify
  <2>1. pc = "verify" /\ AsAsked(got) /\ UNCHANGED <<session, settings, call>>
    BY <1>2 DEF Verify, Finish, device
  <2>2. call \in Calls
    BY <2>1, Doing
  <2>3. AsAsked(Actual)
    BY <2>1, <2>2, ReadBackShows, OnlyVerified
  <2> QED
    BY <1>1, <2>1, <2>3
<1>3. CASE PlanPort
  <2>1. UNCHANGED <<session, settings, call>>
    BY <1>3 DEF PlanPort, Decided, Proceed, device
  <2> QED
    BY <1>1, <1>3, <2>1, NothingToDo
<1>4. CASE UNCHANGED vars
  <2>1. pc = "logout" /\ outcome = "ok" /\ session = "driver" /\ UNCHANGED <<settings, call>>
    BY <1>4 DEF vars, driver, device
  <2> QED
    BY <1>1, <2>1 DEF OkMeansApplied
<1>5. ~(SessionExpires \/ OtherLogsIn \/ OtherLogsOut \/ OtherWrites)
  BY OutsideKeepsIInv
<1>6. ~(Panic \/ LogsOut \/ LogoutFails \/ ReadFails \/ SendFails \/ Login)
  BY DEF Panic, LogsOut, LogoutFails, Return, ReadFails, SendFails, Finish, Login
<1>7. ~(ReadPage \/ SendWrite \/ GuardShutdown)
  BY DEF ReadPage, After, SendWrite, NextToSend, GuardShutdown, Decided, Finish, Proceed
<1>8. ~(PlanProtection \/ PlanName \/ PlanManagement \/ PlanRates)
  BY DEF PlanProtection, PlanName, PlanManagement, PlanRates, Decided, Finish, Proceed,
     NextToSend
<1>9. \A c \in Calls : ~Start(c)
  BY DEF Start
<1> QED
  BY <1>2, <1>3, <1>4, <1>5, <1>6, <1>7, <1>8, <1>9 DEF Next, Plan

\* Success is what the device shows, for every call that keeps its session,
\* whatever requests the device ignored and whatever was lost on the way.
THEOREM SuccessIsShown == Spec => []OkMeansApplied
<1>1. Init => OkMeansApplied
  BY DEF Init, OkMeansApplied
<1> QED
  BY <1>1, SuccessStays, InductiveInvariant, PTL DEF Spec

----------------------------------------------------------------------------
(* What a call may move.                                                   *)

\* The settings move only by a request of the call, or by others.
LEMMA OnlySendsMove ==
    ASSUME IInv, [Next]_vars, DriverStep
    PROVE  \/ UNCHANGED settings
           \/ pc = "send" /\ Moves
<1>1. CASE SendWrite \/ SendFails
  <2>1. pc = "send" /\ (AcceptSettings(Head(todo)) \/ UNCHANGED <<device, settings>>)
    BY <1>1 DEF SendWrite, SendFails
  <2> QED
    BY <2>1, SentMoves
<1>2. ~(SessionExpires \/ OtherLogsIn \/ OtherLogsOut \/ OtherWrites)
  BY OutsideKeepsIInv DEF DriverStep
<1>3. CASE Plan \/ GuardShutdown \/ Verify
  BY <1>3 DEF Plan, PlanPort, PlanProtection, PlanName, PlanManagement, PlanRates,
     GuardShutdown, Verify, Decided, Proceed
<1>4. CASE Login \/ ReadPage \/ ReadFails \/ Panic \/ LogsOut \/ LogoutFails
  BY <1>4 DEF Login, ReadPage, ReadFails, Panic, LogsOut, LogoutFails, Return
<1>5. CASE UNCHANGED vars
  BY <1>5 DEF vars
<1>6. ASSUME NEW c \in Calls, Start(c) PROVE UNCHANGED settings
  BY <1>6 DEF Start
<1> QED
  BY <1>1, <1>2, <1>3, <1>4, <1>5, <1>6 DEF Next

\* "Two ports can therefore be written independently": on the switches that the
\* eight slots of the forms are for, a call moves its own port only, to the
\* values asked, whatever the other slots carry.
THEOREM PortsMove ==
    ASSUME PortCount <= 8
    PROVE  Spec => PortsMoveAsAsked
<1> DEFINE Step == DriverStep =>
             \A p \in Port :
               /\ ports'[p] # ports[p] => /\ call.op = "port" /\ p = call.port
                                          /\ Actual'.ports[p] = WantPort
               /\ rates'[p] # rates[p] => /\ call.op = "rates" /\ p = call.port
                                          /\ Actual'.ingress[p] = call.ingress
                                          /\ Actual'.egress[p] = call.egress
<1>1. IInv /\ [Next]_vars => [Step]_vars
  <2> SUFFICES ASSUME IInv, [Next]_vars, DriverStep, NEW p \in Port
               PROVE  /\ ports'[p] # ports[p] => /\ call.op = "port" /\ p = call.port
                                                 /\ Actual'.ports[p] = WantPort
                      /\ rates'[p] # rates[p] => /\ call.op = "rates" /\ p = call.port
                                                 /\ Actual'.ingress[p] = call.ingress
                                                 /\ Actual'.egress[p] = call.egress
    OBVIOUS
  <2>1. CASE UNCHANGED settings
    BY <2>1 DEF settings
  <2>2. CASE pc = "send" /\ Moves
    <3>1. ASSUME ports'[p] # ports[p]
          PROVE  call.op = "port" /\ p = call.port /\ Actual'.ports[p] = WantPort
      <4>1. /\ call.op = "port" /\ p = call.port
            /\ ports'[p].enabled = call.enabled /\ ports'[p].flow = call.flow
            /\ call.port - 1 \in Slots => ports'[p].speed = SpeedToCode[call.speed]
        BY <2>2, <3>1 DEF Moves
      <4>2. call.port - 1 \in Slots
        BY <4>1, SwitchAssumption DEF MappedPort, Port, Slots
      <4>3. call.speed \in DOMAIN SpeedToCode
        BY <2>2, <4>1, Doing DEF Malformed, UnknownSpeed
      <4>4. CodeToSpeed(ports'[p].speed) = call.speed
        BY <4>1, <4>2, <4>3, SpeedRoundTrip
      <4>5. Actual'.ports[p] = [enabled |-> ports'[p].enabled,
                                speed |-> CodeToSpeed(ports'[p].speed),
                                flow |-> ports'[p].flow]
        BY DEF Actual, Adding
      <4> QED
        BY <4>1, <4>4, <4>5 DEF WantPort
    <3>2. ASSUME rates'[p] # rates[p]
          PROVE  /\ call.op = "rates" /\ p = call.port
                 /\ Actual'.ingress[p] = call.ingress /\ Actual'.egress[p] = call.egress
      <4>1. /\ call.op = "rates" /\ p = call.port
            /\ Kbps(rates'[p].ingress) = call.ingress
            /\ Kbps(rates'[p].egress) = call.egress
        BY <2>2, <3>2 DEF Moves
      <4>2. /\ Actual'.ingress[p] = Kbps(rates'[p].ingress)
            /\ Actual'.egress[p] = Kbps(rates'[p].egress)
        BY DEF Actual, Adding, Kbps
      <4> QED
        BY <4>1, <4>2
    <3> QED
      BY <3>1, <3>2
  <2> QED
    BY <2>1, <2>2, OnlySendsMove
<1> QED
  BY <1>1, InductiveInvariant, PTL DEF Spec, PortsMoveAsAsked

\* A setting that a call moves gets the value asked, those that the read-back
\* does not look at included, if the ports that a call names fit the bitmaps of
\* the device or the call is refused at once.  Port 32 as an uplink, which the
\* schema lets through, does not fit: its bit is one the device does not read.
THEOREM KnobsMove ==
    ASSUME \A c \in Calls : Malformed(c) \/ BitmapsFit(c)
    PROVE  Spec => KnobsMoveAsAsked
<1> DEFINE Step == DriverStep =>
             \A k \in DOMAIN knobs :
               knobs'[k] # knobs[k] => k \in DOMAIN call /\ knobs'[k] = call[k]
<1>1. IInv /\ [Next]_vars => [Step]_vars
  <2> SUFFICES ASSUME IInv, [Next]_vars, DriverStep,
                      NEW k \in DOMAIN knobs, knobs'[k] # knobs[k]
               PROVE  k \in DOMAIN call /\ knobs'[k] = call[k]
    OBVIOUS
  <2>1. k \in KnobNames
    BY DEF IInv, SettingsTypeOK, KnobsOK
  <2>2. pc = "send" /\ Moves
    BY OnlySendsMove DEF settings
  <2>3. /\ call.op \in {"protection", "name", "management"} /\ k \in DOMAIN call
        /\ knobs'[k] = Stored(k, Wire(k, call[k]))
    BY <2>1, <2>2 DEF Moves
  <2>4. call \in Calls /\ ~Malformed(call)
    BY <2>2, Doing
  <2>5. /\ k \in {"router", "uplink"} => call[k] \in Int
        /\ k \notin {"router", "uplink"} => KnobOK(k, call[k])
    BY <2>1, <2>3, <2>4, CallKnobs
  <2>6. k \in {"router", "uplink"} => call.op = "management"
    BY <2>3, <2>4, CallFields
  <2>7. /\ k = "router" => call[k] \in 0..32
        /\ k = "uplink" => call[k] \in 0..31
    BY <2>4, <2>6 DEF BitmapsFit
  <2>8. Stored(k, Wire(k, call[k])) = call[k]
    BY <2>1, <2>5, <2>7, WireStored
  <2> QED
    BY <2>3, <2>8
<1> QED
  BY <1>1, InductiveInvariant, PTL DEF Spec, KnobsMoveAsAsked

\* Without force no call switches loop prevention or SNMP off, whatever has become
\* of its session and whatever others have set meanwhile, and one that kept its
\* session shuts no port of the management VLAN: what the guard read is still what
\* the device has when the request arrives.
THEOREM NothingLost == Spec => NothingUnrecoverable
<1> DEFINE Step == DriverStep /\ ~call.force =>
             /\ session = "driver" => ManagementPortsStayOn
             /\ knobs.loop => knobs'.loop
             /\ knobs.snmp => knobs'.snmp
<1>1. IInv /\ [Next]_vars => [Step]_vars
  <2> SUFFICES ASSUME IInv, [Next]_vars, DriverStep, ~call.force
               PROVE  /\ session = "driver" => ManagementPortsStayOn
                      /\ knobs.loop => knobs'.loop
                      /\ knobs.snmp => knobs'.snmp
    OBVIOUS
  <2>1. CASE UNCHANGED settings
    BY <2>1 DEF settings, ManagementPortsStayOn
  <2>2. CASE pc = "send" /\ Moves
    <3>1. session = "driver" => Recoverable
      BY <2>2 DEF IInv, DriverOK, SafeToSend
    <3>2. call \in Calls /\ ~LoopUnguarded(call)
      BY <2>2, Doing
    <3>3. ASSUME session = "driver",
                 NEW p \in MembersOf(vlans, Management), ports[p].enabled
          PROVE  ports'[p].enabled
      <4>1. p \in Port
        <5>1. HasVLAN(vlans, Management) /\ p \in Members(VLAN(vlans, Management))
          BY <3>3 DEF MembersOf
        <5>2. vlans \subseteq Row
          BY DEF IInv, DeviceOK, RowsOK
        <5>3. \A e \in vlans : e.idx \in Nat
          BY <5>2 DEF Row
        <5>4. VLAN(vlans, Management) \in Row
          BY <5>1, <5>2, <5>3, VLANIsARow
        <5> QED
          BY <5>1, <5>4 DEF Members, Row
      <4>2. ports'[p] = ports[p] \/ (/\ call.op = "port" /\ p = call.port
                                     /\ ports'[p].enabled = call.enabled)
        BY <2>2, <4>1 DEF Moves
      <4> QED
        BY <3>1, <3>3, <4>2 DEF Recoverable
    <3>4. knobs.loop => knobs'.loop
      <4>1. CASE knobs'["loop"] = knobs["loop"]
        BY <4>1
      <4>2. CASE knobs'["loop"] # knobs["loop"]
        <5>1. /\ call.op \in {"protection", "name", "management"}
              /\ "loop" \in DOMAIN call /\ knobs'["loop"] = call["loop"]
          BY <2>2, <4>2, SwitchMoves DEF Switches
        <5>2. call.op = "protection"
          BY <3>2, <5>1, CallFields
        <5> QED
          BY <3>2, <5>1, <5>2 DEF LoopUnguarded
      <4> QED
        BY <4>1, <4>2
    <3>5. knobs.snmp => knobs'.snmp
      <4>1. CASE knobs'["snmp"] = knobs["snmp"]
        BY <4>1
      <4>2. CASE knobs'["snmp"] # knobs["snmp"]
        <5>1. /\ call.op \in {"protection", "name", "management"}
              /\ "snmp" \in DOMAIN call /\ knobs'["snmp"] = call["snmp"]
          BY <2>2, <4>2, SwitchMoves DEF Switches
        <5>2. call.op = "management"
          BY <3>2, <5>1, CallFields
        <5>3. ~KeepsSNMP
          BY <2>2, <4>2 DEF Moves
        <5>4. call["snmp"]
          BY <5>2, <5>3 DEF KeepsSNMP
        <5> QED
          BY <5>1, <5>4
      <4> QED
        BY <4>1, <4>2
    <3> QED
      BY <3>3, <3>4, <3>5 DEF ManagementPortsStayOn
  <2> QED
    BY <2>1, <2>2, OnlySendsMove
<1> QED
  BY <1>1, InductiveInvariant, PTL DEF Spec, NothingUnrecoverable

\* With its session kept, the read-back of WritePortRates lists every port of
\* the switch: the index it is read at is one of them.
THEOREM PanicsOnlyWithoutSession == Spec => PanicNeedsLostSession
<1> DEFINE Step == outcome' = "panic" /\ outcome # "panic" => session # "driver"
<1>1. IInv /\ [Next]_vars => [Step]_vars
  <2> SUFFICES ASSUME IInv, [Next]_vars, outcome' = "panic", outcome # "panic",
                      session = "driver"
               PROVE  FALSE
    OBVIOUS
  <2>1. CASE Panic
    <3>1. pc = "verify" /\ call.op = "rates" /\ call.port \notin DOMAIN got.ingress
      BY <2>1 DEF Panic, IndexPanics
    <3>2. got["ingress"] = Actual["ingress"]
      BY <3>1, ReadBackShows DEF Verified
    <3>3. DOMAIN Actual["ingress"] = Port
      BY DEF Actual, Adding
    <3>4. call.port \in Port
      BY <3>1 DEF IInv, DriverOK, CallOK
    <3> QED
      BY <3>1, <3>2, <3>3, <3>4
  <2>2. CASE LogsOut \/ LogoutFails
    BY <2>2 DEF LogsOut, LogoutFails, Return
  <2>3. CASE SessionExpires \/ OtherLogsIn \/ OtherLogsOut \/ OtherWrites \/ UNCHANGED vars
    BY <2>3, OutsideKeepsIInv DEF vars, driver
  <2>4. CASE Plan \/ GuardShutdown \/ Verify
    BY <2>4 DEF Plan, PlanPort, PlanProtection, PlanName, PlanManagement, PlanRates,
       GuardShutdown, Verify, Decided, Proceed, Finish
  <2>5. CASE Login \/ ReadPage \/ ReadFails \/ SendWrite \/ SendFails
    BY <2>5 DEF Login, ReadPage, ReadFails, SendWrite, SendFails, Finish
  <2>6. ASSUME NEW c \in Calls, Start(c) PROVE FALSE
    BY <2>6 DEF Start
  <2> QED
    BY <2>1, <2>2, <2>3, <2>4, <2>5, <2>6 DEF Next
<1> QED
  BY <1>1, InductiveInvariant, PTL DEF Spec, PanicNeedsLostSession
=============================================================================
