-------------------------- MODULE VlanTableProofs --------------------------
(***************************************************************************)
(* Theorems about the data of the VLAN driver, for every table, port and   *)
(* bitmap, and about what the device does with requests for its table.     *)
(***************************************************************************)
EXTENDS FakeSwitch, FiniteSetTheorems, WellFoundedInduction, TLAPS

\* A set of ports comes back from its bitmap as it went in, no port moved by one
\* position or lost, with one exception: in the 32 bits of an int of the arm and
\* 386 builds port 31 is the sign bit, which DecodePorts shifts in again, and port
\* 32 is shifted out, so that both are decoded when port 31 is there.
THEOREM BitmapRoundTrip ==
    ASSUME NEW ports \in SUBSET (1..32)
    PROVE  DecodePorts(EncodePorts(ports)) =
             IF IntBits = 32 THEN (ports \ {32}) \cup {p \in {32} : 31 \in ports}
             ELSE ports
<1> DEFINE bitmap == EncodePorts(ports)
           sign == bitmap \cap {IntBits - 1}
           shifted == {b - 1 : b \in bitmap \ {0}} \cup sign
           decoded == {i + 1 : i \in shifted \cap (0..31)}
<1>1. DecodePorts(bitmap) = decoded
  BY DEF DecodePorts
<1>2. bitmap = {p \in ports : p < IntBits}
  <2>1. \A p \in ports : 1 <= p
    OBVIOUS
  <2> QED
    BY <2>1 DEF EncodePorts
<1> HIDE DEF bitmap
<1>3. CASE IntBits = 64
  <2>1. bitmap = ports /\ sign = {}
    <3>1. \A p \in ports : p < 64 /\ p # 63
      OBVIOUS
    <3>2. bitmap = ports
      BY <1>2, <1>3, <3>1
    <3>3. sign = {}
      BY <1>3, <3>1, <3>2
    <3> QED
      BY <3>2, <3>3
  <2> HIDE DEF sign
  <2>2. ASSUME NEW q \in decoded PROVE q \in ports
    <3>1. PICK i \in shifted : i \in 0..31 /\ q = i + 1
      OBVIOUS
    <3>2. PICK b \in ports : i = b - 1
      BY <2>1, <3>1
    <3> QED
      BY <3>1, <3>2
  <2>3. ASSUME NEW q \in ports PROVE q \in decoded
    <3>1. q - 1 \in shifted
      BY <2>1
    <3>2. q - 1 \in 0..31 /\ q = (q - 1) + 1
      OBVIOUS
    <3> QED
      BY <3>1, <3>2
  <2>4. decoded = ports
    BY <2>2, <2>3
  <2> HIDE DEF decoded
  <2> QED
    BY <1>1, <1>3, <2>4 DEF bitmap
<1>4. CASE IntBits = 32
  <2> DEFINE after == (ports \ {32}) \cup {p \in {32} : 31 \in ports}
  <2>1. bitmap = ports \ {32} /\ sign = {b \in {31} : 31 \in ports}
    <3>1. \A p \in ports : p < 32 <=> p # 32
      OBVIOUS
    <3>2. bitmap = ports \ {32}
      BY <1>2, <1>4, <3>1
    <3>3. sign = {b \in {31} : 31 \in ports}
      BY <1>4, <3>2
    <3> QED
      BY <3>2, <3>3
  <2> HIDE DEF sign
  <2>2. ASSUME NEW q \in decoded PROVE q \in after
    <3>1. PICK i \in shifted : i \in 0..31 /\ q = i + 1
      OBVIOUS
    <3>2. CASE i \in sign
      BY <2>1, <3>1, <3>2
    <3>3. CASE i \notin sign
      <4>1. PICK b \in ports \ {32} : i = b - 1
        BY <2>1, <3>1, <3>3
      <4> QED
        BY <3>1, <4>1
    <3> QED
      BY <3>2, <3>3
  <2>3. ASSUME NEW q \in ports \ {32} PROVE q \in decoded
    <3>1. q - 1 \in shifted
      BY <2>1
    <3>2. q - 1 \in 0..31 /\ q = (q - 1) + 1
      OBVIOUS
    <3> QED
      BY <3>1, <3>2
  <2>4. ASSUME 31 \in ports PROVE 32 \in decoded
    <3>1. 31 \in shifted
      BY <2>1, <2>4
    <3>2. 31 \in 0..31 /\ 32 = 31 + 1
      OBVIOUS
    <3> QED
      BY <3>1, <3>2
  <2>5. decoded \subseteq after
    BY <2>2
  <2>6. after \subseteq decoded
    BY <2>3, <2>4
  <2> HIDE DEF decoded, after
  <2>7. decoded = after
    BY <2>5, <2>6
  <2> QED
    BY <1>1, <1>4, <2>7 DEF after, bitmap
<1> QED
  BY <1>3, <1>4, IntBitsAssumption

\* So no set of ports that an int has a bit for is changed on the way.
LEMMA MappedRoundTrip ==
    ASSUME NEW ports \in SUBSET MappedPort
    PROVE  DecodePorts(EncodePorts(ports)) = ports
<1>1. ports \in SUBSET (1..32)
  BY DEF MappedPort
<1>2. IntBits = 32 => 31 \notin ports /\ 32 \notin ports
  BY DEF MappedPort
<1>3. IntBits = 32 => (ports \ {32}) \cup {p \in {32} : 31 \in ports} = ports
  BY <1>2
<1> QED
  BY <1>1, <1>3, BitmapRoundTrip

\* The rows read from vlanEntry.xml are the device's rows, on a switch with up to
\* 30 ports where an int has 32 bits and up to 32 where it has 64: what the driver
\* plans on is the table the device holds.
THEOREM TableRoundTrip ==
    ASSUME NEW rows,
           \A e \in rows : /\ e = [vid |-> e.vid, idx |-> e.idx,
                                   tagged |-> e.tagged, untagged |-> e.untagged]
                           /\ e.tagged \in SUBSET MappedPort
                           /\ e.untagged \in SUBSET MappedPort
                           /\ e.tagged \cap e.untagged = {}
    PROVE  ParseVLANEntries({WireRow(e) : e \in rows}) = rows
<1> DEFINE Parsed(r) ==
             [vid |-> r.vid, idx |-> r.idx, tagged |-> DecodePorts(r.tagMbrs),
              untagged |-> Disjoint(DecodePorts(r.tagMbrs), DecodePorts(r.untagMbrs))]
<1>1. ASSUME NEW e \in rows PROVE Parsed(WireRow(e)) = e
  <2>1. DecodePorts(WireRow(e).tagMbrs) = e.tagged
    BY MappedRoundTrip DEF WireRow
  <2>2. DecodePorts(WireRow(e).untagMbrs) = e.untagged
    BY MappedRoundTrip DEF WireRow
  <2>3. Disjoint(e.tagged, e.untagged) = e.untagged
    BY DEF Disjoint
  <2>4. WireRow(e).vid = e.vid /\ WireRow(e).idx = e.idx
    BY DEF WireRow
  <2> QED
    BY <2>1, <2>2, <2>3, <2>4
<1>2. ParseVLANEntries({WireRow(e) : e \in rows})
        = {Parsed(r) : r \in {WireRow(e) : e \in rows}}
  BY DEF ParseVLANEntries
<1> HIDE DEF Parsed
<1> QED
  BY <1>1, <1>2

\* "Only this port's bit ever changes": the row that WritePort sends differs
\* from the row it read in the membership of its own port alone, and leaves
\* that port tagged, untagged or out, as asked.
THEOREM MoveBitMovesOnePort ==
    ASSUME NEW vid, NEW idx, NEW t, NEW u, t \cap u = {},
           NEW port, NEW wantTagged, NEW wantUntagged, wantTagged \cap wantUntagged = {}
    PROVE  LET e == [vid |-> vid, idx |-> idx, tagged |-> t, untagged |-> u]
               next == MoveBit(e, port, wantTagged, wantUntagged)
           IN  /\ next.vid = vid /\ next.idx = idx
               /\ next.tagged \ {port} = t \ {port}
               /\ next.untagged \ {port} = u \ {port}
               /\ next.tagged \cap next.untagged = {}
               /\ port \in next.tagged <=> vid \in wantTagged
               /\ port \in next.untagged <=> vid \in wantUntagged
  BY DEF MoveBit, Disjoint

\* A new VLAN gets a slot of the device's table that no row uses, and no slot
\* before it is free: the search ends, and deletions leave no slot unused.
THEOREM FirstFreeIndexIsFree ==
    ASSUME NEW rows, IsFiniteSet(rows), \A e \in rows : e.idx \in Nat
    PROVE  /\ FirstFreeIndex(rows) \in Nat \ {0}
           /\ \A e \in rows : e.idx # FirstFreeIndex(rows)
           /\ \A i \in 1..(FirstFreeIndex(rows) - 1) : \E e \in rows : e.idx = i
<1> DEFINE used == {e.idx : e \in rows} \ {0}
           n == Cardinality(used) + 1
           free == {i \in 1..n : i \notin used}
<1>1. IsFiniteSet(used) /\ n \in Nat /\ n >= 1
  <2>1. IsFiniteSet({e.idx : e \in rows})
    <3> DEFINE slots == {e.idx : e \in rows}
               slot == [e \in rows |-> e.idx]
    <3>1. slot \in Surjection(rows, slots)
      BY DEF Surjection
    <3> QED
      BY <3>1, FS_Surjection
  <2>2. IsFiniteSet(used)
    BY <2>1, FS_Difference
  <2> QED
    BY <2>2, FS_CardinalityType
<1>2. free # {}
  <2> SUFFICES ASSUME free = {} PROVE FALSE
    OBVIOUS
  <2>1. 1..n \subseteq used
    OBVIOUS
  <2>2. Cardinality(1..n) <= Cardinality(used)
    BY <2>1, <1>1, FS_Subset
  <2>3. Cardinality(1..n) = n
    BY <1>1, FS_Interval
  <2> QED
    BY <1>1, <2>2, <2>3, FS_CardinalityType
<1>3. \E i \in free : \A j \in free : i <= j
  <2>1. free \subseteq Nat
    BY <1>1
  <2>2. PICK i \in free : \A j \in free : <<j, i>> \notin OpToRel(<, Nat)
    BY <1>2, <2>1, NatLessThanWellFounded, WFMin
  <2>3. \A j \in free : ~(j < i)
    BY <2>1, <2>2 DEF OpToRel
  <2> HIDE DEF free
  <2>4. \A j \in free : i <= j
    BY <2>1, <2>3
  <2> QED
    BY <2>4
<1>4. PICK i \in free : \A j \in free : i <= j
  BY <1>3
<1>5. i \in 1..n /\ i \notin used /\ 1..(i - 1) \subseteq used
  BY <1>1, <1>4
<1>6. FirstFreeIndex(rows) = CHOOSE k \in 1..n : k \notin used /\ 1..(k - 1) \subseteq used
  BY DEF FirstFreeIndex
<1> HIDE DEF used, n, free
<1>7. LET k == FirstFreeIndex(rows)
      IN  k \in 1..n /\ k \notin used /\ 1..(k - 1) \subseteq used
  BY <1>5, <1>6
<1> QED
  BY <1>1, <1>7 DEF used

----------------------------------------------------------------------------
(* Lemmas for the proofs about the driver.                                 *)

\* A set of ports is its own bitmap: no bit of a port is shifted out of an int.
LEMMA PortBitsEncoded ==
    ASSUME NEW ports \in SUBSET MappedPort
    PROVE  EncodePorts(ports) = ports
<1>1. \A p \in ports : 1 <= p /\ p < IntBits
  BY IntBitsAssumption DEF MappedPort
<1> QED
  BY <1>1 DEF EncodePorts

\* A bitmap with port bits only decodes to the ports of these bits.
LEMMA PortBitsDecoded ==
    ASSUME NEW bits \in SUBSET MappedPort
    PROVE  DecodePorts(bits) = bits
  BY PortBitsEncoded, MappedRoundTrip

\* The row that Config.VLAN returns is a row of the table, and has the id.
LEMMA VLANIsARow ==
    ASSUME NEW rows, \A e \in rows : e.idx \in Nat,
           NEW vid, HasVLAN(rows, vid)
    PROVE  VLAN(rows, vid) \in rows /\ VLAN(rows, vid).vid = vid
<1> DEFINE slots == {e.idx : e \in {f \in rows : f.vid = vid}}
           First(e) == e.vid = vid /\ \A f \in rows : f.vid = vid => e.idx <= f.idx
<1>1. slots \subseteq Nat /\ slots # {}
  BY DEF HasVLAN
<1>2. PICK i \in slots : \A j \in slots : <<j, i>> \notin OpToRel(<, Nat)
  BY <1>1, NatLessThanWellFounded, WFMin
<1>3. \A j \in slots : ~(j < i)
  BY <1>1, <1>2 DEF OpToRel
<1>4. PICK e \in rows : e.vid = vid /\ e.idx = i
  OBVIOUS
<1>5. First(e)
  <2>1. ASSUME NEW f \in rows, f.vid = vid PROVE e.idx <= f.idx
    <3>1. f.idx \in slots
      BY <2>1
    <3>2. ~(f.idx < i) /\ f.idx \in Nat /\ i \in Nat
      BY <3>1, <1>3, <1>1
    <3> QED
      BY <3>2, <1>4
  <2> QED
    BY <2>1, <1>4
<1>6. VLAN(rows, vid) = CHOOSE x \in rows : First(x)
  BY DEF VLAN
<1> HIDE DEF First
<1>7. VLAN(rows, vid) \in rows /\ First(VLAN(rows, vid))
  BY <1>4, <1>5, <1>6
<1> QED
  BY <1>7 DEF First

\* The only row of a VLAN is the one that Config.VLAN returns.
LEMMA OnlyRow ==
    ASSUME NEW rows, \A e \in rows : e.idx \in Nat,
           NEW e \in rows, \A f \in rows : f.vid = e.vid => f = e
    PROVE  /\ HasVLAN(rows, e.vid) /\ VLAN(rows, e.vid) = e
           /\ MembersOf(rows, e.vid) = Members(e)
<1>1. HasVLAN(rows, e.vid)
  BY DEF HasVLAN
<1>2. VLAN(rows, e.vid) \in rows /\ VLAN(rows, e.vid).vid = e.vid
  BY <1>1, VLANIsARow
<1> QED
  BY <1>1, <1>2 DEF MembersOf

\* What applyVLANEntry sends: the ports of the row that is wanted, under the id
\* of a row of the table that was read, or in a slot that no such row has.
LEMMA RowRequestSends ==
    ASSUME NEW rows, IsFiniteSet(rows), \A e \in rows : e.idx \in Nat,
           NEW wanted, wanted.tagged \in SUBSET MappedPort,
           wanted.untagged \in SUBSET MappedPort, wanted.tagged \cap wanted.untagged = {}
    PROVE  LET r == RowRequest(rows, wanted)
           IN  /\ r = [cgi |-> r.cgi, vid |-> wanted.vid, idx |-> r.idx,
                       tagMbrs |-> wanted.tagged, untagMbrs |-> wanted.untagged]
               /\ r.cgi \in {"add", "mod"} /\ r.idx \in Nat
               /\ r.cgi = "mod" <=> HasVLAN(rows, wanted.vid)
               /\ r.cgi = "add" => \A e \in rows : e.idx # r.idx
<1> DEFINE r == RowRequest(rows, wanted)
<1>1. EncodePorts(wanted.tagged) = wanted.tagged
  BY PortBitsEncoded
<1>2. Disjoint(wanted.tagged, wanted.untagged) = wanted.untagged
  BY DEF Disjoint
<1>3. EncodePorts(Disjoint(wanted.tagged, wanted.untagged)) = wanted.untagged
  BY <1>2, PortBitsEncoded
<1>4. CASE HasVLAN(rows, wanted.vid)
  <2>1. VLAN(rows, wanted.vid) \in rows
    BY <1>4, VLANIsARow
  <2> QED
    BY <2>1, <1>1, <1>3, <1>4 DEF RowRequest
<1>5. CASE ~HasVLAN(rows, wanted.vid)
  <2>1. FirstFreeIndex(rows) \in Nat /\ \A e \in rows : e.idx # FirstFreeIndex(rows)
    BY FirstFreeIndexIsFree
  <2> QED
    BY <2>1, <1>1, <1>3, <1>5 DEF RowRequest
<1> QED
  BY <1>4, <1>5

\* What planPortChanges plans: for every row that is not as wanted, that row
\* with the bit of the port moved; the others are left as they are.
LEMMA PortPlan ==
    ASSUME NEW rows, NEW port, NEW wantTagged, NEW wantUntagged,
           wantTagged \cap wantUntagged = {},
           \A e \in rows : /\ e = [vid |-> e.vid, idx |-> e.idx,
                                   tagged |-> e.tagged, untagged |-> e.untagged]
                           /\ e.tagged \cap e.untagged = {}
    PROVE  LET plan == PlanPortChanges(rows, port, wantTagged, wantUntagged)
               Next(e) == MoveBit(e, port, wantTagged, wantUntagged)
               wanted == wantTagged \cup wantUntagged
           IN  /\ \A n \in plan.joins \cup plan.leaves : \E e \in rows : n = Next(e)
               /\ \A n \in plan.joins : n.vid \in wanted
               /\ \A n \in plan.leaves : n.vid \notin wanted
               /\ \A e \in rows :
                    \/ Next(e) \in plan.joins \cup plan.leaves
                    \/ Next(e) = e
               /\ plan.proposed = {Next(e) : e \in rows}
<1> DEFINE Next(e) == MoveBit(e, port, wantTagged, wantUntagged)
           AsWanted(e) == /\ (port \in e.tagged) = (e.vid \in wantTagged)
                          /\ (port \in e.untagged) = (e.vid \in wantUntagged)
           stale == {e \in rows : ~AsWanted(e)}
           wanted == wantTagged \cup wantUntagged
           plan == PlanPortChanges(rows, port, wantTagged, wantUntagged)
<1>1. plan = [joins |-> {Next(e) : e \in {f \in stale : f.vid \in wanted}},
              leaves |-> {Next(e) : e \in {f \in stale : f.vid \notin wanted}},
              proposed |-> (rows \ stale) \cup {Next(e) : e \in stale}]
  BY DEF PlanPortChanges
<1>2. \A e \in rows : Next(e).vid = e.vid
  BY DEF MoveBit
<1>3. ASSUME NEW e \in rows, AsWanted(e) PROVE Next(e) = e
  <2> DEFINE tagged == (e.tagged \ {port}) \cup {p \in {port} : e.vid \in wantTagged}
             untagged == (e.untagged \ {port}) \cup {p \in {port} : e.vid \in wantUntagged}
  <2>1. tagged = e.tagged
    BY <1>3
  <2>2. untagged = e.untagged
    BY <1>3
  <2>3. Disjoint(tagged, untagged) = e.untagged
    BY <2>1, <2>2 DEF Disjoint
  <2>4. Next(e) = [[e EXCEPT !.tagged = tagged] EXCEPT !.untagged = Disjoint(tagged, untagged)]
    BY DEF MoveBit
  <2> HIDE DEF tagged, untagged
  <2> QED
    BY <2>1, <2>3, <2>4
<1> HIDE DEF Next, AsWanted, plan
<1> QED
  BY <1>1, <1>2, <1>3 DEF Next, plan

----------------------------------------------------------------------------
(* The device's table.                                                      *)

\* A table of rows as vlanEntry.xml can carry it.
RowsOK(rows) ==
    /\ rows \subseteq Row /\ IsFiniteSet(rows)
    /\ \A e \in rows : e.tagged \cap e.untagged = {}

DeviceOK == RowsOK(vlans) /\ pvid \in Natives /\ session \in {"free", "driver", "other"}

\* A request for a row, as the driver or a page of the web interface sends it.
RowRequestOK(r) == r.cgi # "pvid" /\ WellFormedRequest(r)

\* The ports of the switch are among those that a bitmap can name.
LEMMA PortsFit ==
    /\ PortCount \in Nat /\ Management # 0
    /\ \A ports \in SUBSET Port : ports \in SUBSET MappedPort
<1>1. PortCount \in Nat
  BY SwitchAssumption DEF MappedPort
<1>2. Management # 0
  BY SwitchAssumption
<1>3. \A p \in Port : p \in MappedPort
  BY SwitchAssumption, IntBitsAssumption DEF MappedPort, Port
<1> QED
  BY <1>1, <1>2, <1>3

\* A well-formed table is read from vlanEntry.xml as it is.
LEMMA TableIsRead ==
    ASSUME NEW rows, RowsOK(rows)
    PROVE  ParseVLANEntries({WireRow(e) : e \in rows}) = rows
<1>1. ASSUME NEW e \in rows
      PROVE  /\ e = [vid |-> e.vid, idx |-> e.idx, tagged |-> e.tagged,
                     untagged |-> e.untagged]
             /\ e.tagged \in SUBSET Port /\ e.untagged \in SUBSET Port
             /\ e.tagged \cap e.untagged = {}
  BY DEF RowsOK, Row
<1>2. ASSUME NEW e \in rows
      PROVE  e.tagged \in SUBSET MappedPort /\ e.untagged \in SUBSET MappedPort
  BY <1>1, PortsFit
<1> QED
  BY <1>1, <1>2, TableRoundTrip

\* The fields of a request that names a row.
LEMMA RequestFields ==
    ASSUME NEW r, RowRequestOK(r)
    PROVE  /\ r.cgi \in {"add", "mod", "del"} /\ r.vid \in 1..4094 /\ r.idx \in Nat
           /\ r.tagMbrs \in SUBSET Port /\ r.untagMbrs \in SUBSET Port
           /\ r.tagMbrs \cap r.untagMbrs = {}
           /\ DecodePorts(r.tagMbrs) = r.tagMbrs
           /\ DecodePorts(r.untagMbrs) = r.untagMbrs
<1>1. /\ r.cgi \in {"add", "mod", "del"} /\ r.vid \in 1..4094 /\ r.idx \in Nat
      /\ r.tagMbrs \in SUBSET Port /\ r.untagMbrs \in SUBSET Port
      /\ r.tagMbrs \cap r.untagMbrs = {}
  BY DEF RowRequestOK, WellFormedRequest
<1>2. r.tagMbrs \in SUBSET MappedPort /\ r.untagMbrs \in SUBSET MappedPort
  BY <1>1, PortsFit
<1> QED
  BY <1>1, <1>2, PortBitsDecoded

\* What the three requests that name a row do to the table.
Added(r) == [vid |-> r.vid, idx |-> r.idx, tagged |-> r.tagMbrs, untagged |-> r.untagMbrs]

Modified(r, e) ==
    IF e.vid # r.vid THEN e
    ELSE [e EXCEPT !.tagged = r.tagMbrs, !.untagged = r.untagMbrs]

\* A row request that the device takes adds, rewrites or removes that one row.
LEMMA AcceptedRequest ==
    ASSUME NEW r, RowRequestOK(r), Accept(r)
    PROVE  /\ UNCHANGED <<pvid, session>>
           /\ \/ UNCHANGED vlans /\ (session = "free" \/ r.cgi = "del")
              \/ r.cgi = "add" /\ session # "free" /\ vlans' = vlans \cup {Added(r)}
              \/ /\ r.cgi = "mod" /\ session # "free"
                 /\ vlans' = {Modified(r, e) : e \in vlans}
              \/ /\ r.cgi = "del" /\ session # "free"
                 /\ (\A p \in Port : pvid[p] # r.vid)
                 /\ vlans' = WithoutVLAN(vlans, r.vid)
<1>1. CASE session = "free"
  BY <1>1 DEF Accept
<1>2. CASE session # "free" /\ r.cgi = "add"
  <2>1. AddRow(r) /\ UNCHANGED session
    BY <1>2 DEF Accept
  <2> QED
    BY <1>2, <2>1, RequestFields DEF AddRow, Added
<1>3. CASE session # "free" /\ r.cgi = "mod"
  <2>1. ModRow(r) /\ UNCHANGED session
    BY <1>3 DEF Accept
  <2> DEFINE Decoded(e) ==
               IF e.vid # r.vid THEN e
               ELSE [e EXCEPT !.tagged = DecodePorts(r.tagMbrs),
                              !.untagged = DecodePorts(r.untagMbrs)]
  <2>2. vlans' = {Decoded(e) : e \in vlans}
    BY <2>1 DEF ModRow
  <2>3. ASSUME NEW e PROVE Decoded(e) = Modified(r, e)
    <3>1. DecodePorts(r.tagMbrs) = r.tagMbrs /\ DecodePorts(r.untagMbrs) = r.untagMbrs
      BY RequestFields
    <3> QED
      BY <3>1, Zenon DEF Modified
  <2> HIDE DEF Decoded
  <2>4. vlans' = {Modified(r, e) : e \in vlans}
    BY <2>2, <2>3
  <2> QED
    BY <1>3, <2>1, <2>4 DEF ModRow
<1>4. CASE session # "free" /\ r.cgi = "del"
  <2>1. DelRow(r) /\ UNCHANGED session
    BY <1>4 DEF Accept
  <2> QED
    BY <1>4, <2>1 DEF DelRow
<1> QED
  BY <1>1, <1>2, <1>3, <1>4, RequestFields

\* A row that is modified keeps its id and its slot.
LEMMA ModifiedRow ==
    ASSUME NEW r, RowRequestOK(r), NEW e \in Row, e.tagged \cap e.untagged = {}
    PROVE  /\ Modified(r, e) \in Row
           /\ Modified(r, e).tagged \cap Modified(r, e).untagged = {}
           /\ Modified(r, e).vid = e.vid /\ Modified(r, e).idx = e.idx
           /\ IF e.vid = r.vid
                THEN /\ Modified(r, e).tagged = r.tagMbrs
                     /\ Modified(r, e).untagged = r.untagMbrs
                ELSE Modified(r, e) = e
<1>1. /\ r.tagMbrs \in SUBSET Port /\ r.untagMbrs \in SUBSET Port
      /\ r.tagMbrs \cap r.untagMbrs = {}
  BY RequestFields
<1>2. e = [vid |-> e.vid, idx |-> e.idx, tagged |-> e.tagged, untagged |-> e.untagged]
      /\ e.vid \in 1..4094 /\ e.idx \in Nat
  BY DEF Row
<1>3. CASE e.vid # r.vid
  BY <1>3 DEF Modified
<1>4. CASE e.vid = r.vid
  <2>1. Modified(r, e) = [[e EXCEPT !.tagged = r.tagMbrs] EXCEPT !.untagged = r.untagMbrs]
    BY <1>4 DEF Modified
  <2>2. Modified(r, e).tagged = r.tagMbrs /\ Modified(r, e).untagged = r.untagMbrs
    BY <1>2, <2>1
  <2>3. Modified(r, e).vid = e.vid /\ Modified(r, e).idx = e.idx
    BY <1>2, <2>1
  <2>4. Modified(r, e) \in Row
    <3> DEFINE v == e.vid
               i == e.idx
               t == e.tagged
               u == e.untagged
    <3>1. e = [vid |-> v, idx |-> i, tagged |-> t, untagged |-> u]
      BY <1>2
    <3>2. v \in 1..4094 /\ i \in Nat
      BY <1>2
    <3> HIDE DEF v, i, t, u
    <3>3. Modified(r, e) = [vid |-> v, idx |-> i, tagged |-> r.tagMbrs,
                            untagged |-> r.untagMbrs]
      BY <2>1, <3>1
    <3> QED
      BY <1>1, <3>2, <3>3 DEF Row
  <2> QED
    BY <1>1, <1>4, <2>2, <2>3, <2>4
<1> QED
  BY <1>3, <1>4

\* No request, whoever sends it, makes the table ill-formed.
LEMMA AcceptKeepsDevice ==
    ASSUME DeviceOK, NEW r, WellFormedRequest(r), Accept(r)
    PROVE  DeviceOK' /\ UNCHANGED session
<1>1. CASE r.cgi = "pvid"
  <2>1. /\ UNCHANGED <<vlans, session>>
        /\ \/ UNCHANGED pvid
           \/ pvid' = [p \in Port |->
                         IF p - 1 \in DOMAIN r.vids /\ HasVLAN(vlans, r.vids[p - 1])
                           THEN r.vids[p - 1] ELSE pvid[p]]
    BY <1>1 DEF Accept, SetPVIDs
  <2>2. \A vid : HasVLAN(vlans, vid) => vid \in 1..4094
    BY DEF DeviceOK, RowsOK, HasVLAN, Row
  <2>3. pvid' \in Natives
    BY <2>1, <2>2 DEF DeviceOK, Natives
  <2> QED
    BY <2>1, <2>3 DEF DeviceOK, RowsOK
<1>2. CASE r.cgi # "pvid"
  <2>1. RowRequestOK(r)
    BY <1>2 DEF RowRequestOK
  <2>2. UNCHANGED <<pvid, session>>
    BY <2>1, AcceptedRequest
  <2>3. RowsOK(vlans)
    BY DEF DeviceOK
  <2>4. CASE UNCHANGED vlans
    BY <2>2, <2>4 DEF DeviceOK, RowsOK
  <2>5. CASE vlans' = vlans \cup {Added(r)}
    <3>1. Added(r) \in Row /\ Added(r).tagged \cap Added(r).untagged = {}
      BY <2>1, RequestFields DEF Added, Row
    <3>2. IsFiniteSet(vlans')
      BY <2>3, <2>5, FS_AddElement DEF RowsOK
    <3>3. RowsOK(vlans')
      BY <2>3, <2>5, <3>1, <3>2 DEF RowsOK
    <3> QED
      BY <2>2, <3>3 DEF DeviceOK, RowsOK
  <2>6. CASE vlans' = {Modified(r, e) : e \in vlans}
    <3>1. ASSUME NEW e \in vlans
          PROVE  /\ Modified(r, e) \in Row
                 /\ Modified(r, e).tagged \cap Modified(r, e).untagged = {}
      BY <2>1, <2>3, ModifiedRow DEF RowsOK
    <3>2. IsFiniteSet(vlans')
      <4>1. [e \in vlans |-> Modified(r, e)] \in Surjection(vlans, vlans')
        BY <2>6 DEF Surjection
      <4> QED
        BY <4>1, <2>3, FS_Surjection DEF RowsOK
    <3>3. RowsOK(vlans')
      BY <2>6, <3>1, <3>2 DEF RowsOK
    <3> QED
      BY <2>2, <3>3 DEF DeviceOK, RowsOK
  <2>7. CASE vlans' = WithoutVLAN(vlans, r.vid)
    <3>1. vlans' \subseteq vlans
      BY <2>7 DEF WithoutVLAN
    <3>2. RowsOK(vlans')
      BY <2>3, <3>1, FS_Subset DEF RowsOK
    <3> QED
      BY <2>2, <3>2 DEF DeviceOK, RowsOK
  <2> QED
    BY <2>1, <2>4, <2>5, <2>6, <2>7, AcceptedRequest
<1> QED
  BY <1>1, <1>2
=============================================================================
