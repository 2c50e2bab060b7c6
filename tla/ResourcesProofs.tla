-------------------------- MODULE ResourcesProofs --------------------------
(***************************************************************************)
(* Theorems about Resources, for any configurations, switches, imports and *)
(* changes by the owner, any number of runs, and every combination of      *)
(* failures.                                                               *)
(***************************************************************************)
EXTENDS Resources, ConfigCacheProofs, SequenceTheorems

----------------------------------------------------------------------------
(* The inductive invariant: the client and the pages.                      *)

\* Nothing is cached, or was got, that is newer than what the device holds.
VersionsOK ==
    /\ \A g \in Page : cache[g] \in 0..stored[g] \cup {Absent}
    /\ \A r \in Proc : got[r] \in 0..stored[page[r]]

\* Every version of a page shows a value of every attribute.
ContentOK ==
    /\ content = [g \in Page |-> content[g]]
    /\ \A g \in Page : content[g] \in Seq(Values(g)) /\ Len(content[g]) = stored[g] + 1

----------------------------------------------------------------------------
(* Terraform.                                                              *)

Ops == {"none", "create", "update", "delete", "refresh", "import"}
Stages == [do : {"check", "table", "info", "read", "write"}, page : Page]

OpsOf ==
    [idle |-> {"none"}, refresh |-> {"none", "refresh", "import"},
     apply |-> {"none", "create", "update"}, destroy |-> {"none", "delete"}]

\* The operations are those of the walk.  A port that is created or updated
\* makes no call before its VLAN is done.
WalkOK ==
    /\ \E setup \in Setups : config = setup.config
    /\ walk \in {"idle", "refresh", "apply", "destroy"}
    /\ runs \in 0..MaxRuns /\ failed \subseteq Proc
    /\ disturbed \in BOOLEAN /\ ownerWrites \in 0..MaxOwnerWrites
    /\ maker \in {"nobody", "owner", "provider"}
    /\ op \in [Proc -> OpsOf[walk]]
    /\ todo \in [Proc -> Seq(Stages)]
    /\ model = [r \in Proc |-> model[r]]
    /\ tf = [r \in Proc |-> tf[r]]
    /\ walk = "apply" /\ pc["port"] # "idle" => op["vlan"] = "none" /\ "vlan" \notin failed

\* Terraform runs, and the owner has left the switch alone.
Quiet == walk # "idle" /\ ~disturbed

----------------------------------------------------------------------------
(* A resource.                                                             *)

Ahead(r) == Range(todo[r])
Remains(r, g) == \E s \in Ahead(r) : s.page = g
Looks(s) == s.do \in {"read", "table", "info"}
Unread(r, g) == \E s \in Ahead(r) : s.page = g /\ Looks(s)

\* This stage, of these, is one of the operation o of r.
StageFits(r, o, stages, s) ==
    /\ Attrs(r, s.page) # {}
    /\ s.do = "check" => r = "vlan" /\ o = "create"
    /\ s.do = "table" => r = "vlan" /\ o \in {"refresh", "import", "update"}
    /\ s.do = "info" => s.page = "info"
    /\ s.do = "read" => r # "vlan" /\ s.page # "info"
    /\ s.do = "write" => IF r = "vlan" THEN o \in {"create", "delete"}
                         ELSE o \in {"create", "update"}
    /\ s.do = "check" \/ (s.do = "read" /\ o \in {"create", "update"}) =>
         Stage("write", s.page) \in stages

StageOK(r, s) == StageFits(r, op[r], Ahead(r), s)

\* A page is looked at before it is written, and written at most once.
InOrder(stages) ==
    \A i, j \in 1..Len(stages) :
        i < j /\ stages[i].page = stages[j].page =>
            stages[i].do # "write" /\ stages[j].do = "write"

TodoOK(r) ==
    /\ op[r] = "none" => todo[r] = <<>>
    /\ \A s \in Ahead(r) : StageOK(r, s)
    /\ InOrder(todo[r])

Writing == Forgotten \cup {"forget"}

\* A call of the client is the stage that comes next.
CallOK(r) ==
    pc[r] # "idle" =>
        /\ todo[r] # <<>>
        /\ Head(todo[r]) = Stage(IF pc[r] \in Writing THEN "write" ELSE "read", page[r])

Numbers(values) == \A a \in DOMAIN values : values[a] \in Int

\* These values of the resource's attributes are those of the device.
Agrees(r, g, values) == \A a \in Attrs(r, g) : values[a] = Now(g)[a]

\* The values of a page are in the model once the page has been looked at; of
\* the VLANs, once nothing is left to do.
Fresh(r, g) == ~Unread(r, g) /\ (g = "config" => ~Remains(r, g))

\* A write of the page may have changed it.
Underway(r, g) == page[r] = g /\ pc[r] \in {"readBack", "releaseWrite", "written", "failed"}

\* The model has a value for what has been looked at ...
ModelTyped(r) ==
    op[r] # "none" =>
        /\ "force" \in DOMAIN model[r] /\ Numbers(model[r])
        /\ DOMAIN model[r] \subseteq Attributes(r) \cup {"force"}
        /\ \A g \in Page : Fresh(r, g) => Attrs(r, g) \subseteq DOMAIN model[r]

\* ... and it is the device's, but for a storm rate that was not sent.
ModelShows(r) ==
    Quiet /\ op[r] \notin {"none", "delete"} =>
        \A g \in Page : Fresh(r, g) /\ ~Underway(r, g) =>
            \A a \in Attrs(r, g) :
                \/ model[r][a] = Now(g)[a]
                \/ a = "pps" /\ ~Remains(r, g) /\ Now(g).storm # 1

\* Before a page is read for the last time no version of it, in the cache or on
\* the device, differs from what it is now in the resource's attributes.
VersionsAgree(r) ==
    Quiet =>
        \A g \in Page : Stage("read", g) \in Ahead(r) =>
            \A v \in 1..Len(content[g]) : Agrees(r, g, content[g][v])

\* What a write read back is as asked, and still is.
ReadBackOK(r) ==
    pc[r] \in {"releaseWrite", "written"} =>
        LET shown == content[page[r]][got[r] + 1]
        IN  /\ Whole(r, page[r], shown) = shown
            /\ Quiet => Agrees(r, page[r], shown)

\* An attribute that the configuration sets has its value: a router port with
\* snooping only, a name unless the owner interferes.
AsConfigured(r, a, values) ==
    \/ values[a] = config[r][a]
    \/ a = "router" /\ values.snoop # 1
    \/ a = "name" /\ disturbed

ModelConfigured(r) ==
    op[r] \in {"create", "update"} =>
        /\ model[r].force = config[r].force
        /\ \A g \in Page : ~Remains(r, g) =>
             \A a \in Attrs(r, g) \cap DOMAIN config[r] : AsConfigured(r, a, model[r])

\* A name that was written is the device's when it is read again.
NameWritten(r) ==
    Quiet /\ op[r] \in {"create", "update"} /\ "name" \in DOMAIN config[r]
    /\ Unread(r, "info") /\ Stage("write", "info") \notin Ahead(r)
    => Now("info").name = config[r].name

\* What is recorded.
StateTyped(r) ==
    tf[r] # NoState => DOMAIN tf[r] = Attributes(r) \cup {"force"} /\ Numbers(tf[r])

StateShows(r) ==
    Quiet /\ op[r] = "none" /\ r \notin failed /\ tf[r] # NoState =>
        \A g \in Page : \A a \in Attrs(r, g) :
            (a = "pps" => Now(g).storm = 1) => tf[r][a] = Now(g)[a]

StateConfigured(r) ==
    walk = "apply" /\ op[r] = "none" /\ r \notin failed =>
        /\ tf[r] # NoState
        /\ \A a \in DOMAIN config[r] \ {"force"} : AsConfigured(r, a, tf[r])

\* The VLAN is there where it is recorded, or about to be.
SlotTaken(r) ==
    /\ r = "vlan" /\ Quiet /\ walk # "destroy"
    /\ \/ op[r] = "update"
       \/ op[r] # "none" /\ todo[r] = <<>>
       \/ op[r] = "none" /\ r \notin failed /\ tf[r] # NoState
    => Now("config").index # 0

\* Once Create has seen that the VLAN is not there, it is not, or the provider
\* has made it.
SlotIsOurs(r) ==
    r = "vlan" /\ Quiet /\ op[r] = "create" =>
        \/ maker = "provider"
        \/ \E s \in Ahead(r) : s.do = "check"
        \/ /\ todo[r] # <<>> /\ Now("config").index = 0
           /\ pc[r] \notin {"releaseWrite", "written"}

ResourceOK(r) ==
    /\ TodoOK(r) /\ CallOK(r)
    /\ ModelTyped(r) /\ ModelShows(r) /\ VersionsAgree(r) /\ ReadBackOK(r)
    /\ ModelConfigured(r) /\ NameWritten(r)
    /\ StateTyped(r) /\ StateShows(r) /\ StateConfigured(r)
    /\ SlotTaken(r) /\ SlotIsOurs(r)

ClientOK == TypeOK /\ VersionsOK /\ ContentOK

AllOK == ClientOK /\ WalkOK /\ PVIDNamesAVLAN /\ \A r \in Proc : ResourceOK(r)
----------------------------------------------------------------------------
(* Attributes, pages and sequences.                                        *)

\* Which page shows which attribute.
LEMMA AttrsAre ==
    /\ Attrs("vlan", "config") = {"index"} /\ Attrs("vlan", "settings") = {}
    /\ Attrs("vlan", "management") = {} /\ Attrs("vlan", "info") = {}
    /\ Attrs("port", "config") = {"pvid"} /\ Attrs("port", "settings") = {"speed"}
    /\ Attrs("port", "management") = {"ingress"} /\ Attrs("port", "info") = {}
    /\ Attrs("system", "config") = {} /\ Attrs("system", "settings") = {"loop", "storm", "pps"}
    /\ Attrs("system", "management") = {"led", "snoop", "router"}
    /\ Attrs("system", "info") = {"name"}
  BY DEF Attrs

\* No two resources and no two pages share an attribute, and none is "force".
LEMMA AttrsDiffer ==
    ASSUME NEW r \in Proc, NEW q \in Proc, NEW g \in Page, NEW h \in Page,
           NEW a \in Attrs(r, g), a \in Attrs(q, h)
    PROVE  r = q /\ g = h /\ a # "force"
  BY AttrsAre, ResourcesAssumption

\* The attributes of a resource are on a page of its own each.
LEMMA AttributesAre ==
    ASSUME NEW r \in Proc
    PROVE  /\ \A g \in Page : Attrs(r, g) \subseteq Attributes(r)
           /\ \A a \in Attributes(r) : \E g \in Page : a \in Attrs(r, g)
           /\ \A g \in Page : \A a \in Attrs(r, g) : PageOf(r, a) = g
<1>1. ASSUME NEW g \in Page, NEW a \in Attrs(r, g)
      PROVE  PageOf(r, a) = g
  <2>1. \A h \in Page : a \in Attrs(r, h) <=> h = g
    BY <1>1, AttrsDiffer
  <2> QED
    BY <2>1 DEF PageOf
<1> QED
  BY <1>1 DEF Attributes

\* What is left of a sequence after its head, and what was in it.
LEMMA HeadAndTail ==
    ASSUME NEW S, NEW s \in Seq(S), s # <<>>
    PROVE  /\ Tail(s) \in Seq(S) /\ Head(s) \in S /\ Head(s) = s[1]
           /\ Len(s) \in Nat \ {0} /\ Len(Tail(s)) = Len(s) - 1
           /\ \A i \in 1..Len(Tail(s)) : Tail(s)[i] = s[i + 1]
           /\ Range(s) = {Head(s)} \cup Range(Tail(s))
<1>1. /\ Head(s) \in S /\ Tail(s) \in Seq(S) /\ Len(Tail(s)) = Len(s) - 1
      /\ \A i \in 1..Len(Tail(s)) : Tail(s)[i] = s[i + 1]
  BY HeadTailProperties
<1>2. Len(s) \in Nat \ {0}
  BY EmptySeq, LenProperties
<1>3. Range(s) = {s[i] : i \in 1..Len(s)} /\ Range(Tail(s)) =
           {Tail(s)[i] : i \in 1..Len(Tail(s))}
  BY <1>1, RangeEquality
<1>4. Head(s) = s[1]
  BY <1>2
<1>5. ASSUME NEW i \in 1..Len(s) PROVE s[i] \in {Head(s)} \cup Range(Tail(s))
  <2>1. CASE i = 1
    BY <1>4, <2>1
  <2>2. CASE i # 1
    <3>1. i - 1 \in 1..Len(Tail(s)) /\ (i - 1) + 1 = i
      BY <1>1, <1>2, <2>2
    <3>2. Tail(s)[i - 1] = s[i]
      BY <1>1, <3>1
    <3> QED
      BY <1>3, <3>1, <3>2
  <2> QED
    BY <2>1, <2>2
<1>6. ASSUME NEW i \in 1..Len(Tail(s)) PROVE Tail(s)[i] \in Range(s)
  <2>1. i + 1 \in 1..Len(s) /\ Tail(s)[i] = s[i + 1]
    BY <1>1, <1>2
  <2> QED
    BY <1>3, <2>1
<1>7. 1 \in 1..Len(s)
  BY <1>2
<1> QED
  BY <1>1, <1>2, <1>3, <1>4, <1>5, <1>6, <1>7

\* Nothing is left.
LEMMA NothingAhead == Range(<<>>) = {} /\ InOrder(<<>>) /\ <<>> \in Seq(Stages)
<1>1. Range(<<>>) = {} /\ <<>> \in Seq(Stages)
  BY DEF Range
<1>2. Len(<<>>) = 0
  OBVIOUS
<1> QED
  BY <1>1, <1>2 DEF InOrder

\* Once a stage is done, what is left of its page is to write it, and only after
\* a look at it.
LEMMA StageDone ==
    ASSUME NEW s \in Seq(Stages), s # <<>>, InOrder(s)
    PROVE  /\ Tail(s) \in Seq(Stages) /\ InOrder(Tail(s))
           /\ Head(s) \in Stages /\ Range(s) = {Head(s)} \cup Range(Tail(s))
           /\ \A t \in Range(Tail(s)) : t.page = Head(s).page =>
                Head(s).do # "write" /\ t.do = "write"
<1>1. InOrder(Tail(s))
  <2> SUFFICES ASSUME NEW i \in 1..Len(Tail(s)), NEW j \in 1..Len(Tail(s)), i < j,
                      Tail(s)[i].page = Tail(s)[j].page
               PROVE  Tail(s)[i].do # "write" /\ Tail(s)[j].do = "write"
    BY DEF InOrder
  <2>1. /\ Tail(s)[i] = s[i + 1] /\ Tail(s)[j] = s[j + 1]
        /\ i + 1 \in 1..Len(s) /\ j + 1 \in 1..Len(s) /\ i + 1 < j + 1
    BY HeadAndTail
  <2> QED
    BY <2>1 DEF InOrder
<1>2. ASSUME NEW t \in Range(Tail(s)), t.page = Head(s).page
      PROVE  Head(s).do # "write" /\ t.do = "write"
  <2>0. Tail(s) \in Seq(Stages)
    BY HeadAndTail
  <2>1. PICK i \in 1..Len(Tail(s)) : t = Tail(s)[i]
    BY <2>0, RangeEquality
  <2>2. t = s[i + 1] /\ Head(s) = s[1] /\ i + 1 \in 1..Len(s) /\ 1 \in 1..Len(s) /\ 1 < i + 1
    BY <2>1, HeadAndTail
  <2> QED
    BY <1>2, <2>2 DEF InOrder
<1> QED
  BY <1>1, <1>2, HeadAndTail

\* The page with the name is read again after a write.
LEMMA StageAgain ==
    ASSUME NEW s \in Seq(Stages), InOrder(s), NEW t \in Stages, t.do # "write",
           \A u \in Range(s) : u.page # t.page
    PROVE  /\ <<t>> \o s \in Seq(Stages) /\ InOrder(<<t>> \o s)
           /\ Range(<<t>> \o s) = {t} \cup Range(s)
<1> DEFINE n == <<t>> \o s
<1>1. /\ n \in Seq(Stages) /\ Len(n) = Len(s) + 1 /\ Len(s) \in Nat /\ n[1] = t
      /\ \A i \in 2..Len(n) : n[i] = s[i - 1]
  <2>1. <<t>> \in Seq(Stages) /\ Len(<<t>>) = 1 /\ <<t>>[1] = t /\ Len(s) \in Nat
    OBVIOUS
  <2>2. /\ n \in Seq(Stages) /\ Len(n) = 1 + Len(s)
        /\ \A i \in 1..(1 + Len(s)) : n[i] = IF i <= 1 THEN <<t>>[i] ELSE s[i - 1]
    BY <2>1, ConcatProperties
  <2> HIDE DEF n
  <2>3. 1 \in 1..(1 + Len(s)) /\ \A i \in 2..Len(n) : i \in 1..(1 + Len(s)) /\ ~(i <= 1)
    BY <2>1, <2>2
  <2> QED
    BY <2>1, <2>2, <2>3
<1>2. Range(s) = {s[i] : i \in 1..Len(s)} /\ Range(n) = {n[i] : i \in 1..Len(n)}
  BY <1>1, RangeEquality
<1> HIDE DEF n
<1>3. ASSUME NEW i \in 1..Len(n), i # 1 PROVE i - 1 \in 1..Len(s) /\ n[i] = s[i - 1]
  BY <1>1, <1>3
<1>4. ASSUME NEW i \in 1..Len(s) PROVE s[i] = n[i + 1] /\ i + 1 \in 1..Len(n)
  BY <1>1
<1>5. Range(n) = {t} \cup Range(s)
  <2>1. ASSUME NEW x \in Range(n) PROVE x \in {t} \cup Range(s)
    BY <1>1, <1>2, <1>3
  <2>2. ASSUME NEW x \in Range(s) PROVE x \in Range(n)
    BY <1>2, <1>4
  <2>3. t \in Range(n)
    BY <1>1, <1>2
  <2> QED
    BY <2>1, <2>2, <2>3
<1>6. ASSUME NEW i \in 1..Len(n), NEW j \in 1..Len(n), i < j, n[i].page = n[j].page
      PROVE  n[i].do # "write" /\ n[j].do = "write"
  <2>1. j # 1 /\ j - 1 \in 1..Len(s) /\ n[j] = s[j - 1]
    BY <1>3, <1>6
  <2>2. CASE i = 1
    BY <1>1, <1>2, <1>6, <2>1, <2>2
  <2>3. CASE i # 1
    <3>1. i - 1 \in 1..Len(s) /\ n[i] = s[i - 1]
      BY <1>3, <2>3
    <3>2. i - 1 < j - 1 /\ s[i - 1].page = s[j - 1].page
      BY <1>6, <2>1, <3>1
    <3> QED
      BY <2>1, <3>1, <3>2 DEF InOrder
  <2> QED
    BY <2>2, <2>3
<1> QED
  BY <1>1, <1>5, <1>6 DEF n, InOrder

----------------------------------------------------------------------------
(* What pages show.                                                        *)

\* A page has a number for each attribute of each resource.
LEMMA PageShows ==
    ASSUME NEW g \in Page, NEW values \in Values(g), NEW r \in Proc, NEW a \in Attrs(r, g)
    PROVE  a \in DOMAIN values /\ values[a] \in Int
  BY DEF Values

\* What the device shows now is the last of the versions, and a page of numbers.
LEMMA NowIs ==
    ASSUME ClientOK, NEW g \in Page
    PROVE  /\ stored[g] \in Nat /\ Len(content[g]) = stored[g] + 1
           /\ stored[g] + 1 \in 1..Len(content[g])
           /\ Now(g) = content[g][Len(content[g])] /\ Now(g) \in Values(g)
<1>1. stored[g] \in Nat /\ content[g] \in Seq(Values(g)) /\ Len(content[g]) = stored[g] + 1
  BY CacheAssumption DEF ClientOK, TypeOK, ContentOK
<1> QED
  BY <1>1 DEF Now

\* What a call got is a version of its page.
LEMMA GotIs ==
    ASSUME ClientOK, NEW r \in Proc
    PROVE  /\ page[r] \in Page /\ got[r] + 1 \in 1..Len(content[page[r]])
           /\ content[page[r]][got[r] + 1] \in Values(page[r])
<1>1. page[r] \in Page /\ got[r] \in 0..stored[page[r]]
  BY DEF ClientOK, TypeOK, VersionsOK
<1>2. content[page[r]] \in Seq(Values(page[r])) /\ stored[page[r]] \in Nat
      /\ Len(content[page[r]]) = stored[page[r]] + 1
  BY <1>1, NowIs DEF ClientOK, ContentOK
<1>3. got[r] + 1 \in 1..Len(content[page[r]])
  BY <1>1, <1>2
<1> QED
  BY <1>1, <1>2, <1>3

\* A configuration is one of those that were assumed.
LEMMA ConfigIs ==
    ASSUME WalkOK, NEW r \in Proc
    PROVE  /\ "force" \in DOMAIN config[r] /\ "index" \notin DOMAIN config[r]
           /\ DOMAIN config[r] \subseteq Attributes(r) \cup {"force"}
           /\ Numbers(config[r]) /\ "pvid" \in DOMAIN config["port"]
<1>1. PICK setup \in Setups : config = setup.config
  BY DEF WalkOK
<1>2. /\ "force" \in DOMAIN config[r]
      /\ DOMAIN config[r] \subseteq (Attributes(r) \ {"index"}) \cup {"force"}
      /\ \A a \in DOMAIN config[r] : config[r][a] \in Int
      /\ "pvid" \in DOMAIN config["port"]
  BY <1>1, SetupsAssumption
<1> QED
  BY <1>2 DEF Numbers

\* An operation is one of the walk.
LEMMA OpIs ==
    ASSUME WalkOK, NEW r \in Proc
    PROVE  /\ op[r] \in Ops /\ (walk = "idle" => op[r] = "none")
           /\ op[r] # "none" =>
                /\ walk # "idle" /\ (walk = "refresh" <=> op[r] \in {"refresh", "import"})
                /\ walk = "apply" <=> op[r] \in {"create", "update"}
                /\ walk = "destroy" <=> op[r] = "delete"
<1>1. op[r] \in OpsOf[walk] /\ walk \in {"idle", "refresh", "apply", "destroy"}
  BY DEF WalkOK
<1>2. CASE walk = "idle"
  BY <1>1, <1>2 DEF OpsOf, Ops
<1>3. CASE walk = "refresh"
  BY <1>1, <1>3 DEF OpsOf, Ops
<1>4. CASE walk = "apply"
  BY <1>1, <1>4 DEF OpsOf, Ops
<1>5. CASE walk = "destroy"
  BY <1>1, <1>5 DEF OpsOf, Ops
<1> QED
  BY <1>1, <1>2, <1>3, <1>4, <1>5

----------------------------------------------------------------------------
(* What a write makes of a page.                                           *)

\* The stage that comes next is a write of this page.
ToWrite(r, g) == todo[r] # <<>> /\ Head(todo[r]) = Stage("write", g)

\* Before a write the page has been looked at, and nothing else of it is left.
LEMMA NextWrite ==
    ASSUME WalkOK, NEW r \in Proc, ResourceOK(r), NEW g \in Page, ToWrite(r, g)
    PROVE  /\ op[r] # "none" /\ Attrs(r, g) # {}
           /\ IF r = "vlan" THEN op[r] \in {"create", "delete"} ELSE op[r] \in {"create", "update"}
           /\ \A s \in Range(Tail(todo[r])) : s.page # g
           /\ Remains(r, g) /\ ~Unread(r, g) /\ (g # "config" => Fresh(r, g))
<1>1. todo[r] \in Seq(Stages) /\ todo[r] # <<>> /\ InOrder(todo[r]) /\ TodoOK(r)
  BY DEF WalkOK, ToWrite, ResourceOK, TodoOK
<1>2. Head(todo[r]).do = "write" /\ Head(todo[r]).page = g /\ Head(todo[r]) = Stage("write", g)
  BY DEF ToWrite, Stage
<1>3. Ahead(r) = {Stage("write", g)} \cup Range(Tail(todo[r]))
      /\ \A s \in Range(Tail(todo[r])) : s.page # g
  BY <1>1, <1>2, StageDone DEF Ahead
<1>4. StageOK(r, Stage("write", g)) /\ Stage("write", g).do = "write" /\ Stage("write", g).page = g
  BY <1>1, <1>3 DEF TodoOK, Stage
<1>5. op[r] # "none"
  BY <1>1 DEF TodoOK
<1>6. Remains(r, g) /\ ~Unread(r, g)
  BY <1>3, <1>4 DEF Remains, Unread, Looks
<1> QED
  BY <1>3, <1>4, <1>5, <1>6 DEF StageOK, StageFits, Fresh

\* What is wanted is a number for each attribute.
LEMMA WantedIs ==
    ASSUME WalkOK, NEW r \in Proc, ResourceOK(r), NEW g \in Page, ToWrite(r, g), r # "vlan"
    PROVE  /\ Wanted(r, g) \in [Attrs(r, g) -> Int]
           /\ \A a \in Attrs(r, g) :
                /\ a \in DOMAIN config[r] => Wanted(r, g)[a] = config[r][a]
                /\ a \notin DOMAIN config[r] =>
                     g # "config" /\ Wanted(r, g)[a] = model[r][a] /\ model[r][a] \in Int
<1>1. ASSUME NEW a \in Attrs(r, g), a \notin DOMAIN config[r]
      PROVE  g # "config" /\ model[r][a] \in Int
  <2>1. g # "config"
    BY <1>1, ConfigIs, AttrsAre, ResourcesAssumption
  <2>2. Attrs(r, g) \subseteq DOMAIN model[r] /\ Numbers(model[r])
    BY <2>1, NextWrite DEF ResourceOK, ModelTyped
  <2> QED
    BY <2>1, <2>2 DEF Numbers
<1>2. \A a \in DOMAIN config[r] : config[r][a] \in Int
  BY ConfigIs DEF Numbers
<1> QED
  BY <1>1, <1>2 DEF Wanted

\* New values of some attributes are new values of these alone.
LEMMA AddingIs ==
    ASSUME NEW values, NEW before
    PROVE  /\ DOMAIN Adding(values, before) = DOMAIN values \cup DOMAIN before
           /\ \A a \in DOMAIN values : Adding(values, before)[a] = values[a]
           /\ \A a \in DOMAIN before \ DOMAIN values : Adding(values, before)[a] = before[a]
  BY DEF Adding

\* What a write makes of a page: nothing of other resources' attributes; of its
\* own it makes what is wanted.
LEMMA WholeIs ==
    ASSUME WalkOK, NEW r \in Proc, ResourceOK(r), NEW g \in Page, ToWrite(r, g),
           NEW values \in Values(g)
    PROVE  LET n == Whole(r, g, values)
           IN  /\ n \in Values(g)
               /\ \A q \in Proc \ {r} : \A a \in Attrs(q, g) : n[a] = values[a]
               /\ r = "vlan" => IF op[r] = "delete" THEN n.index = 0 ELSE n.index # 0
               /\ r # "vlan" => \A a \in Attrs(r, g) :
                    n[a] = IF a = "router" /\ Wanted(r, g).snoop # 1 THEN values[a]
                           ELSE Wanted(r, g)[a]
<1> DEFINE n == Whole(r, g, values)
<1>1. CASE r = "vlan"
  <2>1. g = "config"
    BY <1>1, NextWrite, AttrsAre, ResourcesAssumption
  <2>2. n = [values EXCEPT !.index = IF op[r] = "delete" THEN 0
                                     ELSE IF values.index = 0 THEN 2 ELSE values.index]
    BY <1>1 DEF Whole
  <2>3. "index" \in DOMAIN values /\ values.index \in Int
    BY <1>1, <2>1, AttrsAre, PageShows
  <2>4. n \in Values(g)
    BY <2>2, <2>3 DEF Values
  <2>5. n.index = IF op[r] = "delete" THEN 0 ELSE IF values.index = 0 THEN 2 ELSE values.index
    BY <2>2, <2>3
  <2>6. ASSUME NEW q \in Proc \ {r}, NEW a \in Attrs(q, g) PROVE n[a] = values[a]
    <3>1. a # "index" /\ a \in DOMAIN values
      BY <1>1, <2>1, AttrsAre, AttrsDiffer, PageShows
    <3> QED
      BY <2>2, <3>1 DEF Values
  <2> HIDE DEF n
  <2>7. IF op[r] = "delete" THEN n.index = 0 ELSE n.index # 0
    BY <2>5
  <2> QED
    BY <1>1, <2>4, <2>6, <2>7 DEF n
<1>2. CASE r = "system" /\ g = "management"
  <2> DEFINE want == Wanted(r, g)
  <2>1. n = [values EXCEPT !.led = want.led, !.snoop = want.snoop,
                           !.router = IF want.snoop = 1 THEN want.router ELSE values.router]
    BY <1>2 DEF Whole
  <2>2. /\ want.led \in Int /\ want.snoop \in Int /\ want.router \in Int
        /\ Attrs(r, g) = {"led", "snoop", "router"}
    BY <1>2, WantedIs, AttrsAre
  <2>3. \A a \in {"led", "snoop", "router"} : a \in DOMAIN values /\ values[a] \in Int
    BY <1>2, <2>2, PageShows
  <2> HIDE DEF want, n
  <2>4. n \in Values(g)
    BY <2>1, <2>2, <2>3 DEF Values
  <2>5. n.led = want.led /\ n.snoop = want.snoop
        /\ n.router = IF want.snoop = 1 THEN want.router ELSE values.router
    BY <2>1, <2>3
  <2>6. ASSUME NEW q \in Proc \ {r}, NEW a \in Attrs(q, g) PROVE n[a] = values[a]
    <3>1. a \notin {"led", "snoop", "router"} /\ a \in DOMAIN values
      BY <2>2, AttrsDiffer, PageShows
    <3> QED
      BY <2>1, <3>1 DEF Values
  <2> QED
    BY <1>2, <2>2, <2>4, <2>5, <2>6 DEF n, want
<1>3. CASE r # "vlan" /\ ~(r = "system" /\ g = "management")
  <2>1. n = Adding(Wanted(r, g), values)
    BY <1>3 DEF Whole
  <2>2. Wanted(r, g) \in [Attrs(r, g) -> Int]
    BY <1>3, WantedIs
  <2>3. Attrs(r, g) \subseteq DOMAIN values
    BY PageShows
  <2>4. DOMAIN n = DOMAIN values /\ (\A a \in Attrs(r, g) : n[a] = Wanted(r, g)[a])
        /\ \A a \in DOMAIN values \ Attrs(r, g) : n[a] = values[a]
    <3> DEFINE w == Wanted(r, g)
    <3>1. DOMAIN w = Attrs(r, g)
      BY <2>2
    <3> HIDE DEF w, n
    <3>2. /\ DOMAIN Adding(w, values) = DOMAIN w \cup DOMAIN values
          /\ \A a \in DOMAIN w : Adding(w, values)[a] = w[a]
          /\ \A a \in DOMAIN values \ DOMAIN w : Adding(w, values)[a] = values[a]
      BY AddingIs
    <3>3. n = Adding(w, values)
      BY <2>1 DEF w
    <3> QED
      BY <2>3, <3>1, <3>2, <3>3 DEF w
  <2>5. n \in Values(g)
    <3>1. DOMAIN values = UNION {Attrs(q, g) : q \in Proc} /\ \A a \in DOMAIN values : values[a] \in Int
      BY DEF Values
    <3>2. n = [a \in DOMAIN n |-> n[a]]
      BY <2>1 DEF Adding
    <3>3. \A a \in DOMAIN n : n[a] \in Int
      BY <2>2, <2>4, <3>1
    <3> QED
      BY <2>4, <3>1, <3>2, <3>3 DEF Values
  <2>6. ASSUME NEW q \in Proc \ {r}, NEW a \in Attrs(q, g) PROVE n[a] = values[a]
    <3>1. a \notin Attrs(r, g) /\ a \in DOMAIN values
      BY AttrsDiffer, PageShows
    <3> QED
      BY <2>4, <3>1
  <2>7. \A a \in Attrs(r, g) : a # "router"
    BY <1>3, AttrsAre, ResourcesAssumption
  <2> QED
    BY <1>3, <2>4, <2>5, <2>6, <2>7
<1> QED
  BY <1>1, <1>2, <1>3

\* What is left of a write that broke off is some of what was wanted.
LEMMA EffectIs ==
    ASSUME ClientOK, WalkOK, NEW r \in Proc, ResourceOK(r), NEW g \in Page, ToWrite(r, g),
           NEW values \in Effects(r, g, Now(g))
    PROVE  /\ values \in Values(g)
           /\ \A q \in Proc \ {r} : \A a \in Attrs(q, g) : values[a] = Now(g)[a]
           /\ r = "vlan" => IF op[r] = "delete" THEN values.index = 0 ELSE values.index # 0
           /\ r # "vlan" => \A a \in Attrs(r, g) :
                values[a] = Now(g)[a] \/ values[a] = Wanted(r, g)[a]
<1>1. Now(g) \in Values(g)
  BY NowIs
<1>2. CASE values = Whole(r, g, Now(g))
  BY <1>1, <1>2, WholeIs
<1>3. CASE /\ r = "system" /\ g = "management"
           /\ values = [Now(g) EXCEPT !.led = Wanted(r, g).led]
  <2> DEFINE want == Wanted(r, g).led
             now == Now(g)
  <2>1. want \in Int /\ Attrs(r, g) = {"led", "snoop", "router"}
    BY <1>3, WantedIs, AttrsAre
  <2>2. \A a \in {"led", "snoop", "router"} : a \in DOMAIN now
    BY <1>1, <2>1, PageShows
  <2>3. want = Wanted(r, g)["led"]
    OBVIOUS
  <2>4. values = [now EXCEPT !.led = want]
    BY <1>3
  <2>5. now \in Values(g)
    BY <1>1
  <2> HIDE DEF want, now
  <2>6. values \in Values(g)
    BY <2>1, <2>2, <2>4, <2>5 DEF Values
  <2>7. values.led = want /\ \A a \in DOMAIN now \ {"led"} : values[a] = now[a]
    BY <2>2, <2>4, <2>5 DEF Values
  <2>8. ASSUME NEW q \in Proc \ {r}, NEW a \in Attrs(q, g) PROVE values[a] = now[a]
    <3>1. a # "led" /\ a \in DOMAIN now
      BY <2>1, <2>5, AttrsDiffer, PageShows
    <3> QED
      BY <2>7, <3>1
  <2>9. \A a \in Attrs(r, g) : values[a] = now[a] \/ values[a] = Wanted(r, g)[a]
    BY <2>1, <2>2, <2>3, <2>7
  <2> QED
    BY <1>3, <2>6, <2>8, <2>9 DEF now
<1> QED
  BY <1>2, <1>3 DEF Effects

----------------------------------------------------------------------------
(* The client keeps its types and versions.                                *)

\* A call of the client begins.
LEMMA CallKeeps ==
    ASSUME TypeOK, VersionsOK, NEW p \in Proc, NEW g \in Page, NEW to \in {"lookup", "forget"},
           Call(p, g, to)
    PROVE  TypeOK' /\ VersionsOK'
<1> USE CacheAssumption DEF TypeOK, Call, Goto
<1>1. overlapped' \in [Proc -> BOOLEAN]
  BY Zenon
<1>2. began' \in [Proc -> 0..MaxWrites] /\ got' \in [Proc -> 0..MaxWrites]
  OBVIOUS
<1>3. TypeOK'
  BY <1>1, <1>2
<1>4. ASSUME NEW r \in Proc PROVE got'[r] \in 0..stored'[page'[r]]
  <2>1. CASE r = p
    <3>1. got'[r] = 0 /\ stored[g] \in 0..MaxWrites /\ page'[r] = g
      BY <2>1
    <3> QED
      BY <3>1
  <2>2. CASE r # p
    BY <2>2 DEF VersionsOK
  <2> QED
    BY <2>1, <2>2
<1> QED
  BY <1>3, <1>4 DEF VersionsOK

\* Nothing cached or got is newer than what the device holds.
LEMMA VersionStep == TypeOK /\ VersionsOK /\ [Next]_vars => VersionsOK'
<1> SUFFICES ASSUME TypeOK, VersionsOK, [Next]_vars PROVE VersionsOK'
  OBVIOUS
<1>0. /\ \A g \in Page : stored[g] \in Nat
      /\ \A r \in Proc : page[r] \in Page /\ got[r] \in Nat
  BY CacheAssumption DEF TypeOK
<1> USE DEF VersionsOK, call
<1>1. ASSUME NEW p \in Proc, BeginRead(p) PROVE VersionsOK'
  BY <1>1, CallKeeps DEF BeginRead
<1>2. ASSUME NEW p \in Proc, CacheHit(p) PROVE VersionsOK'
  <2>1. /\ UNCHANGED <<stored, cache, page>> /\ cache[page[p]] # Absent
        /\ got' = [got EXCEPT ![p] = cache[page[p]]]
    BY <1>2 DEF CacheHit
  <2>2. cache[page[p]] \in 0..stored[page[p]]
    BY <1>0, <2>1
  <2> QED
    BY <2>1, <2>2 DEF TypeOK
<1>3. ASSUME NEW p \in Proc, CacheMiss(p) PROVE VersionsOK'
  BY <1>3 DEF CacheMiss
<1>4. ASSUME NEW p \in Proc, ReadVLANTable(p) PROVE VersionsOK'
  BY <1>4 DEF ReadVLANTable
<1>5. ASSUME NEW p \in Proc, AcquireRead(p) \/ AcquireWrite(p) PROVE VersionsOK'
  BY <1>5 DEF AcquireRead, AcquireWrite, Acquire
<1>6. ASSUME NEW p \in Proc, ReadPage(p) \/ NothingToApply(p) \/ ReadBack(p) PROVE VersionsOK'
  <2>1. UNCHANGED <<stored, cache, page>> /\ got' = [got EXCEPT ![p] = stored[page[p]]]
    BY <1>6 DEF ReadPage, NothingToApply, ReadBack, Fetch
  <2>2. stored[page[p]] \in 0..stored[page[p]]
    BY <1>0
  <2> QED
    BY <2>1, <2>2 DEF TypeOK
<1>7. ASSUME NEW p \in Proc,
             ReadFails(p) \/ ReleaseRead(p) \/ WriteRefused(p) \/ WriteFails(p) \/ ReleaseWrite(p)
      PROVE VersionsOK'
  BY <1>7 DEF ReadFails, ReleaseRead, WriteRefused, WriteFails, ReleaseWrite, Release
<1>8. ASSUME NEW p \in Proc, Store(p) PROVE VersionsOK'
  BY <1>8 DEF Store, TypeOK
<1>9. ASSUME NEW p \in Proc, BeginWrite(p) PROVE VersionsOK'
  BY <1>9, CallKeeps DEF BeginWrite
<1>10. ASSUME NEW p \in Proc, Forget(p) PROVE VersionsOK'
  BY <1>10 DEF Forget
<1>11. ASSUME NEW p \in Proc, Apply(p) PROVE VersionsOK'
  <2>1. UNCHANGED <<cache, got, page>> /\ stored' = [stored EXCEPT ![page[p]] = stored[page[p]] + 1]
    BY <1>11 DEF Apply
  <2>2. ASSUME NEW g \in Page PROVE 0..stored[g] \subseteq 0..stored'[g]
    <3>1. stored'[g] = stored[g] \/ stored'[g] = stored[g] + 1
      BY <2>1 DEF TypeOK
    <3> QED
      BY <1>0, <3>1
  <2> QED
    BY <1>0, <2>1, <2>2
<1>12. ASSUME NEW p \in Proc, Return(p) PROVE VersionsOK'
  BY <1>12 DEF Return
<1>13. ASSUME NEW g \in Page, Expire(g) PROVE VersionsOK'
  BY <1>13 DEF Expire, TypeOK
<1>14. CASE UNCHANGED vars
  BY <1>14 DEF vars
<1> QED
  BY <1>1, <1>2, <1>3, <1>4, <1>5, <1>6, <1>7, <1>8, <1>9, <1>10, <1>11, <1>12,
     <1>13, <1>14 DEF Next

----------------------------------------------------------------------------
(* What a step leaves alone.                                               *)

\* The step does nothing to the operation of q, or to what is recorded of it.
Unmoved(q) ==
    /\ op'[q] = op[q] /\ todo'[q] = todo[q] /\ model'[q] = model[q] /\ tf'[q] = tf[q]
    /\ q \in failed' <=> q \in failed
    /\ walk' = walk /\ config' = config
    /\ walk # "idle" /\ disturbed => disturbed'

\* It does nothing to the call that q makes.
SameCall(q) == pc'[q] = pc[q] /\ page'[q] = page[q] /\ got'[q] = got[q]

\* The versions remain, and those that are added show nothing new of q, unless
\* it is the owner who adds them.
Grown(q) ==
    /\ \A g \in Page : \A v \in 1..Len(content[g]) :
         v \in 1..Len(content'[g]) /\ content'[g][v] = content[g][v]
    /\ Quiet' => /\ Quiet
                 /\ \A g \in Page : \A v \in 1..Len(content'[g]) :
                      \/ v \in 1..Len(content[g])
                      \/ \A a \in Attrs(q, g) : content'[g][v][a] = Now(g)[a]

\* The device shows what it did of q.
LEMMA NowKept ==
    ASSUME ClientOK, ClientOK', NEW q \in Proc, Grown(q), Quiet', NEW g \in Page
    PROVE  \A a \in Attrs(q, g) : Now(g)'[a] = Now(g)[a]
<1>1. Len(content'[g]) = stored'[g] + 1 /\ stored'[g] \in Nat
  BY CacheAssumption DEF ClientOK, TypeOK, ContentOK
<1>2. Len(content[g]) = stored[g] + 1 /\ stored[g] \in Nat
  BY NowIs
<1>3. stored[g] + 1 \in 1..Len(content'[g]) /\ content'[g][stored[g] + 1] = Now(g)
  BY <1>2 DEF Grown, Now
<1>4. CASE stored'[g] = stored[g]
  BY <1>3, <1>4 DEF Now
<1>5. CASE stored'[g] # stored[g]
  <2>1. stored'[g] + 1 \in 1..Len(content'[g]) /\ stored'[g] + 1 \notin 1..Len(content[g])
    BY <1>1, <1>2, <1>3, <1>5
  <2>2. \A a \in Attrs(q, g) : content'[g][stored'[g] + 1][a] = Now(g)[a]
    BY <2>1 DEF Grown
  <2> QED
    BY <2>2 DEF Now
<1> QED
  BY <1>4, <1>5

\* What is true of the operation of a resource, whatever its call does, remains
\* true while nobody touches it.
LEMMA OperationKept ==
    ASSUME ClientOK, ClientOK', WalkOK, NEW q \in Proc, ResourceOK(q), Unmoved(q), Grown(q)
    PROVE  /\ TodoOK(q)' /\ ModelTyped(q)' /\ VersionsAgree(q)' /\ ModelConfigured(q)'
           /\ NameWritten(q)' /\ StateTyped(q)' /\ StateShows(q)' /\ StateConfigured(q)'
           /\ SlotTaken(q)'
<1> USE DEF Unmoved
<1>1. TodoOK(q)'
  BY DEF ResourceOK, TodoOK, StageOK, StageFits, Ahead
<1>2. ModelTyped(q)' /\ StateTyped(q)'
  BY DEF ResourceOK, ModelTyped, StateTyped, Fresh, Unread, Remains, Ahead, Numbers
<1>3. \A values : \A a : walk # "idle" /\ AsConfigured(q, a, values) => AsConfigured(q, a, values)'
  BY DEF AsConfigured
<1>4. ModelConfigured(q)'
  <2> SUFFICES ASSUME op[q] \in {"create", "update"} PROVE ModelConfigured(q)'
    BY DEF ModelConfigured
  <2>1. walk # "idle"
    BY DEF WalkOK, OpsOf
  <2> QED
    BY <1>3, <2>1 DEF ResourceOK, ModelConfigured, Remains, Ahead
<1>5. StateConfigured(q)'
  BY <1>3 DEF ResourceOK, StateConfigured
<1>6. VersionsAgree(q)'
  <2> SUFFICES ASSUME Quiet', NEW g \in Page, Stage("read", g) \in Ahead(q),
                      NEW v \in 1..Len(content'[g]), NEW a \in Attrs(q, g)
               PROVE  content'[g][v][a] = Now(g)'[a]
    BY DEF VersionsAgree, Agrees, Ahead
  <2>1. Now(g)'[a] = Now(g)[a]
    BY NowKept
  <2>2. CASE v \in 1..Len(content[g])
    <3>1. content[g][v][a] = Now(g)[a]
      BY <2>2 DEF ResourceOK, VersionsAgree, Grown, Agrees
    <3> QED
      BY <2>1, <2>2, <3>1 DEF Grown
  <2>3. CASE v \notin 1..Len(content[g])
    BY <2>1, <2>3 DEF Grown
  <2> QED
    BY <2>2, <2>3
<1>7. NameWritten(q)'
  <2> SUFFICES ASSUME NameWritten(q)!1' PROVE Now("info").name' = config[q].name
    BY DEF NameWritten
  <2>1. Quiet' /\ Quiet
    BY DEF Grown
  <2>2. Now("info").name = config[q].name /\ "name" \in DOMAIN config[q]
    BY <2>1 DEF ResourceOK, NameWritten, Unread, Ahead
  <2>3. "name" \in Attrs(q, "info") /\ "info" \in Page
    BY <2>2, ConfigIs, AttrsAre, ResourcesAssumption DEF Attributes
  <2>4. Now("info")'["name"] = Now("info")["name"]
    BY <2>1, <2>3, NowKept
  <2> QED
    BY <2>2, <2>4
<1>8. StateShows(q)'
  <2> SUFFICES ASSUME Quiet', op[q] = "none", q \notin failed, tf[q] # NoState,
                      NEW g \in Page, NEW a \in Attrs(q, g), a = "pps" => Now(g)'.storm = 1
               PROVE  tf[q][a] = Now(g)'[a]
    BY DEF StateShows, NoState
  <2>1. Now(g)'[a] = Now(g)[a] /\ Quiet
    BY NowKept DEF Grown
  <2>2. a = "pps" => "storm" \in Attrs(q, g)
    BY AttrsAre, ResourcesAssumption
  <2>3. a = "pps" => Now(g).storm = 1
    BY <2>2, NowKept
  <2> QED
    BY <2>1, <2>3 DEF ResourceOK, StateShows
<1>9. SlotTaken(q)'
  <2> SUFFICES ASSUME q = "vlan", SlotTaken(q)!1' PROVE Now("config")'.index # 0
    BY DEF SlotTaken
  <2>1. Quiet' /\ Quiet
    BY DEF Grown
  <2>2. Now("config").index # 0
    BY <2>1 DEF ResourceOK, SlotTaken, NoState
  <2>3. "index" \in Attrs(q, "config") /\ "config" \in Page
    BY AttrsAre, ResourcesAssumption
  <2> QED
    BY <2>1, <2>2, <2>3, NowKept
<1> QED
  BY <1>1, <1>2, <1>4, <1>5, <1>6, <1>7, <1>8, <1>9

\* So is the rest, for a resource that is not in the step at all.
LEMMA BystanderKept ==
    ASSUME ClientOK, ClientOK', WalkOK, NEW q \in Proc, ResourceOK(q), Unmoved(q), Grown(q),
           SameCall(q), q = "vlan" /\ Quiet' => maker' = maker
    PROVE  ResourceOK(q)'
<1> USE DEF Unmoved, SameCall
<1>1. CallOK(q)'
  BY DEF ResourceOK, CallOK
<1>2. ModelShows(q)'
  <2> SUFFICES ASSUME Quiet', op[q] \notin {"none", "delete"},
                      NEW g \in Page, Fresh(q, g), ~Underway(q, g), NEW a \in Attrs(q, g)
               PROVE  \/ model[q][a] = Now(g)'[a]
                      \/ a = "pps" /\ ~Remains(q, g) /\ Now(g)'.storm # 1
    BY DEF ModelShows, Fresh, Unread, Remains, Ahead, Underway
  <2>1. Now(g)'[a] = Now(g)[a] /\ Quiet
    BY NowKept DEF Grown
  <2>2. a = "pps" => "storm" \in Attrs(q, g)
    BY AttrsAre, ResourcesAssumption
  <2>3. a = "pps" => Now(g)'.storm = Now(g).storm
    BY <2>2, NowKept
  <2> QED
    BY <2>1, <2>3 DEF ResourceOK, ModelShows
<1>3. ReadBackOK(q)'
  <2> SUFFICES ASSUME pc[q] \in {"releaseWrite", "written"} PROVE ReadBackOK(q)'
    BY DEF ReadBackOK
  <2> DEFINE shown == content[page[q]][got[q] + 1]
  <2>1. page[q] \in Page /\ got[q] + 1 \in 1..Len(content[page[q]])
    BY GotIs
  <2>2. content'[page[q]][got[q] + 1] = shown
    BY <2>1 DEF Grown
  <2>3. Whole(q, page[q], shown)' = Whole(q, page[q], shown)
    BY <2>2 DEF Whole, Wanted, Adding
  <2>4. Quiet' => Quiet /\ \A a \in Attrs(q, page[q]) : Now(page[q])'[a] = Now(page[q])[a]
    BY <2>1, NowKept DEF Grown
  <2> QED
    BY <2>2, <2>3, <2>4 DEF ResourceOK, ReadBackOK, Agrees
<1>4. SlotIsOurs(q)'
  <2> SUFFICES ASSUME q = "vlan", Quiet', op[q] = "create" PROVE SlotIsOurs(q)'
    BY DEF SlotIsOurs
  <2>1. "index" \in Attrs(q, "config") /\ "config" \in Page
    BY AttrsAre, ResourcesAssumption
  <2>2. Quiet /\ Now("config")'.index = Now("config").index
    BY <2>1, NowKept DEF Grown
  <2> QED
    BY <2>2 DEF ResourceOK, SlotIsOurs, Ahead
<1> QED
  BY <1>1, <1>2, <1>3, <1>4, OperationKept DEF ResourceOK

\* A step of r alone: nothing happens to the other resources.
Alone(r) ==
    /\ \A q \in Proc \ {r} : Unmoved(q) /\ SameCall(q) /\ Grown(q)
    /\ walk' = walk /\ config' = config /\ disturbed' = disturbed
    /\ maker' = maker \/ r = "vlan"

\* The other resources are as they were.
LEMMA OthersKept ==
    ASSUME AllOK, ClientOK', NEW r \in Proc, Alone(r)
    PROVE  \A q \in Proc \ {r} : ResourceOK(q)'
  BY BystanderKept DEF Alone, AllOK

\* No page changes.
LEMMA NothingGrows ==
    ASSUME content' = content, Quiet' => Quiet, NEW q \in Proc
    PROVE  Grown(q)
  BY DEF Grown

----------------------------------------------------------------------------
(* Steps of a call.                                                        *)

\* A step of the client that changes no page.
LEMMA ClientStep ==
    ASSUME ClientOK, [Next]_vars, UNCHANGED <<stored, content>>
    PROVE  ClientOK'
<1>1. TypeOK' /\ VersionsOK'
  BY TypeStep, VersionStep DEF ClientOK
<1> QED
  BY <1>1 DEF ClientOK, ContentOK

\* The call of r goes on, and nothing else happens.
CallMoves(r) ==
    /\ Stay /\ UNCHANGED stored
    /\ \A q \in Proc \ {r} : SameCall(q)
    /\ \A g \in Page : Underway(r, g) => Underway(r, g)'
    /\ r = "port" /\ walk = "apply" /\ pc'[r] # "idle" => op["vlan"] = "none" /\ "vlan" \notin failed

\* Then all is as it was, if it is so of the call.
LEMMA CallMoved ==
    ASSUME AllOK, ClientOK', NEW r \in Proc, CallMoves(r),
           CallOK(r)', ReadBackOK(r)', SlotIsOurs(r)'
    PROVE  AllOK'
<1> USE DEF CallMoves, Stay, terraform, work, owner, AllOK
<1>1. \A q \in Proc : Unmoved(q) /\ Grown(q)
  <2>1. \A q \in Proc : Unmoved(q)
    BY DEF Unmoved
  <2>2. content' = content /\ (Quiet' => Quiet)
    BY DEF Quiet
  <2> QED
    BY <2>1, <2>2, NothingGrows
<1>2. WalkOK'
  <2>1. ASSUME pc'["port"] # "idle", walk = "apply"
        PROVE  op["vlan"] = "none" /\ "vlan" \notin failed
    <3>1. CASE r = "port"
      BY <2>1, <3>1
    <3>2. CASE r # "port"
      BY <2>1, <3>2, ResourcesAssumption DEF WalkOK, SameCall
    <3> QED
      BY <3>1, <3>2
  <2> QED
    BY <2>1 DEF WalkOK
<1>3. PVIDNamesAVLAN'
  BY DEF PVIDNamesAVLAN, Now
<1>4. ASSUME NEW q \in Proc \ {r} PROVE ResourceOK(q)'
  BY <1>1, BystanderKept
<1>5. ModelShows(r)'
  <2> SUFFICES ASSUME Quiet, op[r] \notin {"none", "delete"},
                      NEW g \in Page, Fresh(r, g), ~Underway(r, g)', NEW a \in Attrs(r, g)
               PROVE  \/ model[r][a] = Now(g)[a]
                      \/ a = "pps" /\ ~Remains(r, g) /\ Now(g).storm # 1
    BY DEF ModelShows, Fresh, Unread, Remains, Ahead, Now, Quiet
  <2> QED
    BY DEF ResourceOK, ModelShows
<1>6. ResourceOK(r)'
  <2>1. ResourceOK(r)
    OBVIOUS
  <2> QED
    BY <1>1, <1>5, <2>1, OperationKept DEF ResourceOK
<1> QED
  BY <1>2, <1>3, <1>4, <1>6

\* The call goes from one place to another.
Goes(r, from, to) ==
    /\ pc[r] = from /\ pc' = [pc EXCEPT ![r] = to] /\ UNCHANGED <<page, stored>>
    /\ \A q \in Proc \ {r} : got'[q] = got[q]
    /\ Stay

After == {"readBack", "releaseWrite", "written", "failed"}

\* Reading remains reading, and writing writing.
LEMMA CallGoes ==
    ASSUME AllOK, ClientOK', NEW r \in Proc, NEW from, NEW to, Goes(r, from, to),
           from # "idle", to # "idle", from \in Writing <=> to \in Writing,
           from \in After => to \in After,
           to \in {"releaseWrite", "written"} => ReadBackOK(r)' /\ SlotIsOurs(r)'
    PROVE  AllOK'
<1> USE DEF Goes
<1>0. pc'[r] = to /\ \A q \in Proc \ {r} : pc'[q] = pc[q]
  BY DEF AllOK, ClientOK, TypeOK
<1>1. CallMoves(r)
  <2>1. \A q \in Proc \ {r} : SameCall(q)
    BY <1>0 DEF SameCall
  <2>2. \A g \in Page : Underway(r, g) => Underway(r, g)'
    BY <1>0 DEF Underway, After
  <2> QED
    BY <2>1, <2>2 DEF CallMoves, AllOK, WalkOK
<1>2. CallOK(r)'
  <2>1. CallOK(r)
    BY DEF AllOK, ResourceOK
  <2> QED
    BY <1>0, <2>1 DEF CallOK, Stay, work
<1>3. ReadBackOK(r)'
  BY <1>0 DEF ReadBackOK
<1>4. SlotIsOurs(r)'
  <2>1. SlotIsOurs(r)
    BY DEF AllOK, ResourceOK
  <2> QED
    BY <1>0, <2>1 DEF SlotIsOurs, Stay, work, terraform, owner, Quiet, Now, Ahead
<1> QED
  BY <1>1, <1>2, <1>3, <1>4, CallMoved

\* The stage that comes next is one of a page.
LEMMA NextIs ==
    ASSUME AllOK, NEW r \in Proc, todo[r] # <<>>
    PROVE  /\ Head(todo[r]) \in Stages /\ Head(todo[r]).page \in Page
           /\ Head(todo[r]) = Stage(Head(todo[r]).do, Head(todo[r]).page)
<1>1. Head(todo[r]) \in Stages
  BY HeadAndTail DEF AllOK, WalkOK
<1> QED
  BY <1>1 DEF Stages, Stage

\* A call begins: it is the stage that comes next.
LEMMA CallBegins ==
    ASSUME AllOK, ClientOK', NEW r \in Proc, NEW to, At(r, IF to = "forget" THEN "write" ELSE "read"),
           to \in {"lookup", "forget"}, MayStart(r), Call(r, Subject(r), to), Stay
    PROVE  AllOK'
<1> USE DEF Call, Goto
<1>0. /\ pc[r] = "idle" /\ pc'[r] = to /\ page'[r] = Subject(r) /\ UNCHANGED stored
      /\ \A q \in Proc \ {r} : SameCall(q)
  BY DEF AllOK, ClientOK, TypeOK, SameCall
<1>1. CallMoves(r)
  <2>1. r = "port" /\ walk = "apply" => op["vlan"] = "none" /\ "vlan" \notin failed
    BY DEF MayStart
  <2> QED
    BY <1>0, <2>1 DEF CallMoves, Underway
<1>2. CallOK(r)'
  <2>1. Head(todo[r]) = Stage(Head(todo[r]).do, Head(todo[r]).page)
    BY NextIs DEF At
  <2>2. to \in Writing <=> to = "forget"
    BY DEF Writing, Forgotten
  <2> QED
    BY <1>0, <2>1, <2>2 DEF CallOK, At, Subject, Stay, work
<1>3. ReadBackOK(r)'
  BY <1>0 DEF ReadBackOK
<1>4. SlotIsOurs(r)'
  <2>1. SlotIsOurs(r)
    BY DEF AllOK, ResourceOK
  <2> QED
    BY <1>0, <2>1 DEF SlotIsOurs, Stay, work, terraform, owner, Quiet, Now, Ahead
<1> QED
  BY <1>1, <1>2, <1>3, <1>4, CallMoved

\* ReadConfig, ReadSettings or ReadManagement is called.
LEMMA StartReadKeeps ==
    ASSUME AllOK, NEW r \in Proc, StartRead(r)
    PROVE  AllOK'
<1>1. At(r, "read") /\ MayStart(r) /\ Call(r, Subject(r), "lookup") /\ Stay
  BY DEF StartRead
<1>2. Subject(r) \in Page
  BY <1>1, NextIs DEF At, Subject
<1>3. TypeOK' /\ VersionsOK'
  BY <1>1, <1>2, CallKeeps DEF AllOK, ClientOK
<1>4. ClientOK'
  BY <1>1, <1>3 DEF AllOK, ClientOK, ContentOK, Stay, Call
<1> QED
  BY <1>1, <1>4, CallBegins

\* A write is called.
LEMMA StartWriteKeeps ==
    ASSUME AllOK, NEW r \in Proc, StartWrite(r)
    PROVE  AllOK'
<1>1. At(r, "write") /\ MayStart(r) /\ Call(r, Subject(r), "forget") /\ Stay
  BY DEF StartWrite
<1>2. Subject(r) \in Page
  BY <1>1, NextIs DEF At, Subject
<1>3. TypeOK' /\ VersionsOK'
  BY <1>1, <1>2, CallKeeps DEF AllOK, ClientOK
<1>4. ClientOK'
  BY <1>1, <1>3 DEF AllOK, ClientOK, ContentOK, Stay, Call
<1> QED
  BY <1>1, <1>4, CallBegins

\* A write finds on the device what it would make of it: that is what it answers.
LEMMA ReadBackKeeps ==
    ASSUME AllOK, ClientOK', NEW r \in Proc, NEW from \in {"write", "readBack"},
           Fetch(r, from, "releaseWrite"), Done(r, page[r]), Stay
    PROVE  AllOK'
<1> USE DEF Fetch, Goto, Stay
<1>0. /\ pc[r] = from /\ pc'[r] = "releaseWrite" /\ page[r] \in Page
      /\ got'[r] = stored[page[r]] /\ \A q \in Proc \ {r} : got'[q] = got[q]
  BY DEF AllOK, ClientOK, TypeOK
<1>1. Goes(r, from, "releaseWrite")
  BY <1>0 DEF Goes
<1>2. Whole(r, page[r], Now(page[r])) = Now(page[r])
  BY DEF Done
<1>3. ReadBackOK(r)'
  <2>1. content[page[r]][stored[page[r]] + 1] = Now(page[r])
    BY DEF Now
  <2>2. Whole(r, page[r], Now(page[r]))' = Whole(r, page[r], Now(page[r]))
    BY DEF Whole, Wanted, Adding, work, terraform, Now
  <2> QED
    BY <1>0, <1>2, <2>1, <2>2 DEF ReadBackOK, Agrees, Now
<1>4. SlotIsOurs(r)'
  <2> SUFFICES ASSUME r = "vlan", Quiet, op[r] = "create"
               PROVE  maker = "provider" \/ \E s \in Ahead(r) : s.do = "check"
    BY DEF SlotIsOurs, work, terraform, owner, Quiet, Ahead
  <2>1. ToWrite(r, page[r])
    BY <1>0 DEF AllOK, ResourceOK, CallOK, ToWrite, Writing, Forgotten
  <2>2. Now(page[r]) \in Values(page[r])
    BY <1>0, NowIs DEF AllOK
  <2>3. Now(page[r]).index # 0
    <3>1. r = "vlan" => IF op[r] = "delete" THEN Whole(r, page[r], Now(page[r])).index = 0
                        ELSE Whole(r, page[r], Now(page[r])).index # 0
      BY <1>0, <2>1, <2>2, WholeIs DEF AllOK
    <3> QED
      BY <1>2, <3>1
  <2>4. page[r] = "config"
    BY <1>0, <2>1, NextWrite, AttrsAre, ResourcesAssumption DEF AllOK
  <2> QED
    BY <2>3, <2>4 DEF AllOK, ResourceOK, SlotIsOurs
<1>5. from \in Writing /\ "releaseWrite" \in Writing /\ from # "idle" /\ "releaseWrite" \in After
  BY DEF Writing, Forgotten, After
<1> QED
  BY <1>1, <1>3, <1>4, <1>5, CallGoes

\* The steps of the client, and a read of the VLANs that goes on.
LEMMA WithinKeeps ==
    ASSUME AllOK, NEW r \in Proc, Within(r)
    PROVE  AllOK'
<1>0. ClientOK'
  <2>1. [Next]_vars /\ UNCHANGED <<stored, content>>
    BY DEF Within, Stay, Next, CacheHit, CacheMiss, AcquireRead, ReadPage, ReleaseRead, Store,
           Forget, AcquireWrite, NothingToApply, WriteRefused, ReadBack, WriteFails,
           ReleaseWrite, Acquire, Release, Fetch
  <2> QED
    BY <2>1, ClientStep DEF AllOK
<1> USE DEF Writing, Forgotten, After, Goto, call
<1>1. CASE CacheHit(r) \/ ReadPage(r)
  <2>1. PICK from \in {"lookup", "read"}, to \in {"hit", "releaseRead"} : Goes(r, from, to)
    BY <1>1 DEF Within, CacheHit, ReadPage, Fetch, Goes, AllOK, ClientOK, TypeOK
  <2> QED
    BY <1>0, <2>1, CallGoes
<1>2. CASE CacheMiss(r)
  <2>1. PICK to \in {"table", "awaitRead"} : Goes(r, "lookup", to)
    BY <1>2 DEF Within, CacheMiss, Goes
  <2> QED
    BY <1>0, <2>1, CallGoes
<1>3. CASE AcquireRead(r) \/ ReleaseRead(r) \/ Store(r)
  <2>1. PICK from \in {"awaitRead", "releaseRead", "store"}, to \in {"read", "store", "fetched"} :
             Goes(r, from, to)
    BY <1>3 DEF Within, AcquireRead, ReleaseRead, Store, Acquire, Release, Goes
  <2> QED
    BY <1>0, <2>1, CallGoes
<1>4. CASE Forget(r) \/ AcquireWrite(r)
  <2>1. PICK from \in {"forget", "awaitWrite"}, to \in {"awaitWrite", "write"} : Goes(r, from, to)
    BY <1>4 DEF Within, Forget, AcquireWrite, Acquire, Goes
  <2> QED
    BY <1>0, <2>1, CallGoes
<1>5. CASE NothingToApply(r) /\ Done(r, page[r])
  BY <1>0, <1>5, ReadBackKeeps DEF Within, NothingToApply
<1>6. CASE ReadBack(r) /\ Done(r, page[r])
  BY <1>0, <1>6, ReadBackKeeps DEF Within, ReadBack
<1>7. CASE WriteRefused(r) \/ WriteFails(r)
  <2>1. PICK from \in {"write", "readBack"} : Goes(r, from, "failed")
    BY <1>7 DEF Within, WriteRefused, WriteFails, Release, Goes
  <2> QED
    BY <1>0, <2>1, CallGoes
<1>8. CASE ReleaseWrite(r)
  <2>1. Goes(r, "releaseWrite", "written") /\ UNCHANGED <<got, content>>
    BY <1>8 DEF Within, ReleaseWrite, Release, Goes, Stay
  <2>2. ReadBackOK(r) /\ SlotIsOurs(r) /\ pc[r] = "releaseWrite"
    BY <2>1 DEF AllOK, ResourceOK, Goes
  <2>3. ReadBackOK(r)'
    BY <2>1, <2>2 DEF ReadBackOK, Goes, Stay, work, terraform, owner, Whole, Wanted, Adding,
                      Agrees, Now, Quiet
  <2>4. SlotIsOurs(r)'
    BY <2>1, <2>2 DEF SlotIsOurs, Goes, Stay, work, terraform, owner, Now, Quiet, Ahead
  <2> QED
    BY <1>0, <2>1, <2>3, <2>4, CallGoes
<1> QED
  BY <1>1, <1>2, <1>3, <1>4, <1>5, <1>6, <1>7, <1>8 DEF Within

\* Nobody does anything: all is as it was while no page changes.
LEMMA NobodyMoves ==
    ASSUME AllOK, ClientOK', Stay, UNCHANGED <<stored, pc, page, got>>
    PROVE  AllOK'
<1>1. \A q \in Proc : Unmoved(q) /\ SameCall(q) /\ Grown(q)
  BY NothingGrows DEF Stay, terraform, work, owner, Unmoved, SameCall, Quiet
<1>2. \A q \in Proc : ResourceOK(q)'
  BY <1>1, BystanderKept DEF AllOK, Stay, owner
<1>3. WalkOK'
  BY DEF AllOK, WalkOK, Stay, terraform, work, owner
<1>4. PVIDNamesAVLAN'
  BY DEF AllOK, PVIDNamesAVLAN, Now, Stay
<1> QED
  BY <1>2, <1>3, <1>4 DEF AllOK

\* configTTL passes.
LEMMA ExpiryKeeps ==
    ASSUME AllOK, NEW g \in Page, Expiry(g)
    PROVE  AllOK'
<1>1. Expire(g) /\ Stay
  BY DEF Expiry
<1>2. UNCHANGED <<stored, pc, page, got, content>>
  BY <1>1 DEF Expire, Stay, call
<1>3. ClientOK'
  BY <1>1, <1>2, ClientStep DEF AllOK, Next
<1> QED
  BY <1>1, <1>2, <1>3, NobodyMoves

----------------------------------------------------------------------------
(* The device applies a write.                                             *)

\* A version more of a page: what the device shows now is what it shows.
LEMMA VersionAdded ==
    ASSUME ClientOK, NEW g \in Page, NEW values \in Values(g),
           content' = [content EXCEPT ![g] = Append(content[g], values)],
           stored' = [stored EXCEPT ![g] = stored[g] + 1]
    PROVE  /\ ContentOK' /\ content'[g][stored'[g] + 1] = values
           /\ \A h \in Page \ {g} : content'[h] = content[h] /\ stored'[h] = stored[h]
           /\ \A h \in Page : \A v \in 1..Len(content[h]) :
                v \in 1..Len(content'[h]) /\ content'[h][v] = content[h][v]
           /\ \A v \in 1..Len(content'[g]) : v \in 1..Len(content[g]) \/ content'[g][v] = values
<1> DEFINE before == content[g]
           after == content'[g]
<1>1. before \in Seq(Values(g)) /\ Len(before) = stored[g] + 1 /\ stored[g] \in Nat
  BY NowIs DEF ClientOK, ContentOK
<1>2. after = Append(before, values) /\ \A h \in Page \ {g} : content'[h] = content[h]
  BY DEF ClientOK, ContentOK
<1>3. stored'[g] = stored[g] + 1 /\ \A h \in Page \ {g} : stored'[h] = stored[h]
  BY DEF ClientOK, TypeOK
<1> HIDE DEF before, after
<1>4. /\ after \in Seq(Values(g)) /\ Len(after) = Len(before) + 1
      /\ after[Len(before) + 1] = values /\ Len(before) \in Nat
      /\ \A v \in 1..Len(before) : after[v] = before[v]
  BY <1>1, <1>2, AppendProperties
<1>5. /\ \A v \in 1..Len(before) : v \in 1..Len(after)
      /\ \A v \in 1..Len(after) : v \in 1..Len(before) \/ v = Len(before) + 1
  BY <1>4
<1>6. ContentOK'
  <2>1. content' = [h \in Page |-> content'[h]]
    BY DEF ClientOK, ContentOK
  <2>2. \A h \in Page : content'[h] \in Seq(Values(h)) /\ Len(content'[h]) = stored'[h] + 1
    BY <1>1, <1>2, <1>3, <1>4 DEF ClientOK, ContentOK, after
  <2> QED
    BY <2>1, <2>2 DEF ContentOK
<1> QED
  BY <1>1, <1>2, <1>3, <1>4, <1>5, <1>6 DEF before, after

\* A write adds a version of its page.
LEMMA Applied ==
    ASSUME AllOK, NEW r \in Proc, Effect(r)
    PROVE  /\ page[r] \in Page /\ ToWrite(r, page[r]) /\ pc[r] = "write" /\ pc'[r] = "readBack"
           /\ \A q \in Proc \ {r} : SameCall(q)
           /\ ClientOK' /\ page' = page
           /\ Now(page[r])' \in Effects(r, page[r], Now(page[r]))
           /\ \A g \in Page \ {page[r]} : content'[g] = content[g] /\ stored'[g] = stored[g]
           /\ \A g \in Page : \A v \in 1..Len(content[g]) :
                v \in 1..Len(content'[g]) /\ content'[g][v] = content[g][v]
           /\ \A v \in 1..Len(content'[page[r]]) :
                \/ v \in 1..Len(content[page[r]])
                \/ content'[page[r]][v] = Now(page[r])'
<1> DEFINE g == page[r]
<1>1. PICK values \in Effects(r, g, Now(g)) :
           content' = [content EXCEPT ![g] = Append(content[g], values)]
  BY DEF Effect
<1>2. /\ g \in Page /\ pc[r] = "write" /\ pc'[r] = "readBack" /\ page' = page
      /\ \A q \in Proc \ {r} : SameCall(q)
  BY DEF Effect, Apply, Goto, call, AllOK, ClientOK, TypeOK, SameCall
<1>3. ToWrite(r, g)
  BY <1>2 DEF AllOK, ResourceOK, CallOK, ToWrite, Writing, Forgotten
<1>4. values \in Values(g)
  BY <1>1, <1>2, <1>3, EffectIs DEF AllOK
<1>5. stored' = [stored EXCEPT ![g] = stored[g] + 1]
  BY DEF Effect, Apply
<1>6. /\ ContentOK' /\ content'[g][stored'[g] + 1] = values
      /\ \A h \in Page \ {g} : content'[h] = content[h] /\ stored'[h] = stored[h]
      /\ \A h \in Page : \A v \in 1..Len(content[h]) :
           v \in 1..Len(content'[h]) /\ content'[h][v] = content[h][v]
      /\ \A v \in 1..Len(content'[g]) : v \in 1..Len(content[g]) \/ content'[g][v] = values
  BY <1>1, <1>2, <1>4, <1>5, VersionAdded DEF AllOK
<1>7. ClientOK'
  <2>1. [Next]_vars
    BY DEF Effect, Next
  <2> QED
    BY <1>6, <2>1, TypeStep, VersionStep DEF ClientOK, AllOK
<1>8. Now(g)' = values
  BY <1>2, <1>6 DEF Now
<1> QED
  BY <1>1, <1>2, <1>3, <1>6, <1>7, <1>8

\* A PVID names a VLAN that is there, once its own has been created or before it
\* is deleted.
LEMMA EffectOfVLANs ==
    ASSUME AllOK, NEW r \in Proc, Effect(r)
    PROVE  PVIDNamesAVLAN'
<1> DEFINE g == page[r]
<1>0. /\ g \in Page /\ ToWrite(r, g) /\ Now(g)' \in Effects(r, g, Now(g))
      /\ \A h \in Page \ {g} : content'[h] = content[h] /\ stored'[h] = stored[h]
  BY Applied
<1>1. CASE g # "config"
  <2>1. Now("config")' = Now("config")
    BY <1>0, <1>1, ResourcesAssumption DEF Now
  <2> QED
    BY <2>1 DEF AllOK, PVIDNamesAVLAN
<1>2. CASE g = "config"
  <2> DEFINE values == Now("config")'
             now == Now("config")
  <2>1. /\ \A q \in Proc \ {r} : \A a \in Attrs(q, "config") : values[a] = now[a]
        /\ r = "vlan" => IF op[r] = "delete" THEN values.index = 0 ELSE values.index # 0
        /\ r # "vlan" => \A a \in Attrs(r, "config") :
             values[a] = now[a] \/ values[a] = Wanted(r, "config")[a]
    <3>1. ToWrite(r, "config") /\ "config" \in Page /\ values \in Effects(r, "config", now)
      BY <1>0, <1>2, Applied DEF Now
    <3> QED
      BY <3>1, EffectIs DEF AllOK
  <2>2. now.pvid = VID => now.index # 0
    BY DEF AllOK, PVIDNamesAVLAN
  <2>3. ~Refused(r, "config")
    BY <1>2 DEF Effect
  <2>4. r \in {"vlan", "port"}
    BY <1>0, <1>2, NextWrite, AttrsAre, ResourcesAssumption DEF AllOK
  <2> HIDE DEF values, now
  <2>5. CASE r = "vlan"
    <3>1. values.pvid = now.pvid
      BY <2>1, <2>5, AttrsAre, ResourcesAssumption
    <3>2. op[r] = "delete" => now.pvid # VID
      BY <2>3, <2>5 DEF Refused, now
    <3>3. op[r] # "delete" => values.index # 0
      BY <2>1, <2>5
    <3> QED
      BY <3>1, <3>2, <3>3 DEF PVIDNamesAVLAN, values
  <2>6. CASE r = "port"
    <3>1. values.index = now.index
      BY <2>1, <2>6, AttrsAre, ResourcesAssumption
    <3>2. values.pvid = now.pvid \/ values.pvid = Wanted(r, "config").pvid
      BY <2>1, <2>6, AttrsAre
    <3>3. Wanted(r, "config").pvid = VID => now.index # 0
      BY <2>3, <2>6 DEF Refused, now
    <3> QED
      BY <2>2, <3>1, <3>2, <3>3 DEF PVIDNamesAVLAN, values
  <2> QED
    BY <2>4, <2>5, <2>6
<1> QED
  BY <1>1, <1>2

\* Once the device has applied a write, or a part of it, all is well: the version
\* that was added differs only in what the resource asked for.
LEMMA EffectKeeps ==
    ASSUME AllOK, NEW r \in Proc, Effect(r)
    PROVE  AllOK'
<1> DEFINE g == page[r]
<1>0. /\ g \in Page /\ ToWrite(r, g) /\ pc[r] = "write" /\ pc'[r] = "readBack"
      /\ \A q \in Proc \ {r} : SameCall(q)
      /\ ClientOK' /\ page' = page
      /\ Now(g)' \in Effects(r, g, Now(g))
      /\ \A h \in Page \ {g} : content'[h] = content[h] /\ stored'[h] = stored[h]
  BY Applied
<1>1. UNCHANGED <<terraform, work, disturbed, ownerWrites>> /\ (r # "vlan" => maker' = maker)
  BY DEF Effect
<1>2. WalkOK'
  <2>1. maker' \in {"nobody", "owner", "provider"}
    BY DEF Effect, AllOK, WalkOK
  <2>2. pc'["port"] # "idle" <=> pc["port"] # "idle"
    BY <1>0, ResourcesAssumption DEF SameCall
  <2> QED
    BY <1>1, <2>1, <2>2 DEF WalkOK, AllOK, terraform, work
<1>3. Alone(r)
  <2>1. ASSUME NEW q \in Proc \ {r} PROVE Grown(q)
    <3>1. \A a \in Attrs(q, g) : Now(g)'[a] = Now(g)[a]
      BY <1>0, EffectIs DEF AllOK
    <3>2. \A h \in Page : \A v \in 1..Len(content'[h]) :
             \/ v \in 1..Len(content[h])
             \/ \A a \in Attrs(q, h) : content'[h][v][a] = Now(h)[a]
      BY <1>0, <3>1, Applied
    <3>3. Quiet' => Quiet
      BY <1>1 DEF Quiet, terraform
    <3> QED
      BY <3>2, <3>3, Applied DEF Grown
  <2> QED
    BY <1>0, <1>1, <2>1 DEF Alone, Unmoved, terraform, work
<1>4. ResourceOK(r)'
  <2> USE DEF terraform, work
  <2>0. /\ op[r] # "none" /\ todo[r] # <<>> /\ Head(todo[r]) = Stage("write", g)
        /\ IF r = "vlan" THEN op[r] \in {"create", "delete"} ELSE op[r] \in {"create", "update"}
        /\ \A s \in Range(Tail(todo[r])) : s.page # g
        /\ Ahead(r) = {Stage("write", g)} \cup Range(Tail(todo[r]))
    BY <1>0, NextWrite, HeadAndTail DEF AllOK, ToWrite, WalkOK, Ahead
  <2>1. TodoOK(r)'
    BY <1>1 DEF AllOK, ResourceOK, TodoOK, StageOK, StageFits, Ahead
  <2>2. CallOK(r)'
    BY <1>0, <1>1, <2>0 DEF CallOK, Writing, Forgotten
  <2>3. ModelTyped(r)' /\ StateTyped(r)'
    BY <1>1 DEF AllOK, ResourceOK, ModelTyped, StateTyped, Fresh, Unread, Remains, Ahead, Numbers
  <2>4. ModelShows(r)'
    <3> SUFFICES ASSUME Quiet, op[r] \notin {"none", "delete"},
                        NEW h \in Page, Fresh(r, h), ~Underway(r, h)', NEW a \in Attrs(r, h)
                 PROVE  \/ model[r][a] = Now(h)'[a]
                        \/ a = "pps" /\ ~Remains(r, h) /\ Now(h)'.storm # 1
      BY <1>1 DEF ModelShows, Fresh, Unread, Remains, Ahead, Quiet
    <3>1. h # g /\ ~Underway(r, h)
      BY <1>0 DEF Underway
    <3>2. Now(h)' = Now(h)
      BY <1>0, <3>1 DEF Now
    <3> QED
      BY <3>1, <3>2 DEF AllOK, ResourceOK, ModelShows
  <2>5. VersionsAgree(r)'
    <3> SUFFICES ASSUME Quiet, NEW h \in Page, Stage("read", h) \in Ahead(r),
                        NEW v \in 1..Len(content'[h]), NEW a \in Attrs(r, h)
                 PROVE  content'[h][v][a] = Now(h)'[a]
      BY <1>1 DEF VersionsAgree, Agrees, Ahead, Quiet
    <3>1. h # g
      <4>1. Stage("read", h) # Stage("write", g)
        BY DEF Stage
      <4>2. Stage("read", h).page = h
        BY DEF Stage
      <4> QED
        BY <2>0, <4>1, <4>2
    <3>2. content'[h] = content[h] /\ Now(h)' = Now(h)
      BY <1>0, <3>1 DEF Now
    <3> QED
      BY <3>2 DEF AllOK, ResourceOK, VersionsAgree, Agrees
  <2>6. ReadBackOK(r)'
    BY <1>0 DEF ReadBackOK
  <2>7. ModelConfigured(r)'
    BY <1>1 DEF AllOK, ResourceOK, ModelConfigured, AsConfigured, Remains, Ahead
  <2>8. NameWritten(r)'
    <3> SUFFICES ASSUME NameWritten(r)!1 PROVE Now("info")'.name = config[r].name
      BY <1>1 DEF NameWritten, Unread, Ahead, Quiet
    <3>1. g # "info" /\ "info" \in Page
      BY <2>0, ResourcesAssumption
    <3>2. Now("info")' = Now("info")
      BY <1>0, <3>1 DEF Now
    <3> QED
      BY <3>2 DEF AllOK, ResourceOK, NameWritten
  <2>9. StateShows(r)' /\ StateConfigured(r)'
    BY <1>1, <2>0 DEF StateShows, StateConfigured
  <2>10. SlotTaken(r)'
    BY <1>1, <2>0 DEF SlotTaken
  <2>11. SlotIsOurs(r)'
    BY <1>1 DEF SlotIsOurs, Effect
  <2> QED
    BY <2>1, <2>2, <2>3, <2>4, <2>5, <2>6, <2>7, <2>8, <2>9, <2>10, <2>11 DEF ResourceOK
<1>5. \A q \in Proc \ {r} : ResourceOK(q)'
  BY <1>0, <1>3, OthersKept
<1>6. PVIDNamesAVLAN'
  BY EffectOfVLANs
<1> QED
  BY <1>0, <1>2, <1>4, <1>5, <1>6 DEF AllOK

----------------------------------------------------------------------------
(* An operation ends.                                                      *)

\* No call of r is under way any more, and the device is left alone.
Ends(r) ==
    /\ pc' = [pc EXCEPT ![r] = "idle"]
    /\ UNCHANGED <<stored, page, got, content, owner>>

\* Nothing is left to do of the operation of r.
Ceases(r) ==
    /\ op' = [op EXCEPT ![r] = "none"]
    /\ todo' = [todo EXCEPT ![r] = <<>>]
    /\ model' = [model EXCEPT ![r] = <<>>]
    /\ failed' \in {failed, failed \cup {r}}
    /\ UNCHANGED <<config, walk, runs>>

\* The other resources do not take part in the end of a call.
LEMMA EndsAlone ==
    ASSUME AllOK, ClientOK', NEW r \in Proc, Ends(r), UNCHANGED <<walk, config>>,
           \A q \in Proc \ {r} : Unmoved(q)
    PROVE  /\ PVIDNamesAVLAN' /\ pc'[r] = "idle" /\ \A q \in Proc \ {r} : SameCall(q)
           /\ \A g \in Page : Now(g)' = Now(g)
           /\ \A q \in Proc \ {r} : ResourceOK(q)'
<1>1. pc'[r] = "idle" /\ \A q \in Proc \ {r} : SameCall(q)
  BY DEF Ends, SameCall, AllOK, ClientOK, TypeOK
<1>2. \A g \in Page : Now(g)' = Now(g)
  BY DEF Ends, Now
<1>3. PVIDNamesAVLAN'
  BY DEF Ends, Now, AllOK, PVIDNamesAVLAN
<1>4. Quiet' => Quiet
  BY DEF Ends, owner, Quiet
<1>5. \A q \in Proc \ {r} : Grown(q)
  BY <1>4, NothingGrows DEF Ends
<1>6. Alone(r)
  BY <1>1, <1>5 DEF Alone, Ends, owner
<1> QED
  BY <1>1, <1>2, <1>3, <1>6, OthersKept

\* What is recorded decides whether all is well.
LEMMA OperationOver ==
    ASSUME AllOK, ClientOK', NEW r \in Proc, Ends(r), Ceases(r), op[r] # "none",
           tf' = [q \in Proc |-> tf'[q]], \A q \in Proc \ {r} : tf'[q] = tf[q],
           StateTyped(r)', StateShows(r)', StateConfigured(r)', SlotTaken(r)'
    PROVE  AllOK'
<1>0. /\ op'[r] = "none" /\ todo'[r] = <<>> /\ Ahead(r)' = {}
      /\ \A q \in Proc \ {r} : op'[q] = op[q] /\ todo'[q] = todo[q] /\ model'[q] = model[q]
  BY NothingAhead DEF Ceases, AllOK, WalkOK, Ahead
<1>1. \A q \in Proc \ {r} : Unmoved(q)
  BY <1>0 DEF Unmoved, Ceases, Ends, owner
<1>2. /\ PVIDNamesAVLAN' /\ pc'[r] = "idle" /\ \A q \in Proc \ {r} : SameCall(q) /\ ResourceOK(q)'
  BY <1>1, EndsAlone DEF Ceases
<1>3. WalkOK'
  <2>1. op' \in [Proc -> OpsOf[walk]] /\ todo' \in [Proc -> Seq(Stages)]
        /\ model' = [q \in Proc |-> model'[q]] /\ failed' \subseteq Proc
    <3>1. "none" \in OpsOf[walk]
      BY DEF AllOK, WalkOK, OpsOf
    <3> QED
      BY <3>1, NothingAhead DEF AllOK, WalkOK, Ceases
  <2>2. ASSUME walk = "apply", pc'["port"] # "idle" PROVE op'["vlan"] = "none" /\ "vlan" \notin failed'
    <3>1. r # "port" /\ pc["port"] # "idle"
      BY <1>2, <2>2, ResourcesAssumption DEF SameCall
    <3>2. op["vlan"] = "none" /\ "vlan" \notin failed
      BY <2>2, <3>1 DEF AllOK, WalkOK
    <3>3. r # "vlan" /\ "vlan" \in Proc
      BY <3>2, ResourcesAssumption
    <3> QED
      BY <1>0, <3>2, <3>3 DEF Ceases
  <2> QED
    BY <2>1, <2>2 DEF AllOK, WalkOK, Ceases, Ends, owner
<1>4. ResourceOK(r)'
  <2>1. TodoOK(r)' /\ CallOK(r)' /\ ReadBackOK(r)'
    BY <1>0, <1>2, NothingAhead DEF TodoOK, CallOK, ReadBackOK
  <2>2. ModelTyped(r)' /\ ModelShows(r)' /\ ModelConfigured(r)' /\ NameWritten(r)' /\ SlotIsOurs(r)'
    BY <1>0 DEF ModelTyped, ModelShows, ModelConfigured, NameWritten, SlotIsOurs
  <2>3. VersionsAgree(r)'
    BY <1>0 DEF VersionsAgree
  <2> QED
    BY <2>1, <2>2, <2>3 DEF ResourceOK
<1> QED
  BY <1>2, <1>3, <1>4 DEF AllOK

\* Nothing is recorded of an operation that ends in an error.
LEMMA GiveUpKeeps ==
    ASSUME AllOK, ClientOK', NEW r \in Proc, Ends(r), GiveUp(r), op[r] # "none"
    PROVE  AllOK'
<1>1. Ceases(r) /\ r \in failed' /\ tf' = tf
  BY DEF Ceases, GiveUp
<1>2. op'[r] = "none" /\ todo'[r] = <<>>
  BY <1>1 DEF Ceases, AllOK, WalkOK
<1>3. StateTyped(r)'
  BY <1>1 DEF StateTyped, AllOK, ResourceOK, Numbers
<1>4. StateShows(r)' /\ StateConfigured(r)' /\ SlotTaken(r)'
  BY <1>1, <1>2 DEF StateShows, StateConfigured, SlotTaken
<1>5. tf' = [q \in Proc |-> tf'[q]]
  BY <1>1 DEF AllOK, WalkOK
<1> QED
  BY <1>1, <1>3, <1>4, <1>5, OperationOver

\* A resource that has something to do, or waits for an answer, has an operation.
LEMMA BusyHasOperation ==
    ASSUME AllOK, NEW r \in Proc, todo[r] # <<>> \/ pc[r] # "idle"
    PROVE  op[r] # "none" /\ todo[r] # <<>>
  BY DEF AllOK, ResourceOK, TodoOK, CallOK

\* A read that fails, or goes on after the VLAN table.
LEMMA ReadBreaksKeeps ==
    ASSUME AllOK, NEW r \in Proc, ReadBreaks(r)
    PROVE  AllOK'
<1>1. (ReadVLANTable(r) \/ ReadFails(r)) /\ UNCHANGED <<stored, content, page, got, owner>>
  BY DEF ReadBreaks, ReadVLANTable, ReadFails, Release, call
<1>2. ClientOK'
  BY <1>1, ClientStep DEF AllOK, Next
<1>3. CASE pc'[r] = "idle"
  <2>1. pc' = [pc EXCEPT ![r] = "idle"] /\ pc[r] # "idle"
    BY <1>1, <1>3 DEF ReadVLANTable, ReadFails, Release, Goto, AllOK, ClientOK, TypeOK
  <2>2. Ends(r) /\ GiveUp(r)
    BY <1>1, <1>3, <2>1 DEF Ends, ReadBreaks
  <2> QED
    BY <1>2, <2>1, <2>2, BusyHasOperation, GiveUpKeeps
<1>4. CASE pc'[r] # "idle"
  <2>1. pc[r] = "table" /\ pc' = [pc EXCEPT ![r] = "awaitRead"]
    BY <1>1, <1>4 DEF ReadVLANTable, ReadFails, Release, Goto, AllOK, ClientOK, TypeOK
  <2>2. Goes(r, "table", "awaitRead")
    BY <1>1, <1>4, <2>1 DEF Goes, Stay, ReadBreaks
  <2> QED
    BY <1>2, <2>2, CallGoes DEF Writing, Forgotten, After
<1> QED
  BY <1>3, <1>4

\* A write that failed ends the operation.
LEMMA FailsKeeps ==
    ASSUME AllOK, NEW r \in Proc, Fails(r)
    PROVE  AllOK'
<1>1. /\ pc[r] # "idle" /\ Ends(r) /\ GiveUp(r)
  BY DEF Fails, Return, Goto, Ends, call
<1>2. ClientOK'
  <2>1. [Next]_vars
    BY DEF Fails, Next
  <2> QED
    BY <1>1, <2>1, ClientStep DEF AllOK, Ends
<1> QED
  BY <1>1, <1>2, BusyHasOperation, GiveUpKeeps

\* No call is made: the resource has not begun one.
LEMMA IdleEnds ==
    ASSUME AllOK, NEW r \in Proc, pc[r] = "idle", UNCHANGED <<cacheVars, content, owner>>
    PROVE  Ends(r) /\ ClientOK'
<1>1. UNCHANGED vars
  BY DEF cacheVars
<1>2. Ends(r)
  BY <1>1 DEF Ends, vars, AllOK, ClientOK, TypeOK
<1> QED
  BY <1>1, <1>2, ClientStep DEF AllOK, vars

\* The VLAN table or the login page cannot be read: the operation ends.
LEMMA UnreadableKeeps ==
    ASSUME AllOK, NEW r \in Proc, Unreadable(r)
    PROVE  AllOK'
<1>1. GiveUp(r) /\ pc[r] = "idle" /\ UNCHANGED <<cacheVars, content, owner>> /\ op[r] # "none"
  BY DEF Unreadable, Unlocked, At
<1> QED
  BY <1>1, IdleEnds, GiveUpKeeps

\* A port that waits for its VLAN makes no call.
LEMMA SkippedKeeps ==
    ASSUME AllOK, NEW r \in Proc, Skipped(r)
    PROVE  AllOK'
<1>1. GiveUp(r) /\ pc[r] = "idle" /\ UNCHANGED <<cacheVars, content, owner>> /\ op[r] # "none"
  BY DEF Skipped, AllOK, WalkOK
<1> QED
  BY <1>1, IdleEnds, GiveUpKeeps

\* What a finished operation records.
LEMMA RecordKeeps ==
    ASSUME AllOK, NEW r \in Proc, Record(r)
    PROVE  AllOK'
<1>0. /\ op[r] # "none" /\ todo[r] = <<>> /\ UNCHANGED <<config, walk, runs, failed, todo>>
      /\ UNCHANGED <<cacheVars, content, owner>>
      /\ tf'[r] = IF op[r] = "delete" THEN NoState ELSE model[r]
      /\ \A q \in Proc \ {r} : tf'[q] = tf[q]
      /\ op' = [op EXCEPT ![r] = "none"] /\ model' = [model EXCEPT ![r] = <<>>]
      /\ tf' = [q \in Proc |-> tf'[q]]
  BY DEF Record, AllOK, WalkOK
<1>1. pc[r] = "idle" /\ Ahead(r) = {}
  BY <1>0, BusyHasOperation, NothingAhead DEF AllOK, ResourceOK, CallOK, Ahead
<1>2. Ends(r) /\ ClientOK' /\ \A g \in Page : Now(g)' = Now(g)
  BY <1>0, <1>1, IdleEnds DEF Ends, Now
<1>3. Ceases(r)
  <2>1. todo' = [todo EXCEPT ![r] = <<>>]
    BY <1>0 DEF AllOK, WalkOK
  <2> QED
    BY <1>0, <2>1 DEF Ceases
<1>4. \A g \in Page : Fresh(r, g) /\ ~Remains(r, g) /\ ~Underway(r, g)
  BY <1>1 DEF Fresh, Unread, Remains, Underway
<1>5. /\ "force" \in DOMAIN model[r] /\ Numbers(model[r])
      /\ DOMAIN model[r] = Attributes(r) \cup {"force"}
  <2>1. ModelTyped(r)
    BY DEF AllOK, ResourceOK
  <2> QED
    BY <1>0, <1>4, <2>1 DEF ModelTyped, Attributes
<1>6. StateTyped(r)'
  BY <1>0, <1>5 DEF StateTyped
<1>7. op[r] \in {"create", "update"} <=> walk = "apply"
  BY <1>0, OpIs DEF AllOK
<1>8. StateShows(r)'
  <2> SUFFICES ASSUME Quiet, op[r] # "delete", NEW g \in Page, NEW a \in Attrs(r, g),
                      a = "pps" => Now(g).storm = 1
               PROVE  model[r][a] = Now(g)[a]
    BY <1>0, <1>2 DEF StateShows, Quiet, owner
  <2> QED
    BY <1>0, <1>4 DEF AllOK, ResourceOK, ModelShows
<1>9. StateConfigured(r)'
  <2> SUFFICES ASSUME walk = "apply"
               PROVE  /\ model[r] # NoState
                      /\ \A a \in DOMAIN config[r] \ {"force"} : AsConfigured(r, a, model[r])
    BY <1>0, <1>7 DEF StateConfigured, AsConfigured, owner
  <2>1. model[r] # NoState
    <3>1. DOMAIN NoState = {}
      BY DEF NoState
    <3> QED
      BY <1>5, <3>1
  <2>2. ASSUME NEW a \in DOMAIN config[r] \ {"force"} PROVE AsConfigured(r, a, model[r])
    <3>1. PICK g \in Page : a \in Attrs(r, g)
      BY ConfigIs DEF AllOK, Attributes
    <3> QED
      BY <1>4, <1>7, <3>1 DEF AllOK, ResourceOK, ModelConfigured
  <2> QED
    BY <2>1, <2>2
<1>10. SlotTaken(r)'
  <2>1. r = "vlan" /\ Quiet /\ walk # "destroy" => Now("config").index # 0
    BY <1>0 DEF AllOK, ResourceOK, SlotTaken
  <2>2. "config" \in Page
    BY ResourcesAssumption
  <2> QED
    BY <1>0, <1>2, <2>1, <2>2 DEF SlotTaken, Quiet, owner
<1> QED
  BY <1>0, <1>2, <1>3, <1>6, <1>8, <1>9, <1>10, OperationOver

----------------------------------------------------------------------------
(* An operation goes on.                                                   *)

\* These values are the model's, but for the attributes of a page.
Learns(r, g, values) ==
    /\ Numbers(values)
    /\ DOMAIN model[r] \subseteq DOMAIN values
    /\ DOMAIN values \subseteq DOMAIN model[r] \cup Attrs(r, g)
    /\ \A a \in DOMAIN model[r] \ Attrs(r, g) : values[a] = model[r][a]

\* The stages that are left once the next one is done.
Later(r) == Range(Tail(todo[r]))
Rewritten(r, g) == Stage("write", g) \in Later(r)

\* The model has what it should have of the page, now that a stage is done.
Learned(r, g, values) ==
    /\ g # "config" \/ ~Rewritten(r, g) => Attrs(r, g) \subseteq DOMAIN values
    /\ Quiet /\ op[r] # "delete" /\ (g # "config" \/ ~Rewritten(r, g)) =>
         \A a \in Attrs(r, g) :
             \/ values[a] = Now(g)[a]
             \/ a = "pps" /\ ~Rewritten(r, g) /\ Now(g).storm # 1
    /\ op[r] \in {"create", "update"} /\ ~Rewritten(r, g) =>
         \A a \in Attrs(r, g) \cap DOMAIN config[r] : AsConfigured(r, a, values)

\* After a stage what is left of its page is at most the write.
LEMMA LaterIs ==
    ASSUME AllOK, NEW r \in Proc, todo[r] # <<>>
    PROVE  /\ Tail(todo[r]) \in Seq(Stages) /\ InOrder(Tail(todo[r]))
           /\ Ahead(r) = {Head(todo[r])} \cup Later(r) /\ Later(r) \subseteq Stages
           /\ \A s \in Later(r) : s.page = Subject(r) =>
                Head(todo[r]).do # "write" /\ s = Stage("write", Subject(r))
<1>1. /\ Tail(todo[r]) \in Seq(Stages) /\ InOrder(Tail(todo[r]))
      /\ Head(todo[r]) \in Stages /\ Range(todo[r]) = {Head(todo[r])} \cup Range(Tail(todo[r]))
      /\ \A s \in Range(Tail(todo[r])) : s.page = Head(todo[r]).page =>
                Head(todo[r]).do # "write" /\ s.do = "write"
  BY StageDone DEF AllOK, WalkOK, ResourceOK, TodoOK
<1>2. Later(r) \subseteq Stages
  BY <1>1, RangeEquality DEF Later
<1> QED
  BY <1>1, <1>2 DEF Later, Ahead, Subject, Stage, Stages

\* The next stage is done, and its page has been learned.
LEMMA Advanced ==
    ASSUME AllOK, ClientOK', NEW r \in Proc, todo[r] # <<>>, NEW values, Advance(r, values),
           Ends(r), UNCHANGED terraform,
           Underway(r, Subject(r)) \/ pc[r] = "idle" \/ pc[r] \notin After,
           Learns(r, Subject(r), values), Learned(r, Subject(r), values),
           r = "vlan" /\ Quiet /\ Later(r) = {} /\ op[r] # "delete" => Now("config").index # 0,
           SlotIsOurs(r)'
    PROVE  AllOK'
<1>g. PICK g \in Page : g = Subject(r)
  BY NextIs DEF Subject
<1>0. /\ model'[r] = values /\ todo'[r] = Tail(todo[r]) /\ op' = op /\ Ahead(r)' = Later(r)
      /\ \A q \in Proc \ {r} : model'[q] = model[q] /\ todo'[q] = todo[q]
      /\ op[r] # "none"
  BY BusyHasOperation DEF Advance, AllOK, WalkOK, Ahead, Later
<1>1. \A q \in Proc \ {r} : Unmoved(q)
  BY <1>0 DEF Unmoved, Ends, owner, terraform
<1>2. /\ PVIDNamesAVLAN' /\ pc'[r] = "idle" /\ \A q \in Proc \ {r} : SameCall(q) /\ ResourceOK(q)'
      /\ \A h \in Page : Now(h)' = Now(h)
  BY <1>1, EndsAlone DEF terraform
<1>3. g \in Page /\ Head(todo[r]) = Stage(Head(todo[r]).do, g) /\ Head(todo[r]) \in Stages
  BY <1>g, NextIs DEF Subject
<1>4. /\ Tail(todo[r]) \in Seq(Stages) /\ InOrder(Tail(todo[r]))
      /\ Ahead(r) = {Head(todo[r])} \cup Later(r)
      /\ \A s \in Later(r) : s.page = g => Head(todo[r]).do # "write" /\ s = Stage("write", g)
  BY <1>g, LaterIs
<1>5. WalkOK'
  <2>1. todo' \in [Proc -> Seq(Stages)] /\ model' = [q \in Proc |-> model'[q]]
    BY <1>4 DEF Advance, AllOK, WalkOK
  <2>2. pc'["port"] # "idle" => pc["port"] # "idle"
    BY <1>2, ResourcesAssumption DEF SameCall
  <2> QED
    BY <1>0, <2>1, <2>2 DEF AllOK, WalkOK, Ends, owner, terraform
<1>6. \A h \in Page \ {g} : (Unread(r, h)' <=> Unread(r, h)) /\ (Remains(r, h)' <=> Remains(r, h))
                            /\ (Fresh(r, h)' <=> Fresh(r, h))
  <2>1. Head(todo[r]).page = g
    BY <1>3 DEF Stage
  <2>2. ASSUME NEW h \in Page \ {g}, NEW s, s.page = h PROVE s \in Ahead(r)' <=> s \in Ahead(r)
    BY <1>0, <1>4, <2>1, <2>2
  <2>3. ASSUME NEW h \in Page \ {g}
        PROVE (Unread(r, h)' <=> Unread(r, h)) /\ (Remains(r, h)' <=> Remains(r, h))
    BY <2>2 DEF Unread, Remains
  <2> QED
    BY <2>3 DEF Fresh
<1>7. ~Unread(r, g)' /\ (Remains(r, g)' <=> Rewritten(r, g))
      /\ (Fresh(r, g)' <=> g # "config" \/ ~Rewritten(r, g))
  <2>1. ~Unread(r, g)'
    BY <1>0, <1>4 DEF Unread, Looks, Stage
  <2>2. Remains(r, g)' <=> Rewritten(r, g)
    BY <1>0, <1>4 DEF Remains, Rewritten, Stage
  <2> QED
    BY <2>1, <2>2 DEF Fresh
<1>8. ASSUME NEW h \in Page \ {g}, NEW a \in Attrs(r, h)
      PROVE  a \notin Attrs(r, g) /\ (a \in DOMAIN model[r] => a \in DOMAIN values /\ values[a] = model[r][a])
  BY <1>g, AttrsDiffer DEF Learns
<1>9. TodoOK(r)'
  <2>1. ASSUME NEW s \in Later(r) PROVE StageOK(r, s)'
    <3>1. StageOK(r, s) /\ s \in Stages
      BY <1>4, LaterIs DEF AllOK, ResourceOK, TodoOK
    <3>2. Stage("write", s.page) \in Ahead(r) /\ s.do # "write" => Stage("write", s.page) \in Later(r)
      <4>1. CASE Head(todo[r]) = Stage("write", s.page)
        <5>1. s.page = g /\ Head(todo[r]).do = "write"
          BY <1>3, <4>1 DEF Stage
        <5> QED
          BY <1>4, <5>1
      <4>2. CASE Head(todo[r]) # Stage("write", s.page)
        BY <1>4, <4>2
      <4> QED
        BY <4>1, <4>2
    <3> QED
      BY <1>0, <3>1, <3>2 DEF StageOK, StageFits
  <2> QED
    BY <1>0, <1>4, <2>1 DEF TodoOK
<1>10. CallOK(r)' /\ ReadBackOK(r)'
  BY <1>2 DEF CallOK, ReadBackOK
<1>11. ModelTyped(r)'
  <2>1. ModelTyped(r)
    BY DEF AllOK, ResourceOK
  <2>2. ASSUME NEW h \in Page, Fresh(r, h)' PROVE Attrs(r, h) \subseteq DOMAIN values
    <3>1. CASE h = g
      BY <1>g, <1>7, <2>2, <3>1 DEF Learned
    <3>2. CASE h # g
      BY <1>0, <1>6, <1>8, <2>1, <2>2, <3>2 DEF ModelTyped
    <3> QED
      BY <3>1, <3>2
  <2>3. Attrs(r, g) \subseteq Attributes(r)
    BY <1>3, AttributesAre
  <2> QED
    BY <1>g, <1>0, <2>1, <2>2, <2>3 DEF ModelTyped, Learns
<1>12. ModelShows(r)'
  <2> SUFFICES ASSUME Quiet, op[r] \notin {"none", "delete"},
                      NEW h \in Page, Fresh(r, h)', NEW a \in Attrs(r, h)
               PROVE  \/ values[a] = Now(h)[a]
                      \/ a = "pps" /\ ~Remains(r, h)' /\ Now(h).storm # 1
    BY <1>0, <1>2 DEF ModelShows, Quiet, terraform, Ends, owner
  <2>1. CASE h = g
    BY <1>g, <1>7, <2>1 DEF Learned
  <2>2. CASE h # g
    <3>1. ~Underway(r, h)
      BY <1>g, <2>2 DEF Underway, After
    <3>2. Fresh(r, h) /\ (Remains(r, h)' <=> Remains(r, h))
      BY <1>6, <2>2
    <3>3. Attrs(r, h) \subseteq DOMAIN model[r]
      BY <1>0, <3>2 DEF AllOK, ResourceOK, ModelTyped
    <3>4. values[a] = model[r][a]
      BY <1>8, <2>2, <3>3
    <3> QED
      BY <3>1, <3>2, <3>4 DEF AllOK, ResourceOK, ModelShows
  <2> QED
    BY <2>1, <2>2
<1>13. VersionsAgree(r)'
  <2> SUFFICES ASSUME Quiet, NEW h \in Page, Stage("read", h) \in Ahead(r),
                      NEW v \in 1..Len(content[h]), NEW a \in Attrs(r, h)
               PROVE  content[h][v][a] = Now(h)[a]
    BY <1>0, <1>2, <1>4 DEF VersionsAgree, Agrees, Quiet, terraform, Ends, owner
  <2> QED
    BY DEF AllOK, ResourceOK, VersionsAgree, Agrees
<1>14. ModelConfigured(r)'
  <2> SUFFICES ASSUME op[r] \in {"create", "update"} PROVE ModelConfigured(r)'
    BY <1>0 DEF ModelConfigured
  <2>0. ModelConfigured(r) /\ ModelTyped(r)
    BY DEF AllOK, ResourceOK
  <2>1. values.force = config[r].force
    <3>1. "force" \in DOMAIN model[r] /\ "force" \notin Attrs(r, g)
      BY <1>0, <1>3, <2>0, AttrsDiffer DEF ModelTyped
    <3> QED
      BY <1>g, <2>0, <3>1 DEF Learns, ModelConfigured
  <2>2. ASSUME NEW h \in Page, ~Remains(r, h)', NEW a \in Attrs(r, h) \cap DOMAIN config[r]
        PROVE  AsConfigured(r, a, values)
    <3>1. CASE h = g
      BY <1>g, <1>7, <2>2, <3>1 DEF Learned
    <3>2. CASE h # g
      <4>1. ~Remains(r, h) /\ Fresh(r, h)
        BY <1>6, <2>2, <3>2 DEF Fresh, Unread, Remains
      <4>2. Attrs(r, h) \subseteq DOMAIN model[r] /\ AsConfigured(r, a, model[r])
        BY <1>0, <2>0, <2>2, <4>1 DEF ModelTyped, ModelConfigured
      <4>3. values[a] = model[r][a] /\ (a = "router" => "snoop" \in Attrs(r, h))
        BY <1>8, <2>2, <3>2, <4>2, AttrsAre, ResourcesAssumption
      <4>4. a = "router" => values.snoop = model[r].snoop
        BY <1>8, <3>2, <4>2, <4>3
      <4> QED
        BY <4>2, <4>3, <4>4 DEF AsConfigured
    <3> QED
      BY <3>1, <3>2
  <2> QED
    BY <1>0, <2>1, <2>2 DEF ModelConfigured, AsConfigured, terraform, Ends, owner
<1>15. NameWritten(r)'
  <2> SUFFICES ASSUME Quiet, op[r] \in {"create", "update"}, "name" \in DOMAIN config[r],
                      Unread(r, "info")', Stage("write", "info") \notin Ahead(r)'
               PROVE  Now("info").name = config[r].name
    BY <1>0, <1>2, ResourcesAssumption DEF NameWritten, Quiet, terraform, Ends, owner
  <2>1. g # "info"
    BY <1>7
  <2>2. Unread(r, "info") /\ Stage("write", "info") \notin Ahead(r)
    <3>1. Head(todo[r]) # Stage("write", "info")
      BY <1>3, <2>1 DEF Stage
    <3> QED
      BY <1>0, <1>4, <1>6, <2>1, <3>1, ResourcesAssumption
  <2> QED
    BY <2>2 DEF AllOK, ResourceOK, NameWritten
<1>16. StateTyped(r)' /\ StateShows(r)' /\ StateConfigured(r)'
  BY <1>0 DEF AllOK, ResourceOK, StateTyped, StateShows, StateConfigured, Numbers, terraform
<1>17. SlotTaken(r)'
  <2> SUFFICES ASSUME r = "vlan", Quiet, walk # "destroy", op[r] = "update" \/ Tail(todo[r]) = <<>>
               PROVE  Now("config").index # 0
    BY <1>0, <1>2, ResourcesAssumption DEF SlotTaken, Quiet, terraform, Ends, owner
  <2>1. CASE op[r] = "update"
    BY <2>1 DEF AllOK, ResourceOK, SlotTaken
  <2>2. CASE Tail(todo[r]) = <<>>
    <3>1. Later(r) = {} /\ op[r] # "delete"
      BY <1>0, <2>2, NothingAhead, OpIs DEF Later, AllOK
    <3> QED
      BY <3>1
  <2> QED
    BY <2>1, <2>2
<1>18. ResourceOK(r)'
  BY <1>9, <1>10, <1>11, <1>12, <1>13, <1>14, <1>15, <1>16, <1>17 DEF ResourceOK
<1> QED
  BY <1>2, <1>5, <1>18 DEF AllOK

\* Adding values of a page's attributes to the model is learning them.
LEMMA AddingLearns ==
    ASSUME AllOK, NEW r \in Proc, op[r] # "none", NEW g \in Page, NEW new \in [Attrs(r, g) -> Int]
    PROVE  LET values == Adding(new, model[r])
           IN  /\ Learns(r, g, values) /\ Attrs(r, g) \subseteq DOMAIN values
               /\ \A a \in Attrs(r, g) : values[a] = new[a]
<1> DEFINE before == model[r]
           values == Adding(new, before)
<1>1. DOMAIN new = Attrs(r, g) /\ \A a \in DOMAIN new : new[a] \in Int
  OBVIOUS
<1>2. Numbers(before)
  BY DEF AllOK, ResourceOK, ModelTyped
<1> HIDE DEF before, values
<1>3. /\ DOMAIN values = Attrs(r, g) \cup DOMAIN before
      /\ \A a \in Attrs(r, g) : values[a] = new[a]
      /\ \A a \in DOMAIN before \ Attrs(r, g) : values[a] = before[a]
  <2>1. /\ DOMAIN values = DOMAIN new \cup DOMAIN before
        /\ \A a \in DOMAIN new : values[a] = new[a]
        /\ \A a \in DOMAIN before \ DOMAIN new : values[a] = before[a]
    BY AddingIs DEF values
  <2> QED
    BY <1>1, <2>1
<1>4. Numbers(values)
  BY <1>1, <1>2, <1>3 DEF Numbers
<1> QED
  BY <1>3, <1>4 DEF Learns, before, values

\* So is copying a page.
LEMMA CopiedLearns ==
    ASSUME AllOK, NEW r \in Proc, op[r] # "none", NEW g \in Page, NEW shown \in Values(g)
    PROVE  LET values == Copied(r, g, shown)
           IN  /\ Learns(r, g, values) /\ Attrs(r, g) \subseteq DOMAIN values
               /\ \A a \in Attrs(r, g) : values[a] = shown[a]
<1> DEFINE new == Restrict(shown, Attrs(r, g))
<1>1. new \in [Attrs(r, g) -> Int] /\ \A a \in Attrs(r, g) : new[a] = shown[a]
  BY PageShows DEF Restrict
<1> HIDE DEF new
<1>2. Copied(r, g, shown) = Adding(new, model[r])
  BY DEF Copied, new
<1> QED
  BY <1>1, <1>2, AddingLearns

\* Keeping the model as it is is learning nothing.
LEMMA SameLearns ==
    ASSUME AllOK, NEW r \in Proc, op[r] # "none", NEW g \in Page
    PROVE  Learns(r, g, model[r])
  BY DEF Learns, AllOK, ResourceOK, ModelTyped

\* What the next stage is.
LEMMA AtIs ==
    ASSUME AllOK, NEW r \in Proc, NEW do, At(r, do)
    PROVE  /\ op[r] # "none" /\ todo[r] # <<>> /\ Subject(r) \in Page
           /\ Head(todo[r]) = Stage(do, Subject(r)) /\ Stage(do, Subject(r)) \in Ahead(r)
           /\ StageOK(r, Stage(do, Subject(r)))
           /\ Stage(do, Subject(r)).do = do /\ Stage(do, Subject(r)).page = Subject(r)
<1>1. op[r] # "none" /\ todo[r] # <<>> /\ Head(todo[r]).do = do
  BY DEF At
<1>2. Subject(r) \in Page /\ Head(todo[r]) = Stage(do, Subject(r))
  BY <1>1, NextIs DEF Subject
<1>3. Head(todo[r]) \in Ahead(r)
  BY <1>1, HeadAndTail DEF AllOK, WalkOK, Ahead
<1> QED
  BY <1>1, <1>2, <1>3 DEF AllOK, ResourceOK, TodoOK, Stage

\* A write that has nothing to say is left out: the device has what is wanted,
\* but for a storm rate that does not count.
LEMMA SkipWriteKeeps ==
    ASSUME AllOK, NEW r \in Proc, SkipWrite(r)
    PROVE  AllOK'
<1>g. PICK g \in Page : g = Subject(r)
  BY AtIs DEF SkipWrite
<1> DEFINE want == Wanted(r, g)
           values == Adding(want, model[r])
<1>1. /\ At(r, "write") /\ pc[r] = "idle" /\ ~Due(r)
      /\ Advance(r, values) /\ UNCHANGED <<cacheVars, terraform, content, owner>>
  BY <1>g DEF SkipWrite
<1>2. /\ op[r] # "none" /\ todo[r] # <<>> /\ Head(todo[r]) = Stage("write", g) /\ ToWrite(r, g)
  BY <1>1, <1>g, AtIs DEF ToWrite
<1>3. g # "config" /\ ~Differs(r, g)
  BY <1>1, <1>g DEF Due
<1>4. r # "vlan" /\ op[r] \in {"create", "update"} /\ Fresh(r, g) /\ Remains(r, g)
  BY <1>2, <1>3, NextWrite, AttrsAre, ResourcesAssumption DEF AllOK
<1>5. want \in [Attrs(r, g) -> Int] /\ \A a \in Attrs(r, g) \cap DOMAIN config[r] : want[a] = config[r][a]
  BY <1>2, <1>4, WantedIs DEF AllOK
<1>6. \A a \in Attrs(r, g) : want[a] # model[r][a] => a = "pps" /\ want.storm # 1
  BY <1>3 DEF Differs, Moved
<1> HIDE DEF want, values
<1>7. /\ Learns(r, g, values) /\ Attrs(r, g) \subseteq DOMAIN values
      /\ \A a \in Attrs(r, g) : values[a] = want[a]
  BY <1>2, <1>5, AddingLearns DEF values
<1>8. ~Rewritten(r, g)
  BY <1>g, <1>2, LaterIs DEF Rewritten, Stage
<1>9. Quiet => \A a \in Attrs(r, g) :
             values[a] # Now(g)[a] => a = "pps" /\ Now(g).storm # 1
  <2> SUFFICES ASSUME Quiet, NEW a \in Attrs(r, g), values[a] # Now(g)[a]
               PROVE  a = "pps" /\ Now(g).storm # 1
    OBVIOUS
  <2>1. \A b \in Attrs(r, g) : model[r][b] = Now(g)[b]
    BY <1>1, <1>4 DEF AllOK, ResourceOK, ModelShows, Underway
  <2>2. a = "pps" /\ want.storm # 1 /\ "storm" \in Attrs(r, g)
    BY <1>6, <1>7, <2>1, AttrsAre, ResourcesAssumption
  <2>3. want.storm = Now(g).storm
    BY <1>6, <2>1, <2>2
  <2> QED
    BY <2>2, <2>3
<1>10. Learned(r, g, values)
  <2>1. \A a \in Attrs(r, g) \cap DOMAIN config[r] : AsConfigured(r, a, values)
    BY <1>5, <1>7 DEF AsConfigured
  <2> QED
    BY <1>7, <1>8, <1>9, <2>1 DEF Learned
<1>11. Ends(r) /\ ClientOK'
  BY <1>1, IdleEnds
<1>12. SlotIsOurs(r)'
  BY <1>4 DEF SlotIsOurs
<1> QED
  BY <1>g, <1>1, <1>2, <1>4, <1>7, <1>10, <1>11, <1>12, Advanced

\* Nothing is known of a page that is still to be written and was not read.
LEMMA CheckKeeps ==
    ASSUME AllOK, NEW r \in Proc, Check(r)
    PROVE  AllOK'
<1>1. At(r, "check") /\ pc[r] = "idle" /\ UNCHANGED <<cacheVars, content, owner>>
  BY DEF Check, Unlocked
<1>2. Ends(r) /\ ClientOK'
  BY <1>1, IdleEnds
<1>3. /\ op[r] # "none" /\ todo[r] # <<>> /\ r = "vlan" /\ op[r] = "create"
      /\ Head(todo[r]) = Stage("check", Subject(r)) /\ Subject(r) = "config"
      /\ Stage("write", "config") \in Ahead(r)
  <2>1. Subject(r) = "config" /\ r = "vlan" /\ op[r] = "create"
    <3>1. Attrs(r, Subject(r)) # {} /\ r = "vlan" /\ op[r] = "create" /\ Subject(r) \in Page
      BY <1>1, AtIs DEF StageOK, StageFits
    <3> QED
      BY <3>1, AttrsAre, ResourcesAssumption
  <2> QED
    BY <1>1, <2>1, AtIs DEF StageOK, StageFits
<1>4. CASE GiveUp(r)
  BY <1>2, <1>3, <1>4, GiveUpKeeps
<1>5. CASE Now("config").index = 0 /\ Advance(r, model[r]) /\ UNCHANGED terraform
  <2>1. Rewritten(r, "config")
    BY <1>3, LaterIs DEF Rewritten, Stage
  <2>2. Learned(r, "config", model[r])
    BY <2>1 DEF Learned
  <2>3. Learns(r, "config", model[r])
    BY <1>3, SameLearns, ResourcesAssumption
  <2>4. SlotIsOurs(r)'
    <3>1. todo'[r] = Tail(todo[r]) /\ Tail(todo[r]) # <<>>
      BY <1>5, <2>1, NothingAhead DEF Advance, AllOK, WalkOK, Rewritten, Later
    <3>2. pc'[r] = "idle" /\ Now("config")'.index = 0
      BY <1>2, <1>5 DEF Ends, AllOK, ClientOK, TypeOK, Now
    <3> QED
      BY <3>1, <3>2 DEF SlotIsOurs
  <2> QED
    BY <1>1, <1>2, <1>3, <1>5, <2>1, <2>2, <2>3, <2>4, Advanced DEF Rewritten
<1> QED
  BY <1>4, <1>5 DEF Check

\* The name is read without a session.
LEMMA IdentifyKeeps ==
    ASSUME AllOK, NEW r \in Proc, Identify(r)
    PROVE  AllOK'
<1> DEFINE values == Copied(r, "info", Now("info"))
<1>1. /\ At(r, "info") /\ pc[r] = "idle" /\ UNCHANGED <<cacheVars, content, owner>>
      /\ Advance(r, values) /\ UNCHANGED terraform
  BY DEF Identify, Unlocked
<1>2. Ends(r) /\ ClientOK'
  BY <1>1, IdleEnds
<1>3. /\ op[r] # "none" /\ todo[r] # <<>> /\ Head(todo[r]) = Stage("info", Subject(r))
      /\ Subject(r) = "info" /\ "info" \in Page /\ r # "vlan" /\ Attrs(r, "info") = {"name"}
      /\ Stage("info", "info") \in Ahead(r)
  <2>1. Subject(r) = "info" /\ Attrs(r, "info") # {}
    BY <1>1, AtIs DEF StageOK, StageFits
  <2> QED
    BY <1>1, <2>1, AtIs, AttrsAre, ResourcesAssumption
<1>4. /\ Learns(r, "info", values) /\ Attrs(r, "info") \subseteq DOMAIN values
      /\ \A a \in Attrs(r, "info") : values[a] = Now("info")[a]
  BY <1>3, NowIs, CopiedLearns DEF AllOK
<1> HIDE DEF values
<1>5. ASSUME op[r] \in {"create", "update"}, ~Rewritten(r, "info"), "name" \in DOMAIN config[r], Quiet
      PROVE  Now("info").name = config[r].name
  <2>1. Unread(r, "info")
    BY <1>3 DEF Unread, Looks, Stage
  <2>2. Stage("write", "info") \notin Ahead(r)
    BY <1>3, <1>5, LaterIs DEF Rewritten, Stage
  <2> QED
    BY <1>5, <2>1, <2>2 DEF AllOK, ResourceOK, NameWritten
<1>6. Learned(r, "info", values)
  <2>1. op[r] \in {"create", "update"} => walk # "idle"
    BY OpIs DEF AllOK
  <2>2. ASSUME op[r] \in {"create", "update"}, ~Rewritten(r, "info"),
               NEW a \in Attrs(r, "info") \cap DOMAIN config[r]
        PROVE  AsConfigured(r, a, values)
    BY <1>3, <1>4, <1>5, <2>1, <2>2 DEF AsConfigured, Quiet
  <2> QED
    BY <1>4, <2>2 DEF Learned
<1>7. SlotIsOurs(r)'
  BY <1>3 DEF SlotIsOurs
<1> QED
  BY <1>1, <1>2, <1>3, <1>4, <1>6, <1>7, Advanced

\* The VLAN table is read without a session.
LEMMA TableKeeps ==
    ASSUME AllOK, NEW r \in Proc, Table(r)
    PROVE  AllOK'
<1> DEFINE values == Copied(r, "config", Now("config"))
<1>1. At(r, "table") /\ pc[r] = "idle" /\ UNCHANGED <<cacheVars, content, owner>>
  BY DEF Table, Unlocked
<1>2. Ends(r) /\ ClientOK'
  BY <1>1, IdleEnds
<1>3. /\ op[r] \in {"refresh", "import", "update"} /\ todo[r] # <<>> /\ r = "vlan"
      /\ Head(todo[r]) = Stage("table", Subject(r))
      /\ Subject(r) = "config" /\ "config" \in Page /\ Attrs(r, "config") = {"index"}
  <2>1. Attrs(r, Subject(r)) # {} /\ r = "vlan" /\ op[r] \in {"refresh", "import", "update"}
    BY <1>1, AtIs DEF StageOK, StageFits
  <2> QED
    BY <1>1, <2>1, AtIs, AttrsAre, ResourcesAssumption
<1>4. CASE /\ Now("config").index # 0 \/ op[r] = "update"
           /\ Advance(r, values) /\ UNCHANGED terraform
  <2>1. /\ Learns(r, "config", values) /\ Attrs(r, "config") \subseteq DOMAIN values
        /\ \A a \in Attrs(r, "config") : values[a] = Now("config")[a]
    BY <1>3, NowIs, CopiedLearns DEF AllOK
  <2> HIDE DEF values
  <2>2. Learned(r, "config", values)
    <3>1. Attrs(r, "config") \cap DOMAIN config[r] = {}
      BY <1>3, ConfigIs DEF AllOK
    <3> QED
      BY <2>1, <3>1 DEF Learned
  <2>3. Quiet => Now("config").index # 0
    <3>1. op[r] = "update" /\ Quiet => Now("config").index # 0
      BY <1>3, OpIs DEF AllOK, ResourceOK, SlotTaken
    <3> QED
      BY <1>4, <3>1
  <2>4. SlotIsOurs(r)'
    BY <1>3, <1>4 DEF SlotIsOurs, Advance
  <2> QED
    BY <1>1, <1>2, <1>3, <1>4, <2>1, <2>2, <2>3, <2>4, Advanced
<1>5. CASE GiveUp(r)
  BY <1>2, <1>3, <1>5, GiveUpKeeps
<1>6. CASE /\ op[r] # "update" /\ op[r] # "import"
           /\ tf' = [tf EXCEPT ![r] = NoState]
           /\ op' = [op EXCEPT ![r] = "none"]
           /\ todo' = [todo EXCEPT ![r] = <<>>]
           /\ model' = [model EXCEPT ![r] = <<>>]
           /\ UNCHANGED <<config, walk, runs, failed>>
  <2>1. Ceases(r) /\ tf'[r] = NoState /\ (\A q \in Proc \ {r} : tf'[q] = tf[q])
        /\ tf' = [q \in Proc |-> tf'[q]] /\ todo'[r] = <<>> /\ op'[r] = "none"
    BY <1>6 DEF Ceases, AllOK, WalkOK
  <2>2. walk # "apply"
    BY <1>3, <1>6, OpIs DEF AllOK
  <2>3. StateTyped(r)' /\ StateShows(r)' /\ StateConfigured(r)' /\ SlotTaken(r)'
    BY <1>6, <2>1, <2>2 DEF StateTyped, StateShows, StateConfigured, SlotTaken, NoState
  <2> QED
    BY <1>2, <1>3, <2>1, <2>3, OperationOver
<1> QED
  BY <1>4, <1>5, <1>6 DEF Table

----------------------------------------------------------------------------
(* A call answers.                                                         *)

\* The call was the stage that comes next.
LEMMA AnswerIs ==
    ASSUME AllOK, NEW r \in Proc, Answered(r)
    PROVE  /\ Ends(r) /\ ClientOK' /\ op[r] # "none" /\ todo[r] # <<>>
           /\ page[r] \in Page /\ Subject(r) = page[r] /\ pc[r] \in {"hit", "fetched", "written"}
           /\ Head(todo[r]) = Stage(IF pc[r] = "written" THEN "write" ELSE "read", page[r])
           /\ pc[r] = "written" => ToWrite(r, page[r])
           /\ UNCHANGED terraform
<1>1. pc[r] \in {"hit", "fetched", "written"} /\ Return(r) /\ UNCHANGED <<terraform, content, owner>>
  BY DEF Answered
<1>2. Ends(r) /\ page[r] \in Page
  BY <1>1 DEF Return, Goto, Ends, call, AllOK, ClientOK, TypeOK
<1>3. ClientOK'
  BY <1>1, <1>2, ClientStep DEF AllOK, Ends, Next
<1>4. op[r] # "none" /\ todo[r] # <<>>
  BY <1>1, BusyHasOperation
<1>5. Head(todo[r]) = Stage(IF pc[r] = "written" THEN "write" ELSE "read", page[r])
  BY <1>1 DEF AllOK, ResourceOK, CallOK, Writing, Forgotten
<1>6. Subject(r) = page[r]
  BY <1>5 DEF Subject, Stage
<1> QED
  BY <1>1, <1>2, <1>3, <1>4, <1>5, <1>6 DEF ToWrite

\* What a write answers is what was wanted, and what the device has.
LEMMA WrittenIs ==
    ASSUME AllOK, NEW r \in Proc, pc[r] = "written", NEW g \in Page, g = page[r], ToWrite(r, g)
    PROVE  LET shown == content[g][got[r] + 1]
           IN  /\ Quiet => \A a \in Attrs(r, g) : shown[a] = Now(g)[a]
               /\ r # "vlan" => \A a \in Attrs(r, g) \cap DOMAIN config[r] : AsConfigured(r, a, shown)
               /\ r = "vlan" /\ op[r] # "delete" => shown.index # 0
<1> DEFINE shown == content[g][got[r] + 1]
<1>1. Whole(r, g, shown) = shown /\ (Quiet => \A a \in Attrs(r, g) : shown[a] = Now(g)[a])
  BY DEF AllOK, ResourceOK, ReadBackOK, Agrees
<1>2. shown \in Values(g)
  BY GotIs DEF AllOK
<1>3. /\ r = "vlan" => IF op[r] = "delete" THEN shown.index = 0 ELSE shown.index # 0
      /\ r # "vlan" => \A a \in Attrs(r, g) :
            shown[a] = IF a = "router" /\ Wanted(r, g).snoop # 1 THEN shown[a] ELSE Wanted(r, g)[a]
  <2>1. LET n == Whole(r, g, shown)
        IN  /\ r = "vlan" => IF op[r] = "delete" THEN n.index = 0 ELSE n.index # 0
            /\ r # "vlan" => \A a \in Attrs(r, g) :
                 n[a] = IF a = "router" /\ Wanted(r, g).snoop # 1 THEN shown[a]
                        ELSE Wanted(r, g)[a]
    BY <1>2, WholeIs DEF AllOK
  <2> QED
    BY <1>1, <2>1
<1> HIDE DEF shown
<1>4. ASSUME r # "vlan", NEW a \in Attrs(r, g) \cap DOMAIN config[r]
      PROVE  AsConfigured(r, a, shown)
  <2>1. Wanted(r, g)[a] = config[r][a]
    BY <1>4, WantedIs DEF AllOK
  <2>2. CASE shown[a] = Wanted(r, g)[a]
    BY <2>1, <2>2 DEF AsConfigured
  <2>3. CASE shown[a] # Wanted(r, g)[a]
    <3>1. a = "router" /\ Wanted(r, g).snoop # 1
      BY <1>3, <1>4, <2>3
    <3>2. "snoop" \in Attrs(r, g)
      BY <1>4, <3>1, AttrsAre, ResourcesAssumption
    <3>3. shown["snoop"] = Wanted(r, g)["snoop"]
      BY <1>3, <1>4, <3>2
    <3> QED
      BY <3>1, <3>3 DEF AsConfigured
  <2> QED
    BY <2>2, <2>3
<1> QED
  BY <1>1, <1>3, <1>4 DEF shown

\* What a read or a write answers is copied.
LEMMA ReportedKeeps ==
    ASSUME AllOK, NEW r \in Proc, Answered(r), ~(pc[r] = "written" /\ page[r] = "info")
    PROVE  AllOK'
<1>g. PICK g \in Page : g = page[r]
  BY AnswerIs
<1> DEFINE shown == content[g][got[r] + 1]
           values == Copied(r, g, shown)
<1>1. /\ Ends(r) /\ ClientOK' /\ op[r] # "none" /\ todo[r] # <<>>
      /\ Subject(r) = g /\ pc[r] \in {"hit", "fetched", "written"}
      /\ Head(todo[r]) = Stage(IF pc[r] = "written" THEN "write" ELSE "read", g)
      /\ pc[r] = "written" => ToWrite(r, g)
      /\ UNCHANGED terraform
  BY <1>g, AnswerIs
<1>2. Advance(r, values)
  BY <1>g DEF Answered, Reported
<1>3. shown \in Values(g) /\ got[r] + 1 \in 1..Len(content[g])
  BY <1>g, GotIs DEF AllOK
<1>4. /\ Learns(r, g, values) /\ Attrs(r, g) \subseteq DOMAIN values
      /\ \A a \in Attrs(r, g) : values[a] = shown[a]
  BY <1>1, <1>3, CopiedLearns
<1>5. \A a : a = "router" /\ a \in Attrs(r, g) => "snoop" \in Attrs(r, g)
  BY AttrsAre, ResourcesAssumption
<1> HIDE DEF values
<1>6. CASE pc[r] # "written"
  <2>1. Head(todo[r]) = Stage("read", g) /\ Head(todo[r]) \in Ahead(r)
    BY <1>1, <1>6, LaterIs
  <2>2. StageOK(r, Stage("read", g)) /\ Stage("read", g).do = "read" /\ Stage("read", g).page = g
    BY <2>1 DEF AllOK, ResourceOK, TodoOK, Stage
  <2>3. Quiet => \A a \in Attrs(r, g) : shown[a] = Now(g)[a]
    BY <1>3, <2>1 DEF AllOK, ResourceOK, VersionsAgree, Agrees
  <2>4. op[r] \in {"create", "update"} => Rewritten(r, g)
    <3>1. op[r] \in {"create", "update"} => Stage("write", g) \in Ahead(r)
      BY <2>2 DEF StageOK, StageFits
    <3>2. Stage("write", g) # Stage("read", g)
      BY DEF Stage
    <3> QED
      BY <1>1, <2>1, <3>1, <3>2, LaterIs DEF Rewritten
  <2>5. Learned(r, g, values)
    BY <1>4, <2>3, <2>4 DEF Learned
  <2>6. r # "vlan"
    BY <2>2 DEF StageOK, StageFits
  <2>7. SlotIsOurs(r)'
    BY <2>6 DEF SlotIsOurs
  <2> QED
    BY <1>1, <1>2, <1>4, <1>6, <2>5, <2>6, <2>7, Advanced DEF After
<1>7. CASE pc[r] = "written"
  <2>1. /\ Quiet => \A a \in Attrs(r, g) : shown[a] = Now(g)[a]
        /\ r # "vlan" => \A a \in Attrs(r, g) \cap DOMAIN config[r] : AsConfigured(r, a, shown)
        /\ r = "vlan" /\ op[r] # "delete" => shown.index # 0
    BY <1>g, <1>1, <1>7, WrittenIs
  <2>2. ~Rewritten(r, g)
    BY <1>1, <1>7, LaterIs DEF Rewritten, Stage
  <2>3. r = "vlan" => g = "config" /\ Attrs(r, g) = {"index"} /\ "index" \notin DOMAIN config[r]
    BY <1>1, <1>7, NextWrite, AttrsAre, ConfigIs, ResourcesAssumption DEF AllOK
  <2> HIDE DEF shown
  <2>4. \A a \in Attrs(r, g) \cap DOMAIN config[r] : AsConfigured(r, a, values)
    BY <1>4, <1>5, <2>1, <2>3 DEF AsConfigured
  <2>5. Learned(r, g, values)
    BY <1>4, <2>1, <2>4 DEF Learned
  <2>6. r = "vlan" /\ Quiet /\ op[r] # "delete" => Now("config").index # 0
    BY <2>1, <2>3
  <2>7. SlotIsOurs(r)'
    <3> SUFFICES ASSUME r = "vlan", Quiet, op[r] = "create" PROVE maker = "provider"
      BY <1>1, <1>2 DEF SlotIsOurs, Advance, Ends, owner, terraform, Quiet
    <3>1. ~\E s \in Ahead(r) : s.do = "check"
      <4> SUFFICES ASSUME NEW s \in Ahead(r), s.do = "check" PROVE FALSE
        OBVIOUS
      <4>1. s.page = "config"
        <5>1. Attrs(r, s.page) # {} /\ s \in Stages
          <6>1. s \in Stages
            BY <1>1, LaterIs, NextIs
          <6> QED
            BY <6>1 DEF AllOK, ResourceOK, TodoOK, StageOK, StageFits
        <5> QED
          BY <5>1, AttrsAre, ResourcesAssumption DEF Stages
      <4>2. s # Head(todo[r])
        BY <1>1, <1>7 DEF Stage
      <4> QED
        BY <1>1, <1>7, <2>3, <4>1, <4>2, LaterIs DEF Stage
    <3> QED
      BY <1>7, <3>1 DEF AllOK, ResourceOK, SlotIsOurs
  <2>8. Underway(r, g)
    BY <1>g, <1>7 DEF Underway
  <2> QED
    BY <1>1, <1>2, <1>4, <2>5, <2>6, <2>7, <2>8, Advanced
<1> QED
  BY <1>6, <1>7

\* A name that was written is read again.
LEMMA NameAgainKeeps ==
    ASSUME AllOK, NEW r \in Proc, Answered(r), pc[r] = "written", page[r] = "info"
    PROVE  AllOK'
<1> DEFINE again == Stage("info", "info")
<1>0. /\ Ends(r) /\ ClientOK' /\ op[r] # "none" /\ todo[r] # <<>>
      /\ "info" \in Page /\ Subject(r) = "info" /\ ToWrite(r, "info")
      /\ Head(todo[r]) = Stage("write", "info") /\ UNCHANGED terraform
  BY AnswerIs
<1>1. todo' = [todo EXCEPT ![r] = <<again>> \o Tail(todo[r])] /\ UNCHANGED <<op, model>>
  BY DEF Answered
<1>2. /\ Tail(todo[r]) \in Seq(Stages) /\ InOrder(Tail(todo[r]))
      /\ Ahead(r) = {Head(todo[r])} \cup Later(r)
      /\ \A s \in Later(r) : s.page # "info" /\ s \in Stages
  BY <1>0, LaterIs DEF Stage
<1>3. again \in Stages /\ again.do = "info" /\ again.page = "info" /\ again # Stage("write", "info")
  BY <1>0 DEF Stages, Stage
<1> HIDE DEF again
<1>4. /\ <<again>> \o Tail(todo[r]) \in Seq(Stages) /\ InOrder(<<again>> \o Tail(todo[r]))
      /\ Range(<<again>> \o Tail(todo[r])) = {again} \cup Later(r)
  BY <1>2, <1>3, StageAgain DEF Later
<1>5. /\ todo'[r] = <<again>> \o Tail(todo[r]) /\ Ahead(r)' = {again} \cup Later(r)
      /\ \A q \in Proc \ {r} : todo'[q] = todo[q]
  BY <1>1, <1>4 DEF AllOK, WalkOK, Ahead
<1>6. r = "system"
  BY <1>0, NextWrite, AttrsAre, ResourcesAssumption DEF AllOK
<1>7. op[r] \in {"create", "update"}
  BY <1>0, <1>6, NextWrite DEF AllOK
<1>8. \A q \in Proc \ {r} : Unmoved(q)
  BY <1>0, <1>1, <1>5 DEF Unmoved, Ends, owner, terraform
<1>9. /\ PVIDNamesAVLAN' /\ pc'[r] = "idle" /\ \A q \in Proc \ {r} : SameCall(q) /\ ResourceOK(q)'
      /\ \A h \in Page : Now(h)' = Now(h)
  BY <1>0, <1>8, EndsAlone DEF terraform
<1>10. WalkOK'
  <2>1. todo' \in [Proc -> Seq(Stages)]
    BY <1>1, <1>4 DEF AllOK, WalkOK
  <2>2. pc'["port"] # "idle" => pc["port"] # "idle"
    BY <1>9, ResourcesAssumption DEF SameCall
  <2> QED
    BY <1>0, <1>1, <2>1, <2>2 DEF AllOK, WalkOK, Ends, owner, terraform
<1>11. ResourceOK(r)'
  <2> USE DEF terraform, Ends, owner
  <2>1. Unread(r, "info")' /\ Remains(r, "info")' /\ Remains(r, "info")
    <3>1. Head(todo[r]).page = "info" /\ Head(todo[r]) \in Ahead(r)
      BY <1>0, <1>2 DEF Stage
    <3> QED
      BY <1>3, <1>5, <3>1 DEF Unread, Remains, Looks
  <2>2. \A h \in Page \ {"info"} : /\ (Unread(r, h)' <=> Unread(r, h))
                                   /\ (Remains(r, h)' <=> Remains(r, h))
    <3>1. \A s : s.page # "info" => (s \in Ahead(r)' <=> s \in Ahead(r))
      BY <1>0, <1>2, <1>3, <1>5 DEF Stage
    <3> QED
      BY <3>1 DEF Unread, Remains
  <2>3. \A h \in Page : Fresh(r, h)' => Fresh(r, h) /\ h # "info" /\ (Remains(r, h)' <=> Remains(r, h))
    BY <2>1, <2>2 DEF Fresh
  <2>4. TodoOK(r)'
    <3>1. StageOK(r, again)'
      BY <1>3, <1>6, AttrsAre DEF StageOK, StageFits
    <3>2. ASSUME NEW s \in Later(r) PROVE StageOK(r, s)'
      <4>1. StageOK(r, s) /\ s.page # "info"
        BY <1>2 DEF AllOK, ResourceOK, TodoOK
      <4>2. Stage("write", s.page) \in Ahead(r) => Stage("write", s.page) \in Later(r)
        BY <1>0, <1>2, <4>1 DEF Stage
      <4> QED
        BY <1>1, <1>5, <4>1, <4>2 DEF StageOK, StageFits
    <3> QED
      BY <1>0, <1>1, <1>4, <1>5, <3>1, <3>2 DEF TodoOK
  <2>5. CallOK(r)' /\ ReadBackOK(r)'
    BY <1>9 DEF CallOK, ReadBackOK
  <2>6. ModelTyped(r)'
    BY <1>1, <2>3 DEF AllOK, ResourceOK, ModelTyped
  <2>7. ModelShows(r)'
    <3> SUFFICES ASSUME Quiet, op[r] \notin {"none", "delete"}, NEW h \in Page, Fresh(r, h)',
                        NEW a \in Attrs(r, h)
                 PROVE  \/ model[r][a] = Now(h)[a]
                        \/ a = "pps" /\ ~Remains(r, h)' /\ Now(h).storm # 1
      BY <1>0, <1>1, <1>9 DEF ModelShows, Quiet
    <3>1. Fresh(r, h) /\ ~Underway(r, h) /\ (Remains(r, h)' <=> Remains(r, h))
      BY <2>3 DEF Underway
    <3> QED
      BY <3>1 DEF AllOK, ResourceOK, ModelShows
  <2>8. VersionsAgree(r)'
    <3> SUFFICES ASSUME Quiet, NEW h \in Page, Stage("read", h) \in Ahead(r),
                        NEW v \in 1..Len(content[h]), NEW a \in Attrs(r, h)
                 PROVE  content[h][v][a] = Now(h)[a]
      <4>1. \A h : Stage("read", h) # again
        BY DEF Stage, again
      <4>2. \A h : Stage("read", h) \in Ahead(r)' => Stage("read", h) \in Ahead(r)
        BY <1>2, <1>5, <4>1
      <4>3. content' = content /\ (Quiet' <=> Quiet)
        BY <1>0 DEF Quiet
      <4> QED
        BY <1>9, <4>2, <4>3 DEF VersionsAgree, Agrees
    <3> QED
      BY DEF AllOK, ResourceOK, VersionsAgree, Agrees
  <2>9. ModelConfigured(r)'
    <3>1. \A h \in Page : ~Remains(r, h)' => ~Remains(r, h)
      BY <2>1, <2>2
    <3> QED
      BY <1>0, <1>1, <3>1 DEF AllOK, ResourceOK, ModelConfigured, AsConfigured
  <2>10. NameWritten(r)'
    <3> SUFFICES ASSUME Quiet, "name" \in DOMAIN config[r]
                 PROVE  Now("info").name = config[r].name
      BY <1>0, <1>1, <1>9 DEF NameWritten, Quiet
    <3>1. "name" \in Attrs(r, "info")
      BY <1>6, AttrsAre
    <3> DEFINE shown == content["info"][got[r] + 1]
    <3>2. shown.name = Now("info").name /\ AsConfigured(r, "name", shown)
      BY <1>0, <1>6, <3>1, WrittenIs
    <3> HIDE DEF shown
    <3> QED
      BY <3>2 DEF AsConfigured, Quiet
  <2>11. StateTyped(r)' /\ StateShows(r)' /\ StateConfigured(r)'
    BY <1>0, <1>1 DEF AllOK, ResourceOK, StateTyped, StateShows, StateConfigured, Numbers
  <2>12. SlotTaken(r)' /\ SlotIsOurs(r)'
    BY <1>6 DEF SlotTaken, SlotIsOurs
  <2> QED
    BY <2>4, <2>5, <2>6, <2>7, <2>8, <2>9, <2>10, <2>11, <2>12 DEF ResourceOK
<1> QED
  BY <1>0, <1>9, <1>10, <1>11 DEF AllOK

\* The answer of a call is copied into the model, or a new name is read again.
LEMMA AnsweredKeeps ==
    ASSUME AllOK, NEW r \in Proc, Answered(r)
    PROVE  AllOK'
  BY ReportedKeeps, NameAgainKeeps

----------------------------------------------------------------------------
(* A process starts.                                                       *)

\* Each path looks at each page of its resource, and only the VLANs are written
\* without a look at them.
Covers(r, stages) ==
    \A g \in Page : Attrs(r, g) # {} => \E s \in stages : s.page = g /\ (g = "config" \/ Looks(s))

\* The stages of Read, of an import, and of the update of a VLAN fit them.
LEMMA ReadPathIs ==
    ASSUME NEW r \in Proc, NEW o \in {"refresh", "import", "update"}, o = "update" => r = "vlan"
    PROVE  /\ ReadPath(r) \in Seq(Stages) /\ ReadPath(r) # <<>> /\ InOrder(ReadPath(r))
           /\ Covers(r, Range(ReadPath(r)))
           /\ \A s \in Range(ReadPath(r)) : StageFits(r, o, Range(ReadPath(r)), s)
<1>1. CASE r = "vlan"
  <2> DEFINE path == ReadPath(r)
  <2>1. path = <<Stage("table", "config")>>
    BY <1>1 DEF ReadPath
  <2>2. Range(path) = {Stage("table", "config")}
    BY <2>1 DEF Range
  <2>3. path \in Seq(Stages) /\ path # <<>> /\ Len(path) = 1
    BY <2>1, ResourcesAssumption DEF Stages, Stage
  <2>4. InOrder(path)
    BY <2>1, <2>3 DEF InOrder, Stage
  <2> HIDE DEF path
  <2>5. Covers(r, Range(path))
    BY <1>1, <2>2, AttrsAre, ResourcesAssumption DEF Covers, Looks, Stage
  <2>6. ASSUME NEW s \in Range(path) PROVE StageFits(r, o, Range(path), s)
    BY <1>1, <2>2, <2>6, AttrsAre DEF StageFits, Stage
  <2> QED
    BY <2>2, <2>3, <2>4, <2>5, <2>6 DEF path
<1>2. CASE r = "port"
  <2> DEFINE path == ReadPath(r)
  <2>1. path = <<Stage("read", "config"), Stage("read", "settings"),
                 Stage("read", "management")>>
    BY <1>2 DEF ReadPath
  <2>2. Range(path) = {Stage("read", "config"), Stage("read", "settings"),
                       Stage("read", "management")}
    BY <2>1 DEF Range
  <2>3. path \in Seq(Stages) /\ path # <<>> /\ Len(path) = 3
    BY <2>1, ResourcesAssumption DEF Stages, Stage
  <2>4. InOrder(path)
    BY <2>1, <2>3 DEF InOrder, Stage
  <2> HIDE DEF path
  <2>5. Covers(r, Range(path))
    BY <1>2, <2>2, AttrsAre, ResourcesAssumption DEF Covers, Looks, Stage
  <2>6. ASSUME NEW s \in Range(path) PROVE StageFits(r, o, Range(path), s)
    BY <1>2, <2>2, <2>6, AttrsAre DEF StageFits, Stage
  <2> QED
    BY <2>2, <2>3, <2>4, <2>5, <2>6 DEF path
<1>3. CASE r = "system"
  <2> DEFINE path == ReadPath(r)
  <2>1. path = <<Stage("info", "info"), Stage("read", "settings"),
                 Stage("read", "management")>>
    BY <1>3 DEF ReadPath
  <2>2. Range(path) = {Stage("info", "info"), Stage("read", "settings"),
                       Stage("read", "management")}
    BY <2>1 DEF Range
  <2>3. path \in Seq(Stages) /\ path # <<>> /\ Len(path) = 3
    BY <2>1, ResourcesAssumption DEF Stages, Stage
  <2>4. InOrder(path)
    BY <2>1, <2>3 DEF InOrder, Stage
  <2> HIDE DEF path
  <2>5. Covers(r, Range(path))
    BY <1>3, <2>2, AttrsAre, ResourcesAssumption DEF Covers, Looks, Stage
  <2>6. ASSUME NEW s \in Range(path) PROVE StageFits(r, o, Range(path), s)
    BY <1>3, <2>2, <2>6, AttrsAre DEF StageFits, Stage
  <2> QED
    BY <2>2, <2>3, <2>4, <2>5, <2>6 DEF path
<1> QED
  BY <1>1, <1>2, <1>3, ResourcesAssumption

\* The stages of Create, and of the update of a port or the system, fit them: a
\* VLAN is looked for before it is created, and a name is written.
LEMMA WritePathIs ==
    ASSUME NEW r \in Proc, NEW o \in {"create", "update"}, o = "update" => r # "vlan"
    PROVE  /\ WritePath(r) \in Seq(Stages) /\ WritePath(r) # <<>> /\ InOrder(WritePath(r))
           /\ Covers(r, Range(WritePath(r)))
           /\ \A s \in Range(WritePath(r)) : StageFits(r, o, Range(WritePath(r)), s)
           /\ r = "vlan" => Stage("check", "config") \in Range(WritePath(r))
           /\ r = "system" => Stage("write", "info") \in Range(WritePath(r))
<1>1. CASE r = "vlan"
  <2> DEFINE path == WritePath(r)
  <2>1. path = <<Stage("check", "config"), Stage("write", "config")>>
    BY <1>1 DEF WritePath
  <2>2. Range(path) = {Stage("check", "config"), Stage("write", "config")}
    BY <2>1 DEF Range
  <2>3. path \in Seq(Stages) /\ path # <<>> /\ Len(path) = 2
    BY <2>1, ResourcesAssumption DEF Stages, Stage
  <2>4. InOrder(path)
    BY <2>1, <2>3 DEF InOrder, Stage
  <2> HIDE DEF path
  <2>5. Covers(r, Range(path))
    BY <1>1, <2>2, AttrsAre, ResourcesAssumption DEF Covers, Looks, Stage
  <2>6. ASSUME NEW s \in Range(path) PROVE StageFits(r, o, Range(path), s)
    BY <1>1, <2>2, <2>6, AttrsAre DEF StageFits, Stage
  <2> QED
    BY <1>1, <2>2, <2>3, <2>4, <2>5, <2>6 DEF path
<1>2. CASE r = "port"
  <2> DEFINE path == WritePath(r)
  <2>1. path = <<Stage("write", "config"), Stage("read", "settings"),
                 Stage("write", "settings"), Stage("read", "management"),
                 Stage("write", "management")>>
    BY <1>2 DEF WritePath
  <2>2. Range(path) = {Stage("write", "config"), Stage("read", "settings"),
                       Stage("write", "settings"), Stage("read", "management"),
                       Stage("write", "management")}
    BY <2>1 DEF Range
  <2>3. path \in Seq(Stages) /\ path # <<>> /\ Len(path) = 5
    BY <2>1, ResourcesAssumption DEF Stages, Stage
  <2>4. InOrder(path)
    BY <2>1, <2>3 DEF InOrder, Stage
  <2> HIDE DEF path
  <2>5. Covers(r, Range(path))
    BY <1>2, <2>2, AttrsAre, ResourcesAssumption DEF Covers, Looks, Stage
  <2>6. ASSUME NEW s \in Range(path) PROVE StageFits(r, o, Range(path), s)
    BY <1>2, <2>2, <2>6, AttrsAre DEF StageFits, Stage
  <2> QED
    BY <1>2, <2>2, <2>3, <2>4, <2>5, <2>6 DEF path
<1>3. CASE r = "system"
  <2> DEFINE path == WritePath(r)
  <2>1. path = <<Stage("info", "info"), Stage("read", "settings"), Stage("write", "info"),
                 Stage("write", "settings"), Stage("read", "management"),
                 Stage("write", "management")>>
    BY <1>3 DEF WritePath
  <2>2. Range(path) = {Stage("info", "info"), Stage("read", "settings"),
                       Stage("write", "info"), Stage("write", "settings"),
                       Stage("read", "management"), Stage("write", "management")}
    BY <2>1 DEF Range
  <2>3. path \in Seq(Stages) /\ path # <<>> /\ Len(path) = 6
    BY <2>1, ResourcesAssumption DEF Stages, Stage
  <2>4. InOrder(path)
    BY <2>1, <2>3 DEF InOrder, Stage
  <2> HIDE DEF path
  <2>5. Covers(r, Range(path))
    BY <1>3, <2>2, AttrsAre, ResourcesAssumption DEF Covers, Looks, Stage
  <2>6. ASSUME NEW s \in Range(path) PROVE StageFits(r, o, Range(path), s)
    BY <1>3, <2>2, <2>6, AttrsAre DEF StageFits, Stage
  <2> QED
    BY <1>3, <2>2, <2>3, <2>4, <2>5, <2>6 DEF path
<1> QED
  BY <1>1, <1>2, <1>3, ResourcesAssumption

\* The stages of an operation fit it.
LEMMA PathIs ==
    ASSUME NEW r \in Proc, NEW o \in Ops
    PROVE  /\ Path(r, o) \in Seq(Stages) /\ InOrder(Path(r, o))
           /\ o = "none" => Path(r, o) = <<>>
           /\ o \notin {"none", "delete"} => Path(r, o) # <<>> /\ Covers(r, Range(Path(r, o)))
           /\ \A s \in Range(Path(r, o)) : StageFits(r, o, Range(Path(r, o)), s)
           /\ \A g \in Page : o = "delete" => Stage("read", g) \notin Range(Path(r, o))
           /\ r = "vlan" /\ o = "create" => Stage("check", "config") \in Range(Path(r, o))
           /\ r = "system" /\ o \in {"create", "update"} =>
                Stage("write", "info") \in Range(Path(r, o))
<1>1. CASE o \in {"refresh", "import"} \/ (o = "update" /\ r = "vlan")
  <2>1. Path(r, o) = ReadPath(r)
    BY <1>1 DEF Path
  <2> QED
    BY <1>1, <2>1, ReadPathIs
<1>2. CASE o = "create" \/ (o = "update" /\ r # "vlan")
  <2>1. Path(r, o) = WritePath(r)
    BY <1>2 DEF Path
  <2> QED
    BY <1>2, <2>1, WritePathIs
<1>3. CASE o = "delete" /\ r = "vlan"
  <2>1. Path(r, o) = <<Stage("write", "config")>>
    BY <1>3 DEF Path
  <2>2. Range(Path(r, o)) = {Stage("write", "config")}
    BY <2>1 DEF Range
  <2>3. Path(r, o) \in Seq(Stages) /\ InOrder(Path(r, o))
    BY <2>1, ResourcesAssumption DEF Stages, Stage, InOrder
  <2>4. StageFits(r, o, Range(Path(r, o)), Stage("write", "config"))
    BY <1>3, <2>2, AttrsAre DEF StageFits, Stage
  <2> QED
    BY <1>3, <2>2, <2>3, <2>4 DEF Stage
<1>4. CASE o = "none" \/ (o = "delete" /\ r # "vlan")
  <2>1. Path(r, o) = <<>>
    BY <1>4 DEF Path
  <2> QED
    BY <1>4, <2>1, NothingAhead
<1> QED
  BY <1>1, <1>2, <1>3, <1>4 DEF Ops

\* A new process has an empty cache; the pages are what they were.
LEMMA NewProcessIs ==
    ASSUME AllOK, NewProcess
    PROVE  /\ ClientOK' /\ PVIDNamesAVLAN' /\ UNCHANGED pc
           /\ \A g \in Page : /\ Now(g)' = Now(g)
                              /\ \A v \in 1..Len(content'[g]) : content'[g][v] = Now(g)
<1> USE DEF NewProcess
<1>1. \A g \in Page : Now(g) \in Values(g)
  BY NowIs DEF AllOK
<1>2. ASSUME NEW g \in Page
      PROVE  /\ content'[g] \in Seq(Values(g)) /\ Len(content'[g]) = stored'[g] + 1
             /\ Now(g)' = Now(g) /\ \A v \in 1..Len(content'[g]) : content'[g][v] = Now(g)
  <2> DEFINE now == Now(g)
  <2>1. content'[g] = <<now>> /\ stored'[g] = 0
    OBVIOUS
  <2> HIDE DEF now
  <2>2. <<now>> \in Seq(Values(g)) /\ Len(<<now>>) = 1 /\ <<now>>[1] = now
    BY <1>1 DEF now
  <2>3. content'[g][stored'[g] + 1] = now
    BY <2>1, <2>2
  <2>4. \A v \in 1..Len(content'[g]) : content'[g][v] = now
    BY <2>1, <2>2
  <2> QED
    BY <2>1, <2>2, <2>3, <2>4 DEF now, Now
<1>3. ContentOK'
  <2>1. content' = [g \in Page |-> content'[g]]
    OBVIOUS
  <2> QED
    BY <1>2, <2>1 DEF ContentOK
<1>4. TypeOK' /\ VersionsOK'
  BY CacheAssumption, ResourcesAssumption DEF AllOK, ClientOK, TypeOK, VersionsOK
<1>5. PVIDNamesAVLAN'
  BY <1>2, ResourcesAssumption DEF AllOK, PVIDNamesAVLAN
<1> QED
  BY <1>2, <1>3, <1>4, <1>5 DEF ClientOK

\* The operations that a process starts with are sound if their models are, and
\* if the resources that have nothing to do are as recorded.
LEMMA LaunchKeeps ==
    ASSUME AllOK, \A r \in Proc : op[r] = "none", NewProcess,
           walk' \in {"refresh", "apply", "destroy"}, runs' \in 0..MaxRuns, failed' \subseteq Proc,
           disturbed' \in BOOLEAN, UNCHANGED <<config, tf, ownerWrites, maker>>,
           NEW operations \in [Proc -> OpsOf[walk']], NEW models, Launch(operations, models),
           \A r \in Proc : operations[r] # "none" =>
              /\ "force" \in DOMAIN models[r] /\ Numbers(models[r])
              /\ DOMAIN models[r] \subseteq Attributes(r) \cup {"force"}
              /\ operations[r] = "delete" => Attributes(r) \subseteq DOMAIN models[r]
              /\ operations[r] \in {"create", "update"} => models[r].force = config[r].force,
           \A r \in Proc : operations[r] = "none" =>
              StateShows(r)' /\ StateConfigured(r)' /\ SlotTaken(r)',
           operations["vlan"] = "update" /\ Quiet' => Now("config").index # 0
    PROVE  AllOK'
<1>0. /\ ClientOK' /\ PVIDNamesAVLAN' /\ UNCHANGED pc
      /\ \A g \in Page : /\ Now(g)' = Now(g)
                         /\ \A v \in 1..Len(content'[g]) : content'[g][v] = Now(g)
  BY NewProcessIs
<1>1. \A r \in Proc : pc'[r] = "idle"
  BY <1>0, BusyHasOperation
<1>2. \A r \in Proc : /\ op'[r] = operations[r] /\ todo'[r] = Path(r, operations[r])
                      /\ operations[r] # "none" => model'[r] = models[r]
                      /\ operations[r] \in OpsOf[walk'] /\ operations[r] \in Ops
  <2>1. \A r \in Proc : operations[r] \in OpsOf[walk'] /\ OpsOf[walk'] \subseteq Ops
    BY DEF OpsOf, Ops
  <2> QED
    BY <2>1 DEF Launch
<1>3. ASSUME NEW r \in Proc
      PROVE  LET stages == Range(Path(r, operations[r]))
             IN  /\ Path(r, operations[r]) \in Seq(Stages) /\ InOrder(Path(r, operations[r]))
                 /\ operations[r] = "none" => Path(r, operations[r]) = <<>>
                 /\ operations[r] \notin {"none", "delete"} =>
                      Path(r, operations[r]) # <<>> /\ Covers(r, stages)
                 /\ \A s \in stages : StageFits(r, operations[r], stages, s)
                 /\ r = "vlan" /\ operations[r] = "create" => Stage("check", "config") \in stages
                 /\ r = "system" /\ operations[r] \in {"create", "update"} =>
                      Stage("write", "info") \in stages
  BY <1>2, PathIs
<1>4. WalkOK'
  <2>1. op' \in [Proc -> OpsOf[walk']]
    BY DEF Launch
  <2>2. todo' \in [Proc -> Seq(Stages)] /\ model' = [r \in Proc |-> model'[r]]
    BY <1>3 DEF Launch
  <2>3. pc'["port"] = "idle"
    BY <1>1, ResourcesAssumption
  <2> QED
    BY <2>1, <2>2, <2>3 DEF AllOK, WalkOK
<1>5. ASSUME NEW r \in Proc PROVE ResourceOK(r)'
  <2> DEFINE o == operations[r]
             stages == Range(Path(r, o))
  <2>1. /\ op'[r] = o /\ Ahead(r)' = stages /\ todo'[r] = Path(r, o)
        /\ o # "none" => model'[r] = models[r]
    BY <1>2 DEF Ahead
  <2>2. Path(r, o) \in Seq(Stages) /\ InOrder(Path(r, o))
    BY <1>3
  <2>3. /\ o \notin {"none", "delete"} => Path(r, o) # <<>> /\ Covers(r, stages)
        /\ \A s \in stages : StageFits(r, o, stages, s)
        /\ r = "vlan" /\ o = "create" => Stage("check", "config") \in stages
        /\ r = "system" /\ o \in {"create", "update"} => Stage("write", "info") \in stages
    BY <1>3
  <2>4. /\ o = "none" => Path(r, o) = <<>>
        /\ o # "none" =>
              /\ "force" \in DOMAIN models[r] /\ Numbers(models[r])
              /\ DOMAIN models[r] \subseteq Attributes(r) \cup {"force"}
              /\ o = "delete" => Attributes(r) \subseteq DOMAIN models[r]
              /\ o \in {"create", "update"} => models[r].force = config[r].force
    BY <1>3
  <2>o. o \in Ops /\ (r = "vlan" /\ o = "update" /\ Quiet' => Now("config").index # 0)
    BY <1>2
  <2>n. o = "none" => StateShows(r)' /\ StateConfigured(r)' /\ SlotTaken(r)'
    OBVIOUS
  <2> HIDE DEF o, stages
  <2>5. TodoOK(r)'
    BY <2>1, <2>2, <2>3, <2>4 DEF TodoOK, StageOK
  <2>6. CallOK(r)' /\ ReadBackOK(r)'
    BY <1>1 DEF CallOK, ReadBackOK
  <2>7. \A g \in Page : o \notin {"none", "delete"} /\ (Fresh(r, g)' \/ ~Remains(r, g)') => Attrs(r, g) = {}
    <3> SUFFICES ASSUME NEW g \in Page, o \notin {"none", "delete"}, Attrs(r, g) # {}
                 PROVE  ~Fresh(r, g)' /\ Remains(r, g)'
      OBVIOUS
    <3>1. PICK s \in stages : s.page = g /\ (g = "config" \/ Looks(s))
      BY <2>3 DEF Covers
    <3>2. Remains(r, g)'
      BY <2>1, <3>1 DEF Remains
    <3>3. g # "config" => Unread(r, g)'
      BY <2>1, <3>1 DEF Unread, Looks
    <3> QED
      BY <3>2, <3>3 DEF Fresh
  <2>8. ModelTyped(r)'
    <3>1. \A g \in Page : Attrs(r, g) \subseteq Attributes(r)
      BY AttributesAre
    <3> QED
      BY <2>1, <2>4, <2>7, <3>1 DEF ModelTyped, Numbers
  <2>9. ModelShows(r)'
    BY <2>1, <2>7 DEF ModelShows
  <2>10. VersionsAgree(r)'
    BY <1>0 DEF VersionsAgree, Agrees
  <2>11. ModelConfigured(r)'
    <3>1. o \in {"create", "update"} => o \notin {"none", "delete"}
      OBVIOUS
    <3> QED
      BY <2>1, <2>4, <2>7, <3>1 DEF ModelConfigured
  <2>12. NameWritten(r)'
    <3> SUFFICES ASSUME o \in {"create", "update"}, "name" \in DOMAIN config[r]
                 PROVE  Stage("write", "info") \in stages
      BY <2>1 DEF NameWritten
    <3>1. "name" \in Attributes(r)
      BY ConfigIs DEF AllOK
    <3>2. r = "system"
      BY <3>1, AttrsAre, ResourcesAssumption DEF Attributes
    <3> QED
      BY <2>3, <3>2
  <2>13. StateTyped(r)'
    BY DEF AllOK, ResourceOK, StateTyped, Numbers
  <2>14. StateShows(r)' /\ StateConfigured(r)'
    BY <2>1, <2>n DEF StateShows, StateConfigured
  <2>15. SlotTaken(r)'
    <3> SUFFICES ASSUME r = "vlan", Quiet', walk' # "destroy", o # "none" PROVE SlotTaken(r)'
      BY <2>n DEF SlotTaken
    <3>1. o # "delete"
      <4>1. o \in OpsOf[walk'] /\ walk' \in {"refresh", "apply"}
        BY <1>2 DEF o
      <4> QED
        BY <4>1 DEF OpsOf
    <3>2. todo'[r] # <<>>
      BY <2>1, <2>3, <3>1
    <3>3. o = "update" => Now("config")'.index # 0
      BY <1>0, <2>o, ResourcesAssumption
    <3> QED
      BY <2>1, <3>2, <3>3 DEF SlotTaken
  <2>16. SlotIsOurs(r)'
    <3> SUFFICES ASSUME r = "vlan", o = "create"
                 PROVE  \E s \in stages : s.do = "check"
      BY <2>1 DEF SlotIsOurs
    <3> QED
      BY <2>3 DEF Stage
  <2> QED
    BY <2>5, <2>6, <2>8, <2>9, <2>10, <2>11, <2>12, <2>13, <2>14, <2>15, <2>16 DEF ResourceOK
<1> QED
  BY <1>0, <1>4, <1>5 DEF AllOK

\* With no operation there is no call, and what is recorded has every attribute.
LEMMA RecordedIs ==
    ASSUME AllOK, NEW r \in Proc, tf[r] # NoState
    PROVE  DOMAIN tf[r] = Attributes(r) \cup {"force"} /\ Numbers(tf[r])
  BY DEF AllOK, ResourceOK, StateTyped

\* A run starts.
LEMMA StartRunKeeps == AllOK /\ StartRun => AllOK'
<1> SUFFICES ASSUME AllOK, StartRun PROVE AllOK'
  OBVIOUS
<1>1. /\ walk = "idle" /\ walk' = "refresh" /\ runs' = runs + 1 /\ runs < MaxRuns
      /\ failed' = {} /\ disturbed' = FALSE /\ NewProcess
      /\ UNCHANGED <<config, tf, ownerWrites, maker>>
  BY DEF StartRun
<1>2. PICK imported \in Imports :
           Launch([r \in Proc |-> IF tf[r] # NoState THEN "refresh"
                                  ELSE IF r \in imported THEN "import" ELSE "none"],
                  [r \in Proc |-> IF tf[r] = NoState THEN [force |-> 0] ELSE tf[r]])
  BY DEF StartRun
<1> DEFINE operations == [r \in Proc |-> IF tf[r] # NoState THEN "refresh"
                                         ELSE IF r \in imported THEN "import" ELSE "none"]
           models == [r \in Proc |-> IF tf[r] = NoState THEN [force |-> 0] ELSE tf[r]]
<1>3. \A r \in Proc : op[r] = "none"
  BY <1>1, OpIs DEF AllOK
<1>4. runs' \in 0..MaxRuns
  BY <1>1, ResourcesAssumption DEF AllOK, WalkOK
<1>5. operations \in [Proc -> OpsOf[walk']]
  BY <1>1 DEF OpsOf
<1>6. ASSUME NEW r \in Proc
      PROVE  /\ "force" \in DOMAIN models[r] /\ Numbers(models[r])
             /\ DOMAIN models[r] \subseteq Attributes(r) \cup {"force"}
             /\ operations[r] \notin {"delete", "create", "update"}
             /\ operations[r] = "none" => tf[r] = NoState
  <2>1. CASE tf[r] = NoState
    <3>1. models[r] = [force |-> 0]
      BY <2>1
    <3>2. DOMAIN [force |-> 0] = {"force"} /\ Numbers([force |-> 0])
      BY DEF Numbers
    <3> QED
      BY <2>1, <3>1, <3>2
  <2>2. CASE tf[r] # NoState
    BY <2>2, RecordedIs
  <2> QED
    BY <2>1, <2>2
<1>7. Launch(operations, models)
  BY <1>2
<1>8. ASSUME NEW r \in Proc, operations[r] = "none"
      PROVE  StateShows(r)' /\ StateConfigured(r)' /\ SlotTaken(r)'
  <2>1. tf'[r] = NoState /\ walk' = "refresh" /\ op'[r] = "none"
    BY <1>1, <1>6, <1>7, <1>8 DEF Launch
  <2> QED
    BY <2>1 DEF StateShows, StateConfigured, SlotTaken, NoState
<1> HIDE DEF operations, models
<1>9. operations["vlan"] # "update"
  BY <1>6, ResourcesAssumption
<1> QED
  BY <1>1, <1>3, <1>4, <1>5, <1>6, <1>7, <1>8, <1>9, LaunchKeeps

\* The apply starts, of what is not there or not as configured.
LEMMA PlanApplyKeeps == AllOK /\ PlanApply => AllOK'
<1> SUFFICES ASSUME AllOK, PlanApply PROVE AllOK'
  OBVIOUS
<1> DEFINE operations == [r \in Proc |-> IF tf[r] = NoState THEN "create"
                                         ELSE IF Drifted(r) THEN "update" ELSE "none"]
<1>1. /\ walk = "refresh" /\ failed = {} /\ walk' = "apply" /\ NewProcess
      /\ Launch(operations, config) /\ UNCHANGED <<config, tf, runs, failed, owner>>
      /\ \A r \in Proc : op[r] = "none"
  BY DEF PlanApply, Ended
<1>2. operations \in [Proc -> OpsOf[walk']]
  BY <1>1 DEF OpsOf
<1>3. ASSUME NEW r \in Proc
      PROVE  /\ "force" \in DOMAIN config[r] /\ Numbers(config[r])
             /\ DOMAIN config[r] \subseteq Attributes(r) \cup {"force"}
             /\ operations[r] # "delete"
             /\ operations[r] \in {"none", "update"} => tf[r] # NoState
             /\ operations[r] = "none" => ~Drifted(r)
  BY ConfigIs DEF AllOK
<1>4. Quiet' <=> Quiet
  BY <1>1 DEF Quiet, owner
<1>5. \A g \in Page : Now(g)' = Now(g)
  BY <1>1, NewProcessIs
<1>6. operations["vlan"] = "update" /\ Quiet' => Now("config").index # 0
  BY <1>1, <1>3, <1>4, ResourcesAssumption DEF AllOK, ResourceOK, SlotTaken
<1>7. ASSUME NEW r \in Proc, operations[r] = "none"
      PROVE  StateShows(r)' /\ StateConfigured(r)' /\ SlotTaken(r)'
  <2>1. op'[r] = "none" /\ op[r] = "none" /\ tf'[r] = tf[r] /\ tf[r] # NoState /\ ~Drifted(r)
        /\ r \notin failed /\ failed' = failed
    BY <1>1, <1>3, <1>7 DEF Launch
  <2>2. StateShows(r)'
    BY <1>4, <1>5, <2>1 DEF AllOK, ResourceOK, StateShows
  <2>3. StateConfigured(r)'
    BY <1>1, <2>1 DEF StateConfigured, Drifted, AsConfigured, NoState
  <2>4. SlotTaken(r)'
    <3>1. r = "vlan" /\ Quiet => Now("config").index # 0
      BY <1>1, <2>1 DEF AllOK, ResourceOK, SlotTaken
    <3> QED
      BY <1>4, <1>5, <3>1, ResourcesAssumption DEF SlotTaken
  <2> QED
    BY <2>2, <2>3, <2>4
<1>8. runs' \in 0..MaxRuns /\ failed' \subseteq Proc /\ disturbed' \in BOOLEAN
      /\ UNCHANGED <<ownerWrites, maker>>
  BY <1>1 DEF AllOK, WalkOK, owner
<1> HIDE DEF operations
<1> QED
  BY <1>1, <1>2, <1>3, <1>6, <1>7, <1>8, LaunchKeeps

\* The destroy starts, of what is there.
LEMMA PlanDestroyKeeps == AllOK /\ PlanDestroy => AllOK'
<1> SUFFICES ASSUME AllOK, PlanDestroy PROVE AllOK'
  OBVIOUS
<1> DEFINE operations == [r \in Proc |-> IF tf[r] = NoState THEN "none" ELSE "delete"]
<1>1. /\ walk = "refresh" /\ failed = {} /\ walk' = "destroy" /\ NewProcess
      /\ Launch(operations, tf) /\ UNCHANGED <<config, tf, runs, failed, owner>>
      /\ \A r \in Proc : op[r] = "none"
  BY DEF PlanDestroy, Ended
<1>2. operations \in [Proc -> OpsOf[walk']]
  BY <1>1 DEF OpsOf
<1>3. ASSUME NEW r \in Proc, operations[r] # "none"
      PROVE  /\ "force" \in DOMAIN tf[r] /\ Numbers(tf[r])
             /\ DOMAIN tf[r] = Attributes(r) \cup {"force"}
             /\ operations[r] = "delete"
  BY <1>3, RecordedIs
<1>4. ASSUME NEW r \in Proc, operations[r] = "none"
      PROVE  StateShows(r)' /\ StateConfigured(r)' /\ SlotTaken(r)'
  <2>1. tf'[r] = NoState /\ walk' = "destroy"
    BY <1>1, <1>4
  <2> QED
    BY <2>1 DEF StateShows, StateConfigured, SlotTaken, NoState
<1>5. operations["vlan"] # "update"
  BY ResourcesAssumption
<1>6. runs' \in 0..MaxRuns /\ failed' \subseteq Proc /\ disturbed' \in BOOLEAN
      /\ UNCHANGED <<ownerWrites, maker>>
  BY <1>1 DEF AllOK, WalkOK, owner
<1> HIDE DEF operations
<1> QED
  BY <1>1, <1>2, <1>3, <1>4, <1>5, <1>6, LaunchKeeps

----------------------------------------------------------------------------
(* Terraform ends, and the owner.                                          *)

\* A run ends.
LEMMA FinishKeeps == AllOK /\ Finish => AllOK'
<1> SUFFICES ASSUME AllOK, Finish PROVE AllOK'
  OBVIOUS
<1> USE DEF AllOK
<1>1. /\ \A r \in Proc : op[r] = "none" /\ op'[r] = "none"
      /\ walk' = "idle" /\ UNCHANGED <<cacheVars, config, tf, runs, failed, work, content, owner>>
  BY DEF Finish, Ended, work
<1>2. \A r \in Proc : todo[r] = <<>> /\ pc[r] = "idle" /\ Ahead(r)' = {}
  BY <1>1, BusyHasOperation, NothingAhead DEF Ahead, work
<1>3. UNCHANGED vars
  BY <1>1 DEF cacheVars
<1>4. ClientOK'
  BY <1>1, <1>3, ClientStep DEF vars
<1>5. WalkOK'
  <2>1. op' \in [Proc -> OpsOf[walk']]
    BY <1>1 DEF WalkOK, OpsOf, work
  <2> QED
    BY <1>1, <1>3, <2>1 DEF WalkOK, work, owner
<1>6. PVIDNamesAVLAN'
  BY <1>1, <1>3 DEF PVIDNamesAVLAN, Now, vars
<1>7. ~Quiet'
  BY <1>1 DEF Quiet
<1>8. ASSUME NEW r \in Proc PROVE ResourceOK(r)'
  <2>0. op'[r] = "none" /\ todo'[r] = <<>> /\ pc'[r] = "idle" /\ Ahead(r)' = {} /\ tf' = tf
    BY <1>1, <1>2, <1>3 DEF work, vars
  <2>1. TodoOK(r)' /\ CallOK(r)' /\ ReadBackOK(r)' /\ VersionsAgree(r)'
    BY <1>7, <2>0, NothingAhead DEF TodoOK, CallOK, ReadBackOK, VersionsAgree
  <2>2. /\ ModelTyped(r)' /\ ModelShows(r)' /\ ModelConfigured(r)' /\ NameWritten(r)'
        /\ StateShows(r)' /\ SlotTaken(r)' /\ SlotIsOurs(r)'
    BY <1>7, <2>0 DEF ModelTyped, ModelShows, ModelConfigured, NameWritten, StateShows,
                      SlotTaken, SlotIsOurs
  <2>3. StateTyped(r)' /\ StateConfigured(r)'
    BY <1>1, <2>0 DEF ResourceOK, StateTyped, StateConfigured, Numbers
  <2> QED
    BY <2>1, <2>2, <2>3 DEF ResourceOK
<1> QED
  BY <1>4, <1>5, <1>6, <1>8

\* Nothing happens any more.
LEMMA StutterKeeps == AllOK /\ UNCHANGED allVars => AllOK'
<1> SUFFICES ASSUME AllOK, UNCHANGED allVars PROVE AllOK'
  OBVIOUS
<1>1. UNCHANGED vars /\ Stay
  BY DEF allVars, cacheVars, Stay
<1>2. ClientOK'
  BY <1>1, ClientStep DEF AllOK, vars, Stay
<1> QED
  BY <1>1, <1>2, NobodyMoves DEF vars

\* The owner adds a version of a page.
LEMMA OwnerAdds ==
    ASSUME AllOK, OwnerWrites
    PROVE  /\ ClientOK' /\ PVIDNamesAVLAN' /\ maker' \in {"nobody", "owner", "provider"}
           /\ \A g \in Page : \A v \in 1..Len(content[g]) :
                v \in 1..Len(content'[g]) /\ content'[g][v] = content[g][v]
<1>1. PICK c \in OwnerChanges :
           LET values == [Now(c.page) EXCEPT ![c.attr] = c.value]
           IN  /\ stored[c.page] < MaxWrites
               /\ c.page = "config" => (values.pvid = VID => values.index # 0)
               /\ content' = [content EXCEPT ![c.page] = Append(content[c.page], values)]
               /\ stored' = [stored EXCEPT ![c.page] = stored[c.page] + 1]
               /\ maker' = IF c.attr # "index" THEN maker
                           ELSE IF c.value = 0 THEN "nobody" ELSE "owner"
  BY DEF OwnerWrites
<1> DEFINE g == c.page
           values == [Now(g) EXCEPT ![c.attr] = c.value]
<1>2. UNCHANGED <<cache, lock, pc, page, got, began, overlapped>>
  BY DEF OwnerWrites, call
<1>3. g \in Page /\ c.value \in Int /\ \E r \in Proc : c.attr \in Attrs(r, g)
  BY OwnerAssumption
<1>4. /\ stored[g] \in Nat /\ content[g] \in Seq(Values(g)) /\ Len(content[g]) = stored[g] + 1
      /\ Now(g) \in Values(g)
  BY <1>3, NowIs DEF AllOK, ClientOK, ContentOK
<1>5. values \in Values(g)
  BY <1>3, <1>4 DEF Values
<1>6. g = "config" => (values.pvid = VID => values.index # 0)
  BY <1>1
<1>7. stored[g] < MaxWrites /\ stored' = [stored EXCEPT ![g] = stored[g] + 1]
      /\ content' = [content EXCEPT ![g] = Append(content[g], values)]
  BY <1>1
<1> HIDE DEF values, g
<1>8. /\ ContentOK' /\ content'[g][stored'[g] + 1] = values
      /\ \A h \in Page \ {g} : content'[h] = content[h] /\ stored'[h] = stored[h]
      /\ \A h \in Page : \A v \in 1..Len(content[h]) :
           v \in 1..Len(content'[h]) /\ content'[h][v] = content[h][v]
  BY <1>3, <1>5, <1>7, VersionAdded DEF AllOK
<1>9. TypeOK'
  <2>1. stored[g] + 1 \in 0..MaxWrites
    BY <1>4, <1>7, CacheAssumption
  <2>2. stored' \in [Page -> 0..MaxWrites]
    BY <1>7, <2>1 DEF AllOK, ClientOK, TypeOK
  <2> QED
    BY <1>2, <2>2 DEF AllOK, ClientOK, TypeOK
<1>10. VersionsOK'
  <2>1. ASSUME NEW h \in Page PROVE 0..stored[h] \subseteq 0..stored'[h]
    <3>1. stored[h] \in Nat /\ (stored'[h] = stored[h] \/ stored'[h] = stored[h] + 1)
      BY <1>7, NowIs DEF AllOK, ClientOK, TypeOK
    <3> QED
      BY <3>1
  <2> QED
    BY <1>2, <2>1 DEF AllOK, ClientOK, VersionsOK, TypeOK
<1>11. PVIDNamesAVLAN'
  <2>1. CASE g = "config"
    <3>1. Now("config")' = values
      BY <1>8, <2>1 DEF Now
    <3> QED
      BY <1>6, <2>1, <3>1 DEF PVIDNamesAVLAN
  <2>2. CASE g # "config"
    BY <1>8, <2>2, ResourcesAssumption DEF AllOK, PVIDNamesAVLAN, Now
  <2> QED
    BY <2>1, <2>2
<1>12. maker' \in {"nobody", "owner", "provider"}
  BY <1>1 DEF AllOK, WalkOK
<1> QED
  BY <1>8, <1>9, <1>10, <1>11, <1>12 DEF ClientOK

\* What the owner changes during a run is not held against the resources.
LEMMA OwnerWritesKeeps == AllOK /\ OwnerWrites => AllOK'
<1> SUFFICES ASSUME AllOK, OwnerWrites PROVE AllOK'
  OBVIOUS
<1>1. /\ UNCHANGED <<pc, page, got, terraform, work>> /\ disturbed' = (walk # "idle")
      /\ ownerWrites < MaxOwnerWrites /\ ownerWrites' = ownerWrites + 1
  BY DEF OwnerWrites, call
<1>2. ~Quiet'
  BY <1>1 DEF Quiet, terraform
<1>3. \A q \in Proc : Unmoved(q) /\ SameCall(q) /\ Grown(q)
  BY <1>1, <1>2, OwnerAdds DEF Unmoved, SameCall, Grown, terraform, work
<1>4. \A q \in Proc : ResourceOK(q)'
  BY <1>2, <1>3, OwnerAdds, BystanderKept DEF AllOK
<1>5. WalkOK'
  <2>1. ownerWrites' \in 0..MaxOwnerWrites /\ disturbed' \in BOOLEAN
    BY <1>1, ResourcesAssumption DEF AllOK, WalkOK
  <2> QED
    BY <1>1, <2>1, OwnerAdds DEF AllOK, WalkOK, terraform, work
<1> QED
  BY <1>4, <1>5, OwnerAdds DEF AllOK

----------------------------------------------------------------------------
(* The theorems.                                                           *)

\* Before Terraform runs for the first time all is well.
LEMMA InitKeeps == ResourcesInit => AllOK
<1> SUFFICES ASSUME ResourcesInit PROVE AllOK
  OBVIOUS
<1>1. PICK setup \in Setups :
           config = setup.config /\ content = [g \in Page |-> <<setup.device[g]>>]
  BY DEF ResourcesInit
<1>2. /\ \A g \in Page : setup.device[g] \in Values(g)
      /\ setup.device["config"].pvid = VID => setup.device["config"].index # 0
  BY SetupsAssumption
<1>3. ASSUME NEW g \in Page
      PROVE  content[g] \in Seq(Values(g)) /\ Len(content[g]) = stored[g] + 1
             /\ Now(g) = setup.device[g]
  <2> DEFINE now == setup.device[g]
  <2>1. content[g] = <<now>> /\ stored[g] = 0 /\ now \in Values(g)
    BY <1>1, <1>2 DEF ResourcesInit
  <2> HIDE DEF now
  <2>2. <<now>> \in Seq(Values(g)) /\ Len(<<now>>) = 1 /\ <<now>>[1] = now
    BY <2>1
  <2> QED
    BY <2>1, <2>2 DEF now, Now
<1>4. ContentOK
  BY <1>1, <1>3 DEF ContentOK
<1>5. TypeOK /\ VersionsOK
  BY CacheAssumption, ResourcesAssumption DEF ResourcesInit, TypeOK, VersionsOK
<1>6. WalkOK
  <2>1. OpsOf["idle"] = {"none"}
    BY DEF OpsOf
  <2>2. op \in [Proc -> OpsOf[walk]]
    BY <2>1 DEF ResourcesInit
  <2>3. todo \in [Proc -> Seq(Stages)]
    BY NothingAhead DEF ResourcesInit
  <2>4. model = [r \in Proc |-> model[r]] /\ tf = [r \in Proc |-> tf[r]]
    BY DEF ResourcesInit
  <2>5. runs \in 0..MaxRuns /\ ownerWrites \in 0..MaxOwnerWrites
    BY ResourcesAssumption DEF ResourcesInit
  <2>6. /\ walk = "idle" /\ failed \subseteq Proc /\ disturbed \in BOOLEAN
        /\ maker \in {"nobody", "owner", "provider"}
    BY DEF ResourcesInit
  <2> QED
    BY <1>1, <2>2, <2>3, <2>4, <2>5, <2>6 DEF WalkOK
<1>7. PVIDNamesAVLAN
  BY <1>2, <1>3, ResourcesAssumption DEF PVIDNamesAVLAN
<1>8. ASSUME NEW r \in Proc PROVE ResourceOK(r)
  <2>0. /\ op[r] = "none" /\ todo[r] = <<>> /\ pc[r] = "idle" /\ tf[r] = NoState /\ ~Quiet
        /\ walk = "idle"
    BY DEF ResourcesInit, Quiet
  <2>1. TodoOK(r) /\ CallOK(r) /\ ReadBackOK(r) /\ VersionsAgree(r)
    BY <2>0, NothingAhead DEF TodoOK, CallOK, ReadBackOK, VersionsAgree, Ahead
  <2>2. /\ ModelTyped(r) /\ ModelShows(r) /\ ModelConfigured(r) /\ NameWritten(r)
        /\ StateShows(r) /\ SlotTaken(r) /\ SlotIsOurs(r) /\ StateTyped(r) /\ StateConfigured(r)
    BY <2>0 DEF ModelTyped, ModelShows, ModelConfigured, NameWritten, StateShows,
                SlotTaken, SlotIsOurs, StateTyped, StateConfigured
  <2> QED
    BY <2>1, <2>2 DEF ResourceOK
<1> QED
  BY <1>4, <1>5, <1>6, <1>7, <1>8 DEF AllOK, ClientOK

\* Every step keeps all well.
LEMMA StepKeeps == AllOK /\ [ResourcesNext]_allVars => AllOK'
<1> SUFFICES ASSUME AllOK, [ResourcesNext]_allVars PROVE AllOK'
  OBVIOUS
<1>1. ASSUME NEW r \in Proc, StartRead(r) \/ StartWrite(r) \/ Within(r) \/ ReadBreaks(r)
      PROVE  AllOK'
  BY <1>1, StartReadKeeps, StartWriteKeeps, WithinKeeps, ReadBreaksKeeps
<1>2. ASSUME NEW r \in Proc, Effect(r) \/ Answered(r) \/ Fails(r) \/ SkipWrite(r)
      PROVE  AllOK'
  BY <1>2, EffectKeeps, AnsweredKeeps, FailsKeeps, SkipWriteKeeps
<1>3. ASSUME NEW r \in Proc, Unreadable(r) \/ Check(r) \/ Table(r) \/ Identify(r)
      PROVE  AllOK'
  BY <1>3, UnreadableKeeps, CheckKeeps, TableKeeps, IdentifyKeeps
<1>4. ASSUME NEW r \in Proc, Record(r) \/ Skipped(r)
      PROVE  AllOK'
  BY <1>4, RecordKeeps, SkippedKeeps
<1>5. CASE StartRun \/ PlanApply \/ PlanDestroy \/ Finish \/ OwnerWrites
  BY <1>5, StartRunKeeps, PlanApplyKeeps, PlanDestroyKeeps, FinishKeeps, OwnerWritesKeeps
<1>6. ASSUME NEW g \in Page, Expiry(g) PROVE AllOK'
  BY <1>6, ExpiryKeeps
<1>7. CASE Over \/ UNCHANGED allVars
  BY <1>7, StutterKeeps DEF Over
<1> QED
  BY <1>1, <1>2, <1>3, <1>4, <1>5, <1>6, <1>7 DEF ResourcesNext

\* The inductive invariant: whatever the resources have still to do, what they
\* have read is what the device has, and what they have done is as configured.
THEOREM ResourcesInvariant == ResourcesSpec => []AllOK
  BY InitKeeps, StepKeeps, PTL DEF ResourcesSpec

\* The variables have their types.
THEOREM ResourcesTypesCorrect == ResourcesSpec => []ResourcesTypeOK
<1>1. AllOK => ResourcesTypeOK
  <2> SUFFICES ASSUME AllOK PROVE ResourcesTypeOK
    OBVIOUS
  <2>1. op \in [Proc -> {"none", "create", "update", "delete", "refresh", "import"}]
    BY OpIs DEF AllOK, WalkOK, Ops
  <2>2. ASSUME NEW r \in Proc, NEW i \in DOMAIN todo[r]
        PROVE  todo[r][i] \in [do : {"check", "table", "info", "read", "write"}, page : Page]
    <3>1. todo[r] \in Seq(Stages)
      BY DEF AllOK, WalkOK
    <3>2. i \in 1..Len(todo[r])
      BY <3>1
    <3>3. todo[r][i] \in Stages
      BY <3>1, <3>2, ElementOfSeq
    <3> QED
      BY <3>3 DEF Stages
  <2>3. \A r \in Proc : tf[r] # NoState => DOMAIN tf[r] = Attributes(r) \cup {"force"}
    BY RecordedIs
  <2> QED
    BY <2>1, <2>2, <2>3 DEF AllOK, WalkOK, ClientOK, ContentOK, ResourcesTypeOK
<1> QED
  BY <1>1, ResourcesInvariant, PTL

\* However a run breaks off, and whatever the owner does meanwhile, no port is
\* left with a PVID that names no VLAN (ErrInUseAsPVID, and WritePort's check).
THEOREM PVIDsNameVLANs == ResourcesSpec => []PVIDNamesAVLAN
<1>1. AllOK => PVIDNamesAVLAN
  BY DEF AllOK
<1> QED
  BY <1>1, ResourcesInvariant, PTL

\* What a run that the owner left alone records is what the device has
\* (cache_test.go:67).
THEOREM StateIsDevice == ResourcesSpec => []RecordedIsDevice
<1>1. AllOK => RecordedIsDevice
  <2> SUFFICES ASSUME AllOK, Ended, ~disturbed, NEW r \in Proc \ failed, tf[r] # NoState,
                      NEW a \in Attributes(r), a = "pps" => Told(a)
               PROVE  tf[r][a] = OnDevice(r, a)
    BY DEF RecordedIsDevice
  <2>1. PICK g \in Page : a \in Attrs(r, g) /\ PageOf(r, a) = g
    BY AttributesAre
  <2>2. Quiet /\ op[r] = "none"
    BY DEF Ended, Quiet
  <2>3. a = "pps" => Now(g).storm = 1
    BY <2>1, AttrsAre, ResourcesAssumption DEF Told
  <2>4. tf[r][a] = Now(g)[a]
    BY <2>1, <2>2, <2>3 DEF AllOK, ResourceOK, StateShows
  <2> QED
    BY <2>1, <2>4 DEF OnDevice
<1> QED
  BY <1>1, ResourcesInvariant, PTL

\* An apply without errors, left alone by the owner, leaves the device as it is
\* configured.
THEOREM AppliesConverge == ResourcesSpec => []CleanRunConverges
<1>1. AllOK => CleanRunConverges
  <2> SUFFICES ASSUME AllOK, Ended, walk = "apply", failed = {}, ~disturbed
               PROVE  /\ Now("config").index # 0
                      /\ \A r \in Proc : \A a \in Attributes(r) \cap DOMAIN config[r] :
                           Told(a) => OnDevice(r, a) = config[r][a]
    BY DEF CleanRunConverges
  <2>1. Quiet /\ \A r \in Proc : op[r] = "none"
    BY DEF Ended, Quiet
  <2>2. ASSUME NEW r \in Proc
        PROVE  tf[r] # NoState /\ \A a \in DOMAIN config[r] \ {"force"} : AsConfigured(r, a, tf[r])
    BY <2>1 DEF AllOK, ResourceOK, StateConfigured
  <2>3. Now("config").index # 0
    <3>1. "vlan" \in Proc /\ tf["vlan"] # NoState
      BY <2>2, ResourcesAssumption
    <3> QED
      BY <2>1, <3>1 DEF AllOK, ResourceOK, SlotTaken
  <2>4. ASSUME NEW r \in Proc, NEW a \in Attributes(r) \cap DOMAIN config[r], Told(a)
        PROVE  OnDevice(r, a) = config[r][a]
    <3>1. PICK g \in Page : a \in Attrs(r, g) /\ PageOf(r, a) = g
      BY AttributesAre
    <3>2. a # "force"
      BY <3>1, AttrsDiffer
    <3>3. \A b \in Attrs(r, g) : (b = "pps" => Now(g).storm = 1) => tf[r][b] = Now(g)[b]
      BY <2>1, <2>2 DEF AllOK, ResourceOK, StateShows
    <3>4. /\ a = "pps" => Now(g).storm = 1
          /\ a = "router" => Now(g).snoop = 1 /\ "snoop" \in Attrs(r, g)
      BY <2>4, <3>1, AttrsAre, ResourcesAssumption DEF Told
    <3>5. tf[r][a] = Now(g)[a]
      BY <3>1, <3>3, <3>4
    <3>6. a = "router" => tf[r].snoop = 1
      BY <3>3, <3>4
    <3>7. tf[r][a] = config[r][a]
      BY <2>2, <2>4, <3>2, <3>6 DEF AsConfigured
    <3> QED
      BY <3>1, <3>5, <3>7 DEF OnDevice
  <2> QED
    BY <2>3, <2>4
<1> QED
  BY <1>1, ResourcesInvariant, PTL

----------------------------------------------------------------------------
(* The action properties.                                                  *)

\* An operation of a resource is finished by Record only, if without an error:
\* what else ends one reports an error, or ends a refresh of a VLAN that is gone.
LEMMA OperationEnds ==
    ASSUME AllOK, [ResourcesNext]_allVars, NEW r \in Proc,
           op[r] \in {"create", "update"}, op'[r] = "none", r \notin failed'
    PROVE  Record(r)
<1>0. op = [q \in Proc |-> op[q]] /\ op'[r] # op[r] /\ walk # "idle"
  BY OpIs DEF AllOK, WalkOK
<1>1. ASSUME NEW q \in Proc, GiveUp(q) PROVE FALSE
  BY <1>0, <1>1 DEF GiveUp
<1>2. ASSUME NEW q \in Proc, StartRead(q) \/ StartWrite(q) \/ Within(q) \/ Effect(q) PROVE FALSE
  BY <1>0, <1>2 DEF StartRead, StartWrite, Within, Effect, Stay, work
<1>3. ASSUME NEW q \in Proc, SkipWrite(q) \/ Answered(q) \/ Identify(q) PROVE FALSE
  BY <1>0, <1>3 DEF SkipWrite, Answered, Identify, Advance
<1>4. ASSUME NEW q \in Proc, ReadBreaks(q) PROVE FALSE
  BY <1>0, <1>1, <1>4 DEF ReadBreaks, work
<1>5. ASSUME NEW q \in Proc, Fails(q) \/ Unreadable(q) \/ Skipped(q) PROVE FALSE
  BY <1>1, <1>5 DEF Fails, Unreadable, Skipped
<1>6. ASSUME NEW q \in Proc, Check(q) PROVE FALSE
  BY <1>0, <1>1, <1>6 DEF Check, Advance
<1>7. ASSUME NEW q \in Proc, Table(q) PROVE FALSE
  <2>1. op'[q] # op[q] => op[q] # "update"
    BY <1>1, <1>7 DEF Table, Advance
  <2>2. q = r
    BY <1>0, <1>1, <1>7 DEF Table, Advance
  <2>3. todo[q] # <<>> /\ Head(todo[q]).do = "table" /\ todo[q] \in Seq(Stages)
    BY <1>7 DEF Table, Unlocked, At, AllOK, WalkOK
  <2>4. Head(todo[q]) \in Ahead(q)
    BY <2>3, HeadAndTail DEF Ahead
  <2>5. op[q] # "create"
    BY <2>3, <2>4 DEF AllOK, ResourceOK, TodoOK, StageOK, StageFits
  <2> QED
    BY <1>0, <2>1, <2>2, <2>5
<1>8. ASSUME NEW q \in Proc, Record(q) PROVE q = r
  BY <1>0, <1>8 DEF Record
<1>9. ~StartRun /\ ~PlanApply /\ ~PlanDestroy
  BY <1>0 DEF StartRun, PlanApply, PlanDestroy, Ended
<1>10. CASE Finish \/ OwnerWrites \/ Over \/ UNCHANGED allVars
  BY <1>0, <1>10 DEF Finish, OwnerWrites, Over, allVars, work
<1>11. ASSUME NEW g \in Page, Expiry(g) PROVE FALSE
  BY <1>0, <1>11 DEF Expiry, Stay, work
<1> QED
  BY <1>2, <1>3, <1>4, <1>5, <1>6, <1>7, <1>8, <1>9, <1>10, <1>11 DEF ResourcesNext

\* A write leaves the attributes alone that the configuration leaves out: the
\* values that it carries of them were read earlier, but are the device's still.
LEMMA EffectOmits ==
    ASSUME AllOK, NEW r \in Proc, Effect(r), walk # "idle", ~disturbed,
           NEW q \in Proc, NEW g \in Page, NEW a \in Attrs(q, g) \ {"index"},
           a \notin DOMAIN config[q]
    PROVE  Now(g)'[a] = Now(g)[a]
<1>1. CASE g # page[r]
  BY <1>1, Applied DEF Now
<1>2. CASE g = page[r]
  <2>1. ToWrite(r, g) /\ pc[r] = "write" /\ ResourceOK(r)
    BY <1>2, Applied DEF AllOK
  <2>2. PICK values \in Effects(r, g, Now(g)) : Now(g)' = values
    BY <1>2, Applied
  <2>3. CASE q # r
    BY <2>1, <2>2, <2>3, EffectIs DEF AllOK
  <2>4. CASE q = r
    <3>1. r # "vlan"
      BY <2>4, AttrsAre, ResourcesAssumption
    <3>2. g # "config" /\ Wanted(r, g)[a] = model[r][a]
      BY <2>1, <2>4, <3>1, WantedIs DEF AllOK
    <3>3. Fresh(r, g) /\ Remains(r, g) /\ op[r] \in {"create", "update"}
      BY <2>1, <3>1, <3>2, NextWrite DEF AllOK
    <3>4. Quiet /\ ~Underway(r, g)
      BY <2>1 DEF Quiet, Underway
    <3>5. model[r][a] = Now(g)[a]
      BY <2>1, <2>4, <3>3, <3>4 DEF ResourceOK, ModelShows
    <3>6. values[a] = Now(g)[a] \/ values[a] = Wanted(r, g)[a]
      BY <2>1, <2>2, <2>4, <3>1, EffectIs DEF AllOK
    <3> QED
      BY <2>2, <3>2, <3>5, <3>6
  <2> QED
    BY <2>3, <2>4
<1> QED
  BY <1>1, <1>2

\* No step but a write of a resource or of the owner changes what the device shows.
LEMMA DeviceKept ==
    ASSUME AllOK, [ResourcesNext]_allVars, NEW g \in Page
    PROVE  Now(g)' = Now(g) \/ OwnerWrites \/ \E r \in Proc : Effect(r)
<1>1. (stored' = stored /\ content' = content) => Now(g)' = Now(g)
  BY DEF Now
<1>2. ASSUME NEW r \in Proc, StartRead(r) \/ StartWrite(r)
      PROVE  stored' = stored /\ content' = content
  BY <1>2 DEF StartRead, StartWrite, Call, Stay
<1>3. ASSUME NEW r \in Proc, Within(r)
      PROVE  stored' = stored /\ content' = content
  BY <1>3 DEF Within, Stay, CacheHit, CacheMiss, AcquireRead, Acquire, ReadPage, Fetch,
              ReleaseRead, Release, Store, Forget, AcquireWrite, NothingToApply,
              WriteRefused, ReadBack, WriteFails, ReleaseWrite
<1>4. ASSUME NEW r \in Proc, ReadBreaks(r) \/ Answered(r) \/ Fails(r)
      PROVE  stored' = stored /\ content' = content
  BY <1>4 DEF ReadBreaks, Answered, Fails, ReadVLANTable, ReadFails, Release, Return
<1>5. ASSUME NEW r \in Proc, SkipWrite(r) \/ Record(r) \/ Skipped(r)
      PROVE  stored' = stored /\ content' = content
  BY <1>5 DEF SkipWrite, Record, Skipped, cacheVars, vars
<1>6. ASSUME NEW r \in Proc, Unreadable(r) \/ Check(r) \/ Table(r) \/ Identify(r)
      PROVE  stored' = stored /\ content' = content
  BY <1>6 DEF Unreadable, Check, Table, Identify, Unlocked, cacheVars, vars
<1>7. CASE StartRun \/ PlanApply \/ PlanDestroy
  BY <1>7, NewProcessIs DEF StartRun, PlanApply, PlanDestroy
<1>8. CASE Finish \/ Over \/ UNCHANGED allVars
  BY <1>1, <1>8 DEF Finish, Over, allVars, cacheVars, vars
<1>9. ASSUME NEW h \in Page, Expiry(h) PROVE stored' = stored /\ content' = content
  BY <1>9 DEF Expiry, Expire, Stay
<1> QED
  BY <1>1, <1>2, <1>3, <1>4, <1>5, <1>6, <1>7, <1>8, <1>9 DEF ResourcesNext

\* An attribute that the configuration leaves out keeps what the switch has
\* (resource_port.go:297), while the owner changes nothing.
THEOREM OmittedAttributesKept == ResourcesSpec => OmittedKept
<1>1. AllOK /\ [ResourcesNext]_allVars =>
        (walk # "idle" /\ ~disturbed' =>
           \A r \in Proc : \A a \in Attributes(r) \ DOMAIN config[r] :
               a # "index" => OnDevice(r, a)' = OnDevice(r, a))
  <2> SUFFICES ASSUME AllOK, [ResourcesNext]_allVars, walk # "idle", ~disturbed',
                      NEW r \in Proc, NEW a \in Attributes(r) \ DOMAIN config[r], a # "index"
               PROVE  OnDevice(r, a)' = OnDevice(r, a)
    OBVIOUS
  <2>1. PICK g \in Page : a \in Attrs(r, g) /\ PageOf(r, a) = g
    BY AttributesAre
  <2>2. ~OwnerWrites
    BY DEF OwnerWrites
  <2>3. ASSUME NEW q \in Proc, Effect(q) PROVE Now(g)'[a] = Now(g)[a]
    <3>1. ~disturbed
      BY <2>3 DEF Effect
    <3> QED
      BY <2>1, <2>3, <3>1, EffectOmits
  <2>4. Now(g)'[a] = Now(g)[a]
    BY <2>2, <2>3, DeviceKept
  <2>5. OnDevice(r, a) = Now(g)[a] /\ OnDevice(r, a)' = Now(g)'[a]
    BY <2>1 DEF OnDevice
  <2> QED
    BY <2>4, <2>5
<1> QED
  BY <1>1, ResourcesInvariant, PTL DEF ResourcesSpec, OmittedKept

\* What a create or an update records has the values that the configuration
\* gives it (resource_vlan.go:233).
THEOREM ConfiguredIsRecorded == ResourcesSpec => RecordedAsConfigured
<1>1. AllOK /\ [ResourcesNext]_allVars =>
        \A r \in Proc :
          op[r] \in {"create", "update"} /\ op'[r] = "none" /\ r \notin failed' =>
            \A a \in DOMAIN config[r] :
                \/ a = "router" /\ tf'[r].snoop # 1
                \/ a = "name" /\ disturbed
                \/ tf'[r][a] = config[r][a]
  <2> SUFFICES ASSUME AllOK, [ResourcesNext]_allVars, NEW r \in Proc,
                      op[r] \in {"create", "update"}, op'[r] = "none", r \notin failed',
                      NEW a \in DOMAIN config[r]
               PROVE  \/ a = "router" /\ tf'[r].snoop # 1
                      \/ a = "name" /\ disturbed
                      \/ tf'[r][a] = config[r][a]
    OBVIOUS
  <2>1. tf'[r] = model[r] /\ todo[r] = <<>>
    BY OperationEnds DEF Record, AllOK, WalkOK
  <2>2. \A g \in Page : ~Remains(r, g)
    BY <2>1, NothingAhead DEF Remains, Ahead
  <2>3. ModelConfigured(r)
    BY DEF AllOK, ResourceOK
  <2>4. CASE a = "force"
    BY <2>1, <2>3, <2>4 DEF ModelConfigured
  <2>5. CASE a # "force"
    <3>1. PICK g \in Page : a \in Attrs(r, g)
      BY <2>5, ConfigIs, AttributesAre DEF AllOK
    <3>2. AsConfigured(r, a, model[r])
      BY <2>2, <2>3, <3>1 DEF ModelConfigured
    <3> QED
      BY <2>1, <3>2 DEF AsConfigured
  <2> QED
    BY <2>4, <2>5
<1> QED
  BY <1>1, ResourcesInvariant, PTL DEF ResourcesSpec, RecordedAsConfigured

\* Create never takes ownership of a VLAN that nobody declared
\* (resource_vlan.go:90), while the owner changes nothing.
THEOREM CreatesItsOwn == ResourcesSpec => CreatedIsOurs
<1>1. AllOK /\ [ResourcesNext]_allVars =>
        (op["vlan"] = "create" /\ op'["vlan"] = "none" /\ "vlan" \notin failed' /\ ~disturbed
         => maker = "provider")
  <2> SUFFICES ASSUME AllOK, [ResourcesNext]_allVars, op["vlan"] = "create",
                      op'["vlan"] = "none", "vlan" \notin failed', ~disturbed
               PROVE  maker = "provider"
    OBVIOUS
  <2>0. "vlan" \in Proc
    BY ResourcesAssumption
  <2>1. todo["vlan"] = <<>>
    BY <2>0, OperationEnds DEF Record
  <2>2. Ahead("vlan") = {}
    BY <2>1, NothingAhead DEF Ahead
  <2>3. Quiet
    BY <2>0, OpIs DEF AllOK, Quiet
  <2> QED
    BY <2>0, <2>1, <2>2, <2>3 DEF AllOK, ResourceOK, SlotIsOurs
<1> QED
  BY <1>1, ResourcesInvariant, PTL DEF ResourcesSpec, CreatedIsOurs
=============================================================================
