----------------------------- MODULE Resources -----------------------------
(***************************************************************************)
(* The resources of internal/provider (resource_vlan.go, resource_port.go, *)
(* resource_system.go) as Terraform runs them: one VLAN, one port and the  *)
(* switch itself, each in a goroutine of its own, over one client and its  *)
(* cache (ConfigCache).                                                    *)
(*                                                                         *)
(* An operation of a resource is a path of stages, each a call of the      *)
(* client.  A version of a page is the values it shows; an attribute of a  *)
(* kind stands for all that are treated like it (speed for enabled and     *)
(* flow_control, led for eee, snmp, drop and uplink, ingress for egress,   *)
(* pvid for the port's whole 802.1Q view).  What a write is refused for    *)
(* without force is the business of VlanDriver and SettingsDriver.         *)
(***************************************************************************)
EXTENDS ConfigCache, Integers, Sequences, Functions

CONSTANTS
    Setups,         \* a configuration [Proc -> attribute :> value], and what the
                    \* switch holds at first [Page -> attribute :> value]
    Imports,        \* the sets of resources that may be imported together
    OwnerChanges,   \* what the owner may set: [page, attr, value]
    MaxOwnerWrites, \* bound: changes made by the owner
    MaxRuns,        \* bound: runs of Terraform
    VID             \* the id of the VLAN

\* The attributes of a resource that a page shows.
Attrs(r, g) ==
    CASE r = "vlan" /\ g = "config" -> {"index"}
      [] r = "port" /\ g = "config" -> {"pvid"}
      [] r = "port" /\ g = "settings" -> {"speed"}
      [] r = "port" /\ g = "management" -> {"ingress"}
      [] r = "system" /\ g = "info" -> {"name"}
      [] r = "system" /\ g = "settings" -> {"loop", "storm", "pps"}
      [] r = "system" /\ g = "management" -> {"led", "snoop", "router"}
      [] OTHER -> {}

Attributes(r) == UNION {Attrs(r, g) : g \in Page}

\* What a page shows.
Values(g) == [UNION {Attrs(r, g) : r \in Proc} -> Int]

ASSUME ResourcesAssumption ==
    /\ Proc = {"vlan", "port", "system"}
    /\ Page = {"config", "settings", "management", "info"}
    /\ MaxOwnerWrites \in Nat /\ MaxRuns \in Nat
    /\ VID \in 2..4094

\* A configuration gives values to some attributes, a PVID among them, and has
\* no say in the slot of a VLAN; "force" has a default.  What the switch holds
\* at first are pages, and no PVID is the id of a VLAN that is not there.
ASSUME SetupsAssumption ==
    \A setup \in Setups :
        /\ \A r \in Proc :
             /\ "force" \in DOMAIN setup.config[r]
             /\ DOMAIN setup.config[r] \subseteq (Attributes(r) \ {"index"}) \cup {"force"}
             /\ \A a \in DOMAIN setup.config[r] : setup.config[r][a] \in Int
        /\ "pvid" \in DOMAIN setup.config["port"]
        /\ \A g \in Page : setup.device[g] \in Values(g)
        /\ setup.device["config"].pvid = VID => setup.device["config"].index # 0

ASSUME OwnerAssumption ==
    \A c \in OwnerChanges :
        /\ c.page \in Page /\ c.value \in Int
        /\ \E r \in Proc : c.attr \in Attrs(r, c.page)

VARIABLES
    config,     \* the configuration: the attributes it sets, with their values
    tf,         \* [Proc -> values or NoState]: Terraform's state
    walk,       \* "idle", "refresh", "apply" or "destroy"
    runs,       \* runs of Terraform so far
    op,         \* [Proc -> operation]: what a resource still has to finish
    todo,       \* [Proc -> Seq(stage)]: the stages left of it
    model,      \* [Proc -> values]: the plan, or state, of the operation
    failed,     \* the resources that reported an error, or were skipped, in this run
    content,    \* [Page -> Seq(values)]: what each version of a page shows
    disturbed,  \* has the owner changed anything since the run began (history)
    ownerWrites,
    maker       \* who made the VLAN: "nobody", "owner" or "provider" (history)

cacheVars == vars
terraform == <<config, tf, walk, runs, failed>>
work == <<op, todo, model>>
owner == <<disturbed, ownerWrites, maker>>
allVars == <<cacheVars, terraform, work, content, owner>>

\* The resource is not in Terraform's state.
NoState == <<>>

Now(g) == content[g][stored[g] + 1]

\* New values, and those before of the attributes that they leave out.
Adding(values, before) ==
    [a \in DOMAIN values \cup DOMAIN before |->
       IF a \in DOMAIN values THEN values[a] ELSE before[a]]

\* applyPort, applySettings, applyRates, applySystem: a page, copied into the model.
Copied(r, g, values) == Adding(Restrict(values, Attrs(r, g)), model[r])

ResourcesInit ==
    /\ stored = [g \in Page |-> 0]
    /\ cache = [g \in Page |-> Absent]
    /\ lock = Nobody
    /\ pc = [r \in Proc |-> "idle"]
    /\ page = [r \in Proc |-> "config"]
    /\ got = [r \in Proc |-> 0]
    /\ began = [r \in Proc |-> 0]
    /\ overlapped = [r \in Proc |-> FALSE]
    /\ \E setup \in Setups :
         /\ config = setup.config
         /\ content = [g \in Page |-> <<setup.device[g]>>]
    /\ tf = [r \in Proc |-> NoState]
    /\ walk = "idle" /\ runs = 0
    /\ op = [r \in Proc |-> "none"]
    /\ todo = [r \in Proc |-> <<>>]
    /\ model = [r \in Proc |-> <<>>]
    /\ failed = {}
    /\ disturbed = FALSE /\ ownerWrites = 0
    /\ maker = IF Now("config").index = 0 THEN "nobody" ELSE "owner"

----------------------------------------------------------------------------
(* The operations, as the calls of the client that they make.              *)

Stage(do, g) == [do |-> do, page |-> g]

\* Mutant: a refresh of the system does not read the management page.
ReadPath_Partial(r) ==
    CASE r = "vlan" -> <<Stage("table", "config")>>
      [] r = "port" -> <<Stage("read", "config"), Stage("read", "settings"),
                         Stage("read", "management")>>
      [] r = "system" -> <<Stage("info", "info"), Stage("read", "settings")>>

ReadPath(r) ==
    CASE r = "vlan" -> <<Stage("table", "config")>>
      [] r = "port" -> <<Stage("read", "config"), Stage("read", "settings"),
                         Stage("read", "management")>>
      [] r = "system" -> <<Stage("info", "info"), Stage("read", "settings"),
                           Stage("read", "management")>>

WritePath(r) ==
    CASE r = "vlan" -> <<Stage("check", "config"), Stage("write", "config")>>
      [] r = "port" -> <<Stage("write", "config"),
                         Stage("read", "settings"), Stage("write", "settings"),
                         Stage("read", "management"), Stage("write", "management")>>
      [] r = "system" -> <<Stage("info", "info"), Stage("read", "settings"),
                           Stage("write", "info"), Stage("write", "settings"),
                           Stage("read", "management"), Stage("write", "management")>>

\* Update of a VLAN has nothing to send, and Delete of a port or of the system
\* touches nothing.
Path(r, o) ==
    CASE o \in {"refresh", "import"} -> ReadPath(r)
      [] o = "update" -> IF r = "vlan" THEN ReadPath(r) ELSE WritePath(r)
      [] o = "create" -> WritePath(r)
      [] o = "delete" /\ r = "vlan" -> <<Stage("write", "config")>>
      [] OTHER -> <<>>

\* Mutant: an attribute left out of the configuration is reset.
Wanted_Reset(r, g) ==
    [a \in Attrs(r, g) |-> IF a \in DOMAIN config[r] THEN config[r][a] ELSE 0]

\* What the configuration leaves out stays as it was read.
Wanted(r, g) ==
    [a \in Attrs(r, g) |-> IF a \in DOMAIN config[r] THEN config[r][a] ELSE model[r][a]]

Moved(r, g, a) == Wanted(r, g)[a] # model[r][a]

\* Mutant: switching storm control on or off is not a reason to write.
Differs_NoStorm(r, g) ==
    \E a \in Attrs(r, g) \ {"storm"} :
        Moved(r, g, a) /\ (a = "pps" => Wanted(r, g).storm = 1)

\* Is there anything to write?  The storm rate counts while storm control is on.
Differs(r, g) ==
    \E a \in Attrs(r, g) : Moved(r, g, a) /\ (a = "pps" => Wanted(r, g).storm = 1)

\* The stage that comes next.
At(r, do) == op[r] # "none" /\ todo[r] # <<>> /\ Head(todo[r]).do = do
Subject(r) == Head(todo[r]).page

\* What a write makes of a page: EnsureVLAN takes the first free slot (VLAN 1
\* has slot 1), WriteManagement sends the router port only with snooping.
Whole(r, g, values) ==
    CASE r = "vlan" -> [values EXCEPT !.index = IF op[r] = "delete" THEN 0
                                                ELSE IF @ = 0 THEN 2 ELSE @]
      [] r = "system" /\ g = "management" ->
            LET want == Wanted(r, g)
            IN  [values EXCEPT !.led = want.led, !.snoop = want.snoop,
                               !.router = IF want.snoop = 1 THEN want.router ELSE @]
      [] OTHER -> Adding(Wanted(r, g), values)

\* What it may leave when it breaks off: led_cfg.cgi is sent before zigmpSnooping.cgi.
Effects(r, g, values) ==
    {Whole(r, g, values)} \cup
        IF Faults /\ r = "system" /\ g = "management"
        THEN {[values EXCEPT !.led = Wanted(r, g).led]} \ {values}
        ELSE {}

Done(r, g) == Whole(r, g, Now(g)) = Now(g)

\* Mutant: DeleteVLAN does not look at the PVIDs.
Refused_InUse(r, g) ==
    /\ g = "config"
    /\ \/ r = "port" /\ Wanted(r, g).pvid = VID /\ Now(g).index = 0
       \/ r = "vlan" /\ op[r] = "delete" /\ Now(g).index = 0

\* WritePort wants the VLANs it names to exist; DeleteVLAN wants its own to
\* exist, and to be no port's PVID (ErrInUseAsPVID).
Refused(r, g) ==
    /\ g = "config"
    /\ \/ r = "port" /\ Wanted(r, g).pvid = VID /\ Now(g).index = 0
       \/ r = "vlan" /\ op[r] = "delete" /\ (Now(g).index = 0 \/ Now(g).pvid = VID)

----------------------------------------------------------------------------
(* Steps of an operation.                                                  *)

Stay == UNCHANGED <<terraform, work, content, owner>>

Advance(r, values) ==
    /\ model' = [model EXCEPT ![r] = values]
    /\ todo' = [todo EXCEPT ![r] = Tail(@)]
    /\ UNCHANGED op

\* The operation ends in an error diagnostic: nothing is recorded.
GiveUp(r) ==
    /\ op' = [op EXCEPT ![r] = "none"]
    /\ todo' = [todo EXCEPT ![r] = <<>>]
    /\ model' = [model EXCEPT ![r] = <<>>]
    /\ failed' = failed \cup {r}
    /\ UNCHANGED <<config, tf, walk, runs>>

\* Terraform creates a port after the VLAN it refers to, and removes it before.
MayStart(r) ==
    /\ (walk = "apply" /\ r = "port") => (op["vlan"] = "none" /\ "vlan" \notin failed)
    /\ (walk = "destroy" /\ r = "vlan") => op["port"] = "none"

StartRead(r) ==
    /\ At(r, "read") /\ MayStart(r)
    /\ Call(r, Subject(r), "lookup")
    /\ Stay

\* The VLANs are written without a look at what is there.
Due(r) == Subject(r) # "config" => Differs(r, Subject(r))

StartWrite(r) ==
    /\ At(r, "write") /\ MayStart(r)
    /\ Due(r)
    /\ Call(r, Subject(r), "forget")
    /\ Stay

\* Mutant: what was read is recorded, and not what was asked for.
SkipWrite_AsRead(r) ==
    /\ At(r, "write") /\ pc[r] = "idle"
    /\ ~Due(r)
    /\ Advance(r, model[r])
    /\ UNCHANGED <<cacheVars, terraform, content, owner>>

\* Nothing to write: what was asked for is recorded, a storm rate too that the
\* device has not been told.
SkipWrite(r) ==
    /\ At(r, "write") /\ pc[r] = "idle"
    /\ ~Due(r)
    /\ Advance(r, Adding(Wanted(r, Subject(r)), model[r]))
    /\ UNCHANGED <<cacheVars, terraform, content, owner>>

\* Steps of the client that are none of the resource's.
Within(r) ==
    /\ \/ CacheHit(r) \/ CacheMiss(r) \/ AcquireRead(r) \/ ReadPage(r)
       \/ ReleaseRead(r) \/ Store(r) \/ Forget(r) \/ AcquireWrite(r)
       \/ NothingToApply(r) /\ ~Refused(r, page[r]) /\ Done(r, page[r])
       \/ WriteRefused(r) /\ (Refused(r, page[r]) \/ Faults)
       \/ ReadBack(r) /\ Done(r, page[r])
       \/ WriteFails(r) \/ ReleaseWrite(r)
    /\ Stay

ReadBreaks(r) ==
    /\ ReadVLANTable(r) \/ ReadFails(r)
    /\ IF pc'[r] = "idle" THEN GiveUp(r) ELSE UNCHANGED <<terraform, work>>
    /\ UNCHANGED <<content, owner>>

\* The device applies the write, or a part of it.
Effect(r) ==
    LET g == page[r]
    IN  /\ Apply(r)
        /\ ~Refused(r, g) /\ ~Done(r, g)
        /\ \E values \in Effects(r, g, Now(g)) :
             content' = [content EXCEPT ![g] = Append(@, values)]
        /\ maker' = IF r # "vlan" THEN maker
                    ELSE IF op[r] = "delete" THEN "nobody" ELSE "provider"
        /\ UNCHANGED <<terraform, work, disturbed, ownerWrites>>

\* Mutant: what was asked for is recorded, and not what the device reports.
Reported_AsAsked(r) ==
    LET g == page[r]
    IN  IF pc[r] = "written" /\ g = "management" THEN Adding(Wanted(r, g), model[r])
        ELSE Copied(r, g, content[g][got[r] + 1])

\* What the device reports is copied.
Reported(r) == Copied(r, page[r], content[page[r]][got[r] + 1])

\* A new name is not returned by the write that sets it: the page is read again.
Answered(r) ==
    /\ pc[r] \in {"hit", "fetched", "written"}
    /\ Return(r)
    /\ IF pc[r] = "written" /\ page[r] = "info"
       THEN /\ todo' = [todo EXCEPT ![r] = <<Stage("info", "info")>> \o Tail(@)]
            /\ UNCHANGED <<op, model>>
       ELSE Advance(r, Reported(r))
    /\ UNCHANGED <<terraform, content, owner>>

Fails(r) ==
    /\ pc[r] = "failed"
    /\ Return(r)
    /\ GiveUp(r)
    /\ UNCHANGED <<content, owner>>

\* The VLAN table and the login page are read without a session.
Unlocked(r, do) ==
    /\ At(r, do) /\ pc[r] = "idle" /\ lock = Nobody
    /\ UNCHANGED <<cacheVars, content, owner>>

Unreadable(r) == Faults /\ (\E do \in {"check", "table", "info"} : Unlocked(r, do)) /\ GiveUp(r)

\* Mutant: Create takes the VLAN that is there.
Check_Adopts(r) ==
    /\ Unlocked(r, "check")
    /\ Advance(r, model[r]) /\ UNCHANGED terraform

\* Create refuses to adopt a VLAN.
Check(r) ==
    /\ Unlocked(r, "check")
    /\ IF Now("config").index # 0 THEN GiveUp(r)
       ELSE Advance(r, model[r]) /\ UNCHANGED terraform

\* Read and Update look for the slot.  Read gives a VLAN that is gone up, which
\* makes an import fail; Update records slot 0.
Table(r) ==
    /\ Unlocked(r, "table")
    /\ IF Now("config").index # 0 \/ op[r] = "update"
       THEN Advance(r, Copied(r, "config", Now("config"))) /\ UNCHANGED terraform
       ELSE IF op[r] = "import" THEN GiveUp(r)
       ELSE /\ tf' = [tf EXCEPT ![r] = NoState]
            /\ op' = [op EXCEPT ![r] = "none"]
            /\ todo' = [todo EXCEPT ![r] = <<>>]
            /\ model' = [model EXCEPT ![r] = <<>>]
            /\ UNCHANGED <<config, walk, runs, failed>>

Identify(r) ==
    /\ Unlocked(r, "info")
    /\ Advance(r, Copied(r, "info", Now("info"))) /\ UNCHANGED terraform

\* resp.State.Set, or the end of a Delete.
Record(r) ==
    /\ op[r] # "none" /\ todo[r] = <<>>
    /\ tf' = [tf EXCEPT ![r] = IF op[r] = "delete" THEN NoState ELSE model[r]]
    /\ op' = [op EXCEPT ![r] = "none"]
    /\ model' = [model EXCEPT ![r] = <<>>]
    /\ UNCHANGED <<cacheVars, config, walk, runs, failed, todo, content, owner>>

----------------------------------------------------------------------------
(* Terraform and the owner.                                                *)

\* Each command, and the plan and the apply of one, run in a process of their
\* own: the cache is empty, and the versions are counted anew.
NewProcess ==
    /\ stored' = [g \in Page |-> 0]
    /\ content' = [g \in Page |-> <<Now(g)>>]
    /\ cache' = [g \in Page |-> Absent]
    /\ page' = [r \in Proc |-> "config"]
    /\ got' = [r \in Proc |-> 0]
    /\ began' = [r \in Proc |-> 0]
    /\ overlapped' = [r \in Proc |-> FALSE]
    /\ UNCHANGED <<lock, pc>>

Launch(operations, models) ==
    /\ op' = operations
    /\ todo' = [r \in Proc |-> Path(r, operations[r])]
    /\ model' = [r \in Proc |-> IF operations[r] = "none" THEN <<>> ELSE models[r]]

\* A run begins by reading what is in the state, or imported into it.
StartRun ==
    /\ walk = "idle" /\ runs < MaxRuns
    /\ walk' = "refresh" /\ runs' = runs + 1
    /\ failed' = {} /\ disturbed' = FALSE
    /\ NewProcess
    /\ \E imported \in Imports :
         Launch([r \in Proc |-> IF tf[r] # NoState THEN "refresh"
                                ELSE IF r \in imported THEN "import" ELSE "none"],
                [r \in Proc |-> IF tf[r] = NoState THEN [force |-> 0] ELSE tf[r]])
    /\ UNCHANGED <<config, tf, ownerWrites, maker>>

Ended == walk # "idle" /\ \A r \in Proc : op[r] = "none"

Drifted(r) == \E a \in DOMAIN config[r] : tf[r][a] # config[r][a]

PlanApply ==
    /\ walk = "refresh" /\ Ended /\ failed = {}
    /\ walk' = "apply"
    /\ NewProcess
    /\ Launch([r \in Proc |-> IF tf[r] = NoState THEN "create"
                              ELSE IF Drifted(r) THEN "update" ELSE "none"], config)
    /\ UNCHANGED <<config, tf, runs, failed, owner>>

PlanDestroy ==
    /\ walk = "refresh" /\ Ended /\ failed = {}
    /\ walk' = "destroy"
    /\ NewProcess
    /\ Launch([r \in Proc |-> IF tf[r] = NoState THEN "none" ELSE "delete"], tf)
    /\ UNCHANGED <<config, tf, runs, failed, owner>>

\* What depends on a resource that failed is not tried.
Skipped(r) ==
    /\ r = "port" /\ walk = "apply" /\ op[r] # "none" /\ "vlan" \in failed
    /\ GiveUp(r)
    /\ UNCHANGED <<cacheVars, content, owner>>

Finish ==
    /\ Ended
    /\ walk' = "idle"
    /\ UNCHANGED <<cacheVars, config, tf, runs, failed, work, content, owner>>

\* Nobody runs Terraform any more.
Over == walk = "idle" /\ runs = MaxRuns /\ UNCHANGED allVars

\* The owner changes something in the web interface, for which nobody else may
\* have a session.  The switch keeps a VLAN that is a port's PVID.
OwnerWrites ==
    /\ lock = Nobody /\ ownerWrites < MaxOwnerWrites
    /\ \E c \in OwnerChanges :
         LET values == [Now(c.page) EXCEPT ![c.attr] = c.value]
         IN  /\ stored[c.page] < MaxWrites
             /\ values # Now(c.page)
             /\ c.attr = "index" => 0 \in {c.value, Now("config").index}
             /\ c.page = "config" => (values.pvid = VID => values.index # 0)
             /\ content' = [content EXCEPT ![c.page] = Append(@, values)]
             /\ stored' = [stored EXCEPT ![c.page] = @ + 1]
             /\ maker' = IF c.attr # "index" THEN maker
                         ELSE IF c.value = 0 THEN "nobody" ELSE "owner"
    /\ disturbed' = (walk # "idle")
    /\ ownerWrites' = ownerWrites + 1
    /\ UNCHANGED <<cache, lock, pc, call, terraform, work>>

\* It makes a difference when somebody is about to look at the cache.
Expiry(g) ==
    /\ \E r \in Proc : pc[r] = "lookup" /\ page[r] = g
    /\ Expire(g)
    /\ Stay

ResourcesNext ==
    \/ \E r \in Proc :
         \/ StartRead(r) \/ StartWrite(r) \/ SkipWrite(r) \/ Within(r) \/ ReadBreaks(r)
         \/ Effect(r) \/ Answered(r) \/ Fails(r) \/ Unreadable(r) \/ Check(r)
         \/ Table(r) \/ Identify(r) \/ Record(r) \/ Skipped(r)
    \/ StartRun \/ PlanApply \/ PlanDestroy \/ Finish \/ Over \/ OwnerWrites
    \/ \E g \in Page : Expiry(g)

ResourcesSpec == ResourcesInit /\ [][ResourcesNext]_allVars

----------------------------------------------------------------------------
(* Properties.                                                             *)

PageOf(r, a) == CHOOSE g \in Page : a \in Attrs(r, g)
OnDevice(r, a) == Now(PageOf(r, a))[a]

\* The types of the variables that ConfigCache does not have.  What Terraform
\* records has every attribute: one left unknown is an error to Terraform.
ResourcesTypeOK ==
    /\ \E setup \in Setups : config = setup.config
    /\ \A r \in Proc : tf[r] # NoState => DOMAIN tf[r] = Attributes(r) \cup {"force"}
    /\ walk \in {"idle", "refresh", "apply", "destroy"}
    /\ runs \in 0..MaxRuns
    /\ op \in [Proc -> {"none", "create", "update", "delete", "refresh", "import"}]
    /\ \A r \in Proc : \A i \in DOMAIN todo[r] :
         todo[r][i] \in [do : {"check", "table", "info", "read", "write"}, page : Page]
    /\ failed \subseteq Proc
    /\ \A g \in Page : Len(content[g]) = stored[g] + 1
    /\ disturbed \in BOOLEAN /\ ownerWrites \in 0..MaxOwnerWrites
    /\ maker \in {"nobody", "owner", "provider"}

\* The native VLAN of a port exists (the reason for ErrInUseAsPVID, and for the
\* check that WritePort makes): no run of the resources, however it breaks off
\* and whatever the owner does meanwhile, leaves a PVID that names no VLAN.
PVIDNamesAVLAN == Now("config").pvid = VID => Now("config").index # 0

\* A storm rate is sent with storm control only (resource_system.go:263), a
\* router port with snooping only (management.go:258).
Told(a) ==
    /\ a = "pps" => Now("settings").storm = 1
    /\ a = "router" => Now("management").snoop = 1

\* "Terraform would record that as the new state" (cache_test.go:67): at the end
\* of a run that the owner did not interfere with, every resource that reported
\* no error is recorded as the device is, though the pages of one apply are read
\* at different times, and from a cache that three goroutines share.
RecordedIsDevice ==
    Ended /\ ~disturbed =>
        \A r \in Proc \ failed : tf[r] # NoState =>
            \A a \in Attributes(r) : (a = "pps" => Told(a)) => tf[r][a] = OnDevice(r, a)

\* An apply without errors, in a run that the owner did not interfere with, ends
\* with a device that is configured as the configuration says, whatever an
\* earlier run that broke off has left on it.
CleanRunConverges ==
    Ended /\ walk = "apply" /\ failed = {} /\ ~disturbed =>
        /\ Now("config").index # 0
        /\ \A r \in Proc : \A a \in Attributes(r) \cap DOMAIN config[r] :
             Told(a) => OnDevice(r, a) = config[r][a]

\* "An attribute left out of the configuration keeps whatever the switch has"
\* (resource_port.go:297): while the owner changes nothing, no attribute changes
\* but those that the configuration sets, although each write of a resource
\* carries values that it read earlier.
OmittedKept ==
    [][walk # "idle" /\ ~disturbed' =>
        \A r \in Proc : \A a \in Attributes(r) \ DOMAIN config[r] :
            a # "index" => OnDevice(r, a)' = OnDevice(r, a)]_allVars

\* Terraform's rule on attributes that are set (resource_vlan.go:233): what a
\* create or an update records has the values that the configuration gives it,
\* even when the owner interferes.  Not so a router port without snooping, which
\* is not sent, and a name changed before it is read again.
RecordedAsConfigured ==
    [][\A r \in Proc :
         op[r] \in {"create", "update"} /\ op'[r] = "none" /\ r \notin failed' =>
            \A a \in DOMAIN config[r] :
                \/ a = "router" /\ tf'[r].snoop # 1
                \/ a = "name" /\ disturbed
                \/ tf'[r][a] = config[r][a]]_allVars

\* Create never takes ownership of a VLAN that nobody declared
\* (resource_vlan.go:90): while the owner changes nothing, a VLAN that a create
\* records has been made by the provider.
CreatedIsOurs ==
    [][op["vlan"] = "create" /\ op'["vlan"] = "none" /\ "vlan" \notin failed' /\ ~disturbed
       => maker = "provider"]_allVars
=============================================================================
