# Verification of terraform-provider-gs1200

TLA+ models of the Terraform provider for the Zyxel GS1200 switches: the
per-device lock and web session, the transport under a request, the read cache,
the 802.1Q driver and the settings driver with the emulated switch they are
tested against, and the Terraform resources on top. TLC checks them on small
instances and TLAPS proves what they claim, but for liveness, for instances of
any size.

- [The system](#the-system)
- [Modules](#modules)
- [Runs](#runs)
- [Fairness](#fairness)
- [Proofs](#proofs)
- [Where the code and its documents disagree](#where-the-code-and-its-documents-disagree)
- [Abstractions and limits](#abstractions-and-limits)
- [Plan](#plan)

Line numbers refer to `src/`. File names without a directory are in
`src/internal/zyxel/`.

## The system

Terraform evaluates resources concurrently. Each resource calls a
`*zyxel.Client`; clients reach switches over HTTPS. A GS1200 serves one request
at a time, has one web session, keeps a table of VLAN rows rather than ports,
and answers 200 whether or not it did what it was asked.

| Component | State | Operations | What makes it correct |
|---|---|---|---|
| Lock, session, exchanges (`client.go`) | `deviceLocks`; per client `loggedIn` and the cookie jar; on the switch one token | `withSession`, `Login`, `failureReason`, `Logout`, `Identify`, `ReadVLANTable`, `fetch` | one request per switch; a session claimed is given back, and nobody else's ended; goroutines never refuse each other; every call returns |
| Read cache (`client.go`, `ReadConfig`, `ReadSettings`, `ReadManagement`) | `cached`, `cachedSet`, `cachedMgmt` with expiry | read through, `forget` at the start of every write, expiry | a write leaves nothing older cached; a miss is current |
| VLAN data (`ports.go`, `types.go`, pure parts of `vlan.go` and `port.go`) | none | bitmaps, rows, `firstFreeIndex`, `guard`, `planPortChanges`, request parameters | encode and decode are inverse; one port's change moves one port's bit; a free slot is free; the guard is sound |
| VLAN driver (`vlan.go`, `port.go`) | the call in progress and the `Config` it read | `EnsureVLAN`, `WritePort`, `WriteVLAN`, `DeleteVLAN`, `WritePVID` | the management VLAN keeps its ports; success is what the switch shows; a broken-off call leaves a sound switch; ports are independent |
| Settings driver (`settings.go`, `management.go`) | the call in progress and what it read | `WritePortSettings`, `WriteProtection`, `WriteDeviceName`, `WriteManagement`, `WritePortRates` | the shutdown guard; a call moves its own port and settings only, to the values asked; success is what the switch shows |
| Resources (`internal/provider`) | Terraform's state | create, read, update, delete and import of `gs1200_vlan`, `gs1200_port`, `gs1200_system`; the data source | no silent adoption; what is recorded is what the switch holds; an apply converges after one that broke off; what is left out of the configuration is kept |
| Emulated switch (`internal/fakeswitch`) | rows, PVIDs, token, settings | pages and CGI endpoints under one mutex | it is the reference for what a device does |
| Transport (`fetch`, `tlsConfig`) | idle connections | re-send on a dropped connection | a POST reaches the switch at most once, and complete; a connection left over fails no request |

How they interact: a resource calls the driver; a driver's write drops the
cache, takes the lock of the client's `Host`, logs in, reads the table and the
list page, plans, sends CGI requests, reads both pages back, logs out and
releases the lock. A read goes through the cache first. The owner of the switch
uses the same web interface, session and CGI endpoints.

What is hard here: the interleaving of goroutines over one lock and one
session; losing a request, an answer, a context or the session between any two
exchanges; writes of several requests without an undo; answers that prove
nothing; a cache dropped and filled outside the lock; an apply made of several
writes, each of which carries values read before it; connections that the
switch drops without warning. `PROJECT.json` lists each
of these at its line under `hazards`, with the properties that cover it.

## Modules

| Module | Models | Role |
|---|---|---|
| `DeviceSession` | `client.go`: lock, session, exchanges; `fakeswitch.go`: `logon`, `loginPage`, `logout` | specification |
| `DeviceSessionProofs` | | its theorems |
| `ConfigCache` | the three cached reads and `forget` | specification |
| `ConfigCacheProofs` | | its theorems |
| `Resources` | `resource_vlan.go`, `resource_port.go`, `resource_system.go` over `ConfigCache`, and Terraform's runs | composition |
| `ResourcesProofs` | | its theorems |
| `Exchange` | what `fetch` promises its callers | abstract specification |
| `StaleConnection` | `fetch` and its pool of idle connections | specification, implements `Exchange` |
| `StaleConnectionProofs` | | its theorems, the refinement among them |
| `VlanTable` | `ports.go`, `types.go`, pure parts of `vlan.go`, `port.go` | operators |
| `VlanTableProofs` | | theorems about the operators, and about what a request does to the device |
| `FakeSwitch` | the 802.1Q half of `fakeswitch.go` | the device's state and its request handlers |
| `FakeSettings` | the other half and `fakeswitch/management.go`, on `FakeSwitch` | the same, for settings |
| `VlanDriver` | the five write operations, on `FakeSwitch` | specification, implements `PortView` |
| `VlanDriverProofs` | | its theorems |
| `PortViewProofs` | | the management VLAN, the native VLANs and the refinement |
| `SettingsDriver` | the five write operations on settings, on `FakeSettings` | specification |
| `SettingsDriverProofs` | | its theorems |
| `PortView` | what a person expects of the switch's VLANs | abstract specification |
| `MCDeviceSession`, `MCConfigCache`, `MCVlanDriver`, `MCSettingsDriver`, `MCResources` | | constants of the TLC instances |

An operator called `X_Something` next to a definition `X` is a plausible bug in
the code `X` models. No specification uses it; substituting it for `X` shows
that a property notices.

### DeviceSession

One element of `Proc` is one goroutine; `ClientOf`, `HostOf` and `DeviceOf`
lead from it to its provider alias, the alias's `Host` string and the switch
that string reaches, so that several aliases may share a lock and several
locks a switch.

| Variable | Code |
|---|---|
| `lock[h]` | holder of the `sync.Mutex` in `deviceLocks[h]` |
| `session[d]` | whose login the switch's token comes from |
| `loggedIn[c]` | `Client.loggedIn`, and with it the token in `Jar` |
| `pc[p]`, `left[p]`, `outcome[p]`, `cancelled[p]` | position in `withSession` or the read, requests the work may still send, the error it returns, whether `ctx` is cancelled |
| `wire[p]` | the exchange under way: `"sent"`, then the answer on its way back |

An exchange is `Send`, then `Serve...` at the switch, then `...Answered` or
`...Fails` at the client. `...Fails` is enabled before and after `Serve`, so a
request is lost or its answer is; a cancelled context enables it too, except
for the logout, which runs under `context.WithoutCancel` (`client.go:401`).
`LoginFails` goes to the deferred `Unlock` without a logout (`client.go:393`);
`LogoutFails` clears the client's token and turns the call into an error
(`client.go:371-377`, `405-408`). A refused login asks for the reason in a
second request, `LoginDenied` then `ServeReason`.

### ConfigCache

The content of each of the three cached pages is a version that a write of the
page raises. Reads and writes are split where the code is not atomic: the
lookup, the unauthenticated table read (`ReadConfig` only), taking the lock,
the read, releasing the lock, storing; and for a write, `forget`, taking the
lock, the write, the read-back, releasing. `began` is a history variable.
The page `info` is the login page with the device's name: `WriteDeviceName`
drops the cache as every write does, but the page itself is never cached.

### Resources

One VLAN, one port and the switch itself, each in a goroutine of its own over
one client. `Resources` takes every step of the client from `ConfigCache` and
adds what the pages show (`content`), what Terraform has recorded (`tf`) and
what each resource has still to do.

| Variable | Code |
|---|---|
| `op[r]`, `todo[r]` | the method of the resource that runs, and the calls of the client it still makes (`ReadPath`, `WritePath`) |
| `model[r]` | `plan` or `state`, into which `applyPort`, `applySettings`, `applyRates` and `applySystem` copy what a call returned |
| `tf[r]` | what the last `resp.State.Set` recorded |
| `content[g]` | what version n of a page shows: attribute to value |
| `walk`, `runs`, `failed` | Terraform: a run refreshes, then applies or destroys, each in a process with an empty cache; what reported an error |

A stage is a call: `StartRead` and `StartWrite` enter `ConfigCache` at its
lookup or at `forget`, and `Answered` or `Fails` leave it. `StartWrite` and
`SkipWrite` are the two branches of the comparison before each write
(`Differs`): what is skipped is recorded as asked, what is written as read
back, and a name that was written is read again. `Effect` gives the write its
meaning, in whole or, for `WriteManagement`, in part. `Check` is the look that
Create has at the VLAN table, a step of its own before `EnsureVLAN`. The owner
may change something whenever no session is held (`OwnerWrites`).

### StaleConnection, Exchange

One `fetch` after another (the device lock sees to that, `RequestsSerialised`)
over a pool of one connection (`MaxIdleConnsPerHost: 1`). `ClosedIdle` is the
one error that the loop retries, `Reader` the body that it builds anew,
`Broken` every error after something was written. What `net/http` does is
modelled from how `fetch` relies on it and its comments describe it: a pooled
connection that turns out closed before anything was written is exchanged for
another, a GET is repeated, a POST fails; a request that is interrupted while
it dials leaves the dial behind, and its connection goes to the pool or to the
next request (`late`). `Exchange` is what callers see, and what an exchange of
`DeviceSession` assumes: the device acts on a POST at most once, and before it
is answered.

### VlanTable, FakeSwitch, VlanDriver

A row is `[vid, idx, tagged, untagged]`. Slices of ports that the code keeps
sorted and free of duplicates are sets, and an `int` bitmap is the set of its
one bits, which makes shifting and masking set operations and keeps the width
of `int` (`IntBits`: the release builds include 32-bit targets). An `int` is
signed: `DecodePorts` shifts the sign in from the left, as Go's `>>` does.
`MappedPort` are the ports that both conversions keep, 1 to 30 of a 32-bit `int`
and 1 to 32 of a 64-bit one; the ports of a switch are among them.

`FakeSwitch` has `vlans`, `pvid` and `session`, one operator per endpoint.
`Accept` is what the CGI endpoints do: nothing without a session, and with one
whatever they are asked, by whomever it is held.

`VlanDriver` makes one call after another. A call is `Start`, `Login`,
`ReadTable`, `ReadPage`, one of `PlanEnsure`, `PlanVLAN`, `PlanDelete`,
`PlanPVID`, `PlanPort` (all the code between the read and the first write,
with its refusals in order), a `SendWrite` for each request, `ReadTable` and
`ReadPage` again, `Verify`, `LogsOut`. `ReadFails`, `SendFails` and
`LogoutFails` are the same steps failing, before or after the switch acted.
`WritePort`'s three phases are the fields of `todo`. `WritePVID` takes a map
from ports to native VLANs (`wanted`) and sends one request for all of them;
`changed` are the ports whose native VLAN it moves, the only ones that its
read-back compares (`Verified`).

Making calls one after the other is what `DeviceSession` justifies:
`OneRequestPerDevice` and the lock held from `Login` to `Logout`
(`RequestsSerialised` and `LockHeld` in `DeviceSessionProofs`). What can come
between two steps of a call is not another call but the loss of the session
(`SessionExpires`) and, after it, the owner (`OtherLogsIn`, `OtherWrites`).

`PortView` is the abstract specification: known VLANs, and for every port a
native VLAN and the VLANs it carries; each step creates an empty VLAN, removes
one nobody needs, or changes one port in one respect and leaves it sound. The
refinement mapping is `known <- ids of vlans`, `view <- ReadPort` of every port.

### FakeSettings, SettingsDriver

`FakeSettings` adds `ports`, `rates` (in the firmware's 32 kbps) and `knobs`,
the switch-wide settings. The conversions of a port to a bitmap differ between
endpoints and are kept: the router port and the maps of ports count from bit 0,
the isolation uplink from bit 1, and "no isolation" is bits 1 to 10.

A call of `SettingsDriver` is `Start` (with the refusals that come before the
session), `Login`, a `ReadPage` for each page, one of `PlanPort`,
`PlanProtection`, `PlanName`, `PlanManagement`, `PlanRates`, a `SendWrite` for
each request, `ReadPage` for each page of the read-back, `Verify`, `LogsOut`.
`got` is what the pages read so far have shown. Shutting a port reads the VLAN
table and the list page and goes through `GuardShutdown`. A page served after
the session was lost is the login page: three parsers notice (`Refused`), that
of the advanced page does not, and `Panic` is what `WritePortRates` does then.
The VLAN table that the guard reads is that of `FakeSwitch`.

## Runs

Every run takes under four minutes with two workers. Bounds are constants of the
MC modules or the `.cfg` files.

| Run | Instance | Shows |
|---|---|---|
| `session_faults` | two goroutines sharing a client; two requests of work; every fault and the owner | `OneRequestPerDevice`, `SessionFieldsGuarded`, `NoSilentOrphan`, `OnlyOwnSessionEnded`, the types, and that every call returns (liveness) |
| `session_live` | two goroutines under two aliases of one switch, its owner, no faults; a third goroutine on another switch, under no fairness | nobody is refused because of a sibling; every session is given back, every call on the first switch returns (liveness) |
| `cache_shared` | three goroutines, two pages (with and without the extra table read), one write of each, failing half-way or not | a miss is current, whatever overlaps it; a write no read overlaps leaves nothing older cached |
| `resources` | a VLAN, a port and the switch; two switches and configurations, two runs (`MaxRuns`), one change by the owner, every call may fail before or after it took effect, import of everything or nothing | what is recorded is what the switch holds; an apply without errors converges; what is left out is kept, what is set is recorded; no PVID names a VLAN that is gone; a created VLAN is the provider's own; types |
| `stale_connection` | one `fetch` after another, one abandoned dial at a time (`MaxLate`), a GET acted on at most three times (`MaxServed`); the device drops a connection at any step | a POST is acted on at most once, never empty; a connection left over fails no request unless a dial was abandoned; implements `Exchange`; types |
| `vlan_provider` | `EnsureVLAN`, `WritePort` (every configuration of two VLANs, one of three), `DeleteVLAN`; two ports, three VLANs; exchanges fail, the session may time out at any step, the rows of a phase in any order | implements `PortView`; success is what the switch holds; no prefix strands a native VLAN; slots and ids stay unique; types |
| `vlan_all` | all five operations, forced and not, on valid and invalid targets, `WritePVID` for one port and for two, one of which the device may refuse; ignored requests; the owner writing between calls; an ill-formed initial table | the management VLAN keeps its ports; success is what the switch holds |
| `settings` | any two of 18 calls (`MaxCalls = 2`) on two ports and the switch-wide settings; exchanges fail, writes are ignored, the session may time out at any step, and the owner writes settings and moves the management VLAN | success is what the switch holds; a call moves its own port and settings only, to the values asked; loop prevention and SNMP stay on without `force`, whoever has the session, and the management VLAN's ports while it is the driver's; the panic needs a lost session; types |

Why the bounds are enough for the question asked. The session protocol has
three parties to one switch that differ in what they may do: a goroutine, a
sibling, and the owner. One request of work (`MaxWork = 1`) gives every cut
point of an exchange, two a cut between exchanges; more repeat these. The safety
properties are proved for any number of goroutines. In the VLAN runs two ports are what it
takes for one to undo the other, two VLANs what it takes to move a native VLAN,
and a third puts two rows in each phase of `WritePort` and leaves a gap in the
slots when the second row goes. A settings call depends on the calls before it
through the settings alone, so two calls reach what more would: each operation
from settings left by each other one, completed, broken off or ignored.
Two runs of Terraform are one that breaks off anywhere and one that starts from
what it left. The first configuration of `MCSetups` makes every write differ, the
second none of the skipped ones but in an attribute that is not sent (a storm
rate without storm control, a router port without snooping). `MCView` removes
what no step and no property looks at from the fingerprint of a state: the numbers
of the versions, `began` and `overlapped` (which only the properties of
`ConfigCache` read), and what an idle goroutine did last. One abandoned dial is
enough to fill the pool under a request; the theorems hold for any number.

Deadlock is checked in every run: the specifications never stop (in `settings`
and `unchecked_settings` the owner goes on after the last call, in `resources`
`Over` is the step of nobody running Terraform any more).

## Fairness

Only `session_faults` and `session_live` use `FairSpec`.

- `WF(Step(p))`: a call that holds the lock moves. Every exchange ends by
  `http.Client.Timeout` (`client.go:161-204`), and work is a finite list of
  requests.
- `SF(Acquire(p))`: a goroutine that waits for the lock gets it.
  `sync.Mutex` hands the lock to a waiter of more than a millisecond
  (starvation mode), so a waiter is not passed over for ever.

Nothing is assumed of the owner, of the switch's session timeout, of
interruptions, of the goroutines starting calls, or of goroutines on switches
outside `Live`.

## Proofs

`tlapm` checks every step of the eight modules `DeviceSessionProofs`,
`ConfigCacheProofs`, `StaleConnectionProofs`, `VlanTableProofs`,
`VlanDriverProofs`, `PortViewProofs`, `SettingsDriverProofs` and
`ResourcesProofs`. Each inductive invariant was an invariant of a TLC run before
it was proved.

**DeviceSession**, for every set of goroutines, clients, addresses and
switches, every `MaxWork`, and every combination of faults. None of the
properties is inductive: from "no two requests are under way" alone, two
goroutines may both be about to send one. The invariant `IInv` adds what the
code relies on:

- `LockHeld`: between `Lock` and `Unlock` a call holds its host's lock. Two
  calls with one host are therefore never both past `Lock`
  (`LockIsExclusive`).
- `WireUsed`, `BudgetLeft`: only such calls have exchanges, and only while the
  work has requests left; `TypeOK` needs it for `left`.
- `TokenLive`: a login stands in a client only while one of its goroutines is
  inside its session. With `LockIsExclusive` that goroutine is alone, which is
  `SessionFieldsGuarded`.
- `OutcomePending`, `Released`: no call has a result before its work ran, and a
  call about to report success no longer holds the session. `NoSilentOrphan`
  follows.

Proved: `TypeCorrect`, `InductiveInvariant`, `SessionFieldsSafe`,
`SuccessReleases` and `ForeignSessionsKept` without assumptions beyond the
module's. `RequestsSerialised` assumes `OneNamePerDevice` (two hosts never
reach one switch). The code does not see to that: the key is the `Host` string
as it was configured, so a name and an address of one switch are two locks.
`SiblingsQueue` assumes that and `Undisturbed` (nothing is lost or
interrupted), with the further invariant `HolderInside`: a session is held only
by a goroutine between the answer to its login and its logout.

**VlanTable**, for every table, port and integer width allowed by
`IntBitsAssumption`: `BitmapRoundTrip` (what a bitmap of ports 1 to 32 decodes
to: the ports themselves with a 64-bit `int`; with a 32-bit one port 32 has no
bit, and port 31, whose bit is the sign, comes back as ports 31 and 32),
`TableRoundTrip` (the parsed table is the switch's, for ports in `MappedPort`),
`MoveBitMovesOnePort`, `FirstFreeIndexIsFree`. No GS1200 has more than eight
ports, so the edge at 31 is the conversion's and not a fault of the driver. The
lemmas beside them say what the driver relies on: which request a row makes
(`RowRequestSends`), which rows `planPortChanges` picks and how they change
(`PortPlan`), and what the device does with a request that it takes
(`AcceptedRequest`, `ModifiedRow`, `AcceptKeepsDevice`).

**VlanDriver**, for every set of calls, initial tables, requests of others and
number of ports, and every combination of faults. What is assumed of the
constants is what a program can do: calls have the types of the Go functions'
parameters, members are ports of the switch (`PortsAssumption`; `WritePort` may be
given any number where the page is there to compare it with, `port.go:159`, and
a port of the switch where the session, and with it the page, may be lost; there
`WritePVID` is not asked for a native VLAN 0 either, which is what a port that is
not on the page reads as), the device starts with a table that `New` accepts and others send well-formed
requests. The proof goes in layers, each of which takes those below for granted:

- `IInv` is inductive whoever interferes. `DeviceOK`: rows have disjoint members
  that fit a bitmap. `ConfigOK`: what was read is such a table with either the
  device's list page or the login page, which shows no ports at all. `CallOK`
  and `TodoOK`: a call that was not refused has valid parameters, and nothing
  is left to send outside `send`. `SessionOK`: the session is the driver's
  while it works, if sessions are not lost, and while it is, the page it plans
  on is not the login page. Without the last, a plan knows nothing of the
  management VLAN: that is the disagreement of `guard_without_session`.
  From it: `TypeCorrect`.
- `ReadsDevice`: while the driver's session lasts and nobody else can write,
  what it read is what the device holds. From it: `SuccessIsShown`, also with
  requests that the device ignores. `WritePVID` compares only the ports it
  moves; that the others of its map still have the native VLAN that made it leave
  them out is `UnmovedKept`.
- `SlotsKept`: the request to add is for an id and a slot that no row has. It
  assumes `OthersAddNone`, since a VLAN that another user adds between the read
  and the request may take the slot. From it: `SlotsStayUnique`.
- `ManagementSafe` (in `PortViewProofs`): every request that is left would, sent
  now, keep the ports of the management VLAN. One request of `WritePort` may
  not undo what the guard found of another, which is why it speaks of all
  requests left and of what they find. It assumes `OthersStayOut`: nobody
  writes in mid-call, and nobody creates a second management VLAN. From it:
  `ManagementIsKept`.
- `ViewSafe`: every port is in its native VLAN, and of a call under way the
  requests left are those that are needed (`Left`): either the join and the
  PVID are still to come, or the port is where they put it. It assumes
  `ProviderUse`: calls without `force` as the resources make them, on a switch
  that nobody else writes to, that does what it accepts, and that starts in
  order. From it: `NativeVLANsBelong` and the refinement `CallsMoveOnePort`.

The refinement goes by steps: the request of `EnsureVLAN` is `Create`, that of
`DeleteVLAN` is `Remove`, a row or a PVID of `WritePort` is `Move`, and every
other step, a request that is lost or changes nothing included, leaves the
mapped variables as they are. `vlan_provider` satisfies all the hypotheses
(`ProvidersAlone`: `ProviderUse` implies the others), `vlan_all`
`OthersStayOut`.

**SettingsDriver**, for every set of calls and of requests of others, every
number of calls and of ports, and every combination of faults. Here one
invariant carries all results, `IInv`:

- `CallOK`: a call that has begun was not refused, and what it plans for is a
  port of the switch.
- `GotOK`: each page that was asked for is still to be read, or its fields are
  among what was read. Each decision then finds the fields it looks at.
- `GotShows`: while the driver has its session, what it read is what the device
  holds. It is false without the session: a page may then be the login page, or
  somebody else's doing.
- `TodoOK`: a request is for the call's own port or settings with the values
  asked, in the units and bits of its form. `PageShows`, `WireStored` and
  `RateFits` are the conversions there and back; `SentMoves` is what the device
  makes of such a request.
- `SafeToSend`: without `force` and with the session kept, no request left shuts
  an open port of the management VLAN. That SNMP stays on needs no session:
  `WriteManagement` without `force` sends the setting only to switch it on
  (`KeepsSNMP`), even if what it read is out of date by then.

Proved: `TypeCorrect`, `SuccessIsShown`, `NothingLost` and
`PanicsOnlyWithoutSession` without further assumptions, so also while others write
and the device ignores requests. `PortsMove` assumes at most eight ports: the
forms have eight slots, and the switches five or eight ports. `KnobsMove` assumes
that calls are refused at once or name ports that fit the device's bitmaps, a
router port up to 32 and an uplink up to 31. The schema lets an uplink of 32
through (`internal/provider/resource_system.go:146`), whose bit the device does
not read. The instance of `settings` satisfies both.

**ConfigCache**, for every set of goroutines and pages, every `MaxWrites`, with
and without failures. "A miss is current" is not inductive: it needs to know of
a read that is still on its way that what it has fetched is no older than its
call (`FetchedSince`), and that versions only rise (`BeganBefore`).
`UnreadWriteDropsCache` needs `WritesAlone`: between its call and its return a
write that no read overlapped has no reader beside it, and once it has dropped
the cache every page stays dropped. Proved: `TypeCorrect`, `InductiveInvariant`,
`MissesAreCurrent`, `UnreadWritesDropCache`.

**Resources**, for every set of configurations, switches, imports and changes by
the owner, every number of runs and of versions, with and without failures. The
assumptions are on the constants: a configuration gives numbers to attributes
of the resource, a PVID among them, and none to the slot of a VLAN, and the
switch starts without a PVID that names a missing VLAN (`SetupsAssumption`); the
owner sets attributes of pages (`OwnerAssumption`). "What is recorded is what
the switch holds" speaks of the end of a run; to get there one has to say, for
every point of every operation, which part of a model still is, or already is,
the device's. `AllOK` does, for each resource:

- `TodoOK`, `CallOK`: the stages left fit the operation, a page is looked at
  before it is written and written once, and the call of the client under way is
  the next stage.
- `ModelShows`: of a page that has been looked at, the model has what the device
  holds now, except while its write is under way, and except for a storm rate that is not
  sent. This is what lets a later write carry values read earlier. It holds
  because no other resource moves these attributes (`WholeIs`: what a write
  makes of a page) and the owner, if `Quiet`, moves none.
- `VersionsAgree`: before a page is read for the last time, all its versions,
  so also one that is cached, agree in the resource's attributes. A cache
  shared by three goroutines may hand out an old page; it is never old in what
  the reader takes from it. `ReadBackOK` says the same of what a write read
  back.
- `ModelConfigured`, `StateConfigured`, `NameWritten`: what is done of a create
  or update is as configured, in the model, in what is recorded, and on the
  device for a name that is read again.
- `StateShows`, `SlotTaken`, `SlotIsOurs`: what is recorded is the device's;
  the VLAN is there where it is recorded; a create that has looked finds the
  slot free until the provider has taken it.

`WalkOK` adds that in an apply a port makes no call before its VLAN is done: were
it otherwise, `Skipped` could end an operation in the middle of a call. There is one lemma for each action (`EffectKeeps`, `AnsweredKeeps`, ...);
those about resources that do not move share `BystanderKept`. Proved:
`ResourcesTypesCorrect`, `PVIDsNameVLANs`, `StateIsDevice`, `AppliesConverge`, and
from the same invariant the action properties `OmittedAttributesKept`,
`ConfiguredIsRecorded` and `CreatesItsOwn`: `DeviceKept` and `OperationEnds` say
which steps can touch a page, or end an operation, at all.

**StaleConnection**, for every `MaxLate` and `MaxServed`. `PostAtMostOnce`
follows from `PostServed`: once the device has acted on a POST, the request is
over or waits for its answer, and from there no step leads back to `pick`.
`BodyWhole` says the same of the body: whatever is yet to be written has it.
`SecondIsFresh` is why `NoStaleFailure` holds: with no dial left behind, nothing
fills the pool while a request runs, so a second attempt opens a connection of
its own. Proved: `TypeCorrect`, `PostsAtMostOnce`, `NoPostEmpty`,
`LeftOversHarmless` and the refinement `FetchIsAnExchange` (`InitRefines`,
`NextRefines`, under the invariant).

Only model-checked: `SessionGivenBack` and `EveryCallReturns`, whose fairness is
outside the prover's reach. Every other property of a run that passes is
stated by one of these theorems.

## Where the code and its documents disagree

Each run below finds a short behaviour of the model that contradicts a
statement of the repository. The lines are quoted under `findings` in
`PROJECT.json`.

| Run | Statement | What happens |
|---|---|---|
| `interrupted_login` | the session is always released, including when an apply is interrupted (`README.md:110-111`) | interrupted during `logon.cgi`, `withSession` returns before `Logout` |
| `guard_without_session` | the management VLAN cannot be removed without `force` (`README.md:126-137`) | a page read after the session was lost switches the guard off; the request applies under the session somebody else opened meanwhile |
| `unchecked_settings` | every write is read back and compared (`README.md:117-118`) | the uplink (as the static router port and the storm rate) is sent and not compared |
| `cache_race` | the cache is dropped by any write (`vlan.go:126-128`) | a read stores what it fetched before the write after the write's `forget` |

Four more are left without a run:

- A port of the management VLAN cannot be switched off without `force` either
  (`README.md:135`), but `guardPortShutdown` (`settings.go:297`) lets everything
  pass when the management VLAN is 0, as `guard` does: the cause is that of
  `guard_without_session`. In `SettingsDriver` the steps are `ReadPage` of the
  ports, `SessionExpires`, `ReadPage` of the list page, `GuardShutdown`,
  `OtherLogsIn`, `SendWrite`. A port that was read as switched off is not guarded
  at all (`settings.go:223`): a call that moves another of its settings shuts it
  if somebody switched it on after the session was lost. `NothingUnrecoverable`
  therefore requires the session for the ports of the management VLAN; for loop
  prevention and SNMP it does not.
- Creating a VLAN that already exists is refused rather than silently adopted
  (`README.md:139-142`, `internal/provider/resource_vlan.go:90-93`), but Create
  looks at the table before `EnsureVLAN`, which accepts a VLAN that is there: one
  that the owner creates in between is recorded. In `Resources` the steps are
  `Check`, `StartWrite`, `OwnerWrites`, then the write that finds nothing to apply
  and `Record`.
- Busy and bad password are not to be conflated (`zyxel_test.go:356-358`), but
  the reason of a refused login is a second request: when the owner logs out
  before it, or it is lost, `Login` reports a right password as rejected
  (`client.go:329`). In `DeviceSession` that is `LoginDenied`, `OwnerLogsOut`,
  `ReasonAnswered`.
- "At no point is the port's native VLAN one it does not belong to"
  (`port.go:189-192`), but a join that is answered 200 and not applied is
  followed by the PVID (`port.go:194`). `NativeVLANBelongs` is checked for a
  switch that applies what it accepts.

What `resources` shows of the behaviour across applies, none of which a document
denies:

- A Create whose `EnsureVLAN` failed after the switch had applied it is refused
  from then on, as the VLAN "already exists", until it is imported.
- While the owner changes nothing, Create records only VLANs that it made
  (`CreatedIsOurs`); for the owner in the gap see above.
- Destroying a port leaves its PVID on the switch, so destroying its VLAN in the
  same run is refused with `ErrInUseAsPVID`.
- A storm rate that is configured with storm control off is recorded and not
  sent (`resource_system.go:263-273`): the next refresh finds the old rate, and
  every plan has the same difference.
- A router port that is configured with snooping off is not sent either, but
  something else being written, the read-back is recorded in its place
  (`resource_system.go:305-319`, `management.go:252-273`), which is not what the
  configuration says. `RecordedAsConfigured` names the exception.

## Abstractions and limits

- A request whose caller has given up is either already served or never will
  be: no request is served after its call returned.
- The rows of one phase of `WritePort` are sent in any order. The code goes by
  slot, which is one of them.
- `guard`'s check that the management VLAN does not end up empty is subsumed by
  the check before it, so `GuardRefuses` leaves it out.
- Names, wording of errors, markup of pages and logging are left out. A missing
  pattern in a page is kept where it decides (`ParseListPage`).
- The cache model has no writes by the owner: the cache is documented not to
  see them until it expires (`vlan.go:123-129`).
- A lost session (`SessionLoss`) and an owner who writes during a call are
  combined only in `guard_without_session` for the VLANs, and in `settings` for
  the settings; `OkMeansApplied` of `VlanDriver` says nothing of a
  call during which somebody else could write.
- `NativeVLANBelongs` is checked for calls without `force` and a switch that
  applies what it accepts; the ways it fails otherwise are documented
  (`force`) or listed above (a join that is ignored).
- `vlan_provider` starts from a sound table: `PortView` describes a switch whose
  ports are in their native VLANs, and the driver keeps that, it does not repair
  it.
- A client without a password is in `DeviceSession` only; the partial
  configuration it reads is planned.
- In `Resources` one attribute of a page stands for all that are treated like
  it: `speed` for the three settings of a port, `led` for the switches that
  `WriteManagement` sends, `ingress` for both rates, `pvid` for a port's VLANs.
  A port that the switch does not have, or a client without a password, makes
  an import or a create fail, which is one of the failures any call may have.
  Refusals without `force` and the read-only attributes are left out; writes that the switch ignores are the
  business of the drivers, where success is what the switch holds.
- A write in `Resources` takes effect in one step, `WriteManagement` in two; the
  prefixes of `WritePort` are in `VlanDriver`.
- Terraform creates the VLAN before the port and removes it after, which is the
  order of a port that refers to the VLAN.
- The switch acts on no request that reaches it after it has closed the
  connection. A GET may be acted on more than once, by the transport's repeating
  it; the CGI writes sent by GET set values, so a repetition changes nothing.

Not modelled, and why: TLS configuration (the crypto library's), the data source
(it makes the reads that the resources make) and provider configuration (no
state of their own), `main` (wiring), and for now what the plan lists.

## Plan

1. The partial configuration of a client without a password, and the data
   source over it.
