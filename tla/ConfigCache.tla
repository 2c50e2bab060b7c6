---------------------------- MODULE ConfigCache ----------------------------
(***************************************************************************)
(* The read cache of a Client (internal/zyxel/client.go, ReadConfig in     *)
(* vlan.go, ReadSettings in settings.go, ReadManagement in management.go)  *)
(* shared by the goroutines of one provider.                               *)
(*                                                                         *)
(* The device's content is abstracted to a version per cached page, which  *)
(* every write of that page raises.  A session is the stretch between      *)
(* Acquire and Release; DeviceSession models what happens inside it.  The  *)
(* owner's own changes are not modelled: the cache is documented not to    *)
(* see them before it expires.                                             *)
(***************************************************************************)
EXTENDS Naturals

CONSTANTS
    Proc,       \* goroutines using the client
    Page,       \* what is cached ("config", "settings", "management"), or
                \* only written ("info": the device's name)
    MaxWrites,  \* bound: writes of a page
    Faults,     \* may a session's work fail
    Nobody,
    Absent      \* no usable cached value

ASSUME CacheAssumption ==
    /\ Page \subseteq {"config", "settings", "management", "info"}
    /\ MaxWrites \in Nat
    /\ Faults \in BOOLEAN
    /\ Nobody \notin Proc
    /\ Absent \notin Nat

VARIABLES
    stored,     \* [Page -> Nat]: the device's version of each page
    cache,      \* [Page -> Nat \cup {Absent}]: cached, cachedSet, cachedMgmt
    lock,       \* holder of the device's mutex
    pc, page,   \* [Proc -> ...]: where a call is, and the page it is about
    got,        \* [Proc -> Nat]: the version the call read
    began,      \* [Proc -> Nat]: the version when the call began (history)
    overlapped  \* [Proc -> BOOLEAN]: did a read overlap the write (history)

vars == <<stored, cache, lock, pc, page, got, began, overlapped>>
call == <<page, got, began, overlapped>>

Reading == {"lookup", "hit", "table", "awaitRead", "read", "releaseRead", "store"}

Init ==
    /\ stored = [g \in Page |-> 0]
    /\ cache = [g \in Page |-> Absent]
    /\ lock = Nobody
    /\ pc = [p \in Proc |-> "idle"]
    /\ page \in [Proc -> Page]
    /\ got = [p \in Proc |-> 0]
    /\ began = [p \in Proc |-> 0]
    /\ overlapped = [p \in Proc |-> FALSE]

Goto(p, from, to) == pc[p] = from /\ pc' = [pc EXCEPT ![p] = to]

Call(p, g, to) ==
    /\ Goto(p, "idle", to)
    /\ page' = [page EXCEPT ![p] = g]
    /\ got' = [got EXCEPT ![p] = 0]
    /\ began' = [began EXCEPT ![p] = stored[g]]
    /\ overlapped' = [q \in Proc |->
                        IF q = p THEN \E r \in Proc : pc[r] \in Reading
                        ELSE overlapped[q] \/ (to \in Reading /\ pc[q] # "idle")]
    /\ UNCHANGED <<stored, cache, lock>>

Acquire(p, from, to) ==
    /\ Goto(p, from, to)
    /\ lock = Nobody
    /\ lock' = p
    /\ UNCHANGED <<stored, cache, call>>

Release(p, from, to) ==
    /\ Goto(p, from, to)
    /\ lock' = Nobody
    /\ UNCHANGED <<stored, cache, call>>

Fetch(p, from, to) ==
    /\ Goto(p, from, to)
    /\ got' = [got EXCEPT ![p] = stored[page[p]]]
    /\ UNCHANGED <<stored, cache, lock, page, began, overlapped>>

----------------------------------------------------------------------------
(* Reads.                                                                  *)

BeginRead(p) == \E g \in Page : Call(p, g, "lookup")

CacheHit(p) ==
    /\ cache[page[p]] # Absent
    /\ Goto(p, "lookup", "hit")
    /\ got' = [got EXCEPT ![p] = cache[page[p]]]
    /\ UNCHANGED <<stored, cache, lock, page, began, overlapped>>

\* ReadConfig first reads the VLAN table on its own; that answer is not used
\* once a session can be had, but the read may fail.
CacheMiss(p) ==
    /\ cache[page[p]] = Absent
    /\ Goto(p, "lookup", IF page[p] = "config" THEN "table" ELSE "awaitRead")
    /\ UNCHANGED <<stored, cache, lock, call>>

ReadVLANTable(p) ==
    /\ lock = Nobody
    /\ Goto(p, "table", "awaitRead") \/ (Faults /\ Goto(p, "table", "idle"))
    /\ UNCHANGED <<stored, cache, lock, call>>

AcquireRead(p) == Acquire(p, "awaitRead", "read")

\* Mutant: what another reader cached meanwhile is taken as the answer.
ReadPage_Rechecked(p) ==
    /\ Goto(p, "read", "releaseRead")
    /\ LET cached == cache[page[p]]
       IN  got' = [got EXCEPT ![p] = IF cached = Absent THEN stored[page[p]] ELSE cached]
    /\ UNCHANGED <<stored, cache, lock, page, began, overlapped>>

\* readState, readSettings or readManagement, and the logout.
ReadPage(p) == Fetch(p, "read", "releaseRead")

ReadFails(p) == Faults /\ Release(p, "read", "idle")
ReleaseRead(p) == Release(p, "releaseRead", "store")

\* The session is over, and the lock released, when the answer is cached.
Store(p) ==
    /\ Goto(p, "store", "fetched")
    /\ cache' = [cache EXCEPT ![page[p]] = got[p]]
    /\ UNCHANGED <<stored, lock, call>>

----------------------------------------------------------------------------
(* Writes.                                                                 *)

BeginWrite(p) == \E g \in Page : stored[g] < MaxWrites /\ Call(p, g, "forget")

\* Mutant: only the VLAN configuration is dropped.
Forget_ConfigOnly(p) ==
    /\ Goto(p, "forget", "awaitWrite")
    /\ cache' = [g \in Page |-> IF g = "config" THEN Absent ELSE cache[g]]
    /\ UNCHANGED <<stored, lock, call>>

\* Every write starts with forget(), before it waits for the lock.
Forget(p) ==
    /\ Goto(p, "forget", "awaitWrite")
    /\ cache' = [g \in Page |-> Absent]
    /\ UNCHANGED <<stored, lock, call>>

AcquireWrite(p) == Acquire(p, "awaitWrite", "write")

\* Mutant: the request is sent, and applied, twice.
Apply_Resent(p) ==
    /\ stored[page[p]] < MaxWrites
    /\ stored' = [stored EXCEPT ![page[p]] = @ + 2]
    /\ Goto(p, "write", "readBack")
    /\ UNCHANGED <<cache, lock, call>>

\* The state is read afresh, the change is found safe, and the device applies it.
Apply(p) ==
    /\ stored[page[p]] < MaxWrites
    /\ stored' = [stored EXCEPT ![page[p]] = @ + 1]
    /\ Goto(p, "write", "readBack")
    /\ UNCHANGED <<cache, lock, call>>

\* What is asked for is there already: the state read is the result.
NothingToApply(p) == Fetch(p, "write", "releaseWrite")

ReadBack(p) == Fetch(p, "readBack", "releaseWrite")

\* The change is refused, or the work fails before or after it was applied.
WriteRefused(p) == Release(p, "write", "failed")
WriteFails(p) == Faults /\ Release(p, "readBack", "failed")

ReleaseWrite(p) == Release(p, "releaseWrite", "written")

----------------------------------------------------------------------------
Return(p) ==
    /\ \E at \in {"hit", "fetched", "written", "failed"} : Goto(p, at, "idle")
    /\ UNCHANGED <<stored, cache, lock, call>>

\* configTTL passes.
Expire(g) ==
    /\ cache[g] # Absent
    /\ cache' = [cache EXCEPT ![g] = Absent]
    /\ UNCHANGED <<stored, lock, pc, call>>

Next ==
    \/ \E p \in Proc :
         \/ BeginRead(p) \/ CacheHit(p) \/ CacheMiss(p) \/ ReadVLANTable(p)
         \/ AcquireRead(p) \/ ReadPage(p) \/ ReadFails(p) \/ ReleaseRead(p) \/ Store(p)
         \/ BeginWrite(p) \/ Forget(p) \/ AcquireWrite(p) \/ Apply(p)
         \/ NothingToApply(p) \/ ReadBack(p) \/ WriteRefused(p) \/ WriteFails(p)
         \/ ReleaseWrite(p) \/ Return(p)
    \/ \E g \in Page : Expire(g)

Spec == Init /\ [][Next]_vars

----------------------------------------------------------------------------
(* Properties.                                                             *)

\* The types of the variables.
TypeOK ==
    /\ stored \in [Page -> 0..MaxWrites]
    /\ cache \in [Page -> 0..MaxWrites \cup {Absent}]
    /\ lock \in Proc \cup {Nobody}
    /\ pc \in [Proc -> {"idle", "lookup", "hit", "table", "awaitRead", "read",
                        "releaseRead", "store", "fetched", "forget", "awaitWrite",
                        "write", "readBack", "releaseWrite", "written", "failed"}]
    /\ page \in [Proc -> Page]
    /\ got \in [Proc -> 0..MaxWrites]
    /\ began \in [Proc -> 0..MaxWrites]
    /\ overlapped \in [Proc -> BOOLEAN]

\* "The cache is dropped by any write" (vlan.go:127): once a write is about to
\* return, having succeeded or failed half-way, what is cached is no older than
\* what the device holds.
WriteDropsCache ==
    \A p \in Proc :
        pc[p] \in {"written", "failed"} => cache[page[p]] \in {Absent, stored[page[p]]}

\* So it is when no read overlaps the write: however writes overlap each other,
\* and whichever page is written, the values cached before are gone.
UnreadWriteDropsCache ==
    \A p \in Proc :
        pc[p] \in {"written", "failed"} /\ ~overlapped[p]
        => cache[page[p]] \in {Absent, stored[page[p]]}

\* A read that was not answered from the cache shows every write that had been
\* applied when it was called, whatever reads and writes overlap it.
MissIsCurrent ==
    \A p \in Proc : pc[p] \in {"store", "fetched"} => got[p] >= began[p]
=============================================================================
