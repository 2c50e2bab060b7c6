------------------------- MODULE ConfigCacheProofs -------------------------
(***************************************************************************)
(* Theorems about ConfigCache, for any goroutines, any pages and any       *)
(* number of writes, with and without failures.                            *)
(***************************************************************************)
EXTENDS ConfigCache, TLAPS

----------------------------------------------------------------------------
(* The inductive invariant.                                                *)

\* The device's versions only rise: a call began no later than now.
BeganBefore == \A p \in Proc : began[p] <= stored[page[p]]

\* What was fetched in a session is no older than the call.
FetchedSince ==
    \A p \in Proc : pc[p] \in {"releaseRead", "store", "fetched"} => got[p] >= began[p]

Forgotten == {"awaitWrite", "write", "readBack", "releaseWrite", "written", "failed"}

\* A write that no read overlapped is alone with other writes, and once it has
\* dropped the cache there is nobody to fill it.
WritesAlone ==
    \A p \in Proc : ~overlapped[p] =>
        /\ pc[p] \in Forgotten \cup {"forget"} => \A r \in Proc : pc[r] \notin Reading
        /\ pc[p] \in Forgotten => \A g \in Page : cache[g] = Absent

IInv == TypeOK /\ BeganBefore /\ FetchedSince /\ WritesAlone

\* Nobody has called the client yet.
LEMMA InitIInv == Init => IInv
  BY CacheAssumption
  DEF Init, IInv, TypeOK, BeganBefore, FetchedSince, WritesAlone, Forgotten, Reading

\* Every step keeps the types.
LEMMA TypeStep == TypeOK /\ [Next]_vars => TypeOK'
<1> SUFFICES ASSUME TypeOK, [Next]_vars PROVE TypeOK'
  OBVIOUS
<1> USE CacheAssumption DEF TypeOK, call
<1>1. ASSUME NEW p \in Proc, BeginRead(p) PROVE TypeOK'
  <2> PICK g \in Page : Call(p, g, "lookup")
    BY <1>1 DEF BeginRead
  <2>1. overlapped' \in [Proc -> BOOLEAN]
    BY Zenon DEF Call
  <2>2. began' \in [Proc -> 0..MaxWrites] /\ got' \in [Proc -> 0..MaxWrites]
    BY DEF Call
  <2> QED
    BY <2>1, <2>2 DEF Call, Goto
<1>2. ASSUME NEW p \in Proc, CacheHit(p) PROVE TypeOK'
  BY <1>2 DEF CacheHit, Goto
<1>3. ASSUME NEW p \in Proc, CacheMiss(p) PROVE TypeOK'
  BY <1>3 DEF CacheMiss, Goto
<1>4. ASSUME NEW p \in Proc, ReadVLANTable(p) PROVE TypeOK'
  BY <1>4 DEF ReadVLANTable, Goto
<1>5. ASSUME NEW p \in Proc, AcquireRead(p) PROVE TypeOK'
  BY <1>5 DEF AcquireRead, Acquire, Goto
<1>6. ASSUME NEW p \in Proc, ReadPage(p) PROVE TypeOK'
  BY <1>6 DEF ReadPage, Fetch, Goto
<1>7. ASSUME NEW p \in Proc, ReadFails(p) PROVE TypeOK'
  BY <1>7 DEF ReadFails, Release, Goto
<1>8. ASSUME NEW p \in Proc, ReleaseRead(p) PROVE TypeOK'
  BY <1>8 DEF ReleaseRead, Release, Goto
<1>9. ASSUME NEW p \in Proc, Store(p) PROVE TypeOK'
  BY <1>9 DEF Store, Goto
<1>10. ASSUME NEW p \in Proc, BeginWrite(p) PROVE TypeOK'
  <2> PICK g \in Page : Call(p, g, "forget")
    BY <1>10 DEF BeginWrite
  <2>1. overlapped' \in [Proc -> BOOLEAN]
    BY Zenon DEF Call
  <2>2. began' \in [Proc -> 0..MaxWrites] /\ got' \in [Proc -> 0..MaxWrites]
    BY DEF Call
  <2> QED
    BY <2>1, <2>2 DEF Call, Goto
<1>11. ASSUME NEW p \in Proc, Forget(p) PROVE TypeOK'
  BY <1>11 DEF Forget, Goto
<1>12. ASSUME NEW p \in Proc, AcquireWrite(p) PROVE TypeOK'
  BY <1>12 DEF AcquireWrite, Acquire, Goto
<1>13. ASSUME NEW p \in Proc, Apply(p) PROVE TypeOK'
  <2>1. stored' \in [Page -> 0..MaxWrites]
    <3>1. page[p] \in Page /\ stored[page[p]] \in 0..MaxWrites
      OBVIOUS
    <3>2. stored[page[p]] + 1 \in 0..MaxWrites
      BY <1>13, <3>1 DEF Apply
    <3>3. stored' = [stored EXCEPT ![page[p]] = stored[page[p]] + 1]
      BY <1>13 DEF Apply
    <3> QED
      BY <3>1, <3>2, <3>3
  <2> QED
    BY <1>13, <2>1 DEF Apply, Goto
<1>14. ASSUME NEW p \in Proc, NothingToApply(p) PROVE TypeOK'
  BY <1>14 DEF NothingToApply, Fetch, Goto
<1>15. ASSUME NEW p \in Proc, ReadBack(p) PROVE TypeOK'
  BY <1>15 DEF ReadBack, Fetch, Goto
<1>16. ASSUME NEW p \in Proc, WriteRefused(p) PROVE TypeOK'
  BY <1>16 DEF WriteRefused, Release, Goto
<1>17. ASSUME NEW p \in Proc, WriteFails(p) PROVE TypeOK'
  BY <1>17 DEF WriteFails, Release, Goto
<1>18. ASSUME NEW p \in Proc, ReleaseWrite(p) PROVE TypeOK'
  BY <1>18 DEF ReleaseWrite, Release, Goto
<1>19. ASSUME NEW p \in Proc, Return(p) PROVE TypeOK'
  BY <1>19 DEF Return, Goto
<1>20. ASSUME NEW g \in Page, Expire(g) PROVE TypeOK'
  BY <1>20 DEF Expire
<1>21. CASE UNCHANGED vars
  BY <1>21 DEF vars
<1> QED
  BY <1>1, <1>2, <1>3, <1>4, <1>5, <1>6, <1>7, <1>8, <1>9, <1>10, <1>11,
     <1>12, <1>13, <1>14, <1>15, <1>16, <1>17, <1>18, <1>19, <1>20, <1>21 DEF Next

\* Versions are numbers.
LEMMA VersionsTyped ==
    ASSUME TypeOK, NEW q \in Proc
    PROVE  began[q] \in Nat /\ page[q] \in Page /\ stored[page[q]] \in Nat
<1>1. began[q] \in 0..MaxWrites /\ page[q] \in Page /\ stored[page[q]] \in 0..MaxWrites
  BY DEF TypeOK
<1> QED
  BY <1>1

\* Every step keeps calls and fetches in the order of the versions.
LEMMA FreshStep == TypeOK /\ BeganBefore /\ FetchedSince /\ [Next]_vars => (BeganBefore /\ FetchedSince)'
<1> SUFFICES ASSUME TypeOK /\ BeganBefore /\ FetchedSince, [Next]_vars PROVE (BeganBefore /\ FetchedSince)'
  OBVIOUS
<1> USE CacheAssumption DEF TypeOK, BeganBefore, FetchedSince, call
<1>1. ASSUME NEW p \in Proc, BeginRead(p) PROVE (BeganBefore /\ FetchedSince)'
  BY <1>1 DEF BeginRead, Call, Goto
<1>2. ASSUME NEW p \in Proc, CacheHit(p) PROVE (BeganBefore /\ FetchedSince)'
  BY <1>2 DEF CacheHit, Goto
<1>3. ASSUME NEW p \in Proc, CacheMiss(p) PROVE (BeganBefore /\ FetchedSince)'
  BY <1>3 DEF CacheMiss, Goto
<1>4. ASSUME NEW p \in Proc, ReadVLANTable(p) PROVE (BeganBefore /\ FetchedSince)'
  BY <1>4 DEF ReadVLANTable, Goto
<1>5. ASSUME NEW p \in Proc, AcquireRead(p) PROVE (BeganBefore /\ FetchedSince)'
  BY <1>5 DEF AcquireRead, Acquire, Goto
<1>6. ASSUME NEW p \in Proc, ReadPage(p) PROVE (BeganBefore /\ FetchedSince)'
  BY <1>6 DEF ReadPage, Fetch, Goto
<1>7. ASSUME NEW p \in Proc, ReadFails(p) PROVE (BeganBefore /\ FetchedSince)'
  BY <1>7 DEF ReadFails, Release, Goto
<1>8. ASSUME NEW p \in Proc, ReleaseRead(p) PROVE (BeganBefore /\ FetchedSince)'
  BY <1>8 DEF ReleaseRead, Release, Goto
<1>9. ASSUME NEW p \in Proc, Store(p) PROVE (BeganBefore /\ FetchedSince)'
  BY <1>9 DEF Store, Goto
<1>10. ASSUME NEW p \in Proc, BeginWrite(p) PROVE (BeganBefore /\ FetchedSince)'
  BY <1>10 DEF BeginWrite, Call, Goto
<1>11. ASSUME NEW p \in Proc, Forget(p) PROVE (BeganBefore /\ FetchedSince)'
  BY <1>11 DEF Forget, Goto
<1>12. ASSUME NEW p \in Proc, AcquireWrite(p) PROVE (BeganBefore /\ FetchedSince)'
  BY <1>12 DEF AcquireWrite, Acquire, Goto
<1>13. ASSUME NEW p \in Proc, Apply(p) PROVE (BeganBefore /\ FetchedSince)'
  <2>0. stored' = [stored EXCEPT ![page[p]] = stored[page[p]] + 1]
    BY <1>13 DEF Apply
  <2>1. ASSUME NEW g \in Page PROVE stored[g] <= stored'[g]
    <3>1. stored[g] \in Nat /\ page[p] \in Page
      OBVIOUS
    <3>2. CASE g = page[p]
      BY <2>0, <3>1, <3>2
    <3>3. CASE g # page[p]
      BY <2>0, <3>1, <3>3
    <3> QED
      BY <3>2, <3>3
  <2>2. ASSUME NEW q \in Proc PROVE began'[q] <= stored'[page'[q]]
    <3>1. began' = began /\ page' = page
      BY <1>13 DEF Apply
    <3>2. began[q] <= stored[page[q]] /\ stored[page[q]] <= stored'[page[q]]
      BY <2>1
    <3>3. began[q] \in Nat /\ stored[page[q]] \in Nat
      BY VersionsTyped
    <3>4. stored'[page[q]] \in Nat
      <4>1. page[q] \in Page /\ page[p] \in Page /\ stored[page[p]] \in Nat
        BY VersionsTyped
      <4>2. CASE page[q] = page[p]
        BY <2>0, <4>1, <4>2
      <4>3. CASE page[q] # page[p]
        BY <2>0, <3>3, <4>1, <4>3
      <4> QED
        BY <4>2, <4>3
    <3> QED
      BY <3>1, <3>2, <3>3, <3>4
  <2>3. FetchedSince'
    BY <1>13 DEF Apply, Goto
  <2> QED
    BY <2>2, <2>3
<1>14. ASSUME NEW p \in Proc, NothingToApply(p) PROVE (BeganBefore /\ FetchedSince)'
  BY <1>14 DEF NothingToApply, Fetch, Goto
<1>15. ASSUME NEW p \in Proc, ReadBack(p) PROVE (BeganBefore /\ FetchedSince)'
  BY <1>15 DEF ReadBack, Fetch, Goto
<1>16. ASSUME NEW p \in Proc, WriteRefused(p) PROVE (BeganBefore /\ FetchedSince)'
  BY <1>16 DEF WriteRefused, Release, Goto
<1>17. ASSUME NEW p \in Proc, WriteFails(p) PROVE (BeganBefore /\ FetchedSince)'
  BY <1>17 DEF WriteFails, Release, Goto
<1>18. ASSUME NEW p \in Proc, ReleaseWrite(p) PROVE (BeganBefore /\ FetchedSince)'
  BY <1>18 DEF ReleaseWrite, Release, Goto
<1>19. ASSUME NEW p \in Proc, Return(p) PROVE (BeganBefore /\ FetchedSince)'
  BY <1>19 DEF Return, Goto
<1>20. ASSUME NEW g \in Page, Expire(g) PROVE (BeganBefore /\ FetchedSince)'
  BY <1>20 DEF Expire
<1>21. CASE UNCHANGED vars
  BY <1>21 DEF vars
<1> QED
  BY <1>1, <1>2, <1>3, <1>4, <1>5, <1>6, <1>7, <1>8, <1>9, <1>10, <1>11,
     <1>12, <1>13, <1>14, <1>15, <1>16, <1>17, <1>18, <1>19, <1>20, <1>21 DEF Next

\* Every step keeps a write that no read overlaps alone.
LEMMA AloneStep == TypeOK /\ WritesAlone /\ [Next]_vars => WritesAlone'
<1> SUFFICES ASSUME TypeOK /\ WritesAlone, [Next]_vars PROVE WritesAlone'
  OBVIOUS
<1> USE CacheAssumption DEF TypeOK, WritesAlone, Forgotten, Reading, call
<1>1. ASSUME NEW p \in Proc, BeginRead(p) PROVE WritesAlone'
  <2> PICK g \in Page : Call(p, g, "lookup")
    BY <1>1 DEF BeginRead
  <2> SUFFICES ASSUME NEW q \in Proc, ~overlapped'[q]
               PROVE  pc'[q] \notin Forgotten \cup {"forget"}
    OBVIOUS
  <2>1. CASE q = p
    BY <2>1 DEF Call, Goto
  <2>2. CASE q # p
    <3>1. pc[q] = "idle"
      BY <2>2 DEF Call
    <3> QED
      BY <2>2, <3>1 DEF Call, Goto
  <2> QED
    BY <2>1, <2>2
<1>2. ASSUME NEW p \in Proc, CacheHit(p) PROVE WritesAlone'
  BY <1>2 DEF CacheHit, Goto
<1>3. ASSUME NEW p \in Proc, CacheMiss(p) PROVE WritesAlone'
  BY <1>3 DEF CacheMiss, Goto
<1>4. ASSUME NEW p \in Proc, ReadVLANTable(p) PROVE WritesAlone'
  BY <1>4 DEF ReadVLANTable, Goto
<1>5. ASSUME NEW p \in Proc, AcquireRead(p) PROVE WritesAlone'
  BY <1>5 DEF AcquireRead, Acquire, Goto
<1>6. ASSUME NEW p \in Proc, ReadPage(p) PROVE WritesAlone'
  BY <1>6 DEF ReadPage, Fetch, Goto
<1>7. ASSUME NEW p \in Proc, ReadFails(p) PROVE WritesAlone'
  BY <1>7 DEF ReadFails, Release, Goto
<1>8. ASSUME NEW p \in Proc, ReleaseRead(p) PROVE WritesAlone'
  BY <1>8 DEF ReleaseRead, Release, Goto
<1>9. ASSUME NEW p \in Proc, Store(p) PROVE WritesAlone'
  BY <1>9 DEF Store, Goto
<1>10. ASSUME NEW p \in Proc, BeginWrite(p) PROVE WritesAlone'
  BY <1>10 DEF BeginWrite, Call, Goto
<1>11. ASSUME NEW p \in Proc, Forget(p) PROVE WritesAlone'
  BY <1>11 DEF Forget, Goto
<1>12. ASSUME NEW p \in Proc, AcquireWrite(p) PROVE WritesAlone'
  BY <1>12 DEF AcquireWrite, Acquire, Goto
<1>13. ASSUME NEW p \in Proc, Apply(p) PROVE WritesAlone'
  BY <1>13 DEF Apply, Goto
<1>14. ASSUME NEW p \in Proc, NothingToApply(p) PROVE WritesAlone'
  BY <1>14 DEF NothingToApply, Fetch, Goto
<1>15. ASSUME NEW p \in Proc, ReadBack(p) PROVE WritesAlone'
  BY <1>15 DEF ReadBack, Fetch, Goto
<1>16. ASSUME NEW p \in Proc, WriteRefused(p) PROVE WritesAlone'
  BY <1>16 DEF WriteRefused, Release, Goto
<1>17. ASSUME NEW p \in Proc, WriteFails(p) PROVE WritesAlone'
  BY <1>17 DEF WriteFails, Release, Goto
<1>18. ASSUME NEW p \in Proc, ReleaseWrite(p) PROVE WritesAlone'
  BY <1>18 DEF ReleaseWrite, Release, Goto
<1>19. ASSUME NEW p \in Proc, Return(p) PROVE WritesAlone'
  BY <1>19 DEF Return, Goto
<1>20. ASSUME NEW g \in Page, Expire(g) PROVE WritesAlone'
  BY <1>20 DEF Expire
<1>21. CASE UNCHANGED vars
  BY <1>21 DEF vars
<1> QED
  BY <1>1, <1>2, <1>3, <1>4, <1>5, <1>6, <1>7, <1>8, <1>9, <1>10, <1>11,
     <1>12, <1>13, <1>14, <1>15, <1>16, <1>17, <1>18, <1>19, <1>20, <1>21 DEF Next

\* The invariant holds throughout.
THEOREM InductiveInvariant == Spec => []IInv
<1>1. IInv /\ [Next]_vars => IInv'
  BY TypeStep, FreshStep, AloneStep DEF IInv
<1> QED
  BY InitIInv, <1>1, PTL DEF Spec

----------------------------------------------------------------------------
(* Its consequences.                                                       *)

\* The variables keep their types.
THEOREM TypeCorrect == Spec => []TypeOK
<1>1. IInv => TypeOK
  BY DEF IInv
<1> QED
  BY <1>1, InductiveInvariant, PTL

\* A read that the cache does not answer shows every write applied before it was
\* called (ReadConfig, ReadSettings, ReadManagement).
THEOREM MissesAreCurrent == Spec => []MissIsCurrent
<1>1. IInv => MissIsCurrent
  BY DEF IInv, FetchedSince, MissIsCurrent
<1> QED
  BY <1>1, InductiveInvariant, PTL

\* A write that no read overlaps returns with nothing old in the cache (forget,
\* client.go:152): the race of readers and writers is the only way to it.
THEOREM UnreadWritesDropCache == Spec => []UnreadWriteDropsCache
<1>1. IInv => UnreadWriteDropsCache
  BY DEF IInv, TypeOK, WritesAlone, Forgotten, UnreadWriteDropsCache
<1> QED
  BY <1>1, InductiveInvariant, PTL
=============================================================================
