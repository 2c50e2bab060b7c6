----------------------- MODULE StaleConnectionProofs -----------------------
(***************************************************************************)
(* Theorems about StaleConnection, for any number of dials left behind and *)
(* any number of repetitions of a GET.                                     *)
(***************************************************************************)
EXTENDS StaleConnection, TLAPS

----------------------------------------------------------------------------
(* The inductive invariant.                                                *)

\* A POST the device has acted on is over, or waits for its answer alone.
PostServed == method = "POST" => served = 0 \/ (served = 1 /\ pc \in {"idle", "served"})

\* A request that waits for its answer has been acted on.
ServedCounted == pc = "served" => served > 0

\* A request that is yet to be written has its body, and so has one that was.
BodyWhole ==
    /\ pc \in {"pick", "dial", "ready"} => body = "full"
    /\ pc = "written" => carried = "full"
    /\ ~truncated

\* While nothing was interrupted, no dial is left behind, so nothing fills the
\* pool under a request: its second connection is a fresh one.
SecondIsFresh ==
    ~interrupted =>
        /\ late = 0
        /\ outcome # "stale"
        /\ pc \notin {"idle", "pick"} => pool = "none"
        /\ pc # "idle" /\ attempt > 1 =>
             pool = "none" /\ conn # "pooled" /\ (pc = "ready" => conn = "fresh")

IInv == TypeOK /\ PostServed /\ ServedCounted /\ BodyWhole /\ SecondIsFresh

\* The invariant holds at first: there is no connection and no request.
LEMMA InitIInv == Init => IInv
<1> SUFFICES ASSUME Init PROVE IInv
  OBVIOUS
<1>1. CountersOK
  BY StaleConnectionAssumption DEF Init, CountersOK, StaleConnAttempts
<1>2. TagsOK
  BY DEF Init, TagsOK, Methods
<1>3. PostServed /\ ServedCounted /\ BodyWhole /\ SecondIsFresh
  BY DEF Init, PostServed, ServedCounted, BodyWhole, SecondIsFresh
<1> QED
  BY <1>1, <1>2, <1>3 DEF IInv, TypeOK

\* Every step keeps the counters in range.
LEMMA CountersStep == CountersOK /\ [Next]_vars => CountersOK'
<1> SUFFICES ASSUME CountersOK, [Next]_vars PROVE CountersOK'
  OBVIOUS
<1> USE StaleConnectionAssumption
    DEF CountersOK, StaleConnAttempts, link, request, carrier, history
<1>1. ASSUME NEW m \in Methods, Begin(m) PROVE CountersOK'
  BY <1>1 DEF Begin
<1>2. CASE Pick \/ Dial \/ Dialled
  BY <1>2 DEF Pick, Dial, Dialled
<1>3. CASE LateConnection
  BY <1>3 DEF LateConnection
<1>4. CASE LateDialFails \/ DropIdle \/ DropInUse \/ Discard
  BY <1>4 DEF LateDialFails, DropIdle, DropInUse, Discard
<1>5. CASE ClosedIdle
  BY <1>5 DEF ClosedIdle, Dead, Again, SentAgain, Reader, Ends
<1>6. CASE NothingWritten \/ Repeated
  BY <1>6 DEF NothingWritten, Repeated, Dead, Again
<1>7. CASE Write
  BY <1>7 DEF Write
<1>8. CASE Serve
  BY <1>8 DEF Serve
<1>9. CASE Answer
  BY <1>9 DEF Answer, Ends
<1>10. CASE DialFails \/ FreshClosed \/ Broken
  BY <1>10 DEF DialFails, FreshClosed, Broken, Ends
<1>11. CASE Interrupt
  BY <1>11 DEF Interrupt, Ends
<1>12. CASE UNCHANGED vars
  BY <1>12 DEF vars
<1> QED
  BY <1>1, <1>2, <1>3, <1>4, <1>5, <1>6, <1>7, <1>8, <1>9, <1>10, <1>11, <1>12 DEF Next

\* Every step keeps the other types.
LEMMA TagsStep == TagsOK /\ [Next]_vars => TagsOK'
<1> SUFFICES ASSUME TagsOK, [Next]_vars PROVE TagsOK'
  OBVIOUS
<1> USE DEF TagsOK, Methods, link, request, carrier, history
<1>1. ASSUME NEW m \in Methods, Begin(m) PROVE TagsOK'
  BY <1>1 DEF Begin
<1>2. CASE Pick \/ Dial \/ Dialled
  BY <1>2 DEF Pick, Dial, Dialled
<1>3. CASE LateConnection
  BY <1>3 DEF LateConnection
<1>4. CASE LateDialFails \/ DropIdle \/ DropInUse \/ Discard
  BY <1>4 DEF LateDialFails, DropIdle, DropInUse, Discard
<1>5. CASE ClosedIdle
  BY <1>5 DEF ClosedIdle, Dead, Again, SentAgain, Reader, Ends
<1>6. CASE NothingWritten \/ Repeated
  BY <1>6 DEF NothingWritten, Repeated, Dead, Again
<1>7. CASE Write
  BY <1>7 DEF Write
<1>8. CASE Serve
  BY <1>8 DEF Serve
<1>9. CASE Answer
  BY <1>9 DEF Answer, Ends
<1>10. CASE DialFails \/ FreshClosed \/ Broken
  BY <1>10 DEF DialFails, FreshClosed, Broken, Ends
<1>11. CASE Interrupt
  BY <1>11 DEF Interrupt, Ends
<1>12. CASE UNCHANGED vars
  BY <1>12 DEF vars
<1> QED
  BY <1>1, <1>2, <1>3, <1>4, <1>5, <1>6, <1>7, <1>8, <1>9, <1>10, <1>11, <1>12 DEF Next

\* What is known of the request alone.
RequestInv == PostServed /\ ServedCounted /\ BodyWhole

\* Every step keeps what is known of the request.
LEMMA RequestStep == CountersOK /\ RequestInv /\ [Next]_vars => RequestInv'
<1> SUFFICES ASSUME CountersOK /\ RequestInv, [Next]_vars PROVE RequestInv'
  OBVIOUS
<1> USE DEF CountersOK, RequestInv, PostServed, ServedCounted, BodyWhole, link, request, carrier, history
<1>1. ASSUME NEW m \in Methods, Begin(m) PROVE RequestInv'
  BY <1>1 DEF Begin
<1>2. CASE Pick \/ Dial \/ Dialled
  BY <1>2 DEF Pick, Dial, Dialled
<1>3. CASE LateConnection
  BY <1>3 DEF LateConnection
<1>4. CASE LateDialFails \/ DropIdle \/ DropInUse \/ Discard
  BY <1>4 DEF LateDialFails, DropIdle, DropInUse, Discard
<1>5. CASE ClosedIdle
  BY <1>5 DEF ClosedIdle, Dead, Again, SentAgain, Reader, Ends
<1>6. CASE NothingWritten \/ Repeated
  BY <1>6 DEF NothingWritten, Repeated, Dead, Again
<1>7. CASE Write
  BY <1>7 DEF Write
<1>8. CASE Serve
  <2>1. ~truncated'
    BY <1>8 DEF Serve
  <2>2. PostServed' /\ ServedCounted'
    BY <1>8 DEF Serve
  <2> QED
    BY <1>8, <2>1, <2>2 DEF Serve
<1>9. CASE Answer
  BY <1>9 DEF Answer, Ends
<1>10. CASE DialFails \/ FreshClosed \/ Broken
  BY <1>10 DEF DialFails, FreshClosed, Broken, Ends
<1>11. CASE Interrupt
  BY <1>11 DEF Interrupt, Ends
<1>12. CASE UNCHANGED vars
  BY <1>12 DEF vars
<1> QED
  BY <1>1, <1>2, <1>3, <1>4, <1>5, <1>6, <1>7, <1>8, <1>9, <1>10, <1>11, <1>12 DEF Next

\* Every step keeps what is known of the pool.
LEMMA PoolStep == CountersOK /\ SecondIsFresh /\ [Next]_vars => SecondIsFresh'
<1> SUFFICES ASSUME CountersOK /\ SecondIsFresh, [Next]_vars PROVE SecondIsFresh'
  OBVIOUS
<1> USE DEF CountersOK, SecondIsFresh, StaleConnAttempts, link, request, carrier, history
<1>1. ASSUME NEW m \in Methods, Begin(m) PROVE SecondIsFresh'
  BY <1>1 DEF Begin
<1>2. CASE Pick \/ Dial \/ Dialled
  BY <1>2 DEF Pick, Dial, Dialled
<1>3. CASE LateConnection
  BY <1>3 DEF LateConnection
<1>4. CASE LateDialFails \/ DropIdle \/ DropInUse \/ Discard
  BY <1>4 DEF LateDialFails, DropIdle, DropInUse, Discard
<1>5. CASE ClosedIdle
  <2>1. CASE method = "GET"
    BY <1>5, <2>1 DEF ClosedIdle, Dead, Again
  <2>2. CASE method # "GET" /\ attempt < StaleConnAttempts
    BY <1>5, <2>2 DEF ClosedIdle, Dead, SentAgain
  <2>3. CASE method # "GET" /\ ~(attempt < StaleConnAttempts)
    <3>0. UNCHANGED link
      BY <1>5, <2>3, Zenon DEF ClosedIdle, SentAgain
    <3>1. conn = "pooled" /\ pc = "ready" /\ interrupted' = interrupted
      BY <1>5, <3>0, Zenon DEF ClosedIdle, Dead
    <3>2. attempt > 1
      BY <2>3
    <3>3. interrupted
      BY <3>1, <3>2
    <3> QED
      BY <3>1, <3>3
  <2> QED
    BY <2>1, <2>2, <2>3
<1>6. CASE NothingWritten \/ Repeated
  BY <1>6 DEF NothingWritten, Repeated, Dead, Again
<1>7. CASE Write
  BY <1>7 DEF Write
<1>8. CASE Serve
  BY <1>8 DEF Serve
<1>9. CASE Answer
  BY <1>9 DEF Answer, Ends
<1>10. CASE DialFails \/ FreshClosed \/ Broken
  BY <1>10 DEF DialFails, FreshClosed, Broken, Ends
<1>11. CASE Interrupt
  BY <1>11 DEF Interrupt, Ends
<1>12. CASE UNCHANGED vars
  BY <1>12 DEF vars
<1> QED
  BY <1>1, <1>2, <1>3, <1>4, <1>5, <1>6, <1>7, <1>8, <1>9, <1>10, <1>11, <1>12 DEF Next

\* Every step preserves the inductive invariant.
LEMMA NextIInv == IInv /\ [Next]_vars => IInv'
  BY CountersStep, TagsStep, RequestStep, PoolStep DEF IInv, TypeOK, RequestInv

\* The invariant holds throughout.
THEOREM InductiveInvariant == Spec => []IInv
  BY InitIInv, NextIInv, PTL DEF Spec

----------------------------------------------------------------------------
(* Its consequences.                                                       *)

\* The variables keep their types.
THEOREM TypeCorrect == Spec => []TypeOK
<1>1. IInv => TypeOK
  BY DEF IInv
<1> QED
  BY <1>1, InductiveInvariant, PTL

\* A POST is acted on at most once, whatever happens to the connections
\* (isStaleConn, client.go:221).
THEOREM PostsAtMostOnce == Spec => []PostAtMostOnce
<1>1. IInv => PostAtMostOnce
  BY DEF IInv, PostServed, PostAtMostOnce
<1> QED
  BY <1>1, InductiveInvariant, PTL

\* The device never acts on a POST without its body (client.go:244).
THEOREM NoPostEmpty == Spec => []NoEmptyPost
<1>1. IInv => NoEmptyPost
  BY DEF IInv, BodyWhole, NoEmptyPost
<1> QED
  BY <1>1, InductiveInvariant, PTL

\* Without an interruption no request fails on a connection left over in the
\* pool (client.go:233).
THEOREM LeftOversHarmless == Spec => []NoStaleFailure
<1>1. IInv => NoStaleFailure
  BY DEF IInv, SecondIsFresh, NoStaleFailure
<1> QED
  BY <1>1, InductiveInvariant, PTL

----------------------------------------------------------------------------
(* The refinement.                                                         *)

\* The barred outcome that Exchange sees.
LEMMA InitRefines == Init => E!Init
  BY DEF Init, E!Init

\* Every step of a request is a step of Exchange, or changes nothing that
\* Exchange knows of.
LEMMA NextRefines == IInv /\ [Next]_vars => [E!Next]_E!vars
<1> SUFFICES ASSUME IInv, [Next]_vars PROVE [E!Next]_E!vars
  OBVIOUS
<1> USE DEF link, request, carrier, history
<1>1. ASSUME NEW m \in Methods, Begin(m) PROVE E!Begin(m)
  BY <1>1 DEF Begin, E!Begin
<1>2. CASE Pick \/ Dial \/ Dialled \/ LateConnection \/ Write
  BY <1>2 DEF Pick, Dial, Dialled, LateConnection, Write, E!vars
<1>3. CASE LateDialFails \/ DropIdle \/ DropInUse \/ Discard
  BY <1>3 DEF LateDialFails, DropIdle, DropInUse, Discard, E!vars
<1>4. CASE NothingWritten \/ Repeated
  BY <1>4 DEF NothingWritten, Repeated, Dead, Again, E!vars
<1>5. CASE ClosedIdle
  <2>1. CASE pc' = "pick"
    BY <1>5, <2>1 DEF ClosedIdle, Dead, Again, Ends, E!vars
  <2>2. CASE pc' # "pick"
    BY <1>5, <2>2 DEF ClosedIdle, Dead, Again, Ends, E!Return, E!Next
  <2> QED
    BY <2>1, <2>2
<1>6. CASE FreshClosed \/ DialFails \/ Broken \/ Interrupt
  <2>1. E!Return("error")
    BY <1>6 DEF FreshClosed, DialFails, Broken, Interrupt, Ends, E!Return
  <2> QED
    BY <2>1 DEF E!Next
<1>7. CASE Serve
  <2>1. method = "POST" => served = 0
    BY <1>7 DEF Serve, IInv, PostServed
  <2> QED
    BY <1>7, <2>1 DEF Serve, E!Serve, E!Next
<1>8. CASE Answer
  <2>1. served > 0
    BY <1>8 DEF Answer, IInv, ServedCounted
  <2> QED
    BY <1>8, <2>1 DEF Answer, Ends, E!Return, E!Next
<1>9. CASE UNCHANGED vars
  BY <1>9 DEF vars, E!vars
<1> QED
  BY <1>1, <1>2, <1>3, <1>4, <1>5, <1>6, <1>7, <1>8, <1>9 DEF Next, E!Next, Methods

\* fetch is what its callers take it for (client.go:221-283).
THEOREM FetchIsAnExchange == Spec => ImplementsExchange
  BY InitRefines, NextRefines, InductiveInvariant, PTL DEF Spec, E!Spec, ImplementsExchange
=============================================================================
