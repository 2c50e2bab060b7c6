------------------------ MODULE DeviceSessionProofs ------------------------
(***************************************************************************)
(* Theorems about DeviceSession, for any number of goroutines, clients,    *)
(* addresses and switches, with every fault switched on or off.            *)
(***************************************************************************)
EXTENDS DeviceSession, TLAPS

----------------------------------------------------------------------------
(* The inductive invariant.                                                *)

\* A call past lock.Lock() holds the lock of its client's Host.
LockHeld == \A p \in Proc : pc[p] \in Locked => lock[HostFor(p)] = p

\* Only a call between Lock and Unlock has a request on the wire.
WireUsed == \A p \in Proc : wire[p] # "none" => pc[p] \in OnTheWire

\* A request the work has sent is one it still had to send.
BudgetLeft ==
    \A p \in Proc : pc[p] = "work" /\ wire[p] # "none" => left[p] > 0

\* A login stands in a client only while one of its goroutines is in session.
TokenLive ==
    \A c \in Client :
        loggedIn[c] => \E p \in Proc : ClientOf[p] = c /\ pc[p] \in InSession

\* A call has no result before its work has run.
OutcomePending ==
    \A p \in Proc :
        pc[p] \in {"lockSession", "lockRead", "login"} => outcome[p] = "none"

\* Once the device answered a logout, and from then on in a call that reports
\* success, the session is not the caller's.
Released ==
    \A p \in Proc :
        \/ pc[p] = "logout" /\ wire[p] = "ok"
        \/ pc[p] \notin InSession /\ outcome[p] = "ok"
        => session[DeviceFor(p)] # p

IInv ==
    /\ TypeOK
    /\ LockHeld
    /\ WireUsed
    /\ BudgetLeft
    /\ TokenLive
    /\ OutcomePending
    /\ Released

\* Every switch is addressed under one name: the lock's key is the Host string
\* the user wrote, so this is what makes it a lock per device.
OneNamePerDevice ==
    \A g, h \in Host : DeviceOf[g] = DeviceOf[h] => g = h

\* The types of the parameters' combinations.
LEMMA RoutesTyped ==
    ASSUME NEW p \in Proc
    PROVE  /\ ClientOf[p] \in Client
           /\ HostFor(p) \in Host
           /\ DeviceFor(p) \in Device
  BY ConstantsAssumption DEF HostFor, DeviceFor

\* Nobody has a session at first.
LEMMA InitIInv == Init => IInv
  BY ConstantsAssumption, RoutesTyped
  DEF Init, IInv, TypeOK, LockHeld, WireUsed, BudgetLeft, TokenLive, OutcomePending,
      Released, Locked, OnTheWire, InSession

\* Every action preserves the inductive invariant.
LEMMA NextIInv == IInv /\ [Next]_vars => IInv'
<1> SUFFICES ASSUME IInv, [Next]_vars
             PROVE  IInv'
  OBVIOUS
<1> USE ConstantsAssumption, RoutesTyped
    DEF IInv, TypeOK, LockHeld, WireUsed, BudgetLeft, TokenLive, OutcomePending, Released,
        Locked, OnTheWire, InSession
<1>1. ASSUME NEW p \in Proc, Begin(p) PROVE IInv'
  BY <1>1 DEF Begin
<1>2. ASSUME NEW p \in Proc, AcquireRead(p) PROVE IInv'
  BY <1>2 DEF AcquireRead, Take
<1>3. ASSUME NEW p \in Proc, AcquireSession(p) PROVE IInv'
  BY <1>3 DEF AcquireSession, Take
<1>4. ASSUME NEW p \in Proc, Send(p) PROVE IInv'
  BY <1>4 DEF Send
<1>5. ASSUME NEW p \in Proc, ServeLogin(p) PROVE IInv'
  BY <1>5 DEF ServeLogin
<1>6. ASSUME NEW p \in Proc, ServeReason(p) PROVE IInv'
  BY <1>6 DEF ServeReason
<1>7. ASSUME NEW p \in Proc, ServePage(p) PROVE IInv'
  BY <1>7 DEF ServePage
<1>8. ASSUME NEW p \in Proc, ServeLogout(p) PROVE IInv'
  BY <1>8 DEF ServeLogout
<1>9. ASSUME NEW p \in Proc, LoginAllowed(p) PROVE IInv'
  BY <1>9 DEF LoginAllowed
<1>10. ASSUME NEW p \in Proc, LoginDenied(p) PROVE IInv'
  BY <1>10 DEF LoginDenied
<1>11. ASSUME NEW p \in Proc, ReasonAnswered(p) PROVE IInv'
  BY <1>11 DEF ReasonAnswered, GiveUp
<1>12. ASSUME NEW p \in Proc, WorkAnswered(p) PROVE IInv'
  BY <1>12 DEF WorkAnswered
<1>13. ASSUME NEW p \in Proc, ReadAnswered(p) PROVE IInv'
  BY <1>13 DEF ReadAnswered, GiveUp
<1>14. ASSUME NEW p \in Proc, LogoutAnswered(p) PROVE IInv'
  BY <1>14 DEF LogoutAnswered, LoggedOut, GiveUp
<1>15. ASSUME NEW p \in Proc, LoginFails(p) PROVE IInv'
  BY <1>15 DEF LoginFails, Breaks, GiveUp
<1>16. ASSUME NEW p \in Proc, ReasonFails(p) PROVE IInv'
  BY <1>16 DEF ReasonFails, Breaks, GiveUp
<1>17. ASSUME NEW p \in Proc, WorkFails(p) PROVE IInv'
  BY <1>17 DEF WorkFails, Breaks
<1>18. ASSUME NEW p \in Proc, ReadFails(p) PROVE IInv'
  BY <1>18 DEF ReadFails, Breaks, GiveUp
<1>19. ASSUME NEW p \in Proc, LogoutFails(p) PROVE IInv'
  BY <1>19 DEF LogoutFails, LoggedOut, Breaks, GiveUp
<1>20. ASSUME NEW p \in Proc, WorkReturns(p) PROVE IInv'
  BY <1>20 DEF WorkReturns
<1>21. ASSUME NEW p \in Proc, Return(p) PROVE IInv'
  BY <1>21 DEF Return
<1>22. ASSUME NEW p \in Proc, Interrupt(p) PROVE IInv'
  BY <1>22 DEF Interrupt
<1>23. ASSUME NEW d \in Device, OwnerLogsIn(d) \/ OwnerLogsOut(d) \/ SessionExpires(d)
       PROVE IInv'
  BY <1>23 DEF OwnerLogsIn, OwnerLogsOut, SessionExpires
<1>24. CASE UNCHANGED vars
  BY <1>24 DEF vars, HostFor, DeviceFor
<1> QED
  BY <1>1, <1>2, <1>3, <1>4, <1>5, <1>6, <1>7, <1>8, <1>9, <1>10, <1>11, <1>12,
     <1>13, <1>14, <1>15, <1>16, <1>17, <1>18, <1>19, <1>20, <1>21, <1>22, <1>23,
     <1>24
  DEF Next, Acquire, Serve, Answered, Fails, Step

\* The inductive invariant holds in every reachable state.
THEOREM InductiveInvariant == Spec => []IInv
  BY InitIInv, NextIInv, PTL DEF Spec

----------------------------------------------------------------------------
(* What follows from it.                                                   *)

\* Two calls to one switch that both hold "the" lock are the same call,
\* provided every switch is addressed under one name.
LEMMA LockIsExclusive ==
    ASSUME IInv, OneNamePerDevice,
           NEW p \in Proc, NEW q \in Proc, DeviceFor(p) = DeviceFor(q),
           pc[p] \in Locked, pc[q] \in Locked
    PROVE  p = q
  BY RoutesTyped DEF IInv, LockHeld, OneNamePerDevice, DeviceFor

\* The variables keep their types.
THEOREM TypeCorrect == Spec => []TypeOK
  BY InductiveInvariant, PTL DEF IInv

\* The provider has at most one request on its way to a switch, for any number
\* of aliases and goroutines, when every switch is addressed under one name.
THEOREM RequestsSerialised == OneNamePerDevice => (Spec => []OneRequestPerDevice)
<1> SUFFICES ASSUME OneNamePerDevice PROVE Spec => []OneRequestPerDevice
  OBVIOUS
<1>1. IInv => OneRequestPerDevice
  BY LockIsExclusive DEF OneRequestPerDevice, IInv, WireUsed, Locked
<1> QED
  BY <1>1, InductiveInvariant, PTL

\* Client.loggedIn and the cookie jar are only touched under the lock.
THEOREM SessionFieldsSafe == Spec => []SessionFieldsGuarded
<1>1. IInv => SessionFieldsGuarded
  <2> SUFFICES ASSUME IInv, NEW c \in Client, loggedIn[c]
               PROVE  \E p \in Proc :
                        /\ ClientOf[p] = c /\ pc[p] \in InSession /\ lock[HostOf[c]] = p
                        /\ \A q \in Proc :
                             ClientOf[q] = c /\ pc[q] \in OnTheWire => q = p
    BY DEF SessionFieldsGuarded
  <2>1. PICK p \in Proc : ClientOf[p] = c /\ pc[p] \in InSession
    BY DEF IInv, TokenLive
  <2>2. \A q \in Proc : ClientOf[q] = c /\ pc[q] \in OnTheWire => lock[HostOf[c]] = q
    BY DEF IInv, LockHeld, Locked, HostFor
  <2>3. pc[p] \in OnTheWire
    BY <2>1 DEF OnTheWire
  <2> QED
    BY <2>1, <2>2, <2>3
<1> QED
  BY <1>1, InductiveInvariant, PTL

\* A call that reports success has given the session back.
THEOREM SuccessReleases == Spec => []NoSilentOrphan
<1>1. IInv => NoSilentOrphan
  BY DEF IInv, Released, NoSilentOrphan, InSession
<1> QED
  BY <1>1, InductiveInvariant, PTL

\* No step of the provider ends a session another login opened.
THEOREM ForeignSessionsKept == Spec => OnlyOwnSessionEnded
<1> DEFINE Kept == \A d \in Device :
                     wire' # wire /\ session[d] # Nobody /\ session'[d] # session[d]
                     => \E p \in Proc : session[d] = p /\ pc[p] = "logout"
<1>1. IInv /\ [Next]_vars => [Kept]_vars
  <2> SUFFICES ASSUME IInv, Next, NEW d \in Device,
                      wire' # wire, session[d] # Nobody, session'[d] # session[d]
               PROVE  \E p \in Proc : session[d] = p /\ pc[p] = "logout"
    OBVIOUS
  <2> USE DEF IInv, TypeOK
  <2>1. ASSUME NEW p \in Proc, ServeLogin(p) PROVE FALSE
    BY <2>1, RoutesTyped DEF ServeLogin
  <2>2. ASSUME NEW p \in Proc, ServeLogout(p)
        PROVE  session[d] = p /\ pc[p] = "logout"
    BY <2>2, RoutesTyped DEF ServeLogout
  <2>3. ASSUME NEW p \in Proc, Begin(p) \/ Acquire(p) \/ Interrupt(p) PROVE FALSE
    BY <2>3 DEF Begin, Acquire, AcquireRead, AcquireSession, Interrupt
  <2>4. ASSUME NEW p \in Proc, Send(p) \/ WorkReturns(p) \/ Return(p) PROVE FALSE
    BY <2>4 DEF Send, WorkReturns, Return
  <2>5. ASSUME NEW p \in Proc, ServeReason(p) \/ ServePage(p) PROVE FALSE
    BY <2>5 DEF ServeReason, ServePage
  <2>6. ASSUME NEW p \in Proc, Answered(p) PROVE FALSE
    BY <2>6 DEF Answered, LoginAllowed, LoginDenied, ReasonAnswered, WorkAnswered,
                ReadAnswered, LogoutAnswered
  <2>7. ASSUME NEW p \in Proc, Fails(p) PROVE FALSE
    BY <2>7 DEF Fails, LoginFails, ReasonFails, WorkFails, ReadFails, LogoutFails
  <2>8. ASSUME NEW e \in Device, OwnerLogsIn(e) \/ OwnerLogsOut(e) \/ SessionExpires(e)
        PROVE  FALSE
    BY <2>8 DEF OwnerLogsIn, OwnerLogsOut, SessionExpires
  <2> QED
    BY <2>1, <2>2, <2>3, <2>4, <2>5, <2>6, <2>7, <2>8 DEF Next, Step, Serve
<1> QED
  BY <1>1, InductiveInvariant, PTL DEF Spec, OnlyOwnSessionEnded

----------------------------------------------------------------------------
(* When nothing fails.                                                     *)

Undisturbed == ~NetworkFaults /\ ~Interrupts

\* Nothing is cancelled, and a goroutine whose login the device holds is
\* between the granted login and the served logout.
HolderInside ==
    /\ \A p \in Proc : ~cancelled[p]
    /\ \A d \in Device, p \in Proc :
         session[d] = p =>
           /\ d = DeviceFor(p)
           /\ \/ pc[p] = "login" /\ wire[p] = "allow"
              \/ pc[p] \in InSession

\* With no fault and no interrupt, a login that the device granted is always on
\* its way to a logout: every step keeps it so.
LEMMA HolderInsideInductive ==
    ASSUME Undisturbed
    PROVE  /\ Init => HolderInside
           /\ IInv /\ HolderInside /\ [Next]_vars => HolderInside'
<1> USE ConstantsAssumption, RoutesTyped DEF HolderInside, InSession
<1>1. Init => HolderInside
  BY DEF Init
<1>2. ASSUME IInv, HolderInside, [Next]_vars PROVE HolderInside'
  <2> USE <1>2 DEF IInv, TypeOK, Released
  <2>1. ASSUME NEW p \in Proc, Begin(p) \/ AcquireRead(p) PROVE HolderInside'
    BY <2>1 DEF Begin, AcquireRead, Take
  <2>2. ASSUME NEW p \in Proc, AcquireSession(p) PROVE HolderInside'
    BY <2>2 DEF AcquireSession, Take
  <2>3. ASSUME NEW p \in Proc, Send(p) PROVE HolderInside'
    BY <2>3 DEF Send
  <2>4. ASSUME NEW p \in Proc, ServeLogin(p) PROVE HolderInside'
    BY <2>4 DEF ServeLogin
  <2>5. ASSUME NEW p \in Proc, ServeReason(p) \/ ServePage(p) PROVE HolderInside'
    BY <2>5 DEF ServeReason, ServePage
  <2>6. ASSUME NEW p \in Proc, ServeLogout(p) PROVE HolderInside'
    BY <2>6 DEF ServeLogout
  <2>7. ASSUME NEW p \in Proc, LoginAllowed(p) \/ LoginDenied(p) PROVE HolderInside'
    BY <2>7 DEF LoginAllowed, LoginDenied
  <2>8. ASSUME NEW p \in Proc, ReasonAnswered(p) \/ WorkAnswered(p) \/ ReadAnswered(p)
        PROVE  HolderInside'
    BY <2>8 DEF ReasonAnswered, WorkAnswered, ReadAnswered, GiveUp
  <2>9. ASSUME NEW p \in Proc, LogoutAnswered(p) PROVE HolderInside'
    BY <2>9 DEF LogoutAnswered, LoggedOut, GiveUp
  <2>10. ASSUME NEW p \in Proc, Fails(p) PROVE FALSE
    BY <2>10 DEF Fails, LoginFails, ReasonFails, WorkFails, ReadFails, LogoutFails,
                 Breaks, Undisturbed
  <2>11. ASSUME NEW p \in Proc, WorkReturns(p) \/ Return(p) PROVE HolderInside'
    BY <2>11 DEF WorkReturns, Return
  <2>12. ASSUME NEW p \in Proc, Interrupt(p) PROVE FALSE
    BY <2>12 DEF Interrupt, Undisturbed
  <2>13. ASSUME NEW d \in Device,
                OwnerLogsIn(d) \/ OwnerLogsOut(d) \/ SessionExpires(d)
         PROVE  HolderInside'
    BY <2>13 DEF OwnerLogsIn, OwnerLogsOut, SessionExpires
  <2>14. CASE UNCHANGED vars
    BY <2>14 DEF vars, DeviceFor, HostFor
  <2> QED
    BY <2>1, <2>2, <2>3, <2>4, <2>5, <2>6, <2>7, <2>8, <2>9, <2>10, <2>11, <2>12,
       <2>13, <2>14
    DEF Next, Acquire, Serve, Answered, Step
<1> QED
  BY <1>1, <1>2

\* While no request is lost and no apply interrupted, a goroutine that logs in
\* is refused only because of the owner, never because of a sibling.
THEOREM SiblingsQueue ==
    OneNamePerDevice /\ Undisturbed => (Spec => []SiblingNeverBlocksLogin)
<1> SUFFICES ASSUME OneNamePerDevice, Undisturbed
             PROVE  Spec => []SiblingNeverBlocksLogin
  OBVIOUS
<1>1. Spec => []HolderInside
  <2>1. Init => HolderInside
    BY HolderInsideInductive
  <2>2. IInv /\ HolderInside /\ [Next]_vars => HolderInside'
    BY HolderInsideInductive
  <2> QED
    BY <2>1, <2>2, InductiveInvariant, PTL DEF Spec
<1>2. IInv /\ HolderInside => SiblingNeverBlocksLogin
  <2> SUFFICES ASSUME IInv, HolderInside, NEW p \in Proc,
                      pc[p] = "login", wire[p] \in {"none", "sent"},
                      session[DeviceFor(p)] \notin {Nobody, Owner}
               PROVE  FALSE
    BY DEF SiblingNeverBlocksLogin
  <2>1. PICK q \in Proc : session[DeviceFor(p)] = q
    BY RoutesTyped DEF IInv, TypeOK
  <2>2. /\ DeviceFor(p) = DeviceFor(q)
        /\ (pc[q] = "login" /\ wire[q] = "allow") \/ pc[q] \in InSession
    BY <2>1, RoutesTyped DEF HolderInside
  <2>3. p = q
    BY <2>2, LockIsExclusive DEF Locked, OnTheWire, InSession
  <2> QED
    BY <2>2, <2>3 DEF InSession
<1> QED
  BY <1>1, <1>2, InductiveInvariant, PTL

=============================================================================
