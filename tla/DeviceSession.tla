--------------------------- MODULE DeviceSession ---------------------------
(***************************************************************************)
(* The per-device lock and the single web session of a GS1200              *)
(* (internal/zyxel/client.go, with the session half of the emulated device *)
(* in internal/fakeswitch).                                                *)
(*                                                                         *)
(* Terraform evaluates resources concurrently: each element of Proc is one *)
(* goroutine making calls on a *Client, one after the other.  A call is    *)
(* either withSession (log in, work, log out) or an unauthenticated read   *)
(* (Identify, ReadVLANTable).  Both hold the lock that lockFor returns for *)
(* the client's Host string.  An HTTP exchange is three steps, the request *)
(* leaving [Send], the device serving it [Serve] and the answer arriving   *)
(* [Answered]; at any point the exchange may fail on the client's side     *)
(* [Fails].  A request whose caller gave up is either already served or    *)
(* never will be.                                                          *)
(***************************************************************************)
EXTENDS Naturals, FiniteSets

CONSTANTS
    Proc,           \* goroutines Terraform runs
    Client,         \* *zyxel.Client values, one per provider alias
    Host,           \* Host strings, the keys of deviceLocks
    Device,         \* physical switches
    ClientOf,       \* [Proc -> Client]
    HostOf,         \* [Client -> Host]
    DeviceOf,       \* [Host -> Device]: which switch an address reaches
    Password,       \* [Client -> {"good", "bad", "none"}]
    Owner,          \* whoever else logs in to the web interface
    Nobody,
    MaxWork,        \* bound: requests one session's work sends
    NetworkFaults,  \* may a request or its answer be lost
    Interrupts,     \* may an apply be interrupted (ctx cancelled)
    OwnerActive,    \* does the owner use the web interface
    Expiry,         \* may the device time a session out
    Live            \* devices whose goroutines the fairness is about

ASSUME ConstantsAssumption ==
    /\ ClientOf \in [Proc -> Client]
    /\ HostOf \in [Client -> Host]
    /\ DeviceOf \in [Host -> Device]
    /\ Password \in [Client -> {"good", "bad", "none"}]
    /\ MaxWork \in Nat
    /\ {NetworkFaults, Interrupts, OwnerActive, Expiry} \subseteq BOOLEAN
    /\ Live \subseteq Device
    /\ Owner \notin Proc
    /\ Nobody \notin Proc \cup {Owner}

VARIABLES
    lock,       \* [Host -> Proc \cup {Nobody}]: holder of the device's mutex
    session,    \* [Device -> ...]: whose login the device's token comes from
    loggedIn,   \* [Client -> BOOLEAN]: Client.loggedIn, and the token in Jar
    pc,         \* [Proc -> ...]: where the call is
    wire,       \* [Proc -> ...]: its HTTP exchange
    left,       \* [Proc -> Nat]: requests the work may still send
    outcome,    \* [Proc -> ...]: what the call returns, or work returned
    cancelled   \* [Proc -> BOOLEAN]: is the call's ctx cancelled

vars == <<lock, session, loggedIn, pc, wire, left, outcome, cancelled>>

HostFor(p) == HostOf[ClientOf[p]]
DeviceFor(p) == DeviceOf[HostFor(p)]

InSession == {"work", "logout"}
OnTheWire == {"login", "reason", "read"} \cup InSession
Locked == OnTheWire \cup {"return"}

Init ==
    /\ lock = [h \in Host |-> Nobody]
    /\ session = [d \in Device |-> Nobody]
    /\ loggedIn = [c \in Client |-> FALSE]
    /\ pc = [p \in Proc |-> "idle"]
    /\ wire = [p \in Proc |-> "none"]
    /\ left = [p \in Proc |-> 0]
    /\ outcome = [p \in Proc |-> "none"]
    /\ cancelled = [p \in Proc |-> FALSE]

----------------------------------------------------------------------------
(* Calls, the lock and the HTTP exchange.                                  *)

\* Terraform calls an operation that opens a session ("lockSession") or an
\* unauthenticated read ("lockRead"); each call comes with its own context.
Begin(p) ==
    /\ pc[p] = "idle"
    /\ \E at \in {"lockSession", "lockRead"} : pc' = [pc EXCEPT ![p] = at]
    /\ outcome' = [outcome EXCEPT ![p] = "none"]
    /\ cancelled' = [cancelled EXCEPT ![p] = FALSE]
    /\ UNCHANGED <<lock, session, loggedIn, wire, left>>

\* Mutant: a mutex per client object does not keep two aliases apart.
Take_OwnMutex(p, from, to) ==
    /\ pc[p] = from
    /\ lock' = [lock EXCEPT ![HostFor(p)] = p]
    /\ pc' = [pc EXCEPT ![p] = to]

\* Mutant: one lock for all switches.
Take_OneForAll(p, from, to) ==
    /\ pc[p] = from
    /\ \A h \in Host : lock[h] = Nobody
    /\ lock' = [lock EXCEPT ![HostFor(p)] = p]
    /\ pc' = [pc EXCEPT ![p] = to]

\* lock.Lock(), which does not look at ctx.
Take(p, from, to) ==
    /\ pc[p] = from
    /\ lock[HostFor(p)] = Nobody
    /\ lock' = [lock EXCEPT ![HostFor(p)] = p]
    /\ pc' = [pc EXCEPT ![p] = to]

AcquireRead(p) ==
    /\ Take(p, "lockRead", "read")
    /\ UNCHANGED <<session, loggedIn, wire, left, outcome, cancelled>>

\* withSession: with no password configured Login fails without a request.
AcquireSession(p) ==
    /\ IF Password[ClientOf[p]] = "none"
         THEN /\ Take(p, "lockSession", "return")
              /\ outcome' = [outcome EXCEPT ![p] = "auth"]
         ELSE /\ Take(p, "lockSession", "login")
              /\ UNCHANGED outcome
    /\ UNCHANGED <<session, loggedIn, wire, left, cancelled>>

\* Mutant: work that goes on past its last request.
Send_Unbounded(p) ==
    /\ pc[p] \in OnTheWire
    /\ wire[p] = "none"
    /\ cancelled[p] => pc[p] = "logout"
    /\ wire' = [wire EXCEPT ![p] = "sent"]
    /\ UNCHANGED <<lock, session, loggedIn, pc, left, outcome, cancelled>>

\* The request leaves.  A cancelled ctx fails it at once, except the logout,
\* whose context is context.WithoutCancel.
Send(p) ==
    /\ pc[p] \in OnTheWire
    /\ wire[p] = "none"
    /\ cancelled[p] => pc[p] = "logout"
    /\ pc[p] = "work" => left[p] > 0
    /\ wire' = [wire EXCEPT ![p] = "sent"]
    /\ UNCHANGED <<lock, session, loggedIn, pc, left, outcome, cancelled>>

\* The exchange breaks: the connection, the client's timeout, an HTTP 4xx or
\* 5xx, or the cancelled context.
Breaks(p, at) ==
    /\ pc[p] = at
    /\ NetworkFaults \/ (cancelled[p] /\ at # "logout")
    /\ wire' = [wire EXCEPT ![p] = "none"]

\* Leave the call for its deferred Unlock.
GiveUp(p, result) ==
    /\ pc' = [pc EXCEPT ![p] = "return"]
    /\ outcome' = [outcome EXCEPT ![p] = result]

----------------------------------------------------------------------------
(* Login.                                                                  *)

\* logon.cgi: one session at a time, and the right password.
ServeLogin(p) ==
    /\ pc[p] = "login" /\ wire[p] = "sent"
    /\ LET d == DeviceFor(p)
           granted == session[d] = Nobody /\ Password[ClientOf[p]] = "good"
       IN /\ session' = [session EXCEPT ![d] = IF granted THEN p ELSE @]
          /\ wire' = [wire EXCEPT ![p] = IF granted THEN "allow" ELSE "deny"]
    /\ UNCHANGED <<lock, loggedIn, pc, left, outcome, cancelled>>

LoginAllowed(p) ==
    /\ pc[p] = "login" /\ wire[p] = "allow"
    /\ loggedIn' = [loggedIn EXCEPT ![ClientOf[p]] = TRUE]
    /\ pc' = [pc EXCEPT ![p] = "work"]
    /\ left' = [left EXCEPT ![p] = MaxWork]
    /\ wire' = [wire EXCEPT ![p] = "none"]
    /\ UNCHANGED <<lock, session, outcome, cancelled>>

\* allow = 0: the reason is asked for in a request of its own.
LoginDenied(p) ==
    /\ pc[p] = "login" /\ wire[p] = "deny"
    /\ pc' = [pc EXCEPT ![p] = "reason"]
    /\ wire' = [wire EXCEPT ![p] = "none"]
    /\ UNCHANGED <<lock, session, loggedIn, left, outcome, cancelled>>

\* No answer from logon.cgi: withSession returns without a logout.
LoginFails(p) ==
    /\ Breaks(p, "login")
    /\ GiveUp(p, "error")
    /\ UNCHANGED <<lock, session, loggedIn, left, cancelled>>

\* zlogin.html: errType is 2 while a session is held, else 1.
ServeReason(p) ==
    /\ pc[p] = "reason" /\ wire[p] = "sent"
    /\ wire' = [wire EXCEPT ![p] =
                  IF session[DeviceFor(p)] # Nobody THEN "busy" ELSE "free"]
    /\ UNCHANGED <<lock, session, loggedIn, pc, left, outcome, cancelled>>

ReasonAnswered(p) ==
    /\ pc[p] = "reason" /\ wire[p] \in {"busy", "free"}
    /\ GiveUp(p, IF wire[p] = "busy" THEN "busy" ELSE "auth")
    /\ wire' = [wire EXCEPT ![p] = "none"]
    /\ UNCHANGED <<lock, session, loggedIn, left, cancelled>>

\* failureReason answers "unknown", which Login takes for a bad password.
ReasonFails(p) ==
    /\ Breaks(p, "reason")
    /\ GiveUp(p, "auth")
    /\ UNCHANGED <<lock, session, loggedIn, left, cancelled>>

----------------------------------------------------------------------------
(* Work under the session, and unauthenticated reads.                      *)

ServePage(p) ==
    /\ pc[p] \in {"work", "read"} /\ wire[p] = "sent"
    /\ wire' = [wire EXCEPT ![p] = "ok"]
    /\ UNCHANGED <<lock, session, loggedIn, pc, left, outcome, cancelled>>

WorkAnswered(p) ==
    /\ pc[p] = "work" /\ wire[p] = "ok"
    /\ left' = [left EXCEPT ![p] = @ - 1]
    /\ wire' = [wire EXCEPT ![p] = "none"]
    /\ UNCHANGED <<lock, session, loggedIn, pc, outcome, cancelled>>

\* Mutant: an early return on the work's error skips the logout.
WorkReturns_ErrorSkipsLogout(p) ==
    /\ pc[p] = "work" /\ wire[p] = "none"
    /\ \E result \in {"ok", "error"} :
          /\ pc' = [pc EXCEPT ![p] = IF result = "ok" THEN "logout" ELSE "return"]
          /\ outcome' = [outcome EXCEPT ![p] = result]
    /\ UNCHANGED <<lock, session, loggedIn, wire, left, cancelled>>

\* The work returns, with an error of its own (a refused change, a failed
\* read-back) or without: either way Logout is next.
WorkReturns(p) ==
    /\ pc[p] = "work" /\ wire[p] = "none"
    /\ pc' = [pc EXCEPT ![p] = "logout"]
    /\ \E result \in {"ok", "error"} :
          outcome' = [outcome EXCEPT ![p] = result]
    /\ UNCHANGED <<lock, session, loggedIn, wire, left, cancelled>>

WorkFails(p) ==
    /\ Breaks(p, "work")
    /\ pc' = [pc EXCEPT ![p] = "logout"]
    /\ outcome' = [outcome EXCEPT ![p] = "error"]
    /\ UNCHANGED <<lock, session, loggedIn, left, cancelled>>

ReadAnswered(p) ==
    /\ pc[p] = "read" /\ wire[p] = "ok"
    /\ GiveUp(p, "read")
    /\ wire' = [wire EXCEPT ![p] = "none"]
    /\ UNCHANGED <<lock, session, loggedIn, left, cancelled>>

ReadFails(p) ==
    /\ Breaks(p, "read")
    /\ GiveUp(p, "error")
    /\ UNCHANGED <<lock, session, loggedIn, left, cancelled>>

----------------------------------------------------------------------------
(* Logout, and the end of the call.                                        *)

\* Mutant: a logout whose body is not compared with the token.
ServeLogout_AnyBody(p) ==
    /\ pc[p] = "logout" /\ wire[p] = "sent"
    /\ session' = [session EXCEPT ![DeviceFor(p)] = Nobody]
    /\ wire' = [wire EXCEPT ![p] = "ok"]
    /\ UNCHANGED <<lock, loggedIn, pc, left, outcome, cancelled>>

\* zlogout.cgi frees the session only for a body that carries its token.
ServeLogout(p) ==
    /\ pc[p] = "logout" /\ wire[p] = "sent"
    /\ session' = [session EXCEPT ![DeviceFor(p)] =
                     IF @ = p THEN Nobody ELSE @]
    /\ wire' = [wire EXCEPT ![p] = "ok"]
    /\ UNCHANGED <<lock, loggedIn, pc, left, outcome, cancelled>>

\* Mutant: the client still thinks it is logged in.
LoggedOut_KeepsToken(p, result) ==
    /\ UNCHANGED loggedIn
    /\ GiveUp(p, result)

\* Logout forgets the token whatever came back; its error is reported only
\* when the work had none.
LoggedOut(p, result) ==
    /\ loggedIn' = [loggedIn EXCEPT ![ClientOf[p]] = FALSE]
    /\ GiveUp(p, result)

LogoutAnswered(p) ==
    /\ pc[p] = "logout" /\ wire[p] = "ok"
    /\ LoggedOut(p, outcome[p])
    /\ wire' = [wire EXCEPT ![p] = "none"]
    /\ UNCHANGED <<lock, session, left, cancelled>>

\* Mutant: the logout's error is dropped.
LogoutFails_Silently(p) ==
    /\ Breaks(p, "logout")
    /\ LoggedOut(p, outcome[p])
    /\ UNCHANGED <<lock, session, left, cancelled>>

LogoutFails(p) ==
    /\ Breaks(p, "logout")
    /\ LoggedOut(p, "error")
    /\ UNCHANGED <<lock, session, left, cancelled>>

\* Mutant: an error path without the Unlock.
Return_KeepsLock(p) ==
    /\ pc[p] = "return"
    /\ lock' = IF outcome[p] = "busy" THEN lock
               ELSE [lock EXCEPT ![HostFor(p)] = Nobody]
    /\ pc' = [pc EXCEPT ![p] = "idle"]
    /\ UNCHANGED <<session, loggedIn, wire, left, outcome, cancelled>>

\* The deferred lock.Unlock().
Return(p) ==
    /\ pc[p] = "return"
    /\ lock' = [lock EXCEPT ![HostFor(p)] = Nobody]
    /\ pc' = [pc EXCEPT ![p] = "idle"]
    /\ UNCHANGED <<session, loggedIn, wire, left, outcome, cancelled>>

----------------------------------------------------------------------------
(* The environment.                                                        *)

\* Terraform is interrupted: the context of a running call is cancelled.
Interrupt(p) ==
    /\ Interrupts
    /\ pc[p] # "idle" /\ ~cancelled[p]
    /\ cancelled' = [cancelled EXCEPT ![p] = TRUE]
    /\ UNCHANGED <<lock, session, loggedIn, pc, wire, left, outcome>>

OwnerLogsIn(d) ==
    /\ OwnerActive
    /\ session[d] = Nobody
    /\ session' = [session EXCEPT ![d] = Owner]
    /\ UNCHANGED <<lock, loggedIn, pc, wire, left, outcome, cancelled>>

OwnerLogsOut(d) ==
    /\ session[d] = Owner
    /\ session' = [session EXCEPT ![d] = Nobody]
    /\ UNCHANGED <<lock, loggedIn, pc, wire, left, outcome, cancelled>>

\* The device drops a session about a minute after it was last used.
SessionExpires(d) ==
    /\ Expiry
    /\ session[d] # Nobody
    /\ session' = [session EXCEPT ![d] = Nobody]
    /\ UNCHANGED <<lock, loggedIn, pc, wire, left, outcome, cancelled>>

----------------------------------------------------------------------------
Acquire(p) == AcquireRead(p) \/ AcquireSession(p)

Serve(p) == ServeLogin(p) \/ ServeReason(p) \/ ServePage(p) \/ ServeLogout(p)

Answered(p) ==
    \/ LoginAllowed(p) \/ LoginDenied(p) \/ ReasonAnswered(p)
    \/ WorkAnswered(p) \/ ReadAnswered(p) \/ LogoutAnswered(p)

Fails(p) ==
    \/ LoginFails(p) \/ ReasonFails(p) \/ WorkFails(p)
    \/ ReadFails(p) \/ LogoutFails(p)

\* What moves a call that holds the lock.
Step(p) ==
    Send(p) \/ Serve(p) \/ Answered(p) \/ Fails(p) \/ WorkReturns(p) \/ Return(p)

Next ==
    \/ \E p \in Proc : Begin(p) \/ Acquire(p) \/ Step(p) \/ Interrupt(p)
    \/ \E d \in Device : OwnerLogsIn(d) \/ OwnerLogsOut(d) \/ SessionExpires(d)

Spec == Init /\ [][Next]_vars

\* http.Client.Timeout and the work's finite list of requests end every step;
\* sync.Mutex does not starve a waiter (its starvation mode hands the lock to
\* whoever waited a millisecond).  Nothing is assumed of the owner, of the
\* session timeout, or of goroutines working on other switches than Live.
Fairness ==
    \A p \in {q \in Proc : DeviceFor(q) \in Live} :
        WF_vars(Step(p)) /\ SF_vars(Acquire(p))

FairSpec == Spec /\ Fairness

----------------------------------------------------------------------------
(* Properties.                                                             *)

\* The types of the variables.
TypeOK ==
    /\ lock \in [Host -> Proc \cup {Nobody}]
    /\ session \in [Device -> Proc \cup {Owner, Nobody}]
    /\ loggedIn \in [Client -> BOOLEAN]
    /\ pc \in [Proc -> {"idle", "lockSession", "lockRead"} \cup Locked]
    /\ wire \in [Proc -> {"none", "sent", "allow", "deny", "busy", "free", "ok"}]
    /\ left \in [Proc -> 0..MaxWork]
    /\ outcome \in [Proc -> {"none", "ok", "read", "error", "auth", "busy"}]
    /\ cancelled \in [Proc -> BOOLEAN]

\* A GS1200 "answers one request at a time" (vlan.go:44): the provider never
\* has two requests on their way to one switch, whatever the aliases.
OneRequestPerDevice ==
    \A p, q \in Proc :
        /\ p # q /\ DeviceFor(p) = DeviceFor(q)
        => ~(wire[p] # "none" /\ wire[q] # "none")

\* Client.loggedIn and the cookie jar have no mutex of their own: while a
\* login stands in a client, exactly one goroutine of that client is inside
\* withSession, between its Login and its Logout, and it holds the lock.
SessionFieldsGuarded ==
    \A c \in Client :
        loggedIn[c] =>
            \E p \in Proc :
                /\ ClientOf[p] = c /\ pc[p] \in InSession /\ lock[HostOf[c]] = p
                /\ \A q \in Proc : ClientOf[q] = c /\ pc[q] \in OnTheWire => q = p

\* withSession "always logs out": a call that reports success has given the
\* device's session back, whatever was lost, cancelled or timed out on the way.
NoSilentOrphan ==
    \A p \in Proc :
        pc[p] = "idle" /\ outcome[p] = "ok" => session[DeviceFor(p)] # p

\* What the lock is for (client.go:64-70): when nothing fails, a goroutine that
\* logs in is never refused because another goroutine of the same Terraform
\* run, under this alias or another, holds the session.
SiblingNeverBlocksLogin ==
    \A p \in Proc :
        pc[p] = "login" /\ wire[p] \in {"none", "sent"}
        => session[DeviceFor(p)] \in {Nobody, Owner}

\* A session is ended by the logout of the login that opened it: a goroutine's
\* step never ends the owner's session, nor another goroutine's, even when its
\* own session expired in mid-work and somebody else has logged in since.
OnlyOwnSessionEnded ==
    [][\A d \in Device :
          wire' # wire /\ session[d] # Nobody /\ session'[d] # session[d]
          => \E p \in Proc : session[d] = p /\ pc[p] = "logout"]_vars

\* Every call returns, including one that waits for the lock behind others and
\* one whose context is cancelled; goroutines stuck on another switch do not
\* hold it up (the lock is per device, so "several switches make progress").
EveryCallReturns ==
    \A p \in Proc :
        DeviceFor(p) \in Live => (pc[p] # "idle" ~> pc[p] = "idle")

\* When nothing fails, the session a goroutine claims is given back to the
\* owner without the help of the device's timeout.
SessionGivenBack ==
    \A p \in Proc :
        DeviceFor(p) \in Live => (session[DeviceFor(p)] = p ~> session[DeviceFor(p)] # p)

\* README.md:110-111: the provider "always releases it, including when an
\* apply is interrupted": no call leaves its session behind.
AlwaysReleased ==
    \A p \in Proc : pc[p] = "idle" => session[DeviceFor(p)] # p
=============================================================================
