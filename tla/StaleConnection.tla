-------------------------- MODULE StaleConnection --------------------------
(***************************************************************************)
(* One request of a Client: fetch (internal/zyxel/client.go) over the      *)
(* transport that NewClient builds, with a device that drops connections.  *)
(*                                                                         *)
(* The device lock admits one request at a time, so there is one fetch.    *)
(* What net/http does with a connection is modelled from how fetch relies  *)
(* on it: a connection that the device closed while it was idle gives      *)
(* "server closed idle connection" to a POST and another connection to a   *)
(* GET; a request of which nothing was written is sent on another          *)
(* connection; a GET is repeated when a pooled connection breaks under it. *)
(* The device acts on no request that reaches it after it has closed.      *)
(* What it does with one whose caller has gone, it may as well do before   *)
(* the caller goes.                                                        *)
(***************************************************************************)
EXTENDS Naturals

CONSTANTS
    MaxLate,    \* bound: dials left behind by interrupted requests
    MaxServed   \* bound: repetitions of a GET

ASSUME StaleConnectionAssumption == MaxLate \in Nat /\ MaxServed \in Nat \ {0}

VARIABLES
    pool,       \* the idle connection: "none", "open" or "dropped" by the device
    late,       \* dials under way that nobody waits for
    pc,         \* where the request is
    method,     \* "GET" or "POST"
    attempt,    \* of fetch's loop
    body,       \* the reader of the body: "full", or "spent" when it was read
    conn,       \* the connection in use: "none", "fresh" or "pooled"
    alive,      \* is that connection open at the device
    carried,    \* the body of the request as it was written
    served,     \* how often the device has acted on the request
    truncated,  \* has the device been given a POST without its body (history)
    outcome,    \* "none", "answered", "refused", "stale" or "broken"
    interrupted \* has a request been interrupted while it dialled (history)

link == <<pool, late, interrupted>>
request == <<method, attempt, body>>
carrier == <<conn, alive, carried>>
history == <<served, truncated>>
vars == <<link, pc, request, carrier, history, outcome>>

Methods == {"GET", "POST"}
StaleConnAttempts == 3

Init ==
    /\ pool = "none" /\ late = 0 /\ interrupted = FALSE
    /\ pc = "idle"
    /\ method = "GET" /\ attempt = 1 /\ body = "full"
    /\ conn = "none" /\ alive = FALSE /\ carried = "full"
    /\ served = 0 /\ truncated = FALSE
    /\ outcome = "none"

Begin(m) ==
    /\ pc = "idle" /\ pc' = "pick"
    /\ method' = m /\ attempt' = 1 /\ body' = "full"
    /\ served' = 0 /\ truncated' = FALSE /\ outcome' = "none"
    /\ UNCHANGED <<link, carrier>>

Ends(result) ==
    /\ pc' = "idle"
    /\ outcome' = result
    /\ conn' = "none" /\ alive' = FALSE
    /\ UNCHANGED <<request, carried, history>>

\* The transport looks for another connection, with the body rewound.
Again ==
    /\ pc' = "pick"
    /\ conn' = "none" /\ alive' = FALSE
    /\ body' = "full"
    /\ UNCHANGED <<link, method, attempt, carried, history, outcome>>

----------------------------------------------------------------------------
(* The connection.                                                         *)

Pick ==
    /\ pc = "pick" /\ pool # "none"
    /\ pc' = "ready" /\ conn' = "pooled" /\ alive' = (pool = "open")
    /\ pool' = "none"
    /\ UNCHANGED <<late, interrupted, request, carried, history, outcome>>

Dial ==
    /\ pc = "pick" /\ pool = "none"
    /\ pc' = "dial"
    /\ UNCHANGED <<link, request, carrier, history, outcome>>

Dialled ==
    /\ pc = "dial"
    /\ pc' = "ready" /\ conn' = "fresh" /\ alive' = TRUE
    /\ UNCHANGED <<link, request, carried, history, outcome>>

\* A dial left behind ends: its connection goes to a request that is waiting
\* for one, whose own dial is then left behind; or to the pool, of one.
LateConnection ==
    /\ late > 0
    /\ IF pc = "dial"
       THEN /\ pc' = "ready" /\ conn' = "pooled" /\ alive' = TRUE
            /\ UNCHANGED <<pool, late>>
       ELSE /\ late' = late - 1
            /\ pool' = IF pool = "none" THEN "open" ELSE pool
            /\ UNCHANGED <<pc, conn, alive>>
    /\ UNCHANGED <<interrupted, request, carried, history, outcome>>

LateDialFails ==
    /\ late > 0 /\ late' = late - 1
    /\ UNCHANGED <<pool, interrupted, pc, request, carrier, history, outcome>>

\* "The switch drops idle connections quickly and without warning."
DropIdle ==
    /\ pool = "open" /\ pool' = "dropped"
    /\ UNCHANGED <<late, interrupted, pc, request, carrier, history, outcome>>

DropInUse ==
    /\ alive /\ alive' = FALSE
    /\ UNCHANGED <<link, pc, request, conn, carried, history, outcome>>

\* IdleConnTimeout.
Discard ==
    /\ pool # "none" /\ pool' = "none"
    /\ UNCHANGED <<late, interrupted, pc, request, carrier, history, outcome>>

----------------------------------------------------------------------------
(* The request.                                                            *)

Dead == pc = "ready" /\ conn = "pooled" /\ ~alive

\* Mutant: a POST is not sent again.
SentAgain_Never == FALSE

\* Mutant: the bound counts the requests sent again, and not the attempts.
SentAgain_OneMore == attempt <= StaleConnAttempts

SentAgain == attempt < StaleConnAttempts

\* Mutant: the reader of the body is built once.
Reader_Once == {"full", "spent"}

\* The body is rebuilt: the transport may have read the other.
Reader == {"full"}

\* The connection is known to be closed: the one error fetch retries.
ClosedIdle ==
    /\ Dead
    /\ IF method = "GET" THEN Again
       ELSE IF SentAgain
       THEN /\ pc' = "pick" /\ attempt' = attempt + 1
            /\ conn' = "none" /\ alive' = FALSE
            /\ body' \in Reader
            /\ UNCHANGED <<link, method, carried, history, outcome>>
       ELSE Ends("stale") /\ UNCHANGED link

\* It turns out to be closed before anything is written.
NothingWritten == Dead /\ Again

Write ==
    /\ pc = "ready" /\ pc' = "written"
    /\ carried' = body /\ body' = "spent"
    /\ UNCHANGED <<link, method, attempt, conn, alive, history, outcome>>

\* The device acts on the request.
Serve ==
    /\ pc = "written" /\ alive /\ served < MaxServed
    /\ pc' = "served"
    /\ served' = served + 1
    /\ truncated' = (truncated \/ (method = "POST" /\ carried = "spent"))
    /\ UNCHANGED <<link, request, carrier, outcome>>

\* The whole answer is read, and the connection kept if the pool has room.
Answer ==
    /\ pc = "served" /\ alive
    /\ \E result \in {"answered", "refused"} : Ends(result)
    /\ pool' = IF pool = "none" THEN "open" ELSE pool
    /\ UNCHANGED <<late, interrupted>>

\* Mutant: whatever the error, the request is sent again.
Broken_Retried ==
    /\ pc \in {"written", "served"} /\ ~alive
    /\ attempt < StaleConnAttempts
    /\ pc' = "pick" /\ attempt' = attempt + 1
    /\ conn' = "none" /\ alive' = FALSE /\ body' = "full"
    /\ UNCHANGED <<link, method, carried, history, outcome>>

\* Mutant: what could not be read is taken for an empty answer.
Broken_Ignored ==
    /\ pc \in {"written", "served"} /\ ~alive
    /\ Ends("answered") /\ UNCHANGED link

\* The connection breaks before the answer has been read.
Broken ==
    /\ pc \in {"written", "served"} /\ ~alive
    /\ Ends("broken") /\ UNCHANGED link

\* Unless the answer had begun, the transport repeats a GET.
Repeated ==
    /\ pc \in {"written", "served"} /\ ~alive
    /\ method = "GET" /\ conn = "pooled"
    /\ Again

\* The first request on a connection finds it closed.
FreshClosed == pc = "ready" /\ conn = "fresh" /\ ~alive /\ Ends("broken") /\ UNCHANGED link

DialFails == pc = "dial" /\ Ends("broken") /\ UNCHANGED link

\* The context is cancelled, or the client's timeout passes.
Interrupt ==
    /\ pc # "idle"
    /\ Ends("broken")
    /\ IF pc = "dial"
       THEN late < MaxLate /\ late' = late + 1 /\ interrupted' = TRUE
       ELSE UNCHANGED <<late, interrupted>>
    /\ UNCHANGED pool

Next ==
    \/ \E m \in Methods : Begin(m)
    \/ Pick \/ Dial \/ Dialled \/ DialFails \/ LateConnection \/ LateDialFails
    \/ DropIdle \/ DropInUse \/ Discard
    \/ ClosedIdle \/ NothingWritten \/ FreshClosed \/ Write \/ Serve \/ Answer
    \/ Broken \/ Repeated \/ Interrupt

Spec == Init /\ [][Next]_vars

----------------------------------------------------------------------------
(* Properties.                                                             *)

CountersOK ==
    /\ late \in 0..MaxLate
    /\ attempt \in 1..StaleConnAttempts
    /\ served \in 0..MaxServed

TagsOK ==
    /\ pool \in {"none", "open", "dropped"}
    /\ pc \in {"idle", "pick", "dial", "ready", "written", "served"}
    /\ method \in Methods
    /\ body \in {"full", "spent"} /\ carried \in {"full", "spent"}
    /\ conn \in {"none", "fresh", "pooled"}
    /\ outcome \in {"none", "answered", "refused", "stale", "broken"}
    /\ {alive, truncated, interrupted} \subseteq BOOLEAN

\* The types of the variables.
TypeOK == CountersOK /\ TagsOK

\* "The request never reached the device, so re-sending it cannot repeat a side
\* effect" (client.go:223): however often fetch and the transport change
\* connections, the device acts on a POST once at most.
PostAtMostOnce == method = "POST" => served <= 1

\* "A spent one would re-send an empty POST" (client.go:244): the device never
\* acts on a POST without its body.
NoEmptyPost == ~truncated

\* "Every session could die on a connection left over" (client.go:236): while no
\* request has been interrupted, no request fails because of the connection that
\* an earlier one left in the pool.
NoStaleFailure == outcome = "stale" => interrupted

E == INSTANCE Exchange WITH
        busy <- pc # "idle",
        outcome <- IF outcome \in {"stale", "broken"} THEN "error" ELSE outcome

\* fetch is what its callers take it for: the device acts on a POST at most once
\* in whichever order the connection breaks, and an answer means that it acted.
ImplementsExchange == E!Spec
=============================================================================
