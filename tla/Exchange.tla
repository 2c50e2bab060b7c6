------------------------------ MODULE Exchange ------------------------------
(***************************************************************************)
(* What Client.fetch (internal/zyxel/client.go) promises its callers, and  *)
(* what DeviceSession takes for granted of every request: a POST reaches   *)
(* the device at most once, complete, and is answered only if it has.      *)
(***************************************************************************)
EXTENDS Naturals

VARIABLES
    method,     \* of the request under way, or of the last one
    busy,       \* is a request under way
    served,     \* how often the device has acted on it
    outcome     \* "none", "answered", "refused" (4xx, 5xx), or "error"

vars == <<method, busy, served, outcome>>

Init == method = "GET" /\ ~busy /\ served = 0 /\ outcome = "none"

Begin(m) ==
    /\ ~busy /\ busy'
    /\ method' = m /\ served' = 0 /\ outcome' = "none"

\* Only a GET is safe to repeat.
Serve ==
    /\ busy
    /\ method = "POST" => served = 0
    /\ served' = served + 1
    /\ UNCHANGED <<method, busy, outcome>>

\* An error says nothing about whether the device has acted.
Return(result) ==
    /\ busy /\ ~busy'
    /\ result \in {"answered", "refused"} => served > 0
    /\ outcome' = result
    /\ UNCHANGED <<method, served>>

Next ==
    \/ \E m \in {"GET", "POST"} : Begin(m)
    \/ Serve
    \/ \E result \in {"answered", "refused", "error"} : Return(result)

Spec == Init /\ [][Next]_vars
=============================================================================
