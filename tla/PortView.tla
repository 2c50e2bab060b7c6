------------------------------ MODULE PortView ------------------------------
(***************************************************************************)
(* What the driver promises of a switch's VLANs, as a person thinks of     *)
(* them: a set of known VLANs, and for each port its native VLAN and the   *)
(* VLANs it carries tagged and untagged.  A VLAN is created empty, removed *)
(* when no port needs it, and otherwise one port changes at a time, in one *)
(* respect at a time.                                                      *)
(***************************************************************************)
EXTENDS Naturals

CONSTANTS Ports, VIDs, Mgmt

VARIABLES
    known,      \* the VLANs the switch has
    view        \* [Ports -> [pvid, tagged, untagged]]

Views == [pvid : VIDs, tagged : SUBSET VIDs, untagged : SUBSET VIDs]

Carries(v) == v.tagged \cup v.untagged

\* The native VLAN of a port is one it belongs to, and it carries known VLANs,
\* each either tagged or untagged.
Sound(v, vlans) ==
    /\ v \in Views
    /\ v.pvid \in Carries(v)
    /\ Carries(v) \subseteq vlans
    /\ v.tagged \cap v.untagged = {}

Init ==
    /\ known \in SUBSET VIDs
    /\ view \in [Ports -> {v \in Views : Sound(v, known)}]

Create(vid) ==
    /\ vid \notin known
    /\ known' = known \cup {vid}
    /\ UNCHANGED view

\* A removed VLAN is nobody's native VLAN; the ports that carried it stop, so
\* the management VLAN is only removed when no port carries it.
Remove(vid) ==
    /\ vid \in known
    /\ \A p \in Ports : view[p].pvid # vid
    /\ vid = Mgmt => \A p \in Ports : Mgmt \notin Carries(view[p])
    /\ known' = known \ {vid}
    /\ view' = [p \in Ports |-> [view[p] EXCEPT !.tagged = @ \ {vid},
                                               !.untagged = @ \ {vid}]]

\* One port changes, in its native VLAN or in its membership of one VLAN; it
\* stays sound and never leaves the management VLAN.
Move(p) ==
    LET old == view[p]
        new == view'[p]
    IN  /\ UNCHANGED known
        /\ view' = [view EXCEPT ![p] = new]
        /\ Sound(new, known)
        /\ \/ new.tagged = old.tagged /\ new.untagged = old.untagged
           \/ /\ new.pvid = old.pvid
              /\ \E vid \in VIDs :
                   /\ new.tagged \ {vid} = old.tagged \ {vid}
                   /\ new.untagged \ {vid} = old.untagged \ {vid}
        /\ Mgmt \in Carries(old) => Mgmt \in Carries(new)

Next ==
    \/ \E vid \in VIDs : Create(vid) \/ Remove(vid)
    \/ \E p \in Ports : Move(p)

Spec == Init /\ [][Next]_<<known, view>>
=============================================================================
