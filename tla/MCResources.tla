---------------------------- MODULE MCResources ----------------------------
(***************************************************************************)
(* An instance of Resources for TLC.                                       *)
(***************************************************************************)
EXTENDS Resources, TLC

Force == "force" :> 0

\* The first switch has no VLAN, and everything that is configured changes; the
\* second has the VLAN, and is configured with a storm rate without storm
\* control and a router port without snooping.  Both leave attributes out.
MCSetups ==
    {[config |-> [vlan |-> Force,
                  port |-> Force @@ "pvid" :> VID @@ "speed" :> 1,
                  system |-> Force @@ "name" :> 1 @@ "storm" :> 1 @@ "led" :> 1
                                   @@ "snoop" :> 1 @@ "router" :> 1],
      device |-> [config |-> [index |-> 0, pvid |-> 1],
                  settings |-> [speed |-> 0, loop |-> 1, storm |-> 0, pps |-> 1],
                  management |-> [ingress |-> 1, led |-> 0, snoop |-> 0, router |-> 0],
                  info |-> [name |-> 0]]],
     [config |-> [vlan |-> "force" :> 1,
                  port |-> Force @@ "pvid" :> VID @@ "ingress" :> 1,
                  system |-> Force @@ "storm" :> 0 @@ "pps" :> 1 @@ "snoop" :> 0
                                   @@ "router" :> 1],
      device |-> [config |-> [index |-> 3, pvid |-> 1],
                  settings |-> [speed |-> 1, loop |-> 1, storm |-> 0, pps |-> 0],
                  management |-> [ingress |-> 0, led |-> 1, snoop |-> 1, router |-> 0],
                  info |-> [name |-> 0]]]}

\* Everything that is there is imported, or nothing.
MCImports == {{}, Proc}

\* The VLAN comes and goes, and the name changes.
MCOwnerChanges ==
    {[page |-> "config", attr |-> "index", value |-> 3],
     [page |-> "config", attr |-> "index", value |-> 0],
     [page |-> "info", attr |-> "name", value |-> 0]}

\* States that differ only in the numbers of the versions, in history variables
\* of ConfigCache, or in what an idle goroutine did last, behave alike.
Shown(g, v) == IF v = Absent THEN Absent ELSE content[g][v + 1]
MCView ==
    <<terraform, work, owner, lock, pc,
      [g \in Page |-> <<Now(g), Shown(g, cache[g])>>],
      [r \in Proc |-> IF pc[r] = "idle" THEN Nobody
                      ELSE <<page[r], Shown(page[r], got[r])>>]>>
=============================================================================
