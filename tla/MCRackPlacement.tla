-------------------------- MODULE MCRackPlacement --------------------------
(***************************************************************************)
(* Every rack.txt with at most two racks of at most two lines, for three   *)
(* positions and four servers of which one is the network core.            *)
(***************************************************************************)
EXTENDS RackPlacement

HostLists == {<<>>} \cup {<<a>> : a \in Keys \cup {Unknown}}
             \cup {<<a, b>> : a, b \in Keys \cup {Unknown}}

Racks == [announced : 0..2, hosts : HostLists]

\* Rack 2 does not exist, or was never filled in, in any of the files.
Nodes == [Positions -> 0..1] \cup {[p \in Positions |-> p]}

AllFiles ==
    [racks : {<<a>> : a \in Racks} \cup {<<a, b>> : a, b \in Racks}, nodes : Nodes]
============================================================================
