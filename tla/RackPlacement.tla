--------------------------- MODULE RackPlacement ---------------------------
(***************************************************************************)
(* How a client decides which server holds which block of a stripe: the    *)
(* first set of a memcached_st reads rack.txt (add_rack, storage.cc) into  *)
(* one linked list of servers per rack, and then gives every position the  *)
(* first unused server of the rack the file names for it.                  *)
(*                                                                         *)
(* rack.txt is an input: any member of Files, well formed or not.  It      *)
(* lists the racks, each with the number of servers it announces and the   *)
(* server lines that follow, and then the rack of every position.          *)
(***************************************************************************)
EXTENDS Integers, Sequences, FiniteSets

CONSTANTS
    N,          \* number of positions of a stripe, number_of_n
    Keys,       \* server keys: indices of the client's server list
    Core,       \* the key of the network core server
    Unknown,    \* a server line that matches no server of the client
    Files       \* the possible contents of rack.txt

Positions == 0..N - 1

ASSUME PlacementAssumption ==
    /\ N \in Nat \ {0}
    /\ Keys \subseteq Nat /\ Core \in Keys /\ Unknown \notin Keys
    /\ \A f \in Files :
          /\ DOMAIN f = {"racks", "nodes"}
          /\ f.nodes \in [Positions -> Nat]
          /\ f.racks = [j \in 1..Len(f.racks) |-> f.racks[j]]
          /\ Len(f.racks) \in Nat
          /\ \A j \in 1..Len(f.racks) :
                /\ f.racks[j].announced \in Nat
                /\ f.racks[j].hosts \in Seq(Keys \cup {Unknown})

VARIABLES
    file,       \* rack.txt
    pc,         \* "parse", "assign", "done", or "crashed" (a wild pointer)
    rack,       \* the rack being read, rack_group[rack - 1] in the code
    line,       \* how many of its server lines have been read
    left,       \* node_count: how many of the announced servers are missing
    group,      \* rack -> the keys in its list, in list order
    tail,       \* the racks whose list ends in a node nobody filled in
    used,       \* the list nodes <<rack, place>> whose use flag is set
    node2rack,  \* position -> server key (until then: its rack id)
    next        \* the next position to be given a server

vars == <<file, pc, rack, line, left, group, tail, used, node2rack, next>>

Init ==
    /\ file \in Files
    /\ pc = "parse"
    /\ rack = 0 /\ line = 0 /\ left = 0
    /\ group = <<>> /\ tail = {} /\ used = {}
    /\ node2rack = [p \in Positions |-> 0]
    /\ next = 0

----------------------------------------------------------------------------
(***************************************************************************)
(* add_rack.                                                               *)
(***************************************************************************)
RackRead == rack > 0 => line = Len(file.racks[rack].hosts)

\* A plausible slip: the list of the rack before is filled on.
MutReadRack ==
    /\ pc = "parse" /\ RackRead /\ rack < Len(file.racks)
    /\ rack' = rack + 1
    /\ line' = 0
    /\ left' = file.racks[rack + 1].announced
    /\ UNCHANGED <<file, pc, group, tail, used, node2rack, next>>

\* '#': a new list whose first node is allocated and not filled in yet.
ReadRack ==
    /\ pc = "parse" /\ RackRead /\ rack < Len(file.racks)
    /\ rack' = rack + 1
    /\ line' = 0
    /\ left' = file.racks[rack + 1].announced
    /\ group' = Append(group, <<>>)
    /\ tail' = tail \cup {rack + 1}
    /\ UNCHANGED <<file, pc, used, node2rack, next>>

\* A plausible slip: the list is never terminated.
MutReadServer ==
    /\ pc = "parse" /\ ~RackRead
    /\ line' = line + 1
    /\ LET key == file.racks[rack].hosts[line + 1]
       IN  IF key = Unknown
           THEN UNCHANGED <<left, group>>
           ELSE left' = left - 1 /\ group' = [group EXCEPT ![rack] = Append(@, key)]
    /\ UNCHANGED <<file, pc, rack, tail, used, node2rack, next>>

\* A server line.  One that matches a server fills the node p points to and
\* allocates the next one unless it was the last one announced; if the list
\* was complete already, p is NULL and the write crashes.
ReadServer ==
    /\ pc = "parse" /\ ~RackRead
    /\ line' = line + 1
    /\ LET key == file.racks[rack].hosts[line + 1]
       IN  IF key = Unknown
           THEN UNCHANGED <<pc, left, group, tail>>
           ELSE IF rack \notin tail
           THEN pc' = "crashed" /\ UNCHANGED <<left, group, tail>>
           ELSE /\ left' = left - 1
                /\ group' = [group EXCEPT ![rack] = Append(@, key)]
                /\ tail' = IF left = 1 THEN tail \ {rack} ELSE tail
                /\ UNCHANGED pc
    /\ UNCHANGED <<file, rack, used, node2rack, next>>

\* '@': the rack ids of the positions, and the end of the file.
ReadNodes ==
    /\ pc = "parse" /\ RackRead /\ rack = Len(file.racks)
    /\ node2rack' = file.nodes
    /\ pc' = "assign"
    /\ UNCHANGED <<file, rack, line, left, group, tail, used, next>>

----------------------------------------------------------------------------
(***************************************************************************)
(* The assignment loop of memcached_lrc_send_binary, one position a step.  *)
(* rack ids count from 0, lists from 1.                                    *)
(***************************************************************************)
RackOf(p) == file.nodes[p] + 1

Free(j) == {x \in 1..Len(group[j]) : <<j, x>> \notin used}

\* A plausible slip: the search starts at the list's last node.
MutFirstFree(j) == CHOOSE x \in Free(j) : \A y \in Free(j) : x >= y

FirstFree(j) == CHOOSE x \in Free(j) : \A y \in Free(j) : x <= y

Advance ==
    /\ next' = next + 1
    /\ pc' = IF next + 1 = N THEN "done" ELSE "assign"

\* A plausible slip: the node that was taken is not marked.
MutAssignServer ==
    /\ pc = "assign" /\ RackOf(next) \in 1..Len(group)
    /\ Free(RackOf(next)) # {}
    /\ node2rack' = [node2rack EXCEPT ![next] = group[RackOf(next)][FirstFree(RackOf(next))]]
    /\ Advance
    /\ UNCHANGED <<file, rack, line, left, group, tail, used>>

\* The while loop finds a node that is not in use.
AssignServer ==
    /\ pc = "assign" /\ RackOf(next) \in 1..Len(group)
    /\ Free(RackOf(next)) # {}
    /\ LET x == FirstFree(RackOf(next))
       IN  /\ node2rack' = [node2rack EXCEPT ![next] = group[RackOf(next)][x]]
           /\ used' = used \cup {<<RackOf(next), x>>}
    /\ Advance
    /\ UNCHANGED <<file, rack, line, left, group, tail>>

\* The list is exhausted: node2rack[i] keeps the rack id, which the rest of
\* the library takes for a server key.
RackExhausted ==
    /\ pc = "assign" /\ RackOf(next) \in 1..Len(group)
    /\ Free(RackOf(next)) = {} /\ RackOf(next) \notin tail
    /\ Advance
    /\ UNCHANGED <<file, rack, line, left, group, tail, used, node2rack>>

\* The search runs into a list node, or a rack, that was never filled in: its
\* use flag, key and next pointer are whatever the memory held.  It crashes,
\* takes the position to be placed at some key, or leaves the rack id.
UninitialisedNode ==
    /\ pc = "assign"
    /\ RackOf(next) \in 1..Len(group) =>
          Free(RackOf(next)) = {} /\ RackOf(next) \in tail
    /\ \/ pc' = "crashed" /\ UNCHANGED <<node2rack, next>>
       \/ /\ \E key \in Keys \cup {node2rack[next]} :
                node2rack' = [node2rack EXCEPT ![next] = key]
          /\ Advance
    /\ UNCHANGED <<file, rack, line, left, group, tail, used>>

Next ==
    \/ ReadRack \/ ReadServer \/ ReadNodes
    \/ AssignServer \/ RackExhausted \/ UninitialisedNode

Spec == Init /\ [][Next]_vars

----------------------------------------------------------------------------
(***************************************************************************)
(* Type invariant.                                                         *)
(***************************************************************************)
TypeOK ==
    /\ file.nodes \in [Positions -> Nat]
    /\ pc \in {"parse", "assign", "done", "crashed"}
    /\ rack \in 0..Len(file.racks)
    /\ line \in Nat /\ left \in Int
    /\ group \in Seq(Seq(Keys)) /\ Len(group) = rack
    /\ tail \subseteq 1..rack
    /\ used \subseteq (1..rack) \X (Nat \ {0})
    /\ node2rack \in [Positions -> Nat]
    /\ next \in 0..N

Peers(p) == {q \in 0..p - 1 : file.nodes[q] = file.nodes[p]}

(***************************************************************************)
(* A file that says what it means: every rack lists as many servers as it  *)
(* announces, all of them servers of this client, none twice and none the  *)
(* network core, and no rack is given more positions than it has servers.  *)
(***************************************************************************)
WellFormed(f) ==
    /\ \A j \in 1..Len(f.racks) :
          /\ f.racks[j].announced = Len(f.racks[j].hosts)
          /\ Len(f.racks[j].hosts) > 0
          /\ f.racks[j].hosts \in Seq(Keys \ {Core})
    /\ \A j, m \in 1..Len(f.racks) :
          \A x \in 1..Len(f.racks[j].hosts), y \in 1..Len(f.racks[m].hosts) :
              f.racks[j].hosts[x] = f.racks[m].hosts[y] => j = m /\ x = y
    /\ \A p \in Positions :
          /\ f.nodes[p] + 1 \in 1..Len(f.racks)
          /\ Cardinality({q \in Positions : f.nodes[q] = f.nodes[p]})
                <= Len(f.racks[f.nodes[p] + 1].hosts)

(***************************************************************************)
(* Two clients that read the same well-formed file agree on where every    *)
(* block lives, so that one finds what the other stored: the server of a   *)
(* position depends on the file only, it is the first one of the rack that *)
(* the earlier positions of that rack left.                                *)
(***************************************************************************)
PlacementAgreed ==
    (pc = "done" /\ WellFormed(file)) =>
        \A p \in Positions :
            node2rack[p] = file.racks[RackOf(p)].hosts[Cardinality(Peers(p)) + 1]

(***************************************************************************)
(* "multiple blocks of a same item would fall into one physical machine"   *)
(* is what the placement must avoid: with a well-formed file no two        *)
(* positions share a server, every position is in the rack the file gives  *)
(* it, and none is on the network core.                                    *)
(***************************************************************************)
OneBlockPerServer ==
    (pc = "done" /\ WellFormed(file)) =>
        /\ \A p, q \in Positions : node2rack[p] = node2rack[q] => p = q
        /\ \A p \in Positions :
              \E x \in 1..Len(file.racks[RackOf(p)].hosts) :
                  node2rack[p] = file.racks[RackOf(p)].hosts[x]
        /\ \A p \in Positions : node2rack[p] # Core

(***************************************************************************)
(* Reading and using a well-formed file never touches a list node that was *)
(* not filled in: no NULL or wild pointer is followed, no rack runs dry.   *)
(***************************************************************************)
NoWildPointer ==
    WellFormed(file) =>
        /\ pc # "crashed"
        /\ pc = "assign" =>
              /\ RackOf(next) \in 1..Len(group)
              /\ Free(RackOf(next)) # {}
              /\ tail = {}
============================================================================
