----------------------------- MODULE LrcDesign -----------------------------
(***************************************************************************)
(* The encoder, the sizes of its blocks and the placement the simulator    *)
(* computes for them, put together.                                        *)
(***************************************************************************)
EXTENDS LrcEncode, BlockSizes, PlacementSim

CONSTANT Lengths            \* the value lengths considered

\* A value lies in memory beside its blocks: rounding its length up, by less than
\* a long per block, does not wrap around.
ASSUME LengthsAssumption ==
    \A len \in Lengths : len \in Nat /\ len + MaxNodes * LongSize <= SizeT

n == code.n
k == code.k
r == code.r

(***************************************************************************)
(* How often an operation crosses the network core, given node_rack[], the *)
(* rack of every position.                                                 *)
(***************************************************************************)
\* memcached_repair_by_index: every change of rack along the group.
RepairCrossings(rackOf, j) ==
    Cardinality({p \in GroupPositions(j, n, r) :
                     p > j * (r + 1) /\ rackOf[p] # rackOf[p - 1]})

\* A plausible slip: the rack of the local parity is not looked at.
MutGetCrossings(rackOf, j) ==
    Cardinality({p \in GroupPositions(j, n, r) \ {ParityPos(j, n, r)} :
                     p > j * (r + 1) /\ rackOf[p] # rackOf[p - 1]})

\* memcached_get_lrc: the same along the data of the group and the position
\* after them, and from there to the local parity.
GetCrossings(rackOf, j) ==
    LET first == j * (r + 1)
        parity == ParityPos(j, n, r)
        end == IF LastBlock(k, r) + 1 < parity - 1 THEN LastBlock(k, r) + 1 ELSE parity - 1
    IN  Cardinality({p \in first + 1..end : rackOf[p] # rackOf[p - 1]})
        + (IF rackOf[end] # rackOf[parity] THEN 1 ELSE 0)

\* memcached_lrc_send_binary, encoding_scheme 1: every block that is not a local
\* parity, and a local parity once some group up to its own spans two racks
\* (cross_rack is never reset).
SetCrosses(rackOf) ==
    LET Spans(p) == rackOf[p] # rackOf[GroupOf(p, r) * (r + 1)]
    IN  {p \in Positions : \/ (p + 1) % (r + 1) # 0 /\ p + 1 # n
                           \/ \E q \in 0..p : Spans(q)}

----------------------------------------------------------------------------
\* The simulator's name for the block at position p.
NodeAt(p) ==
    CASE blocks[p][1] = "data"   -> <<"D", blocks[p][2]>>
      [] blocks[p][1] = "global" -> <<"G", blocks[p][2]>>
      [] blocks[p][1] = "local"  -> <<"L", GroupOf(p, r)>>

Start == i = 0

\* Beyond ten global parities the simulator takes G10 for G1.
SimCovers == Globals <= 10

(***************************************************************************)
(* A get returns the value a set has cut up, byte by byte, for every value *)
(* that is long enough (k(k-1) longs) for its first k-1 blocks to be full, *)
(* and for the empty one; and a block is a whole number of longs, without  *)
(* which the codec ends the process.  (Sizes depend on k only: one code    *)
(* per k is enough.)                                                       *)
(***************************************************************************)
ValuesReassemble ==
    Start /\ n = k + 1 /\ r = k => \A len \in Lengths :
        /\ BlockSize(len, k) % LongSize = 0
        /\ len = 0 \/ len >= LongSize * k * (k - 1) => Reassembles(len, k)

(***************************************************************************)
(* The simulator's local groups are the ones the encoder lays out, so that *)
(* its repair costs are about the code that is stored.                     *)
(***************************************************************************)
SimulatorMatchesLayout ==
    Done /\ SimCovers => \A p \in Positions : OurGroup(NodeAt(p), k, r) = GroupOf(p, r)

(***************************************************************************)
(* The placements survive the loss of a rack: every block is in exactly    *)
(* one rack, and no rack holds more blocks than the code tolerates losing. *)
(***************************************************************************)
Survivable(racks, nodes, b) ==
    /\ UNION racks = nodes
    /\ \A q \in racks : Cardinality(q) <= b
    /\ \A q, s \in racks : q = s \/ q \cap s = {}

RackLossTolerated ==
    Start =>
        /\ SimCovers => Survivable(OurRacks(n, k, r), OurNodes(n, k, r), Distance(n, k, r) - 1)
        /\ Survivable(AzureLRC(n, k, r), NodeNames(n, k, CeilDiv(k, r)), n - k - CeilDiv(k, r) + 1)
        /\ n - k - CeilDiv(k, r) - 1 >= 1 =>
              Survivable(AzureLRC1(n, k, r), NodeNames(n, k, CeilDiv(k, r) + 1), n - k - CeilDiv(k, r))

(***************************************************************************)
(* The closed formulas for the flat placement are the repair costs of one  *)
(* block per rack, and the repair-optimal placement costs no more, for the *)
(* data blocks and for all of them.                                        *)
(***************************************************************************)
OursNoWorseThanFlat ==
    Start /\ SimCovers =>
        LET nodes == OurNodes(n, k, r)
            data == {x \in nodes : x[1] = "D"}
            single == {{x} : x \in nodes}
            group == OurDict(n, k, r)
            ours == OurRacks(n, k, r)
        IN  /\ Total(data, single, group) = FlatDRC(n, k, r)
            /\ Total(nodes, single, group) = FlatNRC(n, k, r)
            /\ Total(data, ours, group) <= FlatDRC(n, k, r)
            /\ Total(nodes, ours, group) <= FlatNRC(n, k, r)

(***************************************************************************)
(* With the blocks where the simulator puts them, a repair and a degraded  *)
(* get cross the network core as often as the simulator says, in every     *)
(* group without global parities; and a set sends the local parity of a    *)
(* full group across the core if and only if the group is spread over      *)
(* racks, although the code never forgets that an earlier group was.       *)
(***************************************************************************)
CrossingsAsSimulated ==
    Done /\ SimCovers =>
        LET racks == OurRacks(n, k, r)
            group == OurDict(n, k, r)
            rackOf == [p \in Positions |-> CHOOSE q \in racks : NodeAt(p) \in q]
        IN  \A p \in Positions :
                LET j == GroupOf(p, r)
                IN  /\ p = j * (r + 1) + r =>
                          (p \in SetCrosses(rackOf) <=> RepairCrossings(rackOf, j) > 0)
                    /\ (\A q \in GroupPositions(j, n, r) : blocks[q][1] # "global") =>
                          /\ RepairCrossings(rackOf, j) = RepairCost(NodeAt(p), racks, group)
                          /\ blocks[p][1] = "data" => GetCrossings(rackOf, j) = RepairCrossings(rackOf, j)
============================================================================
