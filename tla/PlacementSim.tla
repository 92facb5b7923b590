---------------------------- MODULE PlacementSim ----------------------------
(***************************************************************************)
(* The simulator of the paper (pic_sim/): how the blocks of an (n, k, r)   *)
(* code are spread over racks, and how many racks the repair of a block    *)
(* reads from.  A block is <<"D", x>>, <<"L", x>> or <<"G", x>>: data,     *)
(* local parity, global parity.                                            *)
(***************************************************************************)
EXTENDS LrcCode, FiniteSets

CeilDiv(a, b) == (a + b - 1) \div b

\* node_id[1] of a name such as D3 or D13: the first digit of the number.
FirstDigit(x) == IF x < 10 THEN x ELSE x \div 10

\* cal: the minimum Hamming distance of the optimal code.
Distance(n, k, r) ==
    LET g == n - k - CeilDiv(n, r + 1)
        gl == CeilDiv(n, r + 1) - CeilDiv(k, r)
    IN  IF CeilDiv(g + 1, r) > gl THEN g + gl + 2 ELSE g + gl + 1

\* node: the data blocks, then the local parities, then the global ones.
NodeNames(n, k, locals) ==
    ({"D"} \X (0..k - 1)) \cup ({"L"} \X (0..locals - 1)) \cup ({"G"} \X (0..n - locals - k - 1))

Letter(x) ==
    CASE x[1] = "D" -> 0
      [] x[1] = "L" -> 1
      [] x[1] = "G" -> 2

Before(x, y) == Letter(x) < Letter(y) \/ (x[1] = y[1] /\ x[2] < y[2])

(***************************************************************************)
(* Racks, as sets of blocks.                                               *)
(***************************************************************************)
\* The index of x in the list of the members of S.
Rank(x, S) == Cardinality({y \in S : Before(y, x)})

\* s[0:b], s[b:2b], ... of that list.
Slices(S, b) ==
    {{y \in S : Rank(y, S) \div b = c} : c \in {Rank(x, S) \div b : x \in S}}

\* The other racks with a node of x's group; `group' is dict of the scripts.
ReadsFrom(x, q, group) == x \notin q /\ \E y \in q : group[y] = group[x]

RepairCost(x, racks, group) == Cardinality({q \in racks : ReadsFrom(x, q, group)})

\* The sum of the costs of the blocks in S.
Total(S, racks, group) ==
    Cardinality({e \in S \X racks : ReadsFrom(e[1], e[2], group)})

----------------------------------------------------------------------------
(***************************************************************************)
(* our_placement: as many whole groups in a rack as it may hold; if not    *)
(* even one fits, a group is cut into as few racks as possible.            *)
(***************************************************************************)
\* A plausible slip: the global parities are counted from 1.
MutOurGroup(x, k, r) ==
    CASE x[1] = "D" -> x[2] \div r
      [] x[1] = "L" -> FirstDigit(x[2])
      [] x[1] = "G" -> (FirstDigit(x[2]) + k + 1) \div r

OurGroup(x, k, r) ==
    CASE x[1] = "D" -> x[2] \div r
      [] x[1] = "L" -> FirstDigit(x[2])
      [] x[1] = "G" -> (FirstDigit(x[2]) + k) \div r

OurNodes(n, k, r) == NodeNames(n, k, CeilDiv(n, r + 1))

OurDict(n, k, r) == [x \in OurNodes(n, k, r) |-> OurGroup(x, k, r)]

OurRankGroup(j, n, k, r) == {x \in OurNodes(n, k, r) : OurGroup(x, k, r) = j}

\* A plausible slip: a rack may hold d blocks, not d-1.
MutCapacity(n, k, r) == Distance(n, k, r)

Capacity(n, k, r) == Distance(n, k, r) - 1

GroupsPerRack(b, r) == b \div (r + 1)

OurRacks(n, k, r) ==
    LET b == Capacity(n, k, r)
        each == GroupsPerRack(b, r)
        groups == 0..CeilDiv(n, r + 1) - 1
    IN  IF b >= r + 1
        THEN {UNION {OurRankGroup(j, n, k, r) : j \in {j \in groups : j \div each = c}} :
                  c \in {j \div each : j \in groups}}
        ELSE UNION {Slices(OurRankGroup(j, n, k, r), b) : j \in groups}

----------------------------------------------------------------------------
(***************************************************************************)
(* flat: every block in a rack of its own.  DRC and NRC, times k.          *)
(***************************************************************************)
\* A plausible slip: the case of a shorter last group of data is left out.
MutFlatDRC(n, k, r) == k * r

FlatDRC(n, k, r) ==
    IF CeilDiv(n, r + 1) > CeilDiv(k, r) \/ n % (r + 1) = 0
    THEN k * r
    ELSE (k - (k % r)) * r + (k % r) * ((n % (r + 1)) - 1)

FlatNRC(n, k, r) ==
    LET last == n % (r + 1) IN (n - last) * r + last * (last - 1)

----------------------------------------------------------------------------
(***************************************************************************)
(* azure_LRC, azure_LRC_1: a local parity per r data blocks; the global    *)
(* parities form a group of their own, with a local parity in the second.  *)
(* (Of a local parity's number azure_LRC reads one digit, azure_LRC_1 two; *)
(* within 20 positions there are never more than ten of them.)             *)
(***************************************************************************)
AzureGroup(x, k, r) ==
    CASE x[1] = "D" -> x[2] \div r
      [] x[1] = "L" -> x[2]
      [] x[1] = "G" -> CeilDiv(k, r)

AzureRacks(n, k, r, b, locals) ==
    UNION {Slices({x \in NodeNames(n, k, locals) : AzureGroup(x, k, r) = j}, b) :
               j \in 0..CeilDiv(k, r)}

AzureLRC(n, k, r) == AzureRacks(n, k, r, n - k - CeilDiv(k, r) + 1, CeilDiv(k, r))
AzureLRC1(n, k, r) == AzureRacks(n, k, r, n - k - CeilDiv(k, r), CeilDiv(k, r) + 1)
============================================================================
