------------------------------ MODULE LrcCode ------------------------------
(***************************************************************************)
(* The layout arithmetic of an (n, k, r) locally repairable code, as the   *)
(* writer (libmemcached/storage.cc) and the readers (libmemcached/get.cc)  *)
(* compute it, each from its own formulas.                                 *)
(*                                                                         *)
(* A stripe has n positions 0 .. n-1.  They are cut into local groups of   *)
(* r+1 consecutive positions (the last one may be shorter); the last       *)
(* position of a group holds the group's local parity, the others hold     *)
(* first the k data blocks and then the global parities.                   *)
(***************************************************************************)
EXTENDS Integers

\* The fixed size of node2rack[], node_rack[] and rack_group[].
MaxNodes == 20

(***************************************************************************)
(* Writer: number of local groups and of global parities.                  *)
(***************************************************************************)
\* A plausible slip: rounds up even when r+1 divides n.
MutLocalGroups(n, r) == n \div (r + 1) + 1

LocalGroups(n, r) == (n + r) \div (r + 1)

GlobalParities(n, k, r) == n - LocalGroups(n, r) - k

(***************************************************************************)
(* A code the library can be configured with.  n - groups - k is computed  *)
(* in uint32_t, so a code without room for its local parities is out, and  *)
(* so is one whose last group would be a local parity of nothing.          *)
(***************************************************************************)
ValidCode(n, k, r) ==
    /\ n \in 1..MaxNodes /\ k \in 1..MaxNodes /\ r \in 1..MaxNodes
    /\ LocalGroups(n, r) + k <= n
    /\ n % (r + 1) # 1

(***************************************************************************)
(* Repair: the local group of a position, and what it consists of.         *)
(***************************************************************************)
GroupOf(p, r) == p \div (r + 1)

\* A plausible slip: the last group is taken to be full.
MutGroupSize(j, n, r) == r + 1

GroupSize(j, n, r) ==
    IF (r + 1) * (j + 1) > n THEN n - j * (r + 1) ELSE r + 1

ParityPos(j, n, r) == j * (r + 1) + GroupSize(j, n, r) - 1

GroupPositions(j, n, r) == j * (r + 1) .. ParityPos(j, n, r)

(***************************************************************************)
(* Get: the position of data block d, and that of the last data block.     *)
(***************************************************************************)
\* A plausible slip: one parity to skip every r+1 data blocks.
MutDataPos(d, r) == d + d \div (r + 1)

DataPos(d, r) == d + d \div r

LastBlock(k, r) == k + (k - 1) \div r - 1

(***************************************************************************)
(* Degraded get: what it reads to rebuild data block d.                    *)
(*                                                                         *)
(* Of d's group it already holds the data blocks; it fetches ToFetch more  *)
(* blocks, at consecutive positions that start at slot r of the group.     *)
(***************************************************************************)
ToFetch(d, n, k, r) ==
    IF k % r # 0 /\ d \div r = (k - 1) \div r
    THEN GroupSize(d \div r, n, r) - (k - (d \div r) * r)
    ELSE 1

\* A plausible slip: the fetch starts one slot early.
MutFetchPos(b, d, r) == (d \div r) * (r + 1) + r + b - 1

FetchPos(b, d, r) == (d \div r) * (r + 1) + r + b

FetchPositions(d, n, k, r) == {FetchPos(b, d, r) : b \in 0..ToFetch(d, n, k, r) - 1}

\* A plausible slip: the first block of the group is left out.
MutHeldPositions(d, n, k, r) ==
    LET j == d \div r
    IN  {p \in j * (r + 1) + 1 .. j * (r + 1) + GroupSize(j, n, r) - 2 :
            p <= LastBlock(k, r) /\ p # DataPos(d, r)}

\* The data blocks of the group that the first read already brought.
HeldPositions(d, n, k, r) ==
    LET j == d \div r
    IN  {p \in j * (r + 1) .. j * (r + 1) + GroupSize(j, n, r) - 2 :
            p <= LastBlock(k, r) /\ p # DataPos(d, r)}

\* All the blocks that go into the decoding of data block d.
DecodeSources(d, n, k, r) == HeldPositions(d, n, k, r) \cup FetchPositions(d, n, k, r)

(***************************************************************************)
(* Block keys: the item's key followed by the position in two digits; a    *)
(* read is routed by the digits it finds at the end of the key.            *)
(***************************************************************************)
KeySuffix(p) == <<p \div 10, p - (p \div 10) * 10>>

RoutedPos(suffix) == suffix[1] * 10 + suffix[2]
============================================================================
