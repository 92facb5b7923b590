----------------------------- MODULE LrcEncode -----------------------------
(***************************************************************************)
(* The encoding loop of memcached_lrc_send_binary (storage.cc): one step   *)
(* per local group fills the group's slots of all_blocks[] from the data   *)
(* blocks and the global parities, and appends the group's local parity.   *)
(* What a block contains is abstracted to where it comes from.             *)
(*                                                                         *)
(* The properties compare what the writer leaves in all_blocks[] with the  *)
(* positions at which the readers (get, repair) look for it.               *)
(***************************************************************************)
EXTENDS LrcCode

CONSTANT Codes          \* the (n, k, r) triples considered

ASSUME CodesAssumption ==
    \A c \in Codes :
        /\ c \in [n : 1..MaxNodes, k : 1..MaxNodes, r : 1..MaxNodes]
        /\ ValidCode(c.n, c.k, c.r)

VARIABLES
    code,       \* the code the client is configured with
    i,          \* the loop counter: the next local group
    remain,     \* how many data and global parity blocks are not placed yet
    blocks      \* all_blocks[]: position -> what it holds

vars == <<code, i, remain, blocks>>

Groups == LocalGroups(code.n, code.r)
Globals == GlobalParities(code.n, code.k, code.r)
Positions == 0..code.n - 1

(***************************************************************************)
(* The block with running number x: a data block, or a global parity once  *)
(* the data blocks are used up; the local parity over a set of blocks; and *)
(* the zeroed buffer every slot starts with.                               *)
(***************************************************************************)
Source(x) == IF x < code.k THEN <<"data", x>> ELSE <<"global", x - code.k>>

Local(S) == <<"local", S>>

Zero == <<"zero", 0>>

----------------------------------------------------------------------------
Init ==
    /\ code \in Codes
    /\ i = 0
    /\ remain = code.k + Globals
    /\ blocks = [p \in Positions |-> Zero]

\* A plausible slip: the running number steps by r+1, as the slot does.
MutPlaceNumber(w, lp) ==
    LET base == i * (code.r + 1)
    IN  blocks' = [p \in Positions |->
            CASE p = lp                  -> Local({Source(base + x) : x \in 0..w - 1})
              [] p \in base..base + w - 1 -> Source(p)
              [] OTHER                   -> blocks[p]]

\* A plausible slip: the shorter last group keeps its parity in slot r.
MutPlaceShort(w, lp) ==
    LET base == i * (code.r + 1)
    IN  blocks' = [p \in Positions |->
            CASE p = base + code.r       -> Local({Source(i * code.r + x) : x \in 0..w - 1})
              [] p \in base..base + w - 1 -> Source(i * code.r + p - base)
              [] OTHER                   -> blocks[p]]

\* A plausible slip: groups are laid out r positions apart instead of r+1.
MutPlaceStride(w, lp) ==
    LET base == i * code.r
    IN  blocks' = [p \in Positions |->
            CASE p = base + w            -> Local({Source(i * code.r + x) : x \in 0..w - 1})
              [] p \in base..base + w - 1 -> Source(i * code.r + p - base)
              [] OTHER                   -> blocks[p]]

\* Place w blocks at the start of group i and its local parity at position lp.
\* The slot of block x of the group is i*(r+1)+x, its running number i*r+x.
Place(w, lp) ==
    LET base == i * (code.r + 1)
    IN  blocks' = [p \in Positions |->
            CASE p = lp                  -> Local({Source(i * code.r + x) : x \in 0..w - 1})
              [] p \in base..base + w - 1 -> Source(i * code.r + p - base)
              [] OTHER                   -> blocks[p]]

\* A plausible slip: remain is not decremented.
MutFullGroup ==
    /\ i < Groups
    /\ remain >= code.r
    /\ Place(code.r, i * (code.r + 1) + code.r)
    /\ i' = i + 1
    /\ UNCHANGED <<code, remain>>

\* if (remain >= r): a full group.
FullGroup ==
    /\ i < Groups
    /\ remain >= code.r
    /\ Place(code.r, i * (code.r + 1) + code.r)
    /\ remain' = remain - code.r
    /\ i' = i + 1
    /\ UNCHANGED code

\* else: the last, shorter group; its parity goes to position n-1.
ShortGroup ==
    /\ i < Groups
    /\ remain < code.r
    /\ Place(remain, code.n - 1)
    /\ i' = i + 1
    /\ UNCHANGED <<code, remain>>

Next == FullGroup \/ ShortGroup

Spec == Init /\ [][Next]_vars

----------------------------------------------------------------------------
(***************************************************************************)
(* Type invariant of the loop: the counter never passes the number of      *)
(* groups, remain (a uint32_t) never wraps, all_blocks[] keeps its n slots *)
(* and what a local parity covers is data blocks and global parities.      *)
(***************************************************************************)
TypeOK ==
    /\ code \in Codes
    /\ i \in 0..Groups
    /\ remain \in 0..code.k + Globals
    /\ DOMAIN blocks = Positions
    /\ \A p \in Positions :
          \/ blocks[p] \in {Zero} \cup ({"data", "global"} \X (0..MaxNodes))
          \/ /\ blocks[p][1] = "local"
             /\ blocks[p][2] \subseteq {"data", "global"} \X (0..MaxNodes)

Done == i = Groups

(***************************************************************************)
(* The next iteration stays inside its arrays: the highest slot it writes  *)
(* is below n (all_blocks[n]) and the highest global parity it reads is    *)
(* below g (global_coding_ptrs[g]).                                        *)
(***************************************************************************)
IndicesInBounds ==
    i < Groups =>
        LET w == IF remain >= code.r THEN code.r ELSE remain
        IN  /\ i * (code.r + 1) + w <= code.n - 1
            /\ i * code.r + w <= code.k + Globals

(***************************************************************************)
(* Writer and get agree on the data: data block d is at the position to    *)
(* which the key memcached_get_lrc makes for it is routed, and the position both treat as *)
(* the last data block (the one stored truncated) holds data block k-1.    *)
(***************************************************************************)
DataWhereGetLooks ==
    Done =>
        /\ \A d \in 0..code.k - 1 :
              blocks[RoutedPos(KeySuffix(DataPos(d, code.r)))] = <<"data", d>>
        /\ blocks[LastBlock(code.k, code.r)] = <<"data", code.k - 1>>

(***************************************************************************)
(* Writer and repair agree on the groups: the last position of every group *)
(* that memcached_repair_by_index computes holds the local parity of       *)
(* exactly the blocks at the group's other positions.                      *)
(***************************************************************************)
ParityCoversGroup ==
    Done =>
        \A j \in 0..Groups - 1 :
            LET lp == ParityPos(j, code.n, code.r)
            IN  blocks[lp] = Local({blocks[q] : q \in GroupPositions(j, code.n, code.r) \ {lp}})

(***************************************************************************)
(* Every data block and every global parity has exactly one position when  *)
(* the loop ends: none is dropped, none is stored twice.                   *)
(***************************************************************************)
EachBlockPlacedOnce ==
    Done =>
        \A x \in 0..code.k + Globals - 1 :
            \E p \in Positions :
                \A q \in Positions : (blocks[q] = Source(x)) <=> (q = p)

(***************************************************************************)
(* No iteration overwrites a slot an earlier one filled.                   *)
(***************************************************************************)
NothingOverwritten ==
    [][\A p \in Positions : blocks[p] # Zero => blocks'[p] = blocks[p]]_vars

(***************************************************************************)
(* A degraded get decodes a data block from exactly the rest of its group, *)
(* for every data block that is not in a group the data fills only partly. *)
(* (For the others the fetch starts at the wrong slot: see LrcStripe.)     *)
(***************************************************************************)
DegradedGetReadsGroup ==
    Done =>
        \A d \in 0..code.k - 1 :
            (code.k % code.r = 0 \/ d \div code.r # (code.k - 1) \div code.r) =>
                DecodeSources(d, code.n, code.k, code.r) =
                    GroupPositions(GroupOf(DataPos(d, code.r), code.r), code.n, code.r)
                        \ {DataPos(d, code.r)}
============================================================================
