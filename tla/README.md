# Verification of the LRC extension of libmemcached

This directory models the erasure-coded object store that this repository adds
to libmemcached 1.0.18: TLA+ modules, TLC configurations that check them on
small instances, and proofs that TLAPS checks for every instance.
`L/` stands for `src/libmemcached-1.0.18/libmemcached/`.

## 1. The system

A client (`memcached_st`) configured with `n`, `k`, `r`, `b` stores an item as a
stripe of `n` blocks, one per memcached server: `k` data blocks, global
parities, and one local parity per group of `r+1` consecutive positions (an
"optimal LRC"). All logic is in the client; the servers are ordinary memcached.

| component | source | state | operations |
|---|---|---|---|
| code layout | `L/storage.cc`, `L/get.cc` | none | positions, groups, block keys; computed separately by set, get, degraded get, repair |
| encoder | `L/storage.cc` 676-800 | `all_blocks[]`, `remain` | one loop iteration per local group |
| rack placement | `L/storage.cc` 111-251, 807-831 | `rack_group[]`, `node2rack[]`, `use` flags | `add_rack`, assignment loop |
| stripe operations | `L/storage.cc` 655-1169, `L/get.cc` 166-512, 1136-1415, `L/delete.cc` 223-322 | blocks at the servers, `fail_node_index`, `rack_is_add` | set, get, degraded get, repair, delete |
| network core crossing | `L/storage.cc` 256-274, `L/get.cc` 78-93 | `is_core` | set and get of a block at the core server |
| block sizes | `L/storage.cc` 64-90, 861, `L/get.cc` 179, 419-426 | none | size of a block and of the last, shorter one |
| response pipeline | `L/response.cc`, `L/fetch.cc`, `L/io.cc`, `L/purge.cc`, `L/do.cc` | unread answers per server, `cursor_active_` | send, response, fetch, drain, purge, reset |
| connections | `L/connect.cc`, `L/quit.cc`, `L/server.hpp` | socket state, failure counters, `next_retry` | connect, close, back off, eject, quit |
| client pool | `libmemcachedutil/pool.cc` | free handles, mutex, condition, version | create, destroy, fetch, release, grow, behaviour set |
| placement simulator | `src/pic_sim/*.py` | none | placement and repair-cost algorithms |
| codec | `Jerasure-1.2A` (third party) | none | matrix encode and decode |
| test program | `src/mytest.cc` | none | measurement driver |

How they interact. `memcached_set` looks up a server through
`node2rack[fail_node_index]`, encodes, on its first call reads `rack.txt` and
assigns servers, sends each block through the core, writes the `n` blocks to the
sockets of their servers and reads one answer: the other `n-1` requests may be
executed after the set has returned. On one connection order is kept, and a client's
next multi-get or crossing of the core reads all answers first, so a client never
overtakes itself; other clients have connections of their own. `memcached_get` asks
for the `k` data blocks; if one is missing it asks for the rest of its group,
decodes, writes the block back (a plain set with `number_of_b` cleared, addressed by
`fail_node_index`) and assembles the value. `memcached_repair` does the same for
any position. Clients share nothing but the servers. Every request goes through
a `memcached_instance_st`, one per server, whose connection is opened on demand
and dropped on any error; answers nobody reads stay on it until a multi-get
drains it. Threads of one process may share clients through a pool, which clones
them from a master.

What is hard: an operation is a sequence of independent requests with no
transaction around it, so other clients, crashes, evictions and dead connections
come between any two of them; a set returns with requests on their way, which other
clients' operations may overtake and a closed connection may lose; readers write;
nothing marks a block with its
version; an error returns early and undoes nothing; layout arithmetic is
repeated in four places; several fields are used before anything initialises
them. `PROJECT.json` lists these as hazards, each at its line.

What makes each component correct:

- layout and encoder: the writer puts every block where every reader looks for it;
- placement: one block per server, in the rack asked for, the same for all clients;
- stripe: reading and repairing never damage what a set stored; a get returns
  the last value; damage that concurrent writers do stays local; operations end;
- sizes: a get puts together, byte by byte, what a set has cut up;
- simulator: its placements are about the layout the encoder produces, and
  survive the loss of a rack;
- pipeline: an answer is taken for the request it belongs to, and unread answers
  do not pile up;
- connections: a server that failed is left alone, and used again when it is back;
- pool: no handle is handed out twice or lost, no wakeup is lost, and a handle
  has the settings its version stands for.

## 2. Modules

| module | models | extends |
|---|---|---|
| `LrcCode` | layout formulas, each translated from the function that uses it | |
| `LrcEncode` | the encoding loop | `LrcCode` |
| `RackPlacement` | `add_rack` and the assignment loop | |
| `LrcStripe` | set, get, degraded get, repair, delete over failing servers | `LrcCode` |
| `ObjectStore` | what a stripe promises: one object, no blocks | |
| `StripeIsObject` | the refinement mapping from the stripe to the object | `LrcStripe`, instance of `ObjectStore` |
| `BlockSizes` | sizes of blocks, as operators | |
| `PlacementSim` | placements and repair costs of `src/pic_sim`, as operators | `LrcCode` |
| `LrcDesign` | encoder, sizes and simulator put together; network-core crossings | `LrcEncode`, `BlockSizes`, `PlacementSim` |
| `ServerInstance` | a client's connection to one server, its answers and back-off | |
| `ClientPool` | the pool of handles threads share | |
| `MCLrcEncode`, `MCRackPlacement`, `MCLrcStripe` | instances for TLC | |
| `LrcCodeProofs` | theorems about the layout | `LrcCode` |
| `LrcEncodeProofs` | theorems about the encoding loop, the block sizes, the simulator's placements and costs, the core crossings | `LrcDesign`, `LrcCodeProofs` |
| `RackPlacementProofs` | theorems about the placement | `RackPlacement`, `SequenceLemmas` |
| `LrcStripeProofs` | theorems about the stripe | `LrcStripe`, `LrcCodeProofs` |
| `StripeIsObjectProofs` | the refinement | `StripeIsObject`, `LrcStripeProofs` |
| `ServerInstanceProofs` | theorems about a connection | `ServerInstance`, `SequenceLemmas` |
| `ClientPoolProofs` | theorems about the pool | `ClientPool`, `SequenceLemmas` |
| `SequenceLemmas` | facts about sequences they and `RackPlacementProofs` need | |

**LrcEncode.** `i`, `remain` and `blocks` are the loop counter, `remain` and
`all_blocks[]` of `memcached_lrc_send_binary`. A block is a tag that says where
it comes from: data block x, global parity x, or the local parity of a set of
blocks. `FullGroup` and `ShortGroup` are the two branches of the loop body.
`MutX` operators are deliberately wrong variants of `X`; each property is
known to fail under one of them (`PROJECT.json`, "mutants").

**RackPlacement.** The file is an input: racks with an announced number of
servers and the lines that follow, and the rack id of every position. `group` is
the linked list of each rack, `tail` the racks whose list ends in a node that
was allocated and not filled in, `used` the `use` flags. The host name
comparison is abstracted to "matches server key x" or "matches none". Following
an unfilled node is undefined behaviour and modelled as a choice: the client
crashes, or the position gets any key.

**LrcStripe.** One item, one step per request at one server. A block is the set
of the symbols whose exclusive or it is; a symbol is a pair of version and
position. A local parity is a Vandermonde row of ones, so encoding and decoding
a group are exclusive ors, and mixing versions produces a block that is visibly
a mixture. `Junk` is unspecified bytes.

A request that changes a block is sent in one step and executed in another:
`flight` is the set of the requests servers have not executed yet. Each belongs to
the client that sent it, or is late: its connection has ended and nobody waits for
its answer. `Execute` may happen at any time, long after the operation that sent the
request has returned, and in any order, except that a client has nothing in flight
when it begins to set or to read, and at most one request per server (`Drained`,
from the drain of `__mget_by_key_real`). Only the write-back of a get or a repair is
one step: it follows a drain and waits for its own answer, so it is executed between
two steps of that client; if it gets no answer it may be executed late. Actions and code:

| action | code |
|---|---|
| `SetBegin`, `SetCrash` | `memcached_send` up to the send loop; a wild server lookup before the first set |
| `SetSend` | one iteration of the send loop: the request is on its way, is swallowed by a dead connection (lost or late), or fails and the set returns |
| `SetAnswer` | the final `memcached_response`: the answer of one server that has executed its request |
| `GetBegin`, `GetError` | keys and `memcached_mget`; its error path |
| `Fetch` | one answer, or none, of a multi-get |
| `GetComplete` | all data blocks are there |
| `GetDegraded` | `fail_index`, second multi-get; crossing of an unset pointer |
| `GetFinish` | decode, write back, assemble, return |
| `RepairBegin`, `RepairError`, `RepairFinish` | `memcached_repair_by_index` |
| `Delete` | `memcached_delete_by_key_lrc`; after a set it takes an older answer for its own, so it may return before it is executed |
| `Execute` | environment: a server executes a request |
| `ServerFails` | environment: a server crashes, and what it holds and has not executed is gone; or it is cut off, and each request to it is lost or late |
| `ClientDies` | environment: its requests are lost or late |
| `ServerReturns`, `Evict` | environment |

`dirty`, `clean`, `overlap`, `cur` and `ver` are history variables; no code variable
depends on them. They say when a promise is made:

- `cur` is the last set all of whose requests were sent;
- `clean`: the running set is alone, began with nothing on its way, and nothing it
  sent was lost in front of an older block;
- `dirty`: a set was cut short, or was not `clean` when it had sent everything; a
  reader that overlapped a set, or that could not decode, wrote something back; a
  request was lost in front of an older block. The next `clean` set ends it;
- `overlap`: while this reader reads, a set is running, or when it began a block
  was on its way.

So the consistency properties exempt exactly the damage that the code does do: partial
sets, sets that overlap or overtake each other, repairs and degraded gets that overlap
a set, swallowed requests (the hazards at `L/storage.cc` 917, 961 and 1054, `L/get.cc`
390 and 1193 and `L/quit.cc` 83). The code neither prevents nor reports it, and the
properties do not claim so. What they show is that damage arises in no other way
(losses, reads, repairs, deletes, late execution), that it stays in its group
(`DamageStaysInGroup`, which exempts nothing but `Sound`), and that an undisturbed
set mends it.

Abstractions of `LrcStripe`: a server that answers too slowly for a poll timeout counts
as one that is cut off and comes back, its requests late; a multi-get that meets an
unanswering server may fail or go on (its return code is that of the last connect);
positions stand for their
servers, which `RackPlacement` justifies for well-formed files; the other items
a client may have stored show only in `ready`; a delete's return code is left
open; block sizes and expiry (86400 s) are left out. The write-back of an
undamaged block is not undone by anything, so its ignored return code is only
visible as a block that stays lost.

**ObjectStore, StripeIsObject.** The abstract specification has a single object:
a version, nothing, or a mixture. Writes and reads take time, and what was written
settles after the write has ended (`settling`, `Arrive`). A read that begins when
the object is settled, that no write overlaps and that missed at most one piece
returns the last version, unless the object is torn. That it becomes by a write that
is abandoned, overlapped or lost on its way, and by a reader that writes back what it
could not know; a write that nothing disturbs mends it. When an untorn object has
settled it is the last version written, or gone. The mapping takes the `n` blocks to
the version they are all of, `dirty` to torn, blocks in flight to settling, `clean` to
a write nothing disturbs, and a get's outcome to the version its bytes are of.

**BlockSizes, PlacementSim, LrcDesign.** Pure operators, evaluated in the states
of `LrcEncode`. `BlockSizes` follows `determine_block_size_rs`, `fill_data_ptrs`
and the copying loop of get in `size_t` arithmetic modulo `SizeT`.
`PlacementSim` names blocks `<<"D", x>>`, `<<"L", x>>`, `<<"G", x>>` as the scripts
name them D3, L0, G1, and keeps the scripts' reading of digits. The scripts' lists
of nodes are sets in the order of the list (`Before`), a node's index is the number
of nodes before it (`Rank`), and a rack cut from a list is the nodes whose indices
have the same quotient (`Slices`); a sum of costs counts the pairs of a block and a
rack it is repaired from (`Total`). `LrcDesign` adds how often set, degraded get and
repair cross the core, and relates the three.

**ServerInstance.** `inst` is the `memcached_instance_st`, `pipe` the answers that
are on the connection, each with the kind of request it answers and whether the
running operation asked for it. An operation is a get (multi-get), a set of the
erasure code (which crosses the core, and so drains, first), a put (set of one
block: write-back or core) or a delete. Actions and code:

| action | code |
|---|---|
| `Start` | `initialize_query` and the choice of the first step |
| `Drain` | the loop before a multi-get that reads unread answers |
| `SendOk`, `SendUnconnected`, `SendFails` | `memcached_connect` with `backoff_handling`, and the write in `memcached_vdo` or `simple_binary_mget` |
| `Purge` | `memcached_purge` during a long write |
| `Read` | the `memcached_response` of a set or delete |
| `Fetch` | `memcached_fetch_result` as far as this server is concerned |
| `Quit` | `memcached_quit` |
| `ServerFails`, `ServerReturns`, `Tick` | environment |

Times are relative to now, and a counter stops at its limit, past which the code
tells no values apart. A write to a dead connection may succeed; a read on any
connection may time out. `asked` and `idle` are history variables.

**ClientPool.** One critical section per step; a fetch that waits is cut at
`pthread_cond_timedwait`, which may also return for no reason. `pool` is
`server_pool[0..firstfree]`, `handle` the version and the settings of every
`memcached_st`, a setting being the number of the change that made it. `Copied`
are the behaviours `memcached_clone` copies. Allocation, clone and in-place
updates may fail (`Failures`). `Destroy` assumes that no thread is inside a
fetch, as destroying a mutex in use is undefined.

## 3. What the runs check

| run | instance | shows |
|---|---|---|
| `encode` | every (n, k, r) with n <= 20, the size of `node2rack[]`; value lengths from 0 to past the last wrap-around of each k | layout: arrays are never overrun, nothing is overwritten, every block is placed once, data are where get looks, parities cover the groups repair uses, a degraded get reads the rest of the group (if the data fill it). Sizes: values of at least k(k-1) longs, and the empty one, are reassembled. Simulator: its groups are the encoder's, its placements survive a rack loss, the closed formulas for the flat one are right and the repair-optimal one costs no more, and the code crosses the core as often as it says |
| `rack` | 3 positions, 4 servers, up to 2 racks with up to 2 lines | with a well-formed file: one block per server, placement depends on the file only, no unfilled node is followed |
| `stripe_one` | (8,3,2), 1 client, 2 sets, 1 loss, 1 request in flight, none late | write-backs never damage a stripe, and a get that missed one block returns the last value, outside the one group that a degraded get decodes wrongly; what it writes back there reaches no other group |
| `stripe_race` | (4,2,1), 2 clients, 2 sets, 1 request of each and 1 late one in flight | the same for concurrent clients, whose requests overtake each other; a block never contains anything of another group; the stripe implements `ObjectStore` |
| `stripe_crash` | (2,1,1), 2 clients, 1 of them reading, 2 sets, 1 loss, 1 request of each in flight, none late | the inductive invariant, with failures between any two steps; a get that begins when everything has arrived, is not overlapped and missed one block returns the last value |
| `stripe_live` | (2,1,1), 1 client, 2 sets, 2 losses, all blocks and 1 late request in flight, fairness | every operation ends; the stripe implements `ObjectStore` with failing servers |
| `pool` | 3 threads, pool of 2, 4 handles, 2 behaviours, 2 changes, failures, fairness | one owner per handle, none lost, no lost wakeup, a handle with the pool's version has its settings, a fetched handle is untouched, waits end unless overtaken |
| `connection` | retry timeout 2, failure limit 2, dead timeout 3, ejection on or off, fairness | answers counted, own, few; a disabled server is left alone, and used again when it stays up |
| `pool_lrc` | 2 threads, pool of 2, 1 change | violated, see findings |
| `get_short_group` | (5,3,2) | violated, see findings |
| `get_two_lost` | (5,2,2), b = 3 | violated, see findings |
| `set_answer` | (4,2,1) | violated, see findings |

Bounds. `encode` is exhaustive: the library's arrays have 20 entries. For `rack`,
two racks and three positions are enough for a rack that overflows, a rack that
is shared, a rack that does not exist, and lists that are too long and too
short. For the stripe, (8,3,2) has a full group of data, a group in which a
global parity follows the data, and a shorter group of global parity behind it
from which the wrong degraded get takes blocks; (4,2,1) has two groups of data
(damage can try to cross), (2,1,1) is the smallest code with a parity and affords
two clients and a failure at once. Two
sets give an old and a new version to mix; `MaxSets` and `MaxLosses` bound the
counters. `MaxInFlight` bounds the requests of each client that are in flight at a
time: with one, a set returns before its last block is executed, another client reads
or sets in between, and that block lands over a newer one; `stripe_live` has all blocks
of a stripe in flight. `MaxLate` bounds the requests in flight whose connection is
gone. With none, what a dead connection had not delivered is lost; late ones are in
`stripe_race`, where a client dies, and in `stripe_live`, where servers fail.
`MaxReaders` bounds the clients that read at a time. The proofs hold for every value
of these bounds. Clients are symmetric where no liveness is checked. In `pool`, three
threads over two handles are enough for one that holds, one that releases and
one that waits; four handles leave a clone for each slot; two changes make a
handle stale twice, by different behaviours. `connection` needs no bound on the
number of operations: that the state space is finite is `FewUnread`. In
`encode`, `SizeT` (10^6) stands for 2^64: a wrapped size stays distinct from
every length considered.

Where a precondition sets cases aside: `OneBlockPerServer` and `NoWildPointer` promise
nothing for a malformed file or a rack with too few servers, although the run reaches
the wild pointer and the overflow, and `ValuesReassemble` nothing for values so short
that the last size wraps around. What the stripe's properties set aside is in section 2.

Deadlock checking is off in `encode`, `rack` and the stripe: the encoding and
placement loops end, and in the stripe all clients may be gone with all bounds
used up. It is on in `pool` and `connection`.

Fairness. `stripe_live`: weak fairness of the steps of an operation that has
begun, and of the execution of what a client has sent over a connection that stays
up (`Served`; a server that does not is cut off). A client is a thread that runs; its
socket reads have a poll timeout, after which an unanswered request counts as a miss.
Nothing else is assumed of servers, which may stay down for good, or of clients beginning operations.
`pool`: a woken thread gets the mutex again (its critical sections are short) and
a wait has a deadline; nothing is assumed of threads that hold handles.
`connection`: the client finishes what it has begun and goes on using the server,
and time passes; nothing is assumed of the server, except in the premise of
`ServerUsedAgain` that it stays up from some time on.

## 4. Findings

- `get_short_group`: if `k` is not a multiple of `r`, a degraded get in the last
  data group looks for the rest of the group at slot `r` (`L/get.cc` 320), past
  the global parities it needs, decodes from a pointer that was never set, or from
  blocks of the next group, and reports success. `Sound` is the set of the
  positions outside that group; the invariants of the stripe are stated for them,
  and `SoundBlocksReturned` says that the rest of the value is right all the same.
- `get_two_lost`: `fail_index` keeps the last missing block only (`L/get.cc`
  253-259); `number_of_b` is documented as the number of errors tolerated.
- `set_answer`: one answer of `n` decides the return code of a set
  (`L/storage.cc` 1054).

- `pool_lrc`: `memcached_clone` copies the library's own behaviours and the
  version, and not those of the erasure code (`L/memcached.cc` 341-387), so that a
  handle of a pool that is cloned has them unset, although
  `memcached_pool_behavior_set` is documented to set flags on all connections.

Met while modelling, and not runs of their own:

- `close_socket` sets the state to NEW whatever it was (`L/io.cc` 751), and set and
  delete reset the connection after a failed connect: the retry timeout is then
  forgotten until `server_failure_limit` is reached. `DisabledLeftAlone` is
  stated for servers that have reached it.
- With a `server_timeout_limit` of 2 or more (the default is 0), a server that has
  reached `server_failure_limit` is tried by every operation once its retry
  timeout has passed: `backoff_handling` resets `server_timeout_counter` before
  each attempt (`L/connect.cc` 713-716), so that
  `memcached_mark_server_for_timeout` (`L/server.hpp` 85) never reaches the limit
  and `next_retry` stays in the past. The proof of `DisabledLeftAlone` met this:
  the property is proved for limits 0 and 1, and TLC refutes it for 2.
- A delete, or a set of one block, takes the oldest unread answer for its own
  (`L/delete.cc` 309); `AnswerIsOwn` says exactly when. Its return code is then
  that of an earlier request.
- Values shorter than k(k-1) longs may leave the last blocks without any byte, and
  `last_data_request_size` wraps around; the exact lengths depend on k.
- `memcached_get_lrc` reads `*value_length`, which the manual describes as output.
- The simulator reads one digit of a global parity's number: G10 counts as G1.
- A pool fetch whose allocation fails returns NULL with `MEMCACHED_SUCCESS`; a
  stale handle that could not be cloned gets the current version with the next
  behaviour that is set on it (`VersionMeansSettings` excludes it); destroying a
  pool with handles in use succeeds.

## 5. What is proved

Every safety property that a run checks is a theorem, for every value of the
constants. The hypotheses that are not assumptions of the modules are in the table.

| component | theorem | states | for |
|---|---|---|---|
| layout | `DecodeSourcesAreGroup` | a degraded get decodes from exactly the rest of the block's group | valid codes, `k % r = 0` |
| | `DecodeSourcesOfFullGroup` | the same | valid codes, a block that is not in the last data group |
| encoder | `GroupsLaidOut` | `[]LayoutInv`, `all_blocks[]` in closed form | valid codes |
| | `TypeCorrect`, `LoopInBounds`, `DataIsFound`, `ParityIsOfGroup`, `PlacedOnce`, `DegradedGetIsLocal` | the invariants of `LrcEncode` | valid codes |
| | `SlotsWrittenOnce` | `NothingOverwritten`, an action property | valid codes |
| simulator | `SimulatorIsOfLayout` | `[]SimulatorMatchesLayout` | valid codes, at most ten global parities |
| | `RackLossIsTolerated` | `[]RackLossTolerated` | valid codes (the repair-optimal placement: the same) |
| | `OursIsNoWorse` | `[]OursNoWorseThanFlat` | valid codes, at most ten global parities |
| core crossing | `CrossedAsSimulated` | `[]CrossingsAsSimulated` | the same |
| sizes | `SizesAddUp` | sizes are whole longs, do not wrap around and add up to the length | lengths of at least k(k-1) longs, and 0, that can be rounded up within `SizeT` |
| | `ValuesComeBack` | `[]ValuesReassemble` | valid codes, the same lengths |
| placement | `PlacementFollowsFile` | `[](ParseInv /\ PlaceInv)` | every set of files |
| | `TypeCorrect`, `WellFormedIsSafe`, `ClientsAgree`, `BlocksApart` | the invariants of `RackPlacement` | every set of files |
| stripe | `TypeCorrect` | `[]TypeOK` | valid codes, any clients and bounds |
| | `InvariantHolds`, `Consistency`, `GetIsRightInSoundGroups`, `DamageIsLocal` | `StripeInv`, `StripeConsistent`, `SoundBlocksReturned`, `DamageStaysInGroup` | the same |
| | `GetIsRight` | `GetReturnsLastSet` | the same, `K % R = 0` |
| | `StripeIsOneObject` | `Spec => ImplementsObjectStore`, the refinement | the same, `K % R = 0` |
| connection | `TypeCorrect`, `CursorCounts`, `OwnAnswers`, `UnreadBounded` | the invariants of `ServerInstance` | any timeouts and limits |
| | `FailedServerLeftAlone` | `DisabledLeftAlone`, an action property | `TimeoutLimit <= 1` |
| pool | `TypeCorrect`, `SingleOwner`, `HandlesCounted`, `NoWakeupLost`, `VersionsReliable` | the invariants of `ClientPool` | any threads, handles, flags |
| | `HeldHandlesUntouched` | `HeldUntouched`, an action property | the same |

Why the hypotheses. `K % R = 0`: otherwise a degraded get in the last data group
reads past the blocks it needs, which `get_short_group` shows, and what it decodes
may come from the next group. The theorems without that hypothesis except this one
group (`Sound`); if `K % R = 0` they except nothing. `TimeoutLimit <= 1`: see
section 4.

Assumptions, all of which TLC evaluates on the runs. `CodeAssumption` and
`CodesAssumption`: the codes are valid (their parities fit, at most 20 positions, no
group that is a parity of nothing). `BoundAssumption`: bounds are naturals, the core
is no position, `None` is no client. `ContentAssumption`: `None` and `Junk` are
distinct and are not the block of any set, nor of "set number 0", whose block nobody has.
`PlacementAssumption`: server keys are numbers, the core is one of them, a file is a
sequence of racks and a rack id per position; nothing is assumed of what a file
says, and well-formedness is a hypothesis inside the properties. `LimitAssumption`:
the timeouts and limits are naturals, the failure limit at least 1.
`PoolAssumption`: the pool has a slot, clones copy some of the behaviours.
`SizeAssumption`: `SizeT` is positive. `LengthsAssumption`: a value that is in memory
beside its blocks can be rounded up, by less than a long per block, without wrapping
around. Threads and handles need not be finite sets.

### The arguments

**Encoder.** Each iteration's effect depends on `remain`, so the invariant has to
say what `remain` is and what all earlier iterations left: `LayoutInv` gives
`remain = (k+g) - i*r` before every iteration but the end, and
`blocks = BlocksAfter(i)`, the layout of the groups before i with zeros after it.
Everything the loop is to guarantee then follows from `BlocksAfter(Groups)` by
arithmetic on groups (`GroupShape`: all groups but the last are full, and the
last ends where the blocks run out). `SizesAddUp` writes the block size as `8 * q` with
`8kq` the length rounded up. `ValuesComeBack` needs what `fill_data_ptrs` has left
before every block, a recursive function; no induction rule can be instantiated, so
the closed form (`LeftFills`) is proved with the least block at which it would fail
(`MinExists`, from the library's least-element principle).

**Simulator.** The names of the scripts and the positions of the stripe are in
bijection (`NodeOf`, `NodePlace`, `NamesAndPlaces`), and the group of a name is the
group of its position; that a group's number has one digit follows from the 20
positions. What `all_blocks[]` holds in the end has the name of its position
(`NodeAtIs`), which is `SimulatorIsOfLayout`. For `RackLossIsTolerated` the list
order is total, so indices are distinct and a slice has at most b nodes
(`RankIsIndex`, `SlicesCut`); packed groups are an interval of positions of at most
`each * (r+1) <= b` blocks (`PackedRacks`); a capacity is positive because the
parities fit (`CapacityFacts`). `OursIsNoWorse` counts pairs: a rack that a repair
reads from has a block of the group, which is a rack of its own in the flat
placement, and different racks have different blocks, an injection
(`RacksCostNoMore`); the flat formulas come from a bijection with the other slots of
the group (`FlatCount`) and the size of the last group (`LastGroupFacts`).

**Core crossing.** If a group fits into a rack, it is in one rack, nothing crosses
and the simulator's cost is 0. If not, racks are slices of one group. In a group
without global parities the order of the names is that of the positions
(`RankIsSlot`; a global parity comes after the local one in the list and before it
in the stripe), so the rack changes at the multiples of b, `(m-1) \div b` times
(`CutCount`), and there are as many other slices (`RepairAsSimulated`). A degraded
get walks the same positions, because the last data block is not before the slot
next to the parity (`GetAsRepair`). `cross_rack`, once set, stays set; it is set only
if no group fits into a rack, and then every full group spans two: its r+1 blocks
exceed the rack, and the first block in another rack is a change (`SetAsRepair`,
with `ChangesOnTheWay`).

**Placement.** Only for well-formed files is anything promised, but the list is
built line by line and its last node is allocated one line ahead. `PlaceInv`
says that while the file is read the list of this rack is the lines read so far,
with an unfilled node at its end exactly as long as a line is missing, and while
servers are assigned that each position has got the server whose turn it is in
its rack; the number of positions of a rack never exceeds its list.

**Stripe.** `StripeConsistent` speaks of moments when nobody sets, and is not
inductive: a write-back stores what was read earlier, and a request is executed when
other requests have been. `StripeInv` adds what links the parts: a running set is at a
block below n and the next one starts with block 0 (`SetProgress`); a client has
nothing in flight when it begins to set and while it reads (`ExecutedBefore`); a
reader knows of every set it overlaps and holds nothing when it is not reading
(`ReadersKnow`); a set that is alone has, at every position it has passed, its own
block, or none, or its own on the way, and nothing else is on the way (`CleanSet`);
before a set's first block the stripe is what the last one left, in the same sense
(`StoreConsistent`); an undisturbed reader meets and holds nothing but that
(`ReadsConsistent`); what a get or repair rebuilds is at the position
`fail_node_index` names (`Rebuilds`).

What servers do to a stripe is treated once for all actions: store and requests
*evolve* for a version v (`Evolves`) if a block is kept, dropped or replaced by that of
v, what is sent is of v, and the blocks of v that were on their way arrive or still
are. Executing a request, losing a block, a crash, and the end of a connection that
loses nothing in front of an older block are such steps (`ExecuteEvolves`,
`LossEvolves`, `CrashEvolves`, `BreakOffEvolves`), and they keep "of version v, or
about to be" (`EvolvesKeeps`). A step is *gentle* (`Gentle`) if it evolves for the
clean set's version as long as it leaves `clean` true and for `cur` as long as it
leaves `dirty` false; gentle steps keep the three consistency parts (`GentleClean`,
`GentleStripe`, `GentleReads`).

The lemma `DecodeIsBlock` (the exclusive or of the other blocks of a group is the
missing one, for parity and data alike) shows that what is written back is the block
the last set stored. All of this holds group by group: a group is sound or not as a
whole (`SoundFacts`), and a degraded get, wherever its blocks come from, writes to a
position of its own group only, so the unsound group does not enter the argument
for the others. Type correctness needs `SetProgress` as well, since the send loop
indexes by `sent`, and that a reader that is about to write back has a position to
write to (`Aimed`). `DamageIsLocal` has an invariant of its own, that every block
stored, in flight or held by a reader contains symbols of its group only.

**Refinement.** Two small invariants join `StripeInv`: sets are numbered as they
begin (`Numbered`), so that the version a write begins with is new, and a client
in an operation has no outcome yet (`NoOutcomeYet`), so that a set that ends
leaves the object's answers alone. A block tells the set that wrote it
(`BlockVersion`: no group is a parity of nothing), so the blocks of one version
are an object of exactly that version (`ObjectIs`), and a stripe of one version with
nothing on its way has no other blocks (`SettledStripe`). Then each action is taken to
its abstract step: `SetSend` to a part of a write, its end or its abandonment,
`Execute` to `Arrive`, or to `Lose` if the request is a delete, `GetFinish` to the
end of a read whose write-back restores the object (`RestoreMaps`) and whose answer is
the last version unless more than one block was missed (`GetAnswers`,
`JunkMissedMany`), `RepairFinish` to the end of a repair, losses, deletes and the end
of a client between operations to `Lose`; `ExecutedBefore` makes the end of a client
that reads the end of its read and nothing more. Requests of a multi-get, the answer of
a set and returning servers change nothing.

**Connection.** `AnswersCounted` is not inductive: how many answers may come
depends on what was asked. `PipeInv` adds that at most the first answer is a value
(the others of a multi-get were read with it), that the counter exceeds the
running operation's request by at most two, and that after a drain everything
still to come is the operation's own. `FailedServerLeftAlone` needs that from the
failure limit on, the time since the last attempt and `next_retry` add up to the
retry timeout (`BackOffInv`).

**Pool.** `OneOwner` and `NoneLost` need each other (a handle that is free and
held would be counted once), and that a closed pool has neither. `NoLostWakeup`
is inductive with them: release broadcasts when the pool was empty, and in every
other case the invariant says that nobody waits. `VersionMeansSettings` needs
that no handle is ahead of the pool's version and that, as long as no clone has
failed, every free handle has it.

### Only model-checked

- `OperationsEnd`, `WaitsEndUnlessOvertaken`, `ServerUsedAgain`: liveness under
  fairness is out of the prover's reach.
- The four properties that are violated (section 4).

## 6. What is not modelled, and the plan

What is left to prove: that `RackPlacement` justifies the positions of `LrcStripe` as
servers, which `BlocksApart` states and no module composes.

Not modelled, and why:

- `random_gen.py` and the drawing scripts: random placements and plots.
- Jerasure's field arithmetic: third party, byte-level matrix code; with one
  parity it is the exclusive or of `LrcStripe`, global parities are opaque and
  the code in this repository never decodes with them.
- The measurement driver `src/mytest.cc`, the data files and the second copy of
  Jerasure under `src/test_jerasure`.
- The rest of libmemcached (text protocol, UDP, SASL, the option parser, hash
  functions, distribution, the `clients/` programs): unmodified third-party code,
  by far the larger part of the repository, that the erasure code does not use.
- Fields read before anything sets them (`node2rack[]` before the first set, and
  `number_of_b` left at 1 by a write-back): listed as hazards without a property.
