----------------------------- MODULE LrcStripe -----------------------------
(***************************************************************************)
(* The life of one item: clients set, get, repair and delete the n blocks  *)
(* of its stripe, which live on n memcached servers that crash, restart,   *)
(* become unreachable and evict.                                           *)
(*                                                                         *)
(* One step is one request at one server, so that steps of other clients   *)
(* and failures come between any two requests of an operation, and the     *)
(* blocks a set has sent are executed in their own time.  Position p       *)
(* of the stripe stands for the server node2rack[p] (RackPlacement) and    *)
(* for the key whose suffix is p.                                          *)
(*                                                                         *)
(* A block is the set of the symbols whose exclusive or it is: a symbol    *)
(* <<v, p>> is what set number v computes for the data block or global     *)
(* parity at position p, and a local parity (a Vandermonde row of ones) is *)
(* the exclusive or of its group.  Junk is unspecified bytes.              *)
(***************************************************************************)
EXTENDS LrcCode, FiniteSets

CONSTANTS
    N, K, R,        \* the code: number_of_n, number_of_k, number_of_r
    B,              \* number_of_b
    Clients,        \* the memcached_st objects
    Core,           \* the network core server, which holds no block
    None,           \* no block
    Junk,           \* a block of unspecified bytes
    MaxSets,        \* bound: how many sets are begun
    MaxLosses,      \* bound: how many crashes, evictions and deletes happen
    MaxInFlight,    \* bound: how many requests of one client are in flight at a time
    MaxLate,        \* bound: how many late requests are in flight at a time
    MaxReaders      \* bound: how many clients read at a time

ASSUME CodeAssumption ==
    /\ N \in Nat /\ K \in Nat /\ R \in Nat
    /\ ValidCode(N, K, R)

ASSUME BoundAssumption ==
    /\ B \in Nat /\ MaxSets \in Nat /\ MaxLosses \in Nat
    /\ MaxInFlight \in Nat \ {0} /\ MaxLate \in Nat /\ MaxReaders \in Nat
    /\ Core \notin 0..N - 1
    /\ None \notin Clients

Index == 0..N - 1

Group(p) == GroupPositions(GroupOf(p, R), N, R)

LocalParity(p) == ParityPos(GroupOf(p, R), N, R)

Data == {DataPos(d, R) : d \in 0..K - 1}

\* What position p holds after set number v.
Covered == [p \in Index |-> IF p = LocalParity(p) THEN Group(p) \ {p} ELSE {p}]

Block(v, p) == {<<v, q>> : q \in Covered[p]}

Symbol == (1..MaxSets) \X Index

ASSUME ContentAssumption ==
    /\ None # Junk
    /\ \A b \in SUBSET Symbol : b \notin {None, Junk}
    /\ \A p \in Index : Block(0, p) \notin {None, Junk}

Content == (SUBSET Symbol) \cup {None, Junk}

\* A request to store a block, or to delete it (None), that a client sent on
\* the connection it uses, or that is late: its connection is dead, nobody
\* waits for an answer, and the server may still execute it.
Request == [by : Clients \cup {None}, pos : Index, block : Content]

VARIABLES
    \* servers
    store,      \* position -> the block its server has
    up,         \* position -> whether its server can be reached
    losses,     \* how many losses have happened
    flight,     \* the requests that were sent and are not executed
    \* clients
    pc,         \* what the client is doing
    ready,      \* the clients that have read rack.txt (rack_is_add)
    stale,      \* client -> the servers to which it has a dead connection
    failNode,   \* client -> fail_node_index, None if never assigned
    setVer,     \* client -> the version a running set writes
    sent,       \* client -> how many blocks a running set has sent
    taken,      \* client -> the servers whose connection took a running set's request
    todo,       \* client -> the positions requested and not answered yet
    buf,        \* client -> position -> the block it has read
    ret,        \* client -> the outcome of its last operation
    \* history
    ver,        \* how many sets have begun
    cur,        \* the version of the last set that sent all its blocks
    dirty,      \* the stripe may be a mixture of versions, or junk
    clean,      \* the running set is alone and has left no older block behind
    overlap     \* client -> its running operation overlaps a set

serverVars == <<store, up, losses, flight>>
historyVars == <<ver, cur, dirty, clean, overlap>>
setVars == <<setVer, sent, taken>>
readVars == <<todo, buf>>

vars == <<serverVars, pc, ready, stale, failNode, setVars, readVars, ret, historyVars>>

Nothing == [op |-> "none", rc |-> "none"]

NothingRead == [p \in Index |-> None]

Setting(c) == pc[c] = "set"
Reading(c) == pc[c] \in {"get", "parity", "repair"}

Init ==
    /\ store = [p \in Index |-> None]
    /\ up = [p \in Index |-> TRUE]
    /\ losses = 0
    /\ flight = {}
    /\ pc = [c \in Clients |-> "idle"]
    /\ ready \in SUBSET Clients             \* a client may have set other items
    /\ stale = [c \in Clients |-> {}]
    /\ failNode = [c \in Clients |-> None]
    /\ setVer = [c \in Clients |-> 0]
    /\ sent = [c \in Clients |-> 0]
    /\ taken = [c \in Clients |-> {}]
    /\ todo = [c \in Clients |-> {}]
    /\ buf = [c \in Clients |-> NothingRead]
    /\ ret = [c \in Clients |-> Nothing]
    /\ ver = 0 /\ cur = 0
    /\ dirty = FALSE /\ clean = FALSE
    /\ overlap = [c \in Clients |-> FALSE]

----------------------------------------------------------------------------
(***************************************************************************)
(* Connections.  A request reaches a server that is up (the drain at the   *)
(* start of every get, and of every crossing of the core, may have found   *)
(* out about a dead connection and closed it).  It goes unanswered if the  *)
(* server is down or the connection is dead, and on a dead connection the  *)
(* write may still seem to succeed.                                        *)
(***************************************************************************)
Reaches(c, p) == up[p]
Unanswered(c, p) == ~up[p] \/ p \in stale[c]
SwallowedBy(c, p) == p \in stale[c]

Forget(c, S) == stale' = [stale EXCEPT ![c] = @ \ S]

Message(c, p, block) == [by |-> c, pos |-> p, block |-> block]

\* Before a multi-get, and before every crossing of the core, a client reads
\* the answers of all servers, so that everything it sent has been executed.
\* A server that is too slow for that counts as one that is cut off.
Drained(c) == \A q \in flight : q.by # c

\* No block is on its way to a server.
Settled == \A q \in flight : q.block = None

Room(by, n) ==
    Cardinality({q \in flight : q.by = by}) + n <= IF by = None THEN MaxLate ELSE MaxInFlight

Send(by, p, block) ==
    /\ Room(by, 1)
    /\ flight' = flight \cup {Message(by, p, block)}

\* A write that gets no answer is lost, or late.
Gone(p, block) == UNCHANGED flight \/ Send(None, p, block)

\* A lost request leaves an older block behind.
LeavesOlder(q) == q.block # None /\ store[q.pos] \notin {None, q.block}

\* A connection ends: each of the requests Q on it is late, or lost.
BreakOff(Q, damage) ==
    \E late \in SUBSET Q :
        LET hurts == \E q \in Q \ late : LeavesOlder(q)
        IN  /\ Room(None, Cardinality(late))
            /\ flight' = (flight \ Q) \cup {Message(None, q.pos, q.block) : q \in late}
            /\ dirty' = (dirty \/ damage \/ hurts)
            /\ clean' = (clean /\ ~hurts)

\* A plausible slip: the next set goes on where a failed one stopped.
MutLeave(c) ==
    /\ setVer' = [setVer EXCEPT ![c] = 0]
    /\ UNCHANGED sent
    /\ taken' = [taken EXCEPT ![c] = {}]
    /\ todo' = [todo EXCEPT ![c] = {}]
    /\ buf' = [buf EXCEPT ![c] = NothingRead]
    /\ overlap' = [overlap EXCEPT ![c] = FALSE]

\* The local variables of an operation are gone when it ends.
Leave(c) ==
    /\ setVer' = [setVer EXCEPT ![c] = 0]
    /\ sent' = [sent EXCEPT ![c] = 0]
    /\ taken' = [taken EXCEPT ![c] = {}]
    /\ todo' = [todo EXCEPT ![c] = {}]
    /\ buf' = [buf EXCEPT ![c] = NothingRead]
    /\ overlap' = [overlap EXCEPT ![c] = FALSE]

Return(c, r) ==
    /\ pc' = [pc EXCEPT ![c] = "idle"]
    /\ ret' = [ret EXCEPT ![c] = r]
    /\ Leave(c)

\* Undefined behaviour that kills the process.
Abort(c) ==
    /\ pc' = [pc EXCEPT ![c] = "aborted"]
    /\ ret' = [ret EXCEPT ![c] = Nothing]
    /\ Leave(c)

----------------------------------------------------------------------------
(***************************************************************************)
(* Set: memcached_send, memcached_lrc_send_binary.                         *)
(*                                                                         *)
(* The crossings of the core before the first block change no block and    *)
(* leave no answer unread.  Then a block is handed to every connection,    *)
(* and one of the n answers is waited for.                                 *)
(***************************************************************************)
SetBegin(c) ==
    /\ pc[c] = "idle" /\ ver < MaxSets
    /\ Drained(c)
    /\ ver' = ver + 1
    /\ pc' = [pc EXCEPT ![c] = "set"]
    /\ ret' = [ret EXCEPT ![c] = Nothing]
    /\ setVer' = [setVer EXCEPT ![c] = ver + 1]
    /\ clean' = (Settled /\ \A d \in Clients \ {c} : ~Setting(d))
    /\ overlap' = [d \in Clients |-> overlap[d] \/ (d # c /\ Reading(d))]
    /\ UNCHANGED <<serverVars, ready, stale, failNode, sent, taken, readVars, cur, dirty>>

\* Before the first set of a client fail_node_index and node2rack[] are what
\* the allocator left there: the lookup of the server may follow a wild pointer.
SetCrash(c) ==
    /\ pc[c] = "idle" /\ c \notin ready
    /\ Abort(c)
    /\ UNCHANGED <<serverVars, ready, stale, failNode, ver, cur, dirty, clean>>

\* memcached_vdo has taken a block; after the last one all are on their way.
SetAdvance(c) ==
    /\ sent' = [sent EXCEPT ![c] = @ + 1]
    /\ IF sent[c] + 1 = N
       THEN /\ pc' = [pc EXCEPT ![c] = "answer"]
            /\ cur' = setVer[c]
            /\ dirty' = ~clean'
       ELSE UNCHANGED <<pc, cur, dirty>>
    /\ UNCHANGED <<ret, ready, setVer, readVars, overlap>>

SetSend(c) ==
    LET p == sent[c]
    IN  /\ Setting(c)
        /\ \/ /\ Reaches(c, p)
              /\ Send(c, p, Block(setVer[c], p))
              /\ taken' = [taken EXCEPT ![c] = @ \cup {p}]
              /\ UNCHANGED clean
              /\ SetAdvance(c)
           \/ /\ SwallowedBy(c, p)
              /\ Gone(p, Block(setVer[c], p))
              /\ clean' = (clean /\ (store[p] = None \/ flight' # flight))
              /\ SetAdvance(c)
              /\ UNCHANGED taken
           \/ /\ Unanswered(c, p)          \* early return, nothing is undone
              /\ Return(c, [op |-> "set", rc |-> "ERROR"])
              /\ dirty' = (dirty \/ p > 0)
              /\ ready' = ready \cup {c}
              /\ UNCHANGED <<flight, cur, clean>>
        /\ Forget(c, {p})
        /\ UNCHANGED <<store, up, losses, failNode, ver>>

\* The server whose answer becomes the return code was looked up before
\* anything else: node2rack[fail_node_index], where node2rack is filled in by
\* the client's first set and fail_node_index by its first repair.  Before
\* that it is any server.
AnswersFrom(c) ==
    IF c \in ready /\ failNode[c] # None THEN {failNode[c]} ELSE Index \cup {Core}

\* return memcached_response(server, ...): one answer of the n, the others are
\* left unread.  A server that was sent nothing, or is gone, fails the set.
SetAnswer(c) ==
    /\ pc[c] = "answer"
    /\ \E s \in AnswersFrom(c) :
          /\ \/ /\ s \in taken[c] /\ \A q \in flight : q.by = c => q.pos # s
                /\ Return(c, [op |-> "set", rc |-> "SUCCESS", stored |-> taken[c]])
             \/ /\ s \notin taken[c] \/ s \in stale[c]
                /\ Return(c, [op |-> "set", rc |-> "ERROR"])
          /\ Forget(c, {s})
    /\ ready' = ready \cup {c}
    /\ UNCHANGED <<serverVars, failNode, ver, cur, dirty, clean>>

----------------------------------------------------------------------------
(***************************************************************************)
(* Requests of a multi-get: memcached_mget and memcached_fetch_result.     *)
(* The positions are requested together; every server answers in its own   *)
(* time.  What is not answered stays None.                                 *)
(***************************************************************************)
StartReads(c, to, S) ==
    /\ pc' = [pc EXCEPT ![c] = to]
    /\ todo' = [todo EXCEPT ![c] = S]

\* A plausible slip: a server that does not answer is waited for.
MutFetch(c, p) ==
    /\ Reading(c) /\ p \in todo[c]
    /\ todo' = [todo EXCEPT ![c] = @ \ {p}]
    /\ Reaches(c, p) /\ buf' = [buf EXCEPT ![c][p] = store[p]]
    /\ Forget(c, {p})
    /\ UNCHANGED <<serverVars, pc, ready, failNode, setVars, ret, historyVars>>

Fetch(c, p) ==
    /\ Reading(c) /\ p \in todo[c]
    /\ todo' = [todo EXCEPT ![c] = @ \ {p}]
    /\ \/ Reaches(c, p) /\ buf' = [buf EXCEPT ![c][p] = store[p]]
       \/ Unanswered(c, p) /\ buf' = [buf EXCEPT ![c][p] = None]
    /\ Forget(c, {p})
    /\ UNCHANGED <<serverVars, pc, ready, failNode, setVars, ret, historyVars>>

\* The multi-get itself fails, which takes a server that does not answer.
MgetFails(c, S) == \E p \in S : Unanswered(c, p)

\* A write of one block of unspecified origin: memcached_set with number_of_b
\* cleared, to node2rack[fail_node_index].  The client waits for its answer,
\* having read all others, and does not look at it.
WriteBack(c, block) ==
    LET p == failNode[c]
    IN  /\ \/ Reaches(c, p) /\ store' = [store EXCEPT ![p] = block] /\ UNCHANGED flight
           \/ Unanswered(c, p) /\ UNCHANGED store /\ Gone(p, block)
        /\ Forget(c, {p})
        /\ dirty' = (dirty \/ overlap[c] \/ block = Junk)
        /\ clean' = (clean /\ ~overlap[c])

\* A plausible slip: a block that was not read counts as zeros.
MutDecode(f, S) ==
    {x \in UNION {f[q] : q \in {q \in S : f[q] \notin {None, Junk}}} :
        Cardinality({q \in S : f[q] \notin {None, Junk} /\ x \in f[q]}) % 2 = 1}

\* Erasure decoding: the exclusive or of the blocks at S; a block that was not
\* read is a pointer that was never set.
Decode(f, S) ==
    IF \E q \in S : q \notin Index \/ f[q] \in {None, Junk}
    THEN Junk
    ELSE {x \in UNION {f[q] : q \in S} : Cardinality({q \in S : x \in f[q]}) % 2 = 1}

BeginRead(c) ==
    /\ pc[c] = "idle" /\ c \in ready
    /\ Drained(c) /\ Cardinality({d \in Clients : Reading(d)}) < MaxReaders
    /\ ret' = [ret EXCEPT ![c] = Nothing]
    /\ overlap' = [overlap EXCEPT ![c] = ~Settled \/ \E d \in Clients : Setting(d)]
    /\ UNCHANGED <<serverVars, ready, stale, setVars, buf, ver, cur, dirty, clean>>

\* The error path of get and of repair returns NULL, after deleting pointers
\* that were never set.
ReadError(c, op, S) ==
    /\ pc[c] = "idle" /\ c \in ready
    /\ Drained(c)
    /\ MgetFails(c, S)
    /\ \/ Return(c, [op |-> op, rc |-> "ERROR"])
       \/ Abort(c)
    /\ Forget(c, S)
    /\ UNCHANGED <<serverVars, ready, failNode, ver, cur, dirty, clean>>

----------------------------------------------------------------------------
(***************************************************************************)
(* Get: memcached_get_lrc.                                                 *)
(***************************************************************************)
GetBegin(c) ==
    /\ BeginRead(c)
    /\ StartReads(c, "get", Data)
    /\ UNCHANGED failNode

GetError(c) == ReadError(c, "get", Data)

\* A plausible slip: the last data block is not looked at.
MutMissing(c) == {d \in 0..K - 2 : buf[c][DataPos(d, R)] = None}

Missing(c) == {d \in 0..K - 1 : buf[c][DataPos(d, R)] = None}

\* fail_index: the last missing data block.
FailIndex(c) == CHOOSE d \in Missing(c) : \A e \in Missing(c) : e <= d

\* The outcome of a get: block by block, the version the stripe should have
\* (0 if nothing can be said of it), and how many blocks could not be read.
GetResult(c, val) ==
    [op |-> "get", rc |-> "SUCCESS", val |-> val,
     exp |-> IF dirty \/ overlap[c] THEN 0 ELSE cur,
     lost |-> IF Missing(c) = {} THEN 0
              ELSE Cardinality({p \in (Data \cup DecodeSources(FailIndex(c), N, K, R)) \cap Index :
                                    buf[c][p] = None})]

GetComplete(c) ==
    /\ pc[c] = "get" /\ todo[c] = {} /\ Missing(c) = {}
    /\ Return(c, GetResult(c, [d \in 0..K - 1 |-> buf[c][DataPos(d, R)]]))
    /\ UNCHANGED <<serverVars, ready, stale, failNode, ver, cur, dirty, clean>>

\* A plausible slip: fail_node_index is the data block's number.
MutGetDegraded(c) ==
    /\ pc[c] = "get" /\ todo[c] = {} /\ Missing(c) # {}
    /\ LET d == FailIndex(c)
           S == FetchPositions(d, N, K, R) \cap Index
       IN  /\ failNode' = [failNode EXCEPT ![c] = d]
           /\ StartReads(c, "parity", S)
    /\ UNCHANGED <<serverVars, ready, stale, setVars, buf, ret, historyVars>>

\* A block is missing: ask for the rest of its group.  With a second missing
\* block the crossing of the core reads through a pointer that was never set.
\* If the multi-get fails the get goes on without what it asked for.
GetDegraded(c) ==
    /\ pc[c] = "get" /\ todo[c] = {} /\ Missing(c) # {}
    /\ LET d == FailIndex(c)
           S == FetchPositions(d, N, K, R) \cap Index
       IN  /\ failNode' = [failNode EXCEPT ![c] = DataPos(d, R)]
           /\ \/ /\ StartReads(c, "parity", S)
                 /\ UNCHANGED <<ret, stale, setVars, buf, overlap>>
              \/ /\ MgetFails(c, S)
                 /\ StartReads(c, "parity", {})
                 /\ Forget(c, S)
                 /\ UNCHANGED <<ret, setVars, buf, overlap>>
              \/ Missing(c) # {d} /\ Abort(c) /\ UNCHANGED stale
    /\ UNCHANGED <<serverVars, ready, ver, cur, dirty, clean>>

GetFinish(c) ==
    /\ pc[c] = "parity" /\ todo[c] = {}
    /\ LET d == FailIndex(c)
           block == Decode(buf[c], DecodeSources(d, N, K, R))
           val == [e \in 0..K - 1 |->
                     IF e = d THEN block
                     ELSE IF e \in Missing(c) THEN Junk ELSE buf[c][DataPos(e, R)]]
       IN  \/ WriteBack(c, block) /\ Return(c, GetResult(c, val))
           \/ block = Junk /\ Abort(c) /\ UNCHANGED <<store, flight, stale, dirty, clean>>
    /\ UNCHANGED <<up, losses, ready, failNode, ver, cur>>

----------------------------------------------------------------------------
(***************************************************************************)
(* Repair: memcached_repair, memcached_repair_by_index, for position f.    *)
(* fail_node_index is set when the reads are over; nobody looks at it in   *)
(* between.                                                                *)
(***************************************************************************)
RepairBegin(c, f) ==
    /\ BeginRead(c)
    /\ StartReads(c, "repair", Group(f))
    /\ failNode' = [failNode EXCEPT ![c] = f]

RepairError(c, f) == ReadError(c, "repair", Group(f))

RepairFinish(c) ==
    /\ pc[c] = "repair" /\ todo[c] = {}
    /\ LET f == failNode[c]
           block == Decode(buf[c], Group(f) \ {f})
       IN  \/ WriteBack(c, block) /\ Return(c, [op |-> "repair", rc |-> "SUCCESS"])
           \/ block = Junk /\ Abort(c) /\ UNCHANGED <<store, flight, stale, dirty, clean>>
    /\ UNCHANGED <<up, losses, ready, failNode, ver, cur>>

----------------------------------------------------------------------------
(***************************************************************************)
(* Delete of one block: memcached_delete_by_key_lrc.  It waits for the     *)
(* oldest answer of that server nobody has read.  After a set that is not  *)
(* its own, so nothing is said of its return code here, and it may be      *)
(* executed after it has returned.                                         *)
(***************************************************************************)
Delete(c, p) ==
    /\ pc[c] = "idle" /\ c \in ready
    /\ losses < MaxLosses
    /\ losses' = losses + 1
    /\ \A q \in flight : q.by = c => q.pos # p
    /\ \/ Reaches(c, p) /\ store' = [store EXCEPT ![p] = None] /\ UNCHANGED flight
       \/ Reaches(c, p) /\ UNCHANGED store /\ Send(c, p, None)
       \/ Unanswered(c, p) /\ UNCHANGED store /\ Gone(p, None)
    /\ Return(c, [op |-> "delete", rc |-> "any"])
    /\ Forget(c, {p})
    /\ UNCHANGED <<up, ready, failNode, ver, cur, dirty, clean>>

----------------------------------------------------------------------------
(***************************************************************************)
(* Environment (memcached servers and the network are not part of src/):   *)
(* a server executes a request; it crashes and loses its memory, or is cut *)
(* off and keeps it; it comes back; it evicts a block; a client process    *)
(* dies.                                                                   *)
(***************************************************************************)
\* Several late requests may look alike.
Execute(q) ==
    /\ up[q.pos]
    /\ store' = [store EXCEPT ![q.pos] = q.block]
    /\ \/ flight' = flight \ {q}
       \/ q.by = None /\ UNCHANGED flight
    /\ UNCHANGED <<up, losses, pc, ready, stale, failNode, setVars, readVars, ret, historyVars>>

ServerFails(p) ==
    LET Q == {q \in flight : q.pos = p}
        live == {q \in Q : q.by # None}
    IN  /\ up[p] /\ losses < MaxLosses
        /\ up' = [up EXCEPT ![p] = FALSE]
        /\ \/ /\ store' = [store EXCEPT ![p] = None]
              /\ flight' = flight \ Q
              /\ UNCHANGED <<dirty, clean>>
           \/ UNCHANGED store /\ BreakOff(live, FALSE)
        /\ taken' = [c \in Clients |-> IF \E q \in live : q.by = c THEN taken[c] \ {p} ELSE taken[c]]
        /\ stale' = [c \in Clients |-> stale[c] \cup {p}]
        /\ losses' = losses + 1
        /\ UNCHANGED <<pc, ready, failNode, setVer, sent, readVars, ret, ver, cur, overlap>>

ServerReturns(p) ==
    /\ ~up[p]
    /\ up' = [up EXCEPT ![p] = TRUE]
    /\ UNCHANGED <<store, losses, flight, pc, ready, stale, failNode, setVars, readVars, ret, historyVars>>

Evict(p) ==
    /\ store[p] # None /\ losses < MaxLosses
    /\ store' = [store EXCEPT ![p] = None]
    /\ losses' = losses + 1
    /\ UNCHANGED <<up, flight, pc, ready, stale, failNode, setVars, readVars, ret, historyVars>>

ClientDies(c) ==
    /\ pc[c] # "aborted" /\ (pc[c] # "idle" \/ ~Drained(c))
    /\ Abort(c)
    /\ BreakOff({q \in flight : q.by = c}, Setting(c) /\ sent[c] > 0)
    /\ UNCHANGED <<store, up, losses, ready, stale, failNode, ver, cur>>

----------------------------------------------------------------------------
Continue(c) ==
    \/ SetSend(c) \/ SetAnswer(c)
    \/ \E p \in Index : Fetch(c, p)
    \/ GetComplete(c) \/ GetDegraded(c) \/ GetFinish(c)
    \/ RepairFinish(c)

Start(c) ==
    \/ SetBegin(c) \/ SetCrash(c) \/ GetBegin(c) \/ GetError(c)
    \/ \E p \in Index : RepairBegin(c, p) \/ RepairError(c, p) \/ Delete(c, p)

Environment ==
    \/ \E q \in flight : Execute(q)
    \/ \E p \in Index : ServerFails(p) \/ ServerReturns(p) \/ Evict(p)
    \/ \E c \in Clients : ClientDies(c)

Next == (\E c \in Clients : Start(c) \/ Continue(c)) \/ Environment

Spec == Init /\ [][Next]_vars

\* A client thread that is in an operation keeps running, and a server executes
\* what it is sent over a connection that stays up.
Served(c) == \E q \in flight : q.by = c /\ Execute(q)

FairSpec == Spec /\ \A c \in Clients : WF_vars(Continue(c)) /\ WF_vars(Served(c))

----------------------------------------------------------------------------
\* What an operation reports: the blocks a set has stored, what a get returns.
Outcome ==
    [op : {"none", "set", "get", "repair", "delete"},
     rc : {"none", "any", "SUCCESS", "ERROR"}]
    \cup [op : {"set"}, rc : {"SUCCESS"}, stored : SUBSET Index]
    \cup [op : {"get"}, rc : {"SUCCESS"}, val : [0..K - 1 -> Content],
          exp : 0..MaxSets, lost : Nat]

(***************************************************************************)
(* Type invariant.                                                         *)
(***************************************************************************)
TypeOK ==
    /\ store \in [Index -> Content]
    /\ up \in [Index -> BOOLEAN]
    /\ losses \in 0..MaxLosses
    /\ flight \subseteq Request
    /\ pc \in [Clients -> {"idle", "set", "answer", "get", "parity", "repair", "aborted"}]
    /\ ready \subseteq Clients
    /\ stale \in [Clients -> SUBSET Index]
    /\ failNode \in [Clients -> Index \cup {None}]
    /\ setVer \in [Clients -> 0..MaxSets]
    /\ sent \in [Clients -> 0..N]
    /\ taken \in [Clients -> SUBSET Index]
    /\ todo \in [Clients -> SUBSET Index]
    /\ buf \in [Clients -> [Index -> Content]]
    /\ ret \in [Clients -> Outcome]
    /\ ver \in 0..MaxSets /\ cur \in 0..MaxSets
    /\ dirty \in BOOLEAN /\ clean \in BOOLEAN
    /\ overlap \in [Clients -> BOOLEAN]

(***************************************************************************)
(* The positions of the groups in which a degraded get decodes from the    *)
(* right blocks: all of them if the data blocks fill their groups, all but *)
(* the last group with data otherwise, where the fetch starts at the wrong *)
(* slot (LrcCode!ToFetch, FetchPos).                                       *)
(***************************************************************************)
Sound == {p \in Index : K % R = 0 \/ GroupOf(p, R) # (K - 1) \div R}

(***************************************************************************)
(* The stripe is, or is about to be, of version v: the block of that       *)
(* version is at its position, or there is none, or it is on its way, and  *)
(* no other block is on its way.                                           *)
(***************************************************************************)
Holds(v, p) ==
    \/ store[p] \in {None, Block(v, p)}
    \/ \E q \in flight : q.pos = p /\ q.block = Block(v, p)

InFlightAre(v) == \A q \in flight : q.pos \in Sound => q.block \in {None, Block(v, q.pos)}

StripeIs(v) == (\A p \in Sound : Holds(v, p)) /\ InFlightAre(v)

(***************************************************************************)
(* Nothing a get or a repair writes back damages the stripe: as long as no *)
(* set was cut short, overtaken or swallowed and no unspecified bytes were *)
(* written, every block that is there is the block the last set stored at  *)
(* that position, or that one is on its way, and nothing else is on its    *)
(* way: whatever was lost, read, rebuilt and deleted since, and in which   *)
(* order the servers execute what they were sent.  A group that is decoded *)
(* wrongly does not spoil the others.                                      *)
(***************************************************************************)
StripeConsistent ==
    (~dirty /\ \A c \in Clients : ~Setting(c)) => StripeIs(cur)

(***************************************************************************)
(* A get that reports success and missed at most one block on the way      *)
(* returns the value of the last set: memcached_get(3), "The object will   *)
(* be returned upon success".                                              *)
(***************************************************************************)
GetReturnsLastSet ==
    \A c \in Clients :
        LET g == ret[c]
        IN  (g.op = "get" /\ g.rc = "SUCCESS" /\ g.exp > 0 /\ g.lost <= 1) =>
                \A d \in 0..K - 1 : g.val[d] = Block(g.exp, DataPos(d, R))

(***************************************************************************)
(* Whatever the code, it returns the last set's blocks of all groups but   *)
(* the one it decodes wrongly, also when that is where a block is missing. *)
(***************************************************************************)
SoundBlocksReturned ==
    \A c \in Clients :
        LET g == ret[c]
        IN  (g.op = "get" /\ g.rc = "SUCCESS" /\ g.exp > 0 /\ g.lost <= 1) =>
                \A d \in 0..K - 1 :
                    DataPos(d, R) \in Sound => g.val[d] = Block(g.exp, DataPos(d, R))

(***************************************************************************)
(* The inductive invariant behind the properties above, for every code.    *)
(***************************************************************************)
\* A set that runs has a version and a block left to send; the next one starts
\* with the first block.
SetProgress ==
    \A c \in Clients :
        /\ Setting(c) => sent[c] < N /\ setVer[c] \in 1..MaxSets
        /\ pc[c] \notin {"set", "answer"} => sent[c] = 0

\* Everything a client sent before it reads, or sends again, was executed.
ExecutedBefore ==
    \A c \in Clients : (Reading(c) \/ (Setting(c) /\ sent[c] = 0)) => Drained(c)

\* Nobody reads and sets at the same time without knowing (overlap), and what
\* a client has read is gone when it is not reading.
ReadersKnow ==
    \A c \in Clients :
        /\ Reading(c) => \A d \in Clients : Setting(d) => overlap[c]
        /\ ~Reading(c) => buf[c] = NothingRead

\* A clean set is alone, what it has passed is its own or nothing, and nothing
\* of another version is on its way.
CleanSet ==
    clean => \A c \in Clients : Setting(c) =>
        /\ \A d \in Clients : Setting(d) => d = c
        /\ \A p \in Sound : p < sent[c] => Holds(setVer[c], p)
        /\ InFlightAre(setVer[c])

\* Until a set sends its first block the stripe is what the last one left.
StoreConsistent ==
    (~dirty /\ \A c \in Clients : Setting(c) => sent[c] = 0) => StripeIs(cur)

\* An undisturbed reader meets nothing but the last set's blocks.
ReadsConsistent ==
    \A c \in Clients :
        (Reading(c) /\ ~overlap[c] /\ ~dirty) =>
            \A p \in Sound : {store[p], buf[c][p]} \subseteq {None, Block(cur, p)}

\* The block a get or a repair rebuilds is the one it will write back.
Rebuilds ==
    \A c \in Clients :
        /\ pc[c] = "parity" =>
              /\ Missing(c) # {}
              /\ failNode[c] = DataPos(FailIndex(c), R)
              /\ todo[c] \subseteq FetchPositions(FailIndex(c), N, K, R)
        /\ pc[c] = "repair" => failNode[c] \in Index

(***************************************************************************)
(* The stripe, the sets that are writing it and the clients that are       *)
(* reading it always fit together in this way, in every interleaving.      *)
(***************************************************************************)
StripeInv ==
    /\ SetProgress /\ ExecutedBefore /\ ReadersKnow /\ CleanSet
    /\ StoreConsistent /\ ReadsConsistent /\ Rebuilds

(***************************************************************************)
(* Whatever clients do to each other, with sets cut short, overtaken or    *)
(* repaired from half-written groups: a block that is stored, or on its    *)
(* way, never contains anything of another local group, so damage stays    *)
(* inside its group (except for the group that a degraded get decodes with *)
(* foreign blocks).                                                        *)
(***************************************************************************)
DamageStaysInGroup ==
    \A p \in Sound :
        \A b \in {store[p]} \cup {q.block : q \in {q \in flight : q.pos = p}} :
            b \notin {None, Junk} => b \subseteq (1..MaxSets) \X Group(p)

(***************************************************************************)
(* Every operation a client begins ends, whichever servers are down: it    *)
(* returns, or the process is gone.                                        *)
(***************************************************************************)
OperationsEnd ==
    \A c \in Clients : (Setting(c) \/ Reading(c) \/ pc[c] = "answer")
                            ~> (pc[c] \in {"idle", "aborted"})

(***************************************************************************)
(* number_of_b is the "Maximum number of errors that can be tolerated"     *)
(* (types/behavior.h): a get that missed no more blocks than that and      *)
(* reports success returns the value of the last set.                      *)
(***************************************************************************)
GetToleratesB ==
    \A c \in Clients :
        LET g == ret[c]
        IN  (g.op = "get" /\ g.rc = "SUCCESS" /\ g.exp > 0 /\ g.lost <= B) =>
                \A d \in 0..K - 1 : g.val[d] = Block(g.exp, DataPos(d, R))

(***************************************************************************)
(* A set that returns MEMCACHED_SUCCESS has stored the object: the servers *)
(* of all n blocks executed the request, or have it on a connection that   *)
(* works.                                                                  *)
(***************************************************************************)
SetSuccessMeansStored ==
    \A c \in Clients :
        (ret[c].op = "set" /\ ret[c].rc = "SUCCESS") => ret[c].stored = Index
============================================================================
