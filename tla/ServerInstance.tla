--------------------------- MODULE ServerInstance ---------------------------
(***************************************************************************)
(* A client's view of one server (memcached_instance_st): its connection,  *)
(* the answers on it that nobody has read yet, and the back-off after      *)
(* failures.  Binary protocol, blocking, as the erasure code uses it.      *)
(*                                                                         *)
(* The server executes requests in order and answers each.  An answer is   *)
(* kept with what it answers and whether the operation that is running     *)
(* asked for it.  Times are relative: next_retry is the seconds left until *)
(* it, -1 once it has passed.  Of query_id only matters whether a failure  *)
(* was already counted in this query, of a failure counter whether it has  *)
(* reached its limit, where it stops.                                      *)
(***************************************************************************)
EXTENDS Integers, Sequences, FiniteSets

CONSTANTS
    RetryTimeout,       \* MEMCACHED_BEHAVIOR_RETRY_TIMEOUT
    TimeoutLimit,       \* MEMCACHED_BEHAVIOR_SERVER_TIMEOUT_LIMIT
    FailureLimit,       \* MEMCACHED_BEHAVIOR_SERVER_FAILURE_LIMIT
    DeadTimeout         \* MEMCACHED_BEHAVIOR_DEAD_TIMEOUT

ASSUME LimitAssumption ==
    /\ RetryTimeout \in Nat /\ TimeoutLimit \in Nat
    /\ FailureLimit \in Nat \ {0} /\ DeadTimeout \in Nat

VARIABLES
    up,         \* the server can be reached
    eject,      \* auto_eject_hosts
    inst,       \* the memcached_instance_st
    pipe,       \* the answers sent to the client on this connection, unread
    pc,         \* what the client is doing at this server
    op,         \* the operation that is running, or the last one
    asked,      \* history: what that operation found and got
    idle        \* history: seconds since a connection attempt failed

vars == <<up, eject, inst, pipe, pc, op, asked, idle>>

Never == -2     \* next_retry == 0
Passed == -1    \* next_retry < now

Fresh == [fd |-> "none", state |-> "NEW", fails |-> 0, timeouts |-> 0,
          failCounted |-> FALSE, timeoutCounted |-> FALSE,
          retry |-> Never, count |-> 0]

Init ==
    /\ up = TRUE
    /\ eject \in BOOLEAN
    /\ inst = Fresh
    /\ pipe = <<>>
    /\ pc = "idle" /\ op = "none"
    /\ asked = [unread |-> FALSE, answer |-> "none", own |-> TRUE, early |-> FALSE]
    /\ idle = Never

----------------------------------------------------------------------------
(***************************************************************************)
(* Closing: memcached_quit_server(instance, true), memcached_io_reset.     *)
(***************************************************************************)
\* close_socket
CloseSocket(i) == [i EXCEPT !.fd = "none", !.state = "NEW", !.count = 0]

UpTo(limit, n) == IF n > limit THEN limit ELSE n

\* memcached_mark_server_for_timeout
MarkForTimeout(i) ==
    LET n == IF i.timeoutCounted THEN i.timeouts ELSE UpTo(TimeoutLimit, i.timeouts + 1)
    IN  IF i.state = "IN_TIMEOUT" THEN i
        ELSE IF n < TimeoutLimit THEN [i EXCEPT !.timeouts = n, !.timeoutCounted = TRUE]
        ELSE [i EXCEPT !.timeouts = n, !.timeoutCounted = TRUE,
                       !.retry = RetryTimeout, !.state = "IN_TIMEOUT",
                       !.fails = IF i.failCounted THEN @ ELSE UpTo(FailureLimit, @ + 1),
                       !.failCounted = TRUE]

\* mark_server_as_clean, after network_connect
Connected(i) == [i EXCEPT !.fd = "ok", !.state = "CONNECTED", !.fails = 0, !.timeouts = 0, !.retry = Never]

----------------------------------------------------------------------------
(***************************************************************************)
(* backoff_handling: may a connection be tried?                            *)
(***************************************************************************)
\* A plausible slip: the two times are compared the wrong way round.
MutRetryDue(i) == i.retry > 0

\* next_retry < curr_time
RetryDue(i) == i.retry \in {Passed, Never}

\* A plausible slip: reaching server_failure_limit has no effect.
MutBackedOff(i) == i

\* A server that failed too often goes back into timeout.
BackedOff(i) ==
    IF i.fails < FailureLimit THEN i
    ELSE [i EXCEPT !.state = "IN_TIMEOUT", !.retry = IF @ = Never THEN Passed ELSE @]

MarkedDead(i) == eject /\ i.fails >= FailureLimit

MayTry(i) == ~MarkedDead(i) /\ (BackedOff(i).state = "IN_TIMEOUT" => RetryDue(BackedOff(i)))

\* The instance when the connection is tried.
Retrying(i) ==
    LET b == BackedOff(i)
    IN  IF b.state = "IN_TIMEOUT" THEN [b EXCEPT !.state = "NEW", !.timeouts = 0] ELSE b

\* The instance when it is not.
Disabled(i) ==
    IF ~MarkedDead(i) THEN BackedOff(i)
    ELSE IF DeadTimeout = 0 THEN i
    ELSE [i EXCEPT !.retry = DeadTimeout, !.fails = FailureLimit - 1]

\* memcached_connect from instance i: there is a connection, it is not tried,
\* it is tried and succeeds, or it is tried and fails.
NoConnection(i) == i.fd = "none"
Tries(i) == NoConnection(i) /\ MayTry(i)
Reached(i) == IF NoConnection(i) THEN Connected(Retrying(i)) ELSE i
Unreached(i) == IF MayTry(i) THEN MarkForTimeout(Retrying(i)) ELSE Disabled(i)
ConnectOk(i) == ~NoConnection(i) \/ (MayTry(i) /\ up)
ConnectFails(i) == NoConnection(i) /\ ~(MayTry(i) /\ up)

\* History of the attempts: whether one came before retry_timeout had passed.
Attempt(i) ==
    /\ asked' = [asked EXCEPT !.early = Tries(i) /\ idle # Never /\ idle <= RetryTimeout]
    /\ idle' = IF ~Tries(i) THEN idle ELSE IF up THEN Never ELSE 0

----------------------------------------------------------------------------
(***************************************************************************)
(* Reading: memcached_response, of one answer.  cursor_active_ counts the  *)
(* answers to come, the values of a quiet multi-get not among them.        *)
(***************************************************************************)
Finals(answers) == Cardinality({j \in DOMAIN answers : answers[j].kind # "value"})

\* A plausible slip: the value of a quiet get is counted as an answer.
MutReadOne(i) == [i EXCEPT !.count = @ - 1]

ReadOne(i) == [i EXCEPT !.count = IF Head(pipe).kind = "value" THEN @ ELSE @ - 1]

\* A plausible slip: a timeout is not fatal, the connection is kept.
MutReadError(i) == [i EXCEPT !.count = @ - 1]

\* A read that times out or finds the connection closed is fatal, and the
\* connection goes, with whatever arrives on it later.
ReadError(i) == CloseSocket(i)

KeptOnError == IF ReadError(inst).fd = "none" THEN <<>> ELSE pipe

\* The running operation takes the first answer as its own.
TakeAnswer ==
    /\ pipe # <<>>
    /\ inst' = ReadOne(inst)
    /\ pipe' = Tail(pipe)
    /\ asked' = [asked EXCEPT !.answer = Head(pipe).kind, !.own = Head(pipe).own]

NoAnswer ==
    /\ inst' = ReadError(inst)
    /\ pipe' = KeptOnError
    /\ UNCHANGED asked

----------------------------------------------------------------------------
(***************************************************************************)
(* Operations.  initialize_query starts a new query.                       *)
(***************************************************************************)
NewQuery(i) == [i EXCEPT !.failCounted = FALSE, !.timeoutCounted = FALSE]

Begin(o, step) ==
    /\ pc = "idle"
    /\ pc' = step /\ op' = o
    /\ inst' = NewQuery(inst)
    /\ pipe' = [j \in DOMAIN pipe |-> [pipe[j] EXCEPT !.own = FALSE]]
    /\ asked' = [unread |-> inst.count > 0, answer |-> "none", own |-> TRUE, early |-> FALSE]
    /\ UNCHANGED <<up, eject, idle>>

\* A plausible slip: a set does not cross the core first.
MutFirstStep(o) == IF o = "get" THEN "drain" ELSE "send"

\* A multi-get drains every server first, and so does a set of the erasure code,
\* which gets a block from the core before it sends one.  A delete and a set of
\* one block do not.
FirstStep(o) == IF o \in {"get", "set"} THEN "drain" ELSE "send"

Start == \E o \in {"get", "set", "put", "delete"} : Begin(o, FirstStep(o))

\* while (instance->response_count()) memcached_response(...)
Drain ==
    /\ pc = "drain"
    /\ \/ /\ inst.count = 0
          /\ pc' = "send"
          /\ UNCHANGED <<inst, pipe, asked>>
       \/ /\ inst.count > 0 /\ pipe # <<>>
          /\ inst' = ReadOne(inst) /\ pipe' = Tail(pipe)
          /\ UNCHANGED <<pc, asked>>
       \/ inst.count > 0 /\ NoAnswer /\ UNCHANGED pc
    /\ UNCHANGED <<up, eject, op, idle>>

\* memcached_purge, while a large request is written: with two or more answers
\* unread all but one are read.  After an error the write has no connection.
Purge ==
    /\ pc = "send" /\ inst.fd # "none" /\ inst.count > 1
    /\ \/ /\ Len(pipe) >= inst.count - 1
          /\ inst' = [inst EXCEPT !.count = @ - Finals(SubSeq(pipe, 1, @ - 1))]
          /\ pipe' = SubSeq(pipe, inst.count, Len(pipe))
          /\ UNCHANGED pc
       \/ inst' = CloseSocket(inst) /\ pipe' = <<>> /\ pc' = "idle"
    /\ UNCHANGED <<up, eject, op, asked, idle>>

Answer(kind) == [kind |-> kind, own |-> TRUE]

\* The answers of the server: a multi-get has a value, or none, and a noop; a
\* get of one key (from the core) and everything else one answer.
Answers(o) ==
    IF o = "get"
    THEN {<<Answer("value"), Answer("noop")>>, <<Answer("noop")>>, <<Answer("get")>>}
    ELSE {<<Answer(o)>>}

\* memcached_vdo: the request is written and counted.  On a dead connection the
\* write may still succeed.
SendOk ==
    /\ pc = "send" /\ ConnectOk(inst)
    /\ \E a \in Answers(op) :
          LET i == Reached(inst)
          IN  /\ inst' = [i EXCEPT !.count = IF op = "get" THEN 1 ELSE @ + 1]
              /\ pipe' = IF i.fd = "ok" THEN pipe \o a ELSE pipe
    /\ \/ pc' = "read"
       \/ op = "set" /\ pc' = "idle"      \* another server's answer is read
    /\ Attempt(inst)
    /\ UNCHANGED <<up, eject, op>>

\* The connect fails.  A get leaves the instance as it is, everything else
\* calls memcached_io_reset.
SendUnconnected ==
    /\ pc = "send" /\ ConnectFails(inst)
    /\ inst' = IF op = "get" THEN Unreached(inst) ELSE CloseSocket(Unreached(inst))
    /\ pc' = "idle"
    /\ Attempt(inst)
    /\ UNCHANGED <<up, eject, pipe, op>>

\* The write fails: the connection is closed and an error returned, or an
\* assertion ends the process and another one takes its place.
SendFails ==
    /\ pc = "send" /\ inst.fd = "dead"
    /\ inst' \in {CloseSocket(inst), Fresh}
    /\ idle' = IF inst' = Fresh THEN Never ELSE idle
    /\ pipe' = <<>>
    /\ pc' = "idle"
    /\ UNCHANGED <<up, eject, op, asked>>

Read ==
    /\ pc = "read" /\ op # "get"
    /\ TakeAnswer \/ NoAnswer
    /\ pc' = "idle"
    /\ UNCHANGED <<up, eject, op, idle>>

\* memcached_fetch_result is called as often as there are keys: after a value it
\* may come back here or not, after the end it does not; it may also give up
\* because of another server.
Fetch ==
    /\ pc = "read" /\ op = "get"
    /\ \/ TakeAnswer /\ (pc' = "idle" \/ (Head(pipe).kind = "value" /\ UNCHANGED pc))
       \/ NoAnswer /\ pc' = "idle"
       \/ pc' = "idle" /\ UNCHANGED <<inst, pipe, asked>>
    /\ UNCHANGED <<up, eject, op, idle>>

\* memcached_quit: the counters start again.
Quit ==
    /\ pc = "idle" /\ inst.fd # "none"
    /\ inst' = [CloseSocket(NewQuery(inst)) EXCEPT !.fails = 0, !.timeouts = 0]
    /\ pipe' = <<>>
    /\ UNCHANGED <<up, eject, pc, op, asked, idle>>

----------------------------------------------------------------------------
(***************************************************************************)
(* Environment: the server fails, and answers it has sent may still reach  *)
(* the client or not; it returns; time passes.                             *)
(***************************************************************************)
ServerFails ==
    /\ up
    /\ up' = FALSE
    /\ inst' = IF inst.fd = "ok" THEN [inst EXCEPT !.fd = "dead"] ELSE inst
    /\ \E n \in 0..Len(pipe) : pipe' = SubSeq(pipe, 1, n)
    /\ UNCHANGED <<eject, pc, op, asked, idle>>

ServerReturns ==
    /\ ~up /\ up' = TRUE
    /\ UNCHANGED <<eject, inst, pipe, pc, op, asked, idle>>

Longest == IF RetryTimeout > DeadTimeout THEN RetryTimeout ELSE DeadTimeout

Tick ==
    /\ inst' = IF inst.retry >= 0 THEN [inst EXCEPT !.retry = @ - 1] ELSE inst
    /\ idle' = IF idle = Never THEN Never ELSE IF idle > RetryTimeout THEN idle ELSE idle + 1
    /\ UNCHANGED <<up, eject, pipe, pc, op, asked>>

Continue == Drain \/ Purge \/ SendOk \/ SendUnconnected \/ SendFails \/ Read \/ Fetch

Next == Start \/ Continue \/ Quit \/ ServerFails \/ ServerReturns \/ Tick

Spec == Init /\ [][Next]_vars

\* The client keeps running and using the server, and time passes.
FairSpec == Spec /\ WF_vars(Continue) /\ WF_vars(Start) /\ WF_vars(Tick)

----------------------------------------------------------------------------
Kinds == {"value", "noop", "get", "set", "put", "delete"}

Instance ==
    [fd : {"none", "ok", "dead"}, state : {"NEW", "CONNECTED", "IN_TIMEOUT"},
     fails : 0..FailureLimit, timeouts : 0..TimeoutLimit,
     failCounted : BOOLEAN, timeoutCounted : BOOLEAN,
     retry : Never..Longest, count : Nat]

(***************************************************************************)
(* Type invariant.  cursor_active_ is unsigned: it never goes below zero.  *)
(***************************************************************************)
TypeOK ==
    /\ up \in BOOLEAN /\ eject \in BOOLEAN
    /\ inst \in Instance
    /\ pipe \in Seq([kind : Kinds, own : BOOLEAN])
    /\ pc \in {"idle", "drain", "send", "read"}
    /\ op \in {"none", "get", "set", "put", "delete"}
    /\ asked \in [unread : BOOLEAN, answer : Kinds \cup {"none"}, own : BOOLEAN, early : BOOLEAN]
    /\ idle \in {Never} \cup 0..RetryTimeout + 1

(***************************************************************************)
(* cursor_active_ is the number of answers still to come, so that a drain  *)
(* stops when the connection is empty and not before.                      *)
(***************************************************************************)
AnswersCounted ==
    /\ inst.fd = "ok" => inst.count = Finals(pipe)
    /\ inst.fd = "none" => inst.count = 0 /\ pipe = <<>>

(***************************************************************************)
(* What a get hands out as the value of a key, and what a set of the       *)
(* erasure code returns, is the answer to its own request, whatever        *)
(* answers earlier operations have left unread, lost or met too late.  So  *)
(* is what a delete or a plain set returns, unless answers were unread     *)
(* when it began: these do not drain the connection.                       *)
(***************************************************************************)
AnswerIsOwn ==
    asked.own \/ (op \in {"put", "delete"} /\ asked.unread)

(***************************************************************************)
(* Unread answers do not pile up, however long the client runs: with no    *)
(* more than a few of them no buffer fills and no write waits for a read   *)
(* that nobody makes.                                                      *)
(***************************************************************************)
FewUnread == inst.count <= 3 /\ Len(pipe) <= 3

(***************************************************************************)
(* A server that has reached server_failure_limit is left alone until      *)
(* retry_timeout has passed, whichever operation asks for it.              *)
(***************************************************************************)
DisabledLeftAlone ==
    [][asked'.early /\ ~asked.early => inst.fails < FailureLimit]_vars

(***************************************************************************)
(* A server that stays up is used again: the back-off never locks it out   *)
(* for good, unless it was ejected and dead servers are not retried.       *)
(***************************************************************************)
ServerUsedAgain ==
    <>[]up /\ (eject => DeadTimeout > 0) => []<>(inst.fd = "ok")
============================================================================
