------------------------ MODULE ServerInstanceProofs ------------------------
(***************************************************************************)
(* Proofs about the connection to a server, for every setting of the       *)
(* retry, timeout, failure and dead-server limits and however long the     *)
(* client runs.                                                            *)
(***************************************************************************)
EXTENDS ServerInstance, SequenceLemmas, FiniteSetTheorems

----------------------------------------------------------------------------
(***************************************************************************)
(* The instance: what each helper does to the socket and the counter.      *)
(***************************************************************************)
\* The part of an instance that the pipeline depends on.
SameLink(i, j) == j.fd = i.fd /\ j.count = i.count

(***************************************************************************)
(* Limits are numbers, and Longest bounds both timeouts.                   *)
(***************************************************************************)
LEMMA Limits ==
    /\ RetryTimeout \in Nat /\ TimeoutLimit \in Nat /\ DeadTimeout \in Nat
    /\ FailureLimit \in Nat /\ FailureLimit > 0
    /\ Longest \in Nat /\ RetryTimeout <= Longest /\ DeadTimeout <= Longest
    /\ Never = -2 /\ Passed = -1
  BY LimitAssumption DEF Longest, Never, Passed

(***************************************************************************)
(* A closed socket has no answers to come.                                 *)
(***************************************************************************)
LEMMA CloseType ==
    ASSUME NEW i \in Instance
    PROVE  /\ CloseSocket(i) \in Instance
           /\ CloseSocket(i).fd = "none" /\ CloseSocket(i).count = 0
           /\ CloseSocket(i).fails = i.fails /\ CloseSocket(i).retry = i.retry
           /\ CloseSocket(i).timeoutCounted = i.timeoutCounted
           /\ CloseSocket(i).failCounted = i.failCounted
           /\ CloseSocket(i).state = "NEW"
  BY DEF CloseSocket, Instance

(***************************************************************************)
(* Counting a failed connect leaves the socket alone.                      *)
(***************************************************************************)
LEMMA MarkType ==
    ASSUME NEW i \in Instance
    PROVE  MarkForTimeout(i) \in Instance /\ SameLink(i, MarkForTimeout(i))
  <1>. DEFINE n == IF i.timeoutCounted THEN i.timeouts ELSE UpTo(TimeoutLimit, i.timeouts + 1)
              m == IF i.failCounted THEN i.fails ELSE UpTo(FailureLimit, i.fails + 1)
  <1>1. n \in 0..TimeoutLimit /\ m \in 0..FailureLimit
    BY Limits DEF Instance, UpTo
  <1>2. CASE i.state = "IN_TIMEOUT"
    BY <1>2 DEF MarkForTimeout, SameLink
  <1>3. CASE i.state # "IN_TIMEOUT" /\ n < TimeoutLimit
    <2>1. MarkForTimeout(i) = [i EXCEPT !.timeouts = n, !.timeoutCounted = TRUE]
      BY <1>3 DEF MarkForTimeout
    <2>. HIDE DEF n
    <2>. QED
      BY <1>1, <2>1 DEF Instance, SameLink
  <1>4. CASE i.state # "IN_TIMEOUT" /\ ~(n < TimeoutLimit)
    <2>1. MarkForTimeout(i) =
            [i EXCEPT !.timeouts = n, !.timeoutCounted = TRUE,
                      !.retry = RetryTimeout, !.state = "IN_TIMEOUT",
                      !.fails = m, !.failCounted = TRUE]
      BY <1>4 DEF MarkForTimeout
    <2>2. RetryTimeout \in Never..Longest
      BY Limits
    <2>. HIDE DEF n, m
    <2>. QED
      BY <1>1, <2>1, <2>2 DEF Instance, SameLink
  <1>. QED
    BY <1>2, <1>3, <1>4

(***************************************************************************)
(* So do the back-off and the choice to try or not.                        *)
(***************************************************************************)
LEMMA BackOffType ==
    ASSUME NEW i \in Instance
    PROVE  /\ BackedOff(i) \in Instance /\ SameLink(i, BackedOff(i))
           /\ Retrying(i) \in Instance /\ SameLink(i, Retrying(i))
           /\ Disabled(i) \in Instance /\ SameLink(i, Disabled(i))
           /\ Unreached(i) \in Instance /\ SameLink(i, Unreached(i))
  <1>1. BackedOff(i) \in Instance /\ SameLink(i, BackedOff(i))
    <2>1. CASE i.fails < FailureLimit
      BY <2>1 DEF BackedOff, SameLink
    <2>2. CASE ~(i.fails < FailureLimit)
      <3>. DEFINE t == IF i.retry = Never THEN Passed ELSE i.retry
      <3>1. t \in Never..Longest
        BY Limits DEF Instance
      <3>2. BackedOff(i) = [i EXCEPT !.state = "IN_TIMEOUT", !.retry = t]
        BY <2>2 DEF BackedOff
      <3>. HIDE DEF t
      <3>. QED
        BY <3>1, <3>2 DEF Instance, SameLink
    <2>. QED
      BY <2>1, <2>2
  <1>2. Retrying(i) \in Instance /\ SameLink(i, Retrying(i))
    <2>. DEFINE b == BackedOff(i)
    <2>1. b \in Instance /\ SameLink(i, b)
      BY <1>1
    <2>2. 0 \in 0..TimeoutLimit
      BY Limits
    <2>3. Retrying(i) = IF b.state = "IN_TIMEOUT" THEN [b EXCEPT !.state = "NEW", !.timeouts = 0] ELSE b
      BY DEF Retrying
    <2>. HIDE DEF b
    <2>. QED
      BY <2>1, <2>2, <2>3 DEF Instance, SameLink
  <1>3. Disabled(i) \in Instance /\ SameLink(i, Disabled(i))
    <2>1. DeadTimeout \in Never..Longest /\ FailureLimit - 1 \in 0..FailureLimit
      BY Limits
    <2>2. [i EXCEPT !.retry = DeadTimeout, !.fails = FailureLimit - 1] \in Instance
      BY <2>1 DEF Instance
    <2>3. SameLink(i, [i EXCEPT !.retry = DeadTimeout, !.fails = FailureLimit - 1])
      BY DEF Instance, SameLink
    <2>. QED
      BY <1>1, <2>2, <2>3 DEF Disabled, SameLink
  <1>4. Unreached(i) \in Instance /\ SameLink(i, Unreached(i))
    BY <1>2, <1>3, MarkType DEF Unreached, SameLink
  <1>. QED
    BY <1>1, <1>2, <1>3, <1>4

(***************************************************************************)
(* After a connect that succeeds there is a socket, with nothing unread if *)
(* it is a new one.                                                        *)
(***************************************************************************)
LEMMA ReachedType ==
    ASSUME NEW i \in Instance
    PROVE  /\ Reached(i) \in Instance
           /\ i.fd = "none" => Reached(i).fd = "ok" /\ Reached(i).count = i.count /\ Reached(i).fails = 0
           /\ i.fd # "none" => Reached(i) = i
  <1>. DEFINE r == Retrying(i)
  <1>1. r \in Instance /\ r.count = i.count
    BY BackOffType DEF SameLink
  <1>2. Never \in Never..Longest /\ 0 \in 0..TimeoutLimit /\ 0 \in 0..FailureLimit
    BY Limits
  <1>3. Reached(i) = IF i.fd = "none"
                     THEN [r EXCEPT !.fd = "ok", !.state = "CONNECTED", !.fails = 0,
                                    !.timeouts = 0, !.retry = Never]
                     ELSE i
    BY DEF Reached, NoConnection, Connected
  <1>. HIDE DEF r
  <1>. QED
    BY <1>1, <1>2, <1>3 DEF Instance

(***************************************************************************)
(* A fresh instance, and one at the start of a query.                      *)
(***************************************************************************)
LEMMA FreshType ==
    /\ Fresh \in Instance /\ Fresh.fd = "none" /\ Fresh.count = 0 /\ Fresh.fails = 0
    /\ \A i \in Instance : /\ NewQuery(i) \in Instance /\ SameLink(i, NewQuery(i))
                           /\ NewQuery(i).fails = i.fails /\ NewQuery(i).retry = i.retry
                           /\ NewQuery(i).state = i.state
                           /\ ~NewQuery(i).timeoutCounted /\ ~NewQuery(i).failCounted
  <1>1. 0 \in 0..FailureLimit /\ 0 \in 0..TimeoutLimit /\ Never \in Never..Longest
    BY Limits
  <1>. QED
    BY <1>1 DEF Fresh, Instance, NewQuery, SameLink

----------------------------------------------------------------------------
(***************************************************************************)
(* The answers.  Only a multi-get leaves a value, and it has drained the   *)
(* connection before: so a value comes first, and it comes alone.          *)
(***************************************************************************)
AnswerSet == [kind : Kinds, own : BOOLEAN]

HasValue(s) == s # <<>> /\ s[1].kind = "value"

Values(s) == IF HasValue(s) THEN 1 ELSE 0

\* The answer that the running operation waits for, the end of a get apart.
Pending == IF pc = "read" /\ op # "get" THEN 1 ELSE 0

\* A socket fd with `count' answers to come, s of them here, `pending' of them
\* the running operation's.
Shape(fd, count, s, pending) ==
    /\ \A j \in 2..Len(s) : s[j].kind # "value"
    /\ count <= 2 + pending
    /\ HasValue(s) => count = 1 + pending
    /\ fd = "ok" => Len(s) = count + Values(s)
    /\ fd = "dead" => Len(s) <= count + Values(s)
    /\ fd = "none" => count = 0 /\ s = <<>>

(***************************************************************************)
(* Elementary facts about a sequence of answers.                           *)
(***************************************************************************)
LEMMA SeqFacts ==
    ASSUME NEW s \in Seq(AnswerSet)
    PROVE  /\ Len(s) \in Nat /\ DOMAIN s = 1..Len(s)
           /\ (s = <<>>) <=> (Len(s) = 0)
           /\ \A j \in 1..Len(s) : s[j] \in AnswerSet
           /\ s # <<>> => Head(s) = s[1] /\ 1 \in 1..Len(s)
           /\ Values(s) \in {0, 1} /\ (Values(s) = 1 <=> HasValue(s))
  <1>1. Len(s) \in Nat /\ DOMAIN s = 1..Len(s)
    BY LenProperties
  <1>2. (s = <<>>) <=> (Len(s) = 0)
    BY EmptySeq, <1>1
  <1>3. \A j \in 1..Len(s) : s[j] \in AnswerSet
    BY ElementOfSeq
  <1>4. s # <<>> => Head(s) = s[1] /\ 1 \in 1..Len(s)
    BY <1>1, <1>2
  <1>. QED
    BY <1>1, <1>2, <1>3, <1>4 DEF Values

(***************************************************************************)
(* The answers that count: all of them but a leading value.                *)
(***************************************************************************)
LEMMA FinalsCount ==
    ASSUME NEW s \in Seq(AnswerSet), \A j \in 2..Len(s) : s[j].kind # "value"
    PROVE  Finals(s) = Len(s) - Values(s)
  <1>. DEFINE F == {j \in DOMAIN s : s[j].kind # "value"}
  <1>1. /\ Len(s) \in Nat /\ DOMAIN s = 1..Len(s)
        /\ (s = <<>>) <=> (Len(s) = 0)
    BY SeqFacts
  <1>2. CASE HasValue(s)
    <2>1. Len(s) > 0 /\ s[1].kind = "value"
      BY <1>1, <1>2 DEF HasValue
    <2>2. \A j \in 1..Len(s) : j = 1 \/ j \in 2..Len(s)
      BY <1>1
    <2>3. 2..Len(s) \subseteq 1..Len(s) /\ 1 \notin 2..Len(s)
      BY <1>1
    <2>4. F = 2..Len(s)
      BY <1>1, <2>1, <2>2, <2>3
    <2>5. Cardinality(2..Len(s)) = IF 2 > Len(s) THEN 0 ELSE Len(s) - 2 + 1
      BY <1>1, FS_Interval
    <2>6. Finals(s) = Cardinality(2..Len(s)) /\ Values(s) = 1
      BY <1>2, <2>4 DEF Finals, Values
    <2>. QED
      BY <1>1, <2>1, <2>5, <2>6
  <1>3. CASE ~HasValue(s)
    <2>1. \A j \in 1..Len(s) : s[j].kind # "value"
      <3>1. \A j \in 1..Len(s) : (j = 1 /\ s # <<>>) \/ j \in 2..Len(s)
        BY <1>1
      <3>. QED
        BY <1>3, <3>1 DEF HasValue
    <2>2. F = 1..Len(s)
      BY <1>1, <2>1
    <2>3. Cardinality(1..Len(s)) = IF 1 > Len(s) THEN 0 ELSE Len(s) - 1 + 1
      BY <1>1, FS_Interval
    <2>4. Finals(s) = Cardinality(1..Len(s)) /\ Values(s) = 0
      BY <1>3, <2>2 DEF Finals, Values
    <2>. QED
      BY <1>1, <2>3, <2>4
  <1>. QED
    BY <1>2, <1>3

(***************************************************************************)
(* memcached_response takes the first answer off the connection.           *)
(***************************************************************************)
LEMMA ReadShape ==
    ASSUME NEW fd \in {"ok", "dead"}, NEW count \in Nat, NEW s \in Seq(AnswerSet), s # <<>>,
           NEW before \in {0, 1}, NEW after \in {0, 1}, before = 1 => after = 0, after <= before,
           Shape(fd, count, s, before)
    PROVE  LET c == IF Head(s).kind = "value" THEN count ELSE count - 1
           IN  c \in Nat /\ Shape(fd, c, Tail(s), after)
  <1>. DEFINE c == IF Head(s).kind = "value" THEN count ELSE count - 1
              u == Tail(s)
  <1>1. /\ u \in Seq(AnswerSet) /\ Len(u) = Len(s) - 1
        /\ \A j \in 1..Len(u) : u[j] = s[j + 1]
    BY HeadTailProperties
  <1>2. Len(s) \in Nat /\ Len(s) > 0 /\ Head(s) = s[1] /\ Values(s) \in {0, 1}
    BY SeqFacts
  <1>3. \A j \in 1..Len(u) : u[j].kind # "value"
    <2>1. \A j \in 1..Len(u) : j + 1 \in 2..Len(s)
      BY <1>1, <1>2
    <2>. QED
      BY <1>1, <2>1 DEF Shape
  <1>4. ~HasValue(u) /\ Values(u) = 0
    BY <1>1, <1>3, SeqFacts DEF HasValue, Values
  <1>5. \A j \in 2..Len(u) : u[j].kind # "value"
    <2>1. 2..Len(u) \subseteq 1..Len(u)
      BY <1>1, <1>2
    <2>. QED
      BY <1>3, <2>1
  <1>6. CASE Head(s).kind = "value"
    <2>1. HasValue(s) /\ Values(s) = 1 /\ c = count /\ count = 1 + before
      BY <1>2, <1>6 DEF HasValue, Values, Shape
    <2>2. fd = "ok" => Len(u) = c
      BY <1>1, <1>2, <2>1 DEF Shape
    <2>3. fd = "dead" => Len(u) <= c
      BY <1>1, <1>2, <2>1 DEF Shape
    <2>. HIDE DEF u, c
    <2>. QED
      BY <1>4, <1>5, <2>1, <2>2, <2>3 DEF Shape, u, c
  <1>7. CASE Head(s).kind # "value"
    <2>1. ~HasValue(s) /\ Values(s) = 0 /\ c = count - 1
      BY <1>2, <1>7 DEF HasValue, Values
    <2>2. fd = "ok" => Len(u) = c
      BY <1>1, <1>2, <2>1 DEF Shape
    <2>3. fd = "dead" => Len(u) <= c
      BY <1>1, <1>2, <2>1 DEF Shape
    <2>4. count <= 2 + before /\ (fd = "ok" => Len(s) = count) /\ (fd = "dead" => Len(s) <= count)
      BY <1>2, <2>1 DEF Shape
    <2>5. count > 0
      BY <1>2, <2>4
    <2>6. c \in Nat /\ c <= 2 + after
      <3>. HIDE DEF c, u
      <3>. QED
        BY <2>1, <2>4, <2>5
    <2>. HIDE DEF u, c
    <2>. QED
      BY <1>4, <1>5, <2>2, <2>3, <2>6 DEF Shape, u, c
  <1>. QED
    BY <1>6, <1>7

(***************************************************************************)
(* Losing the end of the pipe, as a server that fails does.                *)
(***************************************************************************)
LEMMA CutShape ==
    ASSUME NEW fd \in {"none", "ok", "dead"}, NEW count \in Nat, NEW s \in Seq(AnswerSet),
           NEW pending \in {0, 1}, Shape(fd, count, s, pending), NEW n \in 0..Len(s)
    PROVE  /\ SubSeq(s, 1, n) \in Seq(AnswerSet)
           /\ Shape(IF fd = "ok" THEN "dead" ELSE fd, count, SubSeq(s, 1, n), pending)
           /\ \A j \in 1..Len(SubSeq(s, 1, n)) : j \in 1..Len(s) /\ SubSeq(s, 1, n)[j] = s[j]
  <1>. DEFINE u == SubSeq(s, 1, n)
  <1>1. u \in Seq(AnswerSet) /\ Len(u) = n /\ \A j \in 1..n : u[j] = s[j]
    BY PrefixFacts
  <1>2. Len(s) \in Nat /\ n <= Len(s) /\ n \in Nat /\ (s = <<>> <=> Len(s) = 0) /\ (u = <<>> <=> n = 0)
    BY <1>1, SeqFacts
  <1>3. \A j \in 1..n : j \in 1..Len(s)
    BY <1>2
  <1>4. HasValue(u) => HasValue(s)
    <2>1. u # <<>> => 1 \in 1..n /\ s # <<>>
      BY <1>2
    <2>. QED
      BY <1>1, <2>1 DEF HasValue
  <1>5. \A j \in 2..n : u[j].kind # "value"
    <2>1. \A j \in 2..n : j \in 1..n /\ j \in 2..Len(s)
      BY <1>2
    <2>. QED
      BY <1>1, <2>1 DEF Shape
  <1>6. fd \in {"ok", "dead"} => n <= count + Values(u)
    <2>1. CASE HasValue(s) /\ n > 0
      <3>1. HasValue(u)
        BY <1>1, <1>2, <2>1 DEF HasValue
      <3>2. Values(u) = 1 /\ Values(s) = 1
        BY <2>1, <3>1 DEF Values
      <3>3. fd \in {"ok", "dead"} => Len(s) <= count + 1
        BY <1>2, <3>2 DEF Shape
      <3>. QED
        BY <1>2, <3>2, <3>3
    <2>2. CASE ~HasValue(s)
      <3>1. Values(s) = 0 /\ Values(u) = 0
        BY <1>4, <2>2 DEF Values
      <3>2. fd \in {"ok", "dead"} => Len(s) <= count
        BY <1>2, <3>1 DEF Shape
      <3>. QED
        BY <1>2, <3>1, <3>2
    <2>3. CASE n = 0
      BY <2>3 DEF Values
    <2>. QED
      BY <1>2, <2>1, <2>2, <2>3
  <1>7. fd = "none" => count = 0 /\ u = <<>>
    BY <1>2 DEF Shape
  <1>8. count <= 2 + pending /\ (HasValue(u) => count = 1 + pending)
    BY <1>4 DEF Shape
  <1>9. Shape(IF fd = "ok" THEN "dead" ELSE fd, count, u, pending)
    <2>. HIDE DEF u
    <2>. QED
      BY <1>1, <1>5, <1>6, <1>7, <1>8 DEF Shape
  <1>. QED
    BY <1>1, <1>3, <1>9

(***************************************************************************)
(* Forgetting whose answers they are changes nothing.                      *)
(***************************************************************************)
LEMMA SameKinds ==
    ASSUME NEW fd, NEW count, NEW pending,
           NEW s \in Seq(AnswerSet), NEW u \in Seq(AnswerSet), Len(u) = Len(s),
           \A j \in 1..Len(s) : u[j].kind = s[j].kind,
           Shape(fd, count, s, pending)
    PROVE  Shape(fd, count, u, pending)
  <1>1. /\ Len(s) \in Nat /\ (s = <<>> <=> Len(s) = 0) /\ (u = <<>> <=> Len(u) = 0)
        /\ s # <<>> => 1 \in 1..Len(s)
    BY SeqFacts
  <1>2. HasValue(u) <=> HasValue(s)
    BY <1>1 DEF HasValue
  <1>3. Values(u) = Values(s)
    BY <1>2 DEF Values
  <1>4. 2..Len(s) \subseteq 1..Len(s)
    BY <1>1
  <1>. QED
    BY <1>1, <1>2, <1>3, <1>4 DEF Shape

(***************************************************************************)
(* An answer that is not a value joins the pipe.                           *)
(***************************************************************************)
LEMMA ArriveShape ==
    ASSUME NEW count \in Nat, NEW s \in Seq(AnswerSet), NEW a \in AnswerSet, a.kind # "value",
           Shape("ok", count, s, 0), NEW after \in {0, 1}, after = 0 => count = 0
    PROVE  s \o <<a>> \in Seq(AnswerSet) /\ Shape("ok", count + 1, s \o <<a>>, after)
  <1>. DEFINE u == s \o <<a>>
  <1>1. Append(s, a) = u
    BY AppendIsConcat
  <1>2. /\ u \in Seq(AnswerSet) /\ Len(u) = Len(s) + 1
        /\ \A j \in 1..Len(s) : u[j] = s[j]
        /\ u[Len(s) + 1] = a /\ u # <<>>
    BY <1>1, AppendProperties
  <1>3. Len(s) \in Nat /\ (s = <<>> <=> Len(s) = 0)
    BY SeqFacts
  <1>4. \A j \in 2..Len(u) : (j \in 1..Len(s) /\ j \in 2..Len(s)) \/ j = Len(s) + 1
    BY <1>2, <1>3
  <1>5. \A j \in 2..Len(u) : u[j].kind # "value"
    BY <1>2, <1>4 DEF Shape
  <1>6. HasValue(u) <=> HasValue(s)
    <2>1. CASE s = <<>>
      <3>1. u[1] = a
        BY <1>2, <1>3, <2>1
      <3>. QED
        BY <2>1, <3>1 DEF HasValue
    <2>2. CASE s # <<>>
      <3>1. 1 \in 1..Len(s)
        BY <1>3, <2>2
      <3>. QED
        BY <1>2, <2>2, <3>1 DEF HasValue
    <2>. QED
      BY <2>1, <2>2
  <1>7. Values(u) = Values(s) /\ Values(s) \in {0, 1}
    BY <1>6 DEF Values
  <1>8. Len(s) = count + Values(s) /\ count <= 2 /\ (HasValue(s) => count = 1)
    BY DEF Shape
  <1>9. Len(u) = count + 1 + Values(u)
    BY <1>2, <1>7, <1>8
  <1>10. count + 1 <= 2 + after /\ (HasValue(u) => count + 1 = 1 + after)
    BY <1>6, <1>8
  <1>. QED
    BY <1>2, <1>5, <1>9, <1>10 DEF Shape

----------------------------------------------------------------------------
(***************************************************************************)
(* The inductive invariant.                                                *)
(***************************************************************************)
\* The operation owes its caller an answer of its own.
Certain == op \in {"get", "set"} \/ ~asked.unread

PipeInv ==
    /\ Shape(inst.fd, inst.count, pipe, Pending)
    /\ pc # "idle" => op # "none"
    /\ pc = "drain" => op \in {"get", "set"}
    /\ pc = "read" => inst.fd # "none"
    /\ pc = "send" /\ Certain => inst.count = 0
    /\ pc = "read" /\ Certain => \A j \in 1..Len(pipe) : pipe[j].own
    /\ AnswerIsOwn

ConnInv == TypeOK /\ PipeInv

(***************************************************************************)
(* With no answer to come, the pipe is empty.                              *)
(***************************************************************************)
LEMMA NoneToCome ==
    ASSUME NEW fd \in {"none", "ok", "dead"}, NEW s \in Seq(AnswerSet), NEW pending \in {0, 1},
           Shape(fd, 0, s, pending)
    PROVE  s = <<>>
  <1>1. ~HasValue(s) /\ Values(s) = 0
    BY DEF Shape, Values
  <1>2. Len(s) \in Nat /\ (s = <<>> <=> Len(s) = 0)
    BY SeqFacts
  <1>. QED
    BY <1>1, <1>2 DEF Shape

(***************************************************************************)
(* A closed connection satisfies every clause.                             *)
(***************************************************************************)
LEMMA EmptyShape ==
    /\ <<>> \in Seq(AnswerSet) /\ Len(<<>>) = 0 /\ ~HasValue(<<>>) /\ Values(<<>>) = 0
    /\ \A p \in {0, 1} : Shape("none", 0, <<>>, p) /\ Shape("ok", 0, <<>>, p)
  <1>1. <<>> \in Seq(AnswerSet) /\ Len(<<>>) = 0
    BY EmptySeq
  <1>2. ~HasValue(<<>>) /\ Values(<<>>) = 0
    BY DEF HasValue, Values
  <1>3. 2..0 = {}
    OBVIOUS
  <1>. QED
    BY <1>1, <1>2, <1>3 DEF Shape

\* An operation begins: what is on the connection belongs to earlier ones.
LEMMA StartKeeps ==
    ASSUME ConnInv, Start
    PROVE  ConnInv'
  <1>. USE DEF ConnInv
  <1>1. PICK o \in {"get", "set", "put", "delete"} : Begin(o, FirstStep(o))
    BY DEF Start
  <1>2. /\ inst \in Instance /\ pipe \in Seq(AnswerSet) /\ pc = "idle" /\ Pending = 0
    BY <1>1 DEF TypeOK, Begin, Pending, AnswerSet
  <1>3. inst' \in Instance /\ inst'.fd = inst.fd /\ inst'.count = inst.count
    BY <1>1, <1>2, FreshType DEF Begin, SameLink
  <1>4. /\ Len(pipe) \in Nat /\ DOMAIN pipe = 1..Len(pipe)
        /\ \A j \in 1..Len(pipe) : pipe[j] \in AnswerSet
    BY <1>2, SeqFacts
  <1>5. pipe' \in [1..Len(pipe) -> AnswerSet] /\ \A j \in 1..Len(pipe) : pipe'[j].kind = pipe[j].kind
    <2>1. pipe' = [j \in 1..Len(pipe) |-> [pipe[j] EXCEPT !.own = FALSE]]
      BY <1>1, <1>4 DEF Begin
    <2>2. \A j \in 1..Len(pipe) : /\ [pipe[j] EXCEPT !.own = FALSE] \in AnswerSet
                                  /\ [pipe[j] EXCEPT !.own = FALSE].kind = pipe[j].kind
      BY <1>4 DEF AnswerSet
    <2>. QED
      BY <2>1, <2>2
  <1>6. pipe' \in Seq(AnswerSet) /\ Len(pipe') = Len(pipe)
    BY <1>4, <1>5, FunctionIsSeq
  <1>7. pc' \in {"drain", "send"} /\ op' = o /\ (pc' = "drain" <=> o \in {"get", "set"}) /\ Pending' = 0
    BY <1>1 DEF Begin, FirstStep, Pending
  <1>8. Shape(inst'.fd, inst'.count, pipe', Pending')
    BY <1>2, <1>3, <1>5, <1>6, <1>7, SameKinds DEF PipeInv
  <1>9. /\ asked' = [unread |-> inst.count > 0, answer |-> "none", own |-> TRUE, early |-> FALSE]
        /\ UNCHANGED <<up, eject, idle>>
    BY <1>1 DEF Begin
  <1>10. inst.count \in Nat
    BY <1>2 DEF Instance
  <1>11. TypeOK'
    BY <1>3, <1>6, <1>7, <1>9 DEF TypeOK, AnswerSet
  <1>12. pc' = "send" /\ Certain' => inst'.count = 0
    <2>1. asked'.unread = (inst.count > 0)
      BY <1>9, Zenon
    <2>2. pc' = "send" /\ Certain' => ~asked'.unread
      BY <1>7, Zenon DEF Certain
    <2>3. ~(inst.count > 0) => inst'.count = 0
      BY <1>3, <1>10
    <2>. QED
      BY <2>1, <2>2, <2>3, Zenon
  <1>13. AnswerIsOwn'
    BY <1>9 DEF AnswerIsOwn
  <1>. QED
    BY <1>7, <1>8, <1>11, <1>12, <1>13 DEF PipeInv

(***************************************************************************)
(* An answer is read by an operation, or drained.                          *)
(***************************************************************************)
LEMMA ReadOneKeeps ==
    ASSUME ConnInv, inst.fd # "none", pipe # <<>>, NEW after \in {0, 1},
           Pending = 1 => after = 0, after <= Pending,
           inst' = ReadOne(inst), pipe' = Tail(pipe)
    PROVE  /\ inst' \in Instance /\ inst'.fd = inst.fd /\ pipe' \in Seq(AnswerSet)
           /\ Shape(inst'.fd, inst'.count, pipe', after)
           /\ \A j \in 1..Len(pipe') : j + 1 \in 1..Len(pipe) /\ pipe'[j] = pipe[j + 1]
           /\ Head(pipe) = pipe[1] /\ Head(pipe) \in AnswerSet /\ 1 \in 1..Len(pipe)
  <1>. USE DEF ConnInv
  <1>1. inst \in Instance /\ pipe \in Seq(AnswerSet) /\ inst.fd \in {"ok", "dead"} /\ inst.count \in Nat
    BY DEF TypeOK, Instance, AnswerSet
  <1>2. Pending \in {0, 1}
    BY DEF Pending
  <1>. DEFINE c == IF Head(pipe).kind = "value" THEN inst.count ELSE inst.count - 1
  <1>3. c \in Nat /\ Shape(inst.fd, c, Tail(pipe), after)
    BY <1>1, <1>2, ReadShape DEF PipeInv
  <1>4. inst' = [inst EXCEPT !.count = c]
    BY DEF ReadOne
  <1>5. inst' \in Instance /\ inst'.fd = inst.fd /\ inst'.count = c
    <2>. HIDE DEF c
    <2>. QED
      BY <1>1, <1>3, <1>4 DEF Instance
  <1>6. /\ Tail(pipe) \in Seq(AnswerSet) /\ Len(Tail(pipe)) = Len(pipe) - 1
        /\ \A j \in 1..Len(Tail(pipe)) : Tail(pipe)[j] = pipe[j + 1]
    BY <1>1, HeadTailProperties
  <1>7. Len(pipe) \in Nat /\ Head(pipe) = pipe[1] /\ 1 \in 1..Len(pipe) /\ pipe[1] \in AnswerSet
    BY <1>1, SeqFacts
  <1>8. \A j \in 1..Len(Tail(pipe)) : j + 1 \in 1..Len(pipe)
    BY <1>6, <1>7
  <1>. HIDE DEF c
  <1>. QED
    BY <1>3, <1>5, <1>6, <1>7, <1>8

(***************************************************************************)
(* An error closes the connection, and everything on it is gone.           *)
(***************************************************************************)
LEMMA ClosedKeeps ==
    ASSUME ConnInv, inst' \in Instance, inst'.fd = "none", inst'.count = 0, pipe' = <<>>,
           pc' \in {"idle", "drain"}, UNCHANGED <<up, eject, op, asked>>,
           pc' = "drain" => pc = "drain",
           idle' \in {Never} \cup 0..RetryTimeout + 1
    PROVE  ConnInv'
  <1>1. Pending' = 0
    BY DEF Pending
  <1>2. Shape("none", 0, <<>>, 0) /\ <<>> \in Seq(AnswerSet)
    BY EmptyShape
  <1>3. TypeOK'
    BY <1>2 DEF ConnInv, TypeOK, AnswerSet
  <1>4. AnswerIsOwn'
    BY DEF ConnInv, PipeInv, AnswerIsOwn
  <1>. QED
    BY <1>1, <1>2, <1>3, <1>4 DEF ConnInv, PipeInv

\* Reading the unread answers before a multi-get, one at a time.
LEMMA DrainKeeps ==
    ASSUME ConnInv, Drain
    PROVE  ConnInv'
  <1>. USE DEF ConnInv
  <1>1. /\ inst \in Instance /\ pipe \in Seq(AnswerSet) /\ pc = "drain" /\ Pending = 0
        /\ op \in {"get", "set"} /\ inst.count \in Nat
        /\ UNCHANGED <<up, eject, op, idle>>
    BY DEF TypeOK, Drain, Pending, AnswerSet, PipeInv, Instance
  <1>2. CASE inst.count = 0 /\ pc' = "send" /\ UNCHANGED <<inst, pipe, asked>>
    <2>1. Pending' = 0
      BY <1>2 DEF Pending
    <2>2. TypeOK'
      BY <1>1, <1>2 DEF TypeOK
    <2>3. AnswerIsOwn'
      BY <1>1, <1>2 DEF AnswerIsOwn, PipeInv
    <2>. QED
      BY <1>1, <1>2, <2>1, <2>2, <2>3 DEF PipeInv
  <1>3. CASE /\ inst.count > 0 /\ pipe # <<>>
             /\ inst' = ReadOne(inst) /\ pipe' = Tail(pipe) /\ UNCHANGED <<pc, asked>>
    <2>1. inst.fd # "none"
      BY <1>1, <1>3 DEF PipeInv, Shape
    <2>2. inst' \in Instance /\ pipe' \in Seq(AnswerSet) /\ Shape(inst'.fd, inst'.count, pipe', 0)
      BY <1>1, <1>3, <2>1, ReadOneKeeps
    <2>3. Pending' = 0
      BY <1>1, <1>3 DEF Pending
    <2>4. TypeOK'
      BY <1>1, <1>3, <2>2 DEF TypeOK, AnswerSet
    <2>5. AnswerIsOwn'
      BY <1>1, <1>3 DEF AnswerIsOwn, PipeInv
    <2>. QED
      BY <1>1, <1>3, <2>2, <2>3, <2>4, <2>5 DEF PipeInv
  <1>4. CASE NoAnswer /\ UNCHANGED pc
    <2>1. inst' = CloseSocket(inst) /\ UNCHANGED asked
      BY <1>4 DEF NoAnswer, ReadError
    <2>2. inst' \in Instance /\ inst'.fd = "none" /\ inst'.count = 0
      BY <1>1, <2>1, CloseType
    <2>3. pipe' = <<>>
      BY <1>4, <2>1, <2>2 DEF NoAnswer, KeptOnError, ReadError
    <2>4. idle' \in {Never} \cup 0..RetryTimeout + 1
      BY <1>1 DEF TypeOK
    <2>. QED
      BY <1>1, <1>4, <2>1, <2>2, <2>3, <2>4, ClosedKeeps
  <1>. QED
    BY <1>2, <1>3, <1>4 DEF Drain

\* Reading them during a long write.
LEMMA PurgeKeeps ==
    ASSUME ConnInv, Purge
    PROVE  ConnInv'
  <1>. USE DEF ConnInv
  <1>1. /\ inst \in Instance /\ pipe \in Seq(AnswerSet) /\ pc = "send" /\ Pending = 0
        /\ inst.fd \in {"ok", "dead"} /\ inst.count \in Nat /\ inst.count > 1
        /\ UNCHANGED <<up, eject, op, asked, idle>>
    BY DEF TypeOK, Purge, Pending, AnswerSet, PipeInv, Instance
  <1>2. CASE inst' = CloseSocket(inst) /\ pipe' = <<>> /\ pc' = "idle"
    <2>1. inst' \in Instance /\ inst'.fd = "none" /\ inst'.count = 0
      BY <1>1, <1>2, CloseType
    <2>2. idle' \in {Never} \cup 0..RetryTimeout + 1
      BY <1>1 DEF TypeOK
    <2>. QED
      BY <1>1, <1>2, <2>1, <2>2, ClosedKeeps
  <1>3. CASE /\ Len(pipe) >= inst.count - 1
             /\ inst' = [inst EXCEPT !.count = @ - Finals(SubSeq(pipe, 1, @ - 1))]
             /\ pipe' = SubSeq(pipe, inst.count, Len(pipe))
             /\ UNCHANGED pc
    <2>. DEFINE c == inst.count
    <2>1. /\ Len(pipe) \in Nat /\ ~HasValue(pipe) /\ Values(pipe) = 0
          /\ (inst.fd = "ok" => Len(pipe) = c) /\ (inst.fd = "dead" => Len(pipe) <= c)
          /\ pipe = <<>> <=> Len(pipe) = 0
      BY <1>1, SeqFacts DEF PipeInv, Shape, Values
    <2>2. \A j \in 1..Len(pipe) : pipe[j].kind # "value"
      <3>1. \A j \in 1..Len(pipe) : (j = 1 /\ pipe # <<>>) \/ j \in 2..Len(pipe)
        BY <2>1
      <3>2. \A j \in 2..Len(pipe) : pipe[j].kind # "value"
        BY DEF PipeInv, Shape
      <3>. QED
        BY <2>1, <3>1, <3>2 DEF HasValue
    <2>3. c - 1 \in 0..Len(pipe) /\ c \in 1..Len(pipe) + 1
      BY <1>1, <1>3, <2>1
    <2>. DEFINE s == SubSeq(pipe, 1, c - 1)
                u == SubSeq(pipe, c, Len(pipe))
    <2>4. s \in Seq(AnswerSet) /\ Len(s) = c - 1 /\ \A j \in 1..c - 1 : s[j] = pipe[j]
      BY <1>1, <2>3, PrefixFacts
    <2>5. /\ u \in Seq(AnswerSet) /\ Len(u) = Len(pipe) - c + 1
          /\ \A j \in 1..Len(pipe) - c + 1 : u[j] = pipe[c + j - 1]
      BY <1>1, <2>3, SuffixFacts
    <2>. HIDE DEF s, u
    <2>6. Finals(s) = c - 1
      <3>1. \A j \in 1..c - 1 : s[j].kind # "value"
        <4>1. \A j \in 1..c - 1 : j \in 1..Len(pipe)
          BY <2>1, <2>3
        <4>. QED
          BY <2>2, <2>4, <4>1
      <3>2. \A j \in 2..Len(s) : s[j].kind # "value"
        <4>1. \A j \in 2..Len(s) : j \in 1..c - 1
          BY <1>1, <2>4
        <4>. QED
          BY <3>1, <4>1
      <3>3. ~HasValue(s)
        <4>1. s # <<>> => 1 \in 1..c - 1
          BY <1>1, <2>4, SeqFacts
        <4>. QED
          BY <3>1, <4>1 DEF HasValue
      <3>4. Finals(s) = Len(s) - Values(s)
        BY <2>4, <3>2, FinalsCount
      <3>. QED
        BY <1>1, <2>4, <3>3, <3>4 DEF Values
    <2>7. inst' = [inst EXCEPT !.count = 1] /\ pipe' = u
      <3>1. inst' = [inst EXCEPT !.count = c - Finals(s)] /\ pipe' = u
        BY <1>3 DEF s, u
      <3>. QED
        BY <1>1, <2>6, <3>1
    <2>8. inst' \in Instance /\ inst'.fd = inst.fd /\ inst'.count = 1
      BY <1>1, <2>7 DEF Instance
    <2>9. \A j \in 1..Len(u) : u[j].kind # "value"
      <3>1. \A j \in 1..Len(u) : j \in 1..Len(pipe) - c + 1 /\ c + j - 1 \in 1..Len(pipe)
        BY <1>1, <2>1, <2>3, <2>5
      <3>. QED
        BY <2>2, <2>5, <3>1
    <2>10. Shape(inst.fd, 1, u, 0)
      <3>1. ~HasValue(u) /\ Values(u) = 0
        BY <2>5, <2>9, SeqFacts DEF HasValue, Values
      <3>2. (inst.fd = "ok" => Len(u) = 1) /\ (inst.fd = "dead" => Len(u) <= 1)
        BY <1>1, <2>1, <2>5
      <3>3. \A j \in 2..Len(u) : j \in 1..Len(u)
        BY <1>1, <2>1, <2>5
      <3>. QED
        BY <1>1, <2>9, <3>1, <3>2, <3>3 DEF Shape
    <2>11. Pending' = 0 /\ pc' = "send"
      BY <1>1, <1>3 DEF Pending
    <2>12. TypeOK'
      BY <1>1, <2>5, <2>7, <2>8, <2>11 DEF TypeOK, AnswerSet
    <2>13. AnswerIsOwn'
      BY <1>1 DEF AnswerIsOwn, PipeInv
    <2>14. ~Certain' /\ op' # "none"
      <3>1. ~Certain
        BY <1>1 DEF PipeInv
      <3>. QED
        BY <1>1, <3>1 DEF Certain, PipeInv
    <2>15. Shape(inst'.fd, inst'.count, pipe', Pending')
      BY <2>7, <2>8, <2>10, <2>11
    <2>. QED
      BY <2>11, <2>12, <2>13, <2>14, <2>15 DEF PipeInv
  <1>. QED
    BY <1>2, <1>3 DEF Purge

(***************************************************************************)
(* A request written to a dead connection is counted and never answered.   *)
(***************************************************************************)
LEMMA LostShape ==
    ASSUME NEW count \in Nat, NEW s \in Seq(AnswerSet), Shape("dead", count, s, 0),
           NEW after \in {0, 1}, after = 0 => count = 0
    PROVE  Shape("dead", count + 1, s, after)
  <1>1. Len(s) \in Nat /\ Values(s) \in {0, 1}
    BY SeqFacts
  <1>2. HasValue(s) => count = 1
    BY DEF Shape
  <1>3. Len(s) <= count + Values(s) /\ count <= 2
    BY DEF Shape
  <1>4. Len(s) <= count + 1 + Values(s) /\ count + 1 <= 2 + after
    BY <1>1, <1>3
  <1>5. HasValue(s) => count + 1 = 1 + after
    BY <1>2
  <1>. QED
    BY <1>4, <1>5 DEF Shape

(***************************************************************************)
(* The answers of a multi-get arrive on an empty connection.               *)
(***************************************************************************)
LEMMA GetShape ==
    ASSUME NEW a \in Answers("get")
    PROVE  /\ a \in Seq(AnswerSet) /\ Shape("ok", 1, a, 0) /\ Shape("dead", 1, <<>>, 0)
           /\ \A j \in 1..Len(a) : a[j].own
  <1>1. Shape("dead", 1, <<>>, 0)
    BY EmptyShape DEF Shape
  <1>2. CASE a = <<Answer("value"), Answer("noop")>>
    <2>1. Len(a) = 2 /\ a[1] = Answer("value") /\ a[2] = Answer("noop") /\ a \in Seq(AnswerSet)
      BY <1>2 DEF Answer, AnswerSet, Kinds
    <2>2. HasValue(a) /\ Values(a) = 1
      BY <1>2, <2>1 DEF HasValue, Values, Answer
    <2>3. (\A j \in 2..2 : j = 2) /\ (\A j \in 1..2 : j = 1 \/ j = 2)
      OBVIOUS
    <2>. QED
      BY <1>1, <2>1, <2>2, <2>3 DEF Shape, Answer
  <1>3. ASSUME NEW k \in {"noop", "get"}, a = <<Answer(k)>>
        PROVE  a \in Seq(AnswerSet) /\ Shape("ok", 1, a, 0) /\ \A j \in 1..Len(a) : a[j].own
    <2>1. Len(a) = 1 /\ a[1] = Answer(k) /\ a \in Seq(AnswerSet)
      BY <1>3 DEF Answer, AnswerSet, Kinds
    <2>2. ~HasValue(a) /\ Values(a) = 0
      BY <2>1 DEF HasValue, Values, Answer
    <2>3. (2..1 = {}) /\ (\A j \in 1..1 : j = 1)
      OBVIOUS
    <2>. QED
      BY <2>1, <2>2, <2>3 DEF Shape, Answer
  <1>. QED
    BY <1>1, <1>2, <1>3 DEF Answers

\* A request is sent and its answer will follow the unread ones.
LEMMA SendOkKeeps ==
    ASSUME ConnInv, SendOk
    PROVE  ConnInv'
  <1>. USE DEF ConnInv
  <1>. DEFINE i == Reached(inst)
  <1>1. /\ inst \in Instance /\ pipe \in Seq(AnswerSet) /\ pc = "send" /\ Pending = 0
        /\ inst.count \in Nat /\ op \in {"get", "set", "put", "delete"}
        /\ UNCHANGED <<up, eject, op>>
    BY DEF TypeOK, SendOk, Pending, AnswerSet, PipeInv, Instance
  <1>2. /\ i \in Instance /\ i.fd \in {"ok", "dead"} /\ i.count = inst.count
        /\ Shape(i.fd, i.count, pipe, 0)
    <2>1. CASE inst.fd = "none"
      <3>1. i \in Instance /\ i.fd = "ok" /\ i.count = inst.count
        BY <1>1, <2>1, ReachedType
      <3>2. inst.count = 0 /\ pipe = <<>>
        BY <2>1 DEF PipeInv, Shape
      <3>. QED
        BY <3>1, <3>2, EmptyShape
    <2>2. CASE inst.fd # "none"
      <3>1. i = inst
        BY <1>1, <2>2, ReachedType
      <3>2. inst.fd \in {"ok", "dead"}
        BY <1>1, <2>2 DEF Instance
      <3>. QED
        BY <1>1, <3>1, <3>2 DEF PipeInv
    <2>. QED
      BY <2>1, <2>2
  <1>. HIDE DEF i
  <1>3. PICK a \in Answers(op) :
          /\ inst' = [i EXCEPT !.count = IF op = "get" THEN 1 ELSE @ + 1]
          /\ pipe' = IF i.fd = "ok" THEN pipe \o a ELSE pipe
    BY DEF SendOk, i
  <1>4. pc' \in {"read", "idle"} /\ (pc' = "idle" => op = "set")
    BY DEF SendOk
  <1>5. Certain => inst.count = 0 /\ pipe = <<>>
    BY <1>1, <1>2, NoneToCome DEF PipeInv
  <1>6. asked' = [asked EXCEPT !.early = Tries(inst) /\ idle # Never /\ idle <= RetryTimeout]
    BY DEF SendOk, Attempt
  <1>7. /\ asked'.own = asked.own /\ asked'.unread = asked.unread
        /\ asked' \in [unread : BOOLEAN, answer : Kinds \cup {"none"}, own : BOOLEAN, early : BOOLEAN]
    BY <1>6 DEF TypeOK
  <1>8. idle' \in {Never} \cup 0..RetryTimeout + 1
    BY Limits DEF SendOk, Attempt, TypeOK
  <1>9. Pending' = IF pc' = "read" /\ op # "get" THEN 1 ELSE 0
    BY <1>1 DEF Pending
  <1>10. Certain' <=> Certain
    BY <1>1, <1>7 DEF Certain
  <1>11. CASE op = "get"
    <2>1. inst' = [i EXCEPT !.count = 1] /\ Pending' = 0
      BY <1>3, <1>9, <1>11
    <2>2. inst' \in Instance /\ inst'.fd = i.fd /\ inst'.count = 1
      BY <1>2, <2>1 DEF Instance
    <2>3. Certain /\ inst.count = 0 /\ pipe = <<>>
      BY <1>5, <1>11 DEF Certain
    <2>4. /\ a \in Seq(AnswerSet) /\ Shape("ok", 1, a, 0) /\ Shape("dead", 1, <<>>, 0)
          /\ \A j \in 1..Len(a) : a[j].own
      BY <1>11, GetShape
    <2>5. <<>> \o a = a
      BY <2>4, ConcatEmptySeq
    <2>6. pipe' = IF i.fd = "ok" THEN a ELSE <<>>
      BY <1>3, <2>3, <2>5
    <2>7. pipe' \in Seq(AnswerSet) /\ Shape(inst'.fd, inst'.count, pipe', Pending')
      BY <1>2, <2>1, <2>2, <2>4, <2>6, EmptyShape
    <2>8. \A j \in 1..Len(pipe') : pipe'[j].own
      BY <2>4, <2>6, EmptyShape
    <2>9. TypeOK'
      BY <1>1, <1>4, <1>7, <1>8, <2>2, <2>7 DEF TypeOK, AnswerSet
    <2>10. AnswerIsOwn'
      BY <1>1, <1>7 DEF AnswerIsOwn, PipeInv
    <2>. QED
      BY <1>1, <1>2, <1>4, <2>2, <2>7, <2>8, <2>9, <2>10 DEF PipeInv
  <1>12. CASE op # "get"
    <2>1. inst' = [i EXCEPT !.count = i.count + 1] /\ i.count \in Nat
      BY <1>1, <1>2, <1>3, <1>12
    <2>2. inst' \in Instance /\ inst'.fd = i.fd /\ inst'.count = i.count + 1
      BY <1>2, <2>1 DEF Instance
    <2>3. Pending' \in {0, 1} /\ (Pending' = 0 => i.count = 0)
      BY <1>2, <1>4, <1>5, <1>9, <1>12 DEF Certain
    <2>4. a = <<Answer(op)>> /\ Answer(op) \in AnswerSet /\ Answer(op).kind # "value" /\ Answer(op).own
      BY <1>1, <1>3, <1>12 DEF Answers, Answer, AnswerSet, Kinds
    <2>5. /\ pipe \o <<Answer(op)>> \in Seq(AnswerSet)
          /\ i.fd = "ok" => Shape("ok", i.count + 1, pipe \o <<Answer(op)>>, Pending')
      <3>1. pipe \o <<Answer(op)>> \in Seq(AnswerSet)
        BY <1>1, <2>4, AppendIsConcat, AppendProperties
      <3>2. ASSUME i.fd = "ok" PROVE Shape("ok", i.count + 1, pipe \o <<Answer(op)>>, Pending')
        BY <1>1, <1>2, <2>1, <2>3, <2>4, <3>2, ArriveShape
      <3>. QED
        BY <3>1, <3>2
    <2>6. i.fd = "dead" => Shape("dead", i.count + 1, pipe, Pending')
      BY <1>1, <1>2, <2>1, <2>3, LostShape
    <2>7. pipe' \in Seq(AnswerSet) /\ Shape(inst'.fd, inst'.count, pipe', Pending')
      BY <1>1, <1>2, <1>3, <2>2, <2>4, <2>5, <2>6
    <2>8. Certain => \A j \in 1..Len(pipe') : pipe'[j].own
      <3>1. ASSUME Certain PROVE \A j \in 1..Len(pipe') : pipe'[j].own
        <4>1. pipe = <<>>
          BY <1>5, <3>1
        <4>2. <<>> \o <<Answer(op)>> = <<Answer(op)>>
          BY <2>4, ConcatEmptySeq
        <4>3. pipe' = <<Answer(op)>> \/ pipe' = <<>>
          BY <1>3, <2>4, <4>1, <4>2
        <4>4. Len(<<Answer(op)>>) = 1 /\ <<Answer(op)>>[1] = Answer(op) /\ \A j \in 1..1 : j = 1
          OBVIOUS
        <4>. QED
          BY <2>4, <4>3, <4>4, EmptyShape
      <3>. QED
        BY <3>1
    <2>9. TypeOK'
      BY <1>1, <1>4, <1>7, <1>8, <2>2, <2>7 DEF TypeOK, AnswerSet
    <2>10. AnswerIsOwn'
      BY <1>1, <1>7 DEF AnswerIsOwn, PipeInv
    <2>. QED
      BY <1>1, <1>2, <1>4, <1>10, <2>2, <2>7, <2>8, <2>9, <2>10 DEF PipeInv
  <1>. QED
    BY <1>11, <1>12

\* The server cannot be connected to: nothing is sent, and nothing was unread.
LEMMA SendUnconnectedKeeps ==
    ASSUME ConnInv, SendUnconnected
    PROVE  ConnInv'
  <1>. USE DEF ConnInv
  <1>1. /\ inst \in Instance /\ inst.fd = "none" /\ inst.count = 0 /\ pipe = <<>>
        /\ pc' = "idle" /\ UNCHANGED <<up, eject, pipe, op>>
    BY DEF TypeOK, SendUnconnected, ConnectFails, NoConnection, PipeInv, Shape
  <1>2. inst' \in Instance /\ inst'.fd = "none" /\ inst'.count = 0
    <2>1. Unreached(inst) \in Instance /\ Unreached(inst).fd = "none" /\ Unreached(inst).count = 0
      BY <1>1, BackOffType DEF SameLink
    <2>. QED
      BY <2>1, CloseType DEF SendUnconnected
  <1>3. asked' = [asked EXCEPT !.early = Tries(inst) /\ idle # Never /\ idle <= RetryTimeout]
    BY DEF SendUnconnected, Attempt
  <1>4. /\ asked'.own = asked.own /\ asked'.unread = asked.unread
        /\ asked' \in [unread : BOOLEAN, answer : Kinds \cup {"none"}, own : BOOLEAN, early : BOOLEAN]
    BY <1>3 DEF TypeOK
  <1>5. idle' \in {Never} \cup 0..RetryTimeout + 1
    BY Limits DEF SendUnconnected, Attempt, TypeOK
  <1>6. Pending' = 0
    BY <1>1 DEF Pending
  <1>7. Shape(inst'.fd, inst'.count, pipe', Pending') /\ pipe' \in Seq(AnswerSet)
    BY <1>1, <1>2, <1>6, EmptyShape
  <1>8. TypeOK'
    BY <1>1, <1>2, <1>4, <1>5, <1>7 DEF TypeOK, AnswerSet
  <1>9. AnswerIsOwn'
    BY <1>1, <1>4 DEF AnswerIsOwn, PipeInv
  <1>. QED
    BY <1>1, <1>7, <1>8, <1>9 DEF PipeInv

(***************************************************************************)
(* The answer that a running operation takes is its own, if it owes its    *)
(* caller one.                                                             *)
(***************************************************************************)
LEMMA TakeKeeps ==
    ASSUME ConnInv, pc = "read", TakeAnswer, UNCHANGED <<up, eject, op, idle>>,
           \/ pc' = "idle"
           \/ op = "get" /\ pc' = pc
    PROVE  ConnInv'
  <1>. USE DEF ConnInv
  <1>0. Pending \in {0, 1} /\ Pending' \in {0, 1} /\ Pending' = 0
    BY DEF Pending
  <1>1. /\ inst' \in Instance /\ inst'.fd = inst.fd /\ pipe' \in Seq(AnswerSet)
        /\ Shape(inst'.fd, inst'.count, pipe', 0)
        /\ \A j \in 1..Len(pipe') : j + 1 \in 1..Len(pipe) /\ pipe'[j] = pipe[j + 1]
        /\ Head(pipe) = pipe[1] /\ Head(pipe) \in AnswerSet /\ 1 \in 1..Len(pipe)
    <2>1. inst.fd # "none"
      BY DEF PipeInv
    <2>. QED
      BY <1>0, <2>1, ReadOneKeeps DEF TakeAnswer
  <1>2. asked' = [asked EXCEPT !.answer = Head(pipe).kind, !.own = Head(pipe).own]
    BY DEF TakeAnswer
  <1>3. /\ asked'.own = Head(pipe).own /\ asked'.unread = asked.unread
        /\ asked' \in [unread : BOOLEAN, answer : Kinds \cup {"none"}, own : BOOLEAN, early : BOOLEAN]
    BY <1>1, <1>2 DEF TypeOK, AnswerSet
  <1>4. Certain' <=> Certain
    BY <1>3 DEF Certain
  <1>5. Certain => Head(pipe).own /\ \A j \in 1..Len(pipe') : pipe'[j].own
    BY <1>1 DEF PipeInv
  <1>6. AnswerIsOwn'
    <2>1. CASE Certain
      <3>1. asked'.own
        BY <1>3, <1>5, <2>1
      <3>. QED
        BY <3>1 DEF AnswerIsOwn
    <2>2. CASE ~Certain
      <3>1. op \in {"put", "delete"} /\ asked.unread
        BY <2>2 DEF Certain, PipeInv, TypeOK
      <3>. QED
        BY <1>3, <3>1 DEF AnswerIsOwn
    <2>. QED
      BY <2>1, <2>2
  <1>7. TypeOK'
    BY <1>1, <1>3 DEF TypeOK, AnswerSet
  <1>8. pc' = "read" => inst'.fd # "none" /\ op' # "none"
    BY <1>1 DEF PipeInv
  <1>. QED
    BY <1>0, <1>1, <1>4, <1>5, <1>6, <1>7, <1>8 DEF PipeInv

(***************************************************************************)
(* A read that fails.                                                      *)
(***************************************************************************)
LEMMA NoAnswerKeeps ==
    ASSUME ConnInv, NoAnswer, pc' = "idle", UNCHANGED <<up, eject, op, idle>>
    PROVE  ConnInv'
  <1>1. inst' = CloseSocket(inst) /\ UNCHANGED asked /\ inst \in Instance
    BY DEF NoAnswer, ReadError, ConnInv, TypeOK
  <1>2. inst' \in Instance /\ inst'.fd = "none" /\ inst'.count = 0
    BY <1>1, CloseType
  <1>3. pipe' = <<>>
    BY <1>1, <1>2 DEF NoAnswer, KeptOnError, ReadError
  <1>4. idle' \in {Never} \cup 0..RetryTimeout + 1
    BY DEF TypeOK, ConnInv
  <1>. QED
    BY <1>1, <1>2, <1>3, <1>4, ClosedKeeps

\* The answer of a set or a delete is read, or the connection is closed.
LEMMA ReadKeeps ==
    ASSUME ConnInv, Read \/ Fetch
    PROVE  ConnInv'
  <1>1. pc = "read" /\ UNCHANGED <<up, eject, op, idle>>
    BY DEF Read, Fetch
  <1>2. CASE TakeAnswer /\ (pc' = "idle" \/ (op = "get" /\ pc' = pc))
    BY <1>1, <1>2, TakeKeeps
  <1>3. CASE NoAnswer /\ pc' = "idle"
    BY <1>1, <1>3, NoAnswerKeeps
  <1>4. CASE op = "get" /\ pc' = "idle" /\ UNCHANGED <<inst, pipe, asked>>
    <2>1. Pending = 0 /\ Pending' = 0
      BY <1>4 DEF Pending
    <2>2. TypeOK'
      BY <1>1, <1>4 DEF ConnInv, TypeOK
    <2>3. AnswerIsOwn'
      BY <1>1, <1>4 DEF AnswerIsOwn, ConnInv, PipeInv
    <2>. QED
      BY <1>4, <2>1, <2>2, <2>3 DEF ConnInv, PipeInv
  <1>. QED
    BY <1>2, <1>3, <1>4 DEF Read, Fetch

\* A request that cannot be sent closes the connection.
LEMMA SendFailsKeeps ==
    ASSUME ConnInv, SendFails
    PROVE  ConnInv'
  <1>1. inst \in Instance /\ pipe' = <<>> /\ pc' = "idle" /\ UNCHANGED <<up, eject, op, asked>>
    BY DEF SendFails, ConnInv, TypeOK
  <1>2. inst' \in Instance /\ inst'.fd = "none" /\ inst'.count = 0
    BY <1>1, CloseType, FreshType DEF SendFails
  <1>3. idle' \in {Never} \cup 0..RetryTimeout + 1
    BY DEF SendFails, ConnInv, TypeOK
  <1>. QED
    BY <1>1, <1>2, <1>3, ClosedKeeps

\* memcached_quit closes the connection.
LEMMA QuitKeeps ==
    ASSUME ConnInv, Quit
    PROVE  ConnInv'
  <1>1. /\ inst \in Instance /\ pipe' = <<>> /\ pc' = "idle"
        /\ UNCHANGED <<up, eject, op, asked, idle>>
    BY DEF Quit, ConnInv, TypeOK
  <1>. DEFINE c == CloseSocket(NewQuery(inst))
  <1>2. c \in Instance /\ c.fd = "none" /\ c.count = 0
    BY <1>1, CloseType, FreshType
  <1>3. inst' = [c EXCEPT !.fails = 0, !.timeouts = 0] /\ 0 \in 0..FailureLimit /\ 0 \in 0..TimeoutLimit
    BY Limits DEF Quit
  <1>4. inst' \in Instance /\ inst'.fd = "none" /\ inst'.count = 0
    <2>. HIDE DEF c
    <2>. QED
      BY <1>2, <1>3 DEF Instance
  <1>5. idle' \in {Never} \cup 0..RetryTimeout + 1
    BY <1>1 DEF ConnInv, TypeOK
  <1>. QED
    BY <1>1, <1>4, <1>5, ClosedKeeps

\* A server that fails leaves a connection that is dead.
LEMMA ServerFailsKeeps ==
    ASSUME ConnInv, ServerFails
    PROVE  ConnInv'
  <1>. USE DEF ConnInv
  <1>1. /\ inst \in Instance /\ pipe \in Seq(AnswerSet) /\ UNCHANGED <<eject, pc, op, asked, idle>>
        /\ inst.fd \in {"none", "ok", "dead"} /\ inst.count \in Nat
        /\ up' = FALSE
    BY DEF TypeOK, ServerFails, AnswerSet, Instance
  <1>2. Pending \in {0, 1} /\ Pending' = Pending
    BY <1>1 DEF Pending
  <1>3. PICK n \in 0..Len(pipe) : pipe' = SubSeq(pipe, 1, n)
    BY DEF ServerFails
  <1>4. /\ inst' \in Instance /\ inst'.count = inst.count
        /\ inst'.fd = IF inst.fd = "ok" THEN "dead" ELSE inst.fd
    BY <1>1 DEF ServerFails, Instance
  <1>5. /\ pipe' \in Seq(AnswerSet)
        /\ Shape(IF inst.fd = "ok" THEN "dead" ELSE inst.fd, inst.count, pipe', Pending)
        /\ \A j \in 1..Len(pipe') : j \in 1..Len(pipe) /\ pipe'[j] = pipe[j]
    BY <1>1, <1>2, <1>3, CutShape DEF PipeInv
  <1>6. Shape(inst'.fd, inst'.count, pipe', Pending')
    BY <1>2, <1>4, <1>5
  <1>7. TypeOK'
    BY <1>1, <1>4, <1>5 DEF TypeOK, AnswerSet
  <1>8. AnswerIsOwn' /\ (Certain' <=> Certain)
    BY <1>1 DEF AnswerIsOwn, Certain, PipeInv
  <1>. QED
    BY <1>1, <1>4, <1>5, <1>6, <1>7, <1>8 DEF PipeInv

\* Time passes.
LEMMA TickKeeps ==
    ASSUME ConnInv, Tick
    PROVE  ConnInv'
  <1>. USE DEF ConnInv
  <1>1. inst \in Instance /\ UNCHANGED <<up, eject, pipe, pc, op, asked>>
    BY DEF TypeOK, Tick
  <1>2. inst' \in Instance /\ inst'.fd = inst.fd /\ inst'.count = inst.count
    <2>1. inst.retry \in Never..Longest
      BY <1>1 DEF Instance
    <2>2. inst.retry >= 0 => inst.retry - 1 \in Never..Longest
      BY <2>1, Limits
    <2>. QED
      BY <1>1, <2>2 DEF Tick, Instance
  <1>3. idle' \in {Never} \cup 0..RetryTimeout + 1
    BY Limits DEF Tick, TypeOK
  <1>4. TypeOK'
    BY <1>1, <1>2, <1>3 DEF TypeOK
  <1>. QED
    BY <1>1, <1>2, <1>4 DEF PipeInv, Pending, Certain, AnswerIsOwn

(***************************************************************************)
(* Every step keeps the pipeline in order.                                 *)
(***************************************************************************)
LEMMA ConnStep ==
    ConnInv /\ [Next]_vars => ConnInv'
  <1>. SUFFICES ASSUME ConnInv, [Next]_vars PROVE ConnInv'
    OBVIOUS
  <1>1. CASE UNCHANGED vars
    BY <1>1 DEF ConnInv, TypeOK, PipeInv, Pending, Certain, AnswerIsOwn, vars
  <1>2. CASE ServerReturns
    BY <1>2 DEF ConnInv, TypeOK, PipeInv, Pending, Certain, AnswerIsOwn, ServerReturns
  <1>. QED
    BY <1>1, <1>2, StartKeeps, DrainKeeps, PurgeKeeps, SendOkKeeps, SendUnconnectedKeeps,
       SendFailsKeeps, ReadKeeps, QuitKeeps, ServerFailsKeeps, TickKeeps DEF Next, Continue

\* Nothing is connected at first.
LEMMA ConnInit ==
    Init => ConnInv
  <1>. SUFFICES ASSUME Init PROVE ConnInv
    OBVIOUS
  <1>1. TypeOK
    BY FreshType, EmptyShape DEF Init, TypeOK, AnswerSet
  <1>2. Pending = 0
    BY DEF Init, Pending
  <1>. QED
    BY <1>1, <1>2, FreshType, EmptyShape DEF Init, ConnInv, PipeInv, AnswerIsOwn

(***************************************************************************)
(* The fields of the instance keep their types; cursor_active_, which is   *)
(* unsigned, never goes below zero.                                        *)
(***************************************************************************)
THEOREM TypeCorrect == Spec => []TypeOK
  <1>1. ConnInv => TypeOK
    BY DEF ConnInv
  <1>. QED
    BY <1>1, ConnInit, ConnStep, PTL DEF Spec

(***************************************************************************)
(* cursor_active_ counts exactly the answers that are still on an intact   *)
(* connection, so that the drain before a multi-get leaves nothing behind. *)
(***************************************************************************)
THEOREM CursorCounts == Spec => []AnswersCounted
  <1>1. ASSUME ConnInv PROVE AnswersCounted
    <2>1. pipe \in Seq(AnswerSet) /\ inst.count \in Nat
      BY <1>1 DEF ConnInv, TypeOK, AnswerSet, Instance
    <2>2. Finals(pipe) = Len(pipe) - Values(pipe)
      BY <1>1, <2>1, FinalsCount DEF ConnInv, PipeInv, Shape
    <2>3. Values(pipe) \in {0, 1} /\ Len(pipe) \in Nat
      BY <2>1, SeqFacts
    <2>4. inst.fd = "ok" => Len(pipe) = inst.count + Values(pipe)
      BY <1>1 DEF ConnInv, PipeInv, Shape
    <2>5. inst.fd = "ok" => inst.count = Finals(pipe)
      BY <2>1, <2>2, <2>3, <2>4
    <2>. QED
      BY <1>1, <2>5 DEF ConnInv, PipeInv, Shape, AnswersCounted
  <1>. QED
    BY <1>1, ConnInit, ConnStep, PTL DEF Spec

(***************************************************************************)
(* No get and no set of the erasure code takes another request's answer    *)
(* for its own, and a delete or plain set does only if answers were unread *)
(* when it began.                                                          *)
(***************************************************************************)
THEOREM OwnAnswers == Spec => []AnswerIsOwn
  <1>1. ConnInv => AnswerIsOwn
    BY DEF ConnInv, PipeInv
  <1>. QED
    BY <1>1, ConnInit, ConnStep, PTL DEF Spec

(***************************************************************************)
(* However long the client runs, no more than three answers are unread.    *)
(***************************************************************************)
THEOREM UnreadBounded == Spec => []FewUnread
  <1>1. ASSUME ConnInv PROVE FewUnread
    <2>1. pipe \in Seq(AnswerSet) /\ inst.count \in Nat /\ inst.fd \in {"none", "ok", "dead"}
      BY <1>1 DEF ConnInv, TypeOK, AnswerSet, Instance
    <2>2. Values(pipe) \in {0, 1} /\ Len(pipe) \in Nat /\ Len(<<>>) = 0
      BY <2>1, SeqFacts, EmptyShape
    <2>3. Pending \in {0, 1}
      BY DEF Pending
    <2>4. /\ inst.count <= 2 + Pending
          /\ HasValue(pipe) => inst.count = 1 + Pending
          /\ inst.fd \in {"ok", "dead"} => Len(pipe) <= inst.count + Values(pipe)
          /\ inst.fd = "none" => pipe = <<>>
      BY <1>1, <2>1, <2>2 DEF ConnInv, PipeInv, Shape
    <2>5. inst.count <= 3
      BY <2>1, <2>3, <2>4
    <2>6. CASE HasValue(pipe)
      BY <2>1, <2>2, <2>3, <2>4, <2>6 DEF FewUnread
    <2>7. CASE ~HasValue(pipe)
      <3>1. Values(pipe) = 0
        BY <2>7 DEF Values
      <3>. QED
        BY <2>1, <2>2, <2>3, <2>4, <2>5, <3>1 DEF FewUnread
    <2>. QED
      BY <2>6, <2>7
  <1>. QED
    BY <1>1, ConnInit, ConnStep, PTL DEF Spec

----------------------------------------------------------------------------
(***************************************************************************)
(* The back-off.  While server_failure_limit is reached, next_retry is     *)
(* retry_timeout after the last failed attempt: every failed attempt sets  *)
(* it.  That is so if one failed attempt is enough to count, that is if    *)
(* server_timeout_limit is at most one (it is 0 unless it is set); with a  *)
(* higher one backoff_handling resets server_timeout_counter before every  *)
(* attempt, and next_retry is not set again.                               *)
(***************************************************************************)
BackOffInv ==
    /\ inst.fails >= FailureLimit =>
          inst.retry \in Passed..RetryTimeout /\ idle = RetryTimeout - inst.retry
    /\ pc \in {"drain", "send"} => ~inst.timeoutCounted

\* What the back-off depends on.
SameCounters(i, j) ==
    j.fails = i.fails /\ j.retry = i.retry /\ j.timeoutCounted = i.timeoutCounted

(***************************************************************************)
(* A failed attempt sets next_retry.                                       *)
(***************************************************************************)
LEMMA AttemptSetsRetry ==
    ASSUME TimeoutLimit <= 1, NEW i \in Instance, ~i.timeoutCounted
    PROVE  MarkForTimeout(Retrying(i)).retry = RetryTimeout
  <1>. DEFINE r == Retrying(i)
  <1>1. r \in Instance
    BY BackOffType
  <1>2. r.state # "IN_TIMEOUT" /\ ~r.timeoutCounted
    <2>1. BackedOff(i) \in Instance /\ BackedOff(i).timeoutCounted = i.timeoutCounted
      BY BackOffType DEF BackedOff, Instance
    <2>. QED
      BY <2>1 DEF Retrying, Instance
  <1>. HIDE DEF r
  <1>. DEFINE n == IF r.timeoutCounted THEN r.timeouts ELSE UpTo(TimeoutLimit, r.timeouts + 1)
              m == IF r.failCounted THEN r.fails ELSE UpTo(FailureLimit, r.fails + 1)
  <1>3. ~(n < TimeoutLimit)
    BY <1>1, <1>2, Limits DEF UpTo, Instance
  <1>4. MarkForTimeout(r) =
            [r EXCEPT !.timeouts = n, !.timeoutCounted = TRUE,
                      !.retry = RetryTimeout, !.state = "IN_TIMEOUT",
                      !.fails = m, !.failCounted = TRUE]
    BY <1>2, <1>3 DEF MarkForTimeout
  <1>5. MarkForTimeout(r).retry = RetryTimeout
    <2>. HIDE DEF n, m
    <2>. QED
      BY <1>1, <1>4 DEF Instance
  <1>. QED
    BY <1>5 DEF r

(***************************************************************************)
(* A server that is not tried keeps its next_retry, or is given a last     *)
(* chance with one failure less.                                           *)
(***************************************************************************)
LEMMA DisabledKeepsRetry ==
    ASSUME NEW i \in Instance, i.fails >= FailureLimit => i.retry # Never,
           Disabled(i).fails >= FailureLimit
    PROVE  i.fails >= FailureLimit /\ Disabled(i).retry = i.retry
  <1>1. i.fails \in Nat
    BY Limits DEF Instance
  <1>2. CASE ~MarkedDead(i)
    <2>1. Disabled(i) = BackedOff(i)
      BY <1>2 DEF Disabled
    <2>2. CASE i.fails < FailureLimit
      BY <1>1, <2>1, <2>2, Limits DEF BackedOff
    <2>3. CASE ~(i.fails < FailureLimit)
      <3>1. i.fails >= FailureLimit /\ i.retry # Never
        BY <1>1, <2>3, Limits
      <3>2. BackedOff(i) = [i EXCEPT !.state = "IN_TIMEOUT", !.retry = i.retry]
        BY <2>3, <3>1 DEF BackedOff
      <3>. QED
        BY <2>1, <3>1, <3>2 DEF Instance
    <2>. QED
      BY <2>2, <2>3
  <1>3. CASE MarkedDead(i) /\ DeadTimeout = 0
    BY <1>3 DEF Disabled, MarkedDead
  <1>4. CASE MarkedDead(i) /\ DeadTimeout # 0
    <2>1. Disabled(i).fails = FailureLimit - 1
      BY <1>4 DEF Disabled, Instance
    <2>. QED
      BY <2>1, Limits
  <1>. QED
    BY <1>2, <1>3, <1>4

\* Every step keeps BackOffInv, with a timeout limit of at most one.
LEMMA BackOffStep ==
    ASSUME TimeoutLimit <= 1
    PROVE  ConnInv /\ BackOffInv /\ [Next]_vars => BackOffInv'
  <1>. SUFFICES ASSUME ConnInv, BackOffInv, [Next]_vars PROVE BackOffInv'
    OBVIOUS
  <1>0. inst \in Instance /\ inst.fails \in Nat
    BY Limits DEF ConnInv, TypeOK, Instance
  <1>1. ASSUME SameCounters(inst, inst'), idle' = idle,
               pc' \in {"drain", "send"} => pc \in {"drain", "send"}
        PROVE  BackOffInv'
    BY <1>1 DEF BackOffInv, SameCounters
  <1>2. CASE UNCHANGED vars
    BY <1>1, <1>2 DEF vars, SameCounters
  <1>3. CASE Start
    <2>1. inst' = NewQuery(inst) /\ idle' = idle
      BY <1>3 DEF Start, Begin
    <2>2. inst'.fails = inst.fails /\ inst'.retry = inst.retry /\ ~inst'.timeoutCounted
      BY <1>0, <2>1, FreshType
    <2>. QED
      BY <2>1, <2>2 DEF BackOffInv
  <1>4. SameCounters(inst, CloseSocket(inst))
    BY <1>0, CloseType DEF SameCounters
  <1>5. SameCounters(inst, ReadOne(inst))
    BY <1>0 DEF ReadOne, SameCounters, Instance
  <1>6. CASE Drain
    <2>1. inst' \in {inst, ReadOne(inst), CloseSocket(inst)}
      BY <1>6 DEF Drain, NoAnswer, ReadError
    <2>. QED
      BY <1>1, <1>4, <1>5, <1>6, <2>1 DEF Drain, SameCounters
  <1>7. CASE Purge
    <2>1. SameCounters(inst, inst')
      BY <1>0, <1>4, <1>7 DEF Purge, SameCounters, Instance
    <2>. QED
      BY <1>1, <1>7, <2>1 DEF Purge
  <1>8. CASE SendOk
    <2>1. pc' \notin {"drain", "send"}
      BY <1>8 DEF SendOk
    <2>2. Reached(inst) \in Instance
      BY <1>0, ReachedType
    <2>3. inst'.fails = Reached(inst).fails /\ inst'.retry = Reached(inst).retry
      BY <1>8, <2>2 DEF SendOk, Instance
    <2>4. CASE inst.fd = "none"
      <3>1. inst'.fails = 0
        BY <1>0, <2>3, <2>4, ReachedType
      <3>2. ~(inst'.fails >= FailureLimit)
        BY <3>1, Limits
      <3>. QED
        BY <2>1, <3>2 DEF BackOffInv
    <2>5. CASE inst.fd # "none"
      <3>1. inst'.fails = inst.fails /\ inst'.retry = inst.retry
        BY <1>0, <2>3, <2>5, ReachedType
      <3>2. idle' = idle
        BY <1>8, <2>5 DEF SendOk, Attempt, Tries, NoConnection
      <3>. QED
        BY <2>1, <3>1, <3>2 DEF BackOffInv
    <2>. QED
      BY <2>4, <2>5
  <1>9. CASE SendUnconnected
    <2>. DEFINE u == Unreached(inst)
    <2>1. /\ pc' = "idle" /\ pc = "send" /\ inst.fd = "none" /\ ~(MayTry(inst) /\ up)
          /\ inst' \in {u, CloseSocket(u)}
      BY <1>9 DEF SendUnconnected, ConnectFails, NoConnection
    <2>2. u \in Instance
      BY <1>0, BackOffType
    <2>3. inst'.fails = u.fails /\ inst'.retry = u.retry
      BY <2>1, <2>2, CloseType
    <2>4. CASE MayTry(inst)
      <3>1. u.retry = RetryTimeout
        <4>1. ~inst.timeoutCounted
          BY <2>1 DEF BackOffInv
        <4>. QED
          BY <1>0, <2>4, <4>1, AttemptSetsRetry DEF Unreached
      <3>2. idle' = 0
        BY <1>9, <2>1, <2>4 DEF SendUnconnected, Attempt, Tries, NoConnection
      <3>. HIDE DEF u
      <3>3. inst'.retry \in Passed..RetryTimeout /\ idle' = RetryTimeout - inst'.retry
        BY <2>3, <3>1, <3>2, Limits
      <3>. QED
        BY <2>1, <3>3 DEF BackOffInv
    <2>5. CASE ~MayTry(inst)
      <3>1. u = Disabled(inst)
        BY <2>5 DEF Unreached
      <3>2. idle' = idle
        BY <1>9, <2>5 DEF SendUnconnected, Attempt, Tries
      <3>3. inst.fails >= FailureLimit => inst.retry # Never
        BY Limits DEF BackOffInv
      <3>4. u.fails >= FailureLimit => inst.fails >= FailureLimit /\ u.retry = inst.retry
        BY <1>0, <3>1, <3>3, DisabledKeepsRetry
      <3>. HIDE DEF u
      <3>. QED
        BY <2>1, <2>3, <3>2, <3>4 DEF BackOffInv
    <2>. QED
      BY <2>4, <2>5
  <1>10. CASE SendFails
    <2>1. pc' = "idle"
      BY <1>10 DEF SendFails
    <2>2. CASE inst' = Fresh
      <3>1. ~(inst'.fails >= FailureLimit)
        BY <2>2, FreshType, Limits
      <3>. QED
        BY <2>1, <3>1 DEF BackOffInv
    <2>3. CASE inst' # Fresh
      <3>1. inst' = CloseSocket(inst) /\ idle' = idle
        BY <1>10, <2>3 DEF SendFails
      <3>. QED
        BY <1>1, <1>4, <2>1, <3>1
    <2>. QED
      BY <2>2, <2>3
  <1>11. CASE Read \/ Fetch
    <2>1. inst' \in {inst, ReadOne(inst), CloseSocket(inst)}
      BY <1>11 DEF Read, Fetch, TakeAnswer, NoAnswer, ReadError
    <2>2. SameCounters(inst, inst') /\ idle' = idle
      BY <1>4, <1>5, <1>11, <2>1 DEF Read, Fetch, SameCounters
    <2>3. pc = "read" /\ pc' \in {"read", "idle"}
      BY <1>11 DEF Read, Fetch
    <2>. QED
      BY <1>1, <2>2, <2>3
  <1>12. CASE Quit
    <2>1. NewQuery(inst) \in Instance /\ CloseSocket(NewQuery(inst)) \in Instance
      BY <1>0, CloseType, FreshType
    <2>2. inst'.fails = 0 /\ pc' = "idle"
      BY <1>12, <2>1 DEF Quit, Instance
    <2>. QED
      BY <2>2, Limits DEF BackOffInv
  <1>13. CASE ServerFails \/ ServerReturns
    <2>1. SameCounters(inst, inst')
      BY <1>0, <1>13 DEF ServerFails, ServerReturns, SameCounters, Instance
    <2>. QED
      BY <1>1, <1>13, <2>1 DEF ServerFails, ServerReturns
  <1>14. CASE Tick
    <2>1. inst'.fails = inst.fails /\ inst'.timeoutCounted = inst.timeoutCounted /\ pc' = pc
      BY <1>0, <1>14 DEF Tick, Instance
    <2>2. inst'.retry = IF inst.retry >= 0 THEN inst.retry - 1 ELSE inst.retry
      BY <1>0, <1>14 DEF Tick, Instance
    <2>3. idle' = IF idle = Never THEN Never ELSE IF idle > RetryTimeout THEN idle ELSE idle + 1
      BY <1>14 DEF Tick
    <2>4. ASSUME inst.retry \in Passed..RetryTimeout, idle = RetryTimeout - inst.retry
          PROVE  inst'.retry \in Passed..RetryTimeout /\ idle' = RetryTimeout - inst'.retry
      <3>1. CASE inst.retry >= 0
        BY <2>2, <2>3, <2>4, <3>1, Limits
      <3>2. CASE ~(inst.retry >= 0)
        BY <2>2, <2>3, <2>4, <3>2, Limits
      <3>. QED
        BY <3>1, <3>2
    <2>. QED
      BY <2>1, <2>4 DEF BackOffInv
  <1>. QED
    BY <1>2, <1>3, <1>6, <1>7, <1>8, <1>9, <1>10, <1>11, <1>12, <1>13, <1>14 DEF Next, Continue

(***************************************************************************)
(* With server_timeout_limit 0 or 1, a server that has reached             *)
(* server_failure_limit is not tried before retry_timeout has passed,      *)
(* whichever operations ask for it and whatever they do to the instance.   *)
(***************************************************************************)
THEOREM FailedServerLeftAlone ==
    ASSUME TimeoutLimit <= 1
    PROVE  Spec => DisabledLeftAlone
  <1>1. Init => BackOffInv
    BY FreshType, Limits DEF Init, BackOffInv
  <1>2. ConnInv /\ BackOffInv /\ [Next]_vars =>
            [asked'.early /\ ~asked.early => inst.fails < FailureLimit]_vars
    <2>. SUFFICES ASSUME ConnInv, BackOffInv, Next, asked'.early, ~asked.early,
                         ~(inst.fails < FailureLimit)
                  PROVE  FALSE
      OBVIOUS
    <2>0. inst \in Instance /\ inst.fails \in Nat /\ inst.fails >= FailureLimit
      BY Limits DEF ConnInv, TypeOK, Instance
    <2>1. CASE Attempt(inst)
      <3>1. Tries(inst) /\ idle # Never /\ idle <= RetryTimeout
        BY <2>1 DEF Attempt, ConnInv, TypeOK
      <3>2. BackedOff(inst).state = "IN_TIMEOUT" /\ BackedOff(inst).retry = inst.retry
        <4>1. inst.retry # Never
          BY <2>0, Limits DEF BackOffInv
        <4>2. BackedOff(inst) = [inst EXCEPT !.state = "IN_TIMEOUT", !.retry = inst.retry]
          BY <2>0, <4>1 DEF BackedOff
        <4>. QED
          BY <2>0, <4>2 DEF Instance
      <3>3. inst.retry \in {Passed, Never}
        BY <3>1, <3>2 DEF Tries, MayTry, RetryDue
      <3>4. inst.retry \in Passed..RetryTimeout /\ idle = RetryTimeout - inst.retry
        BY <2>0 DEF BackOffInv
      <3>. QED
        BY <3>1, <3>3, <3>4, Limits
    <2>2. CASE Start
      BY <2>2 DEF Start, Begin
    <2>3. CASE TakeAnswer
      BY <2>3 DEF TakeAnswer, ConnInv, TypeOK
    <2>4. CASE UNCHANGED asked
      BY <2>4
    <2>. QED
      BY <2>1, <2>2, <2>3, <2>4 DEF Next, Continue, Drain, Purge, SendOk, SendUnconnected,
         SendFails, Read, Fetch, NoAnswer, Quit, ServerFails, ServerReturns, Tick
  <1>. QED
    BY <1>1, <1>2, ConnInit, ConnStep, BackOffStep, PTL DEF Spec, DisabledLeftAlone
============================================================================
