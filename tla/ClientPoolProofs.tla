-------------------------- MODULE ClientPoolProofs --------------------------
(***************************************************************************)
(* Proofs about the pool of client handles, for any number of threads and  *)
(* handles, any pool size and any number of behaviour changes.             *)
(***************************************************************************)
EXTENDS ClientPool, SequenceLemmas, FiniteSetTheorems

----------------------------------------------------------------------------
(***************************************************************************)
(* Popping a non-empty stack: what is left, and where the top was.         *)
(***************************************************************************)
LEMMA FrontFacts ==
    ASSUME NEW s \in Seq(Handles), s # <<>>
    PROVE  /\ Front(s) \in Seq(Handles) /\ Last(s) \in Handles
           /\ Len(Front(s)) = Len(s) - 1
           /\ Range(s) = Range(Front(s)) \cup {Last(s)}
           /\ IsInjective(s) => IsInjective(Front(s)) /\ Last(s) \notin Range(Front(s))
  <1>1. /\ Len(s) \in Nat \ {0} /\ DOMAIN s = 1..Len(s)
        /\ \A i \in 1..Len(s) : s[i] \in Handles
    BY EmptySeq, LenProperties, ElementOfSeq
  <1>2. /\ Front(s) \in Seq(Handles) /\ Len(Front(s)) = Len(s) - 1
        /\ \A i \in 1..Len(s) - 1 : Front(s)[i] = s[i]
    <2>1. Len(s) - 1 \in 0..Len(s)
      BY <1>1
    <2>. QED
      BY <2>1, PrefixFacts DEF Front
  <1>3. DOMAIN Front(s) = 1..Len(s) - 1
    BY <1>2, LenProperties
  <1>4. Last(s) = s[Len(s)] /\ Last(s) \in Handles
    BY <1>1 DEF Last
  <1>5. Range(s) = Range(Front(s)) \cup {Last(s)}
    BY <1>1, <1>2, <1>3, <1>4, LastIndex DEF Range
  <1>6. ASSUME IsInjective(s)
        PROVE  IsInjective(Front(s)) /\ Last(s) \notin Range(Front(s))
    BY <1>1, <1>2, <1>3, <1>4, <1>6, LastIndex DEF IsInjective, Range
  <1>. QED
    BY <1>2, <1>4, <1>5, <1>6

(***************************************************************************)
(* Pushing a handle.                                                       *)
(***************************************************************************)
LEMMA AppendFacts ==
    ASSUME NEW s \in Seq(Handles), NEW h \in Handles
    PROVE  /\ Append(s, h) \in Seq(Handles) /\ Append(s, h) # <<>>
           /\ Len(Append(s, h)) = Len(s) + 1
           /\ Range(Append(s, h)) = Range(s) \cup {h}
           /\ IsInjective(s) /\ h \notin Range(s) => IsInjective(Append(s, h))
           /\ Front(Append(s, h)) = s /\ Last(Append(s, h)) = h
  <1>1. /\ Len(s) \in Nat /\ DOMAIN s = 1..Len(s)
    BY LenProperties
  <1>2. /\ Append(s, h) \in Seq(Handles) /\ Append(s, h) # <<>>
        /\ Len(Append(s, h)) = Len(s) + 1
        /\ \A i \in 1..Len(s) : Append(s, h)[i] = s[i]
        /\ Append(s, h)[Len(s) + 1] = h
    BY AppendProperties
  <1>3. DOMAIN Append(s, h) = 1..Len(s) + 1
    BY <1>2, LenProperties
  <1>4. \A i \in 1..Len(s) + 1 : i \in 1..Len(s) \/ i = Len(s) + 1
    BY <1>1
  <1>5. 1..Len(s) \subseteq 1..Len(s) + 1 /\ Len(s) + 1 \in 1..Len(s) + 1
    BY <1>1
  <1>6. Range(Append(s, h)) = Range(s) \cup {h}
    BY <1>1, <1>2, <1>3, <1>4, <1>5 DEF Range
  <1>7. IsInjective(s) /\ h \notin Range(s) => IsInjective(Append(s, h))
    BY <1>1, <1>2, <1>3, <1>4, <1>5 DEF Range, IsInjective
  <1>8. Last(Append(s, h)) = h
    BY <1>2 DEF Last
  <1>9. Front(Append(s, h)) = s
    <2>. DEFINE a == Append(s, h)
    <2>1. /\ Front(a) \in Seq(Handles) /\ Len(Front(a)) = Len(a) - 1
      BY <1>2, FrontFacts
    <2>2. Len(s) \in 0..Len(a)
      BY <1>1, <1>2
    <2>3. \A i \in 1..Len(s) : SubSeq(a, 1, Len(s))[i] = a[i]
      BY <1>2, <2>2, PrefixFacts
    <2>4. Front(a) = SubSeq(a, 1, Len(s))
      BY <1>1, <1>2 DEF Front
    <2>5. \A i \in 1..Len(s) : Front(a)[i] = s[i]
      BY <1>1, <1>2, <2>3, <2>4
    <2>. HIDE DEF a
    <2>. QED
      BY <1>1, <1>2, <2>1, <2>5, SeqEqual DEF a
  <1>. QED
    BY <1>2, <1>6, <1>7, <1>8, <1>9

----------------------------------------------------------------------------
(***************************************************************************)
(* Type correctness, action by action.                                     *)
(***************************************************************************)
LEMMA CloneType ==
    ASSUME TypeOK
    PROVE  /\ Clone \in [ver : 0..MaxChanges, set : [Flags -> Setting]]
           /\ Blank \in [ver : 0..MaxChanges, set : [Flags -> Setting]]
  BY PoolAssumption DEF TypeOK, Clone, Blank, Setting

\* A thread that takes the last free handle (fetch).
LEMMA TakeType ==
    ASSUME TypeOK, NEW t \in Threads, NEW s \in Seq(Handles), s # <<>>, Take(t, s)
    PROVE  /\ pool' \in Seq(Handles)
           /\ held' \in [Threads -> SUBSET Handles]
           /\ pc' \in [Threads -> {"idle", "waiting", "woken"}]
  <1>1. Front(s) \in Seq(Handles) /\ Last(s) \in Handles
    BY FrontFacts
  <1>. QED
    BY <1>1 DEF TypeOK, Take, Finish

\* One turn of the loop in fetch: take, grow, fail or wait.
LEMMA TurnType ==
    ASSUME TypeOK, NEW t \in Threads, NEW block \in BOOLEAN, Turn(t, block)
    PROVE  TypeOK'
  <1>1. CASE pool # <<>> /\ Take(t, pool) /\ UNCHANGED <<handle, currentSize, failed>>
    <2>1. pool \in Seq(Handles)
      BY DEF TypeOK
    <2>. QED
      BY <1>1, <2>1, TakeType DEF TypeOK, Turn
  <1>2. CASE /\ pool = <<>> /\ ~MayGrow
             /\ pc' = [pc EXCEPT ![t] = IF block THEN "waiting" ELSE "idle"]
             /\ UNCHANGED <<pool, held, handle, currentSize, failed>>
    BY <1>2 DEF TypeOK, Turn
  <1>3. CASE pool = <<>> /\ Grow(t)
    <2>1. ASSUME NEW h \in Handles \ Live,
                 MayGrow,
                 handle' = [handle EXCEPT ![h] = Clone],
                 currentSize' = currentSize + 1,
                 Take(t, Append(pool, h)), UNCHANGED failed
          PROVE  TypeOK'
      <3>1. Append(pool, h) \in Seq(Handles) /\ Append(pool, h) # <<>>
        BY AppendFacts DEF TypeOK
      <3>2. currentSize' \in 0..Size
        BY <2>1, PoolAssumption DEF TypeOK, MayGrow
      <3>3. handle' \in [Handles -> [ver : 0..MaxChanges, set : [Flags -> Setting]]]
        BY <2>1, CloneType DEF TypeOK
      <3>. QED
        BY <2>1, <3>1, <3>2, <3>3, TakeType DEF TypeOK, Turn
    <2>2. ASSUME failed' = TRUE, Finish(t), UNCHANGED <<pool, held, handle, currentSize>>
          PROVE  TypeOK'
      BY <2>2 DEF TypeOK, Turn, Finish
    <2>. QED
      BY <1>3, <2>1, <2>2 DEF Grow
  <1>. QED
    BY <1>1, <1>2, <1>3 DEF Turn

\* Filling the pool when it is created.
LEMMA CreateType ==
    ASSUME TypeOK, NEW initial \in 1..Size, Create(initial)
    PROVE  TypeOK'
  <1>0. PICK n \in 0..initial : \E s \in [1..n -> Handles] :
          /\ n < initial => Failures
          /\ IsInjective(s)
          /\ pool' = s
          /\ currentSize' = n
          /\ handle' = [h \in Handles |-> IF h \in Range(s) THEN Clone ELSE Blank]
          /\ failed' = (failed \/ n < initial)
    BY DEF Create
  <1>1. PICK s \in [1..n -> Handles] :
          /\ n < initial => Failures
          /\ IsInjective(s)
          /\ pool' = s
          /\ currentSize' = n
          /\ handle' = [h \in Handles |-> IF h \in Range(s) THEN Clone ELSE Blank]
          /\ failed' = (failed \/ n < initial)
    BY <1>0
  <1>2. n \in 0..Size /\ n \in Nat
    BY PoolAssumption
  <1>3. s \in Seq(Handles)
    BY <1>2, FunctionIsSeq
  <1>4. handle' \in [Handles -> [ver : 0..MaxChanges, set : [Flags -> Setting]]]
    BY <1>1, CloneType
  <1>. QED
    BY <1>1, <1>2, <1>3, <1>4 DEF TypeOK, Create

\* Putting a handle back, renewed if it was stale.
LEMMA ReleaseType ==
    ASSUME TypeOK, NEW t \in Threads, NEW h \in Handles, Release(t, h)
    PROVE  TypeOK'
  <1>1. PICK g \in Renewed(h) :
          /\ pool' = Append(pool, g)
          /\ handle' = IF g = h THEN handle ELSE [handle EXCEPT ![g] = Clone, ![h] = Blank]
          /\ failed' = (failed \/ (g = h /\ handle[h].ver # version))
    BY DEF Release
  <1>2. g \in Handles
    BY <1>1 DEF Renewed
  <1>3. pool' \in Seq(Handles)
    BY <1>1, <1>2, AppendFacts DEF TypeOK
  <1>4. handle' \in [Handles -> [ver : 0..MaxChanges, set : [Flags -> Setting]]]
    BY <1>1, <1>2, CloneType DEF TypeOK
  <1>5. pc' \in [Threads -> {"idle", "waiting", "woken"}]
    BY DEF TypeOK, Release, Wake
  <1>6. held' \in [Threads -> SUBSET Handles]
    BY DEF TypeOK, Release
  <1>. QED
    BY <1>1, <1>3, <1>4, <1>5, <1>6 DEF TypeOK, Release

\* A change of a behaviour, on the master and on the free handles.
LEMMA BehaviorSetType ==
    ASSUME TypeOK, NEW f \in Flags, BehaviorSet(f)
    PROVE  TypeOK'
  <1>. DEFINE Handle == [ver : 0..MaxChanges, set : [Flags -> Setting]]
  <1>1. version + 1 \in 0..MaxChanges /\ NewVersion = version + 1
    BY PoolAssumption DEF TypeOK, BehaviorSet, NewVersion
  <1>2. master' \in [Flags -> 0..MaxChanges] /\ version' \in 0..MaxChanges
    BY <1>1 DEF TypeOK, BehaviorSet
  <1>3. PICK new \in [DOMAIN pool -> Handles], kept \in SUBSET Free :
          /\ pool' = new
          /\ failed' = (failed \/ kept # {})
          /\ handle' = [h \in Handles |->
                IF h \in Range(new) \ Live THEN [ver |-> NewVersion,
                        set |-> [g \in Flags |-> IF g \in Copied THEN master'[g] ELSE Unset]]
                ELSE IF h \in Free \ Range(new) THEN Blank
                ELSE IF h \in Updated \ kept THEN [ver |-> NewVersion,
                        set |-> [handle[h].set EXCEPT ![f] = version + 1]]
                ELSE handle[h]]
    BY DEF BehaviorSet
  <1>4. new \in Seq(Handles)
    <2>1. DOMAIN pool = 1..Len(pool) /\ Len(pool) \in Nat
      BY LenProperties DEF TypeOK
    <2>. QED
      BY <2>1, FunctionIsSeq
  <1>5. handle' \in [Handles -> Handle]
    <2>1. [ver |-> NewVersion,
           set |-> [g \in Flags |-> IF g \in Copied THEN master'[g] ELSE Unset]] \in Handle
      BY <1>1, <1>2 DEF Setting
    <2>2. Blank \in Handle
      BY CloneType
    <2>3. ASSUME NEW h \in Handles
          PROVE  /\ handle[h] \in Handle
                 /\ [ver |-> NewVersion,
                     set |-> [handle[h].set EXCEPT ![f] = version + 1]] \in Handle
      BY <1>1 DEF TypeOK, Setting
    <2>. HIDE DEF Handle
    <2>. QED
      BY <1>3, <2>1, <2>2, <2>3
  <1>6. failed' \in BOOLEAN
    BY <1>3 DEF TypeOK
  <1>. QED
    BY <1>2, <1>3, <1>4, <1>5, <1>6 DEF TypeOK, BehaviorSet

\* Every step keeps the types.
LEMMA TypeStep ==
    TypeOK /\ [Next]_vars => TypeOK'
  <1>. SUFFICES ASSUME TypeOK, [Next]_vars PROVE TypeOK'
    OBVIOUS
  <1>1. CASE UNCHANGED vars
    BY <1>1 DEF TypeOK, vars
  <1>2. ASSUME NEW n \in 1..Size, Create(n) PROVE TypeOK'
    BY <1>2, CreateType
  <1>3. CASE Destroy
    <2>1. <<>> \in Seq(Handles)
      BY EmptySeq
    <2>2. handle' \in [Handles -> [ver : 0..MaxChanges, set : [Flags -> Setting]]]
      BY <1>3, CloneType DEF TypeOK, Destroy
    <2>3. 0 \in 0..Size
      BY PoolAssumption
    <2>. QED
      BY <1>3, <2>1, <2>2, <2>3 DEF TypeOK, Destroy
  <1>4. ASSUME NEW f \in Flags, BehaviorSet(f) PROVE TypeOK'
    BY <1>4, BehaviorSetType
  <1>5. ASSUME NEW t \in Threads, WakeUp(t) PROVE TypeOK'
    BY <1>5 DEF TypeOK, WakeUp
  <1>6. ASSUME NEW t \in Threads, Retry(t) PROVE TypeOK'
    BY <1>6, TurnType DEF Retry
  <1>7. ASSUME NEW t \in Threads, Timeout(t) PROVE TypeOK'
    BY <1>7 DEF TypeOK, Timeout, Finish
  <1>8. ASSUME NEW t \in Threads, NEW block \in BOOLEAN, Fetch(t, block) PROVE TypeOK'
    BY <1>8, TurnType DEF Fetch
  <1>9. ASSUME NEW t \in Threads, NEW h \in Handles, Release(t, h) PROVE TypeOK'
    BY <1>9, ReleaseType
  <1>10. ASSUME NEW t \in Threads, NEW h \in Handles, FreeHandle(t, h) PROVE TypeOK'
    <2>1. handle' \in [Handles -> [ver : 0..MaxChanges, set : [Flags -> Setting]]]
      BY <1>10, CloneType DEF TypeOK, FreeHandle
    <2>2. held' \in [Threads -> SUBSET Handles]
      BY <1>10 DEF TypeOK, FreeHandle
    <2>. QED
      BY <1>10, <2>1, <2>2 DEF TypeOK, FreeHandle
  <1>. QED
    BY <1>1, <1>2, <1>3, <1>4, <1>5, <1>6, <1>7, <1>8, <1>9, <1>10 DEF Next, InPool

(***************************************************************************)
(* The variables of the pool keep their types; in particular current_size  *)
(* never exceeds the number of slots of server_pool[].                     *)
(***************************************************************************)
THEOREM TypeCorrect == Spec => []TypeOK
  <1>1. ASSUME Init PROVE TypeOK
    <2>1. <<>> \in Seq(Handles)
      BY EmptySeq
    <2>2. 0 \in 0..Size /\ 0 \in 0..MaxChanges
      BY PoolAssumption
    <2>. QED
      BY <1>1, <2>1, <2>2 DEF Init, TypeOK, Blank, Setting
  <1>. QED
    BY <1>1, TypeStep, PTL DEF Spec

----------------------------------------------------------------------------
(***************************************************************************)
(* Who owns a handle.  OneOwner and NoneLost are inductive once it is      *)
(* added that a pool that is closed has nothing in it and nobody inside,   *)
(* and that only finitely many handles are out.                            *)
(***************************************************************************)
Closed ==
    ~open => pool = <<>> /\ currentSize = 0 /\ \A t \in Threads : pc[t] = "idle"

OwnInv == OneOwner /\ NoneLost /\ Closed /\ IsFiniteSet(Out)

(***************************************************************************)
(* What is out after a thread has got one more handle.                     *)
(***************************************************************************)
LEMMA HandOut ==
    ASSUME TypeOK, NEW t \in Threads, NEW h,
           held' = [held EXCEPT ![t] = @ \cup {h}]
    PROVE  Out' = Out \cup {h}
  <1>1. held'[t] = held[t] \cup {h} /\ \A u \in Threads : u # t => held'[u] = held[u]
    BY DEF TypeOK
  <1>. QED
    BY <1>1 DEF Out

(***************************************************************************)
(* What is out after a thread has given one back.                          *)
(***************************************************************************)
LEMMA HandBack ==
    ASSUME TypeOK, OneOwner, NEW t \in Threads, NEW h \in held[t],
           held' = [held EXCEPT ![t] = @ \ {h}]
    PROVE  /\ Out' = Out \ {h} /\ h \in Out
           /\ \A u \in Threads : held'[u] \subseteq held[u] /\ h \notin held'[u]
  <1>1. held'[t] = held[t] \ {h} /\ \A u \in Threads : u # t => held'[u] = held[u]
    BY DEF TypeOK
  <1>2. \A u \in Threads : u # t => h \notin held[u]
    BY DEF OneOwner
  <1>. QED
    BY <1>1, <1>2 DEF Out

(***************************************************************************)
(* The pop of fetch moves the top of the stack to the thread.              *)
(***************************************************************************)
LEMMA TakeOwns ==
    ASSUME TypeOK, OwnInv, NEW t \in Threads,
           NEW s \in Seq(Handles), s # <<>>, IsInjective(s), Range(s) \cap Out = {},
           Take(t, s)
    PROVE  /\ OneOwner' /\ IsFiniteSet(Out')
           /\ Free' \subseteq Range(s) /\ Out' = Out \cup {Last(s)} /\ Last(s) \in Range(s)
           /\ Len(pool') + Cardinality(Out') = Len(s) + Cardinality(Out)
  <1>1. /\ Front(s) \in Seq(Handles) /\ Last(s) \in Handles
        /\ Len(Front(s)) = Len(s) - 1
        /\ Range(s) = Range(Front(s)) \cup {Last(s)}
        /\ IsInjective(Front(s)) /\ Last(s) \notin Range(Front(s))
    BY FrontFacts
  <1>2. pool' = Front(s) /\ held' = [held EXCEPT ![t] = @ \cup {Last(s)}]
    BY DEF Take
  <1>3. Out' = Out \cup {Last(s)}
    BY <1>2, HandOut
  <1>4. Last(s) \notin Out
    BY <1>1
  <1>5. IsFiniteSet(Out') /\ Cardinality(Out') = Cardinality(Out) + 1
    BY <1>3, <1>4, FS_AddElement DEF OwnInv
  <1>6. OneOwner'
    <2>1. held'[t] = held[t] \cup {Last(s)} /\ \A u \in Threads : u # t => held'[u] = held[u]
      BY <1>2 DEF TypeOK
    <2>2. \A u \in Threads : held[u] \cap Range(s) = {} /\ Last(s) \notin held[u]
      BY <1>1 DEF Out
    <2>. QED
      BY <1>1, <1>2, <2>1, <2>2 DEF OneOwner, OwnInv, Free
  <1>7. Len(s) \in Nat /\ Cardinality(Out) \in Nat
    BY LenProperties, FS_CardinalityType DEF OwnInv
  <1>8. Len(pool') + Cardinality(Out') = Len(s) + Cardinality(Out)
    BY <1>1, <1>2, <1>5, <1>7
  <1>. QED
    BY <1>1, <1>2, <1>3, <1>5, <1>6, <1>8 DEF Free

(***************************************************************************)
(* One turn of the fetch loop keeps the books.                             *)
(***************************************************************************)
LEMMA TurnOwns ==
    ASSUME TypeOK, OwnInv, open, NEW t \in Threads, NEW block \in BOOLEAN, Turn(t, block)
    PROVE  OwnInv'
  <1>0. open' /\ Closed'
    BY DEF Turn, Closed
  <1>1. CASE pool # <<>> /\ Take(t, pool) /\ UNCHANGED <<handle, currentSize, failed>>
    <2>1. pool \in Seq(Handles) /\ IsInjective(pool) /\ Range(pool) \cap Out = {}
      BY DEF TypeOK, OwnInv, OneOwner, Free, Out
    <2>2. /\ OneOwner' /\ IsFiniteSet(Out')
          /\ Len(pool') + Cardinality(Out') = Len(pool) + Cardinality(Out)
      BY <1>1, <2>1, TakeOwns
    <2>. QED
      BY <1>0, <1>1, <2>2 DEF OwnInv, NoneLost
  <1>2. CASE UNCHANGED <<pool, held, currentSize>>
    BY <1>0, <1>2 DEF OwnInv, OneOwner, NoneLost, Free, Out
  <1>3. ASSUME pool = <<>>, NEW h \in Handles \ Live,
               currentSize' = currentSize + 1, Take(t, Append(pool, h))
        PROVE  OwnInv'
    <2>. DEFINE s == Append(pool, h)
    <2>1. /\ s \in Seq(Handles) /\ s # <<>> /\ Len(s) = Len(pool) + 1
          /\ Range(s) = Range(pool) \cup {h}
          /\ IsInjective(s)
      BY AppendFacts DEF TypeOK, OwnInv, OneOwner, Live, Free
    <2>2. Range(s) \cap Out = {}
      BY <2>1 DEF OwnInv, OneOwner, Live, Free, Out
    <2>3. /\ OneOwner' /\ IsFiniteSet(Out')
          /\ Len(pool') + Cardinality(Out') = Len(s) + Cardinality(Out)
      BY <1>3, <2>1, <2>2, TakeOwns
    <2>4. Len(pool) \in Nat /\ Cardinality(Out) \in Nat /\ currentSize \in Nat
      BY LenProperties, FS_CardinalityType DEF OwnInv, TypeOK
    <2>5. NoneLost'
      BY <1>3, <2>1, <2>3, <2>4 DEF OwnInv, NoneLost
    <2>. QED
      BY <1>0, <2>3, <2>5 DEF OwnInv
  <1>. QED
    BY <1>1, <1>2, <1>3 DEF Turn, Grow

(***************************************************************************)
(* memcached_pool_create starts with the handles it cloned, all of them    *)
(* different and none out.                                                 *)
(***************************************************************************)
LEMMA CreateOwns ==
    ASSUME TypeOK, OwnInv, NEW initial \in 1..Size, Create(initial)
    PROVE  OwnInv'
  <1>1. PICK n \in 0..initial : \E s \in [1..n -> Handles] :
           IsInjective(s) /\ pool' = s /\ currentSize' = n
    BY DEF Create
  <1>2. n \in Nat
    BY PoolAssumption
  <1>3. /\ pool' \in [1..n -> Handles] /\ IsInjective(pool') /\ currentSize' = n
    BY <1>1
  <1>4. Len(pool') = n
    BY <1>2, <1>3, FunctionIsSeq
  <1>5. Out' = Out /\ Out = {} /\ \A u \in Threads : held'[u] = {}
    BY DEF Create, Live, Out
  <1>6. IsFiniteSet(Out') /\ Cardinality(Out') = 0
    BY <1>5, FS_EmptySet
  <1>7. OneOwner'
    BY <1>3, <1>5 DEF OneOwner
  <1>8. NoneLost'
    BY <1>2, <1>3, <1>4, <1>6 DEF NoneLost
  <1>9. Closed'
    BY DEF Create, Closed
  <1>. QED
    BY <1>6, <1>7, <1>8, <1>9 DEF OwnInv

(***************************************************************************)
(* Release puts back the handle or the clone that replaces it.             *)
(***************************************************************************)
LEMMA ReleaseOwns ==
    ASSUME TypeOK, OwnInv, NEW t \in Threads, NEW h \in Handles, Release(t, h)
    PROVE  OwnInv'
  <1>1. PICK g \in Renewed(h) : pool' = Append(pool, g)
    BY DEF Release
  <1>2. h \in held[t] /\ held' = [held EXCEPT ![t] = @ \ {h}]
    BY DEF Release
  <1>3. /\ Out' = Out \ {h} /\ h \in Out
        /\ \A u \in Threads : held'[u] \subseteq held[u] /\ h \notin held'[u]
    BY <1>2, HandBack DEF OwnInv
  <1>4. g \in Handles /\ (g = h \/ g \notin Live)
    BY <1>1 DEF Renewed
  <1>5. g \notin Free /\ \A u \in Threads : g \notin held'[u]
    BY <1>2, <1>3, <1>4 DEF Live, Out, OwnInv, OneOwner
  <1>6. /\ Len(pool') = Len(pool) + 1 /\ Range(pool') = Range(pool) \cup {g}
        /\ IsInjective(pool')
    BY <1>1, <1>4, <1>5, AppendFacts DEF TypeOK, OwnInv, OneOwner, Free
  <1>7. OneOwner'
    BY <1>3, <1>5, <1>6 DEF OneOwner, OwnInv, Free
  <1>8. IsFiniteSet(Out') /\ Cardinality(Out') = Cardinality(Out) - 1
    BY <1>3, FS_RemoveElement DEF OwnInv
  <1>9. NoneLost'
    <2>1. Len(pool) \in Nat /\ Cardinality(Out) \in Nat
      BY LenProperties, FS_CardinalityType DEF OwnInv, TypeOK
    <2>2. Len(pool) + Cardinality(Out) = currentSize /\ currentSize' = currentSize
      BY DEF OwnInv, NoneLost, Release
    <2>. QED
      BY <1>6, <1>8, <2>1, <2>2 DEF NoneLost
  <1>10. Closed'
    BY DEF Release, Closed
  <1>. QED
    BY <1>7, <1>8, <1>9, <1>10 DEF OwnInv

(***************************************************************************)
(* memcached_pool_behavior_set replaces free handles slot by slot.         *)
(***************************************************************************)
LEMMA BehaviorSetOwns ==
    ASSUME TypeOK, OwnInv, NEW f \in Flags, BehaviorSet(f)
    PROVE  OwnInv'
  <1>1. pool' \in [DOMAIN pool -> Handles] /\ IsInjective(pool') /\ Range(pool') \cap Out = {}
    BY DEF BehaviorSet
  <1>2. Out' = Out /\ held' = held /\ open' /\ open /\ currentSize' = currentSize
    BY DEF BehaviorSet, Out
  <1>3. Len(pool') = Len(pool)
    <2>1. DOMAIN pool = 1..Len(pool) /\ Len(pool) \in Nat
      BY LenProperties DEF TypeOK
    <2>. QED
      BY <1>1, <2>1, FunctionIsSeq
  <1>. QED
    BY <1>1, <1>2, <1>3 DEF OwnInv, OneOwner, NoneLost, Closed, Out, Free

(***************************************************************************)
(* Every step keeps the books.                                             *)
(***************************************************************************)
LEMMA OwnStep ==
    TypeOK /\ OwnInv /\ [Next]_vars => OwnInv'
  <1>. SUFFICES ASSUME TypeOK, OwnInv, [Next]_vars PROVE OwnInv'
    OBVIOUS
  <1>1. CASE UNCHANGED vars
    BY <1>1 DEF OwnInv, OneOwner, NoneLost, Closed, Out, Free, vars
  <1>2. ASSUME NEW n \in 1..Size, Create(n) PROVE OwnInv'
    BY <1>2, CreateOwns
  <1>3. CASE Destroy
    <2>1. pool' = <<>> /\ held' = held /\ currentSize' = 0 /\ pc' = pc /\ ~open'
      BY <1>3 DEF Destroy
    <2>2. Range(pool') = {} /\ IsInjective(pool')
      BY <2>1 DEF Range, IsInjective
    <2>3. OneOwner' /\ Out' = Out
      BY <2>1, <2>2 DEF OwnInv, OneOwner, Out, Free
    <2>. QED
      BY <1>3, <2>1, <2>3 DEF OwnInv, NoneLost, Closed, Destroy
  <1>4. ASSUME NEW f \in Flags, BehaviorSet(f) PROVE OwnInv'
    BY <1>4, BehaviorSetOwns
  <1>5. ASSUME NEW t \in Threads, WakeUp(t) PROVE OwnInv'
    BY <1>5 DEF TypeOK, OwnInv, OneOwner, NoneLost, Closed, Out, Free, WakeUp
  <1>6. ASSUME NEW t \in Threads, Retry(t) PROVE OwnInv'
    <2>1. open
      BY <1>6 DEF Retry, OwnInv, Closed
    <2>. QED
      BY <1>6, <2>1, TurnOwns DEF Retry
  <1>7. ASSUME NEW t \in Threads, Timeout(t) PROVE OwnInv'
    BY <1>7 DEF TypeOK, OwnInv, OneOwner, NoneLost, Closed, Out, Free, Timeout
  <1>8. ASSUME NEW t \in Threads, NEW block \in BOOLEAN, Fetch(t, block) PROVE OwnInv'
    BY <1>8, TurnOwns DEF Fetch
  <1>9. ASSUME NEW t \in Threads, NEW h \in Handles, Release(t, h) PROVE OwnInv'
    BY <1>9, ReleaseOwns
  <1>10. ASSUME NEW t \in Threads, NEW h \in Handles, FreeHandle(t, h) PROVE OwnInv'
    <2>1. /\ ~open /\ h \in held[t] /\ held' = [held EXCEPT ![t] = @ \ {h}]
          /\ UNCHANGED <<open, pool, currentSize, pc>>
      BY <1>10 DEF FreeHandle
    <2>2. /\ Out' = Out \ {h}
          /\ \A u \in Threads : held'[u] \subseteq held[u]
      BY <2>1, HandBack DEF OwnInv
    <2>3. IsFiniteSet(Out')
      BY <2>2, FS_RemoveElement DEF OwnInv
    <2>4. OneOwner'
      BY <2>1, <2>2 DEF OwnInv, OneOwner, Free
    <2>. QED
      BY <2>1, <2>3, <2>4 DEF OwnInv, NoneLost, Closed
  <1>. QED
    BY <1>1, <1>2, <1>3, <1>4, <1>5, <1>6, <1>7, <1>8, <1>9, <1>10 DEF Next, InPool

\* A pool that is not created yet owns nothing.
LEMMA OwnInit ==
    Init => OwnInv
  <1>. SUFFICES ASSUME Init PROVE OwnInv
    OBVIOUS
  <1>1. Range(pool) = {} /\ IsInjective(pool)
    BY DEF Init, Range, IsInjective
  <1>2. Out = {}
    BY DEF Init, Out
  <1>3. OneOwner
    BY <1>1 DEF Init, OneOwner, Free
  <1>. QED
    BY <1>2, <1>3, FS_EmptySet DEF Init, OwnInv, NoneLost, Closed

(***************************************************************************)
(* A handle, which is not thread safe, always has a single owner: two      *)
(* threads never hold the same one, whatever is fetched, released,         *)
(* replaced or reconfigured in between.                                    *)
(***************************************************************************)
THEOREM SingleOwner == Spec => []OneOwner
  <1>1. OwnInv => OneOwner
    BY DEF OwnInv
  <1>. QED
    BY <1>1, TypeCorrect, OwnInit, OwnStep, PTL DEF Spec

(***************************************************************************)
(* current_size is the number of the handles that exist: none is lost on   *)
(* the way through fetch, a failed clone, release or a behaviour change.   *)
(***************************************************************************)
THEOREM HandlesCounted == Spec => []NoneLost
  <1>1. OwnInv => NoneLost
    BY DEF OwnInv
  <1>. QED
    BY <1>1, TypeCorrect, OwnInit, OwnStep, PTL DEF Spec

----------------------------------------------------------------------------
(***************************************************************************)
(* Wakeups.  A handle comes free only through release, which broadcasts    *)
(* when the pool was empty and full-grown; in every other case the         *)
(* invariant itself says that nobody waits.                                *)
(***************************************************************************)
LEMMA TurnWakes ==
    ASSUME TypeOK, NoLostWakeup, NEW t \in Threads, NEW block \in BOOLEAN, Turn(t, block)
    PROVE  NoLostWakeup'
  <1>1. CASE pool # <<>> /\ Take(t, pool)
    BY <1>1 DEF TypeOK, NoLostWakeup, Take, Finish
  <1>2. CASE /\ pool = <<>> /\ ~MayGrow
             /\ pc' = [pc EXCEPT ![t] = IF block THEN "waiting" ELSE "idle"]
             /\ UNCHANGED <<pool, held, handle, currentSize, failed>>
    BY <1>2 DEF TypeOK, NoLostWakeup, MayGrow
  <1>3. CASE Grow(t)
    BY <1>3 DEF TypeOK, NoLostWakeup, Grow, Take, Finish
  <1>. QED
    BY <1>1, <1>2, <1>3 DEF Turn

\* Every step keeps NoLostWakeup.
LEMMA WakeStep ==
    TypeOK /\ OwnInv /\ NoLostWakeup /\ [Next]_vars => NoLostWakeup'
  <1>. SUFFICES ASSUME TypeOK, OwnInv, NoLostWakeup, [Next]_vars PROVE NoLostWakeup'
    OBVIOUS
  <1>1. CASE UNCHANGED vars
    BY <1>1 DEF NoLostWakeup, MayGrow, vars
  <1>2. ASSUME NEW n \in 1..Size, Create(n) PROVE NoLostWakeup'
    BY <1>2 DEF NoLostWakeup, Create, OwnInv, Closed
  <1>3. CASE Destroy
    BY <1>3 DEF NoLostWakeup, Destroy
  <1>4. ASSUME NEW f \in Flags, BehaviorSet(f) PROVE NoLostWakeup'
    <2>1. pc' = pc /\ currentSize' = currentSize /\ pool' \in [DOMAIN pool -> Handles]
      BY <1>4 DEF BehaviorSet
    <2>2. pool = <<>> => pool' = <<>>
      <3>1. ASSUME pool = <<>> PROVE pool' = <<>>
        <4>1. Len(pool) = 0 /\ DOMAIN pool = 1..0
          BY <3>1, EmptySeq, LenProperties DEF TypeOK
        <4>2. pool' \in Seq(Handles) /\ Len(pool') = 0
          BY <2>1, <4>1, FunctionIsSeq
        <4>. QED
          BY <4>2, EmptySeq
      <3>. QED
        BY <3>1
    <2>. QED
      BY <2>1, <2>2 DEF NoLostWakeup, MayGrow
  <1>5. ASSUME NEW t \in Threads, WakeUp(t) PROVE NoLostWakeup'
    BY <1>5 DEF TypeOK, NoLostWakeup, MayGrow, WakeUp
  <1>6. ASSUME NEW t \in Threads, Retry(t) PROVE NoLostWakeup'
    BY <1>6, TurnWakes DEF Retry
  <1>7. ASSUME NEW t \in Threads, Timeout(t) PROVE NoLostWakeup'
    BY <1>7 DEF TypeOK, NoLostWakeup, MayGrow, Timeout, Finish
  <1>8. ASSUME NEW t \in Threads, NEW block \in BOOLEAN, Fetch(t, block) PROVE NoLostWakeup'
    BY <1>8, TurnWakes DEF Fetch
  <1>9. ASSUME NEW t \in Threads, NEW h \in Handles, Release(t, h) PROVE NoLostWakeup'
    <2>1. CASE pool = <<>> /\ currentSize = Size
      BY <1>9, <2>1 DEF TypeOK, NoLostWakeup, Release, Wake
    <2>2. CASE ~(pool = <<>> /\ currentSize = Size)
      BY <1>9, <2>2 DEF TypeOK, NoLostWakeup, MayGrow, Release
    <2>. QED
      BY <2>1, <2>2
  <1>10. ASSUME NEW t \in Threads, NEW h \in Handles, FreeHandle(t, h) PROVE NoLostWakeup'
    BY <1>10 DEF NoLostWakeup, MayGrow, FreeHandle
  <1>. QED
    BY <1>1, <1>2, <1>3, <1>4, <1>5, <1>6, <1>7, <1>8, <1>9, <1>10 DEF Next, InPool

(***************************************************************************)
(* A thread never sleeps on while a handle is free or the pool can grow,   *)
(* although release broadcasts for the first returned handle only.         *)
(***************************************************************************)
THEOREM NoWakeupLost == Spec => []NoLostWakeup
  <1>1. Init => NoLostWakeup
    BY DEF Init, NoLostWakeup
  <1>. QED
    BY <1>1, TypeCorrect, OwnInit, OwnStep, WakeStep, PTL DEF Spec

----------------------------------------------------------------------------
(***************************************************************************)
(* Versions.  VersionMeansSettings is inductive once it is added that no   *)
(* handle is ahead of the pool, and that as long as no clone has failed    *)
(* every free handle has the pool's version.                               *)
(***************************************************************************)
Versions ==
    /\ \A h \in Handles : handle[h].ver <= version
    /\ ~failed => \A h \in Free : handle[h].ver = version

VersionInv == VersionMeansSettings /\ Versions

(***************************************************************************)
(* A new clone agrees with the master on everything that clones copy.      *)
(***************************************************************************)
LEMMA CloneAgrees ==
    Clone.ver = version /\ \A f \in Copied : Clone.set[f] = master[f]
  BY PoolAssumption DEF Clone

\* A handle that fetch takes is as it was; one that it grows is a new clone.
LEMMA TurnVersions ==
    ASSUME TypeOK, OwnInv, VersionInv, NEW t \in Threads, NEW block \in BOOLEAN, Turn(t, block)
    PROVE  VersionInv'
  <1>0. UNCHANGED <<open, version, master, changed>>
    BY DEF Turn
  <1>1. CASE pool # <<>> /\ Take(t, pool) /\ UNCHANGED <<handle, currentSize, failed>>
    <2>1. /\ Free' \subseteq Free /\ Out' = Out \cup {Last(pool)} /\ Last(pool) \in Free
      <3>1. pool \in Seq(Handles) /\ IsInjective(pool) /\ Range(pool) \cap Out = {}
        BY DEF TypeOK, OwnInv, OneOwner, Free, Out
      <3>. QED
        BY <1>1, <3>1, TakeOwns DEF Free
    <2>2. Live' \subseteq Live
      BY <2>1 DEF Live
    <2>. QED
      BY <1>0, <1>1, <2>1, <2>2 DEF VersionInv, VersionMeansSettings, Versions
  <1>2. CASE /\ UNCHANGED <<pool, held, handle>>
             /\ failed => failed'
    BY <1>0, <1>2 DEF VersionInv, VersionMeansSettings, Versions, Live, Free, Out
  <1>3. ASSUME pool = <<>>, NEW h \in Handles \ Live,
               handle' = [handle EXCEPT ![h] = Clone],
               Take(t, Append(pool, h)), UNCHANGED failed
        PROVE  VersionInv'
    <2>. DEFINE s == Append(pool, h)
    <2>1. /\ s \in Seq(Handles) /\ s # <<>> /\ Range(s) = Free \cup {h} /\ IsInjective(s)
      BY AppendFacts DEF TypeOK, OwnInv, OneOwner, Live, Free
    <2>2. Range(s) \cap Out = {}
      BY <2>1 DEF OwnInv, OneOwner, Live, Out
    <2>3. Free' \subseteq Range(s) /\ Out' = Out \cup {Last(s)} /\ Last(s) \in Range(s)
      BY <1>3, <2>1, <2>2, TakeOwns
    <2>4. Free' \subseteq Free \cup {h} /\ Live' \subseteq Live \cup {h} /\ h \notin Live
      BY <2>1, <2>3 DEF Live
    <2>5. /\ handle'[h] = Clone
          /\ \A g \in Handles : g # h => handle'[g] = handle[g]
      BY <1>3 DEF TypeOK
    <2>6. Live \subseteq Handles /\ version \in Nat
      <3>1. Free \subseteq Handles
        BY RangeOfSeq DEF TypeOK, Free
      <3>. QED
        BY <3>1 DEF TypeOK, Live, Out
    <2>7. VersionMeansSettings'
      BY <1>0, <1>3, <2>4, <2>5, <2>6, CloneAgrees DEF VersionInv, VersionMeansSettings
    <2>8. Versions'
      BY <1>0, <1>3, <2>4, <2>5, <2>6, CloneAgrees DEF VersionInv, Versions, Live
    <2>. QED
      BY <2>7, <2>8 DEF VersionInv
  <1>. QED
    BY <1>1, <1>2, <1>3 DEF Turn, Grow

(***************************************************************************)
(* The handles in the pool or held are handles.                            *)
(***************************************************************************)
LEMMA LiveHandles ==
    ASSUME TypeOK
    PROVE  Free \subseteq Handles /\ Out \subseteq Handles /\ Live \subseteq Handles
  <1>1. Free \subseteq Handles
    BY RangeOfSeq DEF TypeOK, Free
  <1>. QED
    BY <1>1 DEF TypeOK, Live, Out

\* The handles a pool is filled with are new clones.
LEMMA CreateVersions ==
    ASSUME TypeOK, VersionInv, NEW initial \in 1..Size, Create(initial)
    PROVE  VersionInv'
  <1>1. /\ handle' = [h \in Handles |-> IF h \in Range(pool') THEN Clone ELSE Blank]
        /\ UNCHANGED <<version, master, held>>
    BY DEF Create
  <1>2. Live' = Free' /\ Free' = Range(pool')
    BY DEF Create, Live, Out, Free
  <1>3. version \in Nat /\ Blank.ver = 0
    BY DEF TypeOK, Blank
  <1>4. Free' \subseteq Handles
    <2>1. TypeOK'
      BY CreateType
    <2>. QED
      BY <2>1, RangeOfSeq DEF TypeOK, Free
  <1>5. VersionMeansSettings'
    BY <1>1, <1>2, <1>4, CloneAgrees DEF VersionMeansSettings
  <1>6. Versions'
    BY <1>1, <1>2, <1>3, <1>4, CloneAgrees DEF Versions
  <1>. QED
    BY <1>5, <1>6 DEF VersionInv

\* A handle that is put back with the version of the pool is a new clone, or
\* had that version already.
LEMMA ReleaseVersions ==
    ASSUME TypeOK, OwnInv, VersionInv, NEW t \in Threads, NEW h \in Handles, Release(t, h)
    PROVE  VersionInv'
  <1>0. UNCHANGED <<open, version, master, changed>>
    BY DEF Release
  <1>1. PICK g \in Renewed(h) :
          /\ pool' = Append(pool, g)
          /\ handle' = IF g = h THEN handle ELSE [handle EXCEPT ![g] = Clone, ![h] = Blank]
          /\ failed' = (failed \/ (g = h /\ handle[h].ver # version))
    BY DEF Release
  <1>2. g \in Handles /\ (g = h \/ g \notin Live)
    BY <1>1 DEF Renewed
  <1>3. Free' = Free \cup {g}
    BY <1>1, <1>2, AppendFacts DEF TypeOK, Free
  <1>4. Out' = Out \ {h} /\ h \in Out
    BY HandBack DEF OwnInv, Release
  <1>5. h \notin Free
    BY DEF Release, OwnInv, OneOwner
  <1>6. Live \subseteq Handles
    BY LiveHandles
  <1>7. CASE g = h
    <2>1. Live' = Live
      BY <1>3, <1>4, <1>7 DEF Live
    <2>. QED
      BY <1>0, <1>1, <1>3, <1>7, <2>1 DEF VersionInv, VersionMeansSettings, Versions
  <1>8. CASE g # h
    <2>1. /\ handle'[g] = Clone /\ handle'[h] = Blank /\ failed' = failed
          /\ \A x \in Handles : x # g /\ x # h => handle'[x] = handle[x]
      BY <1>1, <1>2, <1>8 DEF TypeOK
    <2>2. version \in Nat /\ Blank.ver = 0
      BY DEF TypeOK, Blank
    <2>3. Live' \subseteq (Live \ {h}) \cup {g} /\ h \notin Free'
      BY <1>3, <1>4, <1>5, <1>8 DEF Live
    <2>4. VersionMeansSettings'
      BY <1>0, <1>6, <2>1, <2>3, CloneAgrees DEF VersionInv, VersionMeansSettings
    <2>5. Versions'
      BY <1>0, <1>3, <1>5, <1>6, <2>1, <2>2, <2>3, CloneAgrees DEF VersionInv, Versions, Live
    <2>. QED
      BY <2>4, <2>5 DEF VersionInv
  <1>. QED
    BY <1>7, <1>8

\* A change of a behaviour gives its new version to the handles it has reached.
LEMMA BehaviorSetVersions ==
    ASSUME TypeOK, OwnInv, VersionInv, NEW f \in Flags, BehaviorSet(f)
    PROVE  VersionInv'
  <1>1. /\ version' = version + 1 /\ NewVersion = version + 1 /\ version \in Nat
        /\ master' = [master EXCEPT ![f] = version + 1]
        /\ changed' = f /\ open /\ open' /\ held' = held
    BY DEF BehaviorSet, NewVersion, TypeOK
  <1>2. PICK new \in [DOMAIN pool -> Handles], kept \in SUBSET Free :
          /\ Range(new) \cap Out = {}
          /\ kept \subseteq Range(new)
          /\ pool' = new
          /\ failed' = (failed \/ kept # {})
          /\ handle' = [h \in Handles |->
                IF h \in Range(new) \ Live THEN [ver |-> NewVersion,
                        set |-> [g \in Flags |-> IF g \in Copied THEN master'[g] ELSE Unset]]
                ELSE IF h \in Free \ Range(new) THEN Blank
                ELSE IF h \in Updated \ kept THEN [ver |-> NewVersion,
                        set |-> [handle[h].set EXCEPT ![f] = version + 1]]
                ELSE handle[h]]
    BY DEF BehaviorSet
  <1>3. Free' = Range(new) /\ Out' = Out /\ Live' = Range(new) \cup Out
    BY <1>1, <1>2 DEF Free, Out, Live
  <1>4. Live \subseteq Handles /\ Range(new) \subseteq Handles
    BY LiveHandles DEF Range
  <1>5. \A h \in Handles : handle[h].ver \in Nat /\ handle[h].ver <= version
    BY DEF TypeOK, VersionInv, Versions
  <1>6. ASSUME NEW h \in Range(new) \ Live
        PROVE  handle'[h].ver = version' /\ \A g \in Copied : handle'[h].set[g] = master'[g]
    BY <1>1, <1>2, <1>4, PoolAssumption
  <1>7. ASSUME NEW h \in (Free \cap Range(new)) \ kept
        PROVE  /\ handle'[h].ver = version'
               /\ handle'[h].set[f] = master'[f]
               /\ \A g \in Flags : g # f => handle'[h].set[g] = handle[h].set[g] /\ master'[g] = master[g]
    <2>1. h \in Handles /\ h \in Live /\ h \in Updated
      BY <1>4 DEF Live, Updated
    <2>2. handle'[h] = [ver |-> NewVersion, set |-> [handle[h].set EXCEPT ![f] = version + 1]]
      BY <1>2, <1>7, <2>1
    <2>3. handle[h].set \in [Flags -> Setting] /\ master \in [Flags -> 0..MaxChanges]
      BY <2>1 DEF TypeOK
    <2>. QED
      BY <1>1, <2>2, <2>3
  <1>8. ASSUME NEW h \in kept \cup Out
        PROVE  h \in Handles /\ handle'[h] = handle[h] /\ handle'[h].ver # version'
    <2>1. h \in Live /\ h \in Handles
      BY <1>4 DEF Live
    <2>2. h \notin Free \ Range(new) /\ h \notin Updated \ kept
      BY <1>2, <1>8 DEF OwnInv, OneOwner, Out, Updated
    <2>3. handle'[h] = handle[h]
      BY <1>2, <2>1, <2>2
    <2>. QED
      BY <1>1, <1>5, <2>1, <2>3
  <1>9. VersionMeansSettings'
    <2>. SUFFICES ASSUME NEW h \in Live', handle'[h].ver = version',
                         NEW g \in Copied, g = changed' \/ ~failed'
                  PROVE  handle'[h].set[g] = master'[g]
      BY DEF VersionMeansSettings
    <2>1. CASE h \in Range(new) \ Live
      BY <1>6, <2>1
    <2>2. CASE h \in (Free \cap Range(new)) \ kept
      <3>1. CASE g = f
        BY <1>7, <2>2, <3>1
      <3>2. CASE g # f
        <4>1. ~failed /\ h \in Free /\ h \in Live
          BY <1>1, <1>2, <2>2, <3>2 DEF Live
        <4>2. handle[h].ver = version
          BY <4>1 DEF VersionInv, Versions
        <4>3. handle[h].set[g] = master[g]
          BY <1>1, <4>1, <4>2 DEF VersionInv, VersionMeansSettings
        <4>4. g \in Flags
          BY PoolAssumption
        <4>. QED
          BY <1>7, <2>2, <3>2, <4>3, <4>4
      <3>. QED
        BY <3>1, <3>2
    <2>3. CASE h \in kept \cup Out
      BY <1>8, <2>3
    <2>. QED
      BY <1>2, <1>3, <2>1, <2>2, <2>3 DEF Live
  <1>10. Versions'
    <2>1. ASSUME NEW h \in Handles PROVE handle'[h].ver <= version'
      <3>1. /\ Blank.ver = 0
            /\ handle'[h].ver \in {NewVersion, Blank.ver, handle[h].ver}
        BY <1>2 DEF Blank
      <3>. QED
        BY <1>1, <1>5, <3>1
    <2>2. ASSUME ~failed', NEW h \in Free' PROVE handle'[h].ver = version'
      <3>1. kept = {} /\ h \in Range(new) /\ h \notin Out
        BY <1>2, <1>3, <2>2
      <3>2. CASE h \in Live
        BY <1>7, <3>1, <3>2 DEF Live
      <3>3. CASE h \notin Live
        BY <1>6, <3>1, <3>3
      <3>. QED
        BY <3>2, <3>3
    <2>. QED
      BY <2>1, <2>2 DEF Versions
  <1>. QED
    BY <1>9, <1>10 DEF VersionInv

(***************************************************************************)
(* Every step keeps versions and settings in line.                         *)
(***************************************************************************)
LEMMA VersionStep ==
    TypeOK /\ OwnInv /\ VersionInv /\ [Next]_vars => VersionInv'
  <1>. SUFFICES ASSUME TypeOK, OwnInv, VersionInv, [Next]_vars PROVE VersionInv'
    OBVIOUS
  <1>. USE DEF VersionInv, VersionMeansSettings, Versions
  <1>1. CASE UNCHANGED vars
    BY <1>1 DEF Live, Free, Out, vars
  <1>2. ASSUME NEW n \in 1..Size, Create(n) PROVE VersionInv'
    BY <1>2, CreateVersions
  <1>3. CASE Destroy
    <2>1. version \in Nat /\ Blank.ver = 0
      BY DEF TypeOK, Blank
    <2>2. Free' = {} /\ ~open'
      BY <1>3 DEF Destroy, Free, Range
    <2>3. \A h \in Handles : handle'[h] \in {Blank, handle[h]}
      BY <1>3 DEF Destroy
    <2>4. \A h \in Handles : handle'[h].ver <= version
      BY <2>1, <2>3 DEF TypeOK
    <2>5. version' = version
      BY <1>3 DEF Destroy
    <2>. QED
      BY <2>2, <2>4, <2>5
  <1>4. ASSUME NEW f \in Flags, BehaviorSet(f) PROVE VersionInv'
    BY <1>4, BehaviorSetVersions
  <1>5. ASSUME NEW t \in Threads, WakeUp(t) PROVE VersionInv'
    BY <1>5 DEF Live, Free, Out, WakeUp
  <1>6. ASSUME NEW t \in Threads, Retry(t) PROVE VersionInv'
    BY <1>6, TurnVersions DEF Retry
  <1>7. ASSUME NEW t \in Threads, Timeout(t) PROVE VersionInv'
    BY <1>7 DEF Live, Free, Out, Timeout
  <1>8. ASSUME NEW t \in Threads, NEW block \in BOOLEAN, Fetch(t, block) PROVE VersionInv'
    BY <1>8, TurnVersions DEF Fetch
  <1>9. ASSUME NEW t \in Threads, NEW h \in Handles, Release(t, h) PROVE VersionInv'
    BY <1>9, ReleaseVersions
  <1>10. ASSUME NEW t \in Threads, NEW h \in Handles, FreeHandle(t, h) PROVE VersionInv'
    <2>1. ~open' /\ pool' = <<>> /\ version' = version /\ Free' = {}
      BY <1>10 DEF FreeHandle, OwnInv, Closed, Free, Range
    <2>2. \A g \in Handles : handle'[g] \in {Blank, handle[g]}
      BY <1>10 DEF FreeHandle, TypeOK
    <2>3. version \in Nat /\ Blank.ver = 0
      BY DEF TypeOK, Blank
    <2>4. \A g \in Handles : handle'[g].ver <= version
      <3>1. \A g \in Handles : handle[g].ver <= version
        OBVIOUS
      <3>. QED
        BY <2>2, <2>3, <3>1
    <2>. QED
      BY <2>1, <2>4
  <1>. QED
    BY <1>1, <1>2, <1>3, <1>4, <1>5, <1>6, <1>7, <1>8, <1>9, <1>10 DEF Next, InPool

(***************************************************************************)
(* compare_version can be relied on: a handle that release or fetch finds  *)
(* to be of the pool's version needs no reconfiguring.                     *)
(***************************************************************************)
THEOREM VersionsReliable == Spec => []VersionMeansSettings
  <1>1. Init => VersionInv
    <2>. SUFFICES ASSUME Init PROVE VersionInv
      OBVIOUS
    <2>1. Free = {}
      BY DEF Init, Free, Range
    <2>. QED
      BY <2>1, PoolAssumption DEF Init, VersionInv, VersionMeansSettings, Versions, Blank
  <1>2. VersionInv => VersionMeansSettings
    BY DEF VersionInv
  <1>. QED
    BY <1>1, <1>2, TypeCorrect, OwnInit, OwnStep, VersionStep, PTL DEF Spec

----------------------------------------------------------------------------
(***************************************************************************)
(* Between fetch and release a handle is its thread's own: no other call   *)
(* on the pool replaces, reconfigures or frees it.                         *)
(***************************************************************************)
LEMMA HeldStep ==
    ASSUME TypeOK, OwnInv, [Next]_vars
    PROVE  \A t \in Threads : \A h \in held[t] \cap held'[t] : handle'[h] = handle[h]
  <1>. SUFFICES ASSUME NEW t \in Threads, NEW h \in held[t] \cap held'[t]
                PROVE  handle'[h] = handle[h]
    OBVIOUS
  <1>0. h \in Handles /\ h \in Out /\ h \in Live /\ h \notin Free
    BY DEF TypeOK, Out, Live, OwnInv, OneOwner
  <1>1. CASE UNCHANGED handle
    BY <1>1
  <1>2. ASSUME NEW n \in 1..Size, Create(n) PROVE handle'[h] = handle[h]
    BY <1>0, <1>2 DEF Create
  <1>3. CASE Destroy
    BY <1>0, <1>3 DEF Destroy
  <1>4. ASSUME NEW f \in Flags, BehaviorSet(f) PROVE handle'[h] = handle[h]
    BY <1>0, <1>4 DEF BehaviorSet, Updated
  <1>5. ASSUME NEW u \in Threads, NEW block \in BOOLEAN, Turn(u, block)
        PROVE  handle'[h] = handle[h]
    BY <1>0, <1>5 DEF Turn, Grow, TypeOK
  <1>6. ASSUME NEW u \in Threads, NEW x \in Handles, Release(u, x)
        PROVE  handle'[h] = handle[h]
    <2>1. OneOwner /\ x \in held[u] /\ held' = [held EXCEPT ![u] = @ \ {x}]
      BY <1>6 DEF Release, OwnInv
    <2>2. x \notin held'[t]
      BY <2>1, HandBack
    <2>3. x # h
      BY <2>2
    <2>. QED
      BY <1>0, <1>6, <2>3 DEF Release, Renewed, TypeOK
  <1>7. ASSUME NEW u \in Threads, NEW x \in Handles, FreeHandle(u, x)
        PROVE  handle'[h] = handle[h]
    <2>1. OneOwner /\ x \in held[u] /\ held' = [held EXCEPT ![u] = @ \ {x}]
      BY <1>7 DEF FreeHandle, OwnInv
    <2>2. x \notin held'[t]
      BY <2>1, HandBack
    <2>3. x # h
      BY <2>2
    <2>. QED
      BY <1>0, <1>7, <2>3 DEF FreeHandle, TypeOK
  <1>8. \A u \in Threads : WakeUp(u) \/ Timeout(u) => UNCHANGED handle
    BY DEF WakeUp, Timeout
  <1>. QED
    BY <1>1, <1>2, <1>3, <1>4, <1>5, <1>6, <1>7, <1>8 DEF Next, InPool, Retry, Fetch, vars

(***************************************************************************)
(* A handle a thread has fetched is its own: no step of the pool, a change *)
(* of a behaviour least of all, touches it before it is released.          *)
(***************************************************************************)
THEOREM HeldHandlesUntouched == Spec => HeldUntouched
  <1>1. TypeOK /\ OwnInv /\ [Next]_vars =>
          [\A t \in Threads : \A h \in held[t] \cap held'[t] : handle'[h] = handle[h]]_vars
    BY HeldStep
  <1>. QED
    BY <1>1, TypeCorrect, OwnInit, OwnStep, PTL DEF Spec, HeldUntouched
============================================================================
