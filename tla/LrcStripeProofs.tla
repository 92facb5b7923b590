-------------------------- MODULE LrcStripeProofs --------------------------
(***************************************************************************)
(* Proofs about the stripe, for every code, every set of clients and every *)
(* number of sets and losses.                                              *)
(***************************************************************************)
EXTENDS LrcStripe, LrcCodeProofs, FiniteSetTheorems, WellFoundedInduction

----------------------------------------------------------------------------
(***************************************************************************)
(* A non-empty set of naturals below a bound has a largest element.        *)
(***************************************************************************)
LEMMA MaxExists ==
    ASSUME NEW m \in Nat, NEW S \in SUBSET (0..m), S # {}
    PROVE  \E x \in S : \A y \in S : y <= x
  <1>. DEFINE T == {m - x : x \in S}
  <1>1. T \subseteq Nat
    BY SMT
  <1>2. T # {}
    <2>1. PICK x \in S : TRUE
      OBVIOUS
    <2>2. m - x \in T
      OBVIOUS
    <2>. QED
      BY <2>2
  <1>3. \E x \in T : \A y \in T : ~(<<y, x>> \in OpToRel(<, Nat))
    BY <1>1, <1>2, NatLessThanWellFounded, WFMin, Zenon
  <1>4. PICK t \in T : \A y \in T : ~(y < t)
    BY <1>1, <1>3 DEF OpToRel
  <1>5. PICK x \in S : t = m - x
    BY <1>4
  <1>6. ASSUME NEW y \in S PROVE y <= x
    <2>1. m - y \in T
      OBVIOUS
    <2>2. ~(m - y < m - x)
      BY <1>4, <1>5, <2>1
    <2>3. x \in 0..m /\ y \in 0..m
      OBVIOUS
    <2>. QED
      BY <2>2, <2>3, SMT
  <1>. QED
    BY <1>6

----------------------------------------------------------------------------
(***************************************************************************)
(* The code's parameters.                                                  *)
(***************************************************************************)
LEMMA CodeFacts ==
    N \in Nat \ {0} /\ K \in Nat \ {0} /\ R \in Nat \ {0} /\ ValidCode(N, K, R)
  <1>1. ValidCode(N, K, R)
    BY CodeAssumption
  <1>. QED
    BY <1>1, ValidFacts

\* There are finitely many positions.
LEMMA IndexFinite == IsFiniteSet(Index)
  <1>1. 0 \in Int /\ N - 1 \in Int
    BY CodeFacts, SMT
  <1>2. IsFiniteSet(0..N - 1)
    BY <1>1, FS_Interval
  <1>. QED
    BY <1>2 DEF Index

(***************************************************************************)
(* A local group lies inside the stripe, contains its positions, and is    *)
(* the group of all of them.                                               *)
(***************************************************************************)
LEMMA GroupLemma ==
    ASSUME NEW p \in Index
    PROVE  /\ Group(p) \subseteq Index
           /\ p \in Group(p) /\ LocalParity(p) \in Group(p)
           /\ \A q \in Group(p) : /\ Group(q) = Group(p) /\ LocalParity(q) = LocalParity(p)
                                 /\ GroupOf(q, R) = GroupOf(p, R)
  <1>. DEFINE j == GroupOf(p, R)
  <1>1. /\ j \in Nat /\ j * (R + 1) \in Nat
        /\ ParityPos(j, N, R) \in 0..N - 1
        /\ p \in j * (R + 1) .. ParityPos(j, N, R)
        /\ ParityPos(j, N, R) <= j * (R + 1) + R
    BY CodeFacts, GroupFacts DEF Index
  <1>. HIDE DEF j
  <1>2. Group(p) = j * (R + 1) .. ParityPos(j, N, R) /\ LocalParity(p) = ParityPos(j, N, R)
    BY DEF Group, GroupPositions, LocalParity, j
  <1>3. ASSUME NEW q \in Group(p) PROVE GroupOf(q, R) = j
    <2>. DEFINE m == j * (R + 1)
                x == q - m
    <2>1. q \in m .. ParityPos(j, N, R)
      BY <1>2
    <2>. HIDE DEF m
    <2>2. m \in Nat /\ ParityPos(j, N, R) \in Int /\ ParityPos(j, N, R) <= m + R
      BY <1>1, CodeFacts, SMT DEF m
    <2>3. x \in 0..R /\ q = m + x
      BY <2>1, <2>2, CodeFacts, SMT
    <2>. HIDE DEF x
    <2>4. GroupOf(j * (R + 1) + x, R) = j
      BY <1>1, <2>3, CodeFacts, SameGroup
    <2>. QED
      BY <2>3, <2>4 DEF m
  <1>4. Group(p) \subseteq Index
    BY <1>1, <1>2, CodeFacts, SMT DEF Index
  <1>5. p \in Group(p) /\ LocalParity(p) \in Group(p)
    BY <1>1, <1>2, CodeFacts, SMT
  <1>. QED
    BY <1>3, <1>4, <1>5 DEF Group, LocalParity, j

\* Whole groups are sound, and all of them are if the data blocks fill them.
LEMMA SoundFacts ==
    /\ Sound \subseteq Index
    /\ \A p \in Sound : Group(p) \subseteq Sound
    /\ K % R = 0 => Sound = Index
  <1>1. ASSUME NEW p \in Sound PROVE Group(p) \subseteq Sound
    <2>1. p \in Index
      BY DEF Sound
    <2>. QED
      BY <2>1, GroupLemma DEF Sound
  <1>. QED
    BY <1>1 DEF Sound

(***************************************************************************)
(* Data blocks have positions in the stripe.                               *)
(***************************************************************************)
LEMMA DataLemma ==
    /\ \A d \in 0..K - 1 : DataPos(d, R) \in Index /\ DataPos(d, R) \in Data
    /\ Data \subseteq Index
  <1>1. \A d \in 0..K - 1 : DataPos(d, R) \in Index
    BY CodeFacts, DataPosFacts DEF Index
  <1>. QED
    BY <1>1 DEF Data

(***************************************************************************)
(* fail_index is a data block that is missing.                             *)
(***************************************************************************)
LEMMA FailIndexLemma ==
    ASSUME NEW c, Missing(c) # {}
    PROVE  FailIndex(c) \in Missing(c) /\ FailIndex(c) \in 0..K - 1
  <1>1. Missing(c) \in SUBSET (0..K - 1) /\ K - 1 \in Nat
    BY CodeFacts, SMT DEF Missing
  <1>2. \E x \in Missing(c) : \A y \in Missing(c) : y <= x
    BY <1>1, MaxExists
  <1>3. FailIndex(c) \in Missing(c)
    BY <1>2 DEF FailIndex
  <1>. QED
    BY <1>1, <1>3

(***************************************************************************)
(* What a set writes: at a local parity the rest of its group.             *)
(***************************************************************************)
LEMMA BlockIs ==
    ASSUME NEW v, NEW p \in Index
    PROVE  Block(v, p) = IF p = LocalParity(p) THEN {<<v, q>> : q \in Group(p) \ {p}}
                                               ELSE {<<v, p>>}
  BY DEF Block, Covered

(***************************************************************************)
(* Blocks and decoded blocks are block contents.                           *)
(***************************************************************************)
LEMMA BlockType ==
    ASSUME NEW v \in 1..MaxSets, NEW p \in Index
    PROVE  Block(v, p) \in SUBSET Symbol /\ Block(v, p) \in Content
  <1>1. Group(p) \subseteq Index
    BY GroupLemma
  <1>2. Block(v, p) \subseteq Symbol
    BY <1>1, BlockIs DEF Symbol
  <1>. QED
    BY <1>2 DEF Content

\* A block is never mistaken for no block, nor before the first set.
LEMMA BlockIsSome ==
    ASSUME NEW v \in 0..MaxSets, NEW p \in Index
    PROVE  Block(v, p) # None
  <1>1. CASE v = 0
    BY <1>1, ContentAssumption
  <1>2. CASE v # 0
    <2>1. v \in 1..MaxSets
      BY <1>2, BoundAssumption, SMT
    <2>. QED
      BY <2>1, BlockType, ContentAssumption
  <1>. QED
    BY <1>1, <1>2

\* Decoding yields a block, or unspecified bytes.
LEMMA DecodeType ==
    ASSUME NEW f \in [Index -> Content], NEW S
    PROVE  Decode(f, S) \in Content
  <1>1. CASE \E q \in S : q \notin Index \/ f[q] \in {None, Junk}
    BY <1>1 DEF Decode, Content
  <1>2. CASE ~ \E q \in S : q \notin Index \/ f[q] \in {None, Junk}
    <2>1. \A q \in S : f[q] \in SUBSET Symbol
      BY <1>2 DEF Content
    <2>2. UNION {f[q] : q \in S} \subseteq Symbol
      BY <2>1
    <2>3. Decode(f, S) \subseteq UNION {f[q] : q \in S}
      BY <1>2 DEF Decode
    <2>. QED
      BY <2>2, <2>3 DEF Content
  <1>. QED
    BY <1>1, <1>2

(***************************************************************************)
(* Erasure decoding: from the other blocks of its group, all written by    *)
(* set v, a position's block is what set v wrote there.                    *)
(***************************************************************************)
LEMMA DecodeIsBlock ==
    ASSUME NEW f, NEW v, NEW p \in Index,
           Decode(f, Group(p) \ {p}) # Junk,
           \A q \in Group(p) \ {p} : f[q] \in {None, Junk, Block(v, q)}
    PROVE  Decode(f, Group(p) \ {p}) = Block(v, p)
  <1>. DEFINE S == Group(p) \ {p}
              lp == LocalParity(p)
              In(x) == {q \in S : x \in f[q]}
              Odd(x) == Cardinality(In(x)) % 2 = 1
              U == UNION {f[q] : q \in S}
  <1>1. \A q \in S : q \in Index /\ f[q] \notin {None, Junk}
    BY DEF Decode
  <1>2. \A q \in S : f[q] = Block(v, q)
    BY <1>1
  <1>3. Decode(f, S) = {x \in U : Odd(x)}
    BY <1>1 DEF Decode
  <1>4. /\ lp \in Group(p) /\ p \in Group(p)
        /\ \A q \in Group(p) : Group(q) = Group(p) /\ LocalParity(q) = lp
    BY GroupLemma
  <1>5. \A q \in S : q # lp => f[q] = {<<v, q>>}
    BY <1>1, <1>2, <1>4, BlockIs
  <1>6. CASE p = lp
    <2>1. \A q \in S : f[q] = {<<v, q>>}
      BY <1>5, <1>6
    <2>2. Block(v, p) = {<<v, q>> : q \in S}
      BY <1>6, BlockIs
    <2>3. U = {<<v, q>> : q \in S}
      BY <2>1
    <2>4. ASSUME NEW q \in S PROVE Odd(<<v, q>>)
      <3>1. In(<<v, q>>) = {q}
        BY <2>1
      <3>2. Cardinality({q}) = 1
        BY FS_Singleton
      <3>. QED
        BY <3>1, <3>2, SMT
    <2>. HIDE DEF Odd, U
    <2>. QED
      BY <1>3, <2>2, <2>3, <2>4
  <1>7. CASE p # lp
    <2>1. lp \in S /\ f[lp] = {<<v, q>> : q \in Group(p) \ {lp}}
      BY <1>1, <1>2, <1>4, <1>7, BlockIs
    <2>2. Block(v, p) = {<<v, p>>}
      BY <1>7, BlockIs
    <2>3. U = {<<v, q>> : q \in Group(p) \ {lp}}
      <3>1. ASSUME NEW q \in S PROVE f[q] \subseteq {<<v, y>> : y \in Group(p) \ {lp}}
        BY <1>5, <2>1
      <3>. QED
        BY <2>1, <3>1
    <2>4. Odd(<<v, p>>)
      <3>1. In(<<v, p>>) = {lp}
        BY <1>4, <1>5, <1>7, <2>1
      <3>2. Cardinality({lp}) = 1
        BY FS_Singleton
      <3>. QED
        BY <3>1, <3>2, SMT
    <2>5. ASSUME NEW q \in Group(p) \ {lp}, q # p PROVE ~Odd(<<v, q>>)
      <3>1. In(<<v, q>>) = {q} \cup {lp}
        BY <1>5, <2>1, <2>5
      <3>2. IsFiniteSet({q}) /\ Cardinality({q}) = 1
        BY FS_Singleton
      <3>3. Cardinality({q} \cup {lp}) = 1 + 1
        BY <3>2, <2>5, FS_AddElement
      <3>. QED
        BY <3>1, <3>3, SMT
    <2>6. <<v, p>> \in {<<v, q>> : q \in Group(p) \ {lp}}
      BY <1>4, <1>7
    <2>. HIDE DEF Odd, U
    <2>. QED
      BY <1>3, <2>2, <2>3, <2>4, <2>5, <2>6
  <1>. QED
    BY <1>6, <1>7
----------------------------------------------------------------------------
(***************************************************************************)
(* Type correctness.  TypeOK is not inductive alone: that the blocks a set *)
(* writes are blocks needs its version and its next position, SetProgress, *)
(* and that a rebuilt block is sent to a position needs Aimed.             *)
(***************************************************************************)
\* A client that rebuilds a block knows which.
Aimed == \A c \in Clients : pc[c] \in {"parity", "repair"} => failNode[c] \in Index

Phase == {"idle", "set", "answer", "get", "parity", "repair", "aborted"}

\* The local variables of operations.
LocalsOK ==
    /\ setVer \in [Clients -> 0..MaxSets]
    /\ sent \in [Clients -> 0..N]
    /\ taken \in [Clients -> SUBSET Index]
    /\ todo \in [Clients -> SUBSET Index]
    /\ buf \in [Clients -> [Index -> Content]]
    /\ overlap \in [Clients -> BOOLEAN]

\* Ending an operation leaves its local variables with their types.
LEMMA LeaveType ==
    ASSUME TypeOK, NEW c \in Clients, Leave(c)
    PROVE  LocalsOK'
  <1>1. NothingRead \in [Index -> Content]
    BY DEF NothingRead, Content
  <1>2. 0 \in 0..MaxSets /\ 0 \in 0..N
    BY CodeFacts, BoundAssumption, SMT
  <1>. QED
    BY <1>1, <1>2 DEF TypeOK, LocalsOK, Leave

\* So does returning from it.
LEMMA ReturnType ==
    ASSUME TypeOK, NEW c \in Clients, NEW r \in Outcome, Return(c, r)
    PROVE  LocalsOK' /\ pc' \in [Clients -> Phase] /\ ret' \in [Clients -> Outcome]
  <1>1. LocalsOK'
    BY LeaveType DEF Return
  <1>. QED
    BY <1>1 DEF TypeOK, Return, Phase

\* A code of two fields is an outcome.
LEMMA PlainOutcome ==
    ASSUME NEW op \in {"none", "set", "get", "repair", "delete"},
           NEW rc \in {"none", "any", "SUCCESS", "ERROR"}
    PROVE  [op |-> op, rc |-> rc] \in Outcome
  BY DEF Outcome

\* The outcome of an operation that has not ended is an outcome.
LEMMA NothingOutcome == Nothing \in Outcome
  BY PlainOutcome DEF Nothing

\* Losing the process leaves the local variables with their types too.
LEMMA AbortType ==
    ASSUME TypeOK, NEW c \in Clients, Abort(c)
    PROVE  LocalsOK' /\ pc' \in [Clients -> Phase] /\ ret' \in [Clients -> Outcome]
  <1>1. LocalsOK'
    BY LeaveType DEF Abort
  <1>. QED
    BY <1>1, NothingOutcome DEF TypeOK, Abort, Phase

\* Closing dead connections keeps the set of them a set of positions.
LEMMA ForgetType ==
    ASSUME TypeOK, NEW c \in Clients, NEW S, Forget(c, S)
    PROVE  stale' \in [Clients -> SUBSET Index]
  BY DEF TypeOK, Forget

\* What a get reports is an outcome.
LEMMA GetResultType ==
    ASSUME TypeOK, NEW c \in Clients, NEW val \in [0..K - 1 -> Content]
    PROVE  GetResult(c, val) \in Outcome
  <1>. DEFINE T == {p \in (Data \cup DecodeSources(FailIndex(c), N, K, R)) \cap Index :
                        buf[c][p] = None}
              lost == IF Missing(c) = {} THEN 0 ELSE Cardinality(T)
              exp == IF dirty \/ overlap[c] THEN 0 ELSE cur
  <1>1. IsFiniteSet(Index)
    BY IndexFinite
  <1>2. T \in SUBSET Index
    OBVIOUS
  <1>3. IsFiniteSet(T)
    BY <1>1, <1>2, FS_Subset
  <1>4. lost \in Nat
    BY <1>3, FS_CardinalityType
  <1>5. exp \in 0..MaxSets
    BY BoundAssumption DEF TypeOK
  <1>6. GetResult(c, val) =
            [op |-> "get", rc |-> "SUCCESS", val |-> val, exp |-> exp, lost |-> lost]
    BY DEF GetResult
  <1>. HIDE DEF lost, exp
  <1>. QED
    BY <1>4, <1>5, <1>6 DEF Outcome

\* Initially the variables have their types and no set runs.
LEMMA TypeInit == Init => TypeOK /\ SetProgress /\ Aimed
  <1>. SUFFICES ASSUME Init PROVE TypeOK /\ SetProgress /\ Aimed
    OBVIOUS
  <1>1. NothingRead \in [Index -> Content] /\ None \in Content
    BY DEF NothingRead, Content
  <1>2. 0 \in 0..MaxSets /\ 0 \in 0..MaxLosses /\ 0 \in 0..N
    BY CodeFacts, BoundAssumption, SMT
  <1>3. TypeOK
    BY <1>1, <1>2, NothingOutcome DEF Init, TypeOK
  <1>4. SetProgress /\ Aimed
    BY DEF Init, SetProgress, Setting, Aimed
  <1>. QED
    BY <1>3, <1>4

\* What is sent is a request, and so is what is late.
LEMMA MessageType ==
    ASSUME NEW by \in Clients \cup {None}, NEW p \in Index, NEW block \in Content
    PROVE  Message(by, p, block) \in Request
  BY DEF Message, Request

LEMMA SendType ==
    ASSUME TypeOK, NEW by \in Clients \cup {None}, NEW p \in Index, NEW block \in Content,
           Send(by, p, block) \/ Gone(p, block)
    PROVE  flight' \subseteq Request
  <1>1. Message(by, p, block) \in Request /\ Message(None, p, block) \in Request
    BY MessageType
  <1>. QED
    BY <1>1 DEF TypeOK, Send, Gone

\* A connection that ends leaves requests, and the history what it was.
LEMMA BreakOffType ==
    ASSUME TypeOK, NEW Q \in SUBSET flight, NEW damage \in BOOLEAN, BreakOff(Q, damage)
    PROVE  flight' \subseteq Request /\ dirty' \in BOOLEAN /\ clean' \in BOOLEAN
  <1>1. PICK late \in SUBSET Q :
            flight' = (flight \ Q) \cup {Message(None, q.pos, q.block) : q \in late}
    BY DEF BreakOff
  <1>2. ASSUME NEW q \in late PROVE Message(None, q.pos, q.block) \in Request
    <2>1. q.pos \in Index /\ q.block \in Content
      BY DEF TypeOK, Request
    <2>. QED
      BY <2>1, MessageType
  <1>3. flight' \subseteq Request
    BY <1>1, <1>2 DEF TypeOK
  <1>. QED
    BY <1>3 DEF BreakOff, TypeOK

\* A write-back stores a block, or sends it.
LEMMA WriteBackType ==
    ASSUME TypeOK, NEW c \in Clients, NEW block \in Content, failNode[c] \in Index,
           WriteBack(c, block)
    PROVE  /\ store' \in [Index -> Content] /\ flight' \subseteq Request
           /\ stale' \in [Clients -> SUBSET Index]
           /\ dirty' \in BOOLEAN /\ clean' \in BOOLEAN
  <1>1. stale' \in [Clients -> SUBSET Index]
    BY ForgetType DEF WriteBack
  <1>2. store' \in [Index -> Content]
    BY DEF TypeOK, WriteBack
  <1>3. flight' \subseteq Request
    <2>1. CASE UNCHANGED flight
      BY <2>1 DEF TypeOK
    <2>2. CASE Gone(failNode[c], block)
      BY <2>2, SendType
    <2>. QED
      BY <2>1, <2>2 DEF WriteBack
  <1>. QED
    BY <1>1, <1>2, <1>3 DEF TypeOK, WriteBack

\* The error path of get and of repair preserves the types.
LEMMA ReadErrorType ==
    ASSUME TypeOK, NEW c \in Clients, NEW op \in {"get", "repair"}, NEW S,
           ReadError(c, op, S)
    PROVE  TypeOK'
  <1>1. stale' \in [Clients -> SUBSET Index]
    BY ForgetType DEF ReadError
  <1>2. [op |-> op, rc |-> "ERROR"] \in Outcome
    BY PlainOutcome
  <1>3. LocalsOK' /\ pc' \in [Clients -> Phase] /\ ret' \in [Clients -> Outcome]
    BY <1>2, ReturnType, AbortType DEF ReadError
  <1>. QED
    BY <1>1, <1>3 DEF TypeOK, LocalsOK, Phase, ReadError, serverVars

(***************************************************************************)
(* Every step keeps the types.                                             *)
(***************************************************************************)
LEMMA TypeStep == TypeOK /\ SetProgress /\ Aimed /\ [Next]_vars => TypeOK'
  <1>. SUFFICES ASSUME TypeOK, SetProgress, Aimed, [Next]_vars PROVE TypeOK'
    OBVIOUS
  <1>. USE DEF serverVars, historyVars, setVars, readVars
  <1>1. ASSUME NEW c \in Clients, SetBegin(c) PROVE TypeOK'
    <2>1. ver + 1 \in 0..MaxSets
      BY <1>1, BoundAssumption, SMT DEF SetBegin, TypeOK
    <2>. QED
      BY <1>1, <2>1, NothingOutcome DEF SetBegin, TypeOK
  <1>2. ASSUME NEW c \in Clients, SetSend(c) PROVE TypeOK'
    <2>. DEFINE p == sent[c]
    <2>1. p \in Index /\ p + 1 \in 0..N /\ setVer[c] \in 1..MaxSets
      BY <1>2, CodeFacts, SMT DEF SetSend, SetProgress, TypeOK, Index
    <2>2. stale' \in [Clients -> SUBSET Index]
      BY <1>2, ForgetType DEF SetSend
    <2>3. ASSUME SetAdvance(c), clean' \in BOOLEAN
          PROVE  /\ sent' \in [Clients -> 0..N] /\ pc' \in [Clients -> Phase]
                 /\ cur' \in 0..MaxSets /\ dirty' \in BOOLEAN
                 /\ ret' \in [Clients -> Outcome] /\ ready' \subseteq Clients
                 /\ setVer' \in [Clients -> 0..MaxSets] /\ todo' \in [Clients -> SUBSET Index]
                 /\ buf' \in [Clients -> [Index -> Content]]
                 /\ overlap' \in [Clients -> BOOLEAN]
      <3>1. sent' \in [Clients -> 0..N]
        BY <2>1, <2>3 DEF SetAdvance, TypeOK
      <3>2. pc' \in [Clients -> Phase]
        BY <2>3 DEF SetAdvance, TypeOK, Phase
      <3>3. setVer[c] \in 0..MaxSets
        BY DEF TypeOK
      <3>4. cur' \in 0..MaxSets
        BY <2>3, <3>3 DEF SetAdvance, TypeOK
      <3>5. dirty' \in BOOLEAN
        BY <2>3 DEF SetAdvance, TypeOK
      <3>. QED
        BY <2>3, <3>1, <3>2, <3>4, <3>5 DEF SetAdvance, TypeOK
    <2>4. CASE /\ Send(c, p, Block(setVer[c], p))
               /\ taken' = [taken EXCEPT ![c] = @ \cup {p}]
               /\ UNCHANGED clean
               /\ SetAdvance(c)
      <3>1. flight' \subseteq Request /\ taken' \in [Clients -> SUBSET Index]
        BY <2>1, <2>4, BlockType, SendType DEF TypeOK
      <3>2. clean' \in BOOLEAN
        BY <2>4 DEF TypeOK
      <3>. QED
        BY <1>2, <2>2, <2>3, <2>4, <3>1, <3>2 DEF SetSend, TypeOK, Phase
    <2>5. CASE /\ Gone(p, Block(setVer[c], p))
               /\ clean' = (clean /\ (store[p] = None \/ flight' # flight))
               /\ SetAdvance(c)
               /\ UNCHANGED taken
      <3>1. clean' \in BOOLEAN
        BY <2>5 DEF TypeOK
      <3>2. flight' \subseteq Request
        BY <2>1, <2>5, BlockType, SendType
      <3>. QED
        BY <1>2, <2>2, <2>3, <2>5, <3>1, <3>2 DEF SetSend, TypeOK, Phase
    <2>6. CASE /\ Return(c, [op |-> "set", rc |-> "ERROR"])
               /\ dirty' = (dirty \/ p > 0)
               /\ ready' = ready \cup {c}
               /\ UNCHANGED <<flight, cur, clean>>
      <3>1. LocalsOK' /\ pc' \in [Clients -> Phase] /\ ret' \in [Clients -> Outcome]
        BY <2>6, PlainOutcome, ReturnType
      <3>. QED
        BY <1>2, <2>2, <2>6, <3>1 DEF SetSend, TypeOK, LocalsOK, Phase
    <2>. QED
      BY <1>2, <2>4, <2>5, <2>6 DEF SetSend
  <1>3. ASSUME NEW c \in Clients, SetAnswer(c) PROVE TypeOK'
    <2>1. [op |-> "set", rc |-> "SUCCESS", stored |-> taken[c]] \in Outcome
      BY DEF TypeOK, Outcome
    <2>2. LocalsOK' /\ pc' \in [Clients -> Phase] /\ ret' \in [Clients -> Outcome]
      BY <1>3, <2>1, PlainOutcome, ReturnType DEF SetAnswer
    <2>3. stale' \in [Clients -> SUBSET Index]
      BY <1>3, ForgetType DEF SetAnswer
    <2>. QED
      BY <1>3, <2>2, <2>3 DEF SetAnswer, TypeOK, LocalsOK, Phase
  <1>4. ASSUME NEW c \in Clients, NEW p \in Index, Fetch(c, p) PROVE TypeOK'
    <2>1. stale' \in [Clients -> SUBSET Index]
      BY <1>4, ForgetType DEF Fetch
    <2>2. None \in Content
      BY DEF Content
    <2>3. PICK x \in Content : buf' = [buf EXCEPT ![c] = [buf[c] EXCEPT ![p] = x]]
      BY <1>4, <2>2 DEF Fetch, TypeOK
    <2>4. [buf[c] EXCEPT ![p] = x] \in [Index -> Content]
      BY DEF TypeOK
    <2>5. buf' \in [Clients -> [Index -> Content]]
      BY <2>3, <2>4 DEF TypeOK
    <2>. QED
      BY <1>4, <2>1, <2>5 DEF Fetch, TypeOK
  <1>5. ASSUME NEW c \in Clients, GetBegin(c) PROVE TypeOK'
    BY <1>5, DataLemma, NothingOutcome DEF GetBegin, BeginRead, StartReads, TypeOK
  <1>6. ASSUME NEW c \in Clients, GetError(c) PROVE TypeOK'
    BY <1>6, ReadErrorType DEF GetError
  <1>7. ASSUME NEW c \in Clients, GetComplete(c) PROVE TypeOK'
    <2>1. [d \in 0..K - 1 |-> buf[c][DataPos(d, R)]] \in [0..K - 1 -> Content]
      BY DataLemma DEF TypeOK
    <2>2. LocalsOK' /\ pc' \in [Clients -> Phase] /\ ret' \in [Clients -> Outcome]
      BY <1>7, <2>1, GetResultType, ReturnType DEF GetComplete
    <2>. QED
      BY <1>7, <2>2 DEF GetComplete, TypeOK, LocalsOK, Phase
  <1>8. ASSUME NEW c \in Clients, GetDegraded(c) PROVE TypeOK'
    <2>. DEFINE d == FailIndex(c)
                S == FetchPositions(d, N, K, R) \cap Index
    <2>1. DataPos(d, R) \in Index
      BY <1>8, FailIndexLemma, DataLemma DEF GetDegraded
    <2>. HIDE DEF d
    <2>2. failNode' \in [Clients -> Index \cup {None}]
      BY <1>8, <2>1 DEF GetDegraded, TypeOK, d
    <2>3. CASE /\ StartReads(c, "parity", S)
               /\ UNCHANGED <<ret, stale, setVars, buf, overlap>>
      BY <1>8, <2>2, <2>3 DEF GetDegraded, StartReads, TypeOK
    <2>4. CASE /\ StartReads(c, "parity", {})
               /\ Forget(c, S)
               /\ UNCHANGED <<ret, setVars, buf, overlap>>
      <3>1. stale' \in [Clients -> SUBSET Index]
        BY <2>4, ForgetType
      <3>. QED
        BY <1>8, <2>2, <2>4, <3>1 DEF GetDegraded, StartReads, TypeOK
    <2>5. CASE Abort(c) /\ UNCHANGED stale
      <3>1. LocalsOK' /\ pc' \in [Clients -> Phase] /\ ret' \in [Clients -> Outcome]
        BY <2>5, AbortType
      <3>. QED
        BY <1>8, <2>2, <2>5, <3>1 DEF GetDegraded, TypeOK, LocalsOK, Phase
    <2>. QED
      BY <1>8, <2>3, <2>4, <2>5 DEF GetDegraded, d
  <1>9. ASSUME NEW c \in Clients, GetFinish(c) PROVE TypeOK'
    <2>. DEFINE d == FailIndex(c)
                block == Decode(buf[c], DecodeSources(d, N, K, R))
                val == [e \in 0..K - 1 |->
                          IF e = d THEN block
                          ELSE IF e \in Missing(c) THEN Junk ELSE buf[c][DataPos(e, R)]]
    <2>1. block \in Content /\ Junk \in Content
      BY DecodeType DEF TypeOK, Content
    <2>. HIDE DEF block, d
    <2>2. val \in [0..K - 1 -> Content]
      BY <2>1, DataLemma DEF TypeOK
    <2>. HIDE DEF val
    <2>3. GetResult(c, val) \in Outcome
      BY <2>2, GetResultType
    <2>4. \/ WriteBack(c, block) /\ Return(c, GetResult(c, val))
          \/ Abort(c) /\ UNCHANGED <<store, flight, stale, dirty, clean>>
      BY <1>9 DEF GetFinish, val, block, d
    <2>5. LocalsOK' /\ pc' \in [Clients -> Phase] /\ ret' \in [Clients -> Outcome]
      BY <2>3, <2>4, ReturnType, AbortType
    <2>6. /\ store' \in [Index -> Content] /\ flight' \subseteq Request
          /\ stale' \in [Clients -> SUBSET Index] /\ dirty' \in BOOLEAN /\ clean' \in BOOLEAN
      <3>1. failNode[c] \in Index
        BY <1>9 DEF GetFinish, Aimed
      <3>. QED
        BY <2>1, <2>4, <3>1, WriteBackType DEF TypeOK
    <2>. QED
      BY <1>9, <2>5, <2>6 DEF GetFinish, TypeOK, LocalsOK, Phase
  <1>10. ASSUME NEW c \in Clients, NEW f \in Index, RepairBegin(c, f) PROVE TypeOK'
    BY <1>10, GroupLemma, NothingOutcome DEF RepairBegin, BeginRead, StartReads, TypeOK
  <1>11. ASSUME NEW c \in Clients, NEW f \in Index, RepairError(c, f) PROVE TypeOK'
    BY <1>11, ReadErrorType DEF RepairError
  <1>12. ASSUME NEW c \in Clients, RepairFinish(c) PROVE TypeOK'
    <2>. DEFINE f == failNode[c]
                block == Decode(buf[c], Group(f) \ {f})
    <2>1. block \in Content
      BY DecodeType DEF TypeOK
    <2>. HIDE DEF block
    <2>2. \/ WriteBack(c, block) /\ Return(c, [op |-> "repair", rc |-> "SUCCESS"])
          \/ Abort(c) /\ UNCHANGED <<store, flight, stale, dirty, clean>>
      BY <1>12 DEF RepairFinish, block
    <2>3. LocalsOK' /\ pc' \in [Clients -> Phase] /\ ret' \in [Clients -> Outcome]
      BY <2>2, PlainOutcome, ReturnType, AbortType
    <2>4. /\ store' \in [Index -> Content] /\ flight' \subseteq Request
          /\ stale' \in [Clients -> SUBSET Index] /\ dirty' \in BOOLEAN /\ clean' \in BOOLEAN
      <3>1. failNode[c] \in Index
        BY <1>12 DEF RepairFinish, Aimed
      <3>. QED
        BY <2>1, <2>2, <3>1, WriteBackType DEF TypeOK
    <2>. QED
      BY <1>12, <2>3, <2>4 DEF RepairFinish, TypeOK, LocalsOK, Phase
  <1>13. ASSUME NEW c \in Clients, NEW p \in Index, Delete(c, p) PROVE TypeOK'
    <2>1. LocalsOK' /\ pc' \in [Clients -> Phase] /\ ret' \in [Clients -> Outcome]
      BY <1>13, PlainOutcome, ReturnType DEF Delete
    <2>2. stale' \in [Clients -> SUBSET Index]
      BY <1>13, ForgetType DEF Delete
    <2>3. store' \in [Index -> Content]
      BY <1>13 DEF Delete, TypeOK, Content
    <2>4. losses' \in 0..MaxLosses
      BY <1>13, BoundAssumption, SMT DEF Delete, TypeOK
    <2>5. flight' \subseteq Request
      <3>1. None \in Content
        BY DEF Content
      <3>2. UNCHANGED flight \/ Send(c, p, None) \/ Gone(p, None)
        BY <1>13 DEF Delete
      <3>. QED
        BY <3>1, <3>2, SendType DEF TypeOK
    <2>. QED
      BY <1>13, <2>1, <2>2, <2>3, <2>4, <2>5 DEF Delete, TypeOK, LocalsOK, Phase
  <1>14. ASSUME NEW p \in Index, ServerFails(p) PROVE TypeOK'
    <2>1. store' \in [Index -> Content]
      BY <1>14 DEF ServerFails, TypeOK, Content
    <2>2. losses' \in 0..MaxLosses
      BY <1>14, BoundAssumption, SMT DEF ServerFails, TypeOK
    <2>3. flight' \subseteq Request /\ dirty' \in BOOLEAN /\ clean' \in BOOLEAN
      <3>. DEFINE live == {q \in {q \in flight : q.pos = p} : q.by # None}
      <3>1. CASE flight' \subseteq flight /\ UNCHANGED <<dirty, clean>>
        BY <3>1 DEF TypeOK
      <3>2. CASE BreakOff(live, FALSE)
        <4>1. live \in SUBSET flight
          OBVIOUS
        <4>. HIDE DEF live
        <4>. QED
          BY <3>2, <4>1, BreakOffType
      <3>. QED
        BY <1>14, <3>1, <3>2 DEF ServerFails
    <2>4. taken' \in [Clients -> SUBSET Index] /\ stale' \in [Clients -> SUBSET Index]
      BY <1>14 DEF ServerFails, TypeOK
    <2>. QED
      BY <1>14, <2>1, <2>2, <2>3, <2>4 DEF ServerFails, TypeOK
  <1>15. ASSUME NEW p \in Index, ServerReturns(p) PROVE TypeOK'
    BY <1>15 DEF ServerReturns, TypeOK
  <1>16. ASSUME NEW p \in Index, Evict(p) PROVE TypeOK'
    <2>1. store' \in [Index -> Content]
      BY <1>16 DEF Evict, TypeOK, Content
    <2>2. losses' \in 0..MaxLosses
      BY <1>16, BoundAssumption, SMT DEF Evict, TypeOK
    <2>. QED
      BY <1>16, <2>1, <2>2 DEF Evict, TypeOK
  <1>17. ASSUME NEW c \in Clients, ClientDies(c) PROVE TypeOK'
    <2>1. LocalsOK' /\ pc' \in [Clients -> Phase] /\ ret' \in [Clients -> Outcome]
      BY <1>17, AbortType DEF ClientDies
    <2>2. flight' \subseteq Request /\ dirty' \in BOOLEAN /\ clean' \in BOOLEAN
      <3>. DEFINE Q == {q \in flight : q.by = c}
                  damage == Setting(c) /\ sent[c] > 0
      <3>1. Q \in SUBSET flight /\ damage \in BOOLEAN /\ BreakOff(Q, damage)
        BY <1>17 DEF ClientDies, Setting
      <3>. HIDE DEF Q, damage
      <3>. QED
        BY <3>1, BreakOffType
    <2>. QED
      BY <1>17, <2>1, <2>2 DEF ClientDies, TypeOK, LocalsOK, Phase
  <1>18. ASSUME NEW c \in Clients, SetCrash(c) PROVE TypeOK'
    <2>1. LocalsOK' /\ pc' \in [Clients -> Phase] /\ ret' \in [Clients -> Outcome]
      BY <1>18, AbortType DEF SetCrash
    <2>. QED
      BY <1>18, <2>1 DEF SetCrash, TypeOK, LocalsOK, Phase
  <1>19. CASE UNCHANGED vars
    BY <1>19 DEF vars, TypeOK
  <1>20. ASSUME NEW q \in flight, Execute(q) PROVE TypeOK'
    <2>1. q.pos \in Index /\ q.block \in Content
      BY DEF TypeOK, Request
    <2>2. store' \in [Index -> Content] /\ flight' \subseteq Request
      BY <1>20, <2>1 DEF Execute, TypeOK
    <2>. QED
      BY <1>20, <2>2 DEF Execute, TypeOK
  <1>. QED
    BY <1>1, <1>2, <1>3, <1>4, <1>5, <1>6, <1>7, <1>8, <1>9, <1>10, <1>11, <1>12,
       <1>13, <1>14, <1>15, <1>16, <1>17, <1>18, <1>19, <1>20
       DEF Next, Start, Continue, Environment
----------------------------------------------------------------------------
(***************************************************************************)
(* What an operation that ends leaves behind, client by client.            *)
(***************************************************************************)
LEMMA LeaveEffect ==
    ASSUME TypeOK, NEW c \in Clients, Leave(c), NEW d \in Clients
    PROVE  /\ sent'[d] = IF d = c THEN 0 ELSE sent[d]
           /\ setVer'[d] = IF d = c THEN 0 ELSE setVer[d]
           /\ todo'[d] = IF d = c THEN {} ELSE todo[d]
           /\ buf'[d] = IF d = c THEN NothingRead ELSE buf[d]
           /\ overlap'[d] = IF d = c THEN FALSE ELSE overlap[d]
  BY DEF TypeOK, Leave

\* What is known of a client after its operation has ended.
LEMMA EndEffect ==
    ASSUME TypeOK, NEW c \in Clients,
           (\E r : Return(c, r)) \/ Abort(c)
    PROVE  /\ Leave(c)
           /\ pc'[c] \in {"idle", "aborted"}
           /\ \A d \in Clients \ {c} : pc'[d] = pc[d]
  BY DEF TypeOK, Return, Abort

(***************************************************************************)
(* Every step keeps SetProgress.                                           *)
(***************************************************************************)
LEMMA ProgressEnd ==
    ASSUME TypeOK, SetProgress, NEW c \in Clients,
           (\E r : Return(c, r)) \/ Abort(c)
    PROVE  SetProgress'
  <1>1. Leave(c) /\ pc'[c] \in {"idle", "aborted"} /\ \A d \in Clients \ {c} : pc'[d] = pc[d]
    BY EndEffect
  <1>2. \A d \in Clients : /\ sent'[d] = IF d = c THEN 0 ELSE sent[d]
                           /\ setVer'[d] = IF d = c THEN 0 ELSE setVer[d]
    BY <1>1, LeaveEffect
  <1>. QED
    BY <1>1, <1>2 DEF SetProgress, Setting

\* Every step preserves SetProgress.
LEMMA ProgressStep == TypeOK /\ SetProgress /\ [Next]_vars => SetProgress'
  <1>. SUFFICES ASSUME TypeOK, SetProgress, [Next]_vars PROVE SetProgress'
    OBVIOUS
  <1>. USE DEF serverVars, historyVars, setVars, readVars
  <1>1. ASSUME NEW c \in Clients, SetBegin(c) PROVE SetProgress'
    <2>1. ver + 1 \in 1..MaxSets /\ 0 < N
      BY <1>1, CodeFacts, BoundAssumption, SMT DEF SetBegin, TypeOK
    <2>2. sent[c] = 0
      BY <1>1 DEF SetBegin, SetProgress
    <2>3. \A d \in Clients : /\ pc'[d] = IF d = c THEN "set" ELSE pc[d]
                             /\ setVer'[d] = IF d = c THEN ver + 1 ELSE setVer[d]
                             /\ sent'[d] = sent[d]
      BY <1>1 DEF SetBegin, TypeOK
    <2>. QED
      BY <2>1, <2>2, <2>3 DEF SetProgress, Setting
  <1>2. ASSUME NEW c \in Clients, SetSend(c) PROVE SetProgress'
    <2>1. CASE SetAdvance(c)
      <3>1. sent[c] \in Nat /\ sent[c] < N /\ N \in Nat /\ pc[c] = "set"
        BY <1>2, CodeFacts, SMT DEF SetSend, SetProgress, TypeOK, Setting
      <3>2. \A d \in Clients :
               /\ sent'[d] = IF d = c THEN sent[c] + 1 ELSE sent[d]
               /\ setVer'[d] = setVer[d]
               /\ pc'[d] = IF d = c /\ sent[c] + 1 = N THEN "answer" ELSE pc[d]
        BY <2>1 DEF SetAdvance, TypeOK
      <3>3. sent[c] + 1 # N => sent[c] + 1 < N
        BY <3>1, SMT
      <3>. QED
        BY <3>1, <3>2, <3>3 DEF SetProgress, Setting
    <2>2. CASE \E r : Return(c, r)
      BY <2>2, ProgressEnd
    <2>. QED
      BY <1>2, <2>1, <2>2 DEF SetSend
  <1>3. ASSUME NEW c \in Clients,
               SetAnswer(c) \/ GetComplete(c) \/ GetFinish(c) \/ RepairFinish(c)
               \/ GetError(c) \/ (\E p \in Index : RepairError(c, p) \/ Delete(c, p))
               \/ SetCrash(c) \/ ClientDies(c)
        PROVE  SetProgress'
    <2>1. (\E r : Return(c, r)) \/ Abort(c)
      BY <1>3 DEF SetAnswer, GetComplete, GetFinish, RepairFinish, GetError, RepairError,
                  ReadError, Delete, SetCrash, ClientDies
    <2>. QED
      BY <2>1, ProgressEnd
  <1>4. ASSUME NEW c \in Clients, GetDegraded(c) PROVE SetProgress'
    <2>1. CASE Abort(c)
      BY <2>1, ProgressEnd
    <2>2. CASE (\E S : StartReads(c, "parity", S)) /\ UNCHANGED setVars
      BY <1>4, <2>2 DEF StartReads, GetDegraded, SetProgress, Setting, TypeOK
    <2>. QED
      BY <1>4, <2>1, <2>2 DEF GetDegraded
  <1>5. ASSUME NEW c \in Clients, GetBegin(c) \/ \E f \in Index : RepairBegin(c, f)
        PROVE  SetProgress'
    BY <1>5 DEF GetBegin, RepairBegin, BeginRead, StartReads, SetProgress, Setting, TypeOK
  <1>6. CASE /\ UNCHANGED <<pc, sent, setVer>>
    BY <1>6 DEF SetProgress, Setting
  <1>7. ASSUME NEW c \in Clients, NEW p \in Index, Fetch(c, p) PROVE SetProgress'
    BY <1>6, <1>7 DEF Fetch
  <1>8. ASSUME NEW p \in Index, ServerFails(p) \/ ServerReturns(p) \/ Evict(p)
        PROVE  SetProgress'
    BY <1>6, <1>8 DEF ServerFails, ServerReturns, Evict
  <1>9. CASE UNCHANGED vars
    BY <1>6, <1>9 DEF vars
  <1>10. ASSUME NEW q \in flight, Execute(q) PROVE SetProgress'
    BY <1>6, <1>10 DEF Execute
  <1>. QED
    BY <1>1, <1>2, <1>3, <1>4, <1>5, <1>7, <1>8, <1>9, <1>10
       DEF Next, Start, Continue, Environment

\* Every step preserves Aimed.
LEMMA AimedStep == TypeOK /\ Aimed /\ [Next]_vars => Aimed'
  <1>. SUFFICES ASSUME TypeOK, Aimed, [Next]_vars, NEW d \in Clients,
                       pc'[d] \in {"parity", "repair"}
                PROVE  failNode'[d] \in Index
    BY DEF Aimed
  <1>. USE DEF serverVars, historyVars, setVars, readVars
  <1>1. ASSUME pc'[d] = pc[d], failNode'[d] = failNode[d] PROVE failNode'[d] \in Index
    BY <1>1 DEF Aimed
  <1>2. ASSUME NEW c \in Clients, (\E r : Return(c, r)) \/ Abort(c), failNode' = failNode
        PROVE  failNode'[d] \in Index
    BY <1>1, <1>2, EndEffect
  <1>3. ASSUME NEW c \in Clients, SetBegin(c) PROVE failNode'[d] \in Index
    BY <1>1, <1>3 DEF SetBegin, TypeOK
  <1>4. ASSUME NEW c \in Clients, SetSend(c) PROVE failNode'[d] \in Index
    <2>1. CASE SetAdvance(c)
      BY <1>1, <1>4, <2>1 DEF SetSend, SetAdvance, TypeOK
    <2>. QED
      BY <1>2, <1>4, <2>1 DEF SetSend
  <1>5. ASSUME NEW c \in Clients,
               SetAnswer(c) \/ GetComplete(c) \/ GetFinish(c) \/ RepairFinish(c)
               \/ GetError(c) \/ (\E p \in Index : RepairError(c, p) \/ Delete(c, p))
               \/ SetCrash(c) \/ ClientDies(c)
        PROVE  failNode'[d] \in Index
    <2>1. ((\E r : Return(c, r)) \/ Abort(c)) /\ failNode' = failNode
      BY <1>5 DEF SetAnswer, GetComplete, GetFinish, RepairFinish, GetError, RepairError,
                  ReadError, Delete, SetCrash, ClientDies
    <2>. QED
      BY <1>2, <2>1
  <1>6. ASSUME NEW c \in Clients, GetDegraded(c) PROVE failNode'[d] \in Index
    <2>1. failNode' = [failNode EXCEPT ![c] = DataPos(FailIndex(c), R)]
          /\ DataPos(FailIndex(c), R) \in Index
      BY <1>6, FailIndexLemma, DataLemma DEF GetDegraded
    <2>2. d # c => pc'[d] = pc[d]
      BY <1>6 DEF GetDegraded, StartReads, Abort, TypeOK
    <2>. QED
      BY <1>1, <2>1, <2>2 DEF TypeOK
  <1>7. ASSUME NEW c \in Clients, GetBegin(c) \/ \E f \in Index : RepairBegin(c, f)
        PROVE  failNode'[d] \in Index
    BY <1>1, <1>7 DEF GetBegin, RepairBegin, BeginRead, StartReads, TypeOK
  <1>8. CASE \/ \E c \in Clients, p \in Index : Fetch(c, p)
             \/ \E q \in flight : Execute(q)
             \/ \E p \in Index : ServerFails(p) \/ ServerReturns(p) \/ Evict(p)
             \/ UNCHANGED vars
    BY <1>1, <1>8 DEF Fetch, Execute, ServerFails, ServerReturns, Evict, vars
  <1>. QED
    BY <1>3, <1>4, <1>5, <1>6, <1>7, <1>8 DEF Next, Start, Continue, Environment

(***************************************************************************)
(* Every variable keeps its type in every run of every configuration; in   *)
(* particular no operation ever reads or writes a position outside the     *)
(* stripe, for any code.                                                   *)
(***************************************************************************)
THEOREM TypeCorrect == Spec => []TypeOK
  <1>1. Init => TypeOK /\ SetProgress /\ Aimed
    BY TypeInit
  <1>2. TypeOK /\ SetProgress /\ Aimed /\ [Next]_vars => (TypeOK /\ SetProgress /\ Aimed)'
    BY TypeStep, ProgressStep, AimedStep
  <1>. QED
    BY <1>1, <1>2, PTL DEF Spec
----------------------------------------------------------------------------
(***************************************************************************)
(* Consistency of the stripe.                                              *)
(***************************************************************************)
\* What StripeInv says besides SetProgress and ExecutedBefore.
Linked ==
    /\ ReadersKnow /\ CleanSet /\ StoreConsistent /\ ReadsConsistent /\ Rebuilds

(***************************************************************************)
(* Holds and InFlightAre for servers that have s and requests F.           *)
(***************************************************************************)
Fit(s, F, v, p) ==
    \/ s[p] \in {None, Block(v, p)}
    \/ \E q \in F : q.pos = p /\ q.block = Block(v, p)

Only(F, v) == \A q \in F : q.pos \in Sound => q.block \in {None, Block(v, q.pos)}

\* From s and F to t and G nothing is lost or added that concerns version v: a
\* block is kept, dropped or replaced by that version's, what is sent is of that
\* version, and its blocks that were on their way arrive, or still are.
Evolves(s, F, t, G, v) ==
    /\ \A p \in Sound : t[p] \in {s[p], None, Block(v, p)}
    /\ \A q \in G : q.pos \in Sound =>
          q.block \in {None, Block(v, q.pos)} \/ \E r \in F : r.pos = q.pos /\ r.block = q.block
    /\ \A q \in F : (q.pos \in Sound /\ q.block = Block(v, q.pos)) => Fit(t, G, v, q.pos)

\* A stripe of a version evolves into a stripe of that version.
LEMMA EvolvesKeeps ==
    ASSUME NEW s, NEW F, NEW t, NEW G, NEW v, Evolves(s, F, t, G, v)
    PROVE  /\ \A p \in Sound : Fit(s, F, v, p) => Fit(t, G, v, p)
           /\ Only(F, v) => Only(G, v)
  <1>1. ASSUME NEW p \in Sound, Fit(s, F, v, p) PROVE Fit(t, G, v, p)
    <2>1. CASE s[p] \in {None, Block(v, p)}
      <3>1. t[p] \in {None, Block(v, p)}
        BY <2>1 DEF Evolves
      <3>. QED
        BY <3>1 DEF Fit
    <2>2. CASE \E q \in F : q.pos = p /\ q.block = Block(v, p)
      BY <2>2 DEF Evolves
    <2>. QED
      BY <1>1, <2>1, <2>2 DEF Fit
  <1>2. Only(F, v) => Only(G, v)
    BY DEF Evolves, Only
  <1>. QED
    BY <1>1, <1>2

\* Losing blocks, and sending deletions or blocks of version v, evolves it.
LEMMA LossEvolves ==
    ASSUME NEW s, NEW F, NEW t, NEW G, NEW v,
           \A p \in Sound : t[p] \in {s[p], None, Block(v, p)},
           F \subseteq G,
           \A q \in G \ F : q.pos \in Sound => q.block \in {None, Block(v, q.pos)}
    PROVE  Evolves(s, F, t, G, v)
  <1>1. ASSUME NEW q \in G, q.pos \in Sound
        PROVE  q.block \in {None, Block(v, q.pos)} \/ \E r \in F : r.pos = q.pos /\ r.block = q.block
    BY <1>1
  <1>2. ASSUME NEW q \in F, q.pos \in Sound, q.block = Block(v, q.pos)
        PROVE  Fit(t, G, v, q.pos)
    BY <1>2 DEF Fit
  <1>. QED
    BY <1>1, <1>2 DEF Evolves

\* So does the execution of a request, if it is one of those.
LEMMA ExecuteEvolves ==
    ASSUME TypeOK, NEW v, NEW q \in flight, Execute(q), Only(flight, v)
    PROVE  Evolves(store, flight, store', flight', v)
  <1>1. q.pos \in Index
    BY DEF TypeOK, Request
  <1>2. store'[q.pos] = q.block /\ \A p \in Index : p # q.pos => store'[p] = store[p]
    BY <1>1 DEF Execute, TypeOK
  <1>3. flight' \subseteq flight /\ flight \ {q} \subseteq flight'
    BY DEF Execute
  <1>4. \A p \in Sound : store'[p] \in {store[p], None, Block(v, p)}
    BY <1>2, SoundFacts DEF Only
  <1>5. ASSUME NEW r \in flight, r.pos \in Sound, r.block = Block(v, r.pos)
        PROVE  Fit(store', flight', v, r.pos)
    <2>1. CASE r = q
      BY <1>2, <1>5, <2>1 DEF Fit
    <2>2. CASE r # q
      BY <1>3, <1>5, <2>2 DEF Fit
    <2>. QED
      BY <2>1, <2>2
  <1>. QED
    BY <1>3, <1>4, <1>5 DEF Evolves

\* And the end of connections, unless an older block stays behind.
LEMMA BreakOffEvolves ==
    ASSUME TypeOK, NEW v \in 0..MaxSets, NEW Q \in SUBSET flight, NEW damage,
           BreakOff(Q, damage), UNCHANGED store, clean' \/ ~dirty'
    PROVE  Evolves(store, flight, store', flight', v)
  <1>1. PICK late \in SUBSET Q :
          /\ flight' = (flight \ Q) \cup {Message(None, q.pos, q.block) : q \in late}
          /\ \A q \in Q \ late : ~LeavesOlder(q)
    BY DEF BreakOff
  <1>2. ASSUME NEW q \in late
        PROVE  /\ Message(None, q.pos, q.block) \in flight'
               /\ Message(None, q.pos, q.block).pos = q.pos
               /\ Message(None, q.pos, q.block).block = q.block
    BY <1>1 DEF Message
  <1>3. ASSUME NEW q \in flight', q.pos \in Sound
        PROVE  \E r \in flight : r.pos = q.pos /\ r.block = q.block
    <2>1. CASE q \in flight
      BY <2>1
    <2>2. CASE q \notin flight
      <3>1. PICK r \in late : q = Message(None, r.pos, r.block)
        BY <1>1, <2>2
      <3>. QED
        BY <1>2, <3>1
    <2>. QED
      BY <2>1, <2>2
  <1>4. ASSUME NEW q \in flight, q.pos \in Sound, q.block = Block(v, q.pos)
        PROVE  Fit(store', flight', v, q.pos)
    <2>1. CASE q \in flight \ Q
      BY <1>1, <1>4, <2>1 DEF Fit
    <2>2. CASE q \in late
      BY <1>2, <1>4, <2>2 DEF Fit
    <2>3. CASE q \in Q \ late
      <3>1. q.block # None
        BY <1>4, SoundFacts, BlockIsSome
      <3>2. store[q.pos] \in {None, q.block}
        BY <1>1, <2>3, <3>1 DEF LeavesOlder
      <3>. QED
        BY <1>4, <3>2 DEF Fit
    <2>. QED
      BY <2>1, <2>2, <2>3
  <1>. QED
    BY <1>3, <1>4 DEF Evolves

\* A crash takes everything that concerns a position away.
LEMMA CrashEvolves ==
    ASSUME TypeOK, NEW v, NEW p \in Index,
           store' = [store EXCEPT ![p] = None], flight' = flight \ {q \in flight : q.pos = p}
    PROVE  Evolves(store, flight, store', flight', v)
  <1>1. store'[p] = None /\ \A q \in Index : q # p => store'[q] = store[q]
    BY DEF TypeOK
  <1>2. ASSUME NEW q \in flight, q.pos \in Sound, q.block = Block(v, q.pos)
        PROVE  Fit(store', flight', v, q.pos)
    <2>1. CASE q.pos = p
      BY <1>1, <2>1 DEF Fit
    <2>2. CASE q.pos # p
      BY <1>2, <2>2 DEF Fit
    <2>. QED
      BY <2>1, <2>2
  <1>. QED
    BY <1>1, <1>2, SoundFacts DEF Evolves

(***************************************************************************)
(* A step is gentle if the versions that matter evolve in it: that of a    *)
(* set that stays clean, and the last one if the stripe stays undamaged.   *)
(***************************************************************************)
Gentle ==
    /\ clean' => /\ clean
                 /\ \A d \in Clients : (Setting(d) /\ Only(flight, setVer[d])) =>
                        Evolves(store, flight, store', flight', setVer[d])
    /\ ~dirty' => /\ ~dirty
                  /\ Only(flight, cur) => Evolves(store, flight, store', flight', cur)

\* What a get found missing depends on what it has read only.
LEMMA MissingSame ==
    ASSUME NEW c, buf'[c] = buf[c]
    PROVE  Missing(c)' = Missing(c) /\ FailIndex(c)' = FailIndex(c)
  <1>1. Missing(c)' = Missing(c)
    BY DEF Missing
  <1>. QED
    BY <1>1 DEF FailIndex

\* A gentle step keeps what holds of a set that goes on.
LEMMA GentleClean ==
    ASSUME Linked, Gentle, clean', NEW d \in Clients, Setting(d)
    PROVE  /\ \A e \in Clients : Setting(e) => e = d
           /\ \A p \in Sound : p < sent[d] => Fit(store', flight', setVer[d], p)
           /\ Only(flight', setVer[d])
  <1>1. clean
    BY DEF Gentle
  <1>2. /\ \A e \in Clients : Setting(e) => e = d
        /\ \A p \in Sound : p < sent[d] => Fit(store, flight, setVer[d], p)
        /\ Only(flight, setVer[d])
    BY <1>1 DEF Linked, CleanSet, Holds, InFlightAre, Fit, Only
  <1>3. Evolves(store, flight, store', flight', setVer[d])
    BY <1>2 DEF Gentle
  <1>. QED
    BY <1>2, <1>3, EvolvesKeeps

\* And what holds of a stripe nobody is overwriting.
LEMMA GentleStripe ==
    ASSUME Linked, Gentle, ~dirty', \A d \in Clients : Setting(d) => sent[d] = 0
    PROVE  /\ \A p \in Sound : Fit(store', flight', cur, p)
           /\ Only(flight', cur)
           /\ \A p \in Sound : store'[p] \in {store[p], None, Block(cur, p)}
  <1>1. ~dirty
    BY DEF Gentle
  <1>2. (\A p \in Sound : Fit(store, flight, cur, p)) /\ Only(flight, cur)
    BY <1>1 DEF Linked, StoreConsistent, StripeIs, Holds, InFlightAre, Fit, Only
  <1>3. Evolves(store, flight, store', flight', cur)
    BY <1>2 DEF Gentle
  <1>4. \A p \in Sound : store'[p] \in {store[p], None, Block(cur, p)}
    BY <1>3 DEF Evolves
  <1>. QED
    BY <1>2, <1>3, <1>4, EvolvesKeeps

\* And what holds of an undisturbed reader that goes on.
LEMMA GentleReads ==
    ASSUME Linked, Gentle, ~dirty', NEW d \in Clients, Reading(d), ~overlap[d]
    PROVE  /\ \A p \in Sound : store[p] \in {None, Block(cur, p)} /\ buf[d][p] \in {None, Block(cur, p)}
           /\ \A p \in Sound : store'[p] \in {None, Block(cur, p)}
  <1>1. ~dirty
    BY DEF Gentle
  <1>2. \A p \in Sound : store[p] \in {None, Block(cur, p)} /\ buf[d][p] \in {None, Block(cur, p)}
    BY <1>1 DEF Linked, ReadsConsistent
  <1>3. \A e \in Clients : ~Setting(e)
    BY DEF Linked, ReadersKnow
  <1>4. \A p \in Sound : store'[p] \in {store[p], None, Block(cur, p)}
    BY <1>3, GentleStripe
  <1>. QED
    BY <1>2, <1>4

\* The end of connections is gentle.
LEMMA BreakOffGentle ==
    ASSUME TypeOK, NEW Q \in SUBSET flight, NEW damage, BreakOff(Q, damage),
           UNCHANGED <<store, cur>>
    PROVE  Gentle
  <1>1. (clean' => clean) /\ (~dirty' => ~dirty)
    BY DEF BreakOff
  <1>2. cur \in 0..MaxSets /\ \A d \in Clients : setVer[d] \in 0..MaxSets
    BY DEF TypeOK
  <1>. QED
    BY <1>1, <1>2, BreakOffEvolves DEF Gentle

(***************************************************************************)
(* The end of an operation of c keeps the invariant, if it is gentle and   *)
(* declares the stripe dirty when it leaves a set half done.               *)
(***************************************************************************)
LEMMA EndKeeps ==
    ASSUME TypeOK, SetProgress, Linked, NEW c \in Clients,
           (\E r : Return(c, r)) \/ Abort(c),
           cur' = cur, Gentle,
           ~dirty' => (Setting(c) => sent[c] = 0),
           \A d \in Clients \ {c} : failNode'[d] = failNode[d]
    PROVE  Linked'
  <1>1. Leave(c) /\ pc'[c] \in {"idle", "aborted"} /\ \A d \in Clients \ {c} : pc'[d] = pc[d]
    BY EndEffect
  <1>2. \A d \in Clients : /\ sent'[d] = IF d = c THEN 0 ELSE sent[d]
                           /\ setVer'[d] = IF d = c THEN 0 ELSE setVer[d]
                           /\ todo'[d] = IF d = c THEN {} ELSE todo[d]
                           /\ buf'[d] = IF d = c THEN NothingRead ELSE buf[d]
                           /\ overlap'[d] = IF d = c THEN FALSE ELSE overlap[d]
    BY <1>1, LeaveEffect
  <1>3. ~Setting(c)' /\ ~Reading(c)' /\ pc'[c] # "parity" /\ pc'[c] # "repair"
    BY <1>1 DEF Setting, Reading
  <1>4. \A d \in Clients \ {c} : /\ Setting(d)' = Setting(d) /\ Reading(d)' = Reading(d)
                                 /\ pc'[d] = pc[d]
    BY <1>1 DEF Setting, Reading
  <1>5. ReadersKnow'
    BY <1>2, <1>3, <1>4 DEF Linked, ReadersKnow, NothingRead
  <1>6. CleanSet'
    <2>. SUFFICES ASSUME clean', NEW d \in Clients, Setting(d)'
                  PROVE  /\ \A e \in Clients : Setting(e)' => e = d
                         /\ \A p \in Sound : p < sent'[d] => Fit(store', flight', setVer'[d], p)
                         /\ Only(flight', setVer'[d])
      BY DEF CleanSet, Holds, InFlightAre, Fit, Only, Block
    <2>1. d # c /\ Setting(d) /\ sent'[d] = sent[d] /\ setVer'[d] = setVer[d]
      BY <1>2, <1>3, <1>4
    <2>2. /\ \A e \in Clients : Setting(e) => e = d
          /\ \A p \in Sound : p < sent[d] => Fit(store', flight', setVer[d], p)
          /\ Only(flight', setVer[d])
      BY <2>1, GentleClean
    <2>. QED
      BY <1>3, <1>4, <2>1, <2>2
  <1>7. StoreConsistent'
    <2>. SUFFICES ASSUME ~dirty', \A d \in Clients : Setting(d)' => sent'[d] = 0
                  PROVE  (\A p \in Sound : Fit(store', flight', cur, p)) /\ Only(flight', cur)
      BY DEF StoreConsistent, StripeIs, Holds, InFlightAre, Fit, Only, Block
    <2>1. \A d \in Clients : Setting(d) => sent[d] = 0
      BY <1>2, <1>4
    <2>. QED
      BY <2>1, GentleStripe
  <1>8. ReadsConsistent'
    <2>. SUFFICES ASSUME NEW d \in Clients, Reading(d)', ~overlap'[d], ~dirty'
                  PROVE  \A p \in Sound : /\ store'[p] \in {None, Block(cur, p)}
                                          /\ buf'[d][p] \in {None, Block(cur, p)}
      BY DEF ReadsConsistent, Block
    <2>1. Reading(d) /\ ~overlap[d] /\ buf'[d] = buf[d]
      BY <1>2, <1>3, <1>4
    <2>. QED
      BY <2>1, GentleReads
  <1>9. Rebuilds'
    <2>. SUFFICES ASSUME NEW d \in Clients, d # c
                  PROVE  /\ pc'[d] = "parity" =>
                              /\ Missing(d)' # {}
                              /\ failNode'[d] = DataPos(FailIndex(d)', R)
                              /\ todo'[d] \subseteq FetchPositions(FailIndex(d)', N, K, R)
                         /\ pc'[d] = "repair" => failNode'[d] \in Index
      BY <1>3 DEF Rebuilds
    <2>1. Missing(d)' = Missing(d) /\ FailIndex(d)' = FailIndex(d)
      BY <1>2, MissingSame
    <2>2. pc'[d] = pc[d] /\ failNode'[d] = failNode[d] /\ todo'[d] = todo[d]
      BY <1>2, <1>4
    <2>. QED
      BY <2>1, <2>2 DEF Linked, Rebuilds
  <1>. QED
    BY <1>5, <1>6, <1>7, <1>8, <1>9 DEF Linked

(***************************************************************************)
(* So does a gentle step of a server.                                      *)
(***************************************************************************)
LEMMA ServerKeeps ==
    ASSUME Linked, Gentle, UNCHANGED <<pc, failNode, setVer, sent, readVars, cur, overlap>>
    PROVE  Linked'
  <1>. USE DEF readVars
  <1>1. \A d \in Clients : Setting(d)' = Setting(d) /\ Reading(d)' = Reading(d)
    BY DEF Setting, Reading
  <1>2. \A d \in Clients : Missing(d)' = Missing(d) /\ FailIndex(d)' = FailIndex(d)
    BY MissingSame
  <1>3. ReadersKnow'
    BY <1>1 DEF Linked, ReadersKnow, NothingRead
  <1>4. CleanSet'
    <2>. SUFFICES ASSUME clean', NEW d \in Clients, Setting(d)
                  PROVE  /\ \A e \in Clients : Setting(e) => e = d
                         /\ \A p \in Sound : p < sent[d] => Fit(store', flight', setVer[d], p)
                         /\ Only(flight', setVer[d])
      BY <1>1 DEF CleanSet, Holds, InFlightAre, Fit, Only, Block
    <2>. QED
      BY GentleClean
  <1>5. StoreConsistent'
    <2>. SUFFICES ASSUME ~dirty', \A d \in Clients : Setting(d) => sent[d] = 0
                  PROVE  (\A p \in Sound : Fit(store', flight', cur, p)) /\ Only(flight', cur)
      BY <1>1 DEF StoreConsistent, StripeIs, Holds, InFlightAre, Fit, Only, Block
    <2>. QED
      BY GentleStripe
  <1>6. ReadsConsistent'
    <2>. SUFFICES ASSUME NEW d \in Clients, Reading(d), ~overlap[d], ~dirty'
                  PROVE  \A p \in Sound : /\ store'[p] \in {None, Block(cur, p)}
                                          /\ buf[d][p] \in {None, Block(cur, p)}
      BY <1>1 DEF ReadsConsistent, Block
    <2>. QED
      BY GentleReads
  <1>7. Rebuilds'
    BY <1>2 DEF Linked, Rebuilds
  <1>. QED
    BY <1>3, <1>4, <1>5, <1>6, <1>7 DEF Linked

\* A set that begins leaves the stripe linked: it has sent nothing yet, nothing
\* of another set is on its way if it is clean, and every client that is reading
\* learns that its reads overlap a set.
LEMMA SetBeginKeeps ==
    ASSUME TypeOK, SetProgress, Linked, NEW c \in Clients, SetBegin(c)
    PROVE  Linked'
  <1>. USE DEF serverVars, readVars
  <1>1. \A d \in Clients : pc'[d] = IF d = c THEN "set" ELSE pc[d]
    BY DEF SetBegin, TypeOK
  <1>2. /\ ~Reading(c) /\ ~Setting(c) /\ Setting(c)' /\ ~Reading(c)'
        /\ \A d \in Clients \ {c} : Setting(d)' = Setting(d) /\ Reading(d)' = Reading(d)
    BY <1>1 DEF Setting, Reading, SetBegin
  <1>3. sent[c] = 0 /\ sent' = sent /\ buf' = buf /\ todo' = todo /\ failNode' = failNode
        /\ store' = store /\ flight' = flight /\ cur' = cur /\ dirty' = dirty
    BY DEF SetBegin, SetProgress
  <1>4. \A d \in Clients : Reading(d)' => overlap'[d]
    BY <1>2 DEF SetBegin
  <1>5. ReadersKnow'
    BY <1>2, <1>3, <1>4 DEF Linked, ReadersKnow, NothingRead
  <1>6. CleanSet'
    <2>. SUFFICES ASSUME clean', NEW d \in Clients, Setting(d)'
                  PROVE  /\ \A e \in Clients : Setting(e)' => e = d
                         /\ \A p \in Sound : ~(p < sent'[d])
                         /\ \A q \in flight' : q.block = None
      BY DEF CleanSet, InFlightAre
    <2>1. (\A e \in Clients \ {c} : ~Setting(e)) /\ Settled
      BY DEF SetBegin
    <2>2. d = c
      BY <1>2, <2>1
    <2>3. \A p \in Sound : ~(p < 0)
      BY CodeFacts, SoundFacts, SMT DEF Index
    <2>. QED
      BY <1>2, <1>3, <2>1, <2>2, <2>3 DEF Settled
  <1>7. StoreConsistent'
    BY <1>2, <1>3 DEF Linked, StoreConsistent, StripeIs, Holds, InFlightAre, Block
  <1>8. ReadsConsistent'
    BY <1>4 DEF ReadsConsistent
  <1>9. Rebuilds'
    <2>1. \A d \in Clients : Missing(d)' = Missing(d) /\ FailIndex(d)' = FailIndex(d)
      BY <1>3, MissingSame
    <2>. QED
      BY <1>1, <1>3, <2>1 DEF Linked, Rebuilds
  <1>. QED
    BY <1>5, <1>6, <1>7, <1>8, <1>9 DEF Linked

(***************************************************************************)
(* A set that goes on: block p is on its way, or was swallowed by a dead   *)
(* connection where there was no older one.                                *)
(***************************************************************************)
LEMMA SetAdvanceKeeps ==
    ASSUME TypeOK, SetProgress, Linked, NEW c \in Clients,
           Setting(c), SetAdvance(c), UNCHANGED <<failNode, store>>,
           flight \subseteq flight',
           flight' \subseteq flight \cup {Message(c, sent[c], Block(setVer[c], sent[c])),
                                          Message(None, sent[c], Block(setVer[c], sent[c]))},
           clean' => clean /\ Fit(store', flight', setVer[c], sent[c])
    PROVE  Linked'
  <1>. DEFINE p == sent[c]
              last == p + 1 = N
  <1>1. p \in Nat /\ p < N /\ N \in Nat /\ p \in Index
    BY CodeFacts, SMT DEF SetProgress, TypeOK, Index
  <1>2. /\ \A d \in Clients : sent'[d] = IF d = c THEN p + 1 ELSE sent[d]
        /\ \A d \in Clients : pc'[d] = IF d = c /\ last THEN "answer" ELSE pc[d]
        /\ setVer' = setVer /\ buf' = buf /\ todo' = todo /\ overlap' = overlap
        /\ IF last THEN cur' = setVer[c] /\ dirty' = ~clean'
                   ELSE cur' = cur /\ dirty' = dirty
    BY DEF SetAdvance, TypeOK, readVars
  <1>3. /\ ~Reading(c) /\ ~Reading(c)' /\ (Setting(c)' <=> ~last)
        /\ \A d \in Clients \ {c} : Setting(d)' = Setting(d) /\ Reading(d)' = Reading(d)
    BY <1>2 DEF Setting, Reading
  <1>. HIDE DEF last, p
  <1>4. ReadersKnow'
    BY <1>2, <1>3 DEF Linked, ReadersKnow, NothingRead
  <1>5. \A d \in Clients : Reading(d)' => overlap'[d]
    BY <1>2, <1>3 DEF Linked, ReadersKnow
  <1>6. clean' => /\ \A e \in Clients : Setting(e) => e = c
                  /\ \A q \in Sound : q < p + 1 => Fit(store', flight', setVer[c], q)
                  /\ Only(flight', setVer[c])
    <2>. SUFFICES ASSUME clean'
                  PROVE  /\ \A e \in Clients : Setting(e) => e = c
                         /\ \A q \in Sound : q < p + 1 => Fit(store', flight', setVer[c], q)
                         /\ Only(flight', setVer[c])
      OBVIOUS
    <2>1. /\ \A e \in Clients : Setting(e) => e = c
          /\ \A q \in Sound : q < p => Fit(store, flight, setVer[c], q)
          /\ Only(flight, setVer[c])
      BY DEF Linked, CleanSet, Holds, InFlightAre, Fit, Only, p
    <2>2. ASSUME NEW q \in Sound, q < p + 1
          PROVE  Fit(store', flight', setVer[c], q)
      <3>. q \in Index
        BY SoundFacts
      <3>1. q < p \/ q = p
        BY <1>1, <2>2, SMT DEF Index
      <3>2. CASE q < p
        BY <2>1, <3>2 DEF Fit
      <3>3. CASE q = p
        BY <3>3 DEF p
      <3>. QED
        BY <3>1, <3>2, <3>3
    <2>3. Only(flight', setVer[c])
      BY <2>1 DEF Only, Message
    <2>. QED
      BY <2>1, <2>2, <2>3
  <1>7. CleanSet'
    <2>. SUFFICES ASSUME clean', NEW d \in Clients, Setting(d)'
                  PROVE  /\ \A e \in Clients : Setting(e)' => e = d
                         /\ \A q \in Sound : q < sent'[d] => Fit(store', flight', setVer'[d], q)
                         /\ Only(flight', setVer'[d])
      BY DEF CleanSet, Holds, InFlightAre, Fit, Only, Block
    <2>1. d = c
      BY <1>3, <1>6
    <2>2. \A e \in Clients : Setting(e)' => e = c
      BY <1>3, <1>6
    <2>. QED
      BY <1>2, <1>6, <2>1, <2>2
  <1>8. StoreConsistent'
    <2>. SUFFICES ASSUME ~dirty', \A d \in Clients : Setting(d)' => sent'[d] = 0
                  PROVE  (\A q \in Sound : Fit(store', flight', cur', q)) /\ Only(flight', cur')
      BY DEF StoreConsistent, StripeIs, Holds, InFlightAre, Fit, Only, Block
    <2>1. p + 1 # 0
      BY <1>1, SMT
    <2>2. last
      BY <1>2, <1>3, <2>1
    <2>3. \A q \in Sound : q < p + 1
      BY <1>1, <2>2, SoundFacts, SMT DEF Index, last
    <2>. QED
      BY <1>2, <1>6, <2>2, <2>3
  <1>9. ReadsConsistent'
    BY <1>5 DEF ReadsConsistent
  <1>10. Rebuilds'
    <2>1. \A d \in Clients : Missing(d)' = Missing(d) /\ FailIndex(d)' = FailIndex(d)
      BY <1>2, MissingSame
    <2>2. pc[c] = "set"
      BY DEF Setting
    <2>. QED
      BY <1>2, <2>1, <2>2 DEF Linked, Rebuilds
  <1>. QED
    BY <1>4, <1>7, <1>8, <1>9, <1>10 DEF Linked
(***************************************************************************)
(* A read that is answered, and the beginning of a read.                   *)
(***************************************************************************)
LEMMA FetchKeeps ==
    ASSUME TypeOK, Linked, NEW c \in Clients, NEW p \in Index, Fetch(c, p)
    PROVE  Linked'
  <1>. USE DEF serverVars, setVars, historyVars
  <1>1. UNCHANGED <<store, flight, pc, failNode, setVars, historyVars>>
    BY DEF Fetch
  <1>2. \A d \in Clients : Setting(d)' = Setting(d) /\ Reading(d)' = Reading(d)
    BY <1>1 DEF Setting, Reading
  <1>3. PICK x \in {store[p], None} : buf' = [buf EXCEPT ![c] = [buf[c] EXCEPT ![p] = x]]
    BY DEF Fetch
  <1>4. /\ \A d \in Clients \ {c} : buf'[d] = buf[d] /\ todo'[d] = todo[d]
        /\ todo'[c] \subseteq todo[c] /\ p \in todo[c] /\ Reading(c)
    BY <1>3 DEF Fetch, TypeOK
  <1>5. \A q \in Index : buf'[c][q] = IF q = p THEN x ELSE buf[c][q]
    BY <1>3 DEF TypeOK
  <1>6. ReadersKnow'
    BY <1>1, <1>2, <1>4 DEF Linked, ReadersKnow, NothingRead
  <1>7. CleanSet' /\ StoreConsistent'
    BY <1>1, <1>2 DEF Linked, CleanSet, StoreConsistent, StripeIs, Holds, InFlightAre, Block
  <1>8. ReadsConsistent'
    <2>. SUFFICES ASSUME NEW d \in Clients, Reading(d), ~overlap[d], ~dirty
                  PROVE  \A q \in Sound : /\ store[q] \in {None, Block(cur, q)}
                                          /\ buf'[d][q] \in {None, Block(cur, q)}
      BY <1>1, <1>2 DEF ReadsConsistent, Block
    <2>1. \A q \in Sound : /\ store[q] \in {None, Block(cur, q)}
                            /\ buf[d][q] \in {None, Block(cur, q)}
      BY DEF Linked, ReadsConsistent
    <2>4. CASE d = c
      BY <1>5, <2>1, <2>4, SoundFacts
    <2>5. CASE d # c
      BY <1>4, <2>1, <2>5
    <2>. QED
      BY <2>4, <2>5
  <1>9. ASSUME pc[c] = "parity"
        PROVE  Missing(c)' = Missing(c) /\ FailIndex(c)' = FailIndex(c)
    <2>1. Missing(c) # {} /\ p \in FetchPositions(FailIndex(c), N, K, R)
      BY <1>4, <1>9 DEF Linked, Rebuilds
    <2>2. FailIndex(c) \in 0..K - 1
      BY <2>1, FailIndexLemma
    <2>3. \A e \in 0..K - 1 : DataPos(e, R) # p
      BY <2>1, <2>2, CodeFacts, FetchedIsNoData
    <2>4. \A e \in 0..K - 1 : buf'[c][DataPos(e, R)] = buf[c][DataPos(e, R)]
      BY <1>5, <2>3, DataLemma
    <2>5. Missing(c)' = Missing(c)
      BY <2>4 DEF Missing
    <2>. QED
      BY <2>5 DEF FailIndex
  <1>10. \A d \in Clients \ {c} : Missing(d)' = Missing(d) /\ FailIndex(d)' = FailIndex(d)
    BY <1>4, MissingSame
  <1>11. Rebuilds'
    <2>. SUFFICES ASSUME NEW d \in Clients
                  PROVE  /\ pc[d] = "parity" =>
                              /\ Missing(d)' # {}
                              /\ failNode[d] = DataPos(FailIndex(d)', R)
                              /\ todo'[d] \subseteq FetchPositions(FailIndex(d)', N, K, R)
                         /\ pc[d] = "repair" => failNode[d] \in Index
      BY <1>1 DEF Rebuilds
    <2>1. todo'[d] \subseteq todo[d]
      BY <1>4
    <2>2. pc[d] = "parity" => Missing(d)' = Missing(d) /\ FailIndex(d)' = FailIndex(d)
      BY <1>9, <1>10
    <2>. QED
      BY <2>1, <2>2 DEF Linked, Rebuilds
  <1>. QED
    BY <1>6, <1>7, <1>8, <1>11 DEF Linked

\* A get or a repair that begins has read nothing, and knows of running sets.
LEMMA BeginKeeps ==
    ASSUME TypeOK, Linked, NEW c \in Clients,
           GetBegin(c) \/ \E f \in Index : RepairBegin(c, f)
    PROVE  Linked'
  <1>. USE DEF serverVars, setVars
  <1>1. /\ UNCHANGED <<store, flight, setVars, buf, ver, cur, dirty, clean>>
        /\ overlap' = [overlap EXCEPT ![c] = ~Settled \/ \E d \in Clients : Setting(d)]
        /\ pc[c] = "idle"
    BY DEF GetBegin, RepairBegin, BeginRead
  <1>2. /\ pc'[c] \in {"get", "repair"} /\ \A d \in Clients \ {c} : pc'[d] = pc[d]
        /\ \A d \in Clients \ {c} : todo'[d] = todo[d] /\ failNode'[d] = failNode[d]
        /\ pc'[c] = "repair" => failNode'[c] \in Index
    BY DEF GetBegin, RepairBegin, StartReads, TypeOK
  <1>3. /\ ~Reading(c) /\ Reading(c)' /\ ~Setting(c)' /\ ~Setting(c)
        /\ \A d \in Clients \ {c} : Setting(d)' = Setting(d) /\ Reading(d)' = Reading(d)
    BY <1>1, <1>2 DEF Setting, Reading
  <1>4. \A d \in Clients :
           overlap'[d] = IF d = c THEN ~Settled \/ \E e \in Clients : Setting(e) ELSE overlap[d]
    BY <1>1 DEF TypeOK
  <1>5. ReadersKnow'
    BY <1>1, <1>3, <1>4 DEF Linked, ReadersKnow, NothingRead
  <1>6. CleanSet' /\ StoreConsistent'
    BY <1>1, <1>3 DEF Linked, CleanSet, StoreConsistent, StripeIs, Holds, InFlightAre, Block
  <1>7. ReadsConsistent'
    <2>. SUFFICES ASSUME NEW d \in Clients, Reading(d)', ~overlap'[d], ~dirty
                  PROVE  \A p \in Sound : /\ store[p] \in {None, Block(cur, p)}
                                          /\ buf'[d][p] \in {None, Block(cur, p)}
      BY <1>1 DEF ReadsConsistent, Block
    <2>1. \A p \in Sound : buf'[c][p] = None
      BY <1>1, <1>3, SoundFacts DEF Linked, ReadersKnow, NothingRead
    <2>2. CASE d = c
      <3>1. Settled /\ \A e \in Clients : ~Setting(e)
        BY <1>4, <2>2
      <3>2. \A p \in Sound : Holds(cur, p)
        BY <3>1 DEF Linked, StoreConsistent, StripeIs
      <3>3. \A p \in Sound : Block(cur, p) # None
        BY SoundFacts, BlockIsSome DEF TypeOK
      <3>. QED
        BY <2>1, <2>2, <3>1, <3>2, <3>3 DEF Settled, Holds
    <2>3. CASE d # c
      BY <1>1, <1>3, <1>4, <2>3 DEF Linked, ReadsConsistent
    <2>. QED
      BY <2>2, <2>3
  <1>8. Rebuilds'
    <2>1. \A d \in Clients : Missing(d)' = Missing(d) /\ FailIndex(d)' = FailIndex(d)
      BY <1>1, MissingSame
    <2>. QED
      BY <1>2, <2>1 DEF Linked, Rebuilds
  <1>. QED
    BY <1>5, <1>6, <1>7, <1>8 DEF Linked

(***************************************************************************)
(* A get that turns to the rest of the group.                              *)
(***************************************************************************)
LEMMA DegradedKeeps ==
    ASSUME TypeOK, SetProgress, Linked, NEW c \in Clients, GetDegraded(c)
    PROVE  Linked'
  <1>. USE DEF serverVars, setVars
  <1>1. /\ UNCHANGED <<store, flight, cur, dirty, clean>> /\ pc[c] = "get" /\ Missing(c) # {}
        /\ failNode' = [failNode EXCEPT ![c] = DataPos(FailIndex(c), R)]
    BY DEF GetDegraded
  <1>2. \A d \in Clients : failNode'[d] = IF d = c THEN DataPos(FailIndex(c), R) ELSE failNode[d]
    BY <1>1 DEF TypeOK
  <1>3. CASE Abort(c)
    <2>1. ~Setting(c)
      BY <1>1 DEF Setting
    <2>2. Gentle
      BY <1>1, LossEvolves DEF Gentle
    <2>. QED
      BY <1>1, <1>2, <1>3, <2>1, <2>2, EndKeeps
  <1>4. CASE /\ \E S \in SUBSET FetchPositions(FailIndex(c), N, K, R) : StartReads(c, "parity", S)
             /\ UNCHANGED <<setVars, buf, overlap>>
    <2>1. /\ pc'[c] = "parity" /\ \A d \in Clients \ {c} : pc'[d] = pc[d] /\ todo'[d] = todo[d]
          /\ todo'[c] \subseteq FetchPositions(FailIndex(c), N, K, R)
      BY <1>4 DEF StartReads, TypeOK
    <2>2. \A d \in Clients : Setting(d)' = Setting(d) /\ Reading(d)' = Reading(d)
      BY <1>1, <2>1 DEF Setting, Reading
    <2>3. ReadersKnow'
      BY <1>4, <2>2 DEF Linked, ReadersKnow, NothingRead
    <2>4. CleanSet' /\ StoreConsistent'
      BY <1>1, <1>4, <2>2
         DEF Linked, CleanSet, StoreConsistent, StripeIs, Holds, InFlightAre, Block
    <2>5. ReadsConsistent'
      BY <1>1, <1>4, <2>2 DEF Linked, ReadsConsistent, Block
    <2>6. \A d \in Clients : Missing(d)' = Missing(d) /\ FailIndex(d)' = FailIndex(d)
      BY <1>4, MissingSame
    <2>7. Rebuilds'
      BY <1>1, <1>2, <2>1, <2>6 DEF Linked, Rebuilds
    <2>. QED
      BY <2>3, <2>4, <2>5, <2>7 DEF Linked
  <1>. QED
    BY <1>3, <1>4 DEF GetDegraded
(***************************************************************************)
(* The write-back of a rebuilt block.                                      *)
(***************************************************************************)
LEMMA WriteBackKeeps ==
    ASSUME TypeOK, SetProgress, Linked, NEW c \in Clients, NEW block,
           Reading(c), WriteBack(c, block), \E r : Return(c, r), UNCHANGED <<cur, failNode>>,
           (~dirty /\ ~overlap[c] /\ block # Junk /\ failNode[c] \in Sound) =>
               block = Block(cur, failNode[c])
    PROVE  Linked'
  <1>1. /\ \A p \in Sound : store'[p] \in IF p = failNode[c] THEN {store[p], block} ELSE {store[p]}
        /\ flight \subseteq flight'
        /\ \A q \in flight' \ flight : q.pos = failNode[c] /\ q.block = block
    BY SoundFacts DEF WriteBack, Gone, Send, Message, TypeOK
  <1>2. ~Setting(c)
    BY DEF Setting, Reading
  <1>3. /\ clean' => clean /\ ~overlap[c]
        /\ ~dirty' => ~dirty /\ ~overlap[c] /\ block # Junk
    BY DEF WriteBack
  <1>4. ~overlap[c] => \A d \in Clients : ~Setting(d)
    BY DEF Linked, ReadersKnow
  <1>5. ASSUME ~dirty' PROVE Evolves(store, flight, store', flight', cur)
    <2>1. failNode[c] \in Sound => block = Block(cur, failNode[c])
      BY <1>3, <1>5
    <2>2. /\ \A p \in Sound : store'[p] \in {store[p], None, Block(cur, p)}
          /\ \A q \in flight' \ flight : q.pos \in Sound => q.block \in {None, Block(cur, q.pos)}
      BY <1>1, <2>1
    <2>. QED
      BY <1>1, <2>2, LossEvolves
  <1>6. Gentle
    BY <1>3, <1>4, <1>5 DEF Gentle
  <1>. QED
    BY <1>2, <1>6, EndKeeps

(***************************************************************************)
(* What an undisturbed get or repair decodes is the last set's block.      *)
(***************************************************************************)
LEMMA RebuiltBlock ==
    ASSUME Linked, NEW c \in Clients, Reading(c), ~dirty, ~overlap[c], NEW p \in Sound,
           Decode(buf[c], Group(p) \ {p}) # Junk
    PROVE  Decode(buf[c], Group(p) \ {p}) = Block(cur, p)
  <1>1. \A q \in Sound : buf[c][q] \in {None, Block(cur, q)}
    BY DEF Linked, ReadsConsistent
  <1>2. p \in Index /\ Group(p) \subseteq Sound
    BY SoundFacts
  <1>3. \A q \in Group(p) \ {p} : buf[c][q] \in {None, Junk, Block(cur, q)}
    BY <1>1, <1>2
  <1>. QED
    BY <1>2, <1>3, DecodeIsBlock

\* In a degraded get, a block of a sound group is decoded from the rest of its
\* group.
LEMMA ParitySources ==
    ASSUME Linked, NEW c \in Clients, pc[c] = "parity"
    PROVE  /\ FailIndex(c) \in Missing(c) /\ FailIndex(c) \in 0..K - 1
           /\ failNode[c] = DataPos(FailIndex(c), R) /\ failNode[c] \in Index
           /\ failNode[c] \in Sound =>
                 DecodeSources(FailIndex(c), N, K, R) = Group(failNode[c]) \ {failNode[c]}
  <1>1. Missing(c) # {} /\ failNode[c] = DataPos(FailIndex(c), R)
    BY DEF Linked, Rebuilds
  <1>2. FailIndex(c) \in Missing(c) /\ FailIndex(c) \in 0..K - 1
    BY <1>1, FailIndexLemma
  <1>3. failNode[c] \in Index
    BY <1>1, <1>2, DataLemma
  <1>4. failNode[c] \in Sound =>
            DecodeSources(FailIndex(c), N, K, R) =
                GroupPositions(GroupOf(DataPos(FailIndex(c), R), R), N, R)
                    \ {DataPos(FailIndex(c), R)}
    <2>1. GroupOf(DataPos(FailIndex(c), R), R) = FailIndex(c) \div R
      BY <1>2, CodeFacts, DataPosFacts
    <2>2. failNode[c] \in Sound => K % R = 0 \/ FailIndex(c) \div R # (K - 1) \div R
      BY <1>1, <2>1 DEF Sound
    <2>. QED
      BY <1>2, <2>2, CodeFacts, DecodeSourcesAreGroup, DecodeSourcesOfFullGroup
  <1>. QED
    BY <1>1, <1>2, <1>3, <1>4 DEF Group

\* Every step preserves the link between stripe, sets and readers.
LEMMA LinkedStep == TypeOK /\ SetProgress /\ Linked /\ [Next]_vars => Linked'
  <1>. SUFFICES ASSUME TypeOK, SetProgress, Linked, [Next]_vars PROVE Linked'
    OBVIOUS
  <1>. USE DEF serverVars, historyVars, setVars, readVars
  <1>1. ASSUME NEW c \in Clients, SetBegin(c) PROVE Linked'
    BY <1>1, SetBeginKeeps
  <1>2. ASSUME NEW c \in Clients, SetSend(c) PROVE Linked'
    <2>. DEFINE p == sent[c]
                b == Block(setVer[c], p)
    <2>1. p \in Index
      BY <1>2, CodeFacts, SMT DEF SetSend, SetProgress, TypeOK, Index
    <2>2. CASE Send(c, p, b) /\ UNCHANGED clean /\ SetAdvance(c)
      <3>1. flight' = flight \cup {Message(c, p, b)}
        BY <2>2 DEF Send
      <3>2. /\ Message(c, p, b) \in flight'
            /\ Message(c, p, b).pos = p /\ Message(c, p, b).block = b
        BY <3>1 DEF Message
      <3>3. Fit(store', flight', setVer[c], p)
        BY <3>2 DEF Fit
      <3>. QED
        BY <1>2, <2>2, <3>1, <3>3, SetAdvanceKeeps DEF SetSend
    <2>3. CASE /\ Gone(p, b) /\ SetAdvance(c)
               /\ clean' = (clean /\ (store[p] = None \/ flight' # flight))
      <3>1. flight' = flight \/ flight' = flight \cup {Message(None, p, b)}
        BY <2>3 DEF Gone, Send
      <3>2. Message(None, p, b).pos = p /\ Message(None, p, b).block = b
        BY DEF Message
      <3>3. store' = store
        BY <1>2 DEF SetSend
      <3>4. ASSUME clean' PROVE Fit(store', flight', setVer[c], p)
        <4>1. CASE store[p] = None
          BY <3>3, <4>1 DEF Fit
        <4>2. CASE Message(None, p, b) \in flight'
          BY <3>2, <4>2 DEF Fit
        <4>. QED
          BY <2>3, <3>1, <3>4, <4>1, <4>2
      <3>. QED
        BY <1>2, <2>3, <3>1, <3>4, SetAdvanceKeeps DEF SetSend
    <2>4. CASE /\ Return(c, [op |-> "set", rc |-> "ERROR"])
               /\ dirty' = (dirty \/ p > 0)
               /\ UNCHANGED <<flight, cur, clean>>
      <3>1. sent[c] > 0 \/ sent[c] = 0
        BY <2>1, CodeFacts, SMT DEF Index
      <3>2. ~dirty' => ~dirty /\ sent[c] = 0
        BY <2>4, <3>1, Zenon
      <3>3. UNCHANGED <<store, failNode>>
        BY <1>2 DEF SetSend
      <3>4. Gentle
        BY <2>4, <3>2, <3>3, LossEvolves DEF Gentle
      <3>. QED
        BY <2>4, <3>2, <3>3, <3>4, EndKeeps
    <2>. QED
      BY <1>2, <2>2, <2>3, <2>4 DEF SetSend
  <1>3. ASSUME NEW c \in Clients,
               SetAnswer(c) \/ SetCrash(c) \/ GetComplete(c) \/ GetError(c)
               \/ \E f \in Index : RepairError(c, f)
        PROVE  Linked'
    <2>1. /\ (\E r : Return(c, r)) \/ Abort(c)
          /\ UNCHANGED <<store, flight, failNode, cur, dirty, clean>>
          /\ ~Setting(c)
      BY <1>3 DEF SetAnswer, SetCrash, GetComplete, GetError, RepairError, ReadError, Setting
    <2>2. Gentle
      BY <2>1, LossEvolves DEF Gentle
    <2>. QED
      BY <2>1, <2>2, EndKeeps
  <1>4. ASSUME NEW c \in Clients, NEW p \in Index, Fetch(c, p) PROVE Linked'
    BY <1>4, FetchKeeps
  <1>5. ASSUME NEW c \in Clients, GetBegin(c) \/ \E f \in Index : RepairBegin(c, f)
        PROVE  Linked'
    BY <1>5, BeginKeeps
  <1>6. ASSUME NEW c \in Clients, GetDegraded(c) PROVE Linked'
    BY <1>6, DegradedKeeps
  <1>7. ASSUME NEW c \in Clients, GetFinish(c) PROVE Linked'
    <2>. DEFINE p == failNode[c]
                block == Decode(buf[c], DecodeSources(FailIndex(c), N, K, R))
    <2>1. /\ UNCHANGED <<cur, failNode>> /\ Reading(c) /\ ~Setting(c) /\ pc[c] = "parity"
      BY <1>7 DEF GetFinish, Reading, Setting
    <2>2. p \in Sound => DecodeSources(FailIndex(c), N, K, R) = Group(p) \ {p}
      BY <2>1, ParitySources
    <2>3. \/ WriteBack(c, block) /\ \E r : Return(c, r)
          \/ Abort(c) /\ UNCHANGED <<store, flight, stale, dirty, clean>>
      BY <1>7 DEF GetFinish
    <2>4. (~dirty /\ ~overlap[c] /\ block # Junk /\ p \in Sound) => block = Block(cur, p)
      BY <2>1, <2>2, RebuiltBlock
    <2>. HIDE DEF block
    <2>5. CASE Abort(c) /\ UNCHANGED <<store, flight, stale, dirty, clean>>
      <3>1. Gentle
        BY <2>1, <2>5, LossEvolves DEF Gentle
      <3>. QED
        BY <2>1, <2>5, <3>1, EndKeeps
    <2>. QED
      BY <2>1, <2>3, <2>4, <2>5, WriteBackKeeps
  <1>8. ASSUME NEW c \in Clients, RepairFinish(c) PROVE Linked'
    <2>. DEFINE p == failNode[c]
                block == Decode(buf[c], Group(p) \ {p})
    <2>1. /\ UNCHANGED <<cur, failNode>> /\ Reading(c) /\ ~Setting(c) /\ pc[c] = "repair"
      BY <1>8 DEF RepairFinish, Reading, Setting
    <2>3. \/ WriteBack(c, block) /\ \E r : Return(c, r)
          \/ Abort(c) /\ UNCHANGED <<store, flight, stale, dirty, clean>>
      BY <1>8 DEF RepairFinish
    <2>4. (~dirty /\ ~overlap[c] /\ block # Junk /\ p \in Sound) => block = Block(cur, p)
      BY <2>1, RebuiltBlock
    <2>. HIDE DEF block
    <2>5. CASE Abort(c) /\ UNCHANGED <<store, flight, stale, dirty, clean>>
      <3>1. Gentle
        BY <2>1, <2>5, LossEvolves DEF Gentle
      <3>. QED
        BY <2>1, <2>5, <3>1, EndKeeps
    <2>. QED
      BY <2>1, <2>3, <2>4, <2>5, WriteBackKeeps
  <1>9. ASSUME NEW c \in Clients, NEW p \in Index, Delete(c, p) PROVE Linked'
    <2>1. /\ \E r : Return(c, r)
          /\ UNCHANGED <<failNode, cur, dirty, clean>> /\ ~Setting(c)
          /\ \A q \in Sound : store'[q] \in {store[q], None}
      BY <1>9, SoundFacts DEF Delete, Setting, TypeOK
    <2>2. flight \subseteq flight' /\ \A q \in flight' \ flight : q.block = None
      BY <1>9 DEF Delete, Gone, Send, Message
    <2>3. Gentle
      BY <2>1, <2>2, LossEvolves DEF Gentle
    <2>. QED
      BY <2>1, <2>3, EndKeeps
  <1>10. ASSUME NEW c \in Clients, ClientDies(c) PROVE Linked'
    <2>. DEFINE Q == {q \in flight : q.by = c}
                damage == Setting(c) /\ sent[c] > 0
    <2>1. Abort(c) /\ UNCHANGED <<store, failNode, cur>> /\ BreakOff(Q, damage)
      BY <1>10 DEF ClientDies
    <2>2. Q \in SUBSET flight
      OBVIOUS
    <2>. HIDE DEF Q
    <2>3. ~dirty' => ~dirty /\ ~damage
      BY <2>1 DEF BreakOff
    <2>4. sent[c] > 0 \/ sent[c] = 0
      BY CodeFacts, SMT DEF TypeOK
    <2>5. ~dirty' => ~dirty /\ (Setting(c) => sent[c] = 0)
      BY <2>3, <2>4, Zenon
    <2>. HIDE DEF damage
    <2>6. Gentle
      BY <2>1, <2>2, BreakOffGentle
    <2>. QED
      BY <2>1, <2>5, <2>6, EndKeeps
  <1>11. ASSUME NEW p \in Index, ServerReturns(p) \/ Evict(p) PROVE Linked'
    <2>1. UNCHANGED <<flight, pc, failNode, setVars, readVars, historyVars>>
      BY <1>11 DEF ServerReturns, Evict
    <2>2. \A q \in Sound : store'[q] \in {store[q], None}
      BY <1>11, SoundFacts DEF ServerReturns, Evict, TypeOK
    <2>3. Gentle
      BY <2>1, <2>2, LossEvolves DEF Gentle
    <2>. QED
      BY <2>1, <2>3, ServerKeeps
  <1>12. ASSUME NEW p \in Index, ServerFails(p) PROVE Linked'
    <2>. DEFINE Q == {q \in flight : q.pos = p}
                live == {q \in Q : q.by # None}
    <2>1. UNCHANGED <<pc, failNode, setVer, sent, readVars, cur, overlap>>
      BY <1>12 DEF ServerFails
    <2>2. CASE /\ store' = [store EXCEPT ![p] = None] /\ flight' = flight \ Q
               /\ UNCHANGED <<dirty, clean>>
      <3>1. Gentle
        BY <2>2, CrashEvolves DEF Gentle
      <3>. QED
        BY <2>1, <3>1, ServerKeeps
    <2>3. CASE UNCHANGED store /\ BreakOff(live, FALSE)
      <3>1. live \in SUBSET flight
        OBVIOUS
      <3>. HIDE DEF live
      <3>2. Gentle
        BY <2>1, <2>3, <3>1, BreakOffGentle
      <3>. QED
        BY <2>1, <3>2, ServerKeeps
    <2>. QED
      BY <1>12, <2>2, <2>3 DEF ServerFails
  <1>13. ASSUME NEW q \in flight, Execute(q) PROVE Linked'
    <2>1. UNCHANGED <<pc, failNode, setVars, readVars, historyVars>>
      BY <1>13 DEF Execute
    <2>2. Gentle
      BY <1>13, <2>1, ExecuteEvolves DEF Gentle
    <2>. QED
      BY <2>1, <2>2, ServerKeeps
  <1>14. CASE UNCHANGED vars
    <2>1. Gentle
      BY <1>14, LossEvolves DEF Gentle, vars
    <2>. QED
      BY <1>14, <2>1, ServerKeeps DEF vars
  <1>. QED
    BY <1>1, <1>2, <1>3, <1>4, <1>5, <1>6, <1>7, <1>8, <1>9, <1>10, <1>11, <1>12, <1>13, <1>14
       DEF Next, Start, Continue, Environment

\* Initially the stripe is empty and nobody reads or sets.
LEMMA LinkedInit == Init => Linked
  <1>. SUFFICES ASSUME Init PROVE Linked
    OBVIOUS
  <1>1. \A c \in Clients : ~Setting(c) /\ ~Reading(c) /\ buf[c] = NothingRead
                          /\ pc[c] # "parity" /\ pc[c] # "repair"
    BY DEF Init, Setting, Reading
  <1>2. \A p \in Index : store[p] = None
    BY DEF Init
  <1>. QED
    BY <1>1, <1>2, SoundFacts
       DEF Init, Linked, ReadersKnow, CleanSet, StoreConsistent, StripeIs, Holds, InFlightAre,
           ReadsConsistent, Rebuilds

\* Every step preserves ExecutedBefore: a client sends nothing while it reads,
\* and nobody sends in its name.
LEMMA ExecutedStep == TypeOK /\ SetProgress /\ ExecutedBefore /\ [Next]_vars => ExecutedBefore'
  <1>. DEFINE Waits(c) == Reading(c) \/ (Setting(c) /\ sent[c] = 0)
  <1>. SUFFICES ASSUME TypeOK, SetProgress, ExecutedBefore, [Next]_vars, NEW d \in Clients,
                       Waits(d)'
                PROVE  Drained(d)'
    BY DEF ExecutedBefore
  <1>. USE DEF serverVars, historyVars, setVars, readVars
  <1>1. ASSUME Waits(d), \A q \in flight' \ flight : q.by # d PROVE Drained(d)'
    BY <1>1 DEF ExecutedBefore, Drained
  <1>2. ASSUME NEW c \in Clients, (\E r : Return(c, r)) \/ Abort(c),
               d # c => \A q \in flight' \ flight : q.by # d
        PROVE  Drained(d)'
    <2>1. Leave(c) /\ pc'[c] \in {"idle", "aborted"} /\ \A e \in Clients \ {c} : pc'[e] = pc[e]
      BY <1>2, EndEffect
    <2>2. d # c
      BY <2>1 DEF Reading, Setting
    <2>3. Waits(d)
      BY <2>1, <2>2, LeaveEffect DEF Reading, Setting
    <2>. QED
      BY <1>1, <1>2, <2>2, <2>3
  <1>3. None # d
    BY BoundAssumption
  <1>4. ASSUME NEW c \in Clients, SetBegin(c) \/ GetBegin(c) \/ \E f \in Index : RepairBegin(c, f)
        PROVE  Drained(d)'
    <2>1. flight' = flight /\ Drained(c) /\ sent' = sent
      BY <1>4 DEF SetBegin, GetBegin, RepairBegin, BeginRead
    <2>2. d # c => pc'[d] = pc[d]
      BY <1>4 DEF SetBegin, GetBegin, RepairBegin, BeginRead, StartReads, TypeOK
    <2>3. d # c => Waits(d)
      BY <2>1, <2>2 DEF Reading, Setting
    <2>. QED
      BY <1>1, <2>1, <2>3 DEF Drained
  <1>5. ASSUME NEW c \in Clients, SetSend(c) PROVE Drained(d)'
    <2>1. \A q \in flight' \ flight : q.by \in {c, None}
      BY <1>5 DEF SetSend, Gone, Send, Message
    <2>2. CASE SetAdvance(c)
      <3>1. /\ sent'[d] = IF d = c THEN sent[c] + 1 ELSE sent[d]
            /\ pc'[d] \in {pc[d], "answer"} /\ (d # c => pc'[d] = pc[d])
        BY <2>2 DEF SetAdvance, TypeOK
      <3>2. sent[c] \in Nat /\ pc[c] = "set"
        BY <1>5, CodeFacts, SMT DEF SetSend, Setting, TypeOK
      <3>3. sent[c] + 1 # 0
        BY <3>2, SMT
      <3>4. d # c
        BY <3>1, <3>2, <3>3 DEF Reading, Setting
      <3>5. Waits(d)
        BY <3>1, <3>4 DEF Reading, Setting
      <3>. QED
        BY <1>1, <1>3, <2>1, <3>4, <3>5
    <2>. QED
      BY <1>2, <1>3, <1>5, <2>1, <2>2 DEF SetSend
  <1>6. ASSUME NEW c \in Clients,
               SetAnswer(c) \/ GetComplete(c) \/ GetFinish(c) \/ RepairFinish(c)
               \/ GetError(c) \/ (\E p \in Index : RepairError(c, p) \/ Delete(c, p))
               \/ SetCrash(c)
        PROVE  Drained(d)'
    <2>1. (\E r : Return(c, r)) \/ Abort(c)
      BY <1>6 DEF SetAnswer, GetComplete, GetFinish, RepairFinish, GetError, RepairError,
                  ReadError, Delete, SetCrash
    <2>2. \A q \in flight' \ flight : q.by \in {c, None}
      <3>1. flight' # flight => \/ \E p, b : Send(c, p, b)
                                \/ \E p, b : Send(None, p, b)
        <4>1. ASSUME NEW b, WriteBack(c, b), flight' # flight PROVE \E p : Send(None, p, b)
          BY <4>1 DEF WriteBack, Gone
        <4>2. CASE GetFinish(c)
          BY <4>1, <4>2 DEF GetFinish
        <4>3. CASE RepairFinish(c)
          BY <4>1, <4>3 DEF RepairFinish
        <4>4. CASE \E p \in Index : Delete(c, p)
          BY <4>4 DEF Delete, Gone
        <4>5. CASE SetAnswer(c) \/ GetComplete(c) \/ GetError(c) \/ SetCrash(c)
                   \/ \E p \in Index : RepairError(c, p)
          BY <4>5 DEF SetAnswer, GetComplete, GetError, RepairError, ReadError, SetCrash
        <4>. QED
          BY <1>6, <4>2, <4>3, <4>4, <4>5
      <3>2. ASSUME NEW by, NEW p, NEW b, Send(by, p, b)
            PROVE  \A q \in flight' \ flight : q.by = by
        BY <3>2 DEF Send, Message
      <3>. QED
        BY <3>1, <3>2
    <2>. QED
      BY <1>2, <1>3, <2>1, <2>2
  <1>7. ASSUME NEW Q, NEW damage, BreakOff(Q, damage)
        PROVE  \A q \in flight' \ flight : q.by = None
    BY <1>7 DEF BreakOff, Message
  <1>8. ASSUME NEW c \in Clients, ClientDies(c) PROVE Drained(d)'
    BY <1>2, <1>3, <1>7, <1>8 DEF ClientDies
  <1>9. ASSUME NEW c \in Clients, GetDegraded(c) PROVE Drained(d)'
    <2>1. CASE Abort(c)
      BY <1>2, <1>9, <2>1 DEF GetDegraded
    <2>2. CASE (\E S : StartReads(c, "parity", S)) /\ UNCHANGED setVars
      <3>1. Waits(d)
        BY <1>9, <2>2 DEF GetDegraded, StartReads, Reading, Setting, TypeOK
      <3>. QED
        BY <1>1, <1>9, <3>1 DEF GetDegraded
    <2>. QED
      BY <1>9, <2>1, <2>2 DEF GetDegraded
  <1>10. ASSUME UNCHANGED <<pc, sent>>, \A q \in flight' \ flight : q.by = None
         PROVE  Drained(d)'
    <2>1. Waits(d)
      BY <1>10 DEF Reading, Setting
    <2>. QED
      BY <1>1, <1>3, <1>10, <2>1
  <1>11. ASSUME NEW p \in Index, ServerFails(p) PROVE Drained(d)'
    <2>1. \A q \in flight' \ flight : q.by = None
      BY <1>7, <1>11 DEF ServerFails
    <2>. QED
      BY <1>10, <1>11, <2>1 DEF ServerFails
  <1>12. CASE \/ \E c \in Clients, p \in Index : Fetch(c, p)
              \/ \E q \in flight : Execute(q)
              \/ \E p \in Index : ServerReturns(p) \/ Evict(p)
              \/ UNCHANGED vars
    <2>1. UNCHANGED <<pc, sent>> /\ flight' \subseteq flight
      BY <1>12 DEF Fetch, Execute, ServerReturns, Evict, vars
    <2>. QED
      BY <1>10, <2>1
  <1>. QED
    BY <1>4, <1>5, <1>6, <1>8, <1>9, <1>11, <1>12 DEF Next, Start, Continue, Environment

(***************************************************************************)
(* The inductive invariant, with what its parts need of each other.        *)
(***************************************************************************)
Safe == TypeOK /\ SetProgress /\ Aimed /\ ExecutedBefore /\ Linked

LEMMA SafeInit == Init => Safe
  <1>1. Init => ExecutedBefore
    BY DEF Init, ExecutedBefore, Drained
  <1>. QED
    BY <1>1, TypeInit, LinkedInit DEF Safe

LEMMA SafeStep == Safe /\ [Next]_vars => Safe'
  BY TypeStep, ProgressStep, AimedStep, ExecutedStep, LinkedStep DEF Safe

(***************************************************************************)
(* The inductive invariant holds in every interleaving of every number of  *)
(* clients, with requests executed in any order and late, for every code.  *)
(***************************************************************************)
THEOREM InvariantHolds == Spec => []StripeInv
  <1>1. Safe => StripeInv
    BY DEF Safe, StripeInv, Linked
  <1>. QED
    BY <1>1, SafeInit, SafeStep, PTL DEF Spec

(***************************************************************************)
(* Consistency of the stripe: whatever was lost, read, rebuilt, written    *)
(* back and deleted, and in whatever order servers execute what they were  *)
(* sent, every block a server has is the one the last set stored there, or *)
(* that one is on its way, and nothing else is - unless a set was cut      *)
(* short, overtaken or swallowed, or unspecified bytes were written back.  *)
(* If the data blocks do not fill their last group, that group is          *)
(* excepted, and what degraded gets do to it does not reach the others.    *)
(***************************************************************************)
THEOREM Consistency == Spec => []StripeConsistent
  <1>1. StripeInv => StripeConsistent
    BY DEF StripeInv, StoreConsistent, StripeConsistent
  <1>2. Spec => []StripeInv
    BY InvariantHolds
  <1>. QED
    BY <1>1, <1>2, PTL
----------------------------------------------------------------------------
(***************************************************************************)
(* A set with at most one element has no two.                              *)
(***************************************************************************)
LEMMA AtMostOne ==
    ASSUME NEW T, IsFiniteSet(T), Cardinality(T) <= 1, NEW a \in T, NEW b \in T
    PROVE  a = b
  <1>. SUFFICES ASSUME a # b PROVE FALSE
    OBVIOUS
  <1>1. IsFiniteSet({a}) /\ Cardinality({a}) = 1
    BY FS_Singleton
  <1>2. Cardinality({a} \cup {b}) = 1 + 1
    BY <1>1, FS_AddElement
  <1>3. {a} \cup {b} \in SUBSET T
    OBVIOUS
  <1>4. Cardinality({a} \cup {b}) <= Cardinality(T) /\ Cardinality(T) \in Nat
    BY <1>3, FS_Subset, FS_CardinalityType
  <1>. QED
    BY <1>2, <1>4, SMT

\* What SoundBlocksReturned says of one outcome.
RightValue(g) ==
    (g.op = "get" /\ g.rc = "SUCCESS" /\ g.exp > 0 /\ g.lost <= 1) =>
        \A d \in 0..K - 1 : DataPos(d, R) \in Sound => g.val[d] = Block(g.exp, DataPos(d, R))

(***************************************************************************)
(* A get that found every data block returns the right value.              *)
(***************************************************************************)
LEMMA CompleteIsRight ==
    ASSUME TypeOK, Linked, NEW c \in Clients, Reading(c), Missing(c) = {}
    PROVE  RightValue(GetResult(c, [d \in 0..K - 1 |-> buf[c][DataPos(d, R)]]))
  <1>. DEFINE g == GetResult(c, [d \in 0..K - 1 |-> buf[c][DataPos(d, R)]])
  <1>1. /\ g.val = [d \in 0..K - 1 |-> buf[c][DataPos(d, R)]]
        /\ g.exp = IF dirty \/ overlap[c] THEN 0 ELSE cur
    BY DEF GetResult
  <1>. HIDE DEF g
  <1>2. SUFFICES ASSUME g.exp > 0
                 PROVE  \A d \in 0..K - 1 : DataPos(d, R) \in Sound =>
                            g.val[d] = Block(g.exp, DataPos(d, R))
    BY DEF RightValue, g
  <1>3. ~dirty /\ ~overlap[c] /\ g.exp = cur
    BY <1>1, <1>2, SMT
  <1>4. \A p \in Sound : buf[c][p] \in {None, Block(cur, p)}
    BY <1>3 DEF Linked, ReadsConsistent
  <1>5. \A d \in 0..K - 1 : DataPos(d, R) \in Index /\ buf[c][DataPos(d, R)] # None
    BY DataLemma DEF Missing
  <1>. QED
    BY <1>1, <1>3, <1>4, <1>5

(***************************************************************************)
(* So does a get that missed one block in all: the one it has decoded.     *)
(***************************************************************************)
LEMMA DegradedIsRight ==
    ASSUME TypeOK, Linked, NEW c \in Clients, pc[c] = "parity",
           NEW val,
           val = [e \in 0..K - 1 |->
                    IF e = FailIndex(c)
                    THEN Decode(buf[c], DecodeSources(FailIndex(c), N, K, R))
                    ELSE IF e \in Missing(c) THEN Junk ELSE buf[c][DataPos(e, R)]]
    PROVE  RightValue(GetResult(c, val))
  <1>. DEFINE f == FailIndex(c)
              p == failNode[c]
              S == DecodeSources(f, N, K, R)
              block == Decode(buf[c], S)
              T == {q \in (Data \cup S) \cap Index : buf[c][q] = None}
              g == GetResult(c, val)
  <1>1. /\ f \in Missing(c) /\ f \in 0..K - 1 /\ p = DataPos(f, R) /\ p \in Index
        /\ p \in Sound => S = Group(p) \ {p}
    BY ParitySources
  <1>2. /\ g.val = val /\ g.lost = Cardinality(T)
        /\ g.exp = IF dirty \/ overlap[c] THEN 0 ELSE cur
    BY <1>1 DEF GetResult
  <1>. HIDE DEF g
  <1>3. SUFFICES ASSUME g.exp > 0, g.lost <= 1
                 PROVE  \A d \in 0..K - 1 : DataPos(d, R) \in Sound =>
                            val[d] = Block(g.exp, DataPos(d, R))
    BY <1>2 DEF RightValue, g
  <1>4. ~dirty /\ ~overlap[c] /\ g.exp = cur
    BY <1>2, <1>3, SMT
  <1>5. Reading(c)
    BY DEF Reading
  <1>6. \A q \in Sound : buf[c][q] \in {None, Block(cur, q)}
    BY <1>4, <1>5 DEF Linked, ReadsConsistent
  <1>7. T = {q \in (Data \cup S) \cap Index : buf[c][q] = None}
    OBVIOUS
  <1>. HIDE DEF S
  <1>8. IsFiniteSet(T)
    <2>1. IsFiniteSet(Index)
      BY IndexFinite
    <2>2. T \in SUBSET Index
      BY <1>7
    <2>. QED
      BY <2>1, <2>2, FS_Subset
  <1>9. p \in T
    BY <1>1, <1>7, DataLemma DEF Missing
  <1>. HIDE DEF T
  <1>10. \A q \in T : q = p
    BY <1>2, <1>3, <1>8, <1>9, AtMostOne
  <1>11. ASSUME p \in Sound PROVE \A q \in S : q \in Index /\ buf[c][q] = Block(cur, q)
    <2>1. S \subseteq Sound /\ S \subseteq Index /\ p \notin S
      BY <1>1, <1>11, SoundFacts
    <2>. QED
      BY <1>6, <1>7, <1>10, <2>1
  <1>12. cur \in 1..MaxSets
    BY <1>3, <1>4, BoundAssumption, SMT DEF TypeOK
  <1>13. ASSUME p \in Sound PROVE \A q \in S : buf[c][q] \notin {None, Junk}
    BY <1>11, <1>13, <1>12, BlockType, ContentAssumption
  <1>14. ASSUME p \in Sound PROVE block = Block(cur, p)
    <2>1. CASE block = Junk
      <3>1. block \in SUBSET Symbol
        <4>1. block = {x \in UNION {buf[c][q] : q \in S} :
                          Cardinality({q \in S : x \in buf[c][q]}) % 2 = 1}
          BY <1>11, <1>13, <1>14 DEF Decode
        <4>2. \A q \in S : buf[c][q] \subseteq Symbol
          BY <1>11, <1>12, <1>14, BlockType
        <4>. HIDE DEF block
        <4>3. block \subseteq UNION {buf[c][q] : q \in S}
          BY <4>1
        <4>. QED
          BY <4>2, <4>3
      <3>. QED
        BY <2>1, <3>1, ContentAssumption
    <2>2. CASE block # Junk
      BY <1>1, <1>4, <1>5, <1>14, <2>2, RebuiltBlock
    <2>. QED
      BY <2>1, <2>2
  <1>15. ASSUME NEW d \in 0..K - 1, d # f, DataPos(d, R) \in Sound
         PROVE  val[d] = Block(cur, DataPos(d, R))
    <2>1. DataPos(d, R) # p
      BY <1>1, <1>15, CodeFacts, DataPosInjective
    <2>2. DataPos(d, R) \in Data /\ DataPos(d, R) \in Index
      BY DataLemma
    <2>3. buf[c][DataPos(d, R)] # None
      BY <1>7, <1>10, <2>1, <2>2
    <2>4. d \notin Missing(c)
      BY <2>3 DEF Missing
    <2>. QED
      BY <1>6, <1>15, <2>2, <2>3, <2>4
  <1>16. val[f] = block
    BY <1>1 DEF S
  <1>. QED
    BY <1>1, <1>4, <1>14, <1>15, <1>16
(***************************************************************************)
(* Every step keeps SoundBlocksReturned: a client's outcome is replaced by *)
(* another one only when an operation of its own begins or ends.           *)
(***************************************************************************)
LEMMA RightStep == TypeOK /\ Linked /\ SoundBlocksReturned /\ [Next]_vars => SoundBlocksReturned'
  <1>. SUFFICES ASSUME TypeOK, Linked, SoundBlocksReturned, [Next]_vars
                PROVE  SoundBlocksReturned'
    OBVIOUS
  <1>. USE DEF serverVars, historyVars, setVars, readVars
  <1>1. \A c \in Clients : RightValue(ret[c])
    BY DEF SoundBlocksReturned, RightValue
  <1>2. SUFFICES \A c \in Clients : RightValue(ret'[c])
    BY DEF SoundBlocksReturned, RightValue, Block
  <1>3. ASSUME NEW c \in Clients, NEW g, RightValue(g), ret' = [ret EXCEPT ![c] = g]
        PROVE  \A d \in Clients : RightValue(ret'[d])
    BY <1>1, <1>3 DEF TypeOK
  <1>4. ASSUME NEW c \in Clients, NEW g, RightValue(g), Return(c, g)
        PROVE  \A d \in Clients : RightValue(ret'[d])
    BY <1>3, <1>4 DEF Return
  <1>5. RightValue(Nothing)
    BY DEF RightValue, Nothing
  <1>6. ASSUME NEW c \in Clients, Abort(c) PROVE \A d \in Clients : RightValue(ret'[d])
    BY <1>3, <1>5, <1>6 DEF Abort
  <1>7. CASE UNCHANGED ret
    BY <1>1, <1>7
  <1>8. \A op : RightValue([op |-> op, rc |-> "ERROR"])
    BY DEF RightValue
  <1>9. ASSUME NEW c \in Clients, SetBegin(c) \/ GetBegin(c) \/ \E f \in Index : RepairBegin(c, f)
        PROVE  \A d \in Clients : RightValue(ret'[d])
    BY <1>3, <1>5, <1>9 DEF SetBegin, GetBegin, RepairBegin, BeginRead
  <1>10. ASSUME NEW c \in Clients, SetSend(c) PROVE \A d \in Clients : RightValue(ret'[d])
    <2>1. UNCHANGED ret \/ Return(c, [op |-> "set", rc |-> "ERROR"])
      BY <1>10 DEF SetSend, SetAdvance
    <2>. QED
      BY <1>4, <1>7, <1>8, <2>1
  <1>11. ASSUME NEW c \in Clients, SetAnswer(c) PROVE \A d \in Clients : RightValue(ret'[d])
    <2>1. \/ Return(c, [op |-> "set", rc |-> "SUCCESS", stored |-> taken[c]])
          \/ Return(c, [op |-> "set", rc |-> "ERROR"])
      BY <1>11 DEF SetAnswer
    <2>2. RightValue([op |-> "set", rc |-> "SUCCESS", stored |-> taken[c]])
      BY DEF RightValue
    <2>. QED
      BY <1>4, <1>8, <2>1, <2>2
  <1>12. ASSUME NEW c \in Clients, GetError(c) \/ \E f \in Index : RepairError(c, f)
         PROVE  \A d \in Clients : RightValue(ret'[d])
    <2>1. (\E op : Return(c, [op |-> op, rc |-> "ERROR"])) \/ Abort(c)
      BY <1>12 DEF GetError, RepairError, ReadError
    <2>. QED
      BY <1>4, <1>6, <1>8, <2>1
  <1>13. ASSUME NEW c \in Clients, GetComplete(c) PROVE \A d \in Clients : RightValue(ret'[d])
    <2>1. Reading(c) /\ Missing(c) = {}
      BY <1>13 DEF GetComplete, Reading
    <2>. QED
      BY <1>4, <1>13, <2>1, CompleteIsRight DEF GetComplete
  <1>14. ASSUME NEW c \in Clients, GetDegraded(c) PROVE \A d \in Clients : RightValue(ret'[d])
    <2>1. UNCHANGED ret \/ Abort(c)
      BY <1>14 DEF GetDegraded
    <2>. QED
      BY <1>6, <1>7, <2>1
  <1>15. ASSUME NEW c \in Clients, GetFinish(c) PROVE \A d \in Clients : RightValue(ret'[d])
    <2>. DEFINE val == [e \in 0..K - 1 |->
                          IF e = FailIndex(c)
                          THEN Decode(buf[c], DecodeSources(FailIndex(c), N, K, R))
                          ELSE IF e \in Missing(c) THEN Junk ELSE buf[c][DataPos(e, R)]]
    <2>1. pc[c] = "parity" /\ (Return(c, GetResult(c, val)) \/ Abort(c))
      BY <1>15 DEF GetFinish
    <2>2. RightValue(GetResult(c, val))
      BY <2>1, DegradedIsRight
    <2>. HIDE DEF val
    <2>. QED
      BY <1>4, <1>6, <2>1, <2>2
  <1>16. ASSUME NEW c \in Clients, RepairFinish(c) PROVE \A d \in Clients : RightValue(ret'[d])
    <2>1. Return(c, [op |-> "repair", rc |-> "SUCCESS"]) \/ Abort(c)
      BY <1>16 DEF RepairFinish
    <2>2. RightValue([op |-> "repair", rc |-> "SUCCESS"])
      BY DEF RightValue
    <2>. QED
      BY <1>4, <1>6, <2>1, <2>2
  <1>17. ASSUME NEW c \in Clients, NEW p \in Index, Delete(c, p)
         PROVE  \A d \in Clients : RightValue(ret'[d])
    <2>1. RightValue([op |-> "delete", rc |-> "any"])
      BY DEF RightValue
    <2>. QED
      BY <1>4, <1>17, <2>1 DEF Delete
  <1>18. ASSUME NEW c \in Clients, SetCrash(c) \/ ClientDies(c)
         PROVE  \A d \in Clients : RightValue(ret'[d])
    BY <1>6, <1>18 DEF SetCrash, ClientDies
  <1>19. ASSUME NEW c \in Clients, NEW p \in Index, Fetch(c, p)
         PROVE  \A d \in Clients : RightValue(ret'[d])
    BY <1>7, <1>19 DEF Fetch
  <1>20. ASSUME NEW p \in Index, ServerFails(p) \/ ServerReturns(p) \/ Evict(p)
         PROVE  \A d \in Clients : RightValue(ret'[d])
    BY <1>7, <1>20 DEF ServerFails, ServerReturns, Evict
  <1>21. CASE UNCHANGED vars
    BY <1>7, <1>21 DEF vars
  <1>22. ASSUME NEW q \in flight, Execute(q) PROVE \A d \in Clients : RightValue(ret'[d])
    BY <1>7, <1>22 DEF Execute
  <1>. QED
    BY <1>9, <1>10, <1>11, <1>12, <1>13, <1>14, <1>15, <1>16, <1>17, <1>18, <1>19, <1>20, <1>21,
       <1>22 DEF Next, Start, Continue, Environment

(***************************************************************************)
(* A get that reports success, met no set on its way and missed at most    *)
(* one block returns the last set's blocks of every group but the one that *)
(* the data blocks do not fill, whichever block it missed.                 *)
(***************************************************************************)
THEOREM GetIsRightInSoundGroups == Spec => []SoundBlocksReturned
  <1>1. Init => SoundBlocksReturned
    BY DEF Init, SoundBlocksReturned, Nothing
  <1>2. Safe /\ SoundBlocksReturned /\ [Next]_vars => SoundBlocksReturned'
    BY RightStep DEF Safe
  <1>. QED
    BY <1>1, <1>2, SafeInit, SafeStep, PTL DEF Spec

(***************************************************************************)
(* It returns the value of the last set, all of it, for every code whose   *)
(* data blocks fill their local groups.                                    *)
(***************************************************************************)
THEOREM GetIsRight ==
    ASSUME K % R = 0
    PROVE  Spec => []GetReturnsLastSet
  <1>1. SoundBlocksReturned => GetReturnsLastSet
    BY SoundFacts, DataLemma DEF SoundBlocksReturned, GetReturnsLastSet
  <1>. QED
    BY <1>1, GetIsRightInSoundGroups, PTL
----------------------------------------------------------------------------
(***************************************************************************)
(* Damage.  A content is local to a position if it is made of symbols of   *)
(* that position's group, of whatever sets.                                *)
(***************************************************************************)
LocalTo(x, p) == x \notin {None, Junk} => x \subseteq (1..MaxSets) \X Group(p)

\* The inductive invariant: what the servers have, what is on its way to them
\* and what the readers have read is local.
GroupsApart ==
    /\ \A p \in Sound : LocalTo(store[p], p)
    /\ \A q \in flight : q.pos \in Sound => LocalTo(q.block, q.pos)
    /\ \A c \in Clients : \A p \in Sound : LocalTo(buf[c][p], p)

\* What a set writes at a position is local to it.
LEMMA BlockIsLocal ==
    ASSUME NEW v \in 1..MaxSets, NEW p \in Index
    PROVE  LocalTo(Block(v, p), p)
  <1>1. p \in Group(p)
    BY GroupLemma
  <1>2. Block(v, p) \subseteq (1..MaxSets) \X Group(p)
    BY <1>1, BlockIs
  <1>. QED
    BY <1>2 DEF LocalTo

\* So is what is decoded from other blocks of its group, of one version or not.
LEMMA DecodeIsLocal ==
    ASSUME NEW f, NEW p \in Sound, \A q \in Sound : LocalTo(f[q], q)
    PROVE  LocalTo(Decode(f, Group(p) \ {p}), p)
  <1>. DEFINE S == Group(p) \ {p}
              block == Decode(f, S)
              T == (1..MaxSets) \X Group(p)
  <1>1. CASE \E q \in S : q \notin Index \/ f[q] \in {None, Junk}
    BY <1>1 DEF Decode, LocalTo
  <1>2. CASE ~ \E q \in S : q \notin Index \/ f[q] \in {None, Junk}
    <2>1. ASSUME NEW q \in S PROVE f[q] \subseteq T
      <3>1. q \in Sound /\ f[q] \notin {None, Junk} /\ Group(q) = Group(p)
        BY <1>2, GroupLemma, SoundFacts
      <3>. QED
        BY <3>1 DEF LocalTo
    <2>2. UNION {f[q] : q \in S} \subseteq T
      BY <2>1
    <2>3. block \subseteq UNION {f[q] : q \in S}
      BY <1>2 DEF Decode
    <2>. QED
      BY <2>2, <2>3 DEF LocalTo
  <1>. QED
    BY <1>1, <1>2

\* No step, of sets that overtake each other or of a repair that decodes a
\* half-written group, carries anything from one group into another.
LEMMA ApartStep ==
    TypeOK /\ SetProgress /\ Linked /\ GroupsApart /\ [Next]_vars => GroupsApart'
  <1>. SUFFICES ASSUME TypeOK, SetProgress, Linked, GroupsApart, [Next]_vars PROVE GroupsApart'
    OBVIOUS
  <1>. USE SoundFacts DEF serverVars, historyVars, setVars, readVars
  <1>1. \A p \in Index : LocalTo(None, p)
    BY DEF LocalTo
  <1>2. SUFFICES /\ \A p \in Sound : LocalTo(store'[p], p)
                 /\ \A q \in flight' : q.pos \in Sound => LocalTo(q.block, q.pos)
                 /\ \A c \in Clients : \A p \in Sound : LocalTo(buf'[c][p], p)
    BY DEF GroupsApart, LocalTo
  <1>. DEFINE Stored == /\ \A p \in Sound : LocalTo(store'[p], p)
                        /\ \A q \in flight' : q.pos \in Sound => LocalTo(q.block, q.pos)
              Read == \A c \in Clients : \A p \in Sound : LocalTo(buf'[c][p], p)
  <1>3. ASSUME \A p \in Index : store'[p] \in {store[p], None},
               \A q \in flight' : \/ q.block = None
                                  \/ \E r \in flight : r.pos = q.pos /\ r.block = q.block
        PROVE  Stored
    <2>1. \A p \in Sound : LocalTo(store'[p], p)
      BY <1>1, <1>3 DEF GroupsApart
    <2>2. ASSUME NEW q \in flight', q.pos \in Sound PROVE LocalTo(q.block, q.pos)
      BY <1>1, <1>3, <2>2 DEF GroupsApart
    <2>. QED
      BY <2>1, <2>2
  <1>4. ASSUME UNCHANGED buf PROVE Read
    BY <1>4 DEF GroupsApart
  <1>5. ASSUME NEW c \in Clients, (\E r : Return(c, r)) \/ Abort(c) PROVE Read
    <2>1. \A d \in Clients : buf'[d] = IF d = c THEN NothingRead ELSE buf[d]
      BY <1>5, EndEffect, LeaveEffect
    <2>2. \A p \in Index : NothingRead[p] = None
      BY DEF NothingRead
    <2>. QED
      BY <1>1, <2>1, <2>2 DEF GroupsApart
  <1>6. ASSUME NEW c \in Clients, NEW block, WriteBack(c, block),
               failNode[c] \in Sound => LocalTo(block, failNode[c])
        PROVE  Stored
    <2>1. \A q \in Index : store'[q] \in IF q = failNode[c] THEN {store[q], block} ELSE {store[q]}
      BY <1>6 DEF WriteBack, TypeOK
    <2>2. \A q \in flight' : q \in flight \/ (q.pos = failNode[c] /\ q.block = block)
      BY <1>6 DEF WriteBack, Gone, Send, Message
    <2>. QED
      BY <1>6, <2>1, <2>2 DEF GroupsApart
  <1>7. ASSUME NEW c \in Clients, SetBegin(c) PROVE Stored /\ Read
    BY <1>3, <1>4, <1>7 DEF SetBegin
  <1>8. ASSUME NEW c \in Clients, SetSend(c) PROVE Stored /\ Read
    <2>. DEFINE p == sent[c]
    <2>1. p \in Index /\ setVer[c] \in 1..MaxSets
      BY <1>8, CodeFacts, SMT DEF SetSend, SetProgress, TypeOK, Index
    <2>2. \A q \in flight' : q \in flight \/ (q.pos = p /\ q.block = Block(setVer[c], p))
      BY <1>8, <2>1 DEF SetSend, Gone, Send, Message
    <2>3. Stored
      BY <1>8, <2>1, <2>2, BlockIsLocal DEF GroupsApart, SetSend
    <2>4. UNCHANGED buf \/ \E r : Return(c, r)
      BY <1>8 DEF SetSend, SetAdvance
    <2>. QED
      BY <1>4, <1>5, <2>3, <2>4
  <1>9. ASSUME NEW c \in Clients,
               SetAnswer(c) \/ SetCrash(c) \/ GetComplete(c) \/ GetError(c)
               \/ (\E f \in Index : RepairError(c, f))
        PROVE  Stored /\ Read
    <2>1. UNCHANGED <<store, flight>> /\ ((\E r : Return(c, r)) \/ Abort(c))
      BY <1>9 DEF SetAnswer, SetCrash, GetComplete, GetError, RepairError, ReadError
    <2>. QED
      BY <1>3, <1>5, <2>1
  <1>10. ASSUME NEW c \in Clients, NEW p \in Index, Fetch(c, p) PROVE Stored /\ Read
    <2>1. UNCHANGED <<store, flight>>
      BY <1>10 DEF Fetch
    <2>2. PICK x \in {store[p], None} : buf' = [buf EXCEPT ![c] = [buf[c] EXCEPT ![p] = x]]
      BY <1>10 DEF Fetch
    <2>3. p \in Sound => LocalTo(x, p)
      BY <1>1 DEF GroupsApart
    <2>4. \A d \in Clients : \A q \in Index :
             buf'[d][q] = IF d = c /\ q = p THEN x ELSE buf[d][q]
      BY <2>2 DEF TypeOK
    <2>5. Read
      BY <2>3, <2>4 DEF GroupsApart
    <2>. QED
      BY <1>3, <2>1, <2>5
  <1>11. ASSUME NEW c \in Clients, GetBegin(c) \/ \E f \in Index : RepairBegin(c, f)
         PROVE  Stored /\ Read
    BY <1>3, <1>4, <1>11 DEF GetBegin, RepairBegin, BeginRead
  <1>12. ASSUME NEW c \in Clients, GetDegraded(c) PROVE Stored /\ Read
    <2>1. UNCHANGED <<store, flight>> /\ (UNCHANGED buf \/ Abort(c))
      BY <1>12 DEF GetDegraded
    <2>. QED
      BY <1>3, <1>4, <1>5, <2>1
  <1>13. ASSUME NEW c \in Clients, GetFinish(c) \/ RepairFinish(c) PROVE Stored /\ Read
    <2>. DEFINE p == failNode[c]
                S == IF pc[c] = "parity" THEN DecodeSources(FailIndex(c), N, K, R)
                     ELSE Group(p) \ {p}
                block == Decode(buf[c], S)
    <2>1. p \in Sound => S = Group(p) \ {p}
      BY <1>13, ParitySources DEF GetFinish, RepairFinish
    <2>2. \/ WriteBack(c, block) /\ \E r : Return(c, r)
          \/ Abort(c) /\ UNCHANGED <<store, flight>>
      BY <1>13 DEF GetFinish, RepairFinish
    <2>3. p \in Sound => LocalTo(block, p)
      BY <2>1, DecodeIsLocal DEF GroupsApart
    <2>. HIDE DEF block
    <2>. QED
      BY <1>3, <1>5, <1>6, <2>2, <2>3
  <1>14. ASSUME NEW c \in Clients, NEW p \in Index, Delete(c, p) PROVE Stored /\ Read
    <2>1. /\ \E r : Return(c, r)
          /\ \A q \in Index : store'[q] \in {store[q], None}
      BY <1>14 DEF Delete, TypeOK
    <2>2. \A q \in flight' : q \in flight \/ q.block = None
      BY <1>14 DEF Delete, Gone, Send, Message
    <2>. QED
      BY <1>3, <1>5, <2>1, <2>2
  <1>15. ASSUME NEW Q \in SUBSET flight, NEW damage, BreakOff(Q, damage)
         PROVE  \A q \in flight' : \E r \in flight : r.pos = q.pos /\ r.block = q.block
    BY <1>15 DEF BreakOff, Message
  <1>16. ASSUME NEW c \in Clients, ClientDies(c) PROVE Stored /\ Read
    <2>1. UNCHANGED store /\ Abort(c)
      BY <1>16 DEF ClientDies
    <2>2. \A q \in flight' : \E r \in flight : r.pos = q.pos /\ r.block = q.block
      BY <1>15, <1>16 DEF ClientDies
    <2>. QED
      BY <1>3, <1>5, <2>1, <2>2
  <1>17. ASSUME NEW p \in Index, ServerFails(p) PROVE Stored /\ Read
    <2>1. UNCHANGED buf /\ \A q \in Index : store'[q] \in {store[q], None}
      BY <1>17 DEF ServerFails, TypeOK
    <2>2. \A q \in flight' : \E r \in flight : r.pos = q.pos /\ r.block = q.block
      BY <1>15, <1>17 DEF ServerFails
    <2>. QED
      BY <1>3, <1>4, <2>1, <2>2
  <1>18. ASSUME NEW p \in Index, ServerReturns(p) \/ Evict(p) PROVE Stored /\ Read
    <2>1. UNCHANGED <<buf, flight>> /\ \A q \in Index : store'[q] \in {store[q], None}
      BY <1>18 DEF ServerReturns, Evict, TypeOK
    <2>. QED
      BY <1>3, <1>4, <2>1
  <1>19. ASSUME NEW q \in flight, Execute(q) PROVE Stored /\ Read
    <2>1. q.pos \in Index
      BY DEF TypeOK, Request
    <2>2. \A p \in Index : store'[p] = IF p = q.pos THEN q.block ELSE store[p]
      BY <1>19, <2>1 DEF Execute, TypeOK
    <2>3. UNCHANGED buf /\ flight' \subseteq flight
      BY <1>19 DEF Execute
    <2>. QED
      BY <1>4, <2>2, <2>3 DEF GroupsApart
  <1>20. CASE UNCHANGED vars
    BY <1>3, <1>4, <1>20 DEF vars
  <1>. QED
    BY <1>7, <1>8, <1>9, <1>10, <1>11, <1>12, <1>13, <1>14, <1>16, <1>17, <1>18, <1>19, <1>20
       DEF Next, Start, Continue, Environment

(***************************************************************************)
(* Whatever sets, repairs and degraded gets do to each other, a block that *)
(* is stored or on its way never contains anything of another local group, *)
(* for every code - except in the group that the data blocks do not fill.  *)
(***************************************************************************)
THEOREM DamageIsLocal == Spec => []DamageStaysInGroup
  <1>1. Init => GroupsApart
    BY SoundFacts DEF Init, GroupsApart, LocalTo, NothingRead
  <1>2. Safe /\ GroupsApart /\ [Next]_vars => GroupsApart'
    BY ApartStep DEF Safe
  <1>3. GroupsApart => DamageStaysInGroup
    BY DEF GroupsApart, LocalTo, DamageStaysInGroup
  <1>. QED
    BY <1>1, <1>2, <1>3, SafeInit, SafeStep, PTL DEF Spec
============================================================================
