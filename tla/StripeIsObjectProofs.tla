----------------------- MODULE StripeIsObjectProofs -----------------------
(***************************************************************************)
(* The stripe implements the object store, for every number of clients,    *)
(* sets and losses and every code whose data blocks fill their local       *)
(* groups: the first state maps to the first state of the object, and      *)
(* every step to a step of the object or to none.                          *)
(***************************************************************************)
EXTENDS StripeIsObject, LrcStripeProofs

\* Sets are numbered as they begin, and a client in an operation has no
\* outcome yet.
Numbered ==
    /\ cur <= ver
    /\ \A c \in Clients : setVer[c] <= ver

NoOutcomeYet == \A c \in Clients : pc[c] # "idle" => ret[c] = Nothing

----------------------------------------------------------------------------
(***************************************************************************)
(* Blocks.  A local group has more than one position, so no block is       *)
(* empty: a block tells the set that wrote it.                             *)
(***************************************************************************)
LEMMA GroupHasAnother ==
    ASSUME NEW p \in Index
    PROVE  \E q \in Group(p) : q # p
  <1>. DEFINE j == GroupOf(p, R)
              b == j * (R + 1)
  <1>1. p \in 0..N - 1
    BY DEF Index
  <1>2. j \in 0..LocalGroups(N, R) - 1
    BY <1>1, CodeFacts, GroupOfRange
  <1>3. /\ b \in Nat /\ GroupSize(j, N, R) \in 2..R + 1
        /\ ParityPos(j, N, R) = b + GroupSize(j, N, R) - 1
    BY <1>2, CodeFacts, GroupShape
  <1>4. Group(p) = b .. ParityPos(j, N, R)
    BY DEF Group, GroupPositions
  <1>. HIDE DEF b, j
  <1>5. b \in b .. ParityPos(j, N, R) /\ b + 1 \in b .. ParityPos(j, N, R) /\ b # b + 1
    BY <1>3, CodeFacts, SMT
  <1>. QED
    BY <1>4, <1>5

\* The version of a block.
LEMMA BlockVersion ==
    ASSUME NEW v, NEW w, NEW p \in Index, Block(v, p) = Block(w, p)
    PROVE  v = w
  <1>1. PICK q : <<v, q>> \in Block(v, p)
    <2>1. CASE p = LocalParity(p)
      <3>1. PICK q \in Group(p) : q # p
        BY GroupHasAnother
      <3>2. <<v, q>> \in Block(v, p)
        BY <2>1, <3>1, BlockIs
      <3>. QED
        BY <3>2
    <2>2. CASE p # LocalParity(p)
      BY <2>2, BlockIs
    <2>. QED
      BY <2>1, <2>2
  <1>2. \A x \in Block(w, p) : \E y : x = <<w, y>>
    BY BlockIs
  <1>3. PICK y : <<v, q>> = <<w, y>>
    BY <1>1, <1>2
  <1>. QED
    BY <1>3

\* A block of a set, or of none, is neither missing nor unspecified bytes.
LEMMA BlockIsThere ==
    ASSUME NEW v \in 0..MaxSets, NEW p \in Index
    PROVE  Block(v, p) # None /\ Block(v, p) # Junk
  <1>1. CASE v = 0
    BY <1>1, ContentAssumption
  <1>2. CASE v # 0
    <2>1. v \in 1..MaxSets
      BY <1>2, BoundAssumption, SMT
    <2>. QED
      BY <2>1, BlockType, ContentAssumption
  <1>. QED
    BY <1>1, <1>2

\* Nobody has a block of set number 0.
LEMMA NoBlockOfNone ==
    ASSUME NEW x \in Content, NEW p \in Index, x \in {None, Block(0, p)}
    PROVE  x = None
  <1>. SUFFICES ASSUME x = Block(0, p) PROVE FALSE
    OBVIOUS
  <1>1. 0 \in 0..MaxSets
    BY BoundAssumption, SMT
  <1>2. x \in SUBSET Symbol
    BY <1>1, BlockIsThere DEF Content
  <1>3. PICK q : <<0, q>> \in Block(0, p)
    <2>1. CASE p = LocalParity(p)
      <3>1. PICK q \in Group(p) : q # p
        BY GroupHasAnother
      <3>2. <<0, q>> \in Block(0, p)
        BY <2>1, <3>1, BlockIs
      <3>. QED
        BY <3>2
    <2>2. CASE p # LocalParity(p)
      <3>1. Block(0, p) = {<<0, p>>}
        BY <2>2, BlockIs
      <3>2. <<0, p>> \in Block(0, p)
        BY <3>1
      <3>. QED
        BY <3>2
    <2>. QED
      BY <2>1, <2>2
  <1>4. <<0, q>> \in (1..MaxSets) \X Index
    BY <1>2, <1>3 DEF Symbol
  <1>5. 0 \in 1..MaxSets
    BY <1>4
  <1>. QED
    BY <1>5, SMT

----------------------------------------------------------------------------
(***************************************************************************)
(* The mapping, as functions of the stripe's blocks and of an outcome.     *)
(***************************************************************************)
ObjectOf(s) ==
    IF \A p \in Index : s[p] = None THEN 0
    ELSE IF \E v \in Versions : \A p \in Index : s[p] \in {None, Block(v, p)}
         THEN CHOOSE v \in Versions : \A p \in Index : s[p] \in {None, Block(v, p)}
         ELSE -1

AnswerOf(g) ==
    IF g.op = "get" /\ g.rc = "SUCCESS"
    THEN [val |-> ValueOf(g.val), missed |-> g.lost]
    ELSE [val |-> 0, missed |-> 0]

Objects == Versions \cup {0, -1}

\* The refinement mapping in terms of these functions, before and after a step.
LEMMA MapNames ==
    /\ Object = ObjectOf(store)
    /\ Object' = ObjectOf(store')
    /\ \A c : Answer(c) = AnswerOf(ret[c])
    /\ \A c : Answer(c)' = AnswerOf(ret'[c])
    /\ Promise!Objects = Objects
  <1>1. Object = ObjectOf(store) /\ Object' = ObjectOf(store')
    BY DEF Object, ObjectOf, AllOf
  <1>2. /\ \A c : Answer(c) = AnswerOf(ret[c])
        /\ \A c : Answer(c)' = AnswerOf(ret'[c])
    BY DEF Answer, AnswerOf
  <1>3. Promise!Objects = Objects
    BY DEF Promise!Objects, Promise!Versions, Promise!Nothing, Promise!Mixed, Objects, Versions
  <1>. QED
    BY <1>1, <1>2, <1>3

\* Whatever the blocks are, they amount to one of the object's values.
LEMMA ObjectType ==
    ASSUME NEW s
    PROVE  ObjectOf(s) \in Objects
  <1>1. CASE \E v \in Versions : \A p \in Index : s[p] \in {None, Block(v, p)}
    <2>1. (CHOOSE v \in Versions : \A p \in Index : s[p] \in {None, Block(v, p)}) \in Versions
      BY <1>1
    <2>. QED
      BY <2>1 DEF ObjectOf, Objects
  <1>2. CASE ~ \E v \in Versions : \A p \in Index : s[p] \in {None, Block(v, p)}
    BY <1>2 DEF ObjectOf, Objects
  <1>. QED
    BY <1>1, <1>2

\* Blocks of one version are an object of that version.
LEMMA ObjectIs ==
    ASSUME NEW s \in [Index -> Content], NEW v \in 0..MaxSets,
           \A p \in Index : s[p] \in {None, Block(v, p)}
    PROVE  /\ (\A p \in Index : s[p] = None) => ObjectOf(s) = 0
           /\ (\E p \in Index : s[p] # None) => ObjectOf(s) = v
           /\ ObjectOf(s) \in {0, v}
  <1>1. (\A p \in Index : s[p] = None) => ObjectOf(s) = 0
    BY DEF ObjectOf
  <1>2. ASSUME NEW p \in Index, s[p] # None PROVE ObjectOf(s) = v
    <2>1. s[p] = Block(v, p) /\ s[p] \in Content
      BY <1>2
    <2>2. v # 0
      BY <1>2, <2>1, NoBlockOfNone
    <2>3. v \in Versions
      BY <2>2, BoundAssumption, SMT DEF Versions
    <2>4. ASSUME NEW w \in Versions, \A q \in Index : s[q] \in {None, Block(w, q)}
          PROVE  w = v
      <3>1. Block(w, p) = Block(v, p)
        BY <1>2, <2>1, <2>4
      <3>. QED
        BY <3>1, BlockVersion
    <2>5. (CHOOSE w \in Versions : \A q \in Index : s[q] \in {None, Block(w, q)}) = v
      BY <2>3, <2>4
    <2>. QED
      BY <1>2, <2>3, <2>5 DEF ObjectOf
  <1>. QED
    BY <1>1, <1>2

\* The version of a value all of whose blocks are of that version.
LEMMA ValueIs ==
    ASSUME NEW val, NEW v \in Versions, \A d \in 0..K - 1 : val[d] = Block(v, DataPos(d, R))
    PROVE  ValueOf(val) = v
  <1>1. 0 \in 0..K - 1 /\ DataPos(0, R) \in Index
    BY CodeFacts, DataLemma, SMT
  <1>2. ASSUME NEW w \in Versions, \A d \in 0..K - 1 : val[d] = Block(w, DataPos(d, R))
        PROVE  w = v
    <2>1. Block(w, DataPos(0, R)) = Block(v, DataPos(0, R))
      BY <1>1, <1>2
    <2>. QED
      BY <1>1, <2>1, BlockVersion
  <1>3. (CHOOSE w \in Versions : \A d \in 0..K - 1 : val[d] = Block(w, DataPos(d, R))) = v
    BY <1>2
  <1>. QED
    BY <1>3 DEF ValueOf

\* Whatever a get returns, it amounts to one of the values of the object.
LEMMA ValueType ==
    ASSUME NEW val
    PROVE  ValueOf(val) \in Objects
  <1>1. CASE \E v \in Versions : \A d \in 0..K - 1 : val[d] = Block(v, DataPos(d, R))
    <2>1. (CHOOSE v \in Versions : \A d \in 0..K - 1 : val[d] = Block(v, DataPos(d, R))) \in Versions
      BY <1>1
    <2>. QED
      BY <2>1 DEF ValueOf, Objects
  <1>2. CASE ~ \E v \in Versions : \A d \in 0..K - 1 : val[d] = Block(v, DataPos(d, R))
    BY <1>2 DEF ValueOf, Objects
  <1>. QED
    BY <1>1, <1>2

----------------------------------------------------------------------------
(***************************************************************************)
(* The two small invariants the mapping needs besides StripeInv.           *)
(***************************************************************************)
\* Sets are numbered as they begin.
LEMMA NumberedStep ==
    TypeOK /\ Numbered /\ [Next]_vars => Numbered'
  <1>. SUFFICES ASSUME TypeOK, Numbered, [Next]_vars PROVE Numbered'
    OBVIOUS
  <1>. USE DEF serverVars, historyVars, setVars, readVars
  <1>1. /\ ver \in Nat /\ cur \in Nat /\ \A c \in Clients : setVer[c] \in Nat
        /\ setVer \in [Clients -> 0..MaxSets]
    BY BoundAssumption, SMT DEF TypeOK
  <1>2. ASSUME UNCHANGED <<ver, cur>>,
               setVer' = setVer \/ \E c \in Clients : setVer' = [setVer EXCEPT ![c] = 0]
        PROVE  Numbered'
    <2>1. \A c \in Clients : setVer'[c] \in {setVer[c], 0}
      BY <1>1, <1>2
    <2>. QED
      BY <1>1, <1>2, <2>1, SMT DEF Numbered
  <1>3. ASSUME NEW c \in Clients, SetBegin(c) PROVE Numbered'
    <2>1. ver' = ver + 1 /\ cur' = cur /\ \A d \in Clients : setVer'[d] \in {setVer[d], ver + 1}
      BY <1>1, <1>3 DEF SetBegin
    <2>. QED
      BY <1>1, <2>1, SMT DEF Numbered
  <1>4. ASSUME NEW c \in Clients, SetSend(c) PROVE Numbered'
    <2>1. CASE SetAdvance(c)
      <3>1. setVer' = setVer /\ ver' = ver /\ cur' \in {cur, setVer[c]}
        BY <1>4, <2>1 DEF SetSend, SetAdvance
      <3>. QED
        BY <3>1 DEF Numbered
    <2>2. CASE \E r : Return(c, r) /\ UNCHANGED cur
      BY <1>2, <1>4, <2>2 DEF SetSend, Return, Leave
    <2>. QED
      BY <1>4, <2>1, <2>2 DEF SetSend
  <1>5. ASSUME NEW c \in Clients,
               SetAnswer(c) \/ SetCrash(c) \/ GetComplete(c) \/ GetError(c)
               \/ (\E f \in Index : RepairError(c, f)) \/ ClientDies(c)
               \/ GetFinish(c) \/ RepairFinish(c) \/ \E f \in Index : Delete(c, f)
        PROVE  Numbered'
    <2>1. UNCHANGED <<ver, cur>> /\ ((\E r : Return(c, r)) \/ Abort(c))
      BY <1>5 DEF SetAnswer, SetCrash, GetComplete, GetError, RepairError, ReadError, ClientDies,
                  GetFinish, RepairFinish, Delete
    <2>2. setVer' = [setVer EXCEPT ![c] = 0]
      BY <2>1 DEF Return, Abort, Leave
    <2>. QED
      BY <1>2, <2>1, <2>2
  <1>6. ASSUME NEW c \in Clients, GetDegraded(c) PROVE Numbered'
    <2>1. UNCHANGED <<ver, cur>> /\ (UNCHANGED setVer \/ Abort(c))
      BY <1>6 DEF GetDegraded
    <2>. QED
      BY <1>2, <2>1 DEF Abort, Leave
  <1>7. ASSUME NEW c \in Clients, NEW p \in Index,
               Fetch(c, p) \/ GetBegin(c) \/ RepairBegin(c, p)
        PROVE  Numbered'
    BY <1>2, <1>7 DEF Fetch, GetBegin, RepairBegin, BeginRead
  <1>8. ASSUME NEW p \in Index, ServerFails(p) \/ ServerReturns(p) \/ Evict(p)
                                 \/ \E q \in flight : Execute(q)
        PROVE  Numbered'
    BY <1>2, <1>8 DEF ServerFails, ServerReturns, Evict, Execute
  <1>9. CASE UNCHANGED vars
    BY <1>2, <1>9 DEF vars
  <1>10. 0 \in Index
    BY CodeFacts, SMT DEF Index
  <1>. QED
    BY <1>3, <1>4, <1>5, <1>6, <1>7, <1>8, <1>9, <1>10 DEF Next, Start, Continue, Environment

\* An operation has no outcome before it ends.
LEMMA OutcomeStep ==
    TypeOK /\ NoOutcomeYet /\ [Next]_vars => NoOutcomeYet'
  <1>. SUFFICES ASSUME TypeOK, NoOutcomeYet, [Next]_vars PROVE NoOutcomeYet'
    OBVIOUS
  <1>. USE DEF serverVars, historyVars, setVars, readVars
  <1>0. Nothing' = Nothing
    BY DEF Nothing
  <1>1. ASSUME NEW c \in Clients, (\E r : Return(c, r)) \/ Abort(c) PROVE NoOutcomeYet'
    BY <1>0, <1>1 DEF Return, Abort, NoOutcomeYet, TypeOK
  <1>2. ASSUME UNCHANGED ret, \A c \in Clients : pc[c] = "idle" => pc'[c] = "idle"
        PROVE  NoOutcomeYet'
    BY <1>0, <1>2 DEF NoOutcomeYet
  <1>3. ASSUME NEW c \in Clients, SetBegin(c) \/ GetBegin(c) \/ \E f \in Index : RepairBegin(c, f)
        PROVE  NoOutcomeYet'
    <2>1. /\ ret' = [ret EXCEPT ![c] = Nothing]
          /\ \A d \in Clients \ {c} : pc'[d] = pc[d]
      BY <1>3 DEF SetBegin, GetBegin, RepairBegin, BeginRead, StartReads, TypeOK
    <2>. QED
      BY <1>0, <2>1 DEF NoOutcomeYet, TypeOK
  <1>4. ASSUME NEW c \in Clients, SetSend(c) PROVE NoOutcomeYet'
    <2>1. CASE SetAdvance(c)
      BY <1>2, <1>4, <2>1 DEF SetSend, SetAdvance, Setting, TypeOK
    <2>2. CASE \E r : Return(c, r)
      BY <1>1, <2>2
    <2>. QED
      BY <1>4, <2>1, <2>2 DEF SetSend
  <1>5. ASSUME NEW c \in Clients,
               SetAnswer(c) \/ SetCrash(c) \/ GetComplete(c) \/ GetError(c)
               \/ (\E f \in Index : RepairError(c, f)) \/ ClientDies(c)
               \/ GetFinish(c) \/ RepairFinish(c) \/ \E f \in Index : Delete(c, f)
        PROVE  NoOutcomeYet'
    <2>1. (\E r : Return(c, r)) \/ Abort(c)
      BY <1>5 DEF SetAnswer, SetCrash, GetComplete, GetError, RepairError, ReadError, ClientDies,
                  GetFinish, RepairFinish, Delete
    <2>. QED
      BY <1>1, <2>1
  <1>6. ASSUME NEW c \in Clients, GetDegraded(c) PROVE NoOutcomeYet'
    <2>1. CASE Abort(c)
      BY <1>1, <2>1
    <2>2. CASE ret' = ret /\ \E S : StartReads(c, "parity", S)
      BY <1>2, <1>6, <2>2 DEF GetDegraded, StartReads, TypeOK
    <2>. QED
      BY <1>6, <2>1, <2>2 DEF GetDegraded
  <1>7. ASSUME NEW c \in Clients, NEW p \in Index, Fetch(c, p) PROVE NoOutcomeYet'
    BY <1>2, <1>7 DEF Fetch
  <1>8. ASSUME \/ \E p \in Index : ServerFails(p) \/ ServerReturns(p) \/ Evict(p)
               \/ \E q \in flight : Execute(q)
        PROVE  NoOutcomeYet'
    BY <1>2, <1>8 DEF ServerFails, ServerReturns, Evict, Execute
  <1>9. CASE UNCHANGED vars
    BY <1>2, <1>9 DEF vars
  <1>. QED
    BY <1>3, <1>4, <1>5, <1>6, <1>7, <1>8, <1>9 DEF Next, Start, Continue, Environment

----------------------------------------------------------------------------
(***************************************************************************)
(* How a step of the stripe shows in the object store's variables.         *)
(***************************************************************************)
NoAnswer == [val |-> 0, missed |-> 0]

\* The writers of the object are the clients that are setting.
LEMMA WritersAre ==
    ASSUME SetProgress
    PROVE  /\ Promise!Writers = {c \in Clients : Setting(c)}
           /\ \A c \in Clients : Writing[c] = IF Setting(c) THEN setVer[c] ELSE 0
           /\ \A c \in Clients : Setting(c) => setVer[c] # 0 /\ setVer[c] \in Versions
  <1>1. \A c \in Clients : Writing[c] = IF Setting(c) THEN setVer[c] ELSE 0
    BY DEF Writing
  <1>2. ASSUME NEW c \in Clients, Setting(c) PROVE setVer[c] # 0 /\ setVer[c] \in Versions
    <2>1. setVer[c] \in 1..MaxSets
      BY <1>2 DEF SetProgress
    <2>. QED
      BY <2>1, SMT DEF Versions
  <1>3. \A c \in Clients : (Writing[c] # 0) <=> Setting(c)
    BY <1>1, <1>2
  <1>. QED
    BY <1>1, <1>2, <1>3 DEF Promise!Writers, Promise!Nothing

\* The end of an operation.
LEMMA EndMaps ==
    ASSUME TypeOK, NEW c \in Clients, NEW r, Return(c, r) \/ (Abort(c) /\ r = Nothing)
    PROVE  /\ Writing' = [Writing EXCEPT ![c] = 0]
           /\ ReadState' = [ReadState EXCEPT ![c] = "no"]
           /\ Answers' = [Answers EXCEPT ![c] = AnswerOf(r)]
  <1>1. Leave(c) /\ pc'[c] \in {"idle", "aborted"} /\ \A d \in Clients \ {c} : pc'[d] = pc[d]
    BY EndEffect
  <1>2. \A d \in Clients : /\ setVer'[d] = IF d = c THEN 0 ELSE setVer[d]
                           /\ overlap'[d] = IF d = c THEN FALSE ELSE overlap[d]
    BY <1>1, LeaveEffect
  <1>3. ret' = [ret EXCEPT ![c] = r]
    BY DEF Return, Abort
  <1>4. ~Setting(c)' /\ ~Reading(c)'
    BY <1>1 DEF Setting, Reading
  <1>5. \A d \in Clients \ {c} : Setting(d)' = Setting(d) /\ Reading(d)' = Reading(d)
    BY <1>1 DEF Setting, Reading
  <1>6. Writing' = [Writing EXCEPT ![c] = 0]
    BY <1>2, <1>4, <1>5 DEF Writing
  <1>7. ReadState' = [ReadState EXCEPT ![c] = "no"]
    BY <1>2, <1>4, <1>5 DEF ReadState
  <1>8. \A d \in Clients : Answer(d)' = IF d = c THEN AnswerOf(r) ELSE Answer(d)
    BY <1>3, MapNames DEF TypeOK
  <1>9. Answers' = [Answers EXCEPT ![c] = AnswerOf(r)]
    BY <1>8 DEF Answers
  <1>. QED
    BY <1>6, <1>7, <1>9

\* A step in the middle of an operation, or of no client.
LEMMA SameMaps ==
    ASSUME \A c \in Clients : /\ Setting(c)' = Setting(c) /\ Reading(c)' = Reading(c)
                              /\ (Setting(c) => setVer'[c] = setVer[c])
                              /\ overlap'[c] = overlap[c],
           UNCHANGED ret
    PROVE  UNCHANGED <<Writing, ReadState, Answers>>
  <1>1. Writing' = Writing
    BY DEF Writing
  <1>2. ReadState' = ReadState
    BY DEF ReadState
  <1>3. Answers' = Answers
    BY MapNames DEF Answers
  <1>. QED
    BY <1>1, <1>2, <1>3

\* A stripe of one version, with nothing on its way, has no other blocks.
LEMMA SettledStripe ==
    ASSUME K % R = 0, NEW v \in 0..MaxSets, StripeIs(v), Settled
    PROVE  \A p \in Index : store[p] \in {None, Block(v, p)}
  <1>. SUFFICES ASSUME NEW p \in Index PROVE store[p] \in {None, Block(v, p)}
    OBVIOUS
  <1>1. Holds(v, p)
    BY SoundFacts DEF StripeIs
  <1>2. Block(v, p) # None
    BY BlockIsSome
  <1>. QED
    BY <1>1, <1>2 DEF Holds, Settled

\* The same after a step.
LEMMA SettledStripeNext ==
    ASSUME K % R = 0, cur' \in 0..MaxSets, StripeIs(cur)', Settled'
    PROVE  \A p \in Index : store'[p] \in {None, Block(cur', p)}
  <1>. SUFFICES ASSUME NEW p \in Index PROVE store'[p] \in {None, Block(cur', p)}
    OBVIOUS
  <1>1. \/ store'[p] \in {None, Block(cur', p)}
        \/ \E q \in flight' : q.pos = p /\ q.block = Block(cur', p)
    BY SoundFacts DEF StripeIs, Holds, Block, Sound
  <1>2. Block(cur', p) # None
    BY BlockIsSome
  <1>. QED
    BY <1>1, <1>2 DEF Settled

\* Between sets a stripe that is settled and not dirty is an object of the last
\* version.
LEMMA ObjectBefore ==
    ASSUME K % R = 0, TypeOK, Linked, ~dirty, Settled, \A c \in Clients : Setting(c) => sent[c] = 0
    PROVE  /\ \A p \in Index : store[p] \in {None, Block(cur, p)}
           /\ Object \in {0, cur}
           /\ (\E p \in Index : store[p] # None) => Object = cur
  <1>1. store \in [Index -> Content] /\ cur \in 0..MaxSets
    BY DEF TypeOK
  <1>2. StripeIs(cur)
    BY DEF Linked, StoreConsistent
  <1>3. \A p \in Index : store[p] \in {None, Block(cur, p)}
    BY <1>1, <1>2, SettledStripe
  <1>. QED
    BY <1>1, <1>3, ObjectIs, MapNames

\* The same after a step.
LEMMA ObjectAfter ==
    ASSUME K % R = 0, TypeOK', Linked', ~dirty', Settled', \A c \in Clients : Setting(c)' => sent'[c] = 0
    PROVE  Object' \in {0, cur'}
  <1>1. store' \in [Index -> Content] /\ cur' \in 0..MaxSets
    BY DEF TypeOK, Content, Symbol
  <1>2. StripeIs(cur)'
    BY DEF Linked, StoreConsistent
  <1>3. \A p \in Index : store'[p] \in {None, Block(cur', p)}
    BY <1>1, <1>2, SettledStripeNext
  <1>. QED
    BY <1>1, <1>3, ObjectIs, MapNames

\* Requests that are executed, lost or late, and deletes, settle nothing that is
\* not settled by them; a block that is sent is on its way.
LEMMA SettlingLess ==
    ASSUME \A q \in flight' : q.block = None \/ \E r \in flight : r.block = q.block
    PROVE  (~Settled)' \in {~Settled, FALSE}
  <1>1. Settled => Settled'
    BY DEF Settled
  <1>. QED
    BY <1>1, Zenon DEF Settled

LEMMA SettlingMore ==
    ASSUME flight \subseteq flight'
    PROVE  (~Settled)' \in {~Settled, TRUE}
  <1>1. Settled' => Settled
    BY DEF Settled
  <1>. QED
    BY <1>1, Zenon DEF Settled

LEMMA SettlingSame ==
    ASSUME flight' = flight
    PROVE  Settled' = Settled
  BY DEF Settled

\* Requests of a connection that ends.  If one of them is missed, blocks were on
\* their way.
LEMMA BreakOffMaps ==
    ASSUME TypeOK, NEW Q, Q \subseteq flight, NEW damage \in BOOLEAN, BreakOff(Q, damage)
    PROVE  /\ (~Settled)' \in {~Settled, FALSE}
           /\ dirty' \in {dirty, TRUE} /\ clean' \in {clean, FALSE}
           /\ ~damage => \/ UNCHANGED <<dirty, clean>>
                         \/ ~Settled /\ dirty' = TRUE /\ clean' = FALSE
           /\ Q = {} => flight' = flight /\ (~damage => UNCHANGED <<dirty, clean>>)
  <1>1. PICK late \in SUBSET Q :
            /\ flight' = (flight \ Q) \cup {Message(None, q.pos, q.block) : q \in late}
            /\ dirty' = (dirty \/ damage \/ \E q \in Q \ late : LeavesOlder(q))
            /\ clean' = (clean /\ ~ \E q \in Q \ late : LeavesOlder(q))
    BY DEF BreakOff
  <1>. DEFINE hurts == \E q \in Q \ late : LeavesOlder(q)
  <1>2. \A q \in flight' : q.block = None \/ \E r \in flight : r.block = q.block
    BY <1>1 DEF Message
  <1>3. hurts => ~Settled
    BY DEF LeavesOlder, Settled
  <1>4. Q = {} => flight' = flight /\ ~hurts
    BY <1>1
  <1>5. dirty \in BOOLEAN /\ clean \in BOOLEAN
    BY DEF TypeOK
  <1>6. dirty' = (dirty \/ damage \/ hurts) /\ clean' = (clean /\ ~hurts)
    BY <1>1
  <1>. HIDE DEF hurts
  <1>7. (~Settled)' \in {~Settled, FALSE}
    BY <1>2, SettlingLess
  <1>8. dirty' \in {dirty, TRUE} /\ clean' \in {clean, FALSE}
    BY <1>5, <1>6, Zenon
  <1>9. ~damage => \/ UNCHANGED <<dirty, clean>>
                   \/ ~Settled /\ dirty' = TRUE /\ clean' = FALSE
    BY <1>3, <1>5, <1>6
  <1>10. Q = {} /\ ~damage => UNCHANGED <<dirty, clean>>
    BY <1>4, <1>5, <1>6
  <1>. QED
    BY <1>4, <1>7, <1>8, <1>9, <1>10

\* Blocks that are lost leave the object or nothing, unless it is torn, being
\* written or settling.
LEMMA LossMaps ==
    ASSUME K % R = 0, TypeOK, TypeOK', SetProgress, Linked, Linked', UNCHANGED cur,
           \A c \in Clients : Setting(c)' => Setting(c),
           \A p \in Index : store'[p] \in {store[p], None}
    PROVE  /\ Object' \in IF dirty \/ ~Promise!Quiet THEN Promise!Objects
                          ELSE {Object, Promise!Nothing}
           /\ ~(dirty' \/ (~Settled)' \/ Promise!Writers # {}) => Object' \in {Promise!Nothing, cur}
  <1>1. Object' \in Promise!Objects
    BY MapNames, ObjectType
  <1>2. ASSUME ~dirty, Promise!Quiet PROVE Object' \in {Object, Promise!Nothing}
    <2>1. Settled /\ \A c \in Clients : ~Setting(c)
      BY <1>2, WritersAre DEF Promise!Quiet
    <2>2. /\ \A p \in Index : store[p] \in {None, Block(cur, p)}
          /\ (\E p \in Index : store[p] # None) => Object = cur
      BY <1>2, <2>1, ObjectBefore
    <2>3. store' \in [Index -> Content] /\ cur \in 0..MaxSets
      BY DEF TypeOK, Content, Symbol
    <2>4. \A p \in Index : store'[p] \in {None, Block(cur, p)}
      BY <2>2
    <2>5. /\ (\A p \in Index : store'[p] = None) => Object' = 0
          /\ (\E p \in Index : store'[p] # None) => Object' = cur
      BY <2>3, <2>4, ObjectIs, MapNames
    <2>6. (\E p \in Index : store'[p] # None) => Object = cur
      BY <2>2
    <2>. QED
      BY <1>2, <2>5, <2>6 DEF Promise!Nothing
  <1>3. ASSUME ~dirty', Settled', Promise!Writers = {} PROVE Object' \in {Promise!Nothing, cur}
    <2>1. \A c \in Clients : ~Setting(c)'
      BY <1>3, WritersAre
    <2>. QED
      BY <1>3, <2>1, ObjectAfter DEF Promise!Nothing
  <1>4. ~(dirty' \/ (~Settled)' \/ Promise!Writers # {}) => Object' \in {Promise!Nothing, cur}
    BY <1>3
  <1>. QED
    BY <1>1, <1>2, <1>4

\* What the object store says of a loss when no client begins or ends anything.
LEMMA LoseMaps ==
    ASSUME K % R = 0, TypeOK, TypeOK', SetProgress, Linked, Linked',
           UNCHANGED <<pc, setVer, overlap, ret, cur>>,
           \A p \in Index : store'[p] \in {store[p], None},
           (~Settled)' \in {~Settled, FALSE},
           \/ UNCHANGED <<dirty, clean>>
           \/ ~Settled /\ dirty' = TRUE /\ clean' = FALSE
    PROVE  Promise!Lose
  <1>1. \A c \in Clients : Setting(c)' = Setting(c) /\ Reading(c)' = Reading(c)
    BY DEF Setting, Reading
  <1>2. UNCHANGED <<Writing, ReadState, Answers>>
    BY <1>1, SameMaps
  <1>3. /\ Object' \in IF dirty \/ ~Promise!Quiet THEN Promise!Objects
                       ELSE {Object, Promise!Nothing}
        /\ ~(dirty' \/ (~Settled)' \/ Promise!Writers # {}) => Object' \in {Promise!Nothing, cur}
    BY <1>1, LossMaps
  <1>. QED
    BY <1>2, <1>3 DEF Promise!Lose

\* An idle client whose answer is forgotten while blocks may be lost.
LEMMA IdleMaps ==
    ASSUME K % R = 0, TypeOK, TypeOK', SetProgress, Linked, Linked',
           NEW c \in Clients, ~Setting(c), ~Reading(c),
           NEW r, Return(c, r) \/ (Abort(c) /\ r = Nothing), AnswerOf(r) = NoAnswer,
           \A p \in Index : store'[p] \in {store[p], None},
           UNCHANGED cur, (~Settled)' \in {~Settled, FALSE},
           \/ UNCHANGED <<dirty, clean>>
           \/ ~Settled /\ dirty' = TRUE /\ clean' = FALSE
    PROVE  Promise!Lose
  <1>1. /\ Writing' = [Writing EXCEPT ![c] = 0]
        /\ ReadState' = [ReadState EXCEPT ![c] = "no"]
        /\ Answers' = [Answers EXCEPT ![c] = NoAnswer]
    BY EndMaps
  <1>2. Writing' = Writing /\ ReadState' = ReadState
    BY <1>1 DEF Writing, ReadState
  <1>3. Promise!NoLongerKnown(c)
    BY <1>1 DEF Promise!NoLongerKnown, Promise!NoAnswer, Promise!Nothing, NoAnswer
  <1>4. \A d \in Clients : Setting(d)' => Setting(d)
    BY EndEffect DEF Setting
  <1>5. /\ Object' \in IF dirty \/ ~Promise!Quiet THEN Promise!Objects
                       ELSE {Object, Promise!Nothing}
        /\ ~(dirty' \/ (~Settled)' \/ Promise!Writers # {}) => Object' \in {Promise!Nothing, cur}
    BY <1>4, LossMaps
  <1>. QED
    BY <1>2, <1>3, <1>5 DEF Promise!Lose

----------------------------------------------------------------------------
(***************************************************************************)
(* The steps, one by one.  An operation without an outcome answers nothing.*)
(***************************************************************************)
LEMMA NothingAnswers ==
    /\ AnswerOf(Nothing) = NoAnswer
    /\ \A op, rc : op # "get" \/ rc # "SUCCESS" => AnswerOf([op |-> op, rc |-> rc]) = NoAnswer
    /\ \A S : AnswerOf([op |-> "set", rc |-> "SUCCESS", stored |-> S]) = NoAnswer
    /\ Promise!NoAnswer = NoAnswer
  BY DEF AnswerOf, Nothing, NoAnswer, Promise!NoAnswer, Promise!Nothing

\* A set begins: a write of the next version.
LEMMA SetBeginMaps ==
    ASSUME TypeOK, SetProgress, Numbered, NEW c \in Clients, SetBegin(c)
    PROVE  Promise!WriteBegin(c)
  <1>. USE DEF serverVars, readVars
  <1>1. \A d \in Clients : /\ pc'[d] = IF d = c THEN "set" ELSE pc[d]
                           /\ setVer'[d] = IF d = c THEN ver + 1 ELSE setVer[d]
    BY DEF SetBegin, TypeOK
  <1>2. /\ ~Reading(c) /\ ~Setting(c) /\ Setting(c)' /\ ~Reading(c)'
        /\ \A d \in Clients \ {c} : Setting(d)' = Setting(d) /\ Reading(d)' = Reading(d)
    BY <1>1 DEF Setting, Reading, SetBegin
  <1>3. c \notin Promise!Writers /\ ReadState[c] = "no"
    BY <1>2, WritersAre DEF ReadState
  <1>4. /\ ver + 1 \in Promise!Versions /\ ver + 1 > cur
        /\ \A d \in Clients : setVer[d] # ver + 1
    <2>1. ver \in Nat /\ ver < MaxSets /\ cur \in Nat /\ \A d \in Clients : setVer[d] \in Nat
      BY BoundAssumption, SMT DEF SetBegin, TypeOK
    <2>. QED
      BY <2>1, BoundAssumption, SMT DEF Numbered, Promise!Versions
  <1>5. \A d \in Promise!Writers : ver + 1 # Writing[d]
    BY <1>4, WritersAre
  <1>6. Writing' = [Writing EXCEPT ![c] = ver + 1]
    BY <1>1, <1>2 DEF Writing
  <1>7. clean' = Promise!Quiet
    <2>1. clean' = (Settled /\ \A d \in Clients \ {c} : ~Setting(d))
      BY DEF SetBegin
    <2>2. (\A d \in Clients \ {c} : ~Setting(d)) <=> Promise!Writers = {}
      BY <1>2, WritersAre
    <2>. QED
      BY <2>1, <2>2 DEF Promise!Quiet, Settled
  <1>8. ReadState' = [d \in Clients |-> IF ReadState[d] = "no" THEN "no" ELSE "overlapped"]
    <2>1. \A d \in Clients : overlap'[d] = (overlap[d] \/ (d # c /\ Reading(d)))
      BY DEF SetBegin
    <2>2. \A d \in Clients : Reading(d)' = Reading(d)
      BY <1>1 DEF Reading, SetBegin
    <2>3. \A d \in Clients : Reading(d) => overlap'[d]
      BY <1>2, <2>1
    <2>4. \A d \in Clients : (ReadState[d] = "no") = ~Reading(d)
      BY DEF ReadState
    <2>. QED
      BY <2>2, <2>3, <2>4 DEF ReadState
  <1>9. Promise!NoLongerKnown(c)
    <2>1. \A d \in Clients : Answer(d)' = IF d = c THEN NoAnswer ELSE Answer(d)
      BY MapNames, NothingAnswers DEF SetBegin, TypeOK
    <2>2. Answers' = [Answers EXCEPT ![c] = NoAnswer]
      BY <2>1 DEF Answers
    <2>. QED
      BY <2>2, NothingAnswers DEF Promise!NoLongerKnown
  <1>10. UNCHANGED <<Object, cur, dirty, Settled>>
    BY MapNames, SettlingSame DEF SetBegin
  <1>. QED
    BY <1>3, <1>4, <1>5, <1>6, <1>7, <1>8, <1>9, <1>10 DEF Promise!WriteBegin

\* A get or a repair begins: a read.
LEMMA ReadBeginMaps ==
    ASSUME TypeOK, SetProgress, NEW c \in Clients,
           GetBegin(c) \/ \E f \in Index : RepairBegin(c, f)
    PROVE  Promise!ReadBegin(c)
  <1>. USE DEF serverVars, setVars
  <1>1. /\ UNCHANGED <<store, flight, setVer, cur, dirty, clean>>
        /\ overlap' = [overlap EXCEPT ![c] = ~Settled \/ \E d \in Clients : Setting(d)]
        /\ ret' = [ret EXCEPT ![c] = Nothing]
        /\ pc[c] = "idle"
    BY DEF GetBegin, RepairBegin, BeginRead
  <1>2. pc'[c] \in {"get", "repair"} /\ \A d \in Clients \ {c} : pc'[d] = pc[d]
    BY DEF GetBegin, RepairBegin, StartReads, TypeOK
  <1>3. /\ ~Reading(c) /\ Reading(c)' /\ ~Setting(c)' /\ ~Setting(c)
        /\ \A d \in Clients \ {c} : Setting(d)' = Setting(d) /\ Reading(d)' = Reading(d)
    BY <1>1, <1>2 DEF Setting, Reading
  <1>4. c \notin Promise!Writers /\ ReadState[c] = "no"
    BY <1>3, WritersAre DEF ReadState
  <1>5. Writing' = Writing
    BY <1>1, <1>3 DEF Writing
  <1>6. Promise!Quiet <=> ~(~Settled \/ \E d \in Clients : Setting(d))
    BY WritersAre DEF Promise!Quiet
  <1>7. \A d \in Clients :
            overlap'[d] = IF d = c THEN ~Settled \/ \E e \in Clients : Setting(e) ELSE overlap[d]
    BY <1>1 DEF TypeOK
  <1>8. ReadState' = [ReadState EXCEPT ![c] = IF Promise!Quiet THEN "clear" ELSE "overlapped"]
    <2>1. ReadState'[c] = IF overlap'[c] THEN "overlapped" ELSE "clear"
      BY <1>3 DEF ReadState
    <2>2. \A d \in Clients \ {c} : ReadState'[d] = ReadState[d]
      BY <1>3, <1>7 DEF ReadState
    <2>3. overlap'[c] <=> ~Promise!Quiet
      BY <1>6, <1>7
    <2>4. ReadState' = [d \in Clients |-> ReadState'[d]] /\ ReadState = [d \in Clients |-> ReadState[d]]
      BY DEF ReadState
    <2>. QED
      BY <2>1, <2>2, <2>3, <2>4
  <1>9. Promise!NoLongerKnown(c)
    <2>1. \A d \in Clients : Answer(d)' = IF d = c THEN NoAnswer ELSE Answer(d)
      BY <1>1, MapNames, NothingAnswers DEF TypeOK
    <2>2. Answers' = [Answers EXCEPT ![c] = NoAnswer]
      BY <2>1 DEF Answers
    <2>. QED
      BY <2>2, NothingAnswers DEF Promise!NoLongerKnown
  <1>10. UNCHANGED <<Object, cur, dirty, clean, Settled>>
    BY <1>1, MapNames, SettlingSame
  <1>. QED
    BY <1>4, <1>5, <1>8, <1>9, <1>10 DEF Promise!ReadBegin

\* A set sends a block: a part of the write, or its end.
LEMMA SetAdvanceMaps ==
    ASSUME K % R = 0, TypeOK, TypeOK', SetProgress, Linked, Linked', NEW c \in Clients,
           Setting(c), SetAdvance(c), clean' \in {clean, FALSE}, store' = store,
           flight \subseteq flight'
    PROVE  Promise!WriteSome(c) \/ Promise!WriteEnd(c)
  <1>. USE DEF readVars
  <1>1. c \in Promise!Writers /\ Writing[c] = setVer[c]
    BY WritersAre
  <1>2. Object' = Object /\ (~Settled)' \in {~Settled, TRUE}
    BY MapNames, SettlingMore
  <1>3. CASE sent[c] + 1 # N
    <2>1. UNCHANGED <<pc, cur, dirty, ret, setVer, overlap>>
      BY <1>3 DEF SetAdvance
    <2>2. UNCHANGED <<Writing, ReadState, Answers>>
      BY <2>1, SameMaps DEF Setting, Reading
    <2>. QED
      BY <1>1, <1>2, <2>1, <2>2 DEF Promise!WriteSome
  <1>4. CASE sent[c] + 1 = N
    <2>1. /\ pc' = [pc EXCEPT ![c] = "answer"] /\ cur' = setVer[c] /\ dirty' = ~clean'
          /\ UNCHANGED <<ret, setVer, overlap>>
      BY <1>4 DEF SetAdvance
    <2>2. pc'[c] = "answer" /\ \A d \in Clients \ {c} : pc'[d] = pc[d]
      BY <2>1 DEF TypeOK
    <2>3. /\ ~Setting(c)' /\ ~Reading(c)' /\ ~Reading(c)
          /\ \A d \in Clients \ {c} : Setting(d)' = Setting(d) /\ Reading(d)' = Reading(d)
      BY <2>2 DEF Setting, Reading
    <2>4. Writing' = [Writing EXCEPT ![c] = Promise!Nothing]
      BY <2>1, <2>3 DEF Writing, Promise!Nothing
    <2>5. ReadState' = ReadState
      BY <2>1, <2>3 DEF ReadState
    <2>6. Answers' = Answers
      BY <2>1, MapNames DEF Answers
    <2>7. ASSUME ~dirty', Settled' PROVE Object \in {Promise!Nothing, cur'}
      <3>1. clean
        BY <2>1, <2>7
      <3>2. \A d \in Clients : ~Setting(d)'
        BY <2>3, <3>1 DEF Linked, CleanSet
      <3>3. Object' \in {0, cur'}
        BY <2>7, <3>2, ObjectAfter
      <3>. QED
        BY <1>2, <3>3 DEF Promise!Nothing
    <2>8. dirty' \/ (~Settled)' \/ Object \in {Promise!Nothing, cur'}
      BY <2>7
    <2>. QED
      BY <1>1, <1>2, <2>1, <2>4, <2>5, <2>6, <2>8 DEF Promise!WriteEnd
  <1>. QED
    BY <1>3, <1>4

\* A set is cut short, perhaps with its requests.
LEMMA AbandonMaps ==
    ASSUME K % R = 0, TypeOK, TypeOK', SetProgress, Linked, Linked', NoOutcomeYet,
           NEW c \in Clients, Setting(c),
           NEW r, Return(c, r) \/ (Abort(c) /\ r = Nothing), AnswerOf(r) = NoAnswer,
           UNCHANGED <<store, cur>>, dirty' \in {dirty, TRUE}, clean' \in {clean, FALSE},
           (~Settled)' \in {~Settled, FALSE}
    PROVE  Promise!WriteAbandoned(c)
  <1>1. c \in Promise!Writers
    BY WritersAre
  <1>2. /\ Writing' = [Writing EXCEPT ![c] = Promise!Nothing]
        /\ ReadState' = [ReadState EXCEPT ![c] = "no"]
        /\ Answers' = [Answers EXCEPT ![c] = NoAnswer]
    BY EndMaps DEF Promise!Nothing
  <1>3. ReadState' = ReadState
    BY <1>2 DEF ReadState, Setting, Reading
  <1>4. Answers' = Answers
    <2>1. ret[c] = Nothing
      BY DEF Setting, NoOutcomeYet
    <2>2. Answers[c] = NoAnswer
      BY <2>1, MapNames, NothingAnswers DEF Answers
    <2>. QED
      BY <1>2, <2>2 DEF Answers
  <1>5. Object' = Object
    BY MapNames
  <1>6. ASSUME ~dirty', Settled', Promise!Writers = {c} PROVE Object \in {Promise!Nothing, cur}
    <2>1. pc'[c] \in {"idle", "aborted"} /\ \A d \in Clients \ {c} : pc'[d] = pc[d]
      BY EndEffect
    <2>2. \A d \in Clients : ~Setting(d)'
      BY <1>6, <2>1, WritersAre DEF Setting
    <2>. QED
      BY <1>5, <1>6, <2>2, ObjectAfter DEF Promise!Nothing
  <1>7. dirty' \/ (~Settled)' \/ Promise!Writers # {c} \/ Object \in {Promise!Nothing, cur}
    BY <1>6
  <1>. QED
    BY <1>1, <1>2, <1>3, <1>4, <1>5, <1>7 DEF Promise!WriteAbandoned

\* A reader is cut short.
LEMMA ReadAbandonMaps ==
    ASSUME TypeOK, NEW c \in Clients, Reading(c), Abort(c),
           UNCHANGED <<store, flight, cur, dirty, clean>>
    PROVE  Promise!ReadAbandoned(c)
  <1>1. /\ Writing' = [Writing EXCEPT ![c] = 0]
        /\ ReadState' = [ReadState EXCEPT ![c] = "no"]
        /\ Answers' = [Answers EXCEPT ![c] = NoAnswer]
    BY EndMaps, NothingAnswers
  <1>2. Writing' = Writing
    BY <1>1 DEF Writing, Setting, Reading
  <1>3. ReadState[c] # "no"
    BY DEF ReadState
  <1>4. UNCHANGED <<Object, Settled>>
    BY MapNames, SettlingSame
  <1>. QED
    BY <1>1, <1>2, <1>3, <1>4, NothingAnswers DEF Promise!ReadAbandoned, Promise!NoLongerKnown

\* A set that has sent everything returns.
LEMMA AnswerMaps ==
    ASSUME TypeOK, NoOutcomeYet, NEW c \in Clients, pc[c] = "answer",
           NEW r, Return(c, r), AnswerOf(r) = NoAnswer,
           UNCHANGED <<store, flight, cur, dirty, clean>>
    PROVE  UNCHANGED Promise!vars
  <1>1. /\ Writing' = [Writing EXCEPT ![c] = 0]
        /\ ReadState' = [ReadState EXCEPT ![c] = "no"]
        /\ Answers' = [Answers EXCEPT ![c] = NoAnswer]
    BY EndMaps
  <1>2. Writing' = Writing /\ ReadState' = ReadState
    BY <1>1 DEF Writing, ReadState, Setting, Reading
  <1>3. Answers' = Answers
    <2>1. ret[c] = Nothing
      BY DEF NoOutcomeYet
    <2>2. Answers[c] = NoAnswer
      BY <2>1, MapNames, NothingAnswers DEF Answers
    <2>. QED
      BY <1>1, <2>2 DEF Answers
  <1>4. UNCHANGED <<Object, Settled>>
    BY MapNames, SettlingSame
  <1>. QED
    BY <1>2, <1>3, <1>4 DEF Promise!vars

----------------------------------------------------------------------------
(***************************************************************************)
(* What readers write back restores the object, and what gets return is    *)
(* its last version, as far as the object store promises it.               *)
(***************************************************************************)
LEMMA RestoreMaps ==
    ASSUME K % R = 0, TypeOK, TypeOK', Linked, NEW c \in Clients, Reading(c), failNode[c] \in Index,
           NEW block, WriteBack(c, block), NEW missed,
           (~dirty /\ ~overlap[c] /\ block = Junk) => missed > 1,
           (~dirty /\ ~overlap[c] /\ block # Junk) => block = Block(cur, failNode[c])
    PROVE  Promise!Restore(c, missed)
  <1>. DEFINE p == failNode[c]
  <1>1. /\ dirty' = (dirty \/ overlap[c] \/ block = Junk)
        /\ clean' = (clean /\ ~overlap[c])
        /\ dirty \in BOOLEAN /\ clean \in BOOLEAN /\ overlap[c] \in BOOLEAN
    BY DEF WriteBack, TypeOK
  <1>2. ReadState[c] = IF overlap[c] THEN "overlapped" ELSE "clear"
    BY DEF ReadState
  <1>3. dirty' \in {dirty, dirty \/ ReadState[c] = "overlapped" \/ missed > 1}
    <2>1. CASE dirty
      BY <1>1, <2>1, Zenon
    <2>2. CASE overlap[c]
      BY <1>1, <1>2, <2>2, Zenon
    <2>3. CASE ~dirty /\ ~overlap[c] /\ block = Junk
      BY <1>1, <2>3, Zenon
    <2>4. CASE ~dirty /\ ~overlap[c] /\ block # Junk
      BY <1>1, <2>4, Zenon
    <2>. QED
      BY <2>1, <2>2, <2>3, <2>4, Zenon
  <1>4. clean' \in {clean, clean /\ ReadState[c] = "clear"}
    <2>1. CASE overlap[c]
      BY <1>1, <1>2, <2>1
    <2>2. CASE ~overlap[c]
      BY <1>1, <2>2
    <2>. QED
      BY <2>1, <2>2
  <1>5. Object' \in IF dirty' THEN Promise!Objects ELSE {Object, cur}
    <2>1. CASE dirty'
      BY <2>1, MapNames, ObjectType
    <2>2. CASE ~dirty' /\ store' = store
      BY <2>2, MapNames
    <2>3. CASE ~dirty' /\ store' = [store EXCEPT ![p] = block]
      <3>1. ~dirty /\ ~overlap[c] /\ block = Block(cur, p)
        BY <1>1, <2>3
      <3>2. \A q \in Index : store[q] \in {None, Block(cur, q)}
        BY <3>1, SoundFacts DEF Linked, ReadsConsistent
      <3>3. \A q \in Index : store'[q] = IF q = p THEN block ELSE store[q]
        BY <2>3 DEF TypeOK
      <3>4. \A q \in Index : store'[q] \in {None, Block(cur, q)}
        BY <3>1, <3>2, <3>3
      <3>5. store' \in [Index -> Content] /\ cur \in 0..MaxSets
        BY DEF TypeOK, Content, Symbol
      <3>6. store'[p] # None
        BY <3>1, <3>3, <3>5, BlockIsThere
      <3>7. ObjectOf(store') = cur
        BY <3>4, <3>5, <3>6, ObjectIs
      <3>. QED
        BY <2>3, <3>7, MapNames
    <2>. QED
      BY <2>1, <2>2, <2>3 DEF WriteBack
  <1>6. (~Settled)' \in {~Settled, TRUE}
    <2>1. flight \subseteq flight'
      BY DEF WriteBack, Gone, Send
    <2>. QED
      BY <2>1, SettlingMore
  <1>. QED
    BY <1>3, <1>4, <1>5, <1>6 DEF Promise!Restore

\* How many blocks a get missed is a number, and what it reports is an answer,
\* the last version if nothing disturbed it.
LEMMA GetAnswers ==
    ASSUME K % R = 0, TypeOK, NEW c \in Clients, Reading(c), NEW val, RightValue(GetResult(c, val))
    PROVE  LET a == AnswerOf(GetResult(c, val))
           IN  /\ a \in [val : Promise!Objects, missed : Nat]
               /\ a.missed = GetResult(c, val).lost
               /\ (ReadState[c] = "clear" /\ ~dirty /\ cur # 0 /\ a.missed <= 1) => a.val = cur
  <1>. DEFINE g == GetResult(c, val)
              T == {p \in (Data \cup DecodeSources(FailIndex(c), N, K, R)) \cap Index :
                        buf[c][p] = None}
              a == AnswerOf(g)
  <1>1. /\ g.op = "get" /\ g.rc = "SUCCESS" /\ g.val = val
        /\ g.exp = IF dirty \/ overlap[c] THEN 0 ELSE cur
        /\ g.lost = IF Missing(c) = {} THEN 0 ELSE Cardinality(T)
    BY DEF GetResult
  <1>2. g.lost \in Nat
    <2>1. IsFiniteSet(Index)
      BY IndexFinite
    <2>2. T \in SUBSET Index
      OBVIOUS
    <2>3. Cardinality(T) \in Nat
      BY <2>1, <2>2, FS_Subset, FS_CardinalityType
    <2>. HIDE DEF T, g
    <2>. QED
      BY <1>1, <2>3
  <1>. HIDE DEF g
  <1>3. a = [val |-> ValueOf(val), missed |-> g.lost]
    BY <1>1 DEF AnswerOf
  <1>4. ValueOf(val) \in Promise!Objects
    BY MapNames, ValueType
  <1>5. a \in [val : Promise!Objects, missed : Nat] /\ a.missed = g.lost /\ a.val = ValueOf(val)
    BY <1>2, <1>3, <1>4
  <1>6. ASSUME ReadState[c] = "clear", ~dirty, cur # 0, g.lost <= 1 PROVE ValueOf(val) = cur
    <2>1. ~overlap[c]
      BY <1>6 DEF ReadState
    <2>2. g.exp = cur
      BY <1>1, <1>6, <2>1
    <2>3. cur \in Versions /\ cur > 0
      BY <1>6, BoundAssumption, SMT DEF TypeOK, Versions
    <2>4. \A d \in 0..K - 1 : val[d] = Block(cur, DataPos(d, R))
      BY <1>1, <1>6, <2>2, <2>3, SoundFacts, DataLemma DEF RightValue, g
    <2>. QED
      BY <2>3, <2>4, ValueIs
  <1>. HIDE DEF a
  <1>. QED
    BY <1>5, <1>6 DEF g, a

\* An undisturbed get that could not decode has missed more than one block.
LEMMA JunkMissedMany ==
    ASSUME K % R = 0, TypeOK, Linked, NEW c \in Clients, pc[c] = "parity", ~dirty, ~overlap[c],
           Decode(buf[c], DecodeSources(FailIndex(c), N, K, R)) = Junk, NEW val,
           GetResult(c, val).lost \in Nat
    PROVE  GetResult(c, val).lost > 1
  <1>. DEFINE f == FailIndex(c)
              p == failNode[c]
              S == Group(p) \ {p}
              T == {q \in (Data \cup DecodeSources(f, N, K, R)) \cap Index : buf[c][q] = None}
              lost == GetResult(c, val).lost
  <1>1. /\ f \in Missing(c) /\ f \in 0..K - 1 /\ p = DataPos(f, R) /\ p \in Index
        /\ DecodeSources(f, N, K, R) = S
    BY ParitySources, SoundFacts
  <1>2. lost = Cardinality(T)
    BY <1>1 DEF GetResult
  <1>. HIDE DEF lost
  <1>3. SUFFICES ASSUME lost <= 1 PROVE FALSE
    BY SMT DEF lost
  <1>4. Reading(c)
    BY DEF Reading
  <1>5. \A q \in Index : buf[c][q] \in {None, Block(cur, q)}
    BY <1>4, SoundFacts DEF Linked, ReadsConsistent
  <1>6. T = {q \in (Data \cup S) \cap Index : buf[c][q] = None}
    BY <1>1
  <1>7. IsFiniteSet(T)
    <2>1. IsFiniteSet(Index)
      BY IndexFinite
    <2>2. T \in SUBSET Index
      BY <1>6
    <2>. QED
      BY <2>1, <2>2, FS_Subset
  <1>8. p \in T
    BY <1>1, <1>6, DataLemma DEF Missing
  <1>. HIDE DEF T
  <1>9. \A q \in T : q = p
    BY <1>2, <1>3, <1>7, <1>8, AtMostOne
  <1>10. S \subseteq Index
    BY <1>1, GroupLemma
  <1>11. cur \in 0..MaxSets /\ buf[c] \in [Index -> Content]
    BY DEF TypeOK
  <1>12. \A q \in S : buf[c][q] # None /\ buf[c][q] = Block(cur, q)
    BY <1>5, <1>6, <1>9, <1>10
  <1>13. \A q \in S : q \in Index /\ buf[c][q] \notin {None, Junk} /\ buf[c][q] \subseteq Symbol
    <2>. SUFFICES ASSUME NEW q \in S
                  PROVE  q \in Index /\ buf[c][q] \notin {None, Junk} /\ buf[c][q] \subseteq Symbol
      OBVIOUS
    <2>1. q \in Index
      BY <1>10
    <2>2. buf[c][q] # None /\ buf[c][q] # Junk
      BY <1>11, <1>12, <2>1, BlockIsThere
    <2>3. buf[c][q] \in Content
      BY <1>11, <2>1
    <2>. QED
      BY <2>1, <2>2, <2>3 DEF Content
  <1>14. Decode(buf[c], S) = {x \in UNION {buf[c][q] : q \in S} :
                                 Cardinality({q \in S : x \in buf[c][q]}) % 2 = 1}
    BY <1>13 DEF Decode
  <1>15. Decode(buf[c], S) \subseteq UNION {buf[c][q] : q \in S}
    BY <1>14
  <1>16. Decode(buf[c], S) \in SUBSET Symbol
    BY <1>13, <1>15
  <1>. QED
    BY <1>1, <1>16, ContentAssumption

\* A get ends.
LEMMA ReadEndMaps ==
    ASSUME K % R = 0, TypeOK, NEW c \in Clients, Reading(c), NEW val, RightValue(GetResult(c, val)),
           Return(c, GetResult(c, val)), Promise!Restore(c, GetResult(c, val).lost), UNCHANGED cur
    PROVE  Promise!ReadEnd(c)
  <1>. DEFINE a == AnswerOf(GetResult(c, val))
  <1>1. /\ Writing' = [Writing EXCEPT ![c] = 0]
        /\ ReadState' = [ReadState EXCEPT ![c] = "no"]
        /\ Answers' = [Answers EXCEPT ![c] = a]
    BY EndMaps
  <1>2. /\ a \in [val : Promise!Objects, missed : Nat]
        /\ a.missed = GetResult(c, val).lost
        /\ (ReadState[c] = "clear" /\ ~dirty /\ cur # 0 /\ a.missed <= 1) => a.val = cur
    BY GetAnswers
  <1>. HIDE DEF a
  <1>3. Writing' = Writing
    BY <1>1 DEF Writing, Setting, Reading
  <1>4. ReadState[c] # "no"
    BY DEF ReadState
  <1>5. Answers'[c] = a
    BY <1>1 DEF Answers
  <1>6. Answers' = [Answers EXCEPT ![c] = Answers'[c]]
    BY <1>1, <1>5
  <1>7. Promise!Restore(c, Answers'[c].missed)
    BY <1>2, <1>5
  <1>8. (ReadState[c] = "clear" /\ ~dirty /\ cur # Promise!Nothing /\ Answers'[c].missed <= 1) =>
            Answers'[c].val = cur
    BY <1>2, <1>5 DEF Promise!Nothing
  <1>. QED
    BY <1>1, <1>2, <1>3, <1>4, <1>5, <1>6, <1>7, <1>8 DEF Promise!ReadEnd

\* A get that found every data block.
LEMMA GetCompleteMaps ==
    ASSUME K % R = 0, TypeOK, Linked, NEW c \in Clients, GetComplete(c)
    PROVE  Promise!ReadEnd(c)
  <1>. USE DEF serverVars
  <1>. DEFINE val == [d \in 0..K - 1 |-> buf[c][DataPos(d, R)]]
              g == GetResult(c, val)
  <1>1. /\ pc[c] = "get" /\ Missing(c) = {} /\ Return(c, g)
        /\ UNCHANGED <<store, flight, cur, dirty, clean>>
    BY DEF GetComplete
  <1>2. Reading(c)
    BY <1>1 DEF Reading
  <1>3. RightValue(g)
    BY <1>1, <1>2, CompleteIsRight
  <1>. HIDE DEF val
  <1>4. Promise!Restore(c, g.lost)
    <2>1. Object' = Object /\ Object \in Promise!Objects
      BY <1>1, MapNames, ObjectType
    <2>2. dirty' \in {dirty, dirty \/ ReadState[c] = "overlapped" \/ g.lost > 1}
      BY <1>1
    <2>3. clean' \in {clean, clean /\ ReadState[c] = "clear"}
      BY <1>1
    <2>4. (~Settled)' \in {~Settled, TRUE}
      BY <1>1, SettlingSame
    <2>. QED
      BY <2>1, <2>2, <2>3, <2>4 DEF Promise!Restore
  <1>. QED
    BY <1>1, <1>2, <1>3, <1>4, ReadEndMaps

\* A degraded get writes back and returns, or dies.
LEMMA GetFinishMaps ==
    ASSUME K % R = 0, TypeOK, TypeOK', Linked, NEW c \in Clients, GetFinish(c)
    PROVE  Promise!ReadEnd(c) \/ Promise!ReadAbandoned(c)
  <1>. DEFINE f == FailIndex(c)
              p == failNode[c]
              block == Decode(buf[c], DecodeSources(f, N, K, R))
              val == [e \in 0..K - 1 |->
                        IF e = f THEN block
                        ELSE IF e \in Missing(c) THEN Junk ELSE buf[c][DataPos(e, R)]]
              g == GetResult(c, val)
  <1>1. pc[c] = "parity" /\ Reading(c) /\ UNCHANGED cur
    BY DEF GetFinish, Reading
  <1>2. p \in Index /\ DecodeSources(f, N, K, R) = Group(p) \ {p}
    BY <1>1, ParitySources, SoundFacts
  <1>3. CASE WriteBack(c, block) /\ Return(c, g)
    <2>1. RightValue(g)
      BY <1>1, DegradedIsRight
    <2>. HIDE DEF val
    <2>2. g.lost \in Nat
      <3>1. AnswerOf(g) \in [val : Promise!Objects, missed : Nat] /\ AnswerOf(g).missed = g.lost
        BY <1>1, <2>1, GetAnswers
      <3>. QED
        BY <3>1
    <2>3. (~dirty /\ ~overlap[c] /\ block = Junk) => g.lost > 1
      BY <1>1, <2>2, JunkMissedMany
    <2>4. (~dirty /\ ~overlap[c] /\ block # Junk) => block = Block(cur, p)
      BY <1>1, <1>2, RebuiltBlock, SoundFacts
    <2>. HIDE DEF block, g
    <2>5. Promise!Restore(c, g.lost)
      BY <1>1, <1>2, <1>3, <2>3, <2>4, RestoreMaps
    <2>. QED
      BY <1>1, <1>3, <2>1, <2>5, ReadEndMaps DEF g
  <1>4. CASE Abort(c) /\ UNCHANGED <<store, flight, dirty, clean>>
    BY <1>1, <1>4, ReadAbandonMaps
  <1>. QED
    BY <1>3, <1>4 DEF GetFinish

\* A repair writes back and returns, or dies.
LEMMA RepairFinishMaps ==
    ASSUME K % R = 0, TypeOK, TypeOK', Linked, NEW c \in Clients, RepairFinish(c)
    PROVE  Promise!RepairEnd(c) \/ Promise!ReadAbandoned(c)
  <1>. DEFINE p == failNode[c]
              block == Decode(buf[c], Group(p) \ {p})
              r == [op |-> "repair", rc |-> "SUCCESS"]
  <1>1. pc[c] = "repair" /\ Reading(c) /\ UNCHANGED cur
    BY DEF RepairFinish, Reading
  <1>2. p \in Index
    BY <1>1 DEF Linked, Rebuilds
  <1>3. CASE WriteBack(c, block) /\ Return(c, r)
    <2>1. (~dirty /\ ~overlap[c] /\ block # Junk) => block = Block(cur, p)
      BY <1>1, <1>2, RebuiltBlock, SoundFacts
    <2>. HIDE DEF block
    <2>2. 2 > 1 /\ 2 \in 0..2
      BY SMT
    <2>3. Promise!Restore(c, 2)
      BY <1>1, <1>2, <1>3, <2>1, <2>2, RestoreMaps
    <2>4. AnswerOf(r) = NoAnswer
      BY NothingAnswers
    <2>. HIDE DEF r
    <2>5. /\ Writing' = [Writing EXCEPT ![c] = 0]
          /\ ReadState' = [ReadState EXCEPT ![c] = "no"]
          /\ Answers' = [Answers EXCEPT ![c] = NoAnswer]
      BY <1>3, <2>4, EndMaps
    <2>6. Writing' = Writing
      BY <1>1, <2>5 DEF Writing, Setting
    <2>7. ReadState[c] # "no"
      BY <1>1 DEF ReadState
    <2>. QED
      BY <1>1, <2>2, <2>3, <2>5, <2>6, <2>7, NothingAnswers
         DEF Promise!RepairEnd, Promise!NoLongerKnown
  <1>4. CASE Abort(c) /\ UNCHANGED <<store, flight, dirty, clean>>
    BY <1>1, <1>4, ReadAbandonMaps
  <1>. QED
    BY <1>3, <1>4 DEF RepairFinish

----------------------------------------------------------------------------
(***************************************************************************)
(* Nothing happens to the object when nothing is written and the client    *)
(* goes on with what it does.                                              *)
(***************************************************************************)
LEMMA StutterMaps ==
    ASSUME \A c \in Clients : Setting(c)' = Setting(c) /\ Reading(c)' = Reading(c),
           UNCHANGED <<store, flight, setVer, overlap, ret, cur, dirty, clean>>
    PROVE  UNCHANGED Promise!vars
  <1>1. UNCHANGED <<Writing, ReadState, Answers>>
    BY SameMaps
  <1>2. UNCHANGED <<Object, Settled>>
    BY MapNames, SettlingSame
  <1>. QED
    BY <1>1, <1>2 DEF Promise!vars

(***************************************************************************)
(* Every step of the stripe is a step of the object, or none.              *)
(***************************************************************************)
LEMMA StepMaps ==
    ASSUME K % R = 0, Safe, Safe', Numbered, NoOutcomeYet, [Next]_vars
    PROVE  Promise!Next \/ UNCHANGED Promise!vars
  <1>. USE DEF serverVars, historyVars, setVars, readVars
  <1>0. /\ TypeOK /\ TypeOK' /\ SetProgress /\ ExecutedBefore
        /\ Linked /\ Linked'
    BY DEF Safe
  <1>1. ASSUME NEW c \in Clients, SetBegin(c) PROVE Promise!WriteBegin(c)
    BY <1>0, <1>1, SetBeginMaps
  <1>2. ASSUME NEW c \in Clients, SetSend(c)
        PROVE  Promise!WriteSome(c) \/ Promise!WriteEnd(c) \/ Promise!WriteAbandoned(c)
    <2>. DEFINE p == sent[c]
                r == [op |-> "set", rc |-> "ERROR"]
    <2>1. Setting(c)
      BY <1>2 DEF SetSend
    <2>2. CASE SetAdvance(c) /\ flight \subseteq flight' /\ (clean' => clean)
      <3>1. clean' \in {clean, FALSE}
        BY <1>0, <2>2 DEF TypeOK
      <3>2. store' = store
        BY <1>2 DEF SetSend
      <3>. QED
        BY <1>0, <2>1, <2>2, <3>1, <3>2, SetAdvanceMaps
    <2>3. CASE Return(c, r) /\ dirty' = (dirty \/ p > 0) /\ UNCHANGED <<flight, cur, clean>>
      <3>1. AnswerOf(r) = NoAnswer
        BY NothingAnswers
      <3>2. dirty' \in {dirty, TRUE}
        BY <1>0, <2>3, Zenon DEF TypeOK
      <3>3. (~Settled)' \in {~Settled, FALSE}
        BY <2>3, SettlingSame
      <3>4. store' = store
        BY <1>2 DEF SetSend
      <3>. HIDE DEF r
      <3>. QED
        BY <1>0, <2>1, <2>3, <3>1, <3>2, <3>3, <3>4, AbandonMaps
    <2>. QED
      <3>1. ASSUME NEW b, Gone(p, b) PROVE flight \subseteq flight'
        BY <3>1 DEF Gone, Send
      <3>2. ASSUME NEW b, Send(c, p, b) PROVE flight \subseteq flight'
        BY <3>2 DEF Send
      <3>3. clean' = (clean /\ (store[p] = None \/ flight' # flight)) => (clean' => clean)
        OBVIOUS
      <3>. HIDE DEF r
      <3>. QED
        BY <1>2, <2>2, <2>3, <3>1, <3>2, <3>3 DEF SetSend, r
  <1>3. ASSUME NEW c \in Clients, SetAnswer(c) PROVE UNCHANGED Promise!vars
    <2>1. PICK r : /\ Return(c, r)
                   /\ \/ r = [op |-> "set", rc |-> "SUCCESS", stored |-> taken[c]]
                      \/ r = [op |-> "set", rc |-> "ERROR"]
      BY <1>3 DEF SetAnswer
    <2>2. AnswerOf(r) = NoAnswer
      BY <2>1, NothingAnswers
    <2>3. pc[c] = "answer" /\ UNCHANGED <<store, flight, cur, dirty, clean>>
      BY <1>3 DEF SetAnswer
    <2>. QED
      BY <1>0, <2>1, <2>2, <2>3, AnswerMaps
  <1>4. ASSUME NEW c \in Clients,
               SetCrash(c) \/ GetError(c) \/ \E f \in Index : RepairError(c, f) \/ Delete(c, f)
        PROVE  Promise!Lose
    <2>1. PICK r : /\ Return(c, r) \/ (Abort(c) /\ r = Nothing)
                   /\ \/ r = Nothing
                      \/ r = [op |-> "get", rc |-> "ERROR"]
                      \/ r = [op |-> "repair", rc |-> "ERROR"]
                      \/ r = [op |-> "delete", rc |-> "any"]
      BY <1>4 DEF SetCrash, GetError, RepairError, ReadError, Delete
    <2>2. AnswerOf(r) = NoAnswer
      BY <2>1, NothingAnswers
    <2>3. pc[c] = "idle" /\ UNCHANGED <<cur, dirty, clean>>
      BY <1>4 DEF SetCrash, GetError, RepairError, ReadError, Delete
    <2>4. \A q \in Index : store'[q] \in {store[q], None}
      BY <1>0, <1>4 DEF SetCrash, GetError, RepairError, ReadError, Delete, TypeOK
    <2>5. ~Setting(c) /\ ~Reading(c)
      BY <2>3 DEF Setting, Reading
    <2>6. (~Settled)' \in {~Settled, FALSE}
      <3>1. CASE flight' = flight
        BY <3>1, SettlingSame
      <3>2. CASE \E by, f : flight' = flight \cup {Message(by, f, None)}
        <4>1. PICK by, f : flight' = flight \cup {Message(by, f, None)}
          BY <3>2
        <4>2. Message(by, f, None).block = None
          BY DEF Message
        <4>. QED
          BY <4>1, <4>2, SettlingLess
      <3>. QED
        BY <1>4, <3>1, <3>2 DEF SetCrash, GetError, RepairError, ReadError, Delete, Gone, Send
    <2>. QED
      BY <1>0, <2>1, <2>2, <2>3, <2>4, <2>5, <2>6, IdleMaps
  <1>5. ASSUME NEW c \in Clients, GetBegin(c) \/ \E f \in Index : RepairBegin(c, f)
        PROVE  Promise!ReadBegin(c)
    BY <1>0, <1>5, ReadBeginMaps
  <1>6. ASSUME NEW c \in Clients, NEW p \in Index, Fetch(c, p) PROVE UNCHANGED Promise!vars
    BY <1>6, StutterMaps DEF Fetch, Setting, Reading
  <1>7. ASSUME NEW c \in Clients, GetDegraded(c)
        PROVE  Promise!ReadAbandoned(c) \/ UNCHANGED Promise!vars
    <2>1. pc[c] = "get" /\ UNCHANGED <<store, flight, cur, dirty, clean>>
      BY <1>7 DEF GetDegraded
    <2>2. CASE Abort(c)
      BY <1>0, <2>1, <2>2, ReadAbandonMaps DEF Reading
    <2>3. CASE pc' = [pc EXCEPT ![c] = "parity"] /\ UNCHANGED <<ret, setVer, overlap>>
      <3>1. \A d \in Clients : Setting(d)' = Setting(d) /\ Reading(d)' = Reading(d)
        BY <1>0, <2>1, <2>3 DEF Setting, Reading, TypeOK
      <3>. QED
        BY <2>1, <2>3, <3>1, StutterMaps
    <2>. QED
      BY <1>7, <2>2, <2>3 DEF GetDegraded, StartReads
  <1>8. ASSUME NEW c \in Clients, ClientDies(c)
        PROVE  Promise!WriteAbandoned(c) \/ Promise!ReadAbandoned(c) \/ Promise!Lose
    <2>. DEFINE Q == {q \in flight : q.by = c}
                damage == Setting(c) /\ sent[c] > 0
    <2>1. Abort(c) /\ UNCHANGED <<store, cur>> /\ BreakOff(Q, damage)
      BY <1>8 DEF ClientDies
    <2>2. AnswerOf(Nothing) = NoAnswer
      BY NothingAnswers
    <2>3. Q \subseteq flight /\ damage \in BOOLEAN
      OBVIOUS
    <2>4. Reading(c) => Q = {}
      BY <1>0 DEF ExecutedBefore, Drained
    <2>5. ~Setting(c) => ~damage
      OBVIOUS
    <2>. HIDE DEF Q, damage
    <2>6. /\ (~Settled)' \in {~Settled, FALSE}
          /\ dirty' \in {dirty, TRUE} /\ clean' \in {clean, FALSE}
          /\ ~damage => \/ UNCHANGED <<dirty, clean>>
                        \/ ~Settled /\ dirty' = TRUE /\ clean' = FALSE
          /\ Q = {} => flight' = flight /\ (~damage => UNCHANGED <<dirty, clean>>)
      BY <1>0, <2>1, <2>3, BreakOffMaps
    <2>7. CASE Setting(c)
      BY <1>0, <2>1, <2>2, <2>6, <2>7, AbandonMaps
    <2>8. CASE Reading(c)
      <3>1. ~Setting(c)
        BY <2>8 DEF Setting, Reading
      <3>2. UNCHANGED <<flight, dirty, clean>>
        BY <2>4, <2>5, <2>6, <2>8, <3>1
      <3>. QED
        BY <1>0, <2>1, <2>8, <3>2, ReadAbandonMaps
    <2>9. CASE ~Setting(c) /\ ~Reading(c)
      BY <1>0, <2>1, <2>2, <2>5, <2>6, <2>9, IdleMaps
    <2>. QED
      BY <2>7, <2>8, <2>9
  <1>9. ASSUME NEW p \in Index, ServerFails(p) \/ Evict(p) PROVE Promise!Lose
    <2>1. UNCHANGED <<pc, setVer, overlap, ret, cur>>
      BY <1>9 DEF ServerFails, Evict
    <2>2. \A q \in Index : store'[q] \in {store[q], None}
      BY <1>0, <1>9 DEF ServerFails, Evict, TypeOK
    <2>3. CASE flight' \subseteq flight /\ UNCHANGED <<dirty, clean>>
      <3>1. (~Settled)' \in {~Settled, FALSE}
        BY <2>3, SettlingLess
      <3>. QED
        BY <1>0, <2>1, <2>2, <2>3, <3>1, LoseMaps
    <2>4. CASE BreakOff({q \in {q \in flight : q.pos = p} : q.by # None}, FALSE)
      <3>. DEFINE Q == {q \in {q \in flight : q.pos = p} : q.by # None}
      <3>1. Q \subseteq flight /\ FALSE \in BOOLEAN
        OBVIOUS
      <3>. HIDE DEF Q
      <3>2. /\ (~Settled)' \in {~Settled, FALSE}
            /\ \/ UNCHANGED <<dirty, clean>>
               \/ ~Settled /\ dirty' = TRUE /\ clean' = FALSE
        BY <1>0, <2>4, <3>1, BreakOffMaps DEF Q
      <3>. QED
        BY <1>0, <2>1, <2>2, <3>2, LoseMaps
    <2>. QED
      BY <1>9, <2>3, <2>4 DEF ServerFails, Evict
  <1>10. ASSUME NEW p \in Index, ServerReturns(p) PROVE UNCHANGED Promise!vars
    BY <1>10, StutterMaps DEF ServerReturns, Setting, Reading
  <1>11. CASE UNCHANGED vars
    BY <1>11, StutterMaps DEF vars, Setting, Reading
  <1>12. ASSUME NEW c \in Clients, GetComplete(c) PROVE Promise!ReadEnd(c)
    BY <1>0, <1>12, GetCompleteMaps
  <1>13. ASSUME NEW c \in Clients, GetFinish(c) PROVE Promise!ReadEnd(c) \/ Promise!ReadAbandoned(c)
    BY <1>0, <1>13, GetFinishMaps
  <1>14. ASSUME NEW c \in Clients, RepairFinish(c)
         PROVE  Promise!RepairEnd(c) \/ Promise!ReadAbandoned(c)
    BY <1>0, <1>14, RepairFinishMaps
  <1>15. ASSUME NEW c \in Clients, Start(c) PROVE Promise!Next
    BY <1>1, <1>4, <1>5, <1>15 DEF Start, Promise!Next
  <1>16. ASSUME NEW c \in Clients, Continue(c) PROVE Promise!Next \/ UNCHANGED Promise!vars
    BY <1>2, <1>3, <1>6, <1>7, <1>12, <1>13, <1>14, <1>16 DEF Continue, Promise!Next
  <1>17. ASSUME NEW q \in flight, Execute(q) PROVE Promise!Arrive \/ Promise!Lose
    <2>1. UNCHANGED <<pc, setVer, overlap, ret, cur, dirty, clean>> /\ flight' \subseteq flight
      BY <1>17 DEF Execute
    <2>2. \A p \in Index : store'[p] \in {store[p], q.block}
      BY <1>0, <1>17 DEF Execute, TypeOK
    <2>3. CASE q.block = None
      <3>1. (~Settled)' \in {~Settled, FALSE}
        BY <2>1, SettlingLess
      <3>. QED
        BY <1>0, <2>1, <2>2, <2>3, <3>1, LoseMaps
    <2>4. CASE q.block # None
      <3>1. ~Settled
        BY <2>4 DEF Settled
      <3>2. \A c \in Clients : Setting(c)' = Setting(c) /\ Reading(c)' = Reading(c)
        BY <2>1 DEF Setting, Reading
      <3>3. UNCHANGED <<Writing, ReadState, Answers>>
        BY <2>1, <3>2, SameMaps
      <3>4. Object' \in Promise!Objects /\ (~Settled)' \in BOOLEAN
        BY MapNames, ObjectType DEF Settled
      <3>5. ASSUME ~dirty, Settled', Promise!Writers = {} PROVE Object' \in {Promise!Nothing, cur}
        <4>1. \A c \in Clients : ~Setting(c)'
          BY <1>0, <3>2, <3>5, WritersAre
        <4>. QED
          BY <1>0, <2>1, <3>5, <4>1, ObjectAfter DEF Promise!Nothing
      <3>6. ~(dirty \/ (~Settled)' \/ Promise!Writers # {}) => Object' \in {Promise!Nothing, cur}
        BY <3>5
      <3>. QED
        BY <2>1, <3>1, <3>3, <3>4, <3>6 DEF Promise!Arrive
    <2>. QED
      BY <2>3, <2>4
  <1>18. ASSUME Environment PROVE Promise!Next \/ UNCHANGED Promise!vars
    BY <1>8, <1>9, <1>10, <1>17, <1>18 DEF Environment, Promise!Next
  <1>. QED
    BY <1>11, <1>15, <1>16, <1>18 DEF Next

\* The empty stripe is no object.
LEMMA InitMaps == Init => Promise!Init /\ Numbered /\ NoOutcomeYet
  <1>. SUFFICES ASSUME Init PROVE Promise!Init /\ Numbered /\ NoOutcomeYet
    OBVIOUS
  <1>1. \A p \in Index : store[p] = None
    BY DEF Init
  <1>2. Object = Promise!Nothing
    BY <1>1, MapNames DEF ObjectOf, Promise!Nothing
  <1>3. \A c \in Clients : ~Setting(c) /\ ~Reading(c)
    BY DEF Init, Setting, Reading
  <1>4. Writing = [c \in Clients |-> Promise!Nothing]
    BY <1>3 DEF Writing, Promise!Nothing
  <1>5. ReadState = [c \in Clients |-> "no"]
    BY <1>3 DEF ReadState
  <1>6. \A c \in Clients : Answer(c) = Promise!NoAnswer
    BY MapNames, NothingAnswers DEF Init
  <1>7. Answers = [c \in Clients |-> Promise!NoAnswer]
    BY <1>6 DEF Answers
  <1>8. Promise!Init
    BY <1>2, <1>4, <1>5, <1>7 DEF Promise!Init, Promise!Nothing, Init, Settled
  <1>9. Numbered
    BY SMT DEF Init, Numbered
  <1>10. NoOutcomeYet
    BY DEF Init, NoOutcomeYet
  <1>. QED
    BY <1>8, <1>9, <1>10

(***************************************************************************)
(* Refinement: memcached_send, memcached_get_lrc, memcached_repair and the *)
(* delete of a block, each of them many requests at many servers, with any *)
(* number of clients interleaved, servers failing in between and requests  *)
(* executed after the operation that sent them has returned, are seen from *)
(* outside operations on one object that settles after it is written.      *)
(***************************************************************************)
THEOREM StripeIsOneObject ==
    ASSUME K % R = 0
    PROVE  Spec => ImplementsObjectStore
  <1>. DEFINE Inv == Safe /\ Numbered /\ NoOutcomeYet
  <1>1. Init => Inv /\ Promise!Init
    BY SafeInit, InitMaps
  <1>2. Inv /\ [Next]_vars => Inv'
    BY SafeStep, NumberedStep, OutcomeStep DEF Safe
  <1>3. Inv /\ Inv' /\ [Next]_vars => [Promise!Next]_(Promise!vars)
    BY StepMaps
  <1>. HIDE DEF Inv
  <1>. QED
    BY <1>1, <1>2, <1>3, PTL DEF Spec, ImplementsObjectStore, Promise!Spec

============================================================================
