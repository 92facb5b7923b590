-------------------------- MODULE LrcEncodeProofs --------------------------
(***************************************************************************)
(* The encoding loop, proved for every valid code: what it leaves in       *)
(* all_blocks[] is the layout the readers compute.                         *)
(*                                                                         *)
(* The invariant gives all_blocks[] in closed form: the groups before i    *)
(* are laid out, the others are still zero.  What depends on that layout   *)
(* follows, in this order: the sizes of the blocks; the names of the       *)
(* simulator and the positions they stand for; the racks its placements    *)
(* make of them; what repairs cost there; and how often the operations of  *)
(* the library then cross the network core.                                *)
(***************************************************************************)
EXTENDS LrcDesign, LrcCodeProofs, FiniteSetTheorems, WellFoundedInduction

\* The block the layout wants at position p, and all_blocks[] after m groups.
Laid(p) ==
    LET j == GroupOf(p, code.r)
    IN  IF p = ParityPos(j, code.n, code.r)
        THEN Local({Source(j * code.r + x) : x \in 0..GroupSize(j, code.n, code.r) - 2})
        ELSE Source(p - j)

BlocksAfter(m) == [p \in Positions |-> IF GroupOf(p, code.r) < m THEN Laid(p) ELSE Zero]

(***************************************************************************)
(* The inductive invariant: before every iteration remain is what the      *)
(* full groups so far left (after the last one it may be stale: a shorter  *)
(* group does not decrement it).                                           *)
(***************************************************************************)
LayoutInv ==
    /\ code \in Codes
    /\ i \in 0..Groups
    /\ remain \in 0..code.k + Globals
    /\ i < Groups => remain = (code.k + Globals) - i * code.r
    /\ blocks = BlocksAfter(i)

----------------------------------------------------------------------------
(***************************************************************************)
(* The code's parameters.                                                  *)
(***************************************************************************)
LEMMA CodeFacts ==
    ASSUME code \in Codes
    PROVE  /\ ValidCode(code.n, code.k, code.r)
           /\ code.n \in Nat \ {0} /\ code.k \in Nat \ {0} /\ code.r \in Nat \ {0}
           /\ code.n <= MaxNodes
           /\ Groups \in Nat \ {0}
           /\ Globals \in Nat
           /\ code.k + Globals = code.n - Groups
  <1>1. ValidCode(code.n, code.k, code.r)
    BY CodesAssumption
  <1>2. /\ code.n \in Nat \ {0} /\ code.k \in Nat \ {0} /\ code.r \in Nat \ {0}
        /\ Groups \in Nat /\ Groups + code.k <= code.n
        /\ code.n <= (code.r + 1) * Groups
    BY <1>1, ValidFacts DEF Groups
  <1>3. code.n <= MaxNodes
    BY <1>1, SMT DEF ValidCode, MaxNodes
  <1>4. Groups # 0
    BY <1>2, SMT
  <1>5. Globals = code.n - Groups - code.k
    BY DEF Globals, GlobalParities, Groups
  <1>. QED
    BY <1>1, <1>2, <1>3, <1>4, <1>5, SMT

(***************************************************************************)
(* The width of the next group and the position of its parity, as the      *)
(* loop takes them from remain, are those of the layout.                   *)
(***************************************************************************)
LEMMA NextWidth ==
    ASSUME LayoutInv, i < Groups
    PROVE  /\ remain >= code.r =>
                 /\ GroupSize(i, code.n, code.r) = code.r + 1
                 /\ ParityPos(i, code.n, code.r) = i * (code.r + 1) + code.r
           /\ remain < code.r =>
                 /\ i = Groups - 1
                 /\ GroupSize(i, code.n, code.r) = remain + 1
                 /\ ParityPos(i, code.n, code.r) = code.n - 1
  <1>1. /\ ValidCode(code.n, code.k, code.r)
        /\ code.n \in Nat \ {0} /\ code.k \in Nat \ {0} /\ code.r \in Nat \ {0}
        /\ Groups \in Nat \ {0}
        /\ code.k + Globals = code.n - Groups
    BY CodeFacts DEF LayoutInv
  <1>2. i \in 0..Groups - 1 /\ remain = code.n - Groups - i * code.r
    <2>1. i \in 0..Groups /\ remain = (code.k + Globals) - i * code.r
      BY DEF LayoutInv
    <2>2. i \in 0..Groups - 1
      BY <1>1, <2>1, SMT
    <2>3. (code.k + Globals) - i * code.r = code.n - Groups - i * code.r
      BY <1>1, Zenon
    <2>. QED
      BY <2>1, <2>2, <2>3
  <1>. DEFINE s == GroupSize(i, code.n, code.r)
              b == i * (code.r + 1)
              u == i * code.r
  <1>3. /\ i \in Nat /\ b \in Nat /\ u \in Nat
        /\ s \in 2..code.r + 1
        /\ ParityPos(i, code.n, code.r) = b + s - 1
        /\ i < Groups - 1 => s = code.r + 1 /\ u + code.r < code.n - Groups
        /\ i = Groups - 1 =>
              ParityPos(i, code.n, code.r) = code.n - 1 /\ u + s - 1 = code.n - Groups
    BY <1>1, <1>2, GroupShape DEF Groups
  <1>4. remain = code.n - Groups - u
    BY <1>2
  <1>. HIDE DEF s, b, u
  <1>5. /\ remain >= code.r => s = code.r + 1 /\ ParityPos(i, code.n, code.r) = b + code.r
        /\ remain < code.r =>
              i = Groups - 1 /\ s = remain + 1 /\ ParityPos(i, code.n, code.r) = code.n - 1
    BY <1>1, <1>2, <1>3, <1>4, SMT
  <1>. QED
    BY <1>5 DEF s, b

(***************************************************************************)
(* Placing a group of the layout's width extends the closed form by one    *)
(* group.                                                                  *)
(***************************************************************************)
LEMMA PlaceStep ==
    ASSUME code \in Codes, code' = code, i \in 0..Groups - 1, blocks = BlocksAfter(i),
           NEW w, w = GroupSize(i, code.n, code.r) - 1,
           Place(w, ParityPos(i, code.n, code.r))
    PROVE  blocks' = BlocksAfter(i + 1)
  <1>. DEFINE rr == code.r
              lp == ParityPos(i, code.n, rr)
              b == i * (rr + 1)
              u == i * rr
              P == Local({Source(u + x) : x \in 0..w - 1})
  <1>1. /\ ValidCode(code.n, code.k, rr)
        /\ code.n \in Nat \ {0} /\ rr \in Nat \ {0} /\ Groups \in Nat \ {0}
    BY CodeFacts
  <1>2. /\ i \in Nat /\ b \in Nat /\ u \in Nat /\ b = u + i
        /\ w \in 1..rr /\ lp = b + w /\ lp \in 0..code.n - 1
    <2>1. /\ i \in Nat /\ b \in Nat /\ u \in Nat /\ b = u + i
          /\ GroupSize(i, code.n, rr) \in 2..rr + 1
          /\ lp = b + GroupSize(i, code.n, rr) - 1 /\ lp \in 0..code.n - 1
      BY <1>1, GroupShape DEF Groups
    <2>. QED
      BY <1>1, <2>1, SMT
  <1>3. blocks' = [p \in Positions |->
            CASE p = lp           -> P
              [] p \in b..b + w - 1 -> Source(u + p - b)
              [] OTHER            -> blocks[p]]
    BY DEF Place
  <1>4. Positions = 0..code.n - 1
    BY DEF Positions
  <1>5. ASSUME NEW p \in Positions
        PROVE  (CASE p = lp           -> P
                  [] p \in b..b + w - 1 -> Source(u + p - b)
                  [] OTHER            -> blocks[p])
               = IF GroupOf(p, rr) < i + 1 THEN Laid(p) ELSE Zero
    <2>. DEFINE j == GroupOf(p, rr)
                m == j * (rr + 1)
    <2>1. /\ j \in 0..Groups - 1 /\ m <= p /\ p <= ParityPos(j, code.n, rr)
      BY <1>1, <1>4, GroupOfRange DEF Groups
    <2>2. /\ j \in Nat /\ m \in Nat /\ GroupSize(j, code.n, rr) \in 2..rr + 1
          /\ ParityPos(j, code.n, rr) = m + GroupSize(j, code.n, rr) - 1
      BY <1>1, <2>1, GroupShape DEF Groups
    <2>3. p \in Nat
      BY <1>1, <1>4, SMT
    <2>4. CASE p \in b..lp
      <3>1. j = i
        <4>1. p - b \in 0..rr /\ p = b + (p - b)
          BY <1>1, <1>2, <2>3, <2>4, SMT
        <4>2. GroupOf(b + (p - b), rr) = i
          BY <1>1, <1>2, <4>1, SameGroup
        <4>. QED
          BY <4>1, <4>2
      <3>2. Laid(p) = IF p = lp THEN P ELSE Source(p - i)
        <4>1. GroupSize(i, code.n, rr) - 2 = w - 1
          BY <1>1, <2>2, <3>1, SMT
        <4>. QED
          BY <3>1, <4>1 DEF Laid
      <3>3. j < i + 1
        BY <1>2, <3>1, SMT
      <3>4. CASE p = lp
        BY <1>2, <1>1, <3>2, <3>3, <3>4, SMT
      <3>5. CASE p # lp
        <4>1. p \in b..b + w - 1 /\ u + p - b = p - i
          BY <1>1, <1>2, <2>3, <2>4, <3>5, SMT
        <4>. QED
          BY <3>2, <3>3, <3>5, <4>1
      <3>. QED
        BY <3>4, <3>5
    <2>5. CASE p \notin b..lp
      <3>1. p # lp /\ p \notin b..b + w - 1
        BY <1>1, <1>2, <2>3, <2>5, SMT
      <3>2. j # i
        <4>1. SUFFICES ASSUME j = i PROVE FALSE
          OBVIOUS
        <4>. QED
          BY <1>2, <2>1, <2>3, <2>5, <4>1, SMT
      <3>3. (j < i + 1) <=> (j < i)
        BY <1>2, <2>2, <3>2, SMT
      <3>4. blocks[p] = IF j < i THEN Laid(p) ELSE Zero
        BY DEF BlocksAfter
      <3>. QED
        BY <3>1, <3>3, <3>4
    <2>. QED
      BY <2>4, <2>5
  <1>. QED
    BY <1>3, <1>5 DEF BlocksAfter


\* The empty stripe.
LEMMA LayoutInit ==
    Init => LayoutInv
  <1>. SUFFICES ASSUME Init PROVE LayoutInv
    OBVIOUS
  <1>1. code \in Codes /\ i = 0 /\ remain = code.k + Globals /\ blocks = [p \in Positions |-> Zero]
    BY DEF Init
  <1>2. /\ ValidCode(code.n, code.k, code.r)
        /\ code.n \in Nat \ {0} /\ code.k \in Nat \ {0} /\ code.r \in Nat \ {0}
        /\ Groups \in Nat \ {0} /\ Globals \in Nat
    BY <1>1, CodeFacts
  <1>3. i \in 0..Groups /\ remain \in 0..code.k + Globals
    BY <1>1, <1>2, SMT
  <1>4. remain = (code.k + Globals) - i * code.r
    BY <1>1, <1>2, SMT
  <1>5. ASSUME NEW p \in Positions PROVE ~(GroupOf(p, code.r) < i)
    <2>1. GroupOf(p, code.r) \in 0..LocalGroups(code.n, code.r) - 1
      BY <1>2, GroupOfRange DEF Positions
    <2>. QED
      BY <1>1, <1>2, <2>1, SMT DEF Groups
  <1>6. blocks = BlocksAfter(i)
    BY <1>1, <1>5 DEF BlocksAfter
  <1>. QED
    BY <1>1, <1>3, <1>4, <1>6 DEF LayoutInv

\* An iteration lays out one more group of the same code.
LEMMA LayoutStep ==
    ASSUME LayoutInv, Next
    PROVE  LayoutInv' /\ code' = code /\ i' = i + 1 /\ i < Groups /\ blocks' = BlocksAfter(i + 1)
  <1>1. code \in Codes /\ i \in 0..Groups /\ blocks = BlocksAfter(i) /\ code' = code
    BY DEF LayoutInv, Next, FullGroup, ShortGroup
  <1>2. /\ ValidCode(code.n, code.k, code.r)
        /\ code.n \in Nat \ {0} /\ code.k \in Nat \ {0} /\ code.r \in Nat \ {0}
        /\ Groups \in Nat \ {0} /\ Globals \in Nat
        /\ code.k + Globals = code.n - Groups
    BY <1>1, CodeFacts
  <1>3. i < Groups /\ i' = i + 1
    BY DEF Next, FullGroup, ShortGroup
  <1>4. i \in 0..Groups - 1 /\ i + 1 \in 0..Groups
    BY <1>1, <1>2, <1>3, SMT
  <1>5. Groups' = Groups /\ Globals' = Globals
    BY <1>1 DEF Groups, Globals
  <1>6. blocks' = BlocksAfter(i + 1)
    <2>. DEFINE s == GroupSize(i, code.n, code.r)
    <2>1. s \in 2..code.r + 1
      BY <1>2, <1>4, GroupShape DEF Groups
    <2>2. remain \in Int
      BY <1>2, SMT DEF LayoutInv
    <2>3. CASE FullGroup
      <3>1. remain >= code.r /\ Place(code.r, i * (code.r + 1) + code.r)
        BY <2>3 DEF FullGroup
      <3>2. s = code.r + 1 /\ ParityPos(i, code.n, code.r) = i * (code.r + 1) + code.r
        BY <1>3, <3>1, NextWidth
      <3>3. code.r = s - 1
        BY <1>2, <3>2, SMT
      <3>4. Place(code.r, ParityPos(i, code.n, code.r))
        BY <3>1, <3>2, Zenon
      <3>. QED
        BY <1>1, <1>4, <3>3, <3>4, PlaceStep, Zenon
    <2>4. CASE ShortGroup
      <3>1. remain < code.r /\ Place(remain, code.n - 1)
        BY <2>4 DEF ShortGroup
      <3>2. s = remain + 1 /\ ParityPos(i, code.n, code.r) = code.n - 1
        BY <1>3, <3>1, NextWidth
      <3>3. remain = s - 1
        BY <2>2, <3>2, SMT
      <3>4. Place(remain, ParityPos(i, code.n, code.r))
        BY <3>1, <3>2, Zenon
      <3>. QED
        BY <1>1, <1>4, <3>3, <3>4, PlaceStep, Zenon
    <2>. QED
      BY <2>3, <2>4 DEF Next
  <1>7. blocks' = BlocksAfter(i)'
    BY <1>1, <1>3, <1>6 DEF BlocksAfter, Laid, Positions, Source, Local, Zero
  <1>8. /\ remain' \in 0..code.k + Globals
        /\ i + 1 < Groups => remain' = (code.k + Globals) - (i + 1) * code.r
    <2>. DEFINE u == i * code.r
                T == code.k + Globals
    <2>1. remain \in 0..T /\ remain = T - u
      BY <1>3 DEF LayoutInv
    <2>2. u \in Nat /\ (i + 1) * code.r = u + code.r /\ T \in Nat
      BY <1>2, <1>4, SMT
    <2>3. SUFFICES /\ remain' \in 0..T
                   /\ i + 1 < Groups => remain' = T - (u + code.r)
      BY <2>2
    <2>. HIDE DEF u, T
    <2>4. CASE FullGroup
      <3>1. remain >= code.r /\ remain' = remain - code.r
        BY <2>4 DEF FullGroup
      <3>. QED
        BY <1>2, <2>1, <2>2, <3>1, SMT
    <2>5. CASE ShortGroup
      <3>1. remain < code.r /\ remain' = remain
        BY <2>5 DEF ShortGroup
      <3>2. i = Groups - 1
        BY <1>3, <3>1, NextWidth
      <3>. QED
        BY <1>2, <1>4, <2>1, <2>2, <3>1, <3>2, SMT
    <2>. QED
      BY <2>4, <2>5 DEF Next
  <1>. QED
    BY <1>1, <1>3, <1>4, <1>5, <1>6, <1>7, <1>8 DEF LayoutInv

(***************************************************************************)
(* all_blocks[] is laid out group by group, whatever the code.             *)
(***************************************************************************)
THEOREM GroupsLaidOut ==
    Spec => []LayoutInv
  <1>1. LayoutInv /\ UNCHANGED vars => LayoutInv'
    BY DEF LayoutInv, vars, Groups, Globals, BlocksAfter, Laid, Positions, Source, Local, Zero
  <1>2. LayoutInv /\ [Next]_vars => LayoutInv'
    BY <1>1, LayoutStep
  <1>. QED
    BY <1>2, LayoutInit, PTL DEF Spec

----------------------------------------------------------------------------
(***************************************************************************)
(* What is not a parity is a data block or a global parity in range.       *)
(***************************************************************************)
LEMMA SourceType ==
    ASSUME code \in Codes, NEW x \in 0..code.n
    PROVE  Source(x) \in {"data", "global"} \X (0..MaxNodes)
  <1>1. /\ code.n \in Nat /\ code.k \in Nat /\ code.n <= MaxNodes /\ MaxNodes \in Nat
    BY CodeFacts, SMT DEF MaxNodes
  <1>2. CASE x < code.k
    <2>1. x \in 0..MaxNodes
      BY <1>1, SMT
    <2>. QED
      BY <1>2, <2>1 DEF Source
  <1>3. CASE ~(x < code.k)
    <2>1. x - code.k \in 0..MaxNodes
      BY <1>1, <1>3, SMT
    <2>. QED
      BY <1>3, <2>1 DEF Source
  <1>. QED
    BY <1>2, <1>3

(***************************************************************************)
(* Different running numbers are different blocks.                         *)
(***************************************************************************)
LEMMA SourceInjective ==
    ASSUME code.k \in Nat, NEW x \in Nat, NEW y \in Nat, Source(x) = Source(y)
    PROVE  x = y
  <1>0. ASSUME NEW a, NEW b PROVE <<"data", a>> # <<"global", b>>
    OBVIOUS
  <1>1. CASE x < code.k
    <2>1. Source(x) = <<"data", x>>
      BY <1>1 DEF Source
    <2>2. CASE y < code.k
      BY <2>1, <2>2 DEF Source
    <2>3. CASE ~(y < code.k)
      <3>1. Source(y) = <<"global", y - code.k>>
        BY <2>3 DEF Source
      <3>. QED
        BY <1>0, <2>1, <3>1, Zenon
    <2>. QED
      BY <2>2, <2>3
  <1>2. CASE ~(x < code.k)
    <2>1. Source(x) = <<"global", x - code.k>>
      BY <1>2 DEF Source
    <2>2. CASE y < code.k
      <3>1. Source(y) = <<"data", y>>
        BY <2>2 DEF Source
      <3>. QED
        BY <1>0, <2>1, <3>1, Zenon
    <2>3. CASE ~(y < code.k)
      <3>1. x - code.k = y - code.k
        BY <2>1, <2>3 DEF Source
      <3>. QED
        BY <3>1, SMT
    <2>. QED
      BY <2>2, <2>3
  <1>. QED
    BY <1>1, <1>2

(***************************************************************************)
(* The block before a parity: slot s of group j holds running number       *)
(* j*r + s.                                                                *)
(***************************************************************************)
LEMMA LaidSource ==
    ASSUME code \in Codes, NEW j \in 0..Groups - 1,
           NEW x \in 0..GroupSize(j, code.n, code.r) - 2
    PROVE  /\ j * (code.r + 1) + x \in Positions
           /\ GroupOf(j * (code.r + 1) + x, code.r) = j
           /\ j * (code.r + 1) + x # ParityPos(j, code.n, code.r)
           /\ Laid(j * (code.r + 1) + x) = Source(j * code.r + x)
  <1>. DEFINE rr == code.r
              b == j * (rr + 1)
              u == j * rr
              s == GroupSize(j, code.n, rr)
              lp == ParityPos(j, code.n, rr)
              p == b + x
  <1>1. /\ ValidCode(code.n, code.k, rr)
        /\ code.n \in Nat \ {0} /\ rr \in Nat \ {0} /\ Groups \in Nat \ {0}
    BY CodeFacts
  <1>2. /\ j \in Nat /\ b \in Nat /\ u \in Nat /\ b = u + j
        /\ s \in 2..rr + 1 /\ lp = b + s - 1 /\ lp \in 0..code.n - 1
    BY <1>1, GroupShape DEF Groups
  <1>3. x \in 0..rr
    BY <1>1, <1>2, SMT
  <1>4. GroupOf(p, rr) = j
    BY <1>1, <1>2, <1>3, SameGroup
  <1>. HIDE DEF b, u, s, lp
  <1>5. p \in 0..code.n - 1 /\ p # lp /\ p - j = u + x
    BY <1>1, <1>2, SMT DEF s
  <1>6. Laid(p) = Source(p - j)
    BY <1>4, <1>5 DEF Laid, lp
  <1>. QED
    BY <1>4, <1>5, <1>6 DEF Positions, b, u, lp

(***************************************************************************)
(* The slot of a parity.                                                   *)
(***************************************************************************)
LEMMA LaidParity ==
    ASSUME code \in Codes, NEW j \in 0..Groups - 1
    PROVE  LET lp == ParityPos(j, code.n, code.r)
           IN  /\ lp \in Positions
               /\ GroupOf(lp, code.r) = j
               /\ Laid(lp) =
                    Local({Source(j * code.r + x) : x \in 0..GroupSize(j, code.n, code.r) - 2})
  <1>. DEFINE rr == code.r
              b == j * (rr + 1)
              s == GroupSize(j, code.n, rr)
              lp == ParityPos(j, code.n, rr)
  <1>1. /\ ValidCode(code.n, code.k, rr)
        /\ code.n \in Nat \ {0} /\ rr \in Nat \ {0} /\ Groups \in Nat \ {0}
    BY CodeFacts
  <1>2. /\ j \in Nat /\ b \in Nat
        /\ s \in 2..rr + 1 /\ lp = b + s - 1 /\ lp \in 0..code.n - 1
    BY <1>1, GroupShape DEF Groups
  <1>3. s - 1 \in 0..rr
    BY <1>1, <1>2, SMT
  <1>4. GroupOf(b + (s - 1), rr) = j
    BY <1>1, <1>2, <1>3, SameGroup
  <1>5. GroupOf(lp, rr) = j
    BY <1>2, <1>4
  <1>. QED
    BY <1>2, <1>5 DEF Laid, Positions

(***************************************************************************)
(* Every position is a parity or holds one running number, the one of its  *)
(* slot and group.                                                         *)
(***************************************************************************)
LEMMA PositionCases ==
    ASSUME code \in Codes, NEW p \in Positions
    PROVE  \E j \in 0..Groups - 1 :
              /\ j = GroupOf(p, code.r)
              /\ \/ p = ParityPos(j, code.n, code.r)
                 \/ \E x \in 0..GroupSize(j, code.n, code.r) - 2 : p = j * (code.r + 1) + x
  <1>. DEFINE rr == code.r
              j == GroupOf(p, rr)
              b == j * (rr + 1)
              s == GroupSize(j, code.n, rr)
  <1>1. /\ ValidCode(code.n, code.k, rr)
        /\ code.n \in Nat \ {0} /\ rr \in Nat \ {0} /\ Groups \in Nat \ {0}
    BY CodeFacts
  <1>2. p \in 0..code.n - 1
    BY DEF Positions
  <1>3. j \in 0..Groups - 1 /\ b <= p /\ p <= ParityPos(j, code.n, rr)
    BY <1>1, <1>2, GroupOfRange DEF Groups
  <1>4. b \in Nat /\ s \in 2..rr + 1 /\ ParityPos(j, code.n, rr) = b + s - 1
    BY <1>1, <1>3, GroupShape DEF Groups
  <1>. HIDE DEF j, b, s
  <1>5. ASSUME p # ParityPos(j, code.n, rr) PROVE p - b \in 0..s - 2 /\ p = b + (p - b)
    BY <1>1, <1>2, <1>3, <1>4, <1>5, SMT
  <1>. QED
    BY <1>3, <1>5 DEF j, b, s

----------------------------------------------------------------------------
(***************************************************************************)
(* The counters of the loop stay in range, remain (a uint32_t) does not    *)
(* wrap, and every slot holds a block of the stripe.                       *)
(***************************************************************************)
THEOREM TypeCorrect ==
    Spec => []TypeOK
  <1>1. LayoutInv => TypeOK
    <2>. SUFFICES ASSUME LayoutInv PROVE TypeOK
      OBVIOUS
    <2>1. /\ code \in Codes /\ i \in 0..Groups /\ remain \in 0..code.k + Globals
          /\ blocks = BlocksAfter(i)
      BY DEF LayoutInv
    <2>2. DOMAIN blocks = Positions
      BY <2>1 DEF BlocksAfter
    <2>3. ASSUME NEW j \in 0..Groups - 1, NEW x \in 0..GroupSize(j, code.n, code.r) - 2
          PROVE  Source(j * code.r + x) \in {"data", "global"} \X (0..MaxNodes)
      <3>. DEFINE u == j * code.r
                  s == GroupSize(j, code.n, code.r)
      <3>1. /\ ValidCode(code.n, code.k, code.r) /\ Groups \in Nat /\ Groups = LocalGroups(code.n, code.r)
            /\ code.n \in Nat /\ code.r \in Nat
        BY <2>1, CodeFacts DEF Groups
      <3>2. /\ u \in Nat /\ s \in 2..code.r + 1 /\ u + s - 1 <= code.n - Groups
        BY <3>1, GroupShape DEF Groups
      <3>. HIDE DEF u, s
      <3>3. u + x \in 0..code.n
        BY <3>1, <3>2, SMT DEF s
      <3>. QED
        BY <2>1, <3>3, SourceType DEF u
    <2>4. ASSUME NEW p \in Positions
          PROVE  \/ blocks[p] \in {Zero} \cup ({"data", "global"} \X (0..MaxNodes))
                 \/ /\ blocks[p][1] = "local"
                    /\ blocks[p][2] \subseteq {"data", "global"} \X (0..MaxNodes)
      <3>1. blocks[p] = IF GroupOf(p, code.r) < i THEN Laid(p) ELSE Zero
        BY <2>1 DEF BlocksAfter
      <3>2. PICK j \in 0..Groups - 1 :
              /\ j = GroupOf(p, code.r)
              /\ \/ p = ParityPos(j, code.n, code.r)
                 \/ \E x \in 0..GroupSize(j, code.n, code.r) - 2 : p = j * (code.r + 1) + x
        BY <2>1, PositionCases
      <3>3. CASE p = ParityPos(j, code.n, code.r)
        <4>1. Laid(p) = Local({Source(j * code.r + x) : x \in 0..GroupSize(j, code.n, code.r) - 2})
          BY <2>1, <3>3, LaidParity
        <4>2. Laid(p)[1] = "local" /\ Laid(p)[2] \subseteq {"data", "global"} \X (0..MaxNodes)
          BY <2>3, <4>1 DEF Local
        <4>. QED
          BY <3>1, <4>2
      <3>4. CASE \E x \in 0..GroupSize(j, code.n, code.r) - 2 : p = j * (code.r + 1) + x
        <4>1. PICK x \in 0..GroupSize(j, code.n, code.r) - 2 : p = j * (code.r + 1) + x
          BY <3>4
        <4>2. Laid(p) = Source(j * code.r + x)
          BY <2>1, <4>1, LaidSource
        <4>. QED
          BY <2>3, <3>1, <4>2
      <3>. QED
        BY <3>2, <3>3, <3>4
    <2>. QED
      BY <2>1, <2>2, <2>4 DEF TypeOK
  <1>. QED
    BY <1>1, GroupsLaidOut, PTL

(***************************************************************************)
(* No iteration writes past all_blocks[] or reads past the global          *)
(* parities, whatever the code.                                            *)
(***************************************************************************)
THEOREM LoopInBounds ==
    Spec => []IndicesInBounds
  <1>1. LayoutInv => IndicesInBounds
    <2>. SUFFICES ASSUME LayoutInv, i < Groups
                  PROVE  LET w == IF remain >= code.r THEN code.r ELSE remain
                         IN  /\ i * (code.r + 1) + w <= code.n - 1
                             /\ i * code.r + w <= code.k + Globals
      BY DEF IndicesInBounds
    <2>. DEFINE w == IF remain >= code.r THEN code.r ELSE remain
                s == GroupSize(i, code.n, code.r)
                b == i * (code.r + 1)
                u == i * code.r
                T == code.k + Globals
    <2>1. /\ ValidCode(code.n, code.k, code.r)
          /\ code.n \in Nat \ {0} /\ code.r \in Nat \ {0} /\ Groups \in Nat \ {0}
          /\ T = code.n - Groups /\ T \in Nat
      BY CodeFacts, SMT DEF LayoutInv
    <2>2. i \in 0..Groups - 1 /\ remain \in 0..T
      BY <2>1, SMT DEF LayoutInv
    <2>3. /\ b \in Nat /\ u \in Nat /\ s \in 2..code.r + 1
          /\ ParityPos(i, code.n, code.r) = b + s - 1 /\ ParityPos(i, code.n, code.r) \in 0..code.n - 1
          /\ u + s - 1 <= code.n - Groups
      BY <2>1, <2>2, GroupShape DEF Groups
    <2>4. /\ remain >= code.r => s = code.r + 1
          /\ remain < code.r => s = remain + 1
      BY NextWidth
    <2>. HIDE DEF b, u, s, T
    <2>5. b + w <= code.n - 1 /\ u + w <= T
      BY <2>1, <2>2, <2>3, <2>4, SMT
    <2>. QED
      BY <2>5 DEF b, u, T
  <1>. QED
    BY <1>1, GroupsLaidOut, PTL

(***************************************************************************)
(* At the end every position holds the block of the layout.                *)
(***************************************************************************)
LEMMA DoneLaid ==
    ASSUME LayoutInv, Done, NEW p \in Positions
    PROVE  blocks[p] = Laid(p)
  <1>1. /\ code \in Codes /\ blocks = BlocksAfter(i) /\ i = Groups
    BY DEF LayoutInv, Done
  <1>2. PICK j \in 0..Groups - 1 : j = GroupOf(p, code.r)
    BY <1>1, PositionCases
  <1>3. Groups \in Nat
    BY <1>1, CodeFacts
  <1>4. GroupOf(p, code.r) < i
    BY <1>1, <1>2, <1>3, SMT
  <1>. QED
    BY <1>1, <1>4 DEF BlocksAfter

(***************************************************************************)
(* The group and the slot of a running number.                             *)
(***************************************************************************)
LEMMA BlockSlot ==
    ASSUME code \in Codes, NEW x \in 0..(code.k + Globals) - 1
    PROVE  /\ x \div code.r \in 0..Groups - 1
           /\ x - (x \div code.r) * code.r \in 0..GroupSize(x \div code.r, code.n, code.r) - 2
  <1>. DEFINE rr == code.r
              q == x \div rr
              l == Groups - 1
              T == code.k + Globals
  <1>1. /\ ValidCode(code.n, code.k, rr)
        /\ code.n \in Nat \ {0} /\ rr \in Nat \ {0} /\ Groups \in Nat \ {0}
        /\ T = code.n - Groups /\ T \in Nat
    BY CodeFacts, SMT
  <1>2. x \in Nat /\ x < T
    BY <1>1, SMT
  <1>3. q \in Nat /\ rr * q <= x /\ x < rr * q + rr
    BY <1>1, <1>2, DivFact
  <1>4. l \in 0..LocalGroups(code.n, rr) - 1 /\ l \in Nat
    BY <1>1, SMT DEF Groups
  <1>5. /\ l * rr \in Nat /\ GroupSize(l, code.n, rr) \in 2..rr + 1
        /\ l * rr + GroupSize(l, code.n, rr) - 1 = code.n - Groups
    <2>1. l = LocalGroups(code.n, rr) - 1
      BY DEF Groups
    <2>. QED
      BY <1>1, <1>4, <2>1, GroupShape DEF Groups
  <1>. HIDE DEF q, T, l
  <1>6. T <= rr * l + rr
    BY <1>1, <1>4, <1>5, SMT
  <1>7. q <= l
    <2>1. SUFFICES ASSUME l + 1 <= q PROVE FALSE
      BY <1>3, <1>4, SMT
    <2>2. rr * (l + 1) <= rr * q /\ rr * (l + 1) = rr * l + rr
      <3>1. l + 1 \in Nat /\ rr * (l + 1) = rr * l + rr
        BY <1>1, <1>4, SMT
      <3>. QED
        BY <1>1, <1>3, <2>1, <3>1, MulMono
    <2>3. rr * q \in Nat /\ rr * l \in Nat
      BY <1>1, <1>3, <1>4, SMT
    <2>. QED
      BY <1>1, <1>2, <1>3, <1>6, <2>2, <2>3, SMT
  <1>8. q \in 0..LocalGroups(code.n, rr) - 1 /\ q \in 0..Groups - 1
    BY <1>1, <1>3, <1>7, SMT DEF Groups, l
  <1>. DEFINE u == q * rr
              s == GroupSize(q, code.n, rr)
  <1>9. /\ u \in Nat /\ s \in 2..rr + 1 /\ rr * q = u
        /\ q < Groups - 1 => s = rr + 1
        /\ q = Groups - 1 => u + s - 1 = code.n - Groups
    <2>1. rr * q = q * rr
      BY <1>1, <1>3, SMT
    <2>. QED
      BY <1>1, <1>8, <2>1, GroupShape DEF Groups
  <1>. HIDE DEF u, s
  <1>10. x - u \in 0..s - 2
    BY <1>1, <1>2, <1>3, <1>8, <1>9, SMT
  <1>. QED
    BY <1>8, <1>10 DEF q, u, s

(***************************************************************************)
(* Where the layout puts a running number: x + x \div rr.                   *)
(***************************************************************************)
LEMMA BlockPlace ==
    ASSUME LayoutInv, Done, NEW x \in 0..(code.k + Globals) - 1
    PROVE  /\ DataPos(x, code.r) \in Positions
           /\ blocks[DataPos(x, code.r)] = Source(x)
  <1>. DEFINE rr == code.r
              q == x \div rr
              y == x - q * rr
  <1>1. code \in Codes
    BY DEF LayoutInv
  <1>2. /\ rr \in Nat \ {0} /\ code.k + Globals \in Nat
    BY <1>1, CodeFacts, SMT
  <1>3. q \in 0..Groups - 1 /\ y \in 0..GroupSize(q, code.n, rr) - 2
    BY <1>1, BlockSlot
  <1>4. q \in Nat /\ x \in Nat
    BY <1>2, DivFact, SMT
  <1>. HIDE DEF q
  <1>5. q * (rr + 1) + y = x + q /\ q * rr + y = x
    BY <1>2, <1>4, SMT
  <1>. HIDE DEF y
  <1>6. q * (rr + 1) + y \in Positions /\ Laid(q * (rr + 1) + y) = Source(q * rr + y)
    BY <1>1, <1>3, LaidSource
  <1>7. DataPos(x, rr) = q * (rr + 1) + y
    BY <1>5 DEF DataPos, q
  <1>8. blocks[q * (rr + 1) + y] = Laid(q * (rr + 1) + y)
    BY <1>6, DoneLaid
  <1>. QED
    BY <1>5, <1>6, <1>7, <1>8

(***************************************************************************)
(* Writer and get agree on where the data is: each data block is at the    *)
(* position its read is routed to, and the one that is stored truncated is *)
(* the last.                                                               *)
(***************************************************************************)
THEOREM DataIsFound ==
    Spec => []DataWhereGetLooks
  <1>1. LayoutInv => DataWhereGetLooks
    <2>. SUFFICES ASSUME LayoutInv, Done
                  PROVE  /\ \A d \in 0..code.k - 1 :
                               blocks[RoutedPos(KeySuffix(DataPos(d, code.r)))] = <<"data", d>>
                         /\ blocks[LastBlock(code.k, code.r)] = <<"data", code.k - 1>>
      BY DEF DataWhereGetLooks
    <2>1. /\ code \in Codes
          /\ code.n \in Nat \ {0} /\ code.k \in Nat \ {0} /\ code.r \in Nat \ {0} /\ Globals \in Nat
      BY CodeFacts DEF LayoutInv
    <2>2. ASSUME NEW d \in 0..code.k - 1
          PROVE  DataPos(d, code.r) \in Positions /\ blocks[DataPos(d, code.r)] = <<"data", d>>
      <3>1. d \in 0..(code.k + Globals) - 1 /\ d < code.k
        BY <2>1, SMT
      <3>. QED
        BY <3>1, BlockPlace DEF Source
    <2>3. ASSUME NEW p \in Positions PROVE RoutedPos(KeySuffix(p)) = p
      <3>1. KeySuffix(p)[1] = p \div 10 /\ KeySuffix(p)[2] = p - (p \div 10) * 10
        BY DEF KeySuffix
      <3>2. p \in Nat
        BY <2>1, SMT DEF Positions
      <3>. QED
        BY <3>1, <3>2, SMT DEF RoutedPos
    <2>4. code.k - 1 \in 0..code.k - 1 /\ LastBlock(code.k, code.r) = DataPos(code.k - 1, code.r)
      <3>1. (code.k - 1) \div code.r \in Nat
        BY <2>1, DivFact, SMT
      <3>. QED
        BY <2>1, <3>1, SMT DEF LastBlock, DataPos
    <2>. QED
      BY <2>2, <2>3, <2>4
  <1>. QED
    BY <1>1, GroupsLaidOut, PTL

(***************************************************************************)
(* Writer and repair agree on the groups: the parity of a group covers     *)
(* exactly the blocks at the group's other positions.                      *)
(***************************************************************************)
THEOREM ParityIsOfGroup ==
    Spec => []ParityCoversGroup
  <1>1. LayoutInv => ParityCoversGroup
    <2>. SUFFICES ASSUME LayoutInv, Done, NEW j \in 0..Groups - 1
                  PROVE  LET lp == ParityPos(j, code.n, code.r)
                         IN  blocks[lp] =
                               Local({blocks[q] : q \in GroupPositions(j, code.n, code.r) \ {lp}})
      BY DEF ParityCoversGroup
    <2>. DEFINE rr == code.r
                lp == ParityPos(j, code.n, rr)
                s == GroupSize(j, code.n, rr)
                b == j * (rr + 1)
                A == {Source(j * rr + x) : x \in 0..s - 2}
                Q == GroupPositions(j, code.n, rr) \ {lp}
    <2>1. /\ code \in Codes /\ ValidCode(code.n, code.k, rr) /\ rr \in Nat /\ Groups \in Nat
      BY CodeFacts DEF LayoutInv
    <2>2. b \in Nat /\ s \in 2..rr + 1 /\ lp = b + s - 1
      BY <2>1, GroupShape DEF Groups
    <2>3. blocks[lp] = Local(A)
      BY <2>1, LaidParity, DoneLaid
    <2>4. Q = (b .. lp) \ {lp}
      BY DEF GroupPositions
    <2>5. ASSUME NEW x \in 0..s - 2 PROVE b + x \in Q /\ blocks[b + x] = Source(j * rr + x)
      <3>1. b + x \in Positions /\ Laid(b + x) = Source(j * rr + x)
        BY <2>1, LaidSource
      <3>2. blocks[b + x] = Laid(b + x)
        BY <3>1, DoneLaid
      <3>. HIDE DEF b, s, lp
      <3>3. b + x \in (b .. lp) \ {lp}
        BY <2>1, <2>2, SMT
      <3>. QED
        BY <2>4, <3>1, <3>2, <3>3
    <2>6. ASSUME NEW q \in Q PROVE \E x \in 0..s - 2 : q = b + x
      <3>. HIDE DEF b, s, lp, Q
      <3>1. q - b \in 0..s - 2 /\ q = b + (q - b)
        BY <2>1, <2>2, <2>4, SMT
      <3>. QED
        BY <3>1
    <2>. HIDE DEF b, s, lp, Q
    <2>7. {blocks[q] : q \in Q} = A
      <3>1. {blocks[q] : q \in Q} \subseteq A
        BY <2>5, <2>6
      <3>2. A \subseteq {blocks[q] : q \in Q}
        BY <2>5
      <3>. QED
        BY <3>1, <3>2
    <2>. QED
      BY <2>3, <2>7 DEF lp, Q
  <1>. QED
    BY <1>1, GroupsLaidOut, PTL

(***************************************************************************)
(* The encoding loop drops no data block and no global parity and stores   *)
(* none of them twice.                                                     *)
(***************************************************************************)
THEOREM PlacedOnce ==
    Spec => []EachBlockPlacedOnce
  <1>1. LayoutInv => EachBlockPlacedOnce
    <2>. DEFINE T == code.k + Globals
    <2>. SUFFICES ASSUME LayoutInv, Done, NEW x \in 0..code.k + Globals - 1
                  PROVE  \E p \in Positions :
                            \A q \in Positions : (blocks[q] = Source(x)) <=> (q = p)
      BY DEF EachBlockPlacedOnce
    <2>0. x \in 0..T - 1
      BY CodeFacts, SMT DEF LayoutInv
    <2>1. /\ code \in Codes /\ ValidCode(code.n, code.k, code.r)
          /\ code.r \in Nat \ {0} /\ Groups \in Nat /\ code.k \in Nat /\ T \in Nat
      BY CodeFacts, SMT DEF LayoutInv
    <2>2. x \in Nat
      BY <2>0, <2>1, SMT
    <2>3. DataPos(x, code.r) \in Positions /\ blocks[DataPos(x, code.r)] = Source(x)
      BY <2>0, BlockPlace
    <2>4. ASSUME NEW q \in Positions, blocks[q] = Source(x) PROVE q = DataPos(x, code.r)
      <3>1. blocks[q] = Laid(q)
        BY DoneLaid
      <3>2. PICK j \in 0..Groups - 1 :
              /\ j = GroupOf(q, code.r)
              /\ \/ q = ParityPos(j, code.n, code.r)
                 \/ \E y \in 0..GroupSize(j, code.n, code.r) - 2 : q = j * (code.r + 1) + y
        BY <2>1, PositionCases
      <3>3. q # ParityPos(j, code.n, code.r)
        <4>1. SUFFICES ASSUME q = ParityPos(j, code.n, code.r) PROVE FALSE
          OBVIOUS
        <4>2. PICK S : Laid(q) = <<"local", S>>
          BY <2>1, <4>1, LaidParity DEF Local
        <4>3. PICK z : Source(x) = <<"data", z>> \/ Source(x) = <<"global", z>>
          BY DEF Source
        <4>4. <<"local", S>> # <<"data", z>> /\ <<"local", S>> # <<"global", z>>
          OBVIOUS
        <4>. QED
          BY <2>4, <3>1, <4>2, <4>3, <4>4, Zenon
      <3>4. PICK y \in 0..GroupSize(j, code.n, code.r) - 2 : q = j * (code.r + 1) + y
        BY <3>2, <3>3
      <3>5. Source(j * code.r + y) = Source(x)
        BY <2>1, <2>4, <3>1, <3>4, LaidSource
      <3>. DEFINE u == j * code.r
      <3>6. u \in Nat /\ j \in Nat /\ j * (code.r + 1) = u + j /\ code.r * j = u
            /\ GroupSize(j, code.n, code.r) \in 2..code.r + 1
        <4>1. j \in Nat /\ code.r * j = u
          BY <2>1, SMT
        <4>. QED
          BY <2>1, <4>1, GroupShape DEF Groups
      <3>. HIDE DEF u
      <3>7. y \in Nat /\ y < code.r
        BY <2>1, <3>6, SMT
      <3>8. u + y \in Nat
        BY <3>6, <3>7, SMT
      <3>9. u + y = x
        BY <2>1, <2>2, <3>5, <3>8, SourceInjective DEF u
      <3>10. code.r * j <= x /\ x < code.r * j + code.r
        BY <2>1, <3>6, <3>7, <3>9, SMT
      <3>11. x \div code.r = j
        BY <2>1, <2>2, <3>6, <3>10, DivUnique
      <3>12. DataPos(x, code.r) = x + j
        BY <3>11 DEF DataPos
      <3>13. q = (u + j) + y
        BY <3>4, <3>6
      <3>. QED
        BY <3>6, <3>7, <3>9, <3>12, <3>13, SMT
    <2>. QED
      BY <2>3, <2>4
  <1>. QED
    BY <1>1, GroupsLaidOut, PTL

(***************************************************************************)
(* No iteration of the encoding loop overwrites a slot that an earlier one *)
(* filled.                                                                 *)
(***************************************************************************)
THEOREM SlotsWrittenOnce ==
    Spec => NothingOverwritten
  <1>1. LayoutInv /\ [Next]_vars =>
            [\A p \in Positions : blocks[p] # Zero => blocks'[p] = blocks[p]]_vars
    <2>. SUFFICES ASSUME LayoutInv, Next, NEW p \in Positions, blocks[p] # Zero
                  PROVE  blocks'[p] = blocks[p]
      OBVIOUS
    <2>1. blocks = BlocksAfter(i) /\ blocks' = BlocksAfter(i + 1)
      BY LayoutStep DEF LayoutInv
    <2>2. GroupOf(p, code.r) < i /\ blocks[p] = Laid(p)
      BY <2>1 DEF BlocksAfter
    <2>3. GroupOf(p, code.r) < i + 1
      <3>1. code \in Codes /\ i \in 0..Groups
        BY DEF LayoutInv
      <3>2. Groups \in Nat
        BY <3>1, CodeFacts
      <3>3. GroupOf(p, code.r) \in 0..Groups - 1
        BY <3>1, PositionCases
      <3>. QED
        BY <2>2, <3>1, <3>2, <3>3, SMT
    <2>. QED
      BY <2>1, <2>2, <2>3 DEF BlocksAfter
  <1>. QED
    BY <1>1, GroupsLaidOut, PTL DEF Spec, NothingOverwritten

(***************************************************************************)
(* A degraded get decodes a data block from exactly the rest of its group, *)
(* unless the block is in a group that the data fills only partly.         *)
(***************************************************************************)
THEOREM DegradedGetIsLocal ==
    Spec => []DegradedGetReadsGroup
  <1>1. LayoutInv => DegradedGetReadsGroup
    <2>. SUFFICES ASSUME LayoutInv, NEW d \in 0..code.k - 1,
                         code.k % code.r = 0 \/ d \div code.r # (code.k - 1) \div code.r
                  PROVE  DecodeSources(d, code.n, code.k, code.r) =
                            GroupPositions(GroupOf(DataPos(d, code.r), code.r), code.n, code.r)
                                \ {DataPos(d, code.r)}
      BY DEF DegradedGetReadsGroup
    <2>1. ValidCode(code.n, code.k, code.r)
      BY CodeFacts DEF LayoutInv
    <2>. QED
      BY <2>1, DecodeSourcesAreGroup, DecodeSourcesOfFullGroup
  <1>. QED
    BY <1>1, GroupsLaidOut, PTL
----------------------------------------------------------------------------
(***************************************************************************)
(* Block sizes.  Rounding up to a multiple of k longs.                     *)
(***************************************************************************)
LEMMA SizeFacts ==
    ASSUME NEW len \in Nat, NEW m \in Nat \ {0}, len + m * LongSize <= SizeT
    PROVE  \E q \in Nat :
              /\ len <= (m * LongSize) * q /\ (m * LongSize) * q < len + m * LongSize
              /\ BlockSize(len, m) = LongSize * q
  <1>. DEFINE w == m * LongSize
              z == len \div w
              t == w * z
  <1>1. w \in Nat \ {0} /\ w = 8 * m
    BY SMT DEF LongSize
  <1>2. z \in Nat /\ t <= len /\ len < t + w /\ len % w = len - t
    <2>. HIDE DEF w
    <2>. QED
      BY <1>1, DivFact, ModFact
  <1>3. t \in Nat
    <2>. HIDE DEF w, z
    <2>. QED
      BY <1>1, <1>2, MulNat
  <1>4. ASSUME NEW q \in Nat PROVE w * q = m * (8 * q) /\ (m * (8 * q)) \div m = 8 * q
    <2>1. w * q = m * (8 * q)
      BY <1>1, SMT
    <2>. DEFINE a == m * (8 * q)
    <2>2. a \in Nat /\ 8 * q \in Nat
      BY SMT
    <2>3. m * (8 * q) <= a /\ a < m * (8 * q) + m
      <3>1. a = m * (8 * q)
        OBVIOUS
      <3>. HIDE DEF a
      <3>. QED
        BY <2>2, <3>1, SMT
    <2>4. a \div m = 8 * q
      <3>. HIDE DEF a
      <3>. QED
        BY <2>2, <2>3, DivUnique
    <2>. QED
      BY <2>1, <2>4
  <1>5. CASE len % w = 0
    <2>1. len = t /\ len = m * (8 * z)
      <3>1. t = m * (8 * z)
        BY <1>2, <1>4
      <3>. HIDE DEF t
      <3>. QED
        BY <1>2, <1>3, <1>5, <3>1, SMT
    <2>2. BlockSize(len, m) = 8 * z
      BY <1>2, <1>4, <1>5, <2>1 DEF BlockSize
    <2>3. len <= w * z /\ w * z < len + w
      <3>. HIDE DEF w, z
      <3>. QED
        BY <1>1, <1>2, <1>3, <2>1
    <2>. QED
      BY <1>2, <2>2, <2>3 DEF LongSize
  <1>6. CASE len % w # 0
    <2>1. w * (z + 1) = t + w
      <3>. HIDE DEF w, z
      <3>. QED
        BY <1>1, <1>2, SMT
    <2>2. len + w - (len % w) = t + w
      <3>. HIDE DEF t, w
      <3>. QED
        BY <1>1, <1>2, <1>3, SMT
    <2>3. z + 1 \in Nat /\ w * (z + 1) = m * (8 * (z + 1))
      BY <1>2, <1>4
    <2>4. BlockSize(len, m) = 8 * (z + 1)
      <3>1. BlockSize(len, m) = (len + w - (len % w)) \div m
        <4>1. t + w \in Nat /\ t + w < SizeT
          <5>1. len # t
            <6>. HIDE DEF t, w
            <6>. QED
              BY <1>2, <1>3, <1>6, SMT
          <5>2. len + w <= SizeT
            OBVIOUS
          <5>. HIDE DEF t, w
          <5>. QED
            BY <1>1, <1>2, <1>3, <5>1, <5>2, SizeAssumption, SMT
        <4>2. (t + w) % SizeT = t + w
          <5>. DEFINE a == t + w
          <5>. HIDE DEF a
          <5>1. a % SizeT = a
            BY <4>1, SizeAssumption, SMT DEF a
          <5>. QED
            BY <5>1 DEF a
        <4>3. BlockSize(len, m) = ((len + w - (len % w)) % SizeT) \div m
          BY <1>6 DEF BlockSize
        <4>. HIDE DEF t, w
        <4>. QED
          BY <2>2, <4>2, <4>3
      <3>2. BlockSize(len, m) = (m * (8 * (z + 1))) \div m
        <4>. HIDE DEF t, w, z
        <4>. QED
          BY <2>1, <2>2, <2>3, <3>1
      <3>. QED
        BY <1>4, <2>3, <3>2
    <2>5. len <= w * (z + 1) /\ w * (z + 1) < len + w
      <3>1. t # len
        <4>. HIDE DEF t, w
        <4>. QED
          BY <1>2, <1>3, <1>6, SMT
      <3>. HIDE DEF t, w, z
      <3>. QED
        BY <1>1, <1>2, <1>3, <2>1, <3>1, SMT
    <2>. QED
      BY <2>3, <2>4, <2>5 DEF LongSize
  <1>. QED
    BY <1>5, <1>6

(***************************************************************************)
(* Cutting a value into m data blocks (determine_block_size_rs and         *)
(* last_data_request_size): a block is a whole number of longs, the m      *)
(* blocks hold the whole value, and for every value of at least m(m-1)     *)
(* longs, and the empty one, the size of the last block does not wrap      *)
(* around: the m-1 blocks a get copies in full and the shorter last one    *)
(* are together the length of the value, whatever the length is.           *)
(***************************************************************************)
THEOREM SizesAddUp ==
    ASSUME NEW len \in Nat, NEW m \in Nat \ {0}, len + m * LongSize <= SizeT
    PROVE  /\ BlockSize(len, m) \in Nat /\ BlockSize(len, m) % LongSize = 0
           /\ len <= m * BlockSize(len, m)
           /\ len = 0 \/ len >= LongSize * m * (m - 1) =>
                 /\ LastSize(len, m) \in 0..BlockSize(len, m)
                 /\ BlockSize(len, m) * (m - 1) + LastSize(len, m) = len
  <1>. DEFINE w == m * LongSize
              s == BlockSize(len, m)
  <1>1. PICK q \in Nat : len <= w * q /\ w * q < len + w /\ s = LongSize * q
    BY SizeFacts
  <1>. HIDE DEF s
  <1>2. w \in Nat \ {0} /\ w = 8 * m /\ s = 8 * q /\ s \in Nat
    BY <1>1, SMT DEF LongSize
  <1>3. s % LongSize = 0
    BY <1>2, SMT DEF LongSize
  <1>4. w * q = m * s /\ w * q \in Nat
    <2>1. w * q = m * (8 * q)
      BY <1>2, SMT
    <2>2. w * q \in Nat
      <3>. HIDE DEF w
      <3>. QED
        BY <1>2, MulNat
    <2>. QED
      BY <1>2, <2>1, <2>2
  <1>5. s * (m - 1) = (m * s) - s
    BY <1>2, SMT
  <1>6. ASSUME len = 0 \/ len >= LongSize * m * (m - 1) PROVE s * (m - 1) <= len
    <2>. DEFINE v == w * (m - 1)
                y == w * q
    <2>1. LongSize * m * (m - 1) = v
      BY SMT DEF LongSize
    <2>2. v \in Nat
      <3>1. m - 1 \in Nat
        BY SMT
      <3>. HIDE DEF w
      <3>. QED
        BY <1>2, <3>1, MulNat
    <2>3. CASE len = 0
      <3>1. q = 0
        <4>1. q # 0 => w * 1 <= w * q
          <5>. HIDE DEF w
          <5>. QED
            BY <1>2, MulMono, SMT
        <4>. HIDE DEF w
        <4>. QED
          BY <1>1, <1>2, <1>4, <2>3, <4>1, SMT
      <3>2. s = 0
        BY <1>2, <3>1, SMT
      <3>. QED
        BY <2>3, <3>2, SMT
    <2>4. CASE len >= v /\ q >= m
      <3>1. s >= w
        BY <1>2, <2>4, SMT
      <3>2. y <= len + w
        BY <1>1, <1>2, <1>4, SMT
      <3>3. s * (m - 1) = y - s
        BY <1>4, <1>5
      <3>. HIDE DEF y, w
      <3>. QED
        BY <1>1, <1>2, <1>4, <3>1, <3>2, <3>3, SMT DEF y
    <2>5. CASE len >= v /\ q <= m - 1
      <3>1. m - 1 \in Nat
        BY SMT
      <3>2. y <= v
        <4>. HIDE DEF w
        <4>. QED
          BY <1>2, <2>5, <3>1, MulMono
      <3>3. s * (m - 1) = y - s /\ y \in Nat
        BY <1>4, <1>5
      <3>. HIDE DEF y, v, w
      <3>. QED
        BY <1>2, <2>2, <2>5, <3>2, <3>3, SMT
    <2>6. q >= m \/ q <= m - 1
      BY SMT
    <2>. QED
      BY <1>6, <2>1, <2>3, <2>4, <2>5, <2>6
  <1>7. ASSUME s * (m - 1) <= len
        PROVE  LastSize(len, m) \in 0..s /\ s * (m - 1) + LastSize(len, m) = len
    <2>. DEFINE f == s * (m - 1)
                x == len - f
    <2>1. f \in Nat /\ f <= len
      <3>1. m - 1 \in Nat
        BY SMT
      <3>. QED
        BY <1>2, <1>7, <3>1, MulNat
    <2>2. len <= f + s
      <3>. DEFINE y == w * q
      <3>1. f = y - s /\ y \in Nat /\ len <= y
        BY <1>1, <1>4, <1>5
      <3>. HIDE DEF f, y
      <3>. QED
        BY <1>2, <3>1, SMT
    <2>7. len < SizeT
      BY <1>2, SizeAssumption, SMT
    <2>3. x \in 0..s /\ x < SizeT /\ f + x = len /\ x \in Nat
      <3>. HIDE DEF f
      <3>. QED
        BY <1>2, <2>1, <2>2, <2>7, SizeAssumption, SMT
    <2>4. x % SizeT = x
      <3>. HIDE DEF x
      <3>. QED
        BY <2>3, SizeAssumption, SMT
    <2>5. LastSize(len, m) = x
      BY <2>4 DEF LastSize, s
    <2>. QED
      BY <2>3, <2>5
  <1>8. len <= m * s
    BY <1>1, <1>4
  <1>. QED
    BY <1>2, <1>3, <1>6, <1>7, <1>8 DEF s

----------------------------------------------------------------------------
(***************************************************************************)
(* A non-empty set of naturals has a smallest element: what induction over *)
(* the turns of a loop is done with.                                       *)
(***************************************************************************)
LEMMA MinExists ==
    ASSUME NEW S \in SUBSET Nat, S # {}
    PROVE  \E x \in S : \A y \in S : x <= y
  <1>1. \E x \in S : \A y \in S : ~(<<y, x>> \in OpToRel(<, Nat))
    BY NatLessThanWellFounded, WFMin, Zenon
  <1>2. PICK x \in S : \A y \in S : ~(y < x)
    BY <1>1 DEF OpToRel
  <1>. QED
    BY <1>2

(***************************************************************************)
(* What fill_data_ptrs leaves.  bytes_remained before each turn of its     *)
(* loop is a recursive function: Fills is its equation, Left its solution. *)
(***************************************************************************)
Fills(f, len, s, m) ==
    f = [x \in 0..m |-> IF x = 0 THEN len
                        ELSE IF s <= f[x - 1] THEN f[x - 1] - s ELSE 0]

Left(len, s, m) == [x \in 0..m |-> IF x < m THEN len - s * x ELSE 0]

\* The closed form solves the equation, so that the recursive function exists ...
LEMMA LeftFills ==
    ASSUME NEW len \in Nat, NEW s \in Nat, NEW m \in Nat \ {0},
           s * (m - 1) <= len, len <= s * m
    PROVE  Fills(Left(len, s, m), len, s, m)
  <1>. DEFINE g == Left(len, s, m)
  <1>1. ASSUME NEW x \in 0..m, x # 0
        PROVE  g[x] = IF s <= g[x - 1] THEN g[x - 1] - s ELSE 0
    <2>. DEFINE b == s * (x - 1)
                t == s * x
                u == s * (m - 1)
    <2>1. /\ x \in Nat /\ x - 1 \in Nat /\ m - 1 \in Nat
          /\ x - 1 \in 0..m /\ x - 1 < m /\ x - 1 <= m - 1
      BY <1>1
    <2>2. b \in Nat /\ t \in Nat /\ u \in Nat /\ t = b + s
      <3>1. t = b + s
        BY <2>1, SMT
      <3>. QED
        BY <2>1, <3>1, MulNat
    <2>3. b <= u /\ u <= len /\ len <= u + s
      <3>1. b <= u
        BY <2>1, MulMono
      <3>2. s * m = u + s
        BY SMT
      <3>. QED
        BY <3>1, <3>2
    <2>4. g[x - 1] = len - b
      BY <2>1 DEF Left
    <2>5. CASE x < m
      <3>1. g[x] = len - t
        BY <1>1, <2>5 DEF Left
      <3>2. t <= u
        BY <2>1, <2>5, MulMono
      <3>. HIDE DEF b, t, u, g
      <3>. QED
        BY <2>2, <2>3, <2>4, <3>1, <3>2
    <2>6. CASE x = m
      <3>1. g[x] = 0
        BY <1>1, <2>6 DEF Left
      <3>2. b = u
        BY <2>6
      <3>. HIDE DEF b, t, u, g
      <3>. QED
        BY <2>2, <2>3, <2>4, <3>1, <3>2
    <2>. QED
      BY <1>1, <2>5, <2>6
  <1>2. g[0] = len
    <2>1. s * 0 = 0
      BY SMT
    <2>. QED
      BY <2>1 DEF Left
  <1>3. g = [x \in 0..m |-> IF x = 0 THEN len ELSE IF s <= g[x - 1] THEN g[x - 1] - s ELSE 0]
    <2>1. g = [x \in 0..m |-> g[x]]
      BY DEF Left
    <2>. HIDE DEF g
    <2>. QED
      BY <1>1, <1>2, <2>1
  <1>. HIDE DEF g
  <1>4. Fills(g, len, s, m)
    BY <1>3 DEF Fills
  <1>. QED
    BY <1>4 DEF g

\* ... and it is the only solution: two could not differ at a smallest turn.
LEMMA FillsUnique ==
    ASSUME NEW len \in Nat, NEW s \in Nat, NEW m \in Nat, NEW f, NEW g,
           Fills(f, len, s, m), Fills(g, len, s, m)
    PROVE  f = g
  <1>. DEFINE S == {x \in 0..m : f[x] # g[x]}
  <1>1. S = {}
    <2>. SUFFICES ASSUME S # {} PROVE FALSE
      OBVIOUS
    <2>1. S \in SUBSET Nat
      OBVIOUS
    <2>2. PICK x \in S : \A y \in S : x <= y
      <3>. HIDE DEF S
      <3>. QED
        BY <2>1, MinExists
    <2>3. x \in 0..m /\ f[x] # g[x]
      OBVIOUS
    <2>4. x = 0 => f[x] = g[x]
      BY <2>3 DEF Fills
    <2>5. x # 0 => x - 1 \in 0..m /\ x - 1 \notin S
      BY <2>2, <2>3
    <2>6. x # 0 => f[x - 1] = g[x - 1]
      BY <2>5
    <2>7. x # 0 => f[x] = g[x]
      BY <2>3, <2>6 DEF Fills
    <2>. QED
      BY <2>3, <2>4, <2>7
  <1>2. f = [x \in 0..m |-> f[x]] /\ g = [x \in 0..m |-> g[x]]
    BY DEF Fills
  <1>. QED
    BY <1>1, <1>2

\* bytes_remained, for a value that fills all its blocks but the last.
LEMMA RemainedIs ==
    ASSUME NEW len \in Nat, NEW m \in Nat \ {0}, BlockSize(len, m) \in Nat,
           BlockSize(len, m) * (m - 1) <= len, len <= BlockSize(len, m) * m
    PROVE  Remained(len, m) = Left(len, BlockSize(len, m), m)
  <1>. DEFINE s == BlockSize(len, m)
              f == CHOOSE h : Fills(h, len, s, m)
  <1>1. Fills(Left(len, s, m), len, s, m)
    <2>1. s \in Nat /\ s * (m - 1) <= len /\ len <= s * m
      OBVIOUS
    <2>. HIDE DEF s
    <2>. QED
      BY <2>1, LeftFills
  <1>2. Fills(f, len, s, m)
    BY <1>1
  <1>3. f = Left(len, s, m)
    <2>1. s \in Nat
      OBVIOUS
    <2>. HIDE DEF s, f
    <2>. QED
      BY <1>1, <1>2, <2>1, FillsUnique
  <1>4. Remained(len, m) = [x \in 0..m |-> f[x]]
    BY DEF Remained, Fills
  <1>5. f = [x \in 0..m |-> f[x]]
    BY <1>3 DEF Left
  <1>. QED
    BY <1>3, <1>4, <1>5

(***************************************************************************)
(* What fill_data_ptrs puts into the m blocks is what a get copies out of  *)
(* them, and no byte of the value is left over.                            *)
(***************************************************************************)
LEMMA CutIsReassembled ==
    ASSUME NEW len \in Nat, NEW m \in Nat \ {0}, len + m * LongSize <= SizeT,
           len = 0 \/ len >= LongSize * m * (m - 1)
    PROVE  Reassembles(len, m)
  <1>. DEFINE s == BlockSize(len, m)
              last == LastSize(len, m)
              u == s * (m - 1)
  <1>1. s \in Nat /\ len <= m * s /\ last \in 0..s /\ u + last = len
    BY SizesAddUp
  <1>2. m - 1 \in Nat /\ u \in Nat /\ u <= len /\ len <= s * m
    <2>1. m - 1 \in Nat
      BY SMT
    <2>. HIDE DEF s, last
    <2>2. u \in Nat
      BY <1>1, <2>1, MulNat
    <2>3. s * m = m * s
      BY <1>1, SMT
    <2>. HIDE DEF u
    <2>. QED
      BY <1>1, <2>1, <2>2, <2>3
  <1>3. Remained(len, m) = Left(len, s, m)
    BY <1>1, <1>2, RemainedIs
  <1>. HIDE DEF s, last
  <1>4. ASSUME NEW x \in 0..m - 1
        PROVE  Left(len, s, m)[x] - Left(len, s, m)[x + 1] = IF x < m - 1 THEN s ELSE last
    <2>1. x \in 0..m /\ x + 1 \in 0..m /\ x < m /\ x \in Nat
      OBVIOUS
    <2>2. Left(len, s, m)[x] = len - s * x
      BY <2>1 DEF Left
    <2>3. CASE x < m - 1
      <3>1. Left(len, s, m)[x + 1] = len - s * (x + 1)
        BY <2>1, <2>3 DEF Left
      <3>2. s * (x + 1) = s * x + s /\ s * x \in Nat
        BY <1>1, <2>1, MulNat, SMT
      <3>. DEFINE y == s * x
      <3>. HIDE DEF y
      <3>3. (len - y) - (len - (y + s)) = s
        BY <1>1, <3>2, SMT DEF y
      <3>. QED
        BY <2>2, <2>3, <3>1, <3>2, <3>3 DEF y
    <2>4. CASE x = m - 1
      <3>1. Left(len, s, m)[x + 1] = 0
        BY <2>1, <2>4 DEF Left
      <3>2. len - s * x = last
        <4>1. s * x = u
          BY <2>4
        <4>. HIDE DEF u
        <4>. QED
          BY <1>1, <1>2, <4>1
      <3>. QED
        BY <1>1, <2>2, <2>4, <3>1, <3>2
    <2>. QED
      BY <2>3, <2>4
  <1>5. Left(len, s, m)[m] = 0
    BY DEF Left
  <1>6. Copied(len, m) = Filled(len, m)
    <2>1. Copied(len, m) = [x \in 0..m - 1 |-> IF x < m - 1 THEN s ELSE last]
      BY DEF Copied, s, last
    <2>2. Filled(len, m) = [x \in 0..m - 1 |-> Left(len, s, m)[x] - Left(len, s, m)[x + 1]]
      BY <1>3 DEF Filled
    <2>. QED
      BY <1>4, <2>1, <2>2
  <1>. QED
    BY <1>3, <1>5, <1>6 DEF Reassembles

(***************************************************************************)
(* A get puts together, byte by byte, what a set has cut up: the invariant *)
(* ValuesReassemble, for values of every length.                           *)
(***************************************************************************)
THEOREM ValuesComeBack == Spec => []ValuesReassemble
  <1>1. LayoutInv => ValuesReassemble
    <2>. SUFFICES ASSUME LayoutInv, NEW len \in Lengths
         PROVE  /\ BlockSize(len, k) % LongSize = 0
                /\ len = 0 \/ len >= LongSize * k * (k - 1) => Reassembles(len, k)
      BY DEF ValuesReassemble
    <2>1. k \in Nat \ {0} /\ k <= MaxNodes
      <3>1. code \in Codes
        BY DEF LayoutInv
      <3>2. code.k \in 1..MaxNodes
        BY <3>1, CodesAssumption
      <3>. QED
        BY <3>2, SMT DEF k, MaxNodes
    <2>2. len \in Nat /\ len + k * LongSize <= SizeT
      BY <2>1, LengthsAssumption, SizeAssumption, SMT DEF LongSize, MaxNodes
    <2>. QED
      BY <2>1, <2>2, SizesAddUp, CutIsReassembled
  <1>. QED
    BY <1>1, GroupsLaidOut, PTL

----------------------------------------------------------------------------
\* A product with the next number.
LEMMA MulNext ==
    ASSUME NEW a \in Nat, NEW b \in Nat
    PROVE  a * (b + 1) = a * b + a
  BY SMT

(***************************************************************************)
(* Counting: an injection bounds the number of elements, a bijection       *)
(* gives it.                                                               *)
(***************************************************************************)
LEMMA CountByInjection ==
    ASSUME NEW S, NEW T, IsFiniteSet(T), NEW f \in [S -> T],
           \A x, y \in S : f[x] = f[y] => x = y
    PROVE  IsFiniteSet(S) /\ Cardinality(S) <= Cardinality(T)
  <1>1. f \in Injection(S, T)
    BY DEF Injection, IsInjective
  <1>. QED
    BY <1>1, FS_Injection

\* The same for as many.
LEMMA CountByBijection ==
    ASSUME NEW S, NEW T, IsFiniteSet(T), NEW f \in [S -> T],
           \A x, y \in S : f[x] = f[y] => x = y,
           \A z \in T : \E x \in S : f[x] = z
    PROVE  IsFiniteSet(S) /\ Cardinality(S) = Cardinality(T)
  <1>1. f \in Injection(S, T)
    BY DEF Injection, IsInjective
  <1>2. f \in Surjection(S, T)
    BY DEF Surjection
  <1>. QED
    BY <1>1, <1>2, FS_Injection

----------------------------------------------------------------------------
(***************************************************************************)
(* The order of the node list is a total order, and the index of a block   *)
(* in a list determines the block.                                         *)
(***************************************************************************)
Names == {"D", "L", "G"} \X Nat

\* The order of the list of nodes is a total one ...
LEMMA BeforeIsOrder ==
    ASSUME NEW x \in Names, NEW y \in Names
    PROVE  /\ ~Before(x, x)
           /\ x = y \/ Before(x, y) \/ Before(y, x)
           /\ \A z \in Names : Before(z, x) /\ Before(x, y) => Before(z, y)
  <1>1. \A z \in Names : /\ z = <<z[1], z[2]>> /\ z[2] \in Nat /\ z[1] \in {"D", "L", "G"}
                         /\ z[1] = "D" => Letter(z) = 0
                         /\ z[1] = "L" => Letter(z) = 1
                         /\ z[1] = "G" => Letter(z) = 2
    BY DEF Names, Letter
  <1>2. \A z \in Names : Letter(z) \in Nat
    BY <1>1
  <1>3. \A z, w \in Names : Letter(z) = Letter(w) => z[1] = w[1]
    BY <1>1
  <1>4. ~Before(x, x)
    BY <1>1, <1>2, SMT DEF Before
  <1>5. x = y \/ Before(x, y) \/ Before(y, x)
    <2>1. CASE x[1] = y[1]
      <3>1. CASE x[2] = y[2]
        BY <1>1, <2>1, <3>1
      <3>2. CASE x[2] # y[2]
        <4>1. x[2] \in Nat /\ y[2] \in Nat
          BY <1>1
        <4>. QED
          BY <2>1, <3>2, <4>1, SMT DEF Before
      <3>. QED
        BY <3>1, <3>2
    <2>2. CASE x[1] # y[1]
      <3>1. Letter(x) # Letter(y) /\ Letter(x) \in Nat /\ Letter(y) \in Nat
        BY <1>2, <1>3, <2>2
      <3>. QED
        BY <3>1, SMT DEF Before
    <2>. QED
      BY <2>1, <2>2
  <1>6. ASSUME NEW z \in Names, Before(z, x), Before(x, y) PROVE Before(z, y)
    <2>1. /\ Letter(x) \in Nat /\ Letter(y) \in Nat /\ Letter(z) \in Nat
          /\ x[2] \in Nat /\ y[2] \in Nat /\ z[2] \in Nat
      BY <1>1, <1>2
    <2>2. /\ z[1] = x[1] => Letter(z) = Letter(x)
          /\ x[1] = y[1] => Letter(x) = Letter(y)
      BY <1>1
    <2>. QED
      BY <1>6, <2>1, <2>2, SMT DEF Before
  <1>. QED
    BY <1>4, <1>5, <1>6

\* ... so the indices of different nodes differ.
LEMMA RankIsIndex ==
    ASSUME NEW S, IsFiniteSet(S), S \subseteq Names, NEW x \in S
    PROVE  /\ Rank(x, S) \in Nat
           /\ \A y \in S : Before(x, y) => Rank(x, S) < Rank(y, S)
           /\ \A y \in S : Rank(x, S) = Rank(y, S) => x = y
  <1>. DEFINE U(y) == {z \in S : Before(z, y)}
  <1>1. \A y \in S : /\ IsFiniteSet(U(y)) /\ Cardinality(U(y)) \in Nat
                     /\ Rank(y, S) = Cardinality(U(y))
    <2>. SUFFICES ASSUME NEW y \in S
                  PROVE  /\ IsFiniteSet(U(y)) /\ Cardinality(U(y)) \in Nat
                         /\ Rank(y, S) = Cardinality(U(y))
      OBVIOUS
    <2>1. U(y) \in SUBSET S
      OBVIOUS
    <2>2. IsFiniteSet(U(y))
      BY <2>1, FS_Subset
    <2>. QED
      BY <2>2, FS_CardinalityType DEF Rank
  <1>2. ASSUME NEW v \in S, NEW w \in S, Before(v, w) PROVE Rank(v, S) < Rank(w, S)
    <2>1. U(v) \in SUBSET U(w)
      BY <1>2, BeforeIsOrder
    <2>2. v \in U(w) /\ v \notin U(v)
      BY <1>2, BeforeIsOrder
    <2>3. Cardinality(U(v)) <= Cardinality(U(w)) /\ Cardinality(U(w)) # Cardinality(U(v))
      BY <1>1, <2>1, <2>2, FS_Subset
    <2>4. Cardinality(U(v)) \in Nat /\ Cardinality(U(w)) \in Nat
      BY <1>1
    <2>5. Rank(v, S) = Cardinality(U(v)) /\ Rank(w, S) = Cardinality(U(w))
      BY <1>1
    <2>. HIDE DEF U
    <2>. QED
      BY <2>3, <2>4, <2>5, SMT
  <1>3. ASSUME NEW y \in S, Rank(x, S) = Rank(y, S) PROVE x = y
    <2>1. x = y \/ Before(x, y) \/ Before(y, x)
      BY BeforeIsOrder
    <2>2. ~(Rank(x, S) < Rank(y, S)) /\ ~(Rank(y, S) < Rank(x, S))
      <3>1. Rank(x, S) \in Nat /\ Rank(y, S) \in Nat
        BY <1>1
      <3>. QED
        BY <1>3, <3>1, SMT
    <2>. QED
      BY <1>2, <2>1, <2>2
  <1>. QED
    BY <1>1, <1>2, <1>3

(***************************************************************************)
(* A list cut into slices of b: every block is in one of them, and none is *)
(* longer than b.                                                          *)
(***************************************************************************)
LEMMA SlicesCut ==
    ASSUME NEW S, IsFiniteSet(S), S \subseteq Names, NEW b \in Nat \ {0}
    PROVE  Survivable(Slices(S, b), S, b)
  <1>. DEFINE at(y) == Rank(y, S) \div b
              slice(c) == {y \in S : at(y) = c}
              T == Slices(S, b)
  <1>1. T = {slice(c) : c \in {at(x) : x \in S}}
    BY DEF Slices
  <1>2. \A y \in S : Rank(y, S) \in Nat /\ at(y) \in Nat
    BY RankIsIndex, DivFact
  <1>. HIDE DEF T
  <1>3. UNION T = S
    BY <1>1
  <1>4. ASSUME NEW q \in T, NEW s \in T PROVE q = s \/ q \cap s = {}
    <2>1. PICK x \in S : q = slice(at(x))
      BY <1>1
    <2>2. PICK y \in S : s = slice(at(y))
      BY <1>1
    <2>. HIDE DEF at
    <2>. QED
      BY <2>1, <2>2
  <1>5. ASSUME NEW q \in T PROVE Cardinality(q) <= b
    <2>1. PICK x \in S : q = slice(at(x))
      BY <1>1, <1>5
    <2>. DEFINE m == b * at(x)
                f == [y \in q |-> Rank(y, S) - m]
    <2>2. m \in Nat
      BY <1>2, <2>1, MulNat
    <2>3. \A y \in q : Rank(y, S) - m \in 0..b - 1
      <3>. SUFFICES ASSUME NEW y \in q PROVE Rank(y, S) - m \in 0..b - 1
        OBVIOUS
      <3>1. at(y) = at(x) /\ Rank(y, S) \in Nat
        BY <1>2, <2>1
      <3>2. b * at(y) <= Rank(y, S) /\ Rank(y, S) < b * at(y) + b
        BY <3>1, DivFact
      <3>3. m <= Rank(y, S) /\ Rank(y, S) < m + b
        BY <3>1, <3>2
      <3>. HIDE DEF m
      <3>. QED
        BY <2>2, <3>1, <3>3, SMT
    <2>. HIDE DEF m
    <2>4. f \in [q -> 0..b - 1]
      BY <2>3
    <2>5. \A y, z \in q : f[y] = f[z] => y = z
      <3>. SUFFICES ASSUME NEW y \in q, NEW z \in q, f[y] = f[z] PROVE y = z
        OBVIOUS
      <3>1. y \in S /\ z \in S /\ Rank(y, S) \in Nat /\ Rank(z, S) \in Nat
        BY <1>2, <2>1
      <3>2. Rank(y, S) - m = Rank(z, S) - m
        OBVIOUS
      <3>3. Rank(y, S) = Rank(z, S)
        BY <2>2, <3>1, <3>2, SMT
      <3>. QED
        BY <3>1, <3>3, RankIsIndex
    <2>6. IsFiniteSet(0..b - 1) /\ Cardinality(0..b - 1) = b
      BY FS_Interval, SMT
    <2>. HIDE DEF f
    <2>. QED
      BY <2>4, <2>5, <2>6, CountByInjection
  <1>. QED
    BY <1>3, <1>4, <1>5 DEF Survivable, T

\* Every group j in J, where g gives the group of a block, cut into slices.
GroupSlices(S, g, J, b) == UNION {Slices({x \in S : g[x] = j}, b) : j \in J}

(***************************************************************************)
(* The same for the slices of every group.                                 *)
(***************************************************************************)
LEMMA GroupsCut ==
    ASSUME NEW S, IsFiniteSet(S), S \subseteq Names, NEW b \in Nat \ {0},
           NEW J, NEW g \in [S -> J]
    PROVE  Survivable(GroupSlices(S, g, J, b), S, b)
  <1>. DEFINE part(j) == {x \in S : g[x] = j}
              T(j) == Slices(part(j), b)
              racks == UNION {T(j) : j \in J}
  <1>1. ASSUME NEW j \in J
        PROVE  /\ UNION T(j) = part(j)
               /\ \A q \in T(j) : Cardinality(q) <= b
               /\ \A q, s \in T(j) : q = s \/ q \cap s = {}
    <2>1. part(j) \in SUBSET S
      OBVIOUS
    <2>2. IsFiniteSet(part(j)) /\ part(j) \subseteq Names
      BY <2>1, FS_Subset
    <2>. HIDE DEF part
    <2>3. Survivable(Slices(part(j), b), part(j), b)
      BY <2>2, SlicesCut
    <2>. QED
      BY <2>3 DEF Survivable
  <1>. HIDE DEF T
  <1>2. UNION racks = S
    BY <1>1
  <1>3. \A q \in racks : Cardinality(q) <= b
    BY <1>1
  <1>4. \A q, s \in racks : q = s \/ q \cap s = {}
    <2>. SUFFICES ASSUME NEW j \in J, NEW h \in J, NEW q \in T(j), NEW s \in T(h)
                  PROVE  q = s \/ q \cap s = {}
      OBVIOUS
    <2>1. CASE j = h
      BY <1>1, <2>1
    <2>2. CASE j # h
      <3>1. q \subseteq part(j) /\ s \subseteq part(h)
        BY <1>1
      <3>2. part(j) \cap part(h) = {}
        BY <2>2
      <3>. QED
        BY <3>1, <3>2
    <2>. QED
      BY <2>1, <2>2
  <1>. QED
    BY <1>2, <1>3, <1>4 DEF Survivable, GroupSlices, T

----------------------------------------------------------------------------
(***************************************************************************)
(* The simulator's name for position p, and the position of a name.        *)
(***************************************************************************)
NodeOf(p) ==
    LET j == GroupOf(p, code.r)
    IN  IF p = ParityPos(j, code.n, code.r) THEN <<"L", j>>
        ELSE IF p - j < code.k THEN <<"D", p - j>> ELSE <<"G", (p - j) - code.k>>

NodePlace(x) ==
    IF x[1] = "L" THEN ParityPos(x[2], code.n, code.r)
    ELSE IF x[1] = "D" THEN DataPos(x[2], code.r) ELSE DataPos(code.k + x[2], code.r)

OurNames == OurNodes(code.n, code.k, code.r)

(***************************************************************************)
(* What the simulator names.                                               *)
(***************************************************************************)
LEMMA NamesAre ==
    ASSUME code \in Codes
    PROVE  /\ CeilDiv(code.n, code.r + 1) = Groups
           /\ OurNames = ({"D"} \X (0..code.k - 1)) \cup ({"L"} \X (0..Groups - 1))
                            \cup ({"G"} \X (0..Globals - 1))
           /\ OurNames \subseteq Names
  <1>1. /\ code.n \in Nat \ {0} /\ code.k \in Nat \ {0} /\ code.r \in Nat \ {0}
        /\ Groups \in Nat \ {0} /\ Globals \in Nat
    BY CodeFacts
  <1>2. code.n + (code.r + 1) - 1 = code.n + code.r
    BY <1>1, SMT
  <1>3. CeilDiv(code.n, code.r + 1) = Groups
    BY <1>2 DEF CeilDiv, Groups, LocalGroups
  <1>4. code.n - Groups - code.k = Globals
    BY DEF Globals, GlobalParities, Groups
  <1>5. OurNames = ({"D"} \X (0..code.k - 1)) \cup ({"L"} \X (0..Groups - 1))
                      \cup ({"G"} \X (0..Globals - 1))
    BY <1>3, <1>4 DEF OurNames, OurNodes, NodeNames
  <1>6. 0..code.k - 1 \subseteq Nat /\ 0..Groups - 1 \subseteq Nat /\ 0..Globals - 1 \subseteq Nat
    BY <1>1, SMT
  <1>. QED
    BY <1>3, <1>5, <1>6 DEF Names

(***************************************************************************)
(* Every position has a name of its own, in the group of the position.     *)
(***************************************************************************)
LEMMA NodeOfFacts ==
    ASSUME code \in Codes, NEW p \in Positions
    PROVE  /\ NodeOf(p) \in OurNames
           /\ NodePlace(NodeOf(p)) = p
           /\ SimCovers => OurGroup(NodeOf(p), code.k, code.r) = GroupOf(p, code.r)
  <1>1. /\ ValidCode(code.n, code.k, code.r)
        /\ code.n \in Nat \ {0} /\ code.k \in Nat \ {0} /\ code.r \in Nat \ {0}
        /\ Groups \in Nat \ {0} /\ Globals \in Nat
        /\ code.k + Globals = code.n - Groups /\ code.n <= 20
    BY CodeFacts DEF MaxNodes
  <1>2. PICK j \in 0..Groups - 1 :
          /\ j = GroupOf(p, code.r)
          /\ \/ p = ParityPos(j, code.n, code.r)
             \/ \E x \in 0..GroupSize(j, code.n, code.r) - 2 : p = j * (code.r + 1) + x
    BY PositionCases
  <1>. DEFINE u == j * code.r
              s == GroupSize(j, code.n, code.r)
  <1>3. /\ j * (code.r + 1) = u + j /\ j \in Nat /\ u \in Nat
        /\ s \in 2..code.r + 1 /\ u + s - 1 <= code.n - Groups
        /\ j * (code.r + 1) <= p /\ p <= code.n - 1
    <2>1. j \in 0..LocalGroups(code.n, code.r) - 1 /\ p \in 0..code.n - 1
      BY DEF Groups, Positions
    <2>2. /\ j * (code.r + 1) = u + j /\ j \in Nat /\ u \in Nat
          /\ s \in 2..code.r + 1 /\ u + s - 1 <= code.n - Groups
      BY <1>1, <2>1, GroupShape DEF Groups
    <2>3. j * (code.r + 1) <= p
      BY <1>1, <1>2, <2>1, GroupOfRange
    <2>4. p <= code.n - 1
      BY <1>1, <2>1, SMT
    <2>. QED
      BY <2>2, <2>3, <2>4
  <1>4. j < 10
    <2>1. j * 1 <= j * code.r
      BY <1>1, <1>3, MulMono, SMT
    <2>2. j <= u
      BY <1>3, <2>1, SMT
    <2>. DEFINE b == j * (code.r + 1)
    <2>3. b = u + j /\ b <= p /\ p <= code.n - 1 /\ p \in Nat
      BY <1>1, <1>3, SMT DEF Positions
    <2>. HIDE DEF u, b
    <2>. QED
      BY <1>1, <1>3, <2>2, <2>3, SMT
  <1>5. CASE p = ParityPos(j, code.n, code.r)
    <2>1. NodeOf(p) = <<"L", j>>
      BY <1>2, <1>5 DEF NodeOf
    <2>2. FirstDigit(j) = j
      BY <1>4 DEF FirstDigit
    <2>3. OurGroup(<<"L", j>>, code.k, code.r) = j
      BY <2>2 DEF OurGroup
    <2>4. NodePlace(<<"L", j>>) = p
      BY <1>5 DEF NodePlace
    <2>5. <<"L", j>> \in OurNames
      BY NamesAre
    <2>. QED
      BY <1>2, <2>1, <2>3, <2>4, <2>5
  <1>6. CASE \E x \in 0..s - 2 : p = j * (code.r + 1) + x
    <2>1. PICK x \in 0..s - 2 : p = j * (code.r + 1) + x
      BY <1>6
    <2>. DEFINE y == u + x
    <2>2. p # ParityPos(j, code.n, code.r)
      BY <2>1, LaidSource
    <2>. HIDE DEF u, s
    <2>3. /\ y \in Nat /\ y < code.k + Globals
          /\ u <= y /\ y < u + code.r /\ p - j = y /\ p = y + j
      BY <1>1, <1>3, <2>1, SMT
    <2>4. y \div code.r = j
      <3>1. code.r * j = u
        BY <1>1, <1>3, SMT DEF u
      <3>. HIDE DEF y
      <3>. QED
        BY <1>1, <1>3, <2>3, <3>1, DivUnique
    <2>. HIDE DEF y
    <2>5. DataPos(y, code.r) = p
      BY <2>3, <2>4 DEF DataPos
    <2>6. CASE y < code.k
      <3>1. NodeOf(p) = <<"D", y>>
        BY <1>2, <2>2, <2>3, <2>6 DEF NodeOf
      <3>2. OurGroup(<<"D", y>>, code.k, code.r) = j
        BY <2>4 DEF OurGroup
      <3>3. NodePlace(<<"D", y>>) = p
        BY <2>5 DEF NodePlace
      <3>4. y \in 0..code.k - 1
        BY <1>1, <2>3, <2>6, SMT
      <3>5. <<"D", y>> \in OurNames
        BY <3>4, NamesAre
      <3>. QED
        BY <1>2, <3>1, <3>2, <3>3, <3>5
    <2>7. CASE ~(y < code.k)
      <3>. DEFINE g == y - code.k
      <3>1. NodeOf(p) = <<"G", g>>
        BY <1>2, <2>2, <2>3, <2>7 DEF NodeOf
      <3>2. g \in 0..Globals - 1 /\ code.k + g = y
        BY <1>1, <2>3, <2>7, SMT
      <3>3. SimCovers => FirstDigit(g) + code.k = y
        BY <1>1, <3>2, SMT DEF FirstDigit, SimCovers
      <3>. HIDE DEF g
      <3>4. SimCovers => OurGroup(<<"G", g>>, code.k, code.r) = j
        BY <2>4, <3>3 DEF OurGroup
      <3>5. NodePlace(<<"G", g>>) = p
        BY <2>5, <3>2 DEF NodePlace
      <3>6. <<"G", g>> \in OurNames
        BY <3>2, NamesAre
      <3>. QED
        BY <1>2, <3>1, <3>4, <3>5, <3>6
    <2>. QED
      BY <2>6, <2>7
  <1>. QED
    BY <1>2, <1>5, <1>6

(***************************************************************************)
(* The position of the block with running number y.                        *)
(***************************************************************************)
LEMMA PlaceOfNumber ==
    ASSUME code \in Codes, NEW y \in 0..(code.k + Globals) - 1
    PROVE  LET p == DataPos(y, code.r)
           IN  /\ p \in Positions
               /\ p # ParityPos(GroupOf(p, code.r), code.n, code.r)
               /\ p - GroupOf(p, code.r) = y
  <1>. DEFINE q == y \div code.r
              x == y - q * code.r
  <1>1. code.r \in Nat \ {0} /\ code.k + Globals \in Nat
    BY CodeFacts, SMT
  <1>2. q \in 0..Groups - 1 /\ x \in 0..GroupSize(q, code.n, code.r) - 2
    BY BlockSlot
  <1>3. q \in Nat /\ y \in Nat
    BY <1>1, DivFact, SMT
  <1>. HIDE DEF q
  <1>4. q * (code.r + 1) + x = y + q
    BY <1>1, <1>3, SMT
  <1>5. DataPos(y, code.r) = y + q
    BY DEF DataPos, q
  <1>6. /\ y + q \in Positions
        /\ GroupOf(y + q, code.r) = q
        /\ y + q # ParityPos(q, code.n, code.r)
    <2>. HIDE DEF x
    <2>. QED
      BY <1>2, <1>4, LaidSource
  <1>7. (y + q) - q = y
    BY <1>3, SMT
  <1>. QED
    BY <1>5, <1>6, <1>7

(***************************************************************************)
(* And every name has a position.                                          *)
(***************************************************************************)
LEMMA NodePlaceFacts ==
    ASSUME code \in Codes, NEW x \in OurNames
    PROVE  NodePlace(x) \in Positions /\ NodeOf(NodePlace(x)) = x
  <1>1. code.k \in Nat \ {0} /\ Globals \in Nat /\ Groups \in Nat
    BY CodeFacts
  <1>2. CASE x \in {"D"} \X (0..code.k - 1)
    <2>1. PICK y \in 0..code.k - 1 : x = <<"D", y>>
      BY <1>2
    <2>2. y \in 0..(code.k + Globals) - 1 /\ y < code.k
      BY <1>1, SMT
    <2>3. NodePlace(x) = DataPos(y, code.r)
      BY <2>1 DEF NodePlace
    <2>. QED
      BY <2>1, <2>2, <2>3, PlaceOfNumber DEF NodeOf
  <1>3. CASE x \in {"L"} \X (0..Groups - 1)
    <2>1. PICK j \in 0..Groups - 1 : x = <<"L", j>>
      BY <1>3
    <2>2. NodePlace(x) = ParityPos(j, code.n, code.r)
      BY <2>1 DEF NodePlace
    <2>. QED
      BY <2>1, <2>2, LaidParity DEF NodeOf
  <1>4. CASE x \in {"G"} \X (0..Globals - 1)
    <2>1. PICK g \in 0..Globals - 1 : x = <<"G", g>>
      BY <1>4
    <2>. DEFINE y == code.k + g
    <2>2. y \in 0..(code.k + Globals) - 1 /\ ~(y < code.k) /\ y - code.k = g
      BY <1>1, SMT
    <2>3. NodePlace(x) = DataPos(y, code.r)
      BY <2>1 DEF NodePlace
    <2>. HIDE DEF y
    <2>. QED
      BY <2>1, <2>2, <2>3, PlaceOfNumber DEF NodeOf
  <1>. QED
    BY <1>2, <1>3, <1>4, NamesAre

(***************************************************************************)
(* So names and positions are two ways to say the same, and no name is in  *)
(* a group the simulator does not have.                                    *)
(***************************************************************************)
LEMMA NamesAndPlaces ==
    ASSUME code \in Codes, SimCovers
    PROVE  /\ IsFiniteSet(OurNames)
           /\ \A x \in OurNames : /\ NodePlace(x) \in Positions /\ NodeOf(NodePlace(x)) = x
                                  /\ OurGroup(x, code.k, code.r) = GroupOf(NodePlace(x), code.r)
                                  /\ OurGroup(x, code.k, code.r) \in 0..Groups - 1
           /\ \A x, y \in OurNames : NodePlace(x) = NodePlace(y) => x = y
           /\ \A p \in Positions : NodeOf(p) \in OurNames /\ NodePlace(NodeOf(p)) = p
  <1>1. \A x \in OurNames : /\ NodePlace(x) \in Positions /\ NodeOf(NodePlace(x)) = x
                            /\ OurGroup(x, code.k, code.r) = GroupOf(NodePlace(x), code.r)
    BY NodePlaceFacts, NodeOfFacts
  <1>2. \A p \in Positions : GroupOf(p, code.r) \in 0..Groups - 1
    BY PositionCases
  <1>3. \A x, y \in OurNames : NodePlace(x) = NodePlace(y) => x = y
    BY <1>1
  <1>4. IsFiniteSet(Positions)
    <2>1. 0 \in Int /\ code.n - 1 \in Int
      BY CodeFacts, SMT
    <2>. QED
      BY <2>1, FS_Interval DEF Positions
  <1>. DEFINE f == [x \in OurNames |-> NodePlace(x)]
  <1>5. f \in [OurNames -> Positions] /\ \A x, y \in OurNames : f[x] = f[y] => x = y
    BY <1>1, <1>3
  <1>. HIDE DEF f
  <1>6. IsFiniteSet(OurNames)
    BY <1>4, <1>5, CountByInjection
  <1>. QED
    BY <1>1, <1>2, <1>3, <1>6, NodeOfFacts

(***************************************************************************)
(* Once the loop is done the simulator's name of a position is NodeOf.     *)
(***************************************************************************)
LEMMA NodeAtIs ==
    ASSUME LayoutInv, Done, NEW p \in Positions
    PROVE  /\ NodeAt(p) = NodeOf(p)
           /\ blocks[p][1] = "data" <=> NodeOf(p)[1] = "D"
           /\ blocks[p][1] = "global" <=> NodeOf(p)[1] = "G"
  <1>1. /\ code \in Codes /\ ValidCode(code.n, code.k, code.r)
        /\ code.n \in Nat \ {0} /\ code.k \in Nat \ {0} /\ code.r \in Nat \ {0}
        /\ Groups \in Nat \ {0}
    BY CodeFacts DEF LayoutInv
  <1>2. PICK j \in 0..Groups - 1 :
          /\ j = GroupOf(p, code.r)
          /\ \/ p = ParityPos(j, code.n, code.r)
             \/ \E x \in 0..GroupSize(j, code.n, code.r) - 2 : p = j * (code.r + 1) + x
    BY <1>1, PositionCases
  <1>3. blocks[p] = Laid(p)
    BY DoneLaid
  <1>4. CASE p = ParityPos(j, code.n, code.r)
    <2>1. Laid(p) = Local({Source(j * code.r + x) : x \in 0..GroupSize(j, code.n, code.r) - 2})
      BY <1>1, <1>4, LaidParity
    <2>2. blocks[p][1] = "local"
      BY <1>3, <2>1 DEF Local
    <2>3. NodeAt(p) = <<"L", j>>
      BY <1>2, <2>2 DEF NodeAt, r
    <2>4. NodeOf(p) = <<"L", j>>
      BY <1>2, <1>4 DEF NodeOf
    <2>. QED
      BY <2>2, <2>3, <2>4
  <1>5. CASE p # ParityPos(j, code.n, code.r)
    <2>1. PICK x \in 0..GroupSize(j, code.n, code.r) - 2 : p = j * (code.r + 1) + x
      BY <1>2, <1>5
    <2>. DEFINE u == j * code.r
                y == u + x
    <2>2. blocks[p] = Source(y)
      BY <1>1, <1>3, <2>1, LaidSource
    <2>3. j * (code.r + 1) = u + j /\ j \in Nat /\ u \in Nat
          /\ GroupSize(j, code.n, code.r) \in 2..code.r + 1
      BY <1>1, GroupShape DEF Groups
    <2>. HIDE DEF u
    <2>4. x \in Nat /\ p - j = y /\ y \in Nat
      BY <1>1, <2>1, <2>3, SMT
    <2>. HIDE DEF y
    <2>5. NodeOf(p) = IF y < code.k THEN <<"D", y>> ELSE <<"G", y - code.k>>
      BY <1>2, <1>5, <2>4 DEF NodeOf
    <2>6. CASE y < code.k
      <3>1. blocks[p] = <<"data", y>>
        BY <2>2, <2>6 DEF Source
      <3>2. NodeAt(p) = <<"D", y>>
        BY <3>1 DEF NodeAt
      <3>. QED
        BY <2>5, <2>6, <3>1, <3>2
    <2>7. CASE ~(y < code.k)
      <3>1. blocks[p] = <<"global", y - code.k>>
        BY <2>2, <2>7 DEF Source
      <3>2. NodeAt(p) = <<"G", y - code.k>>
        BY <3>1 DEF NodeAt
      <3>. QED
        BY <2>5, <2>7, <3>1, <3>2
    <2>. QED
      BY <2>6, <2>7
  <1>. QED
    BY <1>4, <1>5

(***************************************************************************)
(* The simulator of the placements (pic_sim/) is about this layout: the    *)
(* group it takes a block to be in, which it computes from the block's     *)
(* name, is the group of the position the encoder gives that block, for    *)
(* every code with at most ten global parities.                            *)
(***************************************************************************)
THEOREM SimulatorIsOfLayout ==
    Spec => []SimulatorMatchesLayout
  <1>1. LayoutInv => SimulatorMatchesLayout
    <2>. SUFFICES ASSUME LayoutInv, Done, SimCovers, NEW p \in Positions
                  PROVE  OurGroup(NodeAt(p), code.k, code.r) = GroupOf(p, code.r)
      BY DEF SimulatorMatchesLayout, k, r
    <2>1. code \in Codes
      BY DEF LayoutInv
    <2>. QED
      BY <2>1, NodeAtIs, NodeOfFacts
  <1>. QED
    BY <1>1, GroupsLaidOut, PTL

----------------------------------------------------------------------------
(***************************************************************************)
(* Groups of data, and how many blocks a rack may hold.                    *)
(***************************************************************************)
LEMMA CapacityFacts ==
    ASSUME code \in Codes
    PROVE  /\ CeilDiv(code.k, code.r) \in Nat \ {0}
           /\ CeilDiv(code.k, code.r) <= Groups
           /\ code.n - code.k - CeilDiv(code.k, code.r) \in Nat
           /\ Capacity(code.n, code.k, code.r) \in Nat \ {0}
  <1>. DEFINE c == CeilDiv(code.k, code.r)
              rr == code.r
              kk == code.k
              a == kk + rr - 1
  <1>1. /\ ValidCode(code.n, kk, rr)
        /\ code.n \in Nat \ {0} /\ kk \in Nat \ {0} /\ rr \in Nat \ {0}
        /\ Groups \in Nat \ {0} /\ Globals \in Nat /\ kk + Globals = code.n - Groups
    BY CodeFacts
  <1>2. code.n <= (rr + 1) * Groups
    BY <1>1, ValidFacts DEF Groups
  <1>3. a \in Nat
    BY <1>1, SMT
  <1>4. c \in Nat /\ rr * c <= a /\ a < rr * c + rr
    BY <1>1, <1>3, DivFact DEF CeilDiv
  <1>. HIDE DEF c
  <1>5. c # 0
    BY <1>1, <1>4, SMT
  <1>6. c <= Groups
    <2>1. SUFFICES ASSUME Groups + 1 <= c PROVE FALSE
      BY <1>1, <1>4, SMT
    <2>. DEFINE v == rr * Groups
    <2>2. /\ rr * (Groups + 1) = v + rr /\ (rr + 1) * Groups = v + Groups
          /\ v \in Nat
      BY <1>1, SMT
    <2>3. rr * (Groups + 1) <= rr * c /\ rr * c \in Nat
      BY <1>1, <1>4, <2>1, MulMono, MulNat, SMT
    <2>. HIDE DEF v
    <2>. QED
      BY <1>1, <1>2, <1>4, <2>2, <2>3, SMT
  <1>7. Capacity(code.n, kk, rr) \in Nat \ {0}
    <2>. DEFINE e == CeilDiv(Globals + 1, rr)
    <2>1. Globals + 1 + rr - 1 \in Nat /\ Globals + 1 + rr - 1 >= rr
      BY <1>1, SMT
    <2>2. e \in Nat /\ Globals + 1 + rr - 1 < rr * e + rr
      BY <1>1, <2>1, DivFact DEF CeilDiv
    <2>. HIDE DEF e
    <2>3. e >= 1
      BY <1>1, <2>1, <2>2, SMT
    <2>4. CeilDiv(code.n, rr + 1) = Groups
      BY NamesAre
    <2>5. code.n - kk - Groups = Globals
      BY <1>1, SMT
    <2>6. Distance(code.n, kk, rr) = IF e > Groups - c THEN Globals + (Groups - c) + 2
                                     ELSE Globals + (Groups - c) + 1
      BY <2>4, <2>5 DEF Distance, e, c
    <2>. QED
      BY <1>1, <1>4, <1>6, <2>2, <2>3, <2>6, SMT DEF Capacity
  <1>8. code.n - kk - c \in Nat
    BY <1>1, <1>4, <1>6, SMT
  <1>. QED
    BY <1>4, <1>5, <1>6, <1>7, <1>8 DEF c

(***************************************************************************)
(* Whole groups packed into racks.                                         *)
(***************************************************************************)
LEMMA PackedRacks ==
    ASSUME code \in Codes, SimCovers, NEW b \in Nat \ {0}, b >= code.r + 1
    PROVE  LET each == GroupsPerRack(b, code.r)
               groups == 0..Groups - 1
               In(c) == {x \in OurNames : OurGroup(x, code.k, code.r) \div each = c}
           IN  /\ each \in Nat \ {0}
               /\ \A c : IsFiniteSet(In(c))
               /\ \A c \in Nat : Cardinality(In(c)) <= b
  <1>. DEFINE each == GroupsPerRack(b, code.r)
              w == code.r + 1
              In(c) == {x \in OurNames : OurGroup(x, code.k, code.r) \div each = c}
              m == each * w
  <1>1. code.r \in Nat \ {0} /\ w \in Nat \ {0} /\ Groups \in Nat \ {0} /\ code.n \in Nat \ {0}
    BY CodeFacts, SMT
  <1>2. each \in Nat /\ w * each <= b /\ b < w * each + w
    BY <1>1, DivFact DEF GroupsPerRack
  <1>. HIDE DEF each
  <1>3. each # 0
    BY <1>1, <1>2, SMT
  <1>4. w * each = m /\ m \in Nat
    BY <1>1, <1>2, SMT
  <1>5. \A c : IsFiniteSet(In(c))
    <2>. SUFFICES ASSUME NEW c PROVE IsFiniteSet(In(c))
      OBVIOUS
    <2>1. In(c) \in SUBSET OurNames
      OBVIOUS
    <2>. QED
      BY <2>1, NamesAndPlaces, FS_Subset
  <1>6. ASSUME NEW c \in Nat PROVE Cardinality(In(c)) <= b
    <2>. DEFINE a == c * each
                z == a * w
                f == [x \in In(c) |-> NodePlace(x) - z]
    <2>1. a \in Nat /\ z \in Nat /\ (a + each) * w = z + m /\ each * c = a
      <3>1. a \in Nat /\ each * c = a
        BY <1>2, SMT
      <3>. HIDE DEF a
      <3>2. z \in Nat
        BY <1>1, <3>1, MulNat
      <3>3. (a + each) * w = z + m
        BY <1>1, <1>2, <3>1, SMT
      <3>. QED
        BY <3>1, <3>2, <3>3
    <2>2. ASSUME NEW x \in In(c) PROVE NodePlace(x) - z \in 0..m - 1 /\ NodePlace(x) \in Nat
      <3>. DEFINE j == OurGroup(x, code.k, code.r)
                  p == NodePlace(x)
      <3>1. /\ j \in 0..Groups - 1 /\ j = GroupOf(p, code.r) /\ p \in Positions
            /\ j \div each = c
        BY NamesAndPlaces
      <3>. HIDE DEF j, p
      <3>2. j \in Nat /\ p \in Nat
        BY <1>1, <3>1, SMT DEF Positions
      <3>3. each * c <= j /\ j < each * c + each
        BY <1>2, <1>3, <3>1, <3>2, DivFact
      <3>4. a <= j /\ j + 1 <= a + each
        BY <1>2, <2>1, <3>2, <3>3, SMT
      <3>5. w * j <= p /\ p < w * j + w
        BY <1>1, <3>1, <3>2, DivFact DEF GroupOf
      <3>. DEFINE v == w * j
      <3>6. w * a <= v
        BY <1>1, <2>1, <3>2, <3>4, MulMono
      <3>7. w * (j + 1) <= w * (a + each)
        <4>1. j + 1 \in Nat /\ a + each \in Nat
          BY <1>2, <2>1, <3>2, SMT
        <4>. QED
          BY <1>1, <3>4, <4>1, MulMono
      <3>8. w * a = z
        <4>. HIDE DEF a, w
        <4>. QED
          BY <1>1, <2>1, SMT
      <3>9. w * (j + 1) = v + w
        <4>. HIDE DEF w
        <4>. QED
          BY <1>1, <3>2, SMT
      <3>10. w * (a + each) = z + m
        <4>1. w * (a + each) = (a + each) * w
          <5>. HIDE DEF a, w
          <5>. QED
            BY <1>1, <1>2, <2>1, SMT
        <4>. QED
          BY <2>1, <4>1
      <3>11. v \in Nat
        BY <1>1, <3>2, MulNat
      <3>12. z <= v /\ v + w <= z + m /\ v <= p /\ p < v + w
        BY <3>5, <3>6, <3>7, <3>8, <3>9, <3>10
      <3>. HIDE DEF v, z, m, w
      <3>13. p - z \in 0..m - 1
        BY <1>1, <1>4, <2>1, <3>2, <3>11, <3>12, SMT
      <3>. QED
        BY <3>2, <3>13 DEF p
    <2>. HIDE DEF z, m
    <2>3. f \in [In(c) -> 0..m - 1]
      BY <2>2
    <2>4. \A x, y \in In(c) : f[x] = f[y] => x = y
      <3>. SUFFICES ASSUME NEW x \in In(c), NEW y \in In(c), f[x] = f[y] PROVE x = y
        OBVIOUS
      <3>1. NodePlace(x) - z = NodePlace(y) - z
        OBVIOUS
      <3>2. NodePlace(x) = NodePlace(y)
        BY <2>1, <2>2, <3>1, SMT
      <3>. QED
        BY <3>2, NamesAndPlaces
    <2>5. IsFiniteSet(0..m - 1) /\ Cardinality(0..m - 1) = m
      BY <1>4, FS_Interval, SMT
    <2>. HIDE DEF f, In
    <2>6. Cardinality(In(c)) <= m
      BY <2>3, <2>4, <2>5, CountByInjection
    <2>7. Cardinality(In(c)) \in Nat
      BY <1>5, FS_CardinalityType
    <2>. QED
      BY <1>2, <1>4, <2>6, <2>7, SMT
  <1>. QED
    BY <1>2, <1>3, <1>5, <1>6 DEF each

(***************************************************************************)
(* The repair-optimal placement survives the loss of a rack.               *)
(***************************************************************************)
LEMMA OurRacksSurvive ==
    ASSUME code \in Codes, SimCovers
    PROVE  Survivable(OurRacks(code.n, code.k, code.r), OurNames,
                      Capacity(code.n, code.k, code.r))
  <1>. DEFINE b == Capacity(code.n, code.k, code.r)
              each == GroupsPerRack(b, code.r)
              groups == 0..Groups - 1
              g(x) == OurGroup(x, code.k, code.r)
              part(j) == OurRankGroup(j, code.n, code.k, code.r)
              racks == OurRacks(code.n, code.k, code.r)
  <1>1. b \in Nat \ {0} /\ code.r \in Nat /\ Groups \in Nat
    BY CapacityFacts, CodeFacts
  <1>2. CeilDiv(code.n, code.r + 1) = Groups /\ OurNames \subseteq Names
    BY NamesAre
  <1>3. IsFiniteSet(OurNames) /\ \A x \in OurNames : g(x) \in groups
    BY NamesAndPlaces
  <1>4. \A j : part(j) = {x \in OurNames : g(x) = j}
    BY DEF OurRankGroup, OurNames
  <1>5. racks = IF b >= code.r + 1
                THEN {UNION {part(j) : j \in {j \in groups : j \div each = c}} :
                          c \in {j \div each : j \in groups}}
                ELSE UNION {Slices(part(j), b) : j \in groups}
    BY <1>2 DEF OurRacks
  <1>. HIDE DEF b, racks, each, part
  <1>6. CASE b >= code.r + 1
    <2>. DEFINE In(c) == {x \in OurNames : g(x) \div each = c}
                C == {j \div each : j \in groups}
    <2>1. each \in Nat \ {0} /\ \A c \in Nat : Cardinality(In(c)) <= b
      BY <1>1, <1>6, PackedRacks DEF each
    <2>2. C \subseteq Nat
      <3>. SUFFICES ASSUME NEW j \in groups PROVE j \div each \in Nat
        OBVIOUS
      <3>1. j \in Nat
        BY <1>1, SMT
      <3>. QED
        BY <2>1, <3>1, DivFact
    <2>. HIDE DEF groups, g
    <2>. DEFINE R(c) == UNION {part(j) : j \in {j \in groups : j \div each = c}}
    <2>3. \A c : R(c) = In(c)
      BY <1>3, <1>4
    <2>4. racks = {In(c) : c \in C}
      <3>1. racks = {R(c) : c \in C}
        BY <1>5, <1>6
      <3>. HIDE DEF R, In, C
      <3>. QED
        BY <2>3, <3>1
    <2>5. UNION racks = OurNames
      BY <1>3, <2>4
    <2>6. \A q \in racks : Cardinality(q) <= b
      BY <2>1, <2>2, <2>4
    <2>7. \A q, s \in racks : q = s \/ q \cap s = {}
      <3>. SUFFICES ASSUME NEW c \in C, NEW d \in C PROVE In(c) = In(d) \/ In(c) \cap In(d) = {}
        BY <2>4
      <3>. QED
        OBVIOUS
    <2>. QED
      BY <2>5, <2>6, <2>7 DEF Survivable, racks, b
  <1>7. CASE ~(b >= code.r + 1)
    <2>. DEFINE h == [x \in OurNames |-> g(x)]
    <2>1. h \in [OurNames -> groups]
      BY <1>3
    <2>2. \A j : part(j) = {x \in OurNames : h[x] = j}
      BY <1>4
    <2>3. racks = GroupSlices(OurNames, h, groups, b)
      BY <1>5, <1>7, <2>2 DEF GroupSlices
    <2>. HIDE DEF h, groups
    <2>4. Survivable(racks, OurNames, b)
      BY <1>1, <1>2, <1>3, <2>1, <2>3, GroupsCut
    <2>. QED
      BY <2>4 DEF racks, b
  <1>. QED
    BY <1>6, <1>7

(***************************************************************************)
(* And so do the placements of the Azure codes.                            *)
(***************************************************************************)
LEMMA AzureRacksSurvive ==
    ASSUME code \in Codes, NEW b \in Nat \ {0},
           NEW locals \in {CeilDiv(code.k, code.r), CeilDiv(code.k, code.r) + 1}
    PROVE  Survivable(AzureRacks(code.n, code.k, code.r, b, locals),
                      NodeNames(code.n, code.k, locals), b)
  <1>. DEFINE c == CeilDiv(code.k, code.r)
              S == NodeNames(code.n, code.k, locals)
              D == 0..code.k - 1
              L == 0..locals - 1
              G == 0..code.n - locals - code.k - 1
              g(x) == AzureGroup(x, code.k, code.r)
              h == [x \in S |-> g(x)]
  <1>1. code.n \in Nat \ {0} /\ code.k \in Nat \ {0} /\ code.r \in Nat \ {0} /\ c \in Nat
    BY CodeFacts, CapacityFacts
  <1>2. locals \in Nat /\ locals <= c + 1
    BY <1>1, SMT
  <1>3. S = ({"D"} \X D) \cup ({"L"} \X L) \cup ({"G"} \X G)
    BY DEF NodeNames
  <1>4. IsFiniteSet(D) /\ IsFiniteSet(L) /\ IsFiniteSet(G)
    <2>1. code.k - 1 \in Int /\ locals - 1 \in Int /\ code.n - locals - code.k - 1 \in Int /\ 0 \in Int
      BY <1>1, <1>2, SMT
    <2>. QED
      BY <2>1, FS_Interval
  <1>5. D \subseteq Nat /\ L \subseteq Nat /\ G \subseteq Nat
    BY <1>1, <1>2, SMT
  <1>6. \A y \in D : y \div code.r \in 0..c
    <2>. SUFFICES ASSUME NEW y \in D PROVE y \div code.r \in 0..c
      OBVIOUS
    <2>1. y \in Nat /\ code.k + code.r - 1 \in Nat /\ y <= code.k + code.r - 1
      BY <1>1, SMT
    <2>2. y \div code.r \in Nat /\ y \div code.r <= c
      BY <1>1, <2>1, DivMono DEF CeilDiv
    <2>. HIDE DEF c
    <2>. QED
      BY <1>1, <2>2, SMT
  <1>7. \A y \in L : y \in 0..c
    BY <1>1, <1>2, SMT
  <1>8. c \in 0..c
    BY <1>1, SMT
  <1>. HIDE DEF D, L, G, c, S
  <1>9. IsFiniteSet(S) /\ S \subseteq Names
    <2>1. IsFiniteSet({"D"} \X D) /\ IsFiniteSet({"L"} \X L) /\ IsFiniteSet({"G"} \X G)
      BY <1>4, FS_Product, FS_Singleton
    <2>2. IsFiniteSet(({"D"} \X D) \cup ({"L"} \X L))
      BY <2>1, FS_Union
    <2>3. IsFiniteSet(S)
      BY <1>3, <2>1, <2>2, FS_Union
    <2>. QED
      BY <1>3, <1>5, <2>3 DEF Names
  <1>10. \A x \in S : g(x) \in 0..c
    <2>1. ASSUME NEW y \in D PROVE g(<<"D", y>>) \in 0..c
      BY <1>6 DEF AzureGroup
    <2>2. ASSUME NEW y \in L PROVE g(<<"L", y>>) \in 0..c
      BY <1>7 DEF AzureGroup
    <2>3. ASSUME NEW y \in G PROVE g(<<"G", y>>) \in 0..c
      BY <1>8 DEF AzureGroup, c
    <2>. HIDE DEF g
    <2>. QED
      BY <1>3, <2>1, <2>2, <2>3
  <1>11. h \in [S -> 0..c]
    BY <1>10
  <1>12. AzureRacks(code.n, code.k, code.r, b, locals)
            = GroupSlices(S, h, 0..c, b)
    <2>1. \A j : {x \in S : h[x] = j} = {x \in S : g(x) = j}
      OBVIOUS
    <2>. HIDE DEF h
    <2>. QED
      BY <2>1 DEF AzureRacks, GroupSlices, c, S
  <1>. HIDE DEF h
  <1>. QED
    BY <1>9, <1>11, <1>12, GroupsCut DEF S

(***************************************************************************)
(* Whatever the code, no rack of the simulator's placements holds more     *)
(* blocks than the code tolerates losing, and every block is in one rack.  *)
(***************************************************************************)
THEOREM RackLossIsTolerated ==
    Spec => []RackLossTolerated
  <1>1. LayoutInv => RackLossTolerated
    <2>. SUFFICES ASSUME LayoutInv PROVE RackLossTolerated
      OBVIOUS
    <2>. DEFINE c == CeilDiv(code.k, code.r)
                b == code.n - code.k - c
    <2>1. code \in Codes
      BY DEF LayoutInv
    <2>2. c \in Nat \ {0} /\ b \in Nat
      BY <2>1, CapacityFacts
    <2>3. SimCovers => Survivable(OurRacks(n, k, r), OurNodes(n, k, r), Distance(n, k, r) - 1)
      BY <2>1, OurRacksSurvive DEF n, k, r, OurNames, Capacity
    <2>. HIDE DEF c, b
    <2>4. b + 1 \in Nat \ {0}
      BY <2>2, SMT
    <2>5. Survivable(AzureRacks(code.n, code.k, code.r, b + 1, c),
                     NodeNames(code.n, code.k, c), b + 1)
      BY <2>1, <2>4, AzureRacksSurvive DEF c
    <2>6. b - 1 >= 1 => Survivable(AzureRacks(code.n, code.k, code.r, b, c + 1),
                                   NodeNames(code.n, code.k, c + 1), b)
      <3>. SUFFICES ASSUME b - 1 >= 1
                    PROVE  Survivable(AzureRacks(code.n, code.k, code.r, b, c + 1),
                                      NodeNames(code.n, code.k, c + 1), b)
        OBVIOUS
      <3>1. b \in Nat \ {0}
        BY <2>2, SMT
      <3>. QED
        BY <2>1, <3>1, AzureRacksSurvive DEF c
    <2>. QED
      BY <2>3, <2>5, <2>6 DEF RackLossTolerated, AzureLRC, AzureLRC1, n, k, r, b, c
  <1>. QED
    BY <1>1, GroupsLaidOut, PTL

----------------------------------------------------------------------------
\* There are a numbers below a.
LEMMA UpTo ==
    ASSUME NEW a \in Nat
    PROVE  IsFiniteSet(0..a - 1) /\ Cardinality(0..a - 1) = a
  BY FS_Interval, SMT

(***************************************************************************)
(* Repair costs.  A rack holds at most one block of every block's own      *)
(* group that a flat placement would read from, so no partition into racks *)
(* costs more than a rack per block.                                       *)
(***************************************************************************)
LEMMA RacksCostNoMore ==
    ASSUME NEW nodes, IsFiniteSet(nodes), NEW S \in SUBSET nodes, NEW racks, NEW group,
           UNION racks = nodes, \A q, s \in racks : q = s \/ q \cap s = {}
    PROVE  Total(S, racks, group) <= Total(S, {{x} : x \in nodes}, group)
  <1>. DEFINE single == {{x} : x \in nodes}
              V == {e \in S \X racks : ReadsFrom(e[1], e[2], group)}
              W == {e \in S \X single : ReadsFrom(e[1], e[2], group)}
              y(e) == CHOOSE z \in e[2] : group[z] = group[e[1]]
              f == [e \in V |-> <<e[1], {y(e)}>>]
  <1>1. IsFiniteSet(W)
    <2>. DEFINE h == [x \in nodes |-> {x}]
    <2>1. h \in Surjection(nodes, single)
      BY DEF Surjection
    <2>. HIDE DEF h, single
    <2>2. IsFiniteSet(single)
      BY <2>1, FS_Surjection
    <2>3. IsFiniteSet(S)
      BY FS_Subset
    <2>4. IsFiniteSet(S \X single)
      BY <2>2, <2>3, FS_Product
    <2>5. W \in SUBSET (S \X single)
      OBVIOUS
    <2>. QED
      BY <2>4, <2>5, FS_Subset
  <1>2. ASSUME NEW e \in V
        PROVE  /\ e = <<e[1], e[2]>> /\ e[1] \in S /\ e[2] \in racks
               /\ y(e) \in e[2] /\ y(e) \in nodes /\ y(e) # e[1] /\ group[y(e)] = group[e[1]]
    <2>1. e = <<e[1], e[2]>> /\ e[1] \in S /\ e[2] \in racks
      OBVIOUS
    <2>2. e[1] \notin e[2] /\ \E z \in e[2] : group[z] = group[e[1]]
      BY DEF ReadsFrom
    <2>3. y(e) \in e[2] /\ group[y(e)] = group[e[1]]
      BY <2>2
    <2>. QED
      BY <2>1, <2>2, <2>3
  <1>. HIDE DEF y
  <1>3. \A e \in V : <<e[1], {y(e)}>> \in W
    <2>. SUFFICES ASSUME NEW e \in V PROVE <<e[1], {y(e)}>> \in W
      OBVIOUS
    <2>. DEFINE z == y(e)
                x == e[1]
    <2>1. x \in S /\ z \in nodes /\ z # x /\ group[z] = group[x]
      BY <1>2
    <2>. HIDE DEF z, x
    <2>2. {z} \in single /\ ReadsFrom(x, {z}, group)
      BY <2>1 DEF ReadsFrom
    <2>3. <<x, {z}>> \in W
      BY <2>1, <2>2
    <2>. QED
      BY <2>3 DEF z, x
  <1>. HIDE DEF W
  <1>4. f \in [V -> W]
    BY <1>3
  <1>5. \A d, e \in V : f[d] = f[e] => d = e
    <2>. SUFFICES ASSUME NEW d \in V, NEW e \in V, f[d] = f[e] PROVE d = e
      OBVIOUS
    <2>1. d[1] = e[1] /\ y(d) = y(e)
      OBVIOUS
    <2>2. d[2] \cap e[2] # {}
      BY <1>2, <2>1
    <2>3. d[2] = e[2]
      BY <1>2, <2>2
    <2>. QED
      BY <1>2, <2>1, <2>3
  <1>. HIDE DEF f, V
  <1>6. Cardinality(V) <= Cardinality(W)
    BY <1>1, <1>4, <1>5, CountByInjection
  <1>. QED
    BY <1>6 DEF Total, V, W

----------------------------------------------------------------------------
(***************************************************************************)
(* The slot of a block in its group, and the size of the group.            *)
(***************************************************************************)
GroupName(x) == OurGroup(x, code.k, code.r)
Slot(x) == NodePlace(x) - GroupName(x) * (code.r + 1)
Size(x) == GroupSize(GroupName(x), code.n, code.r)

\* A block is determined by its group and its slot, and every slot is taken.
LEMMA SlotFacts ==
    ASSUME code \in Codes, SimCovers, NEW x \in OurNames
    PROVE  /\ GroupName(x) \in 0..Groups - 1 /\ GroupName(x) * (code.r + 1) \in Nat
           /\ Size(x) \in 2..code.r + 1
           /\ Slot(x) \in 0..Size(x) - 1
           /\ NodePlace(x) = GroupName(x) * (code.r + 1) + Slot(x)
           /\ \A y \in OurNames : (GroupName(y) = GroupName(x) /\ Slot(y) = Slot(x)) => y = x
           /\ \A t \in 0..Size(x) - 1 :
                 \E y \in OurNames : GroupName(y) = GroupName(x) /\ Slot(y) = t
  <1>. DEFINE j == GroupName(x)
              base == j * (code.r + 1)
              s == Size(x)
  <1>1. /\ ValidCode(code.n, code.k, code.r)
        /\ code.n \in Nat \ {0} /\ code.r \in Nat \ {0} /\ Groups \in Nat \ {0}
    BY CodeFacts
  <1>2. \A y \in OurNames : /\ NodePlace(y) \in Positions
                            /\ GroupName(y) = GroupOf(NodePlace(y), code.r)
                            /\ GroupName(y) \in 0..Groups - 1
    BY NamesAndPlaces DEF GroupName
  <1>3. /\ base \in Nat /\ s \in 2..code.r + 1
        /\ ParityPos(j, code.n, code.r) = base + s - 1
        /\ ParityPos(j, code.n, code.r) \in 0..code.n - 1
    BY <1>1, <1>2, GroupShape DEF Groups, Size
  <1>4. /\ NodePlace(x) \in Nat /\ base <= NodePlace(x)
        /\ NodePlace(x) <= ParityPos(j, code.n, code.r)
    <2>1. NodePlace(x) \in 0..code.n - 1
      BY <1>2 DEF Positions
    <2>2. NodePlace(x) \in Nat
      BY <1>1, <2>1, SMT
    <2>. QED
      BY <1>1, <1>2, <2>1, <2>2, GroupOfRange
  <1>5. Slot(x) = NodePlace(x) - base
    BY DEF Slot
  <1>6. \A y \in OurNames : NodePlace(y) \in Nat
    BY <1>1, <1>2, SMT DEF Positions
  <1>7. ASSUME NEW y \in OurNames, GroupName(y) = j, Slot(y) = Slot(x) PROVE y = x
    <2>1. Slot(y) = NodePlace(y) - base
      BY <1>7 DEF Slot
    <2>. HIDE DEF base
    <2>2. NodePlace(y) = NodePlace(x)
      BY <1>3, <1>5, <1>6, <1>7, <2>1, SMT
    <2>. QED
      BY <2>2, NamesAndPlaces
  <1>8. ASSUME NEW t \in 0..s - 1
        PROVE  \E y \in OurNames : GroupName(y) = j /\ Slot(y) = t
    <2>. DEFINE p == base + t
                y == NodeOf(p)
    <2>1. t \in 0..code.r /\ j \in Nat
      BY <1>1, <1>2, <1>3, SMT
    <2>2. GroupOf(p, code.r) = j
      BY <1>1, <2>1, SameGroup
    <2>. HIDE DEF base, s
    <2>3. p \in Positions /\ p - base = t
      BY <1>1, <1>3, SMT DEF Positions
    <2>. HIDE DEF p
    <2>4. y \in OurNames /\ NodePlace(y) = p
      BY <2>3, NamesAndPlaces
    <2>5. GroupName(y) = j
      BY <1>2, <2>2, <2>4
    <2>6. Slot(y) = t
      BY <2>3, <2>4, <2>5 DEF Slot, base
    <2>. QED
      BY <2>4, <2>5, <2>6
  <1>. HIDE DEF base, s
  <1>9. Slot(x) \in 0..s - 1 /\ NodePlace(x) = base + Slot(x)
    BY <1>3, <1>4, <1>5, SMT
  <1>. QED
    BY <1>2, <1>3, <1>7, <1>8, <1>9 DEF base, s

(***************************************************************************)
(* With a rack per block, a block is repaired from one rack less than its  *)
(* group has blocks.                                                       *)
(***************************************************************************)
Single == {{x} : x \in OurNames}
Dict == OurDict(code.n, code.k, code.r)

\* With a rack per block, a block costs one rack for every other slot of its group.
LEMMA FlatCount ==
    ASSUME code \in Codes, SimCovers, NEW A, NEW B, NEW m \in 2..code.r + 1,
           A \subseteq OurNames, B \subseteq OurNames, A \cap B = {},
           \A x \in A : Size(x) = code.r + 1, \A x \in B : Size(x) = m
    PROVE  Total(A \cup B, Single, Dict)
              = Cardinality(A) * code.r + Cardinality(B) * (m - 1)
  <1>. DEFINE S == A \cup B
              U == (A \X (0..code.r - 1)) \cup (B \X (0..m - 2))
              V == {e \in S \X Single : ReadsFrom(e[1], e[2], Dict)}
              y(e) == CHOOSE z : e[2] = {z}
              skip(e) == IF Slot(y(e)) < Slot(e[1]) THEN Slot(y(e)) ELSE Slot(y(e)) - 1
              f == [e \in V |-> <<e[1], skip(e)>>]
  <1>1. code.r \in Nat \ {0} /\ m \in Nat /\ m >= 2
    BY CodeFacts, SMT
  <1>2. \A x \in OurNames : Dict[x] = GroupName(x)
    BY DEF Dict, OurDict, OurNames, GroupName
  <1>3. ASSUME NEW e \in V
        PROVE  /\ e = <<e[1], {y(e)}>> /\ e[1] \in S /\ e[1] \in OurNames
               /\ y(e) \in OurNames /\ y(e) # e[1] /\ GroupName(y(e)) = GroupName(e[1])
    <2>1. e = <<e[1], e[2]>> /\ e[1] \in S /\ e[2] \in Single
      OBVIOUS
    <2>2. PICK z \in OurNames : e[2] = {z}
      BY <2>1 DEF Single
    <2>3. y(e) = z
      BY <2>2
    <2>4. e[1] \in OurNames
      BY <2>1
    <2>5. z # e[1] /\ Dict[z] = Dict[e[1]]
      BY <2>2 DEF ReadsFrom
    <2>. QED
      BY <1>2, <2>1, <2>2, <2>3, <2>4, <2>5
  <1>4. ASSUME NEW x \in S, NEW z \in OurNames, z # x, GroupName(z) = GroupName(x)
        PROVE  <<x, {z}>> \in V /\ y(<<x, {z}>>) = z
    <2>1. {z} \in Single /\ x \in OurNames
      BY DEF Single
    <2>2. Dict[z] = Dict[x]
      BY <1>2, <1>4, <2>1
    <2>3. ReadsFrom(x, {z}, Dict)
      BY <1>4, <2>2 DEF ReadsFrom
    <2>4. <<x, {z}>>[1] = x /\ <<x, {z}>>[2] = {z}
      OBVIOUS
    <2>. QED
      BY <2>1, <2>3, <2>4
  <1>. HIDE DEF y
  <1>5. ASSUME NEW e \in V
        PROVE  /\ Slot(e[1]) \in 0..Size(e[1]) - 1 /\ Slot(y(e)) \in 0..Size(e[1]) - 1
               /\ Slot(y(e)) # Slot(e[1]) /\ Size(e[1]) \in 2..code.r + 1
    <2>1. /\ e[1] \in OurNames
          /\ y(e) \in OurNames /\ y(e) # e[1] /\ GroupName(y(e)) = GroupName(e[1])
      BY <1>3
    <2>2. Size(y(e)) = Size(e[1])
      BY <2>1 DEF Size
    <2>. QED
      BY <2>1, <2>2, SlotFacts
  <1>6. ASSUME NEW e \in V PROVE skip(e) \in 0..Size(e[1]) - 2
    BY <1>1, <1>5, SMT
  <1>7. \A e \in V : <<e[1], skip(e)>> \in U
    <2>. SUFFICES ASSUME NEW e \in V PROVE <<e[1], skip(e)>> \in U
      OBVIOUS
    <2>1. skip(e) \in 0..Size(e[1]) - 2 /\ e[1] \in S
      BY <1>3, <1>6
    <2>. HIDE DEF skip, V
    <2>2. CASE e[1] \in A
      <3>1. skip(e) \in 0..code.r - 1
        BY <1>1, <2>1, <2>2, SMT
      <3>. QED
        BY <2>2, <3>1
    <2>3. CASE e[1] \in B
      BY <2>1, <2>3
    <2>. QED
      BY <2>1, <2>2, <2>3
  <1>8. \A d, e \in V : f[d] = f[e] => d = e
    <2>. SUFFICES ASSUME NEW d \in V, NEW e \in V, f[d] = f[e] PROVE d = e
      OBVIOUS
    <2>1. d[1] = e[1] /\ skip(d) = skip(e)
      <3>. HIDE DEF skip
      <3>. QED
        OBVIOUS
    <2>2. Slot(y(d)) = Slot(y(e))
      <3>. DEFINE a == Slot(y(d))
                  b == Slot(y(e))
                  s == Slot(e[1])
      <3>1. a \in 0..Size(e[1]) - 1 /\ a # s /\ b \in 0..Size(e[1]) - 1 /\ b # s
            /\ s \in 0..Size(e[1]) - 1 /\ Size(e[1]) \in 2..code.r + 1
        BY <1>5, <2>1
      <3>2. (IF a < s THEN a ELSE a - 1) = (IF b < s THEN b ELSE b - 1)
        BY <2>1
      <3>. HIDE DEF a, b, s
      <3>3. a = b
        BY <1>1, <3>1, <3>2, SMT
      <3>. QED
        BY <3>3 DEF a, b
    <2>3. y(d) = y(e)
      BY <1>3, <2>1, <2>2, SlotFacts
    <2>. QED
      BY <1>3, <2>1, <2>3
  <1>9. \A u \in U : \E e \in V : f[e] = u
    <2>. SUFFICES ASSUME NEW u \in U PROVE \E e \in V : f[e] = u
      OBVIOUS
    <2>0. PICK x \in S : \E t \in 0..Size(x) - 2 : u = <<x, t>>
      <3>1. CASE u \in A \X (0..code.r - 1)
        <4>1. PICK x \in A, t \in 0..code.r - 1 : u = <<x, t>>
          BY <3>1
        <4>2. t \in 0..Size(x) - 2
          BY <1>1, SMT
        <4>. QED
          BY <4>1, <4>2
      <3>2. CASE u \in B \X (0..m - 2)
        BY <3>2
      <3>. QED
        BY <3>1, <3>2
    <2>1. PICK t \in 0..Size(x) - 2 : u = <<x, t>>
      BY <2>0
    <2>2. x \in OurNames
      OBVIOUS
    <2>3. Size(x) \in 2..code.r + 1 /\ Slot(x) \in 0..Size(x) - 1
      BY <2>2, SlotFacts
    <2>. DEFINE v == IF t < Slot(x) THEN t ELSE t + 1
    <2>4. /\ v \in 0..Size(x) - 1 /\ v # Slot(x)
          /\ (IF v < Slot(x) THEN v ELSE v - 1) = t
      BY <1>1, <2>3, SMT
    <2>. HIDE DEF v
    <2>5. PICK z \in OurNames : GroupName(z) = GroupName(x) /\ Slot(z) = v
      BY <2>2, <2>4, SlotFacts
    <2>. DEFINE e == <<x, {z}>>
    <2>6. e \in V /\ y(e) = z
      BY <1>4, <2>4, <2>5
    <2>7. e[1] = x
      OBVIOUS
    <2>. HIDE DEF e, V
    <2>8. skip(e) = t
      BY <2>4, <2>5, <2>6, <2>7
    <2>9. f[e] = <<x, t>>
      <3>. HIDE DEF skip
      <3>. QED
        BY <2>6, <2>7, <2>8
    <2>. QED
      BY <2>1, <2>6, <2>9
  <1>. HIDE DEF skip
  <1>10. f \in [V -> U]
    BY <1>7
  <1>11. IsFiniteSet(A) /\ IsFiniteSet(B)
    BY NamesAndPlaces, FS_Subset
  <1>12. /\ IsFiniteSet(0..code.r - 1) /\ Cardinality(0..code.r - 1) = code.r
         /\ IsFiniteSet(0..m - 2) /\ Cardinality(0..m - 2) = m - 1
    <2>1. m - 1 \in Nat /\ m - 2 = (m - 1) - 1
      BY <1>1, SMT
    <2>. QED
      BY <1>1, <2>1, UpTo
  <1>. DEFINE X == A \X (0..code.r - 1)
              Y == B \X (0..m - 2)
  <1>13. /\ IsFiniteSet(X) /\ Cardinality(X) = Cardinality(A) * code.r
         /\ IsFiniteSet(Y) /\ Cardinality(Y) = Cardinality(B) * (m - 1)
    BY <1>11, <1>12, FS_Product
  <1>14. X \cap Y = {}
    OBVIOUS
  <1>. HIDE DEF X, Y
  <1>15. IsFiniteSet(X \cup Y) /\ Cardinality(X \cup Y) = Cardinality(X) + Cardinality(Y)
    <2>1. Cardinality(X \cap Y) = 0
      BY <1>14, FS_EmptySet
    <2>2. Cardinality(X) \in Nat /\ Cardinality(Y) \in Nat
      BY <1>13, FS_CardinalityType
    <2>3. Cardinality(X \cup Y) = Cardinality(X) + Cardinality(Y) - 0 /\ IsFiniteSet(X \cup Y)
      BY <1>13, <2>1, FS_Union
    <2>. QED
      BY <2>2, <2>3, SMT
  <1>16. U = X \cup Y
    BY DEF X, Y
  <1>. HIDE DEF f, U, V
  <1>17. Cardinality(V) = Cardinality(U)
    BY <1>8, <1>9, <1>10, <1>15, <1>16, CountByBijection
  <1>18. Total(S, Single, Dict) = Cardinality(V)
    BY DEF Total, V
  <1>. QED
    BY <1>13, <1>15, <1>16, <1>17, <1>18

(***************************************************************************)
(* The last group, and how many blocks there are before it.                *)
(***************************************************************************)
LEMMA LastGroupFacts ==
    ASSUME code \in Codes
    PROVE  LET l == Groups - 1
               m == GroupSize(l, code.n, code.r)
           IN  /\ l \in Nat /\ m \in 2..code.r + 1
               /\ l * (code.r + 1) \in Nat /\ l * code.r \in Nat
               /\ code.n = l * (code.r + 1) + m
               /\ code.k <= l * code.r + m - 1
               /\ code.n % (code.r + 1) = IF m = code.r + 1 THEN 0 ELSE m
               /\ \A j \in 0..Groups - 1 : j # l => GroupSize(j, code.n, code.r) = code.r + 1
  <1>. DEFINE w == code.r + 1
              l == Groups - 1
              m == GroupSize(l, code.n, code.r)
              z == l * w
              t == l * code.r
  <1>1. /\ ValidCode(code.n, code.k, code.r)
        /\ code.n \in Nat \ {0} /\ code.k \in Nat \ {0} /\ code.r \in Nat \ {0}
        /\ Groups \in Nat \ {0} /\ Globals \in Nat /\ code.k + Globals = code.n - Groups
    BY CodeFacts
  <1>2. l \in Nat /\ l \in 0..LocalGroups(code.n, code.r) - 1 /\ l = LocalGroups(code.n, code.r) - 1
    BY <1>1, SMT DEF Groups
  <1>3. /\ z \in Nat /\ t \in Nat /\ m \in 2..w
        /\ ParityPos(l, code.n, code.r) = z + m - 1 /\ ParityPos(l, code.n, code.r) = code.n - 1
        /\ t + m - 1 = code.n - Groups
    BY <1>1, <1>2, GroupShape DEF Groups
  <1>4. \A j \in 0..Groups - 1 : j # l => GroupSize(j, code.n, code.r) = w
    <2>. SUFFICES ASSUME NEW j \in 0..Groups - 1, j # l PROVE GroupSize(j, code.n, code.r) = w
      OBVIOUS
    <2>1. j \in 0..LocalGroups(code.n, code.r) - 1 /\ j < LocalGroups(code.n, code.r) - 1
      BY <1>1, SMT DEF Groups
    <2>. QED
      BY <1>1, <2>1, GroupShape
  <1>5. w \in Nat \ {0} /\ w * l = z
    BY <1>1, <1>2, SMT
  <1>. HIDE DEF z, t, m, w
  <1>6. code.n = z + m /\ code.k <= t + m - 1
    BY <1>1, <1>3, <1>5, SMT
  <1>7. code.n % w = IF m = w THEN 0 ELSE m
    <2>1. code.n % w = code.n - w * (code.n \div w)
      BY <1>1, <1>5, ModFact
    <2>2. CASE m = w
      <3>1. l + 1 \in Nat /\ w * (l + 1) = z + w
        <4>1. l + 1 \in Nat
          BY <1>2, SMT
        <4>2. w * (l + 1) = w * l + w
          BY <1>2, <1>5, MulNext
        <4>. QED
          BY <1>5, <4>1, <4>2
      <3>2. w * (l + 1) <= code.n /\ code.n < w * (l + 1) + w
        BY <1>3, <1>5, <1>6, <2>2, <3>1, SMT
      <3>3. code.n \div w = l + 1
        BY <1>1, <1>5, <3>1, <3>2, DivUnique
      <3>. QED
        BY <1>3, <1>5, <1>6, <2>1, <2>2, <3>1, <3>3, SMT
    <2>3. CASE m # w
      <3>1. w * l <= code.n /\ code.n < w * l + w
        BY <1>3, <1>5, <1>6, <2>3, SMT
      <3>2. code.n \div w = l
        BY <1>1, <1>2, <1>5, <3>1, DivUnique
      <3>. QED
        BY <1>3, <1>5, <1>6, <2>1, <2>3, <3>2, SMT
    <2>. QED
      BY <2>2, <2>3
  <1>. QED
    BY <1>2, <1>3, <1>4, <1>6, <1>7 DEF z, t, m, w

(***************************************************************************)
(* The cost of all blocks with a rack per block.                           *)
(***************************************************************************)
LEMMA FlatIsNRC ==
    ASSUME code \in Codes, SimCovers
    PROVE  Total(OurNames, Single, Dict) = FlatNRC(code.n, code.k, code.r)
  <1>. DEFINE w == code.r + 1
              l == Groups - 1
              m == GroupSize(l, code.n, code.r)
              z == l * w
              A == {x \in OurNames : GroupName(x) # l}
              B == {x \in OurNames : GroupName(x) = l}
              e == code.n % w
  <1>1. /\ l \in Nat /\ m \in 2..w /\ z \in Nat /\ code.n = z + m
        /\ e = IF m = w THEN 0 ELSE m
        /\ \A j \in 0..Groups - 1 : j # l => GroupSize(j, code.n, code.r) = w
    BY LastGroupFacts
  <1>2. code.r \in Nat \ {0} /\ w \in Nat \ {0} /\ Groups \in Nat \ {0} /\ code.n \in Nat
    BY CodeFacts, SMT
  <1>3. \A x \in OurNames : /\ GroupName(x) \in 0..Groups - 1
                            /\ Slot(x) \in 0..Size(x) - 1 /\ Size(x) \in 2..w
                            /\ NodePlace(x) = GroupName(x) * w + Slot(x)
    BY SlotFacts
  <1>4. \A x \in A : Size(x) = w
    BY <1>1, <1>3 DEF Size
  <1>5. \A x \in B : Size(x) = m
    BY DEF Size
  <1>6. A \cup B = OurNames /\ A \cap B = {}
    OBVIOUS
  <1>. HIDE DEF m, l
  <1>7. Cardinality(B) = m
    <2>. DEFINE f == [x \in B |-> Slot(x)]
    <2>1. f \in [B -> 0..m - 1]
      BY <1>3, <1>5
    <2>2. \A x, y \in B : f[x] = f[y] => x = y
      BY SlotFacts
    <2>3. \A t \in 0..m - 1 : \E x \in B : f[x] = t
      <3>. SUFFICES ASSUME NEW t \in 0..m - 1 PROVE \E x \in B : f[x] = t
        OBVIOUS
      <3>1. <<"L", l>> \in OurNames /\ GroupName(<<"L", l>>) = l
        <4>1. l \in 0..Groups - 1
          BY <1>1, <1>2, SMT DEF l
        <4>2. <<"L", l>> \in OurNames
          BY <4>1, NamesAre
        <4>3. NodePlace(<<"L", l>>) = ParityPos(l, code.n, code.r)
          BY DEF NodePlace
        <4>4. GroupOf(ParityPos(l, code.n, code.r), code.r) = l
          BY <4>1, LaidParity
        <4>5. GroupName(<<"L", l>>) = l
          BY <4>2, <4>3, <4>4, NamesAndPlaces DEF GroupName
        <4>. QED
          BY <4>2, <4>5
      <3>2. Size(<<"L", l>>) = m
        BY <1>5, <3>1
      <3>3. PICK y \in OurNames : GroupName(y) = l /\ Slot(y) = t
        BY <3>1, <3>2, SlotFacts
      <3>. QED
        BY <3>3
    <2>4. IsFiniteSet(0..m - 1) /\ Cardinality(0..m - 1) = m
      <3>1. m \in Nat
        BY <1>1, <1>2, SMT
      <3>. QED
        BY <3>1, UpTo
    <2>. HIDE DEF f, B
    <2>. QED
      BY <2>1, <2>2, <2>3, <2>4, CountByBijection
  <1>8. Cardinality(A) = z
    <2>. DEFINE f == [x \in A |-> NodePlace(x)]
    <2>1. ASSUME NEW x \in OurNames
          PROVE  GroupName(x) # l <=> NodePlace(x) \in 0..z - 1
      <3>. DEFINE j == GroupName(x)
                  v == j * w
      <3>1. /\ j \in Nat /\ j <= l /\ Slot(x) \in Nat /\ Slot(x) < w
            /\ NodePlace(x) = v + Slot(x)
        <4>1. j \in 0..Groups - 1 /\ Slot(x) \in 0..Size(x) - 1 /\ Size(x) \in 2..w
              /\ NodePlace(x) = v + Slot(x)
          BY <1>3
        <4>. HIDE DEF j, v
        <4>. QED
          BY <1>2, <4>1, SMT DEF l
      <3>. HIDE DEF j
      <3>2. v \in Nat /\ w * j = v /\ w * l = z /\ w * (j + 1) = v + w
        BY <1>1, <1>2, <3>1, SMT
      <3>3. CASE j = l
        <4>1. v = z
          BY <3>3
        <4>. HIDE DEF v, z, w
        <4>. QED
          BY <1>1, <3>1, <3>2, <3>3, <4>1, SMT DEF j
      <3>4. CASE j # l
        <4>1. j + 1 <= l /\ j + 1 \in Nat
          BY <1>1, <3>1, <3>4, SMT
        <4>2. w * (j + 1) <= w * l
          BY <1>1, <1>2, <4>1, MulMono
        <4>3. v + w <= z
          BY <3>2, <4>2
        <4>. HIDE DEF v, z, w
        <4>. QED
          BY <1>1, <1>2, <3>1, <3>2, <3>4, <4>3, SMT DEF j
      <3>. QED
        BY <3>3, <3>4
    <2>. HIDE DEF z
    <2>2. f \in [A -> 0..z - 1]
      BY <2>1
    <2>3. \A x, y \in A : f[x] = f[y] => x = y
      BY NamesAndPlaces
    <2>4. \A p \in 0..z - 1 : \E x \in A : f[x] = p
      <3>. SUFFICES ASSUME NEW p \in 0..z - 1 PROVE \E x \in A : f[x] = p
        OBVIOUS
      <3>1. p \in Positions
        BY <1>1, <1>2, SMT DEF Positions
      <3>2. NodeOf(p) \in OurNames /\ NodePlace(NodeOf(p)) = p
        BY <3>1, NamesAndPlaces
      <3>. QED
        BY <2>1, <3>2
    <2>5. IsFiniteSet(0..z - 1) /\ Cardinality(0..z - 1) = z
      BY <1>1, UpTo
    <2>. HIDE DEF f, A
    <2>. QED
      BY <2>2, <2>3, <2>4, <2>5, CountByBijection
  <1>. HIDE DEF A, B
  <1>9. Total(A \cup B, Single, Dict) = Cardinality(A) * code.r + Cardinality(B) * (m - 1)
    <2>1. A \subseteq OurNames /\ B \subseteq OurNames
      BY DEF A, B
    <2>. QED
      BY <1>1, <1>4, <1>5, <1>6, <2>1, FlatCount
  <1>10. Total(OurNames, Single, Dict) = z * code.r + m * (m - 1)
    BY <1>6, <1>7, <1>8, <1>9
  <1>11. FlatNRC(code.n, code.k, code.r) = (code.n - e) * code.r + e * (e - 1)
    BY DEF FlatNRC
  <1>. HIDE DEF e, z
  <1>12. CASE m = w
    <2>1. (code.n - e) * code.r + e * (e - 1) = (z + w) * code.r
      BY <1>1, <1>2, <1>12, SMT
    <2>2. m * (m - 1) = w * code.r
      BY <1>1, <1>2, <1>12, SMT
    <2>3. (z + w) * code.r = z * code.r + w * code.r
      <3>. HIDE DEF w
      <3>. QED
        BY <1>1, <1>2, SMT
    <2>. QED
      BY <1>10, <1>11, <2>1, <2>2, <2>3
  <1>13. CASE m # w
    <2>1. e = m /\ code.n - e = z
      BY <1>1, <1>2, <1>13, SMT
    <2>. QED
      BY <1>10, <1>11, <2>1
  <1>. QED
    BY <1>12, <1>13

(***************************************************************************)
(* The cost of the data blocks with a rack per block.                      *)
(***************************************************************************)
LEMMA FlatIsDRC ==
    ASSUME code \in Codes, SimCovers
    PROVE  Total({x \in OurNames : x[1] = "D"}, Single, Dict) = FlatDRC(code.n, code.k, code.r)
  <1>. DEFINE w == code.r + 1
              l == Groups - 1
              m == GroupSize(l, code.n, code.r)
              t == l * code.r
              c == CeilDiv(code.k, code.r)
              data == {x \in OurNames : x[1] = "D"}
              e == code.n % w
  <1>1. /\ l \in Nat /\ m \in 2..w /\ t \in Nat /\ code.k <= t + m - 1
        /\ e = IF m = w THEN 0 ELSE m
        /\ \A j \in 0..Groups - 1 : j # l => GroupSize(j, code.n, code.r) = w
    BY LastGroupFacts
  <1>2. /\ code.r \in Nat \ {0} /\ w \in Nat \ {0} /\ Groups \in Nat \ {0}
        /\ code.n \in Nat /\ code.k \in Nat \ {0}
    BY CodeFacts, SMT
  <1>3. data = {"D"} \X (0..code.k - 1) /\ data \subseteq OurNames
    BY NamesAre
  <1>4. code.r * l = t
    BY <1>1, <1>2, SMT
  <1>5. c \in Nat /\ c <= Groups /\ code.r * c <= code.k + code.r - 1
        /\ code.k + code.r - 1 < code.r * c + code.r
    <2>1. code.k + code.r - 1 \in Nat
      BY <1>2, SMT
    <2>. QED
      BY <1>2, <2>1, CapacityFacts, DivFact DEF CeilDiv
  <1>6. CeilDiv(code.n, w) = Groups
    BY NamesAre
  <1>7. FlatDRC(code.n, code.k, code.r)
          = IF Groups > c \/ e = 0 THEN code.k * code.r
            ELSE (code.k - (code.k % code.r)) * code.r + (code.k % code.r) * (e - 1)
    BY <1>6 DEF FlatDRC
  <1>. HIDE DEF c, e, t
  <1>8. ASSUME NEW y \in 0..code.k - 1
        PROVE  Size(<<"D", y>>) = IF y < t THEN w ELSE m
    <2>1. GroupName(<<"D", y>>) = y \div code.r
      BY DEF GroupName, OurGroup
    <2>2. <<"D", y>> \in OurNames
      BY <1>3
    <2>3. y \div code.r \in 0..Groups - 1
      BY <2>1, <2>2, SlotFacts
    <2>4. y \in Nat
      BY <1>2, SMT
    <2>5. CASE y < t
      <3>1. y \div code.r # l
        <4>1. code.r * (y \div code.r) <= y
          BY <1>2, <2>4, DivFact
        <4>. QED
          BY <1>1, <1>4, <2>4, <2>5, <4>1, SMT
      <3>. QED
        BY <1>1, <2>1, <2>3, <2>5, <3>1 DEF Size
    <2>6. CASE ~(y < t)
      <3>1. code.r * l <= y /\ y < code.r * l + code.r
        <4>. HIDE DEF m, l
        <4>. QED
          BY <1>1, <1>2, <1>4, <2>4, <2>6, SMT
      <3>2. y \div code.r = l
        BY <1>1, <1>2, <2>4, <3>1, DivUnique
      <3>. QED
        BY <2>1, <2>6, <3>2 DEF Size
    <2>. QED
      BY <2>5, <2>6
  <1>. HIDE DEF m, l
  <1>9. CASE Groups > c
    <2>1. code.k <= t
      <3>1. c <= l
        BY <1>2, <1>5, <1>9, SMT DEF l
      <3>2. code.r * c <= code.r * l
        BY <1>1, <1>2, <1>5, <3>1, MulMono
      <3>. DEFINE v == code.r * c
      <3>3. v <= t /\ v \in Nat /\ code.k + code.r - 1 < v + code.r
        BY <1>2, <1>4, <1>5, <3>2, MulNat
      <3>. HIDE DEF v
      <3>. QED
        BY <1>1, <1>2, <3>3, SMT
    <2>2. \A x \in data : Size(x) = code.r + 1
      <3>. SUFFICES ASSUME NEW y \in 0..code.k - 1 PROVE Size(<<"D", y>>) = code.r + 1
        BY <1>3
      <3>1. y < t
        BY <1>1, <1>2, <2>1, SMT
      <3>. QED
        BY <1>8, <3>1
    <2>. HIDE DEF data
    <2>3. Total(data \cup {}, Single, Dict)
             = Cardinality(data) * code.r + Cardinality({}) * (m - 1)
      BY <1>1, <1>3, <2>2, FlatCount
    <2>4. Cardinality(data) = code.k
      <3>1. IsFiniteSet(0..code.k - 1) /\ Cardinality(0..code.k - 1) = code.k
        BY <1>2, UpTo
      <3>2. IsFiniteSet({"D"}) /\ Cardinality({"D"}) = 1
        BY FS_Singleton
      <3>3. Cardinality(data) = 1 * code.k
        BY <1>3, <3>1, <3>2, FS_Product
      <3>. QED
        BY <1>2, <3>3, SMT
    <2>5. Cardinality({}) = 0 /\ data \cup {} = data
      BY FS_EmptySet
    <2>6. code.k * code.r + 0 * (m - 1) = code.k * code.r
      BY <1>1, <1>2, SMT
    <2>. QED
      BY <1>7, <1>9, <2>3, <2>4, <2>5, <2>6 DEF data
  <1>10. CASE ~(Groups > c)
    <2>. DEFINE A == {"D"} \X (0..t - 1)
                B == {"D"} \X (t..code.k - 1)
                d == code.k - t
    <2>1. t + 1 <= code.k
      <3>1. c = Groups /\ c = l + 1
        BY <1>2, <1>5, <1>10, SMT DEF l
      <3>2. code.r * c = t + code.r
        BY <1>1, <1>2, <1>4, <3>1, SMT
      <3>. QED
        BY <1>1, <1>2, <1>5, <3>2, SMT
    <2>2. d \in Nat \ {0} /\ d <= m - 1 /\ code.k = t + d
      BY <1>1, <1>2, <2>1, SMT
    <2>3. \A x \in A : x \in data /\ Size(x) = code.r + 1
      <3>. SUFFICES ASSUME NEW y \in 0..t - 1
                    PROVE  <<"D", y>> \in data /\ Size(<<"D", y>>) = code.r + 1
        BY <1>3
      <3>1. y \in 0..code.k - 1 /\ y < t
        BY <1>1, <1>2, <2>1, SMT
      <3>. QED
        BY <1>3, <1>8, <3>1
    <2>4. \A x \in B : x \in data /\ Size(x) = m
      <3>. SUFFICES ASSUME NEW y \in t..code.k - 1
                    PROVE  <<"D", y>> \in data /\ Size(<<"D", y>>) = m
        BY <1>3
      <3>1. y \in 0..code.k - 1 /\ ~(y < t)
        BY <1>1, <1>2, <2>1, SMT
      <3>. QED
        BY <1>3, <1>8, <3>1
    <2>5. A \cup B = data /\ A \cap B = {}
      <3>1. (0..t - 1) \cup (t..code.k - 1) = 0..code.k - 1
        BY <1>1, <1>2, <2>1, SMT
      <3>2. (0..t - 1) \cap (t..code.k - 1) = {}
        BY <1>1, <1>2, SMT
      <3>. QED
        BY <1>3, <3>1, <3>2
    <2>6. Cardinality(A) = t /\ Cardinality(B) = d
      <3>1. IsFiniteSet(0..t - 1) /\ Cardinality(0..t - 1) = t
        BY <1>1, UpTo
      <3>2. IsFiniteSet(t..code.k - 1) /\ Cardinality(t..code.k - 1) = d
        <4>1. t \in Int /\ code.k - 1 \in Int /\ ~(t > code.k - 1) /\ (code.k - 1) - t + 1 = d
          BY <1>1, <1>2, <2>1, SMT
        <4>. QED
          BY <4>1, FS_Interval
      <3>3. IsFiniteSet({"D"}) /\ Cardinality({"D"}) = 1
        BY FS_Singleton
      <3>. HIDE DEF d
      <3>4. Cardinality(A) = 1 * t
        BY <3>1, <3>3, FS_Product
      <3>5. Cardinality(B) = 1 * d
        BY <3>2, <3>3, FS_Product
      <3>. HIDE DEF A, B
      <3>. QED
        BY <1>1, <2>2, <3>4, <3>5, SMT
    <2>. HIDE DEF A, B, d, data
    <2>7. Total(A \cup B, Single, Dict) = Cardinality(A) * code.r + Cardinality(B) * (m - 1)
      <3>1. A \subseteq OurNames /\ B \subseteq OurNames
        BY <1>3, <2>5
      <3>2. \A x \in A : Size(x) = code.r + 1
        BY <2>3
      <3>3. \A x \in B : Size(x) = m
        BY <2>4
      <3>. QED
        BY <1>1, <2>5, <3>1, <3>2, <3>3, FlatCount
    <2>8. Total(data, Single, Dict) = t * code.r + d * (m - 1)
      BY <2>5, <2>6, <2>7
    <2>9. CASE m = w
      <3>1. e = 0 /\ m - 1 = code.r
        BY <1>1, <1>2, <2>9, SMT
      <3>2. t * code.r + d * code.r = code.k * code.r
        BY <1>1, <1>2, <2>2, SMT
      <3>. QED
        BY <1>7, <2>8, <3>1, <3>2 DEF data
    <2>10. CASE m # w
      <3>1. e = m /\ e # 0
        BY <1>1, <1>2, <2>10, SMT
      <3>2. code.r * l <= code.k /\ code.k < code.r * l + code.r
        BY <1>1, <1>2, <1>4, <2>2, <2>10, SMT
      <3>3. code.k \div code.r = l
        BY <1>1, <1>2, <3>2, DivUnique
      <3>4. code.k % code.r = d
        <4>1. code.k % code.r = code.k - code.r * l
          BY <1>2, <3>3, ModFact
        <4>2. code.r * l = t
          BY <1>1, <1>2, <1>4, SMT
        <4>. QED
          BY <1>1, <1>2, <2>2, <4>1, <4>2, SMT
      <3>5. code.k - d = t
        BY <1>1, <2>2, SMT
      <3>. QED
        BY <1>7, <1>10, <2>8, <3>1, <3>4, <3>5 DEF data
    <2>. QED
      BY <2>9, <2>10
  <1>. QED
    BY <1>9, <1>10

(***************************************************************************)
(* The closed formulas of the flat placement (flat.py) are the costs of a  *)
(* rack per block, and the repair-optimal placement (our_placement.py)     *)
(* costs no more, for every code.                                          *)
(***************************************************************************)
THEOREM OursIsNoWorse ==
    Spec => []OursNoWorseThanFlat
  <1>1. LayoutInv => OursNoWorseThanFlat
    <2>. SUFFICES ASSUME LayoutInv, SimCovers PROVE OursNoWorseThanFlat
      BY DEF OursNoWorseThanFlat
    <2>. DEFINE data == {x \in OurNames : x[1] = "D"}
                ours == OurRacks(code.n, code.k, code.r)
    <2>1. code \in Codes
      BY DEF LayoutInv
    <2>2. UNION ours = OurNames /\ \A q, s \in ours : q = s \/ q \cap s = {}
      BY <2>1, OurRacksSurvive DEF Survivable
    <2>3. IsFiniteSet(OurNames)
      BY <2>1, NamesAndPlaces
    <2>4. data \in SUBSET OurNames /\ OurNames \in SUBSET OurNames
      OBVIOUS
    <2>. HIDE DEF data, ours
    <2>5. /\ Total(data, ours, Dict) <= Total(data, Single, Dict)
          /\ Total(OurNames, ours, Dict) <= Total(OurNames, Single, Dict)
      BY <2>2, <2>3, <2>4, RacksCostNoMore DEF Single
    <2>6. /\ Total(data, Single, Dict) = FlatDRC(code.n, code.k, code.r)
          /\ Total(OurNames, Single, Dict) = FlatNRC(code.n, code.k, code.r)
      BY <2>1, FlatIsDRC, FlatIsNRC DEF data
    <2>. QED
      BY <2>5, <2>6 DEF OursNoWorseThanFlat, n, k, r, data, ours, OurNames, Single, Dict
  <1>. QED
    BY <1>1, GroupsLaidOut, PTL

----------------------------------------------------------------------------
(***************************************************************************)
(* Counting the cuts: in m blocks cut into runs of b, the run changes      *)
(* (m - 1) \div b times.                                                   *)
(***************************************************************************)
LEMMA CutCount ==
    ASSUME NEW m \in Nat \ {0}, NEW b \in Nat \ {0}
    PROVE  LET cuts == {s \in 1..m - 1 : s \div b # (s - 1) \div b}
           IN  IsFiniteSet(cuts) /\ Cardinality(cuts) = (m - 1) \div b
  <1>. DEFINE cuts == {s \in 1..m - 1 : s \div b # (s - 1) \div b}
              C == (m - 1) \div b
              f == [s \in cuts |-> s \div b]
  <1>1. m - 1 \in Nat /\ C \in Nat /\ b * C <= m - 1 /\ b * C \in Nat
    <2>1. m - 1 \in Nat
      BY SMT
    <2>. QED
      BY <2>1, DivFact, MulNat
  <1>2. ASSUME NEW s \in cuts
        PROVE  s \div b \in 1..C /\ s = b * (s \div b)
    <2>1. s \in Nat /\ s - 1 \in Nat /\ s <= m - 1 /\ s \div b # (s - 1) \div b
      BY SMT
    <2>. DEFINE c == s \div b
                v == b * c
    <2>2. c \in Nat /\ v \in Nat /\ v <= s /\ s < v + b
      BY <2>1, DivFact, MulNat
    <2>3. c <= C
      BY <1>1, <2>1, DivMono
    <2>4. ~(v <= s - 1 /\ s - 1 < v + b)
      BY <2>1, <2>2, DivUnique
    <2>. HIDE DEF v
    <2>5. s = v
      BY <2>1, <2>2, <2>4, SMT
    <2>. HIDE DEF C, c
    <2>6. c # 0
      <3>1. c = 0 => v = 0
        BY SMT DEF v
      <3>. QED
        BY <2>1, <2>2, <2>4, <2>5, <3>1, SMT
    <2>7. c \in 1..C
      BY <1>1, <2>2, <2>3, <2>6, SMT
    <2>. QED
      BY <2>5, <2>7 DEF v, c
  <1>3. ASSUME NEW c \in 1..C
        PROVE  b * c \in cuts /\ (b * c) \div b = c
    <2>. DEFINE v == b * c
                u == b * (c - 1)
    <2>. HIDE DEF C
    <2>1. c \in Nat /\ c - 1 \in Nat /\ c <= C
      BY <1>1, SMT
    <2>2. v \in Nat /\ u \in Nat /\ v <= b * C
      BY <1>1, <2>1, MulNat, MulMono
    <2>3. v = u + b
      <3>1. b * ((c - 1) + 1) = b * (c - 1) + b
        BY <2>1, MulNext
      <3>2. (c - 1) + 1 = c
        BY <2>1, SMT
      <3>. QED
        BY <3>1, <3>2
    <2>4. v \div b = c
      <3>1. b * c <= v /\ v < b * c + b
        <4>. HIDE DEF u
        <4>1. v <= v /\ v < v + b
          BY <2>2, SMT DEF v
        <4>. QED
          BY <4>1
      <3>. QED
        BY <2>1, <2>2, <3>1, DivUnique
    <2>5. (v - 1) \div b = c - 1
      <3>. HIDE DEF v, u
      <3>1. v - 1 \in Nat /\ u <= v - 1 /\ v - 1 < u + b
        BY <2>2, <2>3, SMT
      <3>. QED
        BY <2>1, <3>1, DivUnique DEF u
    <2>6. v \in 1..m - 1
      <3>. DEFINE e == b * C
      <3>1. e \in Nat /\ e <= m - 1 /\ v <= e
        BY <1>1, <2>2
      <3>. HIDE DEF v, u, e
      <3>. QED
        BY <1>1, <2>2, <2>3, <3>1, SMT
    <2>7. c # c - 1
      BY <2>1, SMT
    <2>. HIDE DEF v
    <2>8. v \in cuts
      BY <2>4, <2>5, <2>6, <2>7
    <2>. QED
      BY <2>4, <2>8 DEF v
  <1>. HIDE DEF C, cuts
  <1>4. f \in [cuts -> 1..C]
    BY <1>2
  <1>5. \A s, t \in cuts : f[s] = f[t] => s = t
    BY <1>2
  <1>6. \A c \in 1..C : \E s \in cuts : f[s] = c
    BY <1>3
  <1>7. IsFiniteSet(1..C) /\ Cardinality(1..C) = C
    BY <1>1, FS_Interval, SMT
  <1>. HIDE DEF f
  <1>8. IsFiniteSet(cuts) /\ Cardinality(cuts) = C
    BY <1>4, <1>5, <1>6, <1>7, CountByBijection
  <1>. QED
    BY <1>8 DEF cuts, C

(***************************************************************************)
(* node_rack[] as the placement gives it: the rack of every position.      *)
(***************************************************************************)
Ours == OurRacks(code.n, code.k, code.r)
Cap == Capacity(code.n, code.k, code.r)
Part(j) == {x \in OurNames : GroupName(x) = j}
RackOf == [p \in Positions |-> CHOOSE q \in Ours : NodeOf(p) \in q]

\* The rack of a position is the one rack that has its block.
LEMMA RackOfFacts ==
    ASSUME code \in Codes, SimCovers, NEW p \in Positions
    PROVE  /\ RackOf[p] \in Ours /\ NodeOf(p) \in RackOf[p]
           /\ \A q \in Ours : NodeOf(p) \in q => RackOf[p] = q
  <1>1. UNION Ours = OurNames /\ \A q, s \in Ours : q = s \/ q \cap s = {}
    BY OurRacksSurvive DEF Survivable, Ours
  <1>2. NodeOf(p) \in OurNames
    BY NodeOfFacts
  <1>3. PICK s \in Ours : NodeOf(p) \in s
    BY <1>1, <1>2
  <1>4. RackOf[p] \in Ours /\ NodeOf(p) \in RackOf[p]
    BY <1>3 DEF RackOf
  <1>. QED
    BY <1>1, <1>4

(***************************************************************************)
(* What the racks are.  If a group fits into a rack, blocks of one group   *)
(* are in one rack; if not, a rack is a slice of one group.                *)
(***************************************************************************)
LEMMA RacksAre ==
    ASSUME code \in Codes, SimCovers
    PROVE  /\ Cap >= code.r + 1 =>
                \A x, y \in OurNames : GroupName(x) = GroupName(y) =>
                    \E q \in Ours : x \in q /\ y \in q
           /\ ~(Cap >= code.r + 1) =>
                Ours = UNION {Slices(Part(j), Cap) : j \in 0..Groups - 1}
  <1>. DEFINE each == GroupsPerRack(Cap, code.r)
              groups == 0..Groups - 1
              part(j) == OurRankGroup(j, code.n, code.k, code.r)
  <1>1. CeilDiv(code.n, code.r + 1) = Groups
    BY NamesAre
  <1>2. \A x \in OurNames : GroupName(x) \in groups
    BY NamesAndPlaces DEF GroupName
  <1>3. \A j : part(j) = Part(j)
    BY DEF OurRankGroup, OurNames, Part, GroupName
  <1>4. Ours = IF Cap >= code.r + 1
               THEN {UNION {part(j) : j \in {j \in groups : j \div each = c}} :
                         c \in {j \div each : j \in groups}}
               ELSE UNION {Slices(part(j), Cap) : j \in groups}
    BY <1>1 DEF OurRacks, Ours, Cap
  <1>. HIDE DEF each, part, groups
  <1>5. ASSUME Cap >= code.r + 1, NEW x \in OurNames, NEW y \in OurNames,
               GroupName(x) = GroupName(y)
        PROVE  \E q \in Ours : x \in q /\ y \in q
    <2>. DEFINE g == GroupName(x)
                q == UNION {part(j) : j \in {j \in groups : j \div each = g \div each}}
    <2>1. g \in groups
      BY <1>2
    <2>2. q \in Ours
      BY <1>4, <1>5, <2>1
    <2>3. x \in part(g) /\ y \in part(g)
      BY <1>3, <1>5 DEF Part
    <2>4. x \in q /\ y \in q
      BY <2>1, <2>3
    <2>. QED
      BY <2>2, <2>4
  <1>6. ~(Cap >= code.r + 1) => Ours = UNION {Slices(Part(j), Cap) : j \in groups}
    BY <1>3, <1>4
  <1>. QED
    BY <1>5, <1>6 DEF groups

(***************************************************************************)
(* In a group without global parities the names are in the order of the    *)
(* positions: the index of a block in the simulator's list of its group is *)
(* its slot.                                                               *)
(***************************************************************************)
LEMMA RankIsSlot ==
    ASSUME code \in Codes, SimCovers, NEW j, \A x \in Part(j) : x[1] # "G",
           NEW x \in Part(j)
    PROVE  Rank(x, Part(j)) = Slot(x)
  <1>1. /\ ValidCode(code.n, code.k, code.r) /\ code.n \in Nat \ {0}
        /\ code.k \in Nat \ {0} /\ code.r \in Nat \ {0} /\ Groups \in Nat \ {0}
    BY CodeFacts
  <1>2. /\ j \in 0..Groups - 1 /\ j * (code.r + 1) \in Nat /\ Size(x) \in 2..code.r + 1
        /\ Size(x) = GroupSize(j, code.n, code.r)
    BY SlotFacts DEF Part, Size
  <1>. DEFINE b == j * (code.r + 1)
              m == Size(x)
  <1>3. ASSUME NEW y \in Part(j)
        PROVE  /\ Slot(y) \in 0..m - 1
               /\ y[1] = "D" => y = <<"D", y[2]>> /\ y[2] \in Nat /\ Slot(y) = y[2] + j - b
               /\ y[1] # "D" => y = <<"L", j>> /\ Slot(y) = m - 1
    <2>1. y \in OurNames /\ GroupName(y) = j /\ y[1] # "G" /\ Size(y) = m
      BY DEF Part, Size
    <2>2. Slot(y) \in 0..m - 1 /\ NodePlace(y) = b + Slot(y)
      BY <2>1, SlotFacts
    <2>3. \/ y \in {"D"} \X (0..code.k - 1)
          \/ y \in {"L"} \X (0..Groups - 1)
      BY <2>1, NamesAre
    <2>4. CASE y \in {"D"} \X (0..code.k - 1)
      <3>1. y = <<"D", y[2]>> /\ y[2] \in 0..code.k - 1
        BY <2>4
      <3>2. y[2] \div code.r = j
        BY <2>1, <3>1 DEF GroupName, OurGroup
      <3>3. NodePlace(y) = y[2] + j
        BY <3>1, <3>2 DEF NodePlace, DataPos
      <3>4. y[2] \in Nat
        BY <1>1, <3>1, SMT
      <3>. HIDE DEF b, m
      <3>5. Slot(y) = y[2] + j - b
        BY <1>1, <1>2, <2>2, <3>3, <3>4, SMT DEF b
      <3>. QED
        BY <2>2, <3>1, <3>4, <3>5
    <2>5. CASE y \in {"L"} \X (0..Groups - 1)
      <3>1. y = <<"L", y[2]>> /\ y[2] \in 0..Groups - 1
        BY <2>5
      <3>2. NodePlace(y) = ParityPos(y[2], code.n, code.r)
        BY <3>1 DEF NodePlace
      <3>3. GroupOf(NodePlace(y), code.r) = y[2]
        BY <3>1, <3>2, LaidParity
      <3>4. GroupOf(NodePlace(y), code.r) = j
        BY <2>1, NamesAndPlaces DEF GroupName
      <3>5. NodePlace(y) = b + m - 1
        BY <1>2, <3>2, <3>3, <3>4 DEF ParityPos
      <3>. HIDE DEF b, m
      <3>6. b \in Nat /\ m \in Nat
        BY <1>1, <1>2, SMT DEF b, m
      <3>7. Slot(y) = m - 1
        BY <2>2, <3>5, <3>6, SMT
      <3>. QED
        BY <2>2, <3>1, <3>3, <3>4, <3>7
    <2>. QED
      BY <2>3, <2>4, <2>5
  <1>4. \A y \in Part(j) : Slot(y) = Slot(x) => y = x
    BY SlotFacts DEF Part
  <1>5. \A t \in 0..m - 1 : \E y \in Part(j) : Slot(y) = t
    BY SlotFacts DEF Part
  <1>6. j \in Nat /\ b \in Nat /\ m \in Nat /\ m >= 2
    BY <1>1, <1>2, SMT
  <1>. HIDE DEF b, m
  <1>7. \A y \in Part(j) : Before(y, x) <=> Slot(y) < Slot(x)
    <2>. SUFFICES ASSUME NEW y \in Part(j) PROVE Before(y, x) <=> Slot(y) < Slot(x)
      OBVIOUS
    <2>1. CASE y[1] = "D" /\ x[1] = "D"
      <3>1. y[2] \in Nat /\ x[2] \in Nat /\ Slot(y) = y[2] + j - b /\ Slot(x) = x[2] + j - b
        BY <1>3, <2>1
      <3>2. Letter(y) = 0 /\ Letter(x) = 0
        BY <2>1 DEF Letter
      <3>3. Before(y, x) <=> y[2] < x[2]
        BY <2>1, <3>2 DEF Before
      <3>. QED
        BY <1>6, <3>1, <3>3, SMT
    <2>2. CASE y[1] = "D" /\ x[1] # "D"
      <3>1. x = <<"L", j>> /\ Slot(x) = m - 1 /\ Slot(y) \in 0..m - 1
        BY <1>3, <2>2
      <3>2. Letter(y) = 0 /\ Letter(x) = 1
        BY <2>2, <3>1 DEF Letter
      <3>3. Before(y, x)
        BY <3>2 DEF Before
      <3>4. Slot(y) # Slot(x)
        BY <1>4, <2>2
      <3>. QED
        BY <1>6, <3>1, <3>3, <3>4, SMT
    <2>3. CASE y[1] # "D" /\ x[1] = "D"
      <3>1. y = <<"L", j>> /\ Slot(y) = m - 1 /\ Slot(x) \in 0..m - 1
        BY <1>3, <2>3
      <3>2. Letter(y) = 1 /\ Letter(x) = 0
        BY <2>3, <3>1 DEF Letter
      <3>3. y[1] # x[1]
        BY <2>3
      <3>4. ~Before(y, x)
        BY <3>2, <3>3 DEF Before
      <3>. QED
        BY <1>6, <3>1, <3>4, SMT
    <2>4. CASE y[1] # "D" /\ x[1] # "D"
      <3>1. y = x /\ y = <<"L", j>> /\ Slot(x) \in 0..m - 1
        BY <1>3, <2>4
      <3>2. ~Before(y, x)
        <4>1. x \in Names
          BY NamesAre DEF Part
        <4>. QED
          BY <3>1, <4>1, BeforeIsOrder
      <3>. QED
        BY <1>6, <3>1, <3>2, SMT
    <2>. QED
      BY <2>1, <2>2, <2>3, <2>4
  <1>8. Slot(x) \in Nat /\ Slot(x) \in 0..m - 1
    BY <1>3, <1>6, SMT
  <1>. DEFINE S == {y \in Part(j) : Before(y, x)}
              T == 0..Slot(x) - 1
              f == [y \in S |-> Slot(y)]
  <1>9. f \in [S -> T]
    <2>. SUFFICES ASSUME NEW y \in S PROVE Slot(y) \in T
      OBVIOUS
    <2>1. Slot(y) < Slot(x) /\ Slot(y) \in 0..m - 1
      BY <1>3, <1>7
    <2>. QED
      BY <1>6, <1>8, <2>1, SMT
  <1>10. \A y, z \in S : f[y] = f[z] => y = z
    BY SlotFacts DEF Part
  <1>11. \A t \in T : \E y \in S : f[y] = t
    <2>. SUFFICES ASSUME NEW t \in T PROVE \E y \in S : f[y] = t
      OBVIOUS
    <2>1. t \in 0..m - 1 /\ t < Slot(x)
      BY <1>6, <1>8, SMT
    <2>. QED
      BY <1>5, <1>7, <2>1
  <1>12. IsFiniteSet(T) /\ Cardinality(T) = Slot(x)
    BY <1>8, UpTo
  <1>. HIDE DEF f, S, T
  <1>13. Cardinality(S) = Slot(x)
    BY <1>9, <1>10, <1>11, <1>12, CountByBijection
  <1>. QED
    BY <1>13 DEF Rank, S

\* Where something differs from the start of an interval, it changes on the way.
LEMMA ChangesOnTheWay ==
    ASSUME NEW a \in Nat, NEW c \in Nat, NEW f, NEW q \in a..c, f[q] # f[a]
    PROVE  \E p \in a..c : p > a /\ f[p] # f[p - 1]
  <1>. DEFINE S == {p \in a..c : f[p] # f[a]}
  <1>1. S \in SUBSET Nat /\ S # {}
    <2>1. a..c \subseteq Nat
      BY SMT
    <2>. QED
      BY <2>1
  <1>. HIDE DEF S
  <1>2. PICK p \in S : \A y \in S : p <= y
    BY <1>1, MinExists
  <1>3. p \in a..c /\ f[p] # f[a]
    BY <1>2 DEF S
  <1>4. p # a
    BY <1>3
  <1>5. p > a /\ p - 1 \in a..c /\ ~(p <= p - 1)
    BY <1>3, <1>4, SMT
  <1>6. f[p - 1] = f[a]
    BY <1>2, <1>5 DEF S
  <1>. QED
    BY <1>3, <1>5, <1>6

(***************************************************************************)
(* The changes of rack along a group.                                      *)
(***************************************************************************)
Changes(j) == {p \in GroupPositions(j, code.n, code.r) :
                   p > j * (code.r + 1) /\ RackOf[p] # RackOf[p - 1]}

\* The positions of a group, and what RepairCrossings counts.
LEMMA ChangesFacts ==
    ASSUME code \in Codes, NEW j \in 0..Groups - 1
    PROVE  /\ j \in Nat /\ j * (code.r + 1) \in Nat
           /\ GroupSize(j, code.n, code.r) \in 2..code.r + 1
           /\ ParityPos(j, code.n, code.r) = j * (code.r + 1) + GroupSize(j, code.n, code.r) - 1
           /\ ParityPos(j, code.n, code.r) \in Nat
           /\ \A p \in GroupPositions(j, code.n, code.r) :
                 p \in Positions /\ p \in Nat /\ GroupOf(p, code.r) = j
           /\ IsFiniteSet(Changes(j))
           /\ RepairCrossings(RackOf, j) = Cardinality(Changes(j))
           /\ RepairCrossings(RackOf, j) > 0 <=> Changes(j) # {}
  <1>. DEFINE b == j * (code.r + 1)
              m == GroupSize(j, code.n, code.r)
              lp == ParityPos(j, code.n, code.r)
  <1>1. /\ ValidCode(code.n, code.k, code.r) /\ code.n \in Nat \ {0}
        /\ code.r \in Nat \ {0} /\ Groups \in Nat \ {0}
    BY CodeFacts
  <1>2. j \in Nat /\ b \in Nat /\ m \in 2..code.r + 1 /\ lp = b + m - 1 /\ lp \in 0..code.n - 1
    BY <1>1, GroupShape DEF Groups
  <1>3. b = (code.r + 1) * j
    BY <1>1, <1>2, SMT
  <1>4. GroupPositions(j, code.n, code.r) = b..lp
    BY DEF GroupPositions
  <1>. HIDE DEF b, m, lp
  <1>5. ASSUME NEW p \in b..lp
        PROVE  p \in Positions /\ p \in Nat /\ GroupOf(p, code.r) = j
    <2>1. p \in Nat /\ p \in 0..code.n - 1 /\ b <= p /\ p < b + (code.r + 1)
      BY <1>1, <1>2, SMT
    <2>2. code.r + 1 \in Nat \ {0}
      BY <1>1, SMT
    <2>3. p \div (code.r + 1) = j
      BY <1>2, <1>3, <2>1, <2>2, DivUnique
    <2>. QED
      BY <2>1, <2>3 DEF GroupOf, Positions
  <1>6. IsFiniteSet(b..lp) /\ b \in Int /\ lp \in Int /\ lp \in Nat
    <2>1. b \in Int /\ lp \in Int /\ lp \in Nat
      BY <1>1, <1>2, SMT
    <2>. QED
      BY <2>1, FS_Interval
  <1>7. IsFiniteSet(Changes(j))
    <2>1. Changes(j) \in SUBSET (b..lp)
      BY <1>4 DEF Changes
    <2>. QED
      BY <1>6, <2>1, FS_Subset
  <1>8. RepairCrossings(RackOf, j) = Cardinality(Changes(j))
    BY DEF RepairCrossings, Changes, n, r
  <1>9. Cardinality(Changes(j)) > 0 <=> Changes(j) # {}
    <2>1. Cardinality(Changes(j)) \in Nat
      BY <1>7, FS_CardinalityType
    <2>2. Cardinality(Changes(j)) = 0 <=> Changes(j) = {}
      BY <1>7, FS_EmptySet
    <2>. QED
      BY <2>1, <2>2, SMT
  <1>. QED
    BY <1>2, <1>4, <1>5, <1>6, <1>7, <1>8, <1>9 DEF b, m, lp

(***************************************************************************)
(* A set sends the local parity of a full group across the core if and     *)
(* only if a repair in that group crosses it.                              *)
(***************************************************************************)
LEMMA SetAsRepair ==
    ASSUME code \in Codes, SimCovers, NEW j \in 0..Groups - 1, NEW p \in Positions,
           p = j * (code.r + 1) + code.r
    PROVE  p \in SetCrosses(RackOf) <=> RepairCrossings(RackOf, j) > 0
  <1>. DEFINE b == j * (code.r + 1)
              G == GroupPositions(j, code.n, code.r)
              lp == ParityPos(j, code.n, code.r)
              Spans(q) == RackOf[q] # RackOf[GroupOf(q, code.r) * (code.r + 1)]
  <1>1. /\ ValidCode(code.n, code.k, code.r) /\ code.n \in Nat \ {0}
        /\ code.r \in Nat \ {0} /\ Groups \in Nat \ {0}
    BY CodeFacts
  <1>2. /\ j \in Nat /\ b \in Nat /\ lp \in Nat
        /\ lp <= b + code.r
        /\ \A q \in G : q \in Positions /\ q \in Nat /\ GroupOf(q, code.r) = j
        /\ RepairCrossings(RackOf, j) > 0 <=> Changes(j) # {}
    <2>1. /\ j \in Nat /\ b \in Nat /\ lp \in Nat
          /\ lp = b + GroupSize(j, code.n, code.r) - 1
          /\ GroupSize(j, code.n, code.r) \in 2..code.r + 1
          /\ \A q \in G : q \in Positions /\ q \in Nat /\ GroupOf(q, code.r) = j
          /\ RepairCrossings(RackOf, j) > 0 <=> Changes(j) # {}
      BY ChangesFacts
    <2>. HIDE DEF b, lp, G
    <2>2. lp <= b + code.r
      BY <1>1, <2>1, SMT
    <2>. QED
      BY <2>1, <2>2
  <1>3. p \in Nat /\ code.r + 1 \in Nat \ {0} /\ p + 1 \in Nat
    BY <1>1, <1>2, SMT
  <1>4. (p + 1) % (code.r + 1) = 0
    <2>. DEFINE w == code.r + 1
    <2>1. p + 1 = w * (j + 1)
      <3>1. w * (j + 1) = w * j + w
        BY <1>2, <1>3, MulNext
      <3>2. w * j = b
        BY <1>1, <1>2, SMT
      <3>. HIDE DEF b
      <3>3. p + 1 = b + w
        BY <1>1, <1>2, SMT DEF b
      <3>. QED
        BY <3>1, <3>2, <3>3
    <2>2. w \in Nat \ {0} /\ j + 1 \in Nat
      BY <1>2, <1>3, SMT
    <2>. HIDE DEF w
    <2>. DEFINE v == w * (j + 1)
    <2>3. v \in Nat
      BY <1>3, <2>1
    <2>4. v <= v /\ v < v + w
      <3>. HIDE DEF v
      <3>. QED
        BY <2>2, <2>3, SMT
    <2>5. v \div w = j + 1
      BY <2>2, <2>3, <2>4, DivUnique
    <2>6. v % w = v - w * (v \div w)
      BY <2>2, <2>3, ModFact
    <2>7. v % w = v - v
      BY <2>5, <2>6
    <2>. HIDE DEF v
    <2>8. v % w = 0
      BY <2>3, <2>7, SMT
    <2>. QED
      BY <2>1, <2>8 DEF v, w
  <1>5. p \in SetCrosses(RackOf) <=> \E q \in 0..p : Spans(q)
    BY <1>4 DEF SetCrosses, r, n
  <1>6. p \in G /\ lp = p
    <2>1. GroupOf(p, code.r) = j
      <3>1. (code.r + 1) * j <= p /\ p < (code.r + 1) * j + (code.r + 1)
        <4>1. (code.r + 1) * j = b
          BY <1>1, <1>2, SMT
        <4>. HIDE DEF b
        <4>2. b <= p /\ p < b + (code.r + 1)
          BY <1>1, <1>2, SMT DEF b
        <4>. QED
          BY <4>1, <4>2
      <3>. QED
        BY <1>2, <1>3, <3>1, DivUnique DEF GroupOf
    <2>2. p <= lp
      BY <1>1, <2>1, GroupOfRange DEF Positions
    <2>3. p = b + code.r
      OBVIOUS
    <2>4. G = b..lp
      BY DEF GroupPositions
    <2>. HIDE DEF b, lp, G
    <2>. QED
      BY <1>1, <1>2, <1>3, <2>2, <2>3, <2>4, SMT
  <1>7. ASSUME Changes(j) # {} PROVE \E q \in 0..p : Spans(q)
    <2>1. PICK q : q \in G /\ q > b /\ RackOf[q] # RackOf[q - 1]
      BY <1>7 DEF Changes
    <2>2. G = b..lp
      BY DEF GroupPositions
    <2>. HIDE DEF b, lp, G
    <2>3. q - 1 \in G /\ q \in 0..p /\ q - 1 \in 0..p
      BY <1>2, <1>3, <1>6, <2>1, <2>2, SMT
    <2>4. GroupOf(q, code.r) = j /\ GroupOf(q - 1, code.r) = j
      BY <1>2, <2>1, <2>3
    <2>5. RackOf[q] # RackOf[b] \/ RackOf[q - 1] # RackOf[b]
      BY <2>1
    <2>6. Spans(q) \/ Spans(q - 1)
      BY <2>4, <2>5 DEF b
    <2>. QED
      BY <2>3, <2>6
  <1>8. ASSUME NEW q \in 0..p, Spans(q) PROVE Changes(j) # {}
    <2>. DEFINE jq == GroupOf(q, code.r)
                first == jq * (code.r + 1)
    <2>1. q \in Positions
      BY <1>1, <1>3, SMT DEF Positions
    <2>2. jq \in 0..Groups - 1
      BY <1>1, <2>1, GroupOfRange DEF Positions, Groups
    <2>3. first \in Positions /\ GroupOf(first, code.r) = jq
      <3>1. first \in GroupPositions(jq, code.n, code.r)
        <4>1. /\ first \in Nat /\ ParityPos(jq, code.n, code.r) \in Nat
              /\ ParityPos(jq, code.n, code.r) = first + GroupSize(jq, code.n, code.r) - 1
              /\ GroupSize(jq, code.n, code.r) \in 2..code.r + 1
          BY <2>2, ChangesFacts
        <4>2. GroupPositions(jq, code.n, code.r) = first..ParityPos(jq, code.n, code.r)
          BY DEF GroupPositions
        <4>. HIDE DEF first
        <4>. QED
          BY <1>1, <4>1, <4>2, SMT
      <3>. QED
        BY <2>2, <3>1, ChangesFacts
    <2>4. ~(Cap >= code.r + 1)
      <3>. SUFFICES ASSUME Cap >= code.r + 1 PROVE FALSE
        OBVIOUS
      <3>1. /\ NodeOf(q) \in OurNames /\ NodeOf(first) \in OurNames
            /\ GroupName(NodeOf(q)) = jq /\ GroupName(NodeOf(first)) = jq
        <4>. HIDE DEF first, jq
        <4>. QED
          BY <2>1, <2>3, NodeOfFacts DEF GroupName, jq
      <3>2. PICK s \in Ours : NodeOf(q) \in s /\ NodeOf(first) \in s
        BY <3>1, RacksAre
      <3>. HIDE DEF first, jq
      <3>3. RackOf[q] = s /\ RackOf[first] = s
        BY <2>1, <2>3, <3>2, RackOfFacts
      <3>. QED
        BY <1>8, <3>3 DEF first, jq
    <2>5. SUFFICES ASSUME Changes(j) = {} PROVE FALSE
      OBVIOUS
    <2>6. \A t \in G : RackOf[t] = RackOf[b]
      <3>. SUFFICES ASSUME NEW t \in G, RackOf[t] # RackOf[b] PROVE FALSE
        OBVIOUS
      <3>1. G = b..lp
        BY DEF GroupPositions
      <3>. HIDE DEF b, lp, G
      <3>2. \E s \in b..lp : s > b /\ RackOf[s] # RackOf[s - 1]
        <4>1. t \in b..lp /\ b \in Nat /\ lp \in Nat /\ RackOf[t] # RackOf[b]
          BY <1>2, <3>1
        <4>. QED
          BY <4>1, ChangesOnTheWay, Zenon
      <3>. QED
        <4>1. PICK s \in b..lp : s > b /\ RackOf[s] # RackOf[s - 1]
          BY <3>2
        <4>2. s \in Changes(j)
          BY <3>1, <4>1 DEF Changes, G, b
        <4>. QED
          BY <2>5, <4>2
    <2>. DEFINE R == RackOf[b]
                f == [x \in 0..code.r |-> NodeOf(b + x)]
    <2>7. \A x \in 0..code.r : b + x \in G
      <3>1. G = b..lp /\ lp = b + code.r
        BY <1>6 DEF GroupPositions
      <3>. HIDE DEF b, lp, G
      <3>. QED
        BY <1>1, <1>2, <3>1, SMT
    <2>8. b \in Positions
      <3>1. 0 \in 0..code.r /\ b + 0 = b
        <4>. HIDE DEF b
        <4>. QED
          BY <1>1, <1>2, SMT
      <3>. QED
        BY <1>2, <2>7, <3>1
    <2>9. IsFiniteSet(R) /\ Cardinality(R) <= Cap /\ Cap \in Nat
      <3>1. R \in Ours
        BY <2>8, RackOfFacts
      <3>2. UNION Ours = OurNames /\ \A s \in Ours : Cardinality(s) <= Cap
        BY OurRacksSurvive DEF Survivable, Ours, Cap
      <3>3. R \in SUBSET OurNames
        BY <3>1, <3>2
      <3>4. IsFiniteSet(OurNames) /\ Cap \in Nat
        BY NamesAndPlaces, CapacityFacts DEF Cap
      <3>. QED
        BY <3>1, <3>2, <3>3, <3>4, FS_Subset
    <2>. HIDE DEF b, G
    <2>10. f \in [0..code.r -> R]
      <3>. SUFFICES ASSUME NEW x \in 0..code.r PROVE NodeOf(b + x) \in R
        OBVIOUS
      <3>1. b + x \in G /\ b + x \in Positions
        BY <1>2, <2>7
      <3>2. NodeOf(b + x) \in RackOf[b + x]
        BY <3>1, RackOfFacts
      <3>. QED
        BY <2>6, <3>1, <3>2
    <2>11. \A x, y \in 0..code.r : f[x] = f[y] => x = y
      <3>. SUFFICES ASSUME NEW x \in 0..code.r, NEW y \in 0..code.r, NodeOf(b + x) = NodeOf(b + y)
                    PROVE  x = y
        OBVIOUS
      <3>1. NodePlace(NodeOf(b + x)) = b + x /\ NodePlace(NodeOf(b + y)) = b + y
        BY <1>2, <2>7, NodeOfFacts
      <3>2. b + x = b + y
        BY <3>1
      <3>. QED
        BY <1>1, <1>2, <3>2, SMT
    <2>. HIDE DEF f, R
    <2>12. Cardinality(0..code.r) <= Cardinality(R) /\ Cardinality(R) \in Nat
      BY <2>9, <2>10, <2>11, CountByInjection, FS_CardinalityType
    <2>13. Cardinality(0..code.r) = code.r + 1
      <3>1. 0 \in Int /\ code.r \in Int /\ ~(0 > code.r) /\ code.r - 0 + 1 = code.r + 1
        BY <1>1, SMT
      <3>. QED
        BY <3>1, FS_Interval
    <2>. QED
      BY <1>1, <2>4, <2>9, <2>12, <2>13, SMT
  <1>. QED
    BY <1>2, <1>5, <1>7, <1>8

\* The blocks of a group: those at its positions.
LEMMA PartFacts ==
    ASSUME code \in Codes, SimCovers, NEW j \in 0..Groups - 1
    PROVE  /\ \A p \in GroupPositions(j, code.n, code.r) :
                 /\ NodeOf(p) \in Part(j)
                 /\ Slot(NodeOf(p)) = p - j * (code.r + 1)
           /\ \A y \in Part(j) :
                 /\ y \in OurNames /\ Dict[y] = j
                 /\ NodePlace(y) \in GroupPositions(j, code.n, code.r)
                 /\ NodeOf(NodePlace(y)) = y
                 /\ Slot(y) \in 0..GroupSize(j, code.n, code.r) - 1
  <1>1. ASSUME NEW p \in GroupPositions(j, code.n, code.r)
        PROVE  NodeOf(p) \in Part(j) /\ Slot(NodeOf(p)) = p - j * (code.r + 1)
    <2>1. p \in Positions /\ GroupOf(p, code.r) = j
      BY ChangesFacts
    <2>2. NodeOf(p) \in OurNames /\ GroupName(NodeOf(p)) = j /\ NodePlace(NodeOf(p)) = p
      BY <2>1, NodeOfFacts DEF GroupName
    <2>. QED
      BY <2>2 DEF Part, Slot
  <1>2. ASSUME NEW y \in Part(j)
        PROVE  /\ y \in OurNames /\ Dict[y] = j
               /\ NodePlace(y) \in GroupPositions(j, code.n, code.r)
               /\ NodeOf(NodePlace(y)) = y
               /\ Slot(y) \in 0..GroupSize(j, code.n, code.r) - 1
    <2>. DEFINE b == j * (code.r + 1)
                m == GroupSize(j, code.n, code.r)
    <2>1. y \in OurNames /\ GroupName(y) = j
      BY DEF Part
    <2>2. Dict[y] = j
      BY <2>1 DEF Dict, OurDict, OurNames, GroupName
    <2>3. NodeOf(NodePlace(y)) = y
      BY <2>1, NodePlaceFacts
    <2>4. Slot(y) \in 0..m - 1 /\ NodePlace(y) = b + Slot(y)
      BY <2>1, SlotFacts DEF Size
    <2>5. /\ b \in Nat /\ m \in 2..code.r + 1 /\ code.r \in Nat
          /\ GroupPositions(j, code.n, code.r) = b..(b + m - 1)
      BY ChangesFacts, CodeFacts DEF GroupPositions
    <2>. HIDE DEF b, m
    <2>6. NodePlace(y) \in b..(b + m - 1)
      BY <2>4, <2>5, SMT
    <2>. QED
      BY <2>1, <2>2, <2>3, <2>4, <2>5, <2>6 DEF m
  <1>. QED
    BY <1>1, <1>2

(***************************************************************************)
(* In a group without global parities a repair crosses the core as often   *)
(* as the simulator says.                                                  *)
(***************************************************************************)
LEMMA RepairAsSimulated ==
    ASSUME code \in Codes, SimCovers, NEW j \in 0..Groups - 1,
           \A q \in GroupPositions(j, code.n, code.r) : NodeOf(q)[1] # "G",
           NEW p \in GroupPositions(j, code.n, code.r)
    PROVE  RepairCrossings(RackOf, j) = RepairCost(NodeOf(p), Ours, Dict)
  <1>. DEFINE x == NodeOf(p)
              b == Cap
              base == j * (code.r + 1)
              m == GroupSize(j, code.n, code.r)
              G == GroupPositions(j, code.n, code.r)
              V == {q \in Ours : ReadsFrom(x, q, Dict)}
  <1>1. code.r \in Nat \ {0} /\ b \in Nat \ {0}
    BY CodeFacts, CapacityFacts DEF Cap
  <1>2. /\ j \in Nat /\ base \in Nat /\ m \in 2..code.r + 1
        /\ G = base..(base + m - 1)
        /\ \A q \in G : q \in Positions /\ q \in Nat /\ GroupOf(q, code.r) = j
        /\ IsFiniteSet(Changes(j))
        /\ RepairCrossings(RackOf, j) = Cardinality(Changes(j))
    BY ChangesFacts DEF GroupPositions
  <1>3. RepairCost(x, Ours, Dict) = Cardinality(V)
    BY DEF RepairCost
  <1>4. /\ \A q \in G : NodeOf(q) \in Part(j) /\ Slot(NodeOf(q)) = q - base
        /\ \A y \in Part(j) : /\ y \in OurNames /\ Dict[y] = j
                              /\ NodePlace(y) \in G /\ NodeOf(NodePlace(y)) = y
                              /\ Slot(y) \in 0..m - 1
    BY PartFacts
  <1>5. \A y \in Part(j) : Rank(y, Part(j)) = Slot(y)
    <2>1. \A y \in Part(j) : y[1] # "G"
      BY <1>4
    <2>. QED
      BY <2>1, RankIsSlot
  <1>6. /\ UNION Ours = OurNames /\ \A q, s \in Ours : q = s \/ q \cap s = {}
        /\ \A y \in OurNames : Dict[y] = GroupName(y)
    BY OurRacksSurvive DEF Survivable, Ours, Dict, OurDict, OurNames, GroupName
  <1>7. x \in Part(j) /\ x \in OurNames /\ GroupName(x) = j /\ Dict[x] = j
    BY <1>4 DEF Part
  <1>. HIDE DEF base, m, G, b
  <1>8. m \in Nat \ {0} /\ m >= 2
    BY <1>1, <1>2, SMT
  <1>9. CASE Cap >= code.r + 1
    <2>1. V = {}
      <3>. SUFFICES ASSUME NEW q \in V PROVE FALSE
        OBVIOUS
      <3>1. PICK y \in q : Dict[y] = Dict[x] /\ x \notin q /\ q \in Ours
        BY DEF ReadsFrom
      <3>2. y \in OurNames /\ GroupName(y) = GroupName(x)
        BY <1>6, <1>7, <3>1
      <3>3. PICK s \in Ours : x \in s /\ y \in s
        BY <1>7, <1>9, <3>2, RacksAre
      <3>. QED
        BY <1>6, <3>1, <3>3
    <2>2. Changes(j) = {}
      <3>. SUFFICES ASSUME NEW q \in Changes(j) PROVE FALSE
        OBVIOUS
      <3>1. q \in G /\ q > base /\ RackOf[q] # RackOf[q - 1]
        BY DEF Changes, G, base
      <3>2. q - 1 \in G
        BY <1>2, <1>8, <3>1, SMT
      <3>3. /\ NodeOf(q) \in OurNames /\ NodeOf(q - 1) \in OurNames
            /\ GroupName(NodeOf(q)) = GroupName(NodeOf(q - 1))
        BY <1>4, <3>1, <3>2 DEF Part
      <3>4. PICK s \in Ours : NodeOf(q) \in s /\ NodeOf(q - 1) \in s
        BY <1>9, <3>3, RacksAre
      <3>5. RackOf[q] = s /\ RackOf[q - 1] = s
        BY <1>2, <3>1, <3>2, <3>4, RackOfFacts
      <3>. QED
        BY <3>1, <3>5
    <2>. QED
      BY <1>2, <1>3, <2>1, <2>2
  <1>10. CASE ~(Cap >= code.r + 1)
    <2>. DEFINE C == (m - 1) \div b
                Slice(c) == {y \in Part(j) : Slot(y) \div b = c}
                e == Slot(x) \div b
                cuts == {s \in 1..m - 1 : s \div b # (s - 1) \div b}
    <2>1. Ours = UNION {Slices(Part(h), b) : h \in 0..Groups - 1}
      BY <1>10, RacksAre DEF b
    <2>2. m - 1 \in Nat /\ C \in Nat /\ b * C <= m - 1 /\ b * C \in Nat
      <3>1. m - 1 \in Nat
        BY <1>8, SMT
      <3>. QED
        BY <1>1, <3>1, DivFact, MulNat
    <2>3. ASSUME NEW y \in Part(j) PROVE Slot(y) \div b \in 0..C
      <3>1. Slot(y) \in Nat /\ Slot(y) <= m - 1
        BY <1>4, <1>8, SMT
      <3>2. Slot(y) \div b \in Nat /\ Slot(y) \div b <= C
        BY <1>1, <2>2, <3>1, DivMono
      <3>. HIDE DEF C
      <3>. QED
        BY <2>2, <3>2, SMT
    <2>4. ASSUME NEW t \in 0..m - 1
          PROVE  /\ base + t \in G /\ NodeOf(base + t) \in Slice(t \div b)
                 /\ t \div b \in 0..C
      <3>1. base + t \in G /\ (base + t) - base = t
        BY <1>2, <1>8, SMT
      <3>2. NodeOf(base + t) \in Part(j) /\ Slot(NodeOf(base + t)) = t
        BY <1>4, <3>1
      <3>. QED
        BY <2>3, <3>1, <3>2
    <2>5. ASSUME NEW c \in 0..C PROVE Slice(c) # {}
      <3>. DEFINE v == b * c
      <3>1. c \in Nat /\ c <= C
        BY <2>2, SMT
      <3>2. v \in Nat /\ v <= b * C
        BY <1>1, <2>2, <3>1, MulNat, MulMono
      <3>3. v \div b = c
        <4>1. v <= v /\ v < v + b
          <5>. HIDE DEF v
          <5>. QED
            BY <1>1, <3>2, SMT
        <4>. QED
          BY <1>1, <3>1, <3>2, <4>1, DivUnique
      <3>4. v \in 0..m - 1
        <4>. DEFINE z == b * C
        <4>1. z \in Nat /\ z <= m - 1 /\ v <= z
          BY <2>2, <3>2
        <4>. HIDE DEF v, z
        <4>. QED
          BY <1>8, <3>2, <4>1, SMT
      <3>. HIDE DEF v, C, Slice
      <3>. QED
        BY <2>4, <3>3, <3>4
    <2>6. Slices(Part(j), b) = {Slice(c) : c \in {Slot(y) \div b : y \in Part(j)}}
      <3>. DEFINE T(c) == {y \in Part(j) : Rank(y, Part(j)) \div b = c}
                  I == {Rank(y, Part(j)) \div b : y \in Part(j)}
                  H == {Slot(y) \div b : y \in Part(j)}
      <3>1. \A c : T(c) = Slice(c)
        BY <1>5
      <3>2. I = H
        BY <1>5
      <3>3. Slices(Part(j), b) = {T(c) : c \in I}
        BY DEF Slices
      <3>. HIDE DEF T, I, H, Slice
      <3>4. Slices(Part(j), b) = {Slice(c) : c \in H}
        BY <3>1, <3>2, <3>3
      <3>. QED
        BY <3>4 DEF H
    <2>7. ASSUME NEW c \in 0..C PROVE Slice(c) \in Ours
      <3>1. PICK y \in Part(j) : Slot(y) \div b = c
        BY <2>5
      <3>. HIDE DEF Slice, C
      <3>2. Slice(c) \in Slices(Part(j), b)
        BY <2>6, <3>1
      <3>. QED
        BY <2>1, <3>2
    <2>8. ASSUME NEW c \in 0..C, NEW d \in 0..C, Slice(c) = Slice(d) PROVE c = d
      <3>1. PICK y : y \in Slice(c)
        BY <2>5
      <3>. QED
        BY <2>8, <3>1
    <2>9. e \in 0..C /\ \A c : x \in Slice(c) <=> c = e
      BY <1>7, <2>3
    <2>10. Cardinality(V) = C
      <3>. DEFINE J == (0..C) \ {e}
                  f == [c \in J |-> Slice(c)]
      <3>1. IsFiniteSet(V)
        <4>1. V \in SUBSET (SUBSET OurNames)
          BY <1>6
        <4>2. IsFiniteSet(SUBSET OurNames)
          BY NamesAndPlaces, FS_SUBSET
        <4>. QED
          BY <4>1, <4>2, FS_Subset
      <3>2. ASSUME NEW c \in J PROVE Slice(c) \in V
        <4>1. Slice(c) \in Ours /\ x \notin Slice(c)
          BY <2>7, <2>9
        <4>2. PICK y \in Slice(c) : y \in Part(j)
          BY <2>5
        <4>3. Dict[y] = Dict[x]
          BY <1>4, <1>7, <4>2
        <4>. HIDE DEF Slice
        <4>. QED
          BY <4>1, <4>2, <4>3 DEF ReadsFrom
      <3>3. ASSUME NEW q \in V PROVE \E c \in J : Slice(c) = q
        <4>1. PICK y \in q : Dict[y] = Dict[x] /\ x \notin q /\ q \in Ours
          BY DEF ReadsFrom
        <4>2. y \in OurNames /\ GroupName(y) = j
          BY <1>6, <1>7, <4>1
        <4>3. PICK h \in 0..Groups - 1 : q \in Slices(Part(h), b)
          BY <2>1, <4>1
        <4>4. q \subseteq Part(h)
          BY <4>3 DEF Slices
        <4>5. h = j
          BY <4>1, <4>2, <4>4 DEF Part
        <4>6. PICK z \in Part(j) : q = Slice(Slot(z) \div b)
          <5>. HIDE DEF Slice
          <5>. QED
            BY <2>6, <4>3, <4>5
        <4>. DEFINE c == Slot(z) \div b
        <4>7. c \in 0..C
          BY <2>3
        <4>8. c # e
          BY <2>9, <4>1, <4>6
        <4>. HIDE DEF c, Slice, C, e
        <4>. QED
          BY <4>6, <4>7, <4>8 DEF c
      <3>. HIDE DEF Slice, V, C, e
      <3>4. f \in [J -> V]
        BY <3>2
      <3>5. \A c, d \in J : f[c] = f[d] => c = d
        BY <2>8
      <3>6. \A q \in V : \E c \in J : f[c] = q
        BY <3>3
      <3>. HIDE DEF f
      <3>7. Cardinality(J) = Cardinality(V)
        BY <3>1, <3>4, <3>5, <3>6, CountByBijection
      <3>8. IsFiniteSet(0..C) /\ Cardinality(0..C) = C + 1
        <4>1. 0 \in Int /\ C \in Int /\ ~(0 > C) /\ C - 0 + 1 = C + 1
          BY <2>2, SMT
        <4>. QED
          BY <4>1, FS_Interval
      <3>9. Cardinality(J) = (C + 1) - 1
        BY <2>9, <3>8, FS_RemoveElement
      <3>. QED
        BY <2>2, <3>7, <3>9, SMT
    <2>11. \A t \in 0..m - 1 : RackOf[base + t] = Slice(t \div b)
      <3>. SUFFICES ASSUME NEW t \in 0..m - 1 PROVE RackOf[base + t] = Slice(t \div b)
        OBVIOUS
      <3>1. base + t \in Positions /\ NodeOf(base + t) \in Slice(t \div b) /\ t \div b \in 0..C
        BY <1>2, <2>4
      <3>2. Slice(t \div b) \in Ours
        BY <2>7, <3>1
      <3>. HIDE DEF Slice, C
      <3>. QED
        BY <3>1, <3>2, RackOfFacts
    <2>12. ASSUME NEW s \in 1..m - 1
           PROVE  RackOf[base + s] # RackOf[(base + s) - 1] <=> s \div b # (s - 1) \div b
      <3>1. s \in 0..m - 1 /\ s - 1 \in 0..m - 1 /\ (base + s) - 1 = base + (s - 1)
        BY <1>2, <1>8, SMT
      <3>2. RackOf[base + s] = Slice(s \div b) /\ RackOf[base + (s - 1)] = Slice((s - 1) \div b)
        BY <2>11, <3>1
      <3>3. s \div b \in 0..C /\ (s - 1) \div b \in 0..C
        BY <2>4, <3>1
      <3>. HIDE DEF Slice, C
      <3>. QED
        BY <2>8, <3>1, <3>2, <3>3
    <2>13. Cardinality(cuts) = Cardinality(Changes(j))
      <3>. DEFINE f == [s \in cuts |-> base + s]
      <3>. HIDE DEF Slice, C, e
      <3>1. ASSUME NEW s \in cuts PROVE base + s \in Changes(j)
        <4>1. s \in 1..m - 1 /\ RackOf[base + s] # RackOf[(base + s) - 1]
          BY <2>12
        <4>2. base + s \in G /\ base + s > base
          BY <1>2, <1>8, <4>1, SMT
        <4>. QED
          BY <4>1, <4>2 DEF Changes, G, base
      <3>2. ASSUME NEW q \in Changes(j) PROVE \E s \in cuts : base + s = q
        <4>1. q \in G /\ q > base /\ RackOf[q] # RackOf[q - 1]
          BY DEF Changes, G, base
        <4>. DEFINE s == q - base
        <4>2. s \in 1..m - 1 /\ base + s = q
          BY <1>2, <1>8, <4>1, SMT
        <4>. HIDE DEF s
        <4>3. s \in cuts
          BY <2>12, <4>1, <4>2
        <4>. QED
          BY <4>2, <4>3
      <3>3. f \in [cuts -> Changes(j)]
        BY <3>1
      <3>4. \A s, t \in cuts : f[s] = f[t] => s = t
        <4>. SUFFICES ASSUME NEW s \in cuts, NEW t \in cuts, base + s = base + t PROVE s = t
          OBVIOUS
        <4>1. s \in 1..m - 1 /\ t \in 1..m - 1
          OBVIOUS
        <4>. QED
          BY <1>2, <1>8, <4>1, SMT
      <3>5. \A q \in Changes(j) : \E s \in cuts : f[s] = q
        BY <3>2
      <3>. HIDE DEF f, cuts
      <3>. QED
        BY <1>2, <3>3, <3>4, <3>5, CountByBijection
    <2>14. Cardinality(cuts) = C
      BY <1>1, <1>8, CutCount
    <2>. QED
      BY <1>2, <1>3, <2>10, <2>13, <2>14
  <1>. QED
    BY <1>9, <1>10

(***************************************************************************)
(* In a group without global parities a degraded get crosses the core as   *)
(* often as a repair: its walk along the data ends before the parity.      *)
(***************************************************************************)
LEMMA GetAsRepair ==
    ASSUME code \in Codes, NEW j \in 0..Groups - 1,
           \A q \in GroupPositions(j, code.n, code.r) : NodeOf(q)[1] # "G"
    PROVE  GetCrossings(RackOf, j) = RepairCrossings(RackOf, j)
  <1>. DEFINE b == j * (code.r + 1)
              m == GroupSize(j, code.n, code.r)
              lp == ParityPos(j, code.n, code.r)
              last == LastBlock(code.k, code.r)
              G == GroupPositions(j, code.n, code.r)
              end == IF last + 1 < lp - 1 THEN last + 1 ELSE lp - 1
              A == {p \in b + 1..lp - 1 : RackOf[p] # RackOf[p - 1]}
  <1>1. code.r \in Nat \ {0} /\ code.k \in Nat \ {0}
    BY CodeFacts
  <1>2. /\ j \in Nat /\ b \in Nat /\ m \in 2..code.r + 1 /\ lp \in Nat /\ lp = b + m - 1
        /\ G = b..lp
        /\ \A q \in G : q \in Positions /\ q \in Nat /\ GroupOf(q, code.r) = j
        /\ IsFiniteSet(Changes(j))
        /\ RepairCrossings(RackOf, j) = Cardinality(Changes(j))
    BY ChangesFacts DEF GroupPositions
  <1>3. GetCrossings(RackOf, j)
          = Cardinality({p \in b + 1..end : RackOf[p] # RackOf[p - 1]})
              + (IF RackOf[end] # RackOf[lp] THEN 1 ELSE 0)
    BY DEF GetCrossings, n, k, r
  <1>4. Changes(j) = {p \in G : p > b /\ RackOf[p] # RackOf[p - 1]}
    BY DEF Changes
  <1>5. \A q \in G : NodeOf(q)[1] # "G"
    OBVIOUS
  <1>. DEFINE p == lp - 1
  <1>6. NodeOf(p) = IF p = lp THEN <<"L", j>>
                    ELSE IF p - j < code.k THEN <<"D", p - j>> ELSE <<"G", (p - j) - code.k>>
    <2>. HIDE DEF b, m, G
    <2>1. p \in G
      BY <1>1, <1>2, SMT
    <2>2. GroupOf(p, code.r) = j
      BY <1>2, <2>1
    <2>. QED
      BY <2>2 DEF NodeOf
  <1>. HIDE DEF b, m, lp, G, last
  <1>7. p \in G /\ p # lp /\ b < lp /\ p \in Nat
    BY <1>1, <1>2, SMT
  <1>8. p - j < code.k /\ NodeOf(p) = <<"D", p - j>>
    <2>1. NodeOf(p)[1] # "G"
      BY <1>5, <1>7
    <2>2. \A z : <<"G", z>>[1] = "G"
      OBVIOUS
    <2>. HIDE DEF p
    <2>. QED
      BY <1>6, <1>7, <2>1, <2>2
  <1>9. ~(last + 1 < lp - 1)
    <2>1. NodePlace(NodeOf(p)) = p
      BY <1>2, <1>7, NodeOfFacts
    <2>. DEFINE y == p - j
    <2>2. p = y + y \div code.r
      BY <1>8, <2>1 DEF NodePlace, DataPos
    <2>3. y \in Nat /\ code.k - 1 \in Nat /\ y <= code.k - 1
      <3>1. NodeOf(p) \in OurNames
        BY <1>2, <1>7, NodeOfFacts
      <3>2. <<"D", y>> \in {"D"} \X (0..code.k - 1)
        BY <1>8, <3>1, NamesAre
      <3>3. y \in 0..code.k - 1
        BY <3>2
      <3>. HIDE DEF y
      <3>. QED
        BY <1>1, <3>3, SMT
    <2>. HIDE DEF y
    <2>. DEFINE u == y \div code.r
                v == (code.k - 1) \div code.r
    <2>4. u \in Nat /\ v \in Nat /\ u <= v
      BY <1>1, <2>3, DivMono
    <2>5. last = code.k + v - 1
      BY DEF last, LastBlock
    <2>6. p = y + u
      BY <2>2
    <2>. HIDE DEF u, v
    <2>. QED
      BY <1>1, <1>2, <2>3, <2>4, <2>5, <2>6, SMT
  <1>10. GetCrossings(RackOf, j) = Cardinality(A) + (IF RackOf[p] # RackOf[lp] THEN 1 ELSE 0)
    BY <1>3, <1>9
  <1>11. Changes(j) = IF RackOf[p] # RackOf[lp] THEN A \cup {lp} ELSE A
    <2>1. \A q : (q \in G /\ q > b) <=> (q \in b + 1..lp - 1 \/ q = lp)
      BY <1>1, <1>2, SMT
    <2>. QED
      BY <1>4, <2>1
  <1>12. lp \notin A /\ IsFiniteSet(A)
    <2>1. lp \notin b + 1..lp - 1 /\ b + 1 \in Int /\ lp - 1 \in Int
      BY <1>2, SMT
    <2>2. IsFiniteSet(b + 1..lp - 1)
      BY <2>1, FS_Interval
    <2>3. A \in SUBSET (b + 1..lp - 1)
      OBVIOUS
    <2>. HIDE DEF A
    <2>4. IsFiniteSet(A)
      BY <2>2, <2>3, FS_Subset
    <2>. QED
      BY <2>1, <2>3, <2>4
  <1>. HIDE DEF A, p
  <1>13. CASE RackOf[p] # RackOf[lp]
    <2>1. Cardinality(Changes(j)) = Cardinality(A) + 1
      BY <1>11, <1>12, <1>13, FS_AddElement
    <2>. QED
      BY <1>2, <1>10, <1>13, <2>1
  <1>14. CASE ~(RackOf[p] # RackOf[lp])
    <2>1. Cardinality(A) \in Nat
      BY <1>12, FS_CardinalityType
    <2>2. GetCrossings(RackOf, j) = Cardinality(A) + 0
      BY <1>10, <1>14
    <2>3. Cardinality(A) + 0 = Cardinality(A)
      BY <2>1, SMT
    <2>. QED
      BY <1>2, <1>11, <1>14, <2>2, <2>3
  <1>. QED
    BY <1>13, <1>14

(***************************************************************************)
(* With the blocks where the simulator puts them, the network core is      *)
(* crossed as often as it says, for every code: by a repair and by a       *)
(* degraded get in a group without global parities, and by a set with the  *)
(* local parity of a full group just if the group is spread over racks.    *)
(***************************************************************************)
THEOREM CrossedAsSimulated ==
    Spec => []CrossingsAsSimulated
  <1>1. LayoutInv => CrossingsAsSimulated
    <2>. SUFFICES ASSUME LayoutInv, Done, SimCovers PROVE CrossingsAsSimulated
      BY DEF CrossingsAsSimulated
    <2>. DEFINE rackOf == [p \in Positions |->
                              CHOOSE q \in OurRacks(code.n, code.k, code.r) : NodeAt(p) \in q]
    <2>1. code \in Codes /\ ValidCode(code.n, code.k, code.r)
      BY CodeFacts DEF LayoutInv
    <2>2. rackOf = RackOf
      <3>1. \A p \in Positions : NodeAt(p) = NodeOf(p)
        BY NodeAtIs
      <3>. QED
        BY <3>1 DEF RackOf, Ours
    <2>3. ASSUME NEW p \in Positions
          PROVE  LET j == GroupOf(p, code.r)
                 IN  /\ p = j * (code.r + 1) + code.r =>
                           (p \in SetCrosses(RackOf) <=> RepairCrossings(RackOf, j) > 0)
                     /\ (\A q \in GroupPositions(j, code.n, code.r) : blocks[q][1] # "global") =>
                           /\ RepairCrossings(RackOf, j) = RepairCost(NodeAt(p), Ours, Dict)
                           /\ blocks[p][1] = "data" =>
                                 GetCrossings(RackOf, j) = RepairCrossings(RackOf, j)
      <3>. DEFINE j == GroupOf(p, code.r)
      <3>1. j \in 0..Groups - 1 /\ p \in GroupPositions(j, code.n, code.r)
        <4>1. p \in 0..code.n - 1
          BY DEF Positions
        <4>2. /\ j \in 0..LocalGroups(code.n, code.r) - 1
              /\ j * (code.r + 1) <= p /\ p <= ParityPos(j, code.n, code.r)
          BY <2>1, <4>1, GroupOfRange
        <4>3. j \in 0..Groups - 1
          BY <4>2 DEF Groups
        <4>4. j * (code.r + 1) \in Nat /\ ParityPos(j, code.n, code.r) \in Nat /\ code.n \in Nat
          BY <2>1, <4>3, ChangesFacts, CodeFacts
        <4>. DEFINE b == j * (code.r + 1)
                    lp == ParityPos(j, code.n, code.r)
        <4>. HIDE DEF b, lp
        <4>5. p \in b..lp
          <5>1. b <= p /\ p <= lp /\ b \in Nat /\ lp \in Nat
            BY <4>2, <4>4 DEF b, lp
          <5>. QED
            BY <4>1, <4>4, <5>1, SMT
        <4>. QED
          BY <4>3, <4>5 DEF GroupPositions, b, lp
      <3>. HIDE DEF j
      <3>2. p = j * (code.r + 1) + code.r =>
               (p \in SetCrosses(RackOf) <=> RepairCrossings(RackOf, j) > 0)
        BY <2>1, <3>1, SetAsRepair
      <3>3. ASSUME \A q \in GroupPositions(j, code.n, code.r) : blocks[q][1] # "global"
            PROVE  /\ RepairCrossings(RackOf, j) = RepairCost(NodeAt(p), Ours, Dict)
                   /\ GetCrossings(RackOf, j) = RepairCrossings(RackOf, j)
        <4>1. \A q \in GroupPositions(j, code.n, code.r) : NodeOf(q)[1] # "G"
          <5>. SUFFICES ASSUME NEW q \in GroupPositions(j, code.n, code.r)
                        PROVE  NodeOf(q)[1] # "G"
            OBVIOUS
          <5>1. q \in Positions
            BY <2>1, <3>1, ChangesFacts
          <5>. QED
            BY <3>3, <5>1, NodeAtIs
        <4>2. NodeAt(p) = NodeOf(p)
          BY NodeAtIs
        <4>. QED
          BY <2>1, <3>1, <4>1, <4>2, RepairAsSimulated, GetAsRepair
      <3>. QED
        BY <3>2, <3>3 DEF j
    <2>. HIDE DEF rackOf
    <2>. QED
      BY <2>2, <2>3 DEF CrossingsAsSimulated, n, k, r, Ours, Dict, rackOf
  <1>. QED
    BY <1>1, GroupsLaidOut, PTL
============================================================================
