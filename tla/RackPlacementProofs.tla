------------------------ MODULE RackPlacementProofs ------------------------
(***************************************************************************)
(* The placement read from rack.txt, proved for every number of positions, *)
(* every list of servers and every set of files.                           *)
(***************************************************************************)
EXTENDS RackPlacement, SequenceLemmas, FiniteSetTheorems

Hosts(j) == file.racks[j].hosts

\* The positions before p that the file gives to rack j.
Taken(j, p) == {q \in 0..p - 1 : RackOf(q) = j}

\* List j holds the first m servers of the file's rack j.
Filled(j, m) == Len(group[j]) = m /\ \A x \in 1..m : group[j][x] = Hosts(j)[x]

(***************************************************************************)
(* What the parser's state has to do with the file, well formed or not.    *)
(***************************************************************************)
ParseInv ==
    /\ TypeOK
    /\ file \in Files
    /\ rack = 0 => line = 0
    /\ rack > 0 => line \in 0..Len(Hosts(rack))
    /\ pc = "parse" => next = 0
    /\ pc = "assign" => next < N /\ rack = Len(file.racks)
    /\ pc = "done" => next = N /\ rack = Len(file.racks)

(***************************************************************************)
(* While a well-formed file is read: the racks before this one are         *)
(* complete, this one holds the lines read so far, and its list ends in an *)
(* empty node exactly as long as a line is missing.                        *)
(***************************************************************************)
Reading ==
    /\ \A j \in 1..rack - 1 : Filled(j, Len(Hosts(j)))
    /\ rack > 0 => Filled(rack, line) /\ left = Len(Hosts(rack)) - line
    /\ tail = IF rack > 0 /\ line < Len(Hosts(rack)) THEN {rack} ELSE {}
    /\ used = {}

(***************************************************************************)
(* While positions are given servers: the lists are those of the file, the *)
(* used nodes of a rack are its first ones, as many as positions before    *)
(* next are in that rack, and each of these has the server of its turn.    *)
(***************************************************************************)
Assigning ==
    /\ \A j \in 1..rack : Filled(j, Len(Hosts(j)))
    /\ tail = {}
    /\ \A j \in 1..rack : \A x \in Nat \ {0} :
          <<j, x>> \in used <=> x <= Cardinality(Taken(j, next))
    /\ \A p \in 0..next - 1 :
          node2rack[p] = Hosts(RackOf(p))[Cardinality(Taken(RackOf(p), p)) + 1]

PlaceInv ==
    WellFormed(file) =>
        /\ pc # "crashed"
        /\ pc = "parse" => Reading
        /\ pc \in {"assign", "done"} => Assigning

----------------------------------------------------------------------------
(***************************************************************************)
(* What is assumed of a file.                                              *)
(***************************************************************************)
LEMMA FileFacts ==
    ASSUME file \in Files
    PROVE  /\ N \in Nat \ {0} /\ Keys \subseteq Nat
           /\ file.nodes \in [Positions -> Nat]
           /\ Len(file.racks) \in Nat
           /\ \A j \in 1..Len(file.racks) :
                 /\ file.racks[j].announced \in Nat
                 /\ Hosts(j) \in Seq(Keys \cup {Unknown})
                 /\ Len(Hosts(j)) \in Nat
                 /\ \A x \in 1..Len(Hosts(j)) : Hosts(j)[x] \in Keys \cup {Unknown}
  <1>1. /\ N \in Nat \ {0} /\ Keys \subseteq Nat
        /\ file.nodes \in [Positions -> Nat]
        /\ Len(file.racks) \in Nat
        /\ \A j \in 1..Len(file.racks) :
              file.racks[j].announced \in Nat /\ Hosts(j) \in Seq(Keys \cup {Unknown})
    BY PlacementAssumption DEF Hosts
  <1>. QED
    BY <1>1, LenProperties, ElementOfSeq

\* The parser before the first line.
LEMMA ParseInit ==
    Init => ParseInv
  <1>. SUFFICES ASSUME Init PROVE ParseInv
    OBVIOUS
  <1>1. file \in Files
    BY DEF Init
  <1>2. /\ N \in Nat \ {0} /\ file.nodes \in [Positions -> Nat] /\ Len(file.racks) \in Nat
    BY <1>1, FileFacts
  <1>3. <<>> \in Seq(Seq(Keys)) /\ Len(<<>>) = 0
    BY EmptySeq
  <1>4. TypeOK
    BY <1>2, <1>3 DEF Init, TypeOK
  <1>. QED
    BY <1>1, <1>2, <1>4 DEF Init, ParseInv

\* '#' opens one more list.
LEMMA ReadRackParses ==
    ASSUME ParseInv, ReadRack
    PROVE  ParseInv'
  <1>1. TypeOK /\ file \in Files /\ file' = file /\ rack < Len(file.racks) /\ pc = "parse" /\ next = 0
    BY DEF ParseInv, ReadRack
  <1>2. /\ N \in Nat \ {0} /\ file.nodes \in [Positions -> Nat] /\ Len(file.racks) \in Nat
        /\ \A j \in 1..Len(file.racks) :
              file.racks[j].announced \in Nat /\ Len(Hosts(j)) \in Nat
    BY <1>1, FileFacts
  <1>3. rack \in Nat /\ rack + 1 \in 1..Len(file.racks)
    BY <1>1, <1>2 DEF TypeOK
  <1>4. Append(group, <<>>) \in Seq(Seq(Keys)) /\ Len(Append(group, <<>>)) = rack + 1
    <2>1. <<>> \in Seq(Keys)
      BY EmptySeq
    <2>. QED
      BY <1>1, <2>1, AppendProperties DEF TypeOK
  <1>5. tail \cup {rack + 1} \subseteq 1..rack + 1
    BY <1>1, <1>3 DEF TypeOK
  <1>6. used \subseteq (1..rack + 1) \X (Nat \ {0})
    <2>1. 1..rack \subseteq 1..rack + 1
      BY <1>3
    <2>. QED
      BY <1>1, <2>1 DEF TypeOK
  <1>7. TypeOK'
    <2>1. /\ rack' = rack + 1 /\ line' = 0 /\ group' = Append(group, <<>>)
          /\ left' = file.racks[rack + 1].announced /\ tail' = tail \cup {rack + 1}
          /\ UNCHANGED <<file, pc, used, node2rack, next>>
      BY DEF ReadRack
    <2>2. left' \in Int /\ rack' \in 0..Len(file.racks) /\ line' \in Nat
      BY <1>2, <1>3, <2>1
    <2>. QED
      BY <1>1, <1>4, <1>5, <1>6, <2>1, <2>2 DEF TypeOK, Positions
  <1>. QED
    BY <1>1, <1>2, <1>3, <1>7 DEF ParseInv, ReadRack, Hosts

\* A server line: the next one of the rack, and a known server goes to the
\* end of the rack's list.
LEMMA ReadServerParses ==
    ASSUME ParseInv, ReadServer
    PROVE  ParseInv'
  <1>1. TypeOK /\ file \in Files /\ file' = file /\ rack' = rack /\ pc = "parse" /\ next = 0
    BY DEF ParseInv, ReadServer
  <1>2. /\ N \in Nat \ {0} /\ file.nodes \in [Positions -> Nat] /\ Len(file.racks) \in Nat
        /\ \A j \in 1..Len(file.racks) :
              /\ Len(Hosts(j)) \in Nat
              /\ \A x \in 1..Len(Hosts(j)) : Hosts(j)[x] \in Keys \cup {Unknown}
    BY <1>1, FileFacts
  <1>3. rack > 0 /\ line # Len(Hosts(rack)) /\ line' = line + 1
    BY DEF ReadServer, RackRead, Hosts
  <1>4. rack \in 1..Len(file.racks) /\ rack \in Nat
    BY <1>1, <1>2, <1>3 DEF TypeOK
  <1>5. line \in 0..Len(Hosts(rack))
    BY <1>3 DEF ParseInv
  <1>6. line + 1 \in 1..Len(Hosts(rack)) /\ line + 1 \in Nat
    BY <1>2, <1>3, <1>4, <1>5
  <1>. DEFINE key == Hosts(rack)[line + 1]
  <1>7. key \in Keys \cup {Unknown}
    BY <1>2, <1>4, <1>6
  <1>8. /\ group' \in Seq(Seq(Keys)) /\ Len(group') = rack
        /\ left' \in Int /\ tail' \subseteq 1..rack /\ pc' \in {"parse", "crashed"}
    <2>1. CASE key = Unknown
      BY <1>1, <2>1 DEF ReadServer, TypeOK, Hosts
    <2>2. CASE key # Unknown /\ rack \notin tail
      BY <1>1, <2>2 DEF ReadServer, TypeOK, Hosts
    <2>3. CASE key # Unknown /\ rack \in tail
      <3>1. /\ left' = left - 1
            /\ group' = [group EXCEPT ![rack] = Append(@, key)]
            /\ tail' = IF left = 1 THEN tail \ {rack} ELSE tail
            /\ pc' = pc
        BY <2>3 DEF ReadServer, Hosts
      <3>2. group \in Seq(Seq(Keys)) /\ Len(group) = rack /\ rack \in 1..Len(group)
        BY <1>1, <1>4 DEF TypeOK
      <3>3. group[rack] \in Seq(Keys)
        BY <3>2, ElementOfSeq
      <3>4. Append(group[rack], key) \in Seq(Keys)
        BY <1>7, <2>3, <3>3, AppendProperties
      <3>5. group' = [group EXCEPT ![rack] = Append(group[rack], key)]
        BY <3>1
      <3>6. group' \in Seq(Seq(Keys)) /\ Len(group') = rack
        BY <3>2, <3>4, <3>5, ExceptSeq
      <3>. QED
        BY <1>1, <3>1, <3>6 DEF TypeOK
    <2>. QED
      BY <2>1, <2>2, <2>3
  <1>9. TypeOK'
    BY <1>1, <1>2, <1>3, <1>6, <1>8 DEF TypeOK, ReadServer, Positions
  <1>. QED
    BY <1>1, <1>3, <1>4, <1>6, <1>8, <1>9 DEF ParseInv, ReadServer, Hosts

\* '@' ends the parsing.
LEMMA ReadNodesParses ==
    ASSUME ParseInv, ReadNodes
    PROVE  ParseInv'
  <1>1. TypeOK /\ file \in Files /\ file' = file /\ pc = "parse" /\ next = 0
    BY DEF ParseInv, ReadNodes
  <1>2. N \in Nat \ {0} /\ file.nodes \in [Positions -> Nat]
    BY <1>1, FileFacts
  <1>3. TypeOK'
    BY <1>1, <1>2 DEF TypeOK, ReadNodes, Positions
  <1>. QED
    BY <1>1, <1>2, <1>3 DEF ParseInv, ReadNodes, Hosts

\* The end of an iteration of the assignment loop.
LEMMA AdvanceParses ==
    ASSUME ParseInv, pc = "assign", Advance, UNCHANGED <<file, rack, line, left, group, tail>>,
           node2rack' \in [Positions -> Nat], used' \subseteq (1..rack) \X (Nat \ {0})
    PROVE  ParseInv'
  <1>1. /\ TypeOK /\ file \in Files /\ next < N /\ rack = Len(file.racks)
    BY DEF ParseInv
  <1>2. N \in Nat \ {0}
    BY <1>1, FileFacts
  <1>3. next' = next + 1 /\ pc' = IF next + 1 = N THEN "done" ELSE "assign"
    BY DEF Advance
  <1>4. next + 1 \in 0..N /\ next \in Nat
    BY <1>1, <1>2 DEF TypeOK
  <1>5. TypeOK'
    BY <1>1, <1>3, <1>4 DEF TypeOK, Positions
  <1>. QED
    BY <1>1, <1>2, <1>3, <1>4, <1>5 DEF ParseInv, Hosts

\* The first free node of a list, when there is one.
LEMMA FirstFreeFacts ==
    ASSUME NEW j, Len(group[j]) \in Nat, Free(j) # {}
    PROVE  /\ FirstFree(j) \in Free(j)
           /\ \A y \in Free(j) : FirstFree(j) <= y
  <1>1. Free(j) \subseteq Nat
    BY DEF Free
  <1>2. \E x \in Free(j) : \A y \in Free(j) : ~(<<y, x>> \in OpToRel(<, Nat))
    BY <1>1, NatLessThanWellFounded, WFMin, Zenon
  <1>3. PICK x \in Free(j) : \A y \in Free(j) : ~(y < x)
    BY <1>1, <1>2 DEF OpToRel
  <1>4. \A y \in Free(j) : x <= y
    BY <1>1, <1>3
  <1>. QED
    BY <1>4 DEF FirstFree

\* A position gets a server, the rack id, or whatever the memory held.
LEMMA AssignParses ==
    ASSUME ParseInv, AssignServer \/ RackExhausted \/ UninitialisedNode
    PROVE  ParseInv'
  <1>1. TypeOK /\ file \in Files /\ pc = "assign" /\ next < N
    BY DEF ParseInv, AssignServer, RackExhausted, UninitialisedNode
  <1>2. N \in Nat \ {0} /\ Keys \subseteq Nat /\ file.nodes \in [Positions -> Nat]
    BY <1>1, FileFacts
  <1>3. next \in Positions /\ group \in Seq(Seq(Keys)) /\ Len(group) = rack
        /\ node2rack \in [Positions -> Nat] /\ used \subseteq (1..rack) \X (Nat \ {0})
    BY <1>1, <1>2 DEF TypeOK, Positions
  <1>4. CASE AssignServer
    <2>. DEFINE j == RackOf(next)
                x == FirstFree(j)
    <2>1. /\ j \in 1..Len(group) /\ Free(j) # {}
          /\ node2rack' = [node2rack EXCEPT ![next] = group[j][x]]
          /\ used' = used \cup {<<j, x>>}
          /\ Advance /\ UNCHANGED <<file, rack, line, left, group, tail>>
      BY <1>4 DEF AssignServer
    <2>. HIDE DEF j
    <2>2. group[j] \in Seq(Keys) /\ Len(group[j]) \in Nat
      BY <1>3, <2>1, ElementOfSeq, LenProperties
    <2>3. x \in Free(j)
      BY <2>1, <2>2, FirstFreeFacts
    <2>. HIDE DEF x
    <2>4. x \in 1..Len(group[j]) /\ x \in Nat \ {0}
      BY <2>2, <2>3 DEF Free
    <2>5. group[j][x] \in Nat
      BY <1>2, <2>2, <2>4, ElementOfSeq
    <2>6. node2rack' \in [Positions -> Nat]
      BY <1>3, <2>1, <2>5
    <2>7. used' \subseteq (1..rack) \X (Nat \ {0})
      BY <1>3, <2>1, <2>4
    <2>. QED
      BY <1>1, <2>1, <2>6, <2>7, AdvanceParses
  <1>5. CASE RackExhausted
    <2>1. /\ Advance /\ UNCHANGED <<file, rack, line, left, group, tail, used, node2rack>>
      BY <1>5 DEF RackExhausted
    <2>. QED
      BY <1>1, <1>3, <2>1, AdvanceParses
  <1>6. CASE UninitialisedNode
    <2>1. UNCHANGED <<file, rack, line, left, group, tail, used>>
      BY <1>6 DEF UninitialisedNode
    <2>2. CASE pc' = "crashed" /\ UNCHANGED <<node2rack, next>>
      BY <2>1, <2>2 DEF ParseInv, TypeOK, Positions, Hosts
    <2>3. CASE /\ \E key \in Keys \cup {node2rack[next]} :
                    node2rack' = [node2rack EXCEPT ![next] = key]
               /\ Advance
      <3>1. PICK key \in Keys \cup {node2rack[next]} :
                node2rack' = [node2rack EXCEPT ![next] = key]
        BY <2>3
      <3>2. key \in Nat
        BY <1>2, <1>3
      <3>3. node2rack' \in [Positions -> Nat]
        BY <1>3, <3>1, <3>2
      <3>. QED
        BY <1>1, <1>3, <2>1, <2>3, <3>3, AdvanceParses
    <2>. QED
      BY <1>6, <2>2, <2>3 DEF UninitialisedNode
  <1>. QED
    BY <1>4, <1>5, <1>6

\* Every step keeps the parser's state in step with the file.
LEMMA ParseStep ==
    ParseInv /\ [Next]_vars => ParseInv'
  <1>1. ParseInv /\ UNCHANGED vars => ParseInv'
    BY DEF ParseInv, TypeOK, Positions, Hosts, vars
  <1>. QED
    BY <1>1, ReadRackParses, ReadServerParses, ReadNodesParses, AssignParses DEF Next

(***************************************************************************)
(* Reading any rack.txt, well formed or not, and placing the blocks by it  *)
(* keeps every list, index and counter of the model in range.              *)
(***************************************************************************)
THEOREM TypeCorrect ==
    Spec => []TypeOK
  <1>1. ParseInv => TypeOK
    BY DEF ParseInv
  <1>2. Spec => []ParseInv
    BY ParseInit, ParseStep, PTL DEF Spec
  <1>. QED
    BY <1>1, <1>2, PTL

----------------------------------------------------------------------------
(***************************************************************************)
(* How many earlier positions a rack has: a natural, none at the start,    *)
(* and one more after a position of that rack.                             *)
(***************************************************************************)
LEMMA TakenFacts ==
    ASSUME NEW j, NEW p \in Nat
    PROVE  /\ IsFiniteSet(Taken(j, p)) /\ Cardinality(Taken(j, p)) \in Nat
           /\ p = 0 => Cardinality(Taken(j, p)) = 0
           /\ Cardinality(Taken(j, p + 1)) =
                 IF RackOf(p) = j THEN Cardinality(Taken(j, p)) + 1 ELSE Cardinality(Taken(j, p))
  <1>1. IsFiniteSet(0..p - 1)
    BY FS_Interval
  <1>2. IsFiniteSet(Taken(j, p))
    BY <1>1, FS_Subset DEF Taken
  <1>3. Cardinality(Taken(j, p)) \in Nat
    BY <1>2, FS_CardinalityType
  <1>4. p = 0 => Taken(j, p) = {}
    BY DEF Taken
  <1>5. p = 0 => Cardinality(Taken(j, p)) = 0
    BY <1>4, FS_EmptySet
  <1>6. 0..(p + 1) - 1 = (0..p - 1) \cup {p} /\ p \notin 0..p - 1
    OBVIOUS
  <1>7. p \notin Taken(j, p)
    BY <1>6 DEF Taken
  <1>8. Taken(j, p + 1) = IF RackOf(p) = j THEN Taken(j, p) \cup {p} ELSE Taken(j, p)
    BY <1>6 DEF Taken
  <1>9. CASE RackOf(p) = j
    BY <1>2, <1>3, <1>5, <1>7, <1>8, <1>9, FS_AddElement
  <1>10. CASE RackOf(p) # j
    BY <1>2, <1>3, <1>5, <1>8, <1>10
  <1>. QED
    BY <1>9, <1>10

(***************************************************************************)
(* A rack of a well-formed file has a server left for every position that  *)
(* the file gives to it.                                                   *)
(***************************************************************************)
LEMMA RackSuffices ==
    ASSUME file \in Files, WellFormed(file), NEW p \in Positions
    PROVE  /\ RackOf(p) \in 1..Len(file.racks)
           /\ Cardinality(Taken(RackOf(p), p)) + 1 \in 1..Len(Hosts(RackOf(p)))
  <1>. DEFINE j == RackOf(p)
              S == {q \in Positions : file.nodes[q] = file.nodes[p]}
  <1>1. /\ N \in Nat \ {0} /\ file.nodes \in [Positions -> Nat] /\ Len(file.racks) \in Nat
        /\ \A m \in 1..Len(file.racks) : Len(Hosts(m)) \in Nat
    BY FileFacts
  <1>2. j \in 1..Len(file.racks) /\ Cardinality(S) <= Len(Hosts(j))
    BY DEF WellFormed, RackOf, Hosts
  <1>3. p \in Nat /\ p < N
    BY <1>1 DEF Positions
  <1>4. IsFiniteSet(S)
    <2>1. IsFiniteSet(Positions)
      BY <1>1, FS_Interval DEF Positions
    <2>. QED
      BY <2>1, FS_Subset
  <1>5. Taken(j, p + 1) \subseteq S
    <2>1. ASSUME NEW q \in Taken(j, p + 1) PROVE q \in S
      <3>1. q \in 0..(p + 1) - 1 /\ file.nodes[q] + 1 = file.nodes[p] + 1
        BY DEF Taken, RackOf
      <3>2. q \in Positions
        BY <1>1, <1>3, <3>1 DEF Positions
      <3>3. file.nodes[q] \in Nat /\ file.nodes[p] \in Nat
        BY <1>1, <3>2
      <3>4. file.nodes[q] = file.nodes[p]
        BY <3>1, <3>3
      <3>. QED
        BY <3>2, <3>4
    <2>. QED
      BY <2>1
  <1>6. Cardinality(Taken(j, p + 1)) <= Cardinality(S) /\ Cardinality(S) \in Nat
    BY <1>4, <1>5, FS_Subset, FS_CardinalityType
  <1>7. Cardinality(Taken(j, p)) \in Nat /\ Cardinality(Taken(j, p + 1)) = Cardinality(Taken(j, p)) + 1
    BY <1>3, TakenFacts
  <1>. HIDE DEF S
  <1>8. Len(Hosts(j)) \in Nat
    BY <1>1, <1>2
  <1>. QED
    BY <1>2, <1>6, <1>7, <1>8

\* Before the first line no list is open.
LEMMA PlaceInit ==
    Init => PlaceInv
  BY DEF Init, PlaceInv, Reading

\* A new list is empty and ends in a node to be filled in: a well-formed
\* rack has a server.
LEMMA ReadRackPlaces ==
    ASSUME ParseInv, PlaceInv, ReadRack
    PROVE  PlaceInv'
  <1>1. TypeOK /\ file \in Files /\ file' = file /\ rack < Len(file.racks) /\ pc = "parse"
        /\ pc' = pc /\ rack' = rack + 1 /\ line' = 0 /\ RackRead
        /\ left' = file.racks[rack + 1].announced /\ group' = Append(group, <<>>)
        /\ tail' = tail \cup {rack + 1} /\ used' = used
    BY DEF ParseInv, ReadRack
  <1>. SUFFICES ASSUME WellFormed(file) PROVE Reading'
    BY <1>1 DEF PlaceInv
  <1>2. Reading
    BY <1>1 DEF PlaceInv
  <1>3. /\ Len(file.racks) \in Nat /\ \A j \in 1..Len(file.racks) : Len(Hosts(j)) \in Nat
    BY <1>1, FileFacts
  <1>4. rack \in Nat /\ rack + 1 \in 1..Len(file.racks) /\ Len(group) = rack /\ group \in Seq(Seq(Keys))
    BY <1>1, <1>3 DEF TypeOK
  <1>5. ASSUME NEW j \in 1..rack PROVE Filled(j, Len(Hosts(j)))
    <2>1. CASE j \in 1..rack - 1
      BY <1>2, <2>1 DEF Reading
    <2>2. CASE j = rack
      <3>1. rack > 0
        BY <1>4, <2>2
      <3>2. line = Len(Hosts(rack))
        BY <1>1, <3>1 DEF RackRead, Hosts
      <3>. QED
        BY <1>2, <2>2, <3>1, <3>2 DEF Reading
    <2>. QED
      BY <1>4, <2>1, <2>2
  <1>6. tail = {}
    <2>1. rack > 0 => line = Len(Hosts(rack))
      BY <1>1 DEF RackRead, Hosts
    <2>2. rack > 0 => Len(Hosts(rack)) \in Nat
      BY <1>3, <1>4
    <2>3. rack > 0 => ~(line < Len(Hosts(rack)))
      BY <2>1, <2>2
    <2>. QED
      BY <1>2, <2>3 DEF Reading
  <1>7. file.racks[rack + 1].announced = Len(Hosts(rack + 1)) /\ Len(Hosts(rack + 1)) > 0
        /\ Len(Hosts(rack + 1)) \in Nat
    BY <1>3, <1>4 DEF WellFormed, Hosts
  <1>8. /\ \A j \in 1..rack : group'[j] = group[j]
        /\ group'[rack + 1] = <<>>
    BY <1>1, <1>4, EmptySeq, AppendProperties
  <1>9. ASSUME NEW j \in 1..rack' - 1 PROVE Filled(j, Len(Hosts(j)))'
    <2>1. j \in 1..rack
      BY <1>1, <1>4
    <2>2. Filled(j, Len(Hosts(j))) /\ group'[j] = group[j]
      BY <1>5, <1>8, <2>1
    <2>. QED
      BY <1>1, <2>2 DEF Filled, Hosts
  <1>10. Filled(rack, line)' /\ left' = Len(Hosts(rack))' - line'
    <2>1. Len(group'[rack + 1]) = 0
      BY <1>8
    <2>2. Hosts(rack)' = Hosts(rack + 1)
      BY <1>1 DEF Hosts
    <2>3. left' = Len(Hosts(rack))' - line'
      BY <1>1, <1>7, <2>2
    <2>4. Len(group'[rack']) = line'
      BY <1>1, <2>1, Zenon
    <2>5. \A x \in 1..line' : FALSE
      BY <1>1
    <2>. QED
      BY <2>3, <2>4, <2>5 DEF Filled
  <1>11. tail' = {rack'} /\ rack' > 0 /\ line' < Len(Hosts(rack))'
    BY <1>1, <1>4, <1>6, <1>7 DEF Hosts
  <1>12. used' = {}
    BY <1>1, <1>2 DEF Reading
  <1>. QED
    BY <1>9, <1>10, <1>11, <1>12 DEF Reading

\* A server line of a well-formed rack fills the empty node its list ends in.
LEMMA ReadServerPlaces ==
    ASSUME ParseInv, PlaceInv, ReadServer
    PROVE  PlaceInv'
  <1>1. TypeOK /\ file \in Files /\ file' = file /\ rack' = rack /\ pc = "parse"
        /\ line' = line + 1 /\ used' = used
    BY DEF ParseInv, ReadServer
  <1>. SUFFICES ASSUME WellFormed(file) PROVE pc' = "parse" /\ Reading'
    BY <1>1 DEF PlaceInv
  <1>2. Reading
    BY <1>1 DEF PlaceInv
  <1>3. /\ Len(file.racks) \in Nat /\ \A j \in 1..Len(file.racks) : Len(Hosts(j)) \in Nat
    BY <1>1, FileFacts
  <1>4. rack > 0 /\ line # Len(Hosts(rack))
    BY DEF ReadServer, RackRead, Hosts
  <1>5. rack \in 1..Len(file.racks) /\ rack \in Nat /\ Len(group) = rack
        /\ rack \in 1..Len(group) /\ group \in Seq(Seq(Keys))
    BY <1>1, <1>3, <1>4 DEF TypeOK
  <1>. DEFINE n == Len(Hosts(rack))
              key == Hosts(rack)[line + 1]
  <1>6. n \in Nat /\ line \in 0..n /\ line \in Nat /\ line < n
    BY <1>3, <1>4, <1>5 DEF ParseInv
  <1>7. line + 1 \in 1..n
    BY <1>6
  <1>8. key \in Keys /\ key # Unknown
    <2>1. Hosts(rack) \in Seq(Keys \ {Core})
      BY <1>5 DEF WellFormed, Hosts
    <2>2. key \in Keys
      BY <1>7, <2>1, ElementOfSeq
    <2>. QED
      BY <2>2, PlacementAssumption
  <1>9. tail = {rack} /\ left = n - line /\ Filled(rack, line) /\ used = {}
        /\ \A j \in 1..rack - 1 : Filled(j, Len(Hosts(j)))
    BY <1>2, <1>4, <1>6 DEF Reading
  <1>10. /\ left' = left - 1
         /\ group' = [group EXCEPT ![rack] = Append(@, key)]
         /\ tail' = IF left = 1 THEN tail \ {rack} ELSE tail
         /\ pc' = pc
    BY <1>8, <1>9 DEF ReadServer, Hosts
  <1>11. group[rack] \in Seq(Keys)
    BY <1>5, ElementOfSeq
  <1>12. /\ Len(Append(group[rack], key)) = Len(group[rack]) + 1
         /\ \A x \in 1..Len(group[rack]) : Append(group[rack], key)[x] = group[rack][x]
         /\ Append(group[rack], key)[Len(group[rack]) + 1] = key
         /\ Append(group[rack], key) \in Seq(Keys)
    BY <1>8, <1>11, AppendProperties
  <1>13. /\ group'[rack] = Append(group[rack], key)
         /\ \A j \in 1..rack - 1 : group'[j] = group[j]
    <2>1. group' = [group EXCEPT ![rack] = Append(group[rack], key)]
      BY <1>10
    <2>2. \A j \in 1..rack - 1 : j \in 1..Len(group) /\ j # rack
      BY <1>5
    <2>. QED
      BY <1>5, <1>12, <2>1, <2>2, ExceptSeq
  <1>14. Filled(rack, line)'
    <2>1. Len(group[rack]) = line /\ \A x \in 1..line : group[rack][x] = Hosts(rack)[x]
      BY <1>9 DEF Filled
    <2>2. Len(group'[rack]) = line + 1
      BY <1>12, <1>13, <2>1
    <2>3. ASSUME NEW x \in 1..line + 1 PROVE group'[rack][x] = Hosts(rack)[x]
      <3>1. CASE x \in 1..line
        BY <1>12, <1>13, <2>1, <3>1
      <3>2. CASE x = line + 1
        BY <1>12, <1>13, <2>1, <3>2
      <3>. QED
        BY <1>6, <3>1, <3>2
    <2>. QED
      BY <1>1, <2>2, <2>3 DEF Filled, Hosts
  <1>15. left' = n - line'
    BY <1>1, <1>6, <1>9, <1>10
  <1>16. tail' = IF line' < n THEN {rack} ELSE {}
    <2>1. (left = 1) <=> ~(line + 1 < n)
      BY <1>6, <1>9
    <2>. QED
      BY <1>1, <1>9, <1>10, <2>1
  <1>17. \A j \in 1..rack' - 1 : Filled(j, Len(Hosts(j)))'
    BY <1>1, <1>9, <1>13 DEF Filled, Hosts
  <1>18. n' = n
    BY <1>1 DEF Hosts
  <1>. QED
    BY <1>1, <1>4, <1>9, <1>10, <1>14, <1>15, <1>16, <1>17, <1>18 DEF Reading

\* When the file has been read every list is complete.
LEMMA ReadNodesPlaces ==
    ASSUME ParseInv, PlaceInv, ReadNodes
    PROVE  PlaceInv'
  <1>1. TypeOK /\ file \in Files /\ file' = file /\ pc = "parse" /\ pc' = "assign" /\ next = 0
        /\ RackRead /\ UNCHANGED <<rack, group, tail, used, next>>
    BY DEF ParseInv, ReadNodes
  <1>. SUFFICES ASSUME WellFormed(file) PROVE Assigning'
    BY <1>1 DEF PlaceInv
  <1>2. Reading
    BY <1>1 DEF PlaceInv
  <1>3. /\ Len(file.racks) \in Nat /\ \A j \in 1..Len(file.racks) : Len(Hosts(j)) \in Nat
    BY <1>1, FileFacts
  <1>4. rack \in 0..Len(file.racks)
    BY <1>1 DEF TypeOK
  <1>5. rack > 0 => line = Len(Hosts(rack)) /\ Len(Hosts(rack)) \in Nat
    BY <1>1, <1>3, <1>4 DEF RackRead, Hosts
  <1>6. \A j \in 1..rack : Filled(j, Len(Hosts(j)))
    <2>1. \A j \in 1..rack : j \in 1..rack - 1 \/ (j = rack /\ rack > 0)
      BY <1>3, <1>4
    <2>. QED
      BY <1>2, <1>5, <2>1 DEF Reading
  <1>7. tail = {}
    <2>1. rack > 0 => ~(line < Len(Hosts(rack)))
      BY <1>5
    <2>. QED
      BY <1>2, <2>1 DEF Reading
  <1>8. ASSUME NEW j \in 1..rack, NEW x \in Nat \ {0}
        PROVE  <<j, x>> \in used <=> x <= Cardinality(Taken(j, next))
    <2>1. Cardinality(Taken(j, next)) = 0
      BY <1>1, TakenFacts
    <2>2. used = {}
      BY <1>2 DEF Reading
    <2>. QED
      BY <2>1, <2>2
  <1>9. Assigning'
    <2>1. \A j \in 1..rack' : Filled(j, Len(Hosts(j)))'
      BY <1>1, <1>6 DEF Filled, Hosts
    <2>2. \A j \in 1..rack' : \A x \in Nat \ {0} :
             <<j, x>> \in used' <=> x <= Cardinality(Taken(j, next)')
      BY <1>1, <1>8 DEF Taken, RackOf
    <2>3. \A p \in 0..next' - 1 : FALSE
      BY <1>1
    <2>. QED
      BY <1>1, <1>7, <2>1, <2>2, <2>3 DEF Assigning
  <1>. QED
    BY <1>9

\* The next position gets the first server its rack has left, the one after
\* those of the earlier positions of the rack.
LEMMA AssignPlaces ==
    ASSUME ParseInv, PlaceInv, WellFormed(file), pc = "assign"
    PROVE  /\ RackOf(next) \in 1..Len(group)
           /\ Free(RackOf(next)) # {}
           /\ FirstFree(RackOf(next)) = Cardinality(Taken(RackOf(next), next)) + 1
           /\ group[RackOf(next)][FirstFree(RackOf(next))] =
                 Hosts(RackOf(next))[Cardinality(Taken(RackOf(next), next)) + 1]
  <1>. DEFINE j == RackOf(next)
              c == Cardinality(Taken(j, next))
  <1>1. TypeOK /\ file \in Files /\ next < N /\ rack = Len(file.racks) /\ Assigning
    BY DEF ParseInv, PlaceInv
  <1>2. N \in Nat \ {0} /\ Len(file.racks) \in Nat
        /\ \A m \in 1..Len(file.racks) : Len(Hosts(m)) \in Nat
    BY <1>1, FileFacts
  <1>3. next \in Nat /\ next \in Positions /\ Len(group) = rack
    BY <1>1, <1>2 DEF TypeOK, Positions
  <1>4. j \in 1..Len(file.racks) /\ c + 1 \in 1..Len(Hosts(j))
    BY <1>1, <1>3, RackSuffices
  <1>5. c \in Nat
    BY <1>3, TakenFacts
  <1>. HIDE DEF j, c
  <1>6. Len(group[j]) = Len(Hosts(j)) /\ \A x \in 1..Len(Hosts(j)) : group[j][x] = Hosts(j)[x]
    BY <1>1, <1>4 DEF Assigning, Filled
  <1>7. \A x \in Nat \ {0} : <<j, x>> \in used <=> x <= c
    BY <1>1, <1>4 DEF Assigning, c
  <1>8. Len(Hosts(j)) \in Nat
    BY <1>2, <1>4
  <1>9. ASSUME NEW x PROVE x \in Free(j) <=> x \in c + 1 .. Len(Hosts(j))
    BY <1>5, <1>6, <1>7, <1>8 DEF Free
  <1>10. c + 1 \in Free(j)
    BY <1>4, <1>5, <1>8, <1>9
  <1>11. FirstFree(j) \in Free(j) /\ FirstFree(j) <= c + 1
    BY <1>6, <1>8, <1>10, FirstFreeFacts
  <1>12. FirstFree(j) = c + 1
    BY <1>5, <1>8, <1>9, <1>11
  <1>. QED
    BY <1>1, <1>3, <1>4, <1>6, <1>10, <1>12 DEF j, c

\* So the assignment loop neither runs out of servers nor reads a node that
\* was not filled in.
LEMMA AssignServerPlaces ==
    ASSUME ParseInv, PlaceInv, AssignServer \/ RackExhausted \/ UninitialisedNode
    PROVE  PlaceInv'
  <1>1. pc = "assign" /\ file' = file /\ ParseInv /\ file \in Files /\ TypeOK
    BY DEF AssignServer, RackExhausted, UninitialisedNode, ParseInv
  <1>. SUFFICES ASSUME WellFormed(file) PROVE pc' \in {"assign", "done"} /\ Assigning'
    BY <1>1 DEF PlaceInv
  <1>. DEFINE j == RackOf(next)
              c == Cardinality(Taken(j, next))
              x == FirstFree(j)
  <1>2. /\ j \in 1..Len(group) /\ Free(j) # {} /\ x = c + 1
        /\ group[j][x] = Hosts(j)[c + 1]
    BY <1>1, AssignPlaces
  <1>3. Assigning
    BY <1>1 DEF PlaceInv
  <1>4. AssignServer
    BY <1>2 DEF RackExhausted, UninitialisedNode
  <1>5. /\ node2rack' = [node2rack EXCEPT ![next] = Hosts(j)[c + 1]]
        /\ used' = used \cup {<<j, c + 1>>}
        /\ next' = next + 1 /\ pc' \in {"assign", "done"}
        /\ UNCHANGED <<file, rack, line, left, group, tail>>
    BY <1>2, <1>4 DEF AssignServer, Advance
  <1>6. N \in Nat \ {0} /\ next \in Nat /\ next \in Positions /\ next < N
        /\ node2rack \in [Positions -> Nat] /\ Len(group) = rack
    <2>1. N \in Nat \ {0}
      BY <1>1, FileFacts
    <2>. QED
      BY <1>1, <2>1 DEF TypeOK, Positions, ParseInv
  <1>. HIDE DEF x
  <1>7. \A m \in 1..rack' : Filled(m, Len(Hosts(m)))'
    BY <1>3, <1>5 DEF Assigning, Filled, Hosts
  <1>8. ASSUME NEW m \in 1..rack', NEW y \in Nat \ {0}
        PROVE  <<m, y>> \in used' <=> y <= Cardinality(Taken(m, next)')
    <2>1. <<m, y>> \in used <=> y <= Cardinality(Taken(m, next))
      BY <1>3, <1>5 DEF Assigning
    <2>2. Taken(m, next)' = Taken(m, next + 1)
      BY <1>5 DEF Taken, RackOf
    <2>3. /\ Cardinality(Taken(m, next)) \in Nat
          /\ Cardinality(Taken(m, next + 1)) =
                IF j = m THEN Cardinality(Taken(m, next)) + 1 ELSE Cardinality(Taken(m, next))
      BY <1>6, TakenFacts
    <2>4. CASE m = j
      <3>1. <<m, y>> \in used' <=> (<<m, y>> \in used \/ y = c + 1)
        BY <1>5, <2>4
      <3>2. c = Cardinality(Taken(m, next))
        BY <2>4
      <3>. HIDE DEF c, j
      <3>. QED
        BY <2>1, <2>2, <2>3, <2>4, <3>1, <3>2
    <2>5. CASE m # j
      <3>1. <<m, y>> \in used' <=> <<m, y>> \in used
        BY <1>5, <2>5
      <3>. QED
        BY <2>1, <2>2, <2>3, <2>5, <3>1
    <2>. QED
      BY <2>4, <2>5
  <1>9. ASSUME NEW p \in 0..next' - 1
        PROVE  node2rack'[p] = (Hosts(RackOf(p))[Cardinality(Taken(RackOf(p), p)) + 1])'
    <2>1. Hosts(RackOf(p))' = Hosts(RackOf(p)) /\ Taken(RackOf(p), p)' = Taken(RackOf(p), p)
      BY <1>5 DEF Hosts, Taken, RackOf
    <2>2. p \in Positions /\ ((p \in 0..next - 1 /\ p # next) \/ p = next)
      BY <1>5, <1>6 DEF Positions
    <2>3. CASE p = next
      BY <1>5, <1>6, <2>1, <2>3
    <2>4. CASE p \in 0..next - 1 /\ p # next
      <3>1. node2rack'[p] = node2rack[p]
        BY <1>5, <1>6, <2>2, <2>4
      <3>2. node2rack[p] = Hosts(RackOf(p))[Cardinality(Taken(RackOf(p), p)) + 1]
        BY <1>3, <2>4 DEF Assigning
      <3>. QED
        BY <2>1, <3>1, <3>2
    <2>. QED
      BY <2>2, <2>3, <2>4
  <1>10. tail' = {}
    BY <1>3, <1>5 DEF Assigning
  <1>. QED
    BY <1>5, <1>7, <1>8, <1>9, <1>10 DEF Assigning

\* The invariant of the placement, with the file well formed or not.
LEMMA PlaceStep ==
    ParseInv /\ PlaceInv /\ [Next]_vars => PlaceInv'
  <1>1. PlaceInv /\ UNCHANGED vars => PlaceInv'
    <2>. SUFFICES ASSUME PlaceInv, UNCHANGED vars PROVE PlaceInv'
      OBVIOUS
    <2>1. UNCHANGED <<file, pc, rack, line, left, group, tail, used, node2rack, next>>
      BY DEF vars
    <2>2. WellFormed(file)' <=> WellFormed(file)
      BY <2>1 DEF WellFormed
    <2>3. Reading' <=> Reading
      BY <2>1 DEF Reading, Filled, Hosts
    <2>4. Assigning' <=> Assigning
      BY <2>1 DEF Assigning, Filled, Hosts, Taken, RackOf
    <2>. QED
      BY <2>1, <2>2, <2>3, <2>4 DEF PlaceInv
  <1>. QED
    BY <1>1, ReadRackPlaces, ReadServerPlaces, ReadNodesPlaces, AssignServerPlaces DEF Next

(***************************************************************************)
(* The lists are those of the file, and each position has the server whose *)
(* turn it is in its rack.                                                 *)
(***************************************************************************)
THEOREM PlacementFollowsFile ==
    Spec => [](ParseInv /\ PlaceInv)
  <1>1. Init => ParseInv /\ PlaceInv
    BY ParseInit, PlaceInit
  <1>2. ParseInv /\ PlaceInv /\ [Next]_vars => (ParseInv /\ PlaceInv)'
    BY ParseStep, PlaceStep
  <1>. QED
    BY <1>1, <1>2, PTL DEF Spec

(***************************************************************************)
(* Reading and using a well-formed rack.txt never follows a NULL or wild   *)
(* pointer, and no rack runs out of servers.                               *)
(***************************************************************************)
THEOREM WellFormedIsSafe ==
    Spec => []NoWildPointer
  <1>1. ParseInv /\ PlaceInv => NoWildPointer
    BY AssignPlaces DEF NoWildPointer, PlaceInv, Assigning
  <1>. QED
    BY <1>1, PlacementFollowsFile, PTL

(***************************************************************************)
(* The placement is a function of the file, so that two clients with the   *)
(* same rack.txt find each other's blocks.                                 *)
(***************************************************************************)
THEOREM ClientsAgree ==
    Spec => []PlacementAgreed
  <1>1. ParseInv /\ PlaceInv => PlacementAgreed
    <2>. SUFFICES ASSUME ParseInv, PlaceInv, pc = "done", WellFormed(file), NEW p \in Positions
                  PROVE  node2rack[p] = file.racks[RackOf(p)].hosts[Cardinality(Peers(p)) + 1]
      BY DEF PlacementAgreed
    <2>1. file \in Files /\ next = N /\ Assigning
      BY DEF ParseInv, PlaceInv
    <2>2. file.nodes \in [Positions -> Nat] /\ N \in Nat
      BY <2>1, FileFacts
    <2>3. p \in 0..next - 1
      BY <2>1 DEF Positions
    <2>4. Taken(RackOf(p), p) = Peers(p)
      <3>1. \A q \in 0..p - 1 : q \in Positions
        BY <2>2 DEF Positions
      <3>2. \A q \in 0..p - 1 : (file.nodes[q] + 1 = file.nodes[p] + 1) <=> (file.nodes[q] = file.nodes[p])
        BY <2>2, <3>1
      <3>. QED
        BY <3>2 DEF Taken, Peers, RackOf
    <2>. QED
      BY <2>1, <2>3, <2>4 DEF Assigning, Hosts
  <1>. QED
    BY <1>1, PlacementFollowsFile, PTL

(***************************************************************************)
(* With a well-formed file no two blocks of a stripe share a server, every *)
(* block is in the rack the file gives it, and none is on the network      *)
(* core.                                                                   *)
(***************************************************************************)
THEOREM BlocksApart ==
    Spec => []OneBlockPerServer
  <1>1. ParseInv /\ PlaceInv => OneBlockPerServer
    <2>. SUFFICES ASSUME ParseInv, PlaceInv, pc = "done", WellFormed(file)
                  PROVE  /\ \A p, q \in Positions : node2rack[p] = node2rack[q] => p = q
                         /\ \A p \in Positions :
                               \E x \in 1..Len(file.racks[RackOf(p)].hosts) :
                                   node2rack[p] = file.racks[RackOf(p)].hosts[x]
                         /\ \A p \in Positions : node2rack[p] # Core
      BY DEF OneBlockPerServer
    <2>. DEFINE c(p) == Cardinality(Taken(RackOf(p), p)) + 1
    <2>1. file \in Files /\ next = N /\ Assigning
      BY DEF ParseInv, PlaceInv
    <2>2. N \in Nat
      BY <2>1, FileFacts
    <2>3. ASSUME NEW p \in Positions
          PROVE  /\ RackOf(p) \in 1..Len(file.racks) /\ c(p) \in 1..Len(Hosts(RackOf(p)))
                 /\ node2rack[p] = Hosts(RackOf(p))[c(p)] /\ p \in Nat
      <3>1. p \in 0..next - 1 /\ p \in Nat
        BY <2>1, <2>2 DEF Positions
      <3>. QED
        BY <2>1, <3>1, RackSuffices DEF Assigning
    <2>4. ASSUME NEW p \in Positions PROVE node2rack[p] # Core
      <3>1. Hosts(RackOf(p)) \in Seq(Keys \ {Core})
        BY <2>3 DEF WellFormed, Hosts
      <3>. QED
        BY <2>3, <3>1, ElementOfSeq
    <2>5. ASSUME NEW p \in Positions, NEW q \in Positions, p < q,
                 RackOf(p) = RackOf(q), c(p) = c(q)
          PROVE  FALSE
      <3>. DEFINE j == RackOf(p)
      <3>1. p \in Nat /\ q \in Nat
        BY <2>3
      <3>2. /\ Cardinality(Taken(j, p + 1)) = Cardinality(Taken(j, p)) + 1
            /\ Cardinality(Taken(j, p)) \in Nat
            /\ IsFiniteSet(Taken(j, q)) /\ Cardinality(Taken(j, q)) \in Nat
        BY <3>1, TakenFacts
      <3>3. Taken(j, p + 1) \subseteq Taken(j, q)
        BY <2>5, <3>1 DEF Taken
      <3>4. Cardinality(Taken(j, p + 1)) <= Cardinality(Taken(j, q))
        BY <3>2, <3>3, FS_Subset
      <3>5. Cardinality(Taken(j, p)) + 1 = Cardinality(Taken(j, q)) + 1
        BY <2>5
      <3>. HIDE DEF j
      <3>. QED
        BY <3>2, <3>4, <3>5
    <2>6. ASSUME NEW p \in Positions, NEW q \in Positions, node2rack[p] = node2rack[q]
          PROVE  p = q
      <3>1. RackOf(p) = RackOf(q) /\ c(p) = c(q)
        <4>1. \A j, m \in 1..Len(file.racks) :
                 \A x \in 1..Len(Hosts(j)), y \in 1..Len(Hosts(m)) :
                    Hosts(j)[x] = Hosts(m)[y] => j = m /\ x = y
          BY DEF WellFormed, Hosts
        <4>2. Hosts(RackOf(p))[c(p)] = Hosts(RackOf(q))[c(q)]
          BY <2>3, <2>6
        <4>. HIDE DEF c
        <4>. QED
          BY <2>3, <4>1, <4>2
      <3>2. ~(p < q) /\ ~(q < p)
        BY <2>5, <3>1
      <3>. QED
        BY <2>3, <3>2
    <2>. HIDE DEF c
    <2>. QED
      BY <2>3, <2>4, <2>6 DEF Hosts
  <1>. QED
    BY <1>1, PlacementFollowsFile, PTL
============================================================================
