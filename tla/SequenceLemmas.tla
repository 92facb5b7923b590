--------------------------- MODULE SequenceLemmas ---------------------------
(***************************************************************************)
(* Facts about sequences that the proofs of several components need: a     *)
(* handle pool, a server list and the answers on a connection are          *)
(* sequences in the model.                                                 *)
(***************************************************************************)
EXTENDS Integers, Sequences, SequenceTheorems, TLAPS

(***************************************************************************)
(* The indices below the last one.                                         *)
(***************************************************************************)
LEMMA LastIndex ==
    ASSUME NEW n \in Nat \ {0}
    PROVE  /\ \A i \in 1..n : i \in 1..n - 1 \/ i = n
           /\ \A i \in 1..n - 1 : i \in 1..n /\ i # n
           /\ n \in 1..n
  OBVIOUS

(***************************************************************************)
(* The first m elements of a sequence.                                     *)
(***************************************************************************)
LEMMA PrefixFacts ==
    ASSUME NEW S, NEW s \in Seq(S), NEW m \in 0..Len(s)
    PROVE  /\ SubSeq(s, 1, m) \in Seq(S)
           /\ Len(SubSeq(s, 1, m)) = m
           /\ \A i \in 1..m : SubSeq(s, 1, m)[i] = s[i]
  <1>1. Len(s) \in Nat /\ \A i \in 1..Len(s) : s[i] \in S
    BY LenProperties, ElementOfSeq
  <1>2. m \in Int /\ 1 \in Int /\ \A i \in 1..m : s[i] \in S
    BY <1>1
  <1>3. /\ SubSeq(s, 1, m) \in Seq(S)
        /\ Len(SubSeq(s, 1, m)) = IF 1 <= m THEN m - 1 + 1 ELSE 0
        /\ \A i \in 1..m - 1 + 1 : SubSeq(s, 1, m)[i] = s[1 + i - 1]
    BY <1>2, SubSeqProperties
  <1>. QED
    BY <1>2, <1>3

(***************************************************************************)
(* A function on 1..n is a sequence of length n.                           *)
(***************************************************************************)
LEMMA FunctionIsSeq ==
    ASSUME NEW S, NEW n \in Nat, NEW s \in [1..n -> S]
    PROVE  s \in Seq(S) /\ Len(s) = n
  <1>1. s \in Seq(S)
    BY SeqDef
  <1>2. Len(s) \in Nat /\ 1..Len(s) = 1..n
    BY <1>1, LenProperties
  <1>3. ASSUME NEW m \in Nat, 1..m = 1..n PROVE m = n
    <2>1. ~(m < n)
      <3>1. m < n => n \in 1..n
        OBVIOUS
      <3>2. m < n => n \notin 1..m
        OBVIOUS
      <3>. QED
        BY <1>3, <3>1, <3>2
    <2>2. ~(n < m)
      <3>1. n < m => m \in 1..m
        OBVIOUS
      <3>2. n < m => m \notin 1..n
        OBVIOUS
      <3>. QED
        BY <1>3, <3>1, <3>2
    <2>. QED
      BY <2>1, <2>2
  <1>. QED
    BY <1>1, <1>2, <1>3

(***************************************************************************)
(* A sequence without its first m - 1 elements.                            *)
(***************************************************************************)
LEMMA SuffixFacts ==
    ASSUME NEW S, NEW s \in Seq(S), NEW m \in 1..Len(s) + 1
    PROVE  /\ SubSeq(s, m, Len(s)) \in Seq(S)
           /\ Len(SubSeq(s, m, Len(s))) = Len(s) - m + 1
           /\ \A i \in 1..Len(s) - m + 1 : SubSeq(s, m, Len(s))[i] = s[m + i - 1]
  <1>1. Len(s) \in Nat /\ \A i \in 1..Len(s) : s[i] \in S
    BY LenProperties, ElementOfSeq
  <1>2. m \in Int /\ Len(s) \in Int /\ \A i \in m..Len(s) : s[i] \in S
    BY <1>1
  <1>3. /\ SubSeq(s, m, Len(s)) \in Seq(S)
        /\ Len(SubSeq(s, m, Len(s))) = IF m <= Len(s) THEN Len(s) - m + 1 ELSE 0
        /\ \A i \in 1..Len(s) - m + 1 : SubSeq(s, m, Len(s))[i] = s[m + i - 1]
    BY <1>2, SubSeqProperties
  <1>. QED
    BY <1>1, <1>3
============================================================================
