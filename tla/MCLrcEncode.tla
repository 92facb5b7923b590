---------------------------- MODULE MCLrcEncode ----------------------------
(***************************************************************************)
(* Every code with at most MaxN positions.                                 *)
(***************************************************************************)
EXTENDS LrcDesign

CONSTANT MaxN

AllCodes == {c \in [n : 1..MaxN, k : 1..MaxN, r : 1..MaxN] : ValidCode(c.n, c.k, c.r)}

\* Up to and beyond the length from which every value of k fills its blocks.
AllLengths == 0..LongSize * MaxN * (MaxN - 1) + LongSize * MaxN
============================================================================
