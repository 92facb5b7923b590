--------------------------- MODULE LrcCodeProofs ---------------------------
(***************************************************************************)
(* Facts about the layout arithmetic that hold for every valid code.       *)
(***************************************************************************)
EXTENDS LrcCode, TLAPS

(***************************************************************************)
(* Integer division, as the C code's unsigned division.                    *)
(***************************************************************************)
LEMMA DivFact ==
    ASSUME NEW a \in Nat, NEW b \in Nat \ {0}
    PROVE  /\ a \div b \in Nat
           /\ b * (a \div b) <= a
           /\ a < b * (a \div b) + b
  BY SMT

(***************************************************************************)
(* A product grows with its factor.                                        *)
(***************************************************************************)
LEMMA MulMono ==
    ASSUME NEW a \in Nat, NEW b \in Nat, NEW c \in Nat, a <= b
    PROVE  c * a <= c * b
  <1>1. PICK e \in Nat : b = a + e
    BY SMT
  <1>2. c * b = c * a + c * e
    BY <1>1, SMT
  <1>3. c * e >= 0
    BY SMT
  <1>. QED
    BY <1>2, <1>3, SMT

\* A product of naturals is a natural.
LEMMA MulNat ==
    ASSUME NEW a \in Nat, NEW b \in Nat
    PROVE  a * b \in Nat
  BY SMT

(***************************************************************************)
(* What ValidCode says, without the multiplication.                        *)
(***************************************************************************)
LEMMA ValidFacts ==
    ASSUME NEW n, NEW k, NEW r, ValidCode(n, k, r)
    PROVE  /\ n \in Nat \ {0} /\ k \in Nat \ {0} /\ r \in Nat \ {0}
           /\ LocalGroups(n, r) \in Nat
           /\ LocalGroups(n, r) + k <= n
           /\ n <= (r + 1) * LocalGroups(n, r)
  <1>1. n \in Nat \ {0} /\ k \in Nat \ {0} /\ r \in Nat \ {0}
    BY SMT DEF ValidCode, MaxNodes
  <1>2. /\ n + r \in Nat /\ r + 1 \in Nat \ {0}
    BY <1>1, SMT
  <1>3. /\ LocalGroups(n, r) \in Nat
        /\ n + r < (r + 1) * LocalGroups(n, r) + (r + 1)
    BY <1>2, DivFact DEF LocalGroups
  <1>4. (r + 1) * LocalGroups(n, r) \in Nat
    BY <1>2, <1>3, MulNat
  <1>5. LocalGroups(n, r) + k <= n
    BY DEF ValidCode
  <1>. QED
    BY <1>1, <1>3, <1>4, <1>5, SMT

(***************************************************************************)
(* The group of a position: it starts at a multiple of r+1, it contains    *)
(* the position, and it ends inside the stripe.                            *)
(***************************************************************************)
LEMMA GroupFacts ==
    ASSUME NEW n \in Nat \ {0}, NEW r \in Nat \ {0}, NEW p \in 0..n - 1
    PROVE  LET j == GroupOf(p, r)
           IN  /\ j \in Nat
               /\ j * (r + 1) \in Nat
               /\ GroupSize(j, n, r) \in Nat
               /\ ParityPos(j, n, r) \in 0..n - 1
               /\ p \in j * (r + 1) .. ParityPos(j, n, r)
               /\ ParityPos(j, n, r) <= j * (r + 1) + r
  <1>. DEFINE j == GroupOf(p, r)
              m == j * (r + 1)
  <1>1. p \in Nat /\ r + 1 \in Nat \ {0}
    BY SMT
  <1>2. j \in Nat /\ (r + 1) * j <= p /\ p < (r + 1) * j + (r + 1)
    BY <1>1, DivFact DEF GroupOf
  <1>3. m \in Nat /\ (r + 1) * j = m /\ (r + 1) * (j + 1) = m + (r + 1)
    BY <1>1, <1>2, SMT
  <1>. HIDE DEF j, m
  <1>4. GroupSize(j, n, r) = IF m + (r + 1) > n THEN n - m ELSE r + 1
    BY <1>3 DEF GroupSize, m
  <1>5. ParityPos(j, n, r) = m + GroupSize(j, n, r) - 1
    BY DEF ParityPos, m
  <1>6. GroupSize(j, n, r) \in Nat /\ ParityPos(j, n, r) \in 0..n - 1
        /\ p \in m .. ParityPos(j, n, r) /\ ParityPos(j, n, r) <= m + r
    BY <1>1, <1>2, <1>3, <1>4, <1>5, SMT
  <1>. QED
    BY <1>2, <1>3, <1>6 DEF j, m

(***************************************************************************)
(* All positions of a group have the same group.                           *)
(***************************************************************************)
LEMMA SameGroup ==
    ASSUME NEW r \in Nat \ {0}, NEW j \in Nat, NEW x \in 0..r
    PROVE  GroupOf(j * (r + 1) + x, r) = j
  <1>. DEFINE p == j * (r + 1) + x
              q == p \div (r + 1)
  <1>1. p \in Nat /\ r + 1 \in Nat \ {0} /\ j * (r + 1) = (r + 1) * j /\ j * (r + 1) \in Nat
    BY SMT
  <1>2. q \in Nat /\ (r + 1) * q <= p /\ p < (r + 1) * q + (r + 1)
    BY <1>1, DivFact
  <1>. HIDE DEF q
  <1>3. ~(q < j)
    <2>1. SUFFICES ASSUME q + 1 <= j PROVE FALSE
      BY <1>2, SMT
    <2>2. (r + 1) * (q + 1) <= (r + 1) * j
      BY <1>1, <1>2, <2>1, MulMono
    <2>3. (r + 1) * (q + 1) = (r + 1) * q + (r + 1) /\ (r + 1) * q \in Nat
      BY <1>1, <1>2, SMT
    <2>. QED
      BY <1>1, <1>2, <2>2, <2>3, SMT
  <1>4. ~(j < q)
    <2>1. SUFFICES ASSUME j + 1 <= q PROVE FALSE
      BY <1>2, SMT
    <2>2. (r + 1) * (j + 1) <= (r + 1) * q
      BY <1>1, <1>2, <2>1, MulMono
    <2>3. (r + 1) * (j + 1) = (r + 1) * j + (r + 1) /\ (r + 1) * q \in Nat
      BY <1>1, <1>2, SMT
    <2>. QED
      BY <1>1, <1>2, <2>2, <2>3, SMT
  <1>. QED
    BY <1>2, <1>3, <1>4, SMT DEF GroupOf, q

(***************************************************************************)
(* Every data block has a position in the stripe, slot d % r of group      *)
(* d \div r.                                                               *)
(***************************************************************************)
LEMMA DataPosFacts ==
    ASSUME NEW n, NEW k, NEW r, ValidCode(n, k, r), NEW d \in 0..k - 1
    PROVE  /\ DataPos(d, r) \in 0..n - 1
           /\ d \div r \in Nat
           /\ DataPos(d, r) - (d \div r) * (r + 1) \in 0..r - 1
           /\ GroupOf(DataPos(d, r), r) = d \div r
  <1>. DEFINE q == d \div r
              L == LocalGroups(n, r)
              x == d - r * q
  <1>1. /\ n \in Nat \ {0} /\ k \in Nat \ {0} /\ r \in Nat \ {0}
        /\ L \in Nat /\ L + k <= n /\ n <= (r + 1) * L
    BY ValidFacts
  <1>2. d \in Nat /\ d < k
    BY <1>1, SMT
  <1>3. q \in Nat /\ r * q <= d /\ d < r * q + r
    BY <1>1, <1>2, DivFact
  <1>. HIDE DEF q, L
  <1>4. r * q \in Nat /\ q * (r + 1) = r * q + q
    BY <1>1, <1>3, SMT
  <1>5. d + q <= n - 1
    <2>1. SUFFICES ASSUME n <= d + q PROVE FALSE
      BY <1>1, <1>2, <1>3, SMT
    <2>2. L + 1 <= q
      BY <1>1, <1>2, <1>3, <2>1, SMT
    <2>3. r * (L + 1) <= r * q
      BY <1>1, <1>3, <2>2, MulMono
    <2>4. r * (L + 1) = r * L + r /\ (r + 1) * L = r * L + L /\ r * L \in Nat
      BY <1>1, SMT
    <2>. QED
      BY <1>1, <1>2, <1>3, <1>4, <2>3, <2>4, SMT
  <1>6. DataPos(d, r) = d + q
    BY DEF DataPos, q
  <1>7. x \in 0..r - 1 /\ d + q = q * (r + 1) + x
    BY <1>1, <1>2, <1>3, <1>4, SMT
  <1>8. x \in 0..r
    BY <1>1, <1>7, SMT
  <1>. HIDE DEF x
  <1>9. GroupOf(q * (r + 1) + x, r) = q
    BY <1>1, <1>3, <1>8, SameGroup
  <1>. QED
    BY <1>1, <1>2, <1>3, <1>4, <1>5, <1>6, <1>7, <1>9, SMT DEF q
(***************************************************************************)
(* No two data blocks share a position.                                    *)
(***************************************************************************)
LEMMA DataPosInjective ==
    ASSUME NEW n, NEW k, NEW r, ValidCode(n, k, r), NEW d \in 0..k - 1, NEW e \in 0..k - 1,
           DataPos(d, r) = DataPos(e, r)
    PROVE  d = e
  <1>1. d \div r = e \div r /\ d \div r \in Nat
    BY DataPosFacts
  <1>2. k \in Nat /\ d \in Int /\ e \in Int
    BY ValidFacts, SMT
  <1>. QED
    BY <1>1, <1>2, SMT DEF DataPos

(***************************************************************************)
(* The quotient is determined by its bounds.                               *)
(***************************************************************************)
LEMMA DivUnique ==
    ASSUME NEW a \in Nat, NEW b \in Nat \ {0}, NEW m \in Nat,
           b * m <= a, a < b * m + b
    PROVE  a \div b = m
  <1>. DEFINE q == a \div b
  <1>1. q \in Nat /\ b * q <= a /\ a < b * q + b
    BY DivFact
  <1>. HIDE DEF q
  <1>2. b * q \in Nat /\ b * m \in Nat /\ b * (q + 1) = b * q + b /\ b * (m + 1) = b * m + b
    BY <1>1, SMT
  <1>3. ~(q + 1 <= m)
    BY <1>1, <1>2, MulMono, SMT
  <1>4. ~(m + 1 <= q)
    BY <1>1, <1>2, MulMono, SMT
  <1>. QED
    BY <1>1, <1>3, <1>4, SMT DEF q

(***************************************************************************)
(* A degraded get reads the right blocks: when the data blocks fill their  *)
(* groups, the blocks memcached_get_lrc decodes data block d from are      *)
(* exactly the other positions of d's local group, and these are all       *)
(* positions of the stripe.                                                *)
(***************************************************************************)
THEOREM DecodeSourcesAreGroup ==
    ASSUME NEW n, NEW k, NEW r, ValidCode(n, k, r), k % r = 0, NEW d \in 0..k - 1
    PROVE  DecodeSources(d, n, k, r) =
               GroupPositions(GroupOf(DataPos(d, r), r), n, r) \ {DataPos(d, r)}
  <1>. DEFINE q == d \div r
              m == k \div r
              L == LocalGroups(n, r)
  <1>1. /\ n \in Nat \ {0} /\ k \in Nat \ {0} /\ r \in Nat \ {0}
        /\ L \in Nat /\ L + k <= n /\ n <= (r + 1) * L
    BY ValidFacts
  <1>2. m \in Nat /\ k = r * m
    BY <1>1, SMT
  <1>3. d \in Nat /\ d < k
    BY <1>1, SMT
  <1>4. q \in Nat /\ r * q <= d /\ d < r * q + r
    BY <1>1, <1>3, DivFact
  <1>5. /\ DataPos(d, r) \in 0..n - 1
        /\ DataPos(d, r) - q * (r + 1) \in 0..r - 1
        /\ GroupOf(DataPos(d, r), r) = q
    BY DataPosFacts
  <1>. HIDE DEF q, m, L
  <1>6. q + 1 <= m
    <2>1. SUFFICES ASSUME m <= q PROVE FALSE
      BY <1>2, <1>4, SMT
    <2>2. r * m <= r * q
      BY <1>1, <1>2, <1>4, <2>1, MulMono
    <2>. QED
      BY <1>1, <1>2, <1>3, <1>4, <2>2, SMT
  <1>7. m <= L
    <2>1. SUFFICES ASSUME L + 1 <= m PROVE FALSE
      BY <1>1, <1>2, SMT
    <2>2. r * (L + 1) <= r * m
      BY <1>1, <1>2, <2>1, MulMono
    <2>3. r * (L + 1) = r * L + r /\ (r + 1) * L = r * L + L /\ r * L \in Nat
      BY <1>1, SMT
    <2>. QED
      BY <1>1, <1>2, <2>2, <2>3, SMT
  <1>. DEFINE b == q * (r + 1)
              M == (r + 1) * m
  <1>8. /\ b \in Nat /\ (r + 1) * (q + 1) = b + (r + 1)
        /\ M \in Nat /\ M = k + m /\ b + (r + 1) <= M
    <2>1. /\ b \in Nat /\ (r + 1) * (q + 1) = b + (r + 1) /\ M \in Nat /\ M = r * m + m
      BY <1>1, <1>2, <1>4, SMT
    <2>2. (r + 1) * (q + 1) <= (r + 1) * m
      BY <1>1, <1>2, <1>4, <1>6, MulMono
    <2>. QED
      BY <1>2, <2>1, <2>2
  <1>. HIDE DEF b, M
  <1>9. M <= n
    BY <1>1, <1>2, <1>7, <1>8, SMT
  <1>10. GroupSize(q, n, r) = r + 1
    BY <1>1, <1>8, <1>9, SMT DEF GroupSize
  <1>11. ParityPos(q, n, r) = b + r
    BY <1>1, <1>8, <1>10, SMT DEF ParityPos, b
  <1>12. (k - 1) \div r = m - 1
    <2>1. m - 1 \in Nat /\ k - 1 \in Nat
      BY <1>1, <1>2, <1>4, <1>6, SMT
    <2>2. r * (m - 1) = k - r
      BY <1>1, <1>2, <2>1, SMT
    <2>3. r * (m - 1) <= k - 1 /\ k - 1 < r * (m - 1) + r
      BY <1>1, <2>2, SMT
    <2>. QED
      BY <1>1, <2>1, <2>3, DivUnique
  <1>13. LastBlock(k, r) = M - 2
    BY <1>1, <1>2, <1>8, <1>12, SMT DEF LastBlock
  <1>14. ToFetch(d, n, k, r) = 1
    BY DEF ToFetch
  <1>15. FetchPos(0, d, r) = b + r
    BY <1>1, <1>8, SMT DEF FetchPos, b, q
  <1>16. FetchPositions(d, n, k, r) = {b + r}
    <2>1. 0..1 - 1 = {0}
      BY SMT
    <2>. QED
      BY <1>14, <1>15, <2>1 DEF FetchPositions
  <1>17. HeldPositions(d, n, k, r) =
            {p \in b .. b + (r + 1) - 2 : p <= M - 2 /\ p # DataPos(d, r)}
    BY <1>10, <1>13 DEF HeldPositions, b, q
  <1>18. HeldPositions(d, n, k, r) = (b .. b + r - 1) \ {DataPos(d, r)}
    BY <1>1, <1>8, <1>17, SMT
  <1>19. DataPos(d, r) # b + r
    BY <1>1, <1>5, <1>8, SMT DEF b
  <1>20. GroupPositions(q, n, r) = b .. b + r
    BY <1>11 DEF GroupPositions, b
  <1>21. b .. b + r = (b .. b + r - 1) \cup {b + r}
    BY <1>1, <1>8, SMT
  <1>. QED
    BY <1>5, <1>16, <1>18, <1>19, <1>20, <1>21 DEF DecodeSources

\* Division is monotone.
LEMMA DivMono ==
    ASSUME NEW a \in Nat, NEW b \in Nat, NEW r \in Nat \ {0}, a <= b
    PROVE  a \div r \in Nat /\ b \div r \in Nat /\ a \div r <= b \div r
  <1>. DEFINE x == a \div r
              y == b \div r
  <1>1. /\ x \in Nat /\ r * x <= a /\ a < r * x + r
        /\ y \in Nat /\ r * y <= b /\ b < r * y + r
    BY DivFact
  <1>. HIDE DEF x, y
  <1>2. SUFFICES ASSUME y + 1 <= x PROVE FALSE
    BY <1>1, SMT DEF x, y
  <1>3. r * (y + 1) <= r * x
    BY <1>1, <1>2, MulMono, SMT
  <1>4. r * (y + 1) = r * y + r
    BY <1>1, SMT
  <1>. DEFINE u == r * x
              v == r * y
  <1>5. u \in Nat /\ v \in Nat
    BY <1>1, MulNat
  <1>. HIDE DEF u, v
  <1>6. v + r <= u /\ u <= a /\ b < v + r
    BY <1>1, <1>3, <1>4 DEF u, v
  <1>. QED
    BY <1>5, <1>6, SMT

(***************************************************************************)
(* What a degraded get fetches besides is never a data block.              *)
(***************************************************************************)
LEMMA FetchedIsNoData ==
    ASSUME NEW n, NEW k, NEW r, ValidCode(n, k, r),
           NEW d \in 0..k - 1, NEW e \in 0..k - 1
    PROVE  DataPos(e, r) \notin FetchPositions(d, n, k, r)
  <1>. DEFINE q == d \div r
  <1>1. n \in Nat \ {0} /\ k \in Nat \ {0} /\ r \in Nat \ {0}
    BY ValidFacts
  <1>2. q \in Nat
    BY DataPosFacts
  <1>3. /\ DataPos(e, r) - (e \div r) * (r + 1) \in 0..r - 1
        /\ GroupOf(DataPos(e, r), r) = e \div r
        /\ DataPos(e, r) \in Int
    BY <1>1, DataPosFacts, SMT
  <1>. HIDE DEF q
  <1>4. SUFFICES ASSUME NEW b \in 0..ToFetch(d, n, k, r) - 1,
                        DataPos(e, r) = q * (r + 1) + r + b
                 PROVE  FALSE
    BY DEF FetchPositions, FetchPos, q
  <1>5. q * (r + 1) \in Nat /\ (e \div r) * (r + 1) \in Nat /\ b \in Nat
    <2>1. e \div r \in Nat
      BY <1>1, DataPosFacts
    <2>2. r + 1 \in Nat
      BY <1>1, SMT
    <2>3. b \in Nat
      BY SMT
    <2>. QED
      BY <1>2, <2>1, <2>2, <2>3, MulNat
  <1>6. CASE b = 0
    <2>1. GroupOf(q * (r + 1) + r, r) = q
      <3>1. r \in 0..r
        BY <1>1, SMT
      <3>. QED
        BY <1>1, <1>2, <3>1, SameGroup
    <2>2. DataPos(e, r) = q * (r + 1) + r
      BY <1>1, <1>4, <1>5, <1>6, SMT
    <2>3. DataPos(e, r) - q * (r + 1) \in 0..r - 1
      BY <1>3, <2>1, <2>2
    <2>. QED
      BY <1>1, <1>5, <2>2, <2>3, SMT
  <1>7. CASE b # 0
    <2>1. q = (k - 1) \div r
      <3>1. ToFetch(d, n, k, r) # 1
        BY <1>7, SMT
      <3>. QED
        BY <3>1 DEF ToFetch, q
    <2>2. e \div r <= q /\ e \div r \in Nat
      <3>1. e \in Nat /\ k - 1 \in Nat /\ e <= k - 1
        BY <1>1, SMT
      <3>. QED
        BY <1>1, <2>1, <3>1, DivMono
    <2>3. (e \div r) * (r + 1) <= q * (r + 1)
      BY <1>1, <1>2, <2>2, MulMono, SMT
    <2>. DEFINE a == (e \div r) * (r + 1)
                z == q * (r + 1)
    <2>. HIDE DEF a, z
    <2>4. DataPos(e, r) - a \in 0..r - 1 /\ a <= z /\ a \in Nat /\ z \in Nat
          /\ DataPos(e, r) = z + r + b
      BY <1>3, <1>4, <1>5, <2>3 DEF a, z
    <2>. QED
      BY <1>1, <1>3, <1>5, <2>4, SMT
  <1>. QED
    BY <1>6, <1>7

(***************************************************************************)
(* The remainder belongs to the quotient.                                  *)
(***************************************************************************)
LEMMA ModFact ==
    ASSUME NEW a \in Nat, NEW b \in Nat \ {0}
    PROVE  a % b = a - b * (a \div b)
  BY SMT

(***************************************************************************)
(* The groups of a valid code: each has at least one block besides its     *)
(* parity and ends inside the stripe, all but the last are full, and the   *)
(* last one ends at position n - 1, where the blocks run out.              *)
(***************************************************************************)
LEMMA GroupShape ==
    ASSUME NEW n, NEW k, NEW r, ValidCode(n, k, r), NEW j \in 0..LocalGroups(n, r) - 1
    PROVE  /\ j \in Nat /\ j * (r + 1) \in Nat /\ j * r \in Nat
           /\ j * (r + 1) = j * r + j
           /\ GroupSize(j, n, r) \in 2..r + 1
           /\ ParityPos(j, n, r) = j * (r + 1) + GroupSize(j, n, r) - 1
           /\ ParityPos(j, n, r) \in 0..n - 1
           /\ j * r + GroupSize(j, n, r) - 1 <= n - LocalGroups(n, r)
           /\ j < LocalGroups(n, r) - 1 =>
                 GroupSize(j, n, r) = r + 1 /\ j * r + r < n - LocalGroups(n, r)
           /\ j = LocalGroups(n, r) - 1 =>
                 /\ ParityPos(j, n, r) = n - 1
                 /\ j * r + GroupSize(j, n, r) - 1 = n - LocalGroups(n, r)
  <1>. DEFINE L == LocalGroups(n, r)
              b == j * (r + 1)
              l == L - 1
              e == l * (r + 1)
  <1>1. /\ n \in Nat \ {0} /\ k \in Nat \ {0} /\ r \in Nat \ {0}
        /\ L \in Nat /\ L + k <= n /\ n <= (r + 1) * L
    BY ValidFacts
  <1>2. n + r \in Nat /\ r + 1 \in Nat \ {0}
    BY <1>1, SMT
  <1>3. (r + 1) * L <= n + r
    BY <1>2, DivFact DEF LocalGroups
  <1>4. n % (r + 1) # 1
    BY DEF ValidCode
  <1>. HIDE DEF L
  <1>5. j \in Nat /\ j <= l /\ l \in Nat
    BY <1>1, SMT DEF L
  <1>6. /\ b \in Nat /\ j * r \in Nat /\ b = j * r + j
        /\ (r + 1) * (j + 1) = b + (r + 1) /\ (r + 1) * j = b
    BY <1>1, <1>5, SMT
  <1>. HIDE DEF l
  <1>7. /\ e \in Nat /\ l * r \in Nat /\ e = l * r + l
        /\ (r + 1) * l = e
    BY <1>1, <1>5, SMT
  <1>8. L = l + 1
    BY <1>1, SMT DEF l
  <1>9. (r + 1) * L = e + (r + 1)
    BY <1>1, <1>5, <1>7, <1>8, SMT
  <1>. HIDE DEF b, e
  <1>10. e + 1 <= n /\ n <= e + (r + 1)
    BY <1>1, <1>3, <1>7, <1>9, SMT
  <1>11. n # e + 1
    <2>1. SUFFICES ASSUME n = e + 1 PROVE FALSE
      OBVIOUS
    <2>2. (r + 1) * l <= n /\ n < (r + 1) * l + (r + 1)
      BY <1>1, <1>7, <2>1, SMT
    <2>3. n \div (r + 1) = l
      BY <1>1, <1>2, <1>5, <2>2, DivUnique
    <2>4. n % (r + 1) = n - (r + 1) * l
      BY <1>1, <1>2, <2>3, ModFact
    <2>. QED
      BY <1>1, <1>4, <1>7, <2>1, <2>4, SMT
  <1>12. GroupSize(j, n, r) = IF b + (r + 1) > n THEN n - b ELSE r + 1
    BY <1>6 DEF GroupSize, b
  <1>13. ParityPos(j, n, r) = b + GroupSize(j, n, r) - 1
    BY DEF ParityPos, b
  <1>14. CASE j = l
    <2>1. b = e /\ j * r = l * r
      BY <1>14 DEF b, e
    <2>2. GroupSize(j, n, r) = n - b
      BY <1>1, <1>7, <1>10, <1>12, <2>1, SMT
    <2>. QED
      BY <1>1, <1>5, <1>6, <1>7, <1>8, <1>10, <1>11, <1>13, <1>14, <2>1, <2>2, SMT DEF b, L
  <1>15. CASE j # l
    <2>1. j + 1 <= l
      BY <1>5, <1>15, SMT
    <2>2. (r + 1) * (j + 1) <= (r + 1) * l
      BY <1>1, <1>2, <1>5, <2>1, MulMono
    <2>3. b + (r + 1) <= e
      BY <1>6, <1>7, <2>2
    <2>4. GroupSize(j, n, r) = r + 1
      BY <1>1, <1>6, <1>7, <1>10, <1>12, <2>3, SMT
    <2>5. j * r + r < n - L
      <3>1. r * (j + 1) <= r * l /\ r * (j + 1) = j * r + r /\ r * l = l * r
        BY <1>1, <1>5, <2>1, MulMono, SMT
      <3>2. j * r + r <= l * r
        BY <3>1
      <3>. DEFINE u == j * r
                  v == l * r
      <3>3. u \in Nat /\ v \in Nat /\ e = v + l /\ u + r <= v
        BY <1>6, <1>7, <3>2
      <3>. HIDE DEF u, v
      <3>4. u + r < n - L
        BY <1>1, <1>5, <1>8, <1>10, <1>11, <3>3, SMT
      <3>. QED
        BY <3>4 DEF u
    <2>6. /\ ParityPos(j, n, r) \in 0..n - 1 /\ GroupSize(j, n, r) \in 2..r + 1
          /\ j * r + GroupSize(j, n, r) - 1 <= n - L
      BY <1>1, <1>6, <1>7, <1>10, <1>13, <2>3, <2>4, <2>5, SMT
    <2>. QED
      BY <1>1, <1>5, <1>6, <1>8, <1>13, <1>15, <2>4, <2>5, <2>6, SMT DEF b, L
  <1>. QED
    BY <1>14, <1>15

(***************************************************************************)
(* The positions of the stripe are those of its groups.                    *)
(***************************************************************************)
LEMMA GroupOfRange ==
    ASSUME NEW n, NEW k, NEW r, ValidCode(n, k, r), NEW p \in 0..n - 1
    PROVE  /\ GroupOf(p, r) \in 0..LocalGroups(n, r) - 1
           /\ GroupOf(p, r) * (r + 1) <= p
           /\ p <= ParityPos(GroupOf(p, r), n, r)
  <1>. DEFINE j == GroupOf(p, r)
              L == LocalGroups(n, r)
  <1>1. /\ n \in Nat \ {0} /\ k \in Nat \ {0} /\ r \in Nat \ {0}
        /\ L \in Nat /\ L + k <= n /\ n <= (r + 1) * L
    BY ValidFacts
  <1>2. j \in Nat /\ j * (r + 1) \in Nat /\ p \in j * (r + 1) .. ParityPos(j, n, r)
        /\ ParityPos(j, n, r) \in 0..n - 1
    BY <1>1, GroupFacts
  <1>. HIDE DEF j, L
  <1>3. j * (r + 1) = (r + 1) * j
    BY <1>1, <1>2, SMT
  <1>4. ~(L <= j)
    <2>1. SUFFICES ASSUME L <= j PROVE FALSE
      OBVIOUS
    <2>2. (r + 1) * L <= (r + 1) * j /\ (r + 1) * L \in Nat
      BY <1>1, <1>2, <2>1, MulMono, SMT
    <2>. QED
      BY <1>1, <1>2, <1>3, <2>2, SMT
  <1>. QED
    BY <1>1, <1>2, <1>4, SMT DEF j, L

(***************************************************************************)
(* A degraded get reads the right blocks also when the data blocks do not  *)
(* fill their last group, provided the block it misses is in another one.  *)
(***************************************************************************)
THEOREM DecodeSourcesOfFullGroup ==
    ASSUME NEW n, NEW k, NEW r, ValidCode(n, k, r), NEW d \in 0..k - 1,
           d \div r # (k - 1) \div r
    PROVE  DecodeSources(d, n, k, r) =
               GroupPositions(GroupOf(DataPos(d, r), r), n, r) \ {DataPos(d, r)}
  <1>. DEFINE q == d \div r
              m == (k - 1) \div r
              L == LocalGroups(n, r)
              b == q * (r + 1)
  <1>1. /\ n \in Nat \ {0} /\ k \in Nat \ {0} /\ r \in Nat \ {0}
        /\ L \in Nat /\ L + k <= n /\ n <= (r + 1) * L
    BY ValidFacts
  <1>2. d \in Nat /\ d <= k - 1 /\ k - 1 \in Nat
    BY <1>1, SMT
  <1>3. q \in Nat /\ r * q <= d /\ d < r * q + r
    BY <1>1, <1>2, DivFact
  <1>4. m \in Nat /\ r * m <= k - 1 /\ k - 1 < r * m + r
    BY <1>1, <1>2, DivFact
  <1>5. /\ DataPos(d, r) \in 0..n - 1
        /\ DataPos(d, r) - q * (r + 1) \in 0..r - 1
        /\ GroupOf(DataPos(d, r), r) = q
    BY DataPosFacts
  <1>6. q # m
    OBVIOUS
  <1>. HIDE DEF q, m, L
  <1>7. q + 1 <= m
    <2>1. SUFFICES ASSUME m + 1 <= q PROVE FALSE
      BY <1>3, <1>4, <1>6, SMT
    <2>2. r * (m + 1) <= r * q /\ r * (m + 1) = r * m + r /\ r * m \in Nat /\ r * q \in Nat
      BY <1>1, <1>3, <1>4, <2>1, MulMono, SMT
    <2>. QED
      BY <1>1, <1>2, <1>3, <1>4, <2>2, SMT
  <1>8. /\ b \in Nat /\ b = r * q + q /\ (r + 1) * (q + 1) = b + (r + 1)
        /\ r * q + r <= r * m /\ r * q \in Nat /\ r * m \in Nat
    <2>1. r * (q + 1) <= r * m
      BY <1>1, <1>3, <1>4, <1>7, MulMono
    <2>. QED
      BY <1>1, <1>3, <1>4, <2>1, SMT
  <1>. HIDE DEF b
  <1>9. b + r + 1 <= n
    <2>1. DataPos(k - 1, r) \in 0..n - 1
      BY <1>1, <1>2, DataPosFacts
    <2>2. DataPos(k - 1, r) = k - 1 + m
      BY DEF DataPos, m
    <2>. QED
      BY <1>1, <1>2, <1>3, <1>4, <1>7, <1>8, <2>1, <2>2, SMT
  <1>10. GroupSize(q, n, r) = r + 1
    BY <1>1, <1>8, <1>9, SMT DEF GroupSize
  <1>11. ParityPos(q, n, r) = b + r
    BY <1>1, <1>8, <1>10, SMT DEF ParityPos, b
  <1>12. LastBlock(k, r) = k + m - 1
    BY DEF LastBlock, m
  <1>13. ToFetch(d, n, k, r) = 1
    BY <1>6 DEF ToFetch, q, m
  <1>14. FetchPos(0, d, r) = b + r
    BY <1>1, <1>8, SMT DEF FetchPos, b, q
  <1>15. FetchPositions(d, n, k, r) = {b + r}
    <2>1. 0..1 - 1 = {0}
      BY SMT
    <2>. QED
      BY <1>13, <1>14, <2>1 DEF FetchPositions
  <1>16. HeldPositions(d, n, k, r) =
            {p \in b .. b + (r + 1) - 2 : p <= k + m - 1 /\ p # DataPos(d, r)}
    BY <1>10, <1>12 DEF HeldPositions, b, q
  <1>17. b + r - 1 <= k + m - 1
    BY <1>1, <1>2, <1>3, <1>4, <1>7, <1>8, SMT
  <1>18. HeldPositions(d, n, k, r) = (b .. b + r - 1) \ {DataPos(d, r)}
    BY <1>1, <1>4, <1>8, <1>16, <1>17, SMT
  <1>19. DataPos(d, r) # b + r
    BY <1>1, <1>5, <1>8, SMT DEF b
  <1>20. GroupPositions(q, n, r) = b .. b + r
    BY <1>11 DEF GroupPositions, b
  <1>21. b .. b + r = (b .. b + r - 1) \cup {b + r}
    BY <1>1, <1>8, SMT
  <1>. QED
    BY <1>5, <1>15, <1>18, <1>19, <1>20, <1>21 DEF DecodeSources
============================================================================
