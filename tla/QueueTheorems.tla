---------------------------- MODULE QueueTheorems ----------------------------
(***************************************************************************)
(* What Without leaves of a list, whatever the list and what is taken out. *)
(***************************************************************************)
EXTENDS Queues, Functions, FiniteSetTheorems, TLAPS

\* Sets of positions are finite.
LEMMA PositionsFinite ==
    ASSUME NEW m \in Nat, NEW K \in SUBSET (1..m)
    PROVE  IsFiniteSet(K) /\ Cardinality(K) \in 0..m
<1>1. IsFiniteSet(1..m) /\ Cardinality(1..m) = m
    BY FS_Interval
<1>2. IsFiniteSet(K) /\ Cardinality(K) <= m
    BY <1>1, FS_Subset
<1>3. Cardinality(K) \in Nat
    BY <1>2, FS_CardinalityType
<1> QED
    BY <1>2, <1>3

LEMMA Below ==
    ASSUME NEW K, \A k \in K : k \in Nat \ {0}, NEW i \in K
    PROVE  /\ {k \in K : k <= i} \in SUBSET K
           /\ {k \in K : k <= i} \in SUBSET (1..i)
           /\ i \in {k \in K : k <= i}
OBVIOUS

LEMMA BelowGrows ==
    ASSUME NEW K, \A k \in K : k \in Nat \ {0}, NEW i \in K, NEW j \in K, i < j
    PROVE  /\ {k \in K : k <= i} \in SUBSET {k \in K : k <= j}
           /\ j \notin {k \in K : k <= i}
OBVIOUS

\* The elements of K up to i are counted from 1, and by i at most.
LEMMA UpTo ==
    ASSUME NEW m \in Nat, NEW K \in SUBSET (1..m), NEW i \in K
    PROVE  /\ IsFiniteSet({k \in K : k <= i})
           /\ Cardinality({k \in K : k <= i}) \in 1..Cardinality(K)
           /\ Cardinality({k \in K : k <= i}) <= i
<1> DEFINE below == {k \in K : k <= i}
<1>0. i \in Nat \ {0} /\ \A k \in K : k \in Nat \ {0}
    OBVIOUS
<1>1. below \in SUBSET K /\ below \in SUBSET (1..i) /\ i \in below
    BY <1>0, Below, Zenon
<1> HIDE DEF below
<1>2. Cardinality(K) \in Nat /\ IsFiniteSet(K)
    BY PositionsFinite
<1>3. IsFiniteSet(below) /\ Cardinality(below) \in 0..i
    BY <1>0, <1>1, PositionsFinite
<1>4. Cardinality(below) <= Cardinality(K)
    BY <1>1, <1>2, FS_Subset
<1>5. Cardinality(below) # 0
    BY <1>1, <1>3, FS_EmptySet
<1> QED
    BY <1>0, <1>2, <1>3, <1>4, <1>5 DEF below

\* One more is counted up to a later element.
LEMMA UpToGrows ==
    ASSUME NEW m \in Nat, NEW K \in SUBSET (1..m), NEW i \in K, NEW j \in K, i < j
    PROVE  Cardinality({k \in K : k <= i}) < Cardinality({k \in K : k <= j})
<1> DEFINE below(x) == {k \in K : k <= x}
<1>0. i \in Nat \ {0} /\ j \in Nat \ {0} /\ \A k \in K : k \in Nat \ {0}
    OBVIOUS
<1>1. below(i) \in SUBSET below(j)
    BY <1>0, BelowGrows, Zenon
<1>2. j \in below(j) /\ j \notin below(i)
    BY <1>0, Below, BelowGrows, Zenon
<1>3. IsFiniteSet(below(j)) /\ Cardinality(below(i)) \in Nat /\ Cardinality(below(j)) \in Nat
    <2>1. /\ IsFiniteSet({k \in K : k <= j})
          /\ Cardinality({k \in K : k <= i}) \in 1..Cardinality(K)
          /\ Cardinality({k \in K : k <= j}) \in 1..Cardinality(K)
        BY UpTo
    <2>2. Cardinality(K) \in Nat
        BY PositionsFinite
    <2> QED
        BY <2>1, <2>2
<1> HIDE DEF below
<1>4. Cardinality(below(i)) <= Cardinality(below(j)) /\ Cardinality(below(i)) # Cardinality(below(j))
    BY <1>1, <1>2, <1>3, FS_Subset
<1> QED
    BY <1>3, <1>4 DEF below

\* Every number up to the size of K is the count up to one of its elements.
LEMMA UpToReaches ==
    ASSUME NEW m \in Nat, NEW K \in SUBSET (1..m)
    PROVE  \A n \in 1..Cardinality(K) : \E i \in K : Cardinality({k \in K : k <= i}) = n
<1> DEFINE rank == [i \in K |-> Cardinality({k \in K : k <= i})]
<1>0. Cardinality(K) \in Nat
    BY PositionsFinite
<1>1. rank \in [K -> 1..Cardinality(K)]
    BY UpTo
<1>2. \A i, j \in K : rank[i] = rank[j] => i = j
    <2> TAKE i \in K, j \in K
    <2> HAVE rank[i] = rank[j]
    <2>0. i \in Nat /\ j \in Nat
        OBVIOUS
    <2>1. Cardinality({k \in K : k <= i}) = Cardinality({k \in K : k <= j})
        OBVIOUS
    <2> HIDE DEF rank
    <2>5. Cardinality({k \in K : k <= i}) \in 1..Cardinality(K)
        BY UpTo, Zenon
    <2> DEFINE a == Cardinality({k \in K : k <= i})
               b == Cardinality({k \in K : k <= j})
    <2>3. (i < j => a < b) /\ (j < i => b < a)
        BY UpToGrows, Zenon
    <2>4. a \in Int /\ a = b
        BY <1>0, <2>1, <2>5
    <2> HIDE DEF a, b
    <2> QED
        BY <2>0, <2>3, <2>4
<1>3. rank \in Injection(K, 1..Cardinality(K))
    BY <1>1, <1>2 DEF Injection, IsInjective
<1>5. IsFiniteSet(1..Cardinality(K)) /\ Cardinality(1..Cardinality(K)) = Cardinality(K)
    BY <1>0, FS_Interval
<1>6. rank \in Surjection(K, 1..Cardinality(K))
    BY <1>3, <1>5, FS_Injection
<1> QED
    BY <1>6 DEF Surjection

\* The elements of left are those of seq less gone: at says where they were, in
\* the same order and no earlier than now.
Embeds(at, left, seq, gone) ==
    /\ at \in [1..Len(left) -> 1..Len(seq)]
    /\ \A n \in 1..Len(left) : left[n] = seq[at[n]] /\ seq[at[n]] \notin gone /\ n <= at[n]
    /\ \A n, m \in 1..Len(left) : n < m => at[n] < at[m]
    /\ \A i \in 1..Len(seq) : seq[i] \notin gone => \E n \in 1..Len(left) : at[n] = i

LEMMA WithoutIs ==
    ASSUME NEW S, NEW seq \in Seq(S), NEW gone
    PROVE  /\ Without(seq, gone) \in Seq(S)
           /\ Len(Without(seq, gone)) \in 0..Len(seq)
           /\ \E at : Embeds(at, Without(seq, gone), seq, gone)
<1> DEFINE K == Kept(seq, gone)
           rank(i) == Cardinality({k \in K : k <= i})
           at == [n \in 1..Cardinality(K) |-> CHOOSE i \in K : rank(i) = n]
<1>1. Len(seq) \in Nat
    OBVIOUS
<1>2. K \in SUBSET (1..Len(seq)) /\ \A i \in K : seq[i] \notin gone
    BY DEF Kept
<1>3. \A i \in 1..Len(seq) : seq[i] \notin gone => i \in K
    BY DEF Kept
<1>4. Without(seq, gone) = [n \in 1..Cardinality(K) |-> seq[at[n]]]
    BY DEF Without, Rank
<1> HIDE DEF K
<1>5. Cardinality(K) \in 0..Len(seq)
    BY <1>1, <1>2, PositionsFinite
<1>6. \A n \in 1..Cardinality(K) : at[n] \in K /\ rank(at[n]) = n
    <2> TAKE n \in 1..Cardinality(K)
    <2>1. \E i \in K : rank(i) = n
        BY <1>1, <1>2, UpToReaches
    <2> HIDE DEF rank
    <2> QED
        BY <2>1
<1>7. \A i \in K : rank(i) \in 1..Cardinality(K) /\ rank(i) <= i
    BY <1>1, <1>2, UpTo
<1>8. \A i, j \in K : i < j => rank(i) < rank(j)
    BY <1>1, <1>2, UpToGrows
<1> HIDE DEF rank, at
<1>9. at \in [1..Cardinality(K) -> 1..Len(seq)]
    <2>1. \A n \in 1..Cardinality(K) : at[n] \in 1..Len(seq)
        BY <1>2, <1>6
    <2>2. at = [n \in 1..Cardinality(K) |-> at[n]]
        BY DEF at
    <2> QED
        BY <2>1, <2>2
<1>10. /\ Without(seq, gone) \in Seq(S)
       /\ Len(Without(seq, gone)) = Cardinality(K)
    <2>1. \A n \in 1..Cardinality(K) : seq[at[n]] \in S
        BY <1>1, <1>9
    <2> QED
        BY <1>4, <1>5, <2>1
<1>11. \A n \in 1..Cardinality(K) :
          /\ Without(seq, gone)[n] = seq[at[n]]
          /\ seq[at[n]] \notin gone
          /\ n <= at[n]
    BY <1>2, <1>4, <1>6, <1>7
<1>12. \A n, m \in 1..Cardinality(K) : n < m => at[n] < at[m]
    <2> TAKE n, m \in 1..Cardinality(K)
    <2> HAVE n < m
    <2>1. at[n] \in 1..Len(seq) /\ at[m] \in 1..Len(seq)
        BY <1>9
    <2>2. rank(at[n]) = n /\ rank(at[m]) = m /\ at[n] \in K /\ at[m] \in K
        BY <1>6
    <2>3. at[n] # at[m]
        BY <2>2
    <2>4. ~(at[m] < at[n])
        BY <1>8, <2>2
    <2> QED
        BY <1>1, <2>1, <2>3, <2>4
<1>13. \A i \in K : \E n \in 1..Cardinality(K) : at[n] = i
    <2> TAKE i \in K
    <2> DEFINE n == rank(i)
    <2>1. n \in 1..Cardinality(K)
        BY <1>7
    <2>2. at[n] \in K /\ rank(at[n]) = rank(i)
        BY <1>6, <2>1
    <2>3. i \in 1..Len(seq) /\ at[n] \in 1..Len(seq)
        BY <1>2, <2>2
    <2>4. ~(i < at[n]) /\ ~(at[n] < i)
        BY <1>8, <1>7, <2>2
    <2>5. at[n] = i
        BY <1>1, <2>3, <2>4
    <2> QED
        BY <2>1, <2>5
<1>14. Embeds(at, Without(seq, gone), seq, gone)
    BY <1>3, <1>9, <1>10, <1>11, <1>12, <1>13 DEF Embeds
<1> QED
    BY <1>5, <1>10, <1>14

\* What follows for lists without repetitions and for their ends.
THEOREM WithoutProperties ==
    ASSUME NEW S, NEW seq \in Seq(S), NEW gone
    PROVE  LET left == Without(seq, gone) IN
           /\ left \in Seq(S) /\ Len(left) \in 0..Len(seq)
           /\ \A n \in 1..Len(left) : \E i \in n..Len(seq) : left[n] = seq[i] /\ seq[i] \notin gone
           /\ \A i \in 1..Len(seq) : seq[i] \notin gone => \E n \in 1..Len(left) : left[n] = seq[i]
           /\ IsInjective(seq) => IsInjective(left)
           /\ Len(seq) > 0 /\ seq[1] \notin gone => Len(left) > 0 /\ left[1] = seq[1]
<1> DEFINE left == Without(seq, gone)
<1>1. left \in Seq(S) /\ Len(left) \in 0..Len(seq) /\ Len(seq) \in Nat
    BY WithoutIs
<1>2. PICK at : Embeds(at, left, seq, gone)
    BY WithoutIs
<1>3. /\ \A n \in 1..Len(left) : at[n] \in 1..Len(seq) /\ left[n] = seq[at[n]] /\ seq[at[n]] \notin gone /\ n <= at[n]
      /\ \A n, m \in 1..Len(left) : n < m => at[n] < at[m]
      /\ \A i \in 1..Len(seq) : seq[i] \notin gone => \E n \in 1..Len(left) : at[n] = i
    BY <1>2 DEF Embeds
<1>4. DOMAIN seq = 1..Len(seq) /\ DOMAIN left = 1..Len(left)
    BY <1>1
<1> HIDE DEF left
<1>5. \A n \in 1..Len(left) : \E i \in n..Len(seq) : left[n] = seq[i] /\ seq[i] \notin gone
    BY <1>1, <1>3
<1>6. \A i \in 1..Len(seq) : seq[i] \notin gone => \E n \in 1..Len(left) : left[n] = seq[i]
    BY <1>3
<1>7. ASSUME IsInjective(seq), NEW n \in 1..Len(left), NEW m \in 1..Len(left), left[n] = left[m]
      PROVE  n = m
    <2>1. at[n] = at[m]
        BY <1>3, <1>4, <1>7 DEF IsInjective
    <2>2. ~(n < m) /\ ~(m < n)
        BY <1>1, <1>3, <2>1
    <2> QED
        BY <1>1, <2>2
<1>8. ASSUME Len(seq) > 0, seq[1] \notin gone
      PROVE  Len(left) > 0 /\ left[1] = seq[1]
    <2>1. 1 \in 1..Len(seq)
        BY <1>1, <1>8
    <2>2. PICK n \in 1..Len(left) : at[n] = 1
        BY <1>3, <1>8, <2>1
    <2>3. 1 \in 1..Len(left) /\ n \in Nat \ {0}
        BY <1>1
    <2>4. ~(1 < n)
        BY <1>3, <2>2, <2>3
    <2>5. n = 1
        BY <2>3, <2>4
    <2> QED
        BY <1>1, <1>3, <2>2, <2>3, <2>5
<1> QED
    BY <1>1, <1>4, <1>5, <1>6, <1>7, <1>8 DEF left, IsInjective

\* Joining and leaving a queue in which everyone waits once.
LEMMA AppendDistinct ==
    ASSUME NEW S, NEW q \in Seq(S), NEW e \in S, IsInjective(q), e \notin Range(q)
    PROVE  /\ Append(q, e) \in Seq(S)
           /\ IsInjective(Append(q, e))
           /\ Range(Append(q, e)) = Range(q) \cup {e}
<1> DEFINE r == Append(q, e)
<1>1. /\ r \in Seq(S) /\ Len(r) = Len(q) + 1 /\ Len(q) \in Nat
      /\ DOMAIN q = 1..Len(q) /\ DOMAIN r = 1..Len(r)
    OBVIOUS
<1>2. \A i \in 1..Len(r) : r[i] = IF i = Len(q) + 1 THEN e ELSE q[i]
    OBVIOUS
<1> HIDE DEF r
<1>3. \A i \in 1..Len(q) : q[i] # e
    BY <1>1 DEF Range
<1>4. IsInjective(r)
    BY <1>1, <1>2, <1>3 DEF IsInjective
<1>5. Range(r) = Range(q) \cup {e}
    <2>1. \A i \in 1..Len(r) : r[i] \in Range(q) \cup {e}
        BY <1>1, <1>2 DEF Range
    <2>2. \A i \in 1..Len(q) : i \in 1..Len(r) /\ r[i] = q[i]
        BY <1>1, <1>2
    <2>3. Len(q) + 1 \in 1..Len(r) /\ r[Len(q) + 1] = e
        BY <1>1, <1>2
    <2> QED
        BY <1>1, <2>1, <2>2, <2>3 DEF Range
<1> QED
    BY <1>1, <1>4, <1>5 DEF r

LEMMA TailDistinct ==
    ASSUME NEW S, NEW q \in Seq(S), IsInjective(q), q # <<>>
    PROVE  /\ Tail(q) \in Seq(S)
           /\ IsInjective(Tail(q))
           /\ Range(Tail(q)) = Range(q) \ {Head(q)}
           /\ Head(q) \in Range(q)
<1> DEFINE r == Tail(q)
<1>1. /\ r \in Seq(S) /\ Len(r) = Len(q) - 1 /\ Len(q) \in Nat \ {0}
      /\ DOMAIN q = 1..Len(q) /\ DOMAIN r = 1..Len(r) /\ Head(q) = q[1]
    OBVIOUS
<1>2. \A i \in 1..Len(r) : r[i] = q[i + 1]
    OBVIOUS
<1> HIDE DEF r
<1>3. \A i, j \in 1..Len(q) : q[i] = q[j] => i = j
    BY <1>1 DEF IsInjective
<1>4. \A i \in 1..Len(r) : i + 1 \in 1..Len(q) /\ i + 1 # 1
    BY <1>1
<1>5. IsInjective(r)
    BY <1>1, <1>2, <1>3, <1>4 DEF IsInjective
<1>6. 1 \in 1..Len(q)
    BY <1>1
<1>7. \A i \in 1..Len(r) : r[i] \in Range(q) /\ r[i] # q[1]
    BY <1>1, <1>2, <1>3, <1>4, <1>6 DEF Range
<1>8. \A i \in 1..Len(q) : q[i] # q[1] => i - 1 \in 1..Len(r) /\ r[i - 1] = q[i]
    BY <1>1, <1>2
<1>9. Range(r) = Range(q) \ {q[1]}
    <2>1. \A x \in Range(r) : x \in Range(q) \ {q[1]}
        BY <1>1, <1>7 DEF Range
    <2>2. \A x \in Range(q) \ {q[1]} : x \in Range(r)
        BY <1>1, <1>8 DEF Range
    <2> QED
        BY <2>1, <2>2
<1> QED
    BY <1>1, <1>5, <1>6, <1>9 DEF r, Range

LEMMA WithoutDistinct ==
    ASSUME NEW S, NEW q \in Seq(S), NEW gone, IsInjective(q)
    PROVE  /\ Without(q, gone) \in Seq(S)
           /\ IsInjective(Without(q, gone))
           /\ Range(Without(q, gone)) = Range(q) \ gone
<1> DEFINE r == Without(q, gone)
<1>1. /\ r \in Seq(S) /\ IsInjective(r) /\ Len(r) \in 0..Len(q) /\ Len(q) \in Nat
      /\ \A n \in 1..Len(r) : \E i \in n..Len(q) : r[n] = q[i] /\ q[i] \notin gone
      /\ \A i \in 1..Len(q) : q[i] \notin gone => \E n \in 1..Len(r) : r[n] = q[i]
    BY WithoutProperties
<1>2. DOMAIN q = 1..Len(q) /\ DOMAIN r = 1..Len(r)
    BY <1>1
<1> HIDE DEF r
<1>3. \A n \in 1..Len(r) : r[n] \in Range(q) \ gone
    <2> TAKE n \in 1..Len(r)
    <2>1. PICK i \in n..Len(q) : r[n] = q[i] /\ q[i] \notin gone
        BY <1>1
    <2>2. i \in 1..Len(q)
        BY <1>1
    <2> QED
        BY <1>2, <2>1, <2>2 DEF Range
<1>4. Range(r) = Range(q) \ gone
    <2>1. \A x \in Range(r) : x \in Range(q) \ gone
        BY <1>2, <1>3 DEF Range
    <2>2. ASSUME NEW x \in Range(q), x \notin gone
          PROVE  x \in Range(r)
        <3>1. PICK i \in 1..Len(q) : q[i] = x
            BY <1>2 DEF Range
        <3>2. PICK n \in 1..Len(r) : r[n] = q[i]
            BY <1>1, <2>2, <3>1
        <3> QED
            BY <1>2, <3>1, <3>2 DEF Range
    <2> QED
        BY <2>1, <2>2
<1> QED
    BY <1>1, <1>4 DEF r

=============================================================================
