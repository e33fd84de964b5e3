------------------------------ MODULE DataLemmas ------------------------------
(***************************************************************************)
(* Facts about data that the proofs share: least and greatest elements of  *)
(* sets of naturals, induction over naturals and sequences, what the folds *)
(* of the community modules compute, and sums that grow with their terms.  *)
(* Induction is over sets (of the naturals or sequences that have the      *)
(* property) and a fold's step is a function, so that every lemma can be   *)
(* instantiated by the provers.                                            *)
(***************************************************************************)
EXTENDS Integers, FiniteSets, FiniteSetsExt, Functions, Sequences, SequencesExt, TLAPS,
        WellFoundedInduction, FiniteSetTheorems, SequenceTheorems

\* Every nonempty set of naturals has a least element.
LEMMA LeastNat ==
    ASSUME NEW P \in SUBSET Nat, P # {}
    PROVE  \E m \in P : \A n \in P : m <= n
  <1>1. \A n, k \in Nat : n < k => <<n, k>> \in OpToRel(<, Nat)
    BY DEF OpToRel
  <1>2. PICK m \in P : \A n \in P : ~(<<n, m>> \in OpToRel(<, Nat))
    BY NatLessThanWellFounded, WFMin
  <1>3. \A n \in P : ~(n < m)
    BY <1>1, <1>2
  <1> QED
    BY <1>3

\* Min is the least element of a nonempty set of naturals.
LEMMA MinOfNaturals ==
    ASSUME NEW P \in SUBSET Nat, P # {}
    PROVE  Min(P) \in P /\ \A n \in P : Min(P) <= n
BY LeastNat DEF Min

\* Max is the greatest element of a nonempty bounded set of naturals.
LEMMA MaxOfNaturals ==
    ASSUME NEW k \in Nat, NEW S \in SUBSET (0 .. k), S # {}
    PROVE  Max(S) \in S /\ \A n \in S : n <= Max(S)
  <1> DEFINE P == {y \in Nat : k - y \in S}
  <1>1. P \in SUBSET Nat /\ P # {}
    <2>1. PICK x \in S : x \in 0 .. k
      OBVIOUS
    <2>2. k - x \in Nat /\ k - (k - x) = x
      BY <2>1
    <2>3. k - x \in P
      BY <2>2
    <2> QED
      BY <2>3
  <1>2. PICK m \in P : \A n \in P : m <= n
    <2> HIDE DEF P
    <2> QED
      BY <1>1, LeastNat
  <1>3. \A y \in S : k - m >= y
    <2> TAKE y \in S
    <2>1. y \in 0 .. k /\ k - (k - y) = y /\ k - y \in Nat
      OBVIOUS
    <2>2. k - y \in P
      BY <2>1
    <2>3. m <= k - y /\ m \in Nat
      BY <1>2, <2>2
    <2> QED
      BY <2>1, <2>3
  <1>4. k - m \in S
    OBVIOUS
  <1>5. \A y \in S : Max(S) >= y
    BY <1>3, <1>4 DEF Max
  <1>6. Max(S) \in S
    BY <1>3, <1>4 DEF Max
  <1> QED
    BY <1>5, <1>6

-----------------------------------------------------------------------------
(* Induction and folds                                                      *)

\* Induction: a set of naturals that holds 0 and with every number its successor holds them all.
LEMMA EveryNatural ==
    ASSUME NEW P \in SUBSET Nat, 0 \in P, \A n \in P : n + 1 \in P
    PROVE  P = Nat
<1> SUFFICES ASSUME P # Nat PROVE FALSE
    OBVIOUS
<1> DEFINE Q == Nat \ P
<1>1. Q \in SUBSET Nat /\ Q # {}
    OBVIOUS
<1>2. PICK m \in Q : \A n \in Q : m <= n
    <2> HIDE DEF Q
    <2> QED
        BY <1>1, LeastNat
<1>3. m \in Nat /\ m # 0 /\ m \notin P
    BY <1>2
<1>4. m - 1 \in Nat /\ ~(m <= m - 1) /\ (m - 1) + 1 = m
    BY <1>3
<1>5. m - 1 \in P
    BY <1>2, <1>4
<1>6. QED
    BY <1>3, <1>4, <1>5

\* A recursion over the subsets of a finite set, which takes away the element ch names, has a
\* solution: the definition of the folds means something.
FoldsOn(it, S, base, step, ch) ==
    it = [d \in SUBSET S |-> IF d = {} THEN base ELSE step[<<ch[d], it[d \ {ch[d]}]>>]]

LEMMA FoldExists ==
    ASSUME NEW S, IsFiniteSet(S), NEW V, NEW base \in V, NEW step \in [S \X V -> V],
           NEW ch, \A d \in SUBSET S : d # {} => ch[d] \in d
    PROVE  \E it \in [SUBSET S -> V] : FoldsOn(it, S, base, step, ch)
<1> DEFINE Upto(g, n) ==
        \A d \in SUBSET S : Cardinality(d) <= n =>
            g[d] = IF d = {} THEN base ELSE step[<<ch[d], g[d \ {ch[d]}]>>]
<1> DEFINE P == {n \in Nat : \E g \in [SUBSET S -> V] : Upto(g, n)}
<1>c. \A d \in SUBSET S : /\ Cardinality(d) \in Nat /\ IsFiniteSet(d)
                          /\ d # {} => Cardinality(d \ {ch[d]}) = Cardinality(d) - 1
                          /\ Cardinality(d) = 0 <=> d = {}
    <2> TAKE d \in SUBSET S
    <2>1. IsFiniteSet(d)
        BY FS_Subset
    <2>2. Cardinality(d) \in Nat /\ (Cardinality(d) = 0 <=> d = {})
        BY <2>1, FS_CardinalityType, FS_EmptySet
    <2>3. d # {} => Cardinality(d \ {ch[d]}) = Cardinality(d) - 1
        BY <2>1, FS_RemoveElement
    <2>4. QED
        BY <2>1, <2>2, <2>3
<1>1. 0 \in P
    <2> DEFINE g == [d \in SUBSET S |-> base]
    <2>1. g \in [SUBSET S -> V]
        OBVIOUS
    <2>2. Upto(g, 0)
        <3> SUFFICES ASSUME NEW d \in SUBSET S, Cardinality(d) <= 0 PROVE g[d] = base /\ d = {}
            OBVIOUS
        <3>0. Cardinality(d) \in Nat
            BY <1>c
        <3>1. Cardinality(d) = 0
            BY <3>0
        <3>2. QED
            BY <1>c, <3>1
    <2>3. QED
        BY <2>1, <2>2
<1>2. ASSUME NEW n \in P PROVE n + 1 \in P
    <2>1. PICK g \in [SUBSET S -> V] : Upto(g, n)
        OBVIOUS
    <2> DEFINE h == [d \in SUBSET S |-> IF d = {} THEN base ELSE step[<<ch[d], g[d \ {ch[d]}]>>]]
    <2>2. \A d \in SUBSET S : d # {} => d \ {ch[d]} \in SUBSET S /\ <<ch[d], g[d \ {ch[d]}]>> \in S \X V
        OBVIOUS
    <2>3. h \in [SUBSET S -> V]
        BY <2>2
    <2>4. ASSUME NEW d \in SUBSET S, Cardinality(d) <= n PROVE h[d] = g[d]
        BY <2>1, <2>4
    <2>5. Upto(h, n + 1)
        <3> SUFFICES ASSUME NEW d \in SUBSET S, Cardinality(d) <= n + 1, d # {}
                     PROVE  h[d] = step[<<ch[d], h[d \ {ch[d]}]>>]
            OBVIOUS
        <3>1. d \ {ch[d]} \in SUBSET S /\ Cardinality(d \ {ch[d]}) <= n
            BY <1>c, n \in Nat
        <3>2. h[d \ {ch[d]}] = g[d \ {ch[d]}]
            BY <2>4, <3>1
        <3>3. h[d] = step[<<ch[d], g[d \ {ch[d]}]>>]
            OBVIOUS
        <3>4. QED
            BY <3>2, <3>3
    <2>6. n + 1 \in Nat
        BY n \in Nat
    <2>7. \E k \in [SUBSET S -> V] : Upto(k, n + 1)
        <3> HIDE DEF h, Upto
        <3> QED
            BY <2>3, <2>5
    <2>8. QED
        BY <2>6, <2>7
<1>3. P = Nat
    <2>1. P \in SUBSET Nat
        OBVIOUS
    <2> HIDE DEF P
    <2>2. QED
        BY <1>1, <1>2, <2>1, EveryNatural
<1>4. Cardinality(S) \in Nat
    BY FS_CardinalityType
<1>5. PICK g \in [SUBSET S -> V] : Upto(g, Cardinality(S))
    BY <1>3, <1>4
<1>6. \A d \in SUBSET S : Cardinality(d) <= Cardinality(S)
    BY FS_Subset
<1>7. FoldsOn(g, S, base, step, ch)
    <2>1. \A d \in SUBSET S : g[d] = IF d = {} THEN base ELSE step[<<ch[d], g[d \ {ch[d]}]>>]
        BY <1>5, <1>6
    <2>2. QED
        BY <2>1 DEF FoldsOn
<1>8. QED
    BY <1>5, <1>7
\* The fold from the left takes the last index first.
LEMMA PrefixMax ==
    ASSUME NEW k \in Nat, k # 0
    PROVE  1 .. k # {} /\ Max(1 .. k) = k /\ (1 .. k) \ {k} = 1 .. (k - 1)
<1>1. k \in 1 .. k /\ (1 .. k) \in SUBSET (0 .. k) /\ \A i \in 1 .. k : i <= k
    OBVIOUS
<1>2. Max(1 .. k) \in 1 .. k /\ \A i \in 1 .. k : i <= Max(1 .. k)
    BY <1>1, MaxOfNaturals
<1>3. k <= Max(1 .. k) /\ Max(1 .. k) <= k /\ Max(1 .. k) \in Int
    BY <1>1, <1>2
<1>4. Max(1 .. k) = k
    BY <1>3
<1>5. (1 .. k) \ {k} = 1 .. (k - 1)
    OBVIOUS
<1>6. QED
    BY <1>1, <1>4, <1>5

\* The fold of a sequence from the left exists for every step on values V and elements E.
LEMMA LeftFoldExists ==
    ASSUME NEW E, NEW V, NEW base \in V, NEW step \in [V \X E -> V], NEW s \in Seq(E)
    PROVE  \E it \in [SUBSET DOMAIN s -> V] :
               /\ it[{}] = base
               /\ \A d \in SUBSET DOMAIN s :
                    d # {} => /\ it[d] = step[<<it[d \ {Max(d)}], s[Max(d)]>>]
                              /\ Max(d) \in d
<1> DEFINE S == 1 .. Len(s)
           walk == [x \in S \X V |-> step[<<x[2], s[x[1]]>>]]
           ch == [d \in SUBSET S |-> Max(d)]
<1>1. DOMAIN s = S /\ IsFiniteSet(S) /\ Len(s) \in Nat
    BY FS_Interval
<1>2. \A d \in SUBSET S : d # {} => ch[d] \in d
    <2> TAKE d \in SUBSET S
    <2>1. d \in SUBSET (0 .. Len(s))
        BY <1>1
    <2>2. d # {} => Max(d) \in d
        BY <1>1, <2>1, MaxOfNaturals
    <2>3. QED
        BY <2>2
<1>3. walk \in [S \X V -> V]
    <2>1. ASSUME NEW x \in S \X V PROVE step[<<x[2], s[x[1]]>>] \in V
        BY <1>1
    <2>2. QED
        BY <2>1
<1>4. PICK it \in [SUBSET S -> V] : FoldsOn(it, S, base, walk, ch)
    <2> HIDE DEF S, walk, ch
    <2> QED
        BY <1>1, <1>2, <1>3, FoldExists
<1>5. it = [d \in SUBSET S |-> IF d = {} THEN base ELSE walk[<<ch[d], it[d \ {ch[d]}]>>]]
    BY <1>4 DEF FoldsOn
<1>6. ASSUME NEW d \in SUBSET S, d # {}
      PROVE  it[d] = step[<<it[d \ {Max(d)}], s[Max(d)]>>] /\ Max(d) \in d
    <2>1. ch[d] = Max(d) /\ Max(d) \in d /\ Max(d) \in S /\ d \ {Max(d)} \in SUBSET S
        BY <1>2, <1>6
    <2>2. <<Max(d), it[d \ {Max(d)}]>> \in S \X V
        BY <1>4, <2>1
    <2>3. it[d] = walk[<<Max(d), it[d \ {Max(d)}]>>]
        <3> HIDE DEF walk, S, ch
        <3> QED
            BY <1>5, <1>6, <2>1
    <2>4. QED
        BY <2>1, <2>2, <2>3
<1>7. it[{}] = base
    <2> HIDE DEF walk, ch
    <2> QED
        BY <1>5
<1>8. QED
    BY <1>1, <1>4, <1>6, <1>7

\* Induction over sequences, from the empty one by appending.
LEMMA EverySequence ==
    ASSUME NEW E, NEW Q \in SUBSET Seq(E), <<>> \in Q,
           \A s \in Q : \A e \in E : Append(s, e) \in Q
    PROVE  Q = Seq(E)
<1> DEFINE P == {n \in Nat : \A s \in Seq(E) : Len(s) = n => s \in Q}
<1>1. 0 \in P
    <2>1. \A s \in Seq(E) : Len(s) = 0 => s = <<>>
        OBVIOUS
    <2>2. QED
        BY <2>1
<1>2. ASSUME NEW n \in P PROVE n + 1 \in P
    <2>1. n \in Nat /\ n + 1 \in Nat
        BY <1>2
    <2>2. SUFFICES ASSUME NEW s \in Seq(E), Len(s) = n + 1 PROVE s \in Q
        BY <2>1
    <2> HIDE DEF P
    <2>a. s # <<>>
        BY <2>1, <2>2
    <2>3. PICK t \in Seq(E), e \in E : s = Append(t, e)
        BY <2>a, SequenceEmptyOrAppend
    <2>4. Len(t) = n
        BY <2>1, <2>2, <2>3
    <2>5. t \in Q
        BY <1>2, <2>4 DEF P
    <2>6. QED
        BY <2>3, <2>5
<1>3. P = Nat
    <2>1. P \in SUBSET Nat
        OBVIOUS
    <2> HIDE DEF P
    <2> QED
        BY <1>1, <1>2, <2>1, EveryNatural
<1>4. ASSUME NEW s \in Seq(E) PROVE s \in Q
    <2>1. Len(s) \in P
        BY <1>3
    <2>2. QED
        BY <2>1
<1>5. QED
    <2> HIDE DEF P
    <2> QED
        BY <1>4

\* Taking an element out of a sequence that has grown.
LEMMA RemoveFromAppended ==
    ASSUME NEW E, NEW s \in Seq(E), NEW e \in E
    PROVE  /\ RemoveAt(Append(s, e), Len(s) + 1) = s
           /\ \A i \in 1 .. Len(s) : /\ RemoveAt(s, i) \in Seq(E)
                                      /\ RemoveAt(Append(s, e), i) = Append(RemoveAt(s, i), e)
<1> DEFINE q == Append(s, e)
<1>1. /\ q \in Seq(E) /\ Len(q) = Len(s) + 1 /\ Len(s) \in Nat /\ q[Len(s) + 1] = e
      /\ \A i \in 1 .. Len(s) : q[i] = s[i]
    OBVIOUS
<1> HIDE DEF q
<1>2. RemoveAt(q, Len(s) + 1) = s
    <2>1. RemoveAt(q, Len(s) + 1) = SubSeq(q, 1, Len(s)) \o SubSeq(q, Len(s) + 2, Len(s) + 1)
        BY <1>1 DEF RemoveAt
    <2>2. SubSeq(q, Len(s) + 2, Len(s) + 1) = <<>>
        BY <1>1
    <2>3. SubSeq(q, 1, Len(s)) = s
        BY <1>1
    <2>4. s \o <<>> = s
        OBVIOUS
    <2>5. QED
        BY <2>1, <2>2, <2>3, <2>4
<1>3. ASSUME NEW i \in 1 .. Len(s)
      PROVE  RemoveAt(s, i) \in Seq(E) /\ RemoveAt(q, i) = Append(RemoveAt(s, i), e)
    <2> DEFINE a == SubSeq(s, 1, i - 1)
               b == SubSeq(s, i + 1, Len(s))
               c == SubSeq(q, i + 1, Len(s) + 1)
    <2>1. a \in Seq(E) /\ b \in Seq(E) /\ c \in Seq(E)
        BY <1>1
    <2>2. SubSeq(q, 1, i - 1) = a
        BY <1>1
    <2>3. c = Append(b, e)
        <3> DEFINE m == Len(s) - i
        <3>1. m \in Nat /\ i \in Nat /\ i + m = Len(s)
            BY <1>1
        <3>2. Len(b) = m /\ \A k \in 1 .. m : b[k] = s[i + k]
            <4>1. \A k \in (i + 1) .. Len(s) : s[k] \in E
                BY <1>1, <3>1
            <4>2. /\ Len(b) = IF i + 1 <= Len(s) THEN Len(s) - (i + 1) + 1 ELSE 0
                  /\ \A k \in 1 .. (Len(s) - (i + 1) + 1) : b[k] = s[(i + 1) + k - 1]
                BY <1>1, <3>1, <4>1, SubSeqProperties
            <4>3. Len(s) - (i + 1) + 1 = m
                BY <1>1, <3>1
            <4>4. Len(b) = m
                <5>1. CASE i + 1 <= Len(s)
                    BY <4>2, <4>3, <5>1
                <5>2. CASE ~(i + 1 <= Len(s))
                    <6>1. m = 0
                        BY <1>1, <3>1, <5>2
                    <6>2. QED
                        BY <4>2, <5>2, <6>1
                <5>3. QED
                    BY <5>1, <5>2
            <4>5. ASSUME NEW k \in 1 .. m PROVE b[k] = s[i + k]
                <5>1. (i + 1) + k - 1 = i + k
                    BY <3>1
                <5>2. QED
                    BY <4>2, <4>3, <5>1
            <4>6. QED
                BY <4>4, <4>5
        <3>3. Len(c) = m + 1 /\ \A k \in 1 .. (m + 1) : c[k] = q[i + k]
            BY <1>1, <3>1
        <3> HIDE DEF b, c, m
        <3>4. /\ Append(b, e) \in Seq(E) /\ Len(Append(b, e)) = m + 1 /\ Append(b, e)[m + 1] = e
              /\ \A k \in 1 .. m : Append(b, e)[k] = b[k]
            BY <2>1, <3>2, AppendProperties
        <3>5. ASSUME NEW k \in 1 .. (m + 1) PROVE c[k] = Append(b, e)[k]
            <4>1. CASE k = m + 1
                <5>1. i + k = Len(s) + 1
                    BY <3>1, <4>1
                <5>2. QED
                    BY <1>1, <3>3, <3>4, <4>1, <5>1
            <4>2. CASE k # m + 1
                <5>1. k \in 1 .. m /\ i + k \in 1 .. Len(s)
                    BY <3>1, <4>2
                <5>2. QED
                    BY <1>1, <3>2, <3>3, <3>4, <5>1
            <4>3. QED
                BY <4>1, <4>2
        <3>6. QED
            BY <2>1, <3>3, <3>4, <3>5, SeqEqual
    <2>4. RemoveAt(s, i) = a \o b /\ RemoveAt(q, i) = a \o c
        BY <1>1, <2>2 DEF RemoveAt
    <2> HIDE DEF a, b, c
    <2>5. a \o Append(b, e) = Append(a \o b, e) /\ a \o b \in Seq(E)
        BY <2>1
    <2>6. QED
        BY <2>3, <2>4, <2>5
<1>4. QED
    BY <1>2, <1>3 DEF q

-----------------------------------------------------------------------------
(* Sums                                                                     *)

SumOf(p) == FoldFunction(+, 0, p)

SumFold(it, p) ==
    it = [d \in SUBSET DOMAIN p |->
            IF d = {} THEN 0
            ELSE p[CHOOSE x \in d : TRUE] + it[d \ {CHOOSE x \in d : TRUE}]]

\* The sum of a function over a finite domain: any element may be added last.
LEMMA SumsUp ==
    ASSUME NEW S, IsFiniteSet(S), NEW p \in [S -> Nat]
    PROVE  \E it \in [SUBSET S -> Nat] :
               /\ it[{}] = 0 /\ SumOf(p) = it[S]
               /\ \A d \in SUBSET S : \A x \in d : it[d] = p[x] + it[d \ {x}]
<1> DEFINE step == [x \in S \X Nat |-> p[x[1]] + x[2]]
           ch == [d \in SUBSET S |-> CHOOSE x \in d : TRUE]
           F == CHOOSE i : SumFold(i, p)
<1>1. DOMAIN p = S
    OBVIOUS
<1>2. \A d \in SUBSET S : d # {} => ch[d] \in d
    OBVIOUS
<1>3. step \in [S \X Nat -> Nat]
    OBVIOUS
<1>4. PICK it \in [SUBSET S -> Nat] : FoldsOn(it, S, 0, step, ch)
    <2> HIDE DEF step, ch
    <2> QED
        BY <1>2, <1>3, FoldExists
<1>5. SumFold(it, p)
    <2>1. it = [d \in SUBSET S |-> IF d = {} THEN 0 ELSE step[<<ch[d], it[d \ {ch[d]}]>>]]
        BY <1>4 DEF FoldsOn
    <2>2. ASSUME NEW d \in SUBSET S, d # {} PROVE it[d] = p[ch[d]] + it[d \ {ch[d]}]
        <3>1. ch[d] \in S /\ d \ {ch[d]} \in SUBSET S
            BY <1>2, <2>2
        <3> HIDE DEF ch
        <3>2. <<ch[d], it[d \ {ch[d]}]>> \in S \X Nat
            BY <1>4, <3>1
        <3>3. it[d] = step[<<ch[d], it[d \ {ch[d]}]>>]
            <4> HIDE DEF step
            <4> QED
                BY <2>1, <2>2
        <3>4. QED
            BY <3>2, <3>3
    <2>3. it[{}] = 0
        <3> HIDE DEF step, ch
        <3> QED
            BY <2>1
    <2>4. QED
        BY <1>1, <1>4, <2>2, <2>3 DEF SumFold
<1>6. SumFold(F, p)
    BY <1>5
<1>7. SumOf(p) = F[S]
    <2>1. SumOf(p) = F[DOMAIN p]
        BY Zenon DEF SumOf, FoldFunction, FoldFunctionOnSet, MapThenFoldSet, SumFold
    <2>2. QED
        BY <1>1, <2>1
<1> HIDE DEF F
<1>8. F[{}] = 0
    BY <1>1, <1>6 DEF SumFold
<1>9. ASSUME NEW d \in SUBSET S, d # {}
      PROVE  \E c \in d : F[d] = p[c] + F[d \ {c}]
    <2>1. F[d] = p[CHOOSE x \in d : TRUE] + F[d \ {CHOOSE x \in d : TRUE}]
        BY <1>1, <1>6, <1>9 DEF SumFold
    <2>2. (CHOOSE x \in d : TRUE) \in d
        BY <1>9
    <2>3. QED
        BY <2>1, <2>2
<1> DEFINE P == {n \in Nat : \A d \in SUBSET S : Cardinality(d) <= n =>
                    F[d] \in Nat /\ \A x \in d : F[d] = p[x] + F[d \ {x}]}
<1>c. \A d \in SUBSET S : /\ Cardinality(d) \in Nat
                          /\ \A x \in d : Cardinality(d \ {x}) = Cardinality(d) - 1
                          /\ Cardinality(d) = 0 <=> d = {}
    <2> TAKE d \in SUBSET S
    <2>1. IsFiniteSet(d)
        BY FS_Subset
    <2>2. QED
        BY <2>1, FS_CardinalityType, FS_EmptySet, FS_RemoveElement
<1>10. 0 \in P
    <2>1. ASSUME NEW d \in SUBSET S, Cardinality(d) <= 0 PROVE d = {}
        <3>1. Cardinality(d) \in Nat
            BY <1>c
        <3>2. Cardinality(d) = 0
            BY <2>1, <3>1
        <3>3. QED
            BY <1>c, <3>2
    <2>2. ASSUME NEW d \in SUBSET S, Cardinality(d) <= 0
          PROVE  F[d] \in Nat /\ \A x \in d : F[d] = p[x] + F[d \ {x}]
        <3>1. d = {}
            BY <2>1, <2>2
        <3>2. QED
            BY <1>8, <3>1
    <2>3. QED
        BY <2>2
<1>11. ASSUME NEW n \in P PROVE n + 1 \in P
    <2>1. n \in Nat /\ n + 1 \in Nat
        BY <1>11
    <2>2. ASSUME NEW d \in SUBSET S, Cardinality(d) <= n
          PROVE  F[d] \in Nat /\ \A x \in d : F[d] = p[x] + F[d \ {x}]
        BY <1>11, <2>2
    <2> HIDE DEF P
    <2>3. ASSUME NEW d \in SUBSET S, Cardinality(d) <= n + 1
          PROVE  F[d] \in Nat /\ \A x \in d : F[d] = p[x] + F[d \ {x}]
        <3>1. CASE d = {}
            BY <1>8, <3>1
        <3>2. CASE d # {}
            <4>1. PICK c \in d : F[d] = p[c] + F[d \ {c}]
                BY <1>9, <3>2
            <4>2. \A x \in d : d \ {x} \in SUBSET S /\ Cardinality(d \ {x}) <= n /\ p[x] \in Nat
                BY <1>c, <2>1, <2>3
            <4>3. \A x \in d : F[d \ {x}] \in Nat
                BY <2>2, <4>2
            <4>4. F[d] \in Nat
                BY <4>1, <4>2, <4>3
            <4>5. ASSUME NEW x \in d PROVE F[d] = p[x] + F[d \ {x}]
                <5>1. CASE x = c
                    BY <4>1, <5>1
                <5>2. CASE x # c
                    <6>1. F[d \ {c}] = p[x] + F[(d \ {c}) \ {x}]
                        BY <2>2, <4>2, <5>2
                    <6>2. F[d \ {x}] = p[c] + F[(d \ {x}) \ {c}]
                        BY <2>2, <4>2, <5>2
                    <6>3. (d \ {c}) \ {x} = (d \ {x}) \ {c}
                        OBVIOUS
                    <6>4. (d \ {x}) \ {c} \in SUBSET S /\ Cardinality((d \ {x}) \ {c}) <= n
                        <7>1. d \ {x} \in SUBSET S /\ c \in d \ {x}
                            BY <5>2
                        <7>2. Cardinality((d \ {x}) \ {c}) = Cardinality(d \ {x}) - 1
                            BY <1>c, <7>1
                        <7>3. Cardinality(d \ {x}) \in Nat /\ Cardinality(d \ {x}) <= n
                            BY <1>c, <4>2, <7>1
                        <7>4. QED
                            BY <2>1, <7>2, <7>3
                    <6>5. F[(d \ {x}) \ {c}] \in Nat
                        BY <2>2, <6>4
                    <6>6. p[x] \in Nat /\ p[c] \in Nat
                        BY <4>2
                    <6>7. PICK w \in Nat : w = F[(d \ {x}) \ {c}]
                        BY <6>5
                    <6>8. F[d] = p[c] + (p[x] + w) /\ F[d \ {x}] = p[c] + w
                        BY <4>1, <6>1, <6>2, <6>3, <6>7
                    <6>9. p[c] + (p[x] + w) = p[x] + (p[c] + w)
                        BY <6>6
                    <6>10. QED
                        BY <6>8, <6>9
                <5>3. QED
                    BY <5>1, <5>2
            <4>6. QED
                BY <4>4, <4>5
        <3>3. QED
            BY <3>1, <3>2
    <2>4. QED
        BY <2>1, <2>3 DEF P
<1>12. P = Nat
    <2>1. P \in SUBSET Nat
        OBVIOUS
    <2> HIDE DEF P
    <2> QED
        BY <1>10, <1>11, <2>1, EveryNatural
<1>13. ASSUME NEW d \in SUBSET S
       PROVE  F[d] \in Nat /\ \A x \in d : F[d] = p[x] + F[d \ {x}]
    <2>1. Cardinality(d) \in P /\ Cardinality(d) <= Cardinality(d)
        BY <1>c, <1>12
    <2>2. QED
        BY <2>1
<1>14. F \in [SUBSET S -> Nat]
    <2>1. F = [d \in SUBSET S |-> F[d]]
        BY <1>1, <1>6 DEF SumFold
    <2>2. QED
        BY <1>13, <2>1
<1>15. QED
    BY <1>7, <1>8, <1>13, <1>14

\* A sum grows with its terms, and with further terms.
LEMMA SumsGrow ==
    ASSUME NEW S, IsFiniteSet(S), NEW p \in [S -> Nat],
           NEW R \in SUBSET S, NEW q \in [R -> Nat], \A x \in R : q[x] <= p[x]
    PROVE  SumOf(q) \in Nat /\ SumOf(p) \in Nat /\ SumOf(q) <= SumOf(p)
<1>1. IsFiniteSet(R)
    BY FS_Subset
<1>2. PICK F \in [SUBSET S -> Nat] :
        /\ F[{}] = 0 /\ SumOf(p) = F[S]
        /\ \A d \in SUBSET S : \A x \in d : F[d] = p[x] + F[d \ {x}]
    BY SumsUp
<1>3. PICK G \in [SUBSET R -> Nat] :
        /\ G[{}] = 0 /\ SumOf(q) = G[R]
        /\ \A d \in SUBSET R : \A x \in d : G[d] = q[x] + G[d \ {x}]
    BY <1>1, SumsUp
<1> DEFINE P == {n \in Nat : \A d \in SUBSET S : Cardinality(d) = n =>
                    \A c \in SUBSET R : c \subseteq d => G[c] <= F[d]}
<1>c. \A d \in SUBSET S : /\ Cardinality(d) \in Nat
                          /\ \A x \in d : Cardinality(d \ {x}) = Cardinality(d) - 1
                          /\ Cardinality(d) = 0 <=> d = {}
    <2> TAKE d \in SUBSET S
    <2>1. IsFiniteSet(d)
        BY FS_Subset
    <2>2. QED
        BY <2>1, FS_CardinalityType, FS_EmptySet, FS_RemoveElement
<1>4. 0 \in P
    <2>1. ASSUME NEW d \in SUBSET S, Cardinality(d) = 0, NEW c \in SUBSET R, c \subseteq d
          PROVE  G[c] <= F[d]
        <3>1. d = {} /\ c = {}
            BY <1>c, <2>1
        <3>2. QED
            BY <1>2, <1>3, <3>1
    <2>2. QED
        BY <2>1
<1>5. ASSUME NEW n \in P PROVE n + 1 \in P
    <2>1. n \in Nat /\ n + 1 \in Nat
        BY <1>5
    <2>2. ASSUME NEW d \in SUBSET S, Cardinality(d) = n, NEW c \in SUBSET R, c \subseteq d
          PROVE  G[c] <= F[d]
        BY <1>5, <2>2
    <2> HIDE DEF P
    <2>3. ASSUME NEW d \in SUBSET S, Cardinality(d) = n + 1, NEW c \in SUBSET R, c \subseteq d
          PROVE  G[c] <= F[d]
        <3>1. d # {}
            BY <1>c, <2>1, <2>3
        <3>2. PICK x \in d : TRUE
            BY <3>1
        <3>3. d \ {x} \in SUBSET S /\ Cardinality(d \ {x}) = n
            BY <1>c, <2>1, <2>3
        <3>4. F[d] = p[x] + F[d \ {x}] /\ F[d \ {x}] \in Nat /\ p[x] \in Nat
            BY <1>2, <3>3
        <3>5. CASE x \in c
            <4>1. c \ {x} \in SUBSET R /\ c \ {x} \subseteq d \ {x}
                BY <2>3
            <4>2. G[c \ {x}] <= F[d \ {x}]
                BY <2>2, <3>3, <4>1
            <4>3. G[c] = q[x] + G[c \ {x}] /\ G[c \ {x}] \in Nat /\ q[x] \in Nat /\ q[x] <= p[x]
                BY <1>3, <3>5, <4>1
            <4>4. QED
                BY <3>4, <4>2, <4>3
        <3>6. CASE x \notin c
            <4>1. G[c] <= F[d \ {x}] /\ G[c] \in Nat
                BY <1>3, <2>2, <2>3, <3>3, <3>6
            <4>2. QED
                BY <3>4, <4>1
        <3>7. QED
            BY <3>5, <3>6
    <2>4. QED
        BY <2>1, <2>3 DEF P
<1>6. P = Nat
    <2>1. P \in SUBSET Nat
        OBVIOUS
    <2> HIDE DEF P
    <2> QED
        BY <1>4, <1>5, <2>1, EveryNatural
<1>7. S \in SUBSET S /\ Cardinality(S) \in P /\ R \in SUBSET R
    BY <1>c, <1>6
<1>8. G[R] <= F[S]
    BY <1>7
<1>9. QED
    BY <1>2, <1>3, <1>8
=============================================================================
