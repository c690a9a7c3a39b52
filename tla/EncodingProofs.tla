--------------------------- MODULE EncodingProofs ---------------------------
(***************************************************************************)
(* What is written for the signing endpoint is read back as it was: texts  *)
(* of strings, numbers, objects and base58, of any length.                 *)
(*                                                                         *)
(* The functions are recursions over data, and induction is by the least   *)
(* counterexample (LeastOf): of a set of numbers for which a claim         *)
(* fails, the least one is looked at.                                      *)
(***************************************************************************)
EXTENDS Encoding, SequenceTheorems, FiniteSetTheorems, WellFoundedInduction, TLAPS

-----------------------------------------------------------------------------
(* Pieces laid end to end: where each begins, that none is changed by the  *)
(* ones behind it, and that equal texts of pieces that differ before       *)
(* either is over are of equal pieces.                                     *)

(* A set of natural numbers has a least one. *)
LEMMA LeastOf ==
  ASSUME NEW T, T \subseteq Nat, T # {}
  PROVE  \E x \in T : \A y \in T : x <= y
<1>1. PICK x \in T : \A y \in T : ~(<<y, x>> \in OpToRel(<, Nat))
  BY NatLessThanWellFounded, WFMin
<1>2. \A y \in T : ~(y < x)
  BY <1>1 DEF OpToRel
<1> QED
  BY <1>2

(* The first elements of a sequence. *)
LEMMA FirstOf ==
  ASSUME NEW S, NEW s \in Seq(S), NEW n \in 0..Len(s)
  PROVE  /\ SubSeq(s, 1, n) \in Seq(S) /\ Len(SubSeq(s, 1, n)) = n
         /\ \A i \in 1..n : SubSeq(s, 1, n)[i] = s[i]
<1>1. Len(s) \in Nat /\ n \in Nat /\ n <= Len(s)
  BY LenProperties
<1>2. \A i \in 1..n : s[i] \in S
  BY <1>1, ElementOfSeq
<1>3. /\ SubSeq(s, 1, n) \in Seq(S)
      /\ Len(SubSeq(s, 1, n)) = IF 1 <= n THEN n - 1 + 1 ELSE 0
      /\ \A i \in 1..n - 1 + 1 : SubSeq(s, 1, n)[i] = s[1 + i - 1]
  BY <1>1, <1>2, SubSeqProperties
<1> QED
  BY <1>1, <1>3

\* A rule says which element follows on fewer than n; f is what it leads to.
IsRule(rule, T, n) == \A h \in Seq(T) : Len(h) < n => rule[h] \in T
Follows(f, rule, n) ==
  Len(f) = n /\ \A j \in 1..n : f[j] = rule[SubSeq(f, 1, j - 1)]

(* Every rule leads to a sequence. *)
LEMMA Unfolded ==
  ASSUME NEW T, NEW N \in Nat, NEW rule, IsRule(rule, T, N)
  PROVE  \E f \in Seq(T) : Follows(f, rule, N)
<1> DEFINE Missing == {n \in 0..N : ~\E f \in Seq(T) : Follows(f, rule, n)}
<1> USE DEF Follows, IsRule
<1>1. Missing = {}
  <2> SUFFICES ASSUME Missing # {}
               PROVE  FALSE
    OBVIOUS
  <2>1. PICK n \in Missing : \A m \in Missing : n <= m
    <3>1. Missing \subseteq Nat /\ Missing # {}
      OBVIOUS
    <3> HIDE DEF Missing
    <3> QED
      BY <3>1, LeastOf
  <2>2. n # 0
    <3>1. <<>> \in Seq(T) /\ Follows(<<>>, rule, 0)
      OBVIOUS
    <3> QED
      BY <3>1
  <2>3. n \in Nat /\ n - 1 \in 0..N /\ n - 1 \notin Missing /\ n - 1 < N
    BY <2>1, <2>2
  <2>4. PICK g \in Seq(T) : Follows(g, rule, n - 1)
    BY <2>3
  <2> DEFINE f == Append(g, rule[g])
  <2>5. rule[g] \in T
    BY <2>3, <2>4
  <2>6. /\ f \in Seq(T) /\ Len(f) = n /\ f[n] = rule[g]
        /\ \A j \in 1..n - 1 : f[j] = g[j]
    BY <2>3, <2>4, <2>5, AppendProperties
  <2> HIDE DEF f
  <2>7. ASSUME NEW j \in 1..n
        PROVE  SubSeq(f, 1, j - 1) = SubSeq(g, 1, j - 1)
    <3>1. j - 1 \in 0..Len(f) /\ j - 1 \in 0..Len(g) /\ j - 1 \in Nat /\ j - 1 <= n - 1
      BY <2>3, <2>4, <2>6
    <3>2. /\ SubSeq(f, 1, j - 1) \in Seq(T) /\ Len(SubSeq(f, 1, j - 1)) = j - 1
          /\ \A i \in 1..j - 1 : SubSeq(f, 1, j - 1)[i] = f[i]
      BY <2>6, <3>1, FirstOf
    <3>3. /\ SubSeq(g, 1, j - 1) \in Seq(T) /\ Len(SubSeq(g, 1, j - 1)) = j - 1
          /\ \A i \in 1..j - 1 : SubSeq(g, 1, j - 1)[i] = g[i]
      BY <3>1, FirstOf
    <3>4. \A i \in 1..j - 1 : f[i] = g[i]
      BY <2>6, <3>1
    <3> QED
      BY <3>2, <3>3, <3>4, SeqEqual
  <2>8. SubSeq(g, 1, n - 1) = g
    BY <2>4, SubSeqFull
  <2>9. ASSUME NEW j \in 1..n
        PROVE  f[j] = rule[SubSeq(f, 1, j - 1)]
    <3>1. CASE j = n
      BY <2>6, <2>7, <2>8, <3>1
    <3>2. CASE j # n
      <4>1. j \in 1..n - 1
        BY <2>3, <3>2
      <4>2. g[j] = rule[SubSeq(g, 1, j - 1)]
        BY <2>4, <4>1
      <4> QED
        BY <2>6, <2>7, <4>1, <4>2
    <3> QED
      BY <3>1, <3>2
  <2> QED
    BY <2>1, <2>6, <2>9
<1> QED
  BY <1>1

\* flat holds the first pieces one after another, up to each of them.
Joins(flat, pieces, S, N) ==
  /\ pieces \in [1..N -> Seq(S)] /\ flat \in [0..N -> Seq(S)]
  /\ flat[0] = <<>>
  /\ \A j \in 1..N : flat[j] = flat[j - 1] \o pieces[j]

(* FlattenSeq puts the pieces one after another. *)
LEMMA Flattened ==
  ASSUME NEW S, NEW N \in Nat, NEW pieces \in [1..N -> Seq(S)]
  PROVE  \E flat : Joins(flat, pieces, S, N) /\ FlattenSeq(pieces) = flat[N]
<1> DEFINE rule == [h \in Seq(Seq(S)) |->
             IF h = <<>> THEN pieces[1] ELSE h[Len(h)] \o pieces[Len(h) + 1]]
           Step(f, i) == IF i = 1 THEN pieces[i] ELSE f[i - 1] \o pieces[i]
           Solves(f) == f = [i \in 1..N |-> Step(f, i)]
           flatten == CHOOSE f : Solves(f)
<1>1. Len(pieces) = N /\ pieces \in Seq(Seq(S))
  OBVIOUS
<1>2. CASE N = 0
  <2>1. FlattenSeq(pieces) = pieces /\ pieces = <<>>
    BY <1>1, <1>2 DEF FlattenSeq
  <2>2. Joins([j \in 0..N |-> <<>>], pieces, S, N)
    BY <1>2 DEF Joins
  <2> QED
    BY <1>2, <2>1, <2>2
<1>3. CASE N # 0
  <2>1. FlattenSeq(pieces) = flatten[N]
    BY <1>1, <1>3 DEF FlattenSeq
  <2>2. IsRule(rule, Seq(S), N)
    <3> SUFFICES ASSUME NEW h \in Seq(Seq(S)), Len(h) < N
                 PROVE  rule[h] \in Seq(S)
      BY DEF IsRule
    <3>1. CASE h = <<>>
      BY <1>3, <3>1
    <3>2. CASE h # <<>>
      <4>1. Len(h) \in 1..N /\ Len(h) + 1 \in 1..N /\ h[Len(h)] \in Seq(S)
        BY <3>2, EmptySeq, ElementOfSeq
      <4> QED
        BY <3>2, <4>1, ConcatProperties
    <3> QED
      BY <3>1, <3>2
  <2> HIDE DEF rule
  <2>3. PICK g \in Seq(Seq(S)) : Follows(g, rule, N)
    BY <2>2, Unfolded
  <2>4. ASSUME NEW i \in 1..N
        PROVE  g[i] = Step(g, i)
    <3> DEFINE h == SubSeq(g, 1, i - 1)
    <3>1. i - 1 \in 0..Len(g) /\ i - 1 \in Nat
      BY <2>3 DEF Follows
    <3>2. h \in Seq(Seq(S)) /\ Len(h) = i - 1 /\ \A k \in 1..i - 1 : h[k] = g[k]
      BY <3>1, FirstOf
    <3>3. g[i] = rule[h]
      BY <2>3 DEF Follows
    <3> HIDE DEF h
    <3>4. CASE i = 1
      <4>1. h = <<>>
        BY <3>2, <3>4, EmptySeq
      <4> QED
        BY <3>2, <3>3, <3>4, <4>1 DEF rule
    <3>5. CASE i # 1
      <4>1. h # <<>> /\ h[Len(h)] = g[i - 1] /\ Len(h) + 1 = i
        BY <3>1, <3>2, <3>5
      <4> QED
        BY <3>2, <3>3, <3>5, <4>1 DEF rule
    <3> QED
      BY <3>4, <3>5
  <2>5. Solves(g)
    <3>1. g = [i \in 1..N |-> g[i]]
      BY <2>3, LenProperties DEF Follows
    <3> QED
      BY <2>4, <3>1
  <2>6. Solves(flatten)
    BY <2>5
  <2> HIDE DEF flatten
  <2>7. \A i \in 1..N : flatten[i] = Step(flatten, i)
    BY <2>6
  <2> DEFINE flat == [j \in 0..N |-> IF j = 0 THEN <<>> ELSE flatten[j]]
             Bad == {j \in 1..N : flatten[j] \notin Seq(S)}
  <2>8. Bad = {}
    <3> SUFFICES ASSUME Bad # {}
                 PROVE  FALSE
      OBVIOUS
    <3>1. PICK j \in Bad : \A k \in Bad : j <= k
      <4>1. Bad \subseteq Nat /\ Bad # {}
        OBVIOUS
      <4> HIDE DEF Bad
      <4> QED
        BY <4>1, LeastOf
    <3>2. j # 1
      BY <2>7, <3>1
    <3>3. j - 1 \in 1..N /\ j - 1 \notin Bad
      BY <3>1, <3>2
    <3>4. flatten[j - 1] \in Seq(S) /\ pieces[j] \in Seq(S)
      BY <3>1, <3>3
    <3>5. flatten[j] = flatten[j - 1] \o pieces[j]
      BY <2>7, <3>1, <3>2
    <3>6. flatten[j - 1] \o pieces[j] \in Seq(S)
      BY <3>4, ConcatProperties
    <3> QED
      BY <3>1, <3>5, <3>6
  <2>9. flat \in [0..N -> Seq(S)]
    <3>1. \A j \in 0..N : j # 0 => j \in 1..N
      OBVIOUS
    <3> QED
      BY <2>8, <3>1
  <2>10. flat[0] = <<>> /\ FlattenSeq(pieces) = flat[N]
    BY <1>3, <2>1
  <2>11. ASSUME NEW j \in 1..N
         PROVE  flat[j] = flat[j - 1] \o pieces[j]
    <3>1. CASE j = 1
      <4>1. flat[j] = pieces[1] /\ flat[j - 1] = <<>> /\ pieces[1] \in Seq(S)
        BY <2>7, <3>1
      <4> QED
        BY <3>1, <4>1, ConcatEmptySeq
    <3>2. CASE j # 1
      <4>1. j - 1 \in 1..N /\ j - 1 \in 0..N /\ j \in 0..N /\ j - 1 # 0 /\ j # 0
        BY <3>2
      <4>2. flat[j - 1] = flatten[j - 1] /\ flat[j] = flatten[j]
        BY <4>1
      <4>3. flatten[j] = flatten[j - 1] \o pieces[j]
        BY <2>7, <3>2
      <4> QED
        BY <4>2, <4>3
    <3> QED
      BY <3>1, <3>2
  <2> HIDE DEF flat
  <2> QED
    BY <2>9, <2>10, <2>11 DEF Joins
<1> QED
  BY <1>2, <1>3

\* Pieces of these sizes, up to these ends, with nothing between them.
Laid(flat, pieces, end, size, N) ==
  /\ \A k \in 0..N : end[k] \in Nat /\ end[k] <= end[N] /\ end[k] = Len(flat[k])
  /\ \A j \in 1..N :
       /\ j - 1 \in 0..N /\ j \in 0..N /\ size[j] = Len(pieces[j]) /\ size[j] \in Nat
       /\ end[j] = end[j - 1] + size[j]
       /\ \A m \in 1..size[j] : flat[N][end[j - 1] + m] = pieces[j][m]
  /\ \A i \in 1..end[N] : \E j \in 1..N : \E m \in 1..size[j] : i = end[j - 1] + m

(* Each piece stays where it was joined, and nothing lies between them. *)
LEMMA PiecesStay ==
  ASSUME NEW S, NEW N \in Nat, NEW pieces, NEW flat, Joins(flat, pieces, S, N)
  PROVE  Laid(flat, pieces, [k \in 0..N |-> Len(flat[k])], [j \in 1..N |-> Len(pieces[j])], N)
<1> DEFINE end(j) == Len(flat[j])
           size(j) == Len(pieces[j])
<1>1. \A j \in 0..N : flat[j] \in Seq(S) /\ end(j) \in Nat
  BY LenProperties DEF Joins
<1>2. ASSUME NEW j \in 1..N
      PROVE  /\ j - 1 \in 0..N /\ j \in 0..N
             /\ size(j) \in Nat /\ end(j) = end(j - 1) + size(j)
             /\ \A i \in 1..end(j) : flat[j][i] =
                  IF i <= end(j - 1) THEN flat[j - 1][i] ELSE pieces[j][i - end(j - 1)]
  <2>1. pieces[j] \in Seq(S) /\ j - 1 \in 0..N /\ j \in 0..N
    BY DEF Joins
  <2> DEFINE s == flat[j - 1]
             t == pieces[j]
  <2>2. s \in Seq(S) /\ flat[j] = s \o t
    BY <2>1 DEF Joins
  <2> HIDE DEF s, t
  <2>3. t \in Seq(S)
    BY <2>1 DEF t
  <2>4. /\ Len(s \o t) = Len(s) + Len(t) /\ Len(t) \in Nat
        /\ \A i \in 1..Len(s) + Len(t) :
             (s \o t)[i] = IF i <= Len(s) THEN s[i] ELSE t[i - Len(s)]
    BY <2>2, <2>3, ConcatProperties, LenProperties
  <2> QED
    BY <2>1, <2>2, <2>4 DEF s, t
<1>3. end(0) = 0
  BY DEF Joins
<1> HIDE DEF end, size
<1> DEFINE Stays(j, k) ==
             end(j) <= end(k) /\ \A i \in 1..end(j) : flat[k][i] = flat[j][i]
           Within(i, k) ==
             \E j \in 1..k : \E m \in 1..size(j) : i = end(j - 1) + m
           Lost == {k \in 0..N : ~\A j \in 0..k : Stays(j, k)}
           Between == {k \in 0..N : ~\A i \in 1..end(k) : Within(i, k)}
<1>4. Lost = {}
  <2> SUFFICES ASSUME Lost # {}
               PROVE  FALSE
    OBVIOUS
  <2>1. PICK k \in Lost : \A n \in Lost : k <= n
    <3> HIDE DEF Stays
    <3>1. Lost \subseteq Nat
      OBVIOUS
    <3> HIDE DEF Lost
    <3> QED
      BY <3>1, LeastOf
  <2>2. PICK j \in 0..k : ~Stays(j, k)
    BY <2>1
  <2>3. k \in 0..N /\ j # k
    BY <1>1, <2>1, <2>2
  <2> HIDE DEF Lost
  <2>4. k - 1 \in 0..N /\ j \in 0..k - 1 /\ k \in 1..N /\ j \in 0..N /\ ~(k <= k - 1)
    BY <2>2, <2>3
  <2>5. Stays(j, k - 1)
    BY <2>1, <2>4 DEF Lost
  <2>6. /\ end(j) \in Nat /\ end(k - 1) \in Nat /\ size(k) \in Nat
        /\ end(k) = end(k - 1) + size(k)
    BY <1>1, <1>2, <2>4
  <2>7. end(j) <= end(k) /\ end(k) \in Nat
    BY <2>5, <2>6
  <2>8. ASSUME NEW i \in 1..end(j)
        PROVE  flat[k][i] = flat[j][i]
    <3>1. i \in 1..end(k) /\ i <= end(k - 1)
      BY <2>5, <2>6, <2>7
    <3>2. flat[k][i] = flat[k - 1][i]
      BY <1>2, <2>4, <3>1
    <3> QED
      BY <2>5, <3>2
  <2> QED
    BY <2>2, <2>7, <2>8
<1>5. \A k \in 0..N : \A j \in 0..k : Stays(j, k)
  BY <1>4
<1>6. ASSUME NEW j \in 1..N, NEW m \in 1..size(j)
      PROVE  flat[N][end(j - 1) + m] = pieces[j][m]
  <2>1. /\ end(j - 1) \in Nat /\ size(j) \in Nat /\ end(j) = end(j - 1) + size(j)
        /\ N \in 0..N /\ j \in 0..N
    BY <1>1, <1>2
  <2> DEFINE n == end(j - 1) + m
  <2>2. n \in 1..end(j) /\ ~(n <= end(j - 1)) /\ n - end(j - 1) = m
    BY <2>1
  <2> HIDE DEF n
  <2>3. flat[j][n] = pieces[j][m]
    BY <1>2, <2>2
  <2>4. Stays(j, N)
    BY <1>5, <2>1
  <2> QED
    BY <2>2, <2>3, <2>4 DEF n
<1>7. Between = {}
  <2> HIDE DEF Within
  <2> SUFFICES ASSUME Between # {}
               PROVE  FALSE
    OBVIOUS
  <2>1. PICK k \in Between : \A n \in Between : k <= n
    <3>1. Between \subseteq Nat
      OBVIOUS
    <3> HIDE DEF Between
    <3> QED
      BY <3>1, LeastOf
  <2>2. PICK i \in 1..end(k) : ~Within(i, k)
    BY <2>1
  <2>3. k # 0 /\ k \in 0..N
    BY <1>3, <2>1, <2>2
  <2>4. k \in 1..N /\ k - 1 \in 0..N /\ ~(k <= k - 1)
    BY <2>3
  <2>5. /\ end(k - 1) \in Nat /\ size(k) \in Nat /\ i \in Nat
        /\ end(k) = end(k - 1) + size(k)
    BY <1>1, <1>2, <2>2, <2>4
  <2>6. CASE i <= end(k - 1)
    <3>1. i \in 1..end(k - 1)
      BY <2>2, <2>5, <2>6
    <3>2. Within(i, k - 1)
      BY <2>1, <2>4, <3>1
    <3> HIDE DEF Between
    <3>3. \A j \in 1..k - 1 : j \in 1..k
      BY <2>4
    <3> QED
      BY <2>2, <3>2, <3>3 DEF Within
  <2>7. CASE ~(i <= end(k - 1))
    <3> HIDE DEF Between
    <3>1. i - end(k - 1) \in 1..size(k) /\ k \in 1..k /\ i = end(k - 1) + (i - end(k - 1))
      BY <2>2, <2>4, <2>5, <2>7
    <3> QED
      BY <2>2, <3>1 DEF Within
  <2> QED
    BY <2>6, <2>7
<1>8. \A i \in 1..end(N) : Within(i, N)
  BY <1>7
<1> DEFINE ends == [k \in 0..N |-> Len(flat[k])]
           sizes == [j \in 1..N |-> Len(pieces[j])]
<1>9. /\ \A k \in 0..N : ends[k] = end(k) /\ end(k) = Len(flat[k])
      /\ \A j \in 1..N : sizes[j] = size(j) /\ size(j) = Len(pieces[j])
  BY DEF end, size
<1> HIDE DEF ends, sizes
<1>10. \A k \in 0..N : ends[k] \in Nat /\ ends[k] <= ends[N] /\ ends[k] = Len(flat[k])
  <2>1. \A k \in 0..N : N \in 0..N /\ k \in 0..N
    OBVIOUS
  <2> QED
    BY <1>1, <1>5, <1>9, <2>1
<1>11. ASSUME NEW j \in 1..N
       PROVE  /\ j - 1 \in 0..N /\ j \in 0..N /\ sizes[j] = Len(pieces[j]) /\ sizes[j] \in Nat
              /\ ends[j] = ends[j - 1] + sizes[j]
              /\ \A m \in 1..sizes[j] : flat[N][ends[j - 1] + m] = pieces[j][m]
  <2>1. j - 1 \in 0..N /\ j \in 0..N
    OBVIOUS
  <2>2. ends[j] = end(j) /\ ends[j - 1] = end(j - 1) /\ sizes[j] = size(j)
    BY <1>9, <2>1
  <2> QED
    BY <1>2, <1>6, <1>9, <2>1, <2>2
<1>12. ASSUME NEW i \in 1..ends[N]
       PROVE  \E j \in 1..N : \E m \in 1..sizes[j] : i = ends[j - 1] + m
  <2>1. N \in 0..N
    OBVIOUS
  <2>2. Within(i, N)
    BY <1>8, <1>9, <2>1
  <2>3. PICK j \in 1..N : \E m \in 1..size(j) : i = end(j - 1) + m
    BY <2>2
  <2>4. ends[j - 1] = end(j - 1) /\ sizes[j] = size(j)
    BY <1>9, <1>11
  <2> QED
    BY <2>3, <2>4
<1>13. Laid(flat, pieces, ends, sizes, N)
  BY <1>10, <1>11, <1>12 DEF Laid
<1> QED
  BY <1>13 DEF ends, sizes

(* Equal pieces are joined to one text. *)
LEMMA EqualPieces ==
  ASSUME NEW S, NEW N \in Nat, NEW M \in Nat, NEW p, NEW q, NEW f, NEW g,
         Joins(f, p, S, N), Joins(g, q, S, M),
         NEW k \in 0..N, k <= M, \A j \in 1..k : p[j] = q[j]
  PROVE  f[k] = g[k]
<1> DEFINE Differs == {j \in 0..k : f[j] # g[j]}
<1> SUFFICES ASSUME Differs # {}
             PROVE  FALSE
  OBVIOUS
<1>1. PICK j \in Differs : \A i \in Differs : j <= i
  <2>1. Differs \subseteq Nat /\ Differs # {}
    OBVIOUS
  <2> HIDE DEF Differs
  <2> QED
    BY <2>1, LeastOf
<1>2. j # 0
  BY <1>1 DEF Joins
<1>3. j - 1 \in 0..k /\ j - 1 \notin Differs /\ j \in 1..k /\ j \in 1..N /\ j \in 1..M
  BY <1>1, <1>2
<1> QED
  BY <1>1, <1>3 DEF Joins

-----------------------------------------------------------------------------
(* Base58 (base58.go): the digits of a value are its only ones, so what    *)
(* was encoded reads back, zeros in front included.                        *)

\* The values of the first digits of s, up to each of them.
PartialValues(v, base, s) ==
  /\ v \in [0..Len(s) -> Nat] /\ v[0] = 0
  /\ \A j \in 1..Len(s) : v[j] = v[j - 1] * base + s[j]

(* The value of digits is the recursion's, for any function that keeps it. *)
LEMMA ValueIs ==
  ASSUME NEW base, NEW s \in Seq(Nat), NEW w, PartialValues(w, base, s)
  PROVE  ValueIn(base, s) = w[Len(s)]
<1> DEFINE N == Len(s)
<1>0. N \in Nat /\ w[0] = 0 /\ \A j \in 1..N : w[j] = w[j - 1] * base + s[j]
  BY LenProperties DEF PartialValues
<1> DEFINE Step(f, j) == IF j = 0 THEN 0 ELSE f[j - 1] * base + s[j]
           Solves(f) == f = [j \in 0..N |-> Step(f, j)]
           v == CHOOSE f : Solves(f)
           g == [j \in 0..N |-> w[j]]
<1>1. ValueIn(base, s) = v[N]
  BY DEF ValueIn
<1> HIDE DEF N
<1>2. ASSUME NEW j \in 0..N
      PROVE  g[j] = Step(g, j)
  <2>1. CASE j = 0
    BY <1>0, <2>1
  <2>2. CASE j # 0
    <3>1. j \in 1..N /\ j - 1 \in 0..N
      BY <1>0, <2>2
    <3> QED
      BY <1>0, <2>2, <3>1
  <2> QED
    BY <2>1, <2>2
<1>3. Solves(g)
  <2> HIDE DEF Step
  <2> QED
    BY <1>2
<1>4. Solves(v)
  BY <1>3
<1> HIDE DEF v, g
<1>5. \A j \in 0..N : v[j] = Step(v, j)
  BY <1>4
<1> DEFINE Differs == {j \in 0..N : v[j] # w[j]}
<1>6. Differs = {}
  <2> SUFFICES ASSUME Differs # {}
               PROVE  FALSE
    OBVIOUS
  <2>1. PICK j \in Differs : \A i \in Differs : j <= i
    <3>1. Differs \subseteq Nat
      BY <1>0
    <3> HIDE DEF Differs
    <3> QED
      BY <3>1, LeastOf
  <2>2. j # 0
    BY <1>0, <1>5, <2>1
  <2>3. j - 1 \in 0..N /\ j \in 1..N /\ ~(j <= j - 1)
    BY <1>0, <2>1, <2>2
  <2>4. v[j - 1] = w[j - 1]
    BY <2>1, <2>3
  <2>5. v[j] = v[j - 1] * base + s[j]
    BY <1>5, <2>1, <2>2
  <2> QED
    BY <1>0, <2>1, <2>3, <2>4, <2>5
<1> QED
  BY <1>0, <1>1, <1>6 DEF N

LEMMA ValuesExist ==
  ASSUME NEW base \in {58, 256}, NEW s \in Seq(Nat)
  PROVE  \E v : PartialValues(v, base, s) /\ ValueIn(base, s) = v[Len(s)]
<1> DEFINE N == Len(s)
           rule == [h \in Seq(Nat) |->
             (IF h = <<>> THEN 0 ELSE h[Len(h)]) * base + s[Len(h) + 1]]
<1>1. N \in Nat /\ base \in Nat /\ \A i \in 1..N : s[i] \in Nat
  BY LenProperties, ElementOfSeq
<1>2. IsRule(rule, Nat, N)
  <2> SUFFICES ASSUME NEW h \in Seq(Nat), Len(h) < N
               PROVE  rule[h] \in Nat
    BY DEF IsRule
  <2>1. Len(h) + 1 \in 1..N
    BY <1>1, LenProperties
  <2>2. h # <<>> => h[Len(h)] \in Nat
    BY EmptySeq, ElementOfSeq
  <2>3. \A a, b \in Nat : a * base + b \in Nat
    BY <1>1
  <2> QED
    BY <1>1, <2>1, <2>2, <2>3
<1> HIDE DEF rule
<1>3. PICK g \in Seq(Nat) : Follows(g, rule, N)
  BY <1>1, <1>2, Unfolded
<1> DEFINE v == [j \in 0..N |-> IF j = 0 THEN 0 ELSE g[j]]
<1>4. Len(g) = N /\ \A j \in 1..N : g[j] \in Nat
  BY <1>3, ElementOfSeq DEF Follows
<1>5. v \in [0..N -> Nat] /\ v[0] = 0
  <2>1. \A j \in 0..N : j # 0 => j \in 1..N
    BY <1>1
  <2> QED
    BY <1>1, <1>4, <2>1
<1>6. ASSUME NEW j \in 1..N
      PROVE  v[j] = v[j - 1] * base + s[j]
  <2> DEFINE h == SubSeq(g, 1, j - 1)
  <2>1. j - 1 \in 0..Len(g) /\ j - 1 \in Nat /\ j - 1 \in 0..N /\ j \in 0..N /\ j # 0
    BY <1>1, <1>4
  <2>2. h \in Seq(Nat) /\ Len(h) = j - 1 /\ \A k \in 1..j - 1 : h[k] = g[k]
    BY <2>1, FirstOf
  <2>3. g[j] = rule[h]
    BY <1>3 DEF Follows
  <2> HIDE DEF h
  <2>4. rule[h] = (IF h = <<>> THEN 0 ELSE h[Len(h)]) * base + s[j]
    BY <2>1, <2>2 DEF rule
  <2>5. (IF h = <<>> THEN 0 ELSE h[Len(h)]) = v[j - 1]
    <3>1. CASE j = 1
      BY <1>1, <2>1, <2>2, <3>1, EmptySeq
    <3>2. CASE j # 1
      <4>1. h # <<>> /\ j - 1 \in 1..j - 1 /\ j - 1 # 0
        BY <2>1, <2>2, <3>2
      <4> QED
        BY <2>1, <2>2, <4>1
    <3> QED
      BY <3>1, <3>2
  <2>6. v[j] = g[j]
    BY <2>1
  <2> HIDE DEF v
  <2> QED
    BY <2>3, <2>4, <2>5, <2>6
<1> HIDE DEF v
<1>7. PartialValues(v, base, s)
  BY <1>5, <1>6 DEF PartialValues
<1> QED
  BY <1>7, ValueIs

(* Division by a base. *)
LEMMA DivideBy ==
  ASSUME NEW base \in {58, 256}, NEW m \in Nat
  PROVE  /\ m \div base \in Nat /\ m % base \in 0..base - 1
         /\ m = (m \div base) * base + (m % base)
         /\ m # 0 => m \div base < m
<1>1. CASE base = 58
  BY <1>1
<1>2. CASE base = 256
  BY <1>2
<1> QED
  BY <1>1, <1>2

\* The digits of each number up to n.
Digits(d, base, n) ==
  /\ d \in [0..n -> Seq(0..base - 1)] /\ d[0] = <<>>
  /\ \A m \in 1..n : d[m] = Append(d[m \div base], m % base)

LEMMA DigitsExist ==
  ASSUME NEW base \in {58, 256}, NEW n \in Nat
  PROVE  \E d : Digits(d, base, n) /\ DigitsIn(base, n) = d[n]
<1> DEFINE D == Seq(0..base - 1)
           Step(f, m) == IF m = 0 THEN <<>> ELSE Append(f[m \div base], m % base)
           Solves(f) == f = [m \in 0..n |-> Step(f, m)]
           d == CHOOSE f : Solves(f)
           rule == [h \in Seq(D) |->
             IF h = <<>> THEN <<>>
             ELSE Append(h[(Len(h) \div base) + 1], Len(h) % base)]
<1>1. DigitsIn(base, n) = d[n]
  BY DEF DigitsIn
<1>2. IsRule(rule, D, n + 1)
  <2> SUFFICES ASSUME NEW h \in Seq(D)
               PROVE  rule[h] \in D
    BY DEF IsRule
  <2>1. CASE h = <<>>
    BY <2>1
  <2>2. CASE h # <<>>
    <3> DEFINE m == Len(h)
    <3>1. m \in Nat /\ m # 0
      BY <2>2, EmptySeq
    <3>2. m \div base \in Nat /\ m \div base < m /\ m % base \in 0..base - 1
      BY <3>1, DivideBy
    <3> DEFINE q == m \div base
    <3>3. q + 1 \in 1..Len(h)
      <4> HIDE DEF q
      <4>1. q \in Nat /\ q < m
        BY <3>2 DEF q
      <4> HIDE DEF m
      <4>2. q + 1 \in 1..m
        BY <3>1, <4>1
      <4> QED
        BY <4>2 DEF m
    <3>4. h[q + 1] \in D
      <4> HIDE DEF q, D
      <4> QED
        BY <3>3, ElementOfSeq
    <3>5. rule[h] = Append(h[q + 1], m % base)
      BY <2>2
    <3> DEFINE e == h[q + 1]
               r == m % base
    <3>6. e \in Seq(0..base - 1) /\ r \in 0..base - 1 /\ rule[h] = Append(e, r)
      BY <3>2, <3>4, <3>5
    <3> HIDE DEF e, r, rule
    <3> QED
      BY <3>6, AppendProperties
  <2> QED
    BY <2>1, <2>2
<1> HIDE DEF rule, D
<1>3. PICK g \in Seq(D) : Follows(g, rule, n + 1)
  <2>1. n + 1 \in Nat
    OBVIOUS
  <2> QED
    BY <1>2, <2>1, Unfolded
<1> DEFINE f == [m \in 0..n |-> g[m + 1]]
<1>4. Len(g) = n + 1 /\ \A j \in 1..n + 1 : g[j] \in D
  BY <1>3, ElementOfSeq DEF Follows
<1>5. ASSUME NEW m \in 0..n
      PROVE  f[m] = Step(f, m) /\ f[m] \in D
  <2> DEFINE h == SubSeq(g, 1, m)
  <2>1. m \in 0..Len(g) /\ m + 1 \in 1..n + 1 /\ m + 1 - 1 = m
    BY <1>4
  <2>2. h \in Seq(D) /\ Len(h) = m /\ \A k \in 1..m : h[k] = g[k]
    BY <2>1, FirstOf
  <2>3. g[m + 1] = rule[h]
    BY <1>3, <2>1 DEF Follows
  <2> HIDE DEF h
  <2>4. CASE m = 0
    <3>1. h = <<>>
      BY <2>2, <2>4, EmptySeq
    <3> QED
      BY <1>4, <2>1, <2>2, <2>3, <2>4, <3>1 DEF rule
  <2>5. CASE m # 0
    <3> DEFINE q == m \div base
    <3>1. q \in Nat /\ q < m
      BY <2>5, DivideBy
    <3> HIDE DEF q
    <3>2. h # <<>> /\ q + 1 \in 1..m /\ q \in 0..n
      BY <2>2, <2>5, <3>1
    <3>3. rule[h] = Append(h[q + 1], m % base)
      BY <2>2, <3>2 DEF rule, q
    <3>4. h[q + 1] = f[q] /\ f[m] = g[m + 1]
      BY <2>2, <3>2
    <3> HIDE DEF f
    <3>5. f[m] = Append(f[q], m % base)
      BY <2>3, <3>3, <3>4
    <3> QED
      BY <1>4, <2>1, <2>5, <3>4, <3>5 DEF q
  <2> QED
    BY <2>4, <2>5
<1>6. Solves(f)
  <2> HIDE DEF Step
  <2>1. f = [m \in 0..n |-> f[m]]
    OBVIOUS
  <2> HIDE DEF f
  <2> QED
    BY <1>5, <2>1
<1>7. Solves(d)
  BY <1>6
<1> HIDE DEF d, f
<1>8. \A m \in 0..n : d[m] = Step(d, m)
  <2> HIDE DEF Step
  <2> QED
    BY <1>7
<1>9. d[0] = <<>> /\ \A m \in 1..n : d[m] = Append(d[m \div base], m % base)
  <2>1. d[0] = <<>>
    BY <1>8
  <2>2. ASSUME NEW m \in 1..n
        PROVE  d[m] = Append(d[m \div base], m % base)
    <3>1. m \in 0..n /\ m # 0
      OBVIOUS
    <3>2. d[m] = Step(d, m)
      BY <1>8, <3>1, Zenon
    <3> QED
      BY <3>1, <3>2, Zenon
  <2> QED
    BY <2>1, <2>2
<1> DEFINE Odd == {m \in 0..n : d[m] \notin D}
<1>10. Odd = {}
  <2> SUFFICES ASSUME Odd # {}
               PROVE  FALSE
    OBVIOUS
  <2>1. PICK m \in Odd : \A i \in Odd : m <= i
    <3>1. Odd \subseteq Nat
      OBVIOUS
    <3> HIDE DEF Odd
    <3> QED
      BY <3>1, LeastOf
  <2>2. <<>> \in D
    BY DEF D
  <2>3. m \in 1..n
    BY <1>9, <2>1, <2>2
  <2> DEFINE q == m \div base
  <2>4. q \in Nat /\ q < m /\ m % base \in 0..base - 1
    BY <2>3, DivideBy
  <2> HIDE DEF q
  <2>5. q \in 0..n /\ ~(m <= q)
    BY <2>3, <2>4
  <2>6. d[q] \in D
    BY <2>1, <2>5
  <2>7. d[m] = Append(d[q], m % base)
    BY <1>9, <2>3 DEF q
  <2>8. d[m] \in D
    BY <2>4, <2>6, <2>7, AppendProperties DEF D
  <2> QED
    BY <2>1, <2>8
<1>11. d \in [0..n -> D]
  <2>1. d = [m \in 0..n |-> Step(d, m)]
    BY <1>7
  <2> HIDE DEF Step
  <2>2. \A m \in 0..n : d[m] \in D
    BY <1>10
  <2> QED
    BY <2>1, <2>2
<1> QED
  BY <1>1, <1>9, <1>11 DEF Digits, D

(* One more digit. *)
LEMMA ValueOfAppend ==
  ASSUME NEW base \in {58, 256}, NEW s \in Seq(Nat), NEW r \in Nat
  PROVE  ValueIn(base, Append(s, r)) = ValueIn(base, s) * base + r
<1> DEFINE t == Append(s, r)
           N == Len(s)
<1>1. /\ t \in Seq(Nat) /\ Len(t) = N + 1 /\ N \in Nat /\ t[N + 1] = r
      /\ \A i \in 1..N : t[i] = s[i]
  BY AppendProperties, LenProperties
<1> HIDE DEF t
<1>2. PICK v : PartialValues(v, base, t) /\ ValueIn(base, t) = v[Len(t)]
  BY <1>1, ValuesExist
<1>3. Len(s) = N
  OBVIOUS
<1> HIDE DEF N
<1>4. /\ v \in [0..N + 1 -> Nat] /\ v[0] = 0 /\ ValueIn(base, t) = v[N + 1]
      /\ \A j \in 1..N + 1 : v[j] = v[j - 1] * base + t[j]
  BY <1>1, <1>2 DEF PartialValues
<1> DEFINE w == [j \in 0..N |-> v[j]]
<1>5. \A j \in 0..N : j \in 0..N + 1 /\ w[j] = v[j] /\ w[j] \in Nat
  <2>1. \A j \in 0..N : j \in 0..N + 1
    BY <1>1
  <2> QED
    BY <1>4, <2>1
<1>6. PartialValues(w, base, s)
  <2>1. ASSUME NEW j \in 1..N
        PROVE  w[j] = w[j - 1] * base + s[j]
    <3>1. j \in 1..N + 1 /\ j \in 0..N /\ j - 1 \in 0..N
      BY <1>1
    <3> QED
      BY <1>1, <1>4, <1>5, <3>1
  <2>2. w[0] = 0 /\ w \in [0..N -> Nat]
    <3>1. 0 \in 0..N
      BY <1>1
    <3> QED
      BY <1>4, <1>5, <3>1
  <2> HIDE DEF w
  <2> QED
    BY <1>3, <2>1, <2>2 DEF PartialValues
<1>7. ValueIn(base, s) = v[N]
  <2>1. ValueIn(base, s) = w[N]
    BY <1>3, <1>6, ValueIs
  <2> QED
    BY <1>1, <2>1
<1>8. v[N + 1] = v[N] * base + r
  <2>1. N + 1 \in 1..N + 1 /\ N + 1 - 1 = N
    BY <1>1
  <2> QED
    BY <1>1, <1>4, <2>1
<1> QED
  BY <1>4, <1>7, <1>8 DEF t

LEMMA ZerosAre ==
  ASSUME NEW z \in Nat
  PROVE  /\ Digits0(z) \in Seq(Nat) /\ Len(Digits0(z)) = z
         /\ \A S : 0 \in S => Digits0(z) \in Seq(S)
         /\ \A i \in 1..z : Digits0(z)[i] = 0
  BY DEF Digits0

LEMMA ValueOfZeros ==
  ASSUME NEW base \in {58, 256}, NEW z \in Nat
  PROVE  ValueIn(base, Digits0(z)) = 0
<1> DEFINE s == Digits0(z)
           v == [j \in 0..z |-> 0]
<1>1. s \in Seq(Nat) /\ Len(s) = z /\ \A i \in 1..z : s[i] = 0
  BY ZerosAre
<1> HIDE DEF s
<1>2. PartialValues(v, base, s)
  <2>1. \A j \in 1..z : j \in 0..z /\ j - 1 \in 0..z
    OBVIOUS
  <2> QED
    BY <1>1, <2>1 DEF PartialValues
<1>3. ValueIn(base, s) = v[z]
  BY <1>1, <1>2, ValueIs
<1> QED
  BY <1>3 DEF s

(* The digits of a number are its digits, and begin with none that is 0. *)
LEMMA DigitsStand ==
  ASSUME NEW base \in {58, 256}, NEW n \in Nat, NEW d, Digits(d, base, n),
         NEW z \in Nat
  PROVE  \A m \in 0..n :
           /\ ValueIn(base, Digits0(z) \o d[m]) = m
           /\ m # 0 => d[m] # <<>> /\ d[m][1] # 0
<1> DEFINE Stands(m) == /\ ValueIn(base, Digits0(z) \o d[m]) = m
                        /\ m # 0 => d[m] # <<>> /\ d[m][1] # 0
           Wrong == {m \in 0..n : ~Stands(m)}
<1> SUFFICES ASSUME Wrong # {}
             PROVE  FALSE
  OBVIOUS
<1>1. PICK m \in Wrong : \A i \in Wrong : m <= i
  <2> HIDE DEF Stands
  <2>1. Wrong \subseteq Nat
    OBVIOUS
  <2> HIDE DEF Wrong
  <2> QED
    BY <2>1, LeastOf
<1>2. m \in 0..n /\ ~Stands(m)
  BY <1>1
<1>3. \A i \in 0..n : i < m => Stands(i)
  <2> HIDE DEF Stands
  <2> QED
    BY <1>1
<1> HIDE DEF Wrong
<1>4. m # 0
  <2>1. d[0] = <<>>
    BY DEF Digits
  <2>2. Digits0(z) \o <<>> = Digits0(z)
    BY ZerosAre, ConcatEmptySeq
  <2>3. Stands(0)
    BY <2>1, <2>2, ValueOfZeros
  <2> HIDE DEF Stands
  <2> QED
    BY <1>2, <2>3
<1> DEFINE q == m \div base
           r == m % base
<1>5. /\ q \in Nat /\ q < m /\ q \in 0..n /\ m \in 1..n
      /\ r \in 0..base - 1 /\ r \in Nat /\ m = q * base + r
  BY <1>2, <1>4, DivideBy
<1>6. d[m] = Append(d[q], r)
  BY <1>5 DEF Digits
<1> HIDE DEF q, r
<1>7. d[q] \in Seq(0..base - 1) /\ d[q] \in Seq(Nat)
  <2>1. d[q] \in Seq(0..base - 1)
    BY <1>5 DEF Digits
  <2>2. 0..base - 1 \subseteq Nat
    OBVIOUS
  <2> QED
    BY <2>1, <2>2, SeqMonotonic
<1>8. Stands(q)
  BY <1>3, <1>5
<1>9. ValueIn(base, Digits0(z) \o d[m]) = m
  <2> DEFINE s == Digits0(z)
             e == d[q]
  <2>1. s \in Seq(Nat) /\ e \in Seq(Nat) /\ <<r>> \in Seq(Nat)
    BY <1>5, <1>7, ZerosAre
  <2> HIDE DEF s, e
  <2> DEFINE t == s \o e
  <2>2. t \in Seq(Nat) /\ t \o <<r>> = s \o (e \o <<r>>)
    BY <2>1, ConcatProperties, ConcatAssociative
  <2>3. ValueIn(base, t) = q
    BY <1>8 DEF s, e
  <2> HIDE DEF t
  <2>4. Append(e, r) = e \o <<r>>
    BY <1>5, <2>1, AppendIsConcat
  <2>5. Append(t, r) = t \o <<r>>
    BY <1>5, <2>2, AppendIsConcat
  <2>6. ValueIn(base, Append(t, r)) = ValueIn(base, t) * base + r
    BY <1>5, <2>2, ValueOfAppend
  <2>7. s \o Append(e, r) = Append(t, r)
    BY <2>2, <2>4, <2>5
  <2> QED
    BY <1>5, <1>6, <2>3, <2>6, <2>7 DEF s, e
<1>10. d[m] # <<>> /\ d[m][1] # 0
  <2>1. /\ d[m] # <<>> /\ Len(d[q]) \in Nat
        /\ \A i \in 1..Len(d[q]) : d[m][i] = d[q][i]
        /\ d[m][Len(d[q]) + 1] = r
    <3> DEFINE e == d[q]
    <3>1. e \in Seq(Nat)
      BY <1>7
    <3> HIDE DEF e
    <3>2. /\ Append(e, r) # <<>> /\ Len(e) \in Nat
          /\ \A i \in 1..Len(e) : Append(e, r)[i] = e[i]
          /\ Append(e, r)[Len(e) + 1] = r
      BY <1>5, <3>1, AppendProperties, LenProperties
    <3> QED
      BY <1>6, <3>2 DEF e
  <2>2. CASE q = 0
    <3>1. Len(d[q]) = 0
      BY <2>2 DEF Digits
    <3> QED
      BY <1>4, <1>5, <2>1, <2>2, <3>1
  <2>3. CASE q # 0
    <3>1. d[q] # <<>> /\ d[q][1] # 0
      BY <1>8, <2>3
    <3>2. 1 \in 1..Len(d[q])
      BY <1>7, <3>1, EmptySeq
    <3> QED
      BY <2>1, <3>1, <3>2
  <2> QED
    BY <2>2, <2>3
<1> QED
  BY <1>2, <1>9, <1>10

(* The zeros in front of a sequence are counted. *)
LEMMA ZerosCounted ==
  ASSUME NEW s \in Seq(Nat)
  PROVE  LET z == LeadingZeros(s)
         IN /\ z \in 0..Len(s) /\ \A i \in 1..z : s[i] = 0
            /\ z < Len(s) => s[z + 1] # 0
<1> DEFINE N == Len(s)
           Count(n) == (\A i \in 1..n : s[i] = 0) /\ (n < N => s[n + 1] # 0)
           Other == {i \in 1..N : s[i] # 0}
<1>1. N \in Nat
  BY LenProperties
<1>2. \E n \in 0..N : Count(n)
  <2>1. CASE Other = {}
    <3>1. N \in 0..N /\ Count(N)
      BY <1>1, <2>1
    <3> QED
      BY <3>1
  <2>2. CASE Other # {}
    <3>1. PICK i \in Other : \A j \in Other : i <= j
      <4>1. Other \subseteq Nat
        BY <1>1
      <4> HIDE DEF Other
      <4> QED
        BY <2>2, <4>1, LeastOf
    <3>2. i \in 1..N /\ s[i] # 0 /\ i - 1 \in 0..N /\ i - 1 + 1 = i
      BY <1>1, <3>1
    <3>3. \A j \in 1..i - 1 : s[j] = 0
      <4>1. \A j \in 1..i - 1 : j \in 1..N /\ ~(i <= j)
        BY <1>1, <3>2
      <4> QED
        BY <3>1, <4>1
    <3>4. Count(i - 1)
      BY <3>2, <3>3
    <3> QED
      BY <3>2, <3>4
  <2> QED
    BY <2>1, <2>2
<1>3. LeadingZeros(s) = CHOOSE n \in 0..N : Count(n)
  BY DEF LeadingZeros
<1> HIDE DEF Count
<1>4. LeadingZeros(s) \in 0..N /\ Count(LeadingZeros(s))
  BY <1>2, <1>3
<1> QED
  BY <1>4 DEF Count

(* There is one such count. *)
LEMMA OneCount ==
  ASSUME NEW s \in Seq(Nat), NEW z \in 0..Len(s), \A i \in 1..z : s[i] = 0,
         z < Len(s) => s[z + 1] # 0
  PROVE  LeadingZeros(s) = z
<1> DEFINE n == LeadingZeros(s)
           N == Len(s)
<1>1. N \in Nat
  BY LenProperties
<1>2. n \in 0..N /\ (\A i \in 1..n : s[i] = 0) /\ (n < N => s[n + 1] # 0)
  BY ZerosCounted
<1> HIDE DEF n, N
<1>3. z \in 0..N /\ (z < N => s[z + 1] # 0)
  BY DEF N
<1>4. ~(n < z)
  BY <1>1, <1>2, <1>3
<1>5. ~(z < n)
  BY <1>1, <1>2, <1>3
<1> QED
  BY <1>1, <1>2, <1>3, <1>4, <1>5 DEF n

InBase(s, base) == s \in Seq(0..base - 1)

(* The value of digits has those digits, without the zeros in front. *)
LEMMA ValueHasDigits ==
  ASSUME NEW base \in {58, 256}, NEW s, InBase(s, base)
  PROVE  /\ ValueIn(base, s) \in Nat
         /\ DigitsIn(base, ValueIn(base, s)) = SubSeq(s, LeadingZeros(s) + 1, Len(s))
<1> DEFINE N == Len(s)
           z == LeadingZeros(s)
<1>1. s \in Seq(Nat) /\ N \in Nat /\ \A i \in 1..N : s[i] \in 0..base - 1
  <2>1. 0..base - 1 \subseteq Nat /\ s \in Seq(0..base - 1)
    BY DEF InBase
  <2> QED
    BY <2>1, SeqMonotonic, LenProperties, ElementOfSeq
<1>2. z \in 0..N /\ (\A i \in 1..z : s[i] = 0) /\ (z < N => s[z + 1] # 0)
  BY <1>1, ZerosCounted
<1>3. PICK v : PartialValues(v, base, s) /\ ValueIn(base, s) = v[N]
  BY <1>1, ValuesExist
<1>4. Len(s) = N
  OBVIOUS
<1> HIDE DEF N, z
<1>5. /\ v \in [0..N -> Nat] /\ v[0] = 0
      /\ \A j \in 1..N : v[j] = v[j - 1] * base + s[j]
  BY <1>3, <1>4 DEF PartialValues
<1>6. ASSUME NEW j \in 1..N
      PROVE  /\ j - 1 \in 0..N /\ j \in 0..N /\ v[j - 1] \in Nat /\ v[j] \in Nat
             /\ v[j - 1] <= v[j] /\ v[j] \div base = v[j - 1] /\ v[j] % base = s[j]
             /\ v[j] = 0 <=> v[j - 1] = 0 /\ s[j] = 0
  <2>1. j - 1 \in 0..N /\ j \in 0..N
    BY <1>1
  <2> DEFINE a == v[j - 1]
             r == s[j]
  <2>2. a \in Nat /\ r \in 0..base - 1 /\ v[j] = a * base + r
    BY <1>1, <1>5, <2>1
  <2> HIDE DEF a, r
  <2>3. /\ a * base + r \in Nat /\ (a * base + r) \div base = a
        /\ (a * base + r) % base = r /\ a <= a * base + r
        /\ a * base + r = 0 <=> a = 0 /\ r = 0
    <3>1. CASE base = 58
      BY <2>2, <3>1
    <3>2. CASE base = 256
      BY <2>2, <3>2
    <3> QED
      BY <3>1, <3>2
  <2> QED
    BY <2>1, <2>2, <2>3 DEF a, r
<1> DEFINE V == v[N]
           Grows(k) == \A j \in 0..k : v[j] <= v[k]
           Shrunk == {k \in 0..N : ~Grows(k)}
<1>7. \A k \in 0..N : Grows(k)
  <2> SUFFICES ASSUME Shrunk # {}
               PROVE  FALSE
    OBVIOUS
  <2>1. PICK k \in Shrunk : \A i \in Shrunk : k <= i
    <3> HIDE DEF Grows
    <3>1. Shrunk \subseteq Nat
      BY <1>1
    <3> HIDE DEF Shrunk
    <3> QED
      BY <3>1, LeastOf
  <2>2. k \in 0..N /\ ~Grows(k) /\ \A i \in 0..N : i < k => Grows(i)
    <3> HIDE DEF Grows
    <3> QED
      BY <1>1, <2>1
  <2> HIDE DEF Shrunk
  <2>3. PICK j \in 0..k : ~(v[j] <= v[k])
    BY <2>2
  <2>4. v[k] \in Nat
    BY <1>5, <2>2
  <2>5. j # k /\ k \in 1..N /\ j \in 0..N
    BY <1>1, <2>2, <2>3, <2>4
  <2>6. k - 1 \in 0..N /\ k - 1 < k /\ j \in 0..k - 1
    BY <1>1, <2>3, <2>5
  <2>7. v[j] <= v[k - 1]
    BY <2>2, <2>6
  <2>8. v[k - 1] <= v[k] /\ v[k - 1] \in Nat /\ v[j] \in Nat
    BY <1>5, <1>6, <2>5
  <2> QED
    BY <2>3, <2>4, <2>7, <2>8
<1>8. V \in Nat /\ N \in 0..N /\ \A j \in 0..N : v[j] \in 0..V
  <2>1. N \in 0..N
    BY <1>1
  <2>2. Grows(N)
    BY <1>7, <2>1
  <2>3. \A j \in 0..N : v[j] \in Nat
    BY <1>5
  <2> QED
    BY <2>1, <2>2, <2>3
<1>9. PICK d : Digits(d, base, V) /\ DigitsIn(base, V) = d[V]
  BY <1>8, DigitsExist
<1> HIDE DEF V
<1> DEFINE Holds(j) == /\ j <= z => v[j] = 0
                       /\ j > z => v[j] # 0
                       /\ d[v[j]] = SubSeq(s, z + 1, j)
           Fails == {j \in 0..N : ~Holds(j)}
<1>10. Fails = {}
  <2> SUFFICES ASSUME Fails # {}
               PROVE  FALSE
    OBVIOUS
  <2>1. PICK j \in Fails : \A i \in Fails : j <= i
    <3> HIDE DEF Holds
    <3>1. Fails \subseteq Nat
      BY <1>1
    <3> HIDE DEF Fails
    <3> QED
      BY <3>1, LeastOf
  <2>2. j \in 0..N /\ ~Holds(j) /\ \A i \in 0..N : i < j => Holds(i)
    <3> HIDE DEF Holds
    <3> QED
      BY <1>1, <2>1
  <2> HIDE DEF Fails
  <2>3. d[0] = <<>>
    BY <1>9 DEF Digits
  <2>4. \A i \in 0..z : SubSeq(s, z + 1, i) = <<>>
    <3>1. \A i \in 0..z : i \in Int /\ z + 1 \in Int /\ i < z + 1
      BY <1>1, <1>2
    <3> QED
      BY <3>1, SubSeqEmpty
  <2>5. j # 0
    <3>1. 0 \in 0..z /\ 0 <= z /\ ~(0 > z)
      BY <1>1, <1>2
    <3>2. Holds(0)
      BY <1>5, <2>3, <2>4, <3>1
    <3> HIDE DEF Holds
    <3> QED
      BY <2>2, <3>2
  <2>6. j \in 1..N /\ j - 1 \in 0..N /\ j - 1 < j
    BY <1>1, <2>2, <2>5
  <2>7. Holds(j - 1)
    BY <2>2, <2>6
  <2>8. CASE j <= z
    <3>1. j - 1 <= z /\ j \in 1..z /\ j \in 0..z /\ ~(j > z)
      BY <1>1, <1>2, <2>6, <2>8
    <3>2. v[j] = 0
      BY <1>2, <1>6, <2>6, <2>7, <3>1
    <3>3. Holds(j)
      BY <2>3, <2>4, <3>1, <3>2
    <3> HIDE DEF Holds
    <3> QED
      BY <2>2, <3>3
  <2>9. CASE j > z
    <3>1. v[j] # 0
      <4>1. CASE j - 1 > z
        BY <1>6, <2>6, <2>7, <4>1
      <4>2. CASE ~(j - 1 > z)
        <5>1. j = z + 1 /\ z < N
          BY <1>1, <1>2, <2>6, <2>9, <4>2
        <5> QED
          BY <1>2, <1>6, <2>6, <5>1
      <4> QED
        BY <4>1, <4>2
    <3>2. v[j] \in 1..V
      BY <1>8, <2>2, <3>1
    <3>3. d[v[j]] = Append(d[v[j - 1]], s[j])
      <4> DEFINE m == v[j]
      <4>1. d[m] = Append(d[m \div base], m % base)
        <5> HIDE DEF m
        <5>1. m \in 1..V
          BY <3>2 DEF m
        <5> QED
          BY <1>9, <5>1 DEF Digits
      <4>2. m \div base = v[j - 1] /\ m % base = s[j]
        BY <1>6, <2>6
      <4> QED
        BY <4>1, <4>2
    <3>4. d[v[j - 1]] = SubSeq(s, z + 1, j - 1)
      BY <2>7
    <3>5. SubSeq(s, z + 1, j) = Append(SubSeq(s, z + 1, j - 1), s[j])
      <4> DEFINE e == SubSeq(s, z + 1, j - 1)
      <4>1. z + 1 \in 1..Len(s) /\ j \in z + 1..Len(s) /\ j \in 1..N
        BY <1>1, <1>2, <1>4, <2>6, <2>9
      <4>2. SubSeq(s, z + 1, j) = e \o <<s[j]>>
        <5> DEFINE m == z + 1
        <5>1. s \in Seq(Nat) /\ m \in 1..Len(s) /\ j \in m..Len(s)
          BY <1>1, <4>1
        <5> HIDE DEF m, Holds
        <5>2. SubSeq(s, m, j) = SubSeq(s, m, j - 1) \o <<s[j]>>
          BY <5>1, SubSeqRecursiveSecond
        <5> QED
          BY <5>2 DEF m
      <4>3. e \in Seq(Nat)
        <5>1. \A i \in z + 1..j - 1 : i \in 1..N
          BY <1>1, <1>2, <2>6
        <5>2. \A i \in z + 1..j - 1 : s[i] \in Nat
          BY <1>1, <5>1
        <5>3. z + 1 \in Int /\ j - 1 \in Int
          BY <1>1, <1>2, <2>6
        <5> QED
          BY <5>2, <5>3, SubSeqProperties
      <4> HIDE DEF e
      <4>4. Append(e, s[j]) = e \o <<s[j]>>
        BY <1>1, <4>1, <4>3, AppendIsConcat
      <4> QED
        BY <4>2, <4>4 DEF e
    <3>6. Holds(j)
      BY <2>9, <3>1, <3>3, <3>4, <3>5, <1>1, <1>2, <2>6
    <3> HIDE DEF Holds
    <3> QED
      BY <2>2, <3>6
  <2> QED
    BY <1>1, <1>2, <2>2, <2>8, <2>9
<1>11. d[v[N]] = SubSeq(s, z + 1, N)
  BY <1>8, <1>10
<1> QED
  BY <1>3, <1>4, <1>8, <1>9, <1>11 DEF V, z, N

(* Recoded has an inverse: itself, the other way around. *)
LEMMA RecodedBack ==
  ASSUME NEW from \in {58, 256}, NEW to \in {58, 256}, NEW s, InBase(s, from)
  PROVE  Recoded(Recoded(s, from, to), to, from) = s
<1> DEFINE N == Len(s)
           z == LeadingZeros(s)
           V == ValueIn(from, s)
           D == DigitsIn(to, V)
           Z == Digits0(z)
           r == Z \o D
<1>1. s \in Seq(Nat) /\ N \in Nat
  <2>1. 0..from - 1 \subseteq Nat /\ s \in Seq(0..from - 1)
    BY DEF InBase
  <2> QED
    BY <2>1, SeqMonotonic, LenProperties
<1>2. z \in 0..N /\ \A i \in 1..z : s[i] = 0
  BY <1>1, ZerosCounted
<1>3. V \in Nat /\ DigitsIn(from, V) = SubSeq(s, z + 1, N)
  <2>1. /\ ValueIn(from, s) \in Nat
        /\ DigitsIn(from, ValueIn(from, s)) = SubSeq(s, LeadingZeros(s) + 1, Len(s))
    BY ValueHasDigits
  <2> QED
    BY <2>1, Zenon
<1>4. Recoded(s, from, to) = r
  BY DEF Recoded
<1> HIDE DEF V
<1>5. PICK d : Digits(d, to, V) /\ DigitsIn(to, V) = d[V]
  <2>1. V \in Nat
    BY <1>3
  <2> QED
    BY <2>1, DigitsExist
<1>6. D = d[V]
  BY <1>5
<1> HIDE DEF z, D
<1>7. z \in Nat /\ V \in 0..V
  BY <1>1, <1>2, <1>3
<1>8. ValueIn(to, r) = V /\ (V # 0 => D # <<>> /\ D[1] # 0)
  BY <1>3, <1>5, <1>6, <1>7, DigitsStand
<1>9. D \in Seq(Nat) /\ (V = 0 => D = <<>>)
  <2>1. D \in Seq(0..to - 1) /\ (V = 0 => D = <<>>)
    BY <1>5, <1>6, <1>7 DEF Digits
  <2>2. 0..to - 1 \subseteq Nat
    OBVIOUS
  <2> QED
    BY <2>1, <2>2, SeqMonotonic
<1>10. Z \in Seq(Nat) /\ Len(Z) = z /\ \A i \in 1..z : Z[i] = 0
  BY <1>7, ZerosAre
<1> HIDE DEF Z
<1>11. /\ r \in Seq(Nat) /\ Len(r) = z + Len(D) /\ Len(D) \in Nat
       /\ \A i \in 1..z + Len(D) : r[i] = IF i <= z THEN Z[i] ELSE D[i - z]
  BY <1>9, <1>10, ConcatProperties, LenProperties
<1> HIDE DEF r
<1>12. LeadingZeros(r) = z
  <2>1. z \in 0..Len(r)
    BY <1>7, <1>11
  <2>2. \A i \in 1..z : r[i] = 0
    BY <1>7, <1>10, <1>11
  <2>3. ASSUME z < Len(r)
        PROVE  r[z + 1] # 0
    <3>1. Len(D) # 0
      BY <1>7, <1>11, <2>3
    <3>2. V # 0
      BY <1>9, <3>1, EmptySeq
    <3>3. z + 1 \in 1..z + Len(D) /\ ~(z + 1 <= z) /\ z + 1 - z = 1
      BY <1>7, <1>11, <3>1
    <3>4. r[z + 1] = D[1]
      <4> DEFINE n == z + 1
      <4>1. n \in 1..z + Len(D) /\ ~(n <= z) /\ n - z = 1
        BY <1>7, <1>11, <3>3
      <4> HIDE DEF n
      <4>2. r[n] = D[1]
        BY <1>11, <4>1
      <4> QED
        BY <4>2 DEF n
    <3> QED
      BY <1>8, <3>2, <3>4
  <2> QED
    BY <1>11, <2>1, <2>2, <2>3, OneCount
<1>13. Recoded(r, to, from) = Z \o SubSeq(s, z + 1, N)
  BY <1>3, <1>8, <1>12 DEF Recoded, Z
<1>14. Z \o SubSeq(s, z + 1, N) = s
  <2>1. z \in 0..Len(s) /\ 1 \in 1..Len(s) + 1 /\ z \in 1 - 1..Len(s) /\ N \in z..Len(s)
    BY <1>1, <1>2
  <2>2. SubSeq(s, 1, z) \o SubSeq(s, z + 1, N) = SubSeq(s, 1, N)
    BY <1>1, <2>1, ConcatAdjacentSubSeq
  <2>3. SubSeq(s, 1, N) = s
    BY <1>1, SubSeqFull
  <2>4. SubSeq(s, 1, z) = Z
    <3> DEFINE f == SubSeq(s, 1, z)
    <3>1. f \in Seq(Nat) /\ Len(f) = z /\ \A i \in 1..z : f[i] = s[i]
      BY <1>1, <2>1, FirstOf
    <3> HIDE DEF f
    <3>2. f = Z
      BY <1>2, <1>10, <3>1, SeqEqual
    <3> QED
      BY <3>2 DEF f
  <2> QED
    BY <2>2, <2>3, <2>4
<1> QED
  BY <1>4, <1>13, <1>14

-----------------------------------------------------------------------------
(* Numbers (jcs.go encodeNumber): the text of a number has one reading,    *)
(* whichever of the forms it takes.                                        *)

\* Digits that begin and end with one that counts.
IsDigits(d, k) ==
  d \in Seq(0..9) /\ k \in Nat /\ k # 0 /\ Len(d) = k /\ d[1] # 0 /\ d[k] # 0

\* The k digits of d, with a zeros in front and b behind.
Around(all, d, k, a, b) ==
  /\ all \in Seq(Nat) /\ Len(all) = a + k + b
  /\ \A i \in 1..a + k + b : all[i] = IF i <= a \/ a + k < i THEN 0 ELSE d[i - a]

(* A reader finds the digits between the zeros. *)
LEMMA ReadsDigits ==
  ASSUME NEW d, NEW k, IsDigits(d, k), NEW a \in Nat, NEW b \in Nat, NEW t,
         Around(t.whole \o t.frac, d, k, a, b), Len(t.whole) \in Nat, t.exp \in Int
  PROVE  ReadNumber(t) = [negative |-> t.minus, digits |-> d,
                          point |-> Len(t.whole) - a + t.exp]
<1> DEFINE all == t.whole \o t.frac
           held == {i \in DOMAIN all : all[i] # 0}
           first == CHOOSE i \in held : \A j \in held : i <= j
           last == CHOOSE i \in held : \A j \in held : j <= i
<1>1. k \in Nat /\ k # 0 /\ Len(d) = k /\ d[1] # 0 /\ d[k] # 0 /\ d \in Seq(0..9)
  BY DEF IsDigits
<1>2. /\ all \in Seq(Nat) /\ Len(all) = a + k + b
      /\ \A i \in 1..a + k + b : all[i] = IF i <= a \/ a + k < i THEN 0 ELSE d[i - a]
  BY DEF Around
<1>3. ReadNumber(t) =
        IF held = {} THEN [negative |-> t.minus, digits |-> <<>>, point |-> 0]
        ELSE [negative |-> t.minus, digits |-> SubSeq(all, first, last),
              point |-> Len(t.whole) - (first - 1) + t.exp]
  BY DEF ReadNumber
<1> HIDE DEF all
<1>4. DOMAIN all = 1..a + k + b
  BY <1>1, <1>2
<1>5. \A i \in held : i \in a + 1..a + k
  BY <1>1, <1>2, <1>4
<1>6. a + 1 \in held /\ a + k \in held
  <2> DEFINE m == a + 1
             n == a + k
  <2>2. /\ m \in 1..a + k + b /\ ~(m <= a \/ a + k < m) /\ m - a = 1
        /\ n \in 1..a + k + b /\ ~(n <= a \/ a + k < n) /\ n - a = k
    BY <1>1
  <2> HIDE DEF m, n
  <2>3. m \in held /\ n \in held
    BY <1>1, <1>2, <1>4, <2>2
  <2> QED
    BY <2>3 DEF m, n
<1> HIDE DEF held
<1>7. first = a + 1 /\ last = a + k
  <2>1. first \in held /\ \A j \in held : first <= j
    <3>1. \A j \in held : a + 1 <= j
      BY <1>5
    <3> QED
      BY <1>6, <3>1
  <2>2. last \in held /\ \A j \in held : j <= last
    <3>1. \A j \in held : j <= a + k
      BY <1>5
    <3> QED
      BY <1>6, <3>1
  <2> HIDE DEF first, last
  <2> QED
    BY <1>1, <1>5, <1>6, <2>1, <2>2
<1> HIDE DEF first, last
<1>8. SubSeq(all, a + 1, a + k) = d
  <2> DEFINE m == a + 1
             n == a + k
             s == SubSeq(all, m, n)
  <2>1. m \in Int /\ n \in Int /\ m <= n /\ n - m + 1 = k
    BY <1>1
  <2>2. \A i \in m..n : all[i] \in Nat
    <3>1. \A i \in m..n : i \in 1..Len(all)
      BY <1>1, <1>2
    <3> QED
      BY <1>2, <3>1, ElementOfSeq
  <2>3. \A i \in 1..k : /\ m + i - 1 \in 1..a + k + b
                        /\ ~(m + i - 1 <= a \/ a + k < m + i - 1) /\ m + i - 1 - a = i
    BY <1>1
  <2> HIDE DEF m, n
  <2>4. s \in Seq(Nat) /\ Len(s) = k /\ \A i \in 1..k : s[i] = all[m + i - 1]
    <3>1. /\ s \in Seq(Nat) /\ Len(s) = IF m <= n THEN n - m + 1 ELSE 0
          /\ \A i \in 1..n - m + 1 : s[i] = all[m + i - 1]
      BY <2>1, <2>2, SubSeqProperties
    <3> QED
      BY <2>1, <3>1
  <2>5. ASSUME NEW i \in 1..k
        PROVE  s[i] = d[i]
    <3> DEFINE j == m + i - 1
    <3>1. j \in 1..a + k + b /\ ~(j <= a \/ a + k < j) /\ j - a = i /\ s[i] = all[j]
      BY <1>1, <2>1, <2>3, <2>4
    <3> HIDE DEF j
    <3> QED
      BY <1>2, <3>1
  <2>6. d \in Seq(Nat)
    <3>1. 0..9 \subseteq Nat
      OBVIOUS
    <3> QED
      BY <1>1, <3>1, SeqMonotonic
  <2> HIDE DEF s
  <2>7. s = d
    BY <1>1, <2>4, <2>5, <2>6, SeqEqual
  <2> QED
    BY <2>7 DEF s, m, n
<1>9. held # {} /\ Len(t.whole) - (first - 1) + t.exp = Len(t.whole) - a + t.exp
  BY <1>6, <1>7
<1> QED
  BY <1>3, <1>7, <1>8, <1>9

\* No needless zeros, and an exponent just where there has to be one.
PlainDigits(t) ==
  /\ t.frac = <<>> \/ t.frac[Len(t.frac)] # 0
  /\ t.whole[1] = 0 => t.whole = <<0>>
  /\ t.exp # 0 => Len(t.whole) = 1 /\ t.exp \notin -6..20

\* t holds d with the point at n.
Holds(t, d, k, n) ==
  /\ PlainDigits(t) /\ Len(t.whole) \in Nat /\ t.exp \in Int
  /\ \E a, b \in Nat :
       Around(t.whole \o t.frac, d, k, a, b) /\ Len(t.whole) - a + t.exp = n

LEMMA WrittenHolds ==
  ASSUME NEW d, NEW k, IsDigits(d, k), NEW n \in Int
  PROVE  Holds(Written(d, n), d, k, n)
<1>1. k \in Nat /\ k # 0 /\ Len(d) = k /\ d[1] # 0 /\ d[k] # 0 /\ d \in Seq(Nat)
  <2>1. 0..9 \subseteq Nat
    OBVIOUS
  <2> QED
    BY <2>1, SeqMonotonic DEF IsDigits
<1>2. CASE k <= n /\ n <= 21
  <2> DEFINE z == n - k
             Z == Digits0(z)
             w == d \o Z
             t == [whole |-> w, frac |-> <<>>, exp |-> 0]
  <2>1. Written(d, n) = t
    BY <1>1, <1>2 DEF Written
  <2>2. z \in Nat /\ n = k + z
    BY <1>1, <1>2
  <2> HIDE DEF z
  <2>3. Z \in Seq(Nat) /\ Len(Z) = z /\ \A i \in 1..z : Z[i] = 0
    BY <2>2, ZerosAre
  <2> HIDE DEF Z
  <2>4. /\ w \in Seq(Nat) /\ Len(w) = k + z
        /\ \A i \in 1..k + z : w[i] = IF i <= k THEN d[i] ELSE Z[i - k]
    BY <1>1, <2>3, ConcatProperties
  <2> HIDE DEF w
  <2>5. w \o <<>> = w
    BY <2>4, ConcatEmptySeq
  <2>6. w[1] # 0
    BY <1>1, <2>2, <2>4
  <2>7. Around(w, d, k, 0, z)
    <3>1. ASSUME NEW i \in 1..0 + k + z
          PROVE  w[i] = IF i <= 0 \/ 0 + k < i THEN 0 ELSE d[i - 0]
      BY <1>1, <2>2, <2>3, <2>4
    <3> QED
      BY <1>1, <2>2, <2>4, <3>1 DEF Around
  <2>8. Around(t.whole \o t.frac, d, k, 0, z) /\ Len(t.whole) - 0 + t.exp = n
    BY <1>1, <2>2, <2>4, <2>5, <2>7
  <2>9. PlainDigits(t) /\ Len(t.whole) \in Nat /\ t.exp \in Int
    BY <1>1, <2>2, <2>4, <2>6 DEF PlainDigits
  <2> HIDE DEF t
  <2> QED
    BY <2>1, <2>2, <2>8, <2>9 DEF Holds
<1>3. \A all : all = d => Around(all, d, k, 0, 0)
  BY <1>1 DEF Around
<1>4. CASE ~(k <= n /\ n <= 21) /\ 0 < n /\ n <= 21
  <2> DEFINE w == SubSeq(d, 1, n)
             f == SubSeq(d, n + 1, k)
             t == [whole |-> w, frac |-> f, exp |-> 0]
  <2>1. Written(d, n) = t
    BY <1>1, <1>4 DEF Written
  <2>2. n \in 1..k - 1 /\ n \in 0..Len(d) /\ 1 \in 1..n
    BY <1>1, <1>4
  <2>3. w \o f = d
    <3>1. 1 \in 1..Len(d) + 1 /\ n \in 1 - 1..Len(d) /\ k \in n..Len(d)
      BY <1>1, <2>2
    <3>2. SubSeq(d, 1, n) \o SubSeq(d, n + 1, k) = SubSeq(d, 1, k)
      BY <1>1, <3>1, ConcatAdjacentSubSeq
    <3>3. SubSeq(d, 1, k) = d
      BY <1>1, SubSeqFull
    <3> QED
      BY <3>2, <3>3
  <2>4. w \in Seq(Nat) /\ Len(w) = n /\ w[1] = d[1]
    <3>1. /\ SubSeq(d, 1, n) \in Seq(Nat) /\ Len(SubSeq(d, 1, n)) = n
          /\ \A i \in 1..n : SubSeq(d, 1, n)[i] = d[i]
      BY <1>1, <2>2, FirstOf
    <3> QED
      BY <2>2, <3>1
  <2>5. f[Len(f)] # 0
    <3> DEFINE m == n + 1
    <3>1. /\ m \in Int /\ k \in Int /\ \A i \in m..k : i \in 1..Len(d)
          /\ m <= k /\ k - m + 1 \in 1..k - m + 1 /\ m + (k - m + 1) - 1 = k
      BY <1>1, <2>2
    <3>2. \A i \in m..k : d[i] \in Nat
      BY <1>1, <3>1, ElementOfSeq
    <3> HIDE DEF m
    <3>3. /\ Len(SubSeq(d, m, k)) = IF m <= k THEN k - m + 1 ELSE 0
          /\ \A i \in 1..k - m + 1 : SubSeq(d, m, k)[i] = d[m + i - 1]
      BY <3>1, <3>2, SubSeqProperties
    <3>4. SubSeq(d, m, k)[k - m + 1] = d[k]
      BY <3>1, <3>3
    <3>5. SubSeq(d, m, k)[Len(SubSeq(d, m, k))] # 0
      BY <1>1, <3>1, <3>3, <3>4
    <3> QED
      BY <3>5 DEF m
  <2> HIDE DEF w, f
  <2>6. Around(t.whole \o t.frac, d, k, 0, 0) /\ Len(t.whole) - 0 + t.exp = n
    <3>1. t.whole \o t.frac = d
      BY <2>3
    <3>2. Len(t.whole) - 0 + t.exp = n
      BY <2>2, <2>4
    <3> HIDE DEF t
    <3> QED
      BY <1>3, <3>1, <3>2
  <2>7. PlainDigits(t) /\ Len(t.whole) \in Nat /\ t.exp \in Int
    BY <1>1, <2>2, <2>4, <2>5 DEF PlainDigits
  <2> HIDE DEF t
  <2> QED
    BY <2>1, <2>6, <2>7 DEF Holds
<1>5. CASE -6 < n /\ n <= 0
  <2> DEFINE z == -n
             Z == Digits0(z)
             f == Z \o d
             t == [whole |-> <<0>>, frac |-> f, exp |-> 0]
             all == <<0>> \o f
  <2>1. Written(d, n) = t
    BY <1>1, <1>5 DEF Written
  <2>2. z \in Nat /\ n = -z
    BY <1>5
  <2> HIDE DEF z
  <2>3. Z \in Seq(Nat) /\ Len(Z) = z /\ \A i \in 1..z : Z[i] = 0
    BY <2>2, ZerosAre
  <2> HIDE DEF Z
  <2>4. /\ f \in Seq(Nat) /\ Len(f) = z + k
        /\ \A i \in 1..z + k : f[i] = IF i <= z THEN Z[i] ELSE d[i - z]
    BY <1>1, <2>3, ConcatProperties
  <2> HIDE DEF f
  <2>5. /\ all \in Seq(Nat) /\ Len(all) = 1 + (z + k)
        /\ \A i \in 1..1 + (z + k) : all[i] = IF i <= 1 THEN <<0>>[i] ELSE f[i - 1]
    BY <2>4, ConcatProperties
  <2> HIDE DEF all
  <2>6. f[z + k] # 0
    BY <1>1, <2>2, <2>4
  <2>7. Around(all, d, k, z + 1, 0)
    <3>1. ASSUME NEW i \in 1..z + 1 + k + 0
          PROVE  all[i] = IF i <= z + 1 \/ z + 1 + k < i THEN 0 ELSE d[i - (z + 1)]
      <4>1. CASE i <= 1
        BY <1>1, <2>2, <2>5, <4>1
      <4>2. CASE ~(i <= 1)
        <5> DEFINE j == i - 1
        <5>1. j \in 1..z + k /\ i \in 1..1 + (z + k) /\ i = j + 1
          BY <1>1, <2>2, <4>2
        <5>2. all[i] = f[j]
          BY <2>5, <4>2, <5>1
        <5> HIDE DEF j
        <5>3. f[j] = IF j <= z THEN 0 ELSE d[j - z]
          BY <1>1, <2>2, <2>3, <2>4, <5>1
        <5>4. (i <= z + 1 \/ z + 1 + k < i <=> j <= z) /\ i - (z + 1) = j - z
          BY <1>1, <2>2, <5>1
        <5> QED
          BY <5>2, <5>3, <5>4
      <4> QED
        BY <4>1, <4>2
    <3> QED
      BY <1>1, <2>2, <2>5, <3>1 DEF Around
  <2>8. /\ z + 1 \in Nat /\ Around(t.whole \o t.frac, d, k, z + 1, 0)
        /\ Len(t.whole) - (z + 1) + t.exp = n
    BY <2>2, <2>7 DEF all
  <2>9. PlainDigits(t) /\ Len(t.whole) \in Nat /\ t.exp \in Int
    BY <2>4, <2>6 DEF PlainDigits
  <2> HIDE DEF t
  <2> QED
    BY <2>1, <2>8, <2>9 DEF Holds
<1>6. CASE ~(0 < n /\ n <= 21) /\ ~(-6 < n /\ n <= 0)
  <2> DEFINE f == Tail(d)
             t == [whole |-> <<d[1]>>, frac |-> f, exp |-> n - 1]
  <2>1. Written(d, n) = t
    BY <1>1, <1>6 DEF Written
  <2>2. n - 1 \in Int /\ n - 1 \notin -6..20
    BY <1>6
  <2>3. <<d[1]>> \o f = d /\ (f = <<>> \/ f[Len(f)] # 0)
    <3>1. d # <<>>
      BY <1>1
    <3>2. f \in Seq(Nat) /\ Len(f) = k - 1 /\ \A i \in 1..k - 1 : f[i] = d[i + 1]
      BY <1>1, <3>1, HeadTailProperties
    <3> HIDE DEF f
    <3>3. CASE k = 1
      BY <1>1, <3>2, <3>3, EmptySeq
    <3>4. CASE k # 1
      <4>1. k - 1 \in 1..k - 1 /\ k - 1 + 1 = k
        BY <1>1, <3>4
      <4> QED
        BY <1>1, <3>2, <4>1
    <3>5. <<d[1]>> \o f = d
      <4> DEFINE s == <<d[1]>> \o f
      <4>0. d[1] \in Nat
        BY <1>1, ElementOfSeq
      <4>1. /\ s \in Seq(Nat) /\ Len(s) = 1 + (k - 1)
            /\ \A i \in 1..1 + (k - 1) : s[i] = IF i <= 1 THEN <<d[1]>>[i] ELSE f[i - 1]
        BY <3>2, <4>0, ConcatProperties
      <4> HIDE DEF s
      <4>2. ASSUME NEW i \in 1..k
            PROVE  s[i] = d[i]
        <5>1. i \in 1..1 + (k - 1) /\ (~(i <= 1) => i - 1 \in 1..k - 1 /\ i - 1 + 1 = i)
          BY <1>1
        <5> QED
          BY <3>2, <4>1, <5>1
      <4>3. s = d
        BY <1>1, <4>1, <4>2, SeqEqual
      <4> QED
        BY <4>3 DEF s
    <3> QED
      BY <3>3, <3>4, <3>5
  <2> HIDE DEF f
  <2>4. Around(t.whole \o t.frac, d, k, 0, 0) /\ Len(t.whole) - 0 + t.exp = n
    <3>1. t.whole \o t.frac = d
      BY <2>3
    <3>2. Len(t.whole) - 0 + t.exp = n
      OBVIOUS
    <3> HIDE DEF t
    <3> QED
      BY <1>3, <3>1, <3>2
  <2>5. PlainDigits(t) /\ Len(t.whole) \in Nat /\ t.exp \in Int
    BY <1>1, <2>2, <2>3 DEF PlainDigits
  <2> HIDE DEF t
  <2> QED
    BY <2>1, <2>4, <2>5 DEF Holds
<1> QED
  BY <1>2, <1>4, <1>5, <1>6

(* A number without its sign. *)
LEMMA OtherSign ==
  ASSUME NEW N, NEW v \in N, NEW D, NEW P, NEW x \in [negative : N, digits : D, point : P]
  PROVE  [x EXCEPT !.negative = v] = [negative |-> v, digits |-> x.digits, point |-> x.point]
  BY SMT

\* The digits a number may have.
Counting(d) == \E k \in Nat : IsDigits(d, k)

(* Every number reads back, and in one way only. *)
LEMMA NumberBack ==
  ASSUME NEW x, NEW t, t = WrittenNumber(x),
         x \in [negative : BOOLEAN, digits : {<<>>}, point : {0}]
           \/ x \in [negative : BOOLEAN, digits : {d \in Seq(0..9) : Counting(d)}, point : Int]
  PROVE  /\ ReadNumber(t) = IF x.digits = <<>> THEN [x EXCEPT !.negative = FALSE] ELSE x
         /\ PlainDigits(t)
<1>1. CASE x \in [negative : BOOLEAN, digits : {<<>>}, point : {0}]
  <2>1. t = [minus |-> FALSE, whole |-> <<0>>, frac |-> <<>>, exp |-> 0]
    BY <1>1 DEF WrittenNumber
  <2>2. t.whole \o t.frac = <<0>>
    BY <2>1
  <2>3. {i \in DOMAIN (t.whole \o t.frac) : (t.whole \o t.frac)[i] # 0} = {}
    BY <2>2
  <2>4. ReadNumber(t) = [negative |-> FALSE, digits |-> <<>>, point |-> 0]
    BY <2>1, <2>3 DEF ReadNumber
  <2>5. [x EXCEPT !.negative = FALSE] = [negative |-> FALSE, digits |-> <<>>, point |-> 0]
    <3>1. x.digits = <<>> /\ x.point = 0
      BY <1>1
    <3>2. [x EXCEPT !.negative = FALSE]
            = [negative |-> FALSE, digits |-> x.digits, point |-> x.point]
      <4> DEFINE v == FALSE
                 N == BOOLEAN
      <4>1. v \in N /\ x \in [negative : N, digits : {<<>>}, point : {0}]
        BY <1>1
      <4> HIDE DEF v, N
      <4>2. [x EXCEPT !.negative = v] = [negative |-> v, digits |-> x.digits, point |-> x.point]
        BY <4>1, OtherSign
      <4> QED
        BY <4>2, Zenon DEF v
    <3> QED
      BY <3>1, <3>2, Zenon
  <2> QED
    BY <1>1, <2>1, <2>4, <2>5 DEF PlainDigits
<1>2. CASE x \in [negative : BOOLEAN, digits : {d \in Seq(0..9) : Counting(d)}, point : Int]
  <2>1. PICK k \in Nat : IsDigits(x.digits, k)
    BY <1>2 DEF Counting
  <2> DEFINE w == Written(x.digits, x.point)
  <2>2. x.point \in Int /\ x.negative \in BOOLEAN /\ x.digits # <<>>
    <3>1. x.point \in Int /\ x.negative \in BOOLEAN
      BY <1>2
    <3>2. Len(x.digits) # 0
      BY <2>1 DEF IsDigits
    <3> QED
      BY <3>1, <3>2
  <2>3. Holds(w, x.digits, k, x.point)
    BY <2>1, <2>2, WrittenHolds
  <2> HIDE DEF w
  <2>4. t = [minus |-> x.negative, whole |-> w.whole, frac |-> w.frac, exp |-> w.exp]
    BY <2>2 DEF WrittenNumber, w
  <2>5. t.whole = w.whole /\ t.frac = w.frac /\ t.exp = w.exp /\ t.minus = x.negative
    BY <2>4
  <2>6. PlainDigits(t)
    BY <2>3, <2>5 DEF Holds, PlainDigits
  <2>7. PICK a \in Nat, b \in Nat :
          Around(t.whole \o t.frac, x.digits, k, a, b) /\ Len(t.whole) - a + t.exp = x.point
    BY <2>3, <2>5 DEF Holds
  <2>8. Len(t.whole) \in Nat /\ t.exp \in Int
    BY <2>3, <2>5 DEF Holds
  <2>9. ReadNumber(t) = [negative |-> t.minus, digits |-> x.digits,
                         point |-> Len(t.whole) - a + t.exp]
    BY <2>1, <2>7, <2>8, ReadsDigits
  <2>10. ReadNumber(t) = [negative |-> x.negative, digits |-> x.digits, point |-> x.point]
    BY <2>5, <2>7, <2>9
  <2>11. x = [negative |-> x.negative, digits |-> x.digits, point |-> x.point]
    BY <1>2
  <2> QED
    BY <2>2, <2>6, <2>10, <2>11
<1> QED
  BY <1>1, <1>2

-----------------------------------------------------------------------------
(* Code units: UTF-16 tells strings apart, and its order is total.         *)

\* Characters, and the code units they become.
Runes == {c \in Nat : IsRune(c)}
Units == {u \in Nat : u < 65536}

(* The code units of a character are its own: those of two characters      *)
(* differ before either is over, since no character is a surrogate.        *)
LEMMA UnitsDiffer ==
  ASSUME NEW c \in Runes, NEW d \in Runes, c # d
  PROVE  \E m \in 1..2 :
           /\ m <= Len(CodeUnits(c)) /\ m <= Len(CodeUnits(d))
           /\ CodeUnits(c)[m] # CodeUnits(d)[m]
<1> USE DEF Runes, IsRune
<1>1. \A x \in Runes : x >= 65536 =>
        /\ (x - 65536) \div 1024 \in 0..1023 /\ (x - 65536) % 1024 \in 0..1023
        /\ x = 65536 + 1024 * ((x - 65536) \div 1024) + ((x - 65536) % 1024)
  BY SMT
<1>2. CASE c < 65536 /\ d < 65536
  <2>1. CodeUnits(c) = <<c>> /\ CodeUnits(d) = <<d>>
    BY SMT, <1>2 DEF CodeUnits
  <2> QED
    BY SMT, <2>1
<1>3. CASE c < 65536 /\ d >= 65536
  <2>1. /\ CodeUnits(c) = <<c>> /\ Len(CodeUnits(d)) = 2
        /\ CodeUnits(d)[1] = 55296 + (d - 65536) \div 1024
    BY SMT, <1>3 DEF CodeUnits
  <2>2. c # 55296 + (d - 65536) \div 1024
    BY SMT, <1>1, <1>3
  <2> QED
    BY SMT, <2>1, <2>2
<1>4. CASE c >= 65536 /\ d < 65536
  <2>1. /\ CodeUnits(d) = <<d>> /\ Len(CodeUnits(c)) = 2
        /\ CodeUnits(c)[1] = 55296 + (c - 65536) \div 1024
    BY SMT, <1>4 DEF CodeUnits
  <2>2. d # 55296 + (c - 65536) \div 1024
    BY SMT, <1>1, <1>4
  <2> QED
    BY SMT, <2>1, <2>2
<1>5. CASE c >= 65536 /\ d >= 65536
  <2>1. /\ CodeUnits(d) = <<55296 + (d - 65536) \div 1024, 56320 + ((d - 65536) % 1024)>>
        /\ CodeUnits(c) = <<55296 + (c - 65536) \div 1024, 56320 + ((c - 65536) % 1024)>>
    BY SMT, <1>5 DEF CodeUnits
  <2> DEFINE h(x) == (x - 65536) \div 1024
             l(x) == (x - 65536) % 1024
  <2>2. /\ h(c) \in Nat /\ h(d) \in Nat /\ l(c) \in Nat /\ l(d) \in Nat
        /\ h(c) # h(d) \/ l(c) # l(d)
    BY SMT, <1>1, <1>5
  <2>3. /\ CodeUnits(c) = <<55296 + h(c), 56320 + l(c)>>
        /\ CodeUnits(d) = <<55296 + h(d), 56320 + l(d)>>
    BY SMT, <2>1
  <2> HIDE DEF h, l
  <2> QED
    BY SMT, <2>2, <2>3
<1>6. c \in Int /\ d \in Int
  BY SMT
<1> QED
  BY SMT, <1>2, <1>3, <1>4, <1>5, <1>6

LEMMA UnitsType ==
  ASSUME NEW c \in Runes
  PROVE  CodeUnits(c) \in Seq(Units) /\ Len(CodeUnits(c)) \in {1, 2}
<1> USE DEF Runes, IsRune, Units
<1>1. CASE c < 65536
  BY SMT, <1>1 DEF CodeUnits
<1>2. CASE ~(c < 65536)
  <2> DEFINE h == (c - 65536) \div 1024
             l == (c - 65536) % 1024
  <2>1. h \in 0..1023 /\ l \in 0..1023
    BY SMT, <1>2
  <2>2. CodeUnits(c) = <<55296 + h, 56320 + l>>
    BY SMT, <1>2 DEF CodeUnits
  <2> HIDE DEF h, l
  <2>3. 55296 + h \in Units /\ 56320 + l \in Units
    BY SMT, <2>1
  <2> QED
    BY SMT, <2>2, <2>3
<1> QED
  BY SMT, <1>1, <1>2

\* The code units of the characters of s, one after another.
UnitsOf(s) == [i \in DOMAIN s |-> CodeUnits(s[i])]

LEMMA UTF16Joins ==
  ASSUME NEW s \in Seq(Runes)
  PROVE  \E flat : Joins(flat, UnitsOf(s), Units, Len(s)) /\ UTF16(s) = flat[Len(s)]
<1> DEFINE N == Len(s)
<1>1. N \in Nat /\ DOMAIN s = 1..N /\ \A i \in 1..N : s[i] \in Runes
  BY LenProperties, ElementOfSeq
<1>2. UnitsOf(s) \in [1..N -> Seq(Units)]
  BY <1>1, UnitsType DEF UnitsOf
<1>3. UTF16(s) = FlattenSeq(UnitsOf(s))
  BY DEF UTF16, UnitsOf
<1> HIDE DEF N
<1>4. \E flat : Joins(flat, UnitsOf(s), Units, N) /\ FlattenSeq(UnitsOf(s)) = flat[N]
  BY <1>1, <1>2, Flattened
<1> QED
  BY <1>3, <1>4 DEF N

(* Different strings have different code units. *)
LEMMA UTF16Differs ==
  ASSUME NEW s \in Seq(Runes), NEW t \in Seq(Runes), UTF16(s) = UTF16(t)
  PROVE  s = t
<1> DEFINE N == Len(s)
           M == Len(t)
           p == UnitsOf(s)
           q == UnitsOf(t)
<1>1. /\ N \in Nat /\ M \in Nat /\ N = Len(s) /\ M = Len(t)
      /\ \A i \in 1..N : s[i] \in Runes /\ p[i] = CodeUnits(s[i])
      /\ \A i \in 1..M : t[i] \in Runes /\ q[i] = CodeUnits(t[i])
  BY LenProperties, ElementOfSeq DEF UnitsOf
<1>2. PICK f : Joins(f, p, Units, N) /\ UTF16(s) = f[N]
  BY UTF16Joins
<1>3. PICK g : Joins(g, q, Units, M) /\ UTF16(t) = g[M]
  BY UTF16Joins
<1> HIDE DEF N, M, p, q
<1>4. \A k \in 0..N : k <= M /\ (\A j \in 1..k : s[j] = t[j]) => f[k] = g[k]
  <2> SUFFICES ASSUME NEW k \in 0..N, k <= M, \A j \in 1..k : s[j] = t[j]
               PROVE  f[k] = g[k]
    OBVIOUS
  <2>1. \A j \in 1..k : p[j] = q[j]
    BY <1>1
  <2> QED
    BY <1>1, <1>2, <1>3, <2>1, EqualPieces
<1> DEFINE fe == [k \in 0..N |-> Len(f[k])]
           ge == [k \in 0..M |-> Len(g[k])]
           np == [j \in 1..N |-> Len(p[j])]
           nq == [j \in 1..M |-> Len(q[j])]
<1>5. Laid(f, p, fe, np, N)
  BY <1>1, <1>2, PiecesStay
<1>6. Laid(g, q, ge, nq, M)
  BY <1>1, <1>3, PiecesStay
<1>9. /\ \A j \in 1..N : np[j] \in {1, 2} /\ np[j] = Len(p[j])
      /\ \A j \in 1..M : nq[j] \in {1, 2} /\ nq[j] = Len(q[j])
  BY <1>1, UnitsType
<1> HIDE DEF fe, ge, np, nq
<1>10. 0 \in 0..N /\ N \in 0..N /\ 0 \in 0..M /\ M \in 0..M
  BY <1>1
<1>11. /\ f[N] = g[M]
       /\ \A k \in 0..N : fe[k] = Len(f[k])
       /\ \A k \in 0..M : ge[k] = Len(g[k])
  <2>1. f[N] = g[M]
    BY <1>2, <1>3
  <2>2. \A k \in 0..N : fe[k] = Len(f[k])
    BY <1>5 DEF Laid
  <2>3. \A k \in 0..M : ge[k] = Len(g[k])
    BY <1>6 DEF Laid
  <2> QED
    BY <2>1, <2>2, <2>3
<1> DEFINE Differ == {i \in 1..N : i <= M /\ s[i] # t[i]}
<1>7. CASE Differ # {}
  <2>1. PICK i \in Differ : \A j \in Differ : i <= j
    <3>1. Differ \subseteq Nat
      BY <1>1
    <3> HIDE DEF Differ
    <3> QED
      BY <1>7, <3>1, LeastOf
  <2>2. i \in 1..N /\ i \in 1..M /\ s[i] # t[i] /\ i - 1 \in 0..N /\ i - 1 <= M
    BY <1>1, <2>1
  <2>3. \A j \in 1..i - 1 : s[j] = t[j]
    <3>1. \A j \in 1..i - 1 : j \in 1..N /\ j <= M /\ ~(i <= j)
      BY <1>1, <2>2
    <3> QED
      BY <2>1, <3>1
  <2>4. f[i - 1] = g[i - 1]
    BY <1>4, <2>2, <2>3
  <2>5. PICK m \in 1..2 : m <= Len(p[i]) /\ m <= Len(q[i]) /\ p[i][m] # q[i][m]
    BY <1>1, <2>2, UnitsDiffer
  <2> HIDE DEF Differ
  <2>6. m \in 1..np[i] /\ m \in 1..nq[i]
    BY <1>9, <2>2, <2>5
  <2>7. f[N][fe[i - 1] + m] = p[i][m] /\ g[M][ge[i - 1] + m] = q[i][m]
    <3> QED
      BY <1>5, <1>6, <2>2, <2>6 DEF Laid
  <2>8. i - 1 \in 0..M /\ fe[i - 1] = ge[i - 1]
    <3>1. i - 1 \in 0..M
      BY <1>1, <2>2
    <3> QED
      BY <1>11, <2>2, <2>4, <3>1
  <2> QED
    BY <1>11, <2>5, <2>7, <2>8
<1>8. CASE Differ = {}
  <2>1. \A i \in 1..N : i <= M => s[i] = t[i]
    BY <1>8
  <2>2. ~(N < M)
    <3> SUFFICES ASSUME N < M
                 PROVE  FALSE
      OBVIOUS
    <3>1. N \in 0..N /\ N <= M /\ N + 1 \in 1..M /\ N + 1 - 1 = N /\ N \in 0..M
          /\ N + 1 \in 0..M /\ \A j \in 1..N : j <= M
      BY <1>1
    <3>2. f[N] = g[N]
      BY <1>4, <2>1, <3>1
    <3>3. ge[N + 1] = ge[N] + nq[N + 1] /\ ge[N + 1] <= ge[M] /\ nq[N + 1] \in {1, 2}
          /\ ge[N] \in Nat /\ ge[M] \in Nat
      <4>1. M \in 0..M
        BY <1>1
      <4> QED
        BY <1>6, <1>9, <3>1, <4>1 DEF Laid
    <3>4. fe[N] = ge[N] /\ fe[N] = ge[M]
      BY <1>10, <1>11, <3>1, <3>2
    <3> QED
      BY <3>3, <3>4
  <2>3. ~(M < N)
    <3> SUFFICES ASSUME M < N
                 PROVE  FALSE
      OBVIOUS
    <3>1. M \in 0..N /\ M <= M /\ M + 1 \in 1..N /\ M + 1 - 1 = M
          /\ M + 1 \in 0..N /\ \A j \in 1..M : j <= M /\ j \in 1..N
      BY <1>1
    <3>2. f[M] = g[M]
      BY <1>4, <2>1, <3>1
    <3>3. fe[M + 1] = fe[M] + np[M + 1] /\ fe[M + 1] <= fe[N] /\ np[M + 1] \in {1, 2}
          /\ fe[M] \in Nat /\ fe[N] \in Nat
      <4>1. N \in 0..N
        BY <1>1
      <4> QED
        BY <1>5, <1>9, <3>1, <4>1 DEF Laid
    <3>4. fe[M] = ge[M] /\ fe[N] = ge[M]
      BY <1>10, <1>11, <3>1, <3>2
    <3> QED
      BY <3>3, <3>4
  <2>4. N = M /\ \A i \in 1..N : s[i] = t[i]
    BY <1>1, <2>1, <2>2, <2>3
  <2> QED
    BY <1>1, <2>4, SeqEqual
<1> QED
  BY <1>7, <1>8

(* The order of a dictionary is total. *)
LEMMA OneIsBefore ==
  ASSUME NEW u \in Seq(Nat), NEW v \in Seq(Nat), u # v
  PROVE  Before(u, v) \/ Before(v, u)
<1> DEFINE N == Len(u)
           M == Len(v)
           Differ == {i \in 1..N : i <= M /\ u[i] # v[i]}
<1>1. /\ N \in Nat /\ M \in Nat /\ DOMAIN u = 1..N /\ DOMAIN v = 1..M
      /\ N = Len(u) /\ M = Len(v)
      /\ \A i \in 1..N : u[i] \in Nat
      /\ \A i \in 1..M : v[i] \in Nat
  BY LenProperties, ElementOfSeq
<1> HIDE DEF N, M
<1>2. CASE Differ # {}
  <2>1. PICK i \in Differ : \A j \in Differ : i <= j
    <3>1. Differ \subseteq Nat
      BY <1>1
    <3> HIDE DEF Differ
    <3> QED
      BY <1>2, <3>1, LeastOf
  <2>2. i \in 1..N /\ i \in 1..M /\ u[i] # v[i]
    BY <1>1, <2>1
  <2>3. \A j \in 1..i - 1 : u[j] = v[j]
    <3>1. \A j \in 1..i - 1 : j \in 1..N /\ j <= M /\ ~(i <= j)
      BY <1>1, <2>2
    <3> QED
      BY <2>1, <3>1
  <2>4. u[i] < v[i] \/ v[i] < u[i]
    BY <1>1, <2>2
  <2>5. i \in DOMAIN u \cap DOMAIN v /\ \A j \in 1..i - 1 : v[j] = u[j]
    BY <1>1, <2>2, <2>3
  <2> HIDE DEF Differ
  <2>6. CASE u[i] < v[i]
    BY <2>3, <2>5, <2>6 DEF Before
  <2>7. CASE v[i] < u[i]
    BY <2>5, <2>7 DEF Before
  <2> QED
    BY <2>4, <2>6, <2>7
<1>3. CASE Differ = {}
  <2>1. \A i \in 1..N : i <= M => u[i] = v[i]
    BY <1>3
  <2>2. N # M
    <3> SUFFICES ASSUME N = M
                 PROVE  FALSE
      OBVIOUS
    <3>1. \A i \in 1..N : u[i] = v[i]
      BY <1>1, <2>1
    <3> QED
      BY <1>1, <3>1, SeqEqual
  <2>3. CASE N < M
    <3>1. \A j \in 1..N : u[j] = v[j]
      BY <1>1, <2>1, <2>3
    <3> QED
      BY <1>1, <2>3, <3>1 DEF Before
  <2>4. CASE M < N
    <3>1. \A j \in 1..M : v[j] = u[j]
      BY <1>1, <2>1, <2>4
    <3> QED
      BY <1>1, <2>4, <3>1 DEF Before
  <2> HIDE DEF Differ
  <2>5. N < M \/ M < N
    <3>1. N \in Nat /\ M \in Nat
      BY <1>1
    <3> QED
      BY <2>2, <3>1
  <2> QED
    BY <2>3, <2>4, <2>5
<1> QED
  BY <1>2, <1>3

-----------------------------------------------------------------------------
(* Keys of an object: sorting leaves them the same, in ascending order.    *)

(* The code units of a string are units. *)
LEMMA UTF16Type ==
  ASSUME NEW s \in Seq(Runes)
  PROVE  UTF16(s) \in Seq(Units)
<1>1. PICK flat : Joins(flat, UnitsOf(s), Units, Len(s)) /\ UTF16(s) = flat[Len(s)]
  BY UTF16Joins
<1>2. Len(s) \in Nat
  BY LenProperties
<1>3. Len(s) \in 0..Len(s)
  BY <1>2
<1> QED
  BY <1>1, <1>3 DEF Joins

\* The bytes b of the units u, the high one first.
Halved(b, u, n) ==
  /\ n \in Nat /\ Len(u) = n /\ Len(b) = 2 * n /\ DOMAIN b = 1..2 * n
  /\ \A i \in 1..n : /\ u[i] \in Nat
                     /\ 2 * i - 1 \in 1..2 * n /\ b[2 * i - 1] = u[i] \div 256
                     /\ 2 * i \in 1..2 * n /\ b[2 * i] = u[i] % 256
  /\ \A k \in 1..2 * n : \E i \in 1..n : k = 2 * i - 1 \/ k = 2 * i

LEMMA BytesAre ==
  ASSUME NEW s \in Seq(Runes)
  PROVE  Halved(Bytes(s), UTF16(s), Len(UTF16(s)))
<1> DEFINE u == UTF16(s)
           n == Len(u)
           High(x) == x \div 256
           Low(x) == x % 256
           b == [i \in 1..2 * n |-> IF i % 2 = 1 THEN High(u[(i + 1) \div 2])
                                                 ELSE Low(u[i \div 2])]
<1>1. n \in Nat /\ \A i \in 1..n : u[i] \in Nat
  <2>1. u \in Seq(Units)
    BY UTF16Type
  <2> HIDE DEF u
  <2>2. n \in Nat /\ \A i \in 1..n : u[i] \in Units
    BY <2>1, LenProperties, ElementOfSeq
  <2> QED
    BY <2>2 DEF Units
<1>2. Bytes(s) = b
  BY DEF Bytes
<1>3. Len(u) = n
  OBVIOUS
<1> HIDE DEF u, n, High, Low
<1>4. Len(b) = 2 * n /\ DOMAIN b = 1..2 * n
  BY <1>1
<1>5. ASSUME NEW i \in 1..n
      PROVE  /\ 2 * i - 1 \in 1..2 * n /\ b[2 * i - 1] = High(u[i])
             /\ 2 * i \in 1..2 * n /\ b[2 * i] = Low(u[i])
  <2>1. /\ 2 * i - 1 \in 1..2 * n /\ (2 * i - 1) % 2 = 1 /\ (2 * i - 1 + 1) \div 2 = i
        /\ 2 * i \in 1..2 * n /\ (2 * i) % 2 # 1 /\ (2 * i) \div 2 = i
    BY <1>1
  <2> QED
    BY <2>1
<1>6. ASSUME NEW k \in 1..2 * n
      PROVE  \E i \in 1..n : k = 2 * i - 1 \/ k = 2 * i
  <2>1. (k + 1) \div 2 \in 1..n /\ (k = 2 * ((k + 1) \div 2) - 1 \/ k = 2 * ((k + 1) \div 2))
    BY <1>1
  <2> QED
    BY <2>1
<1> HIDE DEF b
<1> QED
  BY <1>1, <1>2, <1>3, <1>4, <1>5, <1>6 DEF Halved, High, Low, n, u

(* The order of the units is that of their bytes. *)
LEMMA BytesBefore ==
  ASSUME NEW s \in Seq(Runes), NEW t \in Seq(Runes), Before(UTF16(s), UTF16(t))
  PROVE  Before(Bytes(s), Bytes(t))
<1> DEFINE u == UTF16(s)
           v == UTF16(t)
           b == Bytes(s)
           c == Bytes(t)
           n == Len(u)
           m == Len(v)
<1>1. Halved(b, u, n) /\ Halved(c, v, m)
  BY BytesAre
<1>2. \/ \E i \in 1..n \cap 1..m : u[i] < v[i] /\ \A j \in 1..i - 1 : u[j] = v[j]
      \/ n < m /\ \A j \in 1..n : u[j] = v[j]
  <2>1. DOMAIN u = 1..n /\ DOMAIN v = 1..m
    BY UTF16Type, LenProperties
  <2>2. Before(u, v)
    OBVIOUS
  <2> HIDE DEF u, v
  <2> QED
    BY <2>1, <2>2 DEF Before
<1> HIDE DEF u, v, b, c, n, m
<1>3. /\ n \in Nat /\ m \in Nat
      /\ DOMAIN b = 1..2 * n /\ DOMAIN c = 1..2 * m /\ Len(b) = 2 * n /\ Len(c) = 2 * m
      /\ \A i \in 1..n : u[i] \in Nat
      /\ \A i \in 1..m : v[i] \in Nat
  BY <1>1 DEF Halved
<1>4. ASSUME NEW i \in 0..n, i <= m, \A j \in 1..i : u[j] = v[j]
      PROVE  \A k \in 1..2 * i : b[k] = c[k]
  <2> SUFFICES ASSUME NEW k \in 1..2 * i
               PROVE  b[k] = c[k]
    OBVIOUS
  <2>1. k \in 1..2 * n
    BY <1>3, <1>4
  <2>2. PICK j \in 1..n : k = 2 * j - 1 \/ k = 2 * j
    BY <1>1, <2>1 DEF Halved
  <2>3. j \in 1..i /\ j \in 1..m
    BY <1>3, <1>4, <2>2
  <2>4. /\ b[2 * j - 1] = u[j] \div 256 /\ b[2 * j] = u[j] % 256
        /\ c[2 * j - 1] = v[j] \div 256 /\ c[2 * j] = v[j] % 256
    BY <1>1, <2>2, <2>3 DEF Halved
  <2>5. u[j] = v[j]
    BY <1>4, <2>3
  <2> QED
    BY <2>2, <2>4, <2>5
<1>5. CASE \E i \in 1..n \cap 1..m : u[i] < v[i] /\ \A j \in 1..i - 1 : u[j] = v[j]
  <2>1. PICK i \in 1..n \cap 1..m : u[i] < v[i] /\ \A j \in 1..i - 1 : u[j] = v[j]
    BY <1>5
  <2>2. /\ b[2 * i - 1] = u[i] \div 256 /\ b[2 * i] = u[i] % 256
        /\ c[2 * i - 1] = v[i] \div 256 /\ c[2 * i] = v[i] % 256
        /\ 2 * i - 1 \in DOMAIN b /\ 2 * i \in DOMAIN b
        /\ 2 * i - 1 \in DOMAIN c /\ 2 * i \in DOMAIN c
        /\ u[i] \in Nat /\ v[i] \in Nat /\ i \in Nat
    BY <1>1, <2>1 DEF Halved
  <2>3. i - 1 \in 0..n /\ i - 1 <= m
    BY <1>3, <2>1
  <2>4. \A k \in 1..2 * (i - 1) : b[k] = c[k]
    BY <1>4, <2>1, <2>3
  <2> DEFINE h == 2 * i - 1
             l == 2 * i
  <2>5. \A k \in 1..h - 1 : b[k] = c[k]
    <3>1. \A k \in 1..h - 1 : k \in 1..2 * (i - 1)
      BY <2>2
    <3> QED
      BY <2>4, <3>1
  <2>6. CASE u[i] \div 256 < v[i] \div 256
    <3>1. h \in DOMAIN b \cap DOMAIN c /\ b[h] < c[h]
      BY <2>2, <2>6
    <3> HIDE DEF h
    <3>2. Before(b, c)
      BY <2>5, <3>1 DEF Before
    <3> QED
      BY <3>2 DEF b, c
  <2>7. CASE ~(u[i] \div 256 < v[i] \div 256)
    <3>1. u[i] \div 256 = v[i] \div 256 /\ u[i] % 256 < v[i] % 256
      BY <2>1, <2>2, <2>7
    <3>2. l \in DOMAIN b \cap DOMAIN c /\ b[l] < c[l] /\ b[h] = c[h]
      BY <2>2, <3>1
    <3>3. \A k \in 1..l - 1 : k = h \/ k \in 1..h - 1
      BY <2>2
    <3> HIDE DEF h, l
    <3>4. Before(b, c)
      BY <2>5, <3>2, <3>3 DEF Before
    <3> QED
      BY <3>4 DEF b, c
  <2> QED
    BY <2>6, <2>7
<1>6. CASE n < m /\ \A j \in 1..n : u[j] = v[j]
  <2>1. n \in 0..n /\ n <= m /\ 2 * n < 2 * m
    BY <1>3, <1>6
  <2>2. \A k \in 1..2 * n : b[k] = c[k]
    BY <1>4, <1>6, <2>1
  <2>3. Before(b, c)
    BY <1>3, <2>1, <2>2 DEF Before
  <2> QED
    BY <2>3 DEF b, c
<1> QED
  BY <1>2, <1>5, <1>6

(* Keys in any order without an inversion are in the order of their bytes. *)
LEMMA SortedInOrder ==
  ASSUME NEW keys, keys \subseteq Seq(Runes), IsFiniteSet(keys), NEW s \in SortedKeys(keys)
  PROVE  \A i \in 2..Len(s) : Before(Bytes(s[i - 1]), Bytes(s[i]))
<1> DEFINE n == Cardinality(keys)
<1>1. /\ s \in [1..n -> keys]
      /\ \A i, j \in 1..n : i # j => s[i] # s[j]
      /\ \A i, j \in DOMAIN s : i < j => ~LessUTF16(s[j], s[i])
  BY DEF SortedKeys, SetToSeqs
<1>2. n \in Nat
  BY FS_CardinalityType
<1> HIDE DEF n
<1>3. Len(s) = n /\ DOMAIN s = 1..n
  BY <1>1, <1>2
<1> SUFFICES ASSUME NEW i \in 2..n
             PROVE  Before(Bytes(s[i - 1]), Bytes(s[i]))
  BY <1>3
<1>4. i - 1 \in 1..n /\ i \in 1..n /\ i - 1 # i /\ i - 1 < i
  BY <1>2
<1>5. s[i - 1] \in Seq(Runes) /\ s[i] \in Seq(Runes) /\ s[i - 1] # s[i]
  BY <1>1, <1>4
<1>6. ~Before(UTF16(s[i]), UTF16(s[i - 1]))
  BY <1>1, <1>3, <1>4 DEF LessUTF16
<1>7. UTF16(s[i - 1]) # UTF16(s[i])
  BY <1>5, UTF16Differs
<1>8. UTF16(s[i - 1]) \in Seq(Nat) /\ UTF16(s[i]) \in Seq(Nat)
  <2>1. Units \subseteq Nat
    BY DEF Units
  <2> QED
    BY <1>5, <2>1, UTF16Type, SeqMonotonic
<1>9. Before(UTF16(s[i - 1]), UTF16(s[i]))
  BY <1>6, <1>7, <1>8, OneIsBefore
<1> QED
  BY <1>5, <1>9, BytesBefore

-----------------------------------------------------------------------------
(* Strings: what is quoted reads back as it was, escapes included.         *)

\* The characters that have a letter behind the backslash.
Shorts == {8, 9, 10, 12, 13, Quote, Backslash}

(* The letters behind a backslash are of one character each. *)
LEMMA ShortIs ==
  /\ DOMAIN Short = Shorts
  /\ \A c, d \in Shorts : Short[c] = Short[d] => c = d
  /\ \A c \in Shorts : /\ Short[c] \in Nat /\ Short[c] >= 32 /\ Short[c] # LetterU
                       /\ Short[c] = Quote => c = Quote
  BY DEF Short, Shorts, Quote, Backslash, LetterU

\* What a character becomes.
Escape(q, c) ==
  \/ c \in Shorts /\ q = <<Backslash, Short[c]>>
  \/ \E x, y \in Nat :
       /\ q = <<Backslash, LetterU, 48, 48, x, y>> /\ x >= 48 /\ y >= 48
       /\ 16 * HexValue(x) + HexValue(y) = c
  \/ q = <<c>> /\ c >= 32 /\ c # Quote /\ c # Backslash

LEMMA EscapedCharIs ==
  ASSUME NEW c \in Nat
  PROVE  Escape(EscapedChar(c), c) /\ EscapedChar(c) \in Seq(Nat)
<1>1. CASE c \in Shorts
  BY <1>1, ShortIs DEF EscapedChar, Escape, Backslash
<1>2. CASE c \notin Shorts /\ c < 32
  <2> DEFINE x == HexDigit(c \div 16)
             y == HexDigit(c % 16)
  <2>1. /\ c \div 16 \in 0..1 /\ c % 16 \in 0..15 /\ c = 16 * (c \div 16) + (c % 16)
    BY <1>2
  <2>2. \A v \in 0..15 : HexDigit(v) \in Nat /\ HexDigit(v) >= 48 /\ HexValue(HexDigit(v)) = v
    BY DEF HexDigit, HexValue
  <2>3. x \in Nat /\ y \in Nat /\ x >= 48 /\ y >= 48 /\ 16 * HexValue(x) + HexValue(y) = c
    BY <2>1, <2>2
  <2>4. EscapedChar(c) = <<Backslash, LetterU, 48, 48, x, y>>
    BY <1>2, ShortIs DEF EscapedChar
  <2> HIDE DEF x, y
  <2> QED
    BY <2>3, <2>4 DEF Escape, Backslash, LetterU
<1>3. CASE c \notin Shorts /\ ~(c < 32)
  BY <1>3, ShortIs DEF EscapedChar, Escape, Shorts
<1> QED
  BY <1>1, <1>2, <1>3

\* The characters of s as they are written.
Escaped(s) == [i \in DOMAIN s |-> EscapedChar(s[i])]

LEMMA StringJoins ==
  ASSUME NEW s \in Seq(Nat)
  PROVE  \E flat : Joins(flat, Escaped(s), Nat, Len(s)) /\ WrittenString(s) = flat[Len(s)]
<1> DEFINE N == Len(s)
<1>1. N \in Nat /\ DOMAIN s = 1..N /\ \A i \in 1..N : s[i] \in Nat
  BY LenProperties, ElementOfSeq
<1>2. Escaped(s) \in [1..N -> Seq(Nat)]
  BY <1>1, EscapedCharIs DEF Escaped
<1>3. WrittenString(s) = FlattenSeq(Escaped(s))
  BY DEF WrittenString, Escaped
<1> HIDE DEF N
<1>4. \E flat : Joins(flat, Escaped(s), Nat, N) /\ FlattenSeq(Escaped(s)) = flat[N]
  BY <1>1, <1>2, Flattened
<1> QED
  BY <1>3, <1>4 DEF N

\* One step of the reader, over what it read of fewer characters.
ReadOne(t, n, one, two, six) ==
  LET i == Len(t) - n + 1
  IN IF n = 0 THEN <<>>
     ELSE IF t[i] # Backslash THEN <<t[i]>> \o one
     ELSE IF n >= 6 /\ t[i + 1] = LetterU
     THEN <<16 * HexValue(t[i + 4]) + HexValue(t[i + 5])>> \o six
     ELSE IF n >= 2 /\ \E c \in DOMAIN Short : Short[c] = t[i + 1]
     THEN <<CHOOSE c \in DOMAIN Short : Short[c] = t[i + 1]>> \o two
     ELSE <<>>

\* What the reader makes of the last characters of t.
ReadAll(read, t) ==
  \A n \in 0..Len(t) : read[n] = ReadOne(t, n, read[n - 1], read[n - 2], read[n - 6])

LEMMA ReadOneType ==
  ASSUME NEW t \in Seq(Nat), NEW n \in 0..Len(t), NEW one, NEW two, NEW six,
         n >= 1 => one \in Seq(Int), n >= 2 => two \in Seq(Int), n >= 6 => six \in Seq(Int)
  PROVE  ReadOne(t, n, one, two, six) \in Seq(Int)
<1> DEFINE L == Len(t)
           i == L - n + 1
<1>1. L \in Nat /\ n \in Nat /\ n <= L /\ \A k \in 1..L : t[k] \in Nat
  BY LenProperties, ElementOfSeq
<1>2. \A k \in Nat : HexValue(k) \in Int
  BY DEF HexValue
<1> HIDE DEF L
<1>3. CASE n = 0
  BY <1>3 DEF ReadOne
<1>4. CASE n # 0 /\ t[i] # Backslash
  <2>1. i \in 1..L
    BY <1>1, <1>4
  <2>2. <<t[i]>> \in Seq(Int) /\ one \in Seq(Int)
    BY <1>1, <1>4, <2>1
  <2>3. ReadOne(t, n, one, two, six) = <<t[i]>> \o one
    BY <1>4 DEF ReadOne, L
  <2> QED
    BY <2>2, <2>3, ConcatProperties
<1>5. CASE n # 0 /\ t[i] = Backslash /\ n >= 6 /\ t[i + 1] = LetterU
  <2> DEFINE v == 16 * HexValue(t[i + 4]) + HexValue(t[i + 5])
  <2>1. i + 4 \in 1..L /\ i + 5 \in 1..L
    BY <1>1, <1>5
  <2>2. HexValue(t[i + 4]) \in Int /\ HexValue(t[i + 5]) \in Int
    BY <1>1, <1>2, <2>1
  <2>3. v \in Int
    BY <2>2
  <2>4. ReadOne(t, n, one, two, six) = <<v>> \o six
    BY <1>5 DEF ReadOne, L
  <2> HIDE DEF v
  <2> QED
    BY <1>5, <2>3, <2>4, ConcatProperties
<1>6. CASE n # 0 /\ t[i] = Backslash /\ ~(n >= 6 /\ t[i + 1] = LetterU)
  <2>1. CASE n >= 2 /\ \E c \in DOMAIN Short : Short[c] = t[i + 1]
    <3> DEFINE c == CHOOSE c \in DOMAIN Short : Short[c] = t[i + 1]
    <3>1. c \in DOMAIN Short
      BY <2>1
    <3> HIDE DEF c
    <3>4. c \in Shorts
      BY <3>1, ShortIs
    <3>2. c \in Int
      BY <3>4 DEF Shorts, Quote, Backslash
    <3>3. ReadOne(t, n, one, two, six) = <<c>> \o two
      BY <1>6, <2>1 DEF ReadOne, L, c
    <3> QED
      BY <2>1, <3>2, <3>3, ConcatProperties
  <2>2. CASE ~(n >= 2 /\ \E c \in DOMAIN Short : Short[c] = t[i + 1])
    BY <1>6, <2>2 DEF ReadOne, L
  <2> QED
    BY <2>1, <2>2
<1> QED
  BY <1>3, <1>4, <1>5, <1>6

LEMMA ReadOneSame ==
  ASSUME NEW t, NEW n \in Nat, NEW one, NEW two, NEW six, NEW one2, NEW two2, NEW six2,
         n >= 1 => one = one2, n >= 2 => two = two2, n >= 6 => six = six2
  PROVE  ReadOne(t, n, one, two, six) = ReadOne(t, n, one2, two2, six2)
<1>1. CASE n = 0
  BY <1>1 DEF ReadOne
<1>2. CASE n = 1
  BY <1>2 DEF ReadOne
<1>3. CASE n \in 2..5
  <2>1. one = one2 /\ two = two2 /\ ~(n >= 6)
    BY <1>3
  <2> QED
    BY <2>1 DEF ReadOne
<1>4. CASE n >= 6
  <2>1. one = one2 /\ two = two2 /\ six = six2
    BY <1>4
  <2> QED
    BY <2>1
<1> QED
  BY <1>1, <1>2, <1>3, <1>4

(* The reader reads every text. *)
LEMMA ReadsExist ==
  ASSUME NEW t \in Seq(Nat)
  PROVE  \E read : ReadAll(read, t) /\ ReadString(t) = read[Len(t)]
<1> DEFINE N == Len(t)
           T == Seq(Int)
           rule == [h \in Seq(T) |->
             ReadOne(t, Len(h), h[Len(h)], h[Len(h) - 1], h[Len(h) - 5])]
           Solves(f) == f = [n \in 0..N |-> ReadOne(t, n, f[n - 1], f[n - 2], f[n - 6])]
           read == CHOOSE f : Solves(f)
<1>1. N \in Nat
  BY LenProperties
<1>2. ReadString(t) = read[N]
  BY DEF ReadString, ReadOne
<1>3. IsRule(rule, T, N + 1)
  <2> SUFFICES ASSUME NEW h \in Seq(T), Len(h) < N + 1
               PROVE  rule[h] \in T
    BY DEF IsRule
  <2>1. Len(h) \in 0..Len(t)
    BY <1>1, LenProperties
  <2> DEFINE n == Len(h)
  <2>2. n \in Nat /\ (n >= 1 => n \in 1..n) /\ (n >= 2 => n - 1 \in 1..n)
        /\ (n >= 6 => n - 5 \in 1..n)
    BY <1>1, <2>1
  <2>3. \A k \in 1..n : h[k] \in T
    BY ElementOfSeq
  <2>4. n \in 0..Len(t) /\ rule[h] = ReadOne(t, n, h[n], h[n - 1], h[n - 5])
    BY <2>1
  <2> HIDE DEF n, rule
  <2>5. ReadOne(t, n, h[n], h[n - 1], h[n - 5]) \in Seq(Int)
    BY <2>2, <2>3, <2>4, ReadOneType
  <2> QED
    BY <2>4, <2>5
<1> HIDE DEF T
<1>4. PICK g \in Seq(T) : Follows(g, rule, N + 1)
  <2> HIDE DEF rule
  <2>1. N + 1 \in Nat
    BY <1>1
  <2> QED
    BY <1>3, <2>1, Unfolded
<1> DEFINE r == [n \in 0..N |-> g[n + 1]]
<1>5. ASSUME NEW n \in 0..N
      PROVE  r[n] = ReadOne(t, n, r[n - 1], r[n - 2], r[n - 6])
  <2> DEFINE h == SubSeq(g, 1, n)
  <2>1. n \in 0..Len(g) /\ n + 1 \in 1..N + 1 /\ n + 1 - 1 = n /\ n \in Nat
    BY <1>1, <1>4 DEF Follows
  <2>2. h \in Seq(T) /\ Len(h) = n /\ \A i \in 1..n : h[i] = g[i]
    BY <2>1, FirstOf
  <2>3. g[n + 1] = rule[h]
    <3> DEFINE j == n + 1
    <3>1. j \in 1..N + 1 /\ j - 1 = n
      BY <2>1
    <3> HIDE DEF j, rule
    <3>2. g[j] = rule[SubSeq(g, 1, j - 1)]
      BY <1>4, <3>1 DEF Follows
    <3> QED
      BY <3>1, <3>2 DEF j
  <2> HIDE DEF h
  <2>4. rule[h] = ReadOne(t, n, h[n], h[n - 1], h[n - 5])
    BY <2>2
  <2> HIDE DEF rule
  <2>5. n >= 1 => h[n] = r[n - 1]
    BY <1>1, <2>2
  <2>6. n >= 2 => h[n - 1] = r[n - 2]
    BY <1>1, <2>2
  <2>7. n >= 6 => h[n - 5] = r[n - 6]
    BY <1>1, <2>2
  <2>8. r[n] = g[n + 1]
    OBVIOUS
  <2> HIDE DEF r
  <2>9. ReadOne(t, n, h[n], h[n - 1], h[n - 5])
          = ReadOne(t, n, r[n - 1], r[n - 2], r[n - 6])
    BY <2>1, <2>5, <2>6, <2>7, ReadOneSame
  <2> QED
    BY <2>3, <2>4, <2>8, <2>9
<1>6. Solves(r)
  <2>1. r = [n \in 0..N |-> r[n]]
    OBVIOUS
  <2> HIDE DEF r
  <2> QED
    BY <1>5, <2>1
<1>7. Solves(read)
  <2> HIDE DEF Solves, r
  <2> QED
    BY <1>6
<1> HIDE DEF read
<1>8. \A n \in 0..N : read[n] = ReadOne(t, n, read[n - 1], read[n - 2], read[n - 6])
  BY <1>7
<1> QED
  BY <1>2, <1>8 DEF ReadAll

\* q is what the last n elements of t have before the last r.
Placed(t, q, n, r) ==
  LET size == Len(q)
      a == Len(t) - n
  IN /\ a \in Nat /\ n \in Nat /\ r \in Nat /\ size \in Nat /\ n = r + size
     /\ \A m \in 1..size : t[a + m] = q[m]

(* A reader that has read what follows a character's text reads it as well. *)
LEMMA ReadsPiece ==
  ASSUME NEW t \in Seq(Nat), NEW read, ReadAll(read, t), NEW c \in Nat, NEW q, Escape(q, c),
         NEW n, NEW r, Placed(t, q, n, r)
  PROVE  read[n] = <<c>> \o read[r]
<1> DEFINE size == Len(q)
           L == Len(t)
           a == L - n
           i == L - n + 1
<1>0. /\ size = Len(q) /\ a \in Nat /\ n \in Nat /\ r \in Nat /\ size \in Nat
      /\ n = r + size /\ \A m \in 1..size : t[a + m] = q[m]
  BY DEF Placed
<1>1. L \in Nat /\ a = L - n
  BY LenProperties
<1>2. L = Len(t) /\ i = L - n + 1
  OBVIOUS
<1> HIDE DEF size, L, a, i
<1>3. i = a + 1 /\ n \in 0..L /\ size <= n /\ r = n - size
  BY <1>0, <1>1, <1>2
<1>4. read[n] = ReadOne(t, n, read[n - 1], read[n - 2], read[n - 6])
  BY <1>2, <1>3 DEF ReadAll
<1>5. \A m \in 1..size : t[a + m] = q[m]
  BY <1>0
<1>6. CASE c \in Shorts /\ q = <<Backslash, Short[c]>>
  <2>1. size = 2 /\ n >= 2
    BY <1>0, <1>1, <1>3, <1>6
  <2>2. t[a + 1] = Backslash /\ t[a + 2] = Short[c]
    BY <1>5, <1>6, <2>1
  <2>3. i + 1 = a + 2 /\ n # 0
    BY <1>0, <1>1, <1>3, <2>1
  <2>4. t[i] = Backslash /\ t[i + 1] = Short[c] /\ Short[c] # LetterU
    BY <1>3, <1>6, <2>2, <2>3, ShortIs
  <2> DEFINE d == CHOOSE d \in DOMAIN Short : Short[d] = t[i + 1]
  <2>5. d = c
    BY <1>6, <2>4, ShortIs
  <2>6. \E e \in DOMAIN Short : Short[e] = t[i + 1]
    BY <1>6, <2>4, ShortIs
  <2>7. ReadOne(t, n, read[n - 1], read[n - 2], read[n - 6]) = <<d>> \o read[n - 2]
    BY <1>2, <2>1, <2>3, <2>4, <2>6 DEF ReadOne, i
  <2> QED
    BY <1>3, <1>4, <2>1, <2>5, <2>7
<1>7. CASE \E x, y \in Nat :
             /\ q = <<Backslash, LetterU, 48, 48, x, y>> /\ x >= 48 /\ y >= 48
             /\ 16 * HexValue(x) + HexValue(y) = c
  <2>1. PICK x \in Nat, y \in Nat :
          /\ q = <<Backslash, LetterU, 48, 48, x, y>>
          /\ 16 * HexValue(x) + HexValue(y) = c
    BY <1>7
  <2>2. size = 6 /\ n >= 6
    BY <1>0, <1>1, <1>3, <2>1
  <2>3. /\ q[1] = Backslash /\ q[2] = LetterU /\ q[5] = x /\ q[6] = y
    BY <2>1
  <2>4. /\ t[a + 1] = Backslash /\ t[a + 2] = LetterU /\ t[a + 5] = x /\ t[a + 6] = y
    <3>1. 1 \in 1..size /\ 2 \in 1..size /\ 5 \in 1..size /\ 6 \in 1..size
      BY <2>2
    <3> QED
      BY <1>5, <2>3, <3>1
  <2>5. i + 1 = a + 2 /\ i + 4 = a + 5 /\ i + 5 = a + 6 /\ n # 0
    BY <1>0, <1>1, <1>3, <2>2
  <2>6. t[i] = Backslash /\ t[i + 1] = LetterU /\ t[i + 4] = x /\ t[i + 5] = y
    BY <1>3, <2>4, <2>5
  <2>7. ReadOne(t, n, read[n - 1], read[n - 2], read[n - 6])
          = <<16 * HexValue(x) + HexValue(y)>> \o read[n - 6]
    BY <1>2, <2>2, <2>5, <2>6 DEF ReadOne, i
  <2> QED
    BY <1>3, <1>4, <2>1, <2>2, <2>7
<1>8. CASE q = <<c>> /\ c >= 32 /\ c # Quote /\ c # Backslash
  <2>1. size = 1 /\ n # 0
    BY <1>0, <1>1, <1>3, <1>8
  <2>2. t[a + 1] = c
    BY <1>5, <1>8, <2>1
  <2>3. t[i] = c
    BY <1>3, <2>2
  <2>4. ReadOne(t, n, read[n - 1], read[n - 2], read[n - 6]) = <<c>> \o read[n - 1]
    BY <1>2, <1>8, <2>1, <2>3 DEF ReadOne, i
  <2> QED
    BY <1>3, <1>4, <2>1, <2>4
<1> QED
  BY <1>6, <1>7, <1>8 DEF Escape

\* No control character and no bare quote.
Guarded(t) ==
  \A i \in DOMAIN t : t[i] >= 32 /\ (t[i] = Quote => i > 1 /\ t[i - 1] = Backslash)

(* Every string reads back, and leaves nothing bare in its text. *)
LEMMA StringBack ==
  ASSUME NEW s \in Seq(Nat), NEW t, t = WrittenString(s)
  PROVE  ReadString(t) = s /\ Guarded(t)
<1> DEFINE N == Len(s)
           p == Escaped(s)
<1>1. PICK f : Joins(f, p, Nat, N) /\ t = f[N]
  BY StringJoins
<1>2. N \in Nat /\ DOMAIN s = 1..N /\ N \in 0..N /\ \A j \in 1..N : s[j] \in Nat
  <2>1. N \in Nat /\ DOMAIN s = 1..N /\ \A j \in 1..N : s[j] \in Nat
    BY LenProperties, ElementOfSeq
  <2> HIDE DEF N
  <2> QED
    BY <2>1
<1>3. \A j \in 1..N : Escape(p[j], s[j])
  BY <1>2, EscapedCharIs DEF Escaped
<1>4. t \in Seq(Nat)
  BY <1>1, <1>2 DEF Joins
<1>5. PICK read : ReadAll(read, t) /\ ReadString(t) = read[Len(t)]
  BY <1>4, ReadsExist
<1> DEFINE e == [k \in 0..N |-> Len(f[k])]
           z == [j \in 1..N |-> Len(p[j])]
           L == Len(t)
<1>6. Laid(f, p, e, z, N)
  BY <1>1, <1>2, PiecesStay
<1>7. Len(s) = N
  OBVIOUS
<1>8. L \in Nat /\ Len(t) = L /\ DOMAIN t = 1..L
  BY <1>4, LenProperties
<1>9. e[0] = 0
  BY <1>1, <1>2 DEF Joins
<1> HIDE DEF N, p, e, z, L
<1>10. e[N] = L
  BY <1>1, <1>2, <1>6, <1>8 DEF Laid
<1>11. \A k \in 0..N : e[k] \in Nat /\ e[k] <= L
  BY <1>6, <1>10 DEF Laid
<1>12. ASSUME NEW j \in 1..N
       PROVE  /\ j - 1 \in 0..N /\ j \in 0..N /\ z[j] = Len(p[j]) /\ z[j] \in Nat
              /\ e[j] = e[j - 1] + z[j] /\ \A m \in 1..z[j] : t[e[j - 1] + m] = p[j][m]
  BY <1>1, <1>6 DEF Laid
<1> DEFINE Back(j) == read[L - e[j]] = SubSeq(s, j + 1, N)
           Lost == {k \in 0..N : ~Back(N - k)}
<1>13. Lost = {}
  <2> SUFFICES ASSUME Lost # {}
               PROVE  FALSE
    OBVIOUS
  <2>1. PICK k \in Lost : \A m \in Lost : k <= m
    <3> HIDE DEF Back
    <3>1. Lost \subseteq Nat
      BY <1>2
    <3> HIDE DEF Lost
    <3> QED
      BY <3>1, LeastOf
  <2>2. k \in 0..N /\ ~Back(N - k) /\ \A m \in 0..N : m < k => Back(N - m)
    <3> HIDE DEF Back
    <3> QED
      BY <1>2, <2>1
  <2> HIDE DEF Lost
  <2>3. k # 0
    <3> SUFFICES Back(N)
      <4> HIDE DEF Back
      <4>1. N - 0 = N
        BY <1>2
      <4> QED
        BY <2>2, <4>1
    <3>1. read[0] = <<>>
      <4>1. read[0] = ReadOne(t, 0, read[0 - 1], read[0 - 2], read[0 - 6])
        BY <1>5, <1>8 DEF ReadAll
      <4> QED
        BY <4>1 DEF ReadOne
    <3>2. SubSeq(s, N + 1, N) = <<>>
      BY <1>2, SubSeqEmpty
    <3>3. L - e[N] = 0
      BY <1>8, <1>10
    <3> QED
      BY <3>1, <3>2, <3>3
  <2> DEFINE j == N - k + 1
  <2>4. j \in 1..N /\ j - 1 = N - k /\ N - (k - 1) = j /\ k - 1 \in 0..N /\ k - 1 < k
    BY <1>2, <2>2, <2>3
  <2>5. Back(j) /\ ~Back(j - 1)
    <3> HIDE DEF Back, j
    <3> QED
      BY <2>2, <2>4
  <2> HIDE DEF j
  <2> DEFINE a == e[j - 1]
             size == z[j]
  <2>6. /\ a \in Nat /\ size \in Nat /\ a + size = e[j] /\ e[j] <= L
        /\ size = Len(p[j]) /\ \A m \in 1..size : t[a + m] = p[j][m]
        /\ s[j] \in Nat /\ Escape(p[j], s[j])
    BY <1>2, <1>3, <1>11, <1>12, <2>4
  <2>7. e[j - 1] = a
    OBVIOUS
  <2> HIDE DEF a, size
  <2> DEFINE b == e[j]
  <2>8. b \in Nat /\ b = a + size /\ b <= L /\ L = Len(t)
    BY <1>8, <2>6
  <2> DEFINE c == s[j]
             q == p[j]
  <2>13. /\ c \in Nat /\ Escape(q, c) /\ size \in Nat /\ size = Len(q) /\ a \in Nat
         /\ \A m \in 1..size : t[a + m] = q[m]
    BY <2>6
  <2> HIDE DEF b, c, q
  <2>14. read[L - a] = <<c>> \o read[L - b]
    <3> DEFINE n == L - a
               r == L - b
    <3>1. n \in Nat /\ r \in Nat /\ n = r + size /\ Len(t) - n = a
      BY <1>8, <2>8, <2>13
    <3> HIDE DEF n, r
    <3>2. Placed(t, q, n, r)
      BY <2>13, <3>1 DEF Placed
    <3>3. read[n] = <<c>> \o read[r]
      BY <1>4, <1>5, <2>13, <3>2, ReadsPiece
    <3> QED
      BY <3>3 DEF n, r
  <2>9. read[L - a] = <<s[j]>> \o read[L - b]
    BY <2>14 DEF c
  <2>10. read[L - e[j - 1]] = <<s[j]>> \o SubSeq(s, j + 1, N)
    BY <2>5, <2>7, <2>9 DEF b
  <2>11. SubSeq(s, j, N) = <<s[j]>> \o SubSeq(s, j + 1, N)
    <3>1. j \in 1..Len(s) /\ N \in j..Len(s)
      BY <1>2, <1>7, <2>4
    <3> QED
      BY <3>1, SubSeqRecursiveFirst
  <2>12. j - 1 + 1 = j
    BY <1>2, <2>4
  <2> QED
    BY <2>5, <2>10, <2>11, <2>12
<1>14. ReadString(t) = s
  <2>1. N - N = 0 /\ L - 0 = L
    BY <1>2, <1>8
  <2>2. Back(0)
    <3> HIDE DEF Back
    <3> QED
      BY <1>2, <1>13, <2>1
  <2>3. SubSeq(s, 0 + 1, N) = s
    BY <1>7, SubSeqFull
  <2> QED
    BY <1>5, <1>8, <1>9, <2>1, <2>2, <2>3
<1>15. ASSUME NEW i \in DOMAIN t
       PROVE  t[i] >= 32 /\ (t[i] = Quote => i > 1 /\ t[i - 1] = Backslash)
  <2>1. i \in 1..e[N]
    BY <1>8, <1>10
  <2>2. PICK j \in 1..N : \E m \in 1..z[j] : i = e[j - 1] + m
    BY <1>6, <2>1 DEF Laid
  <2>3. PICK m \in 1..z[j] : i = e[j - 1] + m
    BY <2>2
  <2> DEFINE a == e[j - 1]
             size == z[j]
             q == p[j]
  <2>4. /\ a \in Nat /\ size \in Nat /\ m \in 1..size /\ size = Len(q) /\ i = a + m
        /\ \A k \in 1..size : t[a + k] = q[k]
        /\ s[j] \in Nat /\ Escape(q, s[j])
    BY <1>2, <1>3, <1>11, <1>12, <2>3
  <2> HIDE DEF a, size, q
  <2>5. t[i] = q[m]
    BY <2>4
  <2>6. q[m] >= 32 /\ (q[m] = Quote => m = 2 /\ q[1] = Backslash)
    <3> DEFINE c == s[j]
    <3>1. CASE c \in Shorts /\ q = <<Backslash, Short[c]>>
      <4>1. m = 1 \/ m = 2
        BY <2>4, <3>1
      <4>2. Short[c] >= 32
        BY <3>1, ShortIs
      <4> QED
        BY <3>1, <4>1, <4>2 DEF Backslash, Quote
    <3>2. CASE \E x, y \in Nat :
                 /\ q = <<Backslash, LetterU, 48, 48, x, y>> /\ x >= 48 /\ y >= 48
                 /\ 16 * HexValue(x) + HexValue(y) = c
      <4>1. PICK x \in Nat, y \in Nat :
              q = <<Backslash, LetterU, 48, 48, x, y>> /\ x >= 48 /\ y >= 48
        BY <3>2
      <4>2. m \in 1..6
        BY <2>4, <4>1
      <4> QED
        BY <4>1, <4>2 DEF Backslash, Quote, LetterU
    <3>3. CASE q = <<c>> /\ c >= 32 /\ c # Quote /\ c # Backslash
      BY <2>4, <3>3
    <3> QED
      BY <2>4, <3>1, <3>2, <3>3 DEF Escape
  <2>7. ASSUME t[i] = Quote
        PROVE  i > 1 /\ t[i - 1] = Backslash
    <3>1. m = 2 /\ q[1] = Backslash
      BY <2>5, <2>6, <2>7
    <3>2. 1 \in 1..size /\ i - 1 = a + 1 /\ i > 1
      BY <2>4, <3>1
    <3> QED
      BY <2>4, <3>1, <3>2
  <2> QED
    BY <2>5, <2>6, <2>7
<1> QED
  BY <1>14, <1>15 DEF Guarded

-----------------------------------------------------------------------------
(* What the functions are given and what they write, together.             *)

\* What each function is given.
SampleGiven ==
  \/ /\ sample.kind = "object"
     /\ sample.value \subseteq Strings(KeyChars, MaxChars) /\ IsFiniteSet(sample.value)
  \/ sample.kind = "number" /\ sample.value \in Numbers \cup Zeros
  \/ sample.kind = "string" /\ sample.value \in Strings(StringChars, MaxChars)
  \/ sample.kind = "bytes" /\ sample.value \in Strings(ByteValues, MaxBytes)
  \/ sample.kind = "base58" /\ sample.value \in Strings(TextValues, MaxBytes)

\* What it writes of that.
SampleWritten ==
  /\ sample.kind = "object" => text \in SortedKeys(sample.value)
  /\ sample.kind = "number" => text = WrittenNumber(sample.value)
  /\ sample.kind = "string" => text = WrittenString(sample.value)
  /\ sample.kind = "bytes" => text = Recoded(sample.value, 256, 58)
  /\ sample.kind = "base58" =>
       /\ \A i \in DOMAIN sample.value : sample.value[i] < 58
       /\ text = Recoded(sample.value, 58, 256)

EncodingInv == SampleGiven /\ (text # NoText => SampleWritten)

(* The strings up to a length are sequences. *)
LEMMA StringsAre ==
  ASSUME NEW chars, NEW max \in Nat
  PROVE  Strings(chars, max) \subseteq Seq(chars)
<1> SUFFICES ASSUME NEW s \in Strings(chars, max)
             PROVE  s \in Seq(chars)
  OBVIOUS
<1>1. PICK n \in 0..max : s \in [1..n -> chars]
  BY DEF Strings
<1>2. n \in Nat
  OBVIOUS
<1> QED
  BY <1>1, <1>2

(* What an array of keys holds is a finite set. *)
LEMMA RangeFinite ==
  ASSUME NEW n \in Nat, NEW S, NEW f \in [1..n -> S]
  PROVE  Range(f) \subseteq S /\ IsFiniteSet(Range(f))
<1>1. f \in Surjection(1..n, Range(f))
  BY DEF Surjection, Range
<1>2. IsFiniteSet(1..n)
  BY FS_Interval
<1> QED
  BY <1>1, <1>2, FS_Surjection DEF Range

(* What the functions are given is what the module says they may be. *)
LEMMA EncodingGiven == EncodingInit => EncodingInv
<1> SUFFICES ASSUME EncodingInit
             PROVE  SampleGiven
  BY DEF EncodingInit, EncodingInv
<1>1. ASSUME NEW keys \in [1..MaxKeys -> Strings(KeyChars, MaxChars)],
             sample = [kind |-> "object", value |-> Range(keys)]
      PROVE  SampleGiven
  <2>1. Range(keys) \subseteq Strings(KeyChars, MaxChars) /\ IsFiniteSet(Range(keys))
    BY EncodingAssumption, RangeFinite
  <2> QED
    BY <1>1, <2>1 DEF SampleGiven
<1>2. ASSUME NEW x \in Numbers \cup Zeros, sample = [kind |-> "number", value |-> x]
      PROVE  SampleGiven
  BY <1>2 DEF SampleGiven
<1>3. ASSUME NEW s \in Strings(StringChars, MaxChars),
             sample = [kind |-> "string", value |-> s]
      PROVE  SampleGiven
  BY <1>3 DEF SampleGiven
<1>4. ASSUME NEW b \in Strings(ByteValues, MaxBytes),
             sample = [kind |-> "bytes", value |-> b]
      PROVE  SampleGiven
  BY <1>4 DEF SampleGiven
<1>5. ASSUME NEW s \in Strings(TextValues, MaxBytes),
             sample = [kind |-> "base58", value |-> s]
      PROVE  SampleGiven
  BY <1>5 DEF SampleGiven
<1> QED
  BY <1>1, <1>2, <1>3, <1>4, <1>5 DEF EncodingInit

(* And what they write is what the code makes of it. *)
LEMMA EncodingStep == EncodingInv /\ [EncodingNext]_encodingVars => EncodingInv'
<1> SUFFICES ASSUME EncodingInv, [EncodingNext]_encodingVars
             PROVE  EncodingInv'
  OBVIOUS
<1> USE DEF EncodingInv
<1>1. CASE EncodingNext
  <2>1. sample' = sample
    BY <1>1 DEF EncodingNext, EncodeObject, EncodeNumber, EncodeString, EncodeBase58,
                DecodeBase58, Writes
  <2>2. SampleGiven'
    BY <2>1 DEF SampleGiven
  <2>3. CASE EncodeObject
    BY <2>1, <2>2, <2>3 DEF EncodeObject, Writes, SampleWritten
  <2>4. CASE EncodeNumber
    BY <2>1, <2>2, <2>4 DEF EncodeNumber, Writes, SampleWritten
  <2>5. CASE EncodeString
    BY <2>1, <2>2, <2>5 DEF EncodeString, Writes, SampleWritten
  <2>6. CASE EncodeBase58
    BY <2>1, <2>2, <2>6 DEF EncodeBase58, Writes, SampleWritten
  <2>7. CASE DecodeBase58
    BY <2>1, <2>2, <2>7 DEF DecodeBase58, Writes, SampleWritten
  <2> QED
    BY <1>1, <2>3, <2>4, <2>5, <2>6, <2>7 DEF EncodingNext
<1>2. CASE UNCHANGED encodingVars
  BY <1>2 DEF encodingVars, SampleGiven, SampleWritten
<1> QED
  BY <1>1, <1>2

(* What is written of what is given reads back. *)
LEMMA EncodingReads == EncodingInv => TextsReadBack
<1> SUFFICES ASSUME SampleGiven, SampleWritten, text # NoText
             PROVE  TextsReadBack
  BY DEF EncodingInv, TextsReadBack, KeysInOneOrder, NumbersReadBack, StringsReadBack,
         Base58OneToOne
<1> DEFINE v == sample.value
<1>1. /\ KeyChars \subseteq Runes /\ StringChars \subseteq Nat
      /\ MaxKeys \in Nat /\ MaxChars \in Nat /\ MaxBytes \in Nat
  BY EncodingAssumption DEF Runes, IsRune
<1>2. KeysInOneOrder
  <2> SUFFICES ASSUME sample.kind = "object"
               PROVE  \A i \in 2..Len(text) : Before(Bytes(text[i - 1]), Bytes(text[i]))
    BY DEF KeysInOneOrder
  <2>1. v \subseteq Strings(KeyChars, MaxChars) /\ IsFiniteSet(v)
    BY DEF SampleGiven
  <2>2. v \subseteq Seq(Runes)
    <3>1. Strings(KeyChars, MaxChars) \subseteq Seq(KeyChars)
      BY <1>1, StringsAre
    <3>2. Seq(KeyChars) \subseteq Seq(Runes)
      BY <1>1, SeqMonotonic
    <3> QED
      BY <2>1, <3>1, <3>2
  <2>3. text \in SortedKeys(v)
    BY DEF SampleWritten
  <2> HIDE DEF v
  <2> QED
    BY <2>1, <2>2, <2>3, SortedInOrder
<1>3. NumbersReadBack
  <2> SUFFICES ASSUME sample.kind = "number"
               PROVE  NumbersReadBack
    BY DEF NumbersReadBack
  <2>1. v \in Numbers \cup Zeros /\ text = WrittenNumber(v)
    BY DEF SampleGiven, SampleWritten
  <2>2. v \in Numbers => v \in [negative : BOOLEAN, digits : {d \in Seq(0..9) : Counting(d)},
                                point : Int]
    <3>1. ASSUME NEW d \in DigitRuns
          PROVE  d \in {b \in Seq(0..9) : Counting(b)}
      <4>1. d \in Seq(0..9) /\ d # <<>> /\ d[1] # 0 /\ d[Len(d)] # 0
        BY EncodingAssumption
      <4>2. Len(d) \in Nat /\ Len(d) # 0
        BY <4>1, LenProperties, EmptySeq
      <4>3. IsDigits(d, Len(d))
        BY <4>1, <4>2 DEF IsDigits
      <4> QED
        BY <4>1, <4>2, <4>3 DEF Counting
    <3>2. Points \subseteq Int /\ DigitRuns \subseteq {b \in Seq(0..9) : Counting(b)}
      BY <3>1, EncodingAssumption
    <3> DEFINE D == {b \in Seq(0..9) : Counting(b)}
    <3> HIDE DEF D, v
    <3>3. v \in Numbers => v \in [negative : BOOLEAN, digits : D, point : Int]
      BY <3>2 DEF Numbers, D
    <3> QED
      BY <3>3 DEF D
  <2>3. v \in Zeros => v \in [negative : BOOLEAN, digits : {<<>>}, point : {0}]
    BY DEF Zeros
  <2> HIDE DEF v
  <2>4. /\ ReadNumber(text) = IF v.digits = <<>> THEN [v EXCEPT !.negative = FALSE] ELSE v
        /\ PlainDigits(text)
    BY <2>1, <2>2, <2>3, NumberBack
  <2> QED
    BY <2>4 DEF NumbersReadBack, PlainDigits, v
<1>4. StringsReadBack
  <2> SUFFICES ASSUME sample.kind = "string"
               PROVE  StringsReadBack
    BY DEF StringsReadBack
  <2>1. v \in Strings(StringChars, MaxChars) /\ text = WrittenString(v)
    BY DEF SampleGiven, SampleWritten
  <2> HIDE DEF v
  <2>2. v \in Seq(Nat)
    BY <1>1, <2>1, StringsAre, SeqMonotonic
  <2>3. ReadString(text) = v /\ Guarded(text)
    BY <2>1, <2>2, StringBack
  <2> QED
    BY <2>3 DEF StringsReadBack, Guarded, v
<1>5. Base58OneToOne
  <2>1. ASSUME sample.kind = "bytes"
        PROVE  Recoded(text, 58, 256) = v
    <3>1. v \in Strings(ByteValues, MaxBytes) /\ text = Recoded(v, 256, 58)
      BY <2>1 DEF SampleGiven, SampleWritten
    <3> HIDE DEF v
    <3>2. v \in Seq(0..255)
      <4>1. ByteValues \subseteq 0..255
        BY EncodingAssumption
      <4>2. v \in Seq(ByteValues)
        BY <1>1, <3>1, StringsAre
      <4> QED
        BY <4>1, <4>2, SeqMonotonic
    <3>3. InBase(v, 256)
      BY <3>2 DEF InBase
    <3> QED
      BY <3>1, <3>3, RecodedBack
  <2>2. ASSUME sample.kind = "base58"
        PROVE  Recoded(text, 256, 58) = v
    <3>1. /\ v \in Strings(TextValues, MaxBytes) /\ text = Recoded(v, 58, 256)
          /\ \A i \in DOMAIN v : v[i] < 58
      BY <2>2 DEF SampleGiven, SampleWritten
    <3> HIDE DEF v
    <3>2. v \in Seq(Nat)
      <4>1. TextValues \subseteq Nat
        BY EncodingAssumption
      <4> QED
        BY <1>1, <3>1, <4>1, StringsAre, SeqMonotonic
    <3>3. InBase(v, 58)
      <4>1. Len(v) \in Nat /\ v \in [1..Len(v) -> Nat] /\ DOMAIN v = 1..Len(v)
        BY <3>2, LenProperties
      <4>2. ASSUME NEW i \in 1..Len(v)
            PROVE  v[i] \in 0..57
        <5>1. v[i] \in Nat
          BY <3>2, ElementOfSeq
        <5>2. v[i] < 58
          BY <3>1, <4>1
        <5>3. \A k \in Nat : k < 58 => k \in 0..57
          OBVIOUS
        <5> QED
          BY <5>1, <5>2, <5>3
      <4>3. v \in Seq(0..57)
        BY <4>1, <4>2
      <4> QED
        BY <4>3 DEF InBase
    <3> QED
      BY <3>1, <3>3, RecodedBack
  <2> QED
    BY <2>1, <2>2 DEF Base58OneToOne
<1> QED
  BY <1>2, <1>3, <1>4, <1>5 DEF TextsReadBack

(* Whatever is given to the two text forms reads back from what they write *)
(* (jcs.go encode, base58.go Encode and Decode).                           *)
THEOREM TextsHold == EncodingSpec => []TextsReadBack
<1>1. EncodingSpec => []EncodingInv
  BY EncodingGiven, EncodingStep, PTL DEF EncodingSpec
<1> QED
  BY <1>1, EncodingReads, PTL

=============================================================================
