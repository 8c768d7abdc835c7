--------------------------- MODULE StreamsProofs ----------------------------
(***************************************************************************)
(* For any number of clients, runs and chunks, with and without a tty: the *)
(* log is whole, a client gets the output without a gap, and without a tty *)
(* with nothing lost before the end of the stream. Last, nobody who is     *)
(* attached holds the output up.                                           *)
(***************************************************************************)
EXTENDS Streams, SequenceTheorems, TLAPS

-----------------------------------------------------------------------------
(* Sequences of chunks.                                                    *)

\* y is in s somewhere after place j.
Later(s, j, y) == \E m \in (j + 1) .. Len(s) : s[m] = y

\* The last chunk of run r in s, if there is one, is number f.
UpTo(s, r, f) ==
  \A j \in 1 .. Len(s) : s[j][1] = r =>
    /\ s[j][2] <= f
    /\ \A k \in (s[j][2] + 1) .. f : Later(s, j, <<r, k>>)

\* A chunk has its run and its number.
LEMMA ChunkParts ==
  ASSUME NEW x \in Chunk
  PROVE  x[1] \in Run /\ x[2] \in Nat /\ x = <<x[1], x[2]>>
BY DEF Chunk

\* What is appended comes last, and what was there still is, where it was.
LEMMA AppendParts ==
  ASSUME NEW S, NEW s \in Seq(S), NEW x \in S
  PROVE  /\ Append(s, x) \in Seq(S)
         /\ Len(Append(s, x)) = Len(s) + 1 /\ Len(s) \in Nat
         /\ Append(s, x)[Len(s) + 1] = x
         /\ \A i \in 1 .. Len(s) : Append(s, x)[i] = s[i]
         /\ \A j, y : Later(s, j, y) /\ j \in Nat => Later(Append(s, x), j, y)
         /\ \A j \in 0 .. Len(s) : Later(Append(s, x), j, x)
         /\ \A y : Contains(Append(s, x), y) <=> Contains(s, y) \/ y = x
<1> DEFINE A == Append(s, x)
<1>1. /\ A \in Seq(S)
      /\ Len(A) = Len(s) + 1 /\ A[Len(s) + 1] = x /\ Len(s) \in Nat
      /\ \A i \in 1 .. Len(s) : A[i] = s[i]
  BY AppendProperties
<1> HIDE DEF A
<1>2. ASSUME NEW j \in Nat, NEW y, Later(s, j, y) PROVE Later(A, j, y)
  <2>1. PICK m \in (j + 1) .. Len(s) : s[m] = y
    BY <1>2 DEF Later
  <2>2. m \in (j + 1) .. Len(A) /\ m \in 1 .. Len(s)
    BY <1>1
  <2>3. A[m] = y
    BY <1>1, <2>1, <2>2
  <2> QED BY <2>2, <2>3, Zenon DEF Later
<1>3. ASSUME NEW j \in 0 .. Len(s) PROVE Later(A, j, x)
  <2>1. Len(s) + 1 \in (j + 1) .. Len(A)
    BY <1>1
  <2> QED BY <1>1, <2>1, Zenon DEF Later
<1>4. ASSUME NEW y PROVE Contains(A, y) <=> Contains(s, y) \/ y = x
  <2>1. ASSUME Contains(s, y) PROVE Contains(A, y)
    <3>1. PICK i \in 1 .. Len(s) : s[i] = y
      BY <2>1 DEF Contains
    <3>2. i \in 1 .. Len(A) /\ A[i] = y
      BY <1>1, <3>1
    <3> QED BY <3>2, Zenon DEF Contains
  <2>2. Contains(A, x)
    <3>1. Len(s) + 1 \in 1 .. Len(A)
      BY <1>1
    <3> QED BY <1>1, <3>1, Zenon DEF Contains
  <2>3. ASSUME Contains(A, y), y # x PROVE Contains(s, y)
    <3>1. PICK i \in 1 .. Len(A) : A[i] = y
      BY <2>3 DEF Contains
    <3>2. i \in 1 .. Len(s) /\ s[i] = y
      BY <1>1, <2>3, <3>1
    <3> QED BY <3>2, Zenon DEF Contains
  <2> QED BY <2>1, <2>2, <2>3
<1> QED BY <1>1, <1>2, <1>3, <1>4 DEF A

\* The other runs do not mind.
LEMMA AppendOther ==
  ASSUME NEW s \in Seq(Chunk), NEW x \in Chunk, NEW r, r # x[1],
         NEW f, UpTo(s, r, f)
  PROVE  UpTo(Append(s, x), r, f)
<1> DEFINE A == Append(s, x)
<1>1. /\ Len(A) = Len(s) + 1 /\ A[Len(s) + 1] = x /\ Len(s) \in Nat
      /\ \A i \in 1 .. Len(s) : A[i] = s[i]
      /\ \A j, y : Later(s, j, y) /\ j \in Nat => Later(A, j, y)
  BY AppendParts
<1> HIDE DEF A
<1>2. ASSUME NEW j \in 1 .. Len(A), A[j][1] = r
      PROVE  /\ A[j][2] <= f
             /\ \A k \in (A[j][2] + 1) .. f : Later(A, j, <<r, k>>)
  <2>1. j \in 1 .. Len(s) /\ A[j] = s[j] /\ j \in Nat
    BY <1>1, <1>2
  <2>2. /\ s[j][2] <= f
        /\ \A k \in (s[j][2] + 1) .. f : Later(s, j, <<r, k>>)
    BY <1>2, <2>1, Zenon DEF UpTo
  <2> QED BY <1>1, <2>1, <2>2, Zenon
<1>3. UpTo(A, r, f)
  BY <1>2, Zenon DEF UpTo
<1> QED BY <1>3 DEF A

\* The next chunk of its run follows on what is there.
LEMMA AppendNext ==
  ASSUME NEW s \in Seq(Chunk), NEW x \in Chunk, InSequence(s),
         UpTo(s, x[1], x[2] - 1)
  PROVE  InSequence(Append(s, x)) /\ UpTo(Append(s, x), x[1], x[2])
<1> DEFINE A == Append(s, x)
           r == x[1]
           e == x[2]
<1>0. r \in Run /\ e \in Nat /\ x = <<r, e>>
  BY ChunkParts
<1>1. /\ Len(A) = Len(s) + 1 /\ A[Len(s) + 1] = x /\ Len(s) \in Nat
      /\ \A i \in 1 .. Len(s) : A[i] = s[i]
      /\ \A j, y : Later(s, j, y) /\ j \in Nat => Later(A, j, y)
      /\ \A j \in 0 .. Len(s) : Later(A, j, x)
  BY AppendParts
<1>a. \A i \in 1 .. Len(s) : s[i] \in Chunk
  BY ElementOfSeq
<1>u. \A j \in 1 .. Len(s) : s[j][1] = r =>
        /\ s[j][2] <= e - 1
        /\ \A k \in (s[j][2] + 1) .. (e - 1) : Later(s, j, <<r, k>>)
  BY Zenon DEF UpTo
<1> HIDE DEF A, r, e
<1>2. ASSUME NEW j \in 1 .. Len(s), s[j][1] = r
      PROVE  /\ s[j][2] < e /\ s[j][2] \in Nat
             /\ \A k \in (s[j][2] + 1) .. (e - 1) : Later(s, j, <<r, k>>)
  <2>1. s[j][2] \in Nat
    BY <1>a, ChunkParts
  <2>2. /\ s[j][2] <= e - 1
        /\ \A k \in (s[j][2] + 1) .. (e - 1) : Later(s, j, <<r, k>>)
    BY <1>2, <1>u
  <2>3. s[j][2] < e
    BY <1>0, <2>1, <2>2
  <2> QED BY <2>1, <2>2, <2>3
<1>3. InSequence(A)
  <2>1. ASSUME NEW n \in 1 .. Len(A), NEW m \in 1 .. (n - 1), A[m][1] = A[n][1]
        PROVE  NextOf(A, m, n)
    <3>1. CASE n <= Len(s)
      <4>1. /\ n \in 1 .. Len(s) /\ A[n] = s[n] /\ A[m] = s[m]
            /\ \A i \in (m + 1) .. (n - 1) : A[i] = s[i]
        BY <1>1, <3>1
      <4>2. NextOf(s, m, n)
        BY <2>1, <4>1 DEF InSequence
      <4>3. s[m][2] < s[n][2]
        BY <4>2 DEF NextOf
      <4>4. ASSUME NEW k \in (s[m][2] + 1) .. (s[n][2] - 1)
            PROVE  \E i \in (m + 1) .. (n - 1) : A[i] = <<s[n][1], k>>
        <5>1. PICK i \in (m + 1) .. (n - 1) : s[i] = <<s[n][1], k>>
          BY <4>2 DEF NextOf
        <5> QED BY <4>1, <5>1, Zenon
      <4> QED BY <4>1, <4>3, <4>4 DEF NextOf
    <3>2. CASE n = Len(s) + 1
      <4>1. /\ m \in 1 .. Len(s) /\ A[n] = x /\ A[m] = s[m] /\ n - 1 = Len(s)
            /\ m \in Nat
        BY <1>1, <3>2
      <4>2. s[m][1] = r
        BY <2>1, <4>1 DEF r
      <4>3. /\ s[m][2] < e
            /\ \A k \in (s[m][2] + 1) .. (e - 1) : Later(s, m, <<r, k>>)
        BY <1>2, <4>1, <4>2
      <4>4. ASSUME NEW k \in (s[m][2] + 1) .. (e - 1)
            PROVE  \E i \in (m + 1) .. (n - 1) : A[i] = <<r, k>>
        <5>1. PICK i \in (m + 1) .. Len(s) : s[i] = <<r, k>>
          BY <4>3 DEF Later
        <5>2. i \in 1 .. Len(s) /\ i \in (m + 1) .. (n - 1)
          BY <4>1
        <5>3. A[i] = <<r, k>>
          BY <1>1, <5>1, <5>2
        <5> QED BY <5>2, <5>3, Zenon
      <4> QED BY <4>1, <4>3, <4>4, Zenon DEF NextOf, r, e
    <3> QED BY <1>1, <3>1, <3>2
  <2> QED BY <2>1 DEF InSequence
<1>4. UpTo(A, r, e)
  <2>1. ASSUME NEW j \in 1 .. Len(A), A[j][1] = r
        PROVE  /\ A[j][2] <= e
               /\ \A k \in (A[j][2] + 1) .. e : Later(A, j, <<r, k>>)
    <3>1. CASE j <= Len(s)
      <4>1. j \in 1 .. Len(s) /\ A[j] = s[j] /\ j \in Nat /\ j \in 0 .. Len(s)
        BY <1>1, <3>1
      <4>2. /\ s[j][2] < e /\ s[j][2] \in Nat
            /\ \A k \in (s[j][2] + 1) .. (e - 1) : Later(s, j, <<r, k>>)
        BY <1>2, <2>1, <4>1
      <4>3. ASSUME NEW k \in (s[j][2] + 1) .. e
            PROVE  Later(A, j, <<r, k>>)
        <5>1. CASE k = e
          BY <1>0, <1>1, <4>1, <5>1
        <5>2. CASE k # e
          <6>1. k \in (s[j][2] + 1) .. (e - 1)
            BY <1>0, <4>2, <5>2
          <6> QED BY <1>1, <4>1, <4>2, <6>1
        <5> QED BY <5>1, <5>2
      <4>4. s[j][2] <= e
        BY <1>0, <4>2
      <4> QED BY <4>1, <4>3, <4>4, Zenon
    <3>2. CASE j = Len(s) + 1
      <4>1. A[j] = x /\ A[j][2] = e
        BY <1>1, <3>2 DEF e
      <4>2. e <= e /\ (e + 1) .. e = {}
        BY <1>0
      <4> QED BY <4>1, <4>2, Zenon
    <3> QED BY <1>1, <3>1, <3>2
  <2> QED BY <2>1, Zenon DEF UpTo
<1> QED BY <1>3, <1>4 DEF A, r, e

\* What a client has read and what waits for it: a chunk comes in at the end ...
LEMMA AppendWaits ==
  ASSUME NEW S, NEW g \in Seq(S), NEW b \in Seq(S), NEW x \in S
  PROVE  g \o Append(b, x) = Append(g \o b, x)
<1>1. Append(b, x) = b \o <<x>> /\ <<x>> \in Seq(S)
  BY AppendIsConcat
<1>2. g \o (b \o <<x>>) = (g \o b) \o <<x>>
  BY <1>1, ConcatAssociative
<1>3. g \o b \in Seq(S)
  BY ConcatProperties, Zenon
<1>4. Append(g \o b, x) = (g \o b) \o <<x>>
  BY <1>3, AppendIsConcat
<1> QED BY <1>1, <1>2, <1>4, Zenon

\* ... and the client takes all of it.
LEMMA TakeAll ==
  ASSUME NEW S, NEW g \in Seq(S), NEW b \in Seq(S)
  PROVE  g \o b \in Seq(S) /\ (g \o b) \o <<>> = g \o b
<1>1. g \o b \in Seq(S)
  BY ConcatProperties, Zenon
<1> QED BY <1>1, ConcatEmptySeq

-----------------------------------------------------------------------------
(* The list of the writers.                                                 *)

Distinct(s) == \A i, j \in 1 .. Len(s) : s[i] = s[j] => i = j

Before(s, v, w) ==
  \E i, j \in 1 .. Len(s) : i < j /\ s[i] = v /\ s[j] = w

\* Nobody comes before itself, and the neighbours are in the list.
LEMMA BeforeParts ==
  ASSUME NEW s, Distinct(s), NEW v, NEW w, Before(s, v, w)
  PROVE  v # w /\ Contains(s, v) /\ Contains(s, w) /\ ~Before(s, w, v)
<1>1. PICK i, j \in 1 .. Len(s) : i < j /\ s[i] = v /\ s[j] = w
  BY DEF Before
<1>2. v # w /\ ~Before(s, w, v)
  BY <1>1 DEF Distinct, Before
<1>3. Contains(s, v) /\ Contains(s, w)
  BY <1>1, Zenon DEF Contains
<1> QED BY <1>2, <1>3

\* A new writer is behind all the others.
LEMMA AppendList ==
  ASSUME NEW S, NEW s \in Seq(S), Distinct(s), NEW x \in S, ~Contains(s, x)
  PROVE  /\ Distinct(Append(s, x))
         /\ \A v, w : Before(Append(s, x), v, w) <=>
              Before(s, v, w) \/ (Contains(s, v) /\ w = x)
<1> DEFINE A == Append(s, x)
<1>1. /\ Len(A) = Len(s) + 1 /\ A[Len(s) + 1] = x /\ Len(s) \in Nat
      /\ \A i \in 1 .. Len(s) : A[i] = s[i]
  BY AppendParts
<1>x. \A i \in 1 .. Len(s) : s[i] # x
  BY Zenon DEF Contains
<1> HIDE DEF A
<1>2. Distinct(A)
  <2>1. ASSUME NEW i \in 1 .. Len(A), NEW j \in 1 .. Len(A), A[i] = A[j]
        PROVE  i = j
    <3>1. CASE i \in 1 .. Len(s) /\ j \in 1 .. Len(s)
      BY <1>1, <2>1, <3>1 DEF Distinct
    <3>2. CASE i \in 1 .. Len(s) /\ j = Len(s) + 1
      BY <1>1, <1>x, <2>1, <3>2
    <3>3. CASE i = Len(s) + 1 /\ j \in 1 .. Len(s)
      BY <1>1, <1>x, <2>1, <3>3
    <3> QED BY <1>1, <3>1, <3>2, <3>3
  <2> QED BY <2>1 DEF Distinct
<1>3. ASSUME NEW v, NEW w, Before(A, v, w)
      PROVE  Before(s, v, w) \/ (Contains(s, v) /\ w = x)
  <2>1. PICK i, j \in 1 .. Len(A) : i < j /\ A[i] = v /\ A[j] = w
    BY <1>3 DEF Before
  <2>2. i \in 1 .. Len(s) /\ s[i] = v
    BY <1>1, <2>1
  <2>3. CASE j \in 1 .. Len(s)
    BY <1>1, <2>1, <2>2, <2>3 DEF Before
  <2>4. CASE j = Len(s) + 1
    BY <1>1, <2>1, <2>2, <2>4, Zenon DEF Contains
  <2> QED BY <1>1, <2>3, <2>4
<1>4. ASSUME NEW v, NEW w, Before(s, v, w) PROVE Before(A, v, w)
  <2>1. PICK i, j \in 1 .. Len(s) : i < j /\ s[i] = v /\ s[j] = w
    BY <1>4 DEF Before
  <2>2. i \in 1 .. Len(A) /\ j \in 1 .. Len(A) /\ A[i] = v /\ A[j] = w
    BY <1>1, <2>1
  <2> QED BY <2>1, <2>2, Zenon DEF Before
<1>5. ASSUME NEW v, Contains(s, v) PROVE Before(A, v, x)
  <2>1. PICK i \in 1 .. Len(s) : s[i] = v
    BY <1>5 DEF Contains
  <2>2. /\ i \in 1 .. Len(A) /\ Len(s) + 1 \in 1 .. Len(A)
        /\ i < Len(s) + 1 /\ A[i] = v
    BY <1>1, <2>1
  <2> QED BY <1>1, <2>2, Zenon DEF Before
<1> QED BY <1>2, <1>3, <1>4, <1>5 DEF A

\* What a removal leaves is in the order it was.
LEMMA RemoveParts ==
  ASSUME NEW S, NEW s \in Seq(S), NEW p \in 1 .. Len(s)
  PROVE  /\ RemoveAt(s, p) \in Seq(S) /\ Len(s) \in Nat
         /\ Len(RemoveAt(s, p)) = Len(s) - 1
         /\ \A i \in 1 .. (Len(s) - 1) :
              RemoveAt(s, p)[i] = IF i < p THEN s[i] ELSE s[i + 1]
<1> DEFINE a == SubSeq(s, 1, p - 1)
           b == SubSeq(s, p + 1, Len(s))
           n == Len(s)
<1>0. n \in Nat /\ p \in 1 .. n
  BY LenProperties
<1>1. /\ a \in Seq(S) /\ Len(a) = p - 1
      /\ \A i \in 1 .. (p - 1) : a[i] = s[i]
  BY <1>0, SubSeqProperties
<1>2. /\ b \in Seq(S) /\ Len(b) = n - p
      /\ \A i \in 1 .. (n - p) : b[i] = s[p + i]
  BY <1>0, SubSeqProperties
<1> HIDE DEF a, b, n
<1>3. /\ a \o b \in Seq(S) /\ Len(a \o b) = Len(a) + Len(b)
      /\ \A i \in 1 .. Len(a) + Len(b) :
           (a \o b)[i] = IF i <= Len(a) THEN a[i] ELSE b[i - Len(a)]
  BY <1>1, <1>2, ConcatProperties, Zenon
<1>4. RemoveAt(s, p) = a \o b
  BY DEF RemoveAt, a, b
<1>5. Len(a \o b) = n - 1
  BY <1>0, <1>1, <1>2, <1>3
<1>6. ASSUME NEW i \in 1 .. (n - 1)
      PROVE  (a \o b)[i] = IF i < p THEN s[i] ELSE s[i + 1]
  <2>0. i \in 1 .. Len(a) + Len(b)
    BY <1>0, <1>1, <1>2
  <2>1. (a \o b)[i] = IF i <= p - 1 THEN a[i] ELSE b[i - (p - 1)]
    BY <1>1, <1>3, <2>0, Zenon
  <2>2. CASE i < p
    BY <1>0, <1>1, <2>1, <2>2
  <2>3. CASE ~(i < p)
    BY <1>0, <1>2, <2>1, <2>3
  <2> QED BY <2>2, <2>3
<1> QED BY <1>0, <1>3, <1>4, <1>5, <1>6 DEF n

\* A list without one of its entries keeps the order of the others.
LEMMA RemoveList ==
  ASSUME NEW S, NEW s \in Seq(S), Distinct(s), NEW p \in 1 .. Len(s)
  PROVE  /\ Distinct(RemoveAt(s, p))
         /\ \A v : Contains(RemoveAt(s, p), v) <=> Contains(s, v) /\ v # s[p]
         /\ \A v, w : Before(RemoveAt(s, p), v, w) <=>
              Before(s, v, w) /\ v # s[p] /\ w # s[p]
<1> DEFINE R == RemoveAt(s, p)
           Old(i) == IF i < p THEN i ELSE i + 1
           New(i) == IF i < p THEN i ELSE i - 1
<1>1. /\ Len(s) \in Nat /\ Len(R) = Len(s) - 1
      /\ \A i \in 1 .. (Len(s) - 1) : R[i] = IF i < p THEN s[i] ELSE s[i + 1]
  BY RemoveParts
<1> HIDE DEF R
<1>2. \A i \in 1 .. Len(R) : Old(i) \in 1 .. Len(s) /\ Old(i) # p
                             /\ R[i] = s[Old(i)]
  BY <1>1
<1>3. \A i, j \in 1 .. Len(R) :
        /\ Old(i) = Old(j) => i = j
        /\ i < j => Old(i) < Old(j)
  BY <1>1
<1>4. ASSUME NEW i \in 1 .. Len(s), i # p
      PROVE  New(i) \in 1 .. Len(R) /\ R[New(i)] = s[i]
  <2>1. CASE i < p
    BY <1>1, <1>4, <2>1
  <2>2. CASE i > p
    BY <1>1, <1>4, <2>2
  <2> QED BY <1>1, <1>4, <2>1, <2>2
<1>5. \A i, j \in 1 .. Len(s) : i < j /\ i # p /\ j # p => New(i) < New(j)
  BY <1>1
<1> HIDE DEF Old, New
<1>6. \A i \in 1 .. Len(s) : s[i] = s[p] => i = p
  BY DEF Distinct
<1>7. Distinct(R)
  BY <1>2, <1>3, Zenon DEF Distinct
<1>8. ASSUME NEW v
      PROVE  Contains(R, v) <=> Contains(s, v) /\ v # s[p]
  <2>1. ASSUME Contains(R, v) PROVE Contains(s, v) /\ v # s[p]
    BY <1>2, <1>6, <2>1, Zenon DEF Contains
  <2>2. ASSUME Contains(s, v), v # s[p] PROVE Contains(R, v)
    BY <1>4, <2>2, Zenon DEF Contains
  <2> QED BY <2>1, <2>2
<1>9. ASSUME NEW v, NEW w
      PROVE  Before(R, v, w) <=> Before(s, v, w) /\ v # s[p] /\ w # s[p]
  <2>1. ASSUME Before(R, v, w) PROVE Before(s, v, w) /\ v # s[p] /\ w # s[p]
    <3>1. PICK i, j \in 1 .. Len(R) : i < j /\ R[i] = v /\ R[j] = w
      BY <2>1 DEF Before
    <3>2. /\ Old(i) \in 1 .. Len(s) /\ Old(j) \in 1 .. Len(s)
          /\ Old(i) < Old(j) /\ s[Old(i)] = v /\ s[Old(j)] = w
          /\ Old(i) # p /\ Old(j) # p
      BY <1>2, <1>3, <3>1, Zenon
    <3>3. v # s[p] /\ w # s[p]
      BY <1>6, <3>2, Zenon
    <3> QED BY <3>2, <3>3, Zenon DEF Before
  <2>2. ASSUME Before(s, v, w), v # s[p], w # s[p] PROVE Before(R, v, w)
    BY <1>4, <1>5, <2>2, Zenon DEF Before
  <2> QED BY <2>1, <2>2
<1> QED BY <1>7, <1>8, <1>9 DEF R

\* The writer behind w has the rest of the list behind it.
LEMMA NextList ==
  ASSUME NEW s, Len(s) \in Nat, Distinct(s), NEW p \in 1 .. Len(s)
  PROVE  /\ p = Len(s) => \A w : ~Before(s, s[p], w)
         /\ p < Len(s) => \A w : Before(s, s[p], w) <=>
              w = s[p + 1] \/ Before(s, s[p + 1], w)
<1>1. ASSUME NEW i \in 1 .. Len(s), NEW w
      PROVE  Before(s, s[i], w) <=> \E j \in 1 .. Len(s) : i < j /\ s[j] = w
  BY Zenon DEF Before, Distinct
<1>2. ASSUME p = Len(s), NEW w PROVE ~Before(s, s[p], w)
  BY <1>1, <1>2
<1>3. ASSUME p < Len(s), NEW w
      PROVE  Before(s, s[p], w) <=> w = s[p + 1] \/ Before(s, s[p + 1], w)
  <2>1. p + 1 \in 1 .. Len(s)
    BY <1>3
  <2>2. \A j \in 1 .. Len(s) : p < j <=> j = p + 1 \/ p + 1 < j
    OBVIOUS
  <2>3. Before(s, s[p], w) <=> \E j \in 1 .. Len(s) : p < j /\ s[j] = w
    BY <1>1, Zenon
  <2>4. Before(s, s[p + 1], w) <=>
          \E j \in 1 .. Len(s) : p + 1 < j /\ s[j] = w
    BY <1>1, <2>1, Zenon
  <2>5. p < p + 1
    OBVIOUS
  <2> QED BY <2>1, <2>2, <2>3, <2>4, <2>5, Zenon
<1> QED BY <1>2, <1>3

\* Place finds who is in the list.
LEMMA PlaceParts ==
  ASSUME NEW w, Contains(writers, w)
  PROVE  Place(w) \in 1 .. Len(writers) /\ writers[Place(w)] = w
BY Zenon DEF Contains, Place

-----------------------------------------------------------------------------
(* Types.                                                                   *)

\* What a world is made of.
LEMMA WorldParts ==
  ASSUME world \in World
  PROVE  /\ world.tty \in BOOLEAN
         /\ world.reading \subseteq world.attaching
         /\ world.attaching \subseteq Client
         /\ world.chunks \in Seq(Nat) /\ Len(world.chunks) <= MaxRuns
         /\ Len(world.chunks) \in Nat /\ MaxRuns \in Nat
         /\ "log" \notin Client /\ "none" \notin Client
<1>1. /\ world.tty \in BOOLEAN
      /\ world.reading \subseteq world.attaching
      /\ world.attaching \subseteq Client
      /\ world.chunks \in Seq(Nat) /\ Len(world.chunks) <= MaxRuns
      /\ MaxRuns \in Nat
  BY StreamsAssumption
<1>2. "log" \notin Client /\ "none" \notin Client
  BY StreamsAssumption
<1>3. Len(world.chunks) \in Nat
  BY <1>1, LenProperties
<1> QED BY <1>1, <1>2, <1>3

\* A visit goes to a writer, or ends.
LEMMA NextWriterType ==
  ASSUME TypeOK, NEW w
  PROVE  NextWriter(w) \in Writer \union {None}
<1>1. writers \in Seq(Writer) /\ Len(writers) \in Nat
  BY LenProperties DEF TypeOK
<1>2. CASE Contains(writers, w) /\ Place(w) < Len(writers)
  <2>1. Place(w) + 1 \in 1 .. Len(writers)
    BY <1>1, <1>2, PlaceParts
  <2>2. writers[Place(w) + 1] \in Writer
    BY <1>1, <2>1, ElementOfSeq
  <2> QED BY <1>2, <2>2 DEF NextWriter
<1>3. CASE ~(Contains(writers, w) /\ Place(w) < Len(writers))
  BY <1>3 DEF NextWriter
<1> QED BY <1>2, <1>3

\* What a copier that goes on keeps.
LEMMA VisitType ==
  ASSUME TypeOK, NEW r \in Run, NEW w \in Writer \union {None}, Visit(r, w)
  PROVE  /\ at' \in [Run -> Writer \union {None}]
         /\ copier' \in [Run -> {"none", "read", "offer", "pending",
                                 "evict", "done"}]
BY DEF TypeOK, Visit

\* What Close keeps: it closes pipes, and leaves the list.
LEMMA CloseType ==
  ASSUME TypeOK, NEW r \in Run, Close(r)
  PROVE  /\ pipe' \in [Client -> {"none", "open", "writer", "reader"}]
         /\ closedIn' \in [Client -> 0 .. MaxRuns]
         /\ writers' = writers
<1>1. r \in 0 .. MaxRuns
  BY DEF Run
<1> QED BY <1>1 DEF TypeOK, Close

\* A copier writes a chunk.
LEMMA CopyingType ==
  ASSUME TypeOK, NEW r \in Run
  PROVE  Copying(r) \in Chunk
BY DEF TypeOK, Copying, Chunk

\* TypeOK is not inductive: that of Offer and OfferFails needs to know that a
\* write waits at a pipe only, and that of CopierRead that the list is not
\* empty, for the log is never evicted.
LogFirst == Len(writers) > 0 /\ writers[1] = "log"
AtPipe == \A r \in Run : copier[r] = "pending" => at[r] \in Client
TypeInv == TypeOK /\ LogFirst /\ AtPipe

\* What starts, goes and ends a run.
LEMMA TypeRun ==
  ASSUME TypeInv,
         \/ Start
         \/ \E r \in Run : Output(r) \/ Exit(r) \/ MonitorStep(r)
  PROVE  TypeInv'
<1> USE DEF TypeInv, LogFirst, AtPipe
<1>1. CASE Start
  <2>1. run' = run + 1 /\ run' \in 0 .. MaxRuns /\ run' \in Run
    BY <1>1, WorldParts DEF TypeOK, Start, Run
  <2> QED BY <1>1, <2>1 DEF TypeOK, Start, clients
<1>2. ASSUME NEW r \in Run, Output(r) PROVE TypeInv'
  BY <1>2 DEF TypeOK, Output, copiers, clients
<1>3. ASSUME NEW r \in Run, Exit(r) PROVE TypeInv'
  BY <1>3 DEF TypeOK, Exit, copiers, clients
<1>4. ASSUME NEW r \in Run, MonitorWait(r) PROVE TypeInv'
  BY <1>4 DEF TypeOK, MonitorWait, runs, copiers, clients
<1>5. ASSUME NEW r \in Run, MonitorClose(r) PROVE TypeInv'
  <2>1. /\ pipe' \in [Client -> {"none", "open", "writer", "reader"}]
        /\ closedIn' \in [Client -> 0 .. MaxRuns] /\ writers' = writers
    BY <1>5, CloseType DEF MonitorClose
  <2> QED BY <1>5, <2>1 DEF TypeOK, MonitorClose, runs, copiers, clients
<1> QED BY <1>1, <1>2, <1>3, <1>4, <1>5 DEF MonitorStep

\* The copier, from its read to the log, and its end.
LEMMA TypeCopier ==
  ASSUME TypeInv, NEW r \in Run,
         CopierRead(r) \/ WriteLog(r) \/ Evicted(r) \/ CopierEnd(r)
  PROVE  TypeInv'
<1> USE DEF CopierAt, runs, clients, TypeInv, LogFirst, AtPipe
<1>1. CASE CopierRead(r)
  <2>1. copied' \in [Run -> Nat]
    BY <1>1 DEF TypeOK, CopierRead
  <2>2. Head(writers) = "log"
    BY HeadTailProperties DEF TypeOK
  <2>3. Visit(r, "log") /\ "log" \in Writer \union {None}
    BY <1>1, <2>2 DEF CopierRead, Writer
  <2>4. /\ at' \in [Run -> Writer \union {None}]
        /\ copier' \in [Run -> {"none", "read", "offer", "pending",
                                "evict", "done"}]
    BY <2>3, VisitType
  <2>5. AtPipe'
    BY <2>3 DEF Visit, TypeOK
  <2> QED BY <1>1, <2>1, <2>4, <2>5 DEF TypeOK, CopierRead
<1>2. CASE WriteLog(r)
  <2>1. log' \in Seq(Chunk)
    BY <1>2, CopyingType, AppendParts DEF TypeOK, WriteLog
  <2>2. Visit(r, NextWriter("log"))
    BY <1>2 DEF WriteLog
  <2>3. /\ at' \in [Run -> Writer \union {None}]
        /\ copier' \in [Run -> {"none", "read", "offer", "pending",
                                "evict", "done"}]
    BY <2>2, NextWriterType, VisitType, Zenon DEF TypeInv
  <2>4. AtPipe'
    BY <2>2 DEF Visit, TypeOK
  <2> QED BY <1>2, <2>1, <2>3, <2>4 DEF TypeOK, WriteLog
<1>3. CASE Evicted(r)
  BY <1>3 DEF TypeOK, Evicted
<1>4. CASE CopierEnd(r)
  <2>1. /\ pipe' \in [Client -> {"none", "open", "writer", "reader"}]
        /\ closedIn' \in [Client -> 0 .. MaxRuns] /\ writers' = writers
    <3>1. CASE Close(r)
      BY <3>1, CloseType
    <3>2. CASE UNCHANGED <<pipe, closedIn, writers>>
      BY <3>2 DEF TypeOK
    <3> QED BY <1>4, <3>1, <3>2 DEF CopierEnd
  <2>2. /\ copier' = [copier EXCEPT ![r] = "done"]
        /\ UNCHANGED <<world, runs, monitor, copied, at, failed, log, clients>>
    BY <1>4 DEF CopierEnd
  <2> QED BY <2>1, <2>2 DEF TypeOK
<1> QED BY <1>1, <1>2, <1>3, <1>4

\* Its writes to the pipes.
LEMMA TypeOffer ==
  ASSUME TypeInv, NEW r \in Run, Offer(r) \/ OfferFails(r)
  PROVE  TypeInv'
<1> USE DEF CopierAt, runs, clients, TypeInv, LogFirst, AtPipe
<1>1. ASSUME Fail(r), at[r] \in Client
      PROVE  /\ failed' \in [Run -> Seq(Client)]
             /\ at' \in [Run -> Writer \union {None}]
             /\ copier' \in [Run -> {"none", "read", "offer", "pending",
                                     "evict", "done"}]
             /\ AtPipe'
  <2>1. Append(failed[r], at[r]) \in Seq(Client)
    BY <1>1, AppendParts DEF TypeOK
  <2>2. failed' \in [Run -> Seq(Client)]
    BY <1>1, <2>1 DEF TypeOK, Fail
  <2>3. Visit(r, NextWriter(at[r]))
    BY <1>1 DEF Fail
  <2>4. AtPipe'
    BY <2>3 DEF Visit, TypeOK
  <2> QED BY <2>2, <2>3, <2>4, NextWriterType, VisitType, Zenon DEF TypeInv
<1>2. CASE Offer(r) /\ pipe[at[r]] = "open"
  <2>1. /\ copier' = [copier EXCEPT ![r] = "pending"] /\ at[r] \in Client
        /\ UNCHANGED <<at, failed, copied, writers, log, pipe, clients>>
    BY <1>2 DEF Offer
  <2>2. AtPipe'
    BY <2>1 DEF TypeOK
  <2> QED BY <1>2, <2>1, <2>2 DEF TypeOK, Offer
<1>3. CASE Offer(r) /\ pipe[at[r]] # "open"
  BY <1>1, <1>3 DEF TypeOK, Offer
<1>4. CASE OfferFails(r)
  BY <1>1, <1>4 DEF TypeOK, OfferFails
<1> QED BY <1>2, <1>3, <1>4

\* And the eviction of those that failed.
LEMMA TypeEvict ==
  ASSUME TypeInv, NEW r \in Run, Evict(r)
  PROVE  TypeInv'
<1> USE DEF CopierAt, runs, clients, TypeInv, LogFirst, AtPipe
<1>1. Head(failed[r]) \in Client /\ Tail(failed[r]) \in Seq(Client)
  BY HeadTailProperties DEF TypeOK, Evict
<1>2. failed' \in [Run -> Seq(Client)]
  BY <1>1 DEF TypeOK, Evict
<1>3. writers' \in Seq(Writer) /\ LogFirst'
  <2> DEFINE w == Head(failed[r])
  <2>1. CASE Contains(writers, w)
    <3>1. /\ Place(w) \in 1 .. Len(writers) /\ writers[Place(w)] = w
          /\ Place(w) # 1
      BY <1>1, <2>1, PlaceParts, StreamsAssumption
    <3>2. writers' = RemoveAt(writers, Place(w))
      BY <2>1 DEF Evict, RemoveElement
    <3> DEFINE p == Place(w)
    <3>3. p \in 1 .. Len(writers) /\ p # 1 /\ writers' = RemoveAt(writers, p)
      BY <3>1, <3>2
    <3> HIDE DEF w, p
    <3>4. writers \in Seq(Writer)
      BY DEF TypeOK
    <3>5. /\ RemoveAt(writers, p) \in Seq(Writer) /\ Len(writers) \in Nat
          /\ Len(RemoveAt(writers, p)) = Len(writers) - 1
          /\ \A i \in 1 .. (Len(writers) - 1) :
               RemoveAt(writers, p)[i] = IF i < p THEN writers[i]
                                         ELSE writers[i + 1]
      BY <3>3, <3>4, RemoveParts, Zenon
    <3> QED BY <3>3, <3>5
  <2>2. CASE ~Contains(writers, w)
    BY <2>2 DEF Evict, RemoveElement, TypeOK
  <2> QED BY <2>1, <2>2
<1> QED BY <1>2, <1>3 DEF TypeOK, Evict

\* The readers of the pipes.
LEMMA TypeDrain ==
  ASSUME TypeInv, NEW c \in Client, DrainStep(c)
  PROVE  TypeInv'
<1> USE DEF DrainAt, DrainTo, runs, TypeInv, LogFirst, AtPipe
<1>1. CASE DrainRead(c)
  <2>1. PICK r \in Pending(c) :
          /\ buf' = [buf EXCEPT ![c] = Append(@, Copying(r))]
          /\ Visit(r, NextWriter(c))
    BY <1>1 DEF DrainRead
  <2>2. r \in Run
    BY DEF Pending
  <2>3. Append(buf[c], Copying(r)) \in Seq(Chunk)
    BY <2>2, CopyingType, AppendParts DEF TypeOK
  <2>4. buf' \in [Client -> Seq(Chunk)]
    BY <2>1, <2>3 DEF TypeOK
  <2>5. /\ at' \in [Run -> Writer \union {None}]
        /\ copier' \in [Run -> {"none", "read", "offer", "pending",
                                "evict", "done"}]
    BY <2>1, <2>2, NextWriterType, VisitType, Zenon DEF TypeInv
  <2>6. AtPipe'
    BY <2>1, <2>2 DEF Visit, TypeOK
  <2> QED BY <1>1, <2>4, <2>5, <2>6 DEF TypeOK, DrainRead
<1>2. CASE DrainError(c)
  BY <1>2 DEF TypeOK, DrainError
<1>3. CASE DrainSignal(c)
  BY <1>3 DEF TypeOK, DrainSignal
<1> QED BY <1>1, <1>2, <1>3 DEF DrainStep

\* The clients.
LEMMA TypeClient ==
  ASSUME TypeInv, NEW c \in Client,
         Attach(c) \/ Abandon(c) \/ ReadStep(c)
  PROVE  TypeInv'
<1> USE DEF ReaderAt, ReaderStep, DrainTo, Daemon, runs, copiers,
            TypeInv, LogFirst, AtPipe
<1>1. CASE Attach(c)
  <2>1. /\ writers' \in Seq(Writer) /\ Len(writers') = Len(writers) + 1
        /\ Len(writers) \in Nat
        /\ \A i \in 1 .. Len(writers) : writers'[i] = writers[i]
    BY <1>1, AppendParts DEF Attach, TypeOK, Writer
  <2>2. LogFirst'
    BY <2>1
  <2> QED BY <1>1, <2>1, <2>2 DEF TypeOK, Attach
<1>2. CASE Abandon(c)
  BY <1>2 DEF TypeOK, Abandon
<1>3. CASE Begin(c)
  BY <1>3 DEF TypeOK, Begin
<1>4. CASE Take(c)
  <2>1. got[c] \o buf[c] \in Seq(Chunk) /\ <<>> \in Seq(Chunk)
    BY ConcatProperties DEF TypeOK
  <2> DEFINE all == got[c] \o buf[c]
  <2>2. /\ got' = got \/ got' = [got EXCEPT ![c] = all]
        /\ buf' = buf \/ buf' = [buf EXCEPT ![c] = <<>>]
        /\ \E to \in {"check", "take", "gone"} :
             reader' = [reader EXCEPT ![c] = to]
        /\ UNCHANGED <<Daemon, writers, pipe, drain, err, since, closedIn>>
    BY <1>4 DEF Take
  <2> HIDE DEF all
  <2>0. all \in Seq(Chunk)
    BY <2>1 DEF all
  <2>3. got' \in [Client -> Seq(Chunk)]
    <3>1. got \in [Client -> Seq(Chunk)]
      BY DEF TypeOK
    <3>2. [got EXCEPT ![c] = all] \in [Client -> Seq(Chunk)]
      BY <2>0, <3>1
    <3> QED BY <2>2, <3>1, <3>2, Zenon
  <2>4. buf' \in [Client -> Seq(Chunk)]
    <3>1. buf \in [Client -> Seq(Chunk)]
      BY DEF TypeOK
    <3>2. [buf EXCEPT ![c] = <<>>] \in [Client -> Seq(Chunk)]
      BY <2>1, <3>1
    <3> QED BY <2>2, <3>1, <3>2, Zenon
  <2>5. reader' \in [Client -> {"none", "attached", "take", "check", "sleep",
                                "asleep", "eof", "gone"}]
    BY <2>2 DEF TypeOK
  <2> QED BY <2>2, <2>3, <2>4, <2>5 DEF TypeOK
<1>5. CASE Check(c)
  BY <1>5 DEF TypeOK, Check
<1>6. CASE Sleep(c)
  BY <1>6 DEF TypeOK, Sleep
<1> QED BY <1>1, <1>2, <1>3, <1>4, <1>5, <1>6 DEF ReadStep

\* The types hold of a container that was never started,
LEMMA TypeInit == Init => TypeInv
<1> SUFFICES ASSUME Init PROVE TypeInv
  OBVIOUS
<1>1. <<"log">> \in Seq(Writer) /\ Len(<<"log">>) = 1
  BY DEF Writer
<1>2. 0 \in 0 .. MaxRuns
  BY StreamsAssumption
<1> QED BY <1>1, <1>2 DEF Init, TypeInv, TypeOK, LogFirst, AtPipe

\* ... and every step keeps them.
LEMMA TypeStep == TypeInv /\ [Next]_vars => TypeInv'
<1> SUFFICES ASSUME TypeInv, [Next]_vars PROVE TypeInv'
  OBVIOUS
<1>1. CASE UNCHANGED vars
  BY <1>1 DEF TypeInv, TypeOK, LogFirst, AtPipe, vars
<1>2. CASE Next
  BY <1>2, TypeRun, TypeCopier, TypeOffer, TypeEvict, TypeDrain, TypeClient
  DEF Next, CopierStep
<1> QED BY <1>1, <1>2

\* Every variable keeps its type, whatever the clients, the runs and the
\* worlds (utils.go:43-148).
THEOREM StreamsTypeOK == Spec => []TypeOK
<1>1. TypeInv => TypeOK
  BY DEF TypeInv
<1> QED BY <1>1, TypeInit, TypeStep, PTL DEF Spec

-----------------------------------------------------------------------------
(* The runs.                                                                *)

Visiting(r) == copier[r] \in {"offer", "pending"}

RunInv(r) ==
  /\ r > run => copier[r] = "none" /\ monitor[r] = "none" /\ proc[r] = "none"
  /\ r < run => monitor[r] = "stopped"
  /\ copier[r] = "none" => r > run
  /\ copied[r] <= written[r] /\ (Visiting(r) => copied[r] > 0)
  /\ copier[r] = "done" => proc[r] = "dead" /\ copied[r] = written[r]
  /\ ~world.tty /\ monitor[r] \in {"close", "stopped"} => copier[r] = "done"
RunsInv ==
  /\ run <= Len(world.chunks)
  /\ \A r \in Run : RunInv(r)

\* A step that leaves the runs and the monitors alone, and no copier ends
\* before it has read everything.
LEMMA RunKeeps ==
  ASSUME RunsInv, NEW r \in Run,
         UNCHANGED <<world, runs, monitor>>,
         \/ copier'[r] = copier[r] /\ copied'[r] = copied[r]
         \/ /\ copier[r] \in {"read", "offer", "pending", "evict"}
            /\ copier'[r] \in {"offer", "pending", "evict", "read"}
            /\ copied'[r] <= written[r]
            /\ copier'[r] \in {"offer", "pending"} => copied'[r] > 0
  PROVE  RunInv(r)'
BY DEF RunsInv, RunInv, Visiting, runs

\* A copier that goes on through the list is still within its run.
LEMMA RunsVisit ==
  ASSUME TypeInv, RunsInv, NEW r \in Run, NEW w, Visit(r, w),
         copier[r] \in {"offer", "pending"},
         UNCHANGED <<world, runs, monitor, copied>>
  PROVE  RunsInv'
<1>1. ASSUME NEW q \in Run PROVE RunInv(q)'
  <2>1. CASE q = r
    <3>1. copied'[q] <= written[q] /\ copied'[q] > 0
      BY <2>1 DEF RunsInv, RunInv, Visiting
    <3>2. copier'[q] \in {"offer", "evict"}
      BY <2>1 DEF Visit, TypeInv, TypeOK
    <3> QED BY <2>1, <3>1, <3>2, RunKeeps
  <2>2. CASE q # r
    <3>1. copier'[q] = copier[q] /\ copied'[q] = copied[q]
      BY <2>2 DEF Visit, TypeInv, TypeOK
    <3> QED BY <3>1, RunKeeps
  <2> QED BY <2>1, <2>2
<1> QED BY <1>1 DEF RunsInv, runs

\* The next run begins when the last one is reported.
LEMMA RunsStart ==
  ASSUME TypeInv, RunsInv, Start
  PROVE  RunsInv'
<1>1. /\ run' = run + 1 /\ run' \in Run /\ run \in Nat
      /\ run' <= Len(world.chunks) /\ (run > 0 => monitor[run] = "stopped")
      /\ UNCHANGED <<world, copied, written>>
  BY WorldParts DEF TypeInv, TypeOK, Start, Run
<1>2. ASSUME NEW r \in Run PROVE RunInv(r)'
  <2>0. r \in Nat /\ r > 0
    BY DEF Run
  <2>1. CASE r = run'
    <3>1. /\ proc'[r] = "up" /\ copier'[r] = "read" /\ monitor'[r] = "wait"
      BY <1>1, <2>1 DEF Start, TypeInv, TypeOK
    <3>2. copied[r] <= written[r]
      BY DEF RunsInv, RunInv
    <3> QED BY <1>1, <2>0, <2>1, <3>1, <3>2 DEF RunInv, Visiting
  <2>2. CASE r # run'
    <3>1. /\ proc'[r] = proc[r] /\ copier'[r] = copier[r]
          /\ monitor'[r] = monitor[r]
      BY <1>1, <2>2 DEF Start, TypeInv, TypeOK
    <3>2. r < run' => r < run \/ r = run
      BY <1>1, <2>0
    <3>3. RunInv(r) /\ (r > run' => r > run) /\ (r > run => r > run')
      BY <1>1, <2>0, <2>2 DEF RunsInv
    <3> QED BY <1>1, <2>0, <3>1, <3>2, <3>3 DEF RunInv, Visiting
  <2> QED BY <2>1, <2>2
<1> QED BY <1>1, <1>2 DEF RunsInv

\* The process, the monitor and the end of the copier.
LEMMA RunsRun ==
  ASSUME TypeInv, RunsInv, NEW r \in Run,
         \/ Output(r) \/ Exit(r) \/ MonitorWait(r) \/ MonitorClose(r)
         \/ CopierEnd(r)
  PROVE  RunsInv'
<1> USE DEF CopierAt, runs, copiers, TypeInv, TypeOK
<1> SUFFICES ASSUME NEW q \in Run PROVE RunInv(q)'
  BY DEF RunsInv, Output, Exit, MonitorWait, MonitorClose, CopierEnd
<1>1. RunInv(q) /\ RunInv(r)
  BY DEF RunsInv
<1>2. CASE Output(r)
  BY <1>1, <1>2 DEF Output, RunInv, Visiting
<1>3. CASE Exit(r)
  BY <1>1, <1>3 DEF Exit, RunInv, Visiting
<1>4. CASE MonitorWait(r)
  BY <1>1, <1>4 DEF MonitorWait, RunInv, Visiting
<1>5. CASE MonitorClose(r)
  BY <1>1, <1>5 DEF MonitorClose, RunInv, Visiting
<1>6. CASE CopierEnd(r)
  BY <1>1, <1>6 DEF CopierEnd, RunInv, Visiting
<1> QED BY <1>2, <1>3, <1>4, <1>5, <1>6

\* The copier reads what was written, and writes it to each in turn.
LEMMA RunsCopier ==
  ASSUME TypeInv, RunsInv, NEW r \in Run,
         \/ CopierRead(r) \/ WriteLog(r) \/ Offer(r) \/ OfferFails(r)
         \/ Evict(r) \/ Evicted(r)
  PROVE  RunsInv'
<1> USE DEF CopierAt
<1>1. CASE CopierRead(r)
  <2>1. /\ UNCHANGED <<world, runs, monitor>>
        /\ copier[r] = "read" /\ copied'[r] = copied[r] + 1
        /\ copied[r] < written[r] /\ copied[r] \in Nat /\ written[r] \in Nat
    BY <1>1 DEF CopierRead, TypeInv, TypeOK
  <2>2. copier'[r] \in {"offer", "evict"}
    BY <1>1 DEF CopierRead, Visit, TypeInv, TypeOK
  <2>3. ASSUME NEW q \in Run, q # r
        PROVE  copier'[q] = copier[q] /\ copied'[q] = copied[q]
    BY <1>1, <2>3 DEF CopierRead, Visit, TypeInv, TypeOK
  <2>4. copied'[r] <= written[r] /\ copied'[r] > 0
    BY <2>1
  <2>5. ASSUME NEW q \in Run PROVE RunInv(q)'
    <3>1. CASE q = r
      BY <2>1, <2>2, <2>4, <3>1, RunKeeps
    <3>2. CASE q # r
      BY <2>1, <2>3, <3>2, RunKeeps
    <3> QED BY <3>1, <3>2
  <2> QED BY <2>1, <2>5 DEF RunsInv, runs
<1>2. CASE WriteLog(r)
  <2>1. /\ UNCHANGED <<world, runs, monitor, copied>> /\ copier[r] = "offer"
        /\ Visit(r, NextWriter("log"))
    BY <1>2 DEF WriteLog
  <2> QED BY <2>1, RunsVisit
<1>3. CASE Fail(r) /\ (Offer(r) \/ OfferFails(r))
  <2>1. /\ UNCHANGED <<world, runs, monitor, copied>>
        /\ copier[r] \in {"offer", "pending"} /\ Visit(r, NextWriter(at[r]))
    BY <1>3 DEF Offer, OfferFails, Fail
  <2> QED BY <2>1, RunsVisit
<1>4. CASE Offer(r) /\ ~Fail(r)
  <2>1. /\ UNCHANGED <<world, runs, monitor, copied>> /\ copier[r] = "offer"
        /\ copier' = [copier EXCEPT ![r] = "pending"]
    BY <1>4 DEF Offer
  <2>2. ASSUME NEW q \in Run PROVE RunInv(q)'
    <3>1. copied'[q] <= written[q] /\ (q = r => copied'[q] > 0)
      BY <2>1 DEF RunsInv, RunInv, Visiting
    <3>2. copier'[q] = IF q = r THEN "pending" ELSE copier[q]
      BY <2>1 DEF TypeInv, TypeOK
    <3> QED BY <2>1, <3>1, <3>2, RunKeeps
  <2> QED BY <2>1, <2>2 DEF RunsInv, runs
<1>5. CASE Evict(r) \/ Evicted(r)
  <2>1. /\ UNCHANGED <<world, runs, monitor, copied>> /\ copier[r] = "evict"
        /\ copier' = copier \/ copier' = [copier EXCEPT ![r] = "read"]
    BY <1>5 DEF Evict, Evicted
  <2>2. ASSUME NEW q \in Run PROVE RunInv(q)'
    <3>1. copied'[q] <= written[q]
      BY <2>1 DEF RunsInv, RunInv
    <3>2. copier'[q] = copier[q] \/ (q = r /\ copier'[q] = "read")
      BY <2>1 DEF TypeInv, TypeOK
    <3> QED BY <2>1, <3>1, <3>2, RunKeeps
  <2> QED BY <2>1, <2>2 DEF RunsInv, runs
<1> QED BY <1>1, <1>2, <1>3, <1>4, <1>5 DEF OfferFails

\* Clients move the copiers that write to them, and no run.
LEMMA RunsClient ==
  ASSUME TypeInv, RunsInv, NEW c \in Client,
         DrainStep(c) \/ Attach(c) \/ Abandon(c) \/ ReadStep(c)
  PROVE  RunsInv'
<1>1. CASE DrainRead(c)
  <2>1. PICK r \in Pending(c) : Visit(r, NextWriter(c))
    BY <1>1 DEF DrainRead
  <2>2. /\ r \in Run /\ copier[r] = "pending"
        /\ UNCHANGED <<world, runs, monitor, copied>>
    BY <1>1 DEF DrainRead, DrainAt, Pending
  <2> QED BY <2>1, <2>2, RunsVisit
<1>2. CASE ~DrainRead(c)
  <2>1. UNCHANGED <<world, runs, monitor, copier, copied>>
    BY <1>2 DEF DrainStep, DrainError, DrainSignal, DrainAt, Attach, Abandon,
       ReadStep, ReaderStep, Begin, Take, Check, Sleep, Daemon, runs, copiers
  <2> QED BY <2>1 DEF RunsInv, RunInv, Visiting, runs
<1> QED BY <1>1, <1>2

\* Before the first run there is none,
LEMMA RunsInit == Init => RunsInv
<1> SUFFICES ASSUME Init PROVE RunsInv
  OBVIOUS
<1>1. world \in World /\ Len(world.chunks) \in Nat /\ world.tty \in BOOLEAN
  BY WorldParts DEF Init
<1>2. \A r \in Run : r \in Nat /\ r > 0
  BY DEF Run
<1>0. /\ run = 0 /\ proc = [r \in Run |-> "none"]
      /\ written = [r \in Run |-> 0] /\ copied = [r \in Run |-> 0]
      /\ monitor = [r \in Run |-> "none"] /\ copier = [r \in Run |-> "none"]
  BY DEF Init
<1>3. ASSUME NEW r \in Run PROVE RunInv(r)
  BY <1>0, <1>2 DEF RunInv, Visiting
<1>4. run <= Len(world.chunks)
  BY <1>1 DEF Init
<1> QED BY <1>3, <1>4 DEF RunsInv

\* ... and every step keeps the runs in order.
LEMMA RunsStep == TypeInv /\ RunsInv /\ [Next]_vars => RunsInv'
<1> SUFFICES ASSUME TypeInv, RunsInv, [Next]_vars PROVE RunsInv'
  OBVIOUS
<1>1. CASE UNCHANGED vars
  BY <1>1 DEF RunsInv, RunInv, Visiting, vars
<1>2. CASE Next
  BY <1>2, RunsStart, RunsRun, RunsCopier, RunsClient
  DEF Next, MonitorStep, CopierStep
<1> QED BY <1>1, <1>2

-----------------------------------------------------------------------------
(* The clients and the list.                                                *)

\* Who is in the list, whose pipe is open, and who is being written to.
ClientInv(c) ==
  /\ pipe[c] = "open" => Contains(writers, c)
  /\ Contains(writers, c) => pipe[c] # "none"
  /\ reader[c] = "none" <=> pipe[c] = "none"
  /\ pipe[c] = "none" => buf[c] = <<>> /\ got[c] = <<>>
  /\ pipe[c] # "none" => c \in world.attaching
VisitPipe == \A r \in Run : Visiting(r) /\ at[r] # "log" =>
               at[r] \in Client /\ pipe[at[r]] # "none"
FailedClosed ==
  \A r \in Run : \A i \in 1 .. Len(failed[r]) :
    pipe[failed[r][i]] \notin {"open", "none"}
OnePending ==
  \A q, r \in Run : copier[q] = "pending" /\ copier[r] = "pending"
                    /\ at[q] = at[r] => q = r
ListInv ==
  /\ Distinct(writers)
  /\ \A c \in Client : ClientInv(c)
  /\ VisitPipe /\ FailedClosed /\ OnePending

\* The next writer is behind w in the list.
LEMMA NextWriterParts ==
  ASSUME TypeInv, Distinct(writers), NEW w
  PROVE  /\ NextWriter(w) # None =>
              /\ Contains(writers, NextWriter(w)) /\ NextWriter(w) \in Client
              /\ Contains(writers, w)
              /\ \A v : Before(writers, w, v) <=>
                   v = NextWriter(w) \/ Before(writers, NextWriter(w), v)
         /\ NextWriter(w) = None /\ Contains(writers, w) =>
              \A v : ~Before(writers, w, v)
<1>1. /\ writers \in Seq(Writer) /\ Len(writers) \in Nat
      /\ Len(writers) > 0 /\ writers[1] = "log"
  BY LenProperties DEF TypeInv, TypeOK, LogFirst
<1>2. CASE Contains(writers, w) /\ Place(w) < Len(writers)
  <2>1. /\ Place(w) \in 1 .. Len(writers) /\ writers[Place(w)] = w
        /\ NextWriter(w) = writers[Place(w) + 1]
    BY <1>2, PlaceParts DEF NextWriter
  <2> DEFINE n == Place(w) + 1
  <2>2. n \in 1 .. Len(writers) /\ n # 1
    BY <1>1, <1>2, <2>1
  <2>3. /\ Contains(writers, writers[n]) /\ writers[n] \in Writer
        /\ writers[n] # "log"
    BY <1>1, <2>2, ElementOfSeq DEF Contains, Distinct
  <2>4. \A v : Before(writers, w, v) <=>
          v = writers[n] \/ Before(writers, writers[n], v)
    BY <1>1, <1>2, <2>1, NextList
  <2>5. writers[n] # None
    BY <2>3, WorldParts DEF Writer, None, TypeInv, TypeOK
  <2> QED BY <1>2, <2>1, <2>3, <2>4, <2>5 DEF Writer
<1>3. CASE Contains(writers, w) /\ ~(Place(w) < Len(writers))
  <2>1. Place(w) = Len(writers) /\ writers[Place(w)] = w
    BY <1>1, <1>3, PlaceParts
  <2>2. \A v : ~Before(writers, w, v)
    BY <1>1, <1>3, <2>1, PlaceParts, NextList
  <2> QED BY <1>3, <2>2 DEF NextWriter
<1>4. CASE ~Contains(writers, w)
  BY <1>4 DEF NextWriter
<1> QED BY <1>2, <1>3, <1>4

\* A visit goes on.
LEMMA ListVisit ==
  ASSUME TypeInv, ListInv, NEW r \in Run, NEW w, Visit(r, NextWriter(w)),
         UNCHANGED pipe
  PROVE  VisitPipe' /\ OnePending'
<1>1. ASSUME NEW q \in Run
      PROVE  /\ q # r => copier'[q] = copier[q] /\ at'[q] = at[q]
             /\ q = r => /\ copier'[q] # "pending" /\ at'[q] = NextWriter(w)
                         /\ copier'[q] # "evict" => NextWriter(w) # None
  BY DEF Visit, TypeInv, TypeOK
<1>2. NextWriter(w) # None =>
        NextWriter(w) \in Client /\ pipe[NextWriter(w)] # "none"
  BY NextWriterParts DEF ListInv, ClientInv
<1>3. VisitPipe'
  BY <1>1, <1>2 DEF ListInv, VisitPipe, Visiting
<1>4. OnePending'
  BY <1>1 DEF ListInv, OnePending
<1> QED BY <1>3, <1>4

\* The clients that a step does not touch.
LEMMA ClientKeeps ==
  ASSUME NEW c \in Client, ClientInv(c),
         \/ pipe'[c] = pipe[c]
         \/ pipe[c] # "none" /\ pipe'[c] \in {"writer", "reader"},
         Contains(writers', c) <=> Contains(writers, c),
         reader'[c] = "none" <=> reader[c] = "none",
         pipe[c] = "none" => buf'[c] = buf[c] /\ got'[c] = got[c],
         UNCHANGED world
  PROVE  ClientInv(c)'
BY DEF ClientInv

\* The monitor and the copier's end: Close shuts pipes, and nothing else.
LEMMA ListClose ==
  ASSUME TypeInv, ListInv, NEW r \in Run, Close(r),
         UNCHANGED <<world, at, failed, buf, reader, got>>,
         \A q \in Run : copier'[q] = copier[q] \/ copier'[q] = "done"
  PROVE  ListInv'
<1>1. ASSUME NEW c \in Client
      PROVE  /\ pipe'[c] = pipe[c] \/ (pipe[c] = "open" /\ pipe'[c] = "writer")
             /\ writers' = writers
  BY DEF Close
<1>2. ASSUME NEW c \in Client PROVE ClientInv(c)'
  <2>1. ClientInv(c)
    BY DEF ListInv
  <2> QED BY <1>1, <2>1, ClientKeeps
<1>3. VisitPipe'
  BY <1>1 DEF ListInv, VisitPipe, Visiting
<1>4. FailedClosed'
  <2>1. ASSUME NEW q \in Run, NEW i \in 1 .. Len(failed[q])
        PROVE  pipe'[failed[q][i]] \notin {"open", "none"}
    <3>1. failed[q][i] \in Client /\ pipe[failed[q][i]] \notin {"open", "none"}
      BY ElementOfSeq DEF ListInv, FailedClosed, TypeInv, TypeOK
    <3> QED BY <1>1, <3>1
  <2> QED BY <2>1 DEF FailedClosed
<1>5. OnePending'
  BY DEF ListInv, OnePending
<1>6. Distinct(writers)'
  BY DEF ListInv, Close
<1> QED BY <1>2, <1>3, <1>4, <1>5, <1>6 DEF ListInv

\* A run begins with the list as it is, and ends by closing the pipes in it.
LEMMA ListRun ==
  ASSUME TypeInv, RunsInv, ListInv,
         \/ Start
         \/ \E r \in Run : Output(r) \/ Exit(r) \/ MonitorStep(r) \/ CopierEnd(r)
  PROVE  ListInv'
<1>1. CASE Start
  <2>1. /\ run' = run + 1 /\ run \in Nat /\ run + 1 \in Run
        /\ copier' = [copier EXCEPT ![run + 1] = "read"]
        /\ UNCHANGED <<world, at, failed, writers, pipe, buf, reader, got>>
    BY <1>1, WorldParts DEF TypeInv, TypeOK, Start, Run, clients
  <2>2. \A q \in Run : copier'[q] = copier[q] \/ copier'[q] = "read"
    BY <2>1 DEF TypeInv, TypeOK
  <2>3. VisitPipe' /\ OnePending'
    BY <2>1, <2>2 DEF ListInv, VisitPipe, OnePending, Visiting
  <2> QED BY <2>1, <2>3 DEF ListInv, ClientInv, FailedClosed
<1>2. ASSUME NEW r \in Run, Output(r) \/ Exit(r) \/ MonitorWait(r)
      PROVE  ListInv'
  <2>1. UNCHANGED <<world, copier, at, failed, writers, pipe, buf, reader, got>>
    BY <1>2 DEF Output, Exit, MonitorWait, runs, copiers, clients
  <2> QED BY <2>1 DEF ListInv, ClientInv, VisitPipe, FailedClosed,
             OnePending, Visiting
<1>3. ASSUME NEW r \in Run, MonitorClose(r) PROVE ListInv'
  BY <1>3, ListClose DEF MonitorClose, copiers, clients
<1>4. ASSUME NEW r \in Run, CopierEnd(r) PROVE ListInv'
  <2>1. /\ UNCHANGED <<world, at, failed, buf, reader, got>>
        /\ copier' = [copier EXCEPT ![r] = "done"]
        /\ Close(r) \/ UNCHANGED <<pipe, writers>>
    BY <1>4 DEF CopierEnd, CopierAt, clients
  <2>2. \A q \in Run : copier'[q] = copier[q] \/ copier'[q] = "done"
    BY <2>1 DEF TypeInv, TypeOK
  <2>3. CASE Close(r)
    BY <2>1, <2>2, <2>3, ListClose
  <2>4. CASE UNCHANGED <<pipe, writers>>
    <3>1. VisitPipe' /\ OnePending'
      BY <2>1, <2>2, <2>4 DEF ListInv, VisitPipe, OnePending, Visiting
    <3> QED BY <2>1, <2>4, <3>1 DEF ListInv, ClientInv, FailedClosed
  <2> QED BY <2>1, <2>3, <2>4
<1> QED BY <1>1, <1>2, <1>3, <1>4 DEF MonitorStep

\* The copier marks who has failed, and nobody else.
LEMMA ListCopier ==
  ASSUME TypeInv, ListInv, NEW r \in Run,
         \/ CopierRead(r) \/ WriteLog(r) \/ Offer(r) \/ OfferFails(r)
         \/ Evicted(r)
  PROVE  ListInv'
<1> USE DEF CopierAt
<1>1. UNCHANGED <<world, writers, pipe, buf, reader, got>>
  BY DEF CopierRead, WriteLog, Offer, OfferFails, Evicted, clients
<1>2. \A c \in Client : ClientInv(c)'
  BY <1>1 DEF ListInv, ClientInv
<1>3. CASE CopierRead(r)
  <2>1. failed' = failed /\ Visit(r, "log")
    BY <1>3, HeadTailProperties DEF CopierRead, TypeInv, TypeOK, LogFirst
  <2>2. ASSUME NEW q \in Run
        PROVE  /\ q # r => copier'[q] = copier[q] /\ at'[q] = at[q]
               /\ q = r => at'[q] = "log" /\ copier'[q] = "offer"
    BY <2>1 DEF Visit, None, TypeInv, TypeOK
  <2>3. VisitPipe' /\ OnePending'
    BY <1>1, <2>2 DEF ListInv, VisitPipe, OnePending, Visiting
  <2> QED BY <1>1, <1>2, <2>1, <2>3 DEF ListInv, FailedClosed
<1>4. CASE WriteLog(r)
  <2>1. failed' = failed /\ Visit(r, NextWriter("log"))
    BY <1>4 DEF WriteLog
  <2>2. VisitPipe' /\ OnePending'
    BY <1>1, <2>1, ListVisit
  <2> QED BY <1>1, <1>2, <2>1, <2>2 DEF ListInv, FailedClosed
<1>5. CASE Fail(r) /\ (Offer(r) \/ OfferFails(r)) /\ pipe[at[r]] # "open"
  <2>1. VisitPipe' /\ OnePending'
    BY <1>1, <1>5, ListVisit DEF Fail
  <2>2. at[r] \in Client /\ Visiting(r)
    BY <1>5 DEF Offer, OfferFails, TypeInv, AtPipe, Visiting
  <2>3. pipe[at[r]] \notin {"open", "none"}
    BY <1>5, <2>2, WorldParts DEF ListInv, VisitPipe, TypeInv, TypeOK
  <2>4. ASSUME NEW q \in Run, NEW i \in 1 .. Len(failed'[q])
        PROVE  pipe[failed'[q][i]] \notin {"open", "none"}
    <3>1. CASE q = r
      <4>1. failed[q] \in Seq(Client) /\ failed'[q] = Append(failed[q], at[r])
        BY <1>5, <3>1 DEF Fail, TypeInv, TypeOK
      <4>2. /\ Len(failed'[q]) = Len(failed[q]) + 1 /\ Len(failed[q]) \in Nat
            /\ failed'[q][Len(failed[q]) + 1] = at[r]
            /\ \A j \in 1 .. Len(failed[q]) : failed'[q][j] = failed[q][j]
        BY <2>2, <4>1, AppendParts
      <4>3. CASE i \in 1 .. Len(failed[q])
        BY <4>2, <4>3 DEF ListInv, FailedClosed
      <4>4. CASE i = Len(failed[q]) + 1
        BY <2>3, <4>2, <4>4
      <4> QED BY <4>2, <4>3, <4>4
    <3>2. CASE q # r
      BY <1>5, <3>2 DEF Fail, ListInv, FailedClosed, TypeInv, TypeOK
    <3> QED BY <3>1, <3>2
  <2>5. FailedClosed'
    BY <1>1, <2>4 DEF FailedClosed
  <2> QED BY <1>1, <1>2, <2>1, <2>5 DEF ListInv
<1>6. CASE Offer(r) /\ pipe[at[r]] = "open"
  <2>1. /\ copier' = [copier EXCEPT ![r] = "pending"] /\ copier[r] = "offer"
        /\ \A q \in Run : ~(copier[q] = "pending" /\ at[q] = at[r])
        /\ UNCHANGED <<at, failed>>
    BY <1>6 DEF Offer
  <2>2. \A q \in Run : copier'[q] = IF q = r THEN "pending" ELSE copier[q]
    BY <2>1 DEF TypeInv, TypeOK
  <2>3. VisitPipe' /\ OnePending'
    BY <1>1, <2>1, <2>2 DEF ListInv, VisitPipe, OnePending, Visiting
  <2> QED BY <1>1, <1>2, <2>1, <2>3 DEF ListInv, FailedClosed
<1>7. CASE Evicted(r)
  <2>1. copier' = [copier EXCEPT ![r] = "read"] /\ UNCHANGED <<at, failed>>
    BY <1>7 DEF Evicted
  <2>2. \A q \in Run : copier'[q] = IF q = r THEN "read" ELSE copier[q]
    BY <2>1 DEF TypeInv, TypeOK
  <2>3. VisitPipe' /\ OnePending'
    BY <1>1, <2>1, <2>2 DEF ListInv, VisitPipe, OnePending, Visiting
  <2> QED BY <1>1, <1>2, <2>1, <2>3 DEF ListInv, FailedClosed
<1>8. Offer(r) /\ pipe[at[r]] # "open" => Fail(r)
  BY DEF Offer
<1>9. OfferFails(r) => Fail(r) /\ pipe[at[r]] # "open"
  BY DEF OfferFails
<1> QED BY <1>3, <1>4, <1>5, <1>6, <1>7, <1>8, <1>9

\* An eviction takes one writer from the list, whose pipe is closed.
LEMMA EvictParts ==
  ASSUME TypeInv, ListInv, NEW r \in Run, Evict(r)
  PROVE  \E w \in Client :
           /\ pipe[w] \notin {"open", "none"}
           /\ Distinct(writers')
           /\ \A v : Contains(writers', v) <=> Contains(writers, v) /\ v # w
           /\ \A u, v : Before(writers', u, v) <=>
                Before(writers, u, v) /\ u # w /\ v # w
           /\ Len(failed'[r]) = Len(failed[r]) - 1
           /\ \A i \in 1 .. (Len(failed[r]) - 1) : failed'[r][i] = failed[r][i + 1]
           /\ \A q \in Run : q # r => failed'[q] = failed[q]
<1> DEFINE w == Head(failed[r])
<1>1. /\ failed[r] \in Seq(Client) /\ failed[r] # <<>>
      /\ failed' = [failed EXCEPT ![r] = Tail(failed[r])]
      /\ writers \in Seq(Writer) /\ Distinct(writers)
  BY DEF Evict, TypeInv, TypeOK, ListInv
<1>2. /\ w \in Client /\ w = failed[r][1] /\ 1 \in 1 .. Len(failed[r])
      /\ Len(failed[r]) \in Nat
      /\ Len(Tail(failed[r])) = Len(failed[r]) - 1
      /\ \A i \in 1 .. (Len(failed[r]) - 1) : Tail(failed[r])[i] = failed[r][i + 1]
  <2>1. Len(failed[r]) \in Nat /\ Len(failed[r]) > 0
    BY <1>1, LenProperties, EmptySeq
  <2> QED BY <1>1, <2>1, HeadTailProperties
<1>3. pipe[w] \notin {"open", "none"}
  BY <1>2 DEF ListInv, FailedClosed
<1>4. /\ Len(failed'[r]) = Len(failed[r]) - 1
      /\ \A i \in 1 .. (Len(failed[r]) - 1) : failed'[r][i] = failed[r][i + 1]
      /\ \A q \in Run : q # r => failed'[q] = failed[q]
  BY <1>1, <1>2 DEF TypeInv, TypeOK
<1> HIDE DEF w
<1>5. /\ Distinct(writers')
      /\ \A v : Contains(writers', v) <=> Contains(writers, v) /\ v # w
      /\ \A u, v : Before(writers', u, v) <=>
           Before(writers, u, v) /\ u # w /\ v # w
  <2>1. CASE Contains(writers, w)
    <3>1. /\ Place(w) \in 1 .. Len(writers) /\ writers[Place(w)] = w
          /\ writers' = RemoveAt(writers, Place(w))
      BY <2>1, PlaceParts DEF Evict, RemoveElement, w
    <3> DEFINE p == Place(w)
    <3>2. /\ p \in 1 .. Len(writers) /\ writers[p] = w
          /\ writers' = RemoveAt(writers, p)
      BY <3>1
    <3> HIDE DEF p
    <3>3. /\ Distinct(RemoveAt(writers, p))
          /\ \A v : Contains(RemoveAt(writers, p), v) <=>
               Contains(writers, v) /\ v # writers[p]
          /\ \A u, v : Before(RemoveAt(writers, p), u, v) <=>
               Before(writers, u, v) /\ u # writers[p] /\ v # writers[p]
      BY <1>1, <3>2, RemoveList, Zenon
    <3> QED BY <3>2, <3>3, Zenon
  <2>2. CASE ~Contains(writers, w)
    <3>1. writers' = writers
      BY <2>2 DEF Evict, RemoveElement, w
    <3>2. \A u, v : Before(writers, u, v) => u # w /\ v # w
      BY <1>1, <2>2, BeforeParts, Zenon
    <3> QED BY <1>1, <2>2, <3>1, <3>2, Zenon
  <2> QED BY <2>1, <2>2
<1> QED BY <1>2, <1>3, <1>4, <1>5, Zenon

\* It removes only clients whose pipe is closed.
LEMMA ListEvict ==
  ASSUME TypeInv, ListInv, NEW r \in Run, Evict(r)
  PROVE  ListInv'
<1>1. UNCHANGED <<world, copier, at, pipe, buf, reader, got>>
  BY DEF Evict, CopierAt, clients
<1>2. PICK w \in Client :
        /\ pipe[w] \notin {"open", "none"}
        /\ Distinct(writers')
        /\ \A v : Contains(writers', v) <=> Contains(writers, v) /\ v # w
        /\ \A u, v : Before(writers', u, v) <=>
             Before(writers, u, v) /\ u # w /\ v # w
        /\ Len(failed'[r]) = Len(failed[r]) - 1
        /\ \A i \in 1 .. (Len(failed[r]) - 1) : failed'[r][i] = failed[r][i + 1]
        /\ \A q \in Run : q # r => failed'[q] = failed[q]
  BY EvictParts
<1>3. \A c \in Client : ClientInv(c)'
  BY <1>1, <1>2 DEF ListInv, ClientInv
<1>4. FailedClosed'
  <2>1. ASSUME NEW q \in Run, NEW i \in 1 .. Len(failed'[q])
        PROVE  pipe[failed'[q][i]] \notin {"open", "none"}
    <3>1. CASE q = r
      <4>1. Len(failed[r]) \in Nat
        BY LenProperties DEF TypeInv, TypeOK
      <4>2. i \in 1 .. (Len(failed[r]) - 1) /\ i + 1 \in 1 .. Len(failed[r])
        BY <1>2, <3>1, <4>1
      <4>3. pipe[failed[r][i + 1]] \notin {"open", "none"}
        BY <4>2 DEF ListInv, FailedClosed
      <4> QED BY <1>2, <3>1, <4>2, <4>3
    <3>2. CASE q # r
      BY <1>2, <3>2 DEF ListInv, FailedClosed
    <3> QED BY <3>1, <3>2
  <2> QED BY <1>1, <2>1 DEF FailedClosed
<1>5. VisitPipe' /\ OnePending'
  BY <1>1 DEF ListInv, VisitPipe, OnePending, Visiting
<1> QED BY <1>2, <1>3, <1>4, <1>5 DEF ListInv

\* What a client reads from its pipe leaves the list as it is.
LEMMA ListDrain ==
  ASSUME TypeInv, ListInv, NEW c \in Client, DrainStep(c)
  PROVE  ListInv'
<1>1. CASE DrainRead(c)
  <2>1. PICK r \in Pending(c) :
          /\ buf' = [buf EXCEPT ![c] = Append(@, Copying(r))]
          /\ Visit(r, NextWriter(c))
    BY <1>1 DEF DrainRead
  <2>2. /\ r \in Run /\ copier[r] = "pending" /\ at[r] = c
        /\ UNCHANGED <<world, writers, pipe, failed, reader, got>>
    BY <1>1 DEF DrainRead, DrainAt, Pending
  <2>3. pipe[c] # "none"
    BY <2>2, WorldParts DEF ListInv, VisitPipe, Visiting, TypeInv, TypeOK
  <2>4. \A d \in Client : buf'[d] = buf[d] \/ d = c
    BY <2>1 DEF TypeInv, TypeOK
  <2>5. \A d \in Client : ClientInv(d)'
    BY <2>2, <2>3, <2>4 DEF ListInv, ClientInv
  <2>6. VisitPipe' /\ OnePending'
    BY <2>1, <2>2, ListVisit
  <2> QED BY <2>2, <2>5, <2>6 DEF ListInv, FailedClosed
<1>2. CASE DrainError(c) \/ DrainSignal(c)
  <2>1. UNCHANGED <<world, writers, pipe, copier, at, failed, buf, got>>
    BY <1>2 DEF DrainError, DrainSignal, DrainAt
  <2>2. \A d \in Client : reader'[d] = "none" <=> reader[d] = "none"
    BY <1>2 DEF DrainError, DrainSignal, TypeInv, TypeOK
  <2> QED BY <2>1, <2>2 DEF ListInv, ClientInv, VisitPipe, FailedClosed,
             OnePending, Visiting
<1> QED BY <1>1, <1>2 DEF DrainStep

\* Who attaches was not in the list: it attaches once.
LEMMA AttachParts ==
  ASSUME TypeInv, ListInv, NEW c \in Client, Attach(c)
  PROVE  /\ pipe[c] = "none" /\ pipe'[c] = "open" /\ c \in world.attaching
         /\ reader[c] = "none" /\ reader'[c] = "attached"
         /\ buf[c] = <<>> /\ got[c] = <<>>
         /\ \A d \in Client : d # c => pipe'[d] = pipe[d] /\ reader'[d] = reader[d]
         /\ Distinct(writers')
         /\ \A v : Contains(writers', v) <=> Contains(writers, v) \/ v = c
         /\ \A u, v : Before(writers', u, v) <=>
              Before(writers, u, v) \/ (Contains(writers, u) /\ v = c)
         /\ UNCHANGED <<Daemon, buf, err, got, closedIn>>
<1>1. /\ c \in world.attaching /\ reader[c] = "none"
      /\ reader' = [reader EXCEPT ![c] = "attached"]
      /\ pipe' = [pipe EXCEPT ![c] = "open"]
      /\ writers' = Append(writers, c)
      /\ UNCHANGED <<Daemon, buf, err, got, closedIn>>
  BY DEF Attach, ReaderAt
<1>2. pipe[c] = "none" /\ ~Contains(writers, c) /\ buf[c] = <<>> /\ got[c] = <<>>
  BY <1>1 DEF ListInv, ClientInv
<1>3. writers \in Seq(Writer) /\ c \in Writer /\ Distinct(writers)
  BY DEF TypeInv, TypeOK, Writer, ListInv
<1>4. /\ Distinct(Append(writers, c))
      /\ \A u, v : Before(Append(writers, c), u, v) <=>
           Before(writers, u, v) \/ (Contains(writers, u) /\ v = c)
  BY <1>2, <1>3, AppendList, Zenon
<1>5. \A v : Contains(Append(writers, c), v) <=> Contains(writers, v) \/ v = c
  BY <1>3, AppendParts
<1>6. /\ pipe'[c] = "open" /\ reader'[c] = "attached"
      /\ \A d \in Client : d # c => pipe'[d] = pipe[d] /\ reader'[d] = reader[d]
  BY <1>1 DEF TypeInv, TypeOK
<1> QED BY <1>1, <1>2, <1>4, <1>5, <1>6, Zenon

\* A client joins the list once, at its end.
LEMMA ListClient ==
  ASSUME TypeInv, ListInv, NEW c \in Client,
         Attach(c) \/ Abandon(c) \/ ReadStep(c)
  PROVE  ListInv'
<1> USE DEF Daemon, copiers
<1>0. ASSUME UNCHANGED <<copier, at, failed>>,
             \A d \in Client :
               pipe[d] \notin {"none", "open"} => pipe'[d] = pipe[d],
             \A d \in Client : pipe[d] # "none" => pipe'[d] # "none"
      PROVE  VisitPipe' /\ FailedClosed' /\ OnePending'
  <2>1. VisitPipe' /\ OnePending'
    BY <1>0 DEF ListInv, VisitPipe, OnePending, Visiting
  <2>2. ASSUME NEW q \in Run, NEW i \in 1 .. Len(failed[q])
        PROVE  pipe'[failed[q][i]] \notin {"open", "none"}
    <3>1. failed[q][i] \in Client /\ pipe[failed[q][i]] \notin {"open", "none"}
      BY ElementOfSeq DEF ListInv, FailedClosed, TypeInv, TypeOK
    <3> QED BY <1>0, <3>1
  <2>3. FailedClosed'
    BY <1>0, <2>2 DEF FailedClosed
  <2> QED BY <2>1, <2>3
<1>1. CASE Attach(c)
  <2>1. VisitPipe' /\ FailedClosed' /\ OnePending'
    BY <1>0, <1>1, AttachParts
  <2>2. \A d \in Client : ClientInv(d)'
    BY <1>1, AttachParts DEF ListInv, ClientInv
  <2>3. Distinct(writers)'
    BY <1>1, AttachParts
  <2> QED BY <2>1, <2>2, <2>3 DEF ListInv
<1>2. CASE Abandon(c)
  <2>1. /\ reader[c] = "attached" /\ reader' = [reader EXCEPT ![c] = "gone"]
        /\ pipe' = [pipe EXCEPT ![c] = "reader"]
        /\ UNCHANGED <<Daemon, writers, buf, got>>
    BY <1>2 DEF Abandon, ReaderAt
  <2>2. pipe[c] # "none"
    BY <2>1 DEF ListInv, ClientInv
  <2>3. \A d \in Client :
          /\ pipe'[d] = IF d = c THEN "reader" ELSE pipe[d]
          /\ reader'[d] = IF d = c THEN "gone" ELSE reader[d]
    BY <2>1 DEF TypeInv, TypeOK
  <2>4. \A d \in Client : ClientInv(d)'
    BY <2>1, <2>2, <2>3 DEF ListInv, ClientInv
  <2>5. VisitPipe' /\ OnePending'
    BY <2>1, <2>3 DEF ListInv, VisitPipe, OnePending, Visiting
  <2>6. ASSUME NEW q \in Run, NEW i \in 1 .. Len(failed[q])
        PROVE  pipe'[failed[q][i]] \notin {"open", "none"}
    <3>1. failed[q][i] \in Client /\ pipe[failed[q][i]] \notin {"open", "none"}
      BY ElementOfSeq DEF ListInv, FailedClosed, TypeInv, TypeOK
    <3> QED BY <2>3, <3>1
  <2>7. FailedClosed'
    BY <2>1, <2>6 DEF FailedClosed
  <2> QED BY <2>1, <2>4, <2>5, <2>7 DEF ListInv
<1>3. CASE ReadStep(c)
  <2>1. /\ UNCHANGED <<Daemon, writers, pipe>> /\ reader[c] # "none"
        /\ \A d \in Client : d # c => reader'[d] = reader[d]
        /\ reader'[c] # "none"
        /\ \A d \in Client : d # c => buf'[d] = buf[d] /\ got'[d] = got[d]
    BY <1>3 DEF ReadStep, Begin, Take, Check, Sleep, ReaderStep, ReaderAt,
       TypeInv, TypeOK
  <2>2. pipe[c] # "none"
    BY <2>1 DEF ListInv, ClientInv
  <2>3. \A d \in Client : ClientInv(d)'
    BY <2>1, <2>2 DEF ListInv, ClientInv
  <2> QED BY <2>1, <2>3 DEF ListInv, VisitPipe, FailedClosed, OnePending, Visiting
<1> QED BY <1>1, <1>2, <1>3

\* At first the list is the log,
LEMMA ListInit == Init => ListInv
<1> SUFFICES ASSUME Init PROVE ListInv
  OBVIOUS
<1>1. /\ writers = <<"log">> /\ \A c \in Client : ~Contains(writers, c)
      /\ Distinct(writers)
  BY StreamsAssumption DEF Init, Contains, Distinct
<1>2. \A c \in Client : ClientInv(c)
  BY <1>1 DEF Init, ClientInv
<1> QED BY <1>1, <1>2 DEF Init, ListInv, VisitPipe, FailedClosed, OnePending,
           Visiting

\* ... and every step keeps it.
LEMMA ListStep == TypeInv /\ RunsInv /\ ListInv /\ [Next]_vars => ListInv'
<1> SUFFICES ASSUME TypeInv, RunsInv, ListInv, [Next]_vars PROVE ListInv'
  OBVIOUS
<1>1. CASE UNCHANGED vars
  BY <1>1 DEF vars, ListInv, ClientInv, VisitPipe, FailedClosed, OnePending,
     Visiting
<1>2. CASE Next
  BY <1>2, ListRun, ListCopier, ListEvict, ListDrain, ListClient
  DEF Next, CopierStep
<1> QED BY <1>1, <1>2

-----------------------------------------------------------------------------
(* What a client has been given.                                            *)

\* The write of copier r is still to come to c; how far c has been given the
\* output of r; and whether c is given any more of it.
NotYet(c, r) == Visiting(r) /\ (at[r] = c \/ Before(writers, at[r], c))
Reached(c, r) == IF NotYet(c, r) THEN copied[r] - 1 ELSE copied[r]
Live(c, r) == pipe[c] = "open" \/ (copier[r] = "pending" /\ at[r] = c)

GapOf(c) == /\ InSequence(Received(c))
            /\ \A r \in Run : Live(c, r) => UpTo(Received(c), r, Reached(c, r))
AllOf(c) ==
  \A r \in Run : Live(c, r) => \A i \in (since[c][r] + 1) .. Reached(c, r) :
    Contains(Received(c), <<r, i>>)
GivenInv == Undisturbed => \A c \in Client : GapOf(c) /\ AllOf(c)

\* Two copiers are at work only with a tty, and then there is one client.
LEMMA OneAtWork ==
  ASSUME TypeInv, RunsInv, Undisturbed, NEW q \in Run, NEW r \in Run, q # r,
         copier[q] \notin {"none", "done"}, copier[r] \notin {"none", "done"},
         NEW c \in world.attaching, NEW d \in world.attaching
  PROVE  c = d
<1>1. q \in Nat /\ r \in Nat /\ q > 0 /\ r > 0 /\ run \in Nat
  BY WorldParts DEF Run, TypeInv, TypeOK
<1>2. q <= run /\ r <= run /\ run <= Len(world.chunks)
  BY <1>1 DEF RunsInv, RunInv
<1>3. CASE ~world.tty
  <2>1. \A p \in Run : p < run => copier[p] = "done"
    BY <1>3 DEF RunsInv, RunInv
  <2> QED BY <1>1, <1>2, <2>1
<1>4. CASE world.tty
  <2>1. Len(world.chunks) \in Nat
    BY WorldParts DEF TypeInv, TypeOK
  <2>2. Len(world.chunks) > 1
    BY <1>1, <1>2, <2>1
  <2>3. ~(Len(world.chunks) <= 1)
    BY <2>1, <2>2
  <2> QED BY <1>4, <2>3 DEF Undisturbed
<1> QED BY <1>3, <1>4

\* A step that gives c nothing, and takes no write past it.
SameFor(c) ==
  /\ Received(c)' = Received(c) /\ since'[c] = since[c]
  /\ \A r \in Run : Live(c, r)' => Live(c, r) /\ Reached(c, r)' = Reached(c, r)

\* What a client was given is right if nothing about it has changed.
LEMMA GivenKeeps ==
  ASSUME NEW c \in Client, GapOf(c), AllOf(c), SameFor(c)
  PROVE  GapOf(c)' /\ AllOf(c)'
<1>1. InSequence(Received(c))'
  BY DEF GapOf, SameFor
<1>2. ASSUME NEW r \in Run, Live(c, r)'
      PROVE  /\ UpTo(Received(c), r, Reached(c, r))'
             /\ \A i \in (since'[c][r] + 1) .. Reached(c, r)' :
                  Contains(Received(c)', <<r, i>>)
  <2>1. /\ Live(c, r) /\ Reached(c, r)' = Reached(c, r)
        /\ Received(c)' = Received(c) /\ since'[c] = since[c]
    BY <1>2 DEF SameFor
  <2>2. UpTo(Received(c), r, Reached(c, r))
    BY <2>1 DEF GapOf
  <2>3. \A i \in (since[c][r] + 1) .. Reached(c, r) :
          Contains(Received(c), <<r, i>>)
    BY <2>1 DEF AllOf
  <2> QED BY <2>1, <2>2, <2>3, Zenon
<1> QED BY <1>1, <1>2 DEF GapOf, AllOf

\* Steps that leave every visit where it is and the list as it is.
LEMMA GivenQuiet ==
  ASSUME GivenInv, UNCHANGED <<world, writers, at, copied, since>>,
         \A r \in Run : Visiting(r)' <=> Visiting(r),
         \A r \in Run : copier'[r] = "pending" =>
           copier[r] = "pending" \/ pipe[at[r]] = "open",
         \A c \in Client : pipe'[c] = "open" => pipe[c] = "open",
         \A c \in Client : Received(c)' = Received(c)
  PROVE  GivenInv'
<1> SUFFICES ASSUME Undisturbed
             PROVE  \A c \in Client : GapOf(c)' /\ AllOf(c)'
  BY DEF GivenInv, Undisturbed
<1>2. ASSUME NEW c \in Client PROVE SameFor(c)
  <2>1. \A r \in Run : Live(c, r)' => Live(c, r)
    BY DEF Live
  <2>2. \A r \in Run : Reached(c, r)' = Reached(c, r)
    BY DEF Reached, NotYet
  <2> QED BY <2>1, <2>2 DEF SameFor
<1>3. ASSUME NEW c \in Client PROVE GapOf(c)' /\ AllOf(c)'
  BY <1>2, GivenKeeps DEF GivenInv
<1> QED BY <1>3

\* A visit that goes on has passed one writer, and nobody else.
LEMMA VisitGoesOn ==
  ASSUME TypeInv, ListInv, NEW r \in Run,
         Visiting(r), Visit(r, NextWriter(at[r])), UNCHANGED writers
  PROVE  /\ \A q \in Run : q # r => copier'[q] = copier[q] /\ at'[q] = at[q]
         /\ copier'[r] # "pending"
         /\ \A c \in Client, q \in Run :
              NotYet(c, q)' <=> NotYet(c, q) /\ ~(q = r /\ c = at[r])
<1> DEFINE w == at[r]
           n == NextWriter(w)
<1>1. /\ \A q \in Run : q # r => copier'[q] = copier[q] /\ at'[q] = at[q]
      /\ at'[r] = n
      /\ copier'[r] = IF n = None THEN "evict" ELSE "offer"
  BY DEF Visit, TypeInv, TypeOK
<1> HIDE DEF w, n
<1>2. /\ n # None =>
           /\ Contains(writers, n) /\ n \in Client /\ Contains(writers, w)
           /\ \A v : Before(writers, w, v) <=> v = n \/ Before(writers, n, v)
      /\ n = None /\ Contains(writers, w) => \A v : ~Before(writers, w, v)
  BY NextWriterParts DEF ListInv, w, n
<1>3. ASSUME NEW c \in Client, NEW q \in Run
      PROVE  NotYet(c, q)' <=> NotYet(c, q) /\ ~(q = r /\ c = w)
  <2>1. CASE q # r
    BY <1>1, <2>1 DEF NotYet, Visiting
  <2>2. CASE q = r /\ n # None
    <3>1. NotYet(c, r)' <=> n = c \/ Before(writers, n, c)
      BY <1>1, <2>2 DEF NotYet, Visiting
    <3>2. NotYet(c, r) <=> w = c \/ Before(writers, w, c)
      BY DEF NotYet, w
    <3>3. ~Before(writers, w, w)
      BY BeforeParts DEF ListInv
    <3> QED BY <1>2, <2>2, <3>1, <3>2, <3>3
  <2>3. CASE q = r /\ n = None
    <3>1. ~NotYet(c, r)'
      BY <1>1, <2>3 DEF NotYet, Visiting
    <3>2. NotYet(c, r) <=> w = c \/ Before(writers, w, c)
      BY DEF NotYet, w
    <3>3. Before(writers, w, c) => Contains(writers, w)
      BY BeforeParts DEF ListInv
    <3> QED BY <1>2, <2>3, <3>1, <3>2, <3>3
  <2> QED BY <2>1, <2>2, <2>3
<1> QED BY <1>1, <1>3 DEF w, None

\* For the others nothing has changed.
LEMMA VisitSame ==
  ASSUME TypeInv, ListInv, NEW r \in Run,
         Visiting(r), Visit(r, NextWriter(at[r])),
         UNCHANGED <<writers, pipe, copied, since>>,
         NEW c \in Client, Received(c)' = Received(c),
         c # at[r] \/ pipe[c] # "open"
  PROVE  SameFor(c)
<1>1. /\ \A q \in Run : q # r => copier'[q] = copier[q] /\ at'[q] = at[q]
      /\ copier'[r] # "pending"
      /\ \A q \in Run : NotYet(c, q)' <=> NotYet(c, q) /\ ~(q = r /\ c = at[r])
  BY VisitGoesOn
<1>2. ASSUME NEW q \in Run, Live(c, q)'
      PROVE  Live(c, q) /\ Reached(c, q)' = Reached(c, q)
  <2>1. Live(c, q) /\ ~(q = r /\ c = at[r])
    BY <1>1, <1>2 DEF Live
  <2>2. NotYet(c, q)' <=> NotYet(c, q)
    BY <1>1, <2>1
  <2> QED BY <2>1, <2>2 DEF Reached
<1> QED BY <1>2 DEF SameFor

\* What drain reads comes in at the end.
LEMMA ReadReceived ==
  ASSUME TypeInv, NEW c \in Client, DrainRead(c), NEW r \in Run,
         buf' = [buf EXCEPT ![c] = Append(@, Copying(r))]
  PROVE  /\ Copying(r) \in Chunk /\ Received(c) \in Seq(Chunk)
         /\ Received(c)' = Append(Received(c), Copying(r))
         /\ \A e \in Client : e # c => Received(e)' = Received(e)
<1> DEFINE x == Copying(r)
<1>1. /\ got[c] \in Seq(Chunk) /\ buf[c] \in Seq(Chunk) /\ x \in Chunk
      /\ got' = got
  BY CopyingType DEF TypeInv, TypeOK, DrainRead
<1>2. got[c] \o Append(buf[c], x) = Append(got[c] \o buf[c], x)
  <2> DEFINE AtTheEnd(g, b, y) == g \o Append(b, y) = Append(g \o b, y)
  <2>1. \A g, b \in Seq(Chunk) : \A y \in Chunk : AtTheEnd(g, b, y)
    BY AppendWaits
  <2> HIDE DEF AtTheEnd, x
  <2>2. AtTheEnd(got[c], buf[c], x)
    BY <1>1, <2>1, Zenon
  <2> QED BY <2>2 DEF AtTheEnd
<1>3. Received(c) \in Seq(Chunk)
  BY <1>1, TakeAll, Zenon DEF Received
<1>4. buf'[c] = Append(buf[c], x) /\ \A e \in Client : e # c => buf'[e] = buf[e]
  BY DEF TypeInv, TypeOK
<1> QED BY <1>1, <1>2, <1>3, <1>4, Zenon DEF Received

\* The write at c is done, and the chunk is c's.
LEMMA GivenRead ==
  ASSUME TypeInv, ListInv, GivenInv, NEW c \in Client, DrainRead(c)
  PROVE  GivenInv'
<1> SUFFICES ASSUME Undisturbed, NEW d \in Client
             PROVE  GapOf(d)' /\ AllOf(d)'
  BY DEF GivenInv, Undisturbed, DrainRead, DrainAt
<1>1. PICK r \in Pending(c) :
        /\ buf' = [buf EXCEPT ![c] = Append(@, Copying(r))]
        /\ Visit(r, NextWriter(c))
  BY DEF DrainRead
<1>2. /\ r \in Run /\ copier[r] = "pending" /\ at[r] = c /\ Visiting(r)
      /\ UNCHANGED <<world, runs, writers, pipe, copied, since, got>>
  BY DEF DrainRead, DrainAt, Pending, Visiting
<1> DEFINE x == Copying(r)
           s == Received(c)
<1>3. x \in Chunk /\ x = <<r, copied[r]>> /\ x[1] = r /\ x[2] = copied[r]
  BY <1>2, CopyingType DEF Copying, TypeInv
<1>4. /\ s \in Seq(Chunk) /\ Received(c)' = Append(s, x)
      /\ \A e \in Client : e # c => Received(e)' = Received(e)
  BY <1>1, <1>2, ReadReceived
<1>5. /\ \A q \in Run : q # r => copier'[q] = copier[q] /\ at'[q] = at[q]
      /\ copier'[r] # "pending"
      /\ \A e \in Client, q \in Run :
           NotYet(e, q)' <=> NotYet(e, q) /\ ~(q = r /\ e = at[r])
  BY <1>1, <1>2, VisitGoesOn
<1>6. CASE d # c
  <2>1. SameFor(d)
    BY <1>1, <1>2, <1>4, <1>6, VisitSame
  <2> QED BY <2>1, GivenKeeps DEF GivenInv
<1>7. CASE d = c
  <2>1. Live(c, r) /\ Reached(c, r) = x[2] - 1 /\ Reached(c, r)' = x[2]
    BY <1>2, <1>3, <1>5 DEF Live, Reached, NotYet
  <2>2. InSequence(s) /\ UpTo(s, r, x[2] - 1)
    <3>1. GapOf(c)
      BY DEF GivenInv
    <3>2. InSequence(s) /\ UpTo(s, r, Reached(c, r))
      BY <1>2, <2>1, <3>1, Zenon DEF GapOf
    <3> QED BY <2>1, <3>2, Zenon
  <2> HIDE DEF x, s
  <2>3. InSequence(Append(s, x)) /\ UpTo(Append(s, x), r, x[2])
    BY <1>3, <1>4, <2>2, AppendNext
  <2>4. ASSUME NEW q \in Run, q # r, Live(c, q)'
        PROVE  Live(c, q) /\ Reached(c, q)' = Reached(c, q)
    BY <1>2, <1>5, <2>4 DEF Live, Reached
  <2>5. ASSUME NEW q \in Run, q # r, Live(c, q)'
        PROVE  UpTo(Append(s, x), q, Reached(c, q))
    <3>1. UpTo(s, q, Reached(c, q))
      BY <2>4, <2>5 DEF GivenInv, GapOf, s
    <3> QED BY <1>3, <1>4, <2>5, <3>1, AppendOther
  <2>6. GapOf(c)'
    BY <1>4, <2>1, <2>3, <2>4, <2>5 DEF GapOf
  <2>7. \A y : Contains(Append(s, x), y) <=> Contains(s, y) \/ y = x
    BY <1>3, <1>4, AppendParts
  <2>8. ASSUME NEW q \in Run, Live(c, q)',
               NEW i \in (since[c][q] + 1) .. Reached(c, q)'
        PROVE  Contains(Append(s, x), <<q, i>>)
    <3>1. CASE q # r
      <4>1. Contains(s, <<q, i>>)
        BY <2>4, <2>8, <3>1 DEF GivenInv, AllOf, s
      <4> QED BY <2>7, <4>1
    <3>2. CASE q = r /\ i = x[2]
      BY <1>3, <2>7, <3>2
    <3>3. CASE q = r /\ i # x[2]
      <4>1. i \in (since[c][r] + 1) .. (x[2] - 1)
        <5>1. i \in (since[c][r] + 1) .. x[2]
          BY <2>1, <2>8, <3>3
        <5>2. x[2] \in Nat /\ since[c][r] \in Nat
          BY <1>2, <1>3 DEF TypeInv, TypeOK
        <5> QED BY <3>3, <5>1, <5>2
      <4>2. Contains(s, <<r, i>>)
        <5>1. AllOf(c)
          BY DEF GivenInv
        <5>2. i \in (since[c][r] + 1) .. Reached(c, r)
          BY <2>1, <4>1, Zenon
        <5> QED BY <1>2, <2>1, <5>1, <5>2, Zenon DEF AllOf, s
      <4> QED BY <2>7, <3>3, <4>2
    <3> QED BY <3>1, <3>2, <3>3
  <2>9. AllOf(c)'
    BY <1>2, <1>4, <2>8 DEF AllOf
  <2> QED BY <1>7, <2>6, <2>9
<1> QED BY <1>6, <1>7

\* Who attaches is given what comes from now on.
LEMMA GivenAttach ==
  ASSUME TypeInv, ListInv, GivenInv, NEW c \in Client, Attach(c)
  PROVE  GivenInv'
<1> SUFFICES ASSUME Undisturbed, NEW d \in Client
             PROVE  GapOf(d)' /\ AllOf(d)'
  BY DEF GivenInv, Undisturbed, Attach, Daemon
<1>1. /\ UNCHANGED <<world, copied, copier, at, buf, got>>
      /\ since' = [since EXCEPT ![c] = copied]
      /\ \A u, v : Before(writers', u, v) <=>
           Before(writers, u, v) \/ (Contains(writers, u) /\ v = c)
      /\ \A e \in Client : e # c => pipe'[e] = pipe[e]
      /\ buf[c] = <<>> /\ got[c] = <<>>
  BY AttachParts DEF Attach, Daemon, copiers
<1>2. CASE d # c
  <2>1. SameFor(d)
    BY <1>1, <1>2 DEF SameFor, Live, Reached, NotYet, Visiting, Received,
       TypeInv, TypeOK
  <2> QED BY <2>1, GivenKeeps DEF GivenInv
<1>3. CASE d = c
  <2>1. Received(c)' = <<>> /\ Len(<<>>) = 0
    BY <1>1 DEF Received
  <2>2. InSequence(<<>>) /\ \A r, f : UpTo(<<>>, r, f)
    BY <2>1 DEF InSequence, UpTo
  <2>3. GapOf(c)'
    BY <2>1, <2>2, Zenon DEF GapOf
  <2>4. ASSUME NEW r \in Run
        PROVE  (since'[c][r] + 1) .. Reached(c, r)' = {}
    <3>1. /\ since'[c][r] = copied[r] /\ copied[r] \in Nat
          /\ Reached(c, r)' = copied[r] \/ Reached(c, r)' = copied[r] - 1
      BY <1>1 DEF TypeInv, TypeOK, Reached
    <3> QED BY <3>1
  <2>5. AllOf(c)'
    BY <2>4, Zenon DEF AllOf
  <2> QED BY <1>3, <2>3, <2>5
<1> QED BY <1>2, <1>3

\* Nobody behind the writer evicted is being passed over.
LEMMA GivenEvict ==
  ASSUME TypeInv, RunsInv, ListInv, GivenInv, NEW r \in Run, Evict(r)
  PROVE  GivenInv'
<1> SUFFICES ASSUME Undisturbed, NEW d \in Client
             PROVE  GapOf(d)' /\ AllOf(d)'
  BY DEF GivenInv, Undisturbed, Evict, CopierAt
<1>1. /\ copier[r] = "evict"
      /\ UNCHANGED <<world, copied, copier, at, pipe, buf, got, since>>
  BY DEF Evict, CopierAt, clients
<1>2. PICK w \in Client :
        /\ pipe[w] \notin {"open", "none"}
        /\ \A u, v : Before(writers', u, v) <=>
             Before(writers, u, v) /\ u # w /\ v # w
  BY EvictParts
<1>3. w \in world.attaching
  BY <1>2 DEF ListInv, ClientInv
<1>4. ASSUME NEW q \in Run, Live(d, q)
      PROVE  NotYet(d, q)' <=> NotYet(d, q)
  <2>1. CASE ~Visiting(q) \/ at[q] = d
    BY <1>1, <2>1 DEF NotYet, Visiting
  <2>2. CASE Visiting(q) /\ at[q] # d
    <3>1. pipe[d] = "open"
      BY <1>4, <2>2 DEF Live
    <3>2. d # w /\ d \in world.attaching
      BY <1>2, <3>1 DEF ListInv, ClientInv
    <3>3. at[q] # w
      <4>1. q # r /\ copier[q] \notin {"none", "done"}
            /\ copier[r] \notin {"none", "done"}
        BY <1>1, <2>2 DEF Visiting
      <4> QED BY <1>3, <3>2, <4>1, OneAtWork
    <3>4. Before(writers', at[q], d) <=> Before(writers, at[q], d)
      BY <1>2, <3>2, <3>3
    <3> QED BY <1>1, <2>2, <3>4 DEF NotYet, Visiting
  <2> QED BY <2>1, <2>2
<1>5. SameFor(d)
  BY <1>1, <1>4 DEF SameFor, Live, Reached, Received
<1> QED BY <1>5, GivenKeeps DEF GivenInv

\* Runs give nothing to anybody.
LEMMA GivenRun ==
  ASSUME TypeInv, RunsInv, GivenInv,
         \/ Start
         \/ \E r \in Run : Output(r) \/ Exit(r) \/ MonitorStep(r) \/ CopierEnd(r)
  PROVE  GivenInv'
<1>1. CASE Start
  <2>1. /\ run \in Nat /\ run + 1 \in Run
        /\ copier' = [copier EXCEPT ![run + 1] = "read"]
        /\ UNCHANGED <<world, copied, at, writers, pipe, buf, got, since>>
    BY <1>1, WorldParts DEF TypeInv, TypeOK, Start, Run, clients
  <2>2. copier[run + 1] = "none"
    BY <2>1 DEF RunsInv, RunInv
  <2>3. \A q \in Run : copier'[q] = IF q = run + 1 THEN "read" ELSE copier[q]
    BY <2>1 DEF TypeInv, TypeOK
  <2>4. \A q \in Run : Visiting(q)' <=> Visiting(q)
    BY <2>2, <2>3 DEF Visiting
  <2> QED BY <2>1, <2>3, <2>4, GivenQuiet DEF Received
<1>2. ASSUME NEW r \in Run, Output(r) \/ Exit(r) \/ MonitorWait(r)
      PROVE  GivenInv'
  <2>1. UNCHANGED <<world, copied, copier, at, writers, pipe, buf, got, since>>
    BY <1>2 DEF Output, Exit, MonitorWait, runs, copiers, clients
  <2> QED BY <2>1, GivenQuiet DEF Visiting, Received
<1>3. ASSUME NEW r \in Run, MonitorClose(r) PROVE GivenInv'
  <2>1. /\ UNCHANGED <<world, copied, copier, at, writers, buf, got, since>>
        /\ \A c \in Client : pipe'[c] = "open" => pipe[c] = "open"
    BY <1>3 DEF MonitorClose, Close, runs, copiers, clients
  <2> QED BY <2>1, GivenQuiet DEF Visiting, Received
<1>4. ASSUME NEW r \in Run, CopierEnd(r) PROVE GivenInv'
  <2>1. /\ UNCHANGED <<world, copied, at, writers, buf, got, since>>
        /\ copier[r] = "read" /\ copier' = [copier EXCEPT ![r] = "done"]
        /\ \A c \in Client : pipe'[c] = "open" => pipe[c] = "open"
    BY <1>4 DEF CopierEnd, CopierAt, Close, clients
  <2>2. \A q \in Run : copier'[q] = IF q = r THEN "done" ELSE copier[q]
    BY <2>1 DEF TypeInv, TypeOK
  <2>3. \A q \in Run : Visiting(q)' <=> Visiting(q)
    BY <2>1, <2>2 DEF Visiting
  <2> QED BY <2>1, <2>2, <2>3, GivenQuiet DEF Received
<1> QED BY <1>1, <1>2, <1>3, <1>4 DEF MonitorStep

\* Nor does the copier before a client reads.
LEMMA GivenCopier ==
  ASSUME TypeInv, ListInv, GivenInv, NEW r \in Run,
         \/ CopierRead(r) \/ WriteLog(r) \/ Offer(r) \/ OfferFails(r)
         \/ Evicted(r)
  PROVE  GivenInv'
<1> USE DEF CopierAt
<1>1. UNCHANGED <<world, writers, pipe, buf, got, since>>
  BY DEF CopierRead, WriteLog, Offer, OfferFails, Evicted, clients
<1>2. \A c \in Client : Received(c)' = Received(c)
  BY <1>1 DEF Received
<1>3. (\A c \in Client : Undisturbed => SameFor(c)) => GivenInv'
  BY <1>1, GivenKeeps DEF GivenInv, Undisturbed
<1>4. CASE CopierRead(r)
  <2>1. /\ Visit(r, "log") /\ copier[r] = "read"
        /\ copied' = [copied EXCEPT ![r] = @ + 1]
    BY <1>4, HeadTailProperties DEF CopierRead, TypeInv, TypeOK, LogFirst
  <2>2. ASSUME NEW q \in Run
        PROVE  IF q = r
               THEN /\ at'[q] = "log" /\ copier'[q] = "offer"
                    /\ copied'[q] = copied[q] + 1 /\ copied[q] \in Nat
               ELSE /\ at'[q] = at[q] /\ copier'[q] = copier[q]
                    /\ copied'[q] = copied[q]
    BY <2>1 DEF Visit, None, TypeInv, TypeOK
  <2>3. ASSUME NEW c \in Client PROVE SameFor(c)
    <3>1. ASSUME NEW q \in Run, Live(c, q)'
          PROVE  Live(c, q) /\ Reached(c, q)' = Reached(c, q)
      <4>1. CASE q # r
        BY <1>1, <2>2, <3>1, <4>1 DEF Live, Reached, NotYet, Visiting
      <4>2. CASE q = r
        <5>1. pipe[c] = "open"
          BY <1>1, <2>2, <3>1, <4>2 DEF Live
        <5>2. Contains(writers, c) /\ c # "log"
          BY <5>1, StreamsAssumption DEF ListInv, ClientInv
        <5>3. Before(writers, "log", c)
          <6>1. PICK i \in 1 .. Len(writers) : writers[i] = c
            BY <5>2 DEF Contains
          <6>2. /\ Len(writers) \in Nat /\ Len(writers) > 0
                /\ writers[1] = "log"
            BY LenProperties DEF TypeInv, TypeOK, LogFirst
          <6>3. 1 \in 1 .. Len(writers) /\ 1 < i
            BY <5>2, <6>1, <6>2
          <6> QED BY <6>1, <6>2, <6>3, Zenon DEF Before
        <5>4. NotYet(c, r)'
          BY <1>1, <2>2, <5>3 DEF NotYet, Visiting
        <5>5. ~NotYet(c, r)
          BY <2>1 DEF NotYet, Visiting
        <5>6. Reached(c, r)' = copied[r] + 1 - 1 /\ Reached(c, r) = copied[r]
          BY <2>2, <5>4, <5>5 DEF Reached
        <5> QED BY <2>2, <4>2, <5>1, <5>6 DEF Live
      <4> QED BY <4>1, <4>2
    <3> QED BY <1>1, <1>2, <3>1 DEF SameFor
  <2> QED BY <1>3, <2>3
<1>5. CASE WriteLog(r)
  <2>1. /\ Visiting(r) /\ at[r] = "log" /\ Visit(r, NextWriter(at[r]))
        /\ copied' = copied
    BY <1>5 DEF WriteLog, Visiting
  <2>2. \A c \in Client : c # at[r]
    BY <2>1, StreamsAssumption
  <2>3. \A c \in Client : SameFor(c)
    BY <1>1, <1>2, <2>1, <2>2, VisitSame
  <2> QED BY <1>3, <2>3
<1>6. CASE Fail(r) /\ (Offer(r) \/ OfferFails(r)) /\ pipe[at[r]] # "open"
  <2>1. Visiting(r) /\ Visit(r, NextWriter(at[r])) /\ copied' = copied
    BY <1>6 DEF Offer, OfferFails, Fail, Visiting
  <2>2. \A c \in Client : c # at[r] \/ pipe[c] # "open"
    BY <1>6
  <2>3. \A c \in Client : SameFor(c)
    BY <1>1, <1>2, <2>1, <2>2, VisitSame
  <2> QED BY <1>3, <2>3
<1>7. CASE Offer(r) /\ pipe[at[r]] = "open"
  <2>1. /\ copier' = [copier EXCEPT ![r] = "pending"] /\ copier[r] = "offer"
        /\ UNCHANGED <<at, copied>>
    BY <1>7 DEF Offer
  <2>2. \A q \in Run : copier'[q] = IF q = r THEN "pending" ELSE copier[q]
    BY <2>1 DEF TypeInv, TypeOK
  <2>3. \A q \in Run : Visiting(q)' <=> Visiting(q)
    BY <2>1, <2>2 DEF Visiting
  <2> QED BY <1>1, <1>2, <1>7, <2>1, <2>2, <2>3, GivenQuiet
<1>8. CASE Evicted(r)
  <2>1. /\ copier' = [copier EXCEPT ![r] = "read"] /\ copier[r] = "evict"
        /\ UNCHANGED <<at, copied>>
    BY <1>8 DEF Evicted
  <2>2. \A q \in Run : copier'[q] = IF q = r THEN "read" ELSE copier[q]
    BY <2>1 DEF TypeInv, TypeOK
  <2>3. \A q \in Run : Visiting(q)' <=> Visiting(q)
    BY <2>1, <2>2 DEF Visiting
  <2> QED BY <1>1, <1>2, <2>1, <2>2, <2>3, GivenQuiet
<1>9. Offer(r) /\ pipe[at[r]] # "open" => Fail(r)
  BY DEF Offer
<1>10. OfferFails(r) => Fail(r) /\ pipe[at[r]] # "open"
  BY DEF OfferFails
<1> QED BY <1>4, <1>5, <1>6, <1>7, <1>8, <1>9, <1>10

\* What the client takes it had been given.
LEMMA TakeReceived ==
  ASSUME TypeInv, NEW c \in Client, Take(c), NEW d \in Client
  PROVE  Received(d)' = Received(d)
<1>1. CASE UNCHANGED <<buf, got>>
  BY <1>1 DEF Received
<1>2. CASE /\ got' = [got EXCEPT ![c] = @ \o buf[c]]
           /\ buf' = [buf EXCEPT ![c] = <<>>]
  <2> DEFINE all == got[c] \o buf[c]
  <2>1. got[c] \in Seq(Chunk) /\ buf[c] \in Seq(Chunk)
    BY DEF TypeInv, TypeOK
  <2>2. all \o <<>> = all
    <3> DEFINE Taken(g, b) == (g \o b) \o <<>> = g \o b
    <3>1. \A g, b \in Seq(Chunk) : Taken(g, b)
      BY TakeAll
    <3> HIDE DEF Taken
    <3>2. Taken(got[c], buf[c])
      BY <2>1, <3>1, Zenon
    <3> QED BY <3>2 DEF Taken
  <2>3. got' = [got EXCEPT ![c] = all]
    BY <1>2
  <2> HIDE DEF all
  <2>4. CASE d = c
    <3>1. got'[d] = all /\ buf'[d] = <<>>
      BY <1>2, <2>3, <2>4 DEF TypeInv, TypeOK
    <3> QED BY <2>2, <2>4, <3>1, Zenon DEF Received, all
  <2>5. CASE d # c
    <3>1. got'[d] = got[d] /\ buf'[d] = buf[d]
      BY <1>2, <2>3, <2>5 DEF TypeInv, TypeOK
    <3> QED BY <3>1, Zenon DEF Received
  <2> QED BY <2>4, <2>5
<1> QED BY <1>1, <1>2 DEF Take

\* What a client reads and drops it had been given.
LEMMA GivenClient ==
  ASSUME TypeInv, GivenInv, NEW c \in Client,
         DrainError(c) \/ DrainSignal(c) \/ Abandon(c) \/ ReadStep(c)
  PROVE  GivenInv'
<1>1. /\ UNCHANGED <<world, writers, at, copied, copier, since>>
      /\ \A d \in Client : pipe'[d] = "open" => pipe[d] = "open"
  BY DEF DrainError, DrainSignal, DrainAt, Abandon, ReadStep, Begin, Take,
     Check, Sleep, ReaderStep, Daemon, copiers, TypeInv, TypeOK
<1>2. ASSUME NEW d \in Client PROVE Received(d)' = Received(d)
  <2>1. CASE Take(c)
    BY <2>1, TakeReceived
  <2>2. CASE ~Take(c)
    <3>1. UNCHANGED <<buf, got>>
      BY <2>2 DEF DrainError, DrainSignal, Abandon, ReadStep, Begin, Check, Sleep
    <3> QED BY <3>1 DEF Received
  <2> QED BY <2>1, <2>2
<1> QED BY <1>1, <1>2, GivenQuiet DEF Visiting

\* At first nobody was given anything,
LEMMA GivenInit == Init => GivenInv
<1> SUFFICES ASSUME Init, NEW c \in Client PROVE GapOf(c) /\ AllOf(c)
  BY DEF GivenInv
<1>1. \A r \in Run : ~Live(c, r)
  BY DEF Init, Live
<1>2. Received(c) = <<>> /\ Len(<<>>) = 0
  BY DEF Init, Received
<1>3. InSequence(Received(c))
  BY <1>2 DEF InSequence
<1> QED BY <1>1, <1>3 DEF GapOf, AllOf

\* ... and every step gives the next chunk, or none.
LEMMA GivenStep ==
  TypeInv /\ RunsInv /\ ListInv /\ GivenInv /\ [Next]_vars => GivenInv'
<1> SUFFICES ASSUME TypeInv, RunsInv, ListInv, GivenInv, [Next]_vars
             PROVE  GivenInv'
  OBVIOUS
<1>1. CASE UNCHANGED vars
  BY <1>1, GivenQuiet DEF vars, Visiting, Received
<1>2. CASE Next
  BY <1>2, GivenRun, GivenCopier, GivenEvict, GivenRead, GivenAttach, GivenClient
  DEF Next, CopierStep, DrainStep
<1> QED BY <1>1, <1>2

-----------------------------------------------------------------------------
(* The end of the stream.                                                   *)

\* Without a tty, who is told the end has been given all there was: the
\* copiers of the runs until then are done.
LostOf(c) ==
  pipe[c] = "writer" => \A r \in 1 .. closedIn[c] :
    /\ copier[r] = "done"
    /\ \A i \in (since[c][r] + 1) .. copied[r] : Contains(Received(c), <<r, i>>)
LostInv == ~world.tty => \A c \in Client : LostOf(c)

\* A step that closes no pipe, and takes nothing back.
LEMMA LostKeeps ==
  ASSUME TypeInv, LostInv, ~world.tty, NEW c \in Client,
         pipe'[c] = "writer" =>
           /\ pipe[c] = "writer" /\ closedIn'[c] = closedIn[c]
           /\ since'[c] = since[c],
         \A r \in Run : copier[r] = "done" =>
           copier'[r] = "done" /\ copied'[r] = copied[r],
         \A y : Contains(Received(c), y) => Contains(Received(c)', y)
  PROVE  LostOf(c)'
<1> SUFFICES ASSUME pipe'[c] = "writer", NEW r \in 1 .. closedIn[c]
             PROVE  /\ copier'[r] = "done"
                    /\ \A i \in (since[c][r] + 1) .. copied'[r] :
                         Contains(Received(c)', <<r, i>>)
  BY DEF LostOf
<1>1. r \in Run
  BY WorldParts DEF Run, TypeInv, TypeOK
<1>2. /\ copier[r] = "done"
      /\ \A i \in (since[c][r] + 1) .. copied[r] : Contains(Received(c), <<r, i>>)
  BY DEF LostInv, LostOf
<1>3. copier'[r] = "done" /\ copied'[r] = copied[r]
  BY <1>1, <1>2
<1> QED BY <1>2, <1>3

\* A run leaves nobody behind: the monitor waits for the copier.
LEMMA LostRun ==
  ASSUME TypeInv, RunsInv, ListInv, GivenInv, LostInv,
         \/ Start
         \/ \E r \in Run : Output(r) \/ Exit(r) \/ MonitorWait(r)
                           \/ MonitorClose(r) \/ CopierEnd(r)
  PROVE  LostInv'
<1> SUFFICES ASSUME ~world.tty, NEW c \in Client PROVE LostOf(c)'
  BY DEF LostInv, Start, Output, Exit, MonitorWait, MonitorClose, CopierEnd,
     CopierAt
<1>0. Received(c)' = Received(c) /\ UNCHANGED <<copied, since>>
  BY DEF Start, Output, Exit, MonitorWait, MonitorClose, CopierEnd, copiers,
     clients, Received
<1>1. CASE Start
  <2>1. /\ run \in Nat /\ run + 1 \in Run
        /\ copier' = [copier EXCEPT ![run + 1] = "read"]
        /\ UNCHANGED <<pipe, closedIn>>
    BY <1>1, WorldParts DEF TypeInv, TypeOK, Start, Run, clients
  <2>2. copier[run + 1] = "none"
    BY <2>1 DEF RunsInv, RunInv
  <2>3. \A r \in Run : copier[r] = "done" => copier'[r] = "done"
    BY <2>1, <2>2 DEF TypeInv, TypeOK
  <2> QED BY <1>0, <2>1, <2>3, LostKeeps
<1>2. ASSUME NEW r \in Run, Output(r) \/ Exit(r) \/ MonitorWait(r)
      PROVE  LostOf(c)'
  <2>1. UNCHANGED <<copier, pipe, closedIn>>
    BY <1>2 DEF Output, Exit, MonitorWait, copiers
  <2> QED BY <1>0, <2>1, LostKeeps
<1>3. ASSUME NEW r \in Run, CopierEnd(r) PROVE LostOf(c)'
  <2>1. /\ copier' = [copier EXCEPT ![r] = "done"]
        /\ UNCHANGED <<pipe, closedIn>>
    BY <1>3 DEF CopierEnd
  <2>2. \A q \in Run : copier[q] = "done" => copier'[q] = "done"
    BY <2>1 DEF TypeInv, TypeOK
  <2> QED BY <1>0, <2>1, <2>2, LostKeeps
<1>4. ASSUME NEW r \in Run, MonitorClose(r) PROVE LostOf(c)'
  <2>1. /\ monitor[r] = "close" /\ UNCHANGED copier
        /\ pipe[c] = "open" \/ (pipe'[c] = pipe[c] /\ closedIn'[c] = closedIn[c])
        /\ pipe[c] = "open" => closedIn'[c] = r
    BY <1>4 DEF MonitorClose, Close, copiers, ListInv, ClientInv
  <2>2. CASE pipe[c] # "open"
    BY <1>0, <2>1, <2>2, LostKeeps
  <2>3. CASE pipe[c] = "open"
    <3>1. ASSUME NEW q \in 1 .. r
          PROVE  /\ copier[q] = "done"
                 /\ \A i \in (since[c][q] + 1) .. copied[q] :
                      Contains(Received(c), <<q, i>>)
      <4>1. q \in Run /\ q \in Nat /\ r \in Nat /\ run \in Nat /\ q <= r
        BY WorldParts DEF Run, TypeInv, TypeOK
      <4>2. r <= run
        BY <2>1, <4>1 DEF RunsInv, RunInv
      <4>3. monitor[q] \in {"close", "stopped"}
        BY <2>1, <4>1, <4>2 DEF RunsInv, RunInv
      <4>4. copier[q] = "done"
        BY <4>1, <4>3 DEF RunsInv, RunInv
      <4>5. Live(c, q) /\ Reached(c, q) = copied[q]
        BY <2>3, <4>4 DEF Live, Reached, NotYet, Visiting
      <4>6. AllOf(c)
        BY DEF GivenInv, Undisturbed
      <4>7. \A i \in (since[c][q] + 1) .. copied[q] :
              Contains(Received(c), <<q, i>>)
        BY <4>1, <4>5, <4>6, Zenon DEF AllOf
      <4> QED BY <4>4, <4>7
    <3> QED BY <1>0, <2>1, <2>3, <3>1 DEF LostOf
  <2> QED BY <2>2, <2>3
<1> QED BY <1>1, <1>2, <1>3, <1>4

\* The copier leaves out only those whose pipe is closed.
LEMMA LostCopier ==
  ASSUME TypeInv, RunsInv, ListInv, GivenInv, LostInv, NEW r \in Run,
         \/ CopierRead(r) \/ WriteLog(r) \/ Offer(r) \/ OfferFails(r)
         \/ Evict(r) \/ Evicted(r)
  PROVE  LostInv'
<1> SUFFICES ASSUME ~world.tty, NEW c \in Client PROVE LostOf(c)'
  BY DEF LostInv, CopierRead, WriteLog, Offer, OfferFails, Evict, Evicted,
     CopierAt
<1>1. /\ UNCHANGED <<pipe, closedIn, since, buf, got>>
      /\ copier[r] \in {"read", "offer", "pending", "evict"}
  BY DEF CopierRead, WriteLog, Offer, OfferFails, Evict, Evicted, CopierAt,
     clients
<1>2. ASSUME NEW q \in Run, q # r
      PROVE  copier'[q] = copier[q] /\ copied'[q] = copied[q]
  <2>1. CASE CopierRead(r)
    BY <1>2, <2>1 DEF CopierRead, Visit, TypeInv, TypeOK
  <2>2. CASE WriteLog(r)
    BY <1>2, <2>2 DEF WriteLog, Visit, TypeInv, TypeOK
  <2>3. CASE Fail(r) /\ (Offer(r) \/ OfferFails(r))
    BY <1>2, <2>3 DEF Fail, Offer, OfferFails, Visit, TypeInv, TypeOK
  <2>4. CASE Offer(r) /\ ~Fail(r)
    BY <1>2, <2>4 DEF Offer, TypeInv, TypeOK
  <2>5. CASE Evict(r) \/ Evicted(r)
    BY <1>2, <2>5 DEF Evict, Evicted, TypeInv, TypeOK
  <2>6. OfferFails(r) => Fail(r)
    BY DEF OfferFails
  <2> QED BY <2>1, <2>2, <2>3, <2>4, <2>5, <2>6
<1> QED BY <1>1, <1>2, LostKeeps DEF Received

\* A client that reads on gets on.
LEMMA LostClient ==
  ASSUME TypeInv, ListInv, LostInv, NEW c \in Client,
         DrainStep(c) \/ Attach(c) \/ Abandon(c) \/ ReadStep(c)
  PROVE  LostInv'
<1>1. UNCHANGED <<world, closedIn, copied>>
  BY DEF DrainStep, DrainRead, DrainError, DrainSignal, DrainAt, Attach,
     Abandon, ReadStep, Begin, Take, Check, Sleep, ReaderStep, Daemon, copiers
<1> SUFFICES ASSUME ~world.tty, NEW d \in Client PROVE LostOf(d)'
  BY <1>1 DEF LostInv
<1>2. CASE DrainRead(c)
  <2>1. PICK r \in Pending(c) :
          /\ buf' = [buf EXCEPT ![c] = Append(@, Copying(r))]
          /\ Visit(r, NextWriter(c))
    BY <1>2 DEF DrainRead
  <2>2. /\ r \in Run /\ copier[r] = "pending" /\ UNCHANGED <<pipe, since, got>>
    BY <1>2 DEF DrainRead, DrainAt, Pending
  <2>3. \A q \in Run : copier[q] = "done" => copier'[q] = "done"
    BY <2>1, <2>2 DEF Visit, TypeInv, TypeOK
  <2>4. \A y : Contains(Received(d), y) => Contains(Received(d)', y)
    <3>1. CASE d # c
      BY <2>1, <2>2, <3>1 DEF Received, TypeInv, TypeOK
    <3>2. CASE d = c
      <4> DEFINE x == Copying(r)
                 s == Received(c)
      <4>1. Received(c)' = Append(s, x) /\ s \in Seq(Chunk) /\ x \in Chunk
        BY <2>1, <2>2, <1>2, ReadReceived
      <4>2. \A y : Contains(Append(s, x), y) <=> Contains(s, y) \/ y = x
        BY <4>1, AppendParts
      <4> QED BY <3>2, <4>1, <4>2, Zenon
    <3> QED BY <3>1, <3>2
  <2> QED BY <1>1, <2>2, <2>3, <2>4, LostKeeps
<1>3. CASE Attach(c)
  <2>1. /\ UNCHANGED <<copier, buf, got>> /\ pipe'[c] = "open"
        /\ d # c => pipe'[d] = pipe[d] /\ since'[d] = since[d]
    BY <1>3, AttachParts DEF Attach, Daemon, copiers, TypeInv, TypeOK
  <2> QED BY <1>1, <2>1, LostKeeps DEF Received
<1>4. CASE DrainError(c) \/ DrainSignal(c) \/ Abandon(c) \/ ReadStep(c)
  <2>1. /\ UNCHANGED <<copier, since>>
        /\ pipe'[d] = "writer" => pipe[d] = "writer"
    BY <1>4 DEF DrainError, DrainSignal, DrainAt, Abandon, ReadStep, Begin,
       Take, Check, Sleep, ReaderStep, Daemon, copiers, TypeInv, TypeOK
  <2>2. Received(d)' = Received(d)
    <3>1. CASE Take(c)
      BY <3>1, TakeReceived
    <3>2. CASE ~Take(c)
      <4>1. UNCHANGED <<buf, got>>
        BY <1>4, <3>2 DEF DrainError, DrainSignal, Abandon, ReadStep, Begin,
           Check, Sleep
      <4> QED BY <4>1 DEF Received
    <3> QED BY <3>1, <3>2
  <2> QED BY <1>1, <2>1, <2>2, LostKeeps
<1> QED BY <1>2, <1>3, <1>4 DEF DrainStep

\* At first nothing is lost,
LEMMA LostInit == Init => LostInv
BY DEF Init, LostInv, LostOf

\* ... and no step loses anything.
LEMMA LostStep ==
  TypeInv /\ RunsInv /\ ListInv /\ GivenInv /\ LostInv /\ [Next]_vars => LostInv'
<1> SUFFICES ASSUME TypeInv, RunsInv, ListInv, GivenInv, LostInv, [Next]_vars
             PROVE  LostInv'
  OBVIOUS
<1>1. CASE UNCHANGED vars
  BY <1>1 DEF vars, LostInv, LostOf, Received
<1>2. CASE Next
  BY <1>2, LostRun, LostCopier, LostClient DEF Next, MonitorStep, CopierStep
<1> QED BY <1>1, <1>2

-----------------------------------------------------------------------------
(* The log.                                                                 *)

\* How far the log has been given the output of r: it is the first in the
\* list, and is never evicted.
LogReached(r) ==
  IF copier[r] = "offer" /\ at[r] = "log" THEN copied[r] - 1 ELSE copied[r]
LogInv ==
  /\ InSequence(log)
  /\ \A r \in Run : UpTo(log, r, LogReached(r))
  /\ \A r \in Run : \A k \in 1 .. LogReached(r) : Contains(log, <<r, k>>)
  /\ \A n \in 1 .. Len(log) : log[n][2] > 0

\* A log that is not written to stays right.
LEMMA LogKeeps ==
  ASSUME LogInv, log' = log, \A r \in Run : LogReached(r)' = LogReached(r)
  PROVE  LogInv'
BY DEF LogInv

\* A visit goes on from a client to another, never back to the log.
LEMMA LogVisit ==
  ASSUME TypeInv, ListInv, LogInv, NEW r \in Run,
         ~(copier[r] = "offer" /\ at[r] = "log"),
         NEW w, Visit(r, NextWriter(w)), UNCHANGED <<copied, log>>
  PROVE  LogInv'
<1>1. NextWriter(w) # "log"
  BY NextWriterParts, WorldParts DEF ListInv, None, TypeInv, TypeOK
<1>2. \A q \in Run : IF q = r THEN at'[q] # "log"
                     ELSE copier'[q] = copier[q] /\ at'[q] = at[q]
  BY <1>1 DEF Visit, TypeInv, TypeOK
<1>3. \A q \in Run : LogReached(q)' = LogReached(q)
  BY <1>2 DEF LogReached
<1> QED BY <1>3, LogKeeps

\* What is written to it is the next chunk.
LEMMA LogWrite ==
  ASSUME TypeInv, RunsInv, ListInv, LogInv, NEW r \in Run, WriteLog(r)
  PROVE  LogInv'
<1> DEFINE x == Copying(r)
<1>1. /\ copier[r] = "offer" /\ at[r] = "log" /\ log' = Append(log, x)
      /\ Visit(r, NextWriter("log")) /\ UNCHANGED copied
  BY DEF WriteLog, CopierAt
<1>2. /\ x \in Chunk /\ x = <<r, copied[r]>> /\ x[1] = r /\ x[2] = copied[r]
      /\ log \in Seq(Chunk) /\ copied[r] \in Nat
  BY CopyingType DEF Copying, TypeInv, TypeOK
<1>3. x[2] > 0
  BY <1>1, <1>2 DEF RunsInv, RunInv, Visiting
<1>4. NextWriter("log") # "log"
  BY NextWriterParts, WorldParts DEF ListInv, None, TypeInv, TypeOK
<1>5. /\ LogReached(r) = x[2] - 1 /\ LogReached(r)' = x[2]
      /\ \A q \in Run : q # r => LogReached(q)' = LogReached(q)
  BY <1>1, <1>2, <1>4 DEF LogReached, Visit, TypeInv, TypeOK
<1> HIDE DEF x
<1>6. InSequence(log) /\ UpTo(log, x[1], x[2] - 1)
  <2>1. UpTo(log, r, LogReached(r))
    BY DEF LogInv
  <2> QED BY <1>2, <1>5, <2>1, Zenon DEF LogInv
<1>7. InSequence(log') /\ UpTo(log', r, x[2])
  <2>1. InSequence(Append(log, x)) /\ UpTo(Append(log, x), x[1], x[2])
    BY <1>2, <1>6, AppendNext
  <2> QED BY <1>1, <1>2, <2>1, Zenon
<1>8. ASSUME NEW q \in Run, q # r PROVE UpTo(log', q, LogReached(q))
  <2>1. UpTo(log, q, LogReached(q))
    BY DEF LogInv
  <2>2. UpTo(Append(log, x), q, LogReached(q))
    BY <1>2, <1>8, <2>1, AppendOther
  <2> QED BY <1>1, <2>2, Zenon
<1>9. /\ Len(log') = Len(log) + 1 /\ log'[Len(log) + 1] = x /\ Len(log) \in Nat
      /\ \A i \in 1 .. Len(log) : log'[i] = log[i]
      /\ \A y : Contains(log', y) <=> Contains(log, y) \/ y = x
  <2>1. /\ Len(Append(log, x)) = Len(log) + 1 /\ Append(log, x)[Len(log) + 1] = x
        /\ Len(log) \in Nat
        /\ \A i \in 1 .. Len(log) : Append(log, x)[i] = log[i]
        /\ \A y : Contains(Append(log, x), y) <=> Contains(log, y) \/ y = x
    BY <1>2, AppendParts
  <2> QED BY <1>1, <2>1, Zenon
<1>10. ASSUME NEW q \in Run, NEW k \in 1 .. LogReached(q)'
       PROVE  Contains(log', <<q, k>>)
  <2>1. CASE q = r /\ k = x[2]
    BY <1>2, <1>9, <2>1
  <2>2. CASE ~(q = r /\ k = x[2])
    <3>1. k \in 1 .. LogReached(q)
      BY <1>2, <1>5, <2>2
    <3>2. Contains(log, <<q, k>>)
      BY <3>1 DEF LogInv
    <3> QED BY <1>9, <3>2
  <2> QED BY <2>1, <2>2
<1>11. ASSUME NEW n \in 1 .. Len(log') PROVE log'[n][2] > 0
  <2>1. CASE n \in 1 .. Len(log)
    BY <1>9, <2>1 DEF LogInv
  <2>2. CASE n = Len(log) + 1
    BY <1>3, <1>9, <2>2
  <2> QED BY <1>9, <2>1, <2>2
<1>12. ASSUME NEW q \in Run PROVE UpTo(log', q, LogReached(q)')
  <2>1. CASE q = r
    BY <1>5, <1>7, <2>1, Zenon
  <2>2. CASE q # r
    BY <1>5, <1>8, <2>2, Zenon
  <2> QED BY <2>1, <2>2
<1> QED BY <1>7, <1>10, <1>11, <1>12 DEF LogInv

\* Every step keeps the log whole,
LEMMA LogStep ==
  TypeInv /\ RunsInv /\ ListInv /\ LogInv /\ [Next]_vars => LogInv'
<1> SUFFICES ASSUME TypeInv, RunsInv, ListInv, LogInv, [Next]_vars
             PROVE  LogInv'
  OBVIOUS
<1>0. ASSUME UNCHANGED <<copier, at, copied, log>> PROVE LogInv'
  BY <1>0, LogKeeps DEF LogReached
<1>1. CASE UNCHANGED vars
  BY <1>0, <1>1 DEF vars
<1>2. CASE Start
  <2>1. /\ run \in Nat /\ run + 1 \in Run
        /\ copier' = [copier EXCEPT ![run + 1] = "read"]
        /\ UNCHANGED <<copied, at, log>>
    BY <1>2, WorldParts DEF TypeInv, TypeOK, Start, Run, clients
  <2>2. copier[run + 1] = "none"
    BY <2>1 DEF RunsInv, RunInv
  <2>3. \A q \in Run : LogReached(q)' = LogReached(q)
    BY <2>1, <2>2 DEF LogReached, TypeInv, TypeOK
  <2> QED BY <2>1, <2>3, LogKeeps
<1>3. ASSUME NEW r \in Run, Output(r) \/ Exit(r) \/ MonitorStep(r) PROVE LogInv'
  BY <1>0, <1>3 DEF Output, Exit, MonitorStep, MonitorWait, MonitorClose, copiers
<1>4. ASSUME NEW r \in Run, CopierStep(r) PROVE LogInv'
  <2> USE DEF CopierAt
  <2>1. CASE CopierRead(r)
    <3>1. /\ Visit(r, "log") /\ copier[r] = "read" /\ log' = log
          /\ copied' = [copied EXCEPT ![r] = @ + 1]
      BY <2>1, HeadTailProperties DEF CopierRead, TypeInv, TypeOK, LogFirst
    <3>2. \A q \in Run : LogReached(q)' = LogReached(q)
      BY <1>4, <3>1 DEF Visit, None, LogReached, TypeInv, TypeOK
    <3> QED BY <3>1, <3>2, LogKeeps
  <2>2. CASE WriteLog(r)
    BY <1>4, <2>2, LogWrite
  <2>3. CASE Fail(r) /\ (Offer(r) \/ OfferFails(r))
    <3>1. at[r] \in Client /\ UNCHANGED <<copied, log>>
      BY <1>4, <2>3 DEF Offer, OfferFails, TypeInv, AtPipe
    <3>2. ~(copier[r] = "offer" /\ at[r] = "log")
      BY <3>1, StreamsAssumption
    <3> QED BY <1>4, <2>3, <3>1, <3>2, LogVisit DEF Fail
  <2>4. CASE Offer(r) /\ ~Fail(r)
    <3>1. /\ copier' = [copier EXCEPT ![r] = "pending"] /\ at[r] \in Client
          /\ UNCHANGED <<at, copied, log>>
      BY <2>4 DEF Offer
    <3>2. \A q \in Run : LogReached(q)' = LogReached(q)
      BY <1>4, <3>1, StreamsAssumption DEF LogReached, TypeInv, TypeOK
    <3> QED BY <3>1, <3>2, LogKeeps
  <2>5. CASE Evict(r) \/ Evicted(r) \/ CopierEnd(r)
    <3>1. /\ copier[r] # "offer" /\ UNCHANGED <<at, copied, log>>
          /\ \E pc \in {"evict", "read", "done"} :
               copier' = [copier EXCEPT ![r] = pc]
      BY <1>4, <2>5 DEF Evict, Evicted, CopierEnd, TypeInv, TypeOK
    <3>2. \A q \in Run : LogReached(q)' = LogReached(q)
      BY <1>4, <3>1 DEF LogReached, TypeInv, TypeOK
    <3> QED BY <3>1, <3>2, LogKeeps
  <2>6. OfferFails(r) => Fail(r)
    BY DEF OfferFails
  <2> QED BY <1>4, <2>1, <2>2, <2>3, <2>4, <2>5, <2>6 DEF CopierStep
<1>5. ASSUME NEW c \in Client, DrainRead(c) PROVE LogInv'
  <2>1. PICK r \in Pending(c) : Visit(r, NextWriter(c))
    BY <1>5 DEF DrainRead
  <2>2. r \in Run /\ copier[r] = "pending" /\ UNCHANGED <<copied, log>>
    BY <1>5 DEF DrainRead, DrainAt, Pending
  <2> QED BY <2>1, <2>2, LogVisit
<1>6. ASSUME NEW c \in Client,
             \/ DrainError(c) \/ DrainSignal(c) \/ Attach(c) \/ Abandon(c)
             \/ ReadStep(c)
      PROVE  LogInv'
  <2>1. UNCHANGED <<copier, at, copied, log>>
    BY <1>6 DEF DrainError, DrainSignal, DrainAt, Attach, Abandon, ReadStep,
       Begin, Take, Check, Sleep, ReaderStep, Daemon, copiers
  <2> QED BY <1>0, <2>1
<1> QED BY <1>1, <1>2, <1>3, <1>4, <1>5, <1>6 DEF Next, DrainStep

\* ... from the empty one on.
LEMMA LogInit == Init => LogInv
<1> SUFFICES ASSUME Init PROVE LogInv
  OBVIOUS
<1>1. log = <<>> /\ Len(<<>>) = 0 /\ \A r \in Run : LogReached(r) = 0
  BY DEF Init, LogReached
<1> QED BY <1>1 DEF LogInv, InSequence, UpTo

-----------------------------------------------------------------------------
(* The theorems.                                                            *)

StreamsInv == TypeInv /\ RunsInv /\ ListInv /\ GivenInv /\ LostInv /\ LogInv

\* All of it holds always.
LEMMA StreamsHold == Spec => []StreamsInv
<1>1. Init => StreamsInv
  BY TypeInit, RunsInit, ListInit, GivenInit, LostInit, LogInit DEF StreamsInv
<1>2. StreamsInv /\ [Next]_vars => StreamsInv'
  BY TypeStep, RunsStep, ListStep, GivenStep, LostStep, LogStep, Zenon
  DEF StreamsInv
<1> QED BY <1>1, <1>2, PTL DEF Spec

\* The log holds all of every run in order and without a gap, whatever the
\* clients do and however many copiers are at work (utils.go:117-136).
THEOREM LogStaysWhole == Spec => []LogIsWhole
<1>1. ASSUME StreamsInv PROVE LogIsWhole
  <2> USE DEF StreamsInv
  <2>1. ASSUME NEW r \in Run
        PROVE  /\ LogReached(r) <= copied[r] /\ copied[r] <= written[r]
               /\ copied[r] \in Nat /\ written[r] \in Nat /\ LogReached(r) \in Int
               /\ copier[r] = "done" => LogReached(r) = written[r]
    BY <1>1 DEF TypeInv, TypeOK, RunsInv, RunInv, LogReached
  <2>2. ASSUME NEW n \in 1 .. Len(log)
        PROVE  /\ log[n][2] \in 1 .. written[log[n][1]]
               /\ Contains(log, <<log[n][1], 1>>)
    <3> DEFINE r == log[n][1]
               k == log[n][2]
    <3>1. log[n] \in Chunk
      BY <1>1, ElementOfSeq DEF TypeInv, TypeOK
    <3>2. r \in Run /\ k \in Nat
      BY <3>1, ChunkParts
    <3>3. UpTo(log, r, LogReached(r)) /\ k > 0
      BY <1>1, <3>2 DEF LogInv
    <3>4. k <= LogReached(r)
      BY <3>3 DEF UpTo
    <3> HIDE DEF r, k
    <3>5. k \in 1 .. written[r] /\ 1 \in 1 .. LogReached(r)
      BY <2>1, <3>2, <3>3, <3>4
    <3>6. Contains(log, <<r, 1>>)
      BY <1>1, <3>2, <3>5 DEF LogInv
    <3> QED BY <3>5, <3>6 DEF r, k
  <2>3. ASSUME NEW r \in Run, copier[r] = "done", NEW k \in 1 .. written[r]
        PROVE  Contains(log, <<r, k>>)
    BY <1>1, <2>1, <2>3 DEF LogInv
  <2>4. InSequence(log)
    BY <1>1 DEF LogInv
  <2> QED BY <2>2, <2>3, <2>4 DEF LogIsWhole
<1> QED BY <1>1, StreamsHold, PTL

\* A client gets the output without a gap, a repetition or a swap: without a
\* tty, in one run, or when it is the only one who attaches (utils.go:43-148).
THEOREM OutputHasNoGap == Spec => []NoGap
<1>1. StreamsInv => NoGap
  BY DEF StreamsInv, GivenInv, GapOf, NoGap
<1> QED BY <1>1, StreamsHold, PTL

\* Without a tty who is told the end of the stream has been given everything
\* since it attached, for the monitor closes the broadcaster only after the
\* copier is done (utils.go:138-148).
THEOREM NothingIsLost == Spec => []NothingLost
<1>1. ASSUME StreamsInv, NEW c \in Client, ~world.tty, pipe[c] = "writer",
             NEW r \in 1 .. closedIn[c], NEW i \in (since[c][r] + 1) .. written[r]
      PROVE  Contains(Received(c), <<r, i>>)
  <2> USE DEF StreamsInv
  <2>1. r \in Run
    BY <1>1, WorldParts DEF Run, TypeInv, TypeOK
  <2>2. /\ copier[r] = "done"
        /\ \A k \in (since[c][r] + 1) .. copied[r] : Contains(Received(c), <<r, k>>)
    BY <1>1 DEF LostInv, LostOf
  <2>3. copied[r] = written[r]
    BY <1>1, <2>1, <2>2 DEF RunsInv, RunInv
  <2> QED BY <1>1, <2>2, <2>3
<1>2. StreamsInv => NothingLost
  BY <1>1, Zenon DEF NothingLost
<1> QED BY <1>2, StreamsHold, PTL

-----------------------------------------------------------------------------
(* The safety in OutputFlows: what a write waits for can happen without the  *)
(* client.                                                                   *)

\* The guards of CopierStep and DrainStep.
CopierCan(r) ==
  \/ copier[r] = "read" /\ (copied[r] < written[r] \/ proc[r] = "dead")
  \/ copier[r] = "offer" /\ (at[r] # "log" => Pending(at[r]) = {})
  \/ copier[r] = "pending" /\ pipe[at[r]] # "open"
  \/ copier[r] = "evict"

DrainCan(c) ==
  \/ drain[c] = "signal"
  \/ drain[c] = "read" /\ (pipe[c] \in {"reader", "writer"} \/ Pending(c) # {})

\* Whoever copies output can go on, or the drain or the other copier of the
\* pipe it stands at can.
NobodyHolds ==
  \A r \in Run : copier[r] \in {"offer", "pending", "evict"} =>
    \/ CopierCan(r)
    \/ at[r] \in Client /\ DrainCan(at[r])
    \/ \E q \in Run : copier[q] = "pending" /\ at[q] = at[r] /\ CopierCan(q)

\* While a write waits at an open pipe its drain does nothing but finish a
\* signal it has begun.
DrainComes ==
  \A r \in Run :
    copier[r] = "pending" /\ copier'[r] = "pending" /\ pipe'[at[r]] = "open" =>
      /\ at'[r] = at[r]
      /\ \/ drain'[at[r]] = drain[at[r]]
         \/ drain[at[r]] = "signal" /\ drain'[at[r]] = "read"

\* What that needs: a drain ends only with an error, and meets none while its
\* pipe is open.
DrainOf(c) ==
  /\ pipe[c] = "none" <=> drain[c] = "none"
  /\ pipe[c] \in {"none", "open"} => ~err[c]
  /\ drain[c] = "read" => ~err[c]
  /\ drain[c] = "done" => err[c]

DrainInv == \A c \in Client : DrainOf(c)

\* At first nobody is attached.
LEMMA DrainInit == Init => DrainInv
BY DEF Init, DrainInv, DrainOf

\* Who is at its pipe as before, or finds it closed, has the drain it had.
LEMMA DrainKeeps ==
  ASSUME NEW c \in Client, DrainOf(c), drain'[c] = drain[c], err'[c] = err[c],
         pipe'[c] = pipe[c] \/ (pipe[c] = "open" /\ pipe'[c] = "writer")
  PROVE  DrainOf(c)'
BY DEF DrainOf

\* Closing the broadcaster closes pipes that are open.
LEMMA CloseParts ==
  ASSUME NEW r, Close(r), TypeInv
  PROVE  \A c \in Client :
           pipe'[c] = pipe[c] \/ (pipe[c] = "open" /\ pipe'[c] = "writer")
BY DEF Close, TypeInv, TypeOK

\* A step of a drain is one of its own.
LEMMA DrainMoves ==
  ASSUME TypeInv, DrainInv, NEW c \in Client, DrainStep(c)
  PROVE  DrainInv'
<1> USE DEF TypeInv, TypeOK, DrainAt, DrainTo
<1>1. pipe' = pipe
  BY DEF DrainStep, DrainRead, DrainError, DrainSignal
<1>2. \A d \in Client \ {c} : drain'[d] = drain[d] /\ err'[d] = err[d]
  BY DEF DrainStep, DrainRead, DrainError, DrainSignal
<1>3. DrainOf(c)'
  <2>1. CASE DrainRead(c)
    BY <1>1, <2>1 DEF DrainRead, DrainInv, DrainOf
  <2>2. CASE DrainError(c)
    BY <1>1, <2>2 DEF DrainError, DrainInv, DrainOf
  <2>3. CASE DrainSignal(c)
    BY <1>1, <2>3 DEF DrainSignal, DrainInv, DrainOf
  <2> QED BY <2>1, <2>2, <2>3 DEF DrainStep
<1>4. \A d \in Client \ {c} : DrainOf(d)'
  BY <1>1, <1>2, DrainKeeps DEF DrainInv
<1> QED BY <1>3, <1>4 DEF DrainInv

\* Every step keeps it: a pipe is made with its drain, and is closed under it.
LEMMA DrainHolds ==
  ASSUME StreamsInv, DrainInv, [Next]_vars
  PROVE  DrainInv'
<1> USE DEF StreamsInv
<1>1. ASSUME UNCHANGED <<drain, err>>,
             pipe' = pipe \/ \E r \in Run : Close(r)
      PROVE  DrainInv'
  <2>1. \A c \in Client :
          pipe'[c] = pipe[c] \/ (pipe[c] = "open" /\ pipe'[c] = "writer")
    BY <1>1, CloseParts
  <2> QED BY <1>1, <2>1, DrainKeeps DEF DrainInv
<1>2. CASE UNCHANGED vars
  BY <1>1, <1>2 DEF vars
<1>3. CASE Start \/ \E r \in Run : Output(r) \/ Exit(r) \/ MonitorStep(r)
  BY <1>1, <1>3 DEF Start, Output, Exit, MonitorStep, MonitorWait, MonitorClose,
                    clients
<1>4. CASE \E r \in Run : CopierStep(r)
  BY <1>1, <1>4 DEF CopierStep, CopierRead, WriteLog, Offer, OfferFails, Evict,
                    Evicted, CopierEnd, clients
<1>5. CASE \E c \in Client : DrainStep(c)
  BY <1>5, DrainMoves
<1>6. ASSUME NEW c \in Client, Attach(c) \/ Abandon(c)
      PROVE  DrainInv'
  <2> USE DEF TypeInv, TypeOK, DrainTo, ReaderAt
  <2>1. err' = err
    BY <1>6 DEF Attach, Abandon
  <2>2. \A d \in Client \ {c} : pipe'[d] = pipe[d] /\ drain'[d] = drain[d]
    BY <1>6 DEF Attach, Abandon
  <2>3. \A d \in Client \ {c} : DrainOf(d)'
    BY <2>1, <2>2, DrainKeeps DEF DrainInv
  <2>4. reader[c] = "none" <=> pipe[c] = "none"
    BY DEF ListInv, ClientInv
  <2>5. DrainOf(c)'
    BY <1>6, <2>1, <2>4 DEF Attach, Abandon, DrainInv, DrainOf
  <2> QED BY <2>3, <2>5 DEF DrainInv
<1>7. CASE \E c \in Client : ReadStep(c)
  BY <1>1, <1>7 DEF ReadStep, Begin, Take, Check, Sleep, ReaderStep
<1> QED BY <1>2, <1>3, <1>4, <1>5, <1>6, <1>7 DEF Next

\* Whoever is attached and however it reads, a chunk on its way through the
\* broadcaster is not held up: the Write that has it can go on, or another
\* that stands at the same pipe, or the drain at its other end, which takes
\* whatever is written and never waits for the client (utils.go:60-77, 117-136).
THEOREM OutputIsNotHeld == Spec => []NobodyHolds
<1>1. ASSUME StreamsInv, DrainInv, NEW r \in Run,
             copier[r] \in {"offer", "pending", "evict"}, ~CopierCan(r),
             \A q \in Run : copier[q] = "pending" /\ at[q] = at[r] => ~CopierCan(q)
      PROVE  at[r] \in Client /\ DrainCan(at[r])
  <2>1. copier[r] \in {"offer", "pending"} /\ at[r] # "log"
    BY <1>1, StreamsAssumption
       DEF CopierCan, StreamsInv, TypeInv, AtPipe, StreamsAssumption
  <2>2. at[r] \in Client /\ pipe[at[r]] # "none"
    BY <1>1, <2>1 DEF StreamsInv, ListInv, VisitPipe, Visiting
  <2>3. Pending(at[r]) # {}
    BY <1>1, <2>1 DEF CopierCan, Pending
  <2>4. pipe[at[r]] = "open"
    BY <1>1, <2>3 DEF CopierCan, Pending
  <2>5. drain[at[r]] \in {"read", "signal"}
    BY <1>1, <2>2, <2>4 DEF DrainInv, DrainOf, StreamsInv, TypeInv, TypeOK
  <2> QED BY <2>2, <2>3, <2>5 DEF DrainCan
<1>2. StreamsInv /\ DrainInv => NobodyHolds
  BY <1>1 DEF NobodyHolds
<1>3. Init => DrainInv
  BY DrainInit
<1>4. StreamsInv /\ DrainInv /\ [Next]_vars => DrainInv'
  BY DrainHolds
<1> QED BY <1>2, <1>3, <1>4, StreamsHold, PTL DEF Spec

\* A copier's step moves none that waits, but its own, and then it has
\* stopped waiting.
LEMMA CopierLeaves ==
  ASSUME TypeInv, NEW q \in Run, CopierStep(q), NEW r \in Run,
         copier[r] = "pending", copier'[r] = "pending"
  PROVE  at'[r] = at[r] /\ drain' = drain
<1> USE DEF TypeInv, TypeOK, CopierAt, Visit, Fail, clients
<1>1. drain' = drain
  BY DEF CopierStep, CopierRead, WriteLog, Offer, OfferFails, Evict, Evicted,
         CopierEnd
<1>2. CASE q = r
  BY <1>2 DEF CopierStep, CopierRead, WriteLog, Offer, OfferFails, Evict, Evicted,
              CopierEnd
<1>3. CASE q # r
  BY <1>3 DEF CopierStep, CopierRead, WriteLog, Offer, OfferFails, Evict, Evicted,
              CopierEnd
<1> QED BY <1>1, <1>2, <1>3

\* A drain that reads takes what is pending at its pipe.
LEMMA DrainLeaves ==
  ASSUME StreamsInv, DrainInv, NEW c \in Client, DrainStep(c), NEW r \in Run,
         copier[r] = "pending", copier'[r] = "pending", pipe'[at[r]] = "open"
  PROVE  /\ at'[r] = at[r]
         /\ \/ drain'[at[r]] = drain[at[r]]
            \/ drain[at[r]] = "signal" /\ drain'[at[r]] = "read"
<1> USE DEF StreamsInv, TypeInv, TypeOK, DrainAt, DrainTo
<1>1. at[r] \in Client
  BY DEF AtPipe
<1>2. CASE DrainRead(c)
  <2>1. PICK q \in Pending(c) : Visit(q, NextWriter(c))
    BY <1>2 DEF DrainRead
  <2>2. q # r
    BY <2>1 DEF Pending, Visit
  <2>3. at[r] # c
    BY <2>1, <2>2 DEF Pending, ListInv, OnePending
  <2>4. at'[r] = at[r]
    BY <2>1, <2>2 DEF Visit, Pending
  <2> QED BY <1>1, <1>2, <2>3, <2>4 DEF DrainRead
<1>3. CASE DrainError(c)
  BY <1>1, <1>3 DEF DrainError
<1>4. CASE DrainSignal(c)
  <2>1. at[r] = c => ~err[c]
    BY <1>4 DEF DrainSignal, DrainInv, DrainOf
  <2> QED BY <1>1, <1>4, <2>1 DEF DrainSignal
<1> QED BY <1>2, <1>3, <1>4 DEF DrainStep

\* While a write waits at an open pipe, its drain finishes the signal it has
\* begun and does nothing else before it takes the chunk, so that the wait is
\* two steps of the drain at the most (utils.go:60-77).
THEOREM OutputWaitsForDrain == Spec => [][DrainComes]_vars
<1>1. ASSUME StreamsInv, DrainInv, Next, NEW r \in Run,
             copier[r] = "pending", copier'[r] = "pending", pipe'[at[r]] = "open"
      PROVE  /\ at'[r] = at[r]
             /\ \/ drain'[at[r]] = drain[at[r]]
                \/ drain[at[r]] = "signal" /\ drain'[at[r]] = "read"
  <2> USE DEF StreamsInv
  <2>1. CASE Start \/ \E q \in Run : Output(q) \/ Exit(q) \/ MonitorStep(q)
    <3>1. UNCHANGED <<at, drain>>
      BY <1>1, <2>1 DEF Start, Output, Exit, MonitorStep, MonitorWait,
                        MonitorClose, clients, copiers
    <3> QED BY <3>1
  <2>2. CASE \E q \in Run : CopierStep(q)
    BY <1>1, <2>2, CopierLeaves
  <2>3. CASE \E c \in Client : DrainStep(c)
    BY <1>1, <2>3, DrainLeaves
  <2>4. ASSUME NEW c \in Client, Attach(c) \/ Abandon(c)
        PROVE  at'[r] = at[r] /\ drain'[at[r]] = drain[at[r]]
    <3>1. at[r] \in Client /\ pipe[at[r]] # "none"
      BY <1>1, StreamsAssumption
         DEF ListInv, VisitPipe, Visiting, TypeInv, AtPipe, StreamsAssumption
    <3>2. CASE Attach(c)
      <4>1. pipe[c] = "none"
        BY <1>1, <3>2 DEF Attach, ReaderAt, ListInv, ClientInv
      <4>2. at' = at /\ drain' = [drain EXCEPT ![c] = "read"]
        BY <3>2 DEF Attach, Daemon, copiers, DrainTo
      <4> QED BY <3>1, <4>1, <4>2 DEF TypeInv, TypeOK
    <3>3. CASE Abandon(c)
      BY <3>3 DEF Abandon, Daemon, copiers
    <3> QED BY <2>4, <3>2, <3>3
  <2>5. CASE \E c \in Client : ReadStep(c)
    <3>1. UNCHANGED <<at, drain>>
      BY <2>5 DEF ReadStep, Begin, Take, Check, Sleep, ReaderStep, Daemon, copiers
    <3> QED BY <3>1
  <2> QED BY <1>1, <2>1, <2>2, <2>3, <2>4, <2>5 DEF Next
<1>2. StreamsInv /\ DrainInv /\ Next => DrainComes
  BY <1>1 DEF DrainComes
<1>3. Init => DrainInv
  BY DrainInit
<1>4. StreamsInv /\ DrainInv /\ [Next]_vars => DrainInv'
  BY DrainHolds
<1> QED BY <1>2, <1>3, <1>4, StreamsHold, PTL DEF Spec
=============================================================================
