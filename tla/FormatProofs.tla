---------------------------- MODULE FormatProofs ----------------------------
(***************************************************************************)
(* Lemmas about the files of the write-ahead log: what Wal::load reads from *)
(* a log file, record after record, and the text of the index file.         *)
(***************************************************************************)
EXTENDS WalFormat, TLAPS, SequenceTheorems, WellFoundedInduction

\* A set of naturals has a least member, if it has one.
LEMMA Least ==
  ASSUME NEW T, T \subseteq Nat, T # {}
  PROVE  \E n \in T : \A k \in T : n <= k
<1> DEFINE R == OpToRel(<, Nat)
<1>1. PICK x \in T : \A y \in T : ~ (<<y, x>> \in R)
  <2>1. IsWellFoundedOn(R, Nat)
    BY NatLessThanWellFounded
  <2> HIDE DEF R
  <2> QED
    BY <2>1, WFMin
<1>2. \A i, j \in Nat : j < i => <<j, i>> \in R
  BY DEF OpToRel
<1> HIDE DEF R
<1>3. \A y \in T : ~ (y < x)
  BY <1>1, <1>2, Zenon
<1> QED
  BY <1>3

-----------------------------------------------------------------------------
(* Log files *)

Sized(R) == \A r \in R : r.len \in Nat

\* A whole record lies at the offset i of the file, as far as its length says.
Whole(file, i) ==
  /\ i + 1 <= Len(file) /\ file[i].kind = "len" /\ i + 1 + file[i].of.len <= Len(file)
RecordAt(file, i) ==
  IF /\ file[i + 1] = TypeCell(file[i].of)
     /\ SubSeq(file, i + 2, i + 1 + file[i].of.len) = Body(file[i].of)
  THEN file[i].of ELSE Junk
After(file, i) == i + 2 + file[i].of.len

\* f reads the records of the file from each offset on.
Reads(file, f) ==
  f = [i \in 1 .. Len(file) + 1 |->
         IF Whole(file, i) THEN <<RecordAt(file, i)>> \o f[After(file, i)] ELSE <<>>]

\* The reading is well defined, from the end of the file to its beginning.
LEMMA ReadingExists ==
  ASSUME NEW R, Sized(R), NEW file \in Seq(LogCells(R))
  PROVE  \E f : Reads(file, f)
<1> DEFINE n == Len(file)
           Part(m, f) == \A i \in m .. n + 1 :
             f[i] = IF Whole(file, i) THEN <<RecordAt(file, i)>> \o f[After(file, i)] ELSE <<>>
           Readable_(m) == \E f : f = [i \in m .. n + 1 |-> f[i]] /\ Part(m, f)
           Missing == {k \in 0 .. n : ~Readable_(n + 1 - k)}
<1>1. n \in Nat
  OBVIOUS
<1>2. \A i \in 1 .. n + 1 : Whole(file, i) => After(file, i) \in i + 1 .. n + 1
  <2> SUFFICES ASSUME NEW i \in 1 .. n + 1, Whole(file, i)
               PROVE  After(file, i) \in i + 1 .. n + 1
    OBVIOUS
  <2>1. i + 1 <= n /\ i + 1 + file[i].of.len <= n
    BY DEF Whole
  <2>2. file[i] \in LogCells(R)
    BY <1>1, <2>1
  <2>3. file[i].of.len \in Nat
    BY <2>2 DEF LogCells, Sized
  <2> QED
    BY <1>1, <2>1, <2>3 DEF After
<1>3. Readable_(n + 1)
  <2> DEFINE g == [i \in n + 1 .. n + 1 |-> <<>>]
  <2>1. \A i \in n + 1 .. n + 1 : ~Whole(file, i)
    BY <1>1 DEF Whole
  <2>2. g = [i \in n + 1 .. n + 1 |-> g[i]] /\ Part(n + 1, g)
    BY <2>1
  <2> QED
    BY <2>2
<1>4. ASSUME NEW m \in 1 .. n, Readable_(m + 1) PROVE Readable_(m)
  <2>1. PICK f : f = [i \in m + 1 .. n + 1 |-> f[i]] /\ Part(m + 1, f)
    BY <1>4
  <2> DEFINE g == [i \in m .. n + 1 |->
        IF i = m THEN IF Whole(file, m) THEN <<RecordAt(file, m)>> \o f[After(file, m)] ELSE <<>>
        ELSE f[i]]
  <2>2. \A i \in m + 1 .. n + 1 : i \in m .. n + 1 /\ i # m /\ g[i] = f[i]
    BY <1>1
  <2>3. \A i \in m .. n + 1 : Whole(file, i) => g[After(file, i)] = f[After(file, i)]
    <3> SUFFICES ASSUME NEW i \in m .. n + 1, Whole(file, i)
                 PROVE  After(file, i) \in m + 1 .. n + 1
      BY <2>2
    <3>1. After(file, i) \in i + 1 .. n + 1
      BY <1>1, <1>2
    <3> QED
      BY <1>1, <3>1
  <2>4. \A i \in m .. n + 1 : i = m \/ i \in m + 1 .. n + 1
    BY <1>1
  <2>5. \A i \in m + 1 .. n + 1 :
          f[i] = IF Whole(file, i) THEN <<RecordAt(file, i)>> \o f[After(file, i)] ELSE <<>>
    BY <2>1
  <2>6. m \in m .. n + 1
    BY <1>1
  <2>7. g[m] = IF Whole(file, m) THEN <<RecordAt(file, m)>> \o f[After(file, m)] ELSE <<>>
    BY <2>6
  <2>8. g = [i \in m .. n + 1 |-> g[i]]
    OBVIOUS
  <2> HIDE DEF g
  <2>9. Part(m, g)
    BY <2>2, <2>3, <2>4, <2>5, <2>6, <2>7
  <2> QED
    BY <2>8, <2>9
<1>5. Missing = {}
  <2> SUFFICES ASSUME Missing # {} PROVE FALSE
    OBVIOUS
  <2>1. PICK k \in Missing : \A j \in Missing : k <= j
    <3>1. Missing \subseteq Nat
      BY <1>1
    <3> HIDE DEF Missing
    <3> QED
      BY <3>1, Least
  <2> HIDE DEF Readable_
  <2>2. k \in 0 .. n /\ ~Readable_(n + 1 - k)
    OBVIOUS
  <2>3. k # 0
    BY <1>1, <1>3, <2>2
  <2>4. k - 1 \in 0 .. n /\ n + 1 - (k - 1) = (n + 1 - k) + 1 /\ ~(k <= k - 1)
        /\ n + 1 - k \in 1 .. n
    BY <1>1, <2>2, <2>3
  <2>5. Readable_(n + 1 - (k - 1))
    BY <2>1, <2>4
  <2> QED
    BY <1>4, <2>2, <2>4, <2>5
<1>6. Readable_(1)
  <2>1. n \in 0 .. n /\ n + 1 - n = 1
    BY <1>1
  <2> HIDE DEF Readable_
  <2> QED
    BY <1>5, <2>1
<1>7. PICK f : f = [i \in 1 .. n + 1 |-> f[i]] /\ Part(1, f)
  BY <1>6
<1>8. Reads(file, f)
  BY <1>7 DEF Reads
<1> QED
  BY <1>8

\* Wal::load reads the file from its beginning.
LEMMA ParsedReads ==
  ASSUME NEW R, Sized(R), NEW file \in Seq(LogCells(R))
  PROVE  \E f : Reads(file, f) /\ Parsed(file) = f[1]
<1> DEFINE f == CHOOSE g : Reads(file, g)
<1>1. Reads(file, f)
  BY ReadingExists
<1>2. Parsed(file) = f[1]
  BY DEF Parsed, Reads, Whole, RecordAt, After
<1> QED
  BY <1>1, <1>2

\* What holds at an offset when it holds at all later ones holds at each.
LEMMA FromTheEnd ==
  ASSUME NEW n \in Nat, NEW G, \A i \in 1 .. n : (\A j \in i + 1 .. n : j \in G) => i \in G
  PROVE  \A i \in 1 .. n : i \in G
<1> DEFINE Bad == {k \in 0 .. n - 1 : n - k \notin G}
<1>1. Bad = {}
  <2> SUFFICES ASSUME Bad # {} PROVE FALSE
    OBVIOUS
  <2>1. PICK k \in Bad : \A j \in Bad : k <= j
    <3>1. Bad \subseteq Nat
      OBVIOUS
    <3> HIDE DEF Bad
    <3> QED
      BY <3>1, Least
  <2>2. k \in 0 .. n - 1 /\ n - k \notin G /\ n - k \in 1 .. n
    OBVIOUS
  <2>3. \A j \in n - k + 1 .. n : j \in G
    <3> SUFFICES ASSUME NEW j \in n - k + 1 .. n PROVE j \in G
      OBVIOUS
    <3>1. n - j \in 0 .. n - 1 /\ ~(k <= n - j) /\ n - (n - j) = j
      BY <2>2
    <3> QED
      BY <2>1, <3>1
  <2> QED
    BY <2>2, <2>3
<1>2. \A i \in 1 .. n : n - i \in 0 .. n - 1 /\ n - (n - i) = i
  OBVIOUS
<1> QED
  BY <1>1, <1>2

\* A whole record ends where the next one starts, and was written to its end if
\* its type and its body belong to its length.
LEMMA WholeRecord ==
  ASSUME NEW R, \A r \in R : r.len \in Nat \ {0}, NEW file \in Seq(LogCells(R)),
         NEW i \in 1 .. Len(file) + 1, Whole(file, i)
  PROVE  /\ After(file, i) \in i + 1 .. Len(file) + 1
         /\ RecordAt(file, i) # Junk =>
              \E j \in DOMAIN file : /\ file[j].kind = "body" /\ file[j].of = RecordAt(file, i)
                                     /\ file[j].at = file[j].of.len
<1> DEFINE n == Len(file)
           r == file[i].of
           j == i + 1 + r.len
<1>1. n \in Nat /\ DOMAIN file = 1 .. n /\ i \in Nat /\ i >= 1
  OBVIOUS
<1>2. i + 1 <= n /\ j <= n
  BY DEF Whole
<1>3. file[i] \in LogCells(R)
  BY <1>1, <1>2
<1>4. r \in R /\ r.len \in Nat /\ r.len >= 1
  <2>1. r \in R
    BY <1>3 DEF LogCells
  <2> HIDE DEF r
  <2> QED
    BY <2>1
<1> HIDE DEF r, n
<1>5. j \in 1 .. n /\ r.len \in 1 .. r.len /\ i + 2 + r.len \in i + 1 .. n + 1
      /\ i + 2 \in 1 .. n + 1 /\ r.len \in 1 .. j - (i + 2) + 1 /\ i + 2 + r.len - 1 = j
      /\ j \in i + 1 .. n
  BY <1>1, <1>2, <1>4
<1>6. ASSUME SubSeq(file, i + 2, j) = Body(r)
      PROVE  file[j].kind = "body" /\ file[j].of = r /\ file[j].at = r.len
  <2>1. Body(r)[r.len] = [kind |-> "body", of |-> r, at |-> r.len]
    BY <1>5 DEF Body
  <2>2. SubSeq(file, i + 2, j)[r.len] = file[j]
    <3> HIDE DEF j
    <3>1. \A q \in 1 .. j - (i + 2) + 1 : SubSeq(file, i + 2, j)[q] = file[i + 2 + q - 1]
      BY <1>1, <1>5, SubSeqProperties DEF n
    <3> QED
      BY <1>5, <3>1
  <2>3. file[j] = [kind |-> "body", of |-> r, at |-> r.len]
    <3> HIDE DEF j
    <3> QED
      BY <1>6, <2>1, <2>2
  <2> HIDE DEF j
  <2> QED
    BY <2>3
<1> QED
  BY <1>1, <1>5, <1>6 DEF After, RecordAt, r, n

\* What was read is a record that was written to its end, or Junk.
LEMMA ParsedFinds ==
  ASSUME NEW R, \A r \in R : r.len \in Nat \ {0}, NEW file \in Seq(LogCells(R))
  PROVE  Parsed(file) \in Seq({Junk} \cup
           {file[i].of : i \in {j \in DOMAIN file : file[j].kind = "body"
                                                    /\ file[j].at = file[j].of.len}})
<1> DEFINE n == Len(file)
           P == {Junk} \cup {file[i].of : i \in {j \in DOMAIN file : file[j].kind = "body"
                                                    /\ file[j].at = file[j].of.len}}
<1>1. PICK f : Reads(file, f) /\ Parsed(file) = f[1]
  BY ParsedReads DEF Sized
<1>2. n + 1 \in Nat /\ 1 \in 1 .. n + 1
  OBVIOUS
<1>3. ASSUME NEW i \in 1 .. n + 1, \A j \in i + 1 .. n + 1 : f[j] \in Seq(P)
      PROVE  f[i] \in Seq(P)
  <2>1. CASE ~Whole(file, i)
    <3>1. f[i] = <<>>
      BY <1>1, <2>1 DEF Reads
    <3> HIDE DEF P
    <3> QED
      BY <3>1
  <2>2. CASE Whole(file, i)
    <3>1. f[i] = <<RecordAt(file, i)>> \o f[After(file, i)]
      BY <1>1, <2>2 DEF Reads
    <3>2. RecordAt(file, i) \in P
      BY <2>2, WholeRecord
    <3>3. f[After(file, i)] \in Seq(P)
      BY <1>3, <2>2, WholeRecord
    <3> HIDE DEF P
    <3> QED
      BY <3>1, <3>2, <3>3
  <2> QED
    BY <2>1, <2>2
<1> DEFINE G == {i \in 1 .. n + 1 : f[i] \in Seq(P)}
<1>4. \A i \in 1 .. n + 1 : (\A j \in i + 1 .. n + 1 : j \in G) => i \in G
  BY <1>3
<1>5. 1 \in G
  <2> HIDE DEF G
  <2> QED
    BY <1>2, <1>4, FromTheEnd
<1> QED
  BY <1>1, <1>5

-----------------------------------------------------------------------------
(* The text of the index file *)

\* What holds of a natural when it holds of all smaller ones holds of each.
LEMMA FromBelow ==
  ASSUME NEW G, \A n \in Nat : (\A k \in Nat : k < n => k \in G) => n \in G
  PROVE  \A n \in Nat : n \in G
<1> DEFINE Bad == {n \in Nat : n \notin G}
<1> SUFFICES ASSUME Bad # {} PROVE FALSE
  OBVIOUS
<1>1. PICK n \in Bad : \A k \in Bad : n <= k
  <2>1. Bad \subseteq Nat
    OBVIOUS
  <2> HIDE DEF Bad
  <2> QED
    BY <2>1, Least
<1>2. \A k \in Nat : k < n => k \in G
  <2> SUFFICES ASSUME NEW k \in Nat, k < n, k \notin G PROVE FALSE
    OBVIOUS
  <2>1. k \in Bad /\ n \in Nat
    OBVIOUS
  <2> HIDE DEF Bad
  <2> QED
    BY <1>1, <2>1
<1> QED
  BY <1>2

LEMMA DivTen ==
  /\ \A h \in Nat : /\ h \div 10 \in Nat /\ h % 10 \in 0 .. 9
                    /\ h = 10 * (h \div 10) + (h % 10)
                    /\ h >= 10 => h \div 10 < h
  /\ \A a, b \in Nat : a <= b => a \div 10 <= b \div 10
OBVIOUS

\* f gives the text of each height up to n.
Texts(n, f) ==
  f = [h \in 0 .. n |-> IF h < 10 THEN <<h>> ELSE Append(f[h \div 10], h % 10)]

LEMMA TextsExist == \A n \in Nat : \E f : Texts(n, f)
<1> DEFINE G == {n \in Nat : \E f : Texts(n, f)}
<1>1. ASSUME NEW n \in Nat, \A k \in Nat : k < n => k \in G PROVE n \in G
  <2>1. CASE n = 0
    <3> DEFINE f == [h \in 0 .. 0 |-> <<h>>]
    <3>1. f = [h \in 0 .. n |-> IF h < 10 THEN <<h>> ELSE Append(f[h \div 10], h % 10)]
      BY <2>1
    <3> QED
      BY <3>1 DEF Texts
  <2>2. CASE n # 0
    <3>1. n - 1 \in Nat /\ n - 1 < n
      BY <2>2
    <3>2. PICK f : Texts(n - 1, f)
      BY <1>1, <3>1
    <3> DEFINE g == [h \in 0 .. n |-> IF h < 10 THEN <<h>> ELSE Append(f[h \div 10], h % 10)]
    <3>3. \A h \in 0 .. n - 1 : g[h] = f[h]
      <4>1. \A h \in 0 .. n - 1 : h \in 0 .. n
        OBVIOUS
      <4>2. \A h \in 0 .. n - 1 : f[h] = IF h < 10 THEN <<h>> ELSE Append(f[h \div 10], h % 10)
        BY <3>2 DEF Texts
      <4> QED
        BY <4>1, <4>2
    <3>4. \A h \in 0 .. n : h >= 10 => h \div 10 \in 0 .. n - 1
      <4> SUFFICES ASSUME NEW h \in 0 .. n, h >= 10 PROVE h \div 10 \in 0 .. n - 1
        OBVIOUS
      <4>1. h \div 10 \in Nat /\ h \div 10 < h
        BY DivTen
      <4> QED
        BY <4>1
    <3>5. \A h \in 0 .. n : ~(h < 10) => g[h \div 10] = f[h \div 10]
      <4> SUFFICES ASSUME NEW h \in 0 .. n, ~(h < 10) PROVE g[h \div 10] = f[h \div 10]
        OBVIOUS
      <4>1. h \div 10 \in 0 .. n - 1
        BY <3>4
      <4> HIDE DEF g
      <4> QED
        BY <3>3, <4>1
    <3>6. \A h \in 0 .. n : g[h] = IF h < 10 THEN <<h>> ELSE Append(g[h \div 10], h % 10)
      BY <3>5
    <3>7. g = [h \in 0 .. n |-> g[h]]
      OBVIOUS
    <3> HIDE DEF g
    <3>8. Texts(n, g)
      BY <3>6, <3>7 DEF Texts
    <3> QED
      BY <3>8
  <2> QED
    BY <2>1, <2>2
<1>2. \A n \in Nat : n \in G
  <2> HIDE DEF G
  <2> QED
    BY <1>1, FromBelow
<1> QED
  BY <1>2

LEMMA TextsAgree ==
  ASSUME NEW n \in Nat, NEW m \in Nat, NEW f, NEW g, Texts(n, f), Texts(m, g)
  PROVE  \A h \in Nat : h <= n /\ h <= m => f[h] = g[h]
<1> DEFINE G == {h \in Nat : h <= n /\ h <= m => f[h] = g[h]}
<1>1. ASSUME NEW h \in Nat, \A k \in Nat : k < h => k \in G PROVE h \in G
  <2> SUFFICES ASSUME h <= n, h <= m PROVE f[h] = g[h]
    OBVIOUS
  <2>1. /\ f[h] = IF h < 10 THEN <<h>> ELSE Append(f[h \div 10], h % 10)
        /\ g[h] = IF h < 10 THEN <<h>> ELSE Append(g[h \div 10], h % 10)
    <3>1. h \in 0 .. n /\ h \in 0 .. m
      OBVIOUS
    <3> QED
      BY <3>1 DEF Texts
  <2>2. h >= 10 => f[h \div 10] = g[h \div 10]
    <3> SUFFICES ASSUME h >= 10 PROVE f[h \div 10] = g[h \div 10]
      OBVIOUS
    <3>1. h \div 10 \in Nat /\ h \div 10 < h
      BY DivTen
    <3>2. h \div 10 \in G /\ h \div 10 <= n /\ h \div 10 <= m
      BY <1>1, <3>1
    <3> QED
      BY <3>2
  <2> QED
    BY <2>1, <2>2
<1>2. \A h \in Nat : h \in G
  <2> HIDE DEF G
  <2> QED
    BY <1>1, FromBelow
<1> QED
  BY <1>2

\* u64::to_string is well defined.
LEMMA DigitsDefined ==
  Digits = [h \in Nat |-> IF h < 10 THEN <<h>> ELSE Append(Digits[h \div 10], h % 10)]
<1> DEFINE T == [n \in Nat |-> CHOOSE f : Texts(n, f)]
           F == [n \in Nat |-> T[n][n]]
<1>1. \A n \in Nat : Texts(n, T[n])
  BY TextsExist
<1>2. ASSUME NEW h \in Nat
      PROVE  F[h] = IF h < 10 THEN <<h>> ELSE Append(F[h \div 10], h % 10)
  <2>1. h \in 0 .. h /\ h \div 10 \in Nat /\ (h >= 10 => h \div 10 < h)
    BY DivTen
  <2>2. T[h][h] = IF h < 10 THEN <<h>> ELSE Append(T[h][h \div 10], h % 10)
    <3> DEFINE f == T[h]
    <3>1. Texts(h, f)
      BY <1>1
    <3> HIDE DEF f
    <3>2. f[h] = IF h < 10 THEN <<h>> ELSE Append(f[h \div 10], h % 10)
      BY <2>1, <3>1 DEF Texts
    <3> QED
      BY <3>2 DEF f
  <2>3. h >= 10 => T[h][h \div 10] = T[h \div 10][h \div 10]
    <3> SUFFICES ASSUME h >= 10 PROVE T[h][h \div 10] = T[h \div 10][h \div 10]
      OBVIOUS
    <3>1. h \div 10 <= h /\ h \div 10 <= h \div 10
      BY <2>1
    <3>2. Texts(h, T[h]) /\ Texts(h \div 10, T[h \div 10])
      BY <1>1, <2>1
    <3> HIDE DEF T
    <3> QED
      BY <2>1, <3>1, <3>2, TextsAgree
  <2>4. F[h] = T[h][h] /\ F[h \div 10] = T[h \div 10][h \div 10]
    BY <2>1
  <2> HIDE DEF T, F
  <2> QED
    BY <2>2, <2>3, <2>4
<1>3. F = [h \in Nat |-> F[h]]
  OBVIOUS
<1> HIDE DEF F
<1>4. F = [h \in Nat |-> IF h < 10 THEN <<h>> ELSE Append(F[h \div 10], h % 10)]
  BY <1>2, <1>3
<1> QED
  BY <1>4 DEF Digits

\* f gives what each beginning of the text s is read as.
Values(s, f) ==
  f = [n \in 0 .. Len(s) |-> IF n = 0 THEN 0 ELSE 10 * f[n - 1] + s[n]]

LEMMA ValuesExist ==
  ASSUME NEW s \in Seq(Nat)
  PROVE  \E f : Values(s, f)
<1> DEFINE Part(m, f) == f = [n \in 0 .. m |-> IF n = 0 THEN 0 ELSE 10 * f[n - 1] + s[n]]
           G == {m \in Nat : \E f : Part(m, f)}
<1>1. ASSUME NEW m \in Nat, \A k \in Nat : k < m => k \in G PROVE m \in G
  <2>1. CASE m = 0
    <3> DEFINE f == [n \in 0 .. 0 |-> 0]
    <3>1. f = [n \in 0 .. m |-> IF n = 0 THEN 0 ELSE 10 * f[n - 1] + s[n]]
      BY <2>1
    <3> QED
      BY <3>1
  <2>2. CASE m # 0
    <3>1. m - 1 \in Nat /\ m - 1 < m
      BY <2>2
    <3>2. PICK f : Part(m - 1, f)
      BY <1>1, <3>1
    <3> DEFINE g == [n \in 0 .. m |-> IF n = 0 THEN 0 ELSE 10 * f[n - 1] + s[n]]
    <3>3. \A n \in 0 .. m - 1 : g[n] = f[n]
      <4>1. \A n \in 0 .. m - 1 : n \in 0 .. m
        OBVIOUS
      <4>2. \A n \in 0 .. m - 1 : f[n] = IF n = 0 THEN 0 ELSE 10 * f[n - 1] + s[n]
        BY <3>2
      <4> QED
        BY <4>1, <4>2
    <3>4. \A n \in 0 .. m : n # 0 => g[n - 1] = f[n - 1]
      <4>1. \A n \in 0 .. m : n # 0 => n - 1 \in 0 .. m - 1
        OBVIOUS
      <4> HIDE DEF g
      <4> QED
        BY <3>3, <4>1
    <3>5. \A n \in 0 .. m : g[n] = IF n = 0 THEN 0 ELSE 10 * g[n - 1] + s[n]
      BY <3>4
    <3>6. g = [n \in 0 .. m |-> g[n]]
      OBVIOUS
    <3> HIDE DEF g
    <3>7. Part(m, g)
      BY <3>5, <3>6
    <3> QED
      BY <3>7
  <2> QED
    BY <2>1, <2>2
<1>2. \A m \in Nat : m \in G
  <2> HIDE DEF G
  <2> QED
    BY <1>1, FromBelow
<1>3. Len(s) \in G
  BY <1>2
<1> QED
  BY <1>3 DEF Values

LEMMA HeightReads ==
  ASSUME NEW s \in Seq(Nat)
  PROVE  \E f : Values(s, f) /\ HeightOf(s) = f[Len(s)]
<1> DEFINE f == CHOOSE g : Values(s, g)
<1>1. Values(s, f)
  BY ValuesExist
<1>2. HeightOf(s) = f[Len(s)]
  BY DEF HeightOf, Values
<1> QED
  BY <1>1, <1>2

\* A digit more is ten times as much.
LEMMA HeightOfAppend ==
  ASSUME NEW s \in Seq(Nat), NEW d \in Nat
  PROVE  HeightOf(Append(s, d)) = 10 * HeightOf(s) + d
<1> DEFINE t == Append(s, d)
           l == Len(s)
<1>1. t \in Seq(Nat) /\ Len(t) = l + 1 /\ t[l + 1] = d /\ l \in Nat /\ \A n \in 1 .. l : t[n] = s[n]
  OBVIOUS
<1>2. PICK f : Values(s, f) /\ HeightOf(s) = f[l]
  BY HeightReads
<1>3. PICK g : Values(t, g) /\ HeightOf(t) = g[l + 1]
  BY <1>1, HeightReads
<1> HIDE DEF t, l
<1>4. /\ \A n \in 0 .. l : f[n] = IF n = 0 THEN 0 ELSE 10 * f[n - 1] + s[n]
      /\ \A n \in 0 .. l + 1 : g[n] = IF n = 0 THEN 0 ELSE 10 * g[n - 1] + t[n]
  BY <1>1, <1>2, <1>3 DEF Values, l
<1> DEFINE G == {n \in Nat : n <= l => g[n] = f[n]}
<1>5. ASSUME NEW n \in Nat, \A k \in Nat : k < n => k \in G PROVE n \in G
  <2> SUFFICES ASSUME n <= l PROVE g[n] = f[n]
    OBVIOUS
  <2>1. CASE n = 0
    <3>1. n \in 0 .. l /\ n \in 0 .. l + 1
      BY <1>1
    <3> QED
      BY <1>4, <2>1, <3>1
  <2>2. CASE n # 0
    <3>1. n \in 0 .. l /\ n \in 0 .. l + 1 /\ n \in 1 .. l /\ n - 1 \in Nat /\ n - 1 < n /\ n - 1 <= l
      BY <1>1, <2>2
    <3>2. g[n - 1] = f[n - 1]
      BY <1>5, <3>1
    <3>3. f[n] = 10 * f[n - 1] + s[n] /\ g[n] = 10 * g[n - 1] + t[n] /\ t[n] = s[n]
      BY <1>1, <1>4, <2>2, <3>1
    <3> QED
      BY <3>2, <3>3
  <2> QED
    BY <2>1, <2>2
<1>6. \A n \in Nat : n \in G
  <2> HIDE DEF G
  <2> QED
    BY <1>5, FromBelow
<1>7. g[l] = f[l]
  BY <1>1, <1>6
<1>8. g[l + 1] = 10 * g[l] + t[l + 1]
  <2> DEFINE k == l + 1
  <2>1. k \in 0 .. l + 1 /\ k # 0 /\ k - 1 = l
    BY <1>1
  <2> HIDE DEF k
  <2>2. g[k] = 10 * g[k - 1] + t[k]
    BY <1>4, <2>1
  <2> QED
    BY <2>1, <2>2 DEF k
<1> QED
  BY <1>1, <1>2, <1>3, <1>7, <1>8 DEF t

LEMMA HeightOfEmpty == HeightOf(<<>>) = 0
<1>1. <<>> \in Seq(Nat) /\ Len(<<>>) = 0
  OBVIOUS
<1>2. PICK f : Values(<<>>, f) /\ HeightOf(<<>>) = f[0]
  BY <1>1, HeightReads
<1>3. 0 \in 0 .. Len(<<>>)
  OBVIOUS
<1> QED
  BY <1>2, <1>3 DEF Values

\* What to_string writes, parse reads.
LEMMA DigitsRead ==
  ASSUME NEW h \in Nat
  PROVE  /\ Digits[h] \in Seq(0 .. 9) /\ Len(Digits[h]) >= 1
         /\ HeightOf(Digits[h]) = h
<1> DEFINE G == {n \in Nat : /\ Digits[n] \in Seq(0 .. 9) /\ Len(Digits[n]) >= 1
                             /\ HeightOf(Digits[n]) = n}
<1>1. ASSUME NEW n \in Nat, \A k \in Nat : k < n => k \in G PROVE n \in G
  <2>1. Digits[n] = IF n < 10 THEN <<n>> ELSE Append(Digits[n \div 10], n % 10)
    BY DigitsDefined
  <2>2. CASE n < 10
    <3>1. Digits[n] = Append(<<>>, n) /\ <<>> \in Seq(Nat) /\ n \in 0 .. 9
      BY <2>1, <2>2
    <3>2. HeightOf(Digits[n]) = 10 * HeightOf(<<>>) + n
      BY <3>1, HeightOfAppend
    <3>3. Digits[n] \in Seq(0 .. 9) /\ Len(Digits[n]) >= 1
      <4>1. <<>> \in Seq(0 .. 9)
        OBVIOUS
      <4> QED
        BY <3>1, <4>1
    <3> QED
      BY <3>2, <3>3, HeightOfEmpty
  <2>3. CASE n >= 10
    <3>1. /\ n \div 10 \in Nat /\ n % 10 \in 0 .. 9 /\ n % 10 \in Nat
          /\ n = 10 * (n \div 10) + (n % 10) /\ n \div 10 < n
      BY <2>3, DivTen
    <3> DEFINE q == n \div 10
               r == n % 10
    <3>2. Digits[q] \in Seq(0 .. 9) /\ Len(Digits[q]) >= 1 /\ HeightOf(Digits[q]) = q
      BY <1>1, <3>1
    <3>3. Digits[n] = Append(Digits[q], r) /\ r \in 0 .. 9 /\ r \in Nat /\ n = 10 * q + r
      BY <2>1, <2>3, <3>1
    <3> HIDE DEF q, r
    <3>4. Digits[q] \in Seq(Nat)
      BY <3>2
    <3>5. HeightOf(Digits[n]) = n
      BY <3>2, <3>3, <3>4, HeightOfAppend
    <3>6. Digits[n] \in Seq(0 .. 9) /\ Len(Digits[n]) >= 1
      BY <3>2, <3>3
    <3> QED
      BY <3>5, <3>6
  <2> QED
    BY <2>2, <2>3
<1>2. \A n \in Nat : n \in G
  <2> HIDE DEF G
  <2> QED
    BY <1>1, FromBelow
<1> QED
  BY <1>2

\* A higher height has no shorter text.
LEMMA DigitsGrow ==
  ASSUME NEW a \in Nat, NEW b \in Nat, a <= b
  PROVE  Len(Digits[a]) <= Len(Digits[b])
<1> DEFINE G == {n \in Nat : \A m \in Nat : m <= n => Len(Digits[m]) <= Len(Digits[n])}
<1>1. ASSUME NEW n \in Nat, \A k \in Nat : k < n => k \in G PROVE n \in G
  <2> SUFFICES ASSUME NEW m \in Nat, m <= n PROVE Len(Digits[m]) <= Len(Digits[n])
    OBVIOUS
  <2>1. /\ Len(Digits[n]) >= 1 /\ Len(Digits[n]) \in Nat
        /\ Digits[m] = IF m < 10 THEN <<m>> ELSE Append(Digits[m \div 10], m % 10)
        /\ Digits[n] = IF n < 10 THEN <<n>> ELSE Append(Digits[n \div 10], n % 10)
    <3>1. Digits[n] \in Seq(0 .. 9) /\ Len(Digits[n]) >= 1
      BY DigitsRead
    <3>2. Len(Digits[n]) \in Nat
      BY <3>1
    <3> QED
      BY <3>1, <3>2, DigitsDefined
  <2>2. CASE m < 10
    <3>1. Len(Digits[m]) = 1
      BY <2>1, <2>2
    <3> QED
      BY <2>1, <3>1
  <2>3. CASE m >= 10
    <3>1. m \div 10 \in Nat /\ n \div 10 \in Nat /\ n \div 10 < n /\ m \div 10 <= n \div 10
      BY <2>3, DivTen
    <3>2. Len(Digits[m \div 10]) <= Len(Digits[n \div 10])
      BY <1>1, <3>1
    <3>3. Digits[m \div 10] \in Seq(0 .. 9) /\ Digits[n \div 10] \in Seq(0 .. 9)
      BY <3>1, DigitsRead
    <3>4. Digits[m] = Append(Digits[m \div 10], m % 10) /\ Digits[n] = Append(Digits[n \div 10], n % 10)
      BY <2>1, <2>3
    <3> DEFINE x == Digits[m \div 10]
               y == Digits[n \div 10]
    <3>5. Len(Append(x, m % 10)) = Len(x) + 1 /\ Len(Append(y, n % 10)) = Len(y) + 1
          /\ Len(x) \in Nat /\ Len(y) \in Nat
      <4> HIDE DEF x, y
      <4> QED
        BY <3>3 DEF x, y
    <3> QED
      BY <3>2, <3>4, <3>5
  <2> QED
    BY <2>2, <2>3
<1>2. \A n \in Nat : n \in G
  <2> HIDE DEF G
  <2> QED
    BY <1>1, FromBelow
<1> QED
  BY <1>2

\* File::set_len makes the text no shorter here: it stays, or ends in zero bytes.
LEMMA SetLenText ==
  ASSUME NEW s \in Seq(Char), NEW n \in Nat, Len(s) <= n
  PROVE  /\ SetLen(s, n) \in Seq(Char) /\ Len(SetLen(s, n)) = n
         /\ SetLen(s, n) = s \/ ~Readable(SetLen(s, n))
<1> DEFINE t == SetLen(s, n)
<1>1. /\ t = [i \in 1 .. n |-> IF i \in 1 .. Len(s) THEN s[i] ELSE Nul]
      /\ \A i \in 1 .. Len(s) : s[i] \in Char
      /\ Nul \in Char /\ Len(s) \in Nat
  BY DEF SetLen, Char, Nul
<1>2. t \in [1 .. n -> Char]
  BY <1>1
<1> HIDE DEF t
<1>3. t \in Seq(Char) /\ Len(t) = n
  BY <1>2
<1>4. CASE Len(s) = n
  <2>1. \A i \in 1 .. Len(s) : t[i] = s[i]
    BY <1>1, <1>4
  <2>2. t = s
    BY <1>3, <1>4, <2>1, SeqEqual
  <2> QED
    BY <1>3, <2>2 DEF t
<1>5. CASE Len(s) < n
  <2>1. n \in 1 .. n /\ n \notin 1 .. Len(s)
    BY <1>1, <1>5
  <2>2. t[n] = Nul /\ n \in DOMAIN t
    BY <1>1, <1>2, <2>1
  <2> QED
    BY <1>3, <2>2 DEF t, Readable, ToSet
<1> QED
  BY <1>1, <1>4, <1>5

\* write_all at offset 0 replaces a text that is not longer.
LEMMA OverwriteText ==
  ASSUME NEW s \in Seq(Char), NEW t \in Seq(Char), Len(s) <= Len(t)
  PROVE  Overwrite(s, t) = t
<1>1. DOMAIN s = 1 .. Len(s) /\ DOMAIN t = 1 .. Len(t) /\ Len(s) \in Nat /\ Len(t) \in Nat
  OBVIOUS
<1>2. DOMAIN s \cup DOMAIN t = DOMAIN t
  BY <1>1
<1>3. t = [i \in DOMAIN t |-> t[i]]
  <2>1. t \in [1 .. Len(t) -> Char]
    OBVIOUS
  <2> QED
    BY <2>1
<1>4. Overwrite(s, t) = [i \in DOMAIN t |-> IF i \in DOMAIN t THEN t[i] ELSE s[i]]
  BY <1>2 DEF Overwrite
<1> QED
  BY <1>3, <1>4

LEMMA DigitsText ==
  ASSUME NEW s \in Seq(0 .. 9)
  PROVE  s \in Seq(Char) /\ s \in Seq(Nat) /\ Readable(s)
<1>1. 0 .. 9 \subseteq Char /\ 0 .. 9 \subseteq Nat /\ Nul \notin 0 .. 9
  BY DEF Char, Nul
<1>2. \A i \in DOMAIN s : s[i] \in 0 .. 9
  OBVIOUS
<1> QED
  BY <1>1, <1>2 DEF Readable, ToSet

-----------------------------------------------------------------------------
(* A log file to which cells are added *)

\* What is added after a whole record does not change it.
LEMMA RecordStays ==
  ASSUME NEW R, Sized(R), NEW file \in Seq(LogCells(R)), NEW cells \in Seq(LogCells(R)),
         NEW i \in 1 .. Len(file) + 1, Whole(file, i)
  PROVE  /\ Whole(file \o cells, i) /\ RecordAt(file \o cells, i) = RecordAt(file, i)
         /\ After(file \o cells, i) = After(file, i)
         /\ After(file, i) \in i + 1 .. Len(file) + 1
<1> DEFINE n == Len(file)
           more == file \o cells
           l == file[i].of.len
<1>1. n \in Nat /\ Len(more) >= n /\ \A j \in 1 .. n : more[j] = file[j]
  <2>1. Len(cells) \in Nat /\ n \in Nat /\ Len(more) = n + Len(cells)
        /\ \A j \in 1 .. n + Len(cells) : more[j] = IF j <= n THEN file[j] ELSE cells[j - n]
    BY ConcatProperties
  <2>2. \A j \in 1 .. n : j \in 1 .. n + Len(cells) /\ j <= n
    BY <2>1
  <2> HIDE DEF more
  <2> QED
    BY <2>1, <2>2
<1>2. more \in Seq(LogCells(R)) /\ Len(more) \in Nat
  OBVIOUS
<1> HIDE DEF more, n
<1>3. i + 1 <= n /\ i + 1 + l <= n /\ i \in 1 .. n /\ i + 1 \in 1 .. n /\ file[i].kind = "len"
  BY <1>1 DEF Whole, n
<1>4. l \in Nat
  <2>1. file[i] \in LogCells(R)
    BY <1>3 DEF n
  <2>2. file[i].of \in R
    BY <2>1 DEF LogCells
  <2> QED
    BY <2>2 DEF Sized
<1> HIDE DEF l
<1>5. more[i] = file[i] /\ more[i + 1] = file[i + 1]
  BY <1>1, <1>3
<1>6. SubSeq(more, i + 2, i + 1 + l) = SubSeq(file, i + 2, i + 1 + l)
  <2>1. CASE l = 0
    <3>1. i + 2 \in Int /\ i + 1 + l \in Int /\ i + 1 + l < i + 2
      BY <1>3, <2>1
    <3> QED
      BY <3>1, SubSeqEmpty
  <2>2. CASE l # 0
    <3>1. i + 2 \in 1 .. n /\ i + 1 + l \in 1 .. n
      BY <1>1, <1>3, <1>4, <2>2
    <3> QED
      BY <3>1, SubSeqOfConcat1 DEF more, n
  <2> QED
    BY <2>1, <2>2
<1>7. /\ Whole(more, i) <=> i + 1 <= Len(more) /\ more[i].kind = "len" /\ i + 1 + l <= Len(more)
      /\ After(more, i) = i + 2 + l /\ After(file, i) = i + 2 + l
  BY <1>5 DEF Whole, After, l
<1>8. i + 1 <= Len(more) /\ i + 1 + l <= Len(more) /\ i + 2 + l \in i + 1 .. n + 1
  BY <1>1, <1>2, <1>3, <1>4
<1>9. RecordAt(more, i) = RecordAt(file, i)
  BY <1>5, <1>6 DEF RecordAt, l
<1> QED
  BY <1>3, <1>5, <1>7, <1>8, <1>9 DEF more, n

\* What Wal::load may hand back.
Readings(R) == R \cup {Junk}

LEMMA ReadType ==
  ASSUME NEW R, Sized(R), NEW file \in Seq(LogCells(R)), NEW f, Reads(file, f)
  PROVE  /\ \A i \in 1 .. Len(file) + 1 : f[i] \in Seq(Readings(R))
         /\ \A i \in 1 .. Len(file) + 1 : Whole(file, i) =>
              RecordAt(file, i) \in Readings(R) /\ f[i] = <<RecordAt(file, i)>> \o f[After(file, i)]
         /\ \A i \in 1 .. Len(file) + 1 : ~Whole(file, i) => f[i] = <<>>
<1> DEFINE n == Len(file)
           P == Readings(R)
           G == {i \in 1 .. n + 1 : f[i] \in Seq(P)}
<1>1. n \in Nat /\ n + 1 \in Nat
  OBVIOUS
<1>2. \A i \in 1 .. n + 1 : f[i] = IF Whole(file, i) THEN <<RecordAt(file, i)>> \o f[After(file, i)]
                                   ELSE <<>>
  BY DEF Reads
<1>3. ASSUME NEW i \in 1 .. n + 1, Whole(file, i)
      PROVE  RecordAt(file, i) \in P /\ After(file, i) \in i + 1 .. n + 1
  <2>1. i \in 1 .. n
    BY <1>1, <1>3 DEF Whole
  <2>2. file[i] \in LogCells(R)
    BY <2>1
  <2>3. file[i].of \in R
    BY <2>2 DEF LogCells
  <2>4. <<>> \in Seq(LogCells(R))
    OBVIOUS
  <2>5. After(file, i) \in i + 1 .. n + 1
    BY <1>3, <2>4, RecordStays
  <2> QED
    BY <2>3, <2>5 DEF RecordAt, Readings
<1>4. ASSUME NEW i \in 1 .. n + 1, \A j \in i + 1 .. n + 1 : j \in G PROVE i \in G
  <2>1. CASE Whole(file, i)
    <3>1. f[i] = <<RecordAt(file, i)>> \o f[After(file, i)]
      BY <1>2, <2>1
    <3>2. RecordAt(file, i) \in P /\ f[After(file, i)] \in Seq(P)
      BY <1>3, <1>4, <2>1
    <3> HIDE DEF P
    <3>3. f[i] \in Seq(P)
      BY <3>1, <3>2
    <3> QED
      BY <3>3
  <2>2. CASE ~Whole(file, i)
    <3>1. f[i] = <<>>
      BY <1>2, <2>2
    <3>2. <<>> \in Seq(P)
      OBVIOUS
    <3> QED
      BY <3>1, <3>2
  <2> QED
    BY <2>1, <2>2
<1>5. \A i \in 1 .. n + 1 : i \in G
  <2> HIDE DEF G
  <2> QED
    BY <1>1, <1>4, FromTheEnd
<1>6. \A i \in 1 .. n + 1 : f[i] \in Seq(P)
  BY <1>5
<1> QED
  BY <1>2, <1>3, <1>6

\* The records of s lie in the file from its beginning, one after the other, at
\* the offsets off; they fill it when the last ends where the file does.
Holding(file, s, off) ==
  /\ off \in [1 .. Len(s) + 1 -> 1 .. Len(file) + 1] /\ off[1] = 1
  /\ \A k \in 1 .. Len(s) : /\ Whole(file, off[k]) /\ RecordAt(file, off[k]) = s[k]
                            /\ off[k + 1] = After(file, off[k])
Starts(file, s) == \E off : Holding(file, s, off)
Filled(file, s) == \E off : Holding(file, s, off) /\ off[Len(s) + 1] = Len(file) + 1

LEMMA HoldingReads ==
  ASSUME NEW R, Sized(R), NEW file \in Seq(LogCells(R)), NEW s \in Seq(R), NEW off,
         Holding(file, s, off)
  PROVE  \E t \in Seq(Readings(R)) :
           /\ Parsed(file) = s \o t
           /\ off[Len(s) + 1] = Len(file) + 1 => t = <<>>
<1> DEFINE P == Readings(R)
           l == Len(s)
<1>1. PICK f : Reads(file, f) /\ Parsed(file) = f[1]
  BY ParsedReads
<1>2. s \in Seq(P) /\ l \in Nat /\ \A k \in 1 .. l : s[k] \in P
  BY DEF Readings
<1>3. /\ off \in [1 .. l + 1 -> 1 .. Len(file) + 1] /\ off[1] = 1
      /\ \A k \in 1 .. l : /\ Whole(file, off[k]) /\ RecordAt(file, off[k]) = s[k]
                           /\ off[k + 1] = After(file, off[k])
  BY DEF Holding
<1>4. /\ \A i \in 1 .. Len(file) + 1 : f[i] \in Seq(P)
      /\ \A i \in 1 .. Len(file) + 1 : Whole(file, i) => f[i] = <<RecordAt(file, i)>> \o f[After(file, i)]
      /\ \A i \in 1 .. Len(file) + 1 : ~Whole(file, i) => f[i] = <<>>
  BY <1>1, ReadType
<1> DEFINE G == {k \in Nat : k <= l => f[1] = SubSeq(s, 1, k) \o f[off[k + 1]]}
<1>5. ASSUME NEW k \in Nat, \A j \in Nat : j < k => j \in G PROVE k \in G
  <2> SUFFICES ASSUME k <= l PROVE f[1] = SubSeq(s, 1, k) \o f[off[k + 1]]
    OBVIOUS
  <2>1. CASE k = 0
    <3>1. SubSeq(s, 1, k) = <<>>
      BY <1>2, <2>1, SubSeqEmpty
    <3>2. off[k + 1] = 1 /\ f[1] \in Seq(P)
      <4>1. 1 \in 1 .. Len(file) + 1
        OBVIOUS
      <4> QED
        BY <1>3, <1>4, <2>1, <4>1
    <3> HIDE DEF P
    <3> QED
      BY <3>1, <3>2, ConcatEmptySeq
  <2>2. CASE k # 0
    <3>1. k - 1 \in Nat /\ k - 1 < k /\ k - 1 <= l /\ k - 1 + 1 = k /\ k \in 1 .. l /\ k \in 1 .. l + 1
          /\ k + 1 \in 1 .. l + 1
      BY <1>2, <2>2
    <3>2. f[1] = SubSeq(s, 1, k - 1) \o f[off[k]]
      BY <1>5, <3>1
    <3>3. off[k] \in 1 .. Len(file) + 1 /\ off[k + 1] \in 1 .. Len(file) + 1
      BY <1>3, <3>1
    <3>4. f[off[k]] = <<s[k]>> \o f[off[k + 1]]
      BY <1>3, <1>4, <3>1, <3>3
    <3>5. SubSeq(s, 1, k) = SubSeq(s, 1, k - 1) \o <<s[k]>>
      <4> DEFINE a == SubSeq(s, 1, k - 1)
                 b == SubSeq(s, 1, k)
      <4>1. Len(a) = k - 1 /\ \A j \in 1 .. k - 1 : a[j] = s[j]
        BY <1>2, <3>1
      <4>2. Len(b) = k /\ \A j \in 1 .. k : b[j] = s[j]
        BY <1>2, <3>1
      <4>3. a \in Seq(P) /\ b \in Seq(P) /\ <<s[k]>> \in Seq(P)
        BY <1>2, <3>1
      <4> HIDE DEF a, b, P
      <4>4. Append(a, s[k]) \in Seq(P) /\ Len(Append(a, s[k])) = k
            /\ \A j \in 1 .. k : Append(a, s[k])[j] = IF j <= k - 1 THEN a[j] ELSE s[k]
        BY <1>2, <3>1, <4>1, <4>3
      <4>5. \A j \in 1 .. k : b[j] = Append(a, s[k])[j]
        <5> SUFFICES ASSUME NEW j \in 1 .. k PROVE b[j] = Append(a, s[k])[j]
          OBVIOUS
        <5>1. j \in 1 .. k - 1 \/ (j = k /\ ~(j <= k - 1))
          BY <3>1
        <5> QED
          BY <4>1, <4>2, <4>4, <5>1
      <4>6. b = Append(a, s[k])
        BY <4>2, <4>3, <4>4, <4>5, SeqEqual
      <4>7. a \o <<s[k]>> = Append(a, s[k])
        BY <1>2, <3>1, <4>3, AppendIsConcat
      <4> QED
        BY <4>6, <4>7 DEF a, b
    <3>6. SubSeq(s, 1, k - 1) \in Seq(P) /\ <<s[k]>> \in Seq(P) /\ f[off[k + 1]] \in Seq(P)
      BY <1>2, <1>4, <3>1, <3>3
    <3> DEFINE a == SubSeq(s, 1, k - 1)
               b == <<s[k]>>
               c == f[off[k + 1]]
    <3>7. (a \o b) \o c = a \o (b \o c)
      <4>1. a \in Seq(P) /\ b \in Seq(P) /\ c \in Seq(P)
        BY <3>6
      <4> HIDE DEF P, G, l, a, b, c
      <4> QED
        BY <4>1, ConcatAssociative
    <3>8. SubSeq(s, 1, k) = a \o b /\ f[off[k]] = b \o c /\ f[1] = a \o f[off[k]]
      BY <3>2, <3>4, <3>5
    <3> HIDE DEF P, a, b
    <3> QED
      BY <3>7, <3>8
  <2> QED
    BY <2>1, <2>2
<1>6. \A k \in Nat : k \in G
  <2> HIDE DEF G
  <2> QED
    BY <1>5, FromBelow
<1>7. f[1] = s \o f[off[l + 1]]
  <2>1. f[1] = SubSeq(s, 1, l) \o f[off[l + 1]]
    <3>1. l \in G
      BY <1>2, <1>6, Zenon
    <3>2. l \in Nat /\ l <= l
      BY <1>2
    <3> HIDE DEF l
    <3> QED
      BY <3>1, <3>2
  <2>2. SubSeq(s, 1, l) = s
    BY SubSeqFull
  <2> QED
    BY <2>1, <2>2
<1>8. off[l + 1] \in 1 .. Len(file) + 1 /\ f[off[l + 1]] \in Seq(P)
  <2>1. l + 1 \in 1 .. l + 1
    BY <1>2
  <2> QED
    BY <1>3, <1>4, <2>1
<1>9. ASSUME off[l + 1] = Len(file) + 1 PROVE f[off[l + 1]] = <<>>
  <2>1. ~Whole(file, Len(file) + 1)
    BY DEF Whole
  <2> QED
    BY <1>4, <1>8, <1>9, <2>1
<1> QED
  BY <1>1, <1>7, <1>8, <1>9

\* What is saved one after the other is read first of all, and nothing else is
\* when it fills the file.
LEMMA StartsRead ==
  ASSUME NEW R, Sized(R), NEW file \in Seq(LogCells(R)), NEW s \in Seq(R), Starts(file, s)
  PROVE  IsPrefix(s, Parsed(file)) /\ Parsed(file) \in Seq(Readings(R))
<1>1. PICK off : Holding(file, s, off)
  BY DEF Starts
<1>2. PICK t \in Seq(Readings(R)) : Parsed(file) = s \o t
  BY <1>1, HoldingReads
<1>3. s \in Seq(Readings(R))
  BY DEF Readings
<1> DEFINE P == Readings(R)
<1>4. s \o t \in Seq(P) /\ Len(s) <= Len(s \o t)
  <2>1. s \in Seq(P) /\ t \in Seq(P)
    BY <1>3
  <2> HIDE DEF P
  <2> QED
    BY <2>1
<1>5. SubSeq(s \o t, 1, Len(s)) = SubSeq(s, 1, Len(s))
  <2>1. CASE Len(s) = 0
    <3>1. SubSeq(s \o t, 1, Len(s)) = <<>> /\ SubSeq(s, 1, Len(s)) = <<>>
      BY <2>1, SubSeqEmpty
    <3> QED
      BY <3>1
  <2>2. CASE Len(s) # 0
    <3>1. 1 \in 1 .. Len(s) /\ Len(s) \in 1 .. Len(s)
      BY <2>2
    <3> QED
      BY <1>3, <3>1, SubSeqOfConcat1
  <2> QED
    BY <2>1, <2>2
<1> QED
  BY <1>2, <1>4, <1>5 DEF IsPrefix

LEMMA FilledReads ==
  ASSUME NEW R, Sized(R), NEW file \in Seq(LogCells(R)), NEW s \in Seq(R), Filled(file, s)
  PROVE  Parsed(file) = s /\ Starts(file, s)
<1>1. PICK off : Holding(file, s, off) /\ off[Len(s) + 1] = Len(file) + 1
  BY DEF Filled
<1>2. PICK t \in Seq(Readings(R)) : Parsed(file) = s \o t /\ t = <<>>
  BY <1>1, HoldingReads
<1>3. s \o <<>> = s
  BY ConcatEmptySeq
<1> QED
  BY <1>1, <1>2, <1>3 DEF Starts

LEMMA EmptyFile == Filled(<<>>, <<>>)
<1> DEFINE off == [k \in 1 .. 1 |-> 1]
<1>1. Holding(<<>>, <<>>, off)
  BY DEF Holding
<1> QED
  BY <1>1 DEF Filled

LEMMA StartsStays ==
  ASSUME NEW R, Sized(R), NEW file \in Seq(LogCells(R)), NEW s \in Seq(R),
         NEW cells \in Seq(LogCells(R)), Starts(file, s)
  PROVE  Starts(file \o cells, s)
<1> DEFINE more == file \o cells
<1>1. PICK off : Holding(file, s, off)
  BY DEF Starts
<1>2. Len(more) >= Len(file) /\ Len(more) \in Nat /\ Len(file) \in Nat
  OBVIOUS
<1>3. \A k \in 1 .. Len(s) : /\ Whole(more, off[k]) /\ RecordAt(more, off[k]) = s[k]
                             /\ off[k + 1] = After(more, off[k])
  <2> SUFFICES ASSUME NEW k \in 1 .. Len(s)
               PROVE  /\ Whole(more, off[k]) /\ RecordAt(more, off[k]) = s[k]
                      /\ off[k + 1] = After(more, off[k])
    OBVIOUS
  <2>1. off[k] \in 1 .. Len(file) + 1
    <3>1. k \in 1 .. Len(s) + 1
      OBVIOUS
    <3> QED
      BY <1>1, <3>1 DEF Holding
  <2>2. Whole(file, off[k]) /\ RecordAt(file, off[k]) = s[k] /\ off[k + 1] = After(file, off[k])
    BY <1>1 DEF Holding
  <2> QED
    BY <2>1, <2>2, RecordStays
<1> HIDE DEF more
<1>4. off \in [1 .. Len(s) + 1 -> 1 .. Len(more) + 1] /\ off[1] = 1
  <2>1. 1 .. Len(file) + 1 \subseteq 1 .. Len(more) + 1
    BY <1>2
  <2> QED
    BY <1>1, <2>1 DEF Holding
<1>5. Holding(more, s, off)
  BY <1>3, <1>4 DEF Holding
<1> QED
  BY <1>5 DEF Starts, more

LEMMA ConcatParts ==
  ASSUME NEW S, NEW s \in Seq(S), NEW t \in Seq(S)
  PROVE  /\ s \o t \in Seq(S) /\ Len(s \o t) = Len(s) + Len(t)
         /\ \A i \in 1 .. Len(s) : (s \o t)[i] = s[i]
         /\ \A i \in 1 .. Len(t) : (s \o t)[Len(s) + i] = t[i]
<1> DEFINE u == s \o t
           n == Len(s)
           m == Len(t)
<1>1. n \in Nat /\ m \in Nat
  OBVIOUS
<1>2. u \in Seq(S) /\ Len(u) = n + m
      /\ \A i \in 1 .. n + m : u[i] = IF i <= n THEN s[i] ELSE t[i - n]
  BY ConcatProperties
<1> HIDE DEF u, n, m
<1>3. \A i \in 1 .. m : n + i \in 1 .. n + m /\ ~(n + i <= n) /\ (n + i) - n = i
  BY <1>1
<1>4. \A i \in 1 .. m : u[n + i] = t[i]
  <2> SUFFICES ASSUME NEW i \in 1 .. m PROVE u[n + i] = t[i]
    OBVIOUS
  <2>1. u[n + i] = t[(n + i) - n]
    BY <1>2, <1>3
  <2> QED
    BY <1>3, <2>1
<1>5. \A i \in 1 .. n : i \in 1 .. n + m /\ i <= n
  BY <1>1
<1>6. \A i \in 1 .. n : u[i] = s[i]
  BY <1>2, <1>5
<1> QED
  BY <1>2, <1>4, <1>6 DEF u, n, m

LEMMA CellTypes ==
  ASSUME NEW R, Sized(R), NEW r \in R
  PROVE  /\ LenCell(r) \in LogCells(R) /\ TypeCell(r) \in LogCells(R)
         /\ Body(r) \in Seq(LogCells(R)) /\ Len(Body(r)) = r.len
         /\ Written(r) \in Seq(LogCells(R)) /\ Len(Written(r)) = r.len + 2
         /\ Written(r)[1] = LenCell(r) /\ Written(r)[2] = TypeCell(r)
         /\ \A i \in 1 .. r.len : Written(r)[i + 2] = Body(r)[i]
         /\ \A i \in 1 .. r.len : Body(r)[i].kind # "len"
         /\ LenCell(r).kind = "len" /\ LenCell(r).of = r
<1>1. LenCell(r) \in LogCells(R) /\ TypeCell(r) \in LogCells(R)
  BY DEF LenCell, TypeCell, LogCells
<1>2. r.len \in Nat
  BY DEF Sized
<1>3. \A i \in 1 .. r.len : /\ Body(r)[i] \in LogCells(R)
                            /\ Body(r)[i].kind # "len"
  BY <1>2 DEF Body, LogCells
<1>4. Body(r) \in [1 .. r.len -> LogCells(R)]
  BY <1>3 DEF Body
<1>5. Body(r) \in Seq(LogCells(R)) /\ Len(Body(r)) = r.len
  BY <1>2, <1>4
<1> DEFINE b == Body(r)
           n == r.len
           h == <<LenCell(r), TypeCell(r)>>
<1>6. h \in Seq(LogCells(R)) /\ Len(h) = 2 /\ h[1] = LenCell(r) /\ h[2] = TypeCell(r)
  BY <1>1
<1>7. Written(r) = h \o b
  BY DEF Written
<1> HIDE DEF b, n, h
<1>8. b \in Seq(LogCells(R)) /\ Len(b) = n /\ n \in Nat
  BY <1>2, <1>5 DEF b, n
<1>9. /\ h \o b \in Seq(LogCells(R)) /\ Len(h \o b) = 2 + n
      /\ \A i \in 1 .. 2 : (h \o b)[i] = h[i]
      /\ \A i \in 1 .. n : (h \o b)[2 + i] = b[i]
  <2>1. h \in Seq(LogCells(R)) /\ b \in Seq(LogCells(R)) /\ Len(h) = 2 /\ Len(b) = n
    BY <1>6, <1>8
  <2> HIDE DEF h
  <2>2. /\ h \o b \in Seq(LogCells(R)) /\ Len(h \o b) = Len(h) + Len(b)
        /\ \A i \in 1 .. Len(h) : (h \o b)[i] = h[i]
        /\ \A i \in 1 .. Len(b) : (h \o b)[Len(h) + i] = b[i]
    <3> DEFINE C == LogCells(R)
    <3>1. h \in Seq(C) /\ b \in Seq(C)
      BY <2>1
    <3> HIDE DEF C
    <3>2. /\ h \o b \in Seq(C) /\ Len(h \o b) = Len(h) + Len(b)
          /\ \A i \in 1 .. Len(h) : (h \o b)[i] = h[i]
          /\ \A i \in 1 .. Len(b) : (h \o b)[Len(h) + i] = b[i]
      BY ONLY <3>1, ConcatParts
    <3> QED
      BY <3>2 DEF C
  <2> QED
    BY <2>1, <2>2
<1>10. (h \o b)[1] = h[1] /\ (h \o b)[2] = h[2] /\ \A i \in 1 .. n : (h \o b)[i + 2] = b[i]
  <2>1. 1 \in 1 .. 2 /\ 2 \in 1 .. 2 /\ 2 + n = n + 2 /\ \A i \in 1 .. n : i + 2 = 2 + i
    BY <1>8
  <2> HIDE DEF h
  <2> QED
    BY <1>9, <2>1
<1>11. LenCell(r).kind = "len" /\ LenCell(r).of = r
  BY DEF LenCell
<1>12. 2 + n = n + 2
  BY <1>8
<1> QED
  BY <1>1, <1>3, <1>5, <1>6, <1>7, <1>9, <1>10, <1>11, <1>12 DEF b, n

\* A record that is written behind the last one is the last one.
LEMMA FilledAppend ==
  ASSUME NEW R, Sized(R), NEW file \in Seq(LogCells(R)), NEW s \in Seq(R), NEW r \in R,
         Filled(file, s)
  PROVE  Filled(file \o Written(r), Append(s, r))
<1> DEFINE n == Len(file)
           l == Len(s)
           w == Written(r)
           c == r.len
           more == file \o w
           t == Append(s, r)
<1>1. PICK off : Holding(file, s, off) /\ off[l + 1] = n + 1
  BY DEF Filled
<1>2. /\ n \in Nat /\ l \in Nat /\ c \in Nat
      /\ w \in Seq(LogCells(R)) /\ Len(w) = c + 2
      /\ w[1] = LenCell(r) /\ w[2] = TypeCell(r) /\ \A i \in 1 .. c : w[i + 2] = Body(r)[i]
      /\ Len(Body(r)) = c /\ Body(r) \in Seq(LogCells(R))
      /\ LenCell(r).kind = "len" /\ LenCell(r).of = r
  BY CellTypes DEF Sized
<1>3. Len(t) = l + 1 /\ t[l + 1] = r /\ \A k \in 1 .. l : t[k] = s[k]
  OBVIOUS
<1>4. /\ \A k \in 1 .. l + 1 : off[k] \in 1 .. n + 1
      /\ \A k \in 1 .. l : /\ Whole(more, off[k]) /\ RecordAt(more, off[k]) = s[k]
                           /\ off[k + 1] = After(more, off[k])
      /\ off[1] = 1
  <2>1. \A k \in 1 .. l + 1 : off[k] \in 1 .. n + 1
    BY <1>1 DEF Holding
  <2>2. \A k \in 1 .. l : /\ Whole(file, off[k]) /\ RecordAt(file, off[k]) = s[k]
                          /\ off[k + 1] = After(file, off[k]) /\ off[k] \in 1 .. n + 1
    BY <1>1, <1>2, <2>1 DEF Holding
  <2>3. \A i \in 1 .. n + 1 : Whole(file, i) =>
           /\ Whole(more, i) /\ RecordAt(more, i) = RecordAt(file, i)
           /\ After(more, i) = After(file, i)
    BY <1>2, RecordStays
  <2>4. off[1] = 1
    BY <1>1 DEF Holding
  <2> HIDE DEF l, n, more
  <2> QED
    BY <2>1, <2>2, <2>3, <2>4
<1> HIDE DEF w, c, n, l, t
<1>5. Len(more) = n + (c + 2) /\ more \in Seq(LogCells(R))
      /\ \A j \in 1 .. c + 2 : more[n + j] = w[j]
  <2>1. w \in Seq(LogCells(R)) /\ Len(w) = c + 2
    BY <1>2
  <2>2. /\ more \in Seq(LogCells(R)) /\ Len(more) = n + Len(w)
        /\ \A j \in 1 .. Len(w) : more[n + j] = w[j]
    <3> DEFINE C == LogCells(R)
    <3>1. w \in Seq(C) /\ file \in Seq(C)
      BY <2>1
    <3> HIDE DEF C
    <3>2. /\ file \o w \in Seq(C) /\ Len(file \o w) = Len(file) + Len(w)
          /\ \A j \in 1 .. Len(w) : (file \o w)[Len(file) + j] = w[j]
      BY ONLY <3>1, ConcatParts
    <3> QED
      BY <3>2 DEF C, n
  <2> HIDE DEF more
  <2> QED
    BY <2>1, <2>2
<1> HIDE DEF more
<1>6. more[n + 1] = LenCell(r) /\ more[n + 2] = TypeCell(r)
      /\ \A i \in 1 .. c : more[n + 2 + i] = Body(r)[i]
  <2>1. 1 \in 1 .. c + 2 /\ 2 \in 1 .. c + 2
        /\ \A i \in 1 .. c : i + 2 \in 1 .. c + 2 /\ n + (i + 2) = n + 2 + i
    BY <1>2
  <2>2. \A i \in 1 .. c : more[n + (i + 2)] = Body(r)[i]
    BY <1>2, <1>5, <2>1
  <2> QED
    BY <1>2, <1>5, <2>1, <2>2
<1>7. Whole(more, n + 1) /\ After(more, n + 1) = n + 3 + c
  <2>1. more[n + 1].kind = "len" /\ more[n + 1].of.len = c
    BY <1>2, <1>6 DEF c
  <2> QED
    BY <1>2, <1>5, <2>1 DEF Whole, After
<1>8. RecordAt(more, n + 1) = r
  <2>1. more[n + 1].of = r /\ n + 1 + 1 = n + 2
    BY <1>2, <1>6
  <2> DEFINE v == SubSeq(more, n + 1 + 2, n + 1 + 1 + c)
  <2>2. v = Body(r)
    <3>1. CASE c = 0
      <4>1. v = <<>>
        <5>1. n + 1 + 2 \in Int /\ n + 1 + 1 + c \in Int /\ n + 1 + 1 + c < n + 1 + 2
          BY <1>2, <3>1
        <5> QED
          BY <5>1, SubSeqEmpty
      <4>2. Body(r) = <<>>
        BY <1>2, <3>1
      <4> QED
        BY <4>1, <4>2
    <3>2. CASE c # 0
      <4>1. n + 1 + 2 \in 1 .. Len(more) + 1 /\ n + 1 + 1 + c \in 0 .. Len(more)
            /\ n + 1 + 2 <= n + 1 + 1 + c /\ n + 1 + 1 + c - (n + 1 + 2) + 1 = c
        BY <1>2, <1>5, <3>2
      <4>2. v \in Seq(LogCells(R)) /\ Len(v) = c /\ \A i \in 1 .. c : v[i] = more[n + 1 + 2 + i - 1]
        BY <1>2, <1>5, <4>1, SubSeqProperties
      <4>3. \A i \in 1 .. c : n + 1 + 2 + i - 1 = n + 2 + i
        BY <1>2
      <4> HIDE DEF v
      <4>4. \A i \in 1 .. c : v[i] = Body(r)[i]
        BY <1>6, <4>2, <4>3
      <4> QED
        BY <1>2, <4>2, <4>4, SeqEqual
    <3> QED
      BY <3>1, <3>2
  <2> QED
    BY <1>6, <2>1, <2>2 DEF RecordAt, c
<1> DEFINE off2 == [k \in 1 .. l + 2 |-> IF k <= l + 1 THEN off[k] ELSE n + 3 + c]
<1>9. /\ \A k \in 1 .. l + 1 : k \in 1 .. l + 2 /\ off2[k] = off[k]
      /\ off2[l + 2] = n + 3 + c
      /\ off2 = [k \in 1 .. l + 2 |-> off2[k]]
  BY <1>2
<1> HIDE DEF off2
<1>10. off2 \in [1 .. l + 2 -> 1 .. Len(more) + 1] /\ off2[1] = 1
  <2>1. \A k \in 1 .. l + 1 : off2[k] \in 1 .. Len(more) + 1
    <3>1. 1 .. n + 1 \subseteq 1 .. Len(more) + 1
      BY <1>2, <1>5
    <3> QED
      BY <1>4, <1>9, <3>1
  <2>2. n + 3 + c \in 1 .. Len(more) + 1
    BY <1>2, <1>5
  <2>3. \A k \in 1 .. l + 2 : k \in 1 .. l + 1 \/ k = l + 2
    BY <1>2
  <2>4. 1 \in 1 .. l + 1
    BY <1>2
  <2> QED
    BY <1>4, <1>9, <2>1, <2>2, <2>3, <2>4
<1>11. \A k \in 1 .. l + 1 : /\ Whole(more, off2[k]) /\ RecordAt(more, off2[k]) = t[k]
                             /\ off2[k + 1] = After(more, off2[k])
  <2> SUFFICES ASSUME NEW k \in 1 .. l + 1
               PROVE  /\ Whole(more, off2[k]) /\ RecordAt(more, off2[k]) = t[k]
                      /\ off2[k + 1] = After(more, off2[k])
    OBVIOUS
  <2>1. CASE k \in 1 .. l
    <3>1. k + 1 \in 1 .. l + 1
      BY <1>2, <2>1
    <3> QED
      BY <1>3, <1>4, <1>9, <2>1, <3>1
  <2>2. CASE k = l + 1
    <3>1. off2[k] = n + 1 /\ off2[k + 1] = n + 3 + c
      <4>1. k + 1 = l + 2 /\ l + 1 \in 1 .. l + 1
        BY <1>2, <2>2
      <4> QED
        BY <1>1, <1>9, <2>2, <4>1 DEF n, l
    <3> QED
      BY <1>3, <1>7, <1>8, <2>2, <3>1
  <2>3. k \in 1 .. l \/ k = l + 1
    BY <1>2
  <2> QED
    BY <2>1, <2>2, <2>3
<1>12. l + 1 + 1 = l + 2 /\ off2[l + 2] = Len(more) + 1
  BY <1>2, <1>5, <1>9
<1>13. Holding(more, t, off2)
  BY <1>3, <1>10, <1>11, <1>12 DEF Holding
<1> QED
  BY <1>3, <1>12, <1>13 DEF Filled, more, w, t

\* One cell more, or cells none of which is a length, complete at most the last
\* record of a file: what was read from it is read again, and one record more
\* at most.
LEMMA CellsAdded ==
  ASSUME NEW R, Sized(R), NEW file \in Seq(LogCells(R)), NEW cells \in Seq(LogCells(R)),
         Len(cells) <= 1 \/ \A i \in 1 .. Len(cells) : cells[i].kind # "len"
  PROVE  \/ Parsed(file \o cells) = Parsed(file)
         \/ \E e \in Readings(R) : Parsed(file \o cells) = Append(Parsed(file), e)
<1> DEFINE C == LogCells(R)
           P == Readings(R)
           n == Len(file)
           m == Len(cells)
           more == file \o cells
<1>1. /\ more \in Seq(C) /\ Len(more) = n + m
      /\ \A i \in 1 .. n : more[i] = file[i]
      /\ \A i \in 1 .. m : more[n + i] = cells[i]
  <2>1. file \in Seq(C) /\ cells \in Seq(C)
    OBVIOUS
  <2> HIDE DEF C
  <2> QED
    BY ONLY <2>1, ConcatParts
<1>2. n \in Nat /\ m \in Nat /\ Len(more) \in Nat
  BY <1>1
<1>3. PICK f : Reads(file, f) /\ Parsed(file) = f[1]
  BY ParsedReads
<1>4. PICK g : Reads(more, g) /\ Parsed(more) = g[1]
  BY <1>1, ParsedReads
<1> HIDE DEF n, m
<1>5. /\ \A i \in 1 .. n + 1 : f[i] \in Seq(P)
      /\ \A i \in 1 .. n + 1 : Whole(file, i) => f[i] = <<RecordAt(file, i)>> \o f[After(file, i)]
      /\ \A i \in 1 .. n + 1 : ~Whole(file, i) => f[i] = <<>>
  BY <1>3, ReadType DEF n
<1>6. \A i \in 1 .. n + 1 : Whole(file, i) =>
         /\ Whole(more, i) /\ RecordAt(more, i) = RecordAt(file, i)
         /\ After(more, i) = After(file, i) /\ After(file, i) \in i + 1 .. n + 1
  BY RecordStays DEF n
<1> HIDE DEF more
<1>7. /\ \A i \in 1 .. Len(more) + 1 : g[i] \in Seq(P)
      /\ \A i \in 1 .. Len(more) + 1 : Whole(more, i) =>
           RecordAt(more, i) \in P /\ g[i] = <<RecordAt(more, i)>> \o g[After(more, i)]
      /\ \A i \in 1 .. Len(more) + 1 : ~Whole(more, i) => g[i] = <<>>
  <2>1. Reads(more, g) /\ more \in Seq(LogCells(R))
    BY <1>1, <1>4
  <2> HIDE DEF P
  <2>2. /\ \A i \in 1 .. Len(more) + 1 : g[i] \in Seq(Readings(R))
        /\ \A i \in 1 .. Len(more) + 1 : Whole(more, i) =>
             RecordAt(more, i) \in Readings(R) /\ g[i] = <<RecordAt(more, i)>> \o g[After(more, i)]
        /\ \A i \in 1 .. Len(more) + 1 : ~Whole(more, i) => g[i] = <<>>
    BY ONLY Sized(R), <2>1, ReadType
  <2> QED
    BY <2>2 DEF P
<1>8. \A i \in 1 .. Len(more) + 1 : Whole(more, i) => After(more, i) \in i + 1 .. Len(more) + 1
  <2> SUFFICES ASSUME NEW i \in 1 .. Len(more) + 1, Whole(more, i)
               PROVE  After(more, i) \in i + 1 .. Len(more) + 1
    OBVIOUS
  <2>1. <<>> \in Seq(LogCells(R))
    OBVIOUS
  <2> QED
    BY <1>1, <2>1, RecordStays
<1>9. ASSUME NEW i \in n + 2 .. Len(more) + 1 PROVE ~Whole(more, i)
  <2> SUFFICES ASSUME Whole(more, i) PROVE FALSE
    OBVIOUS
  <2>1. i + 1 <= Len(more) /\ more[i].kind = "len"
    BY DEF Whole
  <2>2. i - n \in 1 .. m /\ n + (i - n) = i /\ ~(m <= 1)
    BY <1>1, <1>2, <2>1
  <2>3. cells[i - n].kind = "len"
    BY <1>1, <2>1, <2>2
  <2> QED
    BY <2>2, <2>3 DEF m
<1>10. ASSUME NEW i \in 1 .. n + 1, ~Whole(file, i), Whole(more, i)
       PROVE  After(more, i) \in n + 2 .. Len(more) + 1
  <2>1. i \in 1 .. Len(more) + 1
    BY <1>1, <1>2
  <2>2. After(more, i) \in i + 1 .. Len(more) + 1
    BY <1>8, <1>10, <2>1
  <2>3. CASE i = n + 1
    BY <1>2, <2>2, <2>3
  <2>4. CASE i \in 1 .. n
    <3>1. more[i] = file[i]
      BY <1>1, <2>4
    <3>2. more[i].kind = "len" /\ After(more, i) = i + 2 + more[i].of.len
      BY <1>10 DEF Whole, After
    <3>3. ~(i + 1 <= n /\ i + 1 + more[i].of.len <= n)
      BY <1>10, <3>1, <3>2 DEF Whole, n
    <3>4. more[i] \in C
      <4>1. i \in 1 .. Len(more)
        BY <1>1, <1>2, <2>4
      <4> HIDE DEF C
      <4> QED
        BY <1>1, <4>1
    <3>5. more[i].of.len \in Nat
      BY <3>4 DEF LogCells, Sized
    <3> DEFINE q == more[i].of.len
               a == After(more, i)
    <3>6. q \in Nat /\ a = i + 2 + q /\ ~(i + 1 <= n /\ i + 1 + q <= n)
      BY <3>2, <3>3, <3>5
    <3> HIDE DEF q
    <3>7. a \in i + 1 .. Len(more) + 1
      BY <2>2
    <3> HIDE DEF a
    <3>8. a \in n + 2 .. Len(more) + 1
      BY <1>2, <2>4, <3>6, <3>7
    <3> QED
      BY <3>8 DEF a
  <2>5. i = n + 1 \/ i \in 1 .. n
    BY <1>2
  <2> QED
    BY <2>3, <2>4, <2>5
<1> DEFINE Same(i) == g[i] = f[i]
           One(i) == \E e \in P : g[i] = Append(f[i], e)
           G == {i \in 1 .. n + 1 : Same(i) \/ One(i)}
<1>11. ASSUME NEW i \in 1 .. n + 1, \A j \in i + 1 .. n + 1 : j \in G PROVE Same(i) \/ One(i)
  <2>1. i \in 1 .. Len(more) + 1
    BY <1>1, <1>2
  <2>2. CASE Whole(file, i)
    <3> DEFINE a == After(file, i)
               r == RecordAt(file, i)
    <3>1. Whole(more, i) /\ RecordAt(more, i) = r /\ After(more, i) = a /\ a \in i + 1 .. n + 1
      BY <1>6, <2>2
    <3>2. f[i] = <<r>> \o f[a]
      BY <1>5, <2>2
    <3>3. r \in P /\ g[i] = <<r>> \o g[a]
      BY <1>7, <2>1, <3>1
    <3> HIDE DEF a, r
    <3>4. a \in 1 .. n + 1 /\ a \in G
      BY <1>2, <1>11, <3>1
    <3>5. f[a] \in Seq(P)
      BY <1>5, <3>4
    <3>6. CASE Same(a)
      BY <3>2, <3>3, <3>6
    <3>7. CASE One(a)
      <4>1. PICK e \in P : g[a] = Append(f[a], e)
        BY <3>7
      <4>2. <<r>> \o Append(f[a], e) = Append(<<r>> \o f[a], e)
        <5> DEFINE x == f[a]
        <5>1. x \in Seq(P) /\ <<r>> \in Seq(P) /\ <<e>> \in Seq(P)
          BY <3>3, <3>5
        <5> HIDE DEF x, P
        <5>2. Append(x, e) = x \o <<e>>
          BY <5>1, AppendIsConcat
        <5>3. <<r>> \o x \in Seq(P)
          BY <5>1
        <5>4. Append(<<r>> \o x, e) = (<<r>> \o x) \o <<e>>
          BY <5>3, AppendIsConcat
        <5>5. (<<r>> \o x) \o <<e>> = <<r>> \o (x \o <<e>>)
          BY <5>1, ConcatAssociative
        <5>6. <<r>> \o Append(x, e) = Append(<<r>> \o x, e)
          BY <5>2, <5>4, <5>5
        <5> QED
          BY <5>6 DEF x
      <4>3. g[i] = Append(f[i], e)
        BY <3>2, <3>3, <4>1, <4>2
      <4> QED
        BY <4>3
    <3> HIDE DEF Same, One
    <3> QED
      BY <3>4, <3>6, <3>7
  <2>3. CASE ~Whole(file, i) /\ ~Whole(more, i)
    BY <1>5, <1>7, <2>1, <2>3
  <2>4. CASE ~Whole(file, i) /\ Whole(more, i)
    <3> DEFINE a == After(more, i)
               r == RecordAt(more, i)
    <3>1. a \in n + 2 .. Len(more) + 1
      BY <1>10, <2>4
    <3>2. a \in 1 .. Len(more) + 1
      BY <1>2, <3>1
    <3>3. g[a] = <<>>
      BY <1>7, <1>9, <3>1, <3>2
    <3>4. r \in P /\ g[i] = <<r>> \o g[a]
      BY <1>7, <2>1, <2>4
    <3>5. f[i] = <<>>
      BY <1>5, <2>4
    <3> HIDE DEF a, r
    <3>6. <<r>> \o <<>> = Append(<<>>, r)
      OBVIOUS
    <3>7. g[i] = Append(f[i], r)
      BY <3>3, <3>4, <3>5, <3>6
    <3> QED
      BY <3>4, <3>7
  <2> HIDE DEF Same, One
  <2> QED
    BY <2>2, <2>3, <2>4
<1>12. 1 \in G
  <2>1. \A i \in 1 .. n + 1 : (\A j \in i + 1 .. n + 1 : j \in G) => i \in G
    BY <1>11
  <2> HIDE DEF G
  <2>2. n + 1 \in Nat /\ 1 \in 1 .. n + 1
    BY <1>2
  <2> QED
    BY <2>1, <2>2, FromTheEnd
<1> QED
  BY <1>3, <1>4, <1>12 DEF more
=============================================================================
