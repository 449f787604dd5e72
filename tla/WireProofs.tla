----------------------------- MODULE WireProofs -----------------------------
(***************************************************************************)
(* Proofs about the wire (Wire): a length mark is read as it was written,   *)
(* the parts of a message come apart where they were put together, a map    *)
(* is encoded alike whatever order it iterates in, and the two judges of a  *)
(* proof agree.                                                             *)
(***************************************************************************)
EXTENDS Wire, FormatProofs, FiniteSetTheorems

-----------------------------------------------------------------------------
(* Recursion over positions *)

\* A value that is computed position after position exists.
LEMMA RecursionExists ==
  ASSUME NEW m \in Nat, NEW a \in Nat, NEW step \in [1 .. m -> [Nat -> Nat]]
  PROVE  \E f \in [0 .. m -> Nat] : f[0] = a /\ \A n \in 1 .. m : f[n] = step[n][f[n - 1]]
<1> DEFINE Part(k, f) == /\ f \in [0 .. k -> Nat] /\ f[0] = a
                         /\ \A n \in 1 .. k : f[n] = step[n][f[n - 1]]
           G == {k \in Nat : k <= m => \E f : Part(k, f)}
<1>1. ASSUME NEW k \in Nat, \A j \in Nat : j < k => j \in G PROVE k \in G
  <2> SUFFICES ASSUME k <= m PROVE \E f : Part(k, f)
    OBVIOUS
  <2>1. CASE k = 0
    <3> DEFINE f == [n \in 0 .. 0 |-> a]
    <3>1. Part(k, f)
      BY <2>1
    <3> QED
      BY <3>1
  <2>2. CASE k # 0
    <3>1. k - 1 \in Nat /\ k - 1 < k /\ k - 1 <= m /\ k \in 1 .. m
      BY <2>2
    <3>2. PICK f : Part(k - 1, f)
      BY <1>1, <3>1
    <3>3. f[k - 1] \in Nat /\ step[k] \in [Nat -> Nat]
      BY <3>1, <3>2
    <3> DEFINE y == step[k][f[k - 1]]
               g == [n \in 0 .. k |-> IF n = k THEN y ELSE f[n]]
    <3>4. y \in Nat
      BY <3>3
    <3> HIDE DEF y
    <3>5. g \in [0 .. k -> Nat]
      <4>1. \A n \in 0 .. k : n # k => n \in 0 .. k - 1
        OBVIOUS
      <4> QED
        BY <3>2, <3>4, <4>1
    <3>6. g[0] = a
      BY <2>2, <3>2
    <3>7. ASSUME NEW n \in 1 .. k PROVE g[n] = step[n][g[n - 1]]
      <4>1. n - 1 \in 0 .. k /\ n - 1 # k /\ n \in 0 .. k
        OBVIOUS
      <4>2. g[n - 1] = f[n - 1] /\ g[n] = IF n = k THEN y ELSE f[n]
        BY <4>1
      <4>3. CASE n = k
        BY <4>2, <4>3 DEF y
      <4>4. CASE n # k
        <5>1. n \in 1 .. k - 1
          BY <4>4
        <5> HIDE DEF g
        <5> QED
          BY <3>2, <4>2, <4>4, <5>1
      <4> QED
        BY <4>3, <4>4
    <3> HIDE DEF g
    <3> QED
      BY <3>5, <3>6, <3>7
  <2> QED
    BY <2>1, <2>2
<1>2. \A k \in Nat : k \in G
  <2> HIDE DEF G
  <2> QED
    BY <1>1, FromBelow
<1>3. \E f : Part(m, f)
  <2>1. m \in G
    BY <1>2
  <2> HIDE DEF Part
  <2> QED
    BY <2>1
<1> QED
  BY <1>3

\* Two values computed alike over the same positions are the same.
LEMMA RecursionAgrees ==
  ASSUME NEW m \in Nat, NEW f, NEW g, f[0] = g[0],
         \A n \in 1 .. m : f[n - 1] = g[n - 1] => f[n] = g[n]
  PROVE  f[m] = g[m]
<1> DEFINE G == {n \in Nat : n <= m => f[n] = g[n]}
<1>1. ASSUME NEW n \in Nat, \A k \in Nat : k < n => k \in G PROVE n \in G
  <2> SUFFICES ASSUME n <= m PROVE f[n] = g[n]
    OBVIOUS
  <2>1. CASE n = 0
    BY <2>1
  <2>2. CASE n # 0
    <3>1. n \in 1 .. m /\ n - 1 \in Nat /\ n - 1 < n /\ n - 1 <= m
      BY <2>2
    <3>2. f[n - 1] = g[n - 1]
      BY <1>1, <3>1
    <3> QED
      BY <3>1, <3>2
  <2> QED
    BY <2>1, <2>2
<1>2. \A n \in Nat : n \in G
  <2> HIDE DEF G
  <2> QED
    BY <1>1, FromBelow
<1>3. m \in G
  BY <1>2
<1> QED
  BY <1>3

-----------------------------------------------------------------------------
(* Length marks *)

LEMMA DivByte ==
  ASSUME NEW x \in Nat
  PROVE  /\ x \div Byte \in Nat /\ x % Byte \in Nat
         /\ Byte * (x \div Byte) + (x % Byte) = x
BY WireAssumption

\* f gives a number without its last digits, one digit less at a time.
Shifts(n, k, f) ==
  f \in [0 .. k -> Nat] /\ f[0] = n /\ \A i \in 1 .. k : f[i] = f[i - 1] \div Byte

LEMMA ShiftedIs ==
  ASSUME NEW n \in Nat, NEW k \in Nat
  PROVE  \E f : Shifts(n, k, f) /\ Shifted(n, k) = f[k]
<1> DEFINE Rest(f) == f = [i \in 0 .. k |-> IF i = 0 THEN n ELSE f[i - 1] \div Byte]
           step == [i \in 1 .. k |-> [x \in Nat |-> x \div Byte]]
<1>1. step \in [1 .. k -> [Nat -> Nat]]
  BY DivByte
<1>2. \A i \in 1 .. k, x \in Nat : step[i][x] = x \div Byte
  OBVIOUS
<1> HIDE DEF step
<1>3. PICK f \in [0 .. k -> Nat] : f[0] = n /\ \A i \in 1 .. k : f[i] = step[i][f[i - 1]]
  BY <1>1, RecursionExists
<1>4. \A i \in 1 .. k : i - 1 \in 0 .. k /\ f[i] = f[i - 1] \div Byte
  BY <1>2, <1>3
<1>5. Rest(f)
  <2>1. \A i \in 0 .. k : f[i] = IF i = 0 THEN n ELSE f[i - 1] \div Byte
    BY <1>3, <1>4
  <2>2. f = [i \in 0 .. k |-> f[i]]
    BY <1>3
  <2> QED
    BY <2>1, <2>2
<1> DEFINE r == CHOOSE g : Rest(g)
<1>6. Rest(r)
  BY <1>5
<1>7. Shifted(n, k) = r[k]
  BY DEF Shifted
<1> HIDE DEF r
<1>8. r[0] = n /\ \A i \in 1 .. k : r[i] = r[i - 1] \div Byte
  <2>1. \A i \in 0 .. k : r[i] = IF i = 0 THEN n ELSE r[i - 1] \div Byte
    BY <1>6
  <2> QED
    BY <2>1
<1>9. r[k] = f[k]
  <2>1. r[0] = f[0] /\ \A i \in 1 .. k : r[i - 1] = f[i - 1] => r[i] = f[i]
    BY <1>3, <1>4, <1>8
  <2> QED
    BY <2>1, RecursionAgrees
<1> QED
  BY <1>3, <1>4, <1>7, <1>9 DEF Shifts

LEMMA ShiftedSteps ==
  ASSUME NEW n \in Nat, NEW k \in Nat
  PROVE  /\ Shifted(n, 0) = n
         /\ Shifted(n, k) \in Nat
         /\ Shifted(n, k + 1) = Shifted(n, k) \div Byte
<1>1. PICK f : Shifts(n, k, f) /\ Shifted(n, k) = f[k]
  BY ShiftedIs
<1>2. PICK g : Shifts(n, k + 1, g) /\ Shifted(n, k + 1) = g[k + 1]
  BY ShiftedIs
<1>3. PICK e : Shifts(n, 0, e) /\ Shifted(n, 0) = e[0]
  BY ShiftedIs
<1>4. \A i \in 1 .. k : f[i] = f[i - 1] \div Byte /\ g[i] = g[i - 1] \div Byte
  BY <1>1, <1>2 DEF Shifts
<1>5. g[k] = f[k]
  <2>1. g[0] = f[0] /\ \A i \in 1 .. k : g[i - 1] = f[i - 1] => g[i] = f[i]
    BY <1>1, <1>2, <1>4 DEF Shifts
  <2> QED
    BY <2>1, RecursionAgrees
<1>6. g[k + 1] = g[k] \div Byte
  <2> DEFINE i == k + 1
  <2>1. i \in 1 .. k + 1 /\ i - 1 = k
    OBVIOUS
  <2> HIDE DEF i
  <2>2. g[i] = g[i - 1] \div Byte
    BY <1>2, <2>1 DEF Shifts
  <2> QED
    BY <2>1, <2>2 DEF i
<1> QED
  BY <1>1, <1>2, <1>3, <1>5, <1>6 DEF Shifts

-----------------------------------------------------------------------------
(* Reading a mark *)

\* Cells that are bytes.
IsMark(s) == s \in Seq([kind : {"byte"}, val : Nat])

LEMMA FromBeBytesIs ==
  ASSUME NEW s, IsMark(s)
  PROVE  \E f \in [0 .. Len(s) -> Nat] :
           /\ FromBeBytes(s) = f[Len(s)] /\ f[0] = 0
           /\ \A n \in 1 .. Len(s) : f[n] = Byte * f[n - 1] + s[n].val
<1> DEFINE k == Len(s)
           Value(f) == f = [n \in 0 .. k |-> IF n = 0 THEN 0 ELSE Byte * f[n - 1] + s[n].val]
           step == [n \in 1 .. k |-> [x \in Nat |-> Byte * x + s[n].val]]
<1>0. k \in Nat /\ \A n \in 1 .. k : s[n].val \in Nat
  <2> DEFINE C == [kind : {"byte"}, val : Nat]
  <2>1. s \in Seq(C) /\ \A c \in C : c.val \in Nat
    BY DEF IsMark
  <2> HIDE DEF C
  <2> QED
    BY <2>1
<1>1. FromBeBytes(s) = (CHOOSE g : Value(g))[k]
  BY DEF FromBeBytes
<1> HIDE DEF k
<1>2. step \in [1 .. k -> [Nat -> Nat]]
  <2>1. \A x, y \in Nat : Byte * x + y \in Nat
    BY WireAssumption
  <2> QED
    BY <1>0, <2>1
<1>3. \A n \in 1 .. k, x \in Nat : step[n][x] = Byte * x + s[n].val
  OBVIOUS
<1> HIDE DEF step
<1>4. PICK f \in [0 .. k -> Nat] : f[0] = 0 /\ \A n \in 1 .. k : f[n] = step[n][f[n - 1]]
  BY <1>0, <1>2, RecursionExists
<1>5. \A n \in 1 .. k : n - 1 \in 0 .. k /\ f[n] = Byte * f[n - 1] + s[n].val
  BY <1>0, <1>3, <1>4
<1>6. Value(f)
  <2>1. \A n \in 0 .. k : f[n] = IF n = 0 THEN 0 ELSE Byte * f[n - 1] + s[n].val
    BY <1>0, <1>4, <1>5
  <2>2. f = [n \in 0 .. k |-> f[n]]
    BY <1>4
  <2> QED
    BY <2>1, <2>2
<1> DEFINE v == CHOOSE g : Value(g)
<1>7. Value(v)
  BY <1>6
<1>8. FromBeBytes(s) = v[k]
  BY <1>1
<1> HIDE DEF v
<1>9. v[0] = 0 /\ \A n \in 1 .. k : v[n] = Byte * v[n - 1] + s[n].val
  <2>1. \A n \in 0 .. k : v[n] = IF n = 0 THEN 0 ELSE Byte * v[n - 1] + s[n].val
    BY <1>7
  <2> QED
    BY <1>0, <2>1
<1>10. v[k] = f[k]
  <2>1. v[0] = f[0] /\ \A n \in 1 .. k : v[n - 1] = f[n - 1] => v[n] = f[n]
    BY <1>4, <1>5, <1>9
  <2> QED
    BY <1>0, <2>1, RecursionAgrees
<1> QED
  BY <1>4, <1>5, <1>8, <1>10 DEF k

\* u64::from_be_bytes undoes to_be_bytes.
LEMMA MarkRead ==
  ASSUME NEW n \in Nat, Fits(n)
  PROVE  /\ IsMark(ToBeBytes(n)) /\ Len(ToBeBytes(n)) = Mark
         /\ FromBeBytes(ToBeBytes(n)) = n
<1> DEFINE s == ToBeBytes(n)
<1>0. Mark \in Nat /\ Mark > 0
  BY WireAssumption
<1>1. \A i \in 1 .. Mark : Mark - i \in Nat /\ Digit(n, i) \in Nat
  <2> SUFFICES ASSUME NEW i \in 1 .. Mark PROVE Mark - i \in Nat /\ Digit(n, i) \in Nat
    OBVIOUS
  <2>1. Mark - i \in Nat
    BY <1>0
  <2>2. Shifted(n, Mark - i) \in Nat
    BY <2>1, ShiftedSteps
  <2> QED
    BY <2>1, <2>2, DivByte DEF Digit
<1>2. s = [i \in 1 .. Mark |-> [kind |-> "byte", val |-> Digit(n, i)]]
  BY DEF ToBeBytes, Cell
<1> HIDE DEF s
<1>3. s \in Seq([kind : {"byte"}, val : Nat]) /\ Len(s) = Mark
  <2> DEFINE C == [kind : {"byte"}, val : Nat]
  <2>1. s \in [1 .. Mark -> C]
    BY <1>1, <1>2
  <2> HIDE DEF C
  <2>2. s \in Seq(C) /\ Len(s) = Mark
    BY <1>0, <2>1
  <2> QED
    BY <2>2 DEF C
<1>4. \A i \in 1 .. Mark : s[i].val = Digit(n, i)
  BY <1>2
<1>5. PICK f \in [0 .. Mark -> Nat] :
        /\ FromBeBytes(s) = f[Mark] /\ f[0] = 0
        /\ \A i \in 1 .. Mark : f[i] = Byte * f[i - 1] + s[i].val
  BY <1>3, FromBeBytesIs DEF IsMark
<1> DEFINE g == [i \in 0 .. Mark |-> Shifted(n, Mark - i)]
<1>6. ASSUME NEW i \in 1 .. Mark PROVE g[i] = Byte * g[i - 1] + s[i].val
  <2>1. Mark - i \in Nat /\ Mark - (i - 1) = (Mark - i) + 1 /\ i - 1 \in 0 .. Mark /\ i \in 0 .. Mark
    BY <1>0
  <2> DEFINE x == Shifted(n, Mark - i)
  <2>2. x \in Nat /\ Shifted(n, (Mark - i) + 1) = x \div Byte
    BY <2>1, ShiftedSteps
  <2>3. g[i] = x /\ g[i - 1] = x \div Byte
    BY <2>1, <2>2
  <2>4. s[i].val = x % Byte
    BY <1>4 DEF Digit
  <2> HIDE DEF x, g
  <2>5. Byte * (x \div Byte) + (x % Byte) = x
    BY <2>2, DivByte
  <2> QED
    BY <2>3, <2>4, <2>5
<1>7. g[0] = 0 /\ g[Mark] = n
  <2>1. Mark - 0 = Mark /\ Mark - Mark = 0 /\ 0 \in 0 .. Mark /\ Mark \in 0 .. Mark
    BY <1>0
  <2>2. Shifted(n, 0) = n /\ Shifted(n, Mark) = 0
    BY ShiftedSteps DEF Fits
  <2> QED
    BY <2>1, <2>2
<1> HIDE DEF g
<1>8. f[Mark] = g[Mark]
  <2>1. f[0] = g[0] /\ \A i \in 1 .. Mark : f[i - 1] = g[i - 1] => f[i] = g[i]
    BY <1>5, <1>6, <1>7
  <2> QED
    BY <1>0, <2>1, RecursionAgrees
<1> QED
  BY <1>3, <1>5, <1>7, <1>8 DEF IsMark, s

-----------------------------------------------------------------------------
(* Parts of a message *)

LEMMA OkHolds == \A x : Ok(x).ok /\ Ok(x).val = x
BY DEF Ok

LEMMA SamePlaces ==
  ASSUME NEW S, NEW s \in Seq(S), NEW t \in Seq(S), Len(s) = Len(t),
         \A i \in 1 .. Len(s) : s[i] = t[i]
  PROVE  s = t
OBVIOUS

\* What was put together comes apart at the place where it was.
LEMMA PartsOfConcat ==
  ASSUME NEW S, NEW s \in Seq(S), NEW t \in Seq(S)
  PROVE  LET n == Len(s)
             m == Len(t)
             u == s \o t
         IN  /\ u \in Seq(S) /\ Len(u) = n + m
             /\ SubSeq(u, 1, n) = s
             /\ SubSeq(u, n + 1, n + m) = t
<1> DEFINE u == s \o t
           n == Len(s)
           m == Len(t)
<1>1. n \in Nat /\ m \in Nat
  OBVIOUS
<1>2. /\ u \in Seq(S) /\ Len(u) = n + m
      /\ \A i \in 1 .. n : u[i] = s[i]
      /\ \A i \in 1 .. m : u[n + i] = t[i]
  BY ConcatParts
<1> HIDE DEF u, n, m
<1>3. SubSeq(u, 1, n) = s
  <2>1. \A i \in 1 .. n : u[i] \in S
    BY <1>2 DEF n
  <2> DEFINE p == SubSeq(u, 1, n)
  <2>2. p \in Seq(S) /\ Len(p) = IF 1 <= n THEN n - 1 + 1 ELSE 0
    BY <1>1, <2>1, SubSeqProperties
  <2>3. \A i \in 1 .. n - 1 + 1 : p[i] = u[1 + i - 1]
    BY <1>1, <2>1, SubSeqProperties
  <2> HIDE DEF p
  <2>4. Len(p) = n
    BY <1>1, <2>2
  <2>5. \A i \in 1 .. n : p[i] = s[i]
    <3> SUFFICES ASSUME NEW i \in 1 .. n PROVE p[i] = s[i]
      OBVIOUS
    <3>1. i \in 1 .. n - 1 + 1 /\ 1 + i - 1 = i
      BY <1>1
    <3> QED
      BY <1>2, <2>3, <3>1
  <2>6. p = s
    BY <2>2, <2>4, <2>5, SamePlaces DEF n
  <2> QED
    BY <2>6 DEF p
<1>4. SubSeq(u, n + 1, n + m) = t
  <2>1. \A i \in n + 1 .. n + m : u[i] \in S
    BY <1>1, <1>2
  <2> DEFINE from == n + 1
             to == n + m
             p == SubSeq(u, from, to)
  <2>2. from \in Int /\ to \in Int /\ \A i \in from .. to : u[i] \in S
    BY <1>1, <2>1
  <2> HIDE DEF from, to
  <2>3. /\ p \in Seq(S) /\ Len(p) = IF from <= to THEN to - from + 1 ELSE 0
        /\ \A i \in 1 .. to - from + 1 : p[i] = u[from + i - 1]
    BY <2>2, SubSeqProperties
  <2> HIDE DEF p
  <2>4. Len(p) = m
    BY <1>1, <2>3 DEF from, to
  <2>5. \A i \in 1 .. m : p[i] = t[i]
    <3> SUFFICES ASSUME NEW i \in 1 .. m PROVE p[i] = t[i]
      OBVIOUS
    <3>1. i \in 1 .. to - from + 1 /\ from + i - 1 = n + i
      BY <1>1 DEF from, to
    <3> QED
      BY <1>2, <2>3, <3>1
  <2>6. p = t
    BY <2>3, <2>4, <2>5, SamePlaces DEF m
  <2> QED
    BY <2>6 DEF p, from, to
<1> QED
  BY <1>2, <1>3, <1>4 DEF u, n, m

ByteCells == [kind : {"byte"}, val : Nat]

\* extract undoes combine.
LEMMA Extracted ==
  ASSUME NEW S, ByteCells \subseteq S, NEW first \in Seq(S), NEW second \in Seq(S),
         Fits(Len(first))
  PROVE  /\ Combine(first, second) \in Seq(S)
         /\ Extract(Combine(first, second)) = Ok([one |-> first, two |-> second])
<1> DEFINE l == Len(first)
           n == Len(second)
           mark == ToBeBytes(l)
           head == mark \o first
           e == head \o second
<1>1. l \in Nat /\ n \in Nat /\ Mark \in Nat
  BY WireAssumption
<1>2. IsMark(mark) /\ Len(mark) = Mark /\ FromBeBytes(mark) = l
  BY <1>1, MarkRead
<1>3. mark \in Seq(S)
  <2>1. mark \in Seq(ByteCells)
    BY <1>2 DEF IsMark, ByteCells
  <2> HIDE DEF mark
  <2> QED
    BY <2>1
<1> HIDE DEF mark
<1>4. /\ head \in Seq(S) /\ Len(head) = Mark + l
      /\ SubSeq(head, 1, Mark) = mark /\ SubSeq(head, Mark + 1, Mark + l) = first
  <2>1. first \in Seq(S)
    OBVIOUS
  <2> HIDE DEF head
  <2>2. /\ mark \o first \in Seq(S) /\ Len(mark \o first) = Len(mark) + Len(first)
        /\ SubSeq(mark \o first, 1, Len(mark)) = mark
        /\ SubSeq(mark \o first, Len(mark) + 1, Len(mark) + Len(first)) = first
    BY <1>3, <2>1, PartsOfConcat
  <2> QED
    BY <1>2, <2>2 DEF head
<1>5. \A i \in 1 .. Mark : head[i] = mark[i]
  BY <1>2, <1>3, ConcatParts
<1>6. \A i \in 1 .. l : head[Mark + i] = first[i]
  BY <1>2, <1>3, ConcatParts
<1> HIDE DEF head
<1>7. /\ e \in Seq(S) /\ Len(e) = (Mark + l) + n
      /\ SubSeq(e, 1, Mark + l) = head /\ SubSeq(e, (Mark + l) + 1, (Mark + l) + n) = second
  <2>1. head \in Seq(S) /\ second \in Seq(S)
    BY <1>4
  <2> HIDE DEF e
  <2>2. /\ head \o second \in Seq(S) /\ Len(head \o second) = Len(head) + Len(second)
        /\ SubSeq(head \o second, 1, Len(head)) = head
        /\ SubSeq(head \o second, Len(head) + 1, Len(head) + Len(second)) = second
    BY <2>1, PartsOfConcat
  <2> QED
    BY <1>4, <2>2 DEF e
<1>8. SubSeq(e, 1, Mark) = mark
  <2> DEFINE rest == first \o second
  <2>1. e = mark \o rest
    BY <1>3, ConcatAssociative DEF head
  <2>2. rest \in Seq(S)
    OBVIOUS
  <2> HIDE DEF rest, e
  <2> QED
    BY <1>2, <1>3, <2>1, <2>2, PartsOfConcat
<1>9. SubSeq(e, Mark + 1, Mark + l) = first
  <2>1. \A i \in 1 .. Mark + l : e[i] = head[i] /\ e[i] \in S
    BY <1>4, ConcatParts
  <2> HIDE DEF e
  <2>2. \A i \in Mark + 1 .. Mark + l : e[i] \in S
    BY <1>1, <2>1
  <2> DEFINE p == SubSeq(e, Mark + 1, Mark + l)
  <2>3. p \in Seq(S) /\ Len(p) = IF Mark + 1 <= Mark + l THEN (Mark + l) - (Mark + 1) + 1 ELSE 0
    BY <1>1, <2>2, SubSeqProperties
  <2>4. \A i \in 1 .. (Mark + l) - (Mark + 1) + 1 : p[i] = e[(Mark + 1) + i - 1]
    BY <1>1, <2>2, SubSeqProperties
  <2> HIDE DEF p
  <2>5. Len(p) = l
    BY <1>1, <2>3
  <2>6. \A i \in 1 .. l : p[i] = first[i]
    <3> SUFFICES ASSUME NEW i \in 1 .. l PROVE p[i] = first[i]
      OBVIOUS
    <3>1. /\ i \in 1 .. (Mark + l) - (Mark + 1) + 1 /\ (Mark + 1) + i - 1 = Mark + i
          /\ Mark + i \in 1 .. Mark + l
      BY <1>1
    <3> QED
      BY <1>6, <2>1, <2>4, <3>1
  <2>7. p = first
    BY <2>3, <2>5, <2>6, SamePlaces
  <2> QED
    BY <2>7 DEF p
<1>10. Combine(first, second) = e
  BY DEF Combine, e, head, mark
<1> HIDE DEF e
<1>11. Extract(e) = Ok([one |-> first, two |-> second])
  <2>1. FromBeBytes(SubSeq(e, 1, Mark)) = l
    BY <1>2, <1>8
  <2>2. ~(Len(e) < Mark) /\ ~(Len(e) < l + Mark) /\ Len(e) = Mark + l + n
    BY <1>1, <1>7
  <2>3. SubSeq(e, Mark + 1, Mark + l) = first /\ SubSeq(e, Mark + l + 1, Len(e)) = second
    BY <1>1, <1>7, <1>9, <2>2
  <2> QED
    BY <2>1, <2>2, <2>3 DEF Extract
<1> QED
  BY <1>7, <1>10, <1>11

\* decode_block undoes encode_block.
LEMMA BlockDecoded ==
  ASSUME NEW S, ByteCells \subseteq S, NEW h \in Nat, Fits(h),
         NEW block \in Seq(S), NEW hash \in Seq(S), Fits(Len(hash))
  PROVE  /\ EncodeBlock(h, block, hash) \in Seq(S)
         /\ DecodeBlock(EncodeBlock(h, block, hash)) =
              Ok([height |-> h, block |-> block, block_hash |-> hash])
<1> DEFINE mark == ToBeBytes(h)
           rest == Combine(hash, block)
           e == mark \o rest
<1>1. Mark \in Nat /\ IsMark(mark) /\ Len(mark) = Mark /\ FromBeBytes(mark) = h
  BY MarkRead, WireAssumption
<1>2. mark \in Seq(S)
  <2>1. mark \in Seq(ByteCells)
    BY <1>1 DEF IsMark, ByteCells
  <2> HIDE DEF mark
  <2> QED
    BY <2>1
<1>3. rest \in Seq(S) /\ Extract(rest) = Ok([one |-> hash, two |-> block])
  BY Extracted
<1> HIDE DEF mark, rest
<1>4. /\ e \in Seq(S) /\ Len(e) = Mark + Len(rest)
      /\ SubSeq(e, 1, Mark) = mark /\ SubSeq(e, Mark + 1, Mark + Len(rest)) = rest
  <2>1. /\ mark \o rest \in Seq(S) /\ Len(mark \o rest) = Len(mark) + Len(rest)
        /\ SubSeq(mark \o rest, 1, Len(mark)) = mark
        /\ SubSeq(mark \o rest, Len(mark) + 1, Len(mark) + Len(rest)) = rest
    BY <1>2, <1>3, PartsOfConcat
  <2> QED
    BY <1>1, <2>1
<1>5. EncodeBlock(h, block, hash) = e
  BY DEF EncodeBlock, mark, rest
<1> HIDE DEF e
<1>6. SubSeq(e, Mark + 1, Len(e)) = rest
  BY <1>4
<1>7. DecodeBlock(e) = Ok([height |-> h, block |-> block, block_hash |-> hash])
  <2>1. Extract(SubSeq(e, Mark + 1, Len(e))) = Ok([one |-> hash, two |-> block])
    BY <1>3, <1>6
  <2>2. FromBeBytes(SubSeq(e, 1, Mark)) = h
    BY <1>1, <1>4
  <2> QED
    BY <2>1, <2>2, OkHolds DEF DecodeBlock
<1> QED
  BY <1>4, <1>5, <1>7

-----------------------------------------------------------------------------
(* Maps *)

\* An order in which a map iterates reaches every key.
LEMMA OrderCovers ==
  ASSUME NEW S, IsFiniteSet(S), NEW it \in SetToSeqs(S)
  PROVE  ToSet(it) = S
<1> DEFINE n == Cardinality(S)
<1>1. n \in Nat
  BY FS_CardinalityType
<1>2. it \in [1 .. n -> S] /\ \A i, j \in 1 .. n : i # j => it[i] # it[j]
  BY DEF SetToSeqs
<1> HIDE DEF n
<1>3. it \in Injection(1 .. n, S)
  BY <1>2 DEF Injection, IsInjective
<1>4. IsFiniteSet(1 .. n) /\ Cardinality(1 .. n) = n
  BY <1>1, FS_Interval
<1>5. it \in Surjection(1 .. n, S)
  BY <1>3, <1>4, FS_Injection DEF n
<1> QED
  BY <1>2, <1>5 DEF ToSet, Surjection

\* How many members of S there are up to a.
Rank(S, a) == Cardinality({b \in S : b <= a})

LEMMA RankGrows ==
  ASSUME NEW S \in SUBSET Nat, IsFiniteSet(S), NEW a \in S, NEW c \in S
  PROVE  /\ Rank(S, a) \in 1 .. Cardinality(S)
         /\ a < c => Rank(S, a) < Rank(S, c)
<1> DEFINE A == {b \in S : b <= a}
           C == {b \in S : b <= c}
<1>1. A \in SUBSET S /\ C \in SUBSET S /\ a \in A
  OBVIOUS
<1>2. a < c => A \in SUBSET C /\ c \in C /\ c \notin A
  <2>1. a \in Nat /\ c \in Nat /\ \A b \in S : b \in Nat
    OBVIOUS
  <2>2. a < c => \A b \in S : b <= a => b <= c
    BY <2>1
  <2>3. a < c => c <= c /\ ~(c <= a)
    BY <2>1
  <2> QED
    BY <2>2, <2>3
<1> HIDE DEF A, C
<1>3. /\ IsFiniteSet(A) /\ Cardinality(A) \in Nat /\ Cardinality(A) <= Cardinality(S)
      /\ IsFiniteSet(C) /\ Cardinality(C) \in Nat /\ Cardinality(S) \in Nat
  BY <1>1, FS_Subset, FS_CardinalityType
<1>4. Cardinality(A) # 0
  BY <1>1, <1>3, FS_EmptySet
<1>5. a < c => Cardinality(A) <= Cardinality(C) /\ Cardinality(A) # Cardinality(C)
  BY <1>2, <1>3, FS_Subset
<1>6. Rank(S, a) = Cardinality(A) /\ Rank(S, c) = Cardinality(C)
  BY DEF Rank, A, C
<1> QED
  BY <1>3, <1>4, <1>5, <1>6

\* A finite set of numbers can be sorted, and the sorted sequence holds each once.
LEMMA SortedHolds ==
  ASSUME NEW S \in SUBSET Nat, IsFiniteSet(S)
  PROVE  LET n == Cardinality(S)
         IN  /\ n \in Nat /\ Sorted(S) \in [1 .. n -> S]
             /\ \A a \in S : \E i \in 1 .. n : Sorted(S)[i] = a
             /\ \A i, j \in 1 .. n : Sorted(S)[i] = Sorted(S)[j] => i = j
<1> DEFINE n == Cardinality(S)
           rank == [a \in S |-> Rank(S, a)]
           Up(s) == \A i, j \in DOMAIN s : i < j => s[i] < s[j]
<1>1. n \in Nat /\ IsFiniteSet(1 .. n) /\ Cardinality(1 .. n) = n
  <2>1. n \in Nat
    BY FS_CardinalityType
  <2> QED
    BY <2>1, FS_Interval
<1>2. /\ \A a \in S : a \in Nat /\ rank[a] \in 1 .. n
      /\ \A a, c \in S : a < c => rank[a] < rank[c]
      /\ rank \in [S -> 1 .. n]
  BY RankGrows
<1>3. rank \in Injection(S, 1 .. n)
  <2> HIDE DEF rank, n
  <2>1. \A a, c \in S : rank[a] = rank[c] => a = c
    <3> SUFFICES ASSUME NEW a \in S, NEW c \in S, rank[a] = rank[c] PROVE a = c
      OBVIOUS
    <3>1. a \in Nat /\ c \in Nat /\ rank[a] \in Nat /\ rank[c] \in Nat
      BY <1>1, <1>2
    <3>2. ~(a < c) /\ ~(c < a)
      BY <1>2, <3>1
    <3> QED
      BY <3>1, <3>2
  <2> QED
    BY <1>2, <2>1 DEF Injection, IsInjective
<1>4. rank \in Surjection(S, 1 .. n)
  <2> HIDE DEF rank
  <2>1. Cardinality(S) = Cardinality(1 .. n)
    BY <1>1
  <2> HIDE DEF n
  <2> QED
    BY <1>1, <1>3, <2>1, FS_Injection
<1> HIDE DEF rank
<1> DEFINE s == [i \in 1 .. n |-> CHOOSE a \in S : rank[a] = i]
<1>5. \A i \in 1 .. n : s[i] \in S /\ rank[s[i]] = i
  BY <1>4 DEF Surjection
<1>6. s \in [1 .. n -> S]
  BY <1>5
<1> HIDE DEF s, n
<1>7. Up(s)
  <2> SUFFICES ASSUME NEW i \in 1 .. n, NEW j \in 1 .. n, i < j PROVE s[i] < s[j]
    BY <1>6
  <2>1. s[i] \in S /\ s[j] \in S /\ rank[s[i]] = i /\ rank[s[j]] = j /\ i \in Nat /\ j \in Nat
    BY <1>1, <1>5
  <2> DEFINE a == s[i]
             c == s[j]
  <2>2. a \in S /\ c \in S /\ rank[a] = i /\ rank[c] = j
    BY <2>1
  <2> HIDE DEF a, c
  <2>3. a \in Nat /\ c \in Nat /\ a # c /\ ~(c < a)
    BY <1>2, <2>1, <2>2
  <2> QED
    BY <2>3 DEF a, c
<1> DEFINE t == CHOOSE x \in [1 .. n -> S] : Up(x)
<1>8. t \in [1 .. n -> S] /\ Up(t)
  BY <1>6, <1>7
<1>9. Sorted(S) = t
  BY DEF Sorted, n
<1> HIDE DEF t
<1>10. \A i, j \in 1 .. n : t[i] = t[j] => i = j
  <2> SUFFICES ASSUME NEW i \in 1 .. n, NEW j \in 1 .. n, t[i] = t[j] PROVE i = j
    OBVIOUS
  <2>1. t[i] \in Nat /\ t[j] \in Nat /\ i \in Nat /\ j \in Nat
    <3>1. t[i] \in S /\ t[j] \in S
      <4> HIDE DEF Up
      <4> QED
        BY <1>8
    <3>2. t[i] \in Nat /\ t[j] \in Nat
      BY <3>1
    <3>3. i \in Nat /\ j \in Nat
      BY <1>1
    <3> QED
      BY <3>2, <3>3
  <2>2. ~(i < j) /\ ~(j < i)
    BY <1>8, <2>1
  <2> QED
    BY <2>1, <2>2
<1>11. t \in Injection(1 .. n, S)
  BY <1>8, <1>10 DEF Injection, IsInjective
<1>12. t \in Surjection(1 .. n, S)
  BY <1>1, <1>11, FS_Injection DEF n
<1>13. \A a \in S : \E i \in 1 .. n : t[i] = a
  BY <1>12 DEF Surjection
<1> QED
  BY <1>1, <1>8, <1>9, <1>10, <1>13 DEF n

-----------------------------------------------------------------------------
(* Messages *)

Votes ==
  [vote_type : {"Prevote", "Precommit"}, height : Nat, round : Nat, proposal : BlockHashes,
   voter : Addresses]

IsSignedVote(sv) == sv.vote \in Votes /\ sv = [vote |-> sv.vote, signature |-> sv.signature]

IsProof(pf) ==
  LET f == pf.precommit_votes
  IN  /\ pf = [height |-> pf.height, round |-> pf.round, block_hash |-> pf.block_hash,
               precommit_votes |-> f]
      /\ DOMAIN f \in SUBSET Addresses /\ f = [a \in DOMAIN f |-> f[a]]

IsProposal(p) ==
  /\ p = [height |-> p.height, round |-> p.round, hash |-> p.hash, proof |-> p.proof,
          lock_round |-> p.lock_round, lock_votes |-> p.lock_votes, proposer |-> p.proposer]
  /\ IsProof(p.proof) /\ p.lock_round \in Nat \cup {None}
  /\ p.lock_votes = [i \in DOMAIN p.lock_votes |-> p.lock_votes[i]]
  /\ \A i \in DOMAIN p.lock_votes : IsSignedVote(p.lock_votes[i])

LEMMA SignedVoteRead ==
  ASSUME NEW sv, IsSignedVote(sv)
  PROVE  DecodeSignedVote(EncodeSignedVote(sv)) = sv
<1>1. DecodeVote(EncodeVote(sv.vote)) = sv.vote
  BY DEF IsSignedVote, Votes, DecodeVote, EncodeVote, VoteNumber, VoteTypeOf
<1> QED
  BY <1>1 DEF IsSignedVote, DecodeSignedVote, EncodeSignedVote

LEMMA KeysFinite ==
  ASSUME NEW pf, IsProof(pf)
  PROVE  LET S == DOMAIN pf.precommit_votes IN IsFiniteSet(S) /\ S \in SUBSET Nat
<1>1. DOMAIN pf.precommit_votes \in SUBSET Addresses
  BY DEF IsProof
<1> QED
  BY <1>1, FS_Subset, WireAssumption

\* The encoding of a map does not depend on the order in which it iterates.
LEMMA OrderHidden ==
  ASSUME NEW p, IsProposal(p), NEW i1 \in Orders(p.proof), NEW i2 \in Orders(p.proof)
  PROVE  EncodeProposal(p, i1) = EncodeProposal(p, i2)
<1>1. ToSet(i1) = ToSet(i2)
  BY OrderCovers, KeysFinite DEF Orders, IsProposal
<1>2. EncodeProof(p.proof, i1) = EncodeProof(p.proof, i2)
  BY <1>1 DEF EncodeProof
<1> QED
  BY <1>2 DEF EncodeProposal

\* The map is read back key by key.
LEMMA ProofRead ==
  ASSUME NEW pf, IsProof(pf), NEW it \in Orders(pf)
  PROVE  DecodeProof(EncodeProof(pf, it)) = Ok(pf)
<1> DEFINE f == pf.precommit_votes
           S == DOMAIN f
           n == Cardinality(S)
           keys == Sorted(S)
           vals == [i \in DOMAIN keys |-> f[keys[i]]]
           t == <<pf.height, pf.round, pf.block_hash, keys, vals>>
<1>1. IsFiniteSet(S) /\ S \in SUBSET Nat
  BY KeysFinite
<1>2. EncodeProof(pf, it) = t
  BY <1>1, OrderCovers DEF EncodeProof, Orders
<1>3. /\ n \in Nat /\ keys \in [1 .. n -> S]
      /\ \A a \in S : \E i \in 1 .. n : keys[i] = a
      /\ \A i, j \in 1 .. n : keys[i] = keys[j] => i = j
  BY <1>1, SortedHolds
<1>4. ToSet(keys) = S
  <2> HIDE DEF keys, S, n
  <2> QED
    BY <1>3 DEF ToSet
<1> DEFINE last(a) == Max({i \in DOMAIN keys : keys[i] = a})
<1>5. \A a \in S : last(a) \in 1 .. n /\ keys[last(a)] = a
  <2> HIDE DEF keys, n, S
  <2> SUFFICES ASSUME NEW a \in S
               PROVE  last(a) \in 1 .. n /\ keys[last(a)] = a
    OBVIOUS
  <2>1. PICK i \in 1 .. n : keys[i] = a
    BY <1>3
  <2>2. {j \in DOMAIN keys : keys[j] = a} = {i}
    BY <1>3, <2>1
  <2>3. Max({i}) = i
    BY <1>3 DEF Max
  <2> QED
    BY <2>1, <2>2, <2>3
<1>6. \A a \in S : vals[last(a)] = f[a]
  <2> HIDE DEF last, n, keys, S
  <2> QED
    BY <1>3, <1>5
<1>7. [a \in ToSet(keys) |-> vals[last(a)]] = f
  <2>1. f = [a \in S |-> f[a]]
    BY DEF IsProof
  <2> HIDE DEF S, f, vals, last, keys
  <2> QED
    BY <1>4, <1>6, <2>1
<1>8. Len(keys) = Len(vals) /\ Len(t) = 5
  <2>1. DOMAIN keys = 1 .. n /\ DOMAIN vals = 1 .. n
    BY <1>3
  <2> QED
    BY <1>3, <2>1
<1>9. /\ t[1] = pf.height /\ t[2] = pf.round /\ t[3] = pf.block_hash
      /\ t[4] = keys /\ t[5] = vals
  OBVIOUS
<1>10. pf = [height |-> pf.height, round |-> pf.round, block_hash |-> pf.block_hash,
             precommit_votes |-> f]
  BY DEF IsProof
<1> HIDE DEF t, keys, vals
<1>11. DecodeProof(t) =
         Ok([height |-> pf.height, round |-> pf.round, block_hash |-> pf.block_hash,
             precommit_votes |-> [a \in ToSet(keys) |-> vals[last(a)]]])
  BY <1>8, <1>9 DEF DecodeProof
<1> HIDE DEF f, last
<1> QED
  BY <1>2, <1>7, <1>10, <1>11

LEMMA ProposalRead ==
  ASSUME NEW p, IsProposal(p), NEW it \in Orders(p.proof)
  PROVE  DecodeProposal(EncodeProposal(p, it)) = Ok(p)
<1> DEFINE t == EncodeProposal(p, it)
           lv == p.lock_votes
           ev == [i \in DOMAIN lv |-> EncodeSignedVote(lv[i])]
           lock == IF p.lock_round = None THEN <<>> ELSE <<p.lock_round>>
<1>1. t = <<p.height, p.round, p.hash, EncodeProof(p.proof, it), lock, ev, p.proposer>>
  BY DEF EncodeProposal
<1>2. DecodeProof(EncodeProof(p.proof, it)) = Ok(p.proof)
  BY ProofRead DEF IsProposal
<1>3. [i \in DOMAIN ev |-> DecodeSignedVote(ev[i])] = lv
  <2>1. \A i \in DOMAIN lv : DecodeSignedVote(ev[i]) = lv[i]
    BY SignedVoteRead DEF IsProposal
  <2>2. lv = [i \in DOMAIN lv |-> lv[i]] /\ DOMAIN ev = DOMAIN lv
    BY DEF IsProposal
  <2> HIDE DEF lv, ev
  <2> QED
    BY <2>1, <2>2
<1>4. (IF lock = <<>> THEN None ELSE lock[1]) = p.lock_round
  OBVIOUS
<1> HIDE DEF t, lock, ev
<1>5. /\ Len(t) = 7 /\ t[1] = p.height /\ t[2] = p.round /\ t[3] = p.hash
      /\ t[4] = EncodeProof(p.proof, it) /\ t[5] = lock /\ t[6] = ev /\ t[7] = p.proposer
  BY <1>1
<1>6. DecodeProposal(t) =
        Ok([height |-> p.height, round |-> p.round, hash |-> p.hash, proof |-> p.proof,
            lock_round |-> p.lock_round, lock_votes |-> p.lock_votes, proposer |-> p.proposer])
  BY <1>2, <1>3, <1>4, <1>5, OkHolds DEF DecodeProposal
<1> QED
  BY <1>6 DEF IsProposal, t

LEMMA SignedProposalRead ==
  ASSUME NEW p, IsProposal(p), NEW it \in Orders(p.proof), NEW sig
  PROVE  DecodeSignedProposal(EncodeSignedProposal(p, it, sig)) =
           Ok([proposal |-> p, signature |-> sig])
<1> DEFINE t == EncodeProposal(p, it)
<1>1. DecodeProposal(t) = Ok(p)
  BY ProposalRead
<1> HIDE DEF t
<1>2. DecodeSignedProposal(<<t, sig>>) = Ok([proposal |-> p, signature |-> sig])
  BY <1>1, OkHolds DEF DecodeSignedProposal
<1> QED
  BY <1>2 DEF EncodeSignedProposal, t

\* rlp::decode undoes rlp_bytes.
LEMMA RlpRead ==
  ASSUME NEW item
  PROVE  /\ Len(RlpBytes(item)) = RlpSize /\ RlpItem(RlpBytes(item)) = Ok(item)
         /\ RlpBytes(item) \in Seq([kind : {"rlp"}, of : {item}, at : Nat])
<1> DEFINE C == [kind : {"rlp"}, of : {item}, at : Nat]
           s == RlpBytes(item)
<1>1. RlpSize \in Nat /\ RlpSize > 0
  BY WireAssumption
<1>2. s \in [1 .. RlpSize -> C]
  BY DEF RlpBytes
<1>3. s[1].kind = "rlp" /\ s[1].of = item
  BY <1>1 DEF RlpBytes
<1>4. RlpItem(s) = IF s # <<>> /\ Head(s).kind = "rlp" /\ s = RlpBytes(Head(s).of)
                   THEN Ok(Head(s).of) ELSE Err
  BY DEF RlpItem
<1>5. s = RlpBytes(item)
  OBVIOUS
<1> HIDE DEF s, C
<1>6. s \in Seq(C) /\ Len(s) = RlpSize
  BY <1>1, <1>2
<1>7. s # <<>> /\ Head(s) = s[1]
  BY <1>1, <1>6
<1> QED
  BY <1>3, <1>4, <1>5, <1>6, <1>7 DEF C, s

-----------------------------------------------------------------------------
(* Weights *)

LEMMA SumOfIs ==
  ASSUME NEW w \in Seq(Nat)
  PROVE  \E f \in [0 .. Len(w) -> Nat] :
           /\ SumOf(w) = f[Len(w)] /\ f[0] = 0
           /\ \A n \in 1 .. Len(w) : f[n] = f[n - 1] + w[n]
<1> DEFINE k == Len(w)
           Adds(f) == f = [n \in 0 .. k |-> IF n = 0 THEN 0 ELSE f[n - 1] + w[n]]
           step == [n \in 1 .. k |-> [x \in Nat |-> x + w[n]]]
<1>0. k \in Nat /\ \A n \in 1 .. k : w[n] \in Nat
  OBVIOUS
<1>1. SumOf(w) = (CHOOSE g : Adds(g))[k]
  BY DEF SumOf
<1> HIDE DEF k
<1>2. step \in [1 .. k -> [Nat -> Nat]]
  BY <1>0
<1>3. \A n \in 1 .. k, x \in Nat : step[n][x] = x + w[n]
  OBVIOUS
<1> HIDE DEF step
<1>4. PICK f \in [0 .. k -> Nat] : f[0] = 0 /\ \A n \in 1 .. k : f[n] = step[n][f[n - 1]]
  BY <1>0, <1>2, RecursionExists
<1>5. \A n \in 1 .. k : n - 1 \in 0 .. k /\ f[n] = f[n - 1] + w[n]
  <2>1. \A n \in 1 .. k : n - 1 \in 0 .. k /\ f[n - 1] \in Nat
    <3>1. \A n \in 1 .. k : n - 1 \in 0 .. k
      BY <1>0
    <3>2. \A n \in 0 .. k : f[n] \in Nat
      BY <1>4
    <3> QED
      BY <3>1, <3>2
  <2> QED
    BY <1>3, <1>4, <2>1
<1>6. Adds(f)
  <2>1. \A n \in 0 .. k : f[n] = IF n = 0 THEN 0 ELSE f[n - 1] + w[n]
    BY <1>0, <1>4, <1>5
  <2>2. f = [n \in 0 .. k |-> f[n]]
    BY <1>4
  <2> QED
    BY <2>1, <2>2
<1> DEFINE v == CHOOSE g : Adds(g)
<1>7. Adds(v)
  BY <1>6
<1>8. SumOf(w) = v[k]
  BY <1>1
<1> HIDE DEF v
<1>9. v[0] = 0 /\ \A n \in 1 .. k : v[n] = v[n - 1] + w[n]
  <2>1. \A n \in 0 .. k : v[n] = IF n = 0 THEN 0 ELSE v[n - 1] + w[n]
    BY <1>7
  <2> QED
    BY <1>0, <2>1
<1>10. v[k] = f[k]
  <2>1. v[0] = f[0] /\ \A n \in 1 .. k : v[n - 1] = f[n - 1] => v[n] = f[n]
    BY <1>4, <1>5, <1>9
  <2> QED
    BY <1>0, <2>1, RecursionAgrees
<1> QED
  BY <1>4, <1>5, <1>8, <1>10 DEF k

\* A sum of ones and zeros counts the ones.
LEMMA SumCounts ==
  ASSUME NEW w \in Seq(Nat), NEW I \in SUBSET (1 .. Len(w)),
         \A n \in 1 .. Len(w) : w[n] = IF n \in I THEN 1 ELSE 0
  PROVE  SumOf(w) = Cardinality(I)
<1> DEFINE k == Len(w)
           g == [n \in 0 .. k |-> Cardinality(I \cap 1 .. n)]
<1>0. k \in Nat
  OBVIOUS
<1>1. PICK f \in [0 .. k -> Nat] :
        SumOf(w) = f[k] /\ f[0] = 0 /\ \A n \in 1 .. k : f[n] = f[n - 1] + w[n]
  BY SumOfIs
<1>2. \A n \in 1 .. k : w[n] = IF n \in I THEN 1 ELSE 0
  OBVIOUS
<1> HIDE DEF k
<1>3. f[0] = g[0]
  <2>1. I \cap 1 .. 0 = {}
    OBVIOUS
  <2> QED
    BY <1>0, <1>1, <2>1, FS_EmptySet
<1>4. ASSUME NEW n \in 1 .. k, f[n - 1] = g[n - 1] PROVE f[n] = g[n]
  <2> DEFINE A == I \cap 1 .. n - 1
             B == I \cap 1 .. n
  <2>1. n \in Nat /\ n - 1 \in Nat /\ n - 1 \in 0 .. k /\ n \in 0 .. k
    BY <1>0
  <2>2. IsFiniteSet(A)
    <3>1. IsFiniteSet(1 .. n - 1) /\ A \in SUBSET (1 .. n - 1)
      BY <2>1, FS_Interval
    <3> QED
      BY <3>1, FS_Subset
  <2>3. n \notin A
    BY <2>1
  <2>4. B = IF n \in I THEN A \cup {n} ELSE A
    <3>1. \A i \in 1 .. n : i \in 1 .. n - 1 \/ i = n
      BY <2>1
    <3>2. \A i \in 1 .. n - 1 : i \in 1 .. n
      BY <2>1
    <3>3. n \in 1 .. n
      BY <2>1
    <3> QED
      BY <3>1, <3>2, <3>3
  <2>5. g[n - 1] = Cardinality(A) /\ g[n] = Cardinality(B)
    BY <2>1
  <2> HIDE DEF A, B, g
  <2>6. Cardinality(A) \in Nat /\ Cardinality(A \cup {n}) = Cardinality(A) + 1
    BY <2>2, <2>3, FS_AddElement, FS_CardinalityType
  <2>7. f[n] = f[n - 1] + w[n] /\ w[n] = IF n \in I THEN 1 ELSE 0
    BY <1>1, <1>2
  <2> QED
    BY <1>4, <2>4, <2>5, <2>6, <2>7
<1>5. f[k] = g[k]
  <2> HIDE DEF g
  <2> QED
    BY <1>0, <1>3, <1>4, RecursionAgrees
<1>6. g[k] = Cardinality(I)
  <2>1. I \cap 1 .. k = I /\ k \in 0 .. k
    BY <1>0 DEF k
  <2> QED
    BY <1>0, <2>1
<1> QED
  BY <1>1, <1>5, <1>6

\* Where everyone weighs one, weights are numbers of heads.
LEMMA WeightsCount ==
  ASSUME NEW list \in Seq(Members), UnitWeights(list), NEW V \in SUBSET AddressSet(list)
  PROVE  /\ TotalWeight(list) = Len(list)
         /\ VotesWeight(list, V) = Cardinality(V) /\ Cardinality(V) \in Nat
<1> DEFINE k == Len(list)
           addr == [i \in 1 .. k |-> list[i].address]
           I == {i \in 1 .. k : list[i].address \in V}
           all == [i \in DOMAIN list |-> list[i].vote_weight]
           some == [i \in DOMAIN list |-> IF list[i].address \in V THEN list[i].vote_weight ELSE 0]
<1>1. k \in Nat /\ DOMAIN list = 1 .. k
  OBVIOUS
<1>2. \A i \in 1 .. k : list[i].vote_weight = 1
  BY <1>1 DEF UnitWeights, ToSet
<1>3. IsFiniteSet(1 .. k) /\ Cardinality(1 .. k) = k
  BY <1>1, FS_Interval
<1>4. TotalWeight(list) = k
  <2>1. all \in Seq(Nat) /\ Len(all) = k /\ \A n \in 1 .. k : all[n] = 1
    <3>1. all \in [1 .. k -> Nat]
      BY <1>1, <1>2
    <3>2. \A n \in 1 .. k : all[n] = 1
      BY <1>1, <1>2
    <3> HIDE DEF all, k
    <3> QED
      BY <1>1, <3>1, <3>2
  <2> DEFINE J == 1 .. k
  <2> HIDE DEF all
  <2>2. J \in SUBSET (1 .. Len(all)) /\ \A n \in 1 .. Len(all) : all[n] = IF n \in J THEN 1 ELSE 0
    BY <2>1
  <2>3. TotalWeight(list) = SumOf(all)
    BY DEF TotalWeight, all
  <2> HIDE DEF J
  <2>4. SumOf(all) = Cardinality(J)
    BY <2>1, <2>2, SumCounts
  <2> QED
    BY <1>3, <2>3, <2>4 DEF J
<1>5. VotesWeight(list, V) = Cardinality(I)
  <2>1. some \in Seq(Nat) /\ Len(some) = k /\ \A n \in 1 .. k : some[n] = IF n \in I THEN 1 ELSE 0
    <3>1. some \in [1 .. k -> Nat]
      BY <1>1, <1>2
    <3>2. \A n \in 1 .. k : some[n] = IF n \in I THEN 1 ELSE 0
      BY <1>1, <1>2
    <3> HIDE DEF some, k, I
    <3> QED
      BY <1>1, <3>1, <3>2
  <2>2. I \in SUBSET (1 .. Len(some))
    BY <2>1
  <2>3. VotesWeight(list, V) = SumOf(some)
    BY DEF VotesWeight
  <2> HIDE DEF I, some
  <2> QED
    BY <2>1, <2>2, <2>3, SumCounts
<1>6. addr \in Surjection(1 .. k, AddressSet(list))
  BY <1>1 DEF Surjection, AddressSet, ToSet
<1>7. addr \in Injection(1 .. k, AddressSet(list))
  <2>1. Cardinality(1 .. k) = Cardinality(AddressSet(list))
    BY <1>3 DEF UnitWeights
  <2> HIDE DEF addr, k
  <2> QED
    BY <1>3, <1>6, <2>1, FS_SurjSameCardinalityImpliesInj
<1>8. IsFiniteSet(I)
  <2>1. I \in SUBSET (1 .. k)
    OBVIOUS
  <2> HIDE DEF I, k
  <2> QED
    BY <1>3, <2>1, FS_Subset
<1>9. IsFiniteSet(V) /\ Cardinality(V) = Cardinality(I)
  <2> DEFINE b == [i \in I |-> addr[i]]
  <2>1. /\ \A i \in I : i \in 1 .. k /\ addr[i] \in V
        /\ \A i \in 1 .. k : addr[i] \in V => i \in I
    OBVIOUS
  <2> HIDE DEF addr, I
  <2>2. b \in [I -> V]
    BY <2>1
  <2>3. \A i, j \in I : b[i] = b[j] => i = j
    BY <1>7, <2>1 DEF Injection, IsInjective
  <2>4. \A a \in V : \E i \in I : b[i] = a
    <3> SUFFICES ASSUME NEW a \in V PROVE \E i \in I : b[i] = a
      OBVIOUS
    <3>1. a \in AddressSet(list)
      OBVIOUS
    <3>2. PICK i \in 1 .. k : addr[i] = a
      BY <1>6, <3>1 DEF Surjection
    <3> QED
      BY <2>1, <3>2
  <2> HIDE DEF b
  <2>5. b \in Bijection(I, V)
    BY <2>2, <2>3, <2>4 DEF Bijection, Injection, Surjection, IsInjective
  <2> QED
    BY <1>8, <2>5, FS_Bijection DEF ExistsBijection
<1>10. Cardinality(V) \in Nat
  BY <1>9, FS_CardinalityType
<1> QED
  BY <1>4, <1>5, <1>9, <1>10

-----------------------------------------------------------------------------
(* The way of a proposal *)

\* A proposal as it is built: its precommits are sound, another's, or damaged.
Built(p) ==
  /\ IsProposal(p) /\ p.height = Height /\ p.hash \in BlockHashes /\ p.proposer \in Addresses
  /\ p.proof.height = Height - 1
  /\ \A a \in DOMAIN p.proof.precommit_votes :
       p.proof.precommit_votes[a] \in SomeSignatures(p.proof.round, p.proof.block_hash, a)

\* A sequence of bytes as cells.
Cells(s) == [i \in DOMAIN s |-> Cell(s[i])]

\* What the receiver makes of it.
Arrived(r, p, c) ==
  /\ r.proposal = Ok(p) /\ r.from = Ok(p.proposer)
  /\ r.block = Ok([height |-> Height, block |-> Cells(c), block_hash |-> Cells(p.hash)])

\* At each stage the proposal is what it was, only in another form.
WireInv ==
  /\ stage \in {"built", "signed", "sent", "received", "judged"}
  /\ Built(proposal)
  /\ stage # "built" =>
       /\ order \in Orders(proposal.proof)
       /\ signature = Sign(proposal.proposer, EncodeProposal(proposal, order))
  /\ stage \in {"sent", "received", "judged"} => content \in Contents
  /\ stage = "sent" =>
       bytes = Combine(RlpBytes(EncodeSignedProposal(proposal, order, signature)),
                       EncodeBlock(Height, Cells(content), Cells(proposal.hash)))
  /\ stage \in {"received", "judged"} => Arrived(received, proposal, content)
  /\ stage = "judged" =>
       /\ verdict.list \in Lists
       /\ verdict.node = VerifyProof(proposal.proof, Height - 1, verdict.list)
       /\ verdict.client = CheckProof(proposal.proof, Height, verdict.list)

LEMMA LocksShaped ==
  ASSUME NEW x \in BlockHashes, NEW lock \in Locks(x)
  PROVE  /\ lock.lock_round \in Nat \cup {None}
         /\ lock.lock_votes = [i \in DOMAIN lock.lock_votes |-> lock.lock_votes[i]]
         /\ \A i \in DOMAIN lock.lock_votes : IsSignedVote(lock.lock_votes[i])
<1> DEFINE T == {LockVote(x, a) : a \in Addresses}
           n == Cardinality(T)
<1>1. CASE lock = [lock_round |-> None, lock_votes |-> <<>>]
  BY <1>1
<1>2. CASE lock = [lock_round |-> 0, lock_votes |-> SetToSeq(T)]
  <2>1. IsFiniteSet(T)
    <3> DEFINE g == [a \in Addresses |-> LockVote(x, a)]
    <3>1. g \in Surjection(Addresses, T)
      BY DEF Surjection
    <3> HIDE DEF g, T
    <3> QED
      BY <3>1, FS_Surjection, WireAssumption
  <2>2. \A sv \in T : IsSignedVote(sv)
    <3> SUFFICES ASSUME NEW a \in Addresses PROVE IsSignedVote(LockVote(x, a))
      OBVIOUS
    <3> DEFINE v == [vote_type |-> "Prevote", height |-> Height, round |-> 0, proposal |-> x, voter |-> a]
    <3>1. v \in Votes
      BY WireAssumption DEF Votes
    <3>2. LockVote(x, a) = [vote |-> v, signature |-> LockVote(x, a).signature]
      BY DEF LockVote
    <3> HIDE DEF v
    <3> QED
      BY <3>1, <3>2 DEF IsSignedVote
  <2> HIDE DEF T
  <2>3. SetToSeq(T) \in [1 .. n -> T]
    <3>1. \E f \in [1 .. n -> T] : IsInjective(f)
      BY <2>1, FS_CardinalityType DEF ExistsBijection, Bijection, Injection
    <3> QED
      BY <3>1 DEF SetToSeq
  <2> DEFINE s == SetToSeq(T)
  <2>4. lock.lock_round = 0 /\ lock.lock_votes = s
    BY <1>2
  <2> HIDE DEF s, n
  <2>5. s \in [1 .. n -> T]
    BY <2>3 DEF s
  <2> QED
    BY <2>2, <2>4, <2>5
<1> QED
  BY <1>1, <1>2 DEF Locks

LEMMA InitBuilt == Init => WireInv
<1> SUFFICES ASSUME Init PROVE WireInv
  OBVIOUS
<1>1. PICK x \in BlockHashes, pf \in Proofs, a \in Addresses : \E lock \in Locks(x) :
        proposal = [height |-> Height, round |-> 1, hash |-> x, proof |-> pf,
                    lock_round |-> lock.lock_round, lock_votes |-> lock.lock_votes,
                    proposer |-> a]
  BY DEF Init
<1>2. PICK lock \in Locks(x) :
        proposal = [height |-> Height, round |-> 1, hash |-> x, proof |-> pf,
                    lock_round |-> lock.lock_round, lock_votes |-> lock.lock_votes,
                    proposer |-> a]
  BY <1>1
<1>3. PICK r \in Rounds, y \in BlockHashes, S \in SUBSET Addresses : \E f \in Precommits(r, y, S) :
        pf = [height |-> Height - 1, round |-> r, block_hash |-> y, precommit_votes |-> f]
  BY DEF Proofs
<1>4. PICK f \in Precommits(r, y, S) :
        pf = [height |-> Height - 1, round |-> r, block_hash |-> y, precommit_votes |-> f]
  BY <1>3
<1>5. /\ f = [b \in S |-> f[b]] /\ DOMAIN f = S
      /\ \A b \in S : f[b] \in SomeSignatures(r, y, b)
  BY DEF Precommits
<1>6. IsProof(pf)
  BY <1>4, <1>5 DEF IsProof
<1>7. IsProposal(proposal)
  BY <1>2, <1>6, LocksShaped DEF IsProposal
<1>8. Built(proposal)
  BY <1>2, <1>4, <1>5, <1>7 DEF Built
<1> QED
  BY <1>8 DEF Init, WireInv

\* What the receiver reads of the bytes that were sent.
LEMMA BytesRead ==
  ASSUME NEW p, Built(p), NEW c \in Contents, NEW item
  PROVE  LET e == EncodeBlock(Height, Cells(c), Cells(p.hash))
         IN  /\ Extract(Combine(RlpBytes(item), e)) = Ok([one |-> RlpBytes(item), two |-> e])
             /\ DecodeBlock(e) =
                  Ok([height |-> Height, block |-> Cells(c), block_hash |-> Cells(p.hash)])
<1> DEFINE R == [kind : {"rlp"}, of : {item}, at : Nat]
           S == ByteCells \cup R
           b == Cells(c)
           h == Cells(p.hash)
           e == EncodeBlock(Height, b, h)
           m == RlpBytes(item)
<1>1. c \in Seq(Nat) /\ p.hash \in Seq(Nat) /\ Fits(Len(p.hash)) /\ Fits(RlpSize)
      /\ Height \in Nat /\ Fits(Height)
  BY WireAssumption DEF Built
<1>2. \A s \in Seq(Nat) : Cells(s) \in Seq(S) /\ Len(Cells(s)) = Len(s)
  <2> SUFFICES ASSUME NEW s \in Seq(Nat) PROVE Cells(s) \in Seq(S) /\ Len(Cells(s)) = Len(s)
    OBVIOUS
  <2>1. \A i \in 1 .. Len(s) : Cell(s[i]) \in S
    BY DEF Cell, ByteCells
  <2> HIDE DEF S
  <2> QED
    BY <2>1 DEF Cells
<1>3. m \in Seq(S) /\ Len(m) = RlpSize
  <2>1. m \in Seq(R) /\ Len(m) = RlpSize
    BY RlpRead
  <2>2. R \subseteq S
    OBVIOUS
  <2> HIDE DEF m, R, S
  <2> QED
    BY <2>1, <2>2
<1>4. ByteCells \subseteq S /\ b \in Seq(S) /\ h \in Seq(S) /\ Fits(Len(h))
  BY <1>1, <1>2
<1> HIDE DEF S, b, h, m
<1>5. e \in Seq(S) /\ DecodeBlock(e) = Ok([height |-> Height, block |-> b, block_hash |-> h])
  BY <1>1, <1>4, BlockDecoded
<1> HIDE DEF e
<1>6. Extract(Combine(m, e)) = Ok([one |-> m, two |-> e])
  BY <1>1, <1>3, <1>4, <1>5, Extracted
<1> QED
  BY <1>5, <1>6 DEF b, h, m, e

LEMMA SignatureRecovers ==
  ASSUME NEW p, Built(p), NEW item
  PROVE  Recover(Sign(p.proposer, item), item) = Ok(p.proposer)
<1>1. p.proposer # None
  BY WireAssumption DEF Built
<1>2. Sign(p.proposer, item) # Damaged
  BY <1>1 DEF Sign, Damaged
<1> QED
  BY <1>2 DEF Recover, Sign

LEMMA NextArrives == WireInv /\ [Next]_vars => WireInv'
<1> SUFFICES ASSUME WireInv, [Next]_vars PROVE WireInv'
  OBVIOUS
<1>1. CASE SignProposal
  BY <1>1 DEF WireInv, SignProposal
<1>2. CASE Transmit
  <2>1. bytes' = Combine(RlpBytes(EncodeSignedProposal(proposal, order, signature)),
                         EncodeBlock(Height, Cells(content'), Cells(proposal.hash)))
    BY <1>2 DEF WireInv, Transmit, Cells, Built
  <2> QED
    BY <1>2, <2>1 DEF WireInv, Transmit
<1>3. CASE Receive
  <2> DEFINE item == EncodeSignedProposal(proposal, order, signature)
             m == RlpBytes(item)
             e == EncodeBlock(Height, Cells(content), Cells(proposal.hash))
  <2>1. /\ Built(proposal) /\ content \in Contents /\ bytes = Combine(m, e)
        /\ order \in Orders(proposal.proof) /\ IsProposal(proposal)
        /\ signature = Sign(proposal.proposer, EncodeProposal(proposal, order))
    BY <1>3 DEF WireInv, Receive, Built
  <2>2. /\ Extract(bytes) = Ok([one |-> m, two |-> e])
        /\ DecodeBlock(e) = Ok([height |-> Height, block |-> Cells(content),
                                block_hash |-> Cells(proposal.hash)])
    BY <2>1, BytesRead
  <2>3. RlpItem(m) = Ok(item)
    BY RlpRead
  <2>4. DecodeSignedProposal(item) = Ok([proposal |-> proposal, signature |-> signature])
    BY <2>1, SignedProposalRead
  <2> HIDE DEF item, m, e
  <2>5. /\ Extract(bytes).ok /\ Extract(bytes).val.one = m /\ Extract(bytes).val.two = e
        /\ RlpItem(m).ok /\ RlpItem(m).val = item
        /\ DecodeSignedProposal(item).ok
        /\ DecodeSignedProposal(item).val.proposal = proposal
        /\ DecodeSignedProposal(item).val.signature = signature
    BY <2>2, <2>3, <2>4, OkHolds
  <2>6. PICK iteration \in Orders(proposal.proof) :
          received' = [proposal |-> Ok(proposal), block |-> DecodeBlock(e),
                       from |-> Recover(signature, EncodeProposal(proposal, iteration))]
    BY <1>3, <2>5 DEF Receive
  <2>7. Recover(signature, EncodeProposal(proposal, iteration)) = Ok(proposal.proposer)
    BY <2>1, OrderHidden, SignatureRecovers
  <2>8. Arrived(received', proposal, content)
    BY <2>2, <2>6, <2>7 DEF Arrived
  <2> QED
    BY <1>3, <2>8 DEF WireInv, Receive
<1>4. CASE Judge
  <2>1. received.proposal.val = proposal /\ proposal.height = Height
    BY <1>4, OkHolds DEF WireInv, Judge, Arrived, Built
  <2>2. PICK list \in Lists :
          verdict' = [node |-> VerifyProof(proposal.proof, Height - 1, list),
                      client |-> CheckProof(proposal.proof, Height, list), list |-> list]
    BY <1>4, <2>1 DEF Judge
  <2>3. /\ verdict'.list \in Lists
        /\ verdict'.node = VerifyProof(proposal.proof, Height - 1, verdict'.list)
        /\ verdict'.client = CheckProof(proposal.proof, Height, verdict'.list)
    BY <2>2
  <2> QED
    BY <1>4, <2>3 DEF WireInv, Judge
<1>5. CASE UNCHANGED vars
  BY <1>5 DEF WireInv, vars
<1> QED
  BY <1>1, <1>2, <1>3, <1>4, <1>5 DEF Next

LEMMA WireInvariant == Spec => []WireInv
<1> QED
  BY InitBuilt, NextArrives, PTL DEF Spec

\* Proposal, block and hash are taken apart where they were put together,
\* whatever bytes they hold and however long they are, and the proof's map and
\* the lock votes are read back as they were written.
THEOREM ArrivesAsSent == Spec => []ReadAsSent
<1>1. WireInv => ReadAsSent
  <2> SUFFICES ASSUME WireInv, stage = "received"
               PROVE  /\ received.proposal = Ok(proposal)
                      /\ received.block.ok /\ received.block.val.height = proposal.height
                      /\ Plain(received.block.val.block) = content
                      /\ Plain(received.block.val.block_hash) = proposal.hash
    BY DEF ReadAsSent
  <2>1. /\ content \in Seq(Nat) /\ proposal.hash \in Seq(Nat) /\ proposal.height = Height
        /\ Arrived(received, proposal, content)
    BY WireAssumption DEF WireInv, Built
  <2>2. \A s \in Seq(Nat) : Plain(Cells(s)) = s
    <3> SUFFICES ASSUME NEW s \in Seq(Nat) PROVE Plain(Cells(s)) = s
      OBVIOUS
    <3>1. Plain(Cells(s)) = [i \in DOMAIN s |-> s[i]]
      BY DEF Plain, Cells, Cell
    <3> QED
      BY <3>1
  <2>3. /\ received.block.ok /\ received.block.val.height = Height
        /\ received.block.val.block = Cells(content)
        /\ received.block.val.block_hash = Cells(proposal.hash)
    BY <2>1, OkHolds DEF Arrived
  <2> QED
    BY <2>1, <2>2, <2>3 DEF Arrived
<1> QED
  BY <1>1, WireInvariant, PTL

\* The receiver encodes the proposal again, with a map that iterates in an order
\* of its own, and recovers the proposer all the same: the keys are sorted.
THEOREM SignatureHolds == Spec => []SignatureSurvives
<1>1. WireInv => SignatureSurvives
  BY DEF WireInv, SignatureSurvives, Arrived
<1> QED
  BY <1>1, WireInvariant, PTL

-----------------------------------------------------------------------------
(* The judges *)

\* What is recovered from a signature in the proof.
LEMMA VoterRecovered ==
  ASSUME NEW p, Built(p), NEW a \in DOMAIN p.proof.precommit_votes
  PROVE  LET sig == p.proof.precommit_votes[a]
             v == RecoveredVoter(p.proof, a)
         IN  /\ v = Err <=> sig = Damaged
             /\ v = Ok(a) <=> sig.by = a
             /\ Ok(a) # Err
<1> DEFINE sig == p.proof.precommit_votes[a]
           item == EncodeVote(PrecommitOf(p.proof, a))
<1>1. sig \in {Sign(a, item), Sign(a + 1, item), Damaged}
  BY DEF Built, SomeSignatures, PrecommitOf
<1>2. RecoveredVoter(p.proof, a) = Recover(sig, item)
  BY DEF RecoveredVoter
<1>3. a \in Nat /\ None \notin Nat
  BY WireAssumption DEF Built, IsProposal, IsProof
<1> HIDE DEF sig, item
<1>4. \A b \in Nat : /\ Sign(b, item) # Damaged /\ Sign(b, item).by = b
                      /\ Recover(Sign(b, item), item) = Ok(b)
  <2>1. \A b \in Nat : Sign(b, item) # Damaged
    BY <1>3 DEF Sign, Damaged
  <2> QED
    BY <2>1 DEF Recover, Sign
<1>5. Recover(Damaged, item) = Err /\ Damaged.by = None
  BY DEF Recover, Damaged
<1>6. \A b : Ok(b) # Err
  BY DEF Ok, Err
<1>7. \A b, c : Ok(b) = Ok(c) => b = c
  BY DEF Ok
<1>8. a + 1 \in Nat /\ a + 1 # a /\ a # None
  BY <1>3
<1> QED
  BY <1>1, <1>2, <1>3, <1>4, <1>5, <1>6, <1>7, <1>8 DEF sig

\* Both judges ask for the votes of more than two thirds of the list and of no
\* one else; they differ on a signature that can't be recovered.
LEMMA JudgesAsk ==
  ASSUME NEW p, Built(p), NEW list \in Seq(Members), UnitWeights(list)
  PROVE  LET pf == p.proof
             V == DOMAIN pf.precommit_votes
             quorum == V \subseteq AddressSet(list) /\ 3 * Cardinality(V) > 2 * Len(list)
         IN  /\ VerifyProof(pf, Height - 1, list) <=>
                   quorum /\ \A a \in V : RecoveredVoter(pf, a) \in {Ok(a), Err}
             /\ CheckProof(pf, Height, list) <=>
                   quorum /\ \A a \in V : RecoveredVoter(pf, a) = Ok(a)
<1> DEFINE pf == p.proof
           V == DOMAIN pf.precommit_votes
           n == Cardinality(V)
           k == Len(list)
<1>1. Height - 1 # 0 /\ Height # 0 /\ pf.height = Height - 1 /\ Height = (Height - 1) + 1
  BY WireAssumption DEF Built
<1>2. VerifyProof(pf, Height - 1, list) <=>
        /\ 2 * k < 3 * n
        /\ \A a \in V : a \in AddressSet(list) /\ RecoveredVoter(pf, a) \in {Ok(a), Err}
  BY <1>1 DEF VerifyProof
<1>3. CheckProof(pf, Height, list) <=>
        /\ VotesWeight(list, V) * 3 > TotalWeight(list) * 2
        /\ \A a \in V : a \in AddressSet(list) /\ RecoveredVoter(pf, a) = Ok(a)
  BY <1>1 DEF CheckProof
<1>4. V \subseteq AddressSet(list) =>
        /\ TotalWeight(list) = k /\ VotesWeight(list, V) = n
        /\ n \in Nat /\ k \in Nat
  BY WeightsCount
<1> HIDE DEF V, n, k
<1>5. V \subseteq AddressSet(list) =>
        (VotesWeight(list, V) * 3 > TotalWeight(list) * 2 <=> 2 * k < 3 * n)
  BY <1>4
<1>6. V \subseteq AddressSet(list) => (2 * k < 3 * n <=> 3 * n > 2 * k)
  BY <1>4
<1> QED
  BY <1>2, <1>3, <1>5, <1>6 DEF V, n, k

\* Where every authority weighs one, a client accepts no proof that a node
\* refuses, for lists and quorums of every size.
THEOREM JudgesConsistent == Spec => []JudgesAgree
<1>1. WireInv => JudgesAgree
  <2> DEFINE pf == proposal.proof
             V == DOMAIN pf.precommit_votes
  <2> SUFFICES ASSUME WireInv, stage = "judged", UnitWeights(verdict.list)
               PROVE  /\ verdict.client => verdict.node
                      /\ (verdict.node /\ ~verdict.client) =>
                           Damaged \in Range(received.proposal.val.proof.precommit_votes)
    BY DEF JudgesAgree
  <2>1. /\ Built(proposal) /\ verdict.list \in Seq(Members)
        /\ verdict.node = VerifyProof(pf, Height - 1, verdict.list)
        /\ verdict.client = CheckProof(pf, Height, verdict.list)
        /\ received.proposal.val = proposal
    BY ListsAssumption, OkHolds DEF WireInv, Arrived
  <2>2. verdict.client => verdict.node
    BY <2>1, JudgesAsk
  <2>3. ASSUME verdict.node, ~verdict.client PROVE Damaged \in Range(pf.precommit_votes)
    <3>1. PICK a \in V : RecoveredVoter(pf, a) # Ok(a) /\ RecoveredVoter(pf, a) \in {Ok(a), Err}
      BY <2>1, <2>3, JudgesAsk
    <3>2. pf.precommit_votes[a] = Damaged
      BY <2>1, <3>1, VoterRecovered
    <3> QED
      BY <3>2 DEF Range
  <2> QED
    BY <2>1, <2>2, <2>3
<1> QED
  BY <1>1, WireInvariant, PTL

\* The precommits that more than two thirds of a list signed convince both judges:
\* the vote that a judge puts together is the one each of them signed.
THEOREM QuorumsConvince == Spec => []QuorumConvinces
<1>1. WireInv => QuorumConvinces
  <2> DEFINE pf == proposal.proof
             V == DOMAIN pf.precommit_votes
  <2> SUFFICES ASSUME WireInv, stage = "judged", UnitWeights(verdict.list),
                      V \subseteq AddressSet(verdict.list),
                      3 * Cardinality(V) > 2 * Len(verdict.list),
                      \A a \in V : pf.precommit_votes[a].by = a
               PROVE  verdict.node /\ verdict.client
    BY DEF QuorumConvinces
  <2>1. /\ Built(proposal) /\ verdict.list \in Seq(Members)
        /\ verdict.node = VerifyProof(pf, Height - 1, verdict.list)
        /\ verdict.client = CheckProof(pf, Height, verdict.list)
    BY ListsAssumption DEF WireInv
  <2>2. \A a \in V : RecoveredVoter(pf, a) = Ok(a)
    BY <2>1, VoterRecovered
  <2> QED
    BY <2>1, <2>2, JudgesAsk
<1> QED
  BY <1>1, WireInvariant, PTL
=============================================================================
