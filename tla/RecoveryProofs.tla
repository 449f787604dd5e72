--------------------------- MODULE RecoveryProofs ---------------------------
(***************************************************************************)
(* The shell with its write-ahead log, over any number of ends of the      *)
(* process and of failed saves: what is logged is enough to go on from,    *)
(* and what the replay hands on is as sound as what the handlers do.       *)
(***************************************************************************)
EXTENDS Recovery, EvidenceProofs, FormatProofs

-----------------------------------------------------------------------------
(* Heights of commits *)

\* A set of naturals with an upper bound has its maximum.
LEMMA MaxOfBounded ==
  ASSUME NEW S, S \subseteq Nat, S # {}, NEW b \in Nat, \A x \in S : x <= b
  PROVE  Max(S) \in S /\ \A x \in S : x <= Max(S)
<1> DEFINE T == {n \in Nat : \A x \in S : x <= n}
<1>1. PICK m \in T : \A n \in T : m <= n
  <2>1. T \subseteq Nat /\ b \in T
    OBVIOUS
  <2> HIDE DEF T
  <2> QED
    BY <2>1, Least
<1>2. m \in Nat /\ \A x \in S : x <= m
  OBVIOUS
<1>3. m \in S
  <2> SUFFICES ASSUME m \notin S PROVE FALSE
    OBVIOUS
  <2>1. \A x \in S : x \in Nat /\ x < m
    BY <1>2
  <2>2. m - 1 \in Nat /\ ~(m <= m - 1)
    <3>1. PICK y \in S : TRUE
      OBVIOUS
    <3>2. y \in Nat /\ y < m
      BY <2>1, <3>1
    <3> QED
      BY <1>2, <3>2
  <2>3. \A x \in S : x <= m - 1
    BY <1>2, <2>1
  <2>4. m - 1 \in T
    BY <2>2, <2>3
  <2> QED
    BY <1>1, <2>2, <2>4
<1>4. \A x \in S : m >= x
  BY <1>2
<1>5. Max(S) \in S /\ \A x \in S : Max(S) >= x
  BY <1>3, <1>4, Zenon DEF Max
<1> QED
  BY <1>5

\* The highest commit is not above what none of them is above.
LEMMA HighestBounded ==
  ASSUME NEW cs \in Seq(Commit), NEW b \in Nat, \A i \in DOMAIN cs : cs[i].height <= b
  PROVE  Highest(cs) \in Nat /\ Highest(cs) <= b
<1> DEFINE S == {0} \cup {cs[i].height : i \in DOMAIN cs}
<1>1. \A i \in DOMAIN cs : cs[i].height \in Nat
  <2> SUFFICES ASSUME NEW i \in DOMAIN cs PROVE cs[i].height \in Nat
    OBVIOUS
  <2>1. cs[i] \in Commit
    OBVIOUS
  <2> QED
    BY <2>1, BoundsAssumption DEF Commit, Heights
<1>2. S \subseteq Nat /\ S # {} /\ \A x \in S : x <= b
  BY <1>1
<1> HIDE DEF S
<1>3. Max(S) \in S
  BY <1>2, MaxOfBounded
<1> QED
  BY <1>2, <1>3 DEF Highest, S

-----------------------------------------------------------------------------
(* The log *)

\* What the file of height h says of it: the status that ended it, and the
\* votes and decisions of this node's core.
Logged(r, h) ==
  /\ r.type = "rich_status" => h <= MaxHeight /\ r.msg = StatusOf(h)
  /\ r.type = "vote" => r.msg.height = h /\ r.msg.voter = Self
  /\ r.type = "commit" => r.msg.height = h /\ Supported(r.msg)

SoundLog(w) ==
  /\ w \in WalState /\ w.current \in w.open
  /\ \A x \in 0 .. MaxHeight + 2 : \A i \in DOMAIN w.files[x] : Logged(w.files[x][i].of, x)

\* w2 is w after more was saved, and files that are no longer kept were removed.
Extends(w, w2) ==
  /\ w.current <= w2.current
  /\ \A x \in 0 .. MaxHeight + 2 : x + DELETE_FILE_INTERVAL >= w2.current =>
       Complete(w.files[x]) \subseteq Complete(w2.files[x])

LEMMA WalHeights ==
  /\ 0 .. MaxHeight + 2 \subseteq Nat
  /\ \A h \in Heights : h \in Nat /\ h \in 0 .. MaxHeight + 2 /\ h + 1 \in 0 .. MaxHeight + 2
  /\ \A h \in 0 .. MaxHeight : h + 1 \in Heights /\ h \in Heights
BY BoundsAssumption DEF Heights

LEMMA ExtendsTransitive ==
  ASSUME NEW u, NEW v, NEW w, u \in WalState, v \in WalState, w \in WalState,
         Extends(u, v), Extends(v, w)
  PROVE  Extends(u, w)
<1>1. u.current \in Nat /\ v.current \in Nat /\ w.current \in Nat
  BY WalHeights DEF WalState
<1>2. ASSUME NEW x \in 0 .. MaxHeight + 2, x + DELETE_FILE_INTERVAL >= w.current
      PROVE  Complete(u.files[x]) \subseteq Complete(w.files[x])
  <2>1. x + DELETE_FILE_INTERVAL >= v.current
    BY <1>1, <1>2 DEF Extends, DELETE_FILE_INTERVAL
  <2> QED
    BY <1>2, <2>1 DEF Extends
<1> QED
  BY <1>1, <1>2 DEF Extends

\* A record is three cells: its length, its type and its body.
LEMMA WrittenCells ==
  ASSUME NEW r \in LogRecord
  PROVE  /\ Written(r) \in Seq(LogCells(LogRecord)) /\ Len(Written(r)) = 3
         /\ \A i \in 1 .. 3 : Written(r)[i].of = r
         /\ Len(Written(r)) # 0
         /\ Written(r)[Len(Written(r))] = [kind |-> "body", of |-> r, at |-> 1]
         /\ r.len = 1
<1>1. r.len = 1
  BY DEF LogRecord
<1>2. Body(r) = [i \in 1 .. 1 |-> [kind |-> "body", of |-> r, at |-> i]]
  BY <1>1 DEF Body
<1> DEFINE c1 == LenCell(r)
           c2 == TypeCell(r)
           c3 == [kind |-> "body", of |-> r, at |-> 1]
<1>3. c1 \in LogCells(LogRecord) /\ c2 \in LogCells(LogRecord) /\ c3 \in LogCells(LogRecord)
      /\ c1.of = r /\ c2.of = r /\ c3.of = r
  BY DEF LenCell, TypeCell, LogCells
<1> HIDE DEF c1, c2
<1>4. Body(r) = <<c3>>
  BY <1>2
<1> HIDE DEF c3
<1>5. Written(r) = <<c1, c2>> \o <<c3>>
  BY <1>4 DEF Written, c1, c2
<1>6. Written(r) \in Seq(LogCells(LogRecord)) /\ Len(Written(r)) = 3
      /\ Written(r)[1] = c1 /\ Written(r)[2] = c2 /\ Written(r)[3] = c3
  <2>1. <<c1, c2>> \in Seq(LogCells(LogRecord)) /\ <<c3>> \in Seq(LogCells(LogRecord))
    BY <1>3
  <2>2. <<c1, c2>> \o <<c3>> \in Seq(LogCells(LogRecord))
    BY <2>1
  <2> QED
    BY <1>5, <2>1, <2>2, ConcatProperties
<1>7. \A i \in 1 .. 3 : i = 1 \/ i = 2 \/ i = 3
  OBVIOUS
<1>8. \A i \in 1 .. 3 : Written(r)[i].of = r
  BY <1>3, <1>6, <1>7
<1>9. Len(Written(r)) # 0 /\ Written(r)[Len(Written(r))] = c3
  BY <1>6
<1> QED
  BY <1>1, <1>6, <1>8, <1>9 DEF c3

\* The cells of a record, or its first ones.
CellsOf(cells, r) ==
  cells \in Seq(LogCells(LogRecord)) /\ \A i \in DOMAIN cells : cells[i].of = r

LEMMA PartlyWritten ==
  ASSUME NEW r \in LogRecord, NEW n \in 2 .. 3
  PROVE  CellsOf(Written(r), r) /\ CellsOf(SubSeq(Written(r), 1, n), r)
<1> DEFINE s == Written(r)
<1>1. s \in Seq(LogCells(LogRecord)) /\ Len(s) = 3 /\ \A i \in 1 .. 3 : s[i].of = r
  BY WrittenCells
<1> HIDE DEF s
<1>2. DOMAIN s = 1 .. 3
  BY <1>1
<1>3. SubSeq(s, 1, n) \in Seq(LogCells(LogRecord)) /\ Len(SubSeq(s, 1, n)) = n
      /\ \A i \in 1 .. n : SubSeq(s, 1, n)[i] = s[i]
  <2>1. n \in Int /\ n \in Nat /\ 1 <= n /\ \A i \in 1 .. n : s[i] \in LogCells(LogRecord)
    BY <1>1
  <2>2. /\ SubSeq(s, 1, n) \in Seq(LogCells(LogRecord))
        /\ Len(SubSeq(s, 1, n)) = n - 1 + 1
        /\ \A i \in 1 .. n - 1 + 1 : SubSeq(s, 1, n)[i] = s[1 + i - 1]
    BY <1>1, <2>1, SubSeqProperties
  <2>3. n - 1 + 1 = n /\ \A i \in 1 .. n : 1 + i - 1 = i
    BY <2>1
  <2> QED
    BY <2>2, <2>3
<1>4. DOMAIN SubSeq(s, 1, n) = 1 .. n /\ \A i \in 1 .. n : i \in 1 .. 3
  BY <1>3
<1>5. \A i \in DOMAIN SubSeq(s, 1, n) : SubSeq(s, 1, n)[i].of = r
  BY <1>1, <1>3, <1>4
<1> QED
  BY <1>1, <1>2, <1>3, <1>5 DEF CellsOf, s

\* Wal::save adds to what the log says, and leaves a whole record in an open file.
LEMMA PutSound ==
  ASSUME NEW w, SoundLog(w), NEW h \in Heights, NEW r \in LogRecord, Logged(r, h),
         NEW cells, CellsOf(cells, r)
  PROVE  /\ SoundLog(Put(w, h, cells))
         /\ Extends(w, Put(w, h, cells))
         /\ Put(w, h, cells).current = w.current
         /\ w.open \subseteq Put(w, h, cells).open
         /\ \A x \in 0 .. MaxHeight + 2 : Complete(w.files[x]) \subseteq Complete(Put(w, h, cells).files[x])
<1> DEFINE w2 == Put(w, h, cells)
<1>1. /\ w \in WalState /\ w.current \in w.open /\ h \in 0 .. MaxHeight + 2
      /\ \A x \in 0 .. MaxHeight + 2 : w.files[x] \in Seq(LogCells(LogRecord))
      /\ w.current \in Nat
  BY WalHeights DEF SoundLog, WalState
<1>2. CASE w2 = w
  BY <1>1, <1>2 DEF Extends
<1>3. CASE w2 = [w EXCEPT !.open = @ \cup {h}, !.files[h] = @ \o cells]
  <2> DEFINE file == w.files[h] \o cells
  <2>1. file \in Seq(LogCells(LogRecord))
    BY <1>1 DEF CellsOf
  <2>2. /\ w2.open = w.open \cup {h} /\ w2.current = w.current
        /\ w2.files = [w.files EXCEPT ![h] = file]
    BY <1>1, <1>3 DEF WalState
  <2>3. /\ DOMAIN w.files[h] \subseteq DOMAIN file
        /\ \A i \in DOMAIN w.files[h] : file[i] = w.files[h][i]
        /\ \A i \in DOMAIN file : i \notin DOMAIN w.files[h] =>
             \E j \in DOMAIN cells : file[i] = cells[j]
    <3>1. w.files[h] \in Seq(LogCells(LogRecord)) /\ cells \in Seq(LogCells(LogRecord))
      BY <1>1 DEF CellsOf
    <3>2. /\ Len(file) = Len(w.files[h]) + Len(cells)
          /\ \A i \in 1 .. Len(file) : file[i] = IF i <= Len(w.files[h]) THEN w.files[h][i]
                                                 ELSE cells[i - Len(w.files[h])]
      BY <3>1
    <3>3. DOMAIN file = 1 .. Len(file) /\ DOMAIN cells = 1 .. Len(cells)
          /\ DOMAIN w.files[h] = 1 .. Len(w.files[h])
          /\ Len(w.files[h]) \in Nat /\ Len(cells) \in Nat
      BY <2>1, <3>1
    <3> HIDE DEF file
    <3>4. ASSUME NEW i \in DOMAIN file, i \notin DOMAIN w.files[h]
          PROVE  \E j \in DOMAIN cells : file[i] = cells[j]
      <4>1. i - Len(w.files[h]) \in DOMAIN cells /\ ~(i <= Len(w.files[h]))
        BY <3>2, <3>3, <3>4
      <4> QED
        BY <3>2, <3>3, <4>1
    <3> QED
      BY <3>2, <3>3, <3>4
  <2> HIDE DEF file, w2
  <2>4. w2 \in WalState /\ w2.current \in w2.open
    <3>1. w2.files \in [0 .. MaxHeight + 2 -> Seq(LogCells(LogRecord))]
      BY <1>1, <2>1, <2>2 DEF WalState
    <3>2. w2 = [files |-> w2.files, open |-> w2.open, current |-> w2.current]
      BY <1>1, <1>3 DEF WalState
    <3> QED
      BY <1>1, <2>2, <3>1, <3>2 DEF WalState
  <2>5. w2.files[h] = file /\ \A x \in 0 .. MaxHeight + 2 : x # h => w2.files[x] = w.files[x]
    BY <1>1, <2>2 DEF WalState
  <2>6. \A x \in 0 .. MaxHeight + 2 : \A i \in DOMAIN w2.files[x] : Logged(w2.files[x][i].of, x)
    <3>1. \A i \in DOMAIN file : Logged(file[i].of, h)
      BY <1>1, <2>3 DEF SoundLog, CellsOf
    <3> QED
      BY <2>5, <3>1 DEF SoundLog
  <2>7. Complete(w.files[h]) \subseteq Complete(file)
    BY <2>3 DEF Complete
  <2>8. \A x \in 0 .. MaxHeight + 2 : Complete(w.files[x]) \subseteq Complete(w2.files[x])
    BY <2>5, <2>7
  <2>9. SoundLog(w2)
    BY <2>4, <2>6 DEF SoundLog
  <2>10. w.current <= w2.current
    BY <1>1, <2>2
  <2>11. Extends(w, w2)
    BY <2>8, <2>10 DEF Extends
  <2> QED
    BY <2>2, <2>8, <2>9, <2>11 DEF w2
<1> QED
  BY <1>2, <1>3 DEF Put

LEMMA ConcatReads ==
  ASSUME NEW S, NEW f, NEW s, f \in Seq(S), s \in Seq(S)
  PROVE  /\ Len(f) \in Nat /\ Len(s) \in Nat /\ Len(f \o s) = Len(f) + Len(s)
         /\ \A i \in 1 .. Len(f) + Len(s) :
              (f \o s)[i] = IF i <= Len(f) THEN f[i] ELSE s[i - Len(f)]
OBVIOUS

LEMMA LastRead ==
  ASSUME NEW S, NEW f, NEW s, f \in Seq(S), s \in Seq(S), Len(s) # 0
  PROVE  Len(f \o s) = Len(f) + Len(s) /\ (f \o s)[Len(f) + Len(s)] = s[Len(s)]
<1>1. Len(f) \in Nat /\ Len(s) \in Nat
  OBVIOUS
<1>2. Len(f) + Len(s) \in 1 .. Len(f) + Len(s) /\ ~(Len(f) + Len(s) <= Len(f))
      /\ Len(f) + Len(s) - Len(f) = Len(s)
  BY <1>1
<1> QED
  BY <1>2, ConcatReads

LEMMA SaveKeeps ==
  ASSUME NEW w, SoundLog(w), NEW h \in Heights, h \in w.open, NEW r \in LogRecord
  PROVE  r \in Complete(Put(w, h, Written(r)).files[h])
<1> DEFINE file == w.files[h] \o Written(r)
           j == Len(w.files[h]) + Len(Written(r))
<1>1. w \in WalState /\ h \in 0 .. MaxHeight + 2 /\ w.files[h] \in Seq(LogCells(LogRecord))
  BY WalHeights DEF SoundLog, WalState
<1>2. Put(w, h, Written(r)).files[h] = file
  BY <1>1 DEF Put, WalState
<1>3. j \in DOMAIN file /\ file[j] = [kind |-> "body", of |-> r, at |-> 1] /\ r.len = 1
  <2> DEFINE s == Written(r)
  <2>1. s \in Seq(LogCells(LogRecord)) /\ Len(s) # 0 /\ r.len = 1
        /\ s[Len(s)] = [kind |-> "body", of |-> r, at |-> 1]
    BY WrittenCells
  <2> HIDE DEF s
  <2>2. Len(w.files[h] \o s) = j /\ (w.files[h] \o s)[j] = s[Len(s)]
    BY <1>1, <2>1, LastRead DEF s
  <2>3. j \in DOMAIN (w.files[h] \o s)
    BY <1>1, <2>1, <2>2, ConcatReads DEF s
  <2> QED
    BY <2>1, <2>2, <2>3 DEF s
<1> HIDE DEF j, file
<1>4. file[j].kind = "body" /\ file[j].of = r /\ file[j].at = 1
  BY <1>3
<1> QED
  BY <1>2, <1>3, <1>4 DEF Complete

\* Wal::set_height keeps the files it should.
LEMMA SetHeightSound ==
  ASSUME NEW w, SoundLog(w), NEW h \in Heights, w.current <= h
  PROVE  /\ SoundLog(SetHeight(w, h)) /\ Extends(w, SetHeight(w, h))
         /\ SetHeight(w, h).current = h
<1> DEFINE w2 == SetHeight(w, h)
<1>1. w \in WalState /\ h \in Nat /\ h \in 0 .. MaxHeight + 2
      /\ DOMAIN w.files = 0 .. MaxHeight + 2
      /\ \A x \in 0 .. MaxHeight + 2 : x \in Nat /\ w.files[x] \in Seq(LogCells(LogRecord))
  BY WalHeights DEF SoundLog, WalState
<1>2. /\ w2.current = h /\ w2.open = {x \in w.open \cup {h} : x + DELETE_FILE_INTERVAL >= h}
      /\ w2.files = [x \in 0 .. MaxHeight + 2 |->
                       IF x \in w.open /\ x + DELETE_FILE_INTERVAL < h THEN <<>> ELSE w.files[x]]
      /\ w2 = [files |-> w2.files, open |-> w2.open, current |-> w2.current]
  BY <1>1 DEF SetHeight
<1> HIDE DEF w2
<1>3. \A x \in 0 .. MaxHeight + 2 : w2.files[x] = w.files[x] \/ w2.files[x] = <<>>
  BY <1>2
<1>4. w2.files \in [0 .. MaxHeight + 2 -> Seq(LogCells(LogRecord))]
  <2>1. <<>> \in Seq(LogCells(LogRecord))
    OBVIOUS
  <2> QED
    BY <1>1, <1>2, <2>1
<1>5. w2.open \in SUBSET (0 .. MaxHeight + 2) /\ h \in w2.open
  BY <1>1, <1>2 DEF WalState, DELETE_FILE_INTERVAL
<1>6. w2 \in WalState
  BY <1>2, <1>4, <1>5 DEF WalState
<1>7. \A x \in 0 .. MaxHeight + 2 : \A i \in DOMAIN w2.files[x] : Logged(w2.files[x][i].of, x)
  BY <1>3 DEF SoundLog
<1>8. \A x \in 0 .. MaxHeight + 2 : x + DELETE_FILE_INTERVAL >= h => w2.files[x] = w.files[x]
  BY <1>1, <1>2 DEF DELETE_FILE_INTERVAL
<1> QED
  BY <1>2, <1>5, <1>6, <1>7, <1>8 DEF SoundLog, Extends, w2

\* What Wal::load reads was written to its end, or is junk.
LEMMA LoadSound ==
  ASSUME NEW w, SoundLog(w)
  PROVE  Load(w.files, w.current) \in Seq({Junk} \cup Complete(w.files[w.current]))
<1> DEFINE file == w.files[w.current]
<1>1. w \in WalState /\ w.current \in 0 .. MaxHeight + 2
  BY WalHeights DEF SoundLog, WalState
<1>2. file \in Seq(LogCells(LogRecord))
  BY <1>1 DEF WalState
<1> HIDE DEF file
<1>3. \A r \in LogRecord : r.len \in Nat \ {0}
  <2> SUFFICES ASSUME NEW r \in LogRecord PROVE r.len \in Nat \ {0}
    OBVIOUS
  <2>1. r.len = 1
    BY WrittenCells
  <2> QED
    BY <2>1
<1>4. Parsed(file) \in Seq({Junk} \cup Complete(file))
  BY <1>2, <1>3, ParsedFinds DEF Complete
<1>5. CASE Load(w.files, w.current) = Parsed(file)
  BY <1>4, <1>5 DEF file
<1>6. CASE Load(w.files, w.current) = <<>>
  BY <1>6
<1> QED
  BY <1>5, <1>6 DEF Load, file

\* A complete record is one of the log.
LEMMA CompleteLogged ==
  ASSUME NEW w, SoundLog(w), NEW x \in 0 .. MaxHeight + 2, NEW r \in Complete(w.files[x])
  PROVE  r \in LogRecord /\ Logged(r, x)
<1>1. w.files[x] \in Seq(LogCells(LogRecord))
  BY DEF SoundLog, WalState
<1>2. PICK i \in DOMAIN w.files[x] : r = w.files[x][i].of
  BY DEF Complete
<1>3. w.files[x][i] \in LogCells(LogRecord)
  BY <1>1, <1>2
<1> QED
  BY <1>2, <1>3 DEF LogCells, SoundLog

-----------------------------------------------------------------------------
(* What a handler saves *)

\* w2 is w after a save, a failed save or the beginning of one.
Saved(w, w2) ==
  /\ SoundLog(w2) /\ w2.current = w.current /\ w.open \subseteq w2.open
  /\ \A x \in 0 .. MaxHeight + 2 : Complete(w.files[x]) \subseteq Complete(w2.files[x])

LEMMA SavedExtends ==
  ASSUME NEW w, NEW w2, SoundLog(w), Saved(w, w2)
  PROVE  Extends(w, w2)
<1>1. w.current \in Nat /\ w2.current = w.current
  BY WalHeights DEF SoundLog, WalState, Saved
<1> QED
  BY <1>1 DEF Saved, Extends

LEMMA SavedTransitive ==
  ASSUME NEW u, NEW v, NEW w, Saved(u, v), Saved(v, w)
  PROVE  Saved(u, w)
<1>1. ASSUME NEW x \in 0 .. MaxHeight + 2
      PROVE  Complete(u.files[x]) \subseteq Complete(w.files[x])
  BY DEF Saved
<1> QED
  BY <1>1 DEF Saved

LEMMA NothingSaved ==
  ASSUME NEW w, SoundLog(w)
  PROVE  Saved(w, w)
BY DEF Saved

\* Each message is saved as a record of its type.
LEMMA RecordTypes ==
  /\ \A m \in SignedVote : Record("raw_bytes", m) \in LogRecord
  /\ \A m \in Status : Record("rich_status", m) \in LogRecord
  /\ \A m \in SignedProposal : Record("signed_proposal", m) \in LogRecord
  /\ \A m \in AsyncMsg : m.type = "VerifyResp" => Record("verify_resp", m) \in LogRecord
  /\ \A m \in AsyncMsg : m.type = "Feed" => Record("feed", m) \in LogRecord
  /\ \A m \in BftProposal : Record("proposal", m) \in LogRecord
  /\ \A m \in Vote : Record("vote", m) \in LogRecord
  /\ \A m \in BftCommit : Record("commit", m) \in LogRecord
BY DEF Record, LogRecord

LEMMA SaveSound ==
  ASSUME NEW w, SoundLog(w), NEW h \in Heights, NEW type, NEW msg,
         Record(type, msg) \in LogRecord, Logged(Record(type, msg), h)
  PROVE  /\ Saved(w, Save(w, h, type, msg))
         /\ \A n \in 2 .. 3 : Saved(w, Put(w, h, SubSeq(Written(Record(type, msg)), 1, n)))
         /\ Saved(w, Torn(w, h, type, msg))
         /\ h \in w.open => Record(type, msg) \in Complete(Save(w, h, type, msg).files[h])
<1> DEFINE r == Record(type, msg)
<1> HIDE DEF r
<1>1. r \in LogRecord /\ Logged(r, h)
  BY DEF r
<1>2. ASSUME NEW cells, CellsOf(cells, r) PROVE Saved(w, Put(w, h, cells))
  BY <1>1, <1>2, PutSound DEF Saved
<1>3. \A n \in 2 .. 3 : CellsOf(Written(r), r) /\ CellsOf(SubSeq(Written(r), 1, n), r)
  BY <1>1, PartlyWritten
<1>4. 2 \in 2 .. 3
  OBVIOUS
<1>5. h \in w.open => r \in Complete(Put(w, h, Written(r)).files[h])
  BY <1>1, SaveKeeps
<1>6. Saved(w, Put(w, h, Written(r)))
      /\ \A n \in 2 .. 3 : Saved(w, Put(w, h, SubSeq(Written(r), 1, n)))
  BY <1>2, <1>3, <1>4
<1> QED
  BY <1>4, <1>5, <1>6 DEF Save, Torn, r

-----------------------------------------------------------------------------
(* The invariant *)

\* The file that load_wal_log reads.
Base == IF height = 0 THEN wal.current ELSE height - 1

EngineInv ==
  /\ AuthorityTracksChain /\ CoreBehind /\ CountedVotersAuthorised /\ core.height = height
  /\ SoundOutputs /\ OutputsReached /\ HonestCollector /\ CommitsVerify

\* The log is the one of the height the engine is at, or of the height it was
\* at when the process ended; what is replayed was written to its end.
LogInv ==
  /\ SoundLog(wal)
  /\ height = 0 \/ wal.current = height
  /\ height = 0 => wal.current <= chain_height + 1
  /\ \A k \in DOMAIN commits : commits[k].height <= wal.current
  /\ pc = "replay" => ~consensus_power /\ iter \in Seq({Junk} \cup Complete(wal.files[Base]))

RecInv == RecTypeOK /\ EngineInv /\ LogInv /\ WriteAhead

\* Without the log the engine is typed as before.
LEMMA PlainType ==
  ASSUME RecTypeOK, pc # "replay"
  PROVE  TypeOK
BY DEF RecTypeOK, TypeOK

LEMMA LoggedType ==
  ASSUME TypeOK', SoundLog(wal'), chain_height' \in Heights
  PROVE  RecTypeOK' /\ pc' # "replay"
<1>1. pc' # "replay"
  BY DEF TypeOK
<1>2. wal' \in WalState /\ wal'.current \in wal'.open
  BY DEF SoundLog
<1> QED
  BY <1>1, <1>2 DEF RecTypeOK, TypeOK

LEMMA NextEngine ==
  ASSUME TypeOK, EngineInv, [Next]_vars
  PROVE  TypeOK' /\ EngineInv'
<1>1. DrivenInv
  BY DEF EngineInv, DrivenInv
<1>2. ProofInv
  BY <1>1 DEF EngineInv, ProofInv
<1>3. DrivenInv' /\ core'.height = height'
  BY <1>1, NextDriven, NextCoreHeight, RecoveryAssumption DEF EngineInv
<1>4. SoundOutputs' /\ OutputsReached' /\ HonestCollector' /\ CommitsVerify'
  BY <1>1, <1>2, NextSoundOutputs, NextOutputsReached, NextHonestCollector, NextCommitsVerify
     DEF EngineInv
<1> QED
  BY <1>3, <1>4 DEF DrivenInv, EngineInv

\* What is written ahead stays, and what is added was.
LEMMA WrittenStays ==
  ASSUME RecTypeOK, WriteAhead, wal' \in WalState, Extends(wal, wal'),
         \A t \in transmitted' : t.type = "SignedVote" =>
           t \in transmitted
             \/ Record("vote", t.signed.vote) \in Complete(wal'.files[t.signed.vote.height]),
         \A k \in DOMAIN commits' :
           (k \in DOMAIN commits /\ commits'[k] = commits[k])
             \/ \E e \in Complete(wal'.files[commits'[k].height]) :
                  e.type = "commit" /\ e.msg.proposal = commits'[k].result
  PROVE  WriteAhead'
<1>1. /\ wal.current \in Nat /\ wal'.current \in Nat /\ wal.current <= wal'.current
      /\ transmitted \subseteq Transmission /\ commits \in Seq(Commit)
  BY WalHeights DEF RecTypeOK, WalState, Extends
<1>2. ASSUME NEW x \in Heights, x + DELETE_FILE_INTERVAL >= wal'.current
      PROVE  /\ x + DELETE_FILE_INTERVAL >= wal.current
             /\ Complete(wal.files[x]) \subseteq Complete(wal'.files[x])
  BY <1>1, <1>2, WalHeights DEF Extends, DELETE_FILE_INTERVAL
<1>3. ASSUME NEW t \in transmitted', t.type = "SignedVote",
             t.signed.vote.height + DELETE_FILE_INTERVAL >= wal'.current
      PROVE  Record("vote", t.signed.vote) \in Complete(wal'.files[t.signed.vote.height])
  <2>1. CASE t \in transmitted
    <3>1. t.signed \in SignedVote
      BY <1>1, <1>3, <2>1 DEF Transmission
    <3>2. t.signed.vote.height \in Heights
      BY <3>1 DEF SignedVote, Vote
    <3> QED
      BY <1>2, <1>3, <2>1, <3>2 DEF WriteAhead
  <2> QED
    BY <1>3, <2>1
<1>4. ASSUME NEW k \in DOMAIN commits', commits'[k].height + DELETE_FILE_INTERVAL >= wal'.current
      PROVE  \E e \in Complete(wal'.files[commits'[k].height]) :
               e.type = "commit" /\ e.msg.proposal = commits'[k].result
  <2>1. CASE k \in DOMAIN commits /\ commits'[k] = commits[k]
    <3>1. commits[k] \in Commit
      BY <1>1, <2>1
    <3>2. commits[k].height \in Heights
      BY <3>1 DEF Commit
    <3> QED
      BY <1>2, <1>4, <2>1, <3>2 DEF WriteAhead
  <2> QED
    BY <2>1
<1> QED
  BY <1>3, <1>4 DEF WriteAhead

\* A save leaves the log where it is.
LEMMA SavedKeeps ==
  ASSUME RecTypeOK, LogInv, Saved(wal, wal'), height' = height, chain_height' = chain_height,
         \A k \in DOMAIN commits' :
           (k \in DOMAIN commits /\ commits'[k] = commits[k]) \/ commits'[k].height <= wal.current,
         pc' = "replay" => /\ pc = "replay" /\ consensus_power' = consensus_power
                           /\ iter' = iter \/ (iter # <<>> /\ iter' = Tail(iter))
  PROVE  LogInv'
<1>1. SoundLog(wal') /\ wal'.current = wal.current
  BY DEF Saved
<1>2. height' = 0 \/ wal'.current = height'
  BY <1>1 DEF LogInv
<1>3. height' = 0 => wal'.current <= chain_height' + 1
  BY <1>1 DEF LogInv
<1>4. \A k \in DOMAIN commits' : commits'[k].height <= wal'.current
  BY <1>1 DEF LogInv
<1>5. ASSUME pc' = "replay"
      PROVE  ~consensus_power' /\ iter' \in Seq({Junk} \cup Complete(wal'.files[Base']))
  <2>1. Base' = Base /\ ~consensus_power'
    BY <1>1, <1>5 DEF Base, LogInv
  <2>2. Base \in 0 .. MaxHeight + 2
    <3>1. wal.current \in 0 .. MaxHeight + 2
      BY WalHeights DEF LogInv, SoundLog, WalState
    <3>2. height \in Nat /\ height <= MaxHeight + 1
      BY BoundsAssumption DEF RecTypeOK, Heights
    <3> QED
      BY <3>1, <3>2, BoundsAssumption DEF Base
  <2>3. Complete(wal.files[Base]) \subseteq Complete(wal'.files[Base])
    BY <2>2 DEF Saved
  <2> DEFINE P == {Junk} \cup Complete(wal.files[Base])
             Q == {Junk} \cup Complete(wal'.files[Base])
  <2>4. P \subseteq Q /\ iter \in Seq(P)
    BY <1>5, <2>3 DEF LogInv
  <2> HIDE DEF P, Q
  <2>5. iter' \in Seq(Q)
    <3>1. iter \in Seq(Q)
      BY <2>4
    <3>2. CASE iter' = iter
      BY <3>1, <3>2
    <3>3. CASE iter # <<>> /\ iter' = Tail(iter)
      BY <3>1, <3>3
    <3> QED
      BY <1>5, <3>2, <3>3
  <2> QED
    BY <2>1, <2>5 DEF Q
<1> QED
  BY <1>1, <1>2, <1>3, <1>4, <1>5 DEF LogInv

\* A save of a handler that neither commits nor sends a vote.
LEMMA SilentSave ==
  ASSUME RecInv, Saved(wal, wal'), height' = height, chain_height' = chain_height,
         commits' = commits,
         \A t \in transmitted' : t \in transmitted \/ t.type # "SignedVote",
         pc' = "replay" => /\ pc = "replay" /\ consensus_power' = consensus_power
                           /\ iter' = iter \/ (iter # <<>> /\ iter' = Tail(iter))
  PROVE  LogInv' /\ WriteAhead'
<1>1. RecTypeOK /\ LogInv /\ WriteAhead /\ SoundLog(wal)
  BY DEF RecInv, LogInv
<1>2. \A k \in DOMAIN commits' : k \in DOMAIN commits /\ commits'[k] = commits[k]
  OBVIOUS
<1>3. LogInv'
  BY <1>1, <1>2, SavedKeeps
<1>4. Extends(wal, wal') /\ wal' \in WalState
  BY <1>1, SavedExtends DEF Saved, SoundLog
<1>5. WriteAhead'
  BY <1>1, <1>2, <1>4, WrittenStays
<1> QED
  BY <1>3, <1>5

\* The core is silent while the log is replayed, so that the steps of the shell
\* are those of Consensus, except that a block may be all that is kept.
LEMMA RunSteps ==
  ASSUME RecInv, Runs
  PROVE  /\ pc # "replay"
         /\ \/ Next
            \/ /\ \E m \in PeerProposals : block_origin_cache' = block_origin_cache \cup {m.block}
               /\ UNCHANGED <<loop, chain, votes, proof, verified_block, caches, bft_recv, async_recv,
                              core, history>>
<1>1. ASSUME CoreEmit PROVE pc # "replay"
  <2>1. CoreOutputs(core) # {}
    BY <1>1 DEF CoreEmit
  <2>2. core.running
    BY <2>1 DEF CoreOutputs, Deciding
  <2>3. core.running = consensus_power
    BY DEF RecInv, EngineInv, CoreBehind
  <2> QED
    BY <2>2, <2>3 DEF RecInv, LogInv
<1>2. CASE StartVotes \/ StatusDone \/ ProcessGetProposalRequest \/ CoreEmit
  BY <1>1, <1>2 DEF StartVotes, StatusDone, ProcessGetProposalRequest, Takes, Idle,
                    Next, EngineStep, LoopStep, CoreStep, Environment
<1>3. CASE SavedReplayVote
  BY <1>3 DEF SavedReplayVote, ReplayVote, Next, EngineStep, LoopStep
<1>4. CASE SavedVerifyResp \/ SavedFeed
  BY <1>4 DEF SavedVerifyResp, SavedFeed, ProcessVerifyResp, ProcessFeed, Idle,
              Next, EngineStep, AsyncStep
<1>5. CASE SavedProcessProposal \/ SavedProcessVote \/ SavedProcessCommit
  BY <1>5 DEF SavedProcessProposal, SavedProcessVote, SavedProcessCommit, ProcessProposal,
              ProcessVote, ProcessCommit, Takes, Idle, Next, EngineStep, CoreStep
<1>6. ASSUME NEW m \in PeerVotes, SavedReceiveSignedVote(m)
      PROVE  pc # "replay" /\ Next
  BY <1>6 DEF SavedReceiveSignedVote, ReceiveSignedVote, Idle, Next, Environment
<1>7. ASSUME NEW m \in PeerProposals, SavedReceiveSignedProposal(m)
      PROVE  /\ pc # "replay"
             /\ \/ Next
                \/ /\ block_origin_cache' = block_origin_cache \cup {m.block}
                   /\ UNCHANGED <<loop, chain, votes, proof, verified_block, caches, bft_recv,
                                  async_recv, core, history>>
  BY <1>7 DEF SavedReceiveSignedProposal, ReceiveSignedProposal, Idle, Next, Environment
<1>8. ASSUME NEW h \in 0 .. MaxHeight, SavedReceiveStatus(h)
      PROVE  pc # "replay" /\ Next
  BY <1>8 DEF SavedReceiveStatus, ReceiveStatus, Idle, Next, Environment
<1> QED
  BY <1>2, <1>3, <1>4, <1>5, <1>6, <1>7, <1>8 DEF Runs

\* Nothing that the core, its votes or the commits depend on changes, but an
\* output may be dropped.
LEMMA QuietStep ==
  ASSUME RecTypeOK, EngineInv, UNCHANGED <<chain, commits>>, SameCore,
         votes'.pairs = votes.pairs,
         bft_recv' = bft_recv \/ (bft_recv # <<>> /\ bft_recv' = Tail(bft_recv))
  PROVE  EngineInv'
<1>1. AuthorityTracksChain' /\ core'.height = height'
  BY DEF EngineInv, AuthorityTracksChain, SameCore, chain
<1>2. CoreBehind' /\ CountedVotersAuthorised'
  BY DEF EngineInv, CoreBehind, CountedVotersAuthorised, SameCore, chain
<1>3. HonestCollector' /\ CommitsVerify'
  BY DEF EngineInv, HonestCollector, CommitsVerify
<1>4. CASE bft_recv' = bft_recv
  BY <1>1, <1>2, <1>3, <1>4 DEF EngineInv, SoundOutputs, OutputsReached, Supported, chain
<1>5. CASE bft_recv # <<>> /\ bft_recv' = Tail(bft_recv)
  <2>1. \A i \in DOMAIN bft_recv' : i + 1 \in DOMAIN bft_recv /\ bft_recv'[i] = bft_recv[i + 1]
    <3>1. bft_recv \in Seq(CoreOutput)
      BY DEF RecTypeOK
    <3> QED
      BY <1>5, <3>1
  <2>2. SoundOutputs' /\ OutputsReached'
    BY <2>1 DEF EngineInv, SoundOutputs, OutputsReached, Supported, chain
  <2> QED
    BY <1>1, <1>2, <1>3, <2>2 DEF EngineInv
<1> QED
  BY <1>4, <1>5

LEMMA RunEngine ==
  ASSUME RecInv, Runs
  PROVE  TypeOK' /\ EngineInv'
<1>1. TypeOK /\ EngineInv /\ RecTypeOK
  BY RunSteps, PlainType DEF RecInv
<1>2. CASE Next
  BY <1>1, <1>2, NextEngine
<1>3. ASSUME NEW m \in PeerProposals, block_origin_cache' = block_origin_cache \cup {m.block},
             UNCHANGED <<loop, chain, votes, proof, verified_block, caches, bft_recv, async_recv,
                         core, history>>
      PROVE  TypeOK' /\ EngineInv'
  <2>1. m.block \in Hashes
    BY PeersAssumption DEF ProposalMsg
  <2>2. TypeOK'
    BY <1>1, <1>3, <2>1 DEF TypeOK, loop, chain, caches, history
  <2>3. EngineInv'
    BY <1>1, <1>3, QuietStep DEF SameCore, history
  <2> QED
    BY <2>2, <2>3
<1> QED
  BY <1>2, <1>3, RunSteps

\* The messages that a handler is about to save.
LEMMA HeadTypes ==
  ASSUME RecTypeOK
  PROVE  /\ pc = "votes" /\ iter # <<>> => Head(iter) \in SignedVote
         /\ async_recv # <<>> => Head(async_recv) \in AsyncMsg
         /\ bft_recv # <<>> => Head(bft_recv) \in CoreOutput /\ Head(bft_recv) = bft_recv[1]
                               /\ 1 \in DOMAIN bft_recv
<1>1. pc = "votes" => iter \in Seq(SignedVote)
  BY DEF RecTypeOK
<1>2. async_recv \in Seq(AsyncMsg) /\ bft_recv \in Seq(CoreOutput)
  BY DEF RecTypeOK
<1> QED
  BY <1>1, <1>2

\* An output of the core that is not outdated is of the height of the log.
LEMMA OutputNow ==
  ASSUME RecInv, bft_recv # <<>>
  PROVE  LET o == Head(bft_recv)
         IN  /\ o.type = "Proposal" => o.proposal \in BftProposal
             /\ o.type = "Vote" => o.vote \in Vote /\ o.vote.voter = Self
             /\ o.type = "Vote" /\ ~Outdated(o.vote.height) =>
                  o.vote.height = height /\ wal.current = height
             /\ o.type = "Commit" => o.commit \in BftCommit /\ Supported(o.commit)
             /\ o.type = "Commit" /\ ~Outdated(o.commit.height) =>
                  o.commit.height = height /\ wal.current = height
<1> DEFINE o == Head(bft_recv)
<1>1. o \in CoreOutput /\ o = bft_recv[1] /\ 1 \in DOMAIN bft_recv /\ height \in Nat
  <2>1. height \in Nat
    BY BoundsAssumption DEF RecInv, RecTypeOK, Heights
  <2> QED
    BY <2>1, HeadTypes DEF RecInv
<1>2. /\ o.type = "Vote" => o.vote.voter = Self /\ 0 < o.vote.height /\ o.vote.height <= height
      /\ o.type = "Commit" => Supported(o.commit) /\ o.commit.height <= height
  BY <1>1 DEF RecInv, EngineInv, SoundOutputs, OutputsReached
<1> HIDE DEF o
<1>3. /\ o.type = "Proposal" => o.proposal \in BftProposal
      /\ o.type = "Vote" => o.vote \in Vote
      /\ o.type = "Commit" => o.commit \in BftCommit
  BY <1>1 DEF CoreOutput
<1>4. height > 0 => wal.current = height
  BY <1>1 DEF RecInv, LogInv
<1>5. o.type = "Vote" => o.vote.height \in Nat
  BY <1>3, BoundsAssumption DEF Vote, Heights
<1>6. o.type = "Commit" => o.commit.height \in Nat /\ o.commit.height > 0
  BY <1>3, BoundsAssumption DEF BftCommit
<1>7. ASSUME o.type = "Vote", ~Outdated(o.vote.height)
      PROVE  o.vote.height = height /\ wal.current = height
  BY <1>1, <1>2, <1>4, <1>5, <1>7 DEF Outdated
<1>8. ASSUME o.type = "Commit", ~Outdated(o.commit.height)
      PROVE  o.commit.height = height /\ wal.current = height
  BY <1>1, <1>2, <1>4, <1>6, <1>8 DEF Outdated
<1> QED
  BY <1>2, <1>3, <1>7, <1>8 DEF o

\* handle_rich_status: the status is saved, and the log of the next height opened.
LEMMA StatusSaved ==
  ASSUME NEW w, SoundLog(w), NEW h \in 0 .. MaxHeight, w.current <= h + 1
  PROVE  LET w2 == AfterStatus(w, StatusOf(h))
         IN  SoundLog(w2) /\ Extends(w, w2) /\ w2.current = h + 1
<1> DEFINE w1 == SaveStatus(w, StatusOf(h))
           w2 == SetHeight(w1, h + 1)
<1>1. StatusOf(h) \in Status /\ StatusOf(h).height = h /\ h + 1 \in Heights /\ h \in Heights
      /\ h <= MaxHeight
  BY StatusOfType, WalHeights
<1>2. Record("rich_status", StatusOf(h)) \in LogRecord
  BY <1>1, RecordTypes
<1>3. Logged(Record("rich_status", StatusOf(h)), h)
  BY <1>1 DEF Logged, Record
<1>4. Saved(w, w1)
  BY <1>1, <1>2, <1>3, SaveSound DEF SaveStatus
<1>5. SoundLog(w1) /\ w1.current <= h + 1 /\ Extends(w, w1)
  BY <1>4, SavedExtends DEF Saved
<1> HIDE DEF w1
<1>6. SoundLog(w2) /\ Extends(w1, w2) /\ w2.current = h + 1
  BY <1>1, <1>5, SetHeightSound
<1>7. Extends(w, w2)
  BY <1>5, <1>6, ExtendsTransitive DEF SoundLog
<1> QED
  BY <1>1, <1>6, <1>7 DEF AfterStatus, w1

LEMMA CommitRecorded ==
  ASSUME SoundLog(wal), NEW c \in BftCommit, Supported(c)
  PROVE  /\ Saved(wal, SaveCommit(c))
         /\ ~Outdated(c.height) => \A k \in 2 .. 3 :
              Saved(wal, Put(wal, c.height, SubSeq(Written(Record("commit", c)), 1, k)))
         /\ Saved(wal, Torn(wal, c.height, "commit", c))
         /\ c.height \in Heights /\ c.height \in 0 .. MaxHeight /\ c.height \in Nat
         /\ (~Outdated(c.height) /\ c.height \in wal.open) =>
              Record("commit", c) \in Complete(SaveCommit(c).files[c.height])
<1>1. c.height \in Heights /\ c.height \in 0 .. MaxHeight /\ c.height \in Nat
  BY BoundsAssumption DEF BftCommit, Heights
<1>2. Record("commit", c) \in LogRecord
  BY RecordTypes
<1>3. Logged(Record("commit", c), c.height)
  BY DEF Logged, Record
<1>4. /\ Saved(wal, Save(wal, c.height, "commit", c))
      /\ \A k \in 2 .. 3 :
           Saved(wal, Put(wal, c.height, SubSeq(Written(Record("commit", c)), 1, k)))
      /\ Saved(wal, Torn(wal, c.height, "commit", c))
      /\ c.height \in wal.open =>
           Record("commit", c) \in Complete(Save(wal, c.height, "commit", c).files[c.height])
  BY <1>1, <1>2, <1>3, SaveSound
<1> QED
  BY <1>1, <1>4, NothingSaved DEF SaveCommit

\* The entry that a commit is written ahead with.
LEMMA CommitEntry ==
  ASSUME NEW c, commits \in Seq(Commit), commits' = Append(commits, Committed(c)), NEW files,
         Record("commit", c) \in Complete(files[c.height])
  PROVE  \A k \in DOMAIN commits' :
           \/ k \in DOMAIN commits /\ commits'[k] = commits[k]
           \/ /\ commits'[k].height = c.height
              /\ \E e \in Complete(files[commits'[k].height]) :
                   e.type = "commit" /\ e.msg.proposal = commits'[k].result
<1> DEFINE d == Committed(c)
           r == Record("commit", c)
<1>1. d.height = c.height /\ d.result = c.proposal /\ r.type = "commit" /\ r.msg = c
  BY DEF Committed, Record
<1>2. r \in Complete(files[c.height])
  OBVIOUS
<1> HIDE DEF d, r
<1>3. \A k \in DOMAIN commits' : (k \in DOMAIN commits /\ commits'[k] = commits[k])
                                  \/ commits'[k] = d
  BY DEF d
<1> QED
  BY <1>1, <1>2, <1>3

LEMMA SavedCommitKeeps ==
  ASSUME RecInv, SavedProcessCommit, TypeOK', chain_height' = chain_height
  PROVE  LogInv' /\ WriteAhead'
<1> DEFINE c == Head(bft_recv).commit
           w == SaveCommit(c)
<1>1. /\ bft_recv # <<>> /\ Head(bft_recv).type = "Commit" /\ ProcessCommit /\ TypeOK
      /\ transmitted' = transmitted /\ pc' # "replay"
  <2>1. ProcessCommit /\ pc' # "replay"
    BY DEF SavedProcessCommit, TypeOK
  <2>2. RecTypeOK
    BY DEF RecInv
  <2> QED
    BY <2>1, <2>2, PlainType DEF ProcessCommit, Takes, Idle
<1>2. c \in BftCommit /\ Supported(c)
      /\ (~Outdated(c.height) => c.height = height /\ wal.current = height)
  BY <1>1, OutputNow
<1>3. SoundLog(wal) /\ RecTypeOK /\ LogInv /\ WriteAhead
  BY DEF RecInv, LogInv
<1>4. Saved(wal, w) /\ c.height \in 0 .. MaxHeight /\ c.height \in Nat /\ c.height \in Heights
      /\ (~Outdated(c.height) /\ c.height \in wal.open =>
            Record("commit", c) \in Complete(w.files[c.height]))
  BY <1>2, <1>3, CommitRecorded
<1>5. \/ height' = height /\ commits' = commits
      \/ /\ ~Outdated(c.height) /\ height' = c.height + 1
         /\ commits' = Append(commits, Committed(c))
  <2> HIDE DEF c
  <2>1. RefuseCommit(c) \/ DoCommit(c)
    BY <1>1 DEF ProcessCommit, c
  <2>2. CASE UNCHANGED <<chain, commits>>
    BY <2>2 DEF chain
  <2>3. CASE ~Outdated(c.height) /\ commits' = Append(commits, Committed(c))
             /\ AcceptStatus(StatusOf(c.height))
    BY <1>1, <1>4, <2>3, AcceptStatusJumps DEF JumpsTo
  <2> QED
    BY <2>1, <2>2, <2>3 DEF RefuseCommit, DoCommit, Committed
<1>6. CASE height' = height /\ commits' = commits
  <2>1. wal' = w
    BY <1>6 DEF SavedProcessCommit
  <2> QED
    BY <1>1, <1>4, <1>6, <2>1, SilentSave
<1>7. CASE ~Outdated(c.height) /\ height' = c.height + 1
           /\ commits' = Append(commits, Committed(c))
  <2> HIDE DEF c
  <2>1. c.height = height /\ wal.current = height
    BY <1>2, <1>7
  <2>2. wal' = AfterStatus(w, StatusOf(c.height))
    BY <1>4, <1>7, <2>1 DEF SavedProcessCommit, c
  <2>3. Record("commit", c) \in Complete(w.files[c.height])
    BY <1>3, <1>4, <1>7, <2>1 DEF SoundLog
  <2> HIDE DEF w
  <2>4. SoundLog(w) /\ w.current = c.height /\ Extends(wal, w)
    BY <1>3, <1>4, <2>1, SavedExtends DEF Saved
  <2>5. SoundLog(wal') /\ Extends(w, wal') /\ wal'.current = c.height + 1
    BY <1>4, <2>2, <2>4, StatusSaved
  <2>6. Extends(wal, wal')
    BY <1>3, <2>4, <2>5, ExtendsTransitive DEF SoundLog
  <2>7. Record("commit", c) \in Complete(wal'.files[c.height])
    BY <1>4, <2>3, <2>5, WalHeights DEF Extends, DELETE_FILE_INTERVAL
  <2>8. \A k \in DOMAIN commits' :
          \/ k \in DOMAIN commits /\ commits'[k] = commits[k]
          \/ /\ commits'[k].height = c.height
             /\ \E e \in Complete(wal'.files[commits'[k].height]) :
                  e.type = "commit" /\ e.msg.proposal = commits'[k].result
    <3>1. commits \in Seq(Commit) /\ commits' = Append(commits, Committed(c))
      BY <1>3, <1>7 DEF RecTypeOK
    <3> QED
      BY <2>7, <3>1, CommitEntry
  <2>9. WriteAhead'
    BY <1>1, <1>3, <2>5, <2>6, <2>8, WrittenStays DEF SoundLog
  <2>10. \A k \in DOMAIN commits : commits[k].height \in Nat /\ commits[k].height <= wal.current
    <3> SUFFICES ASSUME NEW k \in DOMAIN commits
                 PROVE  commits[k].height \in Nat /\ commits[k].height <= wal.current
      OBVIOUS
    <3>1. commits[k] \in Commit
      BY <1>3 DEF RecTypeOK
    <3> QED
      BY <1>3, <3>1, WalHeights DEF Commit, LogInv
  <2>11. \A k \in DOMAIN commits' : commits'[k].height <= wal'.current
    BY <1>4, <2>1, <2>5, <2>8, <2>10
  <2>12. height' # 0 /\ wal'.current = height'
    BY <1>4, <1>7, <2>5
  <2> QED
    BY <1>1, <2>5, <2>9, <2>11, <2>12 DEF LogInv
<1> QED
  BY <1>5, <1>6, <1>7

LEMMA SavedVoteKeeps ==
  ASSUME RecInv, SavedProcessVote, TypeOK', chain_height' = chain_height
  PROVE  LogInv' /\ WriteAhead'
<1> DEFINE v == Head(bft_recv).vote
           t == [type |-> "SignedVote", signed |-> [vote |-> v, signature |-> Self]]
<1>1. /\ bft_recv # <<>> /\ Head(bft_recv).type = "Vote" /\ HandleVote(v)
      /\ height' = height /\ commits' = commits /\ pc' # "replay" /\ wal' = SaveOwnVote(v)
  BY DEF SavedProcessVote, ProcessVote, Takes, TypeOK, chain
<1>2. v \in Vote /\ v.voter = Self
      /\ (~Outdated(v.height) => v.height = height /\ wal.current = height)
  BY <1>1, OutputNow
<1>3. SoundLog(wal) /\ RecTypeOK /\ LogInv /\ WriteAhead
  BY DEF RecInv, LogInv
<1>4. t.type = "SignedVote" /\ t.signed.vote = v
  OBVIOUS
<1>5. transmitted' = transmitted \/ (transmitted' = transmitted \cup {t} /\ ~Outdated(v.height))
  BY <1>1 DEF HandleVote
<1> HIDE DEF v, t
<1>6. v.height \in Heights /\ Record("vote", v) \in LogRecord /\ Logged(Record("vote", v), v.height)
  BY <1>2, RecordTypes DEF Vote, Logged, Record
<1>7. Saved(wal, wal')
  <2>1. Saved(wal, Save(wal, v.height, "vote", v))
    BY <1>3, <1>6, SaveSound
  <2> QED
    BY <1>1, <1>3, <2>1, NothingSaved DEF SaveOwnVote
<1>8. ~Outdated(v.height) => Record("vote", v) \in Complete(wal'.files[v.height])
  <2> SUFFICES ASSUME ~Outdated(v.height)
               PROVE  Record("vote", v) \in Complete(wal'.files[v.height])
    OBVIOUS
  <2>1. v.height \in wal.open
    BY <1>2, <1>3 DEF SoundLog
  <2>2. wal' = Save(wal, v.height, "vote", v)
    BY <1>1 DEF SaveOwnVote
  <2> QED
    BY <1>3, <1>6, <2>1, <2>2, SaveSound
<1>9. \A x \in transmitted' : x.type = "SignedVote" =>
        x \in transmitted
          \/ Record("vote", x.signed.vote) \in Complete(wal'.files[x.signed.vote.height])
  <2> SUFFICES ASSUME NEW x \in transmitted', x \notin transmitted
               PROVE  Record("vote", x.signed.vote) \in Complete(wal'.files[x.signed.vote.height])
    OBVIOUS
  <2>1. x = t /\ ~Outdated(v.height)
    BY <1>5
  <2> QED
    BY <1>4, <1>8, <2>1
<1>10. \A k \in DOMAIN commits' : k \in DOMAIN commits /\ commits'[k] = commits[k]
  BY <1>1
<1>11. Extends(wal, wal') /\ wal' \in WalState
  BY <1>3, <1>7, SavedExtends DEF Saved, SoundLog
<1>12. WriteAhead'
  BY <1>3, <1>9, <1>10, <1>11, WrittenStays
<1>13. LogInv'
  BY <1>1, <1>3, <1>7, <1>10, SavedKeeps
<1> QED
  BY <1>12, <1>13

\* A status of the application moves the engine and its log.
LEMMA SavedStatusKeeps ==
  ASSUME RecInv, NEW h \in 0 .. MaxHeight, SavedReceiveStatus(h), TypeOK',
         chain_height' = chain_height
  PROVE  LogInv' /\ WriteAhead'
<1>1. SoundLog(wal) /\ RecTypeOK /\ LogInv /\ WriteAhead /\ TypeOK /\ h \in Nat
  <2>1. RecTypeOK /\ pc # "replay"
    BY DEF RecInv, SavedReceiveStatus, ReceiveStatus, Idle
  <2> QED
    BY <2>1, PlainType, BoundsAssumption DEF RecInv, LogInv
<1>2. h >= height /\ height' = h + 1 /\ h >= chain_height /\ wal' = AfterStatus(wal, StatusOf(h))
      /\ UNCHANGED <<commits, transmitted>> /\ pc' # "replay"
  BY <1>1, AcceptStatusJumps DEF SavedReceiveStatus, ReceiveStatus, JumpsTo, history, TypeOK
<1>3. wal.current \in Nat /\ height \in Nat /\ chain_height \in Nat
  BY <1>1, BoundsAssumption DEF RecTypeOK, WalState, Heights
<1>4. wal.current <= h + 1
  <2>1. CASE height = 0
    BY <1>1, <1>2, <1>3, <2>1 DEF LogInv
  <2>2. CASE height # 0
    BY <1>1, <1>2, <1>3, <2>2 DEF LogInv
  <2> QED
    BY <2>1, <2>2
<1>5. SoundLog(wal') /\ Extends(wal, wal') /\ wal'.current = h + 1
  BY <1>1, <1>2, <1>4, StatusSaved
<1>6. WriteAhead'
  BY <1>1, <1>2, <1>5, WrittenStays DEF SoundLog
<1>7. \A k \in DOMAIN commits : commits[k].height \in Nat /\ commits[k].height <= wal.current
  <2> SUFFICES ASSUME NEW k \in DOMAIN commits
               PROVE  commits[k].height \in Nat /\ commits[k].height <= wal.current
    OBVIOUS
  <2>1. commits[k] \in Commit
    BY <1>1 DEF RecTypeOK
  <2> QED
    BY <1>1, <2>1, WalHeights DEF Commit, LogInv
<1>8. \A k \in DOMAIN commits' : commits'[k].height <= wal'.current
  BY <1>2, <1>3, <1>4, <1>5, <1>7
<1> QED
  BY <1>1, <1>2, <1>5, <1>6, <1>8 DEF LogInv

\* The handlers that only save what they were given.
LEMMA OtherSaves ==
  ASSUME RecInv, TypeOK', chain_height' = chain_height,
         \/ (StartVotes \/ StatusDone \/ ProcessGetProposalRequest \/ CoreEmit) /\ UNCHANGED wal
         \/ SavedReplayVote \/ SavedVerifyResp \/ SavedFeed \/ SavedProcessProposal
         \/ \E m \in PeerVotes : SavedReceiveSignedVote(m)
         \/ \E m \in PeerProposals : SavedReceiveSignedProposal(m)
  PROVE  LogInv' /\ WriteAhead'
<1> DEFINE Silent == /\ height' = height /\ commits' = commits
                     /\ \A t \in transmitted' : t \in transmitted \/ t.type # "SignedVote"
<1>a. SoundLog(wal) /\ RecTypeOK /\ pc' # "replay" /\ height \in Heights
  BY DEF RecInv, LogInv, TypeOK, RecTypeOK
<1>b. ASSUME Silent, Saved(wal, wal') PROVE LogInv' /\ WriteAhead'
  BY <1>a, <1>b, SilentSave
<1>c. Saved(wal, wal)
  BY <1>a, NothingSaved
<1>d. ASSUME NEW m \in SignedVote PROVE Saved(wal, SaveVote(m))
  <2>1. Record("raw_bytes", m) \in LogRecord /\ m.vote.height \in Heights
    BY RecordTypes DEF SignedVote, Vote
  <2>2. Logged(Record("raw_bytes", m), m.vote.height)
    BY DEF Logged, Record
  <2> QED
    BY <1>a, <2>1, <2>2, SaveSound DEF SaveVote
<1>e. \A x : transmitted' = transmitted \cup {Built(x)} =>
        \A t \in transmitted' : t \in transmitted \/ t.type # "SignedVote"
  BY DEF Built
<1>1. CASE (StartVotes \/ StatusDone \/ ProcessGetProposalRequest \/ CoreEmit) /\ UNCHANGED wal
  <2>1. Silent
    BY <1>1 DEF StartVotes, StatusDone, ProcessGetProposalRequest, CoreEmit, chain, history
  <2> QED
    BY <1>1, <1>b, <1>c, <2>1
<1>2. CASE SavedReplayVote
  <2>1. Silent /\ Head(iter) \in SignedVote /\ wal' = SaveVote(Head(iter))
    BY <1>2, <1>a, HeadTypes DEF SavedReplayVote, ReplayVote, chain, history
  <2> QED
    BY <1>b, <1>d, <2>1
<1>3. CASE SavedVerifyResp
  <2> DEFINE x == Head(async_recv)
  <2>1. Silent /\ x \in AsyncMsg /\ x.type = "VerifyResp"
        /\ wal' = Save(wal, height, "verify_resp", x)
    BY <1>3, <1>a, HeadTypes DEF SavedVerifyResp, ProcessVerifyResp, chain, history
  <2> HIDE DEF x
  <2>2. Record("verify_resp", x) \in LogRecord
    BY <2>1, RecordTypes
  <2>3. Logged(Record("verify_resp", x), height)
    BY DEF Logged, Record
  <2> QED
    BY <1>a, <1>b, <2>1, <2>2, <2>3, SaveSound
<1>4. CASE SavedFeed
  <2> DEFINE x == Head(async_recv)
  <2>1. Silent /\ x \in AsyncMsg /\ x.type = "Feed" /\ wal' = Save(wal, height, "feed", x)
    BY <1>4, <1>a, HeadTypes DEF SavedFeed, ProcessFeed, chain, history
  <2> HIDE DEF x
  <2>2. Record("feed", x) \in LogRecord
    BY <2>1, RecordTypes
  <2>3. Logged(Record("feed", x), height)
    BY DEF Logged, Record
  <2> QED
    BY <1>a, <1>b, <2>1, <2>2, <2>3, SaveSound
<1>5. CASE SavedProcessProposal
  <2> DEFINE p == Head(bft_recv).proposal
  <2>1. bft_recv # <<>> /\ Head(bft_recv).type = "Proposal"
    BY <1>5 DEF SavedProcessProposal, ProcessProposal, Takes
  <2>2. Silent
    BY <1>5, <1>e DEF SavedProcessProposal, ProcessProposal, HandleProposal, chain, history
  <2>3. p \in BftProposal /\ wal' = SaveProposal(p)
    BY <1>5, <2>1, OutputNow DEF SavedProcessProposal
  <2> HIDE DEF p
  <2>4. Record("proposal", p) \in LogRecord
    BY <2>3, RecordTypes
  <2>5. Logged(Record("proposal", p), height)
    BY DEF Logged, Record
  <2>6. Saved(wal, Save(wal, height, "proposal", p))
    BY <1>a, <2>4, <2>5, SaveSound
  <2> QED
    BY <1>b, <1>c, <2>2, <2>3, <2>6 DEF SaveProposal
<1>6. ASSUME NEW m \in PeerVotes, SavedReceiveSignedVote(m)
      PROVE  LogInv' /\ WriteAhead'
  <2>1. Silent /\ m \in SignedVote /\ (wal' = wal \/ wal' = SaveVote(m))
    BY <1>6, PeersAssumption DEF SavedReceiveSignedVote, ReceiveSignedVote, Panic, chain, history
  <2> QED
    BY <1>b, <1>c, <1>d, <2>1
<1>7. ASSUME NEW m \in PeerProposals, SavedReceiveSignedProposal(m)
      PROVE  LogInv' /\ WriteAhead'
  <2> DEFINE p == m.signed.proposal
  <2>1. m.signed \in SignedProposal /\ p \in Proposal /\ p.height \in Heights
    BY PeersAssumption DEF ProposalMsg, SignedProposal, Proposal
  <2>2. Silent /\ (wal' = wal \/ wal' = Save(wal, p.height, "signed_proposal", m.signed))
    BY <1>7 DEF SavedReceiveSignedProposal, ReceiveSignedProposal, Panic, chain, history
  <2>3. Record("signed_proposal", m.signed) \in LogRecord
    BY <2>1, RecordTypes
  <2>4. Logged(Record("signed_proposal", m.signed), p.height)
    BY DEF Logged, Record
  <2>5. Saved(wal, Save(wal, p.height, "signed_proposal", m.signed))
    BY <1>a, <2>1, <2>3, <2>4, SaveSound
  <2> QED
    BY <1>b, <1>c, <2>2, <2>5
<1> QED
  BY <1>1, <1>2, <1>3, <1>4, <1>5, <1>6, <1>7

LEMMA RunKeeps ==
  ASSUME RecInv, Runs, UNCHANGED recovery
  PROVE  RecInv'
<1>1. TypeOK' /\ EngineInv' /\ chain_height' = chain_height /\ chain_height \in Heights
  BY RunEngine DEF recovery, RecInv, RecTypeOK
<1>2. LogInv' /\ WriteAhead'
  BY <1>1, OtherSaves, SavedVoteKeeps, SavedCommitKeeps, SavedStatusKeeps DEF Runs
<1>3. RecTypeOK'
  BY <1>1, <1>2, LoggedType DEF LogInv
<1> QED
  BY <1>1, <1>2, <1>3 DEF RecInv

-----------------------------------------------------------------------------
(* A save that fails *)

\* How a step of the engine that is not one of Consensus leaves its loop.
LoopOn ==
  \/ pc' = pc /\ iter' = iter
  \/ pc' = pc /\ iter # <<>> /\ iter' = Tail(iter)
  \/ pc' = "select" /\ iter' = <<>>

LEMMA LoopType ==
  ASSUME RecTypeOK, SoundLog(wal'), chain_height' = chain_height, alive' = alive,
         UNCHANGED caches, LoopOn,
         height' \in Heights, authority' \in AuthorityManage, consensus_power' \in BOOLEAN,
         votes' \in VoteCollector, proof' \in Proof \cup {NoProof},
         verified_block' \in UNION {[S -> BOOLEAN] : S \in SUBSET Hashes},
         block_origin_cache' \in SUBSET Hashes, bft_recv' \in Seq(CoreOutput),
         async_recv' \in Seq(AsyncMsg), core' \in CoreState,
         commits' \in Seq(Commit), transmitted' \in SUBSET Transmission
  PROVE  RecTypeOK'
<1>1. /\ pc' \in {"select", "proposals", "votes", "replay"}
      /\ iter' \in CASE pc' = "proposals" -> Seq(ProposalMsg)
                     [] pc' = "replay" -> Seq(LogRecord \cup {Junk})
                     [] OTHER -> Seq(SignedVote)
  <2> DEFINE T == CASE pc = "proposals" -> Seq(ProposalMsg)
                    [] pc = "replay" -> Seq(LogRecord \cup {Junk})
                    [] OTHER -> Seq(SignedVote)
             T2 == CASE pc' = "proposals" -> Seq(ProposalMsg)
                     [] pc' = "replay" -> Seq(LogRecord \cup {Junk})
                     [] OTHER -> Seq(SignedVote)
  <2>1. pc \in {"select", "proposals", "votes", "replay"} /\ iter \in T
    BY DEF RecTypeOK
  <2>2. \E S : T = Seq(S)
    <3>1. T = Seq(ProposalMsg) \/ T = Seq(LogRecord \cup {Junk}) \/ T = Seq(SignedVote)
      BY <2>1
    <3> HIDE DEF T
    <3> QED
      BY <3>1
  <2>3. pc' = pc => T2 = T
    OBVIOUS
  <2>4. pc' = "select" => T2 = Seq(SignedVote)
    OBVIOUS
  <2> HIDE DEF T, T2
  <2>5. PICK S : T = Seq(S)
    BY <2>2
  <2>6. ASSUME pc' = pc /\ iter' = iter
        PROVE  pc' \in {"select", "proposals", "votes", "replay"} /\ iter' \in T2
    BY <2>1, <2>3, <2>6
  <2>7. ASSUME pc' = pc /\ iter # <<>> /\ iter' = Tail(iter)
        PROVE  pc' \in {"select", "proposals", "votes", "replay"} /\ iter' \in T2
    <3>1. Tail(iter) \in Seq(S)
      BY <2>1, <2>5, <2>7
    <3> QED
      BY <2>1, <2>3, <2>5, <2>7, <3>1
  <2>8. ASSUME pc' = "select" /\ iter' = <<>>
        PROVE  pc' \in {"select", "proposals", "votes", "replay"} /\ iter' \in T2
    <3>1. iter' \in Seq(SignedVote)
      BY <2>8
    <3> QED
      BY <2>4, <2>8, <3>1
  <2>9. pc' \in {"select", "proposals", "votes", "replay"} /\ iter' \in T2
    BY <2>6, <2>7, <2>8 DEF LoopOn
  <2> QED
    BY <2>9 DEF T2
<1>2. wal' \in WalState /\ wal'.current \in wal'.open
  BY DEF SoundLog
<1>3. chain_height' \in Heights /\ alive' \in BOOLEAN
  BY DEF RecTypeOK
<1>4. proposal_cache' \in [Heights -> Seq(ProposalMsg)] /\ vote_cache' \in [Heights -> Seq(SignedVote)]
  BY DEF RecTypeOK, caches
<1> QED
  BY <1>1, <1>2, <1>3, <1>4 DEF RecTypeOK

\* A step that neither votes nor commits, and leaves what the core counts.
LEMMA SilentStep ==
  ASSUME RecInv, Saved(wal, wal'), chain_height' = chain_height, alive' = alive,
         UNCHANGED <<chain, caches, commits>>, SameCore, core' \in CoreState,
         votes' \in VoteCollector, votes'.pairs = votes.pairs, proof' \in Proof \cup {NoProof},
         verified_block' \in UNION {[S -> BOOLEAN] : S \in SUBSET Hashes},
         block_origin_cache' \in SUBSET Hashes, async_recv' \in Seq(AsyncMsg),
         transmitted' \in SUBSET Transmission,
         \A t \in transmitted' : t \in transmitted \/ t.type # "SignedVote",
         bft_recv' = bft_recv \/ (bft_recv # <<>> /\ bft_recv' = Tail(bft_recv)), LoopOn
  PROVE  RecInv'
<1>1. RecTypeOK /\ EngineInv /\ SoundLog(wal')
  BY DEF RecInv, Saved
<1>2. EngineInv'
  BY <1>1, QuietStep
<1>3. bft_recv' \in Seq(CoreOutput)
  <2>1. bft_recv \in Seq(CoreOutput)
    BY <1>1 DEF RecTypeOK
  <2> QED
    BY <2>1
<1>4. RecTypeOK'
  BY <1>1, <1>3, LoopType DEF RecTypeOK, chain
<1>5. LogInv' /\ WriteAhead'
  <2>1. pc' = "replay" => /\ pc = "replay" /\ consensus_power' = consensus_power
                          /\ iter' = iter \/ (iter # <<>> /\ iter' = Tail(iter))
    BY DEF LoopOn, chain
  <2> QED
    BY <2>1, SilentSave DEF chain
<1> QED
  BY <1>2, <1>4, <1>5 DEF RecInv

\* A step that leaves the core, the collector and the history as they are.
LEMMA QuietKeeps ==
  ASSUME RecInv, Saved(wal, wal'), chain_height' = chain_height, alive' = alive,
         UNCHANGED <<chain, caches, votes, proof, verified_block, core, history>>,
         block_origin_cache' \in SUBSET Hashes, async_recv' = async_recv,
         bft_recv' = bft_recv \/ (bft_recv # <<>> /\ bft_recv' = Tail(bft_recv)), LoopOn
  PROVE  RecInv'
<1>1. /\ core' \in CoreState /\ votes' \in VoteCollector /\ proof' \in Proof \cup {NoProof}
      /\ verified_block' \in UNION {[S -> BOOLEAN] : S \in SUBSET Hashes}
      /\ async_recv' \in Seq(AsyncMsg) /\ transmitted' \in SUBSET Transmission
  BY DEF RecInv, RecTypeOK, history
<1>2. SameCore /\ votes'.pairs = votes.pairs
  BY DEF SameCore
<1>3. UNCHANGED <<chain, caches, commits>> /\ transmitted' = transmitted
  BY DEF history
<1> QED
  BY <1>1, <1>2, <1>3, SilentStep

\* What commits' and the log are after a commit that was handed over but not
\* followed by its status.
LEMMA CommitHandedOver ==
  ASSUME RecInv, NEW c \in BftCommit, Supported(c), Provable(c),
         commits' = Append(commits, Committed(c)), NEW w, Saved(wal, w),
         Record("commit", c) \in Complete(w.files[c.height]), c.height <= wal.current
  PROVE  /\ commits' \in Seq(Commit) /\ CommitsVerify' /\ Generated(c) \in Proof
         /\ \A k \in DOMAIN commits' :
              \/ k \in DOMAIN commits /\ commits'[k] = commits[k]
              \/ /\ commits'[k].height <= wal.current
                 /\ \E e \in Complete(w.files[commits'[k].height]) :
                      e.type = "commit" /\ e.msg.proposal = commits'[k].result
<1>1. RecTypeOK /\ EngineInv /\ commits \in Seq(Commit) /\ votes \in VoteCollector
  BY DEF RecInv, RecTypeOK
<1>2. Generated(c) \in Proof
  BY <1>1, GeneratedType
<1>3. CommitsVerify'
  BY <1>1, CommittedVerifies DEF EngineInv
<1>4. commits' \in Seq(Commit)
  <2>1. c.height \in Heights /\ c.proposal \in Hashes
    BY BoundsAssumption DEF BftCommit, Heights
  <2>2. Committed(c) \in Commit
    BY <1>2, <2>1 DEF Committed, Commit
  <2> HIDE DEF Committed
  <2> QED
    BY <1>1, <2>2
<1>5. \A k \in DOMAIN commits' :
        \/ k \in DOMAIN commits /\ commits'[k] = commits[k]
        \/ /\ commits'[k].height = c.height
           /\ \E e \in Complete(w.files[commits'[k].height]) :
                e.type = "commit" /\ e.msg.proposal = commits'[k].result
  BY <1>1, CommitEntry
<1> QED
  BY <1>2, <1>3, <1>4, <1>5

LEMMA LosesOutputKeeps ==
  ASSUME RecInv, LosesOutput, chain_height' = chain_height
  PROVE  RecInv'
<1> DEFINE o == Head(bft_recv)
<1>1. SoundLog(wal) /\ bft_recv # <<>> /\ bft_recv' = Tail(bft_recv) /\ height \in Heights
  BY DEF LosesOutput, LosesProposal, LosesVote, LosesCommit, Takes, RecInv, LogInv, RecTypeOK
<1>2. Saved(wal, wal)
  BY <1>1, NothingSaved
<1>3. ASSUME LosesProposal PROVE Saved(wal, wal')
  <2>1. o.type = "Proposal" /\ wal' \in {wal, Torn(wal, height, "proposal", o.proposal)}
    BY <1>3 DEF LosesProposal, Takes
  <2>2. o.proposal \in BftProposal
    BY <1>1, <2>1, OutputNow
  <2> HIDE DEF o
  <2>3. Record("proposal", o.proposal) \in LogRecord
    BY <2>2, RecordTypes
  <2>4. Logged(Record("proposal", o.proposal), height)
    BY DEF Logged, Record
  <2> QED
    BY <1>1, <1>2, <2>1, <2>3, <2>4, SaveSound
<1>4. ASSUME LosesVote PROVE Saved(wal, wal')
  <2>1. o.type = "Vote" /\ wal' \in {wal, Torn(wal, o.vote.height, "vote", o.vote)}
    BY <1>4 DEF LosesVote, Takes
  <2>2. o.vote \in Vote /\ o.vote.voter = Self
    BY <1>1, <2>1, OutputNow
  <2> HIDE DEF o
  <2>3. Record("vote", o.vote) \in LogRecord /\ o.vote.height \in Heights
    BY <2>2, RecordTypes DEF Vote
  <2>4. Logged(Record("vote", o.vote), o.vote.height)
    BY <2>2 DEF Logged, Record
  <2> QED
    BY <1>1, <1>2, <2>1, <2>3, <2>4, SaveSound
<1>5. ASSUME LosesCommit PROVE Saved(wal, wal')
  <2>1. o.type = "Commit" /\ wal' \in {wal, Torn(wal, o.commit.height, "commit", o.commit)}
    BY <1>5 DEF LosesCommit, Takes
  <2>2. o.commit \in BftCommit /\ Supported(o.commit)
    BY <1>1, <2>1, OutputNow
  <2> QED
    BY <1>1, <1>2, <2>1, <2>2, CommitRecorded
<1>6. Saved(wal, wal')
  BY <1>3, <1>4, <1>5 DEF LosesOutput
<1>7. block_origin_cache' \in SUBSET Hashes
  BY DEF LosesOutput, blocks, RecInv, RecTypeOK
<1> QED
  BY <1>1, <1>6, <1>7, QuietKeeps DEF LosesOutput, LoopOn, loop, blocks

LEMMA LosesStatusKeeps ==
  ASSUME RecInv, LosesStatus, chain_height' = chain_height
  PROVE  RecInv'
<1> DEFINE c == Head(bft_recv).commit
           w == SaveCommit(c)
<1>1. /\ bft_recv # <<>> /\ Head(bft_recv).type = "Commit" /\ bft_recv' = Tail(bft_recv)
      /\ pc = "select" /\ ~Outdated(c.height) /\ Provable(c)
      /\ votes' = Looked(votes, c.height, c.round) /\ proof' = Generated(c)
      /\ commits' = Append(commits, Committed(c))
      /\ wal' \in {w, Torn(w, c.height, "rich_status", StatusOf(c.height))}
  BY DEF LosesStatus, Takes, Idle, Committed
<1>2. c \in BftCommit /\ Supported(c) /\ c.height = height /\ wal.current = height
  BY <1>1, OutputNow
<1>3. SoundLog(wal) /\ RecTypeOK /\ EngineInv /\ LogInv /\ WriteAhead /\ votes \in VoteCollector
  BY DEF RecInv, LogInv, RecTypeOK
<1>4. UNCHANGED <<loop, chain, blocks, caches, async_recv, core, transmitted>>
  BY DEF LosesStatus
<1> HIDE DEF c
<1>5. c.height \in wal.open /\ c.height <= wal.current
  <2>1. c.height \in Nat
    BY <1>2, BoundsAssumption DEF BftCommit
  <2> QED
    BY <1>2, <1>3, <2>1 DEF SoundLog
<1>6. /\ Saved(wal, w) /\ c.height \in Heights /\ c.height \in 0 .. MaxHeight
      /\ Record("commit", c) \in Complete(w.files[c.height])
  BY <1>1, <1>2, <1>3, <1>5, CommitRecorded
<1> HIDE DEF w
<1>7. Saved(w, wal')
  <2>1. SoundLog(w)
    BY <1>6 DEF Saved
  <2>2. Record("rich_status", StatusOf(c.height)) \in LogRecord
    BY <1>6, RecordTypes, StatusOfType
  <2>3. Logged(Record("rich_status", StatusOf(c.height)), c.height)
    <3>1. c.height <= MaxHeight
      BY <1>2, BoundsAssumption DEF BftCommit
    <3> QED
      BY <3>1 DEF Logged, Record
  <2> QED
    BY <1>1, <1>6, <2>1, <2>2, <2>3, SaveSound, NothingSaved
<1>8. Saved(wal, wal') /\ SoundLog(wal') /\ Extends(wal, wal') /\ wal' \in WalState
  BY <1>3, <1>6, <1>7, SavedTransitive, SavedExtends DEF Saved, SoundLog
<1>9. Record("commit", c) \in Complete(wal'.files[c.height])
  BY <1>6, <1>7, WalHeights DEF Saved
<1>10. /\ commits' \in Seq(Commit) /\ CommitsVerify' /\ Generated(c) \in Proof
       /\ \A k \in DOMAIN commits' :
            \/ k \in DOMAIN commits /\ commits'[k] = commits[k]
            \/ /\ commits'[k].height <= wal.current
               /\ \E e \in Complete(wal'.files[commits'[k].height]) :
                    e.type = "commit" /\ e.msg.proposal = commits'[k].result
  BY <1>1, <1>2, <1>5, <1>8, <1>9, CommitHandedOver
<1>11. votes' \in VoteCollector /\ votes'.pairs = votes.pairs
  <2>1. c.round \in Rounds
    BY <1>2 DEF BftCommit
  <2> QED
    BY <1>1, <1>3, <1>6, <2>1, LookedType, CollectorGrows
<1>12. bft_recv' \in Seq(CoreOutput)
  <2>1. bft_recv \in Seq(CoreOutput)
    BY <1>3 DEF RecTypeOK
  <2> QED
    BY <1>1, <2>1
<1>13. RecTypeOK'
  <2>1. LoopOn
    BY <1>4 DEF LoopOn, loop
  <2> QED
    BY <1>1, <1>3, <1>4, <1>8, <1>10, <1>11, <1>12, <2>1, LoopType
       DEF RecTypeOK, loop, chain, blocks
<1>14. EngineInv'
  <2>1. AuthorityTracksChain' /\ CoreBehind' /\ CountedVotersAuthorised' /\ core'.height = height'
    BY <1>3, <1>4 DEF EngineInv, AuthorityTracksChain, CoreBehind, CountedVotersAuthorised, chain
  <2>2. HonestCollector'
    BY <1>3, <1>11 DEF EngineInv, HonestCollector
  <2>3. \A i \in DOMAIN bft_recv' : i + 1 \in DOMAIN bft_recv /\ bft_recv'[i] = bft_recv[i + 1]
    <3>1. bft_recv \in Seq(CoreOutput)
      BY <1>3 DEF RecTypeOK
    <3> QED
      BY <1>1, <3>1
  <2>4. SoundOutputs' /\ OutputsReached'
    BY <1>3, <1>4, <2>3 DEF EngineInv, SoundOutputs, OutputsReached, Supported, chain
  <2> QED
    BY <1>10, <2>1, <2>2, <2>4 DEF EngineInv
<1>15. LogInv'
  <2>1. pc' # "replay"
    BY <1>1, <1>4 DEF loop
  <2> QED
    BY <1>3, <1>4, <1>8, <1>10, <2>1, SavedKeeps DEF chain
<1>16. WriteAhead'
  BY <1>3, <1>4, <1>8, <1>10, WrittenStays
<1> QED
  BY <1>13, <1>14, <1>15, <1>16 DEF RecInv

LEMMA SaveFailsKeeps ==
  ASSUME RecInv, SaveFails
  PROVE  RecInv'
<1>1. chain_height' = chain_height /\ SoundLog(wal) /\ RecTypeOK
      /\ block_origin_cache \in SUBSET Hashes
  BY DEF SaveFails, recovery, RecInv, LogInv, RecTypeOK
<1>2. Saved(wal, wal)
  BY <1>1, NothingSaved
<1>3. ASSUME LosesAnswer PROVE RecInv'
  <2>1. Next /\ pc # "replay" /\ wal' = wal
    BY <1>3 DEF LosesAnswer, ProcessVerifyResp, ProcessFeed, Idle, Next, EngineStep, AsyncStep
  <2>2. TypeOK' /\ EngineInv'
    BY <1>1, <2>1, PlainType, NextEngine DEF RecInv
  <2>3. RecTypeOK' /\ pc' # "replay"
    BY <1>1, <2>1, <2>2, LoggedType DEF RecTypeOK
  <2>4. UNCHANGED <<height, commits, transmitted>>
    BY <1>3 DEF LosesAnswer, ProcessVerifyResp, ProcessFeed, chain, history
  <2>5. LogInv' /\ WriteAhead'
    BY <1>1, <1>2, <2>1, <2>3, <2>4, SilentSave
  <2> QED
    BY <2>2, <2>3, <2>5 DEF RecInv
<1>4. ASSUME LeavesVotes \/ SkipsCommit PROVE RecInv'
  <2>1. LoopOn /\ wal' = wal /\ alive' = alive /\ block_origin_cache' = block_origin_cache
        /\ UNCHANGED <<chain, caches, votes, proof, verified_block, core, history>>
        /\ async_recv' = async_recv /\ bft_recv' = bft_recv
    BY <1>4 DEF LeavesVotes, SkipsCommit, LoopOn, blocks
  <2> QED
    BY <1>1, <1>2, <2>1, QuietKeeps
<1>5. ASSUME NEW m \in PeerProposals, LosesSignedProposal(m) PROVE RecInv'
  <2>1. LoopOn /\ wal' = wal /\ alive' = alive
        /\ UNCHANGED <<chain, caches, votes, proof, verified_block, core, history>>
        /\ async_recv' = async_recv /\ bft_recv' = bft_recv
        /\ block_origin_cache' = block_origin_cache \cup {m.block}
    BY <1>5 DEF LosesSignedProposal, LoopOn, loop
  <2>2. m.block \in Hashes
    BY PeersAssumption DEF ProposalMsg
  <2> QED
    BY <1>1, <1>2, <2>1, <2>2, QuietKeeps
<1> QED
  BY <1>1, <1>3, <1>4, <1>5, LosesOutputKeeps, LosesStatusKeeps DEF SaveFails

-----------------------------------------------------------------------------
(* load_wal_log *)

\* A record that is loaded is one of the log, written to its end.
LEMMA LoadedRecord ==
  ASSUME RecInv, pc = "replay", iter # <<>>, Head(iter).type # "junk"
  PROVE  /\ Head(iter) \in LogRecord /\ Head(iter) \in Complete(wal.files[Base])
         /\ Logged(Head(iter), Base) /\ Base \in 0 .. MaxHeight + 2 /\ Base \in Nat
         /\ (height = 0 \/ height = Base + 1) /\ Base <= wal.current
<1>1. iter \in Seq({Junk} \cup Complete(wal.files[Base])) /\ SoundLog(wal)
      /\ height \in Heights /\ wal.current \in Heights /\ (height = 0 \/ wal.current = height)
  BY DEF RecInv, LogInv, RecTypeOK, WalState
<1>2. Head(iter) \in {Junk} \cup Complete(wal.files[Base])
  BY <1>1
<1>3. Head(iter) # Junk
  BY DEF Junk
<1>4. /\ Base \in 0 .. MaxHeight + 2 /\ Base \in Nat /\ (height = 0 \/ height = Base + 1)
      /\ Base <= wal.current
  BY <1>1, BoundsAssumption DEF Base, Heights
<1> QED
  BY <1>1, <1>2, <1>3, <1>4, CompleteLogged

\* What a record of each type holds.
LEMMA RecordHolds ==
  ASSUME NEW r \in LogRecord
  PROVE  /\ r = Record(r.type, r.msg) /\ r.type # "junk"
         /\ r.type = "raw_bytes" => r.msg \in SignedVote
         /\ r.type = "rich_status" => r.msg \in Status
         /\ r.type = "verify_resp" => r.msg.proposal \in Hashes /\ r.msg.is_pass \in BOOLEAN
         /\ r.type = "feed" => r.msg.height \in Heights /\ r.msg.content \in Hashes
         /\ r.type = "proposal" => r.msg \in BftProposal
         /\ r.type = "vote" => r.msg \in Vote
         /\ r.type = "commit" => r.msg \in BftCommit
<1>1. r = Record(r.type, r.msg) /\ r.type # "junk"
  BY DEF LogRecord, Record
<1>2. /\ r.type = "raw_bytes" => r.msg \in SignedVote
      /\ r.type = "rich_status" => r.msg \in Status
      /\ r.type = "proposal" => r.msg \in BftProposal
      /\ r.type = "vote" => r.msg \in Vote
      /\ r.type = "commit" => r.msg \in BftCommit
  BY DEF LogRecord
<1>3. /\ r.type = "verify_resp" => r.msg \in {m \in AsyncMsg : m.type = "VerifyResp"}
      /\ r.type = "feed" => r.msg \in {m \in AsyncMsg : m.type = "Feed"}
  BY DEF LogRecord
<1>4. \A m \in AsyncMsg : /\ m.type = "VerifyResp" => m.proposal \in Hashes /\ m.is_pass \in BOOLEAN
                          /\ m.type = "Feed" => m.height \in Heights /\ m.content \in Hashes
  BY DEF AsyncMsg
<1> QED
  BY <1>1, <1>2, <1>3, <1>4

LEMMA ReplayGoesOnLoops ==
  ASSUME iter # <<>>, ReplayGoesOn \/ ReplayFails
  PROVE  LoopOn
BY DEF ReplayGoesOn, ReplayFails, LoopOn

LEMMA ReplayUnreadableKeeps ==
  ASSUME RecInv, iter # <<>>, ReplayUnreadable, chain_height' = chain_height
  PROVE  RecInv'
<1>1. LoopOn
  BY ReplayGoesOnLoops DEF ReplayUnreadable
<1>2. Saved(wal, wal) /\ block_origin_cache \in SUBSET Hashes
  BY NothingSaved DEF RecInv, LogInv, RecTypeOK
<1>3. /\ wal' = wal /\ alive' = alive /\ block_origin_cache' = block_origin_cache
      /\ UNCHANGED <<chain, caches, votes, proof, verified_block, core, history>>
      /\ async_recv' = async_recv /\ bft_recv' = bft_recv
  BY DEF ReplayUnreadable, blocks
<1> QED
  BY <1>1, <1>2, <1>3, QuietKeeps

\* A record that tells the core of a content, or of the verdict on one.
LEMMA ReplayAnswerKeeps ==
  ASSUME RecInv, pc = "replay", iter # <<>>, ReplayFeed \/ ReplayVerifyResp,
         chain_height' = chain_height
  PROVE  RecInv'
<1> DEFINE m == Head(iter).msg
<1>1. /\ Saved(wal, wal) /\ core \in CoreState /\ block_origin_cache \in SUBSET Hashes
      /\ verified_block \in UNION {[S -> BOOLEAN] : S \in SUBSET Hashes}
      /\ votes \in VoteCollector /\ proof \in Proof \cup {NoProof} /\ async_recv \in Seq(AsyncMsg)
      /\ transmitted \in SUBSET Transmission
  BY NothingSaved DEF RecInv, LogInv, RecTypeOK
<1>2. Head(iter).type = "feed" \/ Head(iter).type = "verify_resp"
  BY DEF ReplayFeed, ReplayVerifyResp
<1>3. Head(iter) \in LogRecord
  BY <1>2, LoadedRecord
<1>4. /\ Head(iter).type = "verify_resp" => m.proposal \in Hashes /\ m.is_pass \in BOOLEAN
      /\ Head(iter).type = "feed" => m.height \in Heights /\ m.content \in Hashes
  BY <1>3, RecordHolds
<1>5. LoopOn
  BY ReplayGoesOnLoops DEF ReplayFeed, ReplayVerifyResp
<1>6. /\ alive' = alive /\ UNCHANGED <<chain, caches, commits>> /\ votes' = votes /\ proof' = proof
      /\ async_recv' = async_recv /\ bft_recv' = bft_recv /\ transmitted' = transmitted
      /\ wal' = wal
  BY DEF ReplayFeed, ReplayVerifyResp, history
<1>7. CASE ReplayFeed
  <2>1. core' = CoreFeed(core, m.height, m.content) /\ verified_block' = verified_block
        /\ block_origin_cache' = block_origin_cache \cup {m.content}
        /\ m.height \in Heights /\ m.content \in Hashes
    BY <1>4, <1>7 DEF ReplayFeed
  <2> HIDE DEF m
  <2>2. core' \in CoreState
    BY <1>1, <2>1, CoreInputsType
  <2>3. SameCore
    BY <1>1, <2>1, CoreInputsKeep DEF SameCore
  <2> QED
    BY <1>1, <1>5, <1>6, <2>1, <2>2, <2>3, SilentStep
<1>8. CASE ReplayVerifyResp
  <2>1. core' = CoreVerifyResp(core, m.proposal, m.is_pass)
        /\ verified_block' = Remember(m.proposal, m.is_pass)
        /\ block_origin_cache' = block_origin_cache
        /\ m.proposal \in Hashes /\ m.is_pass \in BOOLEAN
    BY <1>4, <1>8 DEF ReplayVerifyResp
  <2> HIDE DEF m
  <2>2. core' \in CoreState
    BY <1>1, <2>1, CoreInputsType
  <2>3. SameCore
    BY <1>1, <2>1, CoreInputsKeep DEF SameCore
  <2>4. verified_block' \in UNION {[S -> BOOLEAN] : S \in SUBSET Hashes}
    <3>1. PICK S \in SUBSET Hashes : verified_block \in [S -> BOOLEAN]
      BY <1>1
    <3> DEFINE new == [x \in S \cup {m.proposal} |->
                        IF x = m.proposal THEN m.is_pass ELSE verified_block[x]]
    <3>2. new \in [S \cup {m.proposal} -> BOOLEAN]
      BY <2>1, <3>1
    <3>3. new \in UNION {[T -> BOOLEAN] : T \in SUBSET Hashes}
      BY <2>1, <3>2
    <3>4. Remember(m.proposal, m.is_pass) \in {verified_block, new}
      BY <3>1 DEF Remember
    <3> QED
      BY <1>1, <2>1, <3>3, <3>4
  <2> QED
    BY <1>1, <1>5, <1>6, <2>1, <2>2, <2>3, <2>4, SilentStep
<1> QED
  BY <1>7, <1>8

\* The status that ended a height brings the engine, at height 0, and the core
\* to the next one.
LEMMA ReplayStatusKeeps ==
  ASSUME RecInv, pc = "replay", iter # <<>>, ReplayRichStatus, chain_height' = chain_height
  PROVE  RecInv'
<1> DEFINE st == Head(iter).msg
<1>1. /\ RecTypeOK /\ EngineInv /\ LogInv /\ WriteAhead /\ SoundLog(wal) /\ ~consensus_power
      /\ core \in CoreState /\ height \in Nat
      /\ iter \in Seq({Junk} \cup Complete(wal.files[Base]))
  BY BoundsAssumption DEF RecInv, LogInv, RecTypeOK, Heights
<1>2. Head(iter).type = "rich_status" /\ ReplayGoesOn
  BY DEF ReplayRichStatus
<1>3. /\ Head(iter) \in LogRecord /\ Logged(Head(iter), Base) /\ Base \in Nat
      /\ height = 0 \/ height = Base + 1
  BY <1>2, LoadedRecord
<1>4. st = StatusOf(Base) /\ Base \in 0 .. MaxHeight
  BY <1>2, <1>3, BoundsAssumption DEF Logged
<1>5. st \in Status /\ st.height = Base /\ st.authority_list = AuthAt[Base + 1]
      /\ Base + 1 \in Heights
  BY <1>4, StatusOfType
<1>6. LoopOn
  BY <1>2, ReplayGoesOnLoops
<1>7. CASE Outdated(st.height)
  <2>1. /\ Saved(wal, wal) /\ wal' = wal /\ alive' = alive
        /\ block_origin_cache' \in SUBSET Hashes
        /\ UNCHANGED <<chain, caches, votes, proof, verified_block, core, history>>
        /\ async_recv' = async_recv /\ bft_recv' = bft_recv
    BY <1>1, <1>7, NothingSaved DEF ReplayRichStatus, RecTypeOK, chain, history
  <2> QED
    BY <1>6, <2>1, QuietKeeps
<1>8. CASE ~Outdated(st.height)
  <2>1. height = 0 /\ wal.current = Base
    BY <1>1, <1>3, <1>5, <1>8 DEF Outdated, Base
  <2>2. /\ authority' = UpdateAuthority(authority, 0, AuthAt[Base + 1])
        /\ verified_block' = NoVerdicts /\ block_origin_cache' = {} /\ height' = Base + 1
        /\ core' = CoreStatus(core, st) /\ wal' = SetHeight(wal, Base + 1)
        /\ alive' = alive /\ iter' = Tail(iter) /\ pc' = pc
        /\ UNCHANGED <<consensus_power, votes, proof, caches, bft_recv, async_recv, history>>
    BY <1>2, <1>5, <1>8, <2>1 DEF ReplayRichStatus, GotoNewHeight, ReplayGoesOn
  <2> HIDE DEF st
  <2>3. /\ core.height = 0 /\ core.running = consensus_power
        /\ \A v \in core.votes : v.height \in Nat /\ v.height <= 0
    <3>1. core.height = 0 /\ core.running = consensus_power
          /\ \A v \in core.votes : v.height <= 0
      BY <1>1, <2>1 DEF EngineInv, CoreBehind
    <3>2. \A v \in core.votes : v.height \in Nat
      BY <1>1, BoundsAssumption DEF CoreState, Vote, Heights
    <3> QED
      BY <3>1, <3>2
  <2>4. core' \in CoreState
    <3>1. st.height <= MaxHeight
      BY <1>4, <1>5, BoundsAssumption
    <3> QED
      BY <1>1, <1>5, <2>2, <3>1, CoreInputsType
  <2>5. /\ core'.height = Base + 1 /\ core'.authority = AuthAt[Base + 1]
        /\ core'.running = core.running /\ core'.votes = {v \in core.votes : v.height > Base}
    <3>1. ~(st.height < core.height)
      BY <1>3, <1>5, <2>3
    <3> QED
      BY <1>1, <1>5, <2>2, <3>1 DEF CoreStatus, CoreState
  <2>6. core'.votes = {}
    BY <1>3, <2>3, <2>5
  <2>7. AuthorityTracksChain' /\ CoreBehind' /\ CountedVotersAuthorised' /\ core'.height = height'
    <3>1. authority.authorities = AuthAt[0]
      BY <1>1, <2>1 DEF EngineInv, AuthorityTracksChain
    <3>2. AuthorityTracksChain'
      BY <1>3, <2>2, <3>1 DEF AuthorityTracksChain, UpdateAuthority
    <3>3. CoreBehind'
      BY <1>1, <1>3, <2>2, <2>3, <2>5, <2>6 DEF CoreBehind
    <3> QED
      BY <2>2, <2>5, <2>6, <3>2, <3>3 DEF CountedVotersAuthorised
  <2>8. SoundOutputs' /\ OutputsReached' /\ HonestCollector' /\ CommitsVerify'
    <3>1. SoundOutputs' /\ HonestCollector' /\ CommitsVerify'
      BY <1>1, <2>2 DEF EngineInv, SoundOutputs, Supported, HonestCollector, CommitsVerify, history
    <3>2. OutputsReached'
      <4>1. \A x \in CoreOutput : /\ x.type = "Proposal" => x.proposal.height \in Nat
                                  /\ x.type = "Vote" => x.vote.height \in Nat
                                  /\ x.type = "Commit" => x.commit.height \in Nat
        BY BoundsAssumption DEF CoreOutput, BftProposal, Vote, BftCommit, Heights
      <4>2. bft_recv \in Seq(CoreOutput)
        BY <1>1 DEF RecTypeOK
      <4>3. \A i \in DOMAIN bft_recv : bft_recv[i] \in CoreOutput
        BY <4>2
      <4>4. \A x \in Nat : x <= height => x <= height'
        BY <1>3, <2>1, <2>2
      <4> QED
        BY <1>1, <2>2, <4>1, <4>3, <4>4 DEF EngineInv, OutputsReached
    <3> QED
      BY <3>1, <3>2
  <2>9. SoundLog(wal') /\ Extends(wal, wal') /\ wal'.current = Base + 1
    <3>1. wal.current <= Base + 1
      BY <1>3, <2>1
    <3> QED
      BY <1>1, <1>5, <2>2, <3>1, SetHeightSound
  <2>10. RecTypeOK'
    <3>1. authority' \in AuthorityManage
      <4>1. AuthAt[Base + 1] \in Seq(Nodes) /\ 0 \in Heights
        BY <1>5, ChainAssumption, BoundsAssumption DEF Heights
      <4> QED
        BY <1>1, <2>2, <4>1 DEF UpdateAuthority, AuthorityManage, RecTypeOK
    <3>2. verified_block' \in UNION {[S -> BOOLEAN] : S \in SUBSET Hashes}
      <4>1. NoVerdicts \in [{} -> BOOLEAN]
        BY DEF NoVerdicts
      <4> QED
        BY <2>2, <4>1
    <3>3. height' \in Heights /\ block_origin_cache' \in SUBSET Hashes
      BY <1>5, <2>2
    <3> QED
      BY <1>1, <1>6, <2>2, <2>4, <2>9, <3>1, <3>2, <3>3, LoopType DEF RecTypeOK, history
  <2>11. LogInv'
    <3>1. \A k \in DOMAIN commits : commits[k].height \in Nat /\ commits[k].height <= Base
      <4> SUFFICES ASSUME NEW k \in DOMAIN commits
                   PROVE  commits[k].height \in Nat /\ commits[k].height <= Base
        OBVIOUS
      <4>1. commits[k] \in Commit
        BY <1>1 DEF RecTypeOK
      <4> QED
        BY <1>1, <2>1, <4>1, WalHeights DEF Commit, LogInv
    <3>2. \A k \in DOMAIN commits' : commits'[k].height <= wal'.current
      BY <1>3, <2>2, <2>9, <3>1 DEF history
    <3>3. Base' = Base
      BY <1>3, <2>2 DEF Base
    <3>4. Complete(wal.files[Base]) \subseteq Complete(wal'.files[Base])
      <4>1. Base \in 0 .. MaxHeight + 2 /\ Base + 3 >= Base + 1
        BY <1>3, <1>4, BoundsAssumption
      <4> QED
        BY <2>9, <4>1 DEF Extends, DELETE_FILE_INTERVAL
    <3>5. iter' \in Seq({Junk} \cup Complete(wal'.files[Base]))
      <4> DEFINE P == {Junk} \cup Complete(wal.files[Base])
                 Q == {Junk} \cup Complete(wal'.files[Base])
      <4>1. P \subseteq Q /\ iter \in Seq(P)
        BY <1>1, <3>4
      <4> HIDE DEF P, Q
      <4>2. iter \in Seq(Q)
        BY <4>1
      <4>3. Tail(iter) \in Seq(Q)
        BY <4>2
      <4> QED
        BY <2>2, <4>3 DEF Q
    <3>6. height' = wal'.current /\ height' # 0
      BY <1>3, <2>2, <2>9
    <3> QED
      BY <1>1, <2>2, <2>9, <3>2, <3>3, <3>5, <3>6 DEF LogInv
  <2>12. WriteAhead'
    <3>1. wal' \in WalState /\ transmitted' = transmitted /\ commits' = commits
      BY <2>2, <2>9 DEF SoundLog, history
    <3> QED
      BY <1>1, <2>9, <3>1, WrittenStays
  <2> QED
    BY <2>7, <2>8, <2>10, <2>11, <2>12 DEF RecInv, EngineInv
<1> QED
  BY <1>7, <1>8

LEMMA HonestlyAdded ==
  ASSUME HonestCollector, NEW h, NEW r, NEW t, NEW S, votes' = AddVotes(votes, h, r, t, S),
         \A x \in S : x.signature = x.vote.voter
  PROVE  HonestCollector'
BY CollectorGrows DEF HonestCollector

\* A vote that was logged is judged again, and counted if it may be.
LEMMA ReplayVoteKeeps ==
  ASSUME RecInv, pc = "replay", iter # <<>>, ReplaySignedVote, wal' = wal,
         chain_height' = chain_height
  PROVE  RecInv'
<1> DEFINE m == Head(iter).msg
<1>1. /\ RecTypeOK /\ EngineInv /\ Saved(wal, wal) /\ core \in CoreState /\ votes \in VoteCollector
      /\ height \in Heights /\ authority \in AuthorityManage
  BY NothingSaved DEF RecInv, LogInv, RecTypeOK
<1>2. Head(iter).type = "raw_bytes" /\ LoopOn
      /\ (UNCHANGED <<votes, core>> \/ TakeVote(m))
      /\ UNCHANGED <<alive, chain, proof, blocks, caches, bft_recv, async_recv, history>>
  BY ReplayGoesOnLoops DEF ReplaySignedVote
<1>3. m \in SignedVote
  <2>1. Head(iter) \in LogRecord
    BY <1>2, LoadedRecord
  <2> QED
    BY <1>2, <2>1, RecordHolds
<1> HIDE DEF m
<1>4. CASE UNCHANGED <<votes, core>>
  <2>1. /\ alive' = alive /\ block_origin_cache' \in SUBSET Hashes
        /\ UNCHANGED <<chain, caches, votes, proof, verified_block, core, history>>
        /\ async_recv' = async_recv /\ bft_recv' = bft_recv
    BY <1>1, <1>2, <1>4 DEF RecTypeOK, blocks
  <2> QED
    BY <1>1, <1>2, <2>1, QuietKeeps
<1>5. CASE TakeVote(m)
  <2>1. CoreBehind' /\ CountedVotersAuthorised' /\ core'.height = core.height
    BY <1>1, <1>2, <1>3, <1>5, TakeVoteDrives DEF EngineInv
  <2>2. votes' = AddVotes(votes, m.vote.height, m.vote.round, m.vote.vote_type, {m})
        /\ m.signature = m.vote.voter /\ core' \in {core, CoreVote(core, m.vote)}
    BY <1>5 DEF TakeVote
  <2>3. m.vote \in Vote /\ m.vote.height \in Heights /\ m.vote.round \in Rounds
        /\ m.vote.vote_type \in VoteTypes
    BY <1>3 DEF SignedVote, Vote
  <2>4. votes' \in VoteCollector /\ core' \in CoreState
    BY <1>1, <1>3, <2>2, <2>3, AddVotesType, CoreInputsType
  <2>5. HonestCollector'
    <3>1. HonestCollector /\ \A x \in {m} : x.signature = x.vote.voter
      BY <1>1, <2>2 DEF EngineInv
    <3> QED
      BY <2>2, <3>1, HonestlyAdded
  <2>6. AuthorityTracksChain' /\ core'.height = height' /\ SoundOutputs' /\ OutputsReached'
        /\ CommitsVerify'
    BY <1>1, <1>2, <2>1 DEF EngineInv, AuthorityTracksChain, SoundOutputs, Supported,
                            OutputsReached, CommitsVerify, chain, history
  <2>7. RecTypeOK'
    BY <1>1, <1>2, <2>4, LoopType DEF RecTypeOK, chain, blocks, history, RecInv, LogInv
  <2>8. LogInv' /\ WriteAhead'
    <3>1. pc' = "replay" => /\ pc = "replay" /\ consensus_power' = consensus_power
                            /\ iter' = iter \/ (iter # <<>> /\ iter' = Tail(iter))
      BY <1>2 DEF LoopOn, chain
    <3>2. height' = height /\ commits' = commits /\ transmitted' = transmitted
      BY <1>2 DEF chain, history
    <3> QED
      BY <1>1, <3>1, <3>2, SilentSave
  <2> QED
    BY <2>1, <2>5, <2>6, <2>7, <2>8 DEF RecInv, EngineInv
<1> QED
  BY <1>2, <1>4, <1>5

\* A proposal of this node's core is sent again.
LEMMA ReplayProposalKeeps ==
  ASSUME RecInv, pc = "replay", iter # <<>>, ReplayOwn, Head(iter).type = "proposal",
         chain_height' = chain_height
  PROVE  RecInv'
<1> DEFINE p == Head(iter).msg
<1>1. /\ RecTypeOK /\ Saved(wal, wal) /\ core \in CoreState /\ votes \in VoteCollector
      /\ proof \in Proof \cup {NoProof} /\ async_recv \in Seq(AsyncMsg)
      /\ transmitted \in SUBSET Transmission /\ block_origin_cache \in SUBSET Hashes
      /\ verified_block \in UNION {[S -> BOOLEAN] : S \in SUBSET Hashes}
  BY NothingSaved DEF RecInv, LogInv, RecTypeOK
<1>2. HandleProposal(p) /\ LoopOn
      /\ UNCHANGED <<alive, chain, proof, blocks, caches, bft_recv, core, commits, wal>>
  BY ReplayGoesOnLoops DEF ReplayOwn
<1>3. p \in BftProposal
  <2>1. Head(iter) \in LogRecord
    BY LoadedRecord
  <2> QED
    BY <2>1, RecordHolds
<1>4. p.height \in Heights /\ p.round \in Rounds /\ p.content \in Hashes
  BY <1>3 DEF BftProposal
<1> HIDE DEF p
<1>5. votes' \in VoteCollector /\ votes'.pairs = votes.pairs
  <2>1. votes' \in {votes, Looked(votes, p.height, p.round)}
    BY <1>2 DEF HandleProposal
  <2> QED
    BY <1>1, <1>4, <2>1, LookedType, CollectorGrows
<1>6. /\ async_recv' \in Seq(AsyncMsg) /\ transmitted' \in SUBSET Transmission
      /\ \A t \in transmitted' : t \in transmitted \/ t.type # "SignedVote"
  <2>1. CASE UNCHANGED <<async_recv, transmitted>>
    BY <1>1, <2>1
  <2>2. CASE /\ CanBuild(p)
             /\ \E pass \in Verdicts(p.content) : async_recv' = Append(async_recv,
                  [type |-> "VerifyResp", proposal |-> p.content, is_pass |-> pass])
             /\ transmitted' = transmitted \cup {Built(p)}
    <3>1. \A pass \in Verdicts(p.content) :
            [type |-> "VerifyResp", proposal |-> p.content, is_pass |-> pass] \in AsyncMsg
      BY <1>4 DEF AsyncMsg, Verdicts
    <3>2. async_recv' \in Seq(AsyncMsg)
      BY <1>1, <2>2, <3>1
    <3>3. Built(p) \in Transmission
      BY <1>1, <1>3, <2>2, BuiltType
    <3>4. Built(p).type # "SignedVote"
      BY DEF Built
    <3> QED
      BY <1>1, <2>2, <3>2, <3>3, <3>4
  <2> QED
    BY <1>2, <2>1, <2>2 DEF HandleProposal
<1>7. SameCore /\ core' \in CoreState /\ alive' = alive /\ wal' = wal /\ bft_recv' = bft_recv
      /\ UNCHANGED <<chain, caches, commits>> /\ proof' \in Proof \cup {NoProof}
      /\ verified_block' \in UNION {[S -> BOOLEAN] : S \in SUBSET Hashes}
      /\ block_origin_cache' \in SUBSET Hashes
  BY <1>1, <1>2 DEF SameCore, blocks
<1> QED
  BY <1>1, <1>2, <1>5, <1>6, <1>7, SilentStep

\* A vote of this node's core is sent again; it is in the log.
LEMMA ReplayOwnVoteKeeps ==
  ASSUME RecInv, pc = "replay", iter # <<>>, ReplayOwn, Head(iter).type = "vote",
         chain_height' = chain_height
  PROVE  RecInv'
<1> DEFINE v == Head(iter).msg
           sv == [vote |-> v, signature |-> Self]
           t == [type |-> "SignedVote", signed |-> sv]
<1>1. /\ RecTypeOK /\ EngineInv /\ LogInv /\ WriteAhead /\ Saved(wal, wal) /\ SoundLog(wal)
      /\ core \in CoreState /\ votes \in VoteCollector /\ transmitted \in SUBSET Transmission
  BY NothingSaved DEF RecInv, LogInv, RecTypeOK
<1>2. HandleVote(v) /\ async_recv' = async_recv /\ LoopOn
      /\ UNCHANGED <<alive, chain, proof, blocks, caches, bft_recv, core, commits, wal>>
  BY ReplayGoesOnLoops DEF ReplayOwn
<1>3. /\ v \in Vote /\ v.voter = Self /\ v.height = Base
      /\ Record("vote", v) \in Complete(wal.files[v.height])
  <2>1. /\ Head(iter) \in LogRecord /\ Head(iter) \in Complete(wal.files[Base])
        /\ Logged(Head(iter), Base)
    BY LoadedRecord
  <2>2. v \in Vote /\ Head(iter) = Record("vote", v)
    BY <2>1, RecordHolds
  <2>3. v.voter = Self /\ v.height = Base
    BY <2>1 DEF Logged
  <2> QED
    BY <2>1, <2>2, <2>3
<1>4. /\ v.height \in Heights /\ v.round \in Rounds /\ v.vote_type \in VoteTypes
      /\ sv \in SignedVote /\ sv.vote = v /\ sv.signature = Self
      /\ t.type = "SignedVote" /\ t.signed = sv
  BY <1>3, SelfAssumption DEF Vote, SignedVote, Signatures
<1>5. \/ UNCHANGED <<votes, transmitted>>
      \/ /\ votes' = AddVotes(votes, v.height, v.round, v.vote_type, {sv})
         /\ transmitted' = transmitted \cup {t}
  BY <1>2 DEF HandleVote
<1>6. t \in Transmission
  BY <1>4 DEF Transmission
<1> HIDE DEF v, sv, t
<1>7. votes' \in VoteCollector
  BY <1>1, <1>4, <1>5, AddVotesType
<1>8. HonestCollector'
  <2>1. HonestCollector /\ \A x \in {sv} : x.signature = x.vote.voter
    BY <1>1, <1>3, <1>4 DEF EngineInv
  <2>2. CASE votes' = AddVotes(votes, v.height, v.round, v.vote_type, {sv})
    BY <2>1, <2>2, HonestlyAdded
  <2>3. CASE votes' = votes
    BY <2>1, <2>3 DEF HonestCollector
  <2> QED
    BY <1>5, <2>2, <2>3
<1>9. EngineInv'
  BY <1>1, <1>2, <1>8 DEF EngineInv, AuthorityTracksChain, CoreBehind, CountedVotersAuthorised,
       SoundOutputs, Supported, OutputsReached, CommitsVerify, chain
<1>10. RecTypeOK'
  BY <1>1, <1>2, <1>5, <1>6, <1>7, LoopType DEF RecTypeOK, chain, blocks
<1>11. \A k \in DOMAIN commits' : k \in DOMAIN commits /\ commits'[k] = commits[k]
  BY <1>2
<1>12. LogInv'
  <2>1. pc' = "replay" => /\ pc = "replay" /\ consensus_power' = consensus_power
                          /\ iter' = iter \/ (iter # <<>> /\ iter' = Tail(iter))
    BY <1>2 DEF LoopOn, chain
  <2> QED
    BY <1>1, <1>2, <1>11, <2>1, SavedKeeps DEF chain
<1>13. WriteAhead'
  <2>1. \A x \in transmitted' : x.type = "SignedVote" =>
          x \in transmitted
            \/ Record("vote", x.signed.vote) \in Complete(wal'.files[x.signed.vote.height])
    BY <1>2, <1>3, <1>4, <1>5
  <2>2. Extends(wal, wal') /\ wal' \in WalState
    BY <1>1, <1>2, SavedExtends DEF SoundLog
  <2> QED
    BY <1>1, <1>11, <2>1, <2>2, WrittenStays
<1> QED
  BY <1>9, <1>10, <1>12, <1>13 DEF RecInv

\* A decision that was logged is saved and handed to the application once more.
LEMMA ReplayCommitKeeps ==
  ASSUME RecInv, pc = "replay", iter # <<>>, ReplayCommit, chain_height' = chain_height
  PROVE  RecInv'
<1> DEFINE c == Head(iter).msg
           w == SaveCommit(c)
           done == ~Outdated(c.height) /\ c.proposal \in block_origin_cache /\ Provable(c)
<1>1. /\ RecTypeOK /\ EngineInv /\ LogInv /\ WriteAhead /\ SoundLog(wal)
      /\ core \in CoreState /\ votes \in VoteCollector /\ proof \in Proof \cup {NoProof}
      /\ commits \in Seq(Commit)
  BY DEF RecInv, LogInv, RecTypeOK
<1>2. /\ Head(iter).type = "commit" /\ LoopOn /\ wal' = w
      /\ UNCHANGED <<alive, chain, blocks, caches, bft_recv, async_recv, core, transmitted>>
      /\ votes' = votes \/ votes' = Looked(votes, c.height, c.round)
      /\ proof' = IF done THEN Generated(c) ELSE proof
      /\ commits' = commits \/ (done /\ commits' = Append(commits, Committed(c)))
  BY ReplayGoesOnLoops DEF ReplayCommit, Committed
<1>3. /\ c \in BftCommit /\ Supported(c) /\ c.height = Base /\ Base <= wal.current
      /\ Record("commit", c) \in Complete(wal.files[c.height]) /\ Base \in 0 .. MaxHeight + 2
  <2>1. /\ Head(iter) \in LogRecord /\ Head(iter) \in Complete(wal.files[Base])
        /\ Logged(Head(iter), Base) /\ Base <= wal.current /\ Base \in 0 .. MaxHeight + 2
    BY <1>2, LoadedRecord
  <2>2. c \in BftCommit /\ Head(iter) = Record("commit", c)
    BY <1>2, <2>1, RecordHolds
  <2>3. Supported(c) /\ c.height = Base
    BY <1>2, <2>1 DEF Logged
  <2> QED
    BY <2>1, <2>2, <2>3
<1> HIDE DEF c
<1>4. Saved(wal, w) /\ c.height \in Heights /\ c.round \in Rounds
  BY <1>1, <1>3, CommitRecorded DEF BftCommit
<1>5. Record("commit", c) \in Complete(w.files[c.height])
  BY <1>3, <1>4 DEF Saved
<1> HIDE DEF w
<1>6. votes' \in VoteCollector /\ votes'.pairs = votes.pairs
  BY <1>1, <1>2, <1>4, LookedType, CollectorGrows
<1>7. proof' \in Proof \cup {NoProof}
  BY <1>1, <1>2, <1>3, GeneratedType
<1>8. SameCore /\ core' \in CoreState
  BY <1>1, <1>2 DEF SameCore
<1>9. CASE commits' = commits
  <2>1. /\ verified_block' \in UNION {[S -> BOOLEAN] : S \in SUBSET Hashes}
        /\ block_origin_cache' \in SUBSET Hashes /\ async_recv' \in Seq(AsyncMsg)
        /\ transmitted' \in SUBSET Transmission
    BY <1>1, <1>2 DEF RecTypeOK, blocks
  <2> QED
    BY <1>2, <1>4, <1>6, <1>7, <1>8, <1>9, <2>1, SilentStep
<1>10. CASE done /\ commits' = Append(commits, Committed(c))
  <2>1. c.height <= wal.current
    BY <1>3
  <2>2. /\ commits' \in Seq(Commit) /\ CommitsVerify'
        /\ \A k \in DOMAIN commits' :
             \/ k \in DOMAIN commits /\ commits'[k] = commits[k]
             \/ /\ commits'[k].height <= wal.current
                /\ \E e \in Complete(wal'.files[commits'[k].height]) :
                     e.type = "commit" /\ e.msg.proposal = commits'[k].result
    BY <1>2, <1>3, <1>4, <1>5, <1>10, <2>1, CommitHandedOver
  <2>3. SoundLog(wal') /\ Extends(wal, wal') /\ wal' \in WalState
    BY <1>1, <1>2, <1>4, SavedExtends DEF Saved, SoundLog
  <2>4. RecTypeOK'
    BY <1>1, <1>2, <1>6, <1>7, <2>2, <2>3, LoopType DEF RecTypeOK, chain, blocks
  <2>5. EngineInv'
    BY <1>1, <1>2, <1>6, <2>2 DEF EngineInv, AuthorityTracksChain, CoreBehind,
       CountedVotersAuthorised, SoundOutputs, Supported, OutputsReached, HonestCollector, chain
  <2>6. LogInv'
    <3>1. pc' = "replay" => /\ pc = "replay" /\ consensus_power' = consensus_power
                            /\ iter' = iter \/ (iter # <<>> /\ iter' = Tail(iter))
      BY <1>2 DEF LoopOn, chain
    <3> QED
      BY <1>1, <1>2, <1>4, <2>2, <3>1, SavedKeeps DEF chain
  <2>7. WriteAhead'
    BY <1>1, <1>2, <2>2, <2>3, WrittenStays
  <2> QED
    BY <2>4, <2>5, <2>6, <2>7 DEF RecInv
<1> QED
  BY <1>2, <1>9, <1>10

LEMMA ReplayKeeps ==
  ASSUME RecInv, ReplayRecord \/ ReplayDone, UNCHANGED recovery
  PROVE  RecInv'
<1>1. pc = "replay" /\ chain_height' = chain_height
  BY DEF ReplayRecord, ReplayDone, recovery
<1>2. CASE ReplayRecord
  <2>1. iter # <<>>
    BY <1>2 DEF ReplayRecord
  <2>2. ReplaySignedVote => wal' = wal
    BY DEF ReplaySignedVote
  <2>3. ReplayOwn => Head(iter).type = "proposal" \/ Head(iter).type = "vote"
    BY DEF ReplayOwn
  <2> QED
    BY <1>1, <1>2, <2>1, <2>2, <2>3, ReplayUnreadableKeeps, ReplayAnswerKeeps, ReplayStatusKeeps,
       ReplayVoteKeeps, ReplayProposalKeeps, ReplayOwnVoteKeeps, ReplayCommitKeeps DEF ReplayRecord
<1>3. CASE ReplayDone
  <2>1. /\ LoopOn /\ wal' = wal /\ alive' = alive /\ block_origin_cache' = block_origin_cache
        /\ UNCHANGED <<chain, caches, votes, proof, verified_block, core, history>>
        /\ async_recv' = async_recv /\ bft_recv' = bft_recv
    BY <1>3 DEF ReplayDone, LoopOn, blocks
  <2>2. Saved(wal, wal) /\ block_origin_cache \in SUBSET Hashes
    BY NothingSaved DEF RecInv, LogInv, RecTypeOK
  <2> QED
    BY <1>1, <2>1, <2>2, QuietKeeps
<1> QED
  BY <1>2, <1>3

-----------------------------------------------------------------------------
(* A new process *)

\* Consensus::new: what it starts from is well formed, and trivially in step.
LEMMA Restarts ==
  ASSUME NEW w, Reboot(w)
  PROVE  /\ height' \in Heights /\ authority' \in AuthorityManage /\ consensus_power' = FALSE
         /\ votes' \in VoteCollector /\ proof' = NoProof /\ alive' \in BOOLEAN
         /\ verified_block' \in UNION {[S -> BOOLEAN] : S \in SUBSET Hashes}
         /\ block_origin_cache' \in SUBSET Hashes
         /\ proposal_cache' \in [Heights -> Seq(ProposalMsg)]
         /\ vote_cache' \in [Heights -> Seq(SignedVote)]
         /\ bft_recv' \in Seq(CoreOutput) /\ async_recv' \in Seq(AsyncMsg)
         /\ core' \in CoreState /\ core'.height = height'
         /\ AuthorityTracksChain' /\ CoreBehind' /\ CountedVotersAuthorised'
         /\ SoundOutputs' /\ OutputsReached' /\ HonestCollector'
<1>1. /\ 0 \in Heights /\ <<>> \in Seq(Nodes) /\ <<>> \in Seq(Heights) /\ <<>> \in Seq(Rounds)
      /\ AuthAt[0] = <<>>
  BY BoundsAssumption, ChainAssumption DEF Heights
<1>2. /\ height' = 0 /\ authority' = InitAuthority /\ consensus_power' = FALSE
      /\ votes' = EmptyCollector /\ core' = InitCore /\ bft_recv' = <<>> /\ async_recv' = <<>>
      /\ verified_block' = NoVerdicts /\ block_origin_cache' = {} /\ proof' = NoProof
      /\ alive' = TRUE
  BY DEF Reboot
<1>3. authority' \in AuthorityManage /\ core' \in CoreState /\ votes' \in VoteCollector
  BY <1>1, <1>2 DEF InitAuthority, AuthorityManage, InitCore, CoreState, EmptyCollector,
                    VoteCollector
<1>4. verified_block' \in UNION {[S -> BOOLEAN] : S \in SUBSET Hashes}
  <2>1. NoVerdicts \in [{} -> BOOLEAN]
    BY DEF NoVerdicts
  <2> QED
    BY <1>2, <2>1
<1>5. /\ proposal_cache' \in [Heights -> Seq(ProposalMsg)]
      /\ vote_cache' \in [Heights -> Seq(SignedVote)]
  <2>1. <<>> \in Seq(ProposalMsg) /\ <<>> \in Seq(SignedVote)
    OBVIOUS
  <2> QED
    BY <2>1 DEF Reboot
<1>6. /\ authority'.authorities = <<>> /\ authority'.authorities_old = <<>>
      /\ authority'.authority_h_old = 0
      /\ core'.height = 0 /\ core'.authority = <<>> /\ core'.votes = {} /\ core'.running = FALSE
  BY <1>2 DEF InitAuthority, InitCore
<1>7. AuthorityTracksChain' /\ CoreBehind' /\ CountedVotersAuthorised'
  <2>1. AuthorityTracksChain'
    BY <1>1, <1>2, <1>6 DEF AuthorityTracksChain
  <2>2. CountedVotersAuthorised'
    BY <1>6 DEF CountedVotersAuthorised
  <2>3. ~consensus_power' /\ core'.authority = AuthAt[core'.height]
    BY <1>1, <1>2, <1>6
  <2>4. core'.running = consensus_power'
    BY <1>2, <1>6
  <2>5. core'.height <= height' /\ ~(core'.height < height') /\ \A v \in core'.votes : v.height <= height'
    <3>1. core'.height = 0 /\ height' = 0 /\ core'.votes = {}
      BY <1>2, <1>6
    <3> QED
      BY <3>1
  <2>6. CoreBehind'
    BY <2>3, <2>4, <2>5 DEF CoreBehind
  <2> QED
    BY <2>1, <2>2, <2>6
<1>8. SoundOutputs' /\ OutputsReached' /\ HonestCollector'
  <2>1. \A i \in DOMAIN bft_recv' : FALSE
    BY <1>2
  <2>2. votes'.pairs = {}
    BY <1>2 DEF EmptyCollector
  <2> QED
    BY <2>1, <2>2 DEF SoundOutputs, OutputsReached, HonestCollector
<1>9. bft_recv' \in Seq(CoreOutput) /\ async_recv' \in Seq(AsyncMsg)
  BY <1>2
<1> QED
  BY <1>1, <1>2, <1>3, <1>4, <1>5, <1>6, <1>7, <1>8, <1>9

\* A new process finds a log that is as far as the chain it is told of.
LEMMA RebootKeeps ==
  ASSUME RecInv, NEW w, Saved(wal, w), Reboot(w), chain_height' \in Heights,
         wal.current <= chain_height' + 1,
         commits' \in Seq(Commit), CommitsVerify', transmitted' = transmitted,
         \A k \in DOMAIN commits' :
           \/ k \in DOMAIN commits /\ commits'[k] = commits[k]
           \/ /\ commits'[k].height <= wal.current
              /\ \E e \in Complete(w.files[commits'[k].height]) :
                   e.type = "commit" /\ e.msg.proposal = commits'[k].result
  PROVE  RecInv'
<1>1. /\ RecTypeOK /\ LogInv /\ WriteAhead /\ SoundLog(wal) /\ SoundLog(w)
      /\ w.current = wal.current
  BY DEF RecInv, LogInv, Saved
<1>2. /\ w \in WalState /\ w.current \in Heights /\ w.current \in 0 .. MaxHeight + 2
  BY <1>1, WalHeights DEF SoundLog, WalState
<1>3. /\ wal' = [w EXCEPT !.open = {w.current}] /\ pc' = "replay" /\ height' = 0
      /\ iter' = Load(w.files, w.current) /\ consensus_power' = FALSE
  BY DEF Reboot
<1>4. wal'.files = w.files /\ wal'.current = w.current /\ wal'.open = {w.current}
  BY <1>2, <1>3 DEF WalState
<1>5. SoundLog(wal')
  <2>1. wal' \in WalState
    BY <1>2, <1>3 DEF WalState
  <2> QED
    BY <1>1, <1>4, <2>1 DEF SoundLog
<1>6. iter' \in Seq({Junk} \cup Complete(w.files[w.current]))
  BY <1>1, <1>3, LoadSound
<1>7. LogInv'
  <2>1. Base' = w.current
    BY <1>3, <1>4 DEF Base
  <2>2. \A k \in DOMAIN commits' : commits'[k].height <= wal'.current
    BY <1>1, <1>4 DEF LogInv
  <2>3. iter' \in Seq({Junk} \cup Complete(wal'.files[Base']))
    BY <1>4, <1>6, <2>1
  <2>4. ~consensus_power' /\ height' = 0 /\ wal'.current <= chain_height' + 1
    BY <1>1, <1>3, <1>4
  <2> QED
    BY <1>5, <2>2, <2>3, <2>4 DEF LogInv
<1>8. RecTypeOK'
  <2>1. iter' \in Seq(LogRecord \cup {Junk})
    <3> DEFINE P == {Junk} \cup Complete(w.files[w.current])
               Q == LogRecord \cup {Junk}
    <3>1. P \subseteq Q
      BY <1>1, <1>2, CompleteLogged
    <3>2. iter' \in Seq(P)
      BY <1>6
    <3> HIDE DEF P, Q
    <3>3. iter' \in Seq(Q)
      BY <3>1, <3>2
    <3> QED
      BY <3>3 DEF Q
  <2>2. iter' \in CASE pc' = "proposals" -> Seq(ProposalMsg)
                    [] pc' = "replay" -> Seq(LogRecord \cup {Junk})
                    [] OTHER -> Seq(SignedVote)
    BY <1>3, <2>1
  <2>3. wal' \in WalState /\ wal'.current \in wal'.open
    BY <1>5 DEF SoundLog
  <2>4. transmitted' \in SUBSET Transmission /\ proof' \in Proof \cup {NoProof}
        /\ consensus_power' \in BOOLEAN /\ pc' \in {"select", "proposals", "votes", "replay"}
    BY <1>1, <1>3, Restarts DEF RecTypeOK
  <2> QED
    BY <2>2, <2>3, <2>4, Restarts DEF RecTypeOK
<1>9. EngineInv'
  BY Restarts DEF EngineInv
<1>10. WriteAhead'
  <2>1. Extends(wal, wal')
    <3>1. Extends(wal, w)
      BY <1>1, SavedExtends
    <3> QED
      BY <1>4, <3>1 DEF Extends
  <2>2. \A k \in DOMAIN commits' :
          \/ k \in DOMAIN commits /\ commits'[k] = commits[k]
          \/ \E e \in Complete(wal'.files[commits'[k].height]) :
               e.type = "commit" /\ e.msg.proposal = commits'[k].result
    BY <1>4
  <2> QED
    BY <1>1, <1>5, <2>1, <2>2, WrittenStays DEF SoundLog
<1> QED
  BY <1>7, <1>8, <1>9, <1>10 DEF RecInv

\* The chain the next process is told of is as high as the last one knew.
LEMMA ChainKnown ==
  ASSUME RecInv, commits' \in Seq(Commit),
         \A k \in DOMAIN commits' :
           (k \in DOMAIN commits /\ commits'[k] = commits[k]) \/ commits'[k].height <= wal.current,
         chain_height' = Max({chain_height, Highest(commits')} \cup {h \in 0 .. MaxHeight : h < height})
  PROVE  chain_height' \in Heights /\ wal.current <= chain_height' + 1
<1> DEFINE S == {chain_height, Highest(commits')} \cup {h \in 0 .. MaxHeight : h < height}
<1>1. /\ wal.current \in Heights /\ wal.current \in Nat /\ chain_height \in Heights
      /\ chain_height \in Nat /\ height \in Heights /\ height \in Nat /\ wal.current <= MaxHeight + 1
      /\ chain_height <= MaxHeight + 1 /\ MaxHeight \in Nat
  BY BoundsAssumption DEF RecInv, RecTypeOK, WalState, Heights
<1>2. \A k \in DOMAIN commits' : commits'[k].height <= wal.current
  BY DEF RecInv, LogInv
<1>3. Highest(commits') \in Nat /\ Highest(commits') <= wal.current
  BY <1>1, <1>2, HighestBounded
<1>4. S \subseteq Nat /\ S # {} /\ MaxHeight + 1 \in Nat /\ \A x \in S : x <= MaxHeight + 1
  BY <1>1, <1>3
<1>5. chain_height \in S /\ (height # 0 => height - 1 \in S)
  BY <1>1 DEF Heights
<1>6. chain_height' = Max(S)
  OBVIOUS
<1> HIDE DEF S
<1>7. Max(S) \in S /\ \A x \in S : x <= Max(S)
  BY <1>4, MaxOfBounded
<1>8. chain_height' \in Nat /\ chain_height' <= MaxHeight + 1 /\ chain_height <= chain_height'
      /\ (height # 0 => height - 1 <= chain_height')
  BY <1>4, <1>5, <1>6, <1>7
<1>9. (height = 0 => wal.current <= chain_height + 1) /\ (height = 0 \/ wal.current = height)
  BY DEF RecInv, LogInv
<1>10. wal.current <= chain_height' + 1
  <2>1. CASE height = 0
    BY <1>1, <1>8, <1>9, <2>1
  <2>2. CASE height # 0
    BY <1>1, <1>8, <1>9, <2>2
  <2> QED
    BY <2>1, <2>2
<1> QED
  BY <1>1, <1>8, <1>10 DEF Heights

LEMMA StopsInSaveKeeps ==
  ASSUME RecInv, NEW s \in Saving, NEW n \in 2 .. 3
  PROVE  Saved(wal, Put(wal, s[1], SubSeq(Written(s[2]), 1, n)))
<1> DEFINE o == Head(bft_recv)
<1>1. SoundLog(wal) /\ chain_height \in Nat /\ MaxHeight \in Nat
  BY BoundsAssumption DEF RecInv, LogInv, RecTypeOK, Heights
<1>2. ~Outdated(s[1])
      /\ \/ \E h \in chain_height .. MaxHeight : s = <<h, Record("rich_status", StatusOf(h))>>
         \/ bft_recv # <<>> /\ o.type = "Vote" /\ s = <<o.vote.height, Record("vote", o.vote)>>
         \/ bft_recv # <<>> /\ o.type = "Commit" /\ s = <<o.commit.height, Record("commit", o.commit)>>
  BY DEF Saving
<1>3. ASSUME NEW h \in chain_height .. MaxHeight, s = <<h, Record("rich_status", StatusOf(h))>>
      PROVE  Saved(wal, Put(wal, s[1], SubSeq(Written(s[2]), 1, n)))
  <2>1. h \in 0 .. MaxHeight /\ h <= MaxHeight
    BY <1>1
  <2>2. h \in Heights /\ StatusOf(h) \in Status
    BY <2>1, StatusOfType, WalHeights
  <2>3. Record("rich_status", StatusOf(h)) \in LogRecord
    BY <2>2, RecordTypes
  <2>4. Logged(Record("rich_status", StatusOf(h)), h)
    BY <2>1 DEF Logged, Record
  <2>5. Saved(wal, Put(wal, h, SubSeq(Written(Record("rich_status", StatusOf(h))), 1, n)))
    BY <1>1, <2>2, <2>3, <2>4, SaveSound
  <2> QED
    BY <1>3, <2>5
<1>4. ASSUME bft_recv # <<>>, o.type = "Vote", s = <<o.vote.height, Record("vote", o.vote)>>
      PROVE  Saved(wal, Put(wal, s[1], SubSeq(Written(s[2]), 1, n)))
  <2>1. o.vote \in Vote /\ o.vote.voter = Self
    BY <1>4, OutputNow
  <2> DEFINE v == o.vote
  <2>2. Record("vote", v) \in LogRecord /\ v.height \in Heights
    BY <2>1, RecordTypes DEF Vote
  <2>3. Logged(Record("vote", v), v.height)
    BY <2>1 DEF Logged, Record
  <2> HIDE DEF v
  <2>4. Saved(wal, Put(wal, v.height, SubSeq(Written(Record("vote", v)), 1, n)))
    BY <1>1, <2>2, <2>3, SaveSound
  <2> QED
    BY <1>4, <2>4 DEF v
<1>5. ASSUME bft_recv # <<>>, o.type = "Commit", s = <<o.commit.height, Record("commit", o.commit)>>
      PROVE  Saved(wal, Put(wal, s[1], SubSeq(Written(s[2]), 1, n)))
  <2>1. o.commit \in BftCommit /\ Supported(o.commit) /\ ~Outdated(o.commit.height)
    BY <1>2, <1>5, OutputNow
  <2>2. Saved(wal, Put(wal, o.commit.height, SubSeq(Written(Record("commit", o.commit)), 1, n)))
    BY <1>1, <2>1, CommitRecorded
  <2> QED
    BY <1>5, <2>2
<1> QED
  BY <1>2, <1>3, <1>4, <1>5

LEMMA CrashKeeps ==
  ASSUME RecInv, Crash
  PROVE  RecInv'
<1>1. /\ RecTypeOK /\ SoundLog(wal) /\ commits \in Seq(Commit) /\ CommitsVerify
      /\ chain_height' = Max({chain_height, Highest(commits')} \cup {h \in 0 .. MaxHeight : h < height})
  BY DEF RecInv, EngineInv, LogInv, RecTypeOK, Crash
<1>2. ASSUME UNCHANGED history
      PROVE  /\ commits' \in Seq(Commit) /\ CommitsVerify' /\ transmitted' = transmitted
             /\ \A k \in DOMAIN commits' : k \in DOMAIN commits /\ commits'[k] = commits[k]
             /\ chain_height' \in Heights /\ wal.current <= chain_height' + 1
  <2>1. commits' = commits /\ transmitted' = transmitted
    BY <1>2 DEF history
  <2>2. CommitsVerify'
    BY <1>1, <2>1 DEF CommitsVerify
  <2> QED
    BY <1>1, <2>1, <2>2, ChainKnown
<1>3. CASE StopsBetween
  <2>1. UNCHANGED history /\ Reboot(wal) /\ Saved(wal, wal)
    BY <1>1, <1>3, NothingSaved DEF StopsBetween
  <2> QED
    BY <1>2, <2>1, RebootKeeps
<1>4. CASE StopsInSave
  <2>1. PICK s \in Saving, n \in 2 .. 3 : Reboot(Put(wal, s[1], SubSeq(Written(s[2]), 1, n)))
    BY <1>4 DEF StopsInSave
  <2>2. UNCHANGED history
    BY <1>4 DEF StopsInSave
  <2> DEFINE w == Put(wal, s[1], SubSeq(Written(s[2]), 1, n))
  <2>3. Saved(wal, w) /\ Reboot(w)
    BY <2>1, StopsInSaveKeeps
  <2> HIDE DEF w
  <2> QED
    BY <1>2, <2>2, <2>3, RebootKeeps
<1>5. CASE StopsAfterCommit
  <2> DEFINE c == Head(bft_recv).commit
             w == SaveCommit(c)
             w2 == SaveStatus(w, StatusOf(c.height))
  <2>1. /\ bft_recv # <<>> /\ Head(bft_recv).type = "Commit" /\ ~Outdated(c.height) /\ Provable(c)
        /\ commits' = Append(commits, Committed(c)) /\ transmitted' = transmitted
        /\ Reboot(w) \/ Reboot(w2)
    BY <1>5 DEF StopsAfterCommit, Committed
  <2>2. c \in BftCommit /\ Supported(c) /\ c.height = height /\ wal.current = height
    BY <2>1, OutputNow
  <2> HIDE DEF c
  <2>3. c.height \in wal.open /\ c.height <= wal.current
    <3>1. c.height \in Nat
      BY <2>2, BoundsAssumption DEF BftCommit
    <3> QED
      BY <1>1, <2>2, <3>1 DEF SoundLog
  <2>4. /\ Saved(wal, w) /\ c.height \in Heights /\ c.height \in 0 .. MaxHeight /\ c.height <= MaxHeight
        /\ Record("commit", c) \in Complete(w.files[c.height])
    <3>1. c.height <= MaxHeight
      BY <2>2, BoundsAssumption DEF BftCommit
    <3> QED
      BY <1>1, <2>1, <2>2, <2>3, <3>1, CommitRecorded
  <2> HIDE DEF w
  <2>5. Saved(w, w2)
    <3>1. SoundLog(w)
      BY <2>4 DEF Saved
    <3>2. Record("rich_status", StatusOf(c.height)) \in LogRecord /\ StatusOf(c.height).height = c.height
      BY <2>4, RecordTypes, StatusOfType
    <3>3. Logged(Record("rich_status", StatusOf(c.height)), c.height)
      BY <2>4 DEF Logged, Record
    <3> QED
      BY <2>4, <3>1, <3>2, <3>3, SaveSound DEF SaveStatus
  <2> HIDE DEF w2
  <2>6. ASSUME NEW v, Saved(wal, v), Reboot(v), Record("commit", c) \in Complete(v.files[c.height])
        PROVE  RecInv'
    <3>1. /\ commits' \in Seq(Commit) /\ CommitsVerify'
          /\ \A k \in DOMAIN commits' :
               \/ k \in DOMAIN commits /\ commits'[k] = commits[k]
               \/ /\ commits'[k].height <= wal.current
                  /\ \E e \in Complete(v.files[commits'[k].height]) :
                       e.type = "commit" /\ e.msg.proposal = commits'[k].result
      BY <2>1, <2>2, <2>3, <2>6, CommitHandedOver
    <3>2. chain_height' \in Heights /\ wal.current <= chain_height' + 1
      BY <1>1, <3>1, ChainKnown
    <3> QED
      BY <2>1, <2>6, <3>1, <3>2, RebootKeeps
  <2>7. Saved(wal, w2) /\ Record("commit", c) \in Complete(w2.files[c.height])
    <3>1. Saved(wal, w2)
      BY <2>4, <2>5, SavedTransitive
    <3> QED
      BY <2>4, <2>5, <3>1, WalHeights DEF Saved
  <2> QED
    BY <2>1, <2>4, <2>6, <2>7
<1> QED
  BY <1>3, <1>4, <1>5 DEF Crash

-----------------------------------------------------------------------------
(* The theorems *)

LEMMA RecInitInv == RecInit => RecInv
<1> SUFFICES ASSUME RecInit PROVE RecInv
  OBVIOUS
<1>1. Init /\ wal = [files |-> [h \in 0 .. MaxHeight + 2 |-> <<>>], open |-> {0}, current |-> 0]
      /\ chain_height = 0
  BY DEF RecInit
<1>2. TypeOK /\ DrivenInv /\ pc = "select" /\ height = 0 /\ core.height = 0 /\ bft_recv = <<>>
      /\ votes.pairs = {} /\ commits = <<>> /\ transmitted = {}
  BY <1>1, InitType, InitDriven DEF Init, InitCore, EmptyCollector
<1>3. SoundLog(wal)
  <2>1. 0 \in Heights /\ 0 \in 0 .. MaxHeight + 2 /\ <<>> \in Seq(LogCells(LogRecord))
    BY BoundsAssumption DEF Heights
  <2>2. wal \in WalState /\ wal.current \in wal.open
    BY <1>1, <2>1 DEF WalState
  <2>3. \A x \in 0 .. MaxHeight + 2 : wal.files[x] = <<>>
    BY <1>1
  <2> QED
    BY <2>2, <2>3 DEF SoundLog
<1>4. RecTypeOK
  <2>1. wal \in WalState /\ wal.current \in wal.open /\ chain_height \in Heights
    BY <1>1, <1>3, BoundsAssumption DEF SoundLog, Heights
  <2> QED
    BY <1>2, <2>1 DEF TypeOK, RecTypeOK
<1>5. EngineInv
  <2>1. \A i \in DOMAIN bft_recv : FALSE
    BY <1>2
  <2>2. SoundOutputs /\ OutputsReached /\ HonestCollector
    BY <1>2, <2>1 DEF SoundOutputs, OutputsReached, HonestCollector
  <2>3. CommitsVerify
    BY <1>2 DEF CommitsVerify
  <2> QED
    BY <1>2, <2>2, <2>3 DEF EngineInv, DrivenInv
<1>6. LogInv
  <2>1. wal.current = 0 /\ wal.current <= chain_height + 1
    BY <1>1
  <2>2. \A k \in DOMAIN commits : commits[k].height <= wal.current
    BY <1>2
  <2> QED
    BY <1>2, <1>3, <2>1, <2>2 DEF LogInv
<1>7. WriteAhead
  BY <1>2 DEF WriteAhead
<1> QED
  BY <1>4, <1>5, <1>6, <1>7 DEF RecInv

LEMMA RecNextInv == RecInv /\ [RecNext]_rvars => RecInv'
<1> SUFFICES ASSUME RecInv, [RecNext]_rvars PROVE RecInv'
  OBVIOUS
<1>1. CASE RecNext
  BY <1>1, RunKeeps, ReplayKeeps, SaveFailsKeeps, CrashKeeps DEF RecNext
<1>2. CASE UNCHANGED rvars
  <2>1. wal' = wal /\ chain_height' = chain_height /\ UNCHANGED vars
    BY <1>2 DEF rvars, recovery
  <2>2. Saved(wal, wal)
    BY NothingSaved DEF RecInv, LogInv
  <2>3. /\ LoopOn /\ alive' = alive /\ block_origin_cache' = block_origin_cache
        /\ UNCHANGED <<chain, caches, votes, proof, verified_block, core, history>>
        /\ async_recv' = async_recv /\ bft_recv' = bft_recv
    BY <2>1 DEF vars, loop, blocks, LoopOn
  <2>4. block_origin_cache \in SUBSET Hashes
    BY DEF RecInv, RecTypeOK
  <2> QED
    BY <2>1, <2>2, <2>3, <2>4, QuietKeeps
<1> QED
  BY <1>1, <1>2

LEMMA RecoveryInvariant == RecSpec => []RecInv
<1> QED
  BY RecInitInv, RecNextInv, PTL DEF RecSpec

\* The engine, the log and what is read back of it stay well formed, wherever
\* the process ends and whichever save fails.
THEOREM RecoveryTyped == RecSpec => []RecTypeOK
<1>1. RecInv => RecTypeOK
  BY DEF RecInv
<1> QED
  BY <1>1, RecoveryInvariant, PTL

\* No vote leaves the node and no block is handed to the application that the
\* log of its height would not show to the next process: handle_vote and
\* handle_commit save first, and set_height removes only files that are older.
THEOREM LoggedAhead == RecSpec => []WriteAhead
<1>1. RecInv => WriteAhead
  BY DEF RecInv
<1> QED
  BY <1>1, RecoveryInvariant, PTL

\* The log is never behind what the application has committed, so that the
\* next process can't start below its own decisions.
THEOREM LogStaysCurrent == RecSpec => []LogIsCurrent
<1>1. RecInv => LogIsCurrent
  <2> SUFFICES ASSUME RecInv PROVE LogIsCurrent
    OBVIOUS
  <2>1. /\ commits \in Seq(Commit) /\ wal.current \in Nat
        /\ \A k \in DOMAIN commits : commits[k].height <= wal.current
    BY WalHeights DEF RecInv, RecTypeOK, LogInv, WalState
  <2>2. Highest(commits) \in Nat /\ Highest(commits) <= wal.current
    BY <2>1, HighestBounded
  <2> QED
    BY <2>1, <2>2 DEF LogIsCurrent
<1> QED
  BY <1>1, RecoveryInvariant, PTL

\* The votes that the replay hands to the core are of authorities too: a vote
\* logged for one list is judged by the list that the replayed status brings.
THEOREM RestartVotersAuthorised == RecSpec => []CountedVotersAuthorised
<1>1. RecInv => CountedVotersAuthorised
  BY DEF RecInv, EngineInv
<1> QED
  BY <1>1, RecoveryInvariant, PTL

\* load_wal_log leaves the authority lists of the height it leads to.
THEOREM RestartListsTrackChain == RecSpec => []AuthorityTracksChain
<1>1. RecInv => AuthorityTracksChain
  BY DEF RecInv, EngineInv
<1> QED
  BY <1>1, RecoveryInvariant, PTL

\* The proof that a replayed commit is handed over with, made of the votes
\* collected anew, convinces as the first one did.
THEOREM RestartCommitsVerify == RecSpec => []CommitsVerify
<1>1. RecInv => CommitsVerify
  BY DEF RecInv, EngineInv
<1> QED
  BY <1>1, RecoveryInvariant, PTL
=============================================================================
