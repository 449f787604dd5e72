------------------------------ MODULE WalProofs ------------------------------
(***************************************************************************)
(* Proofs about the write-ahead log (Wal): the index file names the last    *)
(* height or one being set, what save wrote lies at the beginning of its    *)
(* file, and the files are a durable log.  The argument is the invariant    *)
(* WalInv.                                                                  *)
(***************************************************************************)
EXTENDS Wal, FormatProofs

\* The index is the text of the height it was last completed with, or empty if
\* it never was, or it can't be read; and set_height never has to shorten it.
IndexInv ==
  /\ up # "running" => step = "idle"
  /\ named <= current_height
  /\ Len(index) <= Len(Digits[current_height])
  /\ Readable(index) => index = Digits[named] \/ (index = <<>> /\ named = 0)
  /\ step \in {"set_len", "write_index", "sync", "open", "remove"} => arg = current_height
  /\ step \in {"sync", "open", "remove"} => index = Digits[arg] /\ named = arg

\* The open files are there; the others are orphans; none is for a height after
\* the next one.
OpenInv ==
  /\ height_fs \subseteq DOMAIN files
  /\ DOMAIN files \ orphans \subseteq height_fs
  /\ \A h \in height_fs : h <= current_height + 1

\* The records that save wrote lie at the beginning of their file, and fill it
\* unless a record of it was torn or is being written.
CellsInv ==
  /\ \A h \in DOMAIN files :
       /\ files[h] \in Seq(LogCells(Records))
       /\ Starts(files[h], saved[h])
       /\ (h \notin torn /\ ~(h = arg /\ step \in {"type", "body"})) => Filled(files[h], saved[h])
  /\ \A h \in FileHeights \ DOMAIN files : saved[h] = <<>> /\ h \notin torn
  /\ step \in {"len", "type", "body"} => arg \in DOMAIN files /\ rec \in Records
  /\ (step = "type" /\ arg \notin torn) =>
       \E file \in Seq(LogCells(Records)) :
         Filled(file, saved[arg]) /\ files[arg] = file \o <<LenCell(rec)>>
  /\ (step = "body" /\ arg \notin torn) =>
       \E file \in Seq(LogCells(Records)) :
         Filled(file, saved[arg]) /\ files[arg] = file \o <<LenCell(rec), TypeCell(rec)>>

WalInv == TypeOK /\ IndexInv /\ OpenInv /\ CellsInv

LEMMA Heights ==
  /\ FileHeights \subseteq Nat /\ 0 \in FileHeights /\ WalHeights \subseteq FileHeights
  /\ OutOfReach \notin Nat /\ Sized(Records)
<1>1. WalHeights \subseteq Nat /\ OutOfReach \notin Nat /\ \A r \in Records : r.len \in Nat
  BY WalAssumption
<1>2. \A h \in WalHeights : h + 1 \in Nat
  BY <1>1
<1>3. FileHeights \subseteq Nat
  <2>1. \A x \in {h + 1 : h \in WalHeights} : x \in Nat
    BY <1>2, Zenon
  <2> DEFINE T == {h + 1 : h \in WalHeights}
  <2>2. \A x \in T : x \in Nat
    BY <2>1
  <2>3. FileHeights = {0, 1} \cup WalHeights \cup T
    BY DEF FileHeights
  <2> HIDE DEF T
  <2>4. {0, 1} \subseteq Nat /\ T \subseteq Nat
    BY <2>2
  <2> QED
    BY <1>1, <2>3, <2>4, Zenon
<1> QED
  BY <1>1, <1>3 DEF FileHeights, Sized

LEMMA TextOf ==
  ASSUME NEW h \in Nat
  PROVE  /\ Digits[h] \in Seq(Char) /\ Readable(Digits[h]) /\ HeightOf(Digits[h]) = h
         /\ Len(Digits[h]) >= 1 /\ Len(Digits[h]) \in Nat
BY DigitsRead, DigitsText

\* A restarted process is at the height the index names.
LEMMA IndexReads ==
  ASSUME TypeOK, IndexInv, Readable(index)
  PROVE  HeightOf(index) = named
<1>1. named \in Nat
  BY Heights DEF TypeOK
<1>2. CASE index = Digits[named]
  BY <1>1, <1>2, TextOf
<1>3. CASE index = <<>> /\ named = 0
  BY <1>3, HeightOfEmpty
<1> QED
  BY <1>2, <1>3 DEF IndexInv

-----------------------------------------------------------------------------
(* The index *)

LEMMA InitIndex == Init => IndexInv
<1> SUFFICES ASSUME Init PROVE IndexInv
  OBVIOUS
<1>1. Len(index) = 0 /\ Len(Digits[0]) \in Nat /\ Len(Digits[0]) >= 1
  BY TextOf DEF Init
<1> QED
  BY <1>1 DEF Init, IndexInv

LEMMA SetLengthIndex ==
  ASSUME TypeOK, IndexInv, SetLength
  PROVE  IndexInv' /\ index' \in Seq(Char)
<1>1. arg = current_height /\ arg \in Nat /\ index \in Seq(Char)
  BY Heights DEF SetLength, At, IndexInv, TypeOK
<1>2. Len(Digits[arg]) \in Nat /\ Len(index) <= Len(Digits[arg])
  BY <1>1, TextOf DEF IndexInv
<1>3. /\ SetLen(index, Len(Digits[arg])) \in Seq(Char)
      /\ Len(SetLen(index, Len(Digits[arg]))) = Len(Digits[arg])
      /\ SetLen(index, Len(Digits[arg])) = index \/ ~Readable(SetLen(index, Len(Digits[arg])))
  BY <1>1, <1>2, SetLenText
<1>4. /\ index' = index \/ index' = SetLen(index, Len(Digits[arg]))
      /\ current_height' = current_height /\ named' = named /\ arg' = arg /\ step' = "write_index" /\ up' = "running"
  BY DEF SetLength, memory, past, At
<1>5. index' \in Seq(Char) /\ Len(index') <= Len(Digits[arg]) /\ (index' = index \/ ~Readable(index'))
  BY <1>1, <1>2, <1>3, <1>4
<1> QED
  BY <1>1, <1>4, <1>5 DEF IndexInv

LEMMA WriteIndexIndex ==
  ASSUME TypeOK, IndexInv, WriteIndex
  PROVE  IndexInv' /\ index' \in Seq(Char)
<1>1. arg = current_height /\ arg \in Nat /\ index \in Seq(Char) /\ current_height' = current_height
  BY Heights DEF WriteIndex, At, IndexInv, TypeOK, memory
<1>2. CASE Goes("sync") /\ index' = Overwrite(index, Digits[arg]) /\ named' = arg
  <2>1. Digits[arg] \in Seq(Char) /\ Len(index) <= Len(Digits[arg])
    BY <1>1, TextOf DEF IndexInv
  <2>2. index' = Digits[arg]
    BY <1>1, <1>2, <2>1, OverwriteText
  <2>3. step' = "sync" /\ arg' = arg /\ named' = arg /\ named' <= current_height' /\ up' = "running"
    BY <1>1, <1>2 DEF Goes, WriteIndex, At
  <2>4. Len(index') <= Len(Digits[arg])
    BY <1>1, <2>2, TextOf
  <2> QED
    BY <1>1, <2>1, <2>2, <2>3, <2>4 DEF IndexInv
<1>3. CASE Fails("write_index") /\ UNCHANGED <<index, named>>
  <2>1. step' = "idle" /\ index' = index /\ named' = named
    BY <1>3 DEF Fails, Ends
  <2> QED
    BY <1>1, <2>1 DEF IndexInv
<1> QED
  BY <1>2, <1>3 DEF WriteIndex

LEMMA NextIndex ==
  ASSUME TypeOK, IndexInv, [Next]_vars
  PROVE  IndexInv' /\ index' \in Seq(Char)
<1> USE DEF vars, disk, memory, call, past
<1>0. index \in Seq(Char) /\ current_height \in Nat /\ named \in Nat
  BY Heights DEF TypeOK
<1>1. ASSUME NEW h \in WalHeights, SetHeight(h)
      PROVE  IndexInv' /\ index' \in Seq(Char)
  <2>1. h \in Nat /\ current_height <= h /\ current_height' = h /\ index' = index /\ named' = named
        /\ step' = "set_len" /\ arg' = h /\ up' = "running"
    BY <1>1, Heights DEF SetHeight, At
  <2>2. Len(Digits[current_height]) <= Len(Digits[h])
    BY <1>0, <2>1, DigitsGrow
  <2>3. Len(Digits[current_height]) \in Nat /\ Len(Digits[h]) \in Nat /\ Len(index) \in Nat
    BY <1>0, <2>1, TextOf
  <2>4. Len(index') <= Len(Digits[h]) /\ named' <= current_height'
    BY <1>0, <2>1, <2>2, <2>3 DEF IndexInv
  <2> QED
    BY <1>0, <2>1, <2>4 DEF IndexInv
<1>2. CASE SetLength
  BY <1>2, SetLengthIndex
<1>3. CASE WriteIndex
  BY <1>3, WriteIndexIndex
<1>4. CASE SyncIndex
  BY <1>0, <1>4 DEF SyncIndex, IndexInv, At, Goes, Fails, Ends
<1>5. CASE OpenFile
  BY <1>0, <1>5 DEF OpenFile, IndexInv, At, Goes, Fails, Ends
<1>6. CASE RemoveFile
  <2>1. index' = index /\ current_height' = current_height /\ named' = named /\ step = "remove"
        /\ up' = up /\ up = "running" /\ ((step' = step /\ arg' = arg) \/ step' = "idle")
    BY <1>6 DEF RemoveFile, At, Returns, Ends
  <2> QED
    BY <1>0, <2>1 DEF IndexInv
<1>7. ASSUME NEW h \in FileHeights, NEW r \in Records, Save(h, r)
      PROVE  IndexInv' /\ index' \in Seq(Char)
  BY <1>0, <1>7 DEF Save, IndexInv, Fails, Ends, At
<1>8. CASE WriteLen
  BY <1>0, <1>8 DEF WriteLen, IndexInv, At, Goes, Fails, Ends
<1>9. CASE WriteType
  BY <1>0, <1>9 DEF WriteType, IndexInv, At, Goes, Fails, Ends
<1>10. CASE WriteBody
  <2>1. index' = index /\ current_height' = current_height /\ named' = named /\ step' = "idle"
    BY <1>10 DEF WriteBody, Returns, Fails, Ends
  <2> QED
    BY <1>0, <2>1 DEF IndexInv
<1>11. CASE Crash
  BY <1>0, <1>11 DEF Crash, IndexInv, Ends
<1>12. CASE Restart
  <2>1. index' = index /\ step' = step /\ arg' = arg
    BY <1>12 DEF Restart
  <2>2. CASE Readable(index)
    <3>1. current_height' = named /\ named' = named
      BY <1>12, <2>2, IndexReads DEF Restart
    <3>2. Len(index) <= Len(Digits[named])
      <4>1. CASE index = Digits[named]
        BY <1>0, <4>1, TextOf
      <4>2. CASE index = <<>> /\ named = 0
        BY <1>0, <4>2, TextOf
      <4> QED
        BY <2>2, <4>1, <4>2 DEF IndexInv
    <3>3. step = "idle"
      BY <1>12 DEF Restart, IndexInv
    <3> QED
      BY <1>0, <2>1, <2>2, <3>1, <3>2, <3>3 DEF IndexInv
  <2>3. CASE ~Readable(index)
    <3>1. current_height' = current_height /\ named' = named /\ step = "idle"
      BY <1>12, <2>3 DEF Restart, IndexInv
    <3> QED
      BY <1>0, <2>1, <3>1 DEF IndexInv
  <2> QED
    BY <2>2, <2>3
<1>13. CASE UNCHANGED vars
  BY <1>0, <1>13 DEF IndexInv
<1> QED
  BY <1>1, <1>2, <1>3, <1>4, <1>5, <1>6, <1>7, <1>8, <1>9, <1>10, <1>11, <1>12, <1>13 DEF Next

-----------------------------------------------------------------------------
(* Types *)

LEMMA InitTyped == Init => TypeOK
<1>1. <<>> \in Seq(Char) /\ <<>> \in Seq(Records)
  OBVIOUS
<1>2. DOMAIN [h \in {0} |-> <<>>] = {0}
  OBVIOUS
<1>3. [h \in FileHeights |-> <<>>] \in [FileHeights -> Seq(Records)]
  BY <1>1
<1> QED
  BY <1>1, <1>2, <1>3, Heights DEF Init, TypeOK, NoRecord

\* What a call leaves behind when it ends.
LEMMA EndsTyped ==
  ASSUME Ends
  PROVE  /\ step' = "idle" /\ arg' \in FileHeights /\ rec' \in Records \cup {NoRecord}
BY Heights DEF Ends

\* The file that is removed is the lowest of the outlived ones.
LEMMA LowestOutlived ==
  ASSUME TypeOK, Outlived(arg) # {}
  PROVE  Min(Outlived(arg)) \in Outlived(arg) /\ Outlived(arg) \subseteq height_fs
<1>1. Outlived(arg) \subseteq height_fs /\ height_fs \subseteq Nat
  BY Heights DEF Outlived, TypeOK
<1>2. \E n \in Outlived(arg) : \A k \in Outlived(arg) : n <= k
  <2> DEFINE T == Outlived(arg)
  <2>1. T \subseteq Nat /\ T # {}
    BY <1>1
  <2> HIDE DEF T
  <2>2. \E n \in T : \A k \in T : n <= k
    BY <2>1, Least
  <2> QED
    BY <2>2 DEF T
<1>3. Min(Outlived(arg)) \in Outlived(arg)
  BY <1>2, Zenon DEF Min
<1> QED
  BY <1>1, <1>3

LEMMA OpenedTyped ==
  ASSUME TypeOK, NEW h \in FileHeights, files' = Opened(h)
  PROVE  DOMAIN files' \subseteq FileHeights
BY DEF TypeOK, Opened

LEMMA NextTyped ==
  ASSUME TypeOK, IndexInv, OpenInv, CellsInv, [Next]_vars
  PROVE  TypeOK'
<1> USE DEF vars, disk, memory, call, past
<1>0. index' \in Seq(Char)
  BY NextIndex
<1>1. ASSUME NEW h \in WalHeights, SetHeight(h) PROVE TypeOK'
  BY <1>0, <1>1, Heights DEF SetHeight, TypeOK
<1>2. CASE SetLength
  BY <1>0, <1>2 DEF SetLength, TypeOK
<1>3. CASE WriteIndex
  <2>1. named' \in FileHeights
    BY <1>3 DEF WriteIndex, TypeOK
  <2>2. step' \in {"sync", "idle"} /\ arg' \in FileHeights /\ rec' \in Records \cup {NoRecord}
    BY <1>3, EndsTyped DEF WriteIndex, TypeOK, Goes, Fails
  <2>3. UNCHANGED <<up, files, memory, saved, torn, orphans>>
    BY <1>3 DEF WriteIndex
  <2> QED
    BY <1>0, <2>1, <2>2, <2>3 DEF TypeOK
<1>4. CASE SyncIndex
  BY <1>0, <1>4, EndsTyped DEF SyncIndex, TypeOK, Goes, Fails
<1>5. CASE OpenFile
  <2>1. DOMAIN files' \subseteq FileHeights /\ height_fs' \subseteq FileHeights
        /\ orphans' \subseteq FileHeights
    BY <1>5, OpenedTyped DEF OpenFile, TypeOK
  <2>2. step' \in {"remove", "idle"} /\ arg' \in FileHeights /\ rec' \in Records \cup {NoRecord}
    BY <1>5, EndsTyped DEF OpenFile, TypeOK, Goes, Fails
  <2>3. UNCHANGED <<up, current_height, named, saved, torn>>
    BY <1>5 DEF OpenFile
  <2> QED
    BY <1>0, <2>1, <2>2, <2>3 DEF TypeOK
<1>6. CASE RemoveFile
  <2>1. CASE Expired(arg) /\ Outlived(arg) # {}
    <3> DEFINE h == Min(Outlived(arg))
    <3>1. CASE /\ height_fs' = height_fs \ {h}
               /\ files' = [x \in DOMAIN files \ {h} |-> files[x]]
               /\ saved' = [saved EXCEPT ![h] = <<>>]
               /\ torn' = torn \ {h} /\ UNCHANGED <<orphans, call, up, current_height, named>>
      <4> HIDE DEF h
      <4>1. DOMAIN files' = DOMAIN files \ {h}
        BY <3>1
      <4>2. <<>> \in Seq(Records) /\ saved \in [FileHeights -> Seq(Records)]
        BY DEF TypeOK
      <4>3. saved' \in [FileHeights -> Seq(Records)]
        <5> DEFINE e == <<>>
        <5>1. e \in Seq(Records) /\ saved' = [saved EXCEPT ![h] = e]
          BY <3>1, <4>2
        <5> HIDE DEF e
        <5> QED
          BY <4>2, <5>1
      <4> QED
        BY <1>0, <3>1, <4>1, <4>3 DEF TypeOK
    <3>2. CASE /\ height_fs' = height_fs \ {h}
               /\ orphans' = orphans \cup {h}
               /\ UNCHANGED <<files, saved, torn, call, up, current_height, named>>
      <4>1. h \in height_fs
        BY <2>1, LowestOutlived
      <4> HIDE DEF h
      <4> QED
        BY <1>0, <3>2, <4>1 DEF TypeOK
    <3> QED
      BY <1>6, <2>1, <3>1, <3>2 DEF RemoveFile
  <2>2. CASE Returns /\ UNCHANGED <<files, height_fs, saved, torn, orphans>>
    <3>1. UNCHANGED <<up, current_height, named>>
      BY <1>6 DEF RemoveFile
    <3> QED
      BY <1>0, <2>2, <3>1, EndsTyped DEF TypeOK, Returns
  <2> QED
    BY <1>6, <2>1, <2>2 DEF RemoveFile
<1>7. ASSUME NEW h \in FileHeights, NEW r \in Records, Save(h, r) PROVE TypeOK'
  <2>1. DOMAIN files' \subseteq FileHeights /\ height_fs' \subseteq FileHeights
        /\ orphans' \subseteq FileHeights
    BY <1>7, OpenedTyped DEF Save, TypeOK
  <2>2. step' \in {"len", "idle"} /\ arg' \in FileHeights /\ rec' \in Records \cup {NoRecord}
    BY <1>7, EndsTyped DEF Save, TypeOK, Fails
  <2>3. UNCHANGED <<up, current_height, named, saved, torn>>
    BY <1>7 DEF Save
  <2> QED
    BY <1>0, <2>1, <2>2, <2>3 DEF TypeOK
<1>8. CASE WriteLen
  <2>1. DOMAIN files' = DOMAIN files
    BY <1>8 DEF WriteLen, Appends
  <2>2. step' \in {"type", "idle"} /\ arg' \in FileHeights /\ rec' \in Records \cup {NoRecord}
    BY <1>8, EndsTyped DEF WriteLen, TypeOK, Goes, Fails
  <2> QED
    BY <1>0, <1>8, <2>1, <2>2 DEF WriteLen, TypeOK
<1>9. CASE WriteType
  <2>1. DOMAIN files' = DOMAIN files
    BY <1>9 DEF WriteType, Appends
  <2>2. step' \in {"body", "idle"} /\ arg' \in FileHeights /\ rec' \in Records \cup {NoRecord}
    BY <1>9, EndsTyped DEF WriteType, TypeOK, Goes, Fails
  <2>3. torn' \subseteq FileHeights
    BY <1>9 DEF WriteType, TypeOK
  <2> QED
    BY <1>0, <1>9, <2>1, <2>2, <2>3 DEF WriteType, TypeOK
<1>10. CASE WriteBody
  <2>1. DOMAIN files' = DOMAIN files
    BY <1>10 DEF WriteBody, Appends
  <2>2. step' = "idle" /\ arg' \in FileHeights /\ rec' \in Records \cup {NoRecord}
    BY <1>10, EndsTyped DEF WriteBody, Returns, Fails
  <2>3. torn' \subseteq FileHeights
    BY <1>10 DEF WriteBody, TypeOK
  <2>4. saved' \in [FileHeights -> Seq(Records)]
    <3>1. arg \in FileHeights /\ rec \in Records /\ saved \in [FileHeights -> Seq(Records)]
      BY <1>10 DEF WriteBody, TypeOK, CellsInv, At
    <3>2. Append(saved[arg], rec) \in Seq(Records)
      BY <3>1
    <3>3. saved' = saved \/ saved' = [saved EXCEPT ![arg] = Append(saved[arg], rec)]
      BY <1>10 DEF WriteBody
    <3> QED
      BY <3>1, <3>2, <3>3
  <2>5. UNCHANGED <<up, current_height, height_fs, named, orphans>>
    BY <1>10 DEF WriteBody
  <2> QED
    BY <1>0, <2>1, <2>2, <2>3, <2>4, <2>5 DEF TypeOK
<1>11. CASE Crash
  BY <1>0, <1>11, EndsTyped DEF Crash, TypeOK
<1>12. CASE Restart
  <2>1. CASE Readable(index)
    <3>1. HeightOf(index) \in FileHeights
      BY <2>1, IndexReads DEF TypeOK
    <3> DEFINE h == HeightOf(index)
    <3>2. /\ up' = "running" /\ current_height' = h /\ named' = h /\ height_fs' = {h}
          /\ files' = Opened(h) /\ orphans' = DOMAIN files \ {h}
          /\ UNCHANGED <<call, saved, torn>>
      BY <1>12, <2>1 DEF Restart
    <3> HIDE DEF h
    <3>3. DOMAIN files' \subseteq FileHeights
      BY <3>1, <3>2, OpenedTyped DEF h
    <3> QED
      BY <1>0, <3>1, <3>2, <3>3 DEF TypeOK, h
  <2>2. CASE ~Readable(index)
    BY <1>0, <1>12, <2>2 DEF Restart, TypeOK
  <2> QED
    BY <2>1, <2>2
<1>13. CASE UNCHANGED vars
  BY <1>0, <1>13 DEF TypeOK
<1> QED
  BY <1>1, <1>2, <1>3, <1>4, <1>5, <1>6, <1>7, <1>8, <1>9, <1>10, <1>11, <1>12, <1>13 DEF Next

-----------------------------------------------------------------------------
(* The open files *)

LEMMA InitOpen == Init => OpenInv
<1> SUFFICES ASSUME Init PROVE OpenInv
  OBVIOUS
<1>1. DOMAIN files = {0} /\ height_fs = {0} /\ current_height = 0
  BY DEF Init
<1> QED
  BY <1>1 DEF OpenInv

LEMMA NextOpen ==
  ASSUME TypeOK, IndexInv, OpenInv, CellsInv, [Next]_vars
  PROVE  OpenInv'
<1> USE DEF vars, disk, memory, call, past
<1>0. current_height \in Nat /\ \A h \in height_fs : h \in Nat
  BY Heights DEF TypeOK
<1>1. ASSUME NEW h \in WalHeights, SetHeight(h) PROVE OpenInv'
  <2>1. h \in Nat /\ current_height <= h /\ current_height' = h /\ UNCHANGED <<files, height_fs, orphans>>
    BY <1>1, Heights DEF SetHeight
  <2>2. \A x \in height_fs : x <= h + 1
    BY <1>0, <2>1 DEF OpenInv
  <2> QED
    BY <2>1, <2>2 DEF OpenInv
<1>2. CASE SetLength
  BY <1>2 DEF SetLength, OpenInv
<1>3. CASE WriteIndex
  BY <1>3 DEF WriteIndex, OpenInv
<1>4. CASE SyncIndex
  BY <1>4 DEF SyncIndex, OpenInv
<1>5. CASE OpenFile
  <2>1. arg = current_height /\ current_height' = current_height
    BY <1>5 DEF OpenFile, At, IndexInv
  <2>2. CASE files' = Opened(arg) /\ height_fs' = height_fs \cup {arg} /\ orphans' = orphans \ {arg}
    <3>1. DOMAIN files' = DOMAIN files \cup {arg}
      BY <2>2 DEF Opened
    <3>2. arg <= current_height + 1
      BY <1>0, <2>1
    <3> QED
      BY <2>1, <2>2, <3>1, <3>2 DEF OpenInv
  <2>3. CASE UNCHANGED <<files, height_fs, orphans>>
    BY <2>1, <2>3 DEF OpenInv
  <2> QED
    BY <1>5, <2>2, <2>3 DEF OpenFile
<1>6. CASE RemoveFile
  <2>1. current_height' = current_height
    BY <1>6 DEF RemoveFile
  <2>2. CASE Expired(arg) /\ Outlived(arg) # {}
    <3> DEFINE h == Min(Outlived(arg))
    <3>1. /\ height_fs' = height_fs \ {h}
          /\ \/ files' = [x \in DOMAIN files \ {h} |-> files[x]] /\ orphans' = orphans
             \/ files' = files /\ orphans' = orphans \cup {h}
             \/ height_fs' = height_fs /\ files' = files /\ orphans' = orphans
      BY <1>6, <2>2 DEF RemoveFile
    <3>2. DOMAIN [x \in DOMAIN files \ {h} |-> files[x]] = DOMAIN files \ {h}
      OBVIOUS
    <3> HIDE DEF h
    <3> QED
      BY <2>1, <3>1, <3>2 DEF OpenInv
  <2>3. CASE UNCHANGED <<files, height_fs, orphans>>
    BY <2>1, <2>3 DEF OpenInv
  <2> QED
    BY <1>6, <2>2, <2>3 DEF RemoveFile
<1>7. ASSUME NEW h \in FileHeights, NEW r \in Records, Save(h, r) PROVE OpenInv'
  <2>1. h \in height_fs \cup {current_height + 1} /\ current_height' = current_height
    BY <1>7 DEF Save
  <2>2. h <= current_height + 1
    BY <1>0, <2>1 DEF OpenInv
  <2>3. CASE files' = Opened(h) /\ height_fs' = height_fs \cup {h} /\ orphans' = orphans \ {h}
    <3>1. DOMAIN files' = DOMAIN files \cup {h}
      BY <2>3 DEF Opened
    <3> QED
      BY <2>1, <2>2, <2>3, <3>1 DEF OpenInv
  <2>4. CASE UNCHANGED <<files, height_fs, orphans>>
    BY <2>1, <2>4 DEF OpenInv
  <2> QED
    BY <1>7, <2>3, <2>4 DEF Save
<1>8. CASE WriteLen \/ WriteType \/ WriteBody
  <2>1. UNCHANGED <<height_fs, current_height, orphans>>
    BY <1>8 DEF WriteLen, WriteType, WriteBody
  <2>2. DOMAIN files' = DOMAIN files
    BY <1>8 DEF WriteLen, WriteType, WriteBody, Appends
  <2> QED
    BY <2>1, <2>2 DEF OpenInv
<1>9. CASE Crash
  BY <1>9 DEF Crash, OpenInv
<1>10. CASE Restart
  <2>1. CASE Readable(index)
    <3> DEFINE h == HeightOf(index)
    <3>1. h \in Nat
      BY <2>1, IndexReads, Heights DEF TypeOK
    <3>2. /\ current_height' = h /\ height_fs' = {h}
          /\ files' = Opened(h) /\ orphans' = DOMAIN files \ {h}
      BY <1>10, <2>1 DEF Restart
    <3> HIDE DEF h
    <3>3. DOMAIN files' = DOMAIN files \cup {h}
      BY <3>2 DEF Opened
    <3> QED
      BY <3>1, <3>2, <3>3 DEF OpenInv
  <2>2. CASE ~Readable(index)
    BY <1>10, <2>2 DEF Restart, OpenInv
  <2> QED
    BY <2>1, <2>2
<1>11. CASE UNCHANGED vars
  BY <1>11 DEF OpenInv
<1> QED
  BY <1>1, <1>2, <1>3, <1>4, <1>5, <1>6, <1>7, <1>8, <1>9, <1>10, <1>11 DEF Next

-----------------------------------------------------------------------------
(* What is in the files *)

LEMMA InitCells == Init => CellsInv
<1> SUFFICES ASSUME Init PROVE CellsInv
  OBVIOUS
<1>1. /\ DOMAIN files = {0} /\ \A h \in DOMAIN files : files[h] = <<>>
      /\ \A h \in FileHeights : saved[h] = <<>>
      /\ torn = {} /\ step = "idle"
  BY DEF Init
<1>2. Filled(<<>>, <<>>) /\ Starts(<<>>, <<>>)
  BY EmptyFile DEF Filled, Starts
<1>3. <<>> \in Seq(LogCells(Records))
  OBVIOUS
<1> QED
  BY <1>1, <1>2, <1>3, Heights DEF CellsInv

\* A step that writes to no file ends no record and begins none.
LEMMA QuietCells ==
  ASSUME TypeOK, CellsInv, UNCHANGED <<files, saved>>,
         step' \notin {"len", "type", "body"},
         torn \subseteq torn',
         torn' \subseteq torn \cup IF step \in {"type", "body"} THEN {arg} ELSE {},
         step \in {"type", "body"} => arg \in torn'
  PROVE  CellsInv'
<1>1. \A h \in DOMAIN files : /\ files[h] \in Seq(LogCells(Records))
                              /\ Starts(files[h], saved[h])
                              /\ h \notin torn' => Filled(files[h], saved[h])
  BY DEF CellsInv
<1>2. \A h \in FileHeights \ DOMAIN files : saved[h] = <<>> /\ h \notin torn'
  <2>1. torn' \subseteq torn \cup DOMAIN files
    BY DEF CellsInv
  <2> QED
    BY <2>1 DEF CellsInv
<1> QED
  BY <1>1, <1>2 DEF CellsInv

\* A file that is opened keeps its content, or is new and empty.
LEMMA OpenedCells ==
  ASSUME TypeOK, CellsInv, NEW h \in FileHeights, files' = Opened(h), UNCHANGED <<saved, torn>>,
         step \notin {"type", "body"}, step' \notin {"type", "body"},
         step' = "len" => arg' = h /\ rec' \in Records
  PROVE  CellsInv'
<1>1. /\ DOMAIN files' = DOMAIN files \cup {h}
      /\ \A x \in DOMAIN files : files'[x] = files[x]
      /\ (h \notin DOMAIN files => files'[h] = <<>>)
  BY DEF Opened
<1>2. Filled(<<>>, <<>>) /\ Starts(<<>>, <<>>) /\ <<>> \in Seq(LogCells(Records))
  BY EmptyFile DEF Filled, Starts
<1>3. \A x \in DOMAIN files' : /\ files'[x] \in Seq(LogCells(Records))
                               /\ Starts(files'[x], saved[x])
                               /\ x \notin torn => Filled(files'[x], saved[x])
  <2> SUFFICES ASSUME NEW x \in DOMAIN files'
               PROVE  /\ files'[x] \in Seq(LogCells(Records))
                      /\ Starts(files'[x], saved[x])
                      /\ x \notin torn => Filled(files'[x], saved[x])
    OBVIOUS
  <2>1. CASE x \in DOMAIN files
    BY <1>1, <2>1 DEF CellsInv
  <2>2. CASE x = h /\ h \notin DOMAIN files
    <3>1. saved[x] = <<>>
      <4>1. \A y \in FileHeights \ DOMAIN files : saved[y] = <<>>
        BY DEF CellsInv
      <4> QED
        BY <2>2, <4>1, Zenon
    <3>2. files'[x] = <<>>
      BY <1>1, <2>2, Zenon
    <3> QED
      BY <1>2, <3>1, <3>2
  <2> QED
    BY <1>1, <2>1, <2>2
<1>4. \A x \in FileHeights \ DOMAIN files' : saved[x] = <<>> /\ x \notin torn
  BY <1>1 DEF CellsInv
<1> QED
  BY <1>1, <1>3, <1>4 DEF CellsInv

\* Cells that are added to the file of a save leave what was saved before.
LEMMA AppendedCells ==
  ASSUME TypeOK, CellsInv, step \in {"len", "type", "body"},
         NEW cells \in Seq(LogCells(Records)), Appends(cells)
  PROVE  /\ arg \in FileHeights /\ arg \in DOMAIN files /\ rec \in Records
         /\ files[arg] \in Seq(LogCells(Records)) /\ saved[arg] \in Seq(Records)
         /\ DOMAIN files' = DOMAIN files
         /\ \A h \in DOMAIN files \ {arg} : files'[h] = files[h]
         /\ files'[arg] = files[arg] \o cells
         /\ files'[arg] \in Seq(LogCells(Records))
         /\ Starts(files'[arg], saved[arg])
<1>1. arg \in FileHeights /\ arg \in DOMAIN files /\ rec \in Records
  BY DEF TypeOK, CellsInv
<1>2. files[arg] \in Seq(LogCells(Records)) /\ Starts(files[arg], saved[arg])
  BY <1>1 DEF CellsInv
<1>3. saved[arg] \in Seq(Records)
  BY <1>1 DEF TypeOK
<1>4. /\ DOMAIN files' = DOMAIN files
      /\ \A h \in DOMAIN files \ {arg} : files'[h] = files[h]
      /\ files'[arg] = files[arg] \o cells
  BY <1>1 DEF Appends
<1>5. Starts(files[arg] \o cells, saved[arg])
  BY <1>2, <1>3, Heights, StartsStays
<1>6. files[arg] \o cells \in Seq(LogCells(Records))
  BY <1>2
<1> QED
  BY <1>1, <1>2, <1>3, <1>4, <1>5, <1>6

\* What is added to a file, saved and torn at its end included, in terms of that
\* file alone.
LEMMA WrittenCells ==
  ASSUME TypeOK, CellsInv, step \in {"len", "type", "body"},
         NEW cells \in Seq(LogCells(Records)), Appends(cells),
         saved' \in [FileHeights -> Seq(Records)],
         \A h \in FileHeights \ {arg} : saved'[h] = saved[h] /\ (h \in torn' <=> h \in torn),
         step' \in {"type", "body"} => arg' = arg /\ rec' = rec,
         step' \in {"type", "body", "idle"},
         Starts(files'[arg], saved'[arg]),
         (arg \notin torn' /\ step' = "idle") => Filled(files'[arg], saved'[arg]),
         (step' = "type" /\ arg \notin torn') =>
           \E file \in Seq(LogCells(Records)) :
             Filled(file, saved'[arg]) /\ files'[arg] = file \o <<LenCell(rec)>>,
         (step' = "body" /\ arg \notin torn') =>
           \E file \in Seq(LogCells(Records)) :
             Filled(file, saved'[arg]) /\ files'[arg] = file \o <<LenCell(rec), TypeCell(rec)>>
  PROVE  CellsInv'
<1>1. /\ arg \in FileHeights /\ arg \in DOMAIN files /\ rec \in Records
      /\ DOMAIN files' = DOMAIN files /\ DOMAIN files \subseteq FileHeights
      /\ \A h \in DOMAIN files \ {arg} : files'[h] = files[h]
      /\ files'[arg] \in Seq(LogCells(Records))
  BY AppendedCells DEF TypeOK
<1>2. \A h \in DOMAIN files' :
         /\ files'[h] \in Seq(LogCells(Records))
         /\ Starts(files'[h], saved'[h])
         /\ (h \notin torn' /\ ~(h = arg' /\ step' \in {"type", "body"})) => Filled(files'[h], saved'[h])
  <2> SUFFICES ASSUME NEW h \in DOMAIN files
               PROVE  /\ files'[h] \in Seq(LogCells(Records))
                      /\ Starts(files'[h], saved'[h])
                      /\ (h \notin torn' /\ ~(h = arg' /\ step' \in {"type", "body"}))
                           => Filled(files'[h], saved'[h])
    BY <1>1
  <2>1. CASE h = arg
    BY <1>1, <2>1
  <2>2. CASE h # arg
    <3>1. files'[h] = files[h] /\ saved'[h] = saved[h] /\ (h \in torn' <=> h \in torn)
      BY <1>1, <2>2
    <3>2. /\ files[h] \in Seq(LogCells(Records)) /\ Starts(files[h], saved[h])
          /\ h \notin torn => Filled(files[h], saved[h])
      BY <2>2 DEF CellsInv
    <3> QED
      BY <3>1, <3>2
  <2> QED
    BY <2>1, <2>2
<1>3. \A h \in FileHeights \ DOMAIN files' : saved'[h] = <<>> /\ h \notin torn'
  <2>1. \A h \in FileHeights \ DOMAIN files : saved[h] = <<>> /\ h \notin torn /\ h # arg
    BY <1>1 DEF CellsInv
  <2>2. \A h \in FileHeights \ DOMAIN files : saved'[h] = saved[h] /\ (h \in torn' <=> h \in torn)
    BY <2>1
  <2> QED
    BY <1>1, <2>1, <2>2
<1> QED
  BY <1>1, <1>2, <1>3 DEF CellsInv

LEMMA WriteLenCells ==
  ASSUME TypeOK, CellsInv, WriteLen
  PROVE  CellsInv'
<1>1. step = "len" /\ UNCHANGED <<saved, torn>>
  BY DEF WriteLen, At, past
<1>2. CASE Goes("type") /\ Appends(<<LenCell(rec)>>)
  <2>1. rec \in Records
    BY <1>1 DEF CellsInv
  <2>2. <<LenCell(rec)>> \in Seq(LogCells(Records))
    BY <2>1, Heights, CellTypes
  <2>3. /\ arg \in FileHeights /\ arg \in DOMAIN files
        /\ files[arg] \in Seq(LogCells(Records)) /\ files'[arg] = files[arg] \o <<LenCell(rec)>>
        /\ Starts(files'[arg], saved[arg])
    BY <1>1, <1>2, <2>2, AppendedCells
  <2>4. arg \notin torn => Filled(files[arg], saved[arg])
    BY <1>1, <2>3 DEF CellsInv
  <2>5. arg \notin torn' =>
          \E file \in Seq(LogCells(Records)) :
            Filled(file, saved'[arg]) /\ files'[arg] = file \o <<LenCell(rec)>>
    BY <1>1, <2>3, <2>4
  <2>6. step' = "type" /\ arg' = arg /\ rec' = rec
    BY <1>2 DEF Goes
  <2>7. saved' \in [FileHeights -> Seq(Records)]
    BY <1>1 DEF TypeOK
  <2> QED
    BY <1>1, <1>2, <2>2, <2>3, <2>5, <2>6, <2>7, WrittenCells
<1>3. CASE Fails("write") /\ UNCHANGED files
  BY <1>1, <1>3, QuietCells DEF Fails, Ends
<1> QED
  BY <1>2, <1>3 DEF WriteLen

LEMMA WriteTypeCells ==
  ASSUME TypeOK, CellsInv, WriteType
  PROVE  CellsInv'
<1>1. step = "type" /\ saved' = saved
  BY DEF WriteType, At
<1>2. CASE Goes("body") /\ Appends(<<TypeCell(rec)>>) /\ UNCHANGED torn
  <2>1. rec \in Records
    BY <1>1 DEF CellsInv
  <2>2. <<TypeCell(rec)>> \in Seq(LogCells(Records)) /\ LenCell(rec) \in LogCells(Records)
        /\ TypeCell(rec) \in LogCells(Records)
    BY <2>1, Heights, CellTypes
  <2>3. /\ arg \in FileHeights /\ arg \in DOMAIN files
        /\ files'[arg] = files[arg] \o <<TypeCell(rec)>>
        /\ Starts(files'[arg], saved[arg])
    BY <1>1, <1>2, <2>2, AppendedCells
  <2>4. ASSUME arg \notin torn'
        PROVE  \E file \in Seq(LogCells(Records)) :
                 Filled(file, saved'[arg]) /\ files'[arg] = file \o <<LenCell(rec), TypeCell(rec)>>
    <3>1. PICK file \in Seq(LogCells(Records)) :
            Filled(file, saved[arg]) /\ files[arg] = file \o <<LenCell(rec)>>
      BY <1>1, <1>2, <2>4 DEF CellsInv
    <3>2. (file \o <<LenCell(rec)>>) \o <<TypeCell(rec)>> = file \o <<LenCell(rec), TypeCell(rec)>>
      BY <2>2
    <3> QED
      BY <1>1, <2>3, <3>1, <3>2
  <2>5. step' = "body" /\ arg' = arg /\ rec' = rec
    BY <1>2 DEF Goes
  <2>6. saved' \in [FileHeights -> Seq(Records)]
    BY <1>1 DEF TypeOK
  <2> QED
    BY <1>1, <1>2, <2>2, <2>3, <2>4, <2>5, <2>6, WrittenCells
<1>3. CASE Fails("write") /\ torn' = torn \cup {arg} /\ UNCHANGED files
  BY <1>1, <1>3, QuietCells DEF Fails, Ends
<1> QED
  BY <1>2, <1>3 DEF WriteType

LEMMA WriteBodyCells ==
  ASSUME TypeOK, CellsInv, WriteBody
  PROVE  CellsInv'
<1>1. step = "body" /\ step' = "idle" /\ arg \in FileHeights /\ rec \in Records
      /\ saved \in [FileHeights -> Seq(Records)]
  BY DEF WriteBody, At, Returns, Fails, Ends, TypeOK, CellsInv
<1>2. /\ Body(rec) \in Seq(LogCells(Records)) /\ Len(Body(rec)) = rec.len /\ rec.len \in Nat
      /\ LenCell(rec) \in LogCells(Records) /\ TypeCell(rec) \in LogCells(Records)
  BY <1>1, Heights, CellTypes DEF Sized
<1>3. CASE /\ Appends(Body(rec)) /\ UNCHANGED torn
           /\ saved' = IF arg \in torn THEN saved ELSE [saved EXCEPT ![arg] = Append(@, rec)]
  <2>1. /\ files'[arg] = files[arg] \o Body(rec) /\ saved[arg] \in Seq(Records)
        /\ Starts(files'[arg], saved[arg])
    BY <1>1, <1>2, <1>3, AppendedCells
  <2>2. CASE arg \in torn
    <3>1. saved' = saved /\ arg \in torn'
      BY <1>3, <2>2
    <3> QED
      BY <1>1, <1>2, <1>3, <2>1, <2>2, <3>1, WrittenCells
  <2>3. CASE arg \notin torn
    <3>1. PICK file \in Seq(LogCells(Records)) :
            Filled(file, saved[arg]) /\ files[arg] = file \o <<LenCell(rec), TypeCell(rec)>>
      BY <1>1, <2>3 DEF CellsInv
    <3>2. files'[arg] = file \o Written(rec)
      <4> DEFINE C == LogCells(Records)
                 x == <<LenCell(rec), TypeCell(rec)>>
                 b == Body(rec)
      <4>1. file \in Seq(C) /\ x \in Seq(C) /\ b \in Seq(C)
        BY <1>2, <3>1
      <4>2. (file \o x) \o b = file \o (x \o b)
        <5> HIDE DEF C, x, b
        <5> QED
          BY ONLY <4>1, ConcatAssociative
      <4>3. x \o b = Written(rec)
        BY DEF Written
      <4>4. files'[arg] = (file \o x) \o b
        BY <2>1, <3>1
      <4> QED
        BY <4>2, <4>3, <4>4
    <3>3. Filled(files'[arg], Append(saved[arg], rec))
      <4>1. /\ Sized(Records) /\ rec \in Records /\ saved[arg] \in Seq(Records)
            /\ file \in Seq(LogCells(Records)) /\ Filled(file, saved[arg])
        BY <1>1, <2>1, <3>1, Heights
      <4>2. Filled(file \o Written(rec), Append(saved[arg], rec))
        BY ONLY <4>1, FilledAppend
      <4> QED
        BY <3>2, <4>2
    <3>4. Append(saved[arg], rec) \in Seq(Records)
      BY <1>1, <2>1
    <3>5. saved' = [saved EXCEPT ![arg] = Append(saved[arg], rec)]
      BY <1>3, <2>3
    <3>6. /\ saved' \in [FileHeights -> Seq(Records)] /\ saved'[arg] = Append(saved[arg], rec)
          /\ \A h \in FileHeights \ {arg} : saved'[h] = saved[h]
      <4> DEFINE s == Append(saved[arg], rec)
      <4>1. s \in Seq(Records) /\ saved' = [saved EXCEPT ![arg] = s]
        BY <3>4, <3>5
      <4> HIDE DEF s
      <4>2. /\ saved' \in [FileHeights -> Seq(Records)] /\ saved'[arg] = s
            /\ \A h \in FileHeights \ {arg} : saved'[h] = saved[h]
        BY <1>1, <4>1
      <4> QED
        BY <4>2 DEF s
    <3>7. Filled(files'[arg], saved'[arg]) /\ Starts(files'[arg], saved'[arg])
      BY <3>3, <3>6 DEF Filled, Starts
    <3> QED
      BY <1>1, <1>2, <1>3, <3>6, <3>7, WrittenCells
  <2> QED
    BY <2>2, <2>3
<1>4. CASE /\ \E n \in 1 .. rec.len - 1 : Appends(SubSeq(Body(rec), 1, n))
           /\ torn' = torn \cup {arg} /\ UNCHANGED saved
  <2>1. PICK n \in 1 .. rec.len - 1 : Appends(SubSeq(Body(rec), 1, n))
    BY <1>4
  <2>2. SubSeq(Body(rec), 1, n) \in Seq(LogCells(Records))
    <3>1. \A i \in 1 .. n : Body(rec)[i] \in LogCells(Records)
      <4>1. \A i \in 1 .. n : i \in 1 .. Len(Body(rec))
        BY <1>2
      <4> DEFINE b == Body(rec)
      <4>2. b \in Seq(LogCells(Records)) /\ \A i \in 1 .. n : i \in 1 .. Len(b)
        BY <1>2, <4>1
      <4> HIDE DEF b
      <4>3. \A i \in 1 .. n : b[i] \in LogCells(Records)
        BY <4>2
      <4> QED
        BY <4>3 DEF b
    <3> DEFINE b == Body(rec)
    <3>2. b \in Seq(LogCells(Records)) /\ n \in 1 .. Len(b) /\ 1 \in 1 .. Len(b)
      BY <1>2
    <3> HIDE DEF b
    <3>3. SubSeq(b, 1, n) \in Seq(LogCells(Records))
      BY <3>2
    <3> QED
      BY <3>3 DEF b
  <2>3. Starts(files'[arg], saved[arg])
    BY <1>1, <2>1, <2>2, AppendedCells
  <2>4. arg \in torn' /\ saved' = saved /\ \A h \in FileHeights \ {arg} : h \in torn' <=> h \in torn
    BY <1>4
  <2> QED
    BY <1>1, <2>1, <2>2, <2>3, <2>4, WrittenCells
<1>5. CASE torn' = torn \cup {arg} /\ UNCHANGED <<files, saved>>
  BY <1>1, <1>5, QuietCells
<1> QED
  BY <1>3, <1>4, <1>5 DEF WriteBody

LEMMA RemoveFileCells ==
  ASSUME TypeOK, CellsInv, RemoveFile
  PROVE  CellsInv'
<1>1. step = "remove" /\ step' \in {"remove", "idle"}
  BY DEF RemoveFile, At, call, Returns, Ends
<1> DEFINE h == Min(Outlived(arg))
<1>2. \/ /\ files' = [x \in DOMAIN files \ {h} |-> files[x]]
         /\ saved' = [saved EXCEPT ![h] = <<>>] /\ torn' = torn \ {h}
      \/ UNCHANGED <<files, saved, torn>>
  BY DEF RemoveFile
<1> HIDE DEF h
<1>3. CASE /\ files' = [x \in DOMAIN files \ {h} |-> files[x]]
           /\ saved' = [saved EXCEPT ![h] = <<>>] /\ torn' = torn \ {h}
  <2>1. DOMAIN files' = DOMAIN files \ {h} /\ \A x \in DOMAIN files' : files'[x] = files[x]
    BY <1>3
  <2>2. /\ \A x \in FileHeights : x # h => saved'[x] = saved[x]
        /\ \A x \in FileHeights : x = h => saved'[x] = <<>>
    <3> DEFINE e == <<>>
    <3>1. saved' = [saved EXCEPT ![h] = e] /\ saved \in [FileHeights -> Seq(Records)]
      BY <1>3 DEF TypeOK
    <3> HIDE DEF e
    <3>2. \A x \in FileHeights : x # h => saved'[x] = saved[x]
      BY <3>1
    <3>3. \A x \in FileHeights : x = h => saved'[x] = e
      BY <3>1
    <3> QED
      BY <3>2, <3>3 DEF e
  <2>3. \A x \in DOMAIN files' : /\ files'[x] \in Seq(LogCells(Records))
                                 /\ Starts(files'[x], saved'[x])
                                 /\ x \notin torn' => Filled(files'[x], saved'[x])
    <3> SUFFICES ASSUME NEW x \in DOMAIN files'
                 PROVE  /\ files'[x] \in Seq(LogCells(Records))
                        /\ Starts(files'[x], saved'[x])
                        /\ x \notin torn' => Filled(files'[x], saved'[x])
      OBVIOUS
    <3>1. x \in DOMAIN files /\ x # h /\ x \in FileHeights /\ files'[x] = files[x]
      BY <2>1 DEF TypeOK
    <3>2. saved'[x] = saved[x] /\ (x \in torn' <=> x \in torn)
      BY <1>3, <2>2, <3>1
    <3>3. /\ files[x] \in Seq(LogCells(Records)) /\ Starts(files[x], saved[x])
          /\ x \notin torn => Filled(files[x], saved[x])
      BY <1>1, <3>1 DEF CellsInv
    <3> QED
      BY <3>1, <3>2, <3>3
  <2>4. \A x \in FileHeights \ DOMAIN files' : saved'[x] = <<>> /\ x \notin torn'
    <3>1. \A x \in FileHeights \ DOMAIN files : saved[x] = <<>> /\ x \notin torn
      BY DEF CellsInv
    <3> SUFFICES ASSUME NEW x \in FileHeights \ DOMAIN files'
                 PROVE  saved'[x] = <<>> /\ x \notin torn'
      OBVIOUS
    <3>2. x = h \/ (x # h /\ x \in FileHeights \ DOMAIN files)
      BY <2>1
    <3> QED
      BY <1>3, <2>2, <3>1, <3>2, Zenon
  <2> QED
    BY <1>1, <2>3, <2>4 DEF CellsInv
<1>4. CASE UNCHANGED <<files, saved, torn>>
  BY <1>1, <1>4, QuietCells
<1> QED
  BY <1>2, <1>3, <1>4

LEMMA NextCells ==
  ASSUME TypeOK, IndexInv, CellsInv, [Next]_vars
  PROVE  CellsInv'
<1> USE DEF vars, disk, memory, call, past
<1>1. ASSUME NEW h \in WalHeights, SetHeight(h) PROVE CellsInv'
  <2>1. step = "idle" /\ step' = "set_len" /\ UNCHANGED <<files, saved, torn>>
    BY <1>1 DEF SetHeight, At
  <2> QED
    BY <2>1, QuietCells
<1>2. CASE SetLength
  <2>1. step = "set_len" /\ step' = "write_index" /\ UNCHANGED <<files, saved, torn>>
    BY <1>2 DEF SetLength, At
  <2> QED
    BY <2>1, QuietCells
<1>3. CASE WriteIndex
  <2>1. step = "write_index" /\ step' \in {"sync", "idle"} /\ UNCHANGED <<files, saved, torn>>
    BY <1>3 DEF WriteIndex, At, Goes, Fails, Ends
  <2> QED
    BY <2>1, QuietCells
<1>4. CASE SyncIndex
  <2>1. step = "sync" /\ step' \in {"open", "idle"} /\ UNCHANGED <<files, saved, torn>>
    BY <1>4 DEF SyncIndex, At, Goes, Fails, Ends
  <2> QED
    BY <2>1, QuietCells
<1>5. CASE OpenFile
  <2>1. step = "open" /\ step' \in {"remove", "idle"} /\ UNCHANGED <<saved, torn>>
        /\ (files' = Opened(arg) \/ UNCHANGED files) /\ arg \in FileHeights
    BY <1>5 DEF OpenFile, At, Goes, Fails, Ends, TypeOK
  <2> QED
    BY <2>1, QuietCells, OpenedCells
<1>6. CASE RemoveFile
  BY <1>6, RemoveFileCells
<1>7. ASSUME NEW h \in FileHeights, NEW r \in Records, Save(h, r) PROVE CellsInv'
  <2>1. step = "idle" /\ UNCHANGED <<saved, torn>>
        /\ \/ files' = Opened(h) /\ step' = "len" /\ arg' = h /\ rec' = r
           \/ UNCHANGED files /\ step' = "idle"
    BY <1>7 DEF Save, At, Fails, Ends
  <2> QED
    BY <2>1, QuietCells, OpenedCells
<1>8. CASE WriteLen
  BY <1>8, WriteLenCells
<1>9. CASE WriteType
  BY <1>9, WriteTypeCells
<1>10. CASE WriteBody
  BY <1>10, WriteBodyCells
<1>11. CASE Crash
  <2>1. step' = "idle" /\ UNCHANGED <<files, saved>>
        /\ torn' = IF step \in {"type", "body"} THEN torn \cup {arg} ELSE torn
    BY <1>11 DEF Crash, Ends
  <2> QED
    BY <2>1, QuietCells
<1>12. CASE Restart
  <2>1. step = "idle" /\ step' = "idle" /\ UNCHANGED <<saved, torn>>
    BY <1>12 DEF Restart, IndexInv
  <2>2. CASE Readable(index)
    <3>1. HeightOf(index) \in FileHeights /\ files' = Opened(HeightOf(index))
      BY <1>12, <2>2, IndexReads DEF Restart, TypeOK
    <3> QED
      BY <2>1, <3>1, OpenedCells
  <2>3. CASE ~Readable(index)
    <3>1. UNCHANGED files
      BY <1>12, <2>3 DEF Restart
    <3> QED
      BY <2>1, <3>1, QuietCells
  <2> QED
    BY <2>2, <2>3
<1>13. CASE UNCHANGED vars
  <2>1. UNCHANGED <<files, saved, torn, step, arg, rec>>
    BY <1>13
  <2> QED
    BY <2>1 DEF CellsInv
<1> QED
  BY <1>1, <1>2, <1>3, <1>4, <1>5, <1>6, <1>7, <1>8, <1>9, <1>10, <1>11, <1>12, <1>13 DEF Next

-----------------------------------------------------------------------------
(* The invariant and what follows from it *)

LEMMA WalInvHolds == Spec => []WalInv
<1>1. Init => WalInv
  BY InitTyped, InitIndex, InitOpen, InitCells DEF WalInv
<1>2. WalInv /\ [Next]_vars => WalInv'
  BY NextTyped, NextIndex, NextOpen, NextCells DEF WalInv
<1> QED
  BY <1>1, <1>2, PTL DEF Spec

\* The files, the index and the call in progress are of the types that
\* src/src/wal.rs gives them, whatever fails and whenever the process ends.
THEOREM LogTyped == Spec => []TypeOK
<1>1. WalInv => TypeOK
  BY DEF WalInv
<1> QED
  BY <1>1, WalInvHolds, PTL

\* Wal::new takes up the height that set_height was last asked for, or the one
\* before it, or fails; no other height is ever read from the index.
THEOREM IndexNamesHeight == Spec => []IndexHonest
<1>1. WalInv => IndexHonest
  BY IndexReads DEF WalInv, IndexHonest
<1> QED
  BY <1>1, WalInvHolds, PTL

\* Wal::load hands back what save wrote, in order and first of all, whatever
\* failed and however often the process ended in between; and nothing else from
\* a file without a torn record.
THEOREM SavedRecordsLoad == Spec => []SavedIsLoaded
<1>1. WalInv => SavedIsLoaded
  <2> SUFFICES ASSUME WalInv, NEW h \in DOMAIN files
               PROVE  /\ IsPrefix(saved[h], Parsed(files[h]))
                      /\ (h \notin torn /\ step \notin {"len", "type", "body"}) =>
                           Parsed(files[h]) = saved[h]
    BY DEF SavedIsLoaded
  <2>1. h \in FileHeights /\ saved[h] \in Seq(Records)
    BY DEF WalInv, TypeOK
  <2>2. /\ files[h] \in Seq(LogCells(Records)) /\ Starts(files[h], saved[h])
        /\ (h \notin torn /\ step \notin {"type", "body"}) => Filled(files[h], saved[h])
    BY DEF WalInv, CellsInv
  <2>3. IsPrefix(saved[h], Parsed(files[h]))
    BY <2>1, <2>2, Heights, StartsRead
  <2>4. Filled(files[h], saved[h]) => Parsed(files[h]) = saved[h]
    BY <2>1, <2>2, Heights, FilledReads
  <2> QED
    BY <2>2, <2>3, <2>4
<1> QED
  BY <1>1, WalInvHolds, PTL

\* When set_height returns, the files this process opened are those of the
\* current height, of the next one, and of DELETE_FILE_INTERVAL before.
THEOREM RemovedInTime == Spec => FilesBounded
<1> DEFINE A == (step = "remove" /\ step' = "idle" /\ up' = "running") =>
                  DOMAIN files' \ orphans' \subseteq
                    {h \in FileHeights : h + DELETE_FILE_INTERVAL >= current_height
                                         /\ h <= current_height + 1}
<1>1. WalInv /\ [Next]_vars => A
  <2> SUFFICES ASSUME WalInv, [Next]_vars, step = "remove", step' = "idle", up' = "running",
                      NEW h \in DOMAIN files' \ orphans'
               PROVE  /\ h \in FileHeights /\ h + DELETE_FILE_INTERVAL >= current_height
                      /\ h <= current_height + 1
    OBVIOUS
  <2>1. RemoveFile
    BY DEF Next, vars, disk, memory, call, past, WalInv, IndexInv, At, SetHeight, SetLength, WriteIndex,
           SyncIndex, OpenFile, Save, WriteLen, WriteType, WriteBody, Crash, Restart
  <2>2. (Expired(arg) => Outlived(arg) = {}) /\ UNCHANGED <<files, orphans>>
    BY <2>1 DEF RemoveFile, call
  <2>3. h \in height_fs /\ h \in FileHeights /\ h \in Nat /\ h <= current_height + 1
        /\ arg = current_height /\ current_height \in Nat
    BY <2>2, Heights DEF WalInv, OpenInv, TypeOK, IndexInv
  <2>4. h + 3 >= current_height
    <3>1. CASE current_height > 3
      <4>1. Outlived(arg) = {}
        BY <2>2, <2>3, <3>1 DEF Expired, DELETE_FILE_INTERVAL
      <4>2. ~(h < current_height - 3)
        BY <2>3, <4>1 DEF Outlived, DELETE_FILE_INTERVAL
      <4> QED
        BY <2>3, <4>2
    <3>2. CASE ~(current_height > 3)
      BY <2>3, <3>2
    <3> QED
      BY <3>1, <3>2
  <2> QED
    BY <2>3, <2>4 DEF DELETE_FILE_INTERVAL
<1>2. [][A]_vars <=> FilesBounded
  BY DEF FilesBounded
<1>3. WalInv /\ [Next]_vars => [A]_vars
  BY <1>1
<1> HIDE DEF A
<1>4. Spec => [][A]_vars
  BY <1>3, WalInvHolds, PTL DEF Spec
<1> QED
  BY <1>2, <1>4

-----------------------------------------------------------------------------
(* The durable log *)

\* What a process that is started would read.
HeightRead == IF Readable(index) THEN HeightOf(index) ELSE OutOfReach
LogsRead == [h \in DOMAIN files |-> Parsed(files[h])]

LEMMA DurableStutters ==
  ASSUME HeightRead' = HeightRead, LogsRead' = LogsRead
  PROVE  [Durable!DurableNext]_(Durable!logVars)
BY DEF Durable!logVars, HeightRead, LogsRead

LEMMA DurableAdds ==
  ASSUME HeightRead' = HeightRead, NEW h \in DOMAIN files, NEW e \in Readings(Records),
         LogsRead' = [LogsRead EXCEPT ![h] = Append(@, e)]
  PROVE  [Durable!DurableNext]_(Durable!logVars)
<1>1. h \in DOMAIN LogsRead
  BY DEF LogsRead
<1>2. Durable!Add(h, e)
  BY DEF Durable!Add, HeightRead, LogsRead
<1> QED
  BY <1>1, <1>2 DEF Durable!DurableNext, Readings, LogsRead

LEMMA DurableOpens ==
  ASSUME HeightRead' = HeightRead, NEW h, h \notin DOMAIN files,
         LogsRead' = [x \in DOMAIN LogsRead \cup {h} |-> IF x = h THEN <<>> ELSE LogsRead[x]]
  PROVE  [Durable!DurableNext]_(Durable!logVars)
<1>1. h \notin DOMAIN LogsRead /\ h \in DOMAIN LogsRead'
  BY DEF LogsRead
<1>2. Durable!Open(h)
  BY <1>1 DEF Durable!Open, HeightRead, LogsRead
<1> QED
  BY <1>1, <1>2 DEF Durable!DurableNext, LogsRead

LEMMA DurableForgets ==
  ASSUME HeightRead' = HeightRead, HeightRead # OutOfReach, NEW h \in DOMAIN files,
         h + DELETE_FILE_INTERVAL < HeightRead,
         LogsRead' = [x \in DOMAIN LogsRead \ {h} |-> LogsRead[x]]
  PROVE  [Durable!DurableNext]_(Durable!logVars)
<1>1. h \in DOMAIN LogsRead
  BY DEF LogsRead
<1>2. Durable!Forget(h)
  BY DEF Durable!Forget, HeightRead, LogsRead
<1> QED
  BY <1>1, <1>2 DEF Durable!DurableNext, LogsRead

LEMMA DurableLeaves ==
  ASSUME HeightRead # OutOfReach, HeightRead' = OutOfReach, LogsRead' = LogsRead
  PROVE  [Durable!DurableNext]_(Durable!logVars)
<1>1. Durable!Leave
  BY DEF Durable!Leave, HeightRead, LogsRead
<1> QED
  BY <1>1 DEF Durable!DurableNext

LEMMA DurableMoves ==
  ASSUME HeightRead' # OutOfReach, HeightRead # OutOfReach => HeightRead < HeightRead',
         LogsRead' = LogsRead
  PROVE  [Durable!DurableNext]_(Durable!logVars)
<1>1. Durable!Move(HeightRead')
  BY DEF Durable!Move, HeightRead, LogsRead
<1> QED
  BY <1>1 DEF Durable!DurableNext, HeightRead

LEMMA SameFiles == files' = files => LogsRead' = LogsRead
BY DEF LogsRead

LEMMA SameIndex == index' = index => HeightRead' = HeightRead
BY DEF HeightRead

\* Opening a file starts a log, or changes none.
LEMMA OpensDurable ==
  ASSUME NEW h \in FileHeights, files' = Opened(h), index' = index
  PROVE  [Durable!DurableNext]_(Durable!logVars)
<1>1. HeightRead' = HeightRead
  BY SameIndex
<1>2. CASE h \in DOMAIN files
  <2>1. files' = [x \in DOMAIN files |-> files[x]]
    BY <1>2 DEF Opened
  <2>2. LogsRead' = LogsRead
    BY <2>1 DEF LogsRead
  <2> QED
    BY <1>1, <2>2, DurableStutters
<1>3. CASE h \notin DOMAIN files
  <2>1. /\ DOMAIN files' = DOMAIN files \cup {h}
        /\ \A x \in DOMAIN files : files'[x] = files[x]
        /\ files'[h] = <<>>
    BY <1>3 DEF Opened
  <2>2. Parsed(<<>>) = <<>>
    <3>1. <<>> \in Seq(LogCells(Records)) /\ <<>> \in Seq(Records)
      OBVIOUS
    <3> QED
      BY <3>1, EmptyFile, Heights, FilledReads
  <2>3. \A x \in DOMAIN files \cup {h} :
           Parsed(files'[x]) = IF x = h THEN <<>> ELSE LogsRead[x]
    BY <1>3, <2>1, <2>2 DEF LogsRead
  <2>4. LogsRead' = [x \in DOMAIN files \cup {h} |-> Parsed(files'[x])]
    BY <2>1 DEF LogsRead
  <2>5. LogsRead' = [x \in DOMAIN files \cup {h} |-> IF x = h THEN <<>> ELSE LogsRead[x]]
    BY <2>3, <2>4, Zenon
  <2>6. DOMAIN LogsRead = DOMAIN files
    BY DEF LogsRead
  <2> QED
    BY <1>1, <1>3, <2>5, <2>6, DurableOpens
<1> QED
  BY <1>2, <1>3

\* Writing to a file adds a record to its log, or changes none.
LEMMA AppendsDurable ==
  ASSUME TypeOK, CellsInv, step \in {"len", "type", "body"}, index' = index,
         NEW cells \in Seq(LogCells(Records)), Appends(cells),
         Len(cells) <= 1 \/ \A i \in 1 .. Len(cells) : cells[i].kind # "len"
  PROVE  [Durable!DurableNext]_(Durable!logVars)
<1>1. /\ arg \in DOMAIN files /\ files[arg] \in Seq(LogCells(Records))
      /\ DOMAIN files' = DOMAIN files
      /\ \A h \in DOMAIN files \ {arg} : files'[h] = files[h]
      /\ files'[arg] = files[arg] \o cells
  BY AppendedCells
<1>2. HeightRead' = HeightRead
  BY SameIndex
<1>3. /\ LogsRead' = [h \in DOMAIN files |-> Parsed(files'[h])]
      /\ LogsRead = [h \in DOMAIN files |-> Parsed(files[h])]
  BY <1>1 DEF LogsRead
<1>4. \/ Parsed(files'[arg]) = Parsed(files[arg])
      \/ \E e \in Readings(Records) : Parsed(files'[arg]) = Append(Parsed(files[arg]), e)
  BY <1>1, Heights, CellsAdded
<1>5. CASE Parsed(files'[arg]) = Parsed(files[arg])
  <2>1. \A h \in DOMAIN files : Parsed(files'[h]) = Parsed(files[h])
    BY <1>1, <1>5
  <2>2. LogsRead' = LogsRead
    BY <1>3, <2>1
  <2> QED
    BY <1>2, <2>2, DurableStutters
<1>6. ASSUME NEW e \in Readings(Records), Parsed(files'[arg]) = Append(Parsed(files[arg]), e)
      PROVE  [Durable!DurableNext]_(Durable!logVars)
  <2> DEFINE s == Append(Parsed(files[arg]), e)
  <2>1. \A h \in DOMAIN files : Parsed(files'[h]) = IF h = arg THEN s ELSE Parsed(files[h])
    BY <1>1, <1>6
  <2>2. LogsRead[arg] = Parsed(files[arg]) /\ DOMAIN LogsRead = DOMAIN files
    BY <1>1, <1>3
  <2>3. LogsRead' = [LogsRead EXCEPT ![arg] = s]
    <3> HIDE DEF s
    <3> QED
      BY <1>1, <1>3, <2>1
  <2>4. LogsRead' = [LogsRead EXCEPT ![arg] = Append(@, e)]
    BY <2>2, <2>3
  <2> QED
    BY <1>1, <1>2, <2>4, DurableAdds
<1> QED
  BY <1>4, <1>5, <1>6

LEMMA SetLengthDurable ==
  ASSUME WalInv, SetLength
  PROVE  [Durable!DurableNext]_(Durable!logVars)
<1>1. files' = files /\ (index' = index \/ index' = SetLen(index, Len(Digits[arg])))
  BY DEF SetLength
<1>2. arg \in Nat /\ index \in Seq(Char) /\ Len(index) <= Len(Digits[arg]) /\ Len(Digits[arg]) \in Nat
  <2>1. arg \in Nat /\ arg = current_height /\ index \in Seq(Char)
    BY Heights DEF WalInv, TypeOK, IndexInv, SetLength, At
  <2> QED
    BY <2>1, TextOf DEF WalInv, IndexInv
<1>3. index' = index \/ ~Readable(index')
  BY <1>1, <1>2, SetLenText
<1>4. LogsRead' = LogsRead
  BY <1>1, SameFiles
<1>5. CASE index' = index
  BY <1>4, <1>5, SameIndex, DurableStutters
<1>6. CASE ~Readable(index')
  <2>1. HeightRead' = OutOfReach
    BY <1>6 DEF HeightRead, Readable
  <2> QED
    BY <1>4, <2>1, DurableStutters, DurableLeaves
<1> QED
  BY <1>3, <1>5, <1>6

LEMMA WriteIndexDurable ==
  ASSUME WalInv, WriteIndex
  PROVE  [Durable!DurableNext]_(Durable!logVars)
<1>1. files' = files /\ (index' = index \/ index' = Overwrite(index, Digits[arg]))
  BY DEF WriteIndex
<1>2. arg \in Nat /\ arg = current_height /\ index \in Seq(Char) /\ named \in Nat /\ named <= arg
      /\ Digits[arg] \in Seq(Char) /\ Len(index) <= Len(Digits[arg])
  <2>1. arg \in Nat /\ arg = current_height /\ index \in Seq(Char) /\ named \in Nat
    BY Heights DEF WalInv, TypeOK, IndexInv, WriteIndex, At
  <2> QED
    BY <2>1, TextOf DEF WalInv, IndexInv
<1>3. LogsRead' = LogsRead
  BY <1>1, SameFiles
<1>4. CASE index' = index
  BY <1>3, <1>4, SameIndex, DurableStutters
<1>5. CASE index' = Overwrite(index, Digits[arg])
  <2>1. index' = Digits[arg]
    BY <1>2, <1>5, OverwriteText
  <2>2. HeightRead' = arg
    <3>1. Readable(Digits[arg]) /\ HeightOf(Digits[arg]) = arg
      BY <1>2, TextOf
    <3>2. HeightRead' = IF Readable(index') THEN HeightOf(index') ELSE OutOfReach
      BY DEF HeightRead, Readable, HeightOf
    <3> QED
      BY <2>1, <3>1, <3>2
  <2>3. HeightRead = named \/ HeightRead = OutOfReach
    BY IndexReads DEF WalInv, HeightRead
  <2>4. HeightRead' # OutOfReach
    BY <1>2, <2>2, Heights
  <2>5. CASE HeightRead = arg
    BY <1>3, <2>2, <2>5, DurableStutters
  <2>6. CASE HeightRead # arg
    <3>1. HeightRead # OutOfReach => HeightRead < HeightRead'
      BY <1>2, <2>2, <2>3, <2>6
    <3> QED
      BY <1>3, <2>4, <3>1, DurableMoves
  <2> QED
    BY <2>5, <2>6
<1> QED
  BY <1>1, <1>4, <1>5

LEMMA RemoveFileDurable ==
  ASSUME WalInv, RemoveFile
  PROVE  [Durable!DurableNext]_(Durable!logVars)
<1>1. HeightRead' = HeightRead
  BY SameIndex DEF RemoveFile
<1>2. CASE UNCHANGED files
  BY <1>1, <1>2, SameFiles, DurableStutters
<1>3. CASE ~UNCHANGED files
  <2> DEFINE h == Min(Outlived(arg))
  <2>1. /\ Outlived(arg) # {} /\ Expired(arg) /\ files' = [x \in DOMAIN files \ {h} |-> files[x]]
    BY <1>3 DEF RemoveFile
  <2>2. h \in Outlived(arg) /\ Outlived(arg) \subseteq height_fs
    BY <2>1, LowestOutlived DEF WalInv
  <2> HIDE DEF h
  <2>3. h \in DOMAIN files /\ h \in Nat /\ arg \in Nat /\ h < arg - DELETE_FILE_INTERVAL
    BY <2>2, Heights DEF Outlived, WalInv, OpenInv, TypeOK
  <2>4. HeightRead = arg
    <3>1. index = Digits[arg]
      BY DEF RemoveFile, At, WalInv, IndexInv
    <3> QED
      BY <2>3, <3>1, TextOf DEF HeightRead
  <2>5. HeightRead # OutOfReach
    BY <2>3, <2>4, Heights
  <2>6. h + DELETE_FILE_INTERVAL < HeightRead
    BY <2>3, <2>4 DEF DELETE_FILE_INTERVAL
  <2>7. LogsRead' = [x \in DOMAIN LogsRead \ {h} |-> LogsRead[x]]
    BY <2>1 DEF LogsRead
  <2> QED
    BY <1>1, <2>3, <2>5, <2>6, <2>7, DurableForgets
<1> QED
  BY <1>2, <1>3

LEMMA NextDurable ==
  ASSUME WalInv, [Next]_vars
  PROVE  [Durable!DurableNext]_(Durable!logVars)
<1> USE DEF vars, disk, memory, call, past
<1>0. ASSUME index' = index, files' = files PROVE [Durable!DurableNext]_(Durable!logVars)
  BY <1>0, SameIndex, SameFiles, DurableStutters
<1>1. ASSUME NEW h \in WalHeights, SetHeight(h) PROVE index' = index /\ files' = files
  BY <1>1 DEF SetHeight
<1>2. CASE SetLength
  BY <1>2, SetLengthDurable
<1>3. CASE WriteIndex
  BY <1>3, WriteIndexDurable
<1>4. CASE SyncIndex
  BY <1>0, <1>4 DEF SyncIndex
<1>5. CASE OpenFile
  <2>1. index' = index /\ arg \in FileHeights /\ (files' = Opened(arg) \/ files' = files)
    BY <1>5 DEF OpenFile, WalInv, TypeOK
  <2> QED
    BY <1>0, <2>1, OpensDurable
<1>6. CASE RemoveFile
  BY <1>6, RemoveFileDurable
<1>7. ASSUME NEW h \in FileHeights, NEW r \in Records, Save(h, r)
      PROVE  [Durable!DurableNext]_(Durable!logVars)
  <2>1. index' = index /\ (files' = Opened(h) \/ files' = files)
    BY <1>7 DEF Save
  <2> QED
    BY <1>0, <2>1, OpensDurable
<1>8. CASE WriteLen
  <2>1. index' = index /\ step = "len" /\ (Appends(<<LenCell(rec)>>) \/ files' = files) /\ rec \in Records
    BY <1>8 DEF WriteLen, At, WalInv, CellsInv
  <2>2. <<LenCell(rec)>> \in Seq(LogCells(Records)) /\ Len(<<LenCell(rec)>>) <= 1
    BY <2>1, Heights, CellTypes
  <2> QED
    BY <1>0, <2>1, <2>2, AppendsDurable DEF WalInv
<1>9. CASE WriteType
  <2>1. index' = index /\ step = "type" /\ (Appends(<<TypeCell(rec)>>) \/ files' = files) /\ rec \in Records
    BY <1>9 DEF WriteType, At, WalInv, CellsInv
  <2>2. <<TypeCell(rec)>> \in Seq(LogCells(Records)) /\ Len(<<TypeCell(rec)>>) <= 1
    BY <2>1, Heights, CellTypes
  <2> QED
    BY <1>0, <2>1, <2>2, AppendsDurable DEF WalInv
<1>10. CASE WriteBody
  <2>1. /\ index' = index /\ step = "body" /\ rec \in Records
        /\ \/ Appends(Body(rec))
           \/ \E n \in 1 .. rec.len - 1 : Appends(SubSeq(Body(rec), 1, n))
           \/ files' = files
    BY <1>10 DEF WriteBody, At, WalInv, CellsInv
  <2> DEFINE b == Body(rec)
             l == rec.len
  <2>2. /\ b \in Seq(LogCells(Records)) /\ Len(b) = l /\ l \in Nat
        /\ \A i \in 1 .. l : b[i].kind # "len"
    BY <2>1, Heights, CellTypes DEF Sized
  <2> HIDE DEF b, l
  <2>3. CASE Appends(b)
    BY <2>1, <2>2, <2>3, AppendsDurable DEF WalInv
  <2>4. ASSUME NEW n \in 1 .. l - 1, Appends(SubSeq(b, 1, n))
        PROVE  [Durable!DurableNext]_(Durable!logVars)
    <3> DEFINE c == SubSeq(b, 1, n)
    <3>1. n \in 1 .. Len(b) /\ 1 \in 1 .. Len(b)
      BY <2>2
    <3>2. c \in Seq(LogCells(Records)) /\ Len(c) = n /\ \A i \in 1 .. n : c[i] = b[i]
      BY <2>2, <3>1
    <3> HIDE DEF c
    <3>3. \A i \in 1 .. Len(c) : c[i].kind # "len"
      BY <2>2, <3>1, <3>2
    <3>4. Appends(c)
      BY <2>4 DEF c
    <3> QED
      BY <2>1, <3>2, <3>3, <3>4, AppendsDurable DEF WalInv
  <2> QED
    BY <1>0, <2>1, <2>3, <2>4 DEF b, l
<1>11. CASE Crash
  BY <1>0, <1>11 DEF Crash
<1>12. CASE Restart
  <2>1. CASE Readable(index)
    <3>1. HeightOf(index) \in FileHeights /\ files' = Opened(HeightOf(index)) /\ index' = index
      BY <1>12, <2>1, IndexReads DEF Restart, WalInv, TypeOK
    <3> QED
      BY <3>1, OpensDurable
  <2>2. CASE ~Readable(index)
    BY <1>0, <1>12, <2>2 DEF Restart
  <2> QED
    BY <2>1, <2>2
<1>13. CASE UNCHANGED vars
  BY <1>0, <1>13
<1> QED
  BY <1>0, <1>1, <1>2, <1>3, <1>4, <1>5, <1>6, <1>7, <1>8, <1>9, <1>10, <1>11, <1>12, <1>13 DEF Next

\* The write-ahead log implements a durable log: whatever fails and whenever
\* the process ends, what a process that is started would read from the files
\* only ever grows by a record at a time, its height never falls, and a log is
\* given up only when the height has left it behind by more than
\* DELETE_FILE_INTERVAL.
THEOREM LogDurable == Spec => IsDurable
<1>1. Init => Durable!DurableInit
  <2> SUFFICES ASSUME Init PROVE Durable!DurableInit
    OBVIOUS
  <2>1. index = <<>> /\ files = [h \in {0} |-> <<>>]
    BY DEF Init
  <2>2. Parsed(<<>>) = <<>>
    <3>1. <<>> \in Seq(LogCells(Records)) /\ <<>> \in Seq(Records)
      OBVIOUS
    <3> QED
      BY <3>1, EmptyFile, Heights, FilledReads
  <2>3. Readable(<<>>) /\ HeightOf(<<>>) = 0
    BY HeightOfEmpty DEF Readable, ToSet
  <2>4. HeightRead = 0
    BY <2>1, <2>3 DEF HeightRead
  <2>5. LogsRead = [h \in {0} |-> <<>>]
    BY <2>1, <2>2 DEF LogsRead
  <2> QED
    BY <2>4, <2>5 DEF Durable!DurableInit, HeightRead, LogsRead
<1>2. WalInv /\ [Next]_vars => [Durable!DurableNext]_(Durable!logVars)
  BY NextDurable
<1> QED
  BY <1>1, <1>2, WalInvHolds, PTL DEF Spec, IsDurable, Durable!DurableSpec
=============================================================================
