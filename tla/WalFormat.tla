----------------------------- MODULE WalFormat -----------------------------
(***************************************************************************)
(* The files of the write-ahead log (src/src/wal.rs): the index file, which *)
(* holds a height as text, and the log file of a height, which holds the    *)
(* saved records one after the other.                                       *)
(***************************************************************************)
EXTENDS Naturals, Sequences, SequencesExt

\* set_height keeps the files of that many heights before the new one.
DELETE_FILE_INTERVAL == 3

-----------------------------------------------------------------------------
(* The index file: a sequence of decimal digits, or of the zero bytes that  *)
(* File::set_len appends.                                                   *)

Nul == 10
Char == 0 .. Nul

\* u64::to_string
Digits[h \in Nat] == IF h < 10 THEN <<h>> ELSE Append(Digits[h \div 10], h % 10)

\* File::set_len cuts the file, or fills it up with zero bytes.
SetLen(s, n) == [i \in 1 .. n |-> IF i \in DOMAIN s THEN s[i] ELSE Nul]

\* write_all at offset 0; what lies behind stays.
Overwrite(s, t) ==
  [i \in DOMAIN s \cup DOMAIN t |-> IF i \in DOMAIN t THEN t[i] ELSE s[i]]

\* str::parse::<u64>; an empty index stands for height 0.
Readable(index) == Nul \notin ToSet(index)
HeightOf(index) ==
  LET value[n \in 0 .. Len(index)] == IF n = 0 THEN 0 ELSE 10 * value[n - 1] + index[n]
  IN  value[Len(index)]

-----------------------------------------------------------------------------
(* A log file.  A record with a body of r.len units is written as its       *)
(* length, its type and its body.  Every unit is a cell; the four bytes of  *)
(* a length are one.  A record is any value with a field len.               *)

LenCell(r) == [kind |-> "len", of |-> r, at |-> 0]
TypeCell(r) == [kind |-> "type", of |-> r, at |-> 0]
Body(r) == [i \in 1 .. r.len |-> [kind |-> "body", of |-> r, at |-> i]]
Written(r) == <<LenCell(r), TypeCell(r)>> \o Body(r)

LogCells(R) == [kind : {"len", "type", "body"}, of : R, at : Nat]

\* What a reader gets out of a type and a body that were not written together.
Junk == [type |-> "junk", len |-> 0]

(* The records that Wal::load reads from a file, from an offset on.  It      *)
(* trusts the length it finds, and stops where a header or a body would      *)
(* reach past the end.  A length read where none was written is text or a    *)
(* type in its upper bytes, hence longer than any file.                      *)
Parsed(file) ==
  LET isLen(i) == file[i].kind = "len"
      body(i) == SubSeq(file, i + 2, i + 1 + file[i].of.len)
      record(i) == IF file[i + 1] = TypeCell(file[i].of) /\ body(i) = Body(file[i].of)
                   THEN file[i].of ELSE Junk
      from[i \in 1 .. Len(file) + 1] ==
        IF i + 1 <= Len(file) /\ isLen(i) /\ i + 1 + file[i].of.len <= Len(file)
        THEN <<record(i)>> \o from[i + 2 + file[i].of.len]
        ELSE <<>>
  IN  from[1]

\* Wal::load: nothing at height 0, else the file of the current height.
Load(files, current_height) ==
  IF current_height = 0 \/ current_height \notin DOMAIN files THEN <<>>
  ELSE Parsed(files[current_height])
=============================================================================
