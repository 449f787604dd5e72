------------------------------- MODULE MCWal -------------------------------
(***************************************************************************)
(* An instance of the write-ahead log for TLC: heights whose text has one   *)
(* digit and two, next to each other and far apart, and records of two      *)
(* lengths, so that a torn one can swallow the next.                        *)
(***************************************************************************)
EXTENDS Wal

ShortRecord == [type |-> "vote", len |-> 1]
LongRecord == [type |-> "status", len |-> 3]
TwoRecords == {ShortRecord, LongRecord}
=============================================================================
