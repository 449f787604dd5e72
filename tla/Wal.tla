-------------------------------- MODULE Wal --------------------------------
(***************************************************************************)
(* The write-ahead log of one node (src/src/wal.rs).  Every build creates   *)
(* it and sets its height; only the wal_on feature saves and loads.  The    *)
(* engine thread makes one call at a time, and a call is a sequence of      *)
(* system calls: each is an action, and the process may end between any     *)
(* two.  What a returned system call has written survives the process.      *)
(***************************************************************************)
EXTENDS WalFormat, FiniteSets, FiniteSetsExt

CONSTANTS
  WalHeights,    \* the heights the chain may reach
  Records,       \* what may be saved
  WalFaults,     \* the system calls that may fail, and "short" writes
  MaxSaves,      \* bound: calls of save
  MaxMishaps,    \* bound: failed system calls and ends of the process
  OutOfReach     \* an index file that names no height

ASSUME WalAssumption ==
  /\ WalHeights \subseteq Nat \ {0}
  /\ \A r \in Records : r.len \in Nat \ {0}     \* save ignores an empty message
  /\ WalFaults \subseteq {"set_len", "write_index", "sync", "open", "remove", "write", "short"}
  /\ MaxSaves \in Nat /\ MaxMishaps \in Nat
  /\ OutOfReach \notin Nat

VARIABLES
  up,                  \* "running", "down", or "panicked"
  index,               \* the index file
  files,               \* the log files, by height
  height_fs,           \* the heights whose log file is open
  current_height,
  step,                \* the system call the call in progress is at, or "idle"
  arg,                 \* its height
  rec,                 \* what it saves
  named,               \* history: the height the index was last completed with
  saved,               \* history: by height, the records save wrote before it left a torn one
  torn,                \* history: the heights with a torn record
  orphans,             \* history: the files that no longer are this process's to remove
  saves, mishaps       \* how often

disk == <<index, files>>
memory == <<height_fs, current_height>>
call == <<step, arg, rec>>
past == <<named, saved, torn, orphans, saves>>
vars == <<up, disk, memory, call, past, mishaps>>

\* Heights with a file: those the chain reaches, 0, and the next one of each.
FileHeights == {0, 1} \cup WalHeights \cup {h + 1 : h \in WalHeights}
NoRecord == [type |-> "none", len |-> 0]

(* Wal::new in an empty directory. *)
Init ==
  /\ up = "running" /\ index = <<>> /\ files = [h \in {0} |-> <<>>]
  /\ height_fs = {0} /\ current_height = 0
  /\ step = "idle" /\ arg = 0 /\ rec = NoRecord
  /\ named = 0 /\ saved = [h \in FileHeights |-> <<>>] /\ torn = {} /\ orphans = {}
  /\ saves = 0 /\ mishaps = 0

At(s) == up = "running" /\ step = s
Mishap == mishaps < MaxMishaps /\ mishaps' = mishaps + 1

Ends == step' = "idle" /\ arg' = 0 /\ rec' = NoRecord
Returns == Ends /\ UNCHANGED mishaps
Goes(s) == step' = s /\ UNCHANGED <<arg, rec, mishaps>>
Fails(systemCall) == systemCall \in WalFaults /\ Mishap /\ Ends

\* open with create(true): an existing file keeps its content.
Opened(h) ==
  [x \in DOMAIN files \cup {h} |-> IF x \in DOMAIN files THEN files[x] ELSE <<>>]
Opened_truncated(h) ==
  [x \in DOMAIN files \cup {h} |-> IF x = h THEN <<>> ELSE files[x]]

-----------------------------------------------------------------------------
(* set_height *)

\* The engine's height never falls.
SetHeight(h) ==
  /\ At("idle") /\ h >= current_height
  /\ current_height' = h
  /\ step' = "set_len" /\ arg' = h
  /\ UNCHANGED <<up, disk, height_fs, rec, past, mishaps>>

\* A failure is ignored.
SetLength_empty ==
  /\ At("set_len") /\ Goes("write_index")
  /\ index' = SetLen(index, 0)
  /\ UNCHANGED <<up, files, memory, past>>

SetLength ==
  /\ At("set_len") /\ step' = "write_index"
  /\ \/ index' = SetLen(index, Len(Digits[arg])) /\ UNCHANGED mishaps
     \/ "set_len" \in WalFaults /\ Mishap /\ UNCHANGED index
  /\ UNCHANGED <<up, files, memory, arg, rec, past>>

WriteIndex_appending ==
  /\ At("write_index")
  /\ Goes("sync") /\ index' = index \o Digits[arg] /\ named' = arg
  /\ UNCHANGED <<up, files, memory, saved, torn, orphans, saves>>

\* write_all of at most 20 digits is one write, done or not: the model has no
\* index with only some of the new digits.
WriteIndex ==
  /\ At("write_index")
  /\ \/ /\ Goes("sync") /\ index' = Overwrite(index, Digits[arg]) /\ named' = arg
     \/ /\ Fails("write_index") /\ UNCHANGED <<index, named>>
  /\ UNCHANGED <<up, files, memory, saved, torn, orphans, saves>>

SyncIndex ==
  /\ At("sync")
  /\ Goes("open") \/ Fails("sync")
  /\ UNCHANGED <<up, disk, memory, past>>

OpenFile_truncating ==
  /\ At("open") /\ Goes("remove")
  /\ files' = Opened_truncated(arg) /\ height_fs' = height_fs \cup {arg}
  /\ orphans' = orphans \ {arg}
  /\ UNCHANGED <<up, index, current_height, named, saved, torn, saves>>

OpenFile ==
  /\ At("open")
  /\ \/ /\ Goes("remove")
        /\ files' = Opened(arg) /\ height_fs' = height_fs \cup {arg}
        /\ orphans' = orphans \ {arg}
     \/ Fails("open") /\ UNCHANGED <<files, height_fs, orphans>>
  /\ UNCHANGED <<up, index, current_height, named, saved, torn, saves>>

Expired(h) == h > DELETE_FILE_INTERVAL
Outlived_late(h) == {x \in height_fs : x + 1 < h - DELETE_FILE_INTERVAL}
Outlived(h) == {x \in height_fs : x < h - DELETE_FILE_INTERVAL}

\* The files of outlived heights are removed, lowest first; a failure is
\* ignored, and the file is never tried again.
RemoveFile ==
  /\ At("remove")
  /\ \/ /\ Expired(arg) /\ Outlived(arg) # {}
        /\ LET h == Min(Outlived(arg))
           IN  /\ height_fs' = height_fs \ {h}
               /\ \/ /\ files' = [x \in DOMAIN files \ {h} |-> files[x]]
                     /\ saved' = [saved EXCEPT ![h] = <<>>]
                     /\ torn' = torn \ {h} /\ UNCHANGED <<orphans, mishaps>>
                  \/ /\ "remove" \in WalFaults /\ Mishap /\ orphans' = orphans \cup {h}
                     /\ UNCHANGED <<files, saved, torn>>
        /\ UNCHANGED call
     \/ /\ Expired(arg) => Outlived(arg) = {}
        /\ Returns /\ UNCHANGED <<files, height_fs, saved, torn, orphans>>
  /\ UNCHANGED <<up, index, current_height, named, saves>>

-----------------------------------------------------------------------------
(* save: nothing is written for a height without an open file, except that  *)
(* the file of the next height is opened.                                   *)

Save(h, r) ==
  /\ At("idle") /\ saves < MaxSaves /\ saves' = saves + 1
  /\ h \in height_fs \cup {current_height + 1}
  /\ \/ /\ files' = Opened(h) /\ height_fs' = height_fs \cup {h}
        /\ orphans' = orphans \ {h}
        /\ step' = "len" /\ arg' = h /\ rec' = r /\ UNCHANGED mishaps
     \/ /\ h \notin height_fs /\ Fails("open") /\ UNCHANGED <<files, height_fs, orphans>>
  /\ UNCHANGED <<up, index, current_height, named, saved, torn>>

\* A system call that appends cells to the file, at its end.
Appends_at_start(cells) ==
  files' = [files EXCEPT ![arg] = [i \in DOMAIN cells \cup DOMAIN @ |->
              IF i \in DOMAIN cells THEN cells[i] ELSE @[i]]]
Appends(cells) == files' = [files EXCEPT ![arg] = @ \o cells]

WriteLen ==
  /\ At("len")
  /\ \/ Goes("type") /\ Appends(<<LenCell(rec)>>)
     \/ Fails("write") /\ UNCHANGED files
  /\ UNCHANGED <<up, index, memory, past>>

WriteType ==
  /\ At("type")
  /\ \/ Goes("body") /\ Appends(<<TypeCell(rec)>>) /\ UNCHANGED torn
     \/ Fails("write") /\ torn' = torn \cup {arg} /\ UNCHANGED files
  /\ UNCHANGED <<up, index, memory, named, saved, orphans, saves>>

\* write may write less than it was given, and save returns Ok all the same.
WriteBody ==
  /\ At("body")
  /\ \/ /\ Returns /\ Appends(Body(rec)) /\ UNCHANGED torn
        /\ saved' = IF arg \in torn THEN saved ELSE [saved EXCEPT ![arg] = Append(@, rec)]
     \/ /\ Fails("short")
        /\ \E n \in 1 .. rec.len - 1 : Appends(SubSeq(Body(rec), 1, n))
        /\ torn' = torn \cup {arg} /\ UNCHANGED saved
     \/ /\ Fails("write")
        /\ torn' = torn \cup {arg} /\ UNCHANGED <<files, saved>>
  /\ UNCHANGED <<up, index, memory, named, orphans, saves>>

-----------------------------------------------------------------------------
(* The process ends, and the next one calls Wal::new on what it left. *)

Crash ==
  /\ up = "running" /\ Mishap
  /\ up' = "down"
  /\ torn' = IF step \in {"type", "body"} THEN torn \cup {arg} ELSE torn
  /\ Ends
  /\ UNCHANGED <<disk, memory, named, saved, orphans, saves>>

\* Consensus::new unwraps what Wal::new returns.
Restart ==
  /\ up = "down"
  /\ \/ /\ Readable(index) /\ up' = "running"
        /\ current_height' = HeightOf(index) /\ named' = HeightOf(index)
        /\ height_fs' = {HeightOf(index)} /\ files' = Opened(HeightOf(index))
        /\ orphans' = DOMAIN files \ {HeightOf(index)}
     \/ ~Readable(index) /\ up' = "panicked" /\ UNCHANGED <<files, memory, named, orphans>>
  /\ UNCHANGED <<index, call, saved, torn, saves, mishaps>>

Next ==
  \/ \E h \in WalHeights : SetHeight(h)
  \/ SetLength \/ WriteIndex \/ SyncIndex \/ OpenFile \/ RemoveFile
  \/ \E h \in FileHeights, r \in Records : Save(h, r)
  \/ WriteLen \/ WriteType \/ WriteBody
  \/ Crash \/ Restart

Spec == Init /\ [][Next]_vars

-----------------------------------------------------------------------------
(* Properties *)

TypeOK ==
  /\ up \in {"running", "down", "panicked"}
  /\ index \in Seq(Char)
  /\ DOMAIN files \subseteq FileHeights /\ height_fs \subseteq FileHeights
  /\ current_height \in FileHeights /\ arg \in FileHeights
  /\ step \in {"idle", "set_len", "write_index", "sync", "open", "remove", "len", "type", "body"}
  /\ rec \in Records \cup {NoRecord}
  /\ named \in FileHeights /\ saved \in [FileHeights -> Seq(Records)]
  /\ torn \subseteq FileHeights /\ orphans \subseteq FileHeights

\* Wal::load hands back, in order and first of all, every record that save
\* wrote before something tore a record of that file, over any number of
\* restarts and whichever height was current meanwhile; and nothing else from
\* a file that no record was torn in.
SavedIsLoaded ==
  \A h \in DOMAIN files :
    /\ IsPrefix(saved[h], Parsed(files[h]))
    /\ (h \notin torn /\ step \notin {"len", "type", "body"}) => Parsed(files[h]) = saved[h]

\* The index names a height only after set_height was asked for it: wherever
\* the process ends, Wal::new takes up the last height or the one that was being
\* set, or it fails.
IndexHonest == Readable(index) => HeightOf(index) \in {named, current_height}

\* Whenever set_height returns Ok, what is left of the files this process opened
\* are those of the current height, of the next one and of at most
\* DELETE_FILE_INTERVAL before, however far the heights jumped and whatever an
\* earlier set_height failed to remove.
FilesBounded ==
  [][(step = "remove" /\ step' = "idle" /\ up' = "running") =>
       DOMAIN files' \ orphans' \subseteq
         {h \in FileHeights : h + DELETE_FILE_INTERVAL >= current_height
                              /\ h <= current_height + 1}]_vars

Durable == INSTANCE DurableLog
  WITH Entries <- Records \cup {Junk}, Keep <- DELETE_FILE_INTERVAL,
       at <- IF Readable(index) THEN HeightOf(index) ELSE OutOfReach,
       log <- [h \in DOMAIN files |-> Parsed(files[h])]

\* Seen through what a restarted process would read, the files are a durable
\* log: nothing that was readable is lost, replaced or reordered, no height is
\* gone back to, and no file within DELETE_FILE_INTERVAL is removed.
IsDurable == Durable!DurableSpec

\* "wal_log: Wal::new(wal_path).unwrap()" (consensus.rs:119): the log that a
\* process left behind can be opened by the next one.
Reopens == up # "panicked"
=============================================================================
