----------------------------- MODULE DurableLog -----------------------------
(***************************************************************************)
(* What the write-ahead log promises, whatever happens to the process: a    *)
(* log of records for each of several heights, and the height the node is   *)
(* at.  Records are only ever added, one at a time and at the end of a log; *)
(* the height never falls; and a log is given up only when the height has   *)
(* left it behind by more than Keep.  The height may be out of reach for a  *)
(* while, since it is replaced in two steps.                                *)
(***************************************************************************)
EXTENDS Naturals, Sequences, SequencesExt

CONSTANTS
  Entries,       \* what a reader may find in a log
  Keep,          \* DELETE_FILE_INTERVAL
  OutOfReach     \* the height cannot be told

VARIABLES
  at,            \* the height the node is at, or OutOfReach
  log            \* the logs, by height

logVars == <<at, log>>

DurableInit == at = 0 /\ log = [h \in {0} |-> <<>>]

Open(h) ==
  /\ h \notin DOMAIN log
  /\ log' = [x \in DOMAIN log \cup {h} |-> IF x = h THEN <<>> ELSE log[x]]
  /\ UNCHANGED at

Add(h, e) == log' = [log EXCEPT ![h] = Append(@, e)] /\ UNCHANGED at

Leave == at # OutOfReach /\ at' = OutOfReach /\ UNCHANGED log

Move(h) == (at # OutOfReach => at < h) /\ at' = h /\ UNCHANGED log

Forget(h) ==
  /\ at # OutOfReach /\ h + Keep < at
  /\ log' = [x \in DOMAIN log \ {h} |-> log[x]]
  /\ UNCHANGED at

DurableNext ==
  \/ \E h \in DOMAIN log, e \in Entries : Add(h, e)
  \/ \E h \in DOMAIN log : Forget(h)
  \/ \E h \in DOMAIN log' : Open(h)
  \/ Leave
  \/ at' # OutOfReach /\ Move(at')

DurableSpec == DurableInit /\ [][DurableNext]_logVars
=============================================================================
