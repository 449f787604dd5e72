# consensus-bft in TLA+

`consensus-bft` wraps the BFT state machine of the crate `bft-core` into a node
of a block chain: it checks what peers send, keeps authority lists, collects
signed votes, asks the application for contents and verdicts, and hands over
decided blocks with their proofs. This directory holds a model of that shell,
the instances TLC checks and the theorems TLAPS proves about it. Line numbers
are those of the files under `src/src/`.

## 1. Inventory

### Components

| Component | State | Operations |
|---|---|---|
| Engine (`consensus.rs`, `Consensus`) | `height`, `authority`, `votes`, `proof`, `verified_block`, `block_origin_cache`, `proposal_cache`, `vote_cache`, `consensus_power` | `external_process` (218), `core_process` (312), `async_process` (162), and the handlers they call |
| Authority lists (`types.rs`, `AuthorityManage`, 386-452) | present list, old list, height of the old list | `update_authority`, `is_above_threshold`, `contains_sender` |
| Vote collector (`collection.rs`, 1-145) | LRU of heights, LRU of rounds, votes by type | `add`, `get_vote_set` |
| Proposal collector (`collection.rs`, 146-197) | LRU of proposals | `add`; nothing reads it |
| BFT core (crate `bft-core`) | its own thread | `CoreInput` in, `CoreOutput` out |
| Message types and codecs (`types.rs`, `util.rs`) | none | RLP, `combine`, `extract`, `encode_block`, `decode_block` |
| Write-ahead log (`wal.rs`) | an index file with a height, one log file per height, the open ones | `new`, `set_height`, `save`, `load` |
| Recovery (`consensus.rs`, 1052-1187, feature `wal_on`) | the engine's | `load_wal_log` |
| Proof check for third parties (`util.rs`, 7-52) | none | `check_proof`, weights |
| Application (`lib.rs`, `ConsensusSupport`, `Content`) | outside | `get_content`, `check_proposal`, `commit`, `sign`, `verify_signature`, `transmit` |
| Examples, bench | outside | a client with one authority |

### How they interact

The engine thread serves three channels with `select!` (147-157), one message
at a time, in any order among the channels that are ready:

* `bft_recv`: `Proposal`, `Vote`, `Commit`, `GetProposalRequest` of the core;
* `interface_recv`: signed proposals, signed votes and statuses that the
  application passes on;
* `async_recv`: `VerifyResp` and `Feed`, posted by helper threads that call
  `check_proposal` and `get_content`. The engine waits for these threads
  (`crossbeam::scope`), so their answer is in `async_recv` when the handler goes
  on, but it is handled only after it.

The core thread runs meanwhile: it reads what the engine sends it and puts
outputs into `bft_recv`, which may wait there while the engine goes on to other
heights. A commit calls the application, and the status it answers with
re-enters `external_process` within the same handler (342-349).

Every build sets the height of the write-ahead log when it goes to a new height
(1011). Only the feature `wal_on` saves messages and, when the process starts,
loads those of the height the index names and runs them through the handlers
again (1052-1187) before the channels are served.

A message leaves as bytes: RLP for the signed proposal or vote, and length marks
(`util.rs`) that keep proposal, block hash and block apart. The proof in a
proposal is judged by `verify_proof` at the receiver, and by `util::check_proof`
at any client of the chain.

### What is hard, and what makes each part correct

* **Messages of other heights.** Votes and proposals come late (one height is
  tolerated), early (cached, replayed at the status) or out of any range.
  Each is checked against one of two lists that change with every status.
  *Correct*: the lists are the chain's, and only authorities' votes count.
* **Verdicts.** An answer on a content names no height and arrives through a
  queue, through `verified_block` or with a late proposal. *Correct*: the core
  gets an answer to each content it was proposed, and hears only what
  `check_proposal` may say or what a late proposal of an authority names.
* **Commits.** The core's decision waits in a queue, needs a block that a status
  throws away and signatures that only the engine has. *Correct*: a decision can
  be proved, its proof convinces others, heights are committed once, in order,
  and each decision moves the node.
* **Driving the core.** `Start`, `Pause` and `Status` follow the authority
  lists. *Correct*: the core decides where the engine is.
* **Locks.** A re-proposal carries prevotes of an earlier round. *Correct*: a lock
  shown to the core rests on as many votes of authorities as the code asks for, one
  each, for its content.
* **Failures.** Calls of the application, and `set_height`, fail half way through
  a handler; `self.height - 1` underflows at height 0.
* **The log.** Each call is several system calls; any may fail, write less or be
  the last. *Correct*: what was written stays readable, in order, and the height
  is not forgotten.
* **Crashes.** The process ends in a save, or between the application's commit and
  its status; the next one starts without lists, at height 0. *Correct*: what was
  sent is in the log, the right log is loaded, its replay hands on nothing unsound.
* **The wire.** A signature covers a `HashMap`, which every node iterates in another
  order. *Correct*: a message is read as it was written, its signature recovers to
  its sender, and whoever judges a proof comes to the same verdict.

The list with lines is `hazards` in `PROJECT.json`.

## 2. Modules

| Module | Models | Used by |
|---|---|---|
| `Types` | messages, `to_bft_proposal` | `Authority`, `Collection`, `BftCore`, `Consensus` |
| `Authority` | `AuthorityManage`, `check_proposer`'s rotation | `BftCore`, `Consensus` |
| `Collection` | `VoteCollector` with its two LRU levels | `Consensus` |
| `BftCore` | external: the core as the engine's environment | `Consensus` |
| `Consensus` | the engine: one action per message kind, per turn of a replay loop, per core output | `ConsensusProperties` |
| `ChainDriver` | abstract: a node as its application sees it | `ConsensusProperties` |
| `ConsensusProperties` | what is checked of the engine, and the refinement mapping to `ChainDriver` | `MCConsensus`, `Recovery`, the proofs |
| `WalFormat` | the bytes of the index and of a log file, `load` | `Wal`, `Recovery` |
| `Wal` | `wal.rs`, one action per system call, with crashes and failures | `MCWal` |
| `DurableLog` | abstract: what a log that survives promises | `Wal` |
| `Recovery` | the engine built with `wal_on`: its saves, crashes, `load_wal_log` | `MCRecovery` |
| `Wire` | the encodings of `types.rs` and `util.rs`, signatures, both judges of a proof | `MCWire` |
| `MCConsensus`, `MCRecovery`, `MCWal`, `MCWire` | the instances | |
| `CollectionProofs` | lemmas about `Collection`: types, what the LRU caches keep | `ConsensusProofs` |
| `ConsensusProofs` | theorems about the engine, its lists and decisions, and the refinement of `ChainDriver` | `EvidenceProofs` |
| `EvidenceProofs` | theorems about collected votes, locks and waiting decisions | `MessageProofs`, `RecoveryProofs` |
| `MessageProofs` | theorems about verdicts and the proof in own proposals | |
| `RecoveryProofs` | theorems about `Recovery` | |
| `FormatProofs` | lemmas about `WalFormat`, and induction by a least element | `RecoveryProofs`, `WalProofs`, `WireProofs` |
| `WalProofs` | theorems about `Wal`, and the refinement of `DurableLog` | |
| `WireProofs` | theorems about `Wire` | |

### State of `Consensus`

The variables carry the names of the engine's fields. `alive`,
`pc` and `iter` are the engine thread: whether it has panicked, whether it is at
`select!` or inside `send_cache_proposal` / `send_cache_vote`, and the rest of
the `Vec` that such a loop consumes. The loops take one step per message because
the core thread reads and answers in between; every other handler touches only
what the engine thread owns and is one step. `commits` and `transmitted` record
the calls of `function.commit` that succeeded and of `function.transmit`.

* A signature is the address that `verify_signature` recovers from it, or
  `Unrecoverable` when that call fails. A block is its hash; a received block
  enters `block_origin_cache` under the hash the message claims.
* `interface_recv` is not kept: any message of `PeerVotes`, `PeerProposals` and
  any status may be taken at any time, any number of times. That covers loss,
  duplication and reordering. Handlers that return an error before changing
  anything are stuttering steps and are not written.
* The channel to the core is folded into the step that sends on it. What the
  core emits depends on its inputs only and then waits in `bft_recv`, so reading
  later would only produce a later output.
* The `CoreOutput::Commit` and `Vote` steps include everything their handlers
  call: collecting, proof generation, the application's call, the status.
* `wal_on` is off, as in the default build; `set_height` is called in every
  build and may fail. The write-only `proposals` and the never-set `block` are
  left out. Nil votes are votes for a hash like any other.
* The collector's `rounds` is total over heights, the empty sequence standing
  for a height that is not cached.
* `BftCore` is liberal: it emits whatever its inputs of the current height
  support, in any order, commits repeatedly, and trusts the engine with the
  voters, as the real core must since the engine alone sees signatures.

### State of `Wal`

`index` is the text of the index file (digits, and the zero bytes that
`File::set_len` fills it up with), `files` the log files, `height_fs` and
`current_height` the fields of `Wal`. The engine makes one call at a time, so
`step`, `arg` and `rec` are the call in progress and the system call it is at. A
log file is a sequence of cells: a length (the four bytes are one cell), a type, and
one cell for each unit of the body; a cell remembers the record it was written
for, which is how the model tells a record from one put together out of the
remains of others. `Parsed` follows `load`, which trusts every length it finds.
`named`, `saved`, `torn` and `orphans` are history.

Nothing is lost of what a returned system call has written: the process ends, not the
machine (the code syncs the index only). `SetHeight` takes heights that do not
fall, which assumes that the application never reports a height below one it has
reported before; the engine refuses lower ones within a process (`handle_rich_status`).

### State of `Recovery`

The actions of `Consensus` are used as they are, each in conjunction with the saves of its handler;
`wal` holds the log files, the open ones and the current height; `chain_height` is
history, a height the application's chain had reached when the process started: it
reports no lower status afterwards. A save and a
`set_height` are part of the step they occur in. `SaveFails` is the handlers once more, up to a save that
fails: an output of the core is lost, a commit is not followed by its status, cached votes are
dropped. The failed save of an output or of a status may leave a header behind it, the others
leave nothing. A `set_height` that fails is
left to `Consensus` and `Wal`. `Crash` has three forms:
between two messages, in a save (a header and nothing more, or a whole record,
and nothing of what follows), and after `function.commit` but before its status.
It loses everything but the log, the application's chain and what was sent.
`load_wal_log` takes a step per record with the `pc` at `"replay"`.

What the code does there, and the model with it:

* The replay starts at height 0 with empty lists: the status that led to the
  present height is in the file of the previous one. A status record in the file
  moves the engine, but sends no `Start` and replays no cached messages.
* A proposal with votes in its proof cannot be saved: `serde_json` has no maps whose
  keys are byte strings, so the handler returns an error (708). A future proposal is
  not cached, since its bytes are no UTF-8. A signed proposal that was saved ends the
  replay.
* A replayed commit calls `function.commit` again and drops the status it answers
  with. Own votes are sent again, and the core is not told of them.
* The proof of the last commit is in no log, so a restarted node proposes at height 2
  or more only after it has seen another's proposal.

### State of `Wire`

One proposal goes its way: built, signed, sent, received, judged. An RLP item is a
sequence of items; its bytes are a run of cells that decode to the item only
when they are together and complete. A length mark has `Mark` digits to the base
`Byte`. A hash is injective, so a signature is its signer and the item signed. A `Result` is `Ok` of a value or `Err`.
`Height` is the proposal's and the proof in it is of the height before; every height, length
of a hash and of an encoding has at most `Mark` digits (`Fits`), as 8 bytes have room for. The
order in which a map iterates is chosen anew by the signer and by the receiver.

### Bounds

`MaxHeight`, `MaxRound`: heights and rounds; a node may go to `MaxHeight + 1`
and stops deciding there. `MaxQueue`: messages in `bft_recv` and in
`async_recv`; `bft_recv` holds no two equal messages at once. `MaxCached`: cached
messages per height. `CacheNumber` is `CACHE_NUMBER`, 16 in the code. `U64Max`
stands for the value that `0 - 1` wraps to. `MaxSaves`, `MaxMishaps`: calls of
`save`, failed system calls and ends of the process in `Wal`. `MaxCrashes`, `MaxUnsaved`: ends of
the process and failed saves in `Recovery`. `MaxCopies`: how often a handler saves the same record
(one more for own votes and feeds after a crash). `Byte`, `Mark`, `RlpSize`: 4, 2 and 3
for 256, 8 and the length of an encoding.

## 3. Runs

The node under study is `n1`.

| Run | Instance | Question |
|---|---|---|
| `Shell` | lists `<n1,n2>`, `<n1,n3>`, `<n3>` for heights 1, 2, 3; honest, stranger's and forged votes | Does a node that decides with others, and leaves in the end, prove, commit and propose correctly? |
| `Join` | `n1` joins at height 2; proposals early and in time, with a thin proof, for the invalid content `blockC`, and a late one of height 1 that names `blockC` too | Are verdicts honest and delivered, and decisions carried out? |
| `Faults` | one authority; every call of the application may fail, `set_height` too; a build that panics on underflow | What still holds when handlers stop half way? |
| `Locks` | the list grows from one to three and `n1` only follows; caches of three heights and three rounds, which a stranger's votes of other rounds and heights overflow; re-proposals with lock votes complete, repeated, forged, for another content, or precommits and votes of another round | Does each lock shown to the core have its evidence, and stay what is counted, until a cache is full? |
| `Log` | heights 9, 10 and 13, two saves of a short and a long record, two mishaps, every system call may fail | Are the files a durable log, whatever happens? |
| `Crash` | one authority with `wal_on`, one end of the process at any point, one failed save, a vote and proposals of a stranger for height 2 | Is what was sent logged, the right log loaded, and its replay sound? |
| `Wire` | three addresses, lists of two and three members and one with unequal weights, sound, foreign and damaged signatures, empty and long contents | Is a proposal read as it was written, and its proof judged alike? |

Heights 1 and 2 with a status beyond them are the smallest chain with a late
message, an early message, a jump over a height, a list that is old, present and
next, and a proof of the height before. Two messages per queue let a commit wait
behind the vote it needs and let a status overtake both. `MaxRound` is 0 except
where locks are at stake: a lock and its re-proposal need two rounds (`Relock`), and
four overflow a cache of three (`Locks`). A cache of three rounds lets a vote be there
while others are used, and be evicted later; heights 0 to 3 do the same to the cache of
heights. The list of `Locks` grows so that the thresholds of the old and the present one
differ, and its node is no authority: that own votes stay collected is asked in `Shell`.
A proposal `CACHE_NUMBER` or more ahead (238-240) needs more heights than an instance has
and is left to the proofs.

The largest run is `Faults` with 771,330 distinct states; `Locks` has 363,989, `Shell`
324,577, `Join` 43,197.

9, 10 and 13 are the smallest heights that make the index longer, leave files
to remove (`DELETE_FILE_INTERVAL` is 3) and can be jumped to. Two saves and two
mishaps put a whole record behind a torn one, in the same process or the next. In
`Crash`, height 1 is decided and left, so the node crashes before, in and after a
commit, and when the log of the next height has nothing or something in it; the failed
save may be before the crash, so that the replay meets a torn record, or after it. A
second end of the process takes TLC far longer than the other runs, and so does a second place in each queue. `Wire` has a content with a zero byte,
an empty one, an empty hash, and encodings whose length takes two digits in sum, so
that a mark in the wrong place is noticed.

Four runs set `CHECK_DEADLOCK FALSE`, because the system may stop: in `Faults` the
panic at height 0 ends the engine thread; in `Log` the process panics on an unreadable
index; in `Crash` a node that restarted where no status is left to hear has nothing
to do (the bounds `MaxCopies` and `MaxHeight`); in `Wire` the way of a proposal ends.

### Properties of the engine

* `AuthorityTracksChain`: the present list is the chain's for the height being
  decided, the old one the chain's for the height it is filed under. After a jump that is
  not the height before: lines 848, 932, 974 and 992 then judge messages of the height before by
  the present list, and the property says nothing of them.
* `CountedVotersAuthorised`: the core counts no stranger's vote.
* `CoreInStep`: the core decides the engine's height, among its authorities, and
  runs exactly when the node is one.
* `VerdictOwed`, `VerdictDelivered`: each content proposed to the core has its verdict or
  one is on its way; the verdict arrives.
* `VerdictHonest`: of every content, proposed or not, the core hears only what `check_proposal` may
  say. There is one exception, and it is part of the property: a late proposal is answered `TRUE`
  unseen (728-736), so any authority of the height before can name an invalid content of the
  present height and have it passed (`NamedLate`). Nobody else can, and nothing but `TRUE` comes of it.
* `LockEvidence`: a lock shown to the core has votes of more than two thirds of the *former* list's
  number, of authorities of the core's height, one each, one of them of the former list, all for the
  locked content (what `is_above_threshold` and `contains_sender` ask for); and each vote is
  collected under the lock round. The vote's own type, height and round are compared
  nowhere, so nothing is claimed of them: `Locks` has a lock with a precommit and a vote of another round.
* `CountedVotesHeld`: a vote that the core counts stays collected under its own keys, or is the
  node's own and waits to be signed.
* `CommitProvable`: a waiting commit of the present height finds its block, and the signed vote of
  each voter collected, or the node's own ahead of it in the queue.
* `CommitsVerify`, `CommitsIncrease`, `DecisionAdvances`: proofs convince who knows the chain;
  heights increase; a decision moves the node. A call of `function.commit` that failed may be made
  again at the same height; the calls that succeeded count. A block is the hash that its
  sender claims, so nothing is said of a proof's `block_hash`.
* `OwnProposalProof`: a node proposes on top of its own commit with the proof of
  that commit.
* `DrivesChain`: the engine implements `ChainDriver`. The mapping is `at <- height` and
  `decided <-` the commits with their voters; everything else is hidden.

Two more exceptions are part of the properties. `Crowded`: an LRU cache that is full may
evict what a decision needs. A vote is collected before its sender is checked (809, 811), so
anyone's votes of `CACHE_NUMBER` rounds fill the cache of rounds of the present height; the cache of
heights is filled by proposals `CACHE_NUMBER` or more ahead alone. Up to then nothing is evicted
that is needed, whatever is used in between. In `Locks` both caches overflow: the rounds until the
height is crowded, the heights by letting go of an old one. `BlockAtHand`: while a
verdict on a content is remembered, a proposal of it passes that came with another block (738-745), which is
cached under the hash that it claims, so the core may decide a content whose block is lost.

`CommitProvable` and `CountedVotesHeld` are for nodes whose `sign` does not fail.
`OwnProposalProof` does not hold when `function.commit` fails: `self.proof` is
then already that of the height still being decided (579), so it is checked in
`Shell` only.
In `Crash`, `CommitsIncrease` is not checked: a replayed commit is a second one, and so
may be one after a status that could not be saved.

### Properties of the log, of recovery and of the wire

* `SavedIsLoaded`: what was saved before a record was torn is loaded, first and in
  order, and nothing else from a file without a torn record.
* `IndexHonest`: a readable index names the last height or the one being set.
* `FilesBounded`: after `set_height`, of the files this process opened those within
  `DELETE_FILE_INTERVAL` are left. Files of earlier processes are never removed.
* `IsDurable`: seen through what the next process would read, the files are a
  `DurableLog`. The height is out of reach while the index is no number.
* `WriteAhead`: a vote sent, and the block of a commit, are in the log; what was written
  behind a torn header counts, although `load` may not reach it.
* `LogIsCurrent`: a new process never loads the log of a height below the last commit.
* `CommitsVerify`, `CountedVotersAuthorised`, `AuthorityTracksChain` in `Crash`: the replay,
  which starts without lists, hands nothing on that they forbid.
* `ReadAsSent`, `SignatureSurvives`: proposal, block and hash are taken apart as they
  were put together, and the signature recovers to the proposer although the
  receiver's map iterates in another order.
* `JudgesAgree`, `QuorumConvinces`: where everyone weighs one, `util::check_proof` accepts no
  proof that `verify_proof` refuses, and they differ on damaged signatures only; precommits
  of a quorum convince both. This is for heights from 2: at height 1 `check_proposal`
  accepts whatever proof is there, and `util::check_proof` asks for votes of
  height 0. With other weights they count differently, and nothing is claimed.

### Fairness

`FairSpec` assumes weak fairness of three groups of steps. `LoopStep`: a loop over
cached messages runs to its end. `AsyncStep`, `CoreStep`: `select!` picks at
random among the ready channels, so each ready channel is served in the end;
handlers end because the application's calls are assumed to return. Nothing is
assumed of peers, of the application's statuses, or of the core. `pc` away from
`select` disables the last two groups, but only as long as `LoopStep` is enabled.
The other modules state safety only.

### What the code does otherwise than it says

Five runs expect a violation, each of one sentence of the source:

* `Cached`: cached proposals are replayed after `goto_new_height` has cleared their
  blocks (1008), and are dropped with `LoseBlock`.
* `ThinLock`: `is_above_threshold` and `contains_sender` (`types.rs` 431-451) read the
  old list in both branches.
* `Relock`: lock votes of a re-proposal are looked up under the new round (463), so a
  locked proposal is not sent.
* `Reopen`: a process that ends between `set_len` and `write_all` of a longer height
  leaves an index that no later process can open (`wal.rs` 90), in every build.
* `Replay`: votes of the log are replayed at height 0, where `self.height - 1` wraps (770),
  and all are dropped as obsolete.

## 4. Proofs

Every invariant, action property and refinement that a run checks is also proved, for every
set of nodes, every chain of lists, all messages of peers, all records, contents, lists, and
all bounds. Left to TLC is what is live.

| Module | Theorem | States |
|---|---|---|
| `ConsensusProofs` | `TypeCorrect` | `Spec => []TypeOK` |
| | `ListsTrackChain` | `Spec => []AuthorityTracksChain` |
| | `VotersAuthorised` | `Spec => []CountedVotersAuthorised` |
| | `CommitHeightsIncrease` | `Spec => []CommitsIncrease` |
| | `CommitProofsVerify` | `Spec => []CommitsVerify` |
| | `CoreFollows` (1) | `Spec => []CoreInStep` |
| | `VerdictsOwed` | `Spec => []VerdictOwed` |
| | `ShellDrivesChain` | `Spec => DrivesChain`, the refinement of `ChainDriver` |
| `EvidenceProofs` | `CountedVotesStay` (2) | `Spec => []CountedVotesHeld` |
| | `LocksShownInStep` | `Spec => [](core.height = height => LockEvidence)` |
| | `LocksShown` (1) | `Spec => []LockEvidence` |
| | `DecisionsProvable` (2) | `Spec => []CommitProvable` |
| `MessageProofs` | `VerdictsHonestInStep` | `Spec => [](core.height = height => VerdictHonest)` |
| | `VerdictsHonest` (1) | `Spec => []VerdictHonest` |
| | `OwnProofShown` (3) | `Spec => []OwnProposalProof` |
| `RecoveryProofs` | `RecoveryTyped` | `RecSpec => []RecTypeOK` |
| | `LoggedAhead` | `RecSpec => []WriteAhead` |
| | `LogStaysCurrent` | `RecSpec => []LogIsCurrent` |
| | `RestartVotersAuthorised` | `RecSpec => []CountedVotersAuthorised` |
| | `RestartListsTrackChain` | `RecSpec => []AuthorityTracksChain` |
| | `RestartCommitsVerify` | `RecSpec => []CommitsVerify` |
| `WalProofs` | `LogTyped` | `Spec => []TypeOK` |
| | `IndexNamesHeight` | `Spec => []IndexHonest` |
| | `SavedRecordsLoad` | `Spec => []SavedIsLoaded` |
| | `RemovedInTime` | `Spec => FilesBounded` |
| | `LogDurable` | `Spec => IsDurable`, the refinement of `DurableLog` |
| `WireProofs` | `ArrivesAsSent` | `Spec => []ReadAsSent` |
| | `SignatureHolds` | `Spec => []SignatureSurvives` |
| | `JudgesConsistent` | `Spec => []JudgesAgree` |
| | `QuorumsConvince` | `Spec => []QuorumConvinces` |

### What they rest on

The named assumptions of the modules: bounds are naturals, sentinels are no values
(`SentinelAssumption`, `NoProofAssumption`), the chain's lists are sequences of nodes with no
list at height 0, peers send well-formed messages, `CacheNumber` is positive, the wrapped
value exceeds all heights (`BuildAssumption`), save is never given an empty record
(`WalAssumption`), lengths and heights fit into a length mark (`WireAssumption`), a list is a
sequence of members with weights (`ListsAssumption`). `RecoveryAssumption` excludes a failed
`set_height`, which `Recovery` does not model, and the build whose replay panics.

And the hypotheses that some theorems name, each that a call does not fail. Nothing is assumed of
what peers send, of rounds or of the size of the caches:

1. `"set_height" \notin Faults`: a failed `set_height` leaves the core at a height that the
   engine has left (`CoreBehind`). Votes of that height may be evicted, and a proposal of it is late and
   answered `TRUE`. The theorems `...InStep` do without: they are about a core at the engine's height.
2. `"sign" \notin Faults`: a node that could not sign counts its own vote and has no signature to show.
3. `"commit" \notin Faults`: `self.proof` is set before `function.commit` is called (579).

### The engine

* `TypeOK` is inductive: one lemma per operator says what it returns, one per
  group of actions that it keeps `TypeOK`.
* `ChainSteps` reduces all actions to four: nothing that votes are judged by
  changes; the core gets one vote that passed `handle_signed_vote`; the core counts
  its own vote; or a status jumps the height (`JumpsTo`). `AuthorityTracksChain`
  follows with `TypeOK`.
* `CountedVotersAuthorised` is not inductive. A failed `set_height` leaves the core at
  a height that the engine has left, and votes of that height are then judged by
  the old list, or, one status later, are too old to be taken. `CoreBehind` says
  so: the core's height is the engine's or at most `authority_h_old`, its list and
  its running follow the chain's list of *its* height, and it holds no vote of a
  height beyond the engine's. `DrivenInv` is the conjunction.
* `CommitsVerify` needs to carry the core's decision through the queue while the
  core goes on: `SoundOutputs` (a waiting commit is supported by the list of its own
  height; a waiting vote is the node's own) and `HonestCollector` (each collected
  signature recovers to its voter). `ProofInv` is the conjunction with `DrivenInv`.
* `CommitsIncrease` follows from `CommitSteps`: a commit that is carried out is not
  below the height and moves the engine past it.
* `VerdictOwed` is inductive with `TypeOK`; the step that matters is
  `HandleSignedProposalAnswers`.
* `ShellDrivesChain`: `CommitSteps` says that a commit that is carried out is for a
  height not below the engine's, and `ChainDriver` wants it for exactly that height.
  `ReachedOutputs` closes the gap: no commit waiting in `bft_recv` is above the engine's
  height, as the core never runs ahead (`CoreBehind`) and heights do not fall.
  `DriverInv` adds it to `ProofInv`; its quorum is `SoundOutputs`.

### Evidence

* The collector evicts the height, or the round, that was used longest ago, and *every* lookup is a
  use. What saves the present height is that only it, the height before and later ones are used once it
  is: `Fresh` says so of the order of the cache. So as long as `Fresh` holds, an evicted height is the
  present one only if the cache is full of such heights (`Overrun`), and a round of it is evicted only
  when `CACHE_NUMBER` rounds of it are cached; both then stay so. `Retained` is the disjunction,
  kept by every operation of the collector, and gives `Holds \/ Crowded`. `CollectorInv` says
  what that needs: keys are cached once, and votes are under cached keys.
* `VotesInv` adds why handlers use no lower heights: cached proposals are filed by their height
  (`Filed`), outputs of the core are of heights reached (`OutputsReached`), the rest passes the checks of
  `NotObsolete`.
* `LockInv` is `VotesInv` with `LocksEvident`, `LockEvidence` in terms of `Retained`, of a core at the
  engine's height: what is shown has passed `check_lock_votes` and was collected in the same handler.
  The lists do not change within a height. A core left behind regains the engine's
  height only by a status, which empties it, so nothing need be said of it meanwhile.
* `ProvableInv`: the blocks of what the core was given are at hand (`BlocksKept`), every vote it
  counts is retained or is the node's own and waits in `bft_recv` (`VotesHeld`), the votes of a
  waiting commit are of its height and round (`DecisionsShaped`), and each is retained or
  ahead of it (`CommitEvident`): the core emits a commit when it has the votes, so the node's own is
  before it in the queue.
* `VerdictInv`: answers in `async_recv` and `verified_block` are what `check_proposal` may say
  (`HonestAnswers`), and `VerdictHonest` holds of a core at the engine's height. `NamedLate` does not
  change within a height, and a status that changes it empties the core (`BlockSteps`).
* `SenderInv`: the proof kept is that of the commit one height below (`ProofCurrent`), and what was
  transmitted is of heights reached (`SentReached`), so that a proposal of the present height was
  sent after that commit. `check_proof` adopts another's proof only where there is none
  of that height.

### The log

* `Parsed` reads a file from the front, each offset by the next one. Nothing is proved by
  induction over the file: `Reads` states the equation, `FromTheEnd` says that what holds at an
  offset when it holds at all later ones holds everywhere, and that is the least element of a set of
  naturals (`Least`, from `WFMin`). `ParsedFinds` says which records a file with a given
  beginning yields.
* `Filled` and `Starts`: a file that holds whole records only, and one that begins with them.
  `CellsInv` says that each file is one or the other, and how far the record in progress is.
  `SavedIsLoaded` follows by `StartsRead` and `FilledReads`.
* `IndexInv`: the index is never longer than the text of `current_height`, so `set_len` never cuts
  it and it is readable only when it is the text of `named`. `DigitsGrow` and `DigitsRead` are
  facts about decimal numbers, from `FromBelow`.
* `OpenInv`: files that are not orphans are open, and none is beyond the next height.
* `WalInv` is the conjunction with `TypeOK`. `LogDurable` maps each system call to a step of
  `DurableLog` or to a stutter: whatever it writes, even behind a torn record, adds at most one
  record to what `load` reads and changes none (`CellsAdded`).

### Recovery

`RecInv` is `RecTypeOK`, `EngineInv` (the engine's invariants, which must hold before, during and
after the replay), `LogInv` and `WriteAhead`. `LogInv`: what a file holds was logged at its height
(`SoundLog`), the log is set to the engine's height, or to one that is at most the next of the chain's when
the process starts at height 0, and what is being replayed is what the file holds. `NextEngine`
reduces an action of `Consensus` without its saves to the lemmas of the engine; each action with saves
extends the log (`Extends`) and does no more. A crash resets the engine: its invariants hold at height 0
since there is no list yet, and a replayed commit is `Supported` because `SoundLog` kept that from the
time it was saved.

### The wire

`MarkRead`: reading `Mark` digits undoes writing them. `Extracted` and `BlockDecoded`: hence the
parts of a message come apart. `SortedHolds`: a finite set of numbers has one sorted list, so
`OrderHidden`: the encoding of a proof does not depend on the order of its map.
`SumCounts`: with weights of one, a sum of weights is a number of places, and `WeightsCount`
relates the two judges. `WireInv` says that what travels is a form of the proposal that was built.

### Only model-checked

`VerdictDelivered` and `DecisionAdvances`: liveness and `ENABLED` are out of the prover's reach.
What a recursive definition computes is proved from its equation and a least element, as above, since
the library's induction theorems can't be instantiated; the definitions are
therefore recursive functions. That the five runs of section 3 find their violations is TLC's as well.

## 5. Not modelled, and why

* A failed `set_height` together with saves: each is modelled, in `Consensus` and `Recovery`,
  and what becomes of the files in `Wal`.
* Two ends of the process in the composition: `Wal` has them, `Recovery` is too large.
* Bytes that no encoder wrote and that end the engine thread: `decode_block` on fewer than
  eight bytes, where `split_at` panics; a length mark near 2^64, where `first_len + 8` (`util.rs` 81)
  overflows and `Extract` adds natural numbers; a vote type of 2 or more, where `VoteType::from`
  panics (`types.rs` 62).
* A `write_all` of the index that ends after part of the digits (`wal.rs` 91): `WriteIndex` writes
  all of them or none. The rest would be a mix of two heights (29 between 19 and 20), against which
  `IndexHonest` and the theorems about the index say nothing.
* A failed `transmit` (333): what was handed over is taken as sent.
* `ProposalCollector`, `Error`, logging, examples and the bench: no behaviour of the
  engine depends on them.
* The inside of `bft-core`: timers, round changes, locking. It is another crate.
* Growth of `vote_cache` and `proposal_cache` for heights a status jumps over.
* Proposals `CACHE_NUMBER` or more ahead (238-240), which are not cached but handled at once:
  the action has the branch and the theorems cover it; no run has heights enough to reach it.

## 6. Plan

Done: every module above, the twelve runs, a theorem for each safety property. Left:

1. Intersection of quorums: two decisions of one height, each supported by more than two thirds of
   the list, share a voter; so no height has two proofs unless an authority signs twice.
2. The hazards without a property, in the order of `PROJECT.json`: they need an action more, or
   a bound that grows, rather than a proof.
