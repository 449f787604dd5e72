-------------------------------- MODULE Wire --------------------------------
(***************************************************************************)
(* A signed proposal on its way from the node that builds it to another     *)
(* node and to a client of the chain: the encodings of src/src/types.rs and *)
(* src/src/util.rs, the two signature checks they have to agree with, and   *)
(* the two judges of the proof inside, Consensus::verify_proof and the      *)
(* stand-alone util::check_proof.                                           *)
(*                                                                         *)
(* An address is a number, since RLP sorts the byte strings.  An RLP item   *)
(* is a sequence of items or a value; its bytes are a run of cells that are *)
(* the item again when they are read together.  A hash is injective, so a   *)
(* signature is its signer and the item that was signed.                    *)
(***************************************************************************)
EXTENDS Naturals, Sequences, FiniteSets, SequencesExt, FiniteSetsExt

CONSTANTS
  Addresses,     \* a set of numbers
  Contents,      \* encoded block contents, as sequences of bytes
  BlockHashes,   \* their hashes, likewise
  Lists,         \* the authority lists the proof may be judged by
  Height,        \* of the proposal, which holds a proof of the height before
  Rounds,        \* the rounds of the proof
  Byte, Mark,    \* a length mark has Mark digits to the base Byte: 8 and 256
  RlpSize,       \* how many cells the bytes of an RLP item are
  None           \* lock_round: None, and the address of nobody known

\* The digits of a number without the last k.
Shifted(n, k) ==
  LET rest[i \in 0 .. k] == IF i = 0 THEN n ELSE rest[i - 1] \div Byte IN rest[k]
Fits(n) == Shifted(n, Mark) = 0

ASSUME WireAssumption ==
  /\ Addresses \subseteq Nat /\ IsFiniteSet(Addresses) /\ None \notin Nat
  /\ Contents \subseteq Seq(Nat) /\ BlockHashes \subseteq Seq(Nat)
  /\ Rounds \subseteq Nat /\ Byte \in Nat \ {0, 1} /\ Mark \in Nat \ {0}
  /\ RlpSize \in Nat \ {0} /\ Fits(RlpSize)
  /\ Height \in Nat \ {0, 1} /\ Fits(Height)
  /\ \A h \in BlockHashes : Fits(Len(h))

Members == [address : Addresses, proposal_weight : Nat, vote_weight : Nat]
ASSUME ListsAssumption == Lists \subseteq Seq(Members)

VARIABLES
  stage,         \* how far the proposal has come
  proposal, content, signature,
  order,         \* the order the sender's HashMap of precommits iterates in
  bytes,         \* what function.transmit is called with
  received,      \* what external_process makes of it
  verdict        \* of the node and of the client

vars == <<stage, proposal, content, signature, order, bytes, received, verdict>>

-----------------------------------------------------------------------------
(* util.rs: bytes *)

\* A Result: what was read, or an error.
Ok(x) == [ok |-> TRUE, val |-> x]
Err == [ok |-> FALSE, val |-> None]

Cell(b) == [kind |-> "byte", val |-> b]
Digit(n, i) == Shifted(n, Mark - i) % Byte
ToBeBytes(n) == [i \in 1 .. Mark |-> Cell(Digit(n, i))]
FromBeBytes(s) ==
  LET value[n \in 0 .. Len(s)] == IF n = 0 THEN 0 ELSE Byte * value[n - 1] + s[n].val
  IN  value[Len(s)]

Combine(first, second) == ToBeBytes(Len(first)) \o first \o second

EncodeBlock_swapped(height, block, hash) == ToBeBytes(height) \o Combine(block, hash)
EncodeBlock(height, block, hash) == ToBeBytes(height) \o Combine(hash, block)

\* A mark is a number here: in the code one that is within 8 of 2^64 overflows the
\* sum, or wraps it, and panics.  No sender of this module writes such a mark.
Extract(encode) ==
  LET first_len == FromBeBytes(SubSeq(encode, 1, Mark))
  IN  IF Len(encode) < Mark THEN Err
      ELSE IF Len(encode) < first_len + Mark THEN Err
      ELSE Ok([one |-> SubSeq(encode, Mark + 1, Mark + first_len),
               two |-> SubSeq(encode, Mark + first_len + 1, Len(encode))])

\* The bytes hold a height, or split_at panics.
DecodeBlock(encode) ==
  LET combined == Extract(SubSeq(encode, Mark + 1, Len(encode)))
  IN  IF ~combined.ok THEN Err
      ELSE Ok([height |-> FromBeBytes(SubSeq(encode, 1, Mark)),
               block |-> combined.val.two, block_hash |-> combined.val.one])

-----------------------------------------------------------------------------
(* types.rs: RLP items *)

VoteNumber(vote_type) == IF vote_type = "Prevote" THEN 0 ELSE 1
\* Any other number panics.
VoteTypeOf(n) == CASE n = 0 -> "Prevote" [] n = 1 -> "Precommit"

EncodeVote(v) == <<VoteNumber(v.vote_type), v.height, v.round, v.proposal, v.voter>>
DecodeVote(t) ==
  [vote_type |-> VoteTypeOf(t[1]), height |-> t[2], round |-> t[3], proposal |-> t[4],
   voter |-> t[5]]

EncodeSignedVote(sv) == <<EncodeVote(sv.vote), sv.signature>>
DecodeSignedVote(t) == [vote |-> DecodeVote(t[1]), signature |-> t[2]]

\* The keys and the values of the map go out as two lists, sorted by key,
\* whatever order the map iterates in.
Sorted(S) ==
  CHOOSE s \in [1 .. Cardinality(S) -> S] : \A i, j \in DOMAIN s : i < j => s[i] < s[j]
EncodeProof_unsorted(pf, iteration) ==
  <<pf.height, pf.round, pf.block_hash, iteration,
    [i \in DOMAIN iteration |-> pf.precommit_votes[iteration[i]]]>>
EncodeProof(pf, iteration) ==
  LET keys == Sorted(ToSet(iteration))
  IN  <<pf.height, pf.round, pf.block_hash, keys,
        [i \in DOMAIN keys |-> pf.precommit_votes[keys[i]]]>>

\* zip and collect: of entries with the same key the last one stays.
DecodeProof(t) ==
  IF Len(t) # 5 \/ Len(t[4]) # Len(t[5]) THEN Err
  ELSE LET last(a) == Max({i \in DOMAIN t[4] : t[4][i] = a})
       IN  Ok([height |-> t[1], round |-> t[2], block_hash |-> t[3],
               precommit_votes |-> [a \in ToSet(t[4]) |-> t[5][last(a)]]])

\* Option<u64> is a list of at most one.
EncodeProposal(p, iteration) ==
  <<p.height, p.round, p.hash, EncodeProof(p.proof, iteration),
    IF p.lock_round = None THEN <<>> ELSE <<p.lock_round>>,
    [i \in DOMAIN p.lock_votes |-> EncodeSignedVote(p.lock_votes[i])], p.proposer>>

DecodeProposal(t) ==
  IF Len(t) # 7 \/ ~DecodeProof(t[4]).ok THEN Err
  ELSE Ok([height |-> t[1], round |-> t[2], hash |-> t[3], proof |-> DecodeProof(t[4]).val,
           lock_round |-> IF t[5] = <<>> THEN None ELSE t[5][1],
           lock_votes |-> [i \in DOMAIN t[6] |-> DecodeSignedVote(t[6][i])],
           proposer |-> t[7]])

EncodeSignedProposal(p, iteration, sig) == <<EncodeProposal(p, iteration), sig>>
DecodeSignedProposal(t) ==
  IF Len(t) # 2 \/ ~DecodeProposal(t[1]).ok THEN Err
  ELSE Ok([proposal |-> DecodeProposal(t[1]).val, signature |-> t[2]])

\* rlp_bytes and rlp::decode
RlpBytes(item) == [i \in 1 .. RlpSize |-> [kind |-> "rlp", of |-> item, at |-> i]]
RlpItem(cells) ==
  IF cells # <<>> /\ Head(cells).kind = "rlp" /\ cells = RlpBytes(Head(cells).of)
  THEN Ok(Head(cells).of) ELSE Err

-----------------------------------------------------------------------------
(* Signatures and the two judges of a proof *)

Sign(address, item) == [by |-> address, over |-> item]
Damaged == [by |-> None, over |-> None]

\* ConsensusSupport::verify_signature, or the closure a client passes: the
\* address, or an error; over another item it recovers to nobody known.
Recover(sig, item) ==
  IF sig = Damaged THEN Err ELSE Ok(IF sig.over = item THEN sig.by ELSE None)

\* The vote whose signature is looked for in a proof.
PrecommitOf_round_zero(pf, voter) ==
  [vote_type |-> "Precommit", height |-> pf.height, round |-> 0,
   proposal |-> pf.block_hash, voter |-> voter]
PrecommitOf(pf, voter) ==
  [vote_type |-> "Precommit", height |-> pf.height, round |-> pf.round,
   proposal |-> pf.block_hash, voter |-> voter]

RecoveredVoter(pf, a) == Recover(pf.precommit_votes[a], EncodeVote(PrecommitOf(pf, a)))
AddressSet(list) == {n.address : n \in ToSet(list)}

\* Consensus::verify_proof: it counts heads, and lets a signature pass that
\* verify_signature refuses.
VerifyProof(pf, h, list) ==
  \/ h = 0
  \/ /\ h = pf.height
     /\ 2 * Len(list) < 3 * Cardinality(DOMAIN pf.precommit_votes)
     /\ \A a \in DOMAIN pf.precommit_votes :
          a \in AddressSet(list) /\ RecoveredVoter(pf, a) \in {Ok(a), Err}

SumOf(weights) ==
  LET sum[n \in 0 .. Len(weights)] == IF n = 0 THEN 0 ELSE sum[n - 1] + weights[n]
  IN  sum[Len(weights)]
TotalWeight(list) == SumOf([i \in DOMAIN list |-> list[i].vote_weight])
VotesWeight(list, voters) ==
  SumOf([i \in DOMAIN list |-> IF list[i].address \in voters THEN list[i].vote_weight ELSE 0])

\* util::check_proof: it weighs votes.
CheckProof_two_thirds(pf, height, list) ==
  \/ height = 0
  \/ /\ height = pf.height + 1
     /\ VotesWeight(list, DOMAIN pf.precommit_votes) * 3 >= TotalWeight(list) * 2
     /\ \A a \in DOMAIN pf.precommit_votes :
          a \in AddressSet(list) /\ RecoveredVoter(pf, a) = Ok(a)
CheckProof(pf, height, list) ==
  \/ height = 0
  \/ /\ height = pf.height + 1
     /\ VotesWeight(list, DOMAIN pf.precommit_votes) * 3 > TotalWeight(list) * 2
     /\ \A a \in DOMAIN pf.precommit_votes :
          a \in AddressSet(list) /\ RecoveredVoter(pf, a) = Ok(a)

-----------------------------------------------------------------------------
(* The way of a proposal *)

\* The precommits of the height before may be sound, signed by another, or damaged.
SomeSignatures(r, x, a) ==
  LET item == EncodeVote([vote_type |-> "Precommit", height |-> Height - 1, round |-> r,
                          proposal |-> x, voter |-> a])
  IN  {Sign(a, item), Sign(a + 1, item), Damaged}

Precommits(r, x, S) ==
  {f \in [S -> UNION {SomeSignatures(r, x, a) : a \in S}] :
     \A a \in S : f[a] \in SomeSignatures(r, x, a)}
Proofs ==
  UNION {{[height |-> Height - 1, round |-> r, block_hash |-> x, precommit_votes |-> f] :
            f \in Precommits(r, x, S)} :
         r \in Rounds, x \in BlockHashes, S \in SUBSET Addresses}

\* A proposal that is locked since round 0, or is not.
LockVote(x, a) ==
  LET v == [vote_type |-> "Prevote", height |-> Height, round |-> 0, proposal |-> x,
            voter |-> a]
  IN  [vote |-> v, signature |-> Sign(a, EncodeVote(v))]
Locks(x) ==
  {[lock_round |-> None, lock_votes |-> <<>>],
   [lock_round |-> 0, lock_votes |-> SetToSeq({LockVote(x, a) : a \in Addresses})]}

Orders(pf) == SetToSeqs(DOMAIN pf.precommit_votes)

Nothing == [proposal |-> Err, block |-> Err, from |-> Err]
Undecided == [node |-> FALSE, client |-> FALSE, list |-> <<>>]

Init ==
  /\ stage = "built"
  /\ \E x \in BlockHashes, pf \in Proofs, a \in Addresses : \E lock \in Locks(x) :
       proposal = [height |-> Height, round |-> 1, hash |-> x, proof |-> pf,
                   lock_round |-> lock.lock_round, lock_votes |-> lock.lock_votes,
                   proposer |-> a]
  /\ content = <<>> /\ signature = Damaged /\ order = <<>> /\ bytes = <<>>
  /\ received = Nothing /\ verdict = Undecided

\* build_signed_proposal: the hash of the encoded proposal is signed.
SignProposal ==
  /\ stage = "built" /\ stage' = "signed"
  /\ order' \in Orders(proposal.proof)
  /\ signature' = Sign(proposal.proposer, EncodeProposal(proposal, order'))
  /\ UNCHANGED <<proposal, content, bytes, received, verdict>>

\* handle_proposal and transmit
Transmit ==
  /\ stage = "signed" /\ stage' = "sent"
  /\ content' \in Contents
  /\ LET block == [i \in DOMAIN content' |-> Cell(content'[i])]
         hash == [i \in DOMAIN proposal.hash |-> Cell(proposal.hash[i])]
     IN  bytes' = Combine(RlpBytes(EncodeSignedProposal(proposal, order, signature)),
                          EncodeBlock(proposal.height, block, hash))
  /\ UNCHANGED <<proposal, signature, order, received, verdict>>

\* external_process and the first check of handle_signed_proposal: the
\* receiver's map iterates in an order of its own.
Receive ==
  /\ stage = "sent" /\ stage' = "received"
  /\ LET parts == Extract(bytes)
         item == RlpItem(parts.val.one)
         signed == DecodeSignedProposal(item.val)
         p == signed.val.proposal
     IN  IF ~parts.ok \/ ~item.ok \/ ~signed.ok THEN received' = Nothing
         ELSE \E iteration \in Orders(p.proof) :
                received' = [proposal |-> Ok(p), block |-> DecodeBlock(parts.val.two),
                             from |-> Recover(signed.val.signature, EncodeProposal(p, iteration))]
  /\ UNCHANGED <<proposal, content, signature, order, bytes, verdict>>

\* The receiver checks the proof in the proposal, and so does a client.
Judge ==
  /\ stage = "received" /\ received.proposal.ok /\ stage' = "judged"
  /\ \E list \in Lists :
       LET p == received.proposal.val
       IN  verdict' = [node |-> VerifyProof(p.proof, p.height - 1, list),
                       client |-> CheckProof(p.proof, p.height, list), list |-> list]
  /\ UNCHANGED <<proposal, content, signature, order, bytes, received>>

Next == SignProposal \/ Transmit \/ Receive \/ Judge

Spec == Init /\ [][Next]_vars

-----------------------------------------------------------------------------
(* Properties *)

Plain(cells) == [i \in DOMAIN cells |-> cells[i].val]

\* The receiver of a proposal reads what its builder wrote: the proposal with
\* its map of precommits and its lock votes, and the block with its hash, which
\* only length marks keep apart.
ReadAsSent ==
  stage = "received" =>
    /\ received.proposal = Ok(proposal)
    /\ received.block.ok /\ received.block.val.height = proposal.height
    /\ Plain(received.block.val.block) = content
    /\ Plain(received.block.val.block_hash) = proposal.hash

\* The signature is checked over the proposal encoded again by the receiver,
\* whose HashMap iterates in another order than the signer's: it recovers to
\* the proposer all the same.
SignatureSurvives == stage = "received" => received.from = Ok(proposal.proposer)

UnitWeights(list) ==
  /\ \A n \in ToSet(list) : n.vote_weight = 1
  /\ Cardinality(AddressSet(list)) = Len(list)

\* Where every authority weighs one, a client accepts no proof that a node
\* refuses, and they accept the same ones unless a signature is damaged.
JudgesAgree ==
  (stage = "judged" /\ UnitWeights(verdict.list)) =>
    /\ verdict.client => verdict.node
    /\ verdict.node =>
         verdict.client \/ Damaged \in Range(received.proposal.val.proof.precommit_votes)

\* The precommits that voters sign one by one prove the block to both judges,
\* when more than two thirds of the authorities and no one else gave one: the
\* vote that a judge puts together is encoded as the one that was signed.
QuorumConvinces ==
  LET pf == proposal.proof
      voters == DOMAIN pf.precommit_votes
  IN  (/\ stage = "judged" /\ UnitWeights(verdict.list)
       /\ voters \subseteq AddressSet(verdict.list)
       /\ 3 * Cardinality(voters) > 2 * Len(verdict.list)
       /\ \A a \in voters : pf.precommit_votes[a].by = a)
        => verdict.node /\ verdict.client
=============================================================================
