----------------------------- MODULE Collection -----------------------------
(***************************************************************************)
(* VoteCollector (src/src/collection.rs): signed votes by height, round    *)
(* and type.  The heights form an LRU cache of CacheNumber entries and the *)
(* rounds of a height another; both are written as the sequence of their   *)
(* keys, least recently used first.                                        *)
(***************************************************************************)
EXTENDS Types

CONSTANT CacheNumber        \* CACHE_NUMBER
ASSUME CacheAssumption == CacheNumber \in Nat \ {0}

\* One entry of a VoteSet's vote_pair, with the keys that lead to it.
Pair == [height : Heights, round : Rounds, vote_type : VoteTypes,
         signed : SignedVote]

\* A height that is not cached has no rounds; one that is has at least one.
VoteCollector ==
  [heights : Seq(Heights), rounds : [Heights -> Seq(Rounds)], pairs : SUBSET Pair]

EmptyCollector == [heights |-> <<>>, rounds |-> [h \in Heights |-> <<>>], pairs |-> {}]

\* LruCache::get_mut of a present key, or insert of a new one: the key
\* becomes the most recently used, and the oldest makes room for a new one.
Touch(order, k) ==
  LET at == CHOOSE i \in DOMAIN order : order[i] = k
  IN  Append(CASE k \in ToSet(order) -> RemoveAt(order, at)
               [] k \notin ToSet(order) /\ Len(order) = CacheNumber -> Tail(order)
               [] OTHER -> order, k)

\* The collector after a lookup of (h, r) that creates what is missing:
\* an evicted height or round takes its votes with it.
Access_anew(vc, h, r) ==
  LET hs == Touch(vc.heights, h)
      rs == [x \in Heights |-> CASE x = h -> <<r>>
                                 [] x # h /\ x \in ToSet(hs) -> vc.rounds[x]
                                 [] OTHER -> <<>>]
  IN  [heights |-> hs, rounds |-> rs,
       pairs |-> {e \in vc.pairs : e.round \in ToSet(rs[e.height])}]

Access(vc, h, r) ==
  LET hs == Touch(vc.heights, h)
      rs == [x \in Heights |-> CASE x = h -> Touch(vc.rounds[h], r)
                                 [] x # h /\ x \in ToSet(hs) -> vc.rounds[x]
                                 [] OTHER -> <<>>]
  IN  [heights |-> hs, rounds |-> rs,
       pairs |-> {e \in vc.pairs : e.round \in ToSet(rs[e.height])}]

Holds(vc, h, r, t, v) ==
  \E e \in vc.pairs : e.height = h /\ e.round = r /\ e.vote_type = t /\ e.signed.vote = v

\* VoteCollector::add for each vote of a set: entry(..).or_insert keeps the
\* signed vote that came first for a vote.
AddVotes(vc, h, r, t, signed) ==
  LET a == Access(vc, h, r)
  IN  IF signed = {} THEN vc
      ELSE [a EXCEPT !.pairs = @ \cup
              {[height |-> h, round |-> r, vote_type |-> t, signed |-> s] :
                  s \in {x \in signed : ~Holds(a, h, r, t, x.vote)}}]

\* get_vote_set(height, round, vote_type): what it finds ...
VoteSet(vc, h, r, t) ==
  {e.signed : e \in {x \in vc.pairs : x.height = h /\ x.round = r /\ x.vote_type = t}}

\* ... and the collector after it: looking a key up refreshes it.
Looked(vc, h, r) ==
  CASE vc.rounds[h] = <<>> -> vc
    [] r \in ToSet(vc.rounds[h]) -> [vc EXCEPT !.heights = Touch(@, h), !.rounds[h] = Touch(@, r)]
    [] OTHER -> [vc EXCEPT !.heights = Touch(@, h)]
=============================================================================
