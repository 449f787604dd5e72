-------------------------- MODULE CollectionProofs --------------------------
(***************************************************************************)
(* Facts about the vote collector: it stays well formed, what is in it was  *)
(* put in, and the LRU caches do not evict what is still wanted.            *)
(***************************************************************************)
EXTENDS Collection, TLAPS, SequenceTheorems

-----------------------------------------------------------------------------
(* Types *)

\* The keys of an LRU cache stay keys.
LEMMA TouchType ==
  ASSUME NEW S, NEW order \in Seq(S), NEW k \in S
  PROVE  Touch(order, k) \in Seq(S)
<1> DEFINE at == CHOOSE i \in DOMAIN order : order[i] = k
           kept == CASE k \in ToSet(order) -> RemoveAt(order, at)
                     [] k \notin ToSet(order) /\ Len(order) = CacheNumber -> Tail(order)
                     [] OTHER -> order
<1>1. CASE k \in ToSet(order)
  <2>1. at \in 1 .. Len(order)
    BY <1>1 DEF ToSet
  <2>2. SubSeq(order, 1, at - 1) \in Seq(S) /\ SubSeq(order, at + 1, Len(order)) \in Seq(S)
    <3> HIDE DEF at
    <3>1. \A i \in 1 .. at - 1 : order[i] \in S
      BY <2>1
    <3>2. \A i \in at + 1 .. Len(order) : order[i] \in S
      BY <2>1
    <3> QED
      BY <2>1, <3>1, <3>2, SubSeqProperties
  <2>3. RemoveAt(order, at) \in Seq(S)
    BY <2>2 DEF RemoveAt
  <2> QED
    BY <1>1, <2>3 DEF Touch
<1>2. CASE k \notin ToSet(order) /\ Len(order) = CacheNumber
  <2>1. Len(order) > 0
    BY <1>2, CacheAssumption
  <2>2. Tail(order) \in Seq(S)
    BY <2>1
  <2> QED
    BY <1>2, <2>2 DEF Touch
<1>3. CASE k \notin ToSet(order) /\ Len(order) # CacheNumber
  BY <1>3 DEF Touch
<1> QED
  BY <1>1, <1>2, <1>3

LEMMA AccessType ==
  ASSUME NEW vc \in VoteCollector, NEW h \in Heights, NEW r \in Rounds
  PROVE  Access(vc, h, r) \in VoteCollector
<1> DEFINE hs == Touch(vc.heights, h)
           rs == [x \in Heights |-> CASE x = h -> Touch(vc.rounds[h], r)
                                      [] x # h /\ x \in ToSet(hs) -> vc.rounds[x]
                                      [] OTHER -> <<>>]
<1>1. hs \in Seq(Heights)
  BY TouchType DEF VoteCollector
<1>2. Touch(vc.rounds[h], r) \in Seq(Rounds)
  BY TouchType DEF VoteCollector
<1>3. rs \in [Heights -> Seq(Rounds)]
  <2> SUFFICES ASSUME NEW x \in Heights PROVE rs[x] \in Seq(Rounds)
    OBVIOUS
  <2>1. vc.rounds[x] \in Seq(Rounds) /\ <<>> \in Seq(Rounds)
    BY DEF VoteCollector
  <2> HIDE DEF hs
  <2> QED
    BY <1>2, <2>1
<1> HIDE DEF hs, rs
<1>4. [heights |-> hs, rounds |-> rs,
       pairs |-> {e \in vc.pairs : e.round \in ToSet(rs[e.height])}] \in VoteCollector
  BY <1>1, <1>3 DEF VoteCollector
<1> QED
  BY <1>4 DEF Access, hs, rs

LEMMA AddVotesType ==
  ASSUME NEW vc \in VoteCollector, NEW h \in Heights, NEW r \in Rounds,
         NEW t \in VoteTypes, NEW signed \in SUBSET SignedVote
  PROVE  AddVotes(vc, h, r, t, signed) \in VoteCollector
<1> DEFINE acc == Access(vc, h, r)
           new == {[height |-> h, round |-> r, vote_type |-> t, signed |-> s] :
                     s \in {x \in signed : ~Holds(acc, h, r, t, x.vote)}}
<1>1. acc \in VoteCollector
  BY AccessType
<1>2. new \in SUBSET Pair
  BY DEF Pair
<1> HIDE DEF acc, new
<1>3. [acc EXCEPT !.pairs = @ \cup new] \in VoteCollector
  BY <1>1, <1>2 DEF VoteCollector
<1> QED
  BY <1>3 DEF AddVotes, acc, new

LEMMA LookedType ==
  ASSUME NEW vc \in VoteCollector, NEW h \in Heights, NEW r \in Rounds
  PROVE  Looked(vc, h, r) \in VoteCollector
<1>1. Touch(vc.heights, h) \in Seq(Heights)
  BY TouchType DEF VoteCollector
<1>2. Touch(vc.rounds[h], r) \in Seq(Rounds)
  BY TouchType DEF VoteCollector
<1>3. [vc EXCEPT !.heights = Touch(@, h)] \in VoteCollector
  BY <1>1 DEF VoteCollector
<1>4. [vc EXCEPT !.heights = Touch(@, h), !.rounds[h] = Touch(@, r)] \in VoteCollector
  BY <1>1, <1>2 DEF VoteCollector
<1> QED
  BY <1>3, <1>4 DEF Looked

LEMMA CollectorGrows ==
  ASSUME NEW vc, NEW h, NEW r
  PROVE  /\ \A t, S : \A e \in AddVotes(vc, h, r, t, S).pairs : e \in vc.pairs \/ e.signed \in S
         /\ vc \in VoteCollector => Looked(vc, h, r).pairs = vc.pairs
<1>1. ASSUME NEW t, NEW S, NEW e \in AddVotes(vc, h, r, t, S).pairs
      PROVE  e \in vc.pairs \/ e.signed \in S
  <2>1. Access(vc, h, r).pairs \subseteq vc.pairs
    BY DEF Access
  <2>2. CASE S = {}
    BY <1>1, <2>2 DEF AddVotes
  <2>3. CASE S # {}
    <3>1. AddVotes(vc, h, r, t, S).pairs =
            Access(vc, h, r).pairs \cup
              {[height |-> h, round |-> r, vote_type |-> t, signed |-> x] :
                 x \in {y \in S : ~Holds(Access(vc, h, r), h, r, t, y.vote)}}
      BY <2>3 DEF AddVotes, Access
    <3> QED
      BY <1>1, <2>1, <3>1
  <2> QED
    BY <2>2, <2>3
<1>2. ASSUME vc \in VoteCollector PROVE Looked(vc, h, r).pairs = vc.pairs
  BY <1>2 DEF Looked, VoteCollector
<1> QED
  BY <1>1, <1>2

-----------------------------------------------------------------------------
(* The keys of an LRU cache *)

\* Where the elements of a sequence go when one is removed.
LEMMA RemoveAtProperties ==
  ASSUME NEW S, NEW order \in Seq(S), NEW at \in 1 .. Len(order)
  PROVE  /\ RemoveAt(order, at) \in Seq(S)
         /\ Len(RemoveAt(order, at)) = Len(order) - 1
         /\ \A i \in 1 .. Len(order) - 1 :
              RemoveAt(order, at)[i] = IF i < at THEN order[i] ELSE order[i + 1]
<1> DEFINE a == SubSeq(order, 1, at - 1)
           b == SubSeq(order, at + 1, Len(order))
<1>1. a \in Seq(S) /\ Len(a) = at - 1 /\ \A i \in 1 .. at - 1 : a[i] = order[i]
  BY SubSeqProperties
<1>2. /\ b \in Seq(S) /\ Len(b) = Len(order) - at
      /\ \A i \in 1 .. Len(order) - at : b[i] = order[at + i]
  BY SubSeqProperties
<1> HIDE DEF a, b
<1>3. /\ a \o b \in Seq(S) /\ Len(a \o b) = Len(order) - 1
      /\ \A i \in 1 .. Len(order) - 1 : (a \o b)[i] = IF i < at THEN a[i] ELSE b[i - (at - 1)]
  <2>1. /\ a \o b \in Seq(S) /\ Len(a \o b) = Len(a) + Len(b)
        /\ \A i \in 1 .. Len(a) + Len(b) :
             (a \o b)[i] = IF i <= Len(a) THEN a[i] ELSE b[i - Len(a)]
    BY <1>1, <1>2, ConcatProperties
  <2> QED
    BY <1>1, <1>2, <2>1
<1>4. \A i \in 1 .. Len(order) - 1 : (a \o b)[i] = IF i < at THEN order[i] ELSE order[i + 1]
  <2> SUFFICES ASSUME NEW i \in 1 .. Len(order) - 1
               PROVE  (a \o b)[i] = IF i < at THEN order[i] ELSE order[i + 1]
    OBVIOUS
  <2>1. CASE i < at
    BY <1>1, <1>3, <2>1
  <2>2. CASE ~(i < at)
    <3>1. i - (at - 1) \in 1 .. Len(order) - at
      BY <2>2
    <3>2. b[i - (at - 1)] = order[at + (i - (at - 1))]
      BY <1>2, <3>1
    <3> QED
      BY <1>3, <2>2, <3>2
  <2> QED
    BY <2>1, <2>2
<1> QED
  BY <1>3, <1>4 DEF RemoveAt, a, b

\* The keys before the most recently used one, in their order.
Spared(order, k) ==
  CASE k \in ToSet(order) -> RemoveAt(order, CHOOSE i \in DOMAIN order : order[i] = k)
    [] k \notin ToSet(order) /\ Len(order) = CacheNumber -> Tail(order)
    [] OTHER -> order

LEMMA SparedKeeps ==
  ASSUME NEW S, NEW order \in Seq(S), NEW k \in S, IsInjective(order)
  PROVE  LET left == Spared(order, k)
         IN  /\ left \in Seq(S) /\ IsInjective(left) /\ k \notin ToSet(left)
             /\ Touch(order, k) = Append(left, k)
             /\ \A i, j \in DOMAIN left : i < j =>
                  \E a, b \in DOMAIN order : a < b /\ order[a] = left[i] /\ order[b] = left[j]
             /\ \A x \in ToSet(left) : x \in ToSet(order)
             /\ \A x \in ToSet(order) : x = k \/ x \in ToSet(left)
                  \/ (k \notin ToSet(order) /\ Len(order) = CacheNumber /\ x = order[1])
<1> DEFINE left == Spared(order, k)
<1>0. Touch(order, k) = Append(left, k)
  BY DEF Touch, Spared
<1>1. CASE k \in ToSet(order)
  <2> DEFINE at == CHOOSE i \in DOMAIN order : order[i] = k
  <2>1. at \in 1 .. Len(order) /\ order[at] = k
    BY <1>1 DEF ToSet
  <2> HIDE DEF at
  <2>2. left = RemoveAt(order, at)
    BY <1>1 DEF Spared, at
  <2> HIDE DEF left
  <2>3. /\ left \in Seq(S) /\ Len(left) = Len(order) - 1
        /\ \A i \in 1 .. Len(order) - 1 : left[i] = IF i < at THEN order[i] ELSE order[i + 1]
    BY <2>1, <2>2, RemoveAtProperties
  <2> DEFINE was(i) == IF i < at THEN i ELSE i + 1
  <2>4. \A i \in DOMAIN left : was(i) \in DOMAIN order /\ left[i] = order[was(i)] /\ was(i) # at
    BY <2>1, <2>3
  <2>5. \A i, j \in DOMAIN left : /\ i < j => was(i) < was(j)
                                  /\ was(i) = was(j) => i = j
    BY <2>1, <2>3
  <2> DEFINE now(i) == IF i < at THEN i ELSE i - 1
  <2>6. \A i \in DOMAIN order : i # at => now(i) \in DOMAIN left /\ was(now(i)) = i
    BY <2>1, <2>3
  <2> HIDE DEF was, now
  <2>7. IsInjective(left)
    BY <2>4, <2>5 DEF IsInjective
  <2>8. k \notin ToSet(left)
    BY <2>1, <2>4 DEF IsInjective, ToSet
  <2>9. \A i, j \in DOMAIN left : i < j =>
          \E a, b \in DOMAIN order : a < b /\ order[a] = left[i] /\ order[b] = left[j]
    BY <2>4, <2>5
  <2>10. \A x \in ToSet(left) : x \in ToSet(order)
    BY <2>4 DEF ToSet
  <2>11. \A x \in ToSet(order) : x = k \/ x \in ToSet(left)
    BY <2>1, <2>4, <2>6 DEF ToSet
  <2> QED
    BY <1>0, <2>3, <2>7, <2>8, <2>9, <2>10, <2>11 DEF left
<1>2. CASE k \notin ToSet(order) /\ Len(order) = CacheNumber
  <2>1. Len(order) > 0
    BY <1>2, CacheAssumption
  <2>2. left = Tail(order)
    BY <1>2 DEF Spared
  <2> HIDE DEF left
  <2>3. /\ left \in Seq(S) /\ Len(left) = Len(order) - 1
        /\ \A i \in 1 .. Len(order) - 1 : left[i] = order[i + 1]
    BY <2>1, <2>2
  <2>4. \A i \in DOMAIN left : i + 1 \in DOMAIN order /\ left[i] = order[i + 1]
    BY <2>3
  <2>5. IsInjective(left)
    BY <2>3, <2>4 DEF IsInjective
  <2>6. \A x \in ToSet(left) : x \in ToSet(order)
    BY <2>4 DEF ToSet
  <2>7. \A x \in ToSet(order) : x = order[1] \/ x \in ToSet(left)
    <3> SUFFICES ASSUME NEW i \in DOMAIN order, i # 1 PROVE order[i] \in ToSet(left)
      BY DEF ToSet
    <3>1. i - 1 \in DOMAIN left /\ left[i - 1] = order[i]
      BY <2>3
    <3> QED
      BY <3>1 DEF ToSet
  <2>8. \A i, j \in DOMAIN left : i < j =>
          \E a, b \in DOMAIN order : a < b /\ order[a] = left[i] /\ order[b] = left[j]
    <3> SUFFICES ASSUME NEW i \in DOMAIN left, NEW j \in DOMAIN left, i < j
                 PROVE  \E a, b \in DOMAIN order : a < b /\ order[a] = left[i] /\ order[b] = left[j]
      OBVIOUS
    <3>1. i + 1 < j + 1
      BY <2>3
    <3> QED
      BY <2>4, <3>1
  <2> QED
    BY <1>0, <1>2, <2>3, <2>5, <2>6, <2>7, <2>8 DEF left
<1>3. CASE k \notin ToSet(order) /\ Len(order) # CacheNumber
  <2>1. left = order
    BY <1>3 DEF Spared
  <2> HIDE DEF left
  <2>2. \A i, j \in DOMAIN order : i < j =>
          \E a, b \in DOMAIN order : a < b /\ order[a] = order[i] /\ order[b] = order[j]
    OBVIOUS
  <2> QED
    BY <1>0, <1>3, <2>1, <2>2 DEF left
<1> QED
  BY <1>1, <1>2, <1>3

-----------------------------------------------------------------------------
(* What is in the caches, and what an LRU cache may let go of *)

\* Each cache lists a key once, a height with rounds is cached, and every vote is
\* under cached keys.
CollectorInv(vc) ==
  /\ IsInjective(vc.heights)
  /\ \A x \in Heights : /\ IsInjective(vc.rounds[x])
                        /\ vc.rounds[x] # <<>> => x \in ToSet(vc.heights)
  /\ \A e \in vc.pairs : e.round \in ToSet(vc.rounds[e.height])

\* Since the height h was last used, only heights from the one before it on were.
Fresh(order, h) ==
  \E i \in DOMAIN order :
    order[i] = h /\ \A j \in DOMAIN order : i < j => order[j] + 1 >= h

\* The cache of heights is full of heights from the one before h on.
Overrun(order, h) ==
  Len(order) = CacheNumber /\ \A x \in ToSet(order) : x + 1 >= h

\* The vote v is held under (h, r, t), unless CACHE_NUMBER rounds of h, or heights
\* not below h - 1, have filled the caches.
Retained(vc, h, r, t, v) ==
  \/ /\ Fresh(vc.heights, h)
     /\ Holds(vc, h, r, t, v) \/ Len(vc.rounds[h]) = CacheNumber
  \/ Overrun(vc.heights, h)

\* A use of a key leaves each key cached, unless the cache is full.
LEMMA TouchProperties ==
  ASSUME NEW S, NEW order \in Seq(S), NEW k \in S, IsInjective(order)
  PROVE  LET left == Spared(order, k)
             after == Touch(order, k)
         IN  /\ left \in Seq(S) /\ after \in Seq(S) /\ Len(after) = Len(left) + 1
             /\ after[Len(after)] = k /\ \A i \in DOMAIN left : after[i] = left[i]
             /\ IsInjective(after) /\ k \in ToSet(after) /\ after # <<>>
             /\ \A x \in ToSet(order) : x \in ToSet(after) \/ Len(after) = CacheNumber
             /\ Len(order) = CacheNumber => Len(after) = CacheNumber
             /\ k \in ToSet(order) => ToSet(order) \subseteq ToSet(after)
<1> DEFINE left == Spared(order, k)
           after == Touch(order, k)
<1>1. /\ left \in Seq(S) /\ IsInjective(left) /\ k \notin ToSet(left)
      /\ after = Append(left, k)
      /\ \A x \in ToSet(order) : x = k \/ x \in ToSet(left)
           \/ (k \notin ToSet(order) /\ Len(order) = CacheNumber /\ x = order[1])
  BY SparedKeeps
<1>2. Len(order) = CacheNumber => Len(left) + 1 = CacheNumber
  <2> SUFFICES ASSUME Len(order) = CacheNumber PROVE Len(left) + 1 = CacheNumber
    OBVIOUS
  <2>1. Len(order) \in Nat \ {0}
    BY CacheAssumption
  <2>2. CASE k \in ToSet(order)
    <3> DEFINE at == CHOOSE i \in DOMAIN order : order[i] = k
    <3>1. at \in 1 .. Len(order)
      BY <2>2 DEF ToSet
    <3> HIDE DEF at
    <3>2. Len(RemoveAt(order, at)) = Len(order) - 1
      BY <3>1, RemoveAtProperties
    <3> QED
      BY <2>1, <2>2, <3>2 DEF Spared, at
  <2>3. CASE k \notin ToSet(order)
    <3>1. left = Tail(order)
      BY <2>3 DEF Spared
    <3> QED
      BY <2>1, <3>1
  <2> QED
    BY <2>2, <2>3
<1> HIDE DEF left, after
<1>3. /\ DOMAIN after = 1 .. Len(left) + 1 /\ after[Len(left) + 1] = k
      /\ DOMAIN left = 1 .. Len(left) /\ Len(left) \in Nat
      /\ Len(after) = Len(left) + 1 /\ after \in Seq(S)
      /\ \A i \in 1 .. Len(left) : after[i] = left[i] /\ left[i] \in ToSet(left)
  BY <1>1 DEF ToSet
<1>4. IsInjective(after)
  BY <1>1, <1>3 DEF IsInjective
<1>5. k \in ToSet(after) /\ after # <<>> /\ \A x \in ToSet(left) : x \in ToSet(after)
  BY <1>1, <1>3 DEF ToSet
<1> QED
  BY <1>1, <1>2, <1>3, <1>4, <1>5 DEF left, after

LEMMA TouchRounds ==
  ASSUME NEW order \in Seq(Rounds), NEW k \in Rounds, IsInjective(order)
  PROVE  LET after == Touch(order, k)
         IN  /\ IsInjective(after) /\ k \in ToSet(after) /\ after # <<>>
             /\ \A x \in ToSet(order) : x \in ToSet(after) \/ Len(after) = CacheNumber
             /\ Len(order) = CacheNumber => Len(after) = CacheNumber
             /\ k \in ToSet(order) => ToSet(order) \subseteq ToSet(after)
<1> DEFINE after == Touch(order, k)
<1>1. IsInjective(after) /\ k \in ToSet(after) /\ after # <<>>
  BY TouchProperties
<1>2. \A x \in ToSet(order) : x \in ToSet(after) \/ Len(after) = CacheNumber
  BY TouchProperties
<1>3. Len(order) = CacheNumber => Len(after) = CacheNumber
  BY TouchProperties
<1>4. k \in ToSet(order) => ToSet(order) \subseteq ToSet(after)
  BY TouchProperties
<1> QED
  BY <1>1, <1>2, <1>3, <1>4

\* Heights from the one before h on do not push h out of the cache without
\* filling it.
LEMMA TouchFresh ==
  ASSUME NEW order \in Seq(Heights), NEW h \in Heights, NEW k \in Heights, k + 1 >= h,
         IsInjective(order)
  PROVE  LET after == Touch(order, k)
         IN  /\ k = h => Fresh(after, h)
             /\ Overrun(order, h) => Overrun(after, h)
             /\ Fresh(order, h) => Fresh(after, h) \/ Overrun(after, h)
<1> DEFINE left == Spared(order, k)
           after == Touch(order, k)
<1>1. /\ left \in Seq(Heights) /\ IsInjective(left) /\ k \notin ToSet(left)
      /\ after = Append(left, k)
      /\ \A i, j \in DOMAIN left : i < j =>
           \E a, b \in DOMAIN order : a < b /\ order[a] = left[i] /\ order[b] = left[j]
      /\ \A x \in ToSet(left) : x \in ToSet(order)
      /\ \A x \in ToSet(order) : x = k \/ x \in ToSet(left)
           \/ (k \notin ToSet(order) /\ Len(order) = CacheNumber /\ x = order[1])
  BY SparedKeeps
<1>2. /\ after \in Seq(Heights) /\ Len(after) = Len(left) + 1 /\ after[Len(after)] = k
      /\ \A i \in DOMAIN left : after[i] = left[i]
      /\ Len(order) = CacheNumber => Len(after) = CacheNumber
  BY TouchProperties
<1> HIDE DEF left, after
<1>3. /\ DOMAIN left = 1 .. Len(left) /\ Len(left) \in Nat /\ DOMAIN after = 1 .. Len(left) + 1
      /\ \A i \in DOMAIN left : left[i] \in ToSet(left)
  BY <1>1, <1>2 DEF ToSet
<1>4. h \in Nat /\ k \in Nat
  BY BoundsAssumption DEF Heights
<1>5. k = h => Fresh(after, h)
  BY <1>2, <1>3 DEF Fresh
<1>6. ASSUME \A x \in ToSet(order) : x + 1 >= h, Len(order) = CacheNumber
      PROVE  Overrun(after, h)
  <2>1. \A i \in DOMAIN after : after[i] + 1 >= h
    BY <1>1, <1>2, <1>3, <1>6
  <2> QED
    BY <1>2, <1>6, <2>1 DEF Overrun, ToSet
<1>7. ASSUME Fresh(order, h), k # h PROVE Fresh(after, h) \/ Overrun(after, h)
  <2>1. PICK n \in DOMAIN order :
          order[n] = h /\ \A j \in DOMAIN order : n < j => order[j] + 1 >= h
    BY <1>7 DEF Fresh
  <2>2. CASE h \in ToSet(left)
    <3>1. PICK i \in DOMAIN left : left[i] = h
      BY <1>3, <2>2 DEF ToSet
    <3>2. ASSUME NEW j \in DOMAIN after, i < j PROVE after[j] + 1 >= h
      <4>1. CASE j \in DOMAIN left
        <5>1. PICK a \in DOMAIN order, b \in DOMAIN order :
                a < b /\ order[a] = left[i] /\ order[b] = left[j]
          BY <1>1, <3>2, <4>1
        <5>2. a = n
          BY <2>1, <3>1, <5>1 DEF IsInjective
        <5> QED
          BY <1>2, <2>1, <4>1, <5>1, <5>2
      <4>2. CASE j = Len(left) + 1
        BY <1>2, <4>2
      <4> QED
        BY <1>3, <4>1, <4>2
    <3>3. i \in DOMAIN after /\ after[i] = h
      BY <1>2, <1>3, <3>1
    <3> QED
      BY <3>2, <3>3 DEF Fresh
  <2>3. CASE h \notin ToSet(left)
    <3>1. k \notin ToSet(order) /\ Len(order) = CacheNumber /\ h = order[1]
      BY <1>1, <1>7, <2>1, <2>3 DEF ToSet
    <3>2. n = 1
      BY <2>1, <3>1, CacheAssumption DEF IsInjective
    <3>3. \A j \in DOMAIN order : j = 1 \/ 1 < j
      OBVIOUS
    <3>4. \A x \in ToSet(order) : x + 1 >= h
      BY <1>4, <2>1, <3>2, <3>3 DEF ToSet
    <3> QED
      BY <1>6, <3>1, <3>4
  <2> QED
    BY <2>2, <2>3
<1> QED
  BY <1>5, <1>6, <1>7 DEF Overrun, after

\* A lookup that creates what is missing keeps what is wanted at height h, if it is
\* of a height from the one before h on.
LEMMA AccessKeeps ==
  ASSUME NEW vc \in VoteCollector, NEW h \in Heights, NEW k \in Heights, NEW r \in Rounds,
         k + 1 >= h, CollectorInv(vc)
  PROVE  LET acc == Access(vc, k, r)
         IN  /\ CollectorInv(acc) /\ r \in ToSet(acc.rounds[k])
             /\ k = h => Fresh(acc.heights, h)
             /\ \A q, t, v : Retained(vc, h, q, t, v) => Retained(acc, h, q, t, v)
<1> DEFINE hs == Touch(vc.heights, k)
           ks == Touch(vc.rounds[k], r)
           rs == [x \in Heights |-> CASE x = k -> ks
                                      [] x # k /\ x \in ToSet(hs) -> vc.rounds[x]
                                      [] OTHER -> <<>>]
           acc == [heights |-> hs, rounds |-> rs,
                   pairs |-> {e \in vc.pairs : e.round \in ToSet(rs[e.height])}]
<1>1. /\ vc.heights \in Seq(Heights) /\ vc.rounds \in [Heights -> Seq(Rounds)]
      /\ vc.rounds[k] \in Seq(Rounds) /\ vc.pairs \in SUBSET Pair
  BY DEF VoteCollector
<1>2. /\ IsInjective(hs) /\ k \in ToSet(hs)
      /\ k = h => Fresh(hs, h)
      /\ Overrun(vc.heights, h) => Overrun(hs, h)
      /\ Fresh(vc.heights, h) => Fresh(hs, h) \/ Overrun(hs, h)
  <2>1. IsInjective(vc.heights)
    BY DEF CollectorInv
  <2>2. IsInjective(hs) /\ k \in ToSet(hs)
    BY <1>1, <2>1, TouchProperties
  <2> QED
    BY <1>1, <2>1, <2>2, TouchFresh
<1>3. /\ IsInjective(ks) /\ r \in ToSet(ks) /\ ks # <<>>
      /\ \A x \in ToSet(vc.rounds[k]) : x \in ToSet(ks) \/ Len(ks) = CacheNumber
      /\ Len(vc.rounds[k]) = CacheNumber => Len(ks) = CacheNumber
  <2>1. IsInjective(vc.rounds[k])
    BY DEF CollectorInv
  <2> QED
    BY <1>1, <2>1, TouchRounds
<1> HIDE DEF hs, ks
<1>4. /\ rs[k] = ks
      /\ \A x \in Heights : x # k => rs[x] = IF x \in ToSet(hs) THEN vc.rounds[x] ELSE <<>>
  OBVIOUS
<1>5. IsInjective(<<>>)
  BY DEF IsInjective
<1>6. \A x \in Heights : IsInjective(rs[x]) /\ (rs[x] # <<>> => x \in ToSet(hs))
  BY <1>2, <1>3, <1>4, <1>5 DEF CollectorInv
<1>7. ASSUME Fresh(hs, h), NEW q, NEW t, NEW v,
             Holds(vc, h, q, t, v) \/ Len(vc.rounds[h]) = CacheNumber
      PROVE  Holds(acc, h, q, t, v) \/ Len(rs[h]) = CacheNumber
  <2>1. h \in ToSet(hs)
    BY <1>7 DEF Fresh, ToSet
  <2>2. Len(vc.rounds[h]) = CacheNumber => Len(rs[h]) = CacheNumber
    BY <1>3, <1>4, <2>1
  <2>3. ASSUME NEW e \in vc.pairs, e.height = h
        PROVE  e.round \in ToSet(rs[e.height]) \/ Len(rs[h]) = CacheNumber
    BY <1>3, <1>4, <2>1, <2>3 DEF CollectorInv
  <2> HIDE DEF rs
  <2> QED
    BY <1>7, <2>2, <2>3 DEF Holds
<1> HIDE DEF rs
<1>8. CollectorInv(acc)
  BY <1>2, <1>6 DEF CollectorInv
<1>9. acc.heights = hs /\ acc.rounds = rs
  OBVIOUS
<1> HIDE DEF acc
<1>10. \A q, t, v : Retained(vc, h, q, t, v) => Retained(acc, h, q, t, v)
  BY <1>2, <1>7, <1>9 DEF Retained
<1>11. Access(vc, k, r) = acc
  BY DEF Access, hs, ks, rs, acc
<1> QED
  BY <1>2, <1>3, <1>4, <1>8, <1>9, <1>10, <1>11

\* What is added at height h is kept, and what was kept still is.
LEMMA AddVotesKeeps ==
  ASSUME NEW vc \in VoteCollector, NEW h \in Heights, NEW k \in Heights, NEW r \in Rounds,
         NEW t \in VoteTypes, NEW signed \in SUBSET SignedVote, k + 1 >= h, CollectorInv(vc)
  PROVE  LET after == AddVotes(vc, k, r, t, signed)
         IN  /\ CollectorInv(after)
             /\ \A q, u, v : Retained(vc, h, q, u, v) => Retained(after, h, q, u, v)
             /\ k = h => \A s \in signed : Retained(after, h, r, t, s.vote)
<1> DEFINE acc == Access(vc, k, r)
           new == {[height |-> k, round |-> r, vote_type |-> t, signed |-> s] :
                     s \in {x \in signed : ~Holds(acc, k, r, t, x.vote)}}
           after == [acc EXCEPT !.pairs = @ \cup new]
<1>1. /\ CollectorInv(acc) /\ r \in ToSet(acc.rounds[k])
      /\ k = h => Fresh(acc.heights, h)
      /\ \A q, u, v : Retained(vc, h, q, u, v) => Retained(acc, h, q, u, v)
  BY AccessKeeps
<1>2. acc \in VoteCollector
  BY AccessType
<1>3. \A e \in new : e.height = k /\ e.round = r
  OBVIOUS
<1>4. \A s \in signed : Holds(acc, k, r, t, s.vote) \/
        \E e \in new : e.height = k /\ e.round = r /\ e.vote_type = t /\ e.signed = s
  <2> SUFFICES ASSUME NEW s \in signed, ~Holds(acc, k, r, t, s.vote)
               PROVE  \E e \in new : /\ e.height = k /\ e.round = r
                                     /\ e.vote_type = t /\ e.signed = s
    OBVIOUS
  <2>1. [height |-> k, round |-> r, vote_type |-> t, signed |-> s] \in new
    OBVIOUS
  <2> HIDE DEF new
  <2> QED
    BY <2>1
<1> HIDE DEF acc, new
<1>5. /\ after.heights = acc.heights /\ after.rounds = acc.rounds
      /\ after.pairs = acc.pairs \cup new
  BY <1>2 DEF VoteCollector
<1> HIDE DEF after
<1>6. CollectorInv(after)
  BY <1>1, <1>3, <1>5 DEF CollectorInv
<1>7. \A s \in signed : Holds(after, k, r, t, s.vote)
  BY <1>4, <1>5 DEF Holds
<1>8. \A q, u, v : Retained(acc, h, q, u, v) => Retained(after, h, q, u, v)
  BY <1>5 DEF Retained, Holds
<1>9. k = h => \A s \in signed : Retained(after, h, r, t, s.vote)
  BY <1>1, <1>5, <1>7 DEF Retained
<1>10. AddVotes(vc, k, r, t, signed) = IF signed = {} THEN vc ELSE after
  BY DEF AddVotes, acc, new, after
<1>11. CASE signed = {}
  BY <1>10, <1>11
<1>12. CASE signed # {}
  BY <1>1, <1>6, <1>8, <1>9, <1>10, <1>12
<1> QED
  BY <1>11, <1>12

LEMMA LookedKeeps ==
  ASSUME NEW vc \in VoteCollector, NEW h \in Heights, NEW k \in Heights, NEW r \in Rounds,
         k + 1 >= h, CollectorInv(vc)
  PROVE  /\ CollectorInv(Looked(vc, k, r))
         /\ \A q, t, v : Retained(vc, h, q, t, v) => Retained(Looked(vc, k, r), h, q, t, v)
<1> DEFINE hs == Touch(vc.heights, k)
           ks == Touch(vc.rounds[k], r)
           after == Looked(vc, k, r)
<1>1. /\ vc.heights \in Seq(Heights) /\ vc.rounds \in [Heights -> Seq(Rounds)]
      /\ vc.rounds[k] \in Seq(Rounds) /\ vc.pairs \in SUBSET Pair
  BY DEF VoteCollector
<1>2. /\ IsInjective(hs) /\ k \in ToSet(hs)
      /\ k \in ToSet(vc.heights) => ToSet(vc.heights) \subseteq ToSet(hs)
      /\ Overrun(vc.heights, h) => Overrun(hs, h)
      /\ Fresh(vc.heights, h) => Fresh(hs, h) \/ Overrun(hs, h)
  <2>1. IsInjective(vc.heights)
    BY DEF CollectorInv
  <2>2. /\ IsInjective(hs) /\ k \in ToSet(hs)
        /\ k \in ToSet(vc.heights) => ToSet(vc.heights) \subseteq ToSet(hs)
    BY <1>1, <2>1, TouchProperties
  <2> QED
    BY <1>1, <2>1, <2>2, TouchFresh
<1>3. /\ IsInjective(ks) /\ ks # <<>>
      /\ r \in ToSet(vc.rounds[k]) => ToSet(vc.rounds[k]) \subseteq ToSet(ks)
      /\ Len(vc.rounds[k]) = CacheNumber => Len(ks) = CacheNumber
  <2>1. IsInjective(vc.rounds[k])
    BY DEF CollectorInv
  <2> QED
    BY <1>1, <2>1, TouchRounds
<1>4. CASE vc.rounds[k] = <<>>
  <2>1. after = vc
    <3>1. r \notin ToSet(vc.rounds[k])
      BY <1>4 DEF ToSet
    <3> QED
      BY <1>4, <3>1 DEF Looked
  <2> QED
    BY <2>1
<1>5. CASE vc.rounds[k] # <<>>
  <2>1. k \in ToSet(vc.heights)
    BY <1>5 DEF CollectorInv
  <2> DEFINE rs == [vc.rounds EXCEPT ![k] = IF r \in ToSet(vc.rounds[k]) THEN ks ELSE @]
  <2>2. after.heights = hs /\ after.rounds = rs /\ after.pairs = vc.pairs
    <3> HIDE DEF hs, ks
    <3>1. CASE r \in ToSet(vc.rounds[k])
      <4>1. after = [vc EXCEPT !.heights = hs, !.rounds[k] = ks]
        BY <1>5, <3>1 DEF Looked, hs, ks
      <4> HIDE DEF after
      <4> QED
        BY <1>1, <3>1, <4>1 DEF VoteCollector
    <3>2. CASE r \notin ToSet(vc.rounds[k])
      <4>1. after = [vc EXCEPT !.heights = hs]
        BY <1>5, <3>2 DEF Looked, hs
      <4> HIDE DEF after
      <4>2. rs = vc.rounds
        BY <1>1, <3>2
      <4> QED
        BY <4>1, <4>2 DEF VoteCollector
    <3> QED
      BY <3>1, <3>2
  <2> HIDE DEF hs, ks, after
  <2>3. /\ \A x \in Heights : x # k => rs[x] = vc.rounds[x]
        /\ rs[k] = IF r \in ToSet(vc.rounds[k]) THEN ks ELSE vc.rounds[k]
    BY <1>1
  <2> HIDE DEF rs
  <2>4. \A x \in Heights : /\ IsInjective(rs[x])
                           /\ rs[x] # <<>> => x \in ToSet(hs)
                           /\ ToSet(vc.rounds[x]) \subseteq ToSet(rs[x])
                           /\ Len(vc.rounds[x]) = CacheNumber => Len(rs[x]) = CacheNumber
    BY <1>2, <1>3, <2>1, <2>3 DEF CollectorInv
  <2>5. \A e \in vc.pairs : e.height \in Heights
    BY <1>1 DEF Pair
  <2>6. CollectorInv(after)
    BY <1>2, <2>2, <2>4, <2>5 DEF CollectorInv
  <2>7. \A q, t, v : Retained(vc, h, q, t, v) => Retained(after, h, q, t, v)
    BY <1>2, <2>2, <2>4 DEF Retained, Holds
  <2> QED
    BY <2>6, <2>7 DEF after
<1> QED
  BY <1>4, <1>5
=============================================================================
