----------------------------- MODULE Authority -----------------------------
(***************************************************************************)
(* AuthorityManage (src/src/types.rs): the authority list of the height    *)
(* being decided, and the list of an earlier height with that height.      *)
(* address_set and address_set_old always hold the addresses of the two    *)
(* lists, so they are computed here instead of stored.                     *)
(***************************************************************************)
EXTENDS Types

AuthorityManage == [authorities : Seq(Nodes), authorities_old : Seq(Nodes),
                    authority_h_old : Heights]

InitAuthority ==
  [authorities |-> <<>>, authorities_old |-> <<>>, authority_h_old |-> 0]

\* update_authority(old_height, auth_list)
UpdateAuthority_late(a, old_height, auth_list) ==
  [authorities |-> auth_list, authorities_old |-> auth_list,
   authority_h_old |-> old_height]
UpdateAuthority(a, old_height, auth_list) ==
  [authorities |-> auth_list, authorities_old |-> a.authorities,
   authority_h_old |-> old_height]

\* The list that check_proposer, check_vote_sender and check_signed_vote
\* consult for a message of height h.
AuthoritiesFor(a, h) ==
  IF h = a.authority_h_old THEN a.authorities_old ELSE a.authorities

\* is_above_threshold(len, is_old): both branches measure against the old list.
IsAboveThreshold(a, len, is_old) ==
  IF is_old THEN len * 3 > Len(a.authorities_old) * 2
            ELSE len * 3 > Len(a.authorities_old) * 2

\* contains_sender(sender, is_old): some sender is on the old list, in both branches.
ContainsSender(a, senders, is_old) ==
  IF is_old THEN senders \cap ToSet(a.authorities_old) # {}
            ELSE senders \cap ToSet(a.authorities_old) # {}

\* The node that may propose at height h and round r, given the list.
ProposerOf(list, h, r) == list[((h + r) % Len(list)) + 1]

\* check_proposer(height, round, address)
CheckProposer(a, h, r, address) ==
  LET list == AuthoritiesFor(a, h)
  IN  list # <<>> /\ ProposerOf(list, h, r) = address

\* More than two thirds of n voters.
TwoThirds(voters, n) == 3 * Cardinality(voters) > 2 * n
=============================================================================
