------------------------------- MODULE MCPool -------------------------------
(* Small pools: one or two hosts, with and without glue, of both families. *)
EXTENDS Pool, TLC

MCNs(h, t) == [host |-> h, ttl |-> t]
MCAddr(h, f, t) == [host |-> h, fam |-> f, ttl |-> t]

MCDelegations == {{MCNs("a", 1)}, {MCNs("a", 3), MCNs("b", 2)}}

(* Nothing, an alias only, addresses of one host, of the other, and of both. *)
MCAddressSets ==
  {{}, {MCAddr("a", "cname", 1)}, {MCAddr("a", "v4", 1)},
   {MCAddr("a", "v6", 3), MCAddr("b", "v6", 2)},
   {MCAddr("b", "v4", 3), MCAddr("b", "v4", 4), MCAddr("b", "v6", 1)}}

MCRootSizes == {[v4 |-> 2, v6 |-> 1]}

(* The races between two calls and an enrichment need fewer messages. *)
MCRaceDelegations == {{MCNs("a", 1), MCNs("b", 1)}}
MCRaceAddressSets ==
  {{}, {MCAddr("a", "v6", 1)},
   {MCAddr("b", "v4", 1), MCAddr("b", "v4", 2), MCAddr("b", "v6", 1)}}

MCRequestSymmetry == Permutations(Requests)
=============================================================================
