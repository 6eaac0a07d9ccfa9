---------------------------- MODULE MCResolver ----------------------------
(* The apex of a zone below another one, and a name that leaves the way to   *)
(* it below the upper cut; with a cut at each label, and with the first      *)
(* label no cut.                                                             *)
EXTENDS Resolver, TLC

uk == <<"uk">>
co == <<"uk", "co">>
net == <<"uk", "net">>
ex == <<"uk", "co", "ex">>
biz == <<"uk", "co", "biz">>
Hash(n) == Append(n, "hash")

MCQNames == {co, net}

MCLongQNames == {ex, biz}

MCCuts == {<<>>, uk, co}

MCLongCuts == {<<>>, co, ex}

(* The records of one name, or the NS records of a referral with a deeper    *)
(* record, beside the way or on it, as NSEC3 and NSEC records are.           *)
MCOwnerLists ==
  {<<>>, <<uk>>, <<co>>, <<net>>} \cup {<<r, n>> : r \in {uk, co}, n \in {co, net, Hash(co)}}

MCLongOwnerLists ==
  {<<>>, <<co>>, <<ex>>, <<biz>>} \cup {<<r, n>> : r \in {co, ex}, n \in {ex, biz, Hash(ex)}}

MCPoolSymmetry == Permutations(Pools \ {RootPool}) \cup Permutations(Requests)
=============================================================================
