------------------------------- MODULE MCZone -------------------------------
(* Two keys.  The message that can be cached signs both sets twice, once   *)
(* until time 0: for one set it is the second signature that expires, for  *)
(* the other the first.                                                    *)
EXTENDS Zone

CONSTANTS k1, k2

RR(k, ttl) == [kind |-> "rr", key |-> k, ttl |-> ttl]
Sig(k, until) == [kind |-> "sig", key |-> k, from |-> 0, until |-> until]

MCMessages ==
  {[truncated |-> FALSE, rrs |-> <<RR(k1, 1), Sig(k1, 3), Sig(k1, 0),
                                   RR(k2, 2), Sig(k2, 0), Sig(k2, 3),
                                   [kind |-> "meta"]>>],
   [truncated |-> TRUE,  rrs |-> <<RR(k1, 1)>>]}

MCClients == {<<"udp", TRUE>>}
=============================================================================
