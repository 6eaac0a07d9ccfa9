---------------------------- MODULE MCZoneFactory ----------------------------
(* Referrals to three hosts, with glue for none or one of them, and to one   *)
(* host, which may have an IPv6 address only.  Fewer addresses are desired   *)
(* than there are hosts, so that the worker is not given all of them.        *)
EXTENDS ZoneFactory

MCNs(h, t) == [host |-> h, ttl |-> t]
MCAddr(h, f, t) == [host |-> h, fam |-> f, ttl |-> t]

MCDelegations == {{}, {MCNs("b", 2)}, {MCNs("a", 2), MCNs("b", 2), MCNs("c", 2)}}

MCAddressSets ==
  {{}, {MCAddr("a", "cname", 1)}, {MCAddr("a", "v4", 1)}, {MCAddr("b", "v6", 3)},
   {MCAddr("b", "v4", 2), MCAddr("b", "v4", 3)}}
=============================================================================
