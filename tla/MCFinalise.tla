----------------------------- MODULE MCFinalise -----------------------------
(* Three names.  A zone answers with a record, with an alias alone, with   *)
(* an alias and its target, with two aliases in a row, or with nothing;    *)
(* the aliases of b and c can lead back to a.                              *)
EXTENDS Finalise

CONSTANTS a, b, c

A(n) == [name |-> n, type |-> "A", target |-> n]
C(n, t) == [name |-> n, type |-> "CNAME", target |-> t]

Positives(n) ==
  {{A(n)}} \cup
  (IF n = a THEN {{C(a, b)}, {C(a, b), A(b)}, {C(a, b), C(b, c)}}
   ELSE IF n = b THEN {{C(b, c)}, {C(b, a)}} ELSE {{C(c, a)}})

Msg(ans, ns, rcode, aa) ==
  [answer |-> ans, ns |-> ns, extra |-> {"OPT", "A"}, rcode |-> rcode, aa |-> aa,
   ad |-> aa]

MCReplies ==
  [n \in Names |->
     {Msg(ans, {"NS"}, 0, aa) : ans \in Positives(n), aa \in BOOLEAN}
     \cup {Msg({C(n, t)}, {"SOA"}, 3, TRUE) : t \in {b} \ {n}}
     \cup {Msg({}, {"SOA"}, rcode, TRUE) : rcode \in {0, 2, 3}}]

MCVerdicts ==
  {[auth |-> r, err |-> FALSE] : r \in AuthenticationResult}
  \cup {[auth |-> "Bogus", err |-> TRUE]}

MCQuestions == [name : {a}, qtype : {"A", "CNAME"}, do : BOOLEAN, cd : BOOLEAN]
=============================================================================
