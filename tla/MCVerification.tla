--------------------------- MODULE MCVerification ---------------------------
(* Small instances of Verification. *)
EXTENDS Verification

-----------------------------------------------------------------------------
(* Signatures: two keys of the zone with one tag, and one that is not its *)

MCYear68 == 4
KSK == [tag |-> 1, by |-> 2]
ZSK == [tag |-> 1, by |-> 1]

RR(n, t) == [name |-> n, type |-> t, ttl |-> 5]

Good1(n, t) ==
  [name |-> n, covered |-> t, signer |-> Zone, labels |-> "same", tag |-> 1, by |-> 1,
   intact |-> TRUE, from |-> 0, until |-> 3, ttl |-> 6, orig |-> 4]

Signed(n, t) == [rrs |-> {RR(n, t)}, sigs |-> {Good1(n, t)}]

(* One set, with one or two of these signatures. *)
Variants(n, t) ==
  {Good1(n, t), [Good1(n, t) EXCEPT !.by = 2, !.orig = 6, !.until = 7], [Good1(n, t) EXCEPT !.by = 3],
   [Good1(n, t) EXCEPT !.until = 1], [Good1(n, t) EXCEPT !.from = 1],
   [Good1(n, t) EXCEPT !.signer = "other"], [Good1(n, t) EXCEPT !.labels = "more"],
   [Good1(n, t) EXCEPT !.labels = "fewer"], [Good1(n, t) EXCEPT !.labels = "fewer", !.by = 2],
   [Good1(n, t) EXCEPT !.intact = FALSE, !.ttl = 0]}

Both(x, y) == [rrs |-> x.rrs \cup y.rrs, sigs |-> x.sigs \cup y.sigs]

Nothing == [rrs |-> {}, sigs |-> {}]

Bare(n, t) == [rrs |-> {RR(n, t)}, sigs |-> {}]

(* Sets that are not signed, and signatures of sets that are not there. *)
Uneven ==
  {Both(Signed("a", "A"), Bare("b", "A")), Both(Signed("a", "A"), Bare("a", "TXT")),
   Both(Bare("a", "A"), [rrs |-> {}, sigs |-> {Good1("b", "A")}]),
   Both(Both(Signed("a", "A"), Bare("a", "TXT")), [rrs |-> {}, sigs |-> {Good1("b", "A")}]),
   Both(Signed("a", "A"), [rrs |-> {RR("b", "A")}, sigs |-> {[Good1("b", "A") EXCEPT !.by = 3]}]),
   Both(Signed("a", "A"), [rrs |-> {RR("a", "TXT")}, sigs |-> {[Good1("a", "TXT") EXCEPT !.by = 3]}]),
   Both(Signed("a", "A"), Signed("b", "A"))}

Answers ==
  {Nothing} \cup Uneven \cup
  {[rrs |-> {RR("a", "A")}, sigs |-> ss] : ss \in {ss \in SUBSET Variants("a", "A") : Cardinality(ss) \in 1..2}}

Authorities ==
  {Nothing, Signed(Zone, "SOA"), Signed("x", "NSEC"), Bare("x", "NS"),
   Both(Bare("x", "NS"), Signed("x", "DS")), Both(Bare("x", "NS"), Signed("y", "NSEC")),
   Both(Both(Bare("x", "NS"), Bare("y", "NS")), Signed("y", "NSEC")),
   Both(Signed("x", "NS"), Bare("y", "NS")),
   [rrs |-> {RR(Zone, "SOA")}, sigs |-> {[Good1(Zone, "SOA") EXCEPT !.until = 1]}]}

KeySets ==
  {[rrs |-> {RR(Zone, "DNSKEY")}, sigs |-> ss] : ss \in
     {{[Good1(Zone, "DNSKEY") EXCEPT !.by = k] : k \in ks} : ks \in {{2}, {1}, {2, 3}}}}

Message(ds, k, a, n) ==
  [dnskeys |-> {KSK, ZSK}, ds |-> ds,
   rrs |-> [keys |-> k.rrs, answer |-> a.rrs, authority |-> n.rrs],
   rrsigs |-> [keys |-> k.sigs, answer |-> a.sigs, authority |-> n.sigs]]

(* Keys are varied with one answer, the sections with one set of keys. *)
MCResponses ==
  {Message(ds, k, Signed("a", "A"), Nothing) : ds \in {{2}, {3}}, k \in KeySets} \cup
  {Message({2}, [rrs |-> {RR(Zone, "DNSKEY")}, sigs |-> {[Good1(Zone, "DNSKEY") EXCEPT !.by = 2]}],
           a, n) : a \in Answers, n \in Authorities}

-----------------------------------------------------------------------------
(* Denial: zones of up to three names below the apex *)

MCQNames == {<<>>, <<1>>, <<2>>, <<1, 1>>, <<2, 1>>, <<1, 1, 1>>}

Owners == {<<0>>, <<1>>, <<2>>, <<1, 0>>, <<1, 1>>, <<2, 1>>}

MCNames ==
  LET all == UNION {Ancestors(n) : n \in MCQNames \cup Owners}
  IN  all \cup {Star(n) : n \in all} \cup {wildcardName(n) : n \in all}

TypeSets(o) ==
  IF o[Len(o)] = Asterisk THEN {{"A"}}
  ELSE IF o = <<2>> THEN {{"A"}, {"NS"}, {"CNAME"}}
  ELSE {{"A"}, {"NS"}, {"NS", "DS"}}

ZonesOf(os) ==
  {z \in [os \cup {Apex} -> UNION {TypeSets(o) : o \in os} \cup {{"SOA", "NS"}}] :
     /\ z[Apex] = {"SOA", "NS"}
     /\ \A o \in os : z[o] \in TypeSets(o)
     /\ \A o, p \in os : o # p /\ IsAncestor(o, p) => "NS" \notin z[o]}

MCZones ==
  UNION {ZonesOf(os) : os \in {os \in SUBSET Owners : Cardinality(os) <= 2} \cup
                                {{<<0>>, <<1, 0>>, <<1, 1>>}, {<<0>>, <<1>>, <<2, 1>>}}}

(* One to one on names of up to four labels from 0..2: 257 is a prime. *)
Code(n) ==
  LET d(k) == IF k \in DOMAIN n THEN n[k] + 1 ELSE 0
  IN  64 * d(1) + 16 * d(2) + 4 * d(3) + d(4)

MCHashes == {[n \in MCNames |-> (k * Code(n) + 17) % 257] : k \in {1, 100}}
=============================================================================
