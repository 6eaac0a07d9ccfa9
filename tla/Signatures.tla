----------------------------- MODULE Signatures -----------------------------
(***************************************************************************)
(* The signatures of one response: authenticate (authenticate_rrset.go),   *)
(* the policies over its results (signatures.go), the keys of the zone     *)
(* (verify_dnskey.go, verify_rrset.go), and the TTLs that follow           *)
(* (result.go and finaliseResponse of resolver_exchange.go).               *)
(*                                                                         *)
(* A record is [name, type, ttl].  An RRSIG names the set it covers; "made *)
(* by" stands for the private key and "intact" for the bytes: the library  *)
(* verifies a signature with the key that made it.  Keys may share a tag.  *)
(* Times are those of the wire, modulo 2 * Year68, and the clock may move  *)
(* between any two of its readings.                                        *)
(***************************************************************************)
EXTENDS Integers, FiniteSets, FiniteSetsExt

CONSTANTS
  Zone,            \* the zone that is asked
  Responses,       \* [dnskeys, ds, rrs, rrsigs]; rrs and rrsigs by section
  Year68,          \* 2^31 in the code
  MaxAllowedTTL,
  MaxTime

Sections == {"keys", "answer", "authority"}

(* DNSKEYs are verified first, then the sections (verify.go). *)
NextOf(s) == IF s = "keys" THEN "answer" ELSE IF s = "answer" THEN "authority" ELSE "done"

(* The zone's keys are the DNSKEY records of the first section. *)
ASSUME SignaturesAssumption ==
  /\ Year68 \in Nat \ {0} /\ MaxAllowedTTL \in Nat /\ MaxTime \in Nat
  /\ \A m \in Responses : m.dnskeys # {} => \E r \in m.rrs["keys"] : r.type = "DNSKEY"
  /\ \A m \in Responses, s \in Sections :
       /\ IsFiniteSet({<<r.name, r.type>> : r \in m.rrs[s]})
       /\ \A r \in m.rrs[s] : r.ttl \in Nat
       /\ \A g \in m.rrsigs[s] : g.ttl \in Nat /\ g.orig \in Nat /\ g.until \in Nat

VARIABLES
  RequireAllSignaturesValid,
  msg,       \* the response, with the keys of the zone
  now,
  section,   \* the one authenticate is at, or "done"
  todo,      \* its RRSIGs that are still to be looked at
  current,   \* the RRSIG whose validity period was found good, if any: a set
  sigs,      \* section -> results [rrsig, ttl, verified, wildcard, at]
  state,     \* of verifyDNSKEYs and verifyRRSETs
  ttls       \* section -> the records with the TTLs they are returned with

vars == <<RequireAllSignaturesValid, msg, now, section, todo, current, sigs, state, ttls>>

Init ==
  /\ RequireAllSignaturesValid \in BOOLEAN
  /\ msg \in Responses
  /\ now = 0
  /\ section = "keys"
  /\ todo = msg.rrsigs["keys"]
  /\ current = {}
  /\ sigs = [s \in Sections |-> {}]
  /\ state = "Unknown"
  /\ ttls = msg.rrs

-----------------------------------------------------------------------------
(* Time *)

(* Division of Go: towards zero. *)
Quot(a, b) == IF a >= 0 THEN a \div b ELSE -((-a) \div b)

Unwrapped(t) == t + Quot(t - now, Year68) * Year68

ValidityPeriod(g) == Unwrapped(g.from) <= now /\ now <= Unwrapped(g.until)

(* Seeded bug: a signature's own end does not count. *)
TimeLeftIgnored(g) == 2 * Year68 - 1

(* As an unsigned number of the width of a time. *)
TimeLeft(g) == (Unwrapped(g.until) - now) % (2 * Year68)

-----------------------------------------------------------------------------
(* authenticate *)

rrset(g) == {r \in msg.rrs[section] : r.name = g.name /\ r.type = g.covered}

keySigningKeys == {k \in msg.dnskeys : k.by \in msg.ds}

(* Seeded bug: any key of the zone may sign the keys. *)
SignersAny == msg.dnskeys

Signers == IF section = "keys" THEN keySigningKeys ELSE msg.dnskeys

Verify(g, k) == g.intact /\ g.by = k.by /\ rrset(g) # {}

(* Seeded bug: of the keys with the tag only one is tried. *)
TriedOnce(g) ==
  LET ks == {k \in Signers : k.tag = g.tag}
  IN  ks # {} /\ Verify(g, CHOOSE k \in ks : \A j \in ks : k.by <= j.by)

Tried(g) == \E k \in Signers : k.tag = g.tag /\ Verify(g, k)

Checked(g, ttl, verified, wildcard) ==
  [rrsig |-> g, ttl |-> ttl, verified |-> verified, wildcard |-> wildcard, at |-> now]

AddResult(r) == sigs' = [sigs EXCEPT ![section] = @ \cup {r}]

(* The conditions that need no key.  The validity period reads the clock. *)
checkSignature(g) ==
  /\ section = "keys" => keySigningKeys # {}
  /\ current = {} /\ g \in todo
  /\ todo' = todo \ {g}
  /\ IF g.signer = Zone /\ g.labels # "more" /\ ValidityPeriod(g)
     THEN current' = {g} /\ UNCHANGED sigs
     ELSE AddResult(Checked(g, Min({g.ttl, g.orig}), FALSE, FALSE)) /\ UNCHANGED current
  /\ UNCHANGED <<RequireAllSignaturesValid, msg, now, section, state, ttls>>

(* The time left reads it again; then keys are tried until one verifies. *)
verifySignature ==
  /\ \E g \in current :
       AddResult(Checked(g, Min({g.ttl, g.orig, TimeLeft(g)} \cup {r.ttl : r \in rrset(g)}),
                         Tried(g), g.labels = "fewer"))
  /\ current' = {}
  /\ UNCHANGED <<RequireAllSignaturesValid, msg, now, section, todo, state, ttls>>

countNameTypeCombinations(ss) == Cardinality({<<r.rrsig.name, r.rrsig.covered>> : r \in ss})

(* The sets that have to be signed. *)
Required(s) ==
  {<<r.name, r.type>> : r \in
     {r \in msg.rrs[s] :
        s = "authority" /\ r.type = "NS" => \E q \in sigs[s] : q.rrsig.covered = "NS"}}

(* Seeded bug: a set without a signature is let pass. *)
CountedAtLeast(s) == Cardinality(Required(s)) >= countNameTypeCombinations(sigs[s])

Counted(s) == Cardinality(Required(s)) = countNameTypeCombinations(sigs[s])

-----------------------------------------------------------------------------
(* The policies *)

verifyAllRRSigsPerRRSet(ss) == ss # {} /\ \A r \in ss : r.verified

verifyOneOrMoreRRSigPerRRSet(ss) ==
  ss # {} /\ \A r \in ss : \E q \in ss : q.rrsig.covered = r.rrsig.covered /\ q.verified

Valid(ss) == IF RequireAllSignaturesValid THEN verifyAllRRSigsPerRRSet(ss)
             ELSE verifyOneOrMoreRRSigPerRRSet(ss)

-----------------------------------------------------------------------------
(* The end of a section *)

Conclude(st) ==
  /\ state' = st
  /\ section' = "done"
  /\ todo' = {}

GoOn ==
  /\ section' = NextOf(section)
  /\ todo' = msg.rrsigs[NextOf(section)]
  /\ UNCHANGED state

verifyDNSKEYs ==
  /\ section = "keys" /\ current = {}
  /\ IF keySigningKeys = {} THEN Conclude("Insecure")
     ELSE /\ todo = {}
          /\ IF Counted("keys") /\ Valid(sigs["keys"]) THEN GoOn ELSE Conclude("Bogus")
  /\ UNCHANGED <<RequireAllSignaturesValid, msg, now, current, sigs, ttls>>

resultTTL(t, ss) ==
  Min({MaxAllowedTTL} \cup {r.ttl : r \in {r \in ss : r.rrsig.covered = t /\ r.verified}})

(* finaliseResponse, of a response that is found secure: if a type has a *)
(* verified signature, its records get the least TTL of theirs.          *)
Lowered(s) ==
  {[name |-> r.name, type |-> r.type,
    ttl |-> IF \E q \in sigs[s] : q.rrsig.covered = r.type /\ q.verified
            THEN Min({r.ttl, resultTTL(r.type, sigs[s])}) ELSE r.ttl] : r \in msg.rrs[s]}

verifyRRSETs ==
  /\ section \in {"answer", "authority"} /\ todo = {} /\ current = {}
  /\ \/ ~Counted(section) /\ Conclude("Bogus") /\ UNCHANGED ttls
     \/ Counted(section) /\ section = "answer" /\ GoOn /\ UNCHANGED ttls
     \/ /\ Counted(section) /\ section = "authority"
        /\ IF Valid(sigs["answer"] \cup sigs["authority"])
           THEN /\ Conclude("Verified")
                /\ ttls' = [s \in Sections |->
                              IF s = "keys" THEN msg.rrs[s] ELSE Lowered(s)]
           ELSE Conclude("Bogus") /\ UNCHANGED ttls
  /\ UNCHANGED <<RequireAllSignaturesValid, msg, now, current, sigs>>

tick ==
  /\ section # "done" /\ now < MaxTime
  /\ now' = now + 1
  /\ UNCHANGED <<RequireAllSignaturesValid, msg, section, todo, current, sigs, state, ttls>>

Next ==
  \/ tick
  \/ \E g \in todo : checkSignature(g)
  \/ verifySignature \/ verifyDNSKEYs \/ verifyRRSETs

Spec == Init /\ [][Next]_vars

-----------------------------------------------------------------------------
(* Properties *)

Set(q) == <<q.rrsig.name, q.rrsig.covered>>

Body == {"answer", "authority"}

(* No two sets have one type, and every signature is of a set that is there. *)
Tidy ==
  /\ \A s, u \in Body : \A c \in Required(s), d \in Required(u) : c[2] = d[2] => s = u /\ c = d
  /\ \A s \in Body : \A q \in sigs[s] : Set(q) \in Required(s)

(* authenticate and Verify: nothing but numbers and types are compared, yet *)
(* in a verified response every set that has to be signed is: if all        *)
(* signatures must be valid, in every response; by the default policy, in   *)
(* one where types tell the sets apart and no signature is of a missing set.*)
SignedAsRequired ==
  state = "Verified" /\ (RequireAllSignaturesValid \/ Tidy) =>
    \A s \in Body : \A c \in Required(s) : \E q \in sigs[s] : Set(q) = c /\ q.verified

(* verifyDNSKEYs and verifyRRSETs: signatures are taken only from keys of a *)
(* set of keys that a key named by the parent's DS records has signed.      *)
KeysVouched ==
  state = "Verified" =>
    /\ \E q \in sigs["keys"] : q.verified /\ q.rrsig.by \in msg.ds
    /\ \A s \in Body : \A q \in sigs[s] : q.verified => \E k \in msg.dnskeys : k.by = q.rrsig.by

(* authenticate, resultTTL and finaliseResponse: a record of a verified set *)
(* gets no TTL above its own, the signature's, the original one and the     *)
(* allowed one, and does not outlive the signature, unless the signature    *)
(* ended between the two readings of the clock.                             *)
TTLIsEarned ==
  state = "Verified" =>
    \A s \in Body : \A q \in sigs[s], r \in ttls[s] :
      q.verified /\ Set(q) = <<r.name, r.type>> =>
        /\ r.ttl <= MaxAllowedTTL /\ r.ttl <= q.rrsig.ttl /\ r.ttl <= q.rrsig.orig
        /\ \E o \in msg.rrs[s] : o.name = r.name /\ o.type = r.type /\ r.ttl <= o.ttl
        /\ q.at <= q.rrsig.until => r.ttl <= q.rrsig.until - q.at

(* A signature that any of ks verifies at any time of the run. *)
Good(g, ks) ==
  /\ g.signer = Zone /\ g.labels # "more" /\ g.intact
  /\ g.from = 0 /\ MaxTime < g.until
  /\ \E k \in ks : k.tag = g.tag /\ k.by = g.by

WellSigned(s, ks) ==
  LET must == {<<r.name, r.type>> : r \in
                 {r \in msg.rrs[s] : s = "authority" /\ r.type = "NS" =>
                                       \E g \in msg.rrsigs[s] : g.covered = "NS"}}
  IN  /\ \A g \in msg.rrsigs[s] : <<g.name, g.covered>> \in must
      /\ \A c \in must : \E g \in msg.rrsigs[s] : <<g.name, g.covered>> = c /\ Good(g, ks)

(* authenticate and verifyOneOrMoreRRSigPerRRSet: where every set has one   *)
(* good signature the response is not rejected, whatever the others are     *)
(* (old keys, other signers, expired), and whichever keys share a tag.      *)
OneGoodIsEnough ==
  /\ ~RequireAllSignaturesValid
  /\ WellSigned("keys", keySigningKeys)
  /\ \A s \in Body : WellSigned(s, msg.dnskeys)
  /\ \E s \in Body : msg.rrsigs[s] # {}
  => state # "Bogus"
=============================================================================
