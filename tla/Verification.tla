---------------------------- MODULE Verification ----------------------------
(***************************************************************************)
(* verifier.verify (dnssec/verify.go): keys and signatures first, then the *)
(* check that the sections call for.                                       *)
(*                                                                         *)
(* The signatures are forgotten once they are verified: no check looks at  *)
(* them again, but for how many are of a wildcard.  What the records say   *)
(* is drawn only then.                                                     *)
(***************************************************************************)
EXTENDS Signatures, Denial

verification == <<vars, resp, status, denialOfExistence>>

Idle == [form |-> "none"]

VerificationInit ==
  /\ Init
  /\ resp = Idle /\ status = "Pending" /\ denialOfExistence = "NotFound"

HasType(s, t) == \E r \in msg.rrs[s] : r.type = t

NSOwners == {r.name : r \in {r \in msg.rrs["authority"] : r.type = "NS"}}

Forget ==
  /\ msg' = CHOOSE m \in Responses : TRUE
  /\ RequireAllSignaturesValid' = FALSE /\ now' = 0 /\ state' = "Unknown"
  /\ sigs' = [s \in Sections |-> {}] /\ ttls' = msg'.rrs
  /\ UNCHANGED <<section, todo, current>>

(* DS records count if a signature covers them. *)
dsRecords == {r \in msg.rrs["authority"] :
                r.type = "DS" /\ \E q \in sigs["authority"] : Set(q) = <<r.name, r.type>>}

Check(form) ==
  /\ resp' = [form |-> form, wildcards |-> Cardinality({r \in sigs["answer"] : r.wildcard}),
              ds |-> dsRecords # {}, mixed |-> Cardinality(NSOwners) > 1]
  /\ UNCHANGED status

verify ==
  /\ state = "Verified"
  /\ IF HasType("authority", "SOA") THEN Check("negative")
     ELSE IF msg.rrs["answer"] # {} THEN Check("positive")
     ELSE IF HasType("authority", "NS") THEN Check("delegating")
     ELSE resp' = Idle /\ status' = "Bogus"
  /\ Forget
  /\ UNCHANGED denialOfExistence

(* The question may get a response of the form from the zone, in the last *)
(* case from the wildcard below a.                                        *)
Possible(z, n, t, a) ==
  /\ Authoritative(z, n, t)
  /\ IF resp.form = "delegating"
     THEN Delegation(z, n) /\ t = "DS" /\ a = n /\ (resp.ds => "DS" \in z[n])
     ELSE IF resp.form = "negative" \/ resp.wildcards = 0 THEN a = n
     ELSE a # n /\ t \in TypesAt(z, Star(a))

(* The question itself, or one about an alias that leads to the wildcard. *)
Questions(z, n, a) ==
  {n} \cup {q \in QNames : a # n /\ "CNAME" \in TypesAt(z, q) /\ Authoritative(z, q, "CNAME")}

(* A signed zone, a question, and some of the zone's records. *)
contents ==
  /\ resp # Idle /\ status = "Pending"
  /\ \E z \in Zones, n \in QNames, t \in QTypes, m \in Methods, h \in Hashes :
     \E a \in Ancestors(n) : \E q \in Questions(z, n, a) :
       /\ Possible(z, n, t, a)
       /\ m = "nsec" => h = CHOOSE x \in Hashes : TRUE
       /\ \E rs \in SUBSET Chain(z, m, h) :
            resp' = [form |-> resp.form, zone |-> z, hash |-> h, method |-> m, name |-> n,
                     question |-> q, type |-> t,
                     wild |-> [i \in 1..(IF a = n THEN 0 ELSE resp.wildcards) |-> Len(a)],
                     ds |-> resp.ds, mixed |-> resp.mixed, records |-> rs]
  /\ status' = "Unknown"
  /\ UNCHANGED <<vars, denialOfExistence>>

VerificationNext ==
  \/ Next /\ UNCHANGED <<resp, status, denialOfExistence>>
  \/ verify
  \/ contents
  \/ validateNegativeResponse /\ UNCHANGED vars
  \/ validatePositiveResponse /\ UNCHANGED vars
  \/ validateDelegatingResponse /\ UNCHANGED vars

VerificationSpec == VerificationInit /\ [][VerificationNext]_verification
=============================================================================
