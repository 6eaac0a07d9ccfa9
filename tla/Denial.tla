------------------------------- MODULE Denial -------------------------------
(***************************************************************************)
(* Denial of existence (package dnssec/doe) and the three checks that use  *)
(* it: verify_negative.go, verify_positive.go, verify_delegating.go.       *)
(*                                                                         *)
(* A name of the zone is the sequence of its labels below the apex, the    *)
(* one next to the apex first, so an ancestor is a prefix.  Labels are     *)
(* numbers in canonical order, and "*" is 0, the first.  A zone maps the   *)
(* owners of records to their types; it is signed with NSEC, NSEC3, or     *)
(* NSEC3 with opt-out, and a response holds some of its NSEC(3) records.   *)
(* The apex is not the root, so a wildcard's signature counts some labels: *)
(* with none, PerformExpandedWildcardProof of nsec3.go would index past    *)
(* the last one.                                                           *)
(***************************************************************************)
EXTENDS Integers, Sequences, FiniteSets

CONSTANTS
  Names,    \* the names that are asked for, and all that are hashed for them
  Zones,    \* functions from owners to sets of types
  Hashes,   \* functions from Names to numbers
  QNames,
  QTypes

Apex == <<>>
Asterisk == 0
Methods == {"nsec", "nsec3", "optout"}

IsAncestor(a, n) == Len(a) <= Len(n) /\ SubSeq(n, 1, Len(a)) = a

Ancestors(n) == {SubSeq(n, 1, k) : k \in 0..Len(n)}

Child(a, n) == SubSeq(n, 1, Len(a) + 1)

Star(n) == Append(n, Asterisk)

(* The canonical order of names. *)
LabelAt(n, k) == IF k \in DOMAIN n THEN n[k] ELSE -1

Precedes(a, b) ==
  \E k \in DOMAIN b : /\ \A j \in 1..(k - 1) : LabelAt(a, j) = LabelAt(b, j)
                      /\ LabelAt(a, k) < LabelAt(b, k)

After(z, o) == {n \in DOMAIN z : Precedes(o, n)}

ASSUME DenialAssumption ==
  /\ Names \subseteq Seq(Nat) /\ \A n \in Names : Ancestors(n) \subseteq Names
  /\ QNames \subseteq Names /\ \A n \in QNames : \A a \in Ancestors(n) : Star(a) \in Names
  /\ \A z \in Zones : DOMAIN z \subseteq Names /\ Apex \in DOMAIN z /\ IsFiniteSet(DOMAIN z)
  /\ \A z \in Zones : \A o \in DOMAIN z :
       /\ "CNAME" \in z[o] => z[o] = {"CNAME"}
       /\ "SOA" \in z[o] <=> o = Apex
       /\ "DS" \in z[o] => o # Apex /\ o[Len(o)] # Asterisk
  /\ \A h \in Hashes : \A a, b \in Names : h[a] \in Nat /\ (h[a] = h[b] => a = b)

VARIABLES
  resp,    \* what is checked: [form, zone, hash, method, name, question, type, wild, ds, mixed,
           \*                   records]
  status,
  denialOfExistence

-----------------------------------------------------------------------------
(* Names *)

(* The first label is replaced; the apex is covered by no record, so its *)
(* wildcard is never looked at.                                          *)
wildcardName(n) == IF n = Apex THEN Apex ELSE Star(SubSeq(n, 1, Len(n) - 1))

(* canonicalCmp(a, b) < 0 *)
canonicalCmp(a, b) ==
  \/ IsAncestor(a, b) /\ a # b
  \/ \E k \in DOMAIN a \cap DOMAIN b : SubSeq(a, 1, k - 1) = SubSeq(b, 1, k - 1) /\ a[k] < b[k]

-----------------------------------------------------------------------------
(* A zone and its chain: what a signer does *)

Delegation(z, n) == n # Apex /\ n \in DOMAIN z /\ "NS" \in z[n]

Exists(z, n) == \E o \in DOMAIN z : IsAncestor(n, o)

Unsigned(z, n) == Delegation(z, n) /\ "DS" \notin z[n]

Secured(z, m) == {o \in DOMAIN z : ~(m = "optout" /\ Unsigned(z, o))}

(* NSEC3 records are for empty names as well. *)
Chained(z, m) ==
  IF m = "nsec" THEN DOMAIN z
  ELSE {n \in Names : \E o \in Secured(z, m) : IsAncestor(n, o)}

TypesAt(z, n) == IF n \in DOMAIN z THEN z[n] ELSE {}

(* Every record leads to the next owner in the order, the last to the first. *)
NextNsec(z, o) ==
  IF After(z, o) = {} THEN Apex
  ELSE CHOOSE n \in After(z, o) : \A k \in After(z, o) \ {n} : Precedes(n, k)

NextHash(hs, x) ==
  LET above == {y \in hs : x < y}
      rest == IF above = {} THEN hs ELSE above
  IN  CHOOSE y \in rest : \A k \in rest : y <= k

Nsec(z) == {[owner |-> o, next |-> NextNsec(z, o), types |-> z[o]] : o \in DOMAIN z}

Nsec3(z, m, h) ==
  LET hs == {h[n] : n \in Chained(z, m)}
  IN  {[owner |-> h[n], next |-> NextHash(hs, h[n]), types |-> TypesAt(z, n),
        flags |-> IF m = "optout" THEN 1 ELSE 0] : n \in Chained(z, m)}

(* A record with flags that are not defined.  It would cover all names. *)
Foreign == [owner |-> -1, next |-> -1, types |-> {}, flags |-> 2]

Chain(z, m, h) == IF m = "nsec" THEN Nsec(z) ELSE Nsec3(z, m, h) \cup {Foreign}

-----------------------------------------------------------------------------
(* NSEC *)

nsec == IF resp.method = "nsec" THEN resp.records ELSE {}

covered(n) ==
  \E r \in nsec : canonicalCmp(r.owner, n) /\ (r.next = Apex \/ canonicalCmp(n, r.next))

verifyQNameCovered(n) == covered(n)

verifyWildcardCovered(n) == covered(wildcardName(n))

(* Seeded bug: the wildcard may exist. *)
PerformQNameDoesNotExistProofNoWildcard == verifyQNameCovered(resp.name)

PerformQNameDoesNotExistProof ==
  verifyQNameCovered(resp.name) /\ verifyWildcardCovered(resp.name)

PerformExpandedWildcardProof(n) == verifyQNameCovered(n) /\ ~verifyWildcardCovered(n)

(* <<nameSeen, typeSeen>> *)
TypeBitMapContainsAnyOf(ts) ==
  LET seen == {r \in nsec : r.owner = resp.name}
  IN  <<seen # {}, \E r \in seen : r.types \cap ts # {}>>

-----------------------------------------------------------------------------
(* NSEC3 *)

(* Seeded bug: all records are used. *)
nsec3Unfiltered == IF resp.method # "nsec" THEN resp.records ELSE {}

nsec3 == IF resp.method # "nsec" THEN {r \in resp.records : r.flags \in 0..1} ELSE {}

Match(r, n) == r.owner = resp.hash[n]

Cover(r, n) ==
  LET x == resp.hash[n]
  IN  IF r.owner = r.next THEN x # r.owner
      ELSE IF r.owner > r.next THEN x > r.owner \/ x < r.next
      ELSE r.owner <= x /\ x < r.next

Covered3(n) == (\A r \in nsec3 : ~Match(r, n)) /\ \E r \in nsec3 : Cover(r, n)

TypeBitMapContainsAnyOf3(n, ts) ==
  LET seen == {r \in nsec3 : Match(r, n)}
  IN  <<seen # {}, \E r \in seen : r.types \cap ts # {}>>

Eligible(r) == "DNAME" \notin r.types /\ ("NS" \in r.types => "SOA" \in r.types)

Contenders(n) == {a \in Ancestors(n) : \E r \in nsec3 : Match(r, a) /\ Eligible(r)}

(* Seeded bug: the first name found is taken, whatever its length. *)
FindClosestEncloserShortest(n) == CHOOSE a \in Contenders(n) : \A b \in Contenders(n) : Len(a) <= Len(b)

FindClosestEncloser(n) == CHOOSE a \in Contenders(n) : \A b \in Contenders(n) : Len(b) <= Len(a)

(* The name itself, if that is the closest encloser. *)
NextCloserName(n, ce) == IF ce = n THEN n ELSE Child(ce, n)

optedOut(n) == Covered3(n) /\ \E r \in nsec3 : Cover(r, n) /\ r.flags = 1

PerformClosestEncloserProof(n) ==
  LET ce == FindClosestEncloser(n)
      ncn == NextCloserName(n, ce)
  IN  IF Contenders(n) = {}
      THEN [optedOut |-> FALSE, encloser |-> FALSE, nextCloser |-> FALSE, wildcard |-> FALSE]
      ELSE [optedOut |-> optedOut(ncn), encloser |-> TRUE,
            nextCloser |-> Covered3(ncn), wildcard |-> Covered3(Star(ce))]

(* Seeded bug: the name after the encloser need not be covered. *)
PerformExpandedWildcardProof3Trusting(labels) ==
  LET ce == SubSeq(resp.name, 1, labels)
  IN  ~Covered3(Star(ce)) /\ ~(\E r \in nsec3 : Match(r, Star(ce)))

PerformExpandedWildcardProof3(labels) ==
  LET ce == SubSeq(resp.name, 1, labels)
  IN  /\ ~Covered3(Star(ce))
      /\ ~\E r \in nsec3 : Match(r, Star(ce))
      /\ Covered3(Child(ce, resp.name))

-----------------------------------------------------------------------------
(* The checks *)

Conclusion(st, doe) == status' = st /\ denialOfExistence' = doe /\ UNCHANGED resp

Denies(seen) == seen[1] /\ ~seen[2]

wildcardNoData ==
  Denies(TypeBitMapContainsAnyOf3(Star(FindClosestEncloser(resp.name)), {"CNAME", resp.type}))

NegativeVerdict ==
  LET p == PerformClosestEncloserProof(resp.name)
  IN  IF Denies(TypeBitMapContainsAnyOf({"CNAME", resp.type})) THEN "NsecNoData"
      ELSE IF PerformQNameDoesNotExistProof THEN "NsecNxDomain"
      ELSE IF Denies(TypeBitMapContainsAnyOf3(resp.name, {"CNAME", resp.type})) THEN "Nsec3NoData"
      ELSE IF p.optedOut /\ resp.type = "DS" THEN "Nsec3OptOut"
      ELSE IF p.encloser /\ p.nextCloser /\ (p.wildcard \/ wildcardNoData) THEN "Nsec3NxDomain"
      ELSE "NotFound"

validateNegativeResponse ==
  /\ status = "Unknown" /\ resp.form = "negative"
  /\ Conclusion(IF NegativeVerdict = "NotFound" THEN "Bogus" ELSE "Secure", NegativeVerdict)

(* resp.wild: the labels of every wildcard signature of the answer.  The     *)
(* name is that of the first; the question is about an alias of it, or it.   *)
PositiveVerdict ==
  IF nsec3 # {} /\ PerformExpandedWildcardProof3(resp.wild[1]) THEN "Nsec3Wildcard"
  ELSE IF PerformExpandedWildcardProof(resp.question) THEN "NsecWildcard"
  ELSE "NotFound"

validatePositiveResponse ==
  /\ status = "Unknown" /\ resp.form = "positive"
  /\ IF resp.wild = <<>> THEN Conclusion("Secure", "NotFound")
     ELSE IF Len(resp.wild) > 1 THEN Conclusion("Bogus", PositiveVerdict)
     ELSE Conclusion(IF PositiveVerdict = "NotFound" THEN "Bogus" ELSE "Secure", PositiveVerdict)

NoDS(seen, unsafe) == seen[1] /\ seen[2] /\ Denies(unsafe)

(* Seeded bug: the DS bit is not looked at. *)
UnsafeNoDS == {"CNAME", "SOA"}

Unsafe == {"CNAME", "DS", "SOA"}

DelegatingVerdict ==
  IF NoDS(TypeBitMapContainsAnyOf({"NS"}), TypeBitMapContainsAnyOf(Unsafe)) THEN "NsecMissingDS"
  ELSE IF NoDS(TypeBitMapContainsAnyOf3(resp.name, {"NS"}), TypeBitMapContainsAnyOf3(resp.name, Unsafe))
       THEN "Nsec3MissingDS"
  ELSE IF PerformClosestEncloserProof(resp.name).optedOut THEN "Nsec3OptOut"
  ELSE "NotFound"

validateDelegatingResponse ==
  /\ status = "Unknown" /\ resp.form = "delegating"
  /\ IF resp.ds THEN Conclusion("Secure", "NotFound")
     ELSE IF resp.mixed THEN Conclusion("Bogus", "NotFound")
     ELSE Conclusion(IF DelegatingVerdict = "NotFound" THEN "Bogus" ELSE "Secure", DelegatingVerdict)

-----------------------------------------------------------------------------
(* What the zone says *)

Authoritative(z, n, t) == \A a \in Ancestors(n) : Delegation(z, a) => a = n /\ t = "DS"

(* The longest ancestor of n in a set of names. *)
Closest(ns, n) ==
  CHOOSE a \in Ancestors(n) \cap ns : \A b \in Ancestors(n) \cap ns : Len(b) <= Len(a)

ClosestEncloser(z, n) == Closest({a \in Ancestors(n) : Exists(z, a)}, n)

Answer(z, n) == IF Exists(z, n) THEN TypesAt(z, n) ELSE TypesAt(z, Star(ClosestEncloser(z, n)))

Parent(n) == SubSeq(n, 1, Len(n) - 1)

(* The record of the chain that is at n, or whose span n is in. *)
Last(r, n) ==
  LET Less(a, b) == IF r.method = "nsec" THEN Precedes(a, b) ELSE r.hash[a] < r.hash[b]
      chained == Chained(r.zone, r.method)
      upTo == {o \in chained : ~Less(n, o)}
      from == IF upTo = {} THEN chained ELSE upTo
  IN  CHOOSE o \in from : \A k \in from : ~Less(o, k)

(* The response has it. *)
Holds(r, n) ==
  \E x \in r.records : x.owner = IF r.method = "nsec" THEN Last(r, n) ELSE r.hash[Last(r, n)]

(* The records a server has to send to deny n and its wildcard. *)
ProofSent(r, n) ==
  LET ce == Closest(Chained(r.zone, r.method), n)
  IN  IF r.method = "nsec"
      THEN Holds(r, n) /\ (~Exists(r.zone, n) => Holds(r, Star(ClosestEncloser(r.zone, n))))
      ELSE IF n \in Chained(r.zone, r.method) THEN Holds(r, n)
      ELSE Holds(r, ce) /\ Holds(r, Child(ce, n)) /\ Holds(r, Star(ce))

-----------------------------------------------------------------------------
(* Properties *)

(* validateNegativeResponse: whichever of the zone's own records a response *)
(* holds, a name that is found not to exist, or not to have the type, has   *)
(* neither the type nor a CNAME; and no wildcard would have answered, where *)
(* the wildcard that was looked at is the one that applies (NSEC3 without   *)
(* opt-out; NSEC, if it is the one next to the name).                       *)
DeniedIsAbsent ==
  resp.form = "negative" /\ status = "Secure" =>
    LET asked == {resp.type, "CNAME"}
    IN  /\ asked \cap TypesAt(resp.zone, resp.name) = {}
        /\ denialOfExistence = "Nsec3OptOut" => resp.method = "optout" /\ resp.type = "DS"
        /\ \/ resp.method = "nsec3"
           \/ resp.method = "nsec" /\ ClosestEncloser(resp.zone, resp.name) = Parent(resp.name)
           => asked \cap Answer(resp.zone, resp.name) = {}

(* PerformClosestEncloserProof: when both parts of the proof hold, the name *)
(* found by hashing ever shorter names is the closest encloser of the name, *)
(* though records that would have shown a longer one may be missing.        *)
EncloserIsClosest ==
  status # "Pending" /\ resp.form # "none" /\ resp.method = "nsec3" =>
    LET p == PerformClosestEncloserProof(resp.name)
    IN  p.encloser /\ p.nextCloser =>
          FindClosestEncloser(resp.name) = ClosestEncloser(resp.zone, resp.name)

(* validatePositiveResponse: an answer made from a wildcard is accepted only *)
(* if the name has no records of its own, and, with NSEC3, only if the       *)
(* wildcard is the one that applies to the name, also when NSEC records are  *)
(* looked up for the name in question, an alias of it.                       *)
WildcardApplies ==
  resp.form = "positive" /\ status = "Secure" /\ resp.wild # <<>> =>
    /\ Len(resp.wild) = 1
    /\ resp.name \notin DOMAIN resp.zone
    /\ resp.method = "nsec3" => Len(ClosestEncloser(resp.zone, resp.name)) = resp.wild[1]

(* validateDelegatingResponse: a delegation that is taken to be unsigned has *)
(* no DS record in the zone.                                                 *)
UnsignedHasNoDS ==
  resp.form = "delegating" /\ status = "Secure" /\ ~resp.ds =>
    Unsigned(resp.zone, resp.name)

(* What PerformQNameDoesNotExistProof and PerformExpandedWildcardProof of   *)
(* NSEC do not accept: no data at an empty name or at a wildcard, a         *)
(* wildcard that stands for more than one label, and one that an alias      *)
(* leads to.                                                                *)
NotHandled(r) ==
  /\ r.method = "nsec"
  /\ LET ce == ClosestEncloser(r.zone, r.name)
     IN  IF r.form = "negative"
         THEN \/ Exists(r.zone, r.name) /\ r.name \notin DOMAIN r.zone
              \/ ce = Parent(r.name) /\ Star(ce) \in DOMAIN r.zone
         ELSE ce # Parent(r.name) \/ r.question # r.name

(* The server answers as the zone says, with the records that prove it; no *)
(* DNAME above the name redirects it.                                      *)
Genuine(r) ==
  LET z == r.zone
      n == r.name
      ce == Closest(Chained(z, r.method), n)
  IN  /\ \A a \in Ancestors(n) \ {n} : "DNAME" \notin TypesAt(z, a)
      /\ CASE r.form = "negative" ->
                /\ {r.type, "CNAME"} \cap Answer(z, n) = {}
                /\ n \in Chained(z, r.method) \/ {r.type, "CNAME"} \cap TypesAt(z, Star(ce)) = {}
                /\ ProofSent(r, n)
           [] r.form = "positive" ->
                r.wild # <<>> =>
                  /\ ~Exists(z, n) /\ r.wild = <<Len(ClosestEncloser(z, n))>>
                  /\ IF r.method = "nsec" THEN Holds(r, n)
                     ELSE Holds(r, Child(ce, n)) /\ ce = ClosestEncloser(z, n) /\ ~Holds(r, Star(ce))
           [] OTHER ->
                /\ ~r.mixed
                /\ "DS" \in z[n] => r.ds
                /\ IF n \in Chained(z, r.method) THEN Holds(r, n)
                   ELSE Holds(r, ce) /\ Holds(r, Child(ce, n))

(* The three checks: a response that says what the zone says, with the      *)
(* records that prove it, is not rejected.                                  *)
GenuineIsSecure ==
  /\ resp.form # "none" /\ status \in {"Secure", "Bogus"}
  /\ Genuine(resp) /\ ~(resp.form # "delegating" /\ NotHandled(resp))
  => status = "Secure"
=============================================================================
