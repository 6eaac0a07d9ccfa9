------------------------- MODULE VerificationProofs -------------------------
(***************************************************************************)
(* What a verified response, and a check of it, amounts to, and what       *)
(* suffices for them.                                                      *)
(*                                                                         *)
(* Signatures.  The code compares the number of signed sets with the       *)
(* number of sets.  The signed sets are among the sets, so that equal      *)
(* numbers make them the same.                                             *)
(*                                                                         *)
(* TTLs.  Each is a minimum of the bounds; the one that wraps, the time    *)
(* left, is only made smaller by it.                                       *)
(*                                                                         *)
(* One good signature.  A set that a good signature covers gets a verified *)
(* result when its turn comes, and no later result takes that away: the    *)
(* numbers are equal at the end of every section, and no error is left.    *)
(*                                                                         *)
(* Checks.  What contents draws meets the hypotheses of the lemmas of      *)
(* DenialProofs, which say what each verdict means.                        *)
(***************************************************************************)
EXTENDS Verification, DenialProofs

(* A verified signature has a set, and a key that may have made it. *)
ResultsInv ==
  \A s \in Sections : \A q \in sigs[s] :
    q.verified =>
      /\ \E r \in msg.rrs[s] : r.name = q.rrsig.name /\ r.type = q.rrsig.covered
      /\ \E k \in msg.dnskeys : k.by = q.rrsig.by /\ (s = "keys" => k.by \in msg.ds)

(* What the sections that were left behind have passed. *)
StageInv ==
  /\ section \in Body \/ state = "Verified" => \E q \in sigs["keys"] : q.verified
  /\ section = "authority" \/ state = "Verified" => Counted("answer")
  /\ state = "Verified" => Counted("authority") /\ Valid(sigs["answer"] \cup sigs["authority"])
  /\ state = "Verified" => section = "done"
  /\ section = "done" => todo = {} /\ current = {}

Inv ==
  /\ msg \in Responses
  /\ section \in Sections \cup {"done"}
  /\ sigs = [s \in Sections |-> sigs[s]]
  /\ ResultsInv
  /\ StageInv

-----------------------------------------------------------------------------
(* Counting *)

(* The sets that need a signature can be counted. *)
LEMMA RequiredIsFinite ==
  ASSUME Inv, NEW s \in Sections
  PROVE  IsFiniteSet(Required(s))
<1> DEFINE all == {<<r.name, r.type>> : r \in msg.rrs[s]}
<1>1. IsFiniteSet(all)
  BY SignaturesAssumption DEF Inv
<1>2. Required(s) \subseteq all
  BY DEF Required
<1> QED
  BY <1>1, <1>2, FS_Subset

(* Equal numbers, and signed sets among the sets: every set is signed. *)
LEMMA CountedMeansSigned ==
  ASSUME Inv, NEW s \in Sections, Counted(s),
         \A q \in sigs[s] : Set(q) \in Required(s)
  PROVE  \A c \in Required(s) : \E q \in sigs[s] : Set(q) = c
<1> DEFINE signed == {<<r.rrsig.name, r.rrsig.covered>> : r \in sigs[s]}
<1>1. signed \subseteq Required(s)
  BY DEF Set
<1>2. Cardinality(Required(s)) = Cardinality(signed)
  BY DEF Counted, countNameTypeCombinations
<1>3. IsFiniteSet(Required(s))
  BY RequiredIsFinite
<1>4. Required(s) = signed
  BY <1>1, <1>2, <1>3, FS_Subset
<1> QED
  BY <1>4 DEF Set

(* What a verified signature covers is one of those sets. *)
LEMMA VerifiedIsRequired ==
  ASSUME Inv, NEW s \in Sections, NEW q \in sigs[s], q.verified
  PROVE  Set(q) \in Required(s)
<1>1. PICK r \in msg.rrs[s] : r.name = q.rrsig.name /\ r.type = q.rrsig.covered
  BY DEF Inv, ResultsInv
<1>2. r.type = "NS" => \E p \in sigs[s] : p.rrsig.covered = "NS"
  BY <1>1, Zenon
<1> QED
  BY <1>1, <1>2 DEF Required, Set

(* Equal counts make the signed sets all of the required ones. *)
LEMMA InvMeansSigned == Inv => SignedAsRequired
<1> SUFFICES ASSUME Inv, state = "Verified", RequireAllSignaturesValid \/ Tidy,
                    NEW s \in Body, NEW c \in Required(s)
             PROVE  \E q \in sigs[s] : Set(q) = c /\ q.verified
  BY DEF SignedAsRequired
<1>1. s \in Sections /\ Counted(s) /\ Valid(sigs["answer"] \cup sigs["authority"])
  BY DEF Inv, StageInv, Body, Sections
<1>2. CASE RequireAllSignaturesValid
  <2>1. \A q \in sigs[s] : q.verified
    BY <1>1, <1>2 DEF Valid, verifyAllRRSigsPerRRSet, Body
  <2>2. \A q \in sigs[s] : Set(q) \in Required(s)
    BY <1>1, <2>1, VerifiedIsRequired
  <2> QED
    BY <1>1, <2>1, <2>2, CountedMeansSigned
<1>3. CASE ~RequireAllSignaturesValid
  <2>1. Tidy
    BY <1>3
  <2>2. PICK q \in sigs[s] : Set(q) = c
    <3>1. \A q \in sigs[s] : Set(q) \in Required(s)
      BY <2>1 DEF Tidy
    <3> QED
      BY <1>1, <3>1, CountedMeansSigned
  <2>3. q \in sigs["answer"] \cup sigs["authority"]
    BY DEF Body
  <2>4. PICK p \in sigs["answer"] \cup sigs["authority"] :
          p.rrsig.covered = q.rrsig.covered /\ p.verified
    BY <1>1, <1>3, <2>3 DEF Valid, verifyOneOrMoreRRSigPerRRSet
  <2>5. PICK u \in Body : p \in sigs[u]
    BY <2>4 DEF Body
  <2>6. Set(p) \in Required(u) /\ Set(p)[2] = c[2]
    BY <2>1, <2>2, <2>4, <2>5 DEF Tidy, Set
  <2>7. u = s /\ Set(p) = c
    BY <2>1, <2>6 DEF Tidy
  <2> QED
    BY <2>4, <2>5, <2>7
<1> QED
  BY <1>2, <1>3

(* A verified signature of the keys is by one that a DS names. *)
LEMMA InvMeansVouched == Inv => KeysVouched
BY DEF Inv, ResultsInv, StageInv, KeysVouched, Body, Sections

-----------------------------------------------------------------------------
(* The steps *)

(* No section has a result at the start. *)
LEMMA InitInv == Init => Inv
BY DEF Init, Inv, ResultsInv, StageInv, Sections, Body

(* A result is added to the section at hand, and nothing else is changed. *)
LEMMA AddResultInv ==
  ASSUME Inv, section \in Sections, NEW r, AddResult(r),
         r.verified =>
           /\ \E x \in msg.rrs[section] : x.name = r.rrsig.name /\ x.type = r.rrsig.covered
           /\ \E k \in msg.dnskeys : k.by = r.rrsig.by /\ (section = "keys" => k.by \in msg.ds),
         UNCHANGED <<RequireAllSignaturesValid, msg, section, state>>
  PROVE  Inv'
<1>1. sigs' = [s \in Sections |-> IF s = section THEN sigs[s] \cup {r} ELSE sigs[s]]
  BY DEF Inv, AddResult
<1>2. sigs' = [s \in Sections |-> sigs'[s]]
  BY <1>1
<1>3. ResultsInv'
  BY <1>1 DEF Inv, ResultsInv
<1>4. state # "Verified" /\ section # "done"
  BY DEF Inv, StageInv, Sections
<1>5. section = "authority" => sigs'["answer"] = sigs["answer"]
  BY <1>1 DEF Sections
<1>6. (section = "authority" => Counted("answer"))'
  BY <1>4, <1>5, Zenon DEF Inv, StageInv, Counted, Required, countNameTypeCombinations
<1>7. (section \in Body => \E q \in sigs["keys"] : q.verified)'
  BY <1>1 DEF Inv, StageInv, Sections, Body
<1> QED
  BY <1>2, <1>3, <1>4, <1>6, <1>7 DEF Inv, StageInv

(* A signature refused before a key is tried is not verified. *)
LEMMA CheckSignatureInv ==
  ASSUME Inv, NEW g \in todo, checkSignature(g)
  PROVE  Inv'
<1>1. section \in Sections
  BY DEF Inv, StageInv, checkSignature
<1>2. CASE g.signer = Zone /\ g.labels # "more" /\ ValidityPeriod(g)
  <2>1. UNCHANGED <<RequireAllSignaturesValid, msg, section, state, sigs>>
    BY <1>2 DEF checkSignature
  <2> QED
    BY <1>1, <2>1 DEF Inv, ResultsInv, StageInv, Sections, Body, Counted, Required,
                      countNameTypeCombinations, Valid, verifyAllRRSigsPerRRSet,
                      verifyOneOrMoreRRSigPerRRSet
<1>3. CASE ~(g.signer = Zone /\ g.labels # "more" /\ ValidityPeriod(g))
  <2> DEFINE r == Checked(g, Min({g.ttl, g.orig}), FALSE, FALSE)
  <2>1. AddResult(r) /\ UNCHANGED <<RequireAllSignaturesValid, msg, section, state>>
    BY <1>3, Zenon DEF checkSignature
  <2>2. r.verified = FALSE
    BY DEF Checked
  <2> HIDE DEF r
  <2> QED
    BY <1>1, <2>1, <2>2, AddResultInv
<1> QED
  BY <1>2, <1>3

(* Only a key that may sign, and a set that is there, verify. *)
LEMMA VerifySignatureInv ==
  ASSUME Inv, verifySignature
  PROVE  Inv'
<1>1. PICK g \in current :
        AddResult(Checked(g, Min({g.ttl, g.orig, TimeLeft(g)} \cup {r.ttl : r \in rrset(g)}),
                          Tried(g), g.labels = "fewer"))
  BY Zenon DEF verifySignature
<1> DEFINE r == Checked(g, Min({g.ttl, g.orig, TimeLeft(g)} \cup {x.ttl : x \in rrset(g)}),
                        Tried(g), g.labels = "fewer")
<1>2. section \in Sections
  BY <1>1 DEF Inv, StageInv
<1>3. AddResult(r)
  BY <1>1
<1>4. r.rrsig = g /\ r.verified = Tried(g)
  BY DEF Checked
<1> HIDE DEF r
<1>5. ASSUME Tried(g)
      PROVE  /\ \E x \in msg.rrs[section] : x.name = g.name /\ x.type = g.covered
             /\ \E k \in msg.dnskeys : k.by = g.by /\ (section = "keys" => k.by \in msg.ds)
  BY <1>5 DEF Tried, Verify, rrset, Signers, keySigningKeys
<1>6. UNCHANGED <<RequireAllSignaturesValid, msg, section, state>>
  BY DEF verifySignature
<1> QED
  BY <1>2, <1>3, <1>4, <1>5, <1>6, AddResultInv

(* The first section is left with a verified signature of the keys. *)
LEMMA VerifyDNSKEYsInv ==
  ASSUME Inv, verifyDNSKEYs
  PROVE  Inv'
<1>1. UNCHANGED <<RequireAllSignaturesValid, msg, sigs, current>> /\ section = "keys" /\ current = {}
  BY DEF verifyDNSKEYs
<1>2. state # "Verified"
  BY <1>1 DEF Inv, StageInv
<1>3. ResultsInv' /\ (msg \in Responses)' /\ (sigs = [s \in Sections |-> sigs[s]])'
  BY <1>1 DEF Inv, ResultsInv
<1>4. CASE section' = "done" /\ todo' = {} /\ state' \in {"Insecure", "Bogus"}
  BY <1>1, <1>3, <1>4 DEF Inv, StageInv, Body
<1>5. CASE GoOn /\ Valid(sigs["keys"])
  <2>1. \E q \in sigs["keys"] : q.verified
    BY <1>5 DEF Valid, verifyAllRRSigsPerRRSet, verifyOneOrMoreRRSigPerRRSet
  <2>2. section' = "answer" /\ state' = state
    BY <1>1, <1>5 DEF GoOn, NextOf
  <2> QED
    BY <1>1, <1>2, <1>3, <2>1, <2>2 DEF Inv, StageInv, Body, Sections
<1> QED
  BY <1>4, <1>5 DEF verifyDNSKEYs, Conclude

(* The other sections are left with equal counts. *)
LEMMA VerifyRRSETsInv ==
  ASSUME Inv, verifyRRSETs
  PROVE  Inv'
<1>1. /\ UNCHANGED <<RequireAllSignaturesValid, msg, sigs, current>>
      /\ section \in Body /\ current = {}
  BY DEF verifyRRSETs, Body
<1>2. state # "Verified" /\ \E q \in sigs["keys"] : q.verified
  BY <1>1 DEF Inv, StageInv, Body
<1>3. ResultsInv' /\ (msg \in Responses)' /\ (sigs = [s \in Sections |-> sigs[s]])'
  BY <1>1 DEF Inv, ResultsInv
<1>4. \A s \in Sections : Counted(s) => Counted(s)'
  BY <1>1 DEF Counted, Required, countNameTypeCombinations
<1>5. CASE Conclude("Bogus")
  BY <1>1, <1>3, <1>5 DEF Inv, StageInv, Body, Conclude
<1>6. CASE Counted(section) /\ section = "answer" /\ GoOn
  <2>1. section' = "authority" /\ state' = state
    BY <1>6 DEF GoOn, NextOf
  <2>2. Counted("answer")'
    BY <1>4, <1>6 DEF Sections
  <2> QED
    BY <1>1, <1>2, <1>3, <2>1, <2>2 DEF Inv, StageInv, Body, Sections
<1>7. CASE /\ Counted(section) /\ section = "authority"
           /\ Valid(sigs["answer"] \cup sigs["authority"]) /\ Conclude("Verified")
  <2>1. Counted("answer")' /\ Counted("authority")'
    BY <1>4, <1>7 DEF Inv, StageInv, Sections
  <2>2. Valid(sigs["answer"] \cup sigs["authority"])'
    BY <1>1, <1>7 DEF Valid, verifyAllRRSigsPerRRSet, verifyOneOrMoreRRSigPerRRSet
  <2> QED
    BY <1>1, <1>2, <1>3, <1>7, <2>1, <2>2 DEF Inv, StageInv, Conclude
<1> QED
  BY <1>5, <1>6, <1>7 DEF verifyRRSETs

(* The clock is not part of the invariant. *)
LEMMA StutterInv ==
  ASSUME Inv, UNCHANGED <<RequireAllSignaturesValid, msg, section, todo, current, sigs, state>>
  PROVE  Inv'
BY ZenonT(30) DEF Inv, ResultsInv, StageInv, Counted, Required, countNameTypeCombinations,
       Valid, verifyAllRRSigsPerRRSet, verifyOneOrMoreRRSigPerRRSet

(* Every step on the signatures keeps the invariant. *)
LEMMA NextInv ==
  ASSUME Inv, Next
  PROVE  Inv'
<1>1. CASE tick
  BY <1>1, StutterInv DEF tick
<1>2. CASE \E g \in todo : checkSignature(g)
  BY <1>2, CheckSignatureInv
<1>3. CASE verifySignature
  BY <1>3, VerifySignatureInv
<1>4. CASE verifyDNSKEYs
  BY <1>4, VerifyDNSKEYsInv
<1>5. CASE verifyRRSETs
  BY <1>5, VerifyRRSETsInv
<1> QED
  BY <1>1, <1>2, <1>3, <1>4, <1>5 DEF Next

(* Forgetting the signatures does too. *)
LEMMA VerifyInv ==
  ASSUME Inv, verify
  PROVE  Inv'
<1>1. section = "done" /\ UNCHANGED <<section, todo, current>>
  BY DEF Inv, StageInv, verify, Forget
<1>2. msg' \in Responses
  BY DEF Inv, verify, Forget
<1>3. sigs' = [s \in Sections |-> {}] /\ state' = "Unknown"
  BY DEF verify, Forget
<1> QED
  BY <1>1, <1>2, <1>3 DEF Inv, ResultsInv, StageInv, Body

(* Hence it always holds. *)
LEMMA Invariance == VerificationSpec => []Inv
<1>1. VerificationInit => Inv
  BY InitInv DEF VerificationInit
<1>2. Inv /\ [VerificationNext]_verification => Inv'
  <2> SUFFICES ASSUME Inv, [VerificationNext]_verification
               PROVE  Inv'
    OBVIOUS
  <2>1. CASE Next
    BY <2>1, NextInv
  <2>2. CASE verify
    BY <2>2, VerifyInv
  <2>3. CASE UNCHANGED vars
    BY <2>3, StutterInv DEF vars
  <2> QED
    BY <2>1, <2>2, <2>3 DEF VerificationNext, verification, contents
<1> QED
  BY <1>1, <1>2, PTL DEF VerificationSpec

-----------------------------------------------------------------------------

(* authenticate and Verify: for all responses, keys and clocks, in a        *)
(* verified response every set that has to be signed has a verified         *)
(* signature (under the conditions SignedAsRequired names).                 *)
THEOREM SignedSets == VerificationSpec => []SignedAsRequired
BY Invariance, InvMeansSigned, PTL

(* verifyDNSKEYs and verifyRRSETs: for all responses, the keys that verify  *)
(* are in a set signed by a key that the parent's DS records name.          *)
THEOREM VouchedKeys == VerificationSpec => []KeysVouched
BY Invariance, InvMeansVouched, PTL

-----------------------------------------------------------------------------
(* TTLs *)

(* A set of TTLs has a least one. *)
LEMMA LeastTTL ==
  ASSUME NEW S \in SUBSET Nat, S # {}
  PROVE  Min(S) \in S /\ \A y \in S : Min(S) <= y
<1>1. \E x \in S : \A y \in S : x <= y
  BY LeastNat
<1> QED
  BY <1>1, Zenon DEF Min

(* Remainders are unique. *)
LEMMA ModUnique ==
  ASSUME NEW m \in Nat \ {0}, NEW q \in Nat, NEW r \in Nat, r < m
  PROVE  (m * q + r) % m = r
<1> DEFINE x == m * q + r
<1> DEFINE a == x \div m
<1> DEFINE b == x % m
<1>1. x \in Nat /\ a \in Int /\ b \in 0..(m - 1)
  OBVIOUS
<1>2. x = m * a + b
  OBVIOUS
<1> HIDE DEF a, b
<1>3. m * a + b = m * q + r
  BY <1>2
<1>4. a <= q
  <2>1. SUFFICES ASSUME q + 1 <= a PROVE FALSE
    BY <1>1
  <2>2. m * (q + 1) <= m * a
    BY <1>1, <2>1
  <2>3. m * (q + 1) = m * q + m
    OBVIOUS
  <2> QED
    BY <1>1, <1>3, <2>2, <2>3
<1>5. q <= a
  <2>1. SUFFICES ASSUME a + 1 <= q PROVE FALSE
    BY <1>1
  <2>2. m * (a + 1) <= m * q
    BY <1>1, <2>1
  <2>3. m * (a + 1) = m * a + m
    BY <1>1
  <2> QED
    BY <1>1, <1>3, <2>2, <2>3
<1>6. a = q
  BY <1>1, <1>4, <1>5
<1>7. b = r
  BY <1>1, <1>3, <1>6
<1> QED
  BY <1>7 DEF b

(* The wire's time: a distance that is unwrapped and cut to the width of a *)
(* time never grows.                                                       *)
LEMMA WrappedDistance ==
  ASSUME NEW y \in Nat \ {0}, NEW d \in Nat
  PROVE  (d + (d \div y) * y) % (2 * y) <= d
<1> DEFINE q == d \div y
<1> DEFINE r == d % y
<1>1. q \in Nat /\ r \in 0..(y - 1) /\ d = y * q + r
  OBVIOUS
<1> HIDE DEF q, r
<1>2. d + q * y = (2 * y) * q + r
  BY <1>1
<1>3. ((2 * y) * q + r) % (2 * y) = r
  <2>1. 2 * y \in Nat \ {0} /\ r \in Nat /\ r < 2 * y
    BY <1>1
  <2> QED
    BY <1>1, <2>1, ModUnique
<1>4. r <= d
  <2>1. y * q \in Nat
    BY <1>1
  <2> QED
    BY <1>1, <2>1
<1> QED
  BY <1>2, <1>3, <1>4 DEF q

(* The time left, though taken modulo the width, never exceeds the real *)
(* one.                                                                 *)
LEMMA TimeLeftBound ==
  ASSUME NEW g, g.until \in Nat, now \in Nat
  PROVE  TimeLeft(g) \in Nat /\ (now <= g.until => TimeLeft(g) <= g.until - now)
<1>0. Year68 \in Nat \ {0}
  BY SignaturesAssumption
<1> DEFINE d == g.until - now
<1>1. d \in Int
  OBVIOUS
<1>2. Quot(d, Year68) \in Int
  <2> HIDE DEF d
  <2>1. (d >= 0 => d \div Year68 \in Int) /\ (d < 0 => (-d) \div Year68 \in Int)
    BY <1>0, <1>1
  <2>2. \A x \in Int : -x \in Int
    OBVIOUS
  <2>3. CASE d >= 0
    BY <2>1, <2>3 DEF Quot
  <2>4. CASE ~(d >= 0)
    <3>1. (-d) \div Year68 \in Int
      BY <1>1, <2>1, <2>4
    <3>2. Quot(d, Year68) = -((-d) \div Year68)
      BY <2>4 DEF Quot
    <3> QED
      BY <2>2, <3>1, <3>2
  <2> QED
    BY <2>3, <2>4
<1>3. TimeLeft(g) = ((g.until + Quot(d, Year68) * Year68) - now) % (2 * Year68)
  BY DEF TimeLeft, Unwrapped
<1>4. TimeLeft(g) \in Nat
  <2>1. (g.until + Quot(d, Year68) * Year68) - now \in Int /\ 2 * Year68 \in Nat \ {0}
    <3>1. Quot(d, Year68) * Year68 \in Int
      BY <1>0, <1>2
    <3> QED
      BY <1>0, <3>1
  <2> QED
    BY <1>3, <2>1
<1>5. ASSUME now <= g.until
      PROVE  TimeLeft(g) <= d
  <2>1. d \in Nat
    BY <1>5
  <2>2. Quot(d, Year68) = d \div Year68 /\ d \div Year68 \in Nat
    BY <1>0, <2>1 DEF Quot
  <2>3. (g.until + (d \div Year68) * Year68) - now = d + (d \div Year68) * Year68
    <3>1. (d \div Year68) * Year68 \in Nat
      BY <1>0, <2>2
    <3> QED
      BY <3>1
  <2>4. (d + (d \div Year68) * Year68) % (2 * Year68) <= d
    BY <1>0, <2>1, WrappedDistance, Zenon
  <2> QED
    BY <1>3, <2>2, <2>3, <2>4
<1> QED
  BY <1>4, <1>5

(* What a result's TTL is bounded by. *)
Bounded(q) ==
  /\ q.at \in Nat /\ q.ttl \in Nat
  /\ q.ttl <= q.rrsig.ttl /\ q.ttl <= q.rrsig.orig
  /\ q.verified /\ q.at <= q.rrsig.until => q.ttl <= q.rrsig.until - q.at

TTLInv ==
  /\ Inv
  /\ now \in Nat
  /\ section \in Sections => todo \cup current \subseteq msg.rrsigs[section]
  /\ \A s \in Sections : \A q \in sigs[s] : q.rrsig \in msg.rrsigs[s] /\ Bounded(q)
  /\ state = "Verified" => \A s \in Body : ttls[s] = Lowered(s)

(* The invariant on the TTLs is what TTLIsEarned asks for. *)
LEMMA TTLInvIsEarned == TTLInv => TTLIsEarned
<1> SUFFICES ASSUME TTLInv, state = "Verified", NEW s \in Body, NEW q \in sigs[s], NEW r \in ttls[s],
                    q.verified, Set(q) = <<r.name, r.type>>
             PROVE  /\ r.ttl <= MaxAllowedTTL /\ r.ttl <= q.rrsig.ttl /\ r.ttl <= q.rrsig.orig
                    /\ \E o \in msg.rrs[s] : o.name = r.name /\ o.type = r.type /\ r.ttl <= o.ttl
                    /\ q.at <= q.rrsig.until => r.ttl <= q.rrsig.until - q.at
  BY DEF TTLIsEarned
<1>1. s \in Sections /\ msg \in Responses
  BY DEF TTLInv, Inv, Body, Sections
<1>2. q.rrsig \in msg.rrsigs[s] /\ Bounded(q)
  BY <1>1 DEF TTLInv
<1>3. q.rrsig.ttl \in Nat /\ q.rrsig.orig \in Nat /\ q.rrsig.until \in Nat /\ MaxAllowedTTL \in Nat
  BY <1>1, <1>2, SignaturesAssumption, Zenon
<1>4. r \in Lowered(s)
  BY DEF TTLInv
<1>5. PICK o \in msg.rrs[s] :
        r = [name |-> o.name, type |-> o.type,
             ttl |-> IF \E p \in sigs[s] : p.rrsig.covered = o.type /\ p.verified
                     THEN Min({o.ttl, resultTTL(o.type, sigs[s])}) ELSE o.ttl]
  BY <1>4 DEF Lowered
<1>6. r.name = o.name /\ r.type = o.type /\ q.rrsig.covered = o.type
  BY <1>5 DEF Set
<1>7. r.ttl = Min({o.ttl, resultTTL(o.type, sigs[s])})
  BY <1>5, <1>6
<1> DEFINE all == {MaxAllowedTTL} \cup {p.ttl : p \in {p \in sigs[s] : p.rrsig.covered = o.type /\ p.verified}}
<1>8. all \in SUBSET Nat /\ q.ttl \in all /\ MaxAllowedTTL \in all
  BY <1>1, <1>3, <1>6 DEF TTLInv, Bounded
<1>9. resultTTL(o.type, sigs[s]) = Min(all)
  BY DEF resultTTL
<1> HIDE DEF all
<1>10. Min(all) \in Nat /\ Min(all) <= q.ttl /\ Min(all) <= MaxAllowedTTL
  BY <1>8, LeastTTL, Zenon
<1>11. o.ttl \in Nat
  BY <1>1, SignaturesAssumption, Zenon
<1>12. r.ttl \in Nat /\ r.ttl <= o.ttl /\ r.ttl <= Min(all)
  <2>1. {o.ttl, Min(all)} \in SUBSET Nat /\ {o.ttl, Min(all)} # {}
    BY <1>10, <1>11
  <2> QED
    BY <1>7, <1>9, <2>1, LeastTTL
<1>13. r.ttl <= q.ttl /\ r.ttl <= MaxAllowedTTL
  BY <1>2, <1>3, <1>10, <1>12 DEF Bounded
<1>14. q.at <= q.rrsig.until => r.ttl <= q.rrsig.until - q.at
  BY <1>2, <1>3, <1>12, <1>13 DEF Bounded
<1> QED
  BY <1>2, <1>3, <1>6, <1>12, <1>13, <1>14 DEF Bounded

(* A result that is bounded is added to the section at hand. *)
LEMMA AddBounded ==
  ASSUME TTLInv, Inv', section \in Sections, NEW r, AddResult(r),
         r.rrsig \in msg.rrsigs[section], Bounded(r),
         UNCHANGED <<msg, now, section, state>>,
         todo' \cup current' \subseteq msg.rrsigs[section]
  PROVE  TTLInv'
<1>1. sigs' = [s \in Sections |-> IF s = section THEN sigs[s] \cup {r} ELSE sigs[s]]
  BY Zenon DEF TTLInv, Inv, AddResult
<1>2. state' # "Verified"
  BY DEF TTLInv, Inv, StageInv, Sections
<1>3. \A s \in Sections : \A q \in sigs'[s] : q.rrsig \in msg.rrsigs[s] /\ Bounded(q)
  BY <1>1 DEF TTLInv
<1>4. (\A s \in Sections : \A q \in sigs[s] : q.rrsig \in msg.rrsigs[s] /\ Bounded(q))'
  BY <1>3 DEF Bounded
<1> QED
  BY <1>2, <1>4 DEF TTLInv

(* The TTL of a refused signature is that of its record. *)
LEMMA CheckSignatureTTL ==
  ASSUME TTLInv, Inv', NEW g \in todo, checkSignature(g)
  PROVE  TTLInv'
<1>1. section \in Sections
  BY DEF TTLInv, Inv, StageInv, checkSignature
<1>2. g \in msg.rrsigs[section]
  BY <1>1 DEF TTLInv
<1>3. state # "Verified" /\ state' = state /\ section' = section /\ msg' = msg /\ now' = now
  BY <1>1 DEF TTLInv, Inv, StageInv, Sections, checkSignature
<1>4. CASE g.signer = Zone /\ g.labels # "more" /\ ValidityPeriod(g)
  <2>1. sigs' = sigs /\ current' = {g} /\ todo' = todo \ {g}
    BY <1>4 DEF checkSignature
  <2> QED
    BY <1>2, <1>3, <2>1 DEF TTLInv, Bounded
<1>5. CASE ~(g.signer = Zone /\ g.labels # "more" /\ ValidityPeriod(g))
  <2> DEFINE r == Checked(g, Min({g.ttl, g.orig}), FALSE, FALSE)
  <2>1. AddResult(r) /\ current' = current /\ todo' = todo \ {g}
    BY <1>5, Zenon DEF checkSignature
  <2>2. {g.ttl, g.orig} \in SUBSET Nat
    <3>1. msg \in Responses
      BY DEF TTLInv, Inv
    <3>2. g.ttl \in Nat /\ g.orig \in Nat
      BY <1>1, <1>2, <3>1, SignaturesAssumption, Zenon
    <3> QED
      BY <3>2
  <2>3. Min({g.ttl, g.orig}) \in Nat /\ Min({g.ttl, g.orig}) <= g.ttl /\ Min({g.ttl, g.orig}) <= g.orig
    BY <2>2, LeastTTL
  <2>4. r.rrsig = g /\ r.ttl = Min({g.ttl, g.orig}) /\ r.verified = FALSE /\ r.at = now
    BY DEF Checked
  <2> HIDE DEF r
  <2>6. Bounded(r)
    BY <2>3, <2>4 DEF Bounded, TTLInv
  <2>5. todo' \cup current' \subseteq msg.rrsigs[section]
    BY <1>1, <2>1 DEF TTLInv
  <2> QED
    BY <1>1, <1>2, <1>3, <2>1, <2>4, <2>5, <2>6, AddBounded
<1> QED
  BY <1>4, <1>5

(* The TTL of a tried one is below all that bound it. *)
LEMMA VerifySignatureTTL ==
  ASSUME TTLInv, Inv', verifySignature
  PROVE  TTLInv'
<1>1. PICK g \in current :
        AddResult(Checked(g, Min({g.ttl, g.orig, TimeLeft(g)} \cup {r.ttl : r \in rrset(g)}),
                          Tried(g), g.labels = "fewer"))
  BY Zenon DEF verifySignature
<1>2. section \in Sections
  BY <1>1 DEF TTLInv, Inv, StageInv
<1>3. g \in msg.rrsigs[section] /\ now \in Nat /\ msg \in Responses
  BY <1>2 DEF TTLInv, Inv
<1>4. g.ttl \in Nat /\ g.orig \in Nat /\ g.until \in Nat
  BY <1>2, <1>3, SignaturesAssumption, Zenon
<1> DEFINE S == {g.ttl, g.orig, TimeLeft(g)} \cup {x.ttl : x \in rrset(g)}
<1> DEFINE r == Checked(g, Min(S), Tried(g), g.labels = "fewer")
<1>5. TimeLeft(g) \in Nat /\ (now <= g.until => TimeLeft(g) <= g.until - now)
  BY <1>3, <1>4, TimeLeftBound
<1>6. \A x \in rrset(g) : x.ttl \in Nat
  BY <1>2, <1>3, SignaturesAssumption, Zenon DEF rrset
<1>7. S \in SUBSET Nat /\ g.ttl \in S /\ g.orig \in S /\ TimeLeft(g) \in S
  BY <1>4, <1>5, <1>6
<1>8. AddResult(r)
  BY <1>1
<1> HIDE DEF S
<1>9. Min(S) \in Nat /\ Min(S) <= g.ttl /\ Min(S) <= g.orig /\ Min(S) <= TimeLeft(g)
  BY <1>7, LeastTTL, Zenon
<1>10. now <= g.until => Min(S) <= g.until - now
  BY <1>3, <1>4, <1>5, <1>9
<1>11. r.rrsig = g /\ r.ttl = Min(S) /\ r.at = now
  BY DEF Checked
<1> HIDE DEF r
<1>12. Bounded(r)
  BY <1>3, <1>9, <1>10, <1>11 DEF Bounded
<1>13. /\ UNCHANGED <<msg, now, section, state>>
       /\ todo' \cup current' \subseteq msg.rrsigs[section]
  BY <1>2 DEF verifySignature, TTLInv
<1> QED
  BY <1>2, <1>3, <1>8, <1>11, <1>12, <1>13, AddBounded

(* The end of a section adds no result; the last fixes the TTLs. *)
LEMMA EndOfSectionTTL ==
  ASSUME TTLInv, Inv', verifyDNSKEYs \/ verifyRRSETs
  PROVE  TTLInv'
<1>1. UNCHANGED <<msg, now, sigs, current>> /\ current = {}
  BY DEF verifyDNSKEYs, verifyRRSETs
<1>2. (\A s \in Sections : \A q \in sigs[s] : q.rrsig \in msg.rrsigs[s] /\ Bounded(q))'
  BY <1>1 DEF TTLInv, Bounded
<1>3. todo' = {} \/ (section' \in Sections => todo' = msg.rrsigs[section'])
  BY DEF verifyDNSKEYs, verifyRRSETs, Conclude, GoOn
<1>4. state # "Verified"
  BY DEF TTLInv, Inv, StageInv, verifyDNSKEYs, verifyRRSETs
<1>5. state' = "Verified" => ttls' = [s \in Sections |-> IF s = "keys" THEN msg.rrs[s] ELSE Lowered(s)]
  BY <1>4 DEF verifyDNSKEYs, verifyRRSETs, Conclude, GoOn
<1>6. \A s \in Body : Lowered(s)' = Lowered(s)
  BY <1>1 DEF Lowered, resultTTL
<1>7. (state = "Verified" => \A s \in Body : ttls[s] = Lowered(s))'
  BY <1>5, <1>6 DEF Body, Sections
<1> QED
  BY <1>1, <1>2, <1>3, <1>7 DEF TTLInv

(* A step of the clock changes no TTL that was computed. *)
LEMMA TTLStutter ==
  ASSUME TTLInv, Inv', now' \in Nat,
         UNCHANGED <<msg, section, todo, current, sigs, state, ttls>>
  PROVE  TTLInv'
<1>1. \A s \in Body : Lowered(s)' = Lowered(s)
  BY DEF Lowered, resultTTL
<1>2. (\A s \in Sections : \A q \in sigs[s] : q.rrsig \in msg.rrsigs[s] /\ Bounded(q))'
  BY DEF TTLInv, Bounded
<1> QED
  BY <1>1, <1>2 DEF TTLInv

(* Hence the invariant on the TTLs always holds. *)
LEMMA TTLInvariance == VerificationSpec => []TTLInv
<1>1. VerificationInit => TTLInv
  BY InitInv DEF VerificationInit, Init, TTLInv, Sections
<1>2. TTLInv /\ [VerificationNext]_verification => TTLInv'
  <2> SUFFICES ASSUME TTLInv, [VerificationNext]_verification
               PROVE  TTLInv'
    OBVIOUS
  <2>0. Inv /\ now \in Nat
    BY DEF TTLInv
  <2>1. CASE Next
    <3>0. Inv'
      BY <2>0, <2>1, NextInv
    <3>1. CASE tick
      BY <2>0, <3>0, <3>1, TTLStutter DEF tick
    <3>2. CASE \E g \in todo : checkSignature(g)
      BY <3>0, <3>2, CheckSignatureTTL
    <3>3. CASE verifySignature
      BY <3>0, <3>3, VerifySignatureTTL
    <3>4. CASE verifyDNSKEYs \/ verifyRRSETs
      BY <3>0, <3>4, EndOfSectionTTL
    <3> QED
      BY <2>1, <3>1, <3>2, <3>3, <3>4 DEF Next
  <2>2. CASE verify
    <3>1. Inv'
      BY <2>0, <2>2, VerifyInv
    <3>2. section' = "done" /\ now' = 0 /\ sigs' = [s \in Sections |-> {}] /\ state' = "Unknown"
      BY <2>0, <2>2 DEF Inv, StageInv, verify, Forget
    <3> QED
      BY <3>1, <3>2 DEF TTLInv, Sections
  <2>3. CASE UNCHANGED vars
    BY <2>0, <2>3, StutterInv, TTLStutter DEF vars
  <2> QED
    BY <2>1, <2>2, <2>3 DEF VerificationNext, verification, contents
<1> QED
  BY <1>1, <1>2, PTL DEF VerificationSpec

(* authenticate, resultTTL and finaliseResponse: for all TTLs, times and    *)
(* widths of a time, a record of a verified set outlives neither of the     *)
(* TTLs it came with nor, as the clock was read, its signature.             *)
THEOREM TTLsAreEarned == VerificationSpec => []TTLIsEarned
BY TTLInvariance, TTLInvIsEarned, PTL

-----------------------------------------------------------------------------
(* One good signature *)

KeysFor(s) == IF s = "keys" THEN keySigningKeys ELSE msg.dnskeys

HasSet(s, g) == \E r \in msg.rrs[s] : r.name = g.name /\ r.type = g.covered

(* The sections that authenticate has not come to. *)
Later(s) == (section = "keys" /\ s \in Body) \/ (section = "answer" /\ s = "authority")

(* No signature is skipped, and a good one is verified whenever it is tried. *)
EnoughInv ==
  /\ now <= MaxTime
  /\ \A g, h \in current : g = h
  /\ section \in Sections =>
       \A s \in Sections : \A g \in msg.rrsigs[s] :
         \/ s = section /\ g \in todo \cup current
         \/ Later(s)
         \/ \E q \in sigs[s] : q.rrsig = g
  /\ \A s \in Sections : \A q \in sigs[s] :
       Good(q.rrsig, KeysFor(s)) /\ HasSet(s, q.rrsig) => q.verified
  /\ OneGoodIsEnough

(* A signature that begins at 0 and ends after the run is always valid,      *)
(* though its times are unwrapped around the present.                        *)
LEMMA GoodIsValid ==
  ASSUME NEW g, NEW ks, now \in Nat, now <= MaxTime, g.until \in Nat, Good(g, ks)
  PROVE  ValidityPeriod(g)
<1>0. Year68 \in Nat \ {0} /\ MaxTime \in Nat /\ g.from = 0 /\ MaxTime < g.until
  BY SignaturesAssumption DEF Good
<1>1. Unwrapped(g.from) <= now
  <2>1. CASE now = 0
    <3> DEFINE q == 0 \div Year68
    <3>1. q \in Nat /\ 0 = Year68 * q + (0 % Year68) /\ 0 % Year68 \in Nat
      BY <1>0
    <3>2. Quot(0 - now, Year68) = q
      BY <2>1 DEF Quot
    <3> DEFINE r == 0 % Year68
    <3>3. q \in Nat /\ r \in Nat /\ 0 = Year68 * q + r
      BY <3>1
    <3> HIDE DEF q, r
    <3>4. Year68 * q \in Nat /\ q * Year68 = Year68 * q
      BY <1>0, <3>3
    <3>5. q * Year68 = 0
      BY <3>3, <3>4
    <3> QED
      BY <1>0, <2>1, <3>2, <3>5 DEF Unwrapped
  <2>2. CASE now # 0
    <3> DEFINE q == now \div Year68
    <3>1. q \in Nat
      BY <1>0
    <3>2. Quot(0 - now, Year68) = -q
      <4>1. ~(0 - now >= 0) /\ -(0 - now) = now
        BY <2>2
      <4> QED
        BY <4>1 DEF Quot
    <3> HIDE DEF q
    <3>3. q * Year68 \in Nat /\ (-q) * Year68 = -(q * Year68)
      BY <1>0, <3>1
    <3>4. Unwrapped(g.from) = 0 + (-q) * Year68
      BY <1>0, <3>2 DEF Unwrapped
    <3> QED
      BY <3>3, <3>4
  <2> QED
    BY <2>1, <2>2
<1>2. now <= Unwrapped(g.until)
  <2> DEFINE q == (g.until - now) \div Year68
  <2>1. g.until - now \in Nat /\ g.until - now >= 0
    BY <1>0
  <2>2. q \in Nat
    BY <1>0, <2>1
  <2>3. Quot(g.until - now, Year68) = q
    BY <2>1 DEF Quot
  <2> HIDE DEF q
  <2>4. q * Year68 \in Nat
    BY <1>0, <2>2
  <2>5. Unwrapped(g.until) = g.until + q * Year68
    BY <2>3 DEF Unwrapped
  <2> QED
    BY <2>1, <2>4, <2>5
<1> QED
  BY <1>1, <1>2 DEF ValidityPeriod

(* A section whose sets all have a good signature passes, once each of its   *)
(* signatures has a result: the signed sets are the sets, and every type     *)
(* that is signed has a verified signature.                                  *)
LEMMA WellSignedPasses ==
  ASSUME TTLInv, EnoughInv, NEW s \in Sections, WellSigned(s, KeysFor(s)),
         \A g \in msg.rrsigs[s] : \E q \in sigs[s] : q.rrsig = g
  PROVE  /\ Counted(s)
         /\ \A r \in sigs[s] : \E q \in sigs[s] : q.rrsig.covered = r.rrsig.covered /\ q.verified
<1> DEFINE must == {<<r.name, r.type>> : r \in
                     {r \in msg.rrs[s] : s = "authority" /\ r.type = "NS" =>
                                           \E g \in msg.rrsigs[s] : g.covered = "NS"}}
<1>1. /\ \A g \in msg.rrsigs[s] : <<g.name, g.covered>> \in must
      /\ \A c \in must : \E g \in msg.rrsigs[s] : <<g.name, g.covered>> = c /\ Good(g, KeysFor(s))
  BY DEF WellSigned
<1>2. \A q \in sigs[s] : q.rrsig \in msg.rrsigs[s]
  BY DEF TTLInv
<1>3. (\E g \in msg.rrsigs[s] : g.covered = "NS") <=> (\E q \in sigs[s] : q.rrsig.covered = "NS")
  BY <1>2
<1>4. Required(s) = must
  BY <1>3 DEF Required
<1>5. \A c \in must : \E r \in msg.rrs[s] : c = <<r.name, r.type>>
  OBVIOUS
<1> HIDE DEF must
<1>6. \A c \in must : \E q \in sigs[s] : Set(q) = c /\ q.verified
  <2> SUFFICES ASSUME NEW c \in must PROVE \E q \in sigs[s] : Set(q) = c /\ q.verified
    OBVIOUS
  <2>1. PICK g \in msg.rrsigs[s] : <<g.name, g.covered>> = c /\ Good(g, KeysFor(s))
    BY <1>1
  <2>2. PICK q \in sigs[s] : q.rrsig = g
    OBVIOUS
  <2>3. HasSet(s, g)
    BY <1>5, <2>1 DEF HasSet
  <2>4. q.verified
    BY <2>1, <2>2, <2>3 DEF EnoughInv
  <2> QED
    BY <2>1, <2>2, <2>4 DEF Set
<1>7. \A q \in sigs[s] : Set(q) \in must
  BY <1>1, <1>2 DEF Set
<1>8. {<<r.rrsig.name, r.rrsig.covered>> : r \in sigs[s]} = must
  BY <1>6, <1>7 DEF Set
<1>9. Counted(s)
  BY <1>4, <1>8, Zenon DEF Counted, countNameTypeCombinations
<1>10. ASSUME NEW r \in sigs[s]
       PROVE  \E q \in sigs[s] : q.rrsig.covered = r.rrsig.covered /\ q.verified
  <2>1. PICK q \in sigs[s] : Set(q) = Set(r) /\ q.verified
    BY <1>6, <1>7
  <2> QED
    BY <2>1 DEF Set
<1> QED
  BY <1>9, <1>10

(* WellSigned, of a response that is named. *)
SignedIn(m, s, ks) ==
  LET must == {<<r.name, r.type>> : r \in
                 {r \in m.rrs[s] : s = "authority" /\ r.type = "NS" =>
                                     \E g \in m.rrsigs[s] : g.covered = "NS"}}
  IN  /\ \A g \in m.rrsigs[s] : <<g.name, g.covered>> \in must
      /\ \A c \in must : \E g \in m.rrsigs[s] : <<g.name, g.covered>> = c /\ Good(g, ks)

(* What is promised depends on the response, the policy and the state alone. *)
LEMMA SamePromise ==
  ASSUME msg' = msg
  PROVE  /\ WellSigned("keys", keySigningKeys)' <=> WellSigned("keys", keySigningKeys)
         /\ \A s : WellSigned(s, msg.dnskeys)' <=> WellSigned(s, msg.dnskeys)
<1>1. \A s, ks : WellSigned(s, ks) <=> SignedIn(msg, s, ks)
  BY DEF WellSigned, SignedIn
<1>2. keySigningKeys' = keySigningKeys
  BY DEF keySigningKeys
<1>3. WellSigned("keys", keySigningKeys)' <=> SignedIn(msg', "keys", keySigningKeys')
  BY DEF WellSigned, SignedIn
<1>4. \A s : WellSigned(s, msg.dnskeys)' <=> SignedIn(msg', s, msg'.dnskeys)
  BY DEF WellSigned, SignedIn
<1> QED
  BY <1>1, <1>2, <1>3, <1>4

(* A step that rejects nothing keeps the promise. *)
LEMMA PromiseKept ==
  ASSUME UNCHANGED <<RequireAllSignaturesValid, msg>>, state' = "Bogus" => state = "Bogus",
         OneGoodIsEnough
  PROVE  OneGoodIsEnough'
BY SamePromise DEF OneGoodIsEnough

(* A result is added for the signature that leaves todo or current.          *)
LEMMA AddEnough ==
  ASSUME TTLInv, EnoughInv, section \in Sections, NEW g, NEW r, AddResult(r), r.rrsig = g,
         Good(g, KeysFor(section)) /\ HasSet(section, g) => r.verified,
         todo \cup current \subseteq todo' \cup current' \cup {g}, current' \subseteq current,
         UNCHANGED <<RequireAllSignaturesValid, msg, now, section, state>>
  PROVE  EnoughInv'
<1>1. sigs' = [s \in Sections |-> IF s = section THEN sigs[s] \cup {r} ELSE sigs[s]]
  BY Zenon DEF TTLInv, Inv, AddResult
<1>2. \A s : KeysFor(s)' = KeysFor(s) /\ Later(s)' = Later(s)
  BY DEF KeysFor, keySigningKeys, Later
<1>3. \A s \in Sections : \A h \in msg.rrsigs[s] :
        \/ s = section /\ h \in todo' \cup current'
        \/ Later(s)
        \/ \E q \in sigs'[s] : q.rrsig = h
  <2> SUFFICES ASSUME NEW s \in Sections, NEW h \in msg.rrsigs[s]
               PROVE  \/ s = section /\ h \in todo' \cup current'
                      \/ Later(s)
                      \/ \E q \in sigs'[s] : q.rrsig = h
    OBVIOUS
  <2>1. sigs[s] \subseteq sigs'[s] /\ (s = section => r \in sigs'[s])
    BY <1>1
  <2>2. \/ s = section /\ h \in todo \cup current
        \/ Later(s)
        \/ \E q \in sigs[s] : q.rrsig = h
    BY DEF EnoughInv
  <2> QED
    BY <2>1, <2>2
<1>4. \A s \in Sections : \A q \in sigs'[s] :
        Good(q.rrsig, KeysFor(s)) /\ HasSet(s, q.rrsig) => q.verified
  BY <1>1 DEF EnoughInv
<1>5. (\A s \in Sections : \A q \in sigs[s] :
         Good(q.rrsig, KeysFor(s)) /\ HasSet(s, q.rrsig) => q.verified)'
  BY <1>2, <1>4 DEF HasSet
<1>6. OneGoodIsEnough'
  BY PromiseKept DEF EnoughInv
<1> QED
  BY <1>2, <1>3, <1>5, <1>6 DEF EnoughInv

(* A good signature is not turned down before a key is tried.                *)
LEMMA CheckSignatureEnough ==
  ASSUME TTLInv, EnoughInv, NEW g \in todo, checkSignature(g)
  PROVE  EnoughInv'
<1>1. section \in Sections
  BY DEF TTLInv, Inv, StageInv, checkSignature
<1>2. g \in msg.rrsigs[section] /\ now \in Nat /\ msg \in Responses
  BY <1>1 DEF TTLInv, Inv
<1>3. g.until \in Nat
  BY <1>1, <1>2, SignaturesAssumption, ZenonT(30)
<1>4. UNCHANGED <<RequireAllSignaturesValid, msg, now, section, state>> /\ todo' = todo \ {g}
      /\ current = {}
  BY DEF checkSignature
<1>5. CASE g.signer = Zone /\ g.labels # "more" /\ ValidityPeriod(g)
  <2>1. current' = {g} /\ sigs' = sigs
    BY <1>5 DEF checkSignature
  <2>2. todo \cup current = todo' \cup current'
    BY <1>4, <2>1
  <2>3. \A s : KeysFor(s)' = KeysFor(s) /\ Later(s)' = Later(s)
    BY <1>4 DEF KeysFor, keySigningKeys, Later
  <2>4. (\A s \in Sections : \A q \in sigs[s] :
           Good(q.rrsig, KeysFor(s)) /\ HasSet(s, q.rrsig) => q.verified)'
    BY <1>4, <2>1, <2>3 DEF EnoughInv, HasSet
  <2>5. OneGoodIsEnough'
    BY <1>4, PromiseKept DEF EnoughInv
  <2> QED
    BY <1>4, <2>1, <2>2, <2>3, <2>4, <2>5 DEF EnoughInv
<1>6. CASE ~(g.signer = Zone /\ g.labels # "more" /\ ValidityPeriod(g))
  <2> DEFINE r == Checked(g, Min({g.ttl, g.orig}), FALSE, FALSE)
  <2>1. AddResult(r) /\ current' = current
    BY <1>6, Zenon DEF checkSignature
  <2>2. ~Good(g, KeysFor(section))
    BY <1>2, <1>3, <1>6, GoodIsValid DEF Good, EnoughInv
  <2>3. r.rrsig = g
    BY DEF Checked
  <2> HIDE DEF r
  <2> QED
    BY <1>1, <1>4, <2>1, <2>2, <2>3, AddEnough
<1> QED
  BY <1>5, <1>6

(* A key of the right tag that made it is among those tried.                 *)
LEMMA VerifySignatureEnough ==
  ASSUME TTLInv, EnoughInv, verifySignature
  PROVE  EnoughInv'
<1>1. PICK g \in current :
        AddResult(Checked(g, Min({g.ttl, g.orig, TimeLeft(g)} \cup {r.ttl : r \in rrset(g)}),
                          Tried(g), g.labels = "fewer"))
  BY Zenon DEF verifySignature
<1> DEFINE r == Checked(g, Min({g.ttl, g.orig, TimeLeft(g)} \cup {x.ttl : x \in rrset(g)}),
                        Tried(g), g.labels = "fewer")
<1>2. g \in current /\ section \in Sections
  BY <1>1 DEF TTLInv, Inv, StageInv
<1>3. AddResult(r) /\ r.rrsig = g /\ r.verified = Tried(g)
  BY <1>1 DEF Checked
<1> HIDE DEF r
<1>4. Good(g, KeysFor(section)) /\ HasSet(section, g) => Tried(g)
  BY DEF Good, HasSet, KeysFor, Tried, Signers, Verify, rrset
<1>5. UNCHANGED <<RequireAllSignaturesValid, msg, now, section, state, todo>> /\ current' = {}
  BY DEF verifySignature
<1>6. current \subseteq {g}
  BY <1>1 DEF EnoughInv
<1> QED
  BY <1>2, <1>3, <1>4, <1>5, <1>6, AddEnough

(* The keys pass if they are well signed: a zone with keys has a set of them. *)
LEMMA VerifyDNSKEYsEnough ==
  ASSUME TTLInv, EnoughInv, verifyDNSKEYs
  PROVE  EnoughInv'
<1>1. section = "keys" /\ current = {} /\ current' = {} /\ sigs' = sigs
      /\ UNCHANGED <<RequireAllSignaturesValid, msg, now>>
  BY DEF verifyDNSKEYs
<1>2. \A s : KeysFor(s)' = KeysFor(s)
  BY <1>1 DEF KeysFor, keySigningKeys
<1>3. (\A s \in Sections : \A q \in sigs[s] :
         Good(q.rrsig, KeysFor(s)) /\ HasSet(s, q.rrsig) => q.verified)'
  BY <1>1, <1>2 DEF EnoughInv, HasSet
<1>4. CASE section' = "done" /\ state' = "Insecure"
  <2>1. OneGoodIsEnough'
    BY <1>4 DEF OneGoodIsEnough
  <2>2. section' \notin Sections
    BY <1>4 DEF Sections
  <2> QED
    BY <1>1, <1>3, <2>1, <2>2 DEF EnoughInv
<1>5. CASE keySigningKeys # {} /\ todo = {} /\ GoOn
  <2>1. section' = "answer" /\ todo' = msg.rrsigs["answer"] /\ state' = state
    BY <1>1, <1>5 DEF GoOn, NextOf
  <2>2. OneGoodIsEnough'
    BY <1>1, <2>1, PromiseKept DEF EnoughInv
  <2>3. \A s \in Sections : \A g \in msg.rrsigs[s] :
          \/ s = section' /\ g \in todo' \cup current'
          \/ Later(s)'
          \/ \E q \in sigs'[s] : q.rrsig = g
    BY <1>1, <1>5, <2>1 DEF EnoughInv, Later, Sections, Body
  <2> QED
    BY <1>1, <1>3, <2>2, <2>3, Zenon DEF EnoughInv
<1>6. CASE /\ keySigningKeys # {} /\ todo = {} /\ Conclude("Bogus")
           /\ ~(Counted("keys") /\ Valid(sigs["keys"]))
  <2>1. section' \notin Sections
    BY <1>6 DEF Conclude, Sections
  <2>2. "keys" \in Sections /\ KeysFor("keys") = keySigningKeys
    BY DEF Sections, KeysFor
  <2>3. \A g \in msg.rrsigs["keys"] : \E q \in sigs["keys"] : q.rrsig = g
    BY <1>1, <1>6, <2>2 DEF EnoughInv, Later, Body
  <2>4. ASSUME ~RequireAllSignaturesValid, WellSigned("keys", keySigningKeys) PROVE FALSE
    <3>1. Counted("keys") /\ \A r \in sigs["keys"] :
            \E q \in sigs["keys"] : q.rrsig.covered = r.rrsig.covered /\ q.verified
      BY <2>2, <2>3, <2>4, WellSignedPasses
    <3>2. PICK r \in msg.rrs["keys"] : r.type = "DNSKEY"
      BY <1>6, SignaturesAssumption DEF keySigningKeys, TTLInv, Inv
    <3>3. \E g \in msg.rrsigs["keys"] : <<g.name, g.covered>> = <<r.name, r.type>>
      BY <2>4, Zenon DEF WellSigned
    <3>4. sigs["keys"] # {}
      BY <2>3, <3>3
    <3>5. Valid(sigs["keys"])
      BY <2>4, <3>1, <3>4 DEF Valid, verifyOneOrMoreRRSigPerRRSet
    <3> QED
      BY <1>6, <3>1, <3>5
  <2>5. OneGoodIsEnough'
    BY <1>1, <2>4, SamePromise DEF OneGoodIsEnough
  <2> QED
    BY <1>1, <1>3, <2>1, <2>5 DEF EnoughInv
<1> QED
  BY <1>4, <1>5, <1>6 DEF verifyDNSKEYs, Conclude

(* So do the sections, one by one and then together. *)
LEMMA VerifyRRSETsEnough ==
  ASSUME TTLInv, EnoughInv, verifyRRSETs
  PROVE  EnoughInv'
<1>1. section \in Body /\ todo = {} /\ current = {} /\ current' = {} /\ sigs' = sigs
      /\ UNCHANGED <<RequireAllSignaturesValid, msg, now>>
  BY DEF verifyRRSETs, Body
<1>2. \A s : KeysFor(s)' = KeysFor(s)
  BY <1>1 DEF KeysFor, keySigningKeys
<1>3. (\A s \in Sections : \A q \in sigs[s] :
         Good(q.rrsig, KeysFor(s)) /\ HasSet(s, q.rrsig) => q.verified)'
  BY <1>1, <1>2 DEF EnoughInv, HasSet
<1>4. \A s \in Body : s \in Sections /\ KeysFor(s) = msg.dnskeys
  BY DEF Body, Sections, KeysFor
<1>5. \A s \in Body : ~Later(s) => \A g \in msg.rrsigs[s] : \E q \in sigs[s] : q.rrsig = g
  BY <1>1, <1>4 DEF EnoughInv
<1>6. \A s \in Body : ~Later(s) /\ WellSigned(s, msg.dnskeys) =>
        /\ Counted(s)
        /\ \A r \in sigs[s] : \E q \in sigs[s] : q.rrsig.covered = r.rrsig.covered /\ q.verified
  BY <1>4, <1>5, WellSignedPasses
<1>7. ~Later(section)
  BY <1>1 DEF Later, Body
<1>8. CASE section = "answer" /\ GoOn
  <2>1. section' = "authority" /\ todo' = msg.rrsigs["authority"] /\ state' = state
    BY <1>8 DEF GoOn, NextOf
  <2>2. OneGoodIsEnough'
    BY <1>1, <2>1, PromiseKept DEF EnoughInv
  <2>3. \A s \in Sections : \A g \in msg.rrsigs[s] :
          \/ s = section' /\ g \in todo' \cup current'
          \/ Later(s)'
          \/ \E q \in sigs'[s] : q.rrsig = g
    BY <1>1, <1>8, <2>1 DEF EnoughInv, Later, Sections, Body
  <2> QED
    BY <1>1, <1>3, <2>2, <2>3, Zenon DEF EnoughInv
<1>9. CASE section' = "done"
  <2>1. section' \notin Sections
    BY <1>9 DEF Sections
  <2>2. CASE state' # "Bogus"
    <3>1. OneGoodIsEnough'
      BY <2>2 DEF OneGoodIsEnough
    <3> QED
      BY <1>1, <1>3, <2>1, <3>1 DEF EnoughInv
  <2>3. CASE ~Counted(section)
    <3>1. OneGoodIsEnough'
      BY <1>1, <1>6, <1>7, <2>3, SamePromise DEF OneGoodIsEnough
    <3> QED
      BY <1>1, <1>3, <2>1, <3>1 DEF EnoughInv
  <2>4. CASE section = "authority" /\ ~Valid(sigs["answer"] \cup sigs["authority"])
    <3>1. \A s \in Body : ~Later(s)
      BY <2>4 DEF Later
    <3>2. ASSUME ~RequireAllSignaturesValid, \A s \in Body : WellSigned(s, msg.dnskeys),
                 \E s \in Body : msg.rrsigs[s] # {}
          PROVE  FALSE
      <4>1. \A s \in Body : \A r \in sigs[s] :
              \E q \in sigs[s] : q.rrsig.covered = r.rrsig.covered /\ q.verified
        BY <1>6, <3>1, <3>2
      <4>2. \E s \in Body : sigs[s] # {}
        BY <1>5, <3>1, <3>2
      <4>3. Valid(sigs["answer"] \cup sigs["authority"])
        BY <3>2, <4>1, <4>2 DEF Body, Valid, verifyOneOrMoreRRSigPerRRSet
      <4> QED
        BY <2>4, <4>3
    <3>3. OneGoodIsEnough'
      BY <1>1, <3>2, SamePromise DEF OneGoodIsEnough
    <3> QED
      BY <1>1, <1>3, <2>1, <3>3 DEF EnoughInv
  <2> QED
    BY <1>9, <2>2, <2>3, <2>4 DEF verifyRRSETs, Conclude, GoOn, NextOf
<1> QED
  BY <1>8, <1>9 DEF verifyRRSETs, Conclude

(* Nothing changes but the time. *)
LEMMA SameResults ==
  ASSUME EnoughInv, UNCHANGED <<msg, section, todo, current, sigs>>, (now <= MaxTime)', OneGoodIsEnough'
  PROVE  EnoughInv'
<1>1. \A s : KeysFor(s)' = KeysFor(s) /\ Later(s)' = Later(s)
  BY DEF KeysFor, keySigningKeys, Later
<1>2. (\A s \in Sections : \A q \in sigs[s] :
         Good(q.rrsig, KeysFor(s)) /\ HasSet(s, q.rrsig) => q.verified)'
  BY <1>1 DEF EnoughInv, HasSet
<1> QED
  BY <1>1, <1>2 DEF EnoughInv

(* The invariant holds, at every step of Verification.                       *)
LEMMA EnoughInvariance == VerificationSpec => []EnoughInv
<1>1. VerificationInit => EnoughInv
  <2> SUFFICES ASSUME VerificationInit PROVE EnoughInv
    OBVIOUS
  <2>1. /\ now = 0 /\ section = "keys" /\ todo = msg.rrsigs["keys"] /\ current = {}
        /\ \A s \in Sections : sigs[s] = {}
        /\ state = "Unknown"
    BY DEF VerificationInit, Init
  <2>2. now <= MaxTime
    BY <2>1, SignaturesAssumption
  <2>3. \A s \in Sections : \A g \in msg.rrsigs[s] : (s = section /\ g \in todo \cup current) \/ Later(s)
    BY <2>1 DEF Sections, Body, Later
  <2>4. OneGoodIsEnough
    BY <2>1 DEF OneGoodIsEnough
  <2> QED
    BY <2>1, <2>2, <2>3, <2>4 DEF EnoughInv
<1>2. TTLInv /\ EnoughInv /\ [VerificationNext]_verification => EnoughInv'
  <2> SUFFICES ASSUME TTLInv, EnoughInv, [VerificationNext]_verification PROVE EnoughInv'
    OBVIOUS
  <2>1. CASE Next
    <3>1. CASE tick
      <4>1. now \in Nat /\ MaxTime \in Nat /\ now < MaxTime /\ now' = now + 1
        BY <3>1, SignaturesAssumption DEF tick, TTLInv
      <4>2. now' <= MaxTime
        BY <4>1
      <4>3. UNCHANGED <<RequireAllSignaturesValid, msg, section, todo, current, sigs, state>>
        BY <3>1 DEF tick
      <4>4. OneGoodIsEnough'
        BY <4>3, PromiseKept DEF EnoughInv
      <4> QED
        BY <4>2, <4>3, <4>4, SameResults
    <3>2. ASSUME NEW g \in todo, checkSignature(g) PROVE EnoughInv'
      BY <3>2, CheckSignatureEnough, SMTT(20)
    <3> QED
      BY <2>1, <3>1, <3>2, VerifySignatureEnough, VerifyDNSKEYsEnough, VerifyRRSETsEnough DEF Next
  <2>2. CASE verify
    <3>1. section = "done" /\ section' = "done" /\ current' = {}
      BY <2>2 DEF verify, Forget, TTLInv, Inv, StageInv
    <3>2. now' = 0 /\ state' = "Unknown" /\ \A s \in Sections : sigs'[s] = {}
      BY <2>2 DEF verify, Forget
    <3>3. now' <= MaxTime
      BY <3>2, SignaturesAssumption
    <3>4. OneGoodIsEnough'
      BY <3>2 DEF OneGoodIsEnough
    <3> QED
      BY <3>1, <3>2, <3>3, <3>4 DEF EnoughInv, Sections
  <2>3. CASE UNCHANGED vars
    <3>1. OneGoodIsEnough'
      BY <2>3, PromiseKept DEF vars, EnoughInv
    <3> QED
      BY <2>3, <3>1, SameResults, ZenonT(30) DEF vars, EnoughInv
  <2> QED
    BY <2>1, <2>2, <2>3 DEF VerificationNext, verification, contents
<1> QED
  BY <1>1, <1>2, TTLInvariance, PTL DEF VerificationSpec

(* authenticate and verifyOneOrMoreRRSigPerRRSet: for every response, every  *)
(* width of times and every movement of the clock, a response in which each  *)
(* set has one good signature is not rejected for the other signatures.      *)
THEOREM GoodIsEnough == VerificationSpec => []OneGoodIsEnough
<1>1. EnoughInv => OneGoodIsEnough
  BY DEF EnoughInv
<1> QED
  BY <1>1, EnoughInvariance, PTL

-----------------------------------------------------------------------------
(* The checks of a response *)

Forms == {"negative", "positive", "delegating"}

(* What is checked is from one zone that can have given the response. *)
Drawn ==
  /\ Scenario /\ resp.form \in Forms
  /\ Authoritative(resp.zone, resp.name, resp.type)
  /\ resp.form = "positive" /\ resp.wild # <<>> =>
       /\ Len(resp.wild) \in Nat \ {0}
       /\ \E a \in Ancestors(resp.name) :
            a # resp.name /\ resp.type \in TypesAt(resp.zone, Star(a)) /\ resp.wild[1] = Len(a)
       /\ resp.question = resp.name \/ "CNAME" \in TypesAt(resp.zone, resp.question)
  /\ resp.form = "delegating" => Delegation(resp.zone, resp.name) /\ resp.type = "DS"

ChecksInv ==
  /\ IsFiniteSet(sigs["answer"])
  /\ resp # Idle \/ status # "Pending" => section = "done" /\ state # "Verified"
  /\ resp # Idle /\ status = "Pending" => resp.form \in Forms /\ resp.wildcards \in Nat
  /\ resp # Idle /\ status # "Pending" => Drawn
  /\ DeniedIsAbsent /\ WildcardApplies /\ UnsignedHasNoDS

(* The invariant on the checks gives EncloserIsClosest. *)
LEMMA ChecksMeanClosest == ChecksInv => EncloserIsClosest
<1> SUFFICES ASSUME ChecksInv, status # "Pending", resp.form # "none", resp.method = "nsec3",
                    PerformClosestEncloserProof(resp.name).nextCloser
             PROVE  FindClosestEncloser(resp.name) = ClosestEncloser(resp.zone, resp.name)
  BY DEF EncloserIsClosest
<1>1. Scenario
  BY DEF ChecksInv, Drawn, Idle
<1>2. Contenders(resp.name) # {} /\ Covered3(NextCloserName(resp.name, FindClosestEncloser(resp.name)))
  BY ProofIs, SMTT(20)
<1> QED
  BY <1>1, <1>2, EncloserClosest

(* Nothing is checked at the start. *)
LEMMA ChecksInit == VerificationInit => ChecksInv
<1> SUFFICES ASSUME VerificationInit PROVE ChecksInv
  OBVIOUS
<1>1. resp = Idle /\ status = "Pending" /\ sigs["answer"] = {}
  BY DEF VerificationInit, Init, Sections
<1>2. IsFiniteSet(sigs["answer"])
  BY <1>1, FS_EmptySet
<1> QED
  BY <1>1, <1>2 DEF ChecksInv, Idle, DeniedIsAbsent, WildcardApplies, UnsignedHasNoDS

(* The checks are left alone, and at most one signature is added. *)
LEMMA SignaturesChecks ==
  ASSUME Inv, ChecksInv, Next, UNCHANGED <<resp, status, denialOfExistence>>
  PROVE  ChecksInv'
<1>1. section # "done"
  BY Zenon DEF Inv, StageInv, Next, tick, checkSignature, verifySignature, verifyDNSKEYs, verifyRRSETs
<1>2. resp = Idle /\ status = "Pending"
  BY <1>1 DEF ChecksInv
<1>3. ASSUME NEW r, AddResult(r)
      PROVE  IsFiniteSet(sigs'["answer"])
  <2>1. sigs' = [s \in Sections |-> IF s = section THEN sigs[s] \cup {r} ELSE sigs[s]]
    BY <1>3 DEF Inv, AddResult
  <2>2. sigs'["answer"] \in {sigs["answer"] \cup {r}, sigs["answer"]}
    BY <2>1 DEF Sections
  <2> QED
    BY <2>2, FS_AddElement DEF ChecksInv
<1>4. (\E r : AddResult(r)) \/ sigs' = sigs
  <2>1. ASSUME NEW g \in todo, checkSignature(g)
        PROVE  (\E r : AddResult(r)) \/ sigs' = sigs
    BY <2>1, Zenon DEF checkSignature
  <2>2. CASE verifySignature
    BY <2>2 DEF verifySignature
  <2>3. CASE tick \/ verifyDNSKEYs \/ verifyRRSETs
    BY <2>3 DEF tick, verifyDNSKEYs, verifyRRSETs
  <2> QED
    BY <2>1, <2>2, <2>3 DEF Next
<1>5. IsFiniteSet(sigs'["answer"])
  BY <1>3, <1>4 DEF ChecksInv
<1> QED
  BY <1>2, <1>5 DEF ChecksInv, Idle, DeniedIsAbsent, WildcardApplies, UnsignedHasNoDS

(* verify draws a form, and concludes Bogus or nothing. *)
LEMMA VerifyChecks ==
  ASSUME Inv, ChecksInv, verify
  PROVE  ChecksInv'
<1>1. resp = Idle /\ status = "Pending" /\ section = "done"
  BY DEF ChecksInv, Inv, StageInv, verify
<1>2. section' = "done" /\ state' = "Unknown" /\ sigs'["answer"] = {}
  BY <1>1 DEF verify, Forget, Sections
<1>3. IsFiniteSet(sigs'["answer"])
  BY <1>2, FS_EmptySet
<1>4. ASSUME NEW f \in Forms, Check(f)
      PROVE  ChecksInv'
  <2>1. resp'.form = f /\ resp'.wildcards = Cardinality({r \in sigs["answer"] : r.wildcard}) /\ status' = "Pending"
    BY <1>1, <1>4 DEF Check
  <2>2. resp'.wildcards \in Nat
    <3>1. IsFiniteSet({r \in sigs["answer"] : r.wildcard})
      BY FS_Subset DEF ChecksInv
    <3> QED
      BY <2>1, <3>1, FS_CardinalityType
  <2> QED
    BY <1>2, <1>3, <1>4, <2>1, <2>2, ZenonT(30) DEF ChecksInv, DeniedIsAbsent, WildcardApplies, UnsignedHasNoDS
<1>5. CASE resp' = Idle /\ status' = "Bogus"
  BY <1>2, <1>3, <1>5, SMTT(20) DEF ChecksInv, Idle, DeniedIsAbsent, WildcardApplies, UnsignedHasNoDS
<1> QED
  BY <1>4, <1>5 DEF verify, Forms

(* What is drawn is a scenario of the assumptions. *)
LEMMA ContentsChecks ==
  ASSUME Inv, ChecksInv, contents
  PROVE  ChecksInv'
<1>1. /\ resp # Idle /\ status = "Pending" /\ status' = "Unknown"
      /\ resp.form \in Forms /\ resp.wildcards \in Nat
      /\ UNCHANGED vars
  BY DEF contents, ChecksInv
<1>2a. PICK z \in Zones, n \in QNames, t \in QTypes, m \in Methods, h \in Hashes :
         \E a \in Ancestors(n) : \E q \in Questions(z, n, a) :
           /\ Possible(z, n, t, a)
           /\ m = "nsec" => h = CHOOSE x \in Hashes : TRUE
           /\ \E rs \in SUBSET Chain(z, m, h) :
                resp' = [form |-> resp.form, zone |-> z, hash |-> h, method |-> m, name |-> n,
                         question |-> q, type |-> t,
                         wild |-> [i \in 1..(IF a = n THEN 0 ELSE resp.wildcards) |-> Len(a)],
                         ds |-> resp.ds, mixed |-> resp.mixed, records |-> rs]
  BY Zenon DEF contents
<1>2b. PICK a \in Ancestors(n) : \E q \in Questions(z, n, a) :
         /\ Possible(z, n, t, a)
         /\ \E rs \in SUBSET Chain(z, m, h) :
              resp' = [form |-> resp.form, zone |-> z, hash |-> h, method |-> m, name |-> n,
                       question |-> q, type |-> t,
                       wild |-> [i \in 1..(IF a = n THEN 0 ELSE resp.wildcards) |-> Len(a)],
                       ds |-> resp.ds, mixed |-> resp.mixed, records |-> rs]
  BY <1>2a, Zenon
<1>2c. PICK q \in Questions(z, n, a) :
         /\ Possible(z, n, t, a)
         /\ \E rs \in SUBSET Chain(z, m, h) :
              resp' = [form |-> resp.form, zone |-> z, hash |-> h, method |-> m, name |-> n,
                       question |-> q, type |-> t,
                       wild |-> [i \in 1..(IF a = n THEN 0 ELSE resp.wildcards) |-> Len(a)],
                       ds |-> resp.ds, mixed |-> resp.mixed, records |-> rs]
  BY <1>2b, Zenon
<1>2. PICK rs \in SUBSET Chain(z, m, h) :
        resp' = [form |-> resp.form, zone |-> z, hash |-> h, method |-> m, name |-> n,
                 question |-> q, type |-> t,
                 wild |-> [i \in 1..(IF a = n THEN 0 ELSE resp.wildcards) |-> Len(a)],
                 ds |-> resp.ds, mixed |-> resp.mixed, records |-> rs]
  BY <1>2c, Zenon
<1>3. /\ resp'.form = resp.form /\ resp'.zone = z /\ resp'.hash = h /\ resp'.method = m
      /\ resp'.name = n /\ resp'.question = q /\ resp'.type = t /\ resp'.records = rs
      /\ resp'.wild = [i \in 1..(IF a = n THEN 0 ELSE resp.wildcards) |-> Len(a)]
  BY <1>2
<1>4. Scenario'
  BY <1>3 DEF Scenario
<1>5. Authoritative(z, n, t)
  BY <1>2c, ZenonT(30) DEF Possible
<1>6. resp.form = "delegating" => Delegation(z, n) /\ t = "DS"
  BY <1>2c, ZenonT(30) DEF Possible
<1>7. ASSUME resp.form = "positive", resp'.wild # <<>>
      PROVE  /\ Len(resp'.wild) \in Nat \ {0}
             /\ a # n /\ t \in TypesAt(z, Star(a)) /\ resp'.wild[1] = Len(a)
             /\ q = n \/ "CNAME" \in TypesAt(z, q)
  <2>1. a # n
    BY <1>3, <1>7
  <2>2. resp.wildcards # 0
    BY <1>1, <1>3, <1>7, <2>1
  <2>3. t \in TypesAt(z, Star(a))
    BY <1>2c, <1>7, <2>1, <2>2, Zenon DEF Possible
  <2>4. Len(resp'.wild) = resp.wildcards /\ resp'.wild[1] = Len(a)
    BY <1>1, <1>3, <2>1, <2>2
  <2>5. q = n \/ "CNAME" \in TypesAt(z, q)
    BY DEF Questions
  <2> QED
    BY <1>1, <2>1, <2>2, <2>3, <2>4, <2>5, ZenonT(30)
<1>8. Drawn'
  BY <1>1, <1>3, <1>4, <1>5, <1>6, <1>7, ZenonT(30) DEF Drawn
<1> QED
  BY <1>1, <1>8 DEF ChecksInv, vars, DeniedIsAbsent, WildcardApplies, UnsignedHasNoDS

(* A conclusion leaves all but the verdict. *)
LEMMA ConclusionChecks ==
  ASSUME ChecksInv, UNCHANGED vars, status = "Unknown", resp # Idle,
         UNCHANGED resp, status' # "Pending",
         (DeniedIsAbsent /\ WildcardApplies /\ UnsignedHasNoDS)'
  PROVE  ChecksInv'
BY Zenon DEF ChecksInv, vars, Drawn, Scenario

(* The negative check keeps the invariant. *)
LEMMA NegativeChecks ==
  ASSUME ChecksInv, validateNegativeResponse, UNCHANGED vars
  PROVE  ChecksInv'
<1>1. resp' = resp /\ resp.form = "negative" /\ resp # Idle /\ status = "Unknown"
  BY DEF validateNegativeResponse, Conclusion, Idle
<1>2. /\ status' = IF NegativeVerdict = "NotFound" THEN "Bogus" ELSE "Secure"
      /\ denialOfExistence' = NegativeVerdict
  BY DEF validateNegativeResponse, Conclusion
<1>3. Drawn
  BY <1>1 DEF ChecksInv
<1>4. DeniedIsAbsent'
  <2>1. CASE NegativeVerdict = "NotFound"
    BY <1>2, <2>1 DEF DeniedIsAbsent
  <2>2. CASE NegativeVerdict # "NotFound"
    <3> DEFINE verdict == NegativeVerdict
    <3> DEFINE asked == {resp.type, "CNAME"}
    <3>1. /\ asked \cap TypesAt(resp.zone, resp.name) = {}
          /\ verdict = "Nsec3OptOut" => resp.method = "optout" /\ resp.type = "DS"
          /\ \/ resp.method = "nsec3"
             \/ resp.method = "nsec" /\ ClosestEncloser(resp.zone, resp.name) = Parent(resp.name)
             => asked \cap Answer(resp.zone, resp.name) = {}
      BY <1>1, <1>3, <2>2, NegativeIsAbsent, Zenon DEF Drawn
    <3>2. denialOfExistence' = verdict
      BY <1>2
    <3> HIDE DEF verdict
    <3> QED
      BY <1>1, <3>1, <3>2 DEF DeniedIsAbsent
  <2> QED
    BY <2>1, <2>2
<1> QED
  BY <1>1, <1>2, <1>4, ConclusionChecks DEF WildcardApplies, UnsignedHasNoDS

(* The positive check keeps it. *)
LEMMA PositiveChecks ==
  ASSUME ChecksInv, validatePositiveResponse, UNCHANGED vars
  PROVE  ChecksInv'
<1>1. resp' = resp /\ resp.form = "positive" /\ resp # Idle /\ status = "Unknown"
  BY DEF validatePositiveResponse, Conclusion, Idle
<1>2. Drawn
  BY <1>1 DEF ChecksInv
<1>3. status' \in {"Secure", "Bogus"}
  BY DEF validatePositiveResponse, Conclusion
<1>4. ASSUME status' = "Secure", resp.wild # <<>>
      PROVE  /\ Len(resp.wild) = 1 /\ resp.name \notin DOMAIN resp.zone
             /\ resp.method = "nsec3" => Len(ClosestEncloser(resp.zone, resp.name)) = resp.wild[1]
  <2>1. ~(Len(resp.wild) > 1) /\ PositiveVerdict # "NotFound"
    <3> DEFINE verdict == PositiveVerdict
    <3>1. IF Len(resp.wild) > 1 THEN Conclusion("Bogus", verdict)
          ELSE Conclusion(IF verdict = "NotFound" THEN "Bogus" ELSE "Secure", verdict)
      BY <1>4, Zenon DEF validatePositiveResponse
    <3> HIDE DEF verdict
    <3>2. ~(Len(resp.wild) > 1) /\ verdict # "NotFound"
      BY <1>4, <3>1 DEF Conclusion
    <3> QED
      BY <3>2 DEF verdict
  <2>2. Len(resp.wild) = 1
    <3>1. Len(resp.wild) \in Nat \ {0}
      BY <1>1, <1>2, <1>4, Zenon DEF Drawn
    <3>2. \A k \in Nat \ {0} : ~(k > 1) => k = 1
      OBVIOUS
    <3>3. ~(Len(resp.wild) > 1)
      BY <2>1
    <3> QED
      BY <3>1, <3>2, <3>3, Zenon
  <2>3. PICK a \in Ancestors(resp.name) :
          a # resp.name /\ resp.type \in TypesAt(resp.zone, Star(a)) /\ resp.wild[1] = Len(a)
    BY <1>1, <1>2, <1>4 DEF Drawn
  <2>4. /\ Scenario /\ Authoritative(resp.zone, resp.name, resp.type)
        /\ resp.question = resp.name \/ "CNAME" \in TypesAt(resp.zone, resp.question)
    BY <1>1, <1>2, <1>4 DEF Drawn
  <2> QED
    BY <2>1, <2>2, <2>3, <2>4, WildcardIsRight
<1>5. WildcardApplies'
  BY <1>1, <1>4 DEF WildcardApplies
<1> QED
  BY <1>1, <1>3, <1>5, ConclusionChecks DEF DeniedIsAbsent, UnsignedHasNoDS

(* The check of a delegation keeps it. *)
LEMMA DelegatingChecks ==
  ASSUME ChecksInv, validateDelegatingResponse, UNCHANGED vars
  PROVE  ChecksInv'
<1>1. resp' = resp /\ resp.form = "delegating" /\ resp # Idle /\ status = "Unknown"
  BY DEF validateDelegatingResponse, Conclusion, Idle
<1>2. Scenario /\ Delegation(resp.zone, resp.name)
  BY <1>1 DEF ChecksInv, Drawn
<1>3. status' \in {"Secure", "Bogus"}
  BY DEF validateDelegatingResponse, Conclusion
<1>4. ASSUME status' = "Secure", ~resp.ds
      PROVE  Unsigned(resp.zone, resp.name)
  <2>1. DelegatingVerdict # "NotFound"
    BY <1>4 DEF validateDelegatingResponse, Conclusion
  <2> QED
    BY <1>2, <2>1, DelegationIsUnsigned
<1>5. UnsignedHasNoDS'
  BY <1>1, <1>4 DEF UnsignedHasNoDS
<1> QED
  BY <1>1, <1>3, <1>5, ConclusionChecks DEF DeniedIsAbsent, WildcardApplies

(* Hence the invariant on the checks always holds. *)
LEMMA ChecksInvariance == VerificationSpec => []ChecksInv
<1>1. Inv /\ ChecksInv /\ [VerificationNext]_verification => ChecksInv'
  <2> SUFFICES ASSUME Inv, ChecksInv, [VerificationNext]_verification
               PROVE  ChecksInv'
    OBVIOUS
  <2>1. CASE Next /\ UNCHANGED <<resp, status, denialOfExistence>>
    BY <2>1, SignaturesChecks
  <2>2. CASE verify
    BY <2>2, VerifyChecks
  <2>3. CASE contents
    BY <2>3, ContentsChecks
  <2>4. CASE validateNegativeResponse /\ UNCHANGED vars
    BY <2>4, NegativeChecks
  <2>5. CASE validatePositiveResponse /\ UNCHANGED vars
    BY <2>5, PositiveChecks
  <2>6. CASE validateDelegatingResponse /\ UNCHANGED vars
    BY <2>6, DelegatingChecks
  <2>7. CASE UNCHANGED verification
    BY <2>7, Zenon DEF verification, vars, ChecksInv, Drawn, Scenario, DeniedIsAbsent, WildcardApplies, UnsignedHasNoDS
  <2> QED
    BY <2>1, <2>2, <2>3, <2>4, <2>5, <2>6, <2>7, SMTT(20) DEF VerificationNext
<1> QED
  BY <1>1, ChecksInit, Invariance, PTL DEF VerificationSpec

(* A genuine response passes the check that is made of it. *)
LEMMA GenuineInvariance == VerificationSpec => []GenuineIsSecure
<1>1. VerificationInit => GenuineIsSecure
  BY DEF VerificationInit, GenuineIsSecure
<1>2. ChecksInv /\ GenuineIsSecure /\ [VerificationNext]_verification => GenuineIsSecure'
  <2> SUFFICES ASSUME ChecksInv, GenuineIsSecure, [VerificationNext]_verification
               PROVE  GenuineIsSecure'
    OBVIOUS
  <2>1. CASE UNCHANGED <<resp, status>>
    BY <2>1 DEF GenuineIsSecure
  <2>2. CASE verify
    <3>1. (status' = status /\ status = "Pending") \/ resp' = Idle \/ UNCHANGED <<resp, status>>
      BY <2>2, ZenonT(30) DEF verify, Check, ChecksInv
    <3> QED
      BY <2>1, <3>1 DEF GenuineIsSecure, Idle
  <2>3. CASE contents
    BY <2>3, Zenon DEF contents, GenuineIsSecure
  <2>4. CASE validateNegativeResponse
    <3>1. resp' = resp /\ resp.form = "negative" /\ resp # Idle /\ status = "Unknown"
      BY <2>4 DEF validateNegativeResponse, Conclusion, Idle
    <3>2. Scenario /\ Authoritative(resp.zone, resp.name, resp.type)
      BY <3>1 DEF ChecksInv, Drawn
    <3>3. Genuine(resp) /\ ~NotHandled(resp) => NegativeVerdict # "NotFound"
      BY <3>1, <3>2, GenuineNegativeOne, GenuineNegative
    <3>4. NegativeVerdict # "NotFound" => status' = "Secure"
      BY <2>4 DEF validateNegativeResponse, Conclusion
    <3> QED
      BY <3>1, <3>3, <3>4 DEF GenuineIsSecure
  <2>5. CASE validatePositiveResponse
    <3>1. resp' = resp /\ resp.form = "positive" /\ resp # Idle /\ status = "Unknown"
      BY <2>5 DEF validatePositiveResponse, Conclusion, Idle
    <3>2. Drawn
      BY <3>1 DEF ChecksInv
    <3>3. CASE resp.wild = <<>>
      BY <2>5, <3>3 DEF validatePositiveResponse, Conclusion, GenuineIsSecure
    <3>4. CASE resp.wild # <<>>
      <4>1. Scenario /\ \E a \in Ancestors(resp.name) :
              resp.type \in TypesAt(resp.zone, Star(a)) /\ resp.wild[1] = Len(a)
        BY <3>1, <3>2, <3>4 DEF Drawn
      <4>2. Genuine(resp) /\ ~NotHandled(resp) => Len(resp.wild) = 1 /\ PositiveVerdict # "NotFound"
        BY <3>1, <3>4, <4>1, GenuinePositive
      <4> DEFINE verdict == PositiveVerdict
      <4>3. IF Len(resp.wild) > 1 THEN Conclusion("Bogus", verdict)
            ELSE Conclusion(IF verdict = "NotFound" THEN "Bogus" ELSE "Secure", verdict)
        BY <2>5, <3>4, Zenon DEF validatePositiveResponse
      <4>4. Genuine(resp) /\ ~NotHandled(resp) => Len(resp.wild) = 1 /\ verdict # "NotFound"
        BY <4>2
      <4> HIDE DEF verdict
      <4>5. ASSUME Genuine(resp), ~NotHandled(resp) PROVE status' = "Secure"
        <5>1. Len(resp.wild) = 1 /\ verdict # "NotFound"
          BY <4>4, <4>5, Zenon
        <5>2. ~(Len(resp.wild) > 1)
          BY <5>1
        <5>3. Conclusion(IF verdict = "NotFound" THEN "Bogus" ELSE "Secure", verdict)
          BY <4>3, <5>2, Zenon
        <5> QED
          BY <5>1, <5>3 DEF Conclusion
      <4> QED
        BY <3>1, <4>5 DEF GenuineIsSecure
    <3> QED
      BY <3>3, <3>4
  <2>6. CASE validateDelegatingResponse
    <3>1. resp' = resp /\ resp.form = "delegating" /\ resp # Idle /\ status = "Unknown"
      BY <2>6 DEF validateDelegatingResponse, Conclusion, Idle
    <3>2. Scenario /\ Authoritative(resp.zone, resp.name, resp.type) /\ Delegation(resp.zone, resp.name)
      BY <3>1 DEF ChecksInv, Drawn
    <3>3. Genuine(resp) /\ ~resp.ds => ~resp.mixed /\ DelegatingVerdict # "NotFound"
      BY <3>1, <3>2, GenuineDelegation
    <3>4. resp.ds \/ (~resp.mixed /\ DelegatingVerdict # "NotFound") => status' = "Secure"
      BY <2>6 DEF validateDelegatingResponse, Conclusion
    <3> QED
      BY <3>1, <3>3, <3>4 DEF GenuineIsSecure
  <2> QED
    BY <2>1, <2>2, <2>3, <2>4, <2>5, <2>6 DEF VerificationNext, verification
<1> QED
  BY <1>1, <1>2, ChecksInvariance, PTL DEF VerificationSpec

-----------------------------------------------------------------------------

(* PerformClosestEncloserProof: for all zones, hashes without collisions    *)
(* and subsets of the chain, the encloser found is the closest one.         *)
THEOREM ClosestEnclosers == VerificationSpec => []EncloserIsClosest
BY ChecksInvariance, ChecksMeanClosest, PTL

(* validateNegativeResponse: for all zones and subsets of the chain, what   *)
(* is denied is not there (as DeniedIsAbsent qualifies it).                 *)
THEOREM DenialsAreTrue == VerificationSpec => []DeniedIsAbsent
<1>1. ChecksInv => DeniedIsAbsent
  BY DEF ChecksInv
<1> QED
  BY <1>1, ChecksInvariance, PTL

(* validatePositiveResponse: for all zones and subsets of the chain, a      *)
(* wildcard is accepted only for a name it applies to.                      *)
THEOREM WildcardsApply == VerificationSpec => []WildcardApplies
<1>1. ChecksInv => WildcardApplies
  BY DEF ChecksInv
<1> QED
  BY <1>1, ChecksInvariance, PTL

(* validateDelegatingResponse: for all zones and subsets of the chain, a    *)
(* delegation taken to be unsigned has no DS record.                        *)
THEOREM UnsignedDelegations == VerificationSpec => []UnsignedHasNoDS
<1>1. ChecksInv => UnsignedHasNoDS
  BY DEF ChecksInv
<1> QED
  BY <1>1, ChecksInvariance, PTL

(* The three checks: for all zones without collisions of hashes, all names  *)
(* and all ways to sign, a response that says what the zone says, with the  *)
(* records that prove it, is not rejected (but for NotHandled, with NSEC).  *)
THEOREM GenuineAccepted == VerificationSpec => []GenuineIsSecure
BY GenuineInvariance, PTL
=============================================================================
