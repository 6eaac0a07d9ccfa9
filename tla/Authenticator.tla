---------------------------- MODULE Authenticator ----------------------------
(***************************************************************************)
(* The DNSSEC authenticator of one question (dnssec/authenticator.go and   *)
(* dnssec/result.go), with verify (dnssec/verify.go) and what auth.go does *)
(* with the errors.  Inputs arrive in any order; they are buffered by the  *)
(* label count of their zone and processed from the root down, as far as   *)
(* there is no gap; Result processes the rest and judges the chain.        *)
(*                                                                         *)
(* A zone is an ancestor of the name in question, so its label count tells *)
(* which.  Of a message an input keeps what verify tells apart:            *)
(*   zone     label count of the zone that was asked                       *)
(*   signer   that of the signer of its first RRSIG, NoName without any    *)
(*   keys     what the zone's DNSKEYs are good for under the parent's DS:  *)
(*            "ok", "none" match, or they are "bad": not to be had, or not *)
(*            signed by one that matches                                   *)
(*   signed   every RRset has a signature that verifies                    *)
(*   kind     "delegation", "positive", "negative", or "odd" for neither   *)
(*   ds       the owner of the DS records in it, or NoName                 *)
(*   doe      the denial of existence its NSEC or NSEC3 records prove      *)
(*   asks     the name a query for DS records was about, or NoName         *)
(*   answers  it holds the record, or a CNAME, the question is about       *)
(*                                                                         *)
(* A response of a zone that is not an ancestor, which an exchange that    *)
(* was misled hands over, is refused, as is one to a question about such a *)
(* name: those are counted only.  A signer that is no ancestor has the     *)
(* effect of MissingDSRecordError.                                         *)
(***************************************************************************)
EXTENDS Integers, Sequences, FiniteSets, FiniteSetsExt

CONSTANTS
  Labels,       \* label count of the name in question
  InputSets,    \* the sets of inputs an exchange may hand over
  StrayCounts   \* how many it may hand over that are off the way to the name

NoName == -1

(* The states of const.go, those for NSEC and for NSEC3 taken together. *)
DOE == {"NotFound", "MissingDS", "NoData", "NxDomain", "OptOut", "Wildcard"}

(* What the records of a message may amount to: a wildcard may also have     *)
(* been expanded without the proof it needs.                                 *)
Proofs == DOE \cup {"WildcardUnproven"}

(* A referral, and a response that is none of the kinds, has no answer section. *)
Inputs ==
  {in \in [zone : 0..Labels, signer : NoName..Labels, keys : {"ok", "none", "bad"},
           signed : BOOLEAN, kind : {"delegation", "positive", "negative", "odd"},
           ds : NoName..Labels, doe : Proofs, asks : NoName..Labels, answers : BOOLEAN] :
     in.answers => in.kind \in {"positive", "negative"}}

ASSUME AuthenticatorAssumption ==
  /\ Labels \in Nat
  /\ \A S \in InputSets : S \subseteq Inputs
  /\ StrayCounts \subseteq Nat

VARIABLES
  inputs,    \* all that the exchange hands over, of zones above the name
  strays,    \* the number of others it hands over
  pending,   \* the inputs that have not arrived yet
  refused,   \* the number of strays that have
  buffer,    \* inputBuffer: an input sits at the index of its zone
  idx,       \* inputBufferIdx
  results,
  errors,    \* len(a.errors) of auth.go
  pc,
  out        \* what result returns

vars == <<inputs, strays, pending, refused, buffer, idx, results, errors, pc, out>>

Init ==
  /\ inputs \in InputSets
  /\ strays \in StrayCounts
  /\ pending = inputs
  /\ refused = 0
  /\ buffer = {}
  /\ idx = 0
  /\ results = <<>>
  /\ errors = 0
  /\ pc = "receive"
  /\ out = "none"

-----------------------------------------------------------------------------
(* verify *)

Verified(state, doe, ds) == [state |-> state, doe |-> doe, ds |-> ds]

(* Seeded bug: a referral without DS records needs no proof. *)
validateDelegatingResponseLax(in) ==
  Verified("Secure", IF in.ds # NoName THEN "NotFound" ELSE "MissingDS", in.ds)

validateDelegatingResponse(in) ==
  IF in.ds # NoName
  THEN Verified("Secure", "NotFound", in.ds)
  ELSE IF in.doe \in {"MissingDS", "OptOut"}
       THEN Verified("Secure", in.doe, NoName)
       ELSE Verified("Bogus", "NotFound", NoName)

(* An expanded wildcard needs a proof. *)
validatePositiveResponse(in) ==
  IF in.doe = "WildcardUnproven" THEN Verified("Bogus", "NotFound", in.ds)
  ELSE IF in.doe = "Wildcard" THEN Verified("Secure", "Wildcard", in.ds)
  ELSE Verified("Secure", "NotFound", in.ds)

(* An opt-out counts only if the question was for DS records. *)
validateNegativeResponse(in) ==
  IF in.doe \in {"NoData", "NxDomain"} \/ (in.doe = "OptOut" /\ in.asks # NoName)
  THEN Verified("Secure", in.doe, NoName)
  ELSE Verified("Bogus", "NotFound", NoName)

(* Seeded bug: who signed matters, whether the signatures verify does not. *)
verifyRRSETsLax(in) == in.signer = in.zone

(* Signatures that are missing, or by another zone, do not verify. *)
verifyRRSETs(in) == in.signed /\ in.signer = in.zone

verify(in, ds) ==
  IF ds = NoName THEN Verified("Insecure", "NotFound", NoName)
  ELSE IF in.keys = "none" THEN Verified("Insecure", "NotFound", NoName)
  ELSE IF in.keys = "bad" \/ ~verifyRRSETs(in) THEN Verified("Bogus", "NotFound", NoName)
  ELSE IF in.kind = "delegation" THEN validateDelegatingResponse(in)
  ELSE IF in.kind = "positive" THEN validatePositiveResponse(in)
  ELSE IF in.kind = "negative" THEN validateNegativeResponse(in)
  ELSE Verified("Bogus", "NotFound", NoName)

-----------------------------------------------------------------------------
(* processResponse *)

(* The owner of the DS records the next zone is to be checked against: the   *)
(* trust anchors' is the root.                                               *)
lastDS == IF results = <<>> THEN 0 ELSE results[Len(results)].v.ds

(* A response signed by another zone than the one the DS records are for. *)
MissingDSRecordError(in, ds) == in.signer # NoName /\ ds # NoName /\ in.signer # ds

At(i) == CHOOSE in \in buffer : in.zone = i

Occupied(i) == \E in \in buffer : in.zone = i

(* The input at idx is verified and its result kept. *)
processResponse ==
  /\ ~MissingDSRecordError(At(idx), lastDS)
  /\ results' = Append(results, [in |-> At(idx), v |-> verify(At(idx), lastDS)])
  /\ idx' = idx + 1

-----------------------------------------------------------------------------
(* AddResponse: an input of a zone that is not above the name is refused,    *)
(* any other is put in its place, then the loop runs.                        *)

RefuseResponse ==
  /\ pc = "receive"
  /\ refused < strays
  /\ refused' = refused + 1
  /\ errors' = errors + 1
  /\ UNCHANGED <<inputs, strays, pending, buffer, idx, results, pc, out>>

AddResponse(in) ==
  /\ pc = "receive"
  /\ in \in pending
  /\ pending' = pending \ {in}
  /\ \/ /\ Occupied(in.zone)
        /\ errors' = errors + 1
        /\ UNCHANGED <<buffer, pc>>
     \/ /\ ~Occupied(in.zone)
        /\ buffer' = buffer \cup {in}
        /\ pc' = "process"
        /\ UNCHANGED errors
  /\ UNCHANGED <<inputs, strays, refused, idx, results, out>>

(* Seeded bug: the loop steps over a gap instead of waiting for the input. *)
processNextSkips ==
  /\ pc = "process"
  /\ \/ /\ idx > Labels
        /\ pc' = "receive"
        /\ UNCHANGED <<idx, results, errors>>
     \/ /\ idx <= Labels /\ ~Occupied(idx)
        /\ idx' = idx + 1
        /\ UNCHANGED <<pc, results, errors>>
     \/ /\ idx <= Labels /\ Occupied(idx)
        /\ processResponse
        /\ UNCHANGED <<pc, errors>>
  /\ UNCHANGED <<inputs, strays, pending, refused, buffer, out>>

(* One turn of the loop.  After an error idx stays, and the same input is    *)
(* tried again when the next one arrives.                                    *)
processNext ==
  /\ pc = "process"
  /\ \/ /\ idx > Labels \/ ~Occupied(idx)
        /\ pc' = "receive"
        /\ UNCHANGED <<idx, results, errors>>
     \/ /\ idx <= Labels /\ Occupied(idx)
        /\ processResponse
        /\ UNCHANGED <<pc, errors>>
     \/ /\ idx <= Labels /\ Occupied(idx)
        /\ MissingDSRecordError(At(idx), lastDS)
        /\ errors' = errors + 1
        /\ pc' = "receive"
        /\ UNCHANGED <<idx, results>>
  /\ UNCHANGED <<inputs, strays, pending, refused, buffer, out>>

-----------------------------------------------------------------------------
(* Result *)

State(i) == results[i].v.state
Doe(i) == results[i].v.doe

FirstNotSecure == Min({i \in 1..Len(results) : State(i) # "Secure"})

(* The step from a secure zone to one that is not: the zone above must prove *)
(* that there are no DS records for it.                                      *)
InsecureFrom(i) ==
  IF i = 1 THEN State(i)
  ELSE IF \/ Doe(i - 1) \in {"OptOut", "MissingDS"}
          \/ /\ Doe(i - 1) = "NoData"
             /\ results[i - 1].in.asks = results[i].in.zone
       THEN "Insecure"
       ELSE "Bogus"

(* All are secure: the last one has to answer the question, or deny it. *)
LastResult ==
  LET in  == results[Len(results)].in
      doe == Doe(Len(results))
  IN  IF doe = "OptOut" THEN "Insecure"
      ELSE IF doe \in {"NxDomain", "NoData"} THEN "Secure"
      ELSE IF doe = "MissingDS" THEN "Bogus"
      ELSE IF in.kind # "negative" /\ in.answers THEN "Secure"
      ELSE "Bogus"

Judge ==
  IF results = <<>> THEN "Unknown"
  ELSE IF \E i \in 1..Len(results) : State(i) = "Bogus" THEN "Bogus"
  ELSE IF \E i \in 1..Len(results) : State(i) # "Secure" THEN InsecureFrom(FirstNotSecure)
  ELSE LastResult

(* result of auth.go: a single error is returned, several are forgotten. *)
result ==
  /\ pc = "receive"
  /\ pending = {} /\ refused = strays
  /\ \/ /\ errors = 1
        /\ out' = "Unknown"
        /\ pc' = "over"
     \/ /\ errors # 1
        /\ pc' = "final"
        /\ UNCHANGED out
  /\ UNCHANGED <<inputs, strays, pending, refused, buffer, idx, results, errors>>

(* One turn of the loop in Result, which steps over the gaps. *)
Result ==
  /\ pc = "final"
  /\ \/ /\ idx > Labels
        /\ out' = Judge
        /\ pc' = "over"
        /\ UNCHANGED <<idx, results>>
     \/ /\ idx <= Labels /\ ~Occupied(idx)
        /\ idx' = idx + 1
        /\ UNCHANGED <<results, pc, out>>
     \/ /\ idx <= Labels /\ Occupied(idx)
        /\ processResponse
        /\ UNCHANGED <<pc, out>>
     \/ /\ idx <= Labels /\ Occupied(idx)
        /\ MissingDSRecordError(At(idx), lastDS)
        /\ out' = "Unknown"
        /\ pc' = "over"
        /\ UNCHANGED <<idx, results>>
  /\ UNCHANGED <<inputs, strays, pending, refused, buffer, errors>>

Next ==
  \/ \E in \in pending : AddResponse(in)
  \/ RefuseResponse
  \/ processNext
  \/ result
  \/ Result

Spec == Init /\ [][Next]_vars

-----------------------------------------------------------------------------
(* Properties *)

(* The buffer index stays within the buffer, whose length is the label count *)
(* and one (NewAuth): no access in AddResponse or Result is out of range.    *)
TypeOK ==
  /\ inputs \subseteq Inputs
  /\ pending \subseteq inputs
  /\ buffer \subseteq inputs
  /\ idx \in 0..(Labels + 1)
  /\ results \in Seq([in : Inputs, v : [state : {"Secure", "Insecure", "Bogus"},
                                      doe : DOE, ds : NoName..Labels]])
  /\ strays \in Nat /\ refused \in 0..strays /\ errors \in Nat
  /\ pc \in {"receive", "process", "final", "over"}
  /\ out \in {"none", "Unknown", "Secure", "Insecure", "Bogus"}

(* One response per zone, as the exchange hands them over. *)
Unique == \A i, j \in inputs : i.zone = j.zone => i = j

Above(in) == {j \in inputs : j.zone < in.zone}
Parent(in) == CHOOSE j \in Above(in) : \A k \in Above(in) : k.zone <= j.zone
Lowest == CHOOSE in \in inputs : \A j \in inputs : j.zone <= in.zone

(* The owner of the DS records that vouch for an input in the whole chain.   *)
DSFor[in \in inputs] ==
  IF Above(in) = {} THEN 0 ELSE verify(Parent(in), DSFor[Parent(in)]).ds

StateOf(in) == verify(in, DSFor[in]).state
DoeOf(in) == verify(in, DSFor[in]).doe

(* The zone above an input proves that it has no DS records. *)
ProvenInsecure(in) ==
  LET p == Parent(in)
  IN  \/ DoeOf(p) \in {"MissingDS", "OptOut"}
      \/ DoeOf(p) = "NoData" /\ p.asks = in.zone

(* The verdict on the inputs as a set, with no order of arrival. *)
Verdict ==
  IF inputs = {} \/ \E in \in inputs : MissingDSRecordError(in, DSFor[in]) THEN "Unknown"
  ELSE IF \E in \in inputs : StateOf(in) = "Bogus" THEN "Bogus"
  ELSE IF \E in \in inputs : StateOf(in) = "Insecure"
  THEN LET first == CHOOSE in \in inputs :
                      /\ StateOf(in) = "Insecure"
                      /\ \A j \in Above(in) : StateOf(j) = "Secure"
       IN  IF Above(first) = {} \/ ProvenInsecure(first) THEN "Insecure" ELSE "Bogus"
  ELSE IF DoeOf(Lowest) = "OptOut" THEN "Insecure"
  ELSE IF \/ DoeOf(Lowest) \in {"NoData", "NxDomain"}
          \/ DoeOf(Lowest) # "MissingDS" /\ Lowest.answers THEN "Secure"
  ELSE "Bogus"

(* "Responses can be passed in [any] order and will be buffered"             *)
(* (authenticator.go:38): the outcome depends on the responses alone, also   *)
(* when an input was processed with an error, once or several times, or      *)
(* others were refused.  A single refusal is the outcome itself; several are *)
(* forgotten, as if nothing had been refused (auth.go:101-109).              *)
OrderIndependent ==
  pc = "over" /\ Unique => out = IF strays = 1 THEN "Unknown" ELSE Verdict

(* An input that is authentic and vouched for by the DS records above it. *)
Authentic(in) ==
  /\ in.keys = "ok" /\ in.signed /\ in.signer = in.zone
  /\ IF Above(in) = {} THEN in.zone = 0 ELSE Parent(in).ds = in.zone

(* A Secure verdict means an unbroken chain: it starts at the root, every    *)
(* response is authentic under the DS records of the one above, and the last *)
(* one answers the question or proves there is no answer (result.go).        *)
SecureMeansChain ==
  pc = "over" /\ Unique /\ out = "Secure" =>
    /\ inputs # {}
    /\ \A in \in inputs : Authentic(in)
    /\ \/ Lowest.kind = "positive" /\ Lowest.answers
       \/ Lowest.kind = "negative" /\ Lowest.doe \in {"NoData", "NxDomain"}

(* An Insecure verdict is never the mere absence of signatures: some zone    *)
(* whose chain is unbroken proves that the one below it has no DS records,   *)
(* or the first zone of the chain, of which nothing is known but the trust   *)
(* anchors, has no key they vouch for (result.go:46, i == 0).                *)
InsecureMeansProof ==
  pc = "over" /\ Unique /\ out = "Insecure" =>
    \E in \in inputs :
      /\ \A j \in Above(in) : Authentic(j)
      /\ \/ Above(in) = {} /\ in.keys = "none"
         \/ Authentic(in) /\ in.doe \in {"MissingDS", "OptOut"}
         \/ /\ Authentic(in) /\ in.doe = "NoData"
            /\ \E j \in inputs : in \in Above(j) /\ Parent(j) = in /\ in.asks = j.zone
=============================================================================
