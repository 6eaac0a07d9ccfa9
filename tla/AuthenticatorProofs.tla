------------------------ MODULE AuthenticatorProofs ------------------------
(***************************************************************************)
(* The authenticator's verdict, for any inputs over any number of labels,  *)
(* in whatever order they arrive.                                          *)
(*                                                                         *)
(* What is inductive is ChainInv: the results so far are those of the      *)
(* inputs above idx, from the root down, each verified against the DS      *)
(* records the whole chain has for it.  While inputs still arrive there    *)
(* is no gap above idx, and in Result nothing can arrive any more: either  *)
(* way the last result is that of the parent of the input at idx.          *)
(***************************************************************************)
EXTENDS Authenticator, TLAPS, SequenceTheorems, WellFoundedInduction

-----------------------------------------------------------------------------
(* verify *)

Outcomes == [state : {"Secure", "Insecure", "Bogus"}, doe : DOE, ds : NoName..Labels]

(* What verify returns.                                                      *)
LEMMA VerifyType ==
  ASSUME NEW in \in Inputs, NEW ds
  PROVE  verify(in, ds) \in Outcomes /\ verify(in, ds).ds \in {NoName, in.ds}
<1>1. NoName \in NoName..Labels /\ in.ds \in NoName..Labels /\ in.doe \in Proofs
  BY AuthenticatorAssumption DEF Inputs, NoName
<1>2. \A st \in {"Secure", "Insecure", "Bogus"}, doe \in DOE, d \in {NoName, in.ds} :
        Verified(st, doe, d) \in Outcomes /\ Verified(st, doe, d).ds \in {NoName, in.ds}
  BY <1>1 DEF Verified, Outcomes
<1>3. \E st \in {"Secure", "Insecure", "Bogus"}, doe \in DOE, d \in {NoName, in.ds} :
        verify(in, ds) = Verified(st, doe, d)
  BY DEF verify, validateDelegatingResponse, validatePositiveResponse, validateNegativeResponse, DOE
<1> QED
  BY <1>2, <1>3

(* Without DS records there is no security and nothing to pass on; which     *)
(* zone they are for makes no difference to verify.                          *)
LEMMA VerifyUnder ==
  ASSUME NEW in, NEW ds
  PROVE  /\ ds = NoName => verify(in, ds).ds = NoName /\ verify(in, ds).state = "Insecure"
         /\ ds # NoName => verify(in, ds) = verify(in, 0)
BY DEF verify, Verified, NoName

(* What makes an input secure, and what its denial of existence tells.       *)
LEMMA VerifySecure ==
  ASSUME NEW in \in Inputs, NEW ds, verify(in, ds).state = "Secure"
  PROVE  /\ ds # NoName /\ in.keys = "ok" /\ in.signed /\ in.signer = in.zone
         /\ in.kind \in {"delegation", "positive", "negative"}
         /\ in.kind = "negative" => verify(in, ds).doe \in {"NoData", "NxDomain", "OptOut"}
         /\ verify(in, ds).doe \in {"NoData", "NxDomain"} => in.kind = "negative" /\ in.doe = verify(in, ds).doe
         /\ verify(in, ds).doe \in {"MissingDS", "OptOut"} => in.doe = verify(in, ds).doe
BY DEF verify, verifyRRSETs, validateDelegatingResponse, validatePositiveResponse,
       validateNegativeResponse, Verified, Inputs

(* With DS records only keys that do not match make an input insecure.       *)
LEMMA VerifyInsecure ==
  ASSUME NEW in, NEW ds, ds # NoName, verify(in, ds).state = "Insecure"
  PROVE  in.keys = "none"
BY DEF verify, validateDelegatingResponse, validatePositiveResponse, validateNegativeResponse, Verified

-----------------------------------------------------------------------------
(* The chain as a whole *)

(* The greatest of a set of numbers that has a bound.                        *)
LEMMA GreatestOf ==
  ASSUME NEW S \in SUBSET (0..Labels), S # {}
  PROVE  \E x \in S : \A y \in S : y <= x
<1> DEFINE R == {p \in Nat \X Nat : p[1] < p[2]}
<1> DEFINE T == {Labels - x : x \in S}
<1>1. IsWellFoundedOn(R, Nat)
  BY NatLessThanWellFounded, Zenon DEF OpToRel
<1>2. T \subseteq Nat /\ T # {}
  <2>1. \A x \in S : Labels - x \in Nat
    BY AuthenticatorAssumption
  <2>2. PICK x \in S : TRUE
    BY Zenon
  <2> QED
    BY <2>1, <2>2
<1>3. PICK t \in T : \A u \in T : <<u, t>> \notin R
  <2> HIDE DEF R, T
  <2> QED BY <1>1, <1>2, WFMin, Zenon
<1>4. PICK x \in S : t = Labels - x
  OBVIOUS
<1>5. ASSUME NEW y \in S PROVE y <= x
  <2>1. Labels - y \in T /\ Labels - y \in Nat /\ t \in Nat
    BY <1>2
  <2>2. ~(Labels - y < t)
    BY <1>3, <2>1, Zenon
  <2> QED
    BY <1>4, <2>1, <2>2, AuthenticatorAssumption
<1> QED
  BY <1>5

(* The least of a set of numbers, the one that Min chooses.                  *)
LEMMA LeastOf ==
  ASSUME NEW S \in SUBSET Nat, S # {}
  PROVE  Min(S) \in S /\ \A y \in S : Min(S) <= y
<1> DEFINE R == {p \in Nat \X Nat : p[1] < p[2]}
<1>1. IsWellFoundedOn(R, Nat)
  BY NatLessThanWellFounded, Zenon DEF OpToRel
<1>2. PICK x \in S : \A y \in S : <<y, x>> \notin R
  <2> HIDE DEF R
  <2> QED BY <1>1, WFMin, Zenon
<1>3. ASSUME NEW y \in S PROVE x <= y
  <2>1. <<y, x>> \in Nat \X Nat /\ ~(y < x)
    BY <1>2
  <2> QED
    BY <2>1
<1> QED
  BY <1>3, Zenon DEF Min

(* The parent of an input is the only lowest one above it.                   *)
LEMMA ParentIs ==
  ASSUME inputs \subseteq Inputs, Unique, NEW in \in inputs, Above(in) # {}
  PROVE  /\ Parent(in) \in Above(in) /\ \A k \in Above(in) : k.zone <= Parent(in).zone
         /\ \A p \in Above(in) : (\A k \in Above(in) : k.zone <= p.zone) => p = Parent(in)
<1> DEFINE S == {k.zone : k \in Above(in)}
<1>1. \A k \in inputs : k.zone \in 0..Labels
  BY DEF Inputs
<1>2. S \in SUBSET (0..Labels) /\ S # {}
  BY <1>1 DEF Above
<1>3. PICK z \in S : \A y \in S : y <= z
  <2> HIDE DEF S
  <2> QED BY <1>2, GreatestOf
<1>4. \E p \in Above(in) : \A k \in Above(in) : k.zone <= p.zone
  BY <1>3
<1>5. Parent(in) \in Above(in) /\ \A k \in Above(in) : k.zone <= Parent(in).zone
  BY <1>4 DEF Parent
<1>6. ASSUME NEW p \in Above(in), \A k \in Above(in) : k.zone <= p.zone
      PROVE  p = Parent(in)
  <2>1. p \in inputs /\ Parent(in) \in inputs /\ p.zone <= Parent(in).zone /\ Parent(in).zone <= p.zone
    BY <1>5, <1>6 DEF Above
  <2>2. p.zone = Parent(in).zone
    BY <1>1, <2>1
  <2> QED
    BY <2>1, <2>2 DEF Unique
<1> QED
  BY <1>5, <1>6

(* What is above the parent is above the input, and nothing else is but the  *)
(* parent.                                                                   *)
LEMMA AboveParent ==
  ASSUME inputs \subseteq Inputs, Unique, NEW in \in inputs, Above(in) # {}
  PROVE  Above(in) = Above(Parent(in)) \cup {Parent(in)}
<1>1. \A k \in inputs : k.zone \in Int
  BY DEF Inputs
<1>2. Parent(in) \in Above(in) /\ \A k \in Above(in) : k.zone <= Parent(in).zone
  BY ParentIs
<1>3. ASSUME NEW k \in Above(in), k # Parent(in) PROVE k \in Above(Parent(in))
  <2>1. k \in inputs /\ Parent(in) \in inputs /\ k.zone <= Parent(in).zone
    BY <1>2 DEF Above
  <2>2. k.zone # Parent(in).zone
    BY <1>3, <2>1 DEF Unique
  <2> QED
    BY <1>1, <2>1, <2>2 DEF Above
<1>4. ASSUME NEW k \in Above(Parent(in)) PROVE k \in Above(in)
  BY <1>1, <1>2 DEF Above
<1> QED
  BY <1>2, <1>3, <1>4

(* DSFor is what its definition says.  That such a function exists is shown  *)
(* without recursion: the DS records reach an input if every one above it    *)
(* passes some on.                                                           *)
LEMMA DSForIs ==
  ASSUME inputs \subseteq Inputs, Unique
  PROVE  \A in \in inputs :
           DSFor[in] = IF Above(in) = {} THEN 0 ELSE verify(Parent(in), DSFor[Parent(in)]).ds
<1> DEFINE Eq(f) == f = [in \in inputs |->
                          IF Above(in) = {} THEN 0 ELSE verify(Parent(in), f[Parent(in)]).ds]
<1> DEFINE Gives(j) == verify(j, 0).ds
<1> DEFINE F == [in \in inputs |->
                  IF Above(in) = {} THEN 0
                  ELSE IF \E j \in Above(in) : Gives(j) = NoName THEN NoName
                  ELSE Gives(Parent(in))]
<1>1. ASSUME NEW in \in inputs
      PROVE  F[in] = IF Above(in) = {} THEN 0 ELSE verify(Parent(in), F[Parent(in)]).ds
  <2>1. CASE Above(in) = {}
    BY <2>1
  <2>2. CASE Above(in) # {}
    <3> DEFINE p == Parent(in)
    <3>1. p \in inputs /\ p \in Above(in) /\ Above(in) = Above(p) \cup {p}
      BY <2>2, ParentIs, AboveParent DEF Above
    <3>2. Above(p) # {} => Parent(p) \in Above(p)
      BY <3>1, ParentIs
    <3>3. 0 # NoName
      BY DEF NoName
    <3>4. F[p] = NoName <=> \E j \in Above(p) : Gives(j) = NoName
      <4> HIDE DEF Gives, p
      <4> QED BY <3>1, <3>2, <3>3
    <3>5. verify(p, F[p]).ds = IF F[p] = NoName THEN NoName ELSE Gives(p)
      <4> HIDE DEF F, p
      <4> QED BY VerifyUnder
    <3>6. F[in] = IF \E j \in Above(in) : Gives(j) = NoName THEN NoName ELSE Gives(p)
      <4> HIDE DEF Gives
      <4> QED BY <2>2
    <3>7. F[in] = verify(p, F[p]).ds
      <4> HIDE DEF F, Gives, p
      <4> QED BY <3>1, <3>4, <3>5, <3>6
    <3> QED
      <4> HIDE DEF F
      <4> QED BY <2>2, <3>7
  <2> QED
    BY <2>1, <2>2
<1>2. Eq(F)
  <2>1. F = [in \in inputs |-> F[in]]
    OBVIOUS
  <2> HIDE DEF F
  <2> QED BY <1>1, <2>1
<1>3. Eq(DSFor)
  <2>1. \E f : Eq(f)
    BY <1>2, Zenon
  <2>2. DSFor = CHOOSE f : Eq(f)
    BY DEF DSFor
  <2> HIDE DEF Eq
  <2> QED BY <2>1, <2>2, Zenon
<1> QED
  BY <1>3

-----------------------------------------------------------------------------
(* The invariant *)

ResultType == [in : Inputs, v : Outcomes]

(* The results, of distinct zones from the root down. *)
ResultsInv ==
  /\ \A i \in 1..Len(results) :
       LET in == results[i].in
       IN  /\ in \in buffer /\ in.zone < idx
           /\ ~MissingDSRecordError(in, DSFor[in])
           /\ results[i].v = verify(in, DSFor[in])
  /\ \A in \in buffer : in.zone < idx => \E i \in 1..Len(results) : results[i].in = in
  /\ \A i, j \in 1..Len(results) : i < j => results[i].in.zone < results[j].in.zone

(* Nothing is lost, and nothing above idx is still to come.                  *)
ArrivalInv ==
  /\ buffer = inputs \ pending
  /\ pc \in {"receive", "process"} => \A k \in 0..(idx - 1) : Occupied(k)
  /\ pc \in {"final", "over"} => pending = {}

(* Errors are refusals or those of the chain as a whole, which Result finds  *)
(* again.                                                                    *)
ErrorsInv ==
  /\ refused <= errors
  /\ errors > refused => \E in \in inputs : MissingDSRecordError(in, DSFor[in])
  /\ pc \in {"final", "over"} => refused = strays
  /\ pc = "final" => errors # 1
  /\ pc = "over" => out = IF strays = 1 THEN "Unknown" ELSE Verdict

ChainInv == Unique => ResultsInv /\ ArrivalInv /\ ErrorsInv

(* The set of inputs is settled, and all that depends on it alone.           *)
LEMMA Settled ==
  ASSUME inputs' = inputs
  PROVE  /\ DSFor' = DSFor /\ Unique' = Unique /\ Verdict' = Verdict
<1>1. \A in : Above(in)' = Above(in)
  BY DEF Above
<1>2. \A in : Parent(in)' = Parent(in)
  BY <1>1 DEF Parent
<1>3. DSFor' = DSFor
  BY <1>1, <1>2 DEF DSFor, Above, Parent
<1>4. Lowest' = Lowest
  BY DEF Lowest
<1>5. \A in : StateOf(in)' = StateOf(in) /\ DoeOf(in)' = DoeOf(in)
  BY <1>3 DEF StateOf, DoeOf
<1>6. \A in : ProvenInsecure(in)' = ProvenInsecure(in)
  BY <1>2, <1>5 DEF ProvenInsecure
<1> QED
  BY <1>1, <1>3, <1>4, <1>5, <1>6, Zenon DEF Unique, Verdict

(* Where the input at idx is to be processed, the last result is that of its *)
(* parent: it meets the DS records that the chain as a whole has for it.     *)
LEMMA LastDSIs ==
  ASSUME TypeOK, Unique, ResultsInv, ArrivalInv, pc \in {"process", "final"},
         idx <= Labels, Occupied(idx)
  PROVE  /\ At(idx) \in buffer /\ At(idx) \in inputs /\ At(idx).zone = idx
         /\ lastDS = DSFor[At(idx)]
<1> DEFINE in == At(idx)
<1> DEFINE N == Len(results)
<1>1. in \in buffer /\ in \in inputs /\ in.zone = idx
  BY DEF At, Occupied, TypeOK
<1>2. \A j \in inputs : j.zone \in 0..Labels
  BY DEF TypeOK, Inputs
<1>3. N \in Nat /\ (results = <<>> <=> N = 0)
  BY EmptySeq, LenProperties DEF TypeOK
<1>4. ASSUME NEW k \in Above(in) PROVE \E i \in 1..N : results[i].in = k
  <2>1. k \in inputs /\ k.zone < idx /\ k.zone \in 0..Labels
    BY <1>1, <1>2 DEF Above
  <2>2. k \in buffer
    <3>1. CASE pc = "final"
      BY <2>1, <3>1 DEF ArrivalInv
    <3>2. CASE pc = "process"
      <4>1. Occupied(k.zone)
        BY <2>1, <3>2 DEF ArrivalInv, TypeOK
      <4>2. PICK b \in buffer : b.zone = k.zone
        BY <4>1 DEF Occupied
      <4> QED
        BY <2>1, <4>2 DEF Unique, TypeOK
    <3> QED
      BY <3>1, <3>2
  <2> QED
    BY <2>1, <2>2 DEF ResultsInv
<1>5. CASE N = 0
  <2>1. Above(in) = {}
    BY <1>4, <1>5
  <2>2. DSFor[in] = 0
    BY <1>1, <2>1, DSForIs DEF TypeOK
  <2> QED
    BY <1>1, <1>3, <1>5, <2>2 DEF lastDS
<1>6. CASE N # 0
  <2> DEFINE r == results[N].in
  <2>1. N \in 1..N
    BY <1>3, <1>6
  <2>2. /\ r \in buffer /\ r.zone < idx
        /\ results[N].v = verify(r, DSFor[r])
    BY <2>1 DEF ResultsInv
  <2>3. r \in Above(in)
    BY <1>1, <2>2 DEF Above, TypeOK
  <2>4. ASSUME NEW k \in Above(in) PROVE k.zone <= r.zone
    <3>1. PICK i \in 1..N : results[i].in = k
      BY <1>4
    <3>2. i = N \/ i < N
      BY <1>3
    <3>3. k.zone \in Int /\ r.zone \in Int
      BY <1>2, <2>3 DEF Above
    <3> QED
      BY <2>1, <3>1, <3>2, <3>3 DEF ResultsInv
  <2>5. r = Parent(in)
    BY <1>1, <2>3, <2>4, ParentIs DEF TypeOK
  <2>6. DSFor[in] = verify(r, DSFor[r]).ds
    BY <1>1, <2>3, <2>5, DSForIs DEF TypeOK
  <2> QED
    BY <1>1, <1>3, <1>6, <2>2, <2>6 DEF lastDS
<1> QED
  BY <1>1, <1>3, <1>5, <1>6

-----------------------------------------------------------------------------
(* The types *)

(* Min of the results that are not secure is one of them, and the first.     *)
LEMMA FirstNotSecureIs ==
  ASSUME TypeOK, NEW k \in 1..Len(results), State(k) # "Secure"
  PROVE  /\ FirstNotSecure \in 1..Len(results) /\ State(FirstNotSecure) # "Secure"
         /\ \A i \in 1..Len(results) : State(i) # "Secure" => FirstNotSecure <= i
<1> DEFINE S == {i \in 1..Len(results) : State(i) # "Secure"}
<1>1. S \in SUBSET Nat /\ S # {}
  <2>1. k \in S
    OBVIOUS
  <2> QED BY <2>1
<1>2. Min(S) \in S /\ \A y \in S : Min(S) <= y
  <2> HIDE DEF S
  <2> QED BY <1>1, LeastOf
<1>3. FirstNotSecure = Min(S)
  BY DEF FirstNotSecure
<1> QED
  BY <1>2, <1>3

(* Each result has one of the three states.                                  *)
LEMMA ResultTypes ==
  ASSUME TypeOK
  PROVE  /\ Len(results) \in Nat /\ (results = <<>> <=> Len(results) = 0)
         /\ \A i \in 1..Len(results) :
              /\ results[i].in \in Inputs /\ State(i) \in {"Secure", "Insecure", "Bogus"}
              /\ Doe(i) \in DOE
<1> DEFINE T == [in : Inputs, v : [state : {"Secure", "Insecure", "Bogus"},
                                  doe : DOE, ds : NoName..Labels]]
<1>1. results \in Seq(T)
  BY DEF TypeOK
<1>2. ASSUME NEW i \in 1..Len(results) PROVE results[i] \in T
  <2> HIDE DEF T
  <2> QED BY <1>1, ElementOfSeq
<1>3. Len(results) \in Nat /\ (results = <<>> <=> Len(results) = 0)
  <2> HIDE DEF T
  <2> QED BY <1>1, EmptySeq, LenProperties
<1> QED
  BY <1>2, <1>3 DEF State, Doe

(* What Result may return.                                                   *)
LEMMA JudgeType ==
  ASSUME TypeOK
  PROVE  Judge \in {"Unknown", "Secure", "Insecure", "Bogus"}
<1>1. ASSUME NEW i \in 1..Len(results) PROVE InsecureFrom(i) \in {"Secure", "Insecure", "Bogus"}
  BY <1>1, ResultTypes DEF InsecureFrom
<1>2. LastResult \in {"Secure", "Insecure", "Bogus"}
  BY DEF LastResult
<1> QED
  BY <1>1, <1>2, FirstNotSecureIs DEF Judge

(* A processed input gives a result of the right type.                       *)
LEMMA ProcessType ==
  ASSUME TypeOK, idx <= Labels, Occupied(idx), processResponse
  PROVE  /\ idx' \in 0..(Labels + 1)
         /\ results' \in Seq([in : Inputs, v : [state : {"Secure", "Insecure", "Bogus"},
                                              doe : DOE, ds : NoName..Labels]])
<1>1. At(idx) \in Inputs
  BY DEF At, Occupied, TypeOK
<1>2. verify(At(idx), lastDS) \in Outcomes
  BY <1>1, VerifyType
<1> DEFINE T == [in : Inputs, v : [state : {"Secure", "Insecure", "Bogus"},
                                  doe : DOE, ds : NoName..Labels]]
<1>3. [in |-> At(idx), v |-> verify(At(idx), lastDS)] \in T
  BY <1>1, <1>2 DEF Outcomes
<1>4. Append(results, [in |-> At(idx), v |-> verify(At(idx), lastDS)]) \in Seq(T)
  <2> HIDE DEF T
  <2>1. results \in Seq(T)
    BY DEF TypeOK, T
  <2> QED
    BY <1>3, <2>1, AppendProperties
<1>5. idx' \in 0..(Labels + 1)
  BY AuthenticatorAssumption DEF TypeOK, processResponse
<1> QED
  BY <1>4, <1>5 DEF processResponse

(* The index into the buffer stays within it, and what is kept has its type  *)
(* (NewAuth, AddResponse and Result of authenticator.go).                    *)
THEOREM TypeCorrect == Spec => []TypeOK
<1>1. Init => TypeOK
  BY AuthenticatorAssumption, EmptySeq DEF Init, TypeOK
<1>2. TypeOK /\ [Next]_vars => TypeOK'
  <2> SUFFICES ASSUME TypeOK, [Next]_vars PROVE TypeOK'
    OBVIOUS
  <2>1. ASSUME NEW in \in pending, AddResponse(in) PROVE TypeOK'
    BY <2>1 DEF AddResponse, TypeOK
  <2>2. CASE processNext
    <3>1. CASE idx <= Labels /\ Occupied(idx) /\ processResponse /\ UNCHANGED <<pc, errors>>
      BY <2>2, <3>1, ProcessType DEF processNext, TypeOK
    <3>2. CASE UNCHANGED <<idx, results>> /\ pc' = "receive" /\ errors' \in {errors, errors + 1}
      BY <2>2, <3>2 DEF processNext, TypeOK
    <3> QED
      BY <2>2, <3>1, <3>2 DEF processNext
  <2>3. CASE result
    BY <2>3 DEF result, TypeOK
  <2>4. CASE Result
    <3>1. CASE idx <= Labels /\ Occupied(idx) /\ processResponse /\ UNCHANGED <<pc, out>>
      BY <2>4, <3>1, ProcessType DEF Result, TypeOK
    <3>2. CASE out' \in {Judge, "Unknown"} /\ pc' = "over" /\ UNCHANGED <<idx, results>>
      BY <2>4, <3>2, JudgeType DEF Result, TypeOK
    <3>3. CASE idx <= Labels /\ idx' = idx + 1 /\ UNCHANGED <<results, pc, out>>
      BY <2>4, <3>3, AuthenticatorAssumption DEF Result, TypeOK
    <3> QED
      BY <2>4, <3>1, <3>2, <3>3 DEF Result
  <2>5. CASE UNCHANGED vars
    BY <2>5 DEF vars, TypeOK
  <2>6. CASE RefuseResponse
    BY <2>6 DEF RefuseResponse, TypeOK
  <2> QED
    BY <2>1, <2>2, <2>3, <2>4, <2>5, <2>6 DEF Next
<1> QED
  BY <1>1, <1>2, PTL DEF Spec

-----------------------------------------------------------------------------
(* The verdict *)

(* What Result judges from the results is the verdict on the inputs as a     *)
(* set: the first result that is not secure is that of the highest input     *)
(* that is not, the one before it that of its parent, the last one that of   *)
(* the lowest input.                                                         *)
LEMMA JudgeIs ==
  ASSUME TypeOK, Unique, ResultsInv, ArrivalInv, pc = "final", idx > Labels
  PROVE  Judge = Verdict
<1> DEFINE N == Len(results)
<1> DEFINE R(i) == results[i].in
<1>1. /\ N \in Nat /\ (results = <<>> <=> N = 0)
      /\ \A i \in 1..N : State(i) \in {"Secure", "Insecure", "Bogus"} /\ R(i) \in Inputs
  BY ResultTypes
<1>2. \A j \in inputs : j.zone \in 0..Labels /\ j.zone < idx
  <2>1. \A j \in inputs : j.zone \in 0..Labels
    BY DEF TypeOK, Inputs
  <2>2. idx \in Int /\ Labels \in Nat
    BY AuthenticatorAssumption DEF TypeOK
  <2> QED
    BY <2>1, <2>2
<1>3. buffer = inputs
  <2>1. pending = {} /\ buffer = inputs \ pending
    BY DEF ArrivalInv
  <2> QED BY <2>1
<1>4. \A i \in 1..N : /\ R(i) \in inputs /\ ~MissingDSRecordError(R(i), DSFor[R(i)])
                      /\ State(i) = StateOf(R(i)) /\ Doe(i) = DoeOf(R(i))
  <2> SUFFICES ASSUME NEW i \in 1..N
               PROVE  /\ R(i) \in inputs /\ ~MissingDSRecordError(R(i), DSFor[R(i)])
                      /\ State(i) = StateOf(R(i)) /\ Doe(i) = DoeOf(R(i))
    OBVIOUS
  <2>1. /\ R(i) \in buffer /\ ~MissingDSRecordError(R(i), DSFor[R(i)])
        /\ results[i].v = verify(R(i), DSFor[R(i)])
    BY DEF ResultsInv
  <2> QED
    BY <1>3, <2>1 DEF State, Doe, StateOf, DoeOf
<1>5. \A in \in inputs : \E i \in 1..N : R(i) = in
  BY <1>2, <1>3 DEF ResultsInv
<1>6. \A i, j \in 1..N : i < j <=> R(i).zone < R(j).zone
  <2> SUFFICES ASSUME NEW i \in 1..N, NEW j \in 1..N PROVE i < j <=> R(i).zone < R(j).zone
    OBVIOUS
  <2>1. R(i).zone \in Int /\ R(j).zone \in Int
    BY <1>2, <1>4
  <2>2. i < j => R(i).zone < R(j).zone
    BY DEF ResultsInv
  <2>3. j < i => R(j).zone < R(i).zone
    BY DEF ResultsInv
  <2>4. i = j \/ i < j \/ j < i
    BY <1>1
  <2> QED
    BY <2>1, <2>2, <2>3, <2>4
<1>7. \A i \in 1..N : Above(R(i)) = {R(j) : j \in 1..(i - 1)}
  <2> SUFFICES ASSUME NEW i \in 1..N PROVE Above(R(i)) = {R(j) : j \in 1..(i - 1)}
    OBVIOUS
  <2>1. ASSUME NEW x \in Above(R(i)) PROVE \E j \in 1..(i - 1) : x = R(j)
    <3>1. PICK j \in 1..N : R(j) = x
      BY <1>5, <2>1 DEF Above
    <3>2. j < i
      BY <1>6, <3>1 DEF Above
    <3> QED
      BY <1>1, <3>1, <3>2
  <2>2. ASSUME NEW j \in 1..(i - 1) PROVE R(j) \in Above(R(i))
    <3>1. j \in 1..N /\ j < i
      BY <1>1
    <3> QED
      BY <1>4, <1>6, <3>1 DEF Above
  <2> QED
    BY <2>1, <2>2
<1>8. CASE N = 0
  <2>1. inputs = {}
    BY <1>5, <1>8
  <2> QED
    BY <1>1, <1>8, <2>1 DEF Judge, Verdict
<1>9. CASE N # 0 /\ \E i \in 1..N : State(i) = "Bogus"
  <2>1. Judge = "Bogus"
    BY <1>1, <1>9 DEF Judge
  <2>2. inputs # {} /\ ~(\E in \in inputs : MissingDSRecordError(in, DSFor[in]))
    BY <1>4, <1>5, <1>9
  <2>3. \E in \in inputs : StateOf(in) = "Bogus"
    BY <1>4, <1>9
  <2> QED
    BY <2>1, <2>2, <2>3 DEF Verdict
<1>10. CASE N # 0 /\ (\A i \in 1..N : State(i) # "Bogus") /\ \E i \in 1..N : State(i) # "Secure"
  <2> DEFINE m == FirstNotSecure
  <2> DEFINE Is(in) == /\ StateOf(in) = "Insecure"
                       /\ \A j \in Above(in) : StateOf(j) = "Secure"
  <2> DEFINE first == CHOOSE in \in inputs : Is(in)
  <2>1. /\ m \in 1..N /\ State(m) = "Insecure"
        /\ \A i \in 1..N : State(i) # "Secure" => m <= i
    BY <1>1, <1>10, FirstNotSecureIs
  <2>2. R(m) \in inputs /\ Is(R(m))
    <3>1. ASSUME NEW x \in Above(R(m)) PROVE StateOf(x) = "Secure"
      <4>1. PICK j \in 1..(m - 1) : x = R(j)
        BY <1>7, <2>1
      <4>2. j \in 1..N /\ ~(m <= j)
        BY <1>1, <2>1
      <4> QED
        BY <1>4, <2>1, <4>1, <4>2
    <3> QED
      BY <1>4, <2>1, <3>1
  <2>3. ASSUME NEW in \in inputs, Is(in) PROVE in = R(m)
    <3>1. PICK i \in 1..N : R(i) = in
      BY <1>5
    <3>2. State(i) = "Insecure"
      BY <1>4, <2>3, <3>1
    <3>3. m <= i
      BY <2>1, <3>2
    <3>4. ~(m < i)
      <4> SUFFICES ASSUME m < i PROVE FALSE
        OBVIOUS
      <4>1. m \in 1..(i - 1)
        BY <1>1, <2>1
      <4>2. R(m) \in Above(in)
        BY <1>7, <3>1, <4>1, Zenon
      <4> QED
        BY <2>2, <2>3, <4>2
    <3> QED
      BY <1>1, <2>1, <3>1, <3>3, <3>4
  <2>4. first = R(m)
    <3>1. first \in inputs /\ Is(first)
      <4> HIDE DEF Is
      <4> QED BY <2>2
    <3> QED
      BY <2>3, <3>1
  <2>5. Judge = InsecureFrom(m)
    BY <1>1, <1>10 DEF Judge
  <2>6. Verdict = IF Above(first) = {} \/ ProvenInsecure(first) THEN "Insecure" ELSE "Bogus"
    <3>1. inputs # {} /\ ~(\E in \in inputs : MissingDSRecordError(in, DSFor[in]))
      BY <1>4, <1>5, <2>2
    <3>2. ~(\E in \in inputs : StateOf(in) = "Bogus")
      BY <1>4, <1>5, <1>10
    <3>3. \E in \in inputs : StateOf(in) = "Insecure"
      BY <2>2
    <3> QED
      BY <3>1, <3>2, <3>3 DEF Verdict
  <2>7. CASE m = 1
    <3>1. Above(R(m)) = {}
      <4>1. Above(R(m)) = {R(j) : j \in 1..(m - 1)}
        BY <1>7, <2>1
      <4>2. 1..(m - 1) = {}
        <5> HIDE DEF m
        <5> QED BY <2>7
      <4> QED BY <4>1, <4>2
    <3> HIDE DEF first
    <3> QED
      BY <2>1, <2>4, <2>5, <2>6, <2>7, <3>1 DEF InsecureFrom
  <2>8. CASE m # 1
    <3>1. m - 1 \in 1..N /\ m - 1 \in 1..(m - 1)
      BY <1>1, <2>1, <2>8
    <3>2. R(m - 1) \in Above(R(m))
      BY <1>7, <2>1, <3>1
    <3>3. ASSUME NEW k \in Above(R(m)) PROVE k.zone <= R(m - 1).zone
      <4>1. PICK j \in 1..(m - 1) : k = R(j)
        BY <1>7, <2>1
      <4>2. j \in 1..N /\ (j = m - 1 \/ j < m - 1)
        BY <1>1, <2>1
      <4>3. k.zone \in Int /\ R(m - 1).zone \in Int
        BY <1>2, <1>4, <3>1, <4>1, <4>2
      <4> QED
        BY <1>6, <3>1, <4>1, <4>2, <4>3
    <3>4. R(m - 1) = Parent(R(m))
      BY <2>2, <3>2, <3>3, ParentIs DEF TypeOK
    <3>5. Doe(m - 1) = DoeOf(R(m - 1))
      BY <1>4, <3>1
    <3>6. InsecureFrom(m) = IF \/ DoeOf(R(m - 1)) \in {"OptOut", "MissingDS"}
                               \/ DoeOf(R(m - 1)) = "NoData" /\ R(m - 1).asks = R(m).zone
                            THEN "Insecure" ELSE "Bogus"
      BY <2>8, <3>5 DEF InsecureFrom
    <3>7. ProvenInsecure(R(m)) <=> \/ DoeOf(R(m - 1)) \in {"OptOut", "MissingDS"}
                                   \/ DoeOf(R(m - 1)) = "NoData" /\ R(m - 1).asks = R(m).zone
      BY <3>4 DEF ProvenInsecure
    <3> HIDE DEF first, m
    <3> QED
      BY <2>4, <2>5, <2>6, <3>2, <3>6, <3>7
  <2> QED
    BY <2>7, <2>8
<1>11. CASE N # 0 /\ \A i \in 1..N : State(i) = "Secure"
  <2>1. N \in 1..N
    BY <1>1, <1>11
  <2>2. R(N) = Lowest
    <3>1. \A j \in inputs : j.zone <= R(N).zone
      <4> SUFFICES ASSUME NEW j \in inputs PROVE j.zone <= R(N).zone
        OBVIOUS
      <4>1. PICK i \in 1..N : R(i) = j
        BY <1>5
      <4>2. i = N \/ i < N
        BY <1>1
      <4>3. j.zone \in Int /\ R(N).zone \in Int
        BY <1>2, <1>4, <2>1
      <4> QED
        BY <1>6, <2>1, <4>1, <4>2, <4>3
    <3>2. R(N) \in inputs
      BY <1>4, <2>1
    <3>3. Lowest \in inputs /\ \A j \in inputs : j.zone <= Lowest.zone
      BY <3>1, <3>2 DEF Lowest
    <3>4. Lowest.zone = R(N).zone
      BY <1>2, <3>1, <3>2, <3>3
    <3> QED
      BY <3>2, <3>3, <3>4 DEF Unique
  <2>3. Judge = LastResult
    BY <1>1, <1>11 DEF Judge
  <2>4. /\ inputs # {} /\ ~(\E in \in inputs : MissingDSRecordError(in, DSFor[in]))
        /\ \A in \in inputs : StateOf(in) = "Secure"
    BY <1>4, <1>5, <1>11, <2>1
  <2>5. Doe(N) = DoeOf(Lowest) /\ Lowest \in inputs
    BY <1>4, <2>1, <2>2
  <2>6. Lowest.kind = "negative" => DoeOf(Lowest) \in {"NoData", "NxDomain", "OptOut"}
    BY <2>4, <2>5, VerifySecure DEF TypeOK, StateOf, DoeOf
  <2>7. LastResult = IF DoeOf(Lowest) = "OptOut" THEN "Insecure"
                     ELSE IF DoeOf(Lowest) \in {"NxDomain", "NoData"} THEN "Secure"
                     ELSE IF DoeOf(Lowest) = "MissingDS" THEN "Bogus"
                     ELSE IF Lowest.kind # "negative" /\ Lowest.answers THEN "Secure"
                     ELSE "Bogus"
    BY <2>2, <2>5 DEF LastResult
  <2>8. Verdict = IF DoeOf(Lowest) = "OptOut" THEN "Insecure"
                  ELSE IF \/ DoeOf(Lowest) \in {"NoData", "NxDomain"}
                          \/ DoeOf(Lowest) # "MissingDS" /\ Lowest.answers THEN "Secure"
                  ELSE "Bogus"
    BY <2>4 DEF Verdict
  <2> QED
    BY <2>3, <2>6, <2>7, <2>8
<1> QED
  BY <1>8, <1>9, <1>10, <1>11

-----------------------------------------------------------------------------
(* The steps *)

(* An input that arrives with no other of its zone finds its place free.     *)
LEMMA AddKeeps ==
  ASSUME TypeOK, ChainInv, Unique, NEW in \in pending, AddResponse(in)
  PROVE  (ResultsInv /\ ArrivalInv /\ ErrorsInv)'
<1>1. /\ DSFor' = DSFor /\ pc = "receive" /\ pending' = pending \ {in}
      /\ UNCHANGED <<inputs, strays, refused, idx, results, out>>
  BY Settled DEF AddResponse
<1>2. ~Occupied(in.zone)
  <2> SUFFICES ASSUME NEW b \in buffer, b.zone = in.zone PROVE FALSE
    BY DEF Occupied
  <2>1. b \in inputs /\ b \notin pending /\ in \in inputs
    BY DEF TypeOK, ChainInv, ArrivalInv
  <2> QED
    BY <2>1 DEF Unique
<1>3. buffer' = buffer \cup {in} /\ pc' = "process" /\ errors' = errors
  BY <1>2 DEF AddResponse
<1>4. ~(in.zone < idx)
  <2> SUFFICES ASSUME in.zone < idx PROVE FALSE
    OBVIOUS
  <2>1. in.zone \in 0..(idx - 1)
    BY DEF TypeOK, Inputs
  <2> QED
    BY <1>1, <1>2, <2>1 DEF ChainInv, ArrivalInv
<1>5. ResultsInv'
  <2>1. \A i \in 1..Len(results) :
          /\ results[i].in \in buffer' /\ results[i].in.zone < idx
          /\ ~MissingDSRecordError(results[i].in, DSFor[results[i].in])
          /\ results[i].v = verify(results[i].in, DSFor[results[i].in])
    BY <1>3 DEF ChainInv, ResultsInv
  <2>2. \A b \in buffer' : b.zone < idx => \E i \in 1..Len(results) : results[i].in = b
    BY <1>3, <1>4 DEF ChainInv, ResultsInv
  <2> QED
    BY <1>1, <2>1, <2>2 DEF ChainInv, ResultsInv
<1>6. ArrivalInv'
  <2>1. buffer' = inputs \ pending'
    BY <1>1, <1>3 DEF ChainInv, ArrivalInv, TypeOK
  <2>2. \A k \in 0..(idx - 1) : Occupied(k)'
    BY <1>1, <1>3 DEF ChainInv, ArrivalInv, Occupied
  <2> QED
    BY <1>1, <1>3, <2>1, <2>2 DEF ChainInv, ArrivalInv
<1>7. ErrorsInv'
  BY <1>1, <1>3 DEF ChainInv, ErrorsInv
<1> QED
  BY <1>5, <1>6, <1>7

(* A refusal leaves what was received as it is.                              *)
LEMMA RefusalKeeps ==
  ASSUME TypeOK, ChainInv, Unique, RefuseResponse
  PROVE  (ResultsInv /\ ArrivalInv /\ ErrorsInv)'
<1>1. /\ DSFor' = DSFor /\ pc' = "receive" /\ errors' = errors + 1 /\ refused' = refused + 1
      /\ UNCHANGED <<inputs, strays, pending, buffer, idx, results, out>>
  BY Settled DEF RefuseResponse
<1>2. ResultsInv'
  BY <1>1 DEF ChainInv, ResultsInv
<1>3. ArrivalInv'
  BY <1>1 DEF RefuseResponse, ChainInv, ArrivalInv, Occupied
<1>4. refused \in Nat /\ errors \in Nat
  BY DEF TypeOK
<1>5. ErrorsInv'
  BY <1>1, <1>4 DEF ChainInv, ErrorsInv
<1> QED
  BY <1>2, <1>3, <1>5

(* A processed input adds the result that the chain as a whole has for it.   *)
LEMMA ProcessKeeps ==
  ASSUME TypeOK, ChainInv, Unique, pc \in {"process", "final"}, idx <= Labels, Occupied(idx),
         processResponse, UNCHANGED <<inputs, strays, pending, refused, buffer, errors, pc, out>>
  PROVE  (ResultsInv /\ ArrivalInv /\ ErrorsInv)'
<1> DEFINE N == Len(results)
<1> DEFINE in == At(idx)
<1> DEFINE e == [in |-> in, v |-> verify(in, lastDS)]
<1>1. in \in buffer /\ in \in inputs /\ in.zone = idx /\ lastDS = DSFor[in]
  BY LastDSIs DEF ChainInv
<1>2. DSFor' = DSFor /\ Verdict' = Verdict /\ idx' = idx + 1 /\ results' = Append(results, e)
  BY Settled DEF processResponse
<1>3. idx \in Nat /\ N \in Nat /\ (\A b \in buffer : b.zone \in Nat)
  BY ResultTypes DEF TypeOK, Inputs
<1>4. /\ Len(results') = N + 1 /\ results'[N + 1] = e
      /\ \A i \in 1..N : results'[i] = results[i]
  <2> DEFINE T == [in : Inputs, v : [state : {"Secure", "Insecure", "Bogus"},
                                  doe : DOE, ds : NoName..Labels]]
  <2>1. results \in Seq(T)
    BY DEF TypeOK
  <2> HIDE DEF T, e
  <2> QED
    BY <1>2, <2>1, AppendProperties
<1>5. \A i \in 1..(N + 1) : i \in 1..N \/ i = N + 1
  BY <1>3
<1>6. ResultsInv'
  <2>1. ASSUME NEW i \in 1..(N + 1)
        PROVE  /\ results'[i].in \in buffer /\ results'[i].in.zone < idx + 1
               /\ ~MissingDSRecordError(results'[i].in, DSFor[results'[i].in])
               /\ results'[i].v = verify(results'[i].in, DSFor[results'[i].in])
    <3>1. CASE i \in 1..N
      <4>1. /\ results[i].in \in buffer /\ results[i].in.zone < idx
            /\ ~MissingDSRecordError(results[i].in, DSFor[results[i].in])
            /\ results[i].v = verify(results[i].in, DSFor[results[i].in])
        BY <3>1 DEF ChainInv, ResultsInv
      <4> QED
        BY <1>3, <1>4, <3>1, <4>1
    <3>2. CASE i = N + 1
      <4>1. results'[i].in = in /\ results'[i].v = verify(in, DSFor[in])
        BY <1>1, <1>4, <3>2
      <4> QED
        BY <1>1, <1>3, <4>1 DEF processResponse
    <3> QED
      BY <1>5, <3>1, <3>2
  <2>2. ASSUME NEW b \in buffer, b.zone < idx + 1
        PROVE  \E i \in 1..(N + 1) : results'[i].in = b
    <3>1. CASE b.zone < idx
      <4>1. PICK i \in 1..N : results[i].in = b
        BY <3>1 DEF ChainInv, ResultsInv
      <4> QED
        BY <1>3, <1>4, <4>1
    <3>2. CASE b.zone = idx
      <4>1. b = in
        BY <1>1, <3>2 DEF Unique, TypeOK
      <4> QED
        BY <1>3, <1>4, <4>1
    <3> QED
      BY <1>3, <2>2, <3>1, <3>2
  <2>3. ASSUME NEW i \in 1..(N + 1), NEW j \in 1..(N + 1), i < j
        PROVE  results'[i].in.zone < results'[j].in.zone
    <3>1. i \in 1..N
      <4> HIDE DEF N
      <4> QED
        BY <1>3, <2>3
    <3>2. CASE j \in 1..N
      BY <1>4, <2>3, <3>1, <3>2 DEF ChainInv, ResultsInv
    <3>3. CASE j = N + 1
      <4>1. results[i].in.zone < idx /\ results'[j].in = in
        BY <1>4, <3>1, <3>3 DEF ChainInv, ResultsInv
      <4> QED
        BY <1>1, <1>4, <3>1, <4>1
    <3> QED
      BY <1>5, <3>2, <3>3
  <2> QED
    BY <1>2, <1>4, <2>1, <2>2, <2>3 DEF ResultsInv
<1>7. ArrivalInv'
  <2>1. pc \in {"receive", "process"} => \A k \in 0..((idx + 1) - 1) : Occupied(k)
    <3> SUFFICES ASSUME pc \in {"receive", "process"}, NEW k \in 0..((idx + 1) - 1) PROVE Occupied(k)
      OBVIOUS
    <3>1. k \in 0..(idx - 1) \/ k = idx
      BY <1>3
    <3> QED
      BY <3>1 DEF ChainInv, ArrivalInv
  <2>2. \A k : Occupied(k)' = Occupied(k)
    BY DEF Occupied
  <2> QED
    BY <1>2, <2>1, <2>2 DEF ChainInv, ArrivalInv
<1>8. ErrorsInv'
  BY <1>2 DEF ChainInv, ErrorsInv
<1> QED
  BY <1>6, <1>7, <1>8

(* A failure at idx is a failure of the chain as a whole.                    *)
LEMMA FailureIs ==
  ASSUME TypeOK, ChainInv, Unique, pc \in {"process", "final"}, idx <= Labels, Occupied(idx),
         MissingDSRecordError(At(idx), lastDS)
  PROVE  \E in \in inputs : MissingDSRecordError(in, DSFor[in])
BY LastDSIs DEF ChainInv

(* In Result a single refusal can only be left with a failure besides.       *)
LEMMA FinalVerdict ==
  ASSUME TypeOK, ChainInv, Unique, pc = "final"
  PROVE  strays = 1 => Verdict = "Unknown"
<1> SUFFICES ASSUME strays = 1 PROVE \E in \in inputs : MissingDSRecordError(in, DSFor[in])
  BY DEF Verdict
<1>1. refused = 1 /\ errors # 1 /\ refused <= errors /\ errors \in Nat
  BY DEF ChainInv, ErrorsInv, TypeOK
<1>2. errors > refused
  BY <1>1
<1> QED
  BY <1>2 DEF ChainInv, ErrorsInv

(* Whatever else is left as it is, the results stay in order.                *)
LEMMA ResultsStay ==
  ASSUME TypeOK, ChainInv, Unique, UNCHANGED <<inputs, buffer, idx, results>>
  PROVE  ResultsInv' /\ DSFor' = DSFor /\ Verdict' = Verdict /\ \A k : Occupied(k)' = Occupied(k)
<1>1. DSFor' = DSFor /\ Verdict' = Verdict
  BY Settled
<1> QED
  BY <1>1 DEF ChainInv, ResultsInv, Occupied

(* Every step keeps the chain.                                               *)
LEMMA ChainStep ==
  ASSUME TypeOK, ChainInv, [Next]_vars
  PROVE  ChainInv'
<1>1. inputs' = inputs
  BY DEF Next, vars, AddResponse, RefuseResponse, processNext, result, Result
<1> SUFFICES ASSUME Unique PROVE (ResultsInv /\ ArrivalInv /\ ErrorsInv)'
  BY <1>1, Settled, ZenonT(30) DEF ChainInv
<1>2. ASSUME NEW in \in pending, AddResponse(in) PROVE (ResultsInv /\ ArrivalInv /\ ErrorsInv)'
  BY <1>2, AddKeeps
<1>3. CASE processNext
  <2>1. CASE idx <= Labels /\ Occupied(idx) /\ processResponse /\ UNCHANGED <<pc, errors>>
    BY <1>3, <2>1, ProcessKeeps DEF processNext
  <2>2. CASE UNCHANGED <<idx, results, errors>> /\ pc' = "receive"
    <3>1. ResultsInv' /\ DSFor' = DSFor /\ \A k : Occupied(k)' = Occupied(k)
      BY <1>3, <2>2, ResultsStay DEF processNext
    <3> QED
      BY <1>3, <2>2, <3>1 DEF processNext, ChainInv, ArrivalInv, ErrorsInv
  <2>3. CASE /\ idx <= Labels /\ Occupied(idx) /\ MissingDSRecordError(At(idx), lastDS)
             /\ errors' = errors + 1 /\ pc' = "receive" /\ UNCHANGED <<idx, results>>
    <3>1. ResultsInv' /\ DSFor' = DSFor /\ \A k : Occupied(k)' = Occupied(k)
      BY <1>3, <2>3, ResultsStay DEF processNext
    <3>2. \E in \in inputs : MissingDSRecordError(in, DSFor[in])
      BY <1>3, <2>3, FailureIs DEF processNext
    <3>3. ArrivalInv'
      BY <1>3, <2>3, <3>1 DEF processNext, ChainInv, ArrivalInv
    <3>4. refused <= errors + 1
      BY DEF TypeOK, ChainInv, ErrorsInv
    <3>5. ErrorsInv'
      BY <1>3, <2>3, <3>1, <3>2, <3>4 DEF processNext, ErrorsInv
    <3> QED
      BY <3>1, <3>3, <3>5
  <2> QED
    BY <1>3, <2>1, <2>2, <2>3 DEF processNext
<1>4. CASE result
  <2>1. /\ ResultsInv' /\ DSFor' = DSFor /\ Verdict' = Verdict
        /\ \A k : Occupied(k)' = Occupied(k)
    BY <1>4, ResultsStay DEF result
  <2>2. CASE errors = 1 /\ out' = "Unknown" /\ pc' = "over"
    <3>1. refused = strays /\ refused <= errors /\ strays \in Nat
      BY <1>4 DEF result, ChainInv, ErrorsInv, TypeOK
    <3>2. strays = 1 \/ errors > refused
      BY <2>2, <3>1
    <3>3. strays # 1 => Verdict = "Unknown"
      BY <3>2 DEF ChainInv, ErrorsInv, Verdict
    <3> QED
      BY <1>4, <2>1, <2>2, <3>3 DEF result, ChainInv, ArrivalInv, ErrorsInv
  <2>3. CASE errors # 1 /\ pc' = "final" /\ UNCHANGED out
    BY <1>4, <2>1, <2>3 DEF result, ChainInv, ArrivalInv, ErrorsInv
  <2> QED
    BY <1>4, <2>2, <2>3 DEF result
<1>5. CASE Result
  <2>1. CASE idx > Labels /\ out' = Judge /\ pc' = "over" /\ UNCHANGED <<idx, results>>
    <3>1. /\ ResultsInv' /\ DSFor' = DSFor /\ Verdict' = Verdict
          /\ \A k : Occupied(k)' = Occupied(k)
      BY <1>5, <2>1, ResultsStay DEF Result
    <3>2. Judge = Verdict /\ (strays = 1 => Verdict = "Unknown")
      BY <1>5, <2>1, JudgeIs, FinalVerdict DEF Result, ChainInv
    <3> QED
      BY <1>5, <2>1, <3>1, <3>2 DEF Result, ChainInv, ArrivalInv, ErrorsInv
  <2>2. CASE idx <= Labels /\ ~Occupied(idx) /\ idx' = idx + 1 /\ UNCHANGED <<results, pc, out>>
    <3>1. DSFor' = DSFor /\ idx \in Nat /\ \A b \in buffer : b.zone \in Nat
      BY <1>1, Settled DEF TypeOK, Inputs
    <3>2. \A b \in buffer : b.zone < idx + 1 <=> b.zone < idx
      BY <2>2, <3>1 DEF Occupied
    <3>3. buffer' = buffer
      BY <1>5 DEF Result
    <3>4. ResultsInv'
      BY <2>2, <3>1, <3>2, <3>3 DEF ChainInv, ResultsInv
    <3> QED
      BY <1>5, <2>2, <3>1, <3>4 DEF Result, ChainInv, ArrivalInv, ErrorsInv
  <2>3. CASE idx <= Labels /\ Occupied(idx) /\ processResponse /\ UNCHANGED <<pc, out>>
    BY <1>5, <2>3, ProcessKeeps DEF Result
  <2>4. CASE /\ idx <= Labels /\ Occupied(idx) /\ MissingDSRecordError(At(idx), lastDS)
             /\ out' = "Unknown" /\ pc' = "over" /\ UNCHANGED <<idx, results>>
    <3>1. /\ ResultsInv' /\ DSFor' = DSFor /\ Verdict' = Verdict
          /\ \A k : Occupied(k)' = Occupied(k)
      BY <1>5, <2>4, ResultsStay DEF Result
    <3>2. \E in \in inputs : MissingDSRecordError(in, DSFor[in])
      BY <1>5, <2>4, FailureIs DEF Result
    <3>3. Verdict = "Unknown"
      BY <3>2 DEF Verdict
    <3> QED
      BY <1>5, <2>4, <3>1, <3>2, <3>3 DEF Result, ChainInv, ArrivalInv, ErrorsInv
  <2> QED
    BY <1>5, <2>1, <2>2, <2>3, <2>4 DEF Result
<1>6. CASE UNCHANGED vars
  <2>1. /\ ResultsInv' /\ DSFor' = DSFor /\ Verdict' = Verdict
        /\ \A k : Occupied(k)' = Occupied(k)
    BY <1>6, ResultsStay DEF vars
  <2> QED
    BY <1>6, <2>1 DEF vars, ChainInv, ArrivalInv, ErrorsInv
<1>7. CASE RefuseResponse
  BY <1>7, RefusalKeeps
<1> QED
  BY <1>2, <1>3, <1>4, <1>5, <1>6, <1>7 DEF Next

(* Before anything arrives.                                                  *)
LEMMA ChainInit == Init => ChainInv
<1> SUFFICES ASSUME Init PROVE ResultsInv /\ ArrivalInv /\ ErrorsInv
  BY DEF ChainInv
<1>1. Len(results) = 0 /\ 1..Len(results) = {}
  BY EmptySeq DEF Init
<1>2. ResultsInv
  BY <1>1 DEF Init, ResultsInv
<1>3. ArrivalInv
  BY DEF Init, ArrivalInv
<1>4. ErrorsInv
  BY DEF Init, ErrorsInv
<1> QED
  BY <1>2, <1>3, <1>4

-----------------------------------------------------------------------------
(* What a verdict means *)

(* A secure input that is no error is vouched for by the records above it.   *)
LEMMA SecureIsAuthentic ==
  ASSUME inputs \subseteq Inputs, Unique, NEW in \in inputs, StateOf(in) = "Secure",
         ~MissingDSRecordError(in, DSFor[in])
  PROVE  Authentic(in)
<1>1. /\ DSFor[in] # NoName /\ in.keys = "ok" /\ in.signed /\ in.signer = in.zone
      /\ in.zone \in 0..Labels
  BY VerifySecure DEF StateOf, Inputs
<1>2. in.zone = DSFor[in]
  BY <1>1 DEF MissingDSRecordError, NoName
<1>3. DSFor[in] = IF Above(in) = {} THEN 0 ELSE verify(Parent(in), DSFor[Parent(in)]).ds
  BY DSForIs
<1>4. Above(in) # {} => Parent(in) \in Inputs
  BY ParentIs DEF Above
<1>5. Above(in) # {} => verify(Parent(in), DSFor[Parent(in)]).ds \in {NoName, Parent(in).ds}
  BY <1>4, VerifyType
<1> QED
  BY <1>1, <1>2, <1>3, <1>5, SMTT(20) DEF Authentic

(* Every input has one of the three states.                                  *)
LEMMA StateIs ==
  ASSUME inputs \subseteq Inputs, NEW in \in inputs
  PROVE  StateOf(in) \in {"Secure", "Insecure", "Bogus"}
<1>1. verify(in, DSFor[in]) \in Outcomes
  BY VerifyType
<1> QED
  BY <1>1 DEF StateOf, Outcomes

(* The lowest input is one of them.                                          *)
LEMMA LowestIs ==
  ASSUME inputs \subseteq Inputs, inputs # {}
  PROVE  Lowest \in inputs
<1> DEFINE S == {k.zone : k \in inputs}
<1>1. S \in SUBSET (0..Labels) /\ S # {}
  BY DEF Inputs
<1>2. PICK z \in S : \A y \in S : y <= z
  <2> HIDE DEF S
  <2> QED BY <1>1, GreatestOf
<1>3. \E in \in inputs : \A j \in inputs : j.zone <= in.zone
  BY <1>2
<1> QED
  BY <1>3 DEF Lowest

(* Of the insecure inputs one is the highest.                                *)
LEMMA HighestInsecure ==
  ASSUME inputs \subseteq Inputs, \E in \in inputs : StateOf(in) = "Insecure"
  PROVE  \E in \in inputs : /\ StateOf(in) = "Insecure"
                            /\ \A j \in Above(in) : StateOf(j) # "Insecure"
<1> DEFINE T == {in \in inputs : StateOf(in) = "Insecure"}
<1> DEFINE S == {in.zone : in \in T}
<1>1. \A in \in inputs : in.zone \in Nat
  BY DEF Inputs
<1>2. S \in SUBSET Nat /\ S # {}
  BY <1>1
<1>3. Min(S) \in S /\ \A y \in S : Min(S) <= y
  <2> HIDE DEF S
  <2> QED BY <1>2, LeastOf
<1>4. PICK in \in T : in.zone = Min(S)
  BY <1>3, ZenonT(30)
<1>5. ASSUME NEW j \in Above(in) PROVE StateOf(j) # "Insecure"
  <2> SUFFICES ASSUME StateOf(j) = "Insecure" PROVE FALSE
    OBVIOUS
  <2>1. j \in T /\ j.zone < in.zone
    BY DEF Above
  <2>2. j.zone \in S /\ in.zone <= j.zone
    <3>1. j.zone \in S
      BY <2>1
    <3> HIDE DEF S
    <3> QED BY <1>3, <1>4, <3>1
  <2> QED
    BY <1>1, <2>1, <2>2
<1> QED
  BY <1>4, <1>5

(* A secure verdict: the chain is unbroken and its end answers.              *)
LEMMA SecureVerdict ==
  ASSUME inputs \subseteq Inputs, Unique, Verdict = "Secure"
  PROVE  /\ inputs # {}
         /\ \A in \in inputs : Authentic(in)
         /\ \/ Lowest.kind = "positive" /\ Lowest.answers
            \/ Lowest.kind = "negative" /\ Lowest.doe \in {"NoData", "NxDomain"}
<1>1. /\ inputs # {} /\ \A in \in inputs : ~MissingDSRecordError(in, DSFor[in])
      /\ \A in \in inputs : StateOf(in) # "Bogus" /\ StateOf(in) # "Insecure"
      /\ DoeOf(Lowest) # "OptOut"
      /\ \/ DoeOf(Lowest) \in {"NoData", "NxDomain"}
         \/ DoeOf(Lowest) # "MissingDS" /\ Lowest.answers
  BY DEF Verdict
<1>2. \A in \in inputs : StateOf(in) = "Secure"
  BY <1>1, StateIs
<1>3. \A in \in inputs : Authentic(in)
  BY <1>1, <1>2, SecureIsAuthentic
<1>4. Lowest \in Inputs /\ verify(Lowest, DSFor[Lowest]).state = "Secure"
  BY <1>1, <1>2, LowestIs DEF StateOf
<1>5. /\ Lowest.kind \in {"delegation", "positive", "negative"}
      /\ Lowest.kind = "negative" => DoeOf(Lowest) \in {"NoData", "NxDomain", "OptOut"}
      /\ DoeOf(Lowest) \in {"NoData", "NxDomain"} =>
           Lowest.kind = "negative" /\ Lowest.doe = DoeOf(Lowest)
  BY <1>4, VerifySecure DEF DoeOf
<1>6. Lowest.answers => Lowest.kind \in {"positive", "negative"}
  BY <1>4 DEF Inputs
<1> QED
  BY <1>1, <1>3, <1>5, <1>6

(* An insecure verdict: there is a proof of it, or no trusted key at the top. *)
LEMMA InsecureVerdict ==
  ASSUME inputs \subseteq Inputs, Unique, Verdict = "Insecure"
  PROVE  \E in \in inputs :
           /\ \A j \in Above(in) : Authentic(j)
           /\ \/ Above(in) = {} /\ in.keys = "none"
              \/ Authentic(in) /\ in.doe \in {"MissingDS", "OptOut"}
              \/ /\ Authentic(in) /\ in.doe = "NoData"
                 /\ \E j \in inputs : in \in Above(j) /\ Parent(j) = in /\ in.asks = j.zone
<1>1. /\ inputs # {} /\ \A in \in inputs : ~MissingDSRecordError(in, DSFor[in])
      /\ \A in \in inputs : StateOf(in) # "Bogus"
  BY DEF Verdict
<1>2. \A in \in inputs : StateOf(in) \in {"Secure", "Insecure"}
  BY <1>1, StateIs
<1>3. \A in \in inputs : StateOf(in) = "Secure" => Authentic(in)
  BY <1>1, SecureIsAuthentic
<1>4. \A in : Above(in) \subseteq inputs
  BY DEF Above
<1>5. CASE \E in \in inputs : StateOf(in) = "Insecure"
  <2> DEFINE Is(in) == /\ StateOf(in) = "Insecure"
                       /\ \A j \in Above(in) : StateOf(j) = "Secure"
  <2> DEFINE first == CHOOSE in \in inputs : Is(in)
  <2>1. \E in \in inputs : Is(in)
    BY <1>2, <1>4, <1>5, HighestInsecure
  <2>2. first \in inputs /\ Is(first)
    <3> HIDE DEF Is
    <3> QED BY <2>1
  <2>3. Above(first) = {} \/ ProvenInsecure(first)
    BY <1>1, <1>5 DEF Verdict
  <2> HIDE DEF first
  <2>4. \A j \in Above(first) : Authentic(j)
    BY <1>3, <1>4, <2>2
  <2>5. CASE Above(first) = {}
    <3>1. DSFor[first] = 0
      BY <2>2, <2>5, DSForIs
    <3>2. first.keys = "none"
      BY <2>2, <3>1, VerifyInsecure DEF StateOf, NoName
    <3> QED
      BY <2>2, <2>4, <2>5, <3>2
  <2>6. CASE Above(first) # {} /\ ProvenInsecure(first)
    <3> DEFINE p == Parent(first)
    <3>1. p \in Above(first) /\ Above(first) = Above(p) \cup {p}
      BY <2>2, <2>6, ParentIs, AboveParent
    <3>2. p \in inputs /\ StateOf(p) = "Secure" /\ Authentic(p) /\ \A j \in Above(p) : Authentic(j)
      BY <1>4, <2>2, <2>4, <3>1
    <3>3. DoeOf(p) \in {"MissingDS", "OptOut", "NoData"} => p.doe = DoeOf(p)
      BY <3>2, VerifySecure DEF StateOf, DoeOf
    <3>4. DoeOf(p) \in {"MissingDS", "OptOut"} \/ (DoeOf(p) = "NoData" /\ p.asks = first.zone)
      BY <2>6 DEF ProvenInsecure
    <3> QED
      BY <2>2, <3>1, <3>2, <3>3, <3>4
  <2> QED
    BY <2>3, <2>5, <2>6
<1>6. CASE \A in \in inputs : StateOf(in) = "Secure"
  <2>1. DoeOf(Lowest) = "OptOut"
    BY <1>1, <1>6 DEF Verdict
  <2>2. Lowest \in inputs /\ StateOf(Lowest) = "Secure"
    BY <1>1, <1>6, LowestIs
  <2>3. Lowest.doe = "OptOut"
    BY <2>1, <2>2, VerifySecure DEF StateOf, DoeOf
  <2> QED
    BY <1>3, <1>4, <1>6, <2>2, <2>3
<1> QED
  BY <1>2, <1>5, <1>6

-----------------------------------------------------------------------------
(* Theorems *)

(* Along every behaviour the results are those of the chain as a whole.      *)
LEMMA ChainCorrect == Spec => [](TypeOK /\ ChainInv)
<1>1. TypeOK /\ ChainInv /\ [Next]_vars => ChainInv'
  BY ChainStep
<1> QED
  BY <1>1, ChainInit, TypeCorrect, PTL DEF Spec

(* Whatever the order in which the responses of an exchange arrive, however  *)
(* often one is tried in vain, the verdict is that on their set, unless a    *)
(* single other one was refused (AddResponse and Result of authenticator.go, *)
(* result of auth.go).                                                       *)
THEOREM ArrivalOrderIrrelevant == Spec => []OrderIndependent
<1>1. TypeOK /\ ChainInv => OrderIndependent
  BY DEF ChainInv, ErrorsInv, OrderIndependent
<1> QED
  BY <1>1, ChainCorrect, PTL

(* A Secure verdict means an unbroken chain of authentic responses from the  *)
(* root to one that answers the question or denies it (result.go).           *)
THEOREM SecureIsChained == Spec => []SecureMeansChain
<1>1. TypeOK /\ ChainInv => SecureMeansChain
  <2> SUFFICES ASSUME TypeOK, ChainInv, pc = "over", Unique, out = "Secure"
               PROVE  /\ inputs # {}
                      /\ \A in \in inputs : Authentic(in)
                      /\ \/ Lowest.kind = "positive" /\ Lowest.answers
                         \/ Lowest.kind = "negative" /\ Lowest.doe \in {"NoData", "NxDomain"}
    BY DEF SecureMeansChain
  <2>1. inputs \subseteq Inputs /\ Verdict = "Secure"
    BY DEF TypeOK, ChainInv, ErrorsInv
  <2> QED
    BY <2>1, SecureVerdict
<1> QED
  BY <1>1, ChainCorrect, PTL

(* An Insecure verdict rests on a proof that there are no DS records, below  *)
(* an unbroken chain, or on a first zone without a trusted key (result.go).  *)
THEOREM InsecureIsProven == Spec => []InsecureMeansProof
<1>1. TypeOK /\ ChainInv => InsecureMeansProof
  <2> SUFFICES ASSUME TypeOK, ChainInv, pc = "over", Unique, out = "Insecure"
               PROVE  InsecureMeansProof
    BY DEF InsecureMeansProof
  <2>1. inputs \subseteq Inputs /\ Verdict = "Insecure"
    BY DEF TypeOK, ChainInv, ErrorsInv
  <2> QED
    BY <2>1, InsecureVerdict DEF InsecureMeansProof
<1> QED
  BY <1>1, ChainCorrect, PTL
=============================================================================
