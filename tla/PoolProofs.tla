----------------------------- MODULE PoolProofs -----------------------------
(***************************************************************************)
(* The safety of the nameserver pool for any number of concurrent calls,   *)
(* any messages and any TTLs; and of the factory that builds pools:        *)
(* whatever the enrichment does, and whenever its time-out strikes, a zone *)
(* that createZone returns can be queried, and nobody waits in vain.       *)
(***************************************************************************)
EXTENDS ZoneFactory, TLAPS, FiniteSetTheorems, WellFoundedInduction

(* A set of natural numbers that is not empty has a least element, the one   *)
(* Min chooses.                                                              *)
LEMMA MinNat ==
  ASSUME NEW S \in SUBSET Nat, S # {}
  PROVE  /\ Min(S) \in S
         /\ \A y \in S : Min(S) <= y
<1> DEFINE R == {ss \in Nat \X Nat : ss[1] < ss[2]}
<1>1. IsWellFoundedOn(R, Nat)
  BY NatLessThanWellFounded, Zenon DEF OpToRel
<1>2. PICK x \in S : \A y \in S : ~ (<<y, x>> \in R)
  <2> HIDE DEF R
  <2> QED BY <1>1, WFMin, Zenon
<1>3. ASSUME NEW y \in S PROVE x <= y
  <2>1. <<y, x>> \notin R
    BY <1>2
  <2>2. <<y, x>> \in Nat \X Nat /\ x \in Nat /\ y \in Nat
    OBVIOUS
  <2>3. ~(y < x)
    BY <2>1, <2>2
  <2> QED
    BY <2>2, <2>3
<1> QED
  BY <1>3, Zenon DEF Min

(* The TTL of a message's records is bounded by MaxAllowedTTL.               *)
LEMMA MinTTLBound ==
  ASSUME NEW R, \A r \in R : r.ttl \in Nat
  PROVE  MinTTL(R) \in 0 .. MaxAllowedTTL
<1> DEFINE S == {MaxAllowedTTL} \cup {r.ttl : r \in R}
<1>1. S \in SUBSET Nat /\ S # {} /\ MaxAllowedTTL \in S
  BY PoolAssumption
<1>2. Min(S) \in S /\ Min(S) <= MaxAllowedTTL
  BY <1>1, MinNat, Zenon
<1> QED
  BY <1>1, <1>2 DEF MinTTL
-----------------------------------------------------------------------------

(* The records of a message that match are finitely many.                    *)
LEMMA FoundNat ==
  ASSUME NEW A \in AddressSets, NEW names, NEW f
  PROVE  Cardinality(OfFamily(Matching(names, A), f)) \in Nat
<1>1. IsFiniteSet(A) /\ OfFamily(Matching(names, A), f) \in SUBSET A
  BY PoolAssumption DEF OfFamily, Matching
<1> QED
  BY <1>1, FS_Subset, FS_CardinalityType

(* The records of a message that match have a TTL within MaxAllowedTTL.      *)
LEMMA FoundTTL ==
  ASSUME NEW A \in AddressSets, NEW names
  PROVE  MinTTL(Matching(names, A)) \in 0 .. MaxAllowedTTL
<1>1. \A r \in Matching(names, A) : r.ttl \in Nat
  BY PoolAssumption DEF Matching
<1> QED
  BY <1>1, MinTTLBound

(* A fresh pool, from a referral or from the root hints, satisfies PoolInv.  *)
LEMMA PoolInit == Init => PoolInv
<1> SUFFICES ASSUME Init PROVE PoolInv
  OBVIOUS
<1>1. len \in [Family -> Nat] /\ expires \in Nat
  <2>1. CASE \E D \in Delegations, A \in AddressSets : newNameserverPool(D, A)
    <3>1. PICK D \in Delegations, A \in AddressSets : newNameserverPool(D, A)
      BY <2>1
    <3> DEFINE found == Matching(HostsOf(D), A)
    <3>2. \A r \in D \cup found : r.ttl \in Nat
      BY PoolAssumption DEF Matching
    <3>3. MinTTL(D \cup found) \in Nat
      <4> HIDE DEF found
      <4> QED BY <3>2, MinTTLBound, PoolAssumption
    <3>4. \A f \in Family : Cardinality(OfFamily(found, f)) \in Nat
      BY FoundNat
    <3> QED
      BY <3>1, <3>3, <3>4 DEF newNameserverPool, Init
  <2>2. CASE \E s \in RootSizes : buildRootServerPool(s)
    BY <2>2, PoolAssumption DEF buildRootServerPool
  <2> QED
    BY <2>1, <2>2 DEF Init
<1>2. TypeOK
  <2>1. NoCall \in Calls
    BY DEF NoCall, Calls, Family
  <2>2. req \in [Requests -> Calls]
    BY <2>1 DEF Init
  <2>3. ipv6 \in BOOLEAN
    BY Zenon DEF Init
  <2> QED
    BY <1>1, <2>2, <2>3 DEF Init, TypeOK, Family
<1>3. CountsFollowLists /\ CursorBounded
  BY <1>1 DEF Init, CountsFollowLists, CursorBounded, Family
<1>4. \A p \in Requests : CallInv(p)
  BY DEF Init, CallInv, NoCall, Family
<1> QED
  BY <1>2, <1>3, <1>4 DEF PoolInv

-----------------------------------------------------------------------------

(* An enrichment step: the counts and lists may only grow, so every call     *)
(* keeps what it has learnt.                                                 *)
LEMMA Growth ==
  ASSUME PoolInv, UNCHANGED req,
         count' \in [Family -> Nat], \A f \in Family : count[f] <= count'[f]
  PROVE  \A p \in Requests : CallInv(p)'
<1> SUFFICES ASSUME NEW p \in Requests PROVE CallInv(p)'
  OBVIOUS
<1>1. req[p] \in Calls /\ CallInv(p) /\ count \in [Family -> Nat]
  BY DEF PoolInv, TypeOK
<1>2. req[p].fam \in Family /\ req[p].has \subseteq Family /\ req[p].idx \in Nat
  BY <1>1 DEF Calls
<1> QED
  BY <1>1, <1>2 DEF CallInv

(* enrich: the lists grow, the counts wait, the expiry is moved.             *)
LEMMA EnrichStep ==
  ASSUME NEW A \in AddressSets, PoolInv, enrich(A)
  PROVE  PoolInv'
<1> DEFINE found == Matching(hosts, A)
<1>1. \A f \in Family : Cardinality(OfFamily(found, f)) \in Nat
  BY FoundNat
<1>2. MinTTL(found) \in Nat
  BY FoundTTL, PoolAssumption
<1>3. len' \in [Family -> Nat] /\ \A f \in Family : len[f] <= len'[f]
  BY <1>1 DEF enrich, PoolInv, TypeOK
<1>4. expires' \in Nat
  BY <1>2 DEF enrich, PoolInv, TypeOK
<1>6. TypeOK'
  BY <1>3, <1>4 DEF enrich, PoolInv, TypeOK
<1>7. CountsFollowLists' /\ CursorBounded'
  BY <1>3 DEF enrich, PoolInv, TypeOK, CountsFollowLists, CursorBounded
<1>8. \A p \in Requests : CallInv(p)'
  BY Growth DEF enrich, PoolInv, TypeOK
<1> QED
  BY <1>6, <1>7, <1>8 DEF PoolInv

(* The two stores of updateIPCount.                                          *)
LEMMA CountStep ==
  ASSUME PoolInv, updateIPv4Count \/ updateIPv6Count
  PROVE  PoolInv'
<1>1. count' \in [Family -> Nat] /\ \A f \in Family : count[f] <= count'[f]
  BY DEF PoolInv, TypeOK, CountsFollowLists, updateIPv4Count, updateIPv6Count, Family
<1>2. TypeOK'
  BY <1>1 DEF PoolInv, TypeOK, updateIPv4Count, updateIPv6Count
<1>3. CountsFollowLists'
  BY DEF PoolInv, TypeOK, CountsFollowLists, updateIPv4Count, updateIPv6Count, Family
<1>4. CursorBounded'
  BY <1>1 DEF PoolInv, TypeOK, CursorBounded, updateIPv4Count, updateIPv6Count
<1>5. \A p \in Requests : CallInv(p)'
  BY <1>1, Growth DEF updateIPv4Count, updateIPv6Count
<1> QED
  BY <1>2, <1>3, <1>4, <1>5 DEF PoolInv

-----------------------------------------------------------------------------

(* A step of one call changes that call and perhaps a cursor.                *)
LEMMA OneCall ==
  ASSUME PoolInv, NEW p \in Requests,
         UNCHANGED <<len, count, hosts, expires, writer, ipv6, now>>,
         cursor' \in [Family -> Nat], CursorBounded',
         NEW c \in Calls, req' = [req EXCEPT ![p] = c],
         CallInv(p)'
  PROVE  PoolInv'
<1>1. TypeOK'
  BY DEF PoolInv, TypeOK
<1>2. CountsFollowLists'
  BY DEF PoolInv, CountsFollowLists
<1>3. ASSUME NEW q \in Requests PROVE CallInv(q)'
  <2>1. CASE q = p
    BY <2>1
  <2>2. CASE q # p
    <3>1. req'[q] = req[q]
      BY <2>2 DEF PoolInv, TypeOK
    <3> QED
      BY <3>1 DEF PoolInv, CallInv
  <2> QED
    BY <2>1, <2>2
<1> QED
  BY <1>1, <1>2, <1>3 DEF PoolInv

(* No step of exchange breaks the invariant.  The retry draws from a family  *)
(* the call saw a server in, so it finds one; the index is below a count     *)
(* that the list has reached.                                                *)
LEMMA ExchangeStep ==
  ASSUME PoolInv, NEW p \in Requests, exchange(p)
  PROVE  PoolInv'
<1> DEFINE me == req[p]
<1>1. /\ req \in [Requests -> Calls] /\ me \in Calls /\ CallInv(p)
      /\ cursor \in [Family -> Nat] /\ count \in [Family -> Nat]
      /\ len \in [Family -> Nat] /\ CursorBounded
      /\ \A f \in Family : count[f] <= len[f]
  BY DEF PoolInv, TypeOK, CountsFollowLists
<1>2. /\ me.fam \in Family /\ me.has \in SUBSET Family /\ me.idx \in Nat
      /\ me.of \in Nat /\ me.try \in {1, 2} /\ me.asked \in Nat \cup {-1}
  BY <1>1 DEF Calls
<1>3. CASE hasIPv4(p)
  <2> DEFINE c == [me EXCEPT !.has = IF count["v4"] > 0 THEN {"v4"} ELSE {}, !.pc = "has6"]
  <2>1. c \in Calls /\ req' = [req EXCEPT ![p] = c]
    BY <1>1, <1>3, ZenonT(30) DEF hasIPv4, Calls, Family
  <2>2. CallInv(p)' /\ CursorBounded'
    BY <1>1, <1>3, <2>1 DEF hasIPv4, CallInv, Calls, CursorBounded, poolVars
  <2> QED
    BY <1>1, <1>3, <2>1, <2>2, OneCall, Zenon DEF hasIPv4, poolVars
<1>4. CASE hasIPv6(p)
  <2> DEFINE has == me.has \cup (IF count["v6"] > 0 THEN {"v6"} ELSE {})
             c == [me EXCEPT !.has = has,
                             !.resp = IF has = {} THEN "error" ELSE "nil",
                             !.pc = IF has = {} THEN "return" ELSE "family"]
  <2>1. c \in Calls /\ req' = [req EXCEPT ![p] = c]
    BY <1>1, <1>4, ZenonT(30) DEF hasIPv6, Calls, Family
  <2>2. CallInv(p)' /\ CursorBounded'
    <3>1. UNCHANGED <<count, cursor>> /\ req'[p] = c /\ me.pc = "has6"
      BY <1>1, <1>4, <2>1, Zenon DEF hasIPv6, poolVars, At
    <3>2. /\ c.has = has /\ c.try = me.try
          /\ c.pc \in {"return", "family"}
          /\ c.pc = "family" => has # {}
          /\ c.pc = "return" => c.resp = "error"
      BY <1>1 DEF Calls
    <3>3. me.try = 1 /\ \A f \in has : count[f] > 0
      BY <1>1, <3>1 DEF CallInv
    <3> HIDE DEF c, has
    <3> QED
      BY <1>1, <3>1, <3>2, <3>3 DEF CallInv, CursorBounded
  <2> QED
    BY <1>1, <1>4, <2>1, <2>2, OneCall, ZenonT(30) DEF hasIPv6, poolVars
<1>5. CASE chooseFamily(p)
  <2> DEFINE c == [me EXCEPT !.fam = FirstFamily(p), !.pc = "check"]
  <2>1. c \in Calls /\ req' = [req EXCEPT ![p] = c] /\ me.pc = "family"
    BY <1>1, <1>5 DEF chooseFamily, FirstFamily, Calls, Family, At
  <2>2. me.try = 1
    BY <1>1, <2>1 DEF CallInv
  <2>3. CallInv(p)' /\ CursorBounded'
    BY <1>1, <1>2, <1>5, <2>1, <2>2
    DEF chooseFamily, CallInv, Calls, CursorBounded, poolVars
  <2> QED
    BY <1>1, <1>5, <2>1, <2>3, OneCall, Zenon DEF chooseFamily, poolVars
<1>6. CASE getCheck(p)
  <2> DEFINE c == [me EXCEPT !.pc = IF count[me.fam] > 0 THEN "load"
                                    ELSE AfterTry(p, me.resp)]
  <2>1. c \in Calls /\ req' = [req EXCEPT ![p] = c] /\ me.pc = "check"
    BY <1>1, <1>6 DEF getCheck, AfterTry, Calls, At
  <2>2. me.try = 2 => count[me.fam] > 0
    BY <1>1, <2>1 DEF CallInv
  <2>3. CallInv(p)' /\ CursorBounded'
    BY <1>1, <1>2, <1>6, <2>1, <2>2
    DEF getCheck, CallInv, Calls, CursorBounded, poolVars, AfterTry
  <2> QED
    BY <1>1, <1>6, <2>1, <2>3, OneCall, ZenonT(30) DEF getCheck, poolVars
<1>7. CASE getLoad(p)
  <2> DEFINE c == [me EXCEPT !.idx = cursor[me.fam], !.pc = "modulo"]
  <2>1. c \in Calls /\ req' = [req EXCEPT ![p] = c] /\ me.pc = "load"
    BY <1>1, <1>2, <1>7 DEF getLoad, Calls, At
  <2>2. CallInv(p)' /\ CursorBounded'
    BY <1>1, <1>2, <1>7, <2>1 DEF getLoad, CallInv, Calls, CursorBounded, poolVars
  <2> QED
    BY <1>1, <1>7, <2>1, <2>2, OneCall, Zenon DEF getLoad, poolVars
<1>8. CASE getModulo(p)
  <2> DEFINE i == me.idx % count[me.fam]
             c == [me EXCEPT !.of = count[me.fam], !.idx = i, !.pc = "store"]
  <2>1. me.pc = "modulo" /\ count[me.fam] \in Nat /\ count[me.fam] > 0
    BY <1>1, <1>2, <1>8 DEF getModulo, CallInv, At
  <2>2. i \in Nat /\ i < count[me.fam]
    BY <1>2, <2>1
  <2> HIDE DEF i
  <2>3. req' = [req EXCEPT ![p] = c]
    BY <1>1, <1>8, Zenon DEF getModulo, i
  <2>4. c \in Calls
    BY <1>1, <1>2, <2>1, <2>2, Zenon DEF Calls
  <2>5. CallInv(p)' /\ CursorBounded'
    <3>1. UNCHANGED <<count, cursor>> /\ req'[p] = c
      BY <1>1, <1>8, <2>3, Zenon DEF getModulo, poolVars
    <3>2. /\ c.pc = "store" /\ c.idx = i
          /\ c.fam = me.fam /\ c.has = me.has /\ c.try = me.try
      BY <1>1 DEF Calls
    <3> HIDE DEF c
    <3> QED
      BY <1>1, <2>1, <2>2, <3>1, <3>2 DEF CallInv, CursorBounded
  <2> QED
    BY <1>1, <1>8, <2>3, <2>4, <2>5, OneCall, Zenon DEF getModulo, poolVars
<1>9. CASE getStore(p)
  <2> DEFINE c == [me EXCEPT !.pc = "pick"]
  <2>1. c \in Calls /\ req' = [req EXCEPT ![p] = c] /\ me.pc = "store"
    BY <1>1, <1>9 DEF getStore, Calls, At
  <2>2. me.idx < count[me.fam]
    BY <1>1, <2>1 DEF CallInv
  <2>3. cursor' \in [Family -> Nat] /\ CursorBounded'
    BY <1>1, <1>2, <1>9, <2>2 DEF getStore, CursorBounded
  <2>4. CallInv(p)'
    BY <1>1, <1>2, <1>9, <2>1, <2>2 DEF getStore, CallInv, Calls
  <2> QED
    BY <1>1, <1>9, <2>1, <2>3, <2>4, OneCall, Zenon DEF getStore
<1>10. CASE getPick(p)
  <2>1. me.pc = "pick" /\ me.idx < len[me.fam]
    BY <1>1, <1>2, <1>10 DEF getPick, CallInv, At
  <2> DEFINE c == [me EXCEPT !.pc = "wait",
                             !.asked = IF me.try = 1 /\ me.fam = RetryFamily(p)
                                       THEN me.idx ELSE @]
  <2>2. req' = [req EXCEPT ![p] = c]
    BY <1>1, <1>10, <2>1, Zenon DEF getPick
  <2>3. c \in Calls
    BY <1>1, <1>2, Zenon DEF Calls
  <2>4. CallInv(p)' /\ CursorBounded'
    BY <1>1, <1>2, <1>10, <2>1, <2>2, <2>3
    DEF getPick, CallInv, Calls, CursorBounded, poolVars
  <2> QED
    BY <1>1, <1>10, <2>2, <2>3, <2>4, OneCall, Zenon DEF getPick, poolVars
<1>11. CASE serverExchange(p)
  <2>1. PICK resp \in {"good", "empty", "error"} :
          req' = [req EXCEPT ![p].resp = resp, ![p].pc = AfterTry(p, resp)]
    BY <1>11, Zenon DEF serverExchange
  <2> DEFINE c == [me EXCEPT !.resp = resp, !.pc = AfterTry(p, resp)]
  <2>2. c \in Calls /\ req' = [req EXCEPT ![p] = c] /\ me.pc = "wait"
    BY <1>1, <1>11, <2>1 DEF serverExchange, AfterTry, Calls, At
  <2>3. CallInv(p)' /\ CursorBounded'
    BY <1>1, <1>2, <1>11, <2>2
    DEF serverExchange, CallInv, Calls, CursorBounded, poolVars, AfterTry
  <2> QED
    BY <1>1, <1>11, <2>2, <2>3, OneCall, Zenon DEF serverExchange, poolVars
<1>12. CASE retry(p)
  <2> DEFINE c == [me EXCEPT !.fam = RetryFamily(p), !.try = 2, !.pc = "check"]
  <2>1. c \in Calls /\ req' = [req EXCEPT ![p] = c] /\ me.pc = "retry"
    BY <1>1, <1>12 DEF retry, RetryFamily, Calls, Family, At
  <2>2. RetryFamily(p) \in me.has
    BY <1>1, <1>2, <2>1 DEF CallInv, RetryFamily, Family
  <2>3. CallInv(p)' /\ CursorBounded'
    BY <1>1, <1>2, <1>12, <2>1, <2>2
    DEF retry, CallInv, Calls, CursorBounded, poolVars
  <2> QED
    BY <1>1, <1>12, <2>1, <2>3, OneCall, Zenon DEF retry, poolVars
<1>13. CASE return(p)
  <2>1. NoCall \in Calls /\ req' = [req EXCEPT ![p] = NoCall]
    BY <1>13 DEF return, NoCall, Calls, Family
  <2>2. CallInv(p)' /\ CursorBounded'
    BY <1>1, <1>13, <2>1 DEF return, CallInv, NoCall, CursorBounded, poolVars
  <2> QED
    BY <1>1, <1>13, <2>1, <2>2, OneCall, Zenon DEF return, poolVars
<1> QED
  BY <1>3, <1>4, <1>5, <1>6, <1>7, <1>8, <1>9, <1>10, <1>11, <1>12, <1>13 DEF exchange

-----------------------------------------------------------------------------

(* PoolInv is inductive.                                                     *)
LEMMA PoolStep == PoolInv /\ [Next]_vars => PoolInv'
<1> SUFFICES ASSUME PoolInv, [Next]_vars PROVE PoolInv'
  OBVIOUS
<1>1. CASE \E records \in AddressSets : enrich(records)
  BY <1>1, EnrichStep
<1>2. CASE updateIPv4Count \/ updateIPv6Count
  BY <1>2, CountStep
<1>3. CASE \E p \in Requests : exchange(p)
  BY <1>3, ExchangeStep
<1>4. CASE UpdateIPv6Availability \/ Tick \/ UNCHANGED vars
  <2>1. /\ UNCHANGED <<len, count, cursor, hosts, expires, writer, req>>
        /\ ipv6' \in BOOLEAN
        /\ now' \in Nat \ {0}
    BY <1>4 DEF UpdateIPv6Availability, Tick, vars, poolVars, PoolInv, TypeOK
  <2>2. TypeOK' /\ CountsFollowLists' /\ CursorBounded'
    BY <2>1 DEF PoolInv, TypeOK, CountsFollowLists, CursorBounded
  <2>3. \A p \in Requests : CallInv(p)'
    BY <2>1 DEF PoolInv, CallInv
  <2> QED
    BY <2>2, <2>3 DEF PoolInv
<1> QED
  BY <1>1, <1>2, <1>3, <1>4 DEF Next

(* The pool's invariant holds for every number of calls and every message.   *)
THEOREM PoolInvariant == Spec => []PoolInv
BY PoolInit, PoolStep, PTL DEF Spec

(* The cursors never pass the counts, every computed index lies inside its   *)
(* list, and exchange never ends on a nil response.                          *)
THEOREM PoolSafety == Spec => [](TypeOK /\ CursorBounded /\ IndexInBounds /\ NoNilResponse)
<1>1. PoolInv => TypeOK /\ CursorBounded /\ IndexInBounds /\ NoNilResponse
  <2> SUFFICES ASSUME PoolInv PROVE IndexInBounds /\ NoNilResponse
    BY DEF PoolInv
  <2>1. NoNilResponse
    BY DEF PoolInv, CallInv, NoNilResponse, At
  <2>2. ASSUME NEW p \in Requests, At(p, "store") \/ At(p, "pick")
        PROVE  req[p].idx < len[req[p].fam]
    <3>1. /\ req[p].fam \in Family /\ req[p].idx \in Nat
          /\ count \in [Family -> Nat] /\ len \in [Family -> Nat]
      BY DEF PoolInv, TypeOK, Calls
    <3>2. req[p].idx < count[req[p].fam] /\ count[req[p].fam] <= len[req[p].fam]
      BY <2>2, <3>1 DEF PoolInv, CallInv, CountsFollowLists, At
    <3> QED
      BY <3>1, <3>2
  <2> QED
    BY <2>1, <2>2 DEF IndexInBounds
<1> QED
  BY <1>1, PoolInvariant, PTL

(* exchange never hands on a nil response without an error (pool.go).        *)
THEOREM ResponsesAreThere == Spec => []NoNilResponse
BY PoolSafety, PTL

(* newNameserverPool and enrich: whatever the TTLs of the records, a pool    *)
(* expires within MaxAllowedTTL.                                             *)
THEOREM ExpiryIsCapped == Spec => []ExpiryCapped
<1>1. Init => ExpiryCapped
  <2> SUFFICES ASSUME Init, expires > 0 PROVE expires <= now + MaxAllowedTTL
    BY DEF ExpiryCapped
  <2>1. ~\E s \in RootSizes : buildRootServerPool(s)
    BY DEF buildRootServerPool
  <2>2. PICK D \in Delegations, A \in AddressSets : newNameserverPool(D, A)
    BY <2>1 DEF Init
  <2> DEFINE found == Matching(HostsOf(D), A)
  <2>3. \A r \in D \cup found : r.ttl \in Nat
    BY PoolAssumption DEF Matching
  <2>4. MinTTL(D \cup found) \in 0 .. MaxAllowedTTL
    <3> HIDE DEF found
    <3> QED BY <2>3, MinTTLBound
  <2>5. expires = now + MinTTL(D \cup found) /\ now = 1
    BY <2>2 DEF newNameserverPool, Init
  <2> QED
    <3> HIDE DEF found
    <3> QED BY <2>4, <2>5, PoolAssumption
<1>2. PoolInv /\ ExpiryCapped /\ [Next]_vars => ExpiryCapped'
  <2> SUFFICES ASSUME PoolInv, ExpiryCapped, [Next]_vars PROVE ExpiryCapped'
    OBVIOUS
  <2>1. ASSUME NEW A \in AddressSets, enrich(A) PROVE ExpiryCapped'
    <3>1. MinTTL(Matching(hosts, A)) \in 0 .. MaxAllowedTTL
      BY FoundTTL
    <3>2. expires' = (IF expires > 0 THEN now + MinTTL(Matching(hosts, A)) ELSE expires) /\ now' = now
      BY <2>1 DEF enrich
    <3> QED
      BY <3>1, <3>2, PoolAssumption DEF PoolInv, TypeOK, ExpiryCapped
  <2>2. ASSUME expires' = expires, now' = now \/ now' = now + 1 PROVE ExpiryCapped'
    BY <2>2, PoolAssumption DEF PoolInv, TypeOK, ExpiryCapped
  <2>3. CASE updateIPv4Count \/ updateIPv6Count \/ UpdateIPv6Availability \/ Tick \/ UNCHANGED vars
    BY <2>2, <2>3 DEF updateIPv4Count, updateIPv6Count, UpdateIPv6Availability, Tick, vars, poolVars
  <2>4. ASSUME NEW p \in Requests, exchange(p) PROVE ExpiryCapped'
    <3>1. UNCHANGED <<expires, now>>
      BY <2>4, Zenon DEF exchange, hasIPv4, hasIPv6, chooseFamily, getCheck, getLoad, getModulo, getStore,
         getPick, serverExchange, retry, return, poolVars
    <3> QED
      BY <2>2, <3>1
  <2> QED
    BY <2>1, <2>3, <2>4 DEF Next
<1> QED
  BY <1>1, <1>2, PoolInvariant, PTL DEF Spec

-----------------------------------------------------------------------------
(* The factory *)

(* Every step of the factory is a step of its pool, or leaves it alone.      *)
LEMMA FactoryPoolStep == [FactoryNext]_allVars => [Next]_vars
<1> SUFFICES ASSUME [FactoryNext]_allVars PROVE [Next]_vars
  OBVIOUS
<1>1. CASE createZone \/ enrichPool \/ enrichPoolDone \/ enrichPoolTimeout
  BY <1>1 DEF createZone, enrichPool, enrichPoolDone, enrichPoolTimeout
<1>2. CASE Worker
  BY <1>2 DEF Worker, workerNoAnswer, workerAnswer, workerCount4, workerCount6,
              workerDone, workerEnds, Next
<1>3. CASE \E p \in Requests : zoneExchange(p)
  BY <1>3 DEF zoneExchange, Next
<1>4. CASE Environment
  BY <1>4 DEF Environment, Next
<1>5. CASE UNCHANGED allVars
  BY <1>5 DEF allVars
<1> QED
  BY <1>1, <1>2, <1>3, <1>4, <1>5 DEF FactoryNext

(* The factory's pool is a pool in the sense of module Pool, so all that is  *)
(* proved of Spec holds of it.                                               *)
THEOREM FactoryImplementsPool == FactorySpec => Spec
<1>1. FactoryInit => Init
  BY DEF FactoryInit
<1> QED
  BY <1>1, FactoryPoolStep, PTL DEF FactorySpec, Spec

(* The counts of a pool never shrink.                                        *)
LEMMA CountsGrow ==
  ASSUME PoolInv, [Next]_vars
  PROVE  \A f \in Family : count[f] <= count'[f]
<1>1. CASE UNCHANGED count
  BY <1>1 DEF PoolInv, TypeOK
<1>2. CASE updateIPv4Count \/ updateIPv6Count
  BY <1>2 DEF PoolInv, TypeOK, CountsFollowLists, updateIPv4Count, updateIPv6Count, Family
<1>3. UNCHANGED count \/ updateIPv4Count \/ updateIPv6Count
  BY ZenonT(30) DEF Next, vars, poolVars, enrich, exchange, hasIPv4, hasIPv6, chooseFamily, getCheck,
         getLoad, getModulo, getStore, getPick, serverExchange, retry, return,
         UpdateIPv6Availability, Tick
<1> QED
  BY <1>1, <1>2, <1>3

(* A pool whose status lets a zone be created counts a server.               *)
LEMMA PrimedPoolCounts ==
  ASSUME PoolInv, writer = "none", status \in {"PoolPrimed", "PrimedButNeedsEnhancing"}
  PROVE  count["v4"] + count["v6"] > 0
<1>1. count = len /\ len["v4"] \in Nat /\ len["v6"] \in Nat
  BY DEF PoolInv, TypeOK, CountsFollowLists, Family
<1>2. ~(len["v4"] = 0 /\ len["v6"] = 0)
  BY DEF status
<1> QED
  BY <1>1, <1>2

-----------------------------------------------------------------------------

(* The part of FactoryInv that speaks of one query.                          *)
QueryInv(p) ==
  /\ ~At(p, "idle") => creator = "created"
  /\ At(p, "has6") => req[p].has # {} \/ count["v6"] > 0
  /\ At(p, "return") => req[p].has # {}

(* A step that touches no query keeps QueryInv, as counts only grow and a    *)
(* created zone stays created.                                               *)
LEMMA OtherSteps ==
  ASSUME FactoryInv, [Next]_vars, UNCHANGED req, creator = "created" => creator' = "created"
  PROVE  \A p \in Requests : QueryInv(p)'
<1>1. /\ count["v6"] \in Nat /\ count'["v6"] \in Nat /\ count["v6"] <= count'["v6"]
      /\ \A p \in Requests : QueryInv(p)
  BY CountsGrow, PoolStep DEF FactoryInv, PoolInv, TypeOK, Family, QueryInv
<1> QED
  BY <1>1 DEF QueryInv, At

(* A step of a query on a created zone keeps QueryInv.                       *)
LEMMA QuerySteps ==
  ASSUME FactoryInv, NEW p \in Requests, zoneExchange(p)
  PROVE  \A q \in Requests : QueryInv(q)'
<1> USE DEF FactoryInv, PoolInv, TypeOK
<1>1. /\ req \in [Requests -> Calls] /\ req[p] \in Calls /\ QueryInv(p) /\ CallInv(p)
      /\ count["v4"] \in Nat /\ count["v6"] \in Nat /\ count["v4"] + count["v6"] > 0
      /\ UNCHANGED creator /\ creator = "created"
  BY DEF QueryInv, zoneExchange, fvars, Family
<1>2. UNCHANGED count
  BY ZenonT(30) DEF zoneExchange, poolVars, exchange, hasIPv4, hasIPv6, chooseFamily, getCheck,
         getLoad, getModulo, getStore, getPick, serverExchange, retry, return
<1>3. \A q \in Requests \ {p} : req'[q] = req[q]
  BY <1>1, ZenonT(30) DEF zoneExchange, exchange, hasIPv4, hasIPv6, chooseFamily, getCheck,
         getLoad, getModulo, getStore, getPick, serverExchange, retry, return
<1>4. QueryInv(p)'
  <2>1. CASE hasIPv4(p)
    BY <1>1, <1>2, <2>1 DEF hasIPv4, QueryInv, At, Calls
  <2>2. CASE hasIPv6(p)
    <3>1. req'[p].pc \in {"family", "return"}
      BY <1>1, <2>2, ZenonT(30) DEF hasIPv6, Calls
    <3>2. req[p].has # {} \/ count["v6"] > 0
      BY <1>1, <2>2, ZenonT(30) DEF hasIPv6, QueryInv
    <3>3. req'[p].has # {}
      BY <1>1, <2>2, <3>2, ZenonT(30) DEF hasIPv6, Calls
    <3> QED
      BY <1>1, <3>1, <3>3 DEF QueryInv, At
  <2>3. CASE chooseFamily(p) \/ getCheck(p) \/ getLoad(p) \/ getModulo(p) \/ getStore(p)
               \/ getPick(p) \/ serverExchange(p) \/ retry(p)
    <3>1. req'[p].has = req[p].has
      BY <1>1, <2>3 DEF chooseFamily, getCheck, getLoad, getModulo, getStore, getPick,
                        serverExchange, retry, Calls
    <3>2. req'[p].pc # "has6"
      BY <1>1, <2>3, SMTT(20) DEF chooseFamily, getCheck, getLoad, getModulo, getStore, getPick,
                        serverExchange, retry, Calls, AfterTry
    <3>3. req[p].pc \notin {"idle", "has6", "return"}
      BY <2>3 DEF chooseFamily, getCheck, getLoad, getModulo, getStore, getPick,
                  serverExchange, retry, At
    <3>4. req[p].has # {}
      BY <1>1, <3>3 DEF CallInv
    <3> QED
      BY <1>1, <3>1, <3>2, <3>4 DEF QueryInv, At
  <2>4. CASE return(p)
    BY <1>1, <2>4 DEF return, NoCall, QueryInv, At
  <2> QED
    BY <2>1, <2>2, <2>3, <2>4 DEF zoneExchange, exchange
<1> QED
  BY <1>1, <1>2, <1>3, <1>4 DEF QueryInv, At

(* FactoryInv is inductive.                                                  *)
LEMMA FactoryStep == FactoryInv /\ [FactoryNext]_allVars => FactoryInv'
<1> SUFFICES ASSUME FactoryInv, [FactoryNext]_allVars PROVE FactoryInv'
  OBVIOUS
<1>1. PoolInv /\ PoolInv' /\ [Next]_vars
  BY FactoryPoolStep, PoolStep DEF FactoryInv
<1>2. /\ \A f \in Family : count[f] <= count'[f]
      /\ \A f \in Family : count[f] \in Nat /\ count'[f] \in Nat
  BY <1>1, CountsGrow DEF PoolInv, TypeOK
<1>3. creator' = "created" => count'["v4"] + count'["v6"] > 0
  <2>1. CASE creator = "created"
    BY <1>2, <2>1 DEF FactoryInv, Family
  <2>2. CASE creator # "created" /\ creator' = "created"
    <3>1. createZone \/ enrichPool \/ enrichPoolDone \/ enrichPoolTimeout
      BY <2>2, Zenon DEF FactoryNext, allVars, fvars, Worker, workerNoAnswer, workerAnswer,
                  workerCount4, workerCount6, workerDone, workerEnds, zoneExchange, Environment
    <3>2. writer = "none" /\ status \in {"PoolPrimed", "PrimedButNeedsEnhancing"}
      BY <2>2, <3>1 DEF createZone, enrichPool, enrichPoolDone, enrichPoolTimeout,
                        enrichPoolReturns
    <3> QED
      BY <1>1, <1>2, <3>2, PrimedPoolCounts DEF Family
  <2> QED
    BY <2>1, <2>2
<1>4. \A p \in Requests : QueryInv(p)'
  <2>1. CASE \E p \in Requests : zoneExchange(p)
    BY <2>1, QuerySteps
  <2>2. CASE ~\E p \in Requests : zoneExchange(p)
    <3>1. UNCHANGED req
      BY <2>2 DEF FactoryNext, allVars, vars, enrichPool, Worker, workerNoAnswer, workerAnswer,
                  workerCount4, workerCount6, workerDone, workerEnds, Environment, createZone,
                  enrichPoolDone, enrichPoolTimeout, enrich, updateIPv4Count, updateIPv6Count,
                  UpdateIPv6Availability, Tick
    <3>2. creator = "created" => creator' = "created"
      BY <2>2 DEF FactoryNext, allVars, fvars, enrichPool, Worker, workerNoAnswer, workerAnswer,
                  workerCount4, workerCount6, workerDone, workerEnds, Environment, createZone,
                  enrichPoolDone, enrichPoolTimeout, enrichPoolReturns
    <3> QED
      BY <1>1, <3>1, <3>2, OtherSteps
  <2> QED
    BY <2>1, <2>2
<1> QED
  BY <1>1, <1>3, <1>4 DEF FactoryInv, QueryInv

(* A zone createZone hands out always has a server, and no query to it ends  *)
(* with ErrNoPoolConfiguredForZone.                                          *)
THEOREM FactorySafety == FactorySpec => []CreatedZoneUsable
<1>1. FactoryInit => FactoryInv
  <2> SUFFICES ASSUME FactoryInit PROVE FactoryInv
    OBVIOUS
  <2>1. PoolInv
    BY PoolInit DEF FactoryInit
  <2> QED
    BY <2>1 DEF FactoryInit, FactoryInv, Init, NoCall, At
<1>2. FactoryInv => CreatedZoneUsable
  BY DEF FactoryInv, CreatedZoneUsable
<1> QED
  BY <1>1, <1>2, FactoryStep, PTL DEF FactorySpec

-----------------------------------------------------------------------------
(* Nobody waits in vain *)

(* A caller that waits in createZone has enrichPool under way; a worker that *)
(* sends on done finds the waiter in its select, unless the time-out of that *)
(* select has fired; and the pool is locked only by a worker in the middle   *)
(* of pool.enrich, which needs nobody to go on (zone_factory.go).            *)
WaitsAreServed ==
  /\ creator = "waiting" => waiter \in {"begin", "select", "check"}
  /\ worker = "send" => waiter \in {"select", "timedout"}
  /\ writer # "none" <=> worker = "enriching"

(* The inductive invariant behind it: the waiter leaves its select by done   *)
(* only after the worker's flag was set, and a second send never happens.    *)
HandoverInv ==
  /\ WaitsAreServed
  /\ creator = "start" => waiter = "none"
  /\ waiter \in {"none", "begin"} => worker = "none"
  /\ worker \in {"ask", "enriching", "send"} => doneCalled \/ waiter \in {"select", "timedout"}
  /\ worker = "send" => ~doneCalled

(* Every step of the factory keeps it.                                       *)
LEMMA HandoverStep == HandoverInv /\ [FactoryNext]_allVars => HandoverInv'
<1> SUFFICES ASSUME HandoverInv, [FactoryNext]_allVars PROVE HandoverInv'
  OBVIOUS
<1> USE DEF HandoverInv, WaitsAreServed
<1>1. CASE createZone
  BY <1>1 DEF createZone, vars, poolVars
<1>2. CASE enrichPool
  BY <1>2 DEF enrichPool, enrichPoolReturns, vars, poolVars
<1>3. CASE workerNoAnswer \/ workerEnds
  BY <1>3 DEF workerNoAnswer, workerEnds, vars, poolVars
<1>4. CASE workerAnswer
  BY <1>4 DEF workerAnswer, enrich
<1>5. CASE workerCount4
  BY <1>5 DEF workerCount4, updateIPv4Count, fvars
<1>6. CASE workerCount6
  BY <1>6 DEF workerCount6, updateIPv6Count
<1>7. CASE workerDone
  BY <1>7 DEF workerDone, vars, poolVars
<1>8. CASE enrichPoolDone
  BY <1>8 DEF enrichPoolDone, enrichPoolReturns, vars, poolVars
<1>9. CASE enrichPoolTimeout
  BY <1>9 DEF enrichPoolTimeout, enrichPoolReturns, vars, poolVars
<1>10. CASE \/ UNCHANGED allVars \/ Environment \/ \E p \in Requests : zoneExchange(p)
  <2>1. UNCHANGED writer
    BY <1>10, ZenonT(30)
    DEF allVars, vars, poolVars, Environment, UpdateIPv6Availability, Tick, zoneExchange, exchange,
        hasIPv4, hasIPv6, chooseFamily, getCheck, getLoad, getModulo, getStore, getPick,
        serverExchange, retry, return
  <2>2. UNCHANGED fvars
    BY <1>10, Zenon DEF allVars, Environment, zoneExchange
  <2> QED
    BY <2>1, <2>2 DEF fvars
<1> QED
  BY <1>1, <1>2, <1>3, <1>4, <1>5, <1>6, <1>7, <1>8, <1>9, <1>10, Zenon DEF FactoryNext, Worker

(* However the time-out, the worker's answers and the queries interleave,    *)
(* only the time-out can leave a worker behind, and it leaves nobody else.   *)
THEOREM FactoryNeverStuck == FactorySpec => []WaitsAreServed
<1>1. FactoryInit => HandoverInv
  BY DEF FactoryInit, Init, HandoverInv, WaitsAreServed
<1>2. HandoverInv => WaitsAreServed
  BY DEF HandoverInv
<1> QED
  BY <1>1, <1>2, HandoverStep, PTL DEF FactorySpec

-----------------------------------------------------------------------------
(* A query runs out of steps *)

CallOrder ==
  [idle |-> 0, return |-> 1, retry |-> 2, wait |-> 3, pick |-> 4, store |-> 5, modulo |-> 6,
   load |-> 7, check |-> 8, family |-> 9, has6 |-> 10]

(* What is left of a call of exchange: the steps of its first try come       *)
(* before those of its second.                                               *)
CallRank(c) ==
  IF c.pc = "idle" THEN 0 ELSE CallOrder[c.pc] + (IF c.try = 1 THEN 7 ELSE 0)

(* A call takes at most 17 steps after its first, and tries two servers at   *)
(* most: each step of its own brings it nearer its return, and no enrichment,*)
(* probe or other call sets it back (pool_exchange.go: exchange).            *)
CallsRunOut ==
  \A p \in Requests :
    \/ req'[p] = req[p]
    \/ At(p, "idle") /\ CallRank(req'[p]) = 17
    \/ CallRank(req'[p]) < CallRank(req[p])

(* A call whose second try failed does not try again.                        *)
RetryOnce == \A p \in Requests : At(p, "retry") => req[p].try = 1

(* What one step does to the call that takes it.                             *)
LEMMA CallStep ==
  ASSUME PoolInv, RetryOnce, NEW p \in Requests, exchange(p)
  PROVE  /\ \A q \in Requests \ {p} : req'[q] = req[q]
         /\ \/ At(p, "idle") /\ CallRank(req'[p]) = 17
            \/ CallRank(req'[p]) < CallRank(req[p])
         /\ req'[p].pc = "retry" => req'[p].try = 1
<1>1. req \in [Requests -> Calls] /\ req[p] \in Calls /\ CallInv(p)
  BY DEF PoolInv, TypeOK
<1>2. \A q \in Requests \ {p} : req'[q] = req[q]
  BY <1>1, ZenonT(30) DEF exchange, hasIPv4, hasIPv6, chooseFamily, getCheck,
         getLoad, getModulo, getStore, getPick, serverExchange, retry, return
<1>3. ASSUME NEW a \in {"has6", "family", "check", "load", "modulo", "store", "pick", "wait"},
             NEW b \in {"family", "check", "load", "modulo", "store", "pick", "wait", "retry",
                        "return"},
             req[p].pc = a, req'[p].pc = b, req'[p].try = req[p].try,
             CallOrder[b] < CallOrder[a], b = "retry" => req[p].try = 1
      PROVE  /\ CallRank(req'[p]) < CallRank(req[p])
             /\ req'[p].pc = "retry" => req'[p].try = 1
  <2>1. CallOrder[a] \in Int /\ CallOrder[b] \in Int /\ a # "idle" /\ b # "idle"
    BY DEF CallOrder
  <2> QED
    BY <1>3, <2>1 DEF CallRank
<1>4. CASE hasIPv4(p)
  <2>1. req[p].pc = "idle" /\ req[p].try = 1
    BY <1>1, <1>4 DEF hasIPv4, At, CallInv
  <2>2. req'[p].pc = "has6" /\ req'[p].try = req[p].try
    BY <1>1, <1>4 DEF hasIPv4, Calls
  <2> QED
    BY <1>2, <2>1, <2>2 DEF At, CallRank, CallOrder
<1>5. CASE hasIPv6(p)
  <2>1. req[p].pc = "has6"
    BY <1>5, Zenon DEF hasIPv6, At
  <2>2. req'[p].pc \in {"family", "return"} /\ req'[p].try = req[p].try
    BY <1>1, <1>5, ZenonT(30) DEF hasIPv6, Calls
  <2>3. CallOrder[req'[p].pc] < CallOrder["has6"]
    BY <2>2 DEF CallOrder
  <2> QED
    BY <1>2, <1>3, <2>1, <2>2, <2>3
<1>6. CASE chooseFamily(p) \/ getLoad(p) \/ getModulo(p) \/ getStore(p)
  <2>1. /\ \/ req[p].pc = "family" /\ req'[p].pc = "check"
           \/ req[p].pc = "load" /\ req'[p].pc = "modulo"
           \/ req[p].pc = "modulo" /\ req'[p].pc = "store"
           \/ req[p].pc = "store" /\ req'[p].pc = "pick"
        /\ req'[p].try = req[p].try
    BY <1>1, <1>6 DEF chooseFamily, getLoad, getModulo, getStore, At, Calls
  <2>2. CallOrder[req'[p].pc] < CallOrder[req[p].pc]
    BY <2>1 DEF CallOrder
  <2> QED
    BY <1>2, <1>3, <2>1, <2>2
<1>7. CASE getCheck(p) \/ getPick(p) \/ serverExchange(p)
  <2>1. /\ \/ req[p].pc = "check" /\ req'[p].pc = "load"
           \/ req[p].pc = "pick" /\ req'[p].pc = "wait"
           \/ /\ req[p].pc \in {"check", "pick", "wait"}
              /\ \E resp \in {"nil", "good", "empty", "error"} : req'[p].pc = AfterTry(p, resp)
        /\ req'[p].try = req[p].try
    BY <1>1, <1>7 DEF getCheck, getPick, serverExchange, At, Calls
  <2>2. ASSUME NEW resp
        PROVE  \/ AfterTry(p, resp) = "return"
               \/ AfterTry(p, resp) = "retry" /\ req[p].try = 1
    BY DEF AfterTry
  <2>3. CallOrder[req'[p].pc] < CallOrder[req[p].pc]
    BY <2>1, <2>2 DEF CallOrder
  <2> QED
    BY <1>2, <1>3, <2>1, <2>2, <2>3
<1>8. CASE retry(p)
  <2>1. req[p].pc = "retry" /\ req[p].try = 1
    BY <1>8 DEF retry, At, RetryOnce
  <2>2. req'[p].pc = "check" /\ req'[p].try = 2
    BY <1>1, <1>8 DEF retry, Calls
  <2> QED
    BY <1>2, <2>1, <2>2 DEF CallRank, CallOrder
<1>9. CASE return(p)
  <2>1. req[p].pc = "return" /\ req'[p].pc = "idle"
    BY <1>1, <1>9 DEF return, At, NoCall
  <2> QED
    BY <1>2, <2>1 DEF CallRank, CallOrder
<1> QED
  BY <1>4, <1>5, <1>6, <1>7, <1>8, <1>9, Zenon DEF exchange

(* Every query ends after a bounded number of its own steps, for any number  *)
(* of concurrent queries and any changes to the pool.                        *)
THEOREM QueriesRunOut == Spec => [][CallsRunOut]_vars
<1>1. Init => RetryOnce
  BY DEF Init, NoCall, RetryOnce, At
<1>2. PoolInv /\ RetryOnce /\ [Next]_vars => RetryOnce' /\ [CallsRunOut]_vars
  <2> SUFFICES ASSUME PoolInv, RetryOnce, [Next]_vars PROVE RetryOnce' /\ CallsRunOut
    BY Zenon
  <2>1. CASE UNCHANGED req
    BY <2>1, Zenon DEF RetryOnce, CallsRunOut, At
  <2>2. ASSUME NEW p \in Requests, exchange(p) PROVE RetryOnce' /\ CallsRunOut
    BY <2>2, CallStep, Zenon DEF RetryOnce, CallsRunOut, At
  <2> QED
    BY <2>1, <2>2, Zenon DEF Next, vars, enrich, updateIPv4Count, updateIPv6Count,
                             UpdateIPv6Availability, Tick
<1> QED
  BY <1>1, <1>2, PoolInvariant, PTL DEF Spec

-----------------------------------------------------------------------------
(* One query alone *)

(* What is known of the first try while the query goes on: where the cursor  *)
(* of the family is that a retry uses, and what the retry makes of it.       *)
RetryInv(p) ==
  LET me == req[p]
      f  == RetryFamily(p)
  IN  /\ me.pc \in {"idle", "has6", "family"} => me.asked = -1
      /\ me.try = 1 /\ me.pc \in {"check", "load", "modulo", "store", "pick"} => me.asked = -1
      /\ me.pc = "retry" => me.try = 1
      /\ me.try = 1 /\ me.pc = "pick" => cursor[me.fam] = me.idx + 1
      /\ me.try = 2 /\ me.pc \in {"check", "load", "modulo", "store"} => me.fam = f
      /\ me.asked # -1 =>
           /\ me.asked < count[f]
           /\ me.pc \in {"wait", "retry", "return"} /\ me.try = 1 => cursor[f] = me.asked + 1
           /\ me.pc \in {"check", "load"} => cursor[f] = me.asked + 1
           /\ me.pc = "modulo" => me.idx = me.asked + 1
           /\ me.pc = "store" /\ me.of > 1 => me.idx # me.asked

(* The successor of an index, modulo a count that has not shrunk since, is   *)
(* another index.                                                            *)
LEMMA NextIndexDiffers ==
  ASSUME NEW a \in Nat, NEW n \in Nat, a < n, n > 1
  PROVE  (a + 1) % n # a
<1>1. CASE a + 1 < n
  BY <1>1
<1>2. CASE a + 1 = n
  BY <1>2
<1> QED
  BY <1>1, <1>2

(* Nothing but the query itself moves the cursor.                            *)
LEMMA RetryKept ==
  ASSUME PoolInv, PoolInv', [Next]_vars, NEW p \in Requests, RetryInv(p), UNCHANGED <<req, cursor>>
  PROVE  RetryInv(p)'
<1>1. /\ RetryFamily(p) \in Family /\ RetryFamily(p)' = RetryFamily(p)
      /\ \A f \in Family : count[f] \in Nat /\ count'[f] \in Nat /\ count[f] <= count'[f]
      /\ req[p].asked \in Nat \cup {-1}
  BY CountsGrow DEF PoolInv, TypeOK, RetryFamily, Family, Calls
<1> QED
  BY <1>1 DEF RetryInv

(* The steps of the query.                                                   *)
LEMMA RetryStep ==
  ASSUME PoolInv, NEW p \in Requests, RetryInv(p), exchange(p)
  PROVE  RetryInv(p)'
<1>1. /\ req \in [Requests -> Calls] /\ req[p] \in Calls /\ CallInv(p)
      /\ count \in [Family -> Nat] /\ cursor \in [Family -> Nat] /\ len \in [Family -> Nat]
  BY DEF PoolInv, TypeOK
<1>2. CASE hasIPv4(p) \/ hasIPv6(p) \/ return(p)
  <2>1. req'[p].asked = -1 /\ req'[p].try = 1 /\ req'[p].pc \in {"idle", "has6", "family", "return"}
    <3>1. CASE hasIPv4(p)
      BY <1>1, <3>1 DEF hasIPv4, RetryInv, CallInv, At, Calls
    <3>2. CASE hasIPv6(p)
      <4>1. req[p].pc = "has6" /\ req[p].asked = -1 /\ req[p].try = 1
        BY <1>1, <3>2, ZenonT(30) DEF hasIPv6, RetryInv, CallInv, At
      <4> QED
        BY <1>1, <3>2, <4>1, ZenonT(30) DEF hasIPv6, Calls
    <3>3. CASE return(p)
      BY <1>1, <3>3 DEF return, NoCall
    <3> QED
      BY <1>2, <3>1, <3>2, <3>3
  <2> QED
    BY <2>1 DEF RetryInv
<1>3. CASE chooseFamily(p)
  <2>1. req'[p].asked = -1 /\ req'[p].try = 1 /\ req'[p].pc = "check"
    BY <1>1, <1>3 DEF chooseFamily, RetryInv, CallInv, At, Calls
  <2> QED
    BY <2>1 DEF RetryInv
<1>4. RetryFamily(p) \in Family /\ (~hasIPv4(p) /\ ~hasIPv6(p) /\ ~return(p) => RetryFamily(p)' = RetryFamily(p))
  <2>1. ~hasIPv4(p) /\ ~hasIPv6(p) /\ ~return(p) => req'[p].has = req[p].has
    BY <1>1 DEF exchange, chooseFamily, getCheck, getLoad, getModulo, getStore, getPick, serverExchange, retry, Calls
  <2> QED
    BY <2>1 DEF RetryFamily, Family
<1>5. CASE getCheck(p)
  <2>1. /\ req[p].pc = "check" /\ UNCHANGED <<count, cursor>>
        /\ req' = [req EXCEPT ![p].pc = IF count[req[p].fam] > 0 THEN "load" ELSE AfterTry(p, req[p].resp)]
    BY <1>5 DEF getCheck, At, poolVars
  <2>2. req'[p] = [req[p] EXCEPT !.pc = IF count[req[p].fam] > 0 THEN "load" ELSE AfterTry(p, req[p].resp)]
    BY <1>1, <2>1
  <2>3. req[p].try = 1 => AfterTry(p, req[p].resp) \in {"retry", "return"}
    BY DEF AfterTry
  <2>4. req[p].try # 1 => req[p].try = 2 /\ AfterTry(p, req[p].resp) = "return"
    BY <1>1 DEF AfterTry, Calls
  <2> QED
    BY <1>1, <1>4, <1>5, <2>1, <2>2, <2>3, <2>4 DEF RetryInv, Calls, getCheck, hasIPv4, hasIPv6, return, At
<1>6. CASE getLoad(p)
  <2>1. /\ req[p].pc = "load" /\ UNCHANGED <<count, cursor>>
        /\ req'[p] = [req[p] EXCEPT !.idx = cursor[req[p].fam], !.pc = "modulo"]
    BY <1>1, <1>6 DEF getLoad, At, poolVars
  <2> QED
    BY <1>1, <1>4, <2>1 DEF RetryInv, Calls, hasIPv4, hasIPv6, return, At
<1>7. CASE getModulo(p)
  <2>1. /\ req[p].pc = "modulo" /\ UNCHANGED <<count, cursor>>
        /\ req'[p] = [req[p] EXCEPT !.of = count[req[p].fam], !.idx = @ % count[req[p].fam], !.pc = "store"]
    BY <1>1, <1>7 DEF getModulo, At, poolVars
  <2>2. /\ req[p].fam \in Family /\ count[req[p].fam] \in Nat /\ req[p].asked \in Nat \cup {-1}
        /\ req[p].try \in {1, 2}
    BY <1>1 DEF Calls
  <2>3. req[p].asked # -1 => req[p].try = 2 /\ req[p].fam = RetryFamily(p)
                            /\ req[p].idx = req[p].asked + 1 /\ req[p].asked < count[req[p].fam]
    BY <2>1, <2>2 DEF RetryInv
  <2>4. req[p].asked # -1 /\ count[req[p].fam] > 1 => req[p].idx % count[req[p].fam] # req[p].asked
    BY <2>2, <2>3, NextIndexDiffers
  <2>5. /\ req'[p].of = count[req[p].fam] /\ req'[p].idx = req[p].idx % count[req[p].fam]
        /\ req'[p].pc = "store" /\ req'[p].asked = req[p].asked /\ req'[p].try = req[p].try
        /\ req'[p].fam = req[p].fam
    BY <1>1, <2>1 DEF Calls
  <2> QED
    BY <1>4, <2>1, <2>2, <2>3, <2>4, <2>5 DEF RetryInv, hasIPv4, hasIPv6, return, At
<1>8. CASE getStore(p)
  <2>1. /\ req[p].pc = "store" /\ UNCHANGED count
        /\ cursor' = [cursor EXCEPT ![req[p].fam] = req[p].idx + 1]
        /\ req'[p] = [req[p] EXCEPT !.pc = "pick"]
    BY <1>1, <1>8 DEF getStore, At
  <2> QED
    BY <1>1, <1>4, <2>1 DEF RetryInv, Calls, hasIPv4, hasIPv6, return, At
<1>9. CASE getPick(p)
  <2> DEFINE me == req[p]
  <2>1. /\ me.pc = "pick" /\ UNCHANGED <<count, cursor>>
        /\ req'[p] = [me EXCEPT
             !.pc = IF me.idx < len[me.fam] THEN "wait" ELSE AfterTry(p, me.resp),
             !.asked = IF me.try = 1 /\ me.idx < len[me.fam] /\ me.fam = RetryFamily(p)
                       THEN me.idx ELSE @]
    BY <1>1, <1>9 DEF getPick, At, poolVars
  <2>2. req'[p].pc \in {"wait", "retry", "return"} /\ req'[p].try = me.try /\ (req'[p].pc = "retry" => me.try = 1)
    BY <1>1, <2>1 DEF AfterTry, Calls
  <2>3. CASE me.try = 1
    <3>1. me.asked = -1 /\ cursor[me.fam] = me.idx + 1 /\ me.idx < count[me.fam]
      BY <1>1, <2>1, <2>3 DEF RetryInv, CallInv
    <3>2. req'[p].asked = -1 \/ (req'[p].asked = me.idx /\ me.fam = RetryFamily(p))
      BY <1>1, <2>1, <3>1 DEF Calls
    <3> QED
      BY <1>1, <1>4, <2>1, <2>2, <2>3, <3>1, <3>2 DEF RetryInv, Calls, hasIPv4, hasIPv6, return, At
  <2>4. CASE me.try = 2
    <3>1. req'[p].asked = me.asked
      BY <1>1, <2>1, <2>4 DEF Calls
    <3> QED
      BY <1>1, <1>4, <2>1, <2>2, <2>4, <3>1 DEF RetryInv, Calls, hasIPv4, hasIPv6, return, At
  <2> QED
    BY <1>1, <2>3, <2>4 DEF Calls
<1>10. CASE serverExchange(p)
  <2>1. PICK r \in {"good", "empty", "error"} :
          req'[p] = [req[p] EXCEPT !.resp = r, !.pc = AfterTry(p, r)]
    BY <1>1, <1>10, ZenonT(30) DEF serverExchange
  <2>2. /\ req[p].pc = "wait" /\ UNCHANGED <<count, cursor>> /\ req'[p].pc \in {"retry", "return"}
        /\ req'[p].try = req[p].try /\ req'[p].asked = req[p].asked
        /\ req'[p].pc = "retry" => req[p].try = 1
    BY <1>1, <1>10, <2>1 DEF serverExchange, At, poolVars, AfterTry, Calls
  <2> QED
    BY <1>1, <1>4, <2>2 DEF RetryInv, Calls, hasIPv4, hasIPv6, return, At
<1>11. CASE retry(p)
  <2>1. /\ req[p].pc = "retry" /\ UNCHANGED <<count, cursor>>
        /\ req'[p] = [req[p] EXCEPT !.fam = RetryFamily(p), !.try = 2, !.pc = "check"]
    BY <1>1, <1>11 DEF retry, At, poolVars
  <2>2. req[p].try = 1
    BY <2>1 DEF RetryInv
  <2> QED
    BY <1>1, <1>4, <2>1, <2>2 DEF RetryInv, Calls, hasIPv4, hasIPv6, return, At
<1> QED
  BY <1>2, <1>3, <1>5, <1>6, <1>7, <1>8, <1>9, <1>10, <1>11 DEF exchange

(* "If we have more than one nameserver, this will try a different one."     *)
(* (pool_exchange.go:39): of a query that has the pool to itself, whatever   *)
(* is added to the pool between its two tries.                               *)
THEOREM RetryAlone ==
  ASSUME \A p, q \in Requests : p = q
  PROVE  Spec => []RetryTriesAnother
<1> DEFINE I == PoolInv /\ \A p \in Requests : RetryInv(p)
<1>1. Init => I
  BY PoolInit DEF Init, NoCall, RetryInv
<1>2. I /\ [Next]_vars => I'
  <2> SUFFICES ASSUME I, [Next]_vars PROVE I'
    OBVIOUS
  <2>1. PoolInv'
    BY PoolStep
  <2>2. CASE \E p \in Requests : exchange(p)
    BY <2>1, <2>2, RetryStep
  <2>3. CASE UNCHANGED <<req, cursor>>
    BY <2>1, <2>3, RetryKept
  <2> QED
    BY <2>1, <2>2, <2>3 DEF Next, vars, poolVars, enrich, updateIPv4Count, updateIPv6Count, UpdateIPv6Availability, Tick
<1>3. I => RetryTriesAnother
  BY DEF PoolInv, TypeOK, Calls, RetryInv, RetryTriesAnother, At
<1> QED
  BY <1>1, <1>2, <1>3, PTL DEF Spec
=============================================================================
