---------------------------- MODULE DenialProofs ----------------------------
(***************************************************************************)
(* What the checks of module Denial say of the zone that a response came   *)
(* from, and that they accept what a zone sends.                           *)
(*                                                                         *)
(* Absence.  With NSEC3 a chain holds all ancestors of what is in it, and  *)
(* hashes tell names apart: a covered name, and all below it, is absent.   *)
(* With NSEC the next record is the least one after, and canonicalCmp is   *)
(* the order of names: nothing lies between.                               *)
(*                                                                         *)
(* Acceptance.  A zone and the ancestors of its names are finite, so that  *)
(* the record before a name exists; held records match or cover what they  *)
(* were sent for, and the closest encloser the code finds is the right one.*)
(***************************************************************************)
EXTENDS Denial, TLAPS, FiniteSetTheorems

(* The least of a set of numbers. *)
LEMMA LeastNat ==
  ASSUME NEW S \in SUBSET Nat, S # {}
  PROVE  \E x \in S : \A y \in S : x <= y
<1> DEFINE less == {p \in Nat \X Nat : p[1] < p[2]}
<1>1. IsWellFoundedOn(less, Nat)
  BY NatLessThanWellFounded, Zenon DEF OpToRel
<1>2. PICK x \in S : \A y \in S : <<y, x>> \notin less
  <2> HIDE DEF less
  <2> QED
    BY <1>1, WFMin, Zenon
<1>3. ASSUME NEW y \in S
      PROVE  x <= y
  <2>1. <<y, x>> \notin less /\ <<y, x>> \in Nat \X Nat /\ x \in Nat /\ y \in Nat
    BY <1>2
  <2>2. ~(y < x)
    BY <2>1
  <2> QED
    BY <2>1, <2>2
<1> QED
  BY <1>3

-----------------------------------------------------------------------------
(* Names *)

(* The first k labels of a name. *)
LEMMA Prefix ==
  ASSUME NEW n \in Seq(Nat), NEW k \in 0..Len(n)
  PROVE  /\ SubSeq(n, 1, k) \in Seq(Nat) /\ Len(SubSeq(n, 1, k)) = k
         /\ \A i \in 1..k : SubSeq(n, 1, k)[i] = n[i]
OBVIOUS

(* Names are equal if their labels are. *)
LEMMA SameName ==
  ASSUME NEW a \in Seq(Nat), NEW b \in Seq(Nat), Len(a) = Len(b), \A i \in 1..Len(a) : a[i] = b[i]
  PROVE  a = b
OBVIOUS

(* An ancestor is a name with the same first labels. *)
LEMMA AncestorLabels ==
  ASSUME NEW a \in Seq(Nat), NEW n \in Seq(Nat)
  PROVE  IsAncestor(a, n) <=> Len(a) <= Len(n) /\ \A i \in 1..Len(a) : a[i] = n[i]
<1>1. ASSUME IsAncestor(a, n)
      PROVE  Len(a) <= Len(n) /\ \A i \in 1..Len(a) : a[i] = n[i]
  BY <1>1, Prefix DEF IsAncestor
<1>2. ASSUME Len(a) <= Len(n), \A i \in 1..Len(a) : a[i] = n[i]
      PROVE  IsAncestor(a, n)
  <2>1. Len(a) \in 0..Len(n)
    BY <1>2
  <2>2. /\ SubSeq(n, 1, Len(a)) \in Seq(Nat) /\ Len(SubSeq(n, 1, Len(a))) = Len(a)
        /\ \A i \in 1..Len(a) : SubSeq(n, 1, Len(a))[i] = n[i]
    BY <2>1, Prefix
  <2>3. SubSeq(n, 1, Len(a)) = a
    BY <1>2, <2>2, SameName
  <2> QED
    BY <1>2, <2>3 DEF IsAncestor
<1> QED
  BY <1>1, <1>2

(* The members of Ancestors are ancestors, one for each length. *)
LEMMA AncestorsAre ==
  ASSUME NEW n \in Seq(Nat), NEW a \in Ancestors(n)
  PROVE  /\ a \in Seq(Nat) /\ Len(a) \in 0..Len(n) /\ IsAncestor(a, n)
         /\ a = SubSeq(n, 1, Len(a))
<1>1. PICK k \in 0..Len(n) : a = SubSeq(n, 1, k)
  BY DEF Ancestors
<1>2. a \in Seq(Nat) /\ Len(a) = k
  BY <1>1, Prefix
<1> QED
  BY <1>1, <1>2 DEF IsAncestor

(* Of two ancestors of a name the shorter is one of the longer. *)
LEMMA Nested ==
  ASSUME NEW n \in Seq(Nat), NEW a \in Ancestors(n), NEW b \in Ancestors(n), Len(a) <= Len(b)
  PROVE  IsAncestor(a, b)
<1>1. a \in Seq(Nat) /\ b \in Seq(Nat) /\ IsAncestor(a, n) /\ IsAncestor(b, n)
  BY AncestorsAre
<1>2. (\A i \in 1..Len(a) : a[i] = n[i]) /\ (\A i \in 1..Len(b) : b[i] = n[i])
  BY <1>1, AncestorLabels
<1>3. \A i \in 1..Len(a) : i \in 1..Len(b)
  BY <1>1
<1>4. \A i \in 1..Len(a) : a[i] = b[i]
  BY <1>2, <1>3
<1> QED
  BY <1>1, <1>4, AncestorLabels

(* Ancestors of ancestors are ancestors. *)
LEMMA AncestorTrans ==
  ASSUME NEW a \in Seq(Nat), NEW b \in Seq(Nat), NEW c \in Seq(Nat), IsAncestor(a, b), IsAncestor(b, c)
  PROVE  IsAncestor(a, c)
<1>1. Len(a) <= Len(b) /\ Len(b) <= Len(c) /\ (\A i \in 1..Len(a) : a[i] = b[i]) /\ (\A i \in 1..Len(b) : b[i] = c[i])
  BY AncestorLabels
<1>2. Len(a) <= Len(c) /\ \A i \in 1..Len(a) : i \in 1..Len(b)
  BY <1>1
<1>3. \A i \in 1..Len(a) : a[i] = c[i]
  BY <1>1, <1>2
<1> QED
  BY <1>2, <1>3, AncestorLabels

-----------------------------------------------------------------------------
Scenario ==
  /\ resp.zone \in Zones /\ resp.hash \in Hashes /\ resp.name \in QNames /\ resp.method \in Methods
  /\ resp.records \subseteq Chain(resp.zone, resp.method, resp.hash)

(* Where the next hash is. *)
LEMMA NextHashIs ==
  ASSUME NEW hs \in SUBSET Nat, NEW x \in hs
  PROVE  /\ NextHash(hs, x) \in hs
         /\ \A y \in hs : x < y => x < NextHash(hs, x) /\ NextHash(hs, x) <= y
         /\ (\A y \in hs : ~(x < y)) => \A y \in hs : NextHash(hs, x) <= y
<1> DEFINE above == {y \in hs : x < y}
<1> DEFINE rest == IF above = {} THEN hs ELSE above
<1>1. rest \in SUBSET Nat /\ rest # {}
  BY Zenon
<1>2. NextHash(hs, x) = CHOOSE y \in rest : \A k \in rest : y <= k
  BY DEF NextHash
<1>3. NextHash(hs, x) \in rest /\ \A k \in rest : NextHash(hs, x) <= k
  <2> HIDE DEF rest
  <2>1. \E y \in rest : \A k \in rest : y <= k
    BY <1>1, LeastNat
  <2> QED
    BY <1>2, <2>1
<1> QED
  BY <1>3, Zenon

(* An NSEC3 record that is not ignored is one of the zone's chain. *)
LEMMA Records3 ==
  ASSUME Scenario, resp.method # "nsec", NEW r \in nsec3
  PROVE  \E m \in Chained(resp.zone, resp.method) :
           /\ m \in Names /\ r.owner = resp.hash[m]
           /\ r.next = NextHash({resp.hash[n] : n \in Chained(resp.zone, resp.method)}, resp.hash[m])
           /\ r.types = TypesAt(resp.zone, m)
           /\ r.flags = IF resp.method = "optout" THEN 1 ELSE 0
<1>1. r \in Nsec3(resp.zone, resp.method, resp.hash) \cup {Foreign} /\ r.flags \in 0..1
  BY DEF Scenario, nsec3, Chain
<1>2. Foreign.flags \notin 0..1
  BY DEF Foreign
<1>3. r \in Nsec3(resp.zone, resp.method, resp.hash)
  BY <1>1, <1>2
<1>4. Chained(resp.zone, resp.method) \subseteq Names
  BY DEF Chained
<1>5. PICK m \in Chained(resp.zone, resp.method) :
        r = [owner |-> resp.hash[m],
             next |-> NextHash({resp.hash[n] : n \in Chained(resp.zone, resp.method)}, resp.hash[m]),
             types |-> TypesAt(resp.zone, m),
             flags |-> IF resp.method = "optout" THEN 1 ELSE 0]
  BY <1>3, Zenon DEF Nsec3
<1> QED
  BY <1>4, <1>5

(* A record matches the one name it was made for. *)
LEMMA MatchedIsChained ==
  ASSUME Scenario, resp.method # "nsec", NEW r \in nsec3, NEW n \in Names, Match(r, n)
  PROVE  n \in Chained(resp.zone, resp.method) /\ r.types = TypesAt(resp.zone, n)
<1>1. PICK m \in Chained(resp.zone, resp.method) :
        m \in Names /\ r.owner = resp.hash[m] /\ r.types = TypesAt(resp.zone, m)
  BY Records3, Zenon
<1>2. \A h \in Hashes : \A a, b \in Names : h[a] = h[b] => a = b
  BY DenialAssumption
<1>3. m = n
  BY <1>1, <1>2, Zenon DEF Match, Scenario
<1> QED
  BY <1>1, <1>3

(* A name that is covered, and matched by no record, is not in the chain. *)
LEMMA CoveredIsAbsent ==
  ASSUME Scenario, resp.method # "nsec", NEW n \in Names, Covered3(n)
  PROVE  n \notin Chained(resp.zone, resp.method)
<1> SUFFICES ASSUME n \in Chained(resp.zone, resp.method)
             PROVE  FALSE
  OBVIOUS
<1> DEFINE hs == {resp.hash[m] : m \in Chained(resp.zone, resp.method)}
<1>1. hs \in SUBSET Nat
  BY DenialAssumption DEF Scenario, Chained
<1>2. PICK r \in nsec3 : Cover(r, n) /\ ~Match(r, n)
  BY DEF Covered3
<1> DEFINE x == resp.hash[n]
<1>3. x \in hs /\ r.owner \in hs /\ r.next = NextHash(hs, r.owner) /\ r.owner # x
  <2>1. PICK m \in Chained(resp.zone, resp.method) :
          r.owner = resp.hash[m] /\ r.next = NextHash(hs, resp.hash[m])
    BY Records3, Zenon
  <2>2. resp.hash[m] \in hs /\ x \in hs
    OBVIOUS
  <2> HIDE DEF hs
  <2> QED
    BY <1>2, <2>1, <2>2 DEF Match
<1>4. IF r.owner = r.next THEN x # r.owner
      ELSE IF r.owner > r.next THEN x > r.owner \/ x < r.next
      ELSE r.owner <= x /\ x < r.next
  BY <1>2 DEF Cover
<1> HIDE DEF hs, x
<1>5. /\ r.next \in hs
      /\ \A y \in hs : r.owner < y => r.owner < r.next /\ r.next <= y
      /\ (\A y \in hs : ~(r.owner < y)) => \A y \in hs : r.next <= y
  <2>1. r.owner \in hs /\ r.next = NextHash(hs, r.owner)
    BY <1>3
  <2>2. /\ NextHash(hs, r.owner) \in hs
        /\ \A y \in hs : r.owner < y => r.owner < NextHash(hs, r.owner) /\ NextHash(hs, r.owner) <= y
        /\ (\A y \in hs : ~(r.owner < y)) => \A y \in hs : NextHash(hs, r.owner) <= y
    BY <1>1, <2>1, NextHashIs, Zenon
  <2> QED
    BY <2>1, <2>2, Zenon
<1>6. x \in Nat /\ r.owner \in Nat /\ r.next \in Nat
  BY <1>1, <1>3, <1>5, Zenon
<1>7. CASE r.owner < x
  <2>1. r.owner < r.next /\ r.next <= x
    BY <1>3, <1>5, <1>7
  <2> QED
    BY <1>4, <1>6, <2>1
<1>8. CASE x < r.owner
  <2>1. CASE \E y \in hs : r.owner < y
    <3>1. r.owner < r.next
      BY <1>5, <2>1
    <3> QED
      BY <1>4, <1>6, <1>8, <3>1
  <2>2. CASE \A y \in hs : ~(r.owner < y)
    <3>1. r.next <= x
      BY <1>3, <1>5, <2>2
    <3> QED
      BY <1>4, <1>6, <1>8, <3>1
  <2> QED
    BY <2>1, <2>2
<1> QED
  BY <1>3, <1>6, <1>7, <1>8

(* All names that the checks hash are in Names. *)
LEMMA NamesAre ==
  ASSUME Scenario
  PROVE  /\ resp.name \in Names /\ resp.name \in Seq(Nat)
         /\ \A a \in Ancestors(resp.name) : a \in Names /\ a \in Seq(Nat) /\ Star(a) \in Names
         /\ DOMAIN resp.zone \subseteq Names /\ Names \subseteq Seq(Nat)
BY DenialAssumption, AncestorsAre DEF Scenario

(* A name is an ancestor of itself. *)
LEMMA SelfAncestor ==
  ASSUME NEW n \in Seq(Nat)
  PROVE  n \in Ancestors(n) /\ IsAncestor(n, n)
<1>1. Len(n) \in 0..Len(n) /\ IsAncestor(n, n)
  BY AncestorLabels
<1>2. SubSeq(n, 1, Len(n)) = n
  BY <1>1 DEF IsAncestor
<1> QED
  BY <1>1, <1>2, Zenon DEF Ancestors

(* Below a name that is not in the chain there is none that is. *)
LEMMA AbsentBelow ==
  ASSUME Scenario, resp.method # "nsec",
         NEW c \in Ancestors(resp.name), c \notin Chained(resp.zone, resp.method),
         NEW b \in Ancestors(resp.name), Len(c) <= Len(b)
  PROVE  b \notin Chained(resp.zone, resp.method)
<1> SUFFICES ASSUME b \in Chained(resp.zone, resp.method)
             PROVE  FALSE
  OBVIOUS
<1>1. PICK o \in Secured(resp.zone, resp.method) : IsAncestor(b, o)
  BY DEF Chained
<1>2. o \in Seq(Nat) /\ b \in Seq(Nat) /\ c \in Seq(Nat) /\ c \in Names /\ resp.name \in Seq(Nat)
  BY NamesAre DEF Secured
<1>3. IsAncestor(c, b)
  BY <1>2, Nested
<1>4. IsAncestor(c, o)
  BY <1>1, <1>2, <1>3, AncestorTrans
<1> QED
  BY <1>1, <1>2, <1>4 DEF Chained

(* Below a name that is not in the chain there is nothing secured. *)
LEMMA AbsentIsUnsecured ==
  ASSUME Scenario, resp.method # "nsec",
         NEW c \in Ancestors(resp.name), c \notin Chained(resp.zone, resp.method)
  PROVE  resp.name \notin Chained(resp.zone, resp.method) /\ resp.name \notin Secured(resp.zone, resp.method)
<1>1. resp.name \in Seq(Nat) /\ resp.name \in Names /\ resp.name \in Ancestors(resp.name) /\ IsAncestor(resp.name, resp.name)
  BY NamesAre, SelfAncestor
<1>2. Len(c) <= Len(resp.name)
  BY <1>1, AncestorsAre
<1>3. resp.name \notin Chained(resp.zone, resp.method)
  BY <1>1, <1>2, AbsentBelow
<1> QED
  BY <1>1, <1>3 DEF Chained

(* Among ancestors of a name there is a longest. *)
LEMMA Longest ==
  ASSUME NEW n \in Seq(Nat), NEW S \in SUBSET Ancestors(n), S # {}
  PROVE  \E a \in S : \A b \in S : Len(b) <= Len(a)
<1> DEFINE T == {Len(n) - Len(a) : a \in S}
<1>1. \A a \in S : Len(a) \in 0..Len(n)
  BY AncestorsAre
<1>2. T \in SUBSET Nat /\ T # {}
  BY <1>1
<1>3. PICK x \in T : \A y \in T : x <= y
  <2> HIDE DEF T
  <2> QED
    BY <1>2, LeastNat
<1>4. PICK a \in S : x = Len(n) - Len(a)
  BY <1>3
<1>5. ASSUME NEW b \in S
      PROVE  Len(b) <= Len(a)
  <2>1. x <= Len(n) - Len(b)
    BY <1>3
  <2> QED
    BY <1>1, <1>4, <2>1
<1> QED
  BY <1>5

(* It is the only one of its length. *)
LEMMA LongestIsUnique ==
  ASSUME NEW n \in Seq(Nat), NEW a \in Ancestors(n), NEW b \in Ancestors(n), Len(a) = Len(b)
  PROVE  a = b
BY AncestorsAre, Zenon

(* What FindClosestEncloser returns is in the chain. *)
LEMMA EncloserIs ==
  ASSUME Scenario, resp.method # "nsec", Contenders(resp.name) # {}
  PROVE  LET ce == FindClosestEncloser(resp.name)
         IN  ce \in Ancestors(resp.name) /\ ce \in Chained(resp.zone, resp.method)
<1> DEFINE ce == FindClosestEncloser(resp.name)
<1>1. Contenders(resp.name) \in SUBSET Ancestors(resp.name) /\ resp.name \in Seq(Nat)
  BY NamesAre DEF Contenders
<1>2. \E a \in Contenders(resp.name) : \A b \in Contenders(resp.name) : Len(b) <= Len(a)
  BY <1>1, Longest
<1>3. ce \in Contenders(resp.name)
  BY <1>2 DEF FindClosestEncloser
<1> HIDE DEF ce
<1>4. PICK r \in nsec3 : Match(r, ce)
  BY <1>3 DEF Contenders
<1>5. ce \in Names
  BY <1>1, <1>3, NamesAre
<1> QED
  BY <1>1, <1>3, <1>4, <1>5, MatchedIsChained DEF ce

(* Both parts of the proof hold: the name after the encloser is absent. *)
LEMMA NextCloserIs ==
  ASSUME Scenario, resp.method # "nsec", Contenders(resp.name) # {},
         Covered3(NextCloserName(resp.name, FindClosestEncloser(resp.name)))
  PROVE  LET ce == FindClosestEncloser(resp.name)
         IN  /\ resp.name \notin Secured(resp.zone, resp.method)
             /\ resp.name \notin Chained(resp.zone, resp.method)
             /\ \A b \in Ancestors(resp.name) : b \in Chained(resp.zone, resp.method) => Len(b) <= Len(ce)
<1> DEFINE ce == FindClosestEncloser(resp.name)
<1> DEFINE ncn == NextCloserName(resp.name, ce)
<1>1. ce \in Ancestors(resp.name) /\ ce \in Chained(resp.zone, resp.method)
  BY EncloserIs
<1>2. Covered3(ncn)
  OBVIOUS
<1> HIDE DEF ce
<1>3. resp.name \in Seq(Nat) /\ resp.name \in Names /\ Len(ce) \in 0..Len(resp.name)
  BY <1>1, NamesAre, AncestorsAre
<1>4. ce # resp.name
  <2> SUFFICES ASSUME ce = resp.name PROVE FALSE
    OBVIOUS
  <2>1. ncn = resp.name
    BY DEF NextCloserName
  <2>2. resp.name \notin Chained(resp.zone, resp.method)
    BY <1>2, <1>3, <2>1, CoveredIsAbsent
  <2> QED
    BY <1>1, <2>2
<1>5. Len(ce) < Len(resp.name)
  <2>1. resp.name \in Ancestors(resp.name)
    BY <1>3, SelfAncestor
  <2>2. Len(ce) # Len(resp.name)
    BY <1>1, <1>3, <1>4, <2>1, LongestIsUnique
  <2> QED
    BY <1>3, <2>2
<1>6. ncn = SubSeq(resp.name, 1, Len(ce) + 1)
  BY <1>4 DEF NextCloserName, Child
<1>7. ncn \in Ancestors(resp.name) /\ Len(ncn) = Len(ce) + 1
  <2>1. Len(ce) + 1 \in 0..Len(resp.name)
    BY <1>3, <1>5
  <2> HIDE DEF ncn
  <2> QED
    BY <1>3, <1>6, <2>1, Prefix DEF Ancestors
<1> HIDE DEF ncn
<1>8. ncn \notin Chained(resp.zone, resp.method)
  BY <1>2, <1>7, NamesAre, CoveredIsAbsent
<1>9. ASSUME NEW b \in Ancestors(resp.name), b \in Chained(resp.zone, resp.method)
      PROVE  Len(b) <= Len(ce)
  <2>1. ~(Len(ncn) <= Len(b))
    BY <1>7, <1>8, <1>9, AbsentBelow
  <2>2. Len(b) \in Nat
    BY <1>3, AncestorsAre
  <2> QED
    BY <1>3, <1>7, <2>1, <2>2
<1> QED
  BY <1>7, <1>8, <1>9, AbsentIsUnsecured DEF ce

(* Without opt-out a name is in the chain if it exists. *)
LEMMA ChainedExists ==
  ASSUME Scenario, resp.method = "nsec3", NEW n \in Names
  PROVE  n \in Chained(resp.zone, resp.method) <=> Exists(resp.zone, n)
BY DEF Chained, Secured, Exists

(* The closest encloser is known by what exists. *)
LEMMA ClosestIs ==
  ASSUME Scenario, NEW a \in Ancestors(resp.name), Exists(resp.zone, a),
         \A b \in Ancestors(resp.name) : Exists(resp.zone, b) => Len(b) <= Len(a)
  PROVE  ClosestEncloser(resp.zone, resp.name) = a
<1> DEFINE ns == Ancestors(resp.name) \cap {b \in Ancestors(resp.name) : Exists(resp.zone, b)}
<1>1. a \in ns /\ \A b \in ns : Len(b) <= Len(a)
  OBVIOUS
<1>2. resp.name \in Seq(Nat)
  BY NamesAre
<1>3. ClosestEncloser(resp.zone, resp.name) = CHOOSE x \in ns : \A b \in ns : Len(b) <= Len(x)
  BY DEF ClosestEncloser, Closest
<1>4. ASSUME NEW x \in ns, \A b \in ns : Len(b) <= Len(x)
      PROVE  x = a
  <2>1. Len(a) <= Len(x) /\ Len(x) <= Len(a) /\ x \in Ancestors(resp.name)
    BY <1>1, <1>4
  <2>2. Len(a) \in Nat /\ Len(x) \in Nat
    BY <1>2, <2>1, AncestorsAre
  <2>3. Len(a) = Len(x)
    BY <2>1, <2>2
  <2> QED
    BY <1>2, <2>1, <2>3, LongestIsUnique
<1> HIDE DEF ns
<1> QED
  BY <1>1, <1>3, <1>4

(* If the next name is covered, there is nothing longer in the chain. *)
LEMMA EncloserClosest ==
  ASSUME Scenario, resp.method = "nsec3", Contenders(resp.name) # {},
         Covered3(NextCloserName(resp.name, FindClosestEncloser(resp.name)))
  PROVE  FindClosestEncloser(resp.name) = ClosestEncloser(resp.zone, resp.name)
<1> DEFINE ce == FindClosestEncloser(resp.name)
<1>1. ce \in Ancestors(resp.name) /\ ce \in Chained(resp.zone, resp.method)
  BY EncloserIs
<1>2. \A b \in Ancestors(resp.name) : b \in Chained(resp.zone, resp.method) => Len(b) <= Len(ce)
  BY NextCloserIs
<1> HIDE DEF ce
<1>3. Exists(resp.zone, ce) /\ \A b \in Ancestors(resp.name) : Exists(resp.zone, b) => Len(b) <= Len(ce)
  BY <1>1, <1>2, NamesAre, ChainedExists
<1> QED
  BY <1>1, <1>3, ClosestIs DEF ce

-----------------------------------------------------------------------------
(* NSEC *)

(* An NSEC record is the zone's own. *)
LEMMA RecordsOne ==
  ASSUME Scenario, NEW r \in nsec
  PROVE  /\ resp.method = "nsec" /\ r.owner \in DOMAIN resp.zone
         /\ r.next = NextNsec(resp.zone, r.owner) /\ r.types = resp.zone[r.owner]
<1>1. resp.method = "nsec" /\ r \in Nsec(resp.zone)
  BY DEF Scenario, nsec, Chain
<1>2. PICK o \in DOMAIN resp.zone :
        r = [owner |-> o, next |-> NextNsec(resp.zone, o), types |-> resp.zone[o]]
  BY <1>1 DEF Nsec
<1> QED
  BY <1>1, <1>2

(* The order of the code is the canonical one. *)
LEMMA CmpIsOrder ==
  ASSUME NEW a \in Seq(Nat), NEW b \in Seq(Nat), canonicalCmp(a, b)
  PROVE  Precedes(a, b)
<1>1. CASE IsAncestor(a, b) /\ a # b
  <2>1. Len(a) <= Len(b) /\ \A i \in 1..Len(a) : a[i] = b[i]
    BY <1>1, AncestorLabels
  <2>2. Len(a) # Len(b)
    BY <1>1, <2>1, SameName
  <2>3. Len(a) + 1 \in DOMAIN b /\ Len(a) + 1 \notin DOMAIN a /\ b[Len(a) + 1] \in Nat
    BY <2>1, <2>2
  <2>4. \A j \in 1..((Len(a) + 1) - 1) : LabelAt(a, j) = LabelAt(b, j)
    BY <2>1 DEF LabelAt
  <2>5. LabelAt(a, Len(a) + 1) < LabelAt(b, Len(a) + 1)
    BY <2>3 DEF LabelAt
  <2> QED
    BY <2>3, <2>4, <2>5 DEF Precedes
<1>2. CASE \E k \in DOMAIN a \cap DOMAIN b : SubSeq(a, 1, k - 1) = SubSeq(b, 1, k - 1) /\ a[k] < b[k]
  <2>1. PICK k \in DOMAIN a \cap DOMAIN b : SubSeq(a, 1, k - 1) = SubSeq(b, 1, k - 1) /\ a[k] < b[k]
    BY <1>2
  <2>2. k - 1 \in 0..Len(a) /\ k - 1 \in 0..Len(b) /\ k \in Nat
    OBVIOUS
  <2>3. \A j \in 1..(k - 1) : SubSeq(a, 1, k - 1)[j] = a[j] /\ SubSeq(b, 1, k - 1)[j] = b[j]
    BY <2>2, Prefix
  <2>4. \A j \in 1..(k - 1) : j \in DOMAIN a /\ j \in DOMAIN b
    BY <2>2
  <2>5. \A j \in 1..(k - 1) : LabelAt(a, j) = LabelAt(b, j)
    BY <2>1, <2>3, <2>4 DEF LabelAt
  <2> QED
    BY <2>1, <2>5 DEF Precedes, LabelAt
<1> QED
  BY <1>1, <1>2 DEF canonicalCmp

(* The canonical order is strict. *)
LEMMA OrderIsStrict ==
  ASSUME NEW a \in Seq(Nat), NEW b \in Seq(Nat), Precedes(a, b), Precedes(b, a)
  PROVE  FALSE
<1>1. PICK j \in DOMAIN b : (\A i \in 1..(j - 1) : LabelAt(a, i) = LabelAt(b, i)) /\ LabelAt(a, j) < LabelAt(b, j)
  BY DEF Precedes
<1>2. PICK k \in DOMAIN a : (\A i \in 1..(k - 1) : LabelAt(b, i) = LabelAt(a, i)) /\ LabelAt(b, k) < LabelAt(a, k)
  BY DEF Precedes
<1>3. j \in Nat \ {0} /\ k \in Nat \ {0}
  OBVIOUS
<1>4. \A i \in Nat : LabelAt(a, i) \in Int /\ LabelAt(b, i) \in Int
  BY DEF LabelAt
<1>5. CASE j < k
  <2>1. j \in 1..(k - 1)
    BY <1>3, <1>5
  <2> QED
    BY <1>1, <1>2, <1>3, <1>4, <2>1
<1>6. CASE k < j
  <2>1. k \in 1..(j - 1)
    BY <1>3, <1>6
  <2> QED
    BY <1>1, <1>2, <1>3, <1>4, <2>1
<1>7. CASE j = k
  <2>1. LabelAt(a, k) < LabelAt(b, k) /\ LabelAt(b, k) < LabelAt(a, k)
    BY <1>1, <1>2, <1>7
  <2>2. LabelAt(a, k) \in Int /\ LabelAt(b, k) \in Int
    BY <1>3, <1>4
  <2> QED
    BY <2>1, <2>2
<1> QED
  BY <1>3, <1>5, <1>6, <1>7

(* Two names come in one order or the other: the first label that differs decides. *)
LEMMA OrderIsTotal ==
  ASSUME NEW a \in Seq(Nat), NEW b \in Seq(Nat), a # b
  PROVE  Precedes(a, b) \/ Precedes(b, a)
<1> DEFINE D == {k \in Nat \ {0} : LabelAt(a, k) # LabelAt(b, k)}
<1>1. D \in SUBSET Nat
  OBVIOUS
<1>2. D # {}
  <2>1. CASE Len(a) = Len(b)
    <3>1. PICK i \in 1..Len(a) : a[i] # b[i]
      BY <2>1, SameName
    <3>2. i \in D
      BY <2>1, <3>1 DEF LabelAt
    <3> QED
      BY <3>2
  <2>2. CASE Len(a) < Len(b)
    <3>1. Len(b) \in D
      BY <2>2 DEF LabelAt
    <3> QED
      BY <3>1
  <2>3. CASE Len(b) < Len(a)
    <3>1. Len(a) \in D
      BY <2>3 DEF LabelAt
    <3> QED
      BY <3>1
  <2> QED
    BY <2>1, <2>2, <2>3
<1>3. PICK k \in D : \A j \in D : k <= j
  <2> HIDE DEF D
  <2> QED
    BY <1>1, <1>2, LeastNat
<1>4. \A j \in 1..(k - 1) : LabelAt(a, j) = LabelAt(b, j)
  BY <1>3
<1>5. k \in Nat \ {0} /\ LabelAt(a, k) # LabelAt(b, k)
  BY <1>3
<1>6. CASE LabelAt(a, k) < LabelAt(b, k)
  <2>1. k \in DOMAIN b
    BY <1>5, <1>6 DEF LabelAt
  <2> QED
    BY <1>4, <1>6, <2>1 DEF Precedes
<1>7. CASE LabelAt(b, k) < LabelAt(a, k)
  <2>1. k \in DOMAIN a
    BY <1>5, <1>7 DEF LabelAt
  <2> QED
    BY <1>4, <1>7, <2>1 DEF Precedes
<1>8. LabelAt(a, k) \in Int /\ LabelAt(b, k) \in Int
  BY <1>5 DEF LabelAt
<1> QED
  BY <1>5, <1>6, <1>7, <1>8

(* The canonical order is transitive. *)
LEMMA OrderIsTransitive ==
  ASSUME NEW a \in Seq(Nat), NEW b \in Seq(Nat), NEW c \in Seq(Nat), Precedes(a, b), Precedes(b, c)
  PROVE  Precedes(a, c)
<1>1. PICK j \in DOMAIN b : (\A i \in 1..(j - 1) : LabelAt(a, i) = LabelAt(b, i)) /\ LabelAt(a, j) < LabelAt(b, j)
  BY DEF Precedes
<1>2. PICK k \in DOMAIN c : (\A i \in 1..(k - 1) : LabelAt(b, i) = LabelAt(c, i)) /\ LabelAt(b, k) < LabelAt(c, k)
  BY DEF Precedes
<1>3. j \in Nat \ {0} /\ k \in Nat \ {0}
  OBVIOUS
<1>4. \A i \in Nat : LabelAt(a, i) \in Int /\ LabelAt(b, i) \in Int /\ LabelAt(c, i) \in Int
  BY DEF LabelAt
<1>5. CASE j < k
  <2>1. j \in DOMAIN c /\ j \in 1..(k - 1) /\ \A i \in 1..(j - 1) : i \in 1..(k - 1)
    <3>1. k \in 1..Len(c) /\ DOMAIN c = 1..Len(c) /\ Len(c) \in Nat
      OBVIOUS
    <3>2. j \in DOMAIN c
      BY <1>3, <1>5, <3>1
    <3>3. j \in 1..(k - 1)
      BY <1>3, <1>5
    <3>4. \A i \in 1..(j - 1) : i \in 1..(k - 1)
      BY <1>3, <1>5
    <3> QED
      BY <3>2, <3>3, <3>4, Zenon
  <2>2. LabelAt(a, j) < LabelAt(c, j)
    BY <1>1, <1>2, <2>1
  <2>3. \A i \in 1..(j - 1) : LabelAt(a, i) = LabelAt(c, i)
    BY <1>1, <1>2, <2>1
  <2> QED
    BY <2>1, <2>2, <2>3 DEF Precedes
<1>6. CASE ~(j < k)
  <2>1. \A i \in 1..(k - 1) : i \in 1..(j - 1)
    BY <1>3, <1>6
  <2>2. \A i \in 1..(k - 1) : LabelAt(a, i) = LabelAt(c, i)
    BY <1>1, <1>2, <2>1
  <2>3. LabelAt(a, k) < LabelAt(c, k)
    <3>1. CASE k = j
      <4>1. LabelAt(a, k) < LabelAt(b, k) /\ LabelAt(b, k) < LabelAt(c, k)
        BY <1>1, <1>2, <3>1
      <4>2. LabelAt(a, k) \in Int /\ LabelAt(b, k) \in Int /\ LabelAt(c, k) \in Int
        BY <1>3, <1>4
      <4> QED
        BY <4>1, <4>2
    <3>2. CASE k # j
      <4>1. k \in 1..(j - 1)
        BY <1>3, <1>6, <3>2
      <4> QED
        BY <1>1, <1>2, <4>1
    <3> QED
      BY <3>1, <3>2
  <2> QED
    BY <1>2, <2>2, <2>3 DEF Precedes
<1> QED
  BY <1>5, <1>6

(* The canonical order is the one of the code. *)
LEMMA OrderIsCmp ==
  ASSUME NEW a \in Seq(Nat), NEW b \in Seq(Nat), Precedes(a, b)
  PROVE  canonicalCmp(a, b)
<1>1. PICK k \in DOMAIN b : (\A j \in 1..(k - 1) : LabelAt(a, j) = LabelAt(b, j)) /\ LabelAt(a, k) < LabelAt(b, k)
  BY DEF Precedes
<1>2. k \in Nat \ {0} /\ k <= Len(b)
  OBVIOUS
<1>3. \A j \in 1..(k - 1) : j \in DOMAIN a /\ a[j] = b[j]
  <2> SUFFICES ASSUME NEW j \in 1..(k - 1) PROVE j \in DOMAIN a /\ a[j] = b[j]
    OBVIOUS
  <2>1. j \in DOMAIN b /\ b[j] \in Nat /\ LabelAt(a, j) = LabelAt(b, j)
    BY <1>1, <1>2
  <2>2. LabelAt(b, j) = b[j]
    BY <2>1 DEF LabelAt
  <2> QED
    BY <2>1, <2>2 DEF LabelAt
<1>4. k - 1 <= Len(a)
  <2>1. CASE k = 1
    BY <2>1
  <2>2. CASE k # 1
    <3>1. k - 1 \in 1..(k - 1)
      BY <1>2, <2>2
    <3>2. k - 1 \in DOMAIN a
      BY <1>3, <3>1
    <3> QED
      BY <3>2
  <2> QED
    BY <2>1, <2>2
<1>5. CASE k \in DOMAIN a
  <2>1. k - 1 \in 0..Len(a) /\ k - 1 \in 0..Len(b)
    BY <1>2, <1>4
  <2>2. SubSeq(a, 1, k - 1) = SubSeq(b, 1, k - 1)
    <3> DEFINE x == SubSeq(a, 1, k - 1)
    <3> DEFINE y == SubSeq(b, 1, k - 1)
    <3>1. x \in Seq(Nat) /\ Len(x) = k - 1 /\ \A i \in 1..(k - 1) : x[i] = a[i]
      BY <2>1, Prefix
    <3>2. y \in Seq(Nat) /\ Len(y) = k - 1 /\ \A i \in 1..(k - 1) : y[i] = b[i]
      BY <2>1, Prefix
    <3> HIDE DEF x, y
    <3>3. x = y
      BY <1>3, <3>1, <3>2, SameName, Zenon
    <3> QED
      BY <3>3 DEF x, y
  <2>3. a[k] < b[k]
    BY <1>1, <1>5 DEF LabelAt
  <2> QED
    BY <1>5, <2>2, <2>3 DEF canonicalCmp
<1>6. CASE k \notin DOMAIN a
  <2>1. Len(a) = k - 1
    BY <1>2, <1>4, <1>6
  <2>2. IsAncestor(a, b)
    <3>1. Len(a) <= Len(b) /\ \A i \in 1..Len(a) : a[i] = b[i]
      BY <1>2, <1>3, <2>1
    <3> QED
      BY <3>1, AncestorLabels
  <2>3. a # b
    BY <1>2, <2>1
  <2> QED
    BY <2>2, <2>3 DEF canonicalCmp
<1> QED
  BY <1>5, <1>6

(* A finite set has an element with none above it: the one with the fewest. *)
LEMMA MaximalExists ==
  ASSUME NEW S, IsFiniteSet(S), S # {}, NEW R,
         \A x, y, w \in S : <<x, y>> \in R /\ <<y, w>> \in R => <<x, w>> \in R,
         \A x \in S : <<x, x>> \notin R
  PROVE  \E x \in S : \A y \in S : <<x, y>> \notin R
<1> DEFINE Above(x) == {y \in S : <<x, y>> \in R}
<1> DEFINE T == {Cardinality(Above(x)) : x \in S}
<1>1. \A x \in S : IsFiniteSet(Above(x)) /\ Cardinality(Above(x)) \in Nat
  <2> SUFFICES ASSUME NEW x \in S PROVE IsFiniteSet(Above(x)) /\ Cardinality(Above(x)) \in Nat
    OBVIOUS
  <2> DEFINE ax == Above(x)
  <2>1. ax \in SUBSET S
    OBVIOUS
  <2> HIDE DEF ax
  <2>2. IsFiniteSet(ax) /\ Cardinality(ax) \in Nat
    BY <2>1, FS_Subset, FS_CardinalityType
  <2> QED
    BY <2>2 DEF ax
<1>2. T \in SUBSET Nat /\ T # {}
  <2> HIDE DEF Above
  <2> QED
    BY <1>1
<1>3. PICK c \in T : \A d \in T : c <= d
  <2> HIDE DEF T
  <2> QED
    BY <1>2, LeastNat
<1>4. PICK x \in S : c = Cardinality(Above(x))
  BY <1>3
<1>5. ASSUME NEW y \in S, <<x, y>> \in R
      PROVE  FALSE
  <2>1. Above(y) \in SUBSET Above(x) /\ y \in Above(x) /\ y \notin Above(y)
    <3>1. \A w \in S : <<y, w>> \in R => <<x, w>> \in R
      BY <1>5
    <3> QED
      BY <1>5, <3>1
  <2>2. c <= Cardinality(Above(y))
    <3> HIDE DEF Above
    <3>1. Cardinality(Above(y)) \in T
      OBVIOUS
    <3> QED
      BY <1>3, <3>1
  <2>3. Cardinality(Above(y)) <= Cardinality(Above(x))
        /\ (Cardinality(Above(x)) = Cardinality(Above(y)) => Above(x) = Above(y))
    <3> DEFINE ax == Above(x)
    <3> DEFINE ay == Above(y)
    <3>1. IsFiniteSet(ax) /\ ay \in SUBSET ax
      BY <1>1, <2>1
    <3> HIDE DEF ax, ay
    <3>2. Cardinality(ay) <= Cardinality(ax) /\ (Cardinality(ax) = Cardinality(ay) => ax = ay)
      BY <3>1, FS_Subset
    <3> QED
      BY <3>2 DEF ax, ay
  <2>4. Cardinality(Above(x)) = Cardinality(Above(y))
    BY <1>1, <1>4, <2>2, <2>3, SMTT(20)
  <2> QED
    BY <2>1, <2>3, <2>4
<1> QED
  BY <1>5

(* After a name of a zone that is not the last there is a next one. *)
LEMMA NextExists ==
  ASSUME NEW z \in Zones, NEW o, After(z, o) # {}
  PROVE  \E n \in After(z, o) : \A k \in After(z, o) \ {n} : Precedes(n, k)
<1> DEFINE S == After(z, o)
<1> DEFINE R == {p \in S \X S : Precedes(p[2], p[1])}
<1>1. IsFiniteSet(DOMAIN z) /\ S \subseteq DOMAIN z /\ S \subseteq Seq(Nat)
  BY DenialAssumption DEF After
<1>2. \A x, y \in S : <<x, y>> \in R <=> Precedes(y, x)
  OBVIOUS
<1>3. IsFiniteSet(S)
  BY <1>1, FS_Subset
<1> HIDE DEF S, R
<1>4. \A x, y, w \in S : <<x, y>> \in R /\ <<y, w>> \in R => <<x, w>> \in R
  BY <1>1, <1>2, OrderIsTransitive
<1>5. \A x \in S : <<x, x>> \notin R
  BY <1>1, <1>2, OrderIsStrict
<1>6. S # {}
  BY DEF S
<1>7. PICK n \in S : \A y \in S : <<n, y>> \notin R
  BY <1>3, <1>4, <1>5, <1>6, MaximalExists
<1>8. \A k \in S \ {n} : Precedes(n, k)
  BY <1>1, <1>2, <1>7, OrderIsTotal, Zenon
<1> QED
  BY <1>8 DEF S

(* A name that is covered owns no records. *)
LEMMA CoveredOwnsNothing ==
  ASSUME Scenario, NEW n, covered(n)
  PROVE  n \notin DOMAIN resp.zone
<1> SUFFICES ASSUME n \in DOMAIN resp.zone
             PROVE  FALSE
  OBVIOUS
<1>1. PICK r \in nsec : canonicalCmp(r.owner, n) /\ (r.next = Apex \/ canonicalCmp(n, r.next))
  BY DEF covered
<1> DEFINE z == resp.zone
<1> DEFINE o == r.owner
<1> DEFINE nx == NextNsec(z, o)
<1>2. o \in DOMAIN z /\ r.next = nx
  BY RecordsOne
<1>3. DOMAIN z \subseteq Seq(Nat) /\ z \in Zones
  BY NamesAre DEF Scenario
<1>4. Precedes(o, n)
  BY <1>1, <1>2, <1>3, CmpIsOrder
<1>5. n \in After(z, o)
  BY <1>4 DEF After
<1>6. \E x \in After(z, o) : \A k \in After(z, o) \ {x} : Precedes(x, k)
  BY <1>3, <1>5, NextExists
<1>7. nx \in After(z, o) /\ \A k \in After(z, o) \ {nx} : Precedes(nx, k)
  BY <1>5, <1>6 DEF NextNsec
<1> HIDE DEF nx
<1>8. nx \in DOMAIN z /\ Precedes(o, nx)
  BY <1>7 DEF After
<1>9. nx # Apex
  BY <1>8 DEF Precedes, Apex
<1>10. Precedes(n, nx)
  BY <1>1, <1>2, <1>3, <1>8, <1>9, CmpIsOrder
<1>11. n = nx \/ Precedes(nx, n)
  BY <1>5, <1>7
<1> QED
  BY <1>3, <1>8, <1>10, <1>11, OrderIsStrict

-----------------------------------------------------------------------------
(* The verdicts *)

(* An NSEC record at the name denies its types. *)
LEMMA SeenTypes ==
  ASSUME Scenario, NEW ts, Denies(TypeBitMapContainsAnyOf(ts))
  PROVE  /\ resp.method = "nsec" /\ resp.name \in DOMAIN resp.zone
         /\ ts \cap TypesAt(resp.zone, resp.name) = {}
<1>1. PICK r \in nsec : r.owner = resp.name /\ r.types \cap ts = {}
  BY Zenon DEF Denies, TypeBitMapContainsAnyOf
<1>2. resp.method = "nsec" /\ resp.name \in DOMAIN resp.zone /\ r.types = resp.zone[resp.name]
  BY <1>1, RecordsOne
<1> QED
  BY <1>1, <1>2 DEF TypesAt

(* An NSEC3 record that matches a name denies its types. *)
LEMMA SeenTypes3 ==
  ASSUME Scenario, NEW n \in Names, NEW ts, Denies(TypeBitMapContainsAnyOf3(n, ts))
  PROVE  /\ resp.method # "nsec" /\ n \in Chained(resp.zone, resp.method)
         /\ ts \cap TypesAt(resp.zone, n) = {}
<1>1. PICK r \in nsec3 : Match(r, n) /\ r.types \cap ts = {}
  BY ZenonT(30) DEF Denies, TypeBitMapContainsAnyOf3
<1>2. resp.method # "nsec"
  BY <1>1 DEF nsec3
<1>3. n \in Chained(resp.zone, resp.method) /\ r.types = TypesAt(resp.zone, n)
  BY <1>1, <1>2, MatchedIsChained
<1> QED
  BY <1>1, <1>2, <1>3

(* The four parts of the closest encloser proof. *)
LEMMA ProofIs ==
  ASSUME NEW n
  PROVE  LET p == PerformClosestEncloserProof(n)
             ncn == NextCloserName(n, FindClosestEncloser(n))
         IN  /\ p.encloser => Contenders(n) # {}
             /\ p.nextCloser => Contenders(n) # {} /\ Covered3(ncn)
             /\ p.wildcard => Covered3(Star(FindClosestEncloser(n)))
             /\ p.optedOut => Contenders(n) # {} /\ optedOut(ncn)
<1>1. CASE Contenders(n) = {}
  BY <1>1 DEF PerformClosestEncloserProof
<1>2. CASE Contenders(n) # {}
  BY <1>2, Zenon DEF PerformClosestEncloserProof
<1> QED
  BY <1>1, <1>2

(* Opt-out is a matter of the chain, and covers. *)
LEMMA OptOutIs ==
  ASSUME Scenario, NEW n, optedOut(n)
  PROVE  resp.method = "optout" /\ Covered3(n)
<1>1. PICK r \in nsec3 : r.flags = 1
  BY DEF optedOut
<1>2. resp.method # "nsec"
  BY <1>1 DEF nsec3
<1>3. r.flags = IF resp.method = "optout" THEN 1 ELSE 0
  BY <1>1, <1>2, Records3, Zenon
<1> QED
  BY <1>1, <1>3 DEF optedOut

-----------------------------------------------------------------------------
(* What a verdict says of the zone *)

(* A name outside the chain has records only as an unsigned delegation. *)
LEMMA UnsecuredHas ==
  ASSUME Scenario, resp.name \notin Secured(resp.zone, resp.method), resp.name \in DOMAIN resp.zone
  PROVE  /\ resp.method = "optout" /\ Unsigned(resp.zone, resp.name)
         /\ {"DS", "CNAME"} \cap resp.zone[resp.name] = {}
<1>1. resp.method = "optout" /\ Unsigned(resp.zone, resp.name)
  BY DEF Secured
<1>2. "NS" \in resp.zone[resp.name] /\ "DS" \notin resp.zone[resp.name]
  BY <1>1 DEF Unsigned, Delegation
<1>3. "CNAME" \in resp.zone[resp.name] => resp.zone[resp.name] = {"CNAME"}
  BY DenialAssumption DEF Scenario
<1> QED
  BY <1>1, <1>2, <1>3

(* Every way to a denial in validateNegativeResponse is right. *)
LEMMA NegativeIsAbsent ==
  ASSUME Scenario, Authoritative(resp.zone, resp.name, resp.type), NegativeVerdict # "NotFound"
  PROVE  LET asked == {resp.type, "CNAME"}
         IN  /\ asked \cap TypesAt(resp.zone, resp.name) = {}
             /\ NegativeVerdict = "Nsec3OptOut" => resp.method = "optout" /\ resp.type = "DS"
             /\ \/ resp.method = "nsec3"
                \/ resp.method = "nsec" /\ ClosestEncloser(resp.zone, resp.name) = Parent(resp.name)
                => asked \cap Answer(resp.zone, resp.name) = {}
<1> DEFINE asked == {"CNAME", resp.type}
<1> DEFINE z == resp.zone
<1> DEFINE n == resp.name
<1> DEFINE ce == FindClosestEncloser(n)
<1> DEFINE p == PerformClosestEncloserProof(n)
<1>0. n \in Names /\ n \in Seq(Nat) /\ n \in Ancestors(n) /\ IsAncestor(n, n)
  BY NamesAre, SelfAncestor
<1>1. CASE Denies(TypeBitMapContainsAnyOf(asked))
  <2>1. resp.method = "nsec" /\ n \in DOMAIN z /\ asked \cap TypesAt(z, n) = {}
    BY <1>1, SeenTypes, Zenon
  <2>2. Exists(z, n)
    BY <1>0, <2>1 DEF Exists
  <2> QED
    BY <1>1, <2>1, <2>2, ZenonT(30) DEF NegativeVerdict, Answer
<1>2. CASE NegativeVerdict = "NsecNxDomain" /\ PerformQNameDoesNotExistProof
  <2>1. covered(n) /\ covered(wildcardName(n))
    BY <1>2 DEF PerformQNameDoesNotExistProof, verifyQNameCovered, verifyWildcardCovered
  <2>2. n \notin DOMAIN z /\ wildcardName(n) \notin DOMAIN z
    BY <2>1, CoveredOwnsNothing
  <2>3. n # Apex
    BY <2>2, DenialAssumption DEF Scenario
  <2>4. wildcardName(n) = Star(Parent(n))
    BY <2>3 DEF wildcardName, Parent
  <2>5. resp.method = "nsec"
    BY <2>1 DEF covered, nsec
  <2> QED
    BY <1>2, <2>2, <2>4, <2>5 DEF TypesAt, Answer
<1>3. CASE NegativeVerdict = "Nsec3NoData" /\ Denies(TypeBitMapContainsAnyOf3(n, asked))
  <2>1. resp.method # "nsec" /\ n \in Chained(z, resp.method) /\ asked \cap TypesAt(z, n) = {}
    BY <1>0, <1>3, SeenTypes3
  <2>2. Exists(z, n)
    BY <2>1 DEF Exists, Chained, Secured
  <2> QED
    BY <1>3, <2>1, <2>2 DEF Answer
<1>4. CASE NegativeVerdict = "Nsec3OptOut" /\ p.optedOut /\ resp.type = "DS"
  <2>1. Contenders(n) # {} /\ optedOut(NextCloserName(n, ce))
    BY <1>4, ProofIs
  <2>2. resp.method = "optout" /\ Covered3(NextCloserName(n, ce))
    BY <2>1, OptOutIs
  <2>3. n \notin Secured(z, resp.method)
    BY <2>1, <2>2, NextCloserIs
  <2>4. asked \cap TypesAt(z, n) = {}
    BY <1>4, <2>3, UnsecuredHas DEF TypesAt
  <2> QED
    BY <1>4, <2>2, <2>4
<1>5. CASE NegativeVerdict = "Nsec3NxDomain" /\ p.encloser /\ p.nextCloser /\ (p.wildcard \/ wildcardNoData)
  <2>1. Contenders(n) # {} /\ Covered3(NextCloserName(n, ce)) /\ (Covered3(Star(ce)) \/ wildcardNoData)
    BY <1>5, ProofIs
  <2>2. resp.method # "nsec"
    BY <2>1 DEF Contenders, nsec3
  <2>3. n \notin Secured(z, resp.method) /\ n \notin Chained(z, resp.method)
    BY <2>1, <2>2, NextCloserIs
  <2>4. asked \cap TypesAt(z, n) = {}
    <3>1. CASE n \in DOMAIN z
      <4>1. Delegation(z, n) /\ {"DS", "CNAME"} \cap z[n] = {}
        BY <2>3, <3>1, UnsecuredHas DEF Unsigned
      <4>2. resp.type = "DS"
        BY <1>0, <4>1 DEF Authoritative
      <4> QED
        BY <4>1, <4>2 DEF TypesAt
    <3> QED
      BY <3>1 DEF TypesAt
  <2>5. ASSUME resp.method = "nsec3"
        PROVE  asked \cap Answer(z, n) = {}
    <3>1. ~Exists(z, n)
      BY <1>0, <2>3, <2>5, ChainedExists
    <3>2. ce = ClosestEncloser(z, n) /\ ce \in Ancestors(n)
      BY <2>1, <2>2, <2>5, EncloserClosest, EncloserIs
    <3>3. Star(ce) \in Names /\ Star(ce) \in Seq(Nat)
      BY <3>2, NamesAre
    <3>4. asked \cap TypesAt(z, Star(ce)) = {}
      <4>1. CASE Covered3(Star(ce))
        <5>1. ~Exists(z, Star(ce))
          BY <2>2, <2>5, <3>3, <4>1, CoveredIsAbsent, ChainedExists
        <5>2. Star(ce) \notin DOMAIN z
          BY <3>3, <5>1, SelfAncestor DEF Exists
        <5> QED
          BY <5>2 DEF TypesAt
      <4>2. CASE wildcardNoData
        BY <3>3, <4>2, SeenTypes3 DEF wildcardNoData
      <4> QED
        BY <2>1, <4>1, <4>2
    <3> QED
      BY <3>1, <3>2, <3>4 DEF Answer
  <2> QED
    BY <1>5, <2>2, <2>4, <2>5
<1> QED
  BY <1>1, <1>2, <1>3, <1>4, <1>5, ZenonT(30) DEF NegativeVerdict

(* Both ways to a wildcard in validatePositiveResponse are right. *)
LEMMA WildcardIsRight ==
  ASSUME Scenario, Authoritative(resp.zone, resp.name, resp.type),
         NEW a \in Ancestors(resp.name), a # resp.name, resp.wild[1] = Len(a),
         resp.type \in TypesAt(resp.zone, Star(a)), PositiveVerdict # "NotFound",
         resp.question = resp.name \/ "CNAME" \in TypesAt(resp.zone, resp.question)
  PROVE  /\ resp.name \notin DOMAIN resp.zone
         /\ resp.method = "nsec3" => ClosestEncloser(resp.zone, resp.name) = a
<1> DEFINE z == resp.zone
<1> DEFINE n == resp.name
<1>0. n \in Names /\ n \in Seq(Nat) /\ n \in Ancestors(n)
  BY NamesAre, SelfAncestor
<1>1. CASE PerformExpandedWildcardProof(resp.question)
  <2>1. covered(resp.question)
    BY <1>1, Zenon DEF PerformExpandedWildcardProof, verifyQNameCovered
  <2>2. resp.method = "nsec"
    BY <2>1 DEF covered, nsec
  <2>3. resp.question \notin DOMAIN z
    BY <2>1, CoveredOwnsNothing, Zenon
  <2>4. resp.question = n
    BY <2>3 DEF TypesAt
  <2> QED
    BY <2>2, <2>3, <2>4
<1>2. CASE nsec3 # {} /\ PerformExpandedWildcardProof3(resp.wild[1])
  <2>1. resp.method # "nsec"
    BY <1>2 DEF nsec3
  <2>2. a = SubSeq(n, 1, Len(a)) /\ Len(a) \in 0..Len(n) /\ a \in Seq(Nat)
    BY <1>0, AncestorsAre
  <2>3. Covered3(Child(a, n))
    BY <1>2, <2>2, Zenon DEF PerformExpandedWildcardProof3
  <2>4. Len(a) < Len(n)
    BY <1>0, <2>2, LongestIsUnique
  <2>5. Child(a, n) \in Ancestors(n) /\ Len(Child(a, n)) = Len(a) + 1
    <3>1. Len(a) + 1 \in 0..Len(n)
      BY <1>0, <2>2, <2>4
    <3> QED
      BY <1>0, <3>1, Prefix DEF Ancestors, Child
  <2>6. Child(a, n) \notin Chained(z, resp.method)
    BY <2>1, <2>3, <2>5, NamesAre, CoveredIsAbsent
  <2>7. n \notin Secured(z, resp.method)
    BY <2>1, <2>5, <2>6, AbsentIsUnsecured
  <2>8. Star(a) \in DOMAIN z /\ resp.type \in z[Star(a)]
    BY DEF TypesAt
  <2>9. n \notin DOMAIN z
    <3> SUFFICES ASSUME n \in DOMAIN z PROVE FALSE
      OBVIOUS
    <3>1. Delegation(z, n)
      BY <2>7, UnsecuredHas DEF Unsigned
    <3>2. resp.type = "DS"
      BY <1>0, <3>1 DEF Authoritative
    <3>3. Star(a)[Len(Star(a))] # Asterisk
      BY <2>8, <3>2, DenialAssumption DEF Scenario
    <3>4. Star(a)[Len(Star(a))] = Asterisk
      BY <2>2 DEF Star, Asterisk
    <3> QED
      BY <3>3, <3>4
  <2>10. ASSUME resp.method = "nsec3"
         PROVE  ClosestEncloser(z, n) = a
    <3>1. IsAncestor(a, Star(a))
      <4>1. Star(a) \in Seq(Nat) /\ Len(Star(a)) = Len(a) + 1 /\ \A i \in 1..Len(a) : a[i] = Star(a)[i]
        BY <2>2 DEF Star, Asterisk
      <4> QED
        BY <2>2, <4>1, AncestorLabels
    <3>2. Exists(z, a)
      BY <2>8, <3>1 DEF Exists
    <3>3. ASSUME NEW b \in Ancestors(n), Exists(z, b)
          PROVE  Len(b) <= Len(a)
      <4>1. b \in Chained(z, resp.method)
        BY <2>10, <3>3, NamesAre, ChainedExists
      <4>2. ~(Len(Child(a, n)) <= Len(b))
        BY <2>1, <2>5, <2>6, <4>1, AbsentBelow
      <4>3. Len(b) \in Nat
        BY <1>0, AncestorsAre
      <4> QED
        BY <2>2, <2>5, <4>2, <4>3
    <3> QED
      BY <3>2, <3>3, ClosestIs
  <2> QED
    BY <2>9, <2>10
<1> QED
  BY <1>1, <1>2 DEF PositiveVerdict

(* Every way to an unsigned delegation is right. *)
LEMMA DelegationIsUnsigned ==
  ASSUME Scenario, Delegation(resp.zone, resp.name), DelegatingVerdict # "NotFound"
  PROVE  Unsigned(resp.zone, resp.name)
<1> DEFINE z == resp.zone
<1> DEFINE n == resp.name
<1>0. n \in Names /\ n \in DOMAIN z
  BY NamesAre DEF Delegation
<1>1. CASE Denies(TypeBitMapContainsAnyOf(Unsafe))
  BY <1>0, <1>1, SeenTypes DEF Unsafe, TypesAt, Unsigned
<1>2. CASE Denies(TypeBitMapContainsAnyOf3(n, Unsafe))
  BY <1>0, <1>2, SeenTypes3 DEF Unsafe, TypesAt, Unsigned
<1>3. CASE PerformClosestEncloserProof(n).optedOut
  <2>1. Contenders(n) # {} /\ optedOut(NextCloserName(n, FindClosestEncloser(n)))
    BY <1>3, ProofIs
  <2>2. resp.method = "optout" /\ Covered3(NextCloserName(n, FindClosestEncloser(n)))
    BY <2>1, OptOutIs
  <2>3. n \notin Secured(z, resp.method)
    BY <2>1, <2>2, NextCloserIs
  <2> QED
    BY <1>0, <2>3, UnsecuredHas
<1> QED
  BY <1>1, <1>2, <1>3 DEF DelegatingVerdict, NoDS

-----------------------------------------------------------------------------
(* What a genuine response holds *)

(* The ancestors of a name, and so the chain of a zone, are finite. *)
LEMMA FiniteAncestors ==
  ASSUME NEW n \in Seq(Nat)
  PROVE  IsFiniteSet(Ancestors(n))
<1> DEFINE f == [k \in 0..Len(n) |-> SubSeq(n, 1, k)]
<1>1. f \in Surjection(0..Len(n), Ancestors(n))
  <2>1. f \in [0..Len(n) -> Ancestors(n)]
    BY DEF Ancestors
  <2>2. \A a \in Ancestors(n) : \E k \in 0..Len(n) : f[k] = a
    BY DEF Ancestors
  <2> HIDE DEF f
  <2> QED
    BY <2>1, <2>2 DEF Surjection
<1>2. IsFiniteSet(0..Len(n))
  BY FS_Interval
<1> HIDE DEF f
<1> QED
  BY <1>1, <1>2, FS_Surjection

(* The apex is always in the chain. *)
LEMMA ChainFinite ==
  ASSUME Scenario
  PROVE  /\ IsFiniteSet(Chained(resp.zone, resp.method))
         /\ Apex \in Chained(resp.zone, resp.method)
         /\ Chained(resp.zone, resp.method) \subseteq Names
<1> DEFINE z == resp.zone
<1> DEFINE D == Secured(z, resp.method)
<1>0. z \in Zones /\ IsFiniteSet(DOMAIN z) /\ Apex \in DOMAIN z /\ DOMAIN z \subseteq Names /\ Names \subseteq Seq(Nat)
  BY DenialAssumption DEF Scenario
<1>1. CASE resp.method = "nsec"
  BY <1>0, <1>1 DEF Chained
<1>2. CASE resp.method # "nsec"
  <2> DEFINE f == [o \in D |-> Ancestors(o)]
  <2> DEFINE A == {Ancestors(o) : o \in D}
  <2>1. D \in SUBSET DOMAIN z /\ D \subseteq Seq(Nat)
    BY <1>0 DEF Secured
  <2>2. IsFiniteSet(D)
    BY <1>0, <2>1, FS_Subset
  <2>3. f \in Surjection(D, A)
    <3>1. f \in [D -> A] /\ \A a \in A : \E o \in D : f[o] = a
      OBVIOUS
    <3> HIDE DEF f, A
    <3> QED
      BY <3>1 DEF Surjection
  <2>4. IsFiniteSet(A)
    <3> HIDE DEF f, A
    <3> QED
      BY <2>2, <2>3, FS_Surjection
  <2>5. \A a \in A : IsFiniteSet(a)
    BY <2>1, FiniteAncestors
  <2>6. IsFiniteSet(UNION A)
    <3> HIDE DEF A
    <3> QED
      BY <2>4, <2>5, FS_UNION
  <2>7. Chained(z, resp.method) \in SUBSET UNION A
    <3> SUFFICES ASSUME NEW n \in Chained(z, resp.method) PROVE \E o \in D : n \in Ancestors(o)
      OBVIOUS
    <3>1. PICK o \in D : IsAncestor(n, o) /\ n \in Names
      BY <1>2 DEF Chained
    <3>2. Len(n) \in 0..Len(o) /\ n = SubSeq(o, 1, Len(n))
      BY <1>0, <2>1, <3>1 DEF IsAncestor
    <3> QED
      BY <3>2, Zenon DEF Ancestors
  <2>8. IsFiniteSet(Chained(z, resp.method))
    <3> HIDE DEF A
    <3> QED
      BY <2>6, <2>7, FS_Subset
  <2>9. Apex \in D /\ IsAncestor(Apex, Apex)
    BY <1>0, SelfAncestor DEF Secured, Unsigned, Delegation
  <2> QED
    BY <1>0, <1>2, <2>8, <2>9 DEF Chained
<1> QED
  BY <1>1, <1>2

(* With NSEC: the last name of the zone that does not come after n. *)
LEMMA LastNsec ==
  ASSUME Scenario, resp.method = "nsec", NEW n \in Seq(Nat)
  PROVE  /\ Last(resp, n) \in DOMAIN resp.zone /\ ~Precedes(n, Last(resp, n))
         /\ \A k \in DOMAIN resp.zone : ~Precedes(n, k) => ~Precedes(Last(resp, n), k)
<1> DEFINE z == resp.zone
<1> DEFINE S == {o \in DOMAIN z : ~Precedes(n, o)}
<1> DEFINE R == {p \in S \X S : Precedes(p[1], p[2])}
<1>1. Apex \in S
  BY DenialAssumption DEF Scenario, Precedes, Apex
<1>2. S \in SUBSET DOMAIN z /\ S \subseteq Seq(Nat) /\ IsFiniteSet(DOMAIN z)
  BY DenialAssumption DEF Scenario
<1>3. Last(resp, n) = CHOOSE o \in S : \A k \in S : ~Precedes(o, k)
  <2>1. Chained(z, resp.method) = DOMAIN z
    BY DEF Chained
  <2>2. (IF S = {} THEN DOMAIN z ELSE S) = S
    BY <1>1
  <2>3. Last(resp, n) = LET from == IF S = {} THEN DOMAIN z ELSE S
                        IN  CHOOSE o \in from : \A k \in from : ~Precedes(o, k)
    BY <2>1 DEF Last
  <2> HIDE DEF S
  <2> QED
    BY <2>2, <2>3
<1>4. \A x, y \in S : <<x, y>> \in R <=> Precedes(x, y)
  OBVIOUS
<1>5. \E o \in S : \A k \in S : ~Precedes(o, k)
  <2> HIDE DEF S, R
  <2>1. IsFiniteSet(S)
    BY <1>2, FS_Subset
  <2>2. \A x, y, w \in S : <<x, y>> \in R /\ <<y, w>> \in R => <<x, w>> \in R
    BY <1>2, <1>4, OrderIsTransitive
  <2>3. \A x \in S : <<x, x>> \notin R
    BY <1>2, <1>4, OrderIsStrict
  <2>4. \E x \in S : \A y \in S : <<x, y>> \notin R
    BY <1>1, <2>1, <2>2, <2>3, MaximalExists, Zenon
  <2> QED
    BY <1>4, <2>4, Zenon
<1>6. Last(resp, n) \in S /\ \A k \in S : ~Precedes(Last(resp, n), k)
  <2> HIDE DEF S
  <2> QED
    BY <1>3, <1>5
<1> QED
  BY <1>6

(* With NSEC3: the name of the chain with the greatest hash that is not      *)
(* above that of n, or with the greatest of all.                             *)
LEMMA LastHash ==
  ASSUME Scenario, resp.method # "nsec", NEW n \in Names
  PROVE  LET C == Chained(resp.zone, resp.method)
             h == resp.hash
             o == Last(resp, n)
         IN  /\ o \in C
             /\ \A k \in C : h[k] <= h[n] => h[o] <= h[n] /\ h[k] <= h[o]
             /\ (\A k \in C : ~(h[k] <= h[n])) => \A k \in C : h[k] <= h[o]
<1> DEFINE C == Chained(resp.zone, resp.method)
<1> DEFINE h == resp.hash
<1> DEFINE U == {o \in C : ~(h[n] < h[o])}
<1> DEFINE S == IF U = {} THEN C ELSE U
<1> DEFINE R == {p \in S \X S : h[p[1]] < h[p[2]]}
<1>1. IsFiniteSet(C) /\ C # {} /\ C \subseteq Names
  BY ChainFinite
<1>2. \A k \in Names : h[k] \in Nat
  BY DenialAssumption DEF Scenario
<1>3. S \in SUBSET C /\ S # {}
  BY <1>1
<1>4. Last(resp, n) = CHOOSE o \in S : \A k \in S : ~(h[o] < h[k])
  BY DEF Last
<1>5. \A x, y \in S : <<x, y>> \in R <=> h[x] < h[y]
  OBVIOUS
<1>6. \E o \in S : \A k \in S : ~(h[o] < h[k])
  <2> HIDE DEF C, S, R, h
  <2>1. IsFiniteSet(S)
    BY <1>1, <1>3, FS_Subset
  <2>0. \A x \in S : h[x] \in Nat
    BY <1>1, <1>2, <1>3
  <2>2. \A x, y, w \in S : <<x, y>> \in R /\ <<y, w>> \in R => <<x, w>> \in R
    BY <1>5, <2>0
  <2>3. \A x \in S : <<x, x>> \notin R
    BY <1>5, <2>0
  <2>4. \E x \in S : \A y \in S : <<x, y>> \notin R
    BY <1>3, <2>1, <2>2, <2>3, MaximalExists, Zenon
  <2> QED
    BY <1>5, <2>4, Zenon
<1> DEFINE o == Last(resp, n)
<1>7. o \in S /\ \A k \in S : ~(h[o] < h[k])
  <2> HIDE DEF S
  <2> QED
    BY <1>4, <1>6
<1> HIDE DEF o, C, h
<1>8. \A k \in C : h[k] <= h[n] => h[o] <= h[n] /\ h[k] <= h[o]
  BY <1>1, <1>2, <1>7
<1>9. (\A k \in C : ~(h[k] <= h[n])) => \A k \in C : h[k] <= h[o]
  BY <1>1, <1>2, <1>7
<1>10. o \in C
  BY <1>3, <1>7
<1> QED
  BY <1>8, <1>9, <1>10 DEF o, C, h

(* A record that is held and is not ignored: the one of the last name. *)
LEMMA HeldRecord ==
  ASSUME Scenario, resp.method # "nsec", NEW n \in Names
  PROVE  Holds(resp, n) <=> \E r \in nsec3 : r.owner = resp.hash[Last(resp, n)]
<1>1. Last(resp, n) \in Chained(resp.zone, resp.method)
  BY LastHash
<1>2. resp.hash[Last(resp, n)] \in Nat
  BY <1>1, ChainFinite, DenialAssumption DEF Scenario
<1>3. ASSUME NEW r \in resp.records, r.owner = resp.hash[Last(resp, n)]
      PROVE  r \in nsec3
  <2>1. r \in Nsec3(resp.zone, resp.method, resp.hash) \cup {Foreign}
    BY DEF Scenario, Chain
  <2>2. r # Foreign
    BY <1>2, <1>3 DEF Foreign
  <2>3. \E m \in Chained(resp.zone, resp.method) :
          r = [owner |-> resp.hash[m],
               next |-> NextHash({resp.hash[k] : k \in Chained(resp.zone, resp.method)}, resp.hash[m]),
               types |-> TypesAt(resp.zone, m),
               flags |-> IF resp.method = "optout" THEN 1 ELSE 0]
    BY <2>1, <2>2, Zenon DEF Nsec3
  <2>4. r.flags \in 0..1
    BY <2>3
  <2> QED
    BY <2>4 DEF nsec3
<1>4. nsec3 \subseteq resp.records
  BY DEF nsec3
<1> QED
  BY <1>3, <1>4 DEF Holds

(* A name of the chain is matched by the record that is held for it. *)
LEMMA HeldMatches ==
  ASSUME Scenario, resp.method # "nsec", NEW n \in Chained(resp.zone, resp.method)
  PROVE  /\ Holds(resp, n) <=> \E r \in nsec3 : Match(r, n)
         /\ \A r \in nsec3 : Match(r, n) => r.types = TypesAt(resp.zone, n)
<1>1. n \in Names
  BY ChainFinite
<1>2. Last(resp, n) = n
  <2> DEFINE o == Last(resp, n)
  <2>1. o \in Chained(resp.zone, resp.method)
        /\ (resp.hash[n] <= resp.hash[n] => resp.hash[o] <= resp.hash[n] /\ resp.hash[n] <= resp.hash[o])
    BY <1>1, LastHash
  <2>2. o \in Names
    BY <2>1, ChainFinite
  <2> HIDE DEF o
  <2>3. /\ resp.hash[n] \in Nat /\ resp.hash[o] \in Nat
        /\ resp.hash[o] = resp.hash[n] => o = n
    BY <1>1, <2>2, DenialAssumption DEF Scenario
  <2>4. o = n
    BY <2>1, <2>3
  <2> QED
    BY <2>4 DEF o
<1>3. Holds(resp, n) <=> \E r \in nsec3 : Match(r, n)
  BY <1>1, <1>2, HeldRecord DEF Match
<1> QED
  BY <1>1, <1>3, MatchedIsChained

(* A name outside the chain is covered by the record that is held for it,    *)
(* and by no other.                                                          *)
LEMMA HeldCovers ==
  ASSUME Scenario, resp.method # "nsec", NEW n \in Names, n \notin Chained(resp.zone, resp.method)
  PROVE  /\ \A r \in nsec3 : ~Match(r, n)
         /\ Holds(resp, n) <=> Covered3(n)
<1> DEFINE C == Chained(resp.zone, resp.method)
<1> DEFINE hs == {resp.hash[m] : m \in C}
<1> DEFINE x == resp.hash[n]
<1> DEFINE l == resp.hash[Last(resp, n)]
<1>1. C \subseteq Names /\ Apex \in C
  BY ChainFinite
<1>2. hs \in SUBSET Nat /\ x \in Nat
  BY <1>1, DenialAssumption DEF Scenario
<1>3. x \notin hs
  BY <1>1, DenialAssumption DEF Scenario
<1>4. /\ l \in hs
      /\ \A y \in hs : y <= x => l <= x /\ y <= l
      /\ (\A y \in hs : ~(y <= x)) => \A y \in hs : y <= l
  BY LastHash
<1>5. \A r \in nsec3 : ~Match(r, n)
  BY MatchedIsChained
<1>6. ASSUME NEW r \in nsec3
      PROVE  Cover(r, n) <=> r.owner = l
  <2>1. r.owner \in hs /\ r.next = NextHash(hs, r.owner)
    <3>1. PICK m \in C : r.owner = resp.hash[m] /\ r.next = NextHash(hs, resp.hash[m])
      BY Records3, Zenon
    <3>2. resp.hash[m] \in hs
      OBVIOUS
    <3> HIDE DEF hs
    <3> QED
      BY <3>1, <3>2
  <2>2. Cover(r, n) <=> IF r.owner = r.next THEN x # r.owner
                        ELSE IF r.owner > r.next THEN x > r.owner \/ x < r.next
                        ELSE r.owner <= x /\ x < r.next
    BY DEF Cover
  <2> HIDE DEF hs, x, l
  <2>3. /\ r.next \in hs
        /\ \A y \in hs : r.owner < y => r.owner < r.next /\ r.next <= y
        /\ (\A y \in hs : ~(r.owner < y)) => \A y \in hs : r.next <= y
    <3>1. /\ NextHash(hs, r.owner) \in hs
          /\ \A y \in hs : r.owner < y => r.owner < NextHash(hs, r.owner) /\ NextHash(hs, r.owner) <= y
          /\ (\A y \in hs : ~(r.owner < y)) => \A y \in hs : NextHash(hs, r.owner) <= y
      BY <1>2, <2>1, NextHashIs, Zenon
    <3> QED
      BY <2>1, <3>1, Zenon
  <2>4. r.owner \in Nat /\ r.next \in Nat /\ l \in Nat /\ x \in Nat /\ x # r.owner /\ x # l /\ x # r.next
    BY <1>2, <1>3, <1>4, <2>1, <2>3, Zenon
  <2>5. CASE \E y \in hs : r.owner < y
    <3>1. r.owner < r.next /\ \A y \in hs : r.owner < y => r.next <= y
      BY <2>3, <2>5
    <3>2. Cover(r, n) <=> r.owner < x /\ x < r.next
      BY <2>2, <2>4, <3>1
    <3>3. ASSUME r.owner < x, x < r.next PROVE r.owner = l
      <4>1. l <= x /\ r.owner <= l
        BY <1>4, <2>1, <2>4, <3>3
      <4>2. ~(r.owner < l)
        BY <1>4, <2>4, <3>1, <3>3, <4>1
      <4> QED
        BY <2>4, <4>1, <4>2
    <3>4. ASSUME r.owner = l PROVE r.owner < x /\ x < r.next
      <4>1. ~(r.next <= l)
        BY <2>4, <3>1, <3>4
      <4>2. \E y \in hs : y <= x
        BY <1>4, <2>3, <4>1
      <4>3. l <= x
        BY <1>4, <4>2
      <4>4. ~(r.next <= x)
        BY <1>4, <2>3, <4>1
      <4> QED
        BY <2>4, <3>4, <4>3, <4>4
    <3> QED
      BY <3>2, <3>3, <3>4
  <2>6. CASE \A y \in hs : ~(r.owner < y)
    <3>1. \A y \in hs : y \in Nat /\ r.next <= y /\ y <= r.owner
      BY <1>2, <2>1, <2>3, <2>4, <2>6
    <3>2. r.next <= r.owner
      BY <2>1, <3>1
    <3>3. Cover(r, n) <=> r.owner = r.next \/ x > r.owner \/ x < r.next
      BY <2>2, <2>4, <3>2
    <3>4. ASSUME r.owner = r.next PROVE r.owner = l
      BY <1>4, <2>4, <3>1, <3>4
    <3>5. ASSUME x > r.owner PROVE r.owner = l
      <4>1. r.owner <= l
        BY <1>4, <2>1, <2>4, <3>5
      <4> QED
        BY <1>4, <2>4, <3>1, <4>1
    <3>6. ASSUME x < r.next PROVE r.owner = l
      <4>1. \A y \in hs : ~(y <= x)
        BY <2>4, <3>1, <3>6
      <4>2. r.owner <= l
        BY <1>4, <2>1, <4>1
      <4> QED
        BY <1>4, <2>4, <3>1, <4>2
    <3>7. ASSUME r.owner = l, r.owner # r.next, ~(x > r.owner) PROVE x < r.next
      <4>1. ~(l <= x)
        BY <2>4, <3>7
      <4>2. \A y \in hs : ~(y <= x)
        BY <1>4, <4>1
      <4> QED
        BY <2>3, <2>4, <4>2
    <3> QED
      BY <3>3, <3>4, <3>5, <3>6, <3>7
  <2> QED
    BY <2>5, <2>6
<1>7. Holds(resp, n) <=> \E r \in nsec3 : r.owner = l
  BY HeldRecord
<1> HIDE DEF l
<1> QED
  BY <1>5, <1>6, <1>7 DEF Covered3

(* With NSEC: a name that owns records is the owner of the record held.      *)
LEMMA HeldOwner ==
  ASSUME Scenario, resp.method = "nsec", NEW n \in DOMAIN resp.zone, Holds(resp, n)
  PROVE  \E r \in nsec : r.owner = n
<1> DEFINE o == Last(resp, n)
<1>1. n \in Seq(Nat) /\ DOMAIN resp.zone \subseteq Seq(Nat)
  BY NamesAre
<1>2. ~Precedes(n, n)
  BY <1>1, OrderIsStrict
<1>3. o \in DOMAIN resp.zone /\ ~Precedes(n, o) /\ ~Precedes(o, n)
  BY <1>1, <1>2, LastNsec
<1>4. \E r \in nsec : r.owner = o
  BY DEF Holds, nsec
<1> HIDE DEF o
<1> QED
  BY <1>1, <1>3, <1>4, OrderIsTotal

(* One that does not, and no name of the zone between it and the span, is    *)
(* covered: w is n, or a name next to it that the zone does not tell apart.  *)
LEMMA HeldSpan ==
  ASSUME Scenario, resp.method = "nsec", NEW n \in Seq(Nat), n \notin DOMAIN resp.zone, Holds(resp, n),
         NEW w \in Seq(Nat),
         \A o \in DOMAIN resp.zone : (Precedes(o, n) => Precedes(o, w)) /\ (Precedes(n, o) => Precedes(w, o))
  PROVE  covered(w)
<1> DEFINE z == resp.zone
<1> DEFINE o == Last(resp, n)
<1> DEFINE nx == NextNsec(z, o)
<1>1. z \in Zones /\ DOMAIN z \subseteq Seq(Nat)
  BY NamesAre DEF Scenario
<1>2. o \in DOMAIN z /\ ~Precedes(n, o) /\ \A k \in DOMAIN z : ~Precedes(n, k) => ~Precedes(o, k)
  BY LastNsec
<1>3. PICK r \in nsec : r.owner = o
  BY DEF Holds, nsec
<1>4. r.next = nx
  BY <1>3, RecordsOne
<1> HIDE DEF o
<1>5. Precedes(o, n)
  BY <1>1, <1>2, OrderIsTotal
<1>6. canonicalCmp(o, w)
  BY <1>1, <1>2, <1>5, OrderIsCmp
<1>7. nx = Apex \/ canonicalCmp(w, nx)
  <2>1. CASE After(z, o) = {}
    BY <2>1 DEF NextNsec
  <2>2. CASE After(z, o) # {}
    <3>1. \E x \in After(z, o) : \A k \in After(z, o) \ {x} : Precedes(x, k)
      BY <1>1, <2>2, NextExists
    <3>2. nx \in After(z, o)
      BY <2>2, <3>1 DEF NextNsec
    <3> HIDE DEF nx
    <3>3. nx \in DOMAIN z /\ Precedes(o, nx)
      BY <3>2 DEF After
    <3>4. Precedes(n, nx)
      BY <1>2, <3>3
    <3> QED
      BY <1>1, <3>3, <3>4, OrderIsCmp
  <2> QED
    BY <2>1, <2>2
<1> HIDE DEF nx
<1> QED
  BY <1>3, <1>4, <1>6, <1>7 DEF covered

(* Names below one that does not exist are not told apart by the zone.       *)
LEMMA NotToldApart ==
  ASSUME NEW c \in Seq(Nat), NEW n \in Seq(Nat), NEW w \in Seq(Nat), NEW o \in Seq(Nat),
         IsAncestor(c, n), IsAncestor(c, w), ~IsAncestor(c, o)
  PROVE  (Precedes(o, n) => Precedes(o, w)) /\ (Precedes(n, o) => Precedes(w, o))
<1>1. /\ Len(c) <= Len(n) /\ Len(c) <= Len(w)
      /\ \A i \in 1..Len(c) : c[i] = n[i] /\ c[i] = w[i]
  BY AncestorLabels
<1>2. \A i \in 1..Len(c) : i \in DOMAIN n /\ i \in DOMAIN w /\ n[i] \in Nat
  <2>1. /\ Len(c) \in Nat /\ Len(n) \in Nat /\ Len(w) \in Nat
        /\ DOMAIN n = 1..Len(n) /\ DOMAIN w = 1..Len(w)
    OBVIOUS
  <2>2. 1..Len(c) \subseteq 1..Len(n) /\ 1..Len(c) \subseteq 1..Len(w)
    BY <1>1, <2>1
  <2>3. \A i \in DOMAIN n : n[i] \in Nat
    OBVIOUS
  <2> QED
    BY <2>1, <2>2, <2>3, Zenon
<1>3. \A i \in 1..Len(c) : LabelAt(n, i) = c[i] /\ LabelAt(w, i) = c[i]
  BY <1>1, <1>2 DEF LabelAt
<1>4. ASSUME NEW k \in Nat \ {0}, \A j \in 1..(k - 1) : LabelAt(o, j) = LabelAt(n, j)
      PROVE  k <= Len(c)
  <2> SUFFICES ASSUME ~(k <= Len(c)) PROVE FALSE
    OBVIOUS
  <2>1. \A i \in 1..Len(c) : i \in 1..(k - 1)
    OBVIOUS
  <2>2. \A i \in 1..Len(c) : LabelAt(o, i) = c[i] /\ c[i] \in Nat
    BY <1>3, <1>4, <2>1
  <2>3. \A i \in 1..Len(c) : i \in DOMAIN o /\ o[i] = c[i]
    BY <2>2 DEF LabelAt
  <2>4. Len(c) <= Len(o)
    <3>1. CASE Len(c) = 0
      BY <3>1
    <3>2. CASE Len(c) # 0
      <4>1. Len(c) \in 1..Len(c)
        BY <3>2
      <4>2. Len(c) \in DOMAIN o
        BY <2>3, <4>1
      <4> QED
        BY <4>2
    <3> QED
      BY <3>1, <3>2
  <2> QED
    BY <2>3, <2>4, AncestorLabels, Zenon
<1>5. ASSUME Precedes(o, n) PROVE Precedes(o, w)
  <2>1. PICK k \in DOMAIN n : (\A j \in 1..(k - 1) : LabelAt(o, j) = LabelAt(n, j)) /\ LabelAt(o, k) < LabelAt(n, k)
    BY <1>5 DEF Precedes
  <2>2. k \in Nat \ {0} /\ k <= Len(c)
    BY <1>4, <2>1
  <2>3. \A j \in 1..k : j \in 1..Len(c)
    BY <2>2
  <2>4. \A j \in 1..k : LabelAt(w, j) = LabelAt(n, j)
    BY <1>3, <2>3, Zenon
  <2>5. k \in DOMAIN w /\ k \in 1..k /\ \A j \in 1..(k - 1) : j \in 1..k
    BY <1>2, <2>2, SMTT(20)
  <2> QED
    BY <2>1, <2>4, <2>5 DEF Precedes
<1>6. ASSUME Precedes(n, o) PROVE Precedes(w, o)
  <2>1. PICK k \in DOMAIN o : (\A j \in 1..(k - 1) : LabelAt(n, j) = LabelAt(o, j)) /\ LabelAt(n, k) < LabelAt(o, k)
    BY <1>6 DEF Precedes
  <2>2. k \in Nat \ {0} /\ k <= Len(c)
    BY <1>4, <2>1
  <2>3. \A j \in 1..k : j \in 1..Len(c)
    BY <2>2
  <2>4. \A j \in 1..k : LabelAt(w, j) = LabelAt(n, j)
    BY <1>3, <2>3, Zenon
  <2>5. k \in 1..k /\ \A j \in 1..(k - 1) : j \in 1..k
    BY <2>2
  <2> QED
    BY <2>1, <2>4, <2>5 DEF Precedes
<1> QED
  BY <1>5, <1>6

(* The longest ancestor that is in the chain; the one below it is not. *)
LEMMA ClosestChained ==
  ASSUME Scenario
  PROVE  LET C == Chained(resp.zone, resp.method)
             ce == Closest(C, resp.name)
         IN  /\ ce \in Ancestors(resp.name) /\ ce \in C
             /\ \A b \in Ancestors(resp.name) : b \in C => Len(b) <= Len(ce)
             /\ resp.name \notin C =>
                  /\ ce # resp.name /\ Child(ce, resp.name) \in Ancestors(resp.name)
                  /\ Child(ce, resp.name) \notin C
<1> DEFINE C == Chained(resp.zone, resp.method)
<1> DEFINE n == resp.name
<1> DEFINE ce == Closest(C, n)
<1> DEFINE S == Ancestors(n) \cap C
<1>1. n \in Seq(Nat) /\ n \in Ancestors(n)
  BY NamesAre, SelfAncestor
<1>2. Apex \in S
  <2>1. 0 \in 0..Len(n) /\ SubSeq(n, 1, 0) = Apex
    BY <1>1 DEF Apex
  <2>2. Apex \in Ancestors(n)
    BY <2>1 DEF Ancestors
  <2> QED
    BY <2>2, ChainFinite
<1>3. ce = CHOOSE a \in S : \A b \in S : Len(b) <= Len(a)
  BY DEF Closest
<1>4. ce \in S /\ \A b \in S : Len(b) <= Len(ce)
  <2> DEFINE x == ce
  <2>1. S \in SUBSET Ancestors(n) /\ S # {}
    BY <1>2
  <2>2. x = CHOOSE a \in S : \A b \in S : Len(b) <= Len(a)
    BY <1>3
  <2> HIDE DEF S, x
  <2>3. \E a \in S : \A b \in S : Len(b) <= Len(a)
    BY <1>1, <2>1, Longest, SMTT(20)
  <2>4. x \in S /\ \A b \in S : Len(b) <= Len(x)
    BY <2>2, <2>3
  <2> QED
    BY <2>4 DEF x
<1> HIDE DEF ce
<1>5. ce \in Seq(Nat) /\ Len(ce) \in 0..Len(n)
  BY <1>1, <1>4, AncestorsAre
<1>6. ASSUME n \notin C
      PROVE  ce # n /\ Child(ce, n) \in Ancestors(n) /\ Child(ce, n) \notin C
  <2>1. ce # n
    BY <1>4, <1>6
  <2>2. Len(ce) # Len(n)
    BY <1>1, <1>4, <2>1, LongestIsUnique
  <2>3. Len(ce) + 1 \in 0..Len(n)
    BY <1>1, <1>5, <2>2
  <2>4. Child(ce, n) \in Ancestors(n) /\ Len(Child(ce, n)) = Len(ce) + 1
    BY <1>1, <2>3, Prefix DEF Child, Ancestors
  <2>5. Child(ce, n) \notin S
    BY <1>4, <1>5, <2>4
  <2> QED
    BY <2>1, <2>4, <2>5
<1> QED
  BY <1>4, <1>6 DEF ce

(* The closest encloser of the zone, of a name that does not exist.          *)
LEMMA ClosestExists ==
  ASSUME Scenario, ~Exists(resp.zone, resp.name)
  PROVE  LET ce == ClosestEncloser(resp.zone, resp.name)
         IN  /\ ce \in Ancestors(resp.name) /\ Exists(resp.zone, ce) /\ ce # resp.name
             /\ \A b \in Ancestors(resp.name) : Exists(resp.zone, b) => Len(b) <= Len(ce)
<1> DEFINE n == resp.name
<1> DEFINE S == {a \in Ancestors(n) : Exists(resp.zone, a)}
<1>1. n \in Seq(Nat)
  BY NamesAre
<1>2. Apex \in S
  <2>1. 0 \in 0..Len(n) /\ SubSeq(n, 1, 0) = Apex
    BY <1>1 DEF Apex
  <2>2. Apex \in DOMAIN resp.zone /\ IsAncestor(Apex, Apex)
    BY DenialAssumption, SelfAncestor DEF Scenario, Apex
  <2> QED
    BY <2>1, <2>2 DEF Ancestors, Exists
<1>3. \E a \in S : \A b \in S : Len(b) <= Len(a)
  <2>1. S \in SUBSET Ancestors(n) /\ S # {}
    BY <1>2
  <2> HIDE DEF S
  <2> QED
    BY <1>1, <2>1, Longest, Zenon
<1>4. PICK a \in S : \A b \in S : Len(b) <= Len(a)
  BY <1>3
<1>5. ClosestEncloser(resp.zone, n) = a
  BY <1>4, ClosestIs, SMTT(20)
<1> QED
  BY <1>4, <1>5

(* The search for the closest encloser finds it, if its record is held.      *)
LEMMA EncloserFound ==
  ASSUME Scenario, resp.method # "nsec", Authoritative(resp.zone, resp.name, resp.type),
         resp.name \notin Chained(resp.zone, resp.method),
         \A a \in Ancestors(resp.name) \ {resp.name} : "DNAME" \notin TypesAt(resp.zone, a),
         Holds(resp, Closest(Chained(resp.zone, resp.method), resp.name)),
         Holds(resp, Child(Closest(Chained(resp.zone, resp.method), resp.name), resp.name))
  PROVE  LET ce == Closest(Chained(resp.zone, resp.method), resp.name)
         IN  /\ Contenders(resp.name) # {} /\ FindClosestEncloser(resp.name) = ce
             /\ NextCloserName(resp.name, ce) = Child(ce, resp.name)
             /\ Covered3(Child(ce, resp.name))
<1> DEFINE C == Chained(resp.zone, resp.method)
<1> DEFINE n == resp.name
<1> DEFINE z == resp.zone
<1> DEFINE ce == Closest(C, n)
<1>1. /\ ce \in Ancestors(n) /\ ce \in C /\ ce # n
      /\ \A b \in Ancestors(n) : b \in C => Len(b) <= Len(ce)
      /\ Child(ce, n) \in Ancestors(n) /\ Child(ce, n) \notin C
  BY ClosestChained
<1>2. Holds(resp, ce) /\ Holds(resp, Child(ce, n))
  OBVIOUS
<1> HIDE DEF ce
<1>3. n \in Seq(Nat) /\ \A a \in Ancestors(n) : a \in Names /\ a \in Seq(Nat) /\ Len(a) \in Nat
  BY NamesAre
<1>4. PICK r \in nsec3 : Match(r, ce) /\ r.types = TypesAt(z, ce)
  BY <1>1, <1>2, HeldMatches
<1>5. Eligible(r)
  <2>1. "DNAME" \notin r.types
    BY <1>1, <1>4
  <2>2. ASSUME "NS" \in r.types PROVE "SOA" \in r.types
    <3>1. ce \in DOMAIN z /\ "NS" \in z[ce]
      BY <1>4, <2>2 DEF TypesAt
    <3>2. ce = Apex
      BY <1>1, <3>1 DEF Authoritative, Delegation
    <3>3. "SOA" \in z[ce]
      BY <3>1, <3>2, DenialAssumption DEF Scenario
    <3> QED
      BY <1>4, <3>1, <3>3 DEF TypesAt
  <2> QED
    BY <2>1, <2>2 DEF Eligible
<1>6. ce \in Contenders(n)
  BY <1>1, <1>4, <1>5 DEF Contenders
<1>7. \A b \in Contenders(n) : b \in Ancestors(n) /\ b \in C
  BY <1>3, MatchedIsChained DEF Contenders
<1>8. \A b \in Contenders(n) : Len(b) <= Len(ce)
  BY <1>1, <1>7
<1>9. FindClosestEncloser(n) = ce
  <2>1. ASSUME NEW x \in Contenders(n), \A b \in Contenders(n) : Len(b) <= Len(x)
        PROVE  x = ce
    <3>1. Len(ce) <= Len(x) /\ Len(x) <= Len(ce) /\ x \in Ancestors(n)
      BY <1>6, <1>7, <1>8, <2>1
    <3>2. Len(x) = Len(ce)
      BY <1>1, <1>3, <3>1
    <3> QED
      BY <1>1, <1>3, <3>1, <3>2, LongestIsUnique
  <2> QED
    BY <1>6, <1>8, <2>1 DEF FindClosestEncloser
<1>10. Covered3(Child(ce, n))
  BY <1>1, <1>2, <1>3, HeldCovers
<1> QED
  BY <1>1, <1>6, <1>9, <1>10 DEF ce, NextCloserName

(* A record that matches a name of the chain denies what is not at the name. *)
LEMMA HeldDenies ==
  ASSUME Scenario, resp.method # "nsec", NEW n \in Chained(resp.zone, resp.method), Holds(resp, n), NEW ts
  PROVE  LET seen == TypeBitMapContainsAnyOf3(n, ts)
         IN  seen[1] /\ (seen[2] <=> ts \cap TypesAt(resp.zone, n) # {})
<1>1. /\ \E r \in nsec3 : Match(r, n)
      /\ \A r \in nsec3 : Match(r, n) => r.types = TypesAt(resp.zone, n)
  BY HeldMatches
<1>2. {r \in nsec3 : Match(r, n)} # {}
  BY <1>1
<1>3. (\E r \in {r \in nsec3 : Match(r, n)} : r.types \cap ts # {}) <=> ts \cap TypesAt(resp.zone, n) # {}
  BY <1>1
<1> QED
  BY <1>2, <1>3, Zenon DEF TypeBitMapContainsAnyOf3

(* So does the record of an owner, with NSEC. *)
LEMMA HeldDeniesOne ==
  ASSUME Scenario, resp.method = "nsec", resp.name \in DOMAIN resp.zone, Holds(resp, resp.name), NEW ts
  PROVE  LET seen == TypeBitMapContainsAnyOf(ts)
         IN  seen[1] /\ (seen[2] <=> ts \cap resp.zone[resp.name] # {})
<1>1. \E r \in nsec : r.owner = resp.name
  BY HeldOwner
<1>2. \A r \in nsec : r.owner = resp.name => r.types = resp.zone[resp.name]
  BY RecordsOne
<1>3. {r \in nsec : r.owner = resp.name} # {}
  BY <1>1
<1>4. (\E r \in {r \in nsec : r.owner = resp.name} : r.types \cap ts # {})
      <=> ts \cap resp.zone[resp.name] # {}
  BY <1>1, <1>2
<1> QED
  BY <1>3, <1>4, Zenon DEF TypeBitMapContainsAnyOf

(* A genuine denial is found, with NSEC. *)
LEMMA GenuineNegativeOne ==
  ASSUME Scenario, resp.method = "nsec", resp.form = "negative", Genuine(resp), ~NotHandled(resp)
  PROVE  NegativeVerdict # "NotFound"
<1> DEFINE z == resp.zone
<1> DEFINE n == resp.name
<1> DEFINE asked == {"CNAME", resp.type}
<1> DEFINE ce == ClosestEncloser(z, n)
<1>1. /\ {resp.type, "CNAME"} \cap Answer(z, n) = {}
      /\ ProofSent(resp, n)
  BY DEF Genuine
<1>2. Holds(resp, n) /\ (~Exists(z, n) => Holds(resp, Star(ce)))
  BY <1>1 DEF ProofSent
<1>3. /\ Exists(z, n) => n \in DOMAIN z
      /\ ce = Parent(n) => Star(ce) \notin DOMAIN z
  BY DEF NotHandled
<1>4. n \in Seq(Nat) /\ n \in Ancestors(n) /\ IsAncestor(n, n) /\ DOMAIN z \subseteq Seq(Nat)
  BY NamesAre, SelfAncestor
<1>5. CASE n \in DOMAIN z
  <2>1. Exists(z, n)
    BY <1>4, <1>5 DEF Exists
  <2>2. asked \cap z[n] = {}
    BY <1>1, <1>5, <2>1 DEF Answer, TypesAt
  <2>3. Denies(TypeBitMapContainsAnyOf(asked))
    BY <1>2, <1>5, <2>2, HeldDeniesOne DEF Denies
  <2> QED
    BY <2>3 DEF NegativeVerdict
<1>6. CASE n \notin DOMAIN z
  <2>1. ~Exists(z, n) /\ Holds(resp, Star(ce))
    BY <1>2, <1>3, <1>6
  <2>2. /\ ce \in Ancestors(n) /\ ce # n
        /\ \A b \in Ancestors(n) : Exists(z, b) => Len(b) <= Len(ce)
    BY <2>1, ClosestExists
  <2> HIDE DEF ce
  <2>3. ce \in Seq(Nat) /\ Len(ce) \in 0..Len(n) /\ Len(ce) # Len(n) /\ Star(ce) \in Seq(Nat)
    BY <1>4, <2>2, AncestorsAre, LongestIsUnique, NamesAre
  <2>4. covered(n)
    BY <1>2, <1>4, <1>6, HeldSpan
  <2>5. n # Apex /\ Len(n) - 1 \in 0..Len(n) /\ Len(n) \in Nat \ {0}
    BY <1>4, <2>3 DEF Apex
  <2>6. Parent(n) \in Seq(Nat) /\ Len(Parent(n)) = Len(n) - 1
        /\ (\A i \in 1..(Len(n) - 1) : Parent(n)[i] = n[i]) /\ Parent(n) \in Ancestors(n)
    <3>1. Parent(n) = SubSeq(n, 1, Len(n) - 1)
      BY DEF Parent
    <3>2. Parent(n) \in Ancestors(n)
      BY <2>5, <3>1 DEF Ancestors
    <3>3. /\ SubSeq(n, 1, Len(n) - 1) \in Seq(Nat) /\ Len(SubSeq(n, 1, Len(n) - 1)) = Len(n) - 1
          /\ \A i \in 1..(Len(n) - 1) : SubSeq(n, 1, Len(n) - 1)[i] = n[i]
      BY <1>4, <2>5, Prefix, SMTT(20)
    <3> QED
      BY <3>1, <3>2, <3>3
  <2>7. wildcardName(n) = Star(Parent(n))
    BY <2>5 DEF wildcardName, Parent
  <2>8. CASE ce = Parent(n)
    <3>1. Star(ce) \notin DOMAIN z
      BY <1>3, <2>8 DEF ce
    <3>2. covered(Star(ce))
      BY <2>1, <2>3, <3>1, HeldSpan
    <3> QED
      BY <2>4, <2>7, <2>8, <3>2
         DEF NegativeVerdict, PerformQNameDoesNotExistProof, verifyQNameCovered, verifyWildcardCovered
  <2>9. CASE ce # Parent(n)
    <3> DEFINE w == Star(Parent(n))
    <3>1. ~Exists(z, Parent(n))
      <4>1. Len(ce) # Len(Parent(n))
        BY <1>4, <2>2, <2>6, <2>9, LongestIsUnique
      <4> QED
        BY <2>2, <2>3, <2>5, <2>6, <4>1
    <3>2. w \in Seq(Nat) /\ Len(w) = Len(n) /\ \A i \in 1..(Len(n) - 1) : w[i] = Parent(n)[i]
      BY <2>6 DEF Star, Asterisk
    <3> DEFINE p == Parent(n)
    <3>3. p \in Seq(Nat) /\ Len(p) = Len(n) - 1 /\ ~Exists(z, p) /\ \A i \in 1..(Len(n) - 1) : p[i] = n[i] /\ p[i] = w[i]
      BY <2>6, <3>1, <3>2, Zenon
    <3>4. w = Star(p)
      OBVIOUS
    <3> HIDE DEF p, w
    <3>5. IsAncestor(p, n) /\ IsAncestor(p, w)
      <4>1. Len(p) <= Len(n) /\ Len(p) <= Len(w) /\ \A i \in 1..Len(p) : p[i] = n[i] /\ p[i] = w[i]
        <5>1. Len(p) <= Len(n) /\ Len(p) <= Len(w) /\ 1..Len(p) = 1..(Len(n) - 1)
          BY <2>5, <3>2, <3>3
        <5> QED
          BY <3>3, <5>1, Zenon
      <4> QED
        BY <1>4, <3>2, <3>3, <4>1, AncestorLabels, ZenonT(30)
    <3>6. \A o \in DOMAIN z : o \in Seq(Nat) /\ ~IsAncestor(p, o)
      BY <1>4, <3>3 DEF Exists
    <3>7. \A o \in DOMAIN z : (Precedes(o, n) => Precedes(o, w)) /\ (Precedes(n, o) => Precedes(w, o))
      BY <1>4, <3>2, <3>3, <3>5, <3>6, NotToldApart
    <3>8. covered(w)
      BY <1>2, <1>4, <1>6, <3>2, <3>7, HeldSpan
    <3>9. wildcardName(n) = w
      BY <2>7 DEF w
    <3> QED
      BY <2>4, <3>8, <3>9
         DEF NegativeVerdict, PerformQNameDoesNotExistProof, verifyQNameCovered, verifyWildcardCovered
  <2> QED
    BY <2>8, <2>9
<1> QED
  BY <1>5, <1>6

(* And with NSEC3. *)
LEMMA GenuineNegative ==
  ASSUME Scenario, resp.method # "nsec", resp.form = "negative", Genuine(resp),
         Authoritative(resp.zone, resp.name, resp.type)
  PROVE  NegativeVerdict # "NotFound"
<1> DEFINE z == resp.zone
<1> DEFINE n == resp.name
<1> DEFINE C == Chained(z, resp.method)
<1> DEFINE asked == {"CNAME", resp.type}
<1> DEFINE ce == Closest(C, n)
<1>1. /\ \A a \in Ancestors(n) \ {n} : "DNAME" \notin TypesAt(z, a)
      /\ {resp.type, "CNAME"} \cap Answer(z, n) = {}
      /\ n \in C \/ {resp.type, "CNAME"} \cap TypesAt(z, Star(ce)) = {}
      /\ ProofSent(resp, n)
  BY DEF Genuine
<1>2. CASE n \in C
  <2>1. Holds(resp, n)
    BY <1>1, <1>2 DEF ProofSent
  <2>2. Exists(z, n)
    BY <1>2 DEF Exists, Chained, Secured
  <2>3. asked \cap TypesAt(z, n) = {}
    BY <1>1, <2>2 DEF Answer
  <2>4. Denies(TypeBitMapContainsAnyOf3(n, asked))
    BY <1>2, <2>1, <2>3, HeldDenies DEF Denies
  <2> QED
    BY <2>4 DEF NegativeVerdict
<1>3. CASE n \notin C
  <2>1. Holds(resp, ce) /\ Holds(resp, Child(ce, n)) /\ Holds(resp, Star(ce))
    BY <1>1, <1>3 DEF ProofSent
  <2>2. /\ Contenders(n) # {} /\ FindClosestEncloser(n) = ce
        /\ NextCloserName(n, ce) = Child(ce, n) /\ Covered3(Child(ce, n))
    BY <1>1, <1>3, <2>1, EncloserFound
  <2>3. ce \in Ancestors(n)
    BY ClosestChained
  <2>4. asked \cap TypesAt(z, Star(ce)) = {}
    BY <1>1, <1>3
  <2> HIDE DEF ce
  <2>5. Star(ce) \in Names
    BY <2>3, NamesAre
  <2>6. Covered3(Star(ce)) \/ wildcardNoData
    <3>1. CASE Star(ce) \in C
      <4>1. Denies(TypeBitMapContainsAnyOf3(Star(ce), asked))
        BY <2>1, <2>4, <3>1, HeldDenies DEF Denies
      <4> QED
        BY <2>2, <4>1 DEF wildcardNoData
    <3>2. CASE Star(ce) \notin C
      BY <2>1, <2>5, <3>2, HeldCovers, SMTT(20)
    <3> QED
      BY <3>1, <3>2
  <2> DEFINE p == PerformClosestEncloserProof(n)
  <2>7. p.encloser /\ p.nextCloser /\ (p.wildcard <=> Covered3(Star(ce)))
    BY <2>2 DEF PerformClosestEncloserProof
  <2> HIDE DEF p
  <2>8. p.encloser /\ p.nextCloser /\ (p.wildcard \/ wildcardNoData)
    BY <2>6, <2>7
  <2> QED
    BY <2>8 DEF NegativeVerdict, p
<1> QED
  BY <1>2, <1>3

(* A genuine wildcard is found. *)
LEMMA GenuinePositive ==
  ASSUME Scenario, resp.form = "positive", Genuine(resp), ~NotHandled(resp), resp.wild # <<>>,
         NEW a \in Ancestors(resp.name), resp.type \in TypesAt(resp.zone, Star(a)), resp.wild[1] = Len(a)
  PROVE  Len(resp.wild) = 1 /\ PositiveVerdict # "NotFound"
<1> DEFINE z == resp.zone
<1> DEFINE n == resp.name
<1> DEFINE C == Chained(z, resp.method)
<1> DEFINE ce == ClosestEncloser(z, n)
<1>1. /\ ~Exists(z, n) /\ resp.wild = <<Len(ce)>>
      /\ IF resp.method = "nsec" THEN Holds(resp, n)
         ELSE /\ Holds(resp, Child(Closest(C, n), n)) /\ Closest(C, n) = ce
              /\ ~Holds(resp, Star(Closest(C, n)))
  BY DEF Genuine
<1>2. ce \in Ancestors(n) /\ ce # n
  BY <1>1, ClosestExists
<1>3. resp.method = "nsec" => ce = Parent(n)
  BY DEF NotHandled
<1>4. resp.method # "nsec" => /\ ce \in Ancestors(n)
                              /\ n \notin C => Child(ce, n) \in Ancestors(n) /\ Child(ce, n) \notin C
  BY <1>1, ClosestChained
<1> HIDE DEF ce
<1>5. n \in Seq(Nat) /\ n \in Ancestors(n) /\ IsAncestor(n, n)
  BY NamesAre, SelfAncestor
<1>6. Len(resp.wild) = 1 /\ resp.wild[1] = Len(ce)
  BY <1>1
<1>7. a = ce /\ Star(ce) \in DOMAIN z
  BY <1>2, <1>5, <1>6, LongestIsUnique, Zenon DEF TypesAt
<1>8. ce \in Seq(Nat) /\ Len(ce) \in 0..Len(n) /\ SubSeq(n, 1, Len(ce)) = ce
  BY <1>2, <1>5, AncestorsAre
<1>9. CASE resp.method = "nsec"
  <2>1. n \notin DOMAIN z
    BY <1>1, <1>5 DEF Exists
  <2>2. covered(n)
    BY <1>1, <1>5, <1>9, <2>1, HeldSpan
  <2>3. n # Apex
    BY <2>1, DenialAssumption DEF Scenario
  <2>4. wildcardName(n) = Star(ce)
    BY <1>3, <1>9, <2>3, ZenonT(30) DEF wildcardName, Parent
  <2>5. ~covered(wildcardName(n))
    BY <1>7, <2>4, CoveredOwnsNothing
  <2>6. resp.question = n
    BY <1>9 DEF NotHandled
  <2> QED
    BY <1>6, <2>2, <2>5, <2>6, Zenon
       DEF PositiveVerdict, PerformExpandedWildcardProof, verifyQNameCovered, verifyWildcardCovered
<1>10. CASE resp.method # "nsec"
  <2>1. n \notin C
    BY <1>1, <1>10 DEF Exists, Chained, Secured
  <2>2. Child(ce, n) \in Names /\ Child(ce, n) \notin C
    BY <1>4, <1>10, <2>1, NamesAre, SMTT(20)
  <2>3. Covered3(Child(ce, n))
    BY <1>1, <1>10, <2>2, HeldCovers
  <2>4. Star(ce) \in Names
    BY <1>2, NamesAre
  <2>5. ~Covered3(Star(ce)) /\ ~\E r \in nsec3 : Match(r, Star(ce))
    <3>1. ~Holds(resp, Star(ce))
      BY <1>1, <1>10
    <3>2. CASE Star(ce) \in C
      BY <1>10, <2>4, <3>1, <3>2, HeldMatches, CoveredIsAbsent
    <3>3. CASE Star(ce) \notin C
      BY <1>10, <2>4, <3>1, <3>3, HeldCovers
    <3> QED
      BY <3>2, <3>3
  <2>6. PerformExpandedWildcardProof3(resp.wild[1])
    BY <1>6, <1>8, <2>3, <2>5, Zenon DEF PerformExpandedWildcardProof3
  <2>7. nsec3 # {}
    BY <2>3 DEF Covered3
  <2> QED
    BY <1>6, <2>6, <2>7 DEF PositiveVerdict
<1> QED
  BY <1>9, <1>10

(* A genuine delegation without DS records is found. *)
LEMMA GenuineDelegation ==
  ASSUME Scenario, resp.form = "delegating", Genuine(resp), ~resp.ds,
         Authoritative(resp.zone, resp.name, resp.type), Delegation(resp.zone, resp.name)
  PROVE  ~resp.mixed /\ DelegatingVerdict # "NotFound"
<1> DEFINE z == resp.zone
<1> DEFINE n == resp.name
<1> DEFINE C == Chained(z, resp.method)
<1> DEFINE ce == Closest(C, n)
<1>1. /\ \A a \in Ancestors(n) \ {n} : "DNAME" \notin TypesAt(z, a)
      /\ ~resp.mixed /\ "DS" \notin z[n]
      /\ IF n \in C THEN Holds(resp, n) ELSE Holds(resp, ce) /\ Holds(resp, Child(ce, n))
  BY DEF Genuine
<1>2. n # Apex /\ n \in DOMAIN z /\ "NS" \in z[n]
  BY DEF Delegation
<1>3. Unsafe \cap z[n] = {} /\ {"NS"} \cap z[n] # {}
  <2>1. \A o \in DOMAIN z : ("SOA" \in z[o] <=> o = Apex) /\ ("CNAME" \in z[o] => z[o] = {"CNAME"})
    BY DenialAssumption DEF Scenario
  <2> HIDE DEF z, n
  <2> QED
    BY <1>1, <1>2, <2>1 DEF Unsafe
<1>4. TypesAt(z, n) = z[n]
  BY <1>2 DEF TypesAt
<1>5. CASE resp.method = "nsec"
  <2>1. Holds(resp, n)
    BY <1>1, <1>2, <1>5 DEF Chained
  <2>2. NoDS(TypeBitMapContainsAnyOf({"NS"}), TypeBitMapContainsAnyOf(Unsafe))
    BY <1>2, <1>3, <1>5, <2>1, HeldDeniesOne, SMTT(20) DEF NoDS, Denies
  <2> QED
    BY <1>1, <2>2, Zenon DEF DelegatingVerdict
<1>6. CASE resp.method # "nsec" /\ n \in C
  <2>1. Holds(resp, n)
    BY <1>1, <1>6
  <2>2. NoDS(TypeBitMapContainsAnyOf3(n, {"NS"}), TypeBitMapContainsAnyOf3(n, Unsafe))
    BY <1>3, <1>4, <1>6, <2>1, HeldDenies, SMTT(20) DEF NoDS, Denies
  <2> QED
    BY <1>1, <2>2 DEF DelegatingVerdict
<1>7. CASE resp.method # "nsec" /\ n \notin C
  <2>1. /\ Contenders(n) # {} /\ FindClosestEncloser(n) = ce
        /\ NextCloserName(n, ce) = Child(ce, n) /\ Covered3(Child(ce, n))
    BY <1>1, <1>7, EncloserFound, ZenonT(30)
  <2> HIDE DEF ce
  <2>2. resp.method = "optout"
    <3>1. n \in Names /\ IsAncestor(n, n)
      BY NamesAre, SelfAncestor
    <3> QED
      BY <1>2, <1>7, <3>1, Zenon DEF Chained, Secured
  <2>3. PICK r \in nsec3 : Cover(r, Child(ce, n))
    BY <2>1 DEF Covered3
  <2>4. r.flags = 1
    BY <1>7, <2>2, Records3, Zenon
  <2>5. optedOut(Child(ce, n))
    BY <2>1, <2>3, <2>4 DEF optedOut
  <2>6. PerformClosestEncloserProof(n).optedOut
    BY <2>1, <2>5, Zenon DEF PerformClosestEncloserProof
  <2> QED
    BY <1>1, <2>6 DEF DelegatingVerdict
<1> QED
  BY <1>5, <1>6, <1>7
=============================================================================
