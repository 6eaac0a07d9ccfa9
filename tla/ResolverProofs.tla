--------------------------- MODULE ResolverProofs ---------------------------
(***************************************************************************)
(* ResolverInv is an invariant for any tree of zones, any names and any    *)
(* number of concurrent exchanges, whatever goes wrong; when no pool       *)
(* expires, an exchange that no referral misleads never clones a zone out  *)
(* of order; and every exchange runs out of steps.                         *)
(***************************************************************************)
EXTENDS Resolver, TLAPS, SequenceTheorems

(* Ancestors: their label count, and that an ancestor's ancestor is one.     *)
LEMMA NameFacts ==
  ASSUME NEW q \in Seq(STRING), NEW k \in 0..Len(q)
  PROVE  /\ Name(q, k) \in Seq(STRING)
         /\ Len(Name(q, k)) = k
         /\ k > 0 => Name(q, k) # <<>>
         /\ \A j \in 0..k : Name(Name(q, k), j) = Name(q, j)
<1>1. /\ Name(q, k) \in Seq(STRING) /\ Len(Name(q, k)) = k
      /\ \A i \in 1..k : Name(q, k)[i] = q[i]
  BY DEF Name
<1>2. ASSUME NEW j \in 0..k PROVE Name(Name(q, k), j) = Name(q, j)
  <2>1. /\ Name(q, j) \in Seq(STRING) /\ Len(Name(q, j)) = j
        /\ \A i \in 1..j : Name(q, j)[i] = q[i]
    BY DEF Name
  <2>2. /\ Name(Name(q, k), j) \in Seq(STRING) /\ Len(Name(Name(q, k), j)) = j
        /\ \A i \in 1..j : Name(Name(q, k), j)[i] = q[i]
    BY <1>1 DEF Name
  <2> QED
    BY <2>1, <2>2, SeqEqual
<1> QED
  BY <1>1, <1>2

(* The ancestor of depth 0 is the root. *)
LEMMA RootName == \A q \in Seq(STRING) : Name(q, 0) = <<>>
BY DEF Name

(* A name is its own ancestor of full depth. *)
LEMMA WholeName ==
  ASSUME NEW q \in Seq(STRING)
  PROVE  Len(q) \in Nat /\ Name(q, Len(q)) = q
<1>1. /\ Name(q, Len(q)) \in Seq(STRING) /\ Len(Name(q, Len(q))) = Len(q)
      /\ \A i \in 1..Len(q) : Name(q, Len(q))[i] = q[i]
  BY DEF Name
<1> QED
  BY <1>1, SeqEqual

(* An ancestor is the prefix of its length. *)
LEMMA SubFacts ==
  ASSUME NEW q \in Seq(STRING), NEW n, IsSubDomain(n, q)
  PROVE  n \in Seq(STRING) /\ Len(n) \in 0..Len(q) /\ Name(q, Len(n)) = n
<1>1. PICK d \in 0..Len(q) : Name(q, d) = n
  BY Zenon DEF IsSubDomain
<1>2. n \in Seq(STRING) /\ Len(n) = d
  BY <1>1, NameFacts
<1> QED
  BY <1>1, <1>2

(* Of two ancestors of a name the longer one is below the other. *)
LEMMA BelowOnPath ==
  ASSUME NEW q \in Seq(STRING), NEW k \in 0..Len(q), NEW j \in 0..Len(q), j < k
  PROVE  Below(Name(q, k), Name(q, j))
<1>1. /\ Len(Name(q, k)) = k /\ Len(Name(q, j)) = j
      /\ j \in 0..k => Name(Name(q, k), j) = Name(q, j)
  BY NameFacts
<1>2. j \in 0..k /\ Name(q, k) # Name(q, j)
  BY <1>1
<1> QED
  BY <1>1, <1>2, Zenon DEF Below, IsSubDomain

(* A name below another is longer, and has it as its prefix. *)
LEMMA BelowFacts ==
  ASSUME NEW n \in Seq(STRING), NEW m, Below(n, m)
  PROVE  /\ m \in Seq(STRING) /\ Len(m) \in Nat /\ Len(n) \in Nat
         /\ Len(m) < Len(n) /\ Name(n, Len(m)) = m
<1>1. n # m /\ IsSubDomain(m, n)
  BY Zenon DEF Below
<1>2. m \in Seq(STRING) /\ Len(m) \in 0..Len(n) /\ Name(n, Len(m)) = m
  BY <1>1, SubFacts
<1>3. Len(n) \in Nat /\ Name(n, Len(n)) = n
  BY WholeName
<1>4. Len(m) # Len(n)
  BY <1>1, <1>2, <1>3
<1> QED
  BY <1>2, <1>3, <1>4

(* To be below is transitive. *)
LEMMA BelowTrans ==
  ASSUME NEW n \in Seq(STRING), NEW m, NEW k, Below(n, m), Below(m, k)
  PROVE  Below(n, k)
<1>1. /\ m \in Seq(STRING) /\ Len(m) \in Nat /\ Len(n) \in Nat
      /\ Len(m) < Len(n) /\ Name(n, Len(m)) = m
  BY BelowFacts
<1>2. /\ k \in Seq(STRING) /\ Len(k) \in Nat /\ Len(k) < Len(m) /\ Name(m, Len(k)) = k
  BY <1>1, BelowFacts
<1>3. Len(m) \in 0..Len(n) /\ Len(k) \in 0..Len(m) /\ Len(k) \in 0..Len(n) /\ n # k
  BY <1>1, <1>2
<1>4. Name(n, Len(k)) = k
  BY <1>1, <1>2, <1>3, NameFacts
<1> QED
  BY <1>3, <1>4, Zenon DEF Below, IsSubDomain

(* The root is an ancestor of every name. *)
LEMMA RootAbove == \A q \in Seq(STRING) : IsSubDomain(<<>>, q)
<1> SUFFICES ASSUME NEW q \in Seq(STRING) PROVE IsSubDomain(<<>>, q)
  OBVIOUS
<1>1. Name(q, 0) = <<>> /\ 0 \in 0..Len(q)
  BY RootName
<1> QED
  BY <1>1, Zenon DEF IsSubDomain

(* The names and numbers in the state of an exchange.                        *)
LEMMA CallFacts ==
  ASSUME NEW c \in Calls
  PROVE  /\ c.q \in Seq(STRING) /\ Len(c.q) \in Nat
         /\ c.z.name \in Cuts /\ c.z.name \in Seq(STRING) /\ depth(c) \in Nat
         /\ c.z.pool \in Pools
         /\ c.msg.cut \in Cuts /\ c.msg.cut \in Seq(STRING) /\ Len(c.msg.cut) \in Nat
         /\ c.at \in Nat /\ c.idx \in Nat /\ c.missing \in Nat /\ c.counter \in Nat
         /\ c.known \in SUBSET Nat /\ c.given \in SUBSET Nat /\ c.path \in SUBSET Nat
         /\ c.astray \in BOOLEAN
<1>1. /\ c.q \in QNames \cup {<<>>} /\ c.z \in [name : Cuts, pool : Pools]
      /\ c.msg \in [kind : {"none", "final", "delegation"}, cut : Cuts]
      /\ c.at \in Nat /\ c.idx \in Nat /\ c.missing \in Nat /\ c.counter \in Nat
      /\ c.known \in SUBSET Nat /\ c.given \in SUBSET Nat /\ c.path \in SUBSET Nat
      /\ c.astray \in BOOLEAN
  BY Zenon DEF Calls
<1>2. c.z.name \in Cuts /\ c.z.pool \in Pools /\ c.msg.cut \in Cuts
  BY <1>1
<1>3. /\ c.q \in Seq(STRING) /\ c.z.name \in Seq(STRING) /\ c.msg.cut \in Seq(STRING)
  BY <1>1, <1>2, EmptySeq, ResolverAssumption, Zenon
<1>4. Len(c.q) \in Nat /\ Len(c.z.name) \in Nat /\ Len(c.msg.cut) \in Nat
  BY <1>3
<1> QED
  BY <1>1, <1>2, <1>3, <1>4, Zenon DEF depth

(* An exchange that has not begun, or is over, is at rest. *)
LEMMA AtRest ==
  ASSUME NEW c \in Calls, c.pc \in {"idle", "over"}, c.z.name = <<>>,
         c.out = "unableToResolve" => c.astray
  PROVE  CallInv(c)
<1>1. IsSubDomain(c.z.name, c.q)
  BY CallFacts, RootAbove, Zenon
<1>2. BoundInv(c)
  BY DEF BoundInv
<1>3. ~c.astray => OnWayInv(c)
  BY <1>1 DEF OnWayInv, ListInv, WindInv, LoopInv, GapInv, CreateInv
<1> QED
  BY <1>2, <1>3, Zenon DEF CallInv

(* A new exchange is one. *)
LEMMA NewIsCall ==
  ASSUME NEW q \in QNames \cup {<<>>}
  PROVE  NewCall(q) \in Calls
<1>1. /\ [name |-> <<>>, pool |-> RootPool] \in [name : Cuts, pool : Pools]
      /\ NoMsg \in [kind : {"none", "final", "delegation"}, cut : Cuts]
      /\ 0 \in Nat /\ {} \in SUBSET Nat
  BY ResolverAssumption DEF NoMsg
<1> QED
  BY <1>1, Zenon DEF NewCall, Calls, Points

(* No exchange has begun, and the store has the root. *)
LEMMA ResolverInit == Init => ResolverInv
<1> SUFFICES ASSUME Init PROVE ResolverInv
  OBVIOUS
<1>1. ASSUME NEW p \in Requests PROVE call[p] \in Calls /\ CallInv(call[p])
  <2>1. call[p] = [NewCall(<<>>) EXCEPT !.pc = "idle"]
    BY DEF Init
  <2>2. call[p] \in Calls
    <3>1. NewCall(<<>>) \in Calls
      BY NewIsCall
    <3> QED
      BY <2>1, <3>1, Zenon DEF Calls, Points
  <2>3. /\ call[p].pc = "idle" /\ call[p].z.name = <<>> /\ call[p].q = <<>>
        /\ call[p].out = "none"
    BY <2>1 DEF NewCall
  <2> QED
    BY <2>2, <2>3, AtRest
<1>2. TypeOK
  BY <1>1, ResolverAssumption DEF Init, TypeOK
<1>3. StoreSound
  BY DEF Init, StoreSound
<1> QED
  BY <1>1, <1>2, <1>3 DEF ResolverInv

(* An exchange takes a step to c and leaves the store and the pools alone.   *)
LEMMA OneCall ==
  ASSUME ResolverInv, NEW p \in Requests, NEW c \in Calls, CallInv(c),
         Set(p, c), UNCHANGED <<zones, fresh>>
  PROVE  ResolverInv'
<1>1. /\ call' = [call EXCEPT ![p] = c] /\ call \in [Requests -> Calls]
  BY DEF ResolverInv, TypeOK, Set
<1>2. \A r \in Requests : CallInv(call'[r])
  BY <1>1 DEF ResolverInv
<1>3. TypeOK'
  BY <1>1 DEF ResolverInv, TypeOK
<1>4. StoreSound'
  BY DEF ResolverInv, StoreSound
<1> QED
  BY <1>1, <1>2, <1>3, <1>4, Zenon DEF ResolverInv

(* An exchange takes a step to c and adds a zone n below the zone m.         *)
LEMMA OneCallAdds ==
  ASSUME ResolverInv, NEW p \in Requests, NEW c \in Calls, CallInv(c), Set(p, c),
         NEW n \in Cuts, NEW m \in Cuts, Below(n, m), NEW k \in Pools,
         add(n, [parent |-> Len(m), pool |-> k]),
         fresh \subseteq fresh', fresh' \subseteq Pools
  PROVE  ResolverInv'
<1> DEFINE zone == [parent |-> Len(m), pool |-> k]
<1>1. /\ call' = [call EXCEPT ![p] = c] /\ call \in [Requests -> Calls]
  BY DEF ResolverInv, TypeOK, Set
<1>2. n \in Seq(STRING)
  BY ResolverAssumption
<1>3. /\ n # <<>> /\ Len(m) < Len(n) /\ Name(n, Len(m)) = m /\ Len(m) \in Nat
  BY <1>2, BelowFacts
<1>4. zones' = [i \in DOMAIN zones \cup {n} |-> IF i = n THEN zone ELSE zones[i]]
  BY DEF add
<1>5. zone \in [parent : Nat, pool : Pools] /\ zone.parent = Len(m) /\ zone.pool = k
  BY <1>3
<1> HIDE DEF zone
<1>6. /\ DOMAIN zones' = DOMAIN zones \cup {n}
      /\ zones'[n] = zone
      /\ \A i \in DOMAIN zones \ {n} : zones'[i] = zones[i]
  BY <1>4
<1>7. \A r \in Requests : CallInv(call'[r])
  BY <1>1 DEF ResolverInv
<1>8. TypeOK'
  BY <1>1, <1>5, <1>6 DEF ResolverInv, TypeOK
<1>9. StoreSound'
  BY <1>3, <1>5, <1>6 DEF ResolverInv, StoreSound
<1> QED
  BY <1>7, <1>8, <1>9 DEF ResolverInv

-----------------------------------------------------------------------------

(* What a call returns. *)
Outcomes == {"answer", "error", "panic", "unableToResolve", "maxQueries",
             "noNextNameservers", "noPool", "notRecursionDesired"}

(* A call that returns is at rest: nothing but its outcome matters.          *)
LEMMA ReturnStep ==
  ASSUME ResolverInv, NEW p \in Requests, NEW c \in Calls, NEW out \in Outcomes,
         out = "unableToResolve" => c.astray,
         Return(p, c, out), UNCHANGED <<zones, fresh>>
  PROVE  ResolverInv'
<1> DEFINE r == [NewCall(c.q) EXCEPT !.pc = "over", !.out = out, !.given = c.given,
                                     !.path = c.path, !.astray = c.astray]
<1>1. r \in Calls
  <2>1. /\ NewCall(c.q) \in Calls /\ c.given \in SUBSET Nat /\ c.path \in SUBSET Nat
        /\ c.astray \in BOOLEAN
    BY NewIsCall, Zenon DEF Calls
  <2> QED
    BY <2>1, Zenon DEF Calls, Points, Outcomes
<1>2. r.pc = "over" /\ r.z.name = <<>> /\ r.out = out /\ r.astray = c.astray
  BY DEF NewCall
<1>3. Set(p, r)
  BY DEF Return
<1> HIDE DEF r
<1>4. CallInv(r)
  BY <1>1, <1>2, AtRest
<1> QED
  BY <1>1, <1>3, <1>4, OneCall

(* The call as it is before a step.                                          *)
LEMMA Before ==
  ASSUME ResolverInv, NEW p \in Requests
  PROVE  call[p] \in Calls /\ BoundInv(call[p]) /\ (~call[p].astray => OnWayInv(call[p]))
BY Zenon DEF ResolverInv, TypeOK, CallInv

(* A new exchange. *)
LEMMA NewFacts ==
  ASSUME NEW q \in QNames
  PROVE  NewCall(q) \in Calls /\ CallInv(NewCall(q))
<1> DEFINE c == NewCall(q)
<1>1. c \in Calls
  BY NewIsCall
<1>2. /\ c.pc = "list" /\ c.at = 0 /\ c.known = {} /\ c.z.name = <<>> /\ c.q = q
      /\ c.out = "none" /\ c.astray = FALSE
  BY DEF NewCall
<1> HIDE DEF c
<1>3. c.q \in Seq(STRING) /\ Len(c.q) \in Nat
  BY <1>1, CallFacts
<1>4. IsSubDomain(c.z.name, c.q)
  BY <1>2, <1>3, RootAbove, Zenon
<1>5. BoundInv(c)
  BY <1>2 DEF BoundInv
<1>6. OnWayInv(c)
  BY <1>2, <1>3, <1>4 DEF OnWayInv, ListInv, WindInv, LoopInv, GapInv, CreateInv
<1> QED
  BY <1>1, <1>5, <1>6 DEF CallInv, c

(* The start of an exchange keeps the invariant. *)
LEMMA ExchangeStep ==
  ASSUME ResolverInv, NEW p \in Requests, Exchange(p)
  PROVE  ResolverInv'
<1>1. PICK q \in QNames : Set(p, NewCall(q)) \/ Return(p, NewCall(q), "notRecursionDesired")
  BY DEF Exchange
<1>2. NewCall(q) \in Calls /\ CallInv(NewCall(q))
  BY NewFacts
<1>3. UNCHANGED <<zones, fresh>>
  BY DEF Exchange
<1>4. "notRecursionDesired" \in Outcomes
  BY DEF Outcomes
<1> HIDE DEF NewCall
<1>5. CASE Set(p, NewCall(q))
  BY <1>2, <1>3, <1>5, OneCall
<1>6. CASE Return(p, NewCall(q), "notRecursionDesired")
  BY <1>2, <1>3, <1>4, <1>6, ReturnStep
<1> QED
  BY <1>1, <1>5, <1>6

(* The list of known zones grows along parents. *)
LEMMA ListStep ==
  ASSUME ResolverInv, NEW p \in Requests, getZoneList(p)
  PROVE  ResolverInv'
<1> DEFINE me == call[p]
           n  == Name(me.q, me.at)
           pc == IF me.at = Len(me.q) THEN "wind" ELSE "list"
<1>1. me \in Calls /\ BoundInv(me) /\ (~me.astray => OnWayInv(me))
  BY Before
<1>2. me.pc = "list" /\ UNCHANGED <<zones, fresh>>
  BY DEF getZoneList
<1>3. ~me.astray /\ OnWayInv(me) /\ ListInv(me)
  BY <1>1, <1>2 DEF BoundInv, OnWayInv
<1>4. /\ me.q \in Seq(STRING) /\ Len(me.q) \in Nat /\ depth(me) \in Nat /\ me.at \in Nat
      /\ me.known \in SUBSET Nat
  BY <1>1, CallFacts
<1>5. /\ me.at <= Len(me.q) /\ pc \in {"wind", "list"}
      /\ IsSubDomain(me.z.name, me.q) /\ me.out # "unableToResolve"
  BY <1>2, <1>3 DEF OnWayInv, ListInv
<1> HIDE DEF pc
<1>6. me.at = 0 => usable(n) /\ me.known = {}
  <2>1. me.at = 0 => n = <<>>
    BY <1>4, RootName
  <2> QED
    BY <1>2, <1>3, <2>1 DEF usable, ResolverInv, StoreSound, ListInv
<1>7. CASE ~usable(n) /\ Set(p, [me EXCEPT !.pc = pc, !.at = @ + 1])
  <2> DEFINE c == [me EXCEPT !.pc = pc, !.at = @ + 1]
  <2>1. c \in Calls
    <3>1. me.at + 1 \in Nat /\ pc \in Points
      BY <1>4, <1>5 DEF Points
    <3> QED
      BY <1>1, <3>1, Zenon DEF Calls
  <2>2. /\ c.pc = pc /\ c.at = me.at + 1 /\ c.known = me.known /\ c.z = me.z
        /\ c.q = me.q /\ c.out = me.out /\ c.astray = me.astray
    BY <1>1 DEF Calls
  <2>3. me.at > 0 /\ depth(c) = depth(me)
    BY <1>4, <1>6, <1>7, <2>2 DEF depth
  <2> HIDE DEF c
  <2>4. BoundInv(c)
    BY <1>3, <1>5, <2>2 DEF BoundInv
  <2>5. OnWayInv(c)
    BY <1>2, <1>3, <1>4, <1>5, <2>2, <2>3
    DEF OnWayInv, ListInv, WindInv, LoopInv, GapInv, CreateInv, pc
  <2> QED
    BY <1>2, <1>7, <2>1, <2>4, <2>5, OneCall DEF c, CallInv
<1>8. CASE /\ usable(n)
           /\ Set(p, [me EXCEPT !.pc = pc, !.at = @ + 1, !.known = @ \cup {me.at},
                                !.z = [name |-> n, pool |-> zones[n].pool]])
  <2> DEFINE c == [me EXCEPT !.pc = pc, !.at = @ + 1, !.known = @ \cup {me.at},
                             !.z = [name |-> n, pool |-> zones[n].pool]]
  <2>1. zones[n].pool \in Pools /\ n \in Cuts
    BY <1>8 DEF usable, ResolverInv, TypeOK
  <2>2. c \in Calls
    <3>1. /\ me.at + 1 \in Nat /\ pc \in Points /\ me.known \cup {me.at} \in SUBSET Nat
          /\ [name |-> n, pool |-> zones[n].pool] \in [name : Cuts, pool : Pools]
      BY <1>4, <1>5, <2>1 DEF Points
    <3> QED
      BY <1>1, <3>1, Zenon DEF Calls
  <2>3. /\ c.pc = pc /\ c.at = me.at + 1 /\ c.known = me.known \cup {me.at}
        /\ c.z.name = n /\ c.q = me.q /\ c.out = me.out /\ c.astray = me.astray
    BY <1>1 DEF Calls
  <2>4. depth(c) = me.at /\ me.at \in 0..Len(me.q)
    BY <1>4, <1>5, <2>3, NameFacts DEF depth
  <2>5. IsSubDomain(n, me.q)
    BY <2>4, Zenon DEF IsSubDomain
  <2> HIDE DEF c, n
  <2>6. \A d \in c.known : d <= depth(c)
    BY <1>2, <1>3, <1>4, <2>3, <2>4 DEF ListInv
  <2>7. 0 \in c.known /\ depth(c) \in c.known
    BY <1>2, <1>3, <1>4, <2>3, <2>4 DEF ListInv
  <2>8. BoundInv(c)
    BY <1>3, <1>5, <2>3 DEF BoundInv
  <2>9. OnWayInv(c)
    <3>1. ListInv(c)
      <4>1. c.pc = "list" => c.at <= Len(c.q)
        BY <1>4, <1>5, <2>3 DEF pc
      <4>2. c.at # 0 /\ c.known # {} /\ depth(c) < c.at
        BY <1>4, <2>3, <2>4, <2>7
      <4> QED
        BY <2>6, <2>7, <4>1, <4>2, Zenon DEF ListInv
    <3>2. WindInv(c)
      BY <2>6, <2>7 DEF WindInv
    <3>3. LoopInv(c) /\ GapInv(c) /\ CreateInv(c)
      BY <1>5, <2>3 DEF LoopInv, GapInv, CreateInv
    <3> QED
      BY <1>5, <2>3, <2>5, <3>1, <3>2, <3>3, Zenon DEF OnWayInv
  <2> QED
    BY <1>2, <1>8, <2>2, <2>8, <2>9, OneCall DEF c, CallInv
<1>9. CASE /\ usable(n) /\ me.known # {}
           /\ Set(p, [me EXCEPT !.pc = "wind"])
  <2> DEFINE c == [me EXCEPT !.pc = "wind"]
  <2>1. c \in Calls
    BY <1>1, Zenon DEF Calls, Points
  <2>2. /\ c.pc = "wind" /\ c.known = me.known /\ c.z = me.z
        /\ c.q = me.q /\ c.out = me.out /\ c.astray = me.astray
    BY <1>1 DEF Calls
  <2>3. depth(c) = depth(me)
    BY <2>2 DEF depth
  <2> HIDE DEF c
  <2>4. BoundInv(c)
    BY <1>3, <2>2 DEF BoundInv
  <2>5. OnWayInv(c)
    BY <1>2, <1>3, <1>4, <1>5, <1>9, <2>2, <2>3
    DEF OnWayInv, ListInv, WindInv, LoopInv, GapInv, CreateInv
  <2> QED
    BY <1>2, <1>9, <2>1, <2>4, <2>5, OneCall DEF c, CallInv
<1> HIDE DEF n
<1> QED
  BY <1>7, <1>8, <1>9 DEF getZoneList, n, pc

(* Winding ends at the zone the exchange starts from. *)
LEMMA WindsTo ==
  ASSUME NEW c \in Calls, IsSubDomain(c.z.name, c.q)
  PROVE  windTo(c) = depth(c)
<1>1. c.q \in Seq(STRING)
  BY CallFacts
<1>2. windTo(c) \in 0..Len(c.q) /\ Name(c.q, windTo(c)) = c.z.name
  BY DEF windTo, IsSubDomain
<1> HIDE DEF windTo
<1> QED
  BY <1>1, <1>2, NameFacts DEF depth

(* Winding puts the cursor at the deepest known zone. *)
LEMMA WindStep ==
  ASSUME ResolverInv, NEW p \in Requests, addDelegationSignerLinks(p)
  PROVE  ResolverInv'
<1> DEFINE me == call[p]
           c  == [me EXCEPT !.pc = "loop", !.at = 0, !.idx = windTo(me),
                            !.given = me.known \ {depth(me)}, !.path = me.known]
<1>1. me \in Calls /\ BoundInv(me) /\ (~me.astray => OnWayInv(me))
  BY Before
<1>2. me.pc = "wind" /\ UNCHANGED <<zones, fresh>> /\ Set(p, c)
  BY DEF addDelegationSignerLinks
<1>3. ~me.astray /\ OnWayInv(me) /\ WindInv(me)
  BY <1>1, <1>2 DEF BoundInv, OnWayInv
<1>4. /\ me.q \in Seq(STRING) /\ Len(me.q) \in Nat /\ depth(me) \in Nat
      /\ me.known \in SUBSET Nat
  BY <1>1, CallFacts
<1>5. IsSubDomain(me.z.name, me.q) /\ me.out # "unableToResolve"
  BY <1>3, Zenon DEF OnWayInv
<1>6. windTo(me) = depth(me) /\ depth(me) <= Len(me.q)
  BY <1>1, <1>4, <1>5, WindsTo, SubFacts DEF depth
<1>7. c \in Calls
  <2>1. windTo(me) \in Nat /\ me.known \ {depth(me)} \in SUBSET Nat
    BY <1>4, <1>6
  <2> HIDE DEF windTo
  <2> QED
    BY <1>1, <1>4, <2>1, Zenon DEF Calls, Points
<1>8. /\ c.pc = "loop" /\ c.idx = windTo(me) /\ c.given = me.known \ {depth(me)}
      /\ c.path = me.known /\ c.known = me.known /\ c.z = me.z /\ c.q = me.q
      /\ c.out = me.out /\ c.astray = me.astray
  BY <1>1 DEF Calls
<1> HIDE DEF c, windTo
<1>9. depth(c) = depth(me)
  BY <1>8 DEF depth
<1>10. \A d \in me.known \ {depth(me)} : d < depth(me)
  BY <1>2, <1>3, <1>4 DEF WindInv
<1>11. BoundInv(c)
  BY <1>4, <1>6, <1>8 DEF BoundInv
<1>12. OnWayInv(c)
  BY <1>5, <1>6, <1>8, <1>9, <1>10
  DEF OnWayInv, ListInv, WindInv, LoopInv, GapInv, CreateInv
<1> QED
  BY <1>2, <1>7, <1>11, <1>12, OneCall DEF CallInv

(* A turn of the loop takes over a stored zone or asks. *)
LEMMA LoopStep ==
  ASSUME ResolverInv, NEW p \in Requests, exchange(p)
  PROVE  ResolverInv'
<1> DEFINE me  == call[p]
           c   == [me EXCEPT !.counter = @ + 1]
           cur == current(c)
           n   == Name(c.q, cur)
<1>1. me \in Calls /\ BoundInv(me) /\ (~me.astray => OnWayInv(me))
  BY Before
<1>2. c \in Calls
  <2>1. me.counter + 1 \in Nat
    BY <1>1, CallFacts
  <2> QED
    BY <1>1, <2>1, Zenon DEF Calls
<1>3. /\ c.pc = me.pc /\ c.idx = me.idx /\ c.given = me.given /\ c.path = me.path
      /\ c.known = me.known /\ c.z = me.z /\ c.q = me.q /\ c.out = me.out
      /\ c.astray = me.astray
  BY <1>1 DEF Calls
<1>4. me.pc = "loop" /\ UNCHANGED <<zones, fresh>>
  BY <1>3 DEF exchange
<1> HIDE DEF c
<1>5. /\ c.q \in Seq(STRING) /\ Len(c.q) \in Nat /\ depth(c) \in Nat /\ c.idx \in Nat
      /\ c.given \in SUBSET Nat /\ c.path \in SUBSET Nat /\ depth(c) = depth(me)
      /\ c.astray \in BOOLEAN
  BY <1>2, <1>3, CallFacts DEF depth
<1>6. c.pc = "loop" /\ c.idx <= Len(c.q) + 2
  BY <1>1, <1>3, <1>4 DEF BoundInv
<1>7. ~c.astray => /\ IsSubDomain(c.z.name, c.q) /\ c.out # "unableToResolve"
                   /\ \A d \in c.given : d < depth(c)
                   /\ c.idx = depth(c) + 1 \/ (c.idx = depth(c) /\ c.path = c.known)
  BY <1>1, <1>3, <1>4, <1>5, Zenon DEF OnWayInv, LoopInv
<1>8. more(c) \/ c.astray
  <2>1. ~c.astray => depth(c) <= Len(c.q)
    BY <1>5, <1>7, SubFacts DEF depth
  <2> QED
    BY <1>5, <1>7, <2>1 DEF more
<1>9. CASE Return(p, c, IF more(c) THEN "maxQueries" ELSE "unableToResolve")
  <2>1. CASE more(c)
    BY <1>2, <1>4, <1>9, <2>1, ReturnStep DEF Outcomes
  <2>2. CASE ~more(c)
    BY <1>2, <1>4, <1>8, <1>9, <2>2, ReturnStep DEF Outcomes
  <2> QED
    BY <2>1, <2>2
<1>10. CASE /\ usable(n) /\ ~last(c)
            /\ Set(p, [c EXCEPT !.z = [name |-> n, pool |-> zones[n].pool],
                                !.path = @ \cup {cur}, !.idx = @ + 1])
  <2> DEFINE e == [c EXCEPT !.z = [name |-> n, pool |-> zones[n].pool],
                            !.path = @ \cup {cur}, !.idx = @ + 1]
  <2>1. cur = c.idx /\ c.idx < Len(c.q) /\ c.idx \in 0..Len(c.q)
    BY <1>5, <1>10 DEF last, current
  <2>2. zones[n].pool \in Pools /\ n \in Cuts
    BY <1>10 DEF usable, ResolverInv, TypeOK
  <2>3. Len(n) = cur /\ IsSubDomain(n, c.q)
    BY <1>5, <2>1, NameFacts DEF IsSubDomain
  <2> HIDE DEF n, cur
  <2>4. e \in Calls
    <3>1. /\ c.idx + 1 \in Nat /\ c.path \cup {cur} \in SUBSET Nat
          /\ [name |-> n, pool |-> zones[n].pool] \in [name : Cuts, pool : Pools]
      BY <1>5, <2>1, <2>2
    <3> QED
      BY <1>2, <3>1, Zenon DEF Calls
  <2>5. /\ e.pc = c.pc /\ e.idx = c.idx + 1 /\ e.given = c.given /\ e.q = c.q
        /\ e.out = c.out /\ e.z.name = n /\ e.astray = c.astray
    BY <1>2 DEF Calls
  <2>6. depth(e) = cur
    BY <2>3, <2>5 DEF depth
  <2>7. Set(p, e)
    BY <1>10
  <2> HIDE DEF e
  <2>8. BoundInv(e)
    BY <1>5, <1>6, <2>1, <2>5 DEF BoundInv
  <2>9. ASSUME ~e.astray PROVE OnWayInv(e)
    <3>1. \A d \in e.given : d < depth(e)
      BY <1>5, <1>7, <2>1, <2>5, <2>6, <2>9
    <3>2. LoopInv(e)
      BY <2>1, <2>5, <2>6, <3>1 DEF LoopInv
    <3> QED
      BY <1>6, <1>7, <2>3, <2>5, <2>9, <3>2 DEF OnWayInv, ListInv, WindInv, GapInv, CreateInv
  <2> QED
    BY <1>4, <2>4, <2>7, <2>8, <2>9, OneCall DEF CallInv
<1>11. CASE more(c) /\ Set(p, [c EXCEPT !.pc = "ask"])
  <2> DEFINE e == [c EXCEPT !.pc = "ask"]
  <2>1. e \in Calls
    BY <1>2, Zenon DEF Calls, Points
  <2>2. /\ e.pc = "ask" /\ e.idx = c.idx /\ e.given = c.given /\ e.q = c.q
        /\ e.out = c.out /\ e.z = c.z /\ e.path = c.path /\ e.known = c.known
        /\ e.astray = c.astray
    BY <1>2 DEF Calls
  <2> HIDE DEF e
  <2>3. depth(e) = depth(c)
    BY <2>2 DEF depth
  <2>4. BoundInv(e)
    BY <1>11, <2>2 DEF BoundInv, more
  <2>5. ASSUME ~e.astray PROVE OnWayInv(e)
    BY <1>7, <2>2, <2>3, <2>5 DEF OnWayInv, ListInv, WindInv, LoopInv, GapInv, CreateInv
  <2>6. CallInv(e)
    BY <2>4, <2>5, Zenon DEF CallInv
  <2> QED
    BY <1>4, <1>11, <2>1, <2>6, OneCall DEF e
<1> QED
  BY <1>9, <1>10, <1>11 DEF exchange, c

(* The names gap returns end above the name in question. *)
LEMMA GapFacts ==
  ASSUME NEW c \in Calls, NEW t
  PROVE  gap(c, t) \in Nat /\ (gap(c, t) = 0 \/ c.idx + gap(c, t) <= Len(c.q))
<1>1. c.q \in Seq(STRING) /\ Len(c.q) \in Nat /\ c.idx \in Nat
  BY CallFacts
<1>2. CASE IsSubDomain(t, c.q) /\ current(c) < Len(t)
  <2>1. Len(t) \in 0..Len(c.q)
    BY <1>1, <1>2, SubFacts
  <2> QED
    BY <1>1, <1>2, <2>1 DEF gap, current
<1>3. CASE ~(IsSubDomain(t, c.q) /\ current(c) < Len(t))
  BY <1>3 DEF gap
<1> QED
  BY <1>2, <1>3

(* They lead up to the target if the cursor is not past it. *)
LEMMA GapMeets ==
  ASSUME NEW c \in Calls, NEW t, IsSubDomain(t, c.q), c.idx <= Len(t)
  PROVE  c.idx + gap(c, t) = Len(t)
<1>1. c.q \in Seq(STRING) /\ Len(c.q) \in Nat /\ c.idx \in Nat /\ Len(t) \in 0..Len(c.q)
  BY CallFacts, SubFacts
<1> QED
  BY <1>1 DEF gap, current

(* The messages of the servers. *)
LEMMA MessageFacts ==
  ASSUME NEW c \in Calls, NEW m \in Messages(c)
  PROVE  /\ [kind |-> m.kind, cut |-> m.cut] \in
              [kind : {"none", "final", "delegation"}, cut : Cuts]
         /\ m.kind = "delegation" =>
              /\ m.cut \in Referrals(c)
              /\ Misleads(c, m) /\ IsSubDomain(m.cut, c.q) => "owner" \in faults
<1>1. CASE m \in {[kind |-> "final", cut |-> <<>>, records |-> r] : r \in OwnerLists}
  BY <1>1, ResolverAssumption
<1>2. CASE /\ m \in [kind : {"delegation"}, cut : Referrals(c), records : OwnerLists]
           /\ Misleads(c, m) /\ IsSubDomain(m.cut, c.q) => "owner" \in faults
  BY <1>2 DEF Referrals
<1> QED
  BY <1>1, <1>2 DEF Messages

(* What a server says leaves cursor and zone in step, or leads astray. *)
LEMMA AskStep ==
  ASSUME ResolverInv, NEW p \in Requests, resolveLabel(p)
  PROVE  ResolverInv'
<1> DEFINE c == call[p]
<1>1. c \in Calls /\ BoundInv(c) /\ (~c.astray => OnWayInv(c))
  BY Before
<1>2. c.pc = "ask" /\ UNCHANGED <<zones, fresh>>
  BY Zenon DEF resolveLabel
<1>3. /\ c.q \in Seq(STRING) /\ Len(c.q) \in Nat /\ depth(c) \in Nat /\ c.idx \in Nat
      /\ c.astray \in BOOLEAN /\ c.z.name \in Seq(STRING)
  BY <1>1, CallFacts
<1>4. c.idx <= Len(c.q) + 1
  BY <1>1, <1>2 DEF BoundInv
<1>5. ~c.astray => /\ IsSubDomain(c.z.name, c.q) /\ c.out # "unableToResolve"
                   /\ \A d \in c.given : d < depth(c)
                   /\ c.idx = depth(c) + 1 \/ c.idx = depth(c)
  BY <1>1, <1>2, Zenon DEF OnWayInv, LoopInv
<1>6. CASE Return(p, c, "error")
  BY <1>1, <1>2, <1>6, ReturnStep DEF Outcomes
<1>7. ASSUME NEW m \in Messages(c),
             Set(p, [c EXCEPT !.pc = "gap", !.msg = [kind |-> m.kind, cut |-> m.cut],
                              !.missing = gap(c, nextRecordsOwner(c.z, m.records)),
                              !.astray = @ \/ Misleads(c, m)])
      PROVE  ResolverInv'
  <2> DEFINE msg == [kind |-> m.kind, cut |-> m.cut]
             o   == nextRecordsOwner(c.z, m.records)
             e   == [c EXCEPT !.pc = "gap", !.msg = msg, !.missing = gap(c, o),
                              !.astray = @ \/ Misleads(c, m)]
  <2>1. /\ msg \in [kind : {"none", "final", "delegation"}, cut : Cuts]
        /\ msg.kind = m.kind /\ msg.cut = m.cut
    BY <1>1, MessageFacts
  <2>2. gap(c, o) \in Nat /\ (gap(c, o) = 0 \/ c.idx + gap(c, o) <= Len(c.q))
    BY <1>1, GapFacts
  <2>3. (c.astray \/ Misleads(c, m)) \in BOOLEAN
    OBVIOUS
  <2>4. Misleads(c, m) <=>
          /\ m.kind = "delegation"
          /\ Below(m.cut, c.z.name)
          /\ ~IsSubDomain(m.cut, c.q) \/ gap(c, o) # gap(c, m.cut)
    BY DEF Misleads
  <2>5. Set(p, e)
    BY <1>7
  <2> HIDE DEF msg, o, gap, Misleads
  <2>6. e \in Calls
    BY <1>1, <2>1, <2>2, <2>3, Zenon DEF Calls, Points
  <2>7. /\ e.pc = "gap" /\ e.idx = c.idx /\ e.given = c.given /\ e.q = c.q
        /\ e.out = c.out /\ e.z = c.z /\ e.msg = msg /\ e.missing = gap(c, o)
        /\ e.astray = (c.astray \/ Misleads(c, m))
    BY <1>1, Zenon DEF Calls
  <2> HIDE DEF e
  <2>8. depth(e) = depth(c)
    BY <2>7 DEF depth
  <2>9. BoundInv(e)
    BY <1>4, <2>2, <2>7 DEF BoundInv
  <2>10. ASSUME ~e.astray PROVE OnWayInv(e)
    <3>1. ~c.astray /\ ~Misleads(c, m)
      BY <2>7, <2>10, Zenon
    <3>2. ASSUME m.kind = "delegation", Below(m.cut, c.z.name)
          PROVE  IsSubDomain(m.cut, c.q) /\ c.idx + gap(c, o) = Len(m.cut)
      <4>1. IsSubDomain(m.cut, c.q) /\ gap(c, o) = gap(c, m.cut)
        BY <2>4, <3>1, <3>2, Zenon
      <4>2. m.cut \in Seq(STRING) /\ Len(m.cut) \in 0..Len(c.q)
        BY <1>3, <4>1, SubFacts
      <4>3. depth(c) < Len(m.cut)
        BY <3>2, <4>2, BelowFacts DEF depth
      <4>4. c.idx <= Len(m.cut)
        BY <1>3, <1>5, <3>1, <4>2, <4>3
      <4> QED
        BY <1>1, <4>1, <4>4, GapMeets
    <3>3. GapInv(e)
      BY <1>5, <2>1, <2>7, <2>8, <3>1, <3>2, Zenon DEF GapInv
    <3> QED
      BY <1>5, <2>7, <3>1, <3>3 DEF OnWayInv, ListInv, WindInv, LoopInv, CreateInv
  <2> QED
    BY <1>2, <2>5, <2>6, <2>9, <2>10, OneCall DEF CallInv
<1> QED
  BY <1>6, <1>7, Zenon DEF resolveLabel

(* A turn of the walk moves the cursor and uses up a name. *)
LEMMA WalkArithmetic ==
  ASSUME NEW i \in Nat, NEW m \in Nat, NEW n \in Nat, m > 0, i + m <= n
  PROVE  /\ i \in 0..n /\ i < n /\ i + 1 \in Nat /\ m - 1 \in Nat
         /\ (i + 1) + (m - 1) = i + m
OBVIOUS

(* The zones found in the gap are stored below their parents. *)
LEMMA GapStep ==
  ASSUME ResolverInv, NEW p \in Requests, checkForMissingZones(p)
  PROVE  ResolverInv'
<1> DEFINE c == call[p]
           n == Name(c.q, c.idx)
<1>1. c \in Calls /\ BoundInv(c) /\ (~c.astray => OnWayInv(c))
  BY Before
<1>2. c.pc = "gap" /\ c.missing > 0 /\ UNCHANGED fresh
  BY DEF checkForMissingZones
<1> HIDE DEF c
<1>3. /\ c.q \in Seq(STRING) /\ Len(c.q) \in Nat /\ depth(c) \in Nat /\ c.idx \in Nat
      /\ c.missing \in Nat /\ c.given \in SUBSET Nat /\ c.path \in SUBSET Nat
      /\ c.astray \in BOOLEAN /\ c.z.name \in Seq(STRING) /\ c.z.name \in Cuts
      /\ c.z.pool \in Pools /\ c.msg.cut \in Seq(STRING)
  BY <1>1, CallFacts, Zenon
<1>4. c.idx + c.missing <= Len(c.q) /\ c.idx <= Len(c.q) + 1
  BY <1>1, <1>2, <1>3 DEF BoundInv
<1>5. ~c.astray => IsSubDomain(c.z.name, c.q) /\ c.out # "unableToResolve" /\ GapInv(c)
  BY <1>1, Zenon DEF OnWayInv
<1>6. /\ c.idx \in 0..Len(c.q) /\ c.idx + 1 \in Nat /\ c.missing - 1 \in Nat
      /\ (c.idx + 1) + (c.missing - 1) = c.idx + c.missing
  BY <1>2, <1>3, <1>4, WalkArithmetic, Zenon
<1>7. n \in Seq(STRING) /\ Len(n) = c.idx /\ IsSubDomain(n, c.q)
  BY <1>3, <1>6, NameFacts DEF IsSubDomain
<1> HIDE DEF n
<1>8. CASE /\ n \in Cuts /\ Below(n, c.z.name)
           /\ add(n, [parent |-> depth(c), pool |-> c.z.pool])
           /\ Set(p, [c EXCEPT !.given = @ \cup {depth(c)},
                               !.z = [name |-> n, pool |-> c.z.pool],
                               !.path = @ \cup {c.idx}, !.idx = @ + 1, !.missing = @ - 1])
  <2> DEFINE e == [c EXCEPT !.given = @ \cup {depth(c)},
                            !.z = [name |-> n, pool |-> c.z.pool],
                            !.path = @ \cup {c.idx}, !.idx = @ + 1, !.missing = @ - 1]
  <2>1. e \in Calls
    <3>1. /\ c.path \cup {c.idx} \in SUBSET Nat /\ c.given \cup {depth(c)} \in SUBSET Nat
          /\ [name |-> n, pool |-> c.z.pool] \in [name : Cuts, pool : Pools]
      BY <1>3, <1>8
    <3> QED
      BY <1>1, <1>6, <3>1, Zenon DEF Calls
  <2>2. /\ e.pc = c.pc /\ e.idx = c.idx + 1 /\ e.given = c.given \cup {depth(c)}
        /\ e.q = c.q /\ e.out = c.out /\ e.z.name = n /\ e.msg = c.msg
        /\ e.missing = c.missing - 1 /\ e.astray = c.astray
    BY <1>1 DEF Calls
  <2>3. Set(p, e)
    BY <1>8
  <2> HIDE DEF e
  <2>4. depth(e) = c.idx /\ depth(c) < c.idx
    BY <1>7, <1>8, <2>2, BelowFacts DEF depth
  <2>5. BoundInv(e)
    BY <1>2, <1>3, <1>4, <2>2 DEF BoundInv
  <2>6. ASSUME ~e.astray PROVE OnWayInv(e)
    <3>1. GapInv(c) /\ c.out # "unableToResolve"
      BY <1>5, <2>2, <2>6, Zenon
    <3>2. \A d \in e.given : d < depth(e)
      BY <1>2, <1>3, <2>2, <2>4, <3>1 DEF GapInv
    <3>3. ASSUME e.msg.kind = "delegation", Below(e.msg.cut, e.z.name)
          PROVE  IsSubDomain(e.msg.cut, e.q) /\ e.idx + e.missing = Len(e.msg.cut)
      <4>1. Below(c.msg.cut, c.z.name)
        BY <1>3, <1>8, <2>2, <3>3, BelowTrans
      <4>2. IsSubDomain(c.msg.cut, c.q) /\ c.idx + c.missing = Len(c.msg.cut)
        BY <1>2, <2>2, <3>1, <3>3, <4>1, Zenon DEF GapInv
      <4>3. e.idx + e.missing = c.idx + c.missing
        BY <1>6, <2>2, Zenon
      <4> QED
        BY <2>2, <4>2, <4>3
    <3>4. GapInv(e)
      BY <3>2, <3>3, Zenon DEF GapInv
    <3> QED
      BY <1>2, <1>7, <2>2, <3>1, <3>4 DEF OnWayInv, ListInv, WindInv, LoopInv, CreateInv
  <2>7. fresh \subseteq fresh' /\ fresh' \subseteq Pools
    BY <1>2 DEF ResolverInv, TypeOK
  <2>8. add(n, [parent |-> Len(c.z.name), pool |-> c.z.pool])
    BY <1>8 DEF depth
  <2>9. CallInv(e)
    BY <2>5, <2>6, Zenon DEF CallInv
  <2> QED
    BY <1>3, <1>8, <2>1, <2>3, <2>7, <2>8, <2>9, OneCallAdds
<1>9. CASE Return(p, c, "panic") /\ UNCHANGED zones
  BY <1>1, <1>2, <1>9, ReturnStep DEF Outcomes
<1>10. CASE Set(p, [c EXCEPT !.idx = @ + 1, !.missing = @ - 1]) /\ UNCHANGED zones
  <2> DEFINE e == [c EXCEPT !.idx = @ + 1, !.missing = @ - 1]
  <2>1. e \in Calls
    BY <1>1, <1>6, Zenon DEF Calls
  <2>2. /\ e.pc = c.pc /\ e.idx = c.idx + 1 /\ e.given = c.given
        /\ e.q = c.q /\ e.out = c.out /\ e.z = c.z /\ e.msg = c.msg
        /\ e.missing = c.missing - 1 /\ e.astray = c.astray
    BY <1>1 DEF Calls
  <2>3. Set(p, e)
    BY <1>10
  <2> HIDE DEF e
  <2>4. depth(e) = depth(c)
    BY <2>2 DEF depth
  <2>5. BoundInv(e)
    BY <1>2, <1>3, <1>4, <2>2 DEF BoundInv
  <2>6. e.idx + e.missing = c.idx + c.missing
    BY <1>6, <2>2, Zenon
  <2>7. ASSUME ~e.astray PROVE OnWayInv(e)
    <3>1. IsSubDomain(c.z.name, c.q) /\ c.out # "unableToResolve" /\ GapInv(c)
      BY <1>5, <2>2, <2>7, Zenon
    <3>2. GapInv(e)
      BY <2>2, <2>4, <2>6, <3>1, Zenon DEF GapInv
    <3> QED
      BY <1>2, <2>2, <3>1, <3>2 DEF OnWayInv, ListInv, WindInv, LoopInv, CreateInv
  <2>8. CallInv(e)
    BY <2>5, <2>7, Zenon DEF CallInv
  <2> QED
    BY <1>2, <1>10, <2>1, <2>3, <2>8, OneCall
<1> QED
  BY <1>8, <1>9, <1>10 DEF checkForMissingZones, n, c

(* The depth of a zone above the name in question. *)
LEMMA AboveFacts ==
  ASSUME NEW c \in Calls, NEW n \in Cuts
  PROVE  /\ AboveName(c, n) \in SUBSET Nat
         /\ IsSubDomain(n, c.q) => AboveName(c, n) = {Len(n)}
<1>1. Len(n) \in Nat
  BY ResolverAssumption
<1> QED
  BY <1>1 DEF AboveName

(* A response is added for a zone that has none. *)
LEMMA ResponseStep ==
  ASSUME ResolverInv, NEW p \in Requests, addResponse(p)
  PROVE  ResolverInv'
<1> DEFINE me == call[p]
           c  == [me EXCEPT !.given = @ \cup AboveName(me, me.z.name)]
<1>1. me \in Calls /\ BoundInv(me) /\ (~me.astray => OnWayInv(me))
  BY Before
<1>2. /\ me.q \in Seq(STRING) /\ depth(me) \in Nat /\ me.idx \in Nat
      /\ me.given \in SUBSET Nat /\ me.astray \in BOOLEAN /\ me.z.name \in Seq(STRING)
      /\ me.z.name \in Cuts /\ me.msg.cut \in Seq(STRING) /\ Len(me.msg.cut) \in Nat
  BY <1>1, CallFacts
<1>3. /\ AboveName(me, me.z.name) \in SUBSET Nat
      /\ IsSubDomain(me.z.name, me.q) => AboveName(me, me.z.name) = {depth(me)}
  BY <1>1, <1>2, AboveFacts DEF depth
<1> HIDE DEF AboveName
<1>4. c \in Calls
  <2>1. me.given \cup AboveName(me, me.z.name) \in SUBSET Nat
    BY <1>2, <1>3
  <2> QED
    BY <1>1, <2>1, Zenon DEF Calls
<1>5. /\ c.pc = me.pc /\ c.idx = me.idx /\ c.given = me.given \cup AboveName(me, me.z.name)
      /\ c.msg = me.msg /\ c.z = me.z /\ c.q = me.q /\ c.out = me.out
      /\ c.missing = me.missing /\ c.astray = me.astray
  BY <1>1 DEF Calls
<1>6. c.pc = "gap" /\ c.missing = 0 /\ UNCHANGED <<zones, fresh>>
  BY DEF addResponse
<1> HIDE DEF c
<1>7. CASE Return(p, c, "answer") \/ Return(p, c, "noNextNameservers")
  BY <1>4, <1>6, <1>7, ReturnStep DEF Outcomes
<1>8. CASE /\ c.msg.kind = "delegation" /\ Below(c.msg.cut, c.z.name)
           /\ Set(p, [c EXCEPT !.pc = "create"])
  <2> DEFINE e == [c EXCEPT !.pc = "create"]
  <2>1. e \in Calls
    BY <1>4, Zenon DEF Calls, Points
  <2>2. /\ e.pc = "create" /\ e.idx = c.idx /\ e.given = c.given
        /\ e.q = c.q /\ e.out = c.out /\ e.z = c.z /\ e.msg = c.msg /\ e.astray = c.astray
    BY <1>4 DEF Calls
  <2>3. Set(p, e)
    BY <1>8
  <2> HIDE DEF e
  <2>4. BoundInv(e)
    BY <1>1, <1>5, <1>6, <1>8, <2>2 DEF BoundInv
  <2>5. ASSUME ~e.astray PROVE OnWayInv(e)
    <3>1. IsSubDomain(me.z.name, me.q) /\ me.out # "unableToResolve" /\ GapInv(me)
      BY <1>1, <1>5, <2>2, <2>5, Zenon DEF OnWayInv
    <3>2. /\ \A d \in me.given : d < depth(me)
          /\ IsSubDomain(me.msg.cut, me.q) /\ me.idx + me.missing = Len(me.msg.cut)
      BY <1>5, <1>6, <1>8, <3>1, Zenon DEF GapInv
    <3>3. depth(me) < Len(me.msg.cut)
      BY <1>2, <1>5, <1>8, BelowFacts DEF depth
    <3>4. me.idx = Len(me.msg.cut)
      BY <1>2, <1>5, <1>6, <3>2
    <3>5. \A d \in e.given : d < Len(me.msg.cut)
      BY <1>2, <1>3, <1>5, <2>2, <3>1, <3>2, <3>3
    <3>6. CreateInv(e)
      BY <1>5, <2>2, <3>2, <3>4, <3>5 DEF CreateInv
    <3> QED
      BY <1>5, <2>2, <3>1, <3>6 DEF OnWayInv, ListInv, WindInv, LoopInv, GapInv
  <2>6. CallInv(e)
    BY <2>4, <2>5, Zenon DEF CallInv
  <2> QED
    BY <1>6, <2>1, <2>3, <2>6, OneCall
<1> QED
  BY <1>7, <1>8 DEF addResponse, c

(* Another exchange of the request only uses the counter. *)
LEMMA NestedStep ==
  ASSUME ResolverInv, NEW p \in Requests, nestedExchange(p)
  PROVE  ResolverInv'
<1> DEFINE me == call[p]
           c  == [me EXCEPT !.counter = @ + 1]
<1>1. me \in Calls /\ BoundInv(me) /\ (~me.astray => OnWayInv(me))
  BY Before
<1>2. c \in Calls
  <2>1. me.counter + 1 \in Nat
    BY <1>1, CallFacts
  <2> QED
    BY <1>1, <2>1, Zenon DEF Calls
<1>3. /\ c.pc = me.pc /\ c.idx = me.idx /\ c.given = me.given /\ c.msg = me.msg
      /\ c.z = me.z /\ c.q = me.q /\ c.out = me.out /\ c.at = me.at
      /\ c.known = me.known /\ c.path = me.path /\ c.missing = me.missing
      /\ c.astray = me.astray
  BY <1>1 DEF Calls
<1>4. Set(p, c) /\ UNCHANGED <<zones, fresh>>
  BY DEF nestedExchange
<1> HIDE DEF c
<1>5. depth(c) = depth(me)
  BY <1>3 DEF depth
<1>6. BoundInv(c)
  BY <1>1, <1>3, Zenon DEF BoundInv
<1>7. OnWayInv(me) => OnWayInv(c)
  BY <1>3, <1>5 DEF OnWayInv, ListInv, WindInv, LoopInv, GapInv, CreateInv
<1>8. CallInv(c)
  BY <1>1, <1>3, <1>6, <1>7, Zenon DEF CallInv
<1> QED
  BY <1>2, <1>4, <1>8, OneCall

(* A new zone is stored below the one that referred to it. *)
LEMMA CreateStep ==
  ASSUME ResolverInv, NEW p \in Requests, processDelegation(p)
  PROVE  ResolverInv'
<1> DEFINE c == call[p]
           n == c.msg.cut
<1>1. c \in Calls /\ BoundInv(c) /\ (~c.astray => OnWayInv(c))
  BY Before
<1>2. c.pc = "create"
  BY Zenon DEF processDelegation
<1>3. /\ c.q \in Seq(STRING) /\ Len(c.q) \in Nat /\ c.idx \in Nat /\ c.path \in SUBSET Nat
      /\ c.astray \in BOOLEAN /\ c.z.name \in Cuts /\ n \in Cuts /\ Len(n) \in Nat
  BY <1>1, CallFacts
<1>4. c.idx <= Len(c.q) + 1 /\ Below(n, c.z.name)
  BY <1>1, <1>2 DEF BoundInv
<1>5. CASE Return(p, c, "noPool") /\ UNCHANGED <<zones, fresh>>
  BY <1>1, <1>5, ReturnStep DEF Outcomes
<1>6. ASSUME NEW k \in Pools \ InUse,
             add(c.msg.cut, [parent |-> depth(c), pool |-> k]),
             fresh' = fresh \cup {k},
             Set(p, [c EXCEPT !.pc = "loop", !.msg = NoMsg,
                              !.z = [name |-> c.msg.cut, pool |-> k],
                              !.path = @ \cup AboveName(c, c.msg.cut), !.idx = @ + 1])
      PROVE  ResolverInv'
  <2> DEFINE e == [c EXCEPT !.pc = "loop", !.msg = NoMsg,
                            !.z = [name |-> n, pool |-> k],
                            !.path = @ \cup AboveName(c, n), !.idx = @ + 1]
  <2>1. AboveName(c, n) \in SUBSET Nat
    BY <1>1, <1>3, AboveFacts
  <2>2. Set(p, e) /\ add(n, [parent |-> Len(c.z.name), pool |-> k])
    BY <1>6 DEF depth
  <2> HIDE DEF AboveName, n
  <2>3. e \in Calls
    <3>1. /\ c.idx + 1 \in Nat /\ c.path \cup AboveName(c, n) \in SUBSET Nat
          /\ [name |-> n, pool |-> k] \in [name : Cuts, pool : Pools]
          /\ NoMsg \in [kind : {"none", "final", "delegation"}, cut : Cuts]
      BY <1>3, <2>1, ResolverAssumption DEF NoMsg
    <3> QED
      BY <1>1, <3>1, Zenon DEF Calls, Points
  <2>4. /\ e.pc = "loop" /\ e.idx = c.idx + 1 /\ e.given = c.given
        /\ e.q = c.q /\ e.out = c.out /\ e.z.name = n /\ e.astray = c.astray
    BY <1>1 DEF Calls
  <2> HIDE DEF e
  <2>5. depth(e) = Len(n)
    BY <2>4 DEF depth
  <2>6. BoundInv(e)
    BY <1>3, <1>4, <2>4 DEF BoundInv
  <2>7. ASSUME ~e.astray PROVE OnWayInv(e)
    <3>1. /\ \A d \in c.given : d < Len(n)
          /\ c.idx = Len(n) /\ IsSubDomain(n, c.q) /\ c.out # "unableToResolve"
      BY <1>1, <1>2, <2>4, <2>7, Zenon DEF OnWayInv, CreateInv, n
    <3> QED
      BY <2>4, <2>5, <3>1 DEF OnWayInv, ListInv, WindInv, LoopInv, GapInv, CreateInv
  <2>8. fresh \subseteq fresh' /\ fresh' \subseteq Pools
    BY <1>6 DEF ResolverInv, TypeOK
  <2>9. CallInv(e)
    BY <2>6, <2>7, Zenon DEF CallInv
  <2> QED
    BY <1>3, <1>4, <2>2, <2>3, <2>8, <2>9, OneCallAdds
<1> QED
  BY <1>5, <1>6, ZenonT(30) DEF processDelegation

(* Expiry and renewal change no name or parent. *)
LEMMA PoolStep ==
  ASSUME ResolverInv, poolExpires \/ poolRenewed
  PROVE  ResolverInv'
<1>1. /\ UNCHANGED <<zones, call>> /\ RootPool \in fresh' /\ fresh' \subseteq Pools
  <2>1. \A p \in Requests : call[p].z.pool \in Pools
    BY Zenon DEF ResolverInv, TypeOK, Calls
  <2>2. InUse \subseteq Pools
    BY <2>1 DEF InUse, ResolverInv, TypeOK
  <2> QED
    BY <2>2 DEF poolExpires, poolRenewed, ResolverInv, TypeOK, StoreSound
<1>2. TypeOK' /\ StoreSound'
  BY <1>1 DEF ResolverInv, TypeOK, StoreSound
<1>3. \A p \in Requests : CallInv(call'[p])
  BY <1>1 DEF ResolverInv
<1> QED
  BY <1>2, <1>3 DEF ResolverInv

(* Every step keeps the invariant. *)
LEMMA ResolverStep == ResolverInv /\ [Next]_vars => ResolverInv'
<1> SUFFICES ASSUME ResolverInv, [Next]_vars PROVE ResolverInv'
  OBVIOUS
<1>1. CASE UNCHANGED vars
  <2>1. TypeOK' /\ StoreSound'
    BY <1>1 DEF ResolverInv, TypeOK, StoreSound, vars
  <2>2. \A p \in Requests : CallInv(call'[p])
    BY <1>1 DEF ResolverInv, vars
  <2> QED
    BY <2>1, <2>2 DEF ResolverInv
<1> QED
  BY <1>1, ExchangeStep, ListStep, WindStep, LoopStep, AskStep, GapStep, ResponseStep,
     NestedStep, CreateStep, PoolStep DEF Next, Step

(* The invariant of the exchange loop and of the store of zones holds *)
(* for all trees, names, exchanges and faults.                        *)
THEOREM ResolverInvariant == Spec => []ResolverInv
BY ResolverInit, ResolverStep, PTL DEF Spec

(* Whatever goes wrong and however the exchanges interleave, the store stays *)
(* sound, also when referrals mislead some of them, and the list of known    *)
(* zones starts at the root.  In an exchange that no referral misleads the   *)
(* cursor follows the zone asked, the authenticator gets no second input for *)
(* a zone, and the labels do not run out before there is a response.         *)
THEOREM ResolverSafety ==
  Spec => [](TypeOK /\ StoreSound /\ KnownFromRoot /\ CursorFollowsZone
               /\ OneInputPerZone /\ NeverUnresolved)
<1>1. ResolverInv => /\ TypeOK /\ StoreSound /\ KnownFromRoot /\ CursorFollowsZone
                     /\ OneInputPerZone /\ NeverUnresolved
  <2> SUFFICES ASSUME ResolverInv
               PROVE  KnownFromRoot /\ CursorFollowsZone /\ OneInputPerZone /\ NeverUnresolved
    BY DEF ResolverInv
  <2>1. ASSUME NEW p \in Requests
        PROVE  /\ BoundInv(call[p]) /\ (~call[p].astray => OnWayInv(call[p]))
               /\ depth(call[p]) \in Nat /\ call[p].given \in SUBSET Nat
    BY Before, CallFacts
  <2>2. KnownFromRoot
    <3> SUFFICES ASSUME NEW p \in Requests, call[p].pc = "wind"
                 PROVE  WindInv(call[p])
      BY Zenon DEF KnownFromRoot, WindInv
    <3>1. ~call[p].astray
      BY <2>1 DEF BoundInv
    <3> QED
      BY <2>1, <3>1, Zenon DEF OnWayInv
  <2>3. CursorFollowsZone
    BY <2>1, Zenon DEF CursorFollowsZone, OnWayInv, LoopInv
  <2>4. OneInputPerZone
    <3> SUFFICES ASSUME NEW p \in Requests, call[p].pc \in {"ask", "gap"}, ~call[p].astray
                 PROVE  depth(call[p]) \notin call[p].given /\ IsSubDomain(call[p].z.name, call[p].q)
      BY Zenon DEF OneInputPerZone
    <3>1. /\ \A d \in call[p].given : d < depth(call[p])
          /\ IsSubDomain(call[p].z.name, call[p].q)
      BY <2>1, Zenon DEF OnWayInv, LoopInv, GapInv
    <3> QED
      BY <2>1, <3>1
  <2>5. NeverUnresolved
    BY <2>1, Zenon DEF NeverUnresolved, OnWayInv
  <2> QED
    BY <2>2, <2>3, <2>4, <2>5
<1> QED
  BY <1>1, ResolverInvariant, PTL

(* As long as no referral misleads an exchange, the zone it asks for the     *)
(* next label is the one above the cursor, or at it, whatever the others do. *)
THEOREM CursorTracksZone == Spec => []CursorFollowsZone
BY ResolverSafety, PTL

(* Such an exchange hands no zone to the authenticator twice                 *)
(* (authenticator.go:60), and none that is not above its name.               *)
THEOREM InputsAreDistinct == Spec => []OneInputPerZone
BY ResolverSafety, PTL

(* ErrUnableToResolveAnswer is out of reach of it, whatever else goes wrong. *)
THEOREM LabelsSuffice == Spec => []NeverUnresolved
BY ResolverSafety, PTL

-----------------------------------------------------------------------------
(* Without expiry.                                                           *)

(* The store and the fresh pools only grow, and one call takes a step to c.  *)
LEMMA FreshKeep ==
  ASSUME ResolverInv, FreshInv, NEW p \in Requests, NEW c,
         Set(p, c), FreshCall(c, DOMAIN zones', fresh'),
         fresh \subseteq fresh', DOMAIN zones \subseteq DOMAIN zones',
         \A n \in DOMAIN zones' : zones'[n].pool \in fresh'
  PROVE  FreshInv'
<1>1. call' = [call EXCEPT ![p] = c] /\ call \in [Requests -> Calls]
  BY DEF Set, ResolverInv, TypeOK
<1>2. ASSUME NEW r \in Requests PROVE FreshCall(call'[r], DOMAIN zones', fresh')
  <2>1. CASE r = p
    <3>1. call'[r] = c
      BY <1>1, <2>1
    <3> QED
      BY <3>1, Zenon
  <2>2. CASE r # p
    <3>1. call'[r] = call[r] /\ FreshCall(call[r], DOMAIN zones, fresh)
      BY <1>1, <2>2 DEF FreshInv
    <3> QED
      BY <3>1, Zenon DEF FreshCall
  <2> QED
    BY <2>1, <2>2
<1> QED
  BY <1>2 DEF FreshInv

(* Returning keeps the pools fresh. *)
LEMMA FreshReturn ==
  ASSUME ResolverInv, FreshInv, NEW p \in Requests, NEW c \in Calls, NEW out,
         Return(p, c, out), out = "panic" => c.astray, UNCHANGED <<zones, fresh>>
  PROVE  FreshInv'
<1> DEFINE r == [NewCall(c.q) EXCEPT !.pc = "over", !.out = out, !.given = c.given,
                                     !.path = c.path, !.astray = c.astray]
<1>1. /\ r.pc = "over" /\ r.z.pool = RootPool /\ r.out = out /\ r.astray = c.astray
      /\ Set(p, r)
  BY DEF NewCall, Return
<1>2. RootPool \in fresh'
  BY DEF ResolverInv, StoreSound
<1> HIDE DEF r
<1>3. FreshCall(r, DOMAIN zones', fresh')
  BY <1>1, <1>2 DEF FreshCall
<1> QED
  BY <1>1, <1>3, FreshKeep DEF FreshInv

(* A zone is added with a fresh pool.                                        *)
LEMMA FreshAdd ==
  ASSUME FreshInv, NEW n, NEW zone, add(n, zone), fresh \subseteq fresh', zone.pool \in fresh'
  PROVE  /\ DOMAIN zones \subseteq DOMAIN zones' /\ n \in DOMAIN zones'
         /\ \A m \in DOMAIN zones' : zones'[m].pool \in fresh'
BY DEF add, FreshInv

(* So do the steps before the loop. *)
LEMMA FreshEarly ==
  ASSUME ResolverInv, FreshInv, NEW p \in Requests,
         Exchange(p) \/ getZoneList(p) \/ addDelegationSignerLinks(p)
  PROVE  FreshInv'
<1> DEFINE me == call[p]
<1>1. me \in Calls /\ FreshCall(me, DOMAIN zones, fresh)
  BY Before DEF FreshInv
<1>2. UNCHANGED <<zones, fresh>> /\ \A n \in DOMAIN zones : zones[n].pool \in fresh
  BY Zenon DEF Exchange, getZoneList, addDelegationSignerLinks, FreshInv
<1>3. ASSUME NEW q \in QNames, Set(p, NewCall(q)) PROVE FreshInv'
  <2>1. /\ NewCall(q).z = [name |-> <<>>, pool |-> RootPool] /\ NewCall(q).pc = "list"
        /\ NewCall(q).out = "none"
    BY DEF NewCall
  <2>2. FreshCall(NewCall(q), DOMAIN zones', fresh')
    BY <1>2, <2>1 DEF FreshCall, ResolverInv, StoreSound
  <2> QED
    BY <1>2, <1>3, <2>2, FreshKeep
<1>4. ASSUME NEW q \in QNames, Return(p, NewCall(q), "notRecursionDesired") PROVE FreshInv'
  <2>1. NewCall(q) \in Calls
    BY NewIsCall
  <2> QED
    BY <1>2, <1>4, <2>1, FreshReturn
<1>5. CASE getZoneList(p)
  <2> DEFINE n  == Name(me.q, me.at)
             pc == IF me.at = Len(me.q) THEN "wind" ELSE "list"
             a  == [me EXCEPT !.pc = pc, !.at = @ + 1]
             b  == [me EXCEPT !.pc = pc, !.at = @ + 1, !.known = @ \cup {me.at},
                              !.z = [name |-> n, pool |-> zones[n].pool]]
             c  == [me EXCEPT !.pc = "wind"]
  <2>1. \/ Set(p, a)
        \/ usable(n) /\ Set(p, b)
        \/ Set(p, c)
    BY <1>5 DEF getZoneList
  <2>2. /\ a.z = me.z /\ a.out = me.out /\ a.pc = pc /\ a.astray = me.astray
        /\ c.z = me.z /\ c.out = me.out /\ c.pc = "wind" /\ c.astray = me.astray
        /\ b.z = [name |-> n, pool |-> zones[n].pool] /\ b.out = me.out
        /\ b.pc = pc /\ pc \in {"wind", "list"} /\ b.astray = me.astray
    BY <1>1 DEF Calls
  <2>3. me.pc = "list"
    BY <1>5 DEF getZoneList
  <2> HIDE DEF a, b, c, pc
  <2>4. FreshCall(a, DOMAIN zones', fresh') /\ FreshCall(c, DOMAIN zones', fresh')
    BY <1>1, <1>2, <2>2, <2>3 DEF FreshCall
  <2>5. usable(n) => FreshCall(b, DOMAIN zones', fresh')
    BY <1>1, <1>2, <2>2 DEF FreshCall, usable
  <2> QED
    BY <1>2, <2>1, <2>4, <2>5, FreshKeep
<1>6. CASE addDelegationSignerLinks(p)
  <2> DEFINE c == [me EXCEPT !.pc = "loop", !.at = 0, !.idx = windTo(me),
                             !.given = me.known \ {depth(me)}, !.path = me.known]
  <2>1. /\ Set(p, c) /\ me.pc = "wind"
        /\ c.z = me.z /\ c.out = me.out /\ c.pc = "loop" /\ c.astray = me.astray
    BY <1>1, <1>6 DEF addDelegationSignerLinks, Calls
  <2> HIDE DEF c
  <2>2. FreshCall(c, DOMAIN zones', fresh')
    BY <1>1, <1>2, <2>1 DEF FreshCall
  <2> QED
    BY <1>2, <2>1, <2>2, FreshKeep
<1> QED
  BY <1>3, <1>4, <1>5, <1>6 DEF Exchange

(* A stored zone that does not expire is found again. *)
LEMMA FreshLoop ==
  ASSUME ResolverInv, FreshInv, NEW p \in Requests, exchange(p)
  PROVE  FreshInv'
<1> DEFINE me  == call[p]
           c   == [me EXCEPT !.counter = @ + 1]
           cur == current(c)
           n   == Name(c.q, cur)
           e   == [c EXCEPT !.z = [name |-> n, pool |-> zones[n].pool],
                            !.path = @ \cup {cur}, !.idx = @ + 1]
           a   == [c EXCEPT !.pc = "ask"]
<1>1. /\ me \in Calls /\ (~me.astray => OnWayInv(me))
      /\ FreshCall(me, DOMAIN zones, fresh)
  BY Before DEF FreshInv
<1>2. UNCHANGED <<zones, fresh>> /\ \A m \in DOMAIN zones : zones[m].pool \in fresh
  BY Zenon DEF exchange, FreshInv
<1>3. /\ c \in Calls /\ c.q = me.q /\ c.idx = me.idx /\ c.z = me.z /\ c.pc = me.pc
      /\ c.out = me.out /\ c.astray = me.astray
  <2>1. me.counter + 1 \in Nat
    BY <1>1, CallFacts
  <2> QED
    BY <1>1, <2>1, Zenon DEF Calls
<1>4. /\ c.pc = "loop"
      /\ \/ Return(p, c, IF more(c) THEN "maxQueries" ELSE "unableToResolve")
         \/ usable(n) /\ Set(p, e)
         \/ (~usable(n) \/ last(c)) /\ Set(p, a)
  BY DEF exchange
<1>5. /\ e.z = [name |-> n, pool |-> zones[n].pool] /\ e.pc = c.pc
      /\ e.out = c.out /\ e.astray = c.astray
      /\ a.q = c.q /\ a.z = c.z /\ a.pc = "ask" /\ a.out = c.out /\ a.idx = c.idx
      /\ a.astray = c.astray
  BY <1>3 DEF Calls
<1> HIDE DEF c, e, a
<1>6. /\ c.q \in Seq(STRING) /\ Len(c.q) \in Nat /\ c.idx \in Nat /\ depth(c) \in Nat
      /\ depth(c) = depth(me) /\ depth(a) = depth(c) /\ c.astray \in BOOLEAN
  BY <1>3, <1>5, CallFacts DEF depth
<1>7. CASE Return(p, c, IF more(c) THEN "maxQueries" ELSE "unableToResolve")
  BY <1>2, <1>3, <1>7, FreshReturn
<1>8. CASE usable(n) /\ Set(p, e)
  <2>1. FreshCall(e, DOMAIN zones', fresh')
    BY <1>1, <1>2, <1>3, <1>4, <1>5, <1>8 DEF FreshCall, usable
  <2> QED
    BY <1>2, <1>8, <2>1, FreshKeep
<1>9. CASE (~usable(n) \/ last(c)) /\ Set(p, a)
  <2>1. ASSUME ~c.astray PROVE c.idx > depth(c) \/ c.idx >= Len(c.q)
    <3>1. /\ c.idx = depth(c) + 1 \/ c.idx = depth(c)
          /\ IsSubDomain(c.z.name, c.q)
      BY <1>1, <1>3, <1>4, <1>6, <2>1, Zenon DEF OnWayInv, LoopInv
    <3>2. Name(c.q, depth(c)) = c.z.name /\ c.z.name \in DOMAIN zones
      BY <1>1, <1>3, <1>4, <1>6, <3>1, SubFacts DEF FreshCall, depth
    <3>3. c.idx = depth(c) /\ c.idx < Len(c.q) => usable(n)
      BY <1>2, <1>6, <3>2 DEF usable, current
    <3> QED
      BY <1>6, <1>9, <3>1, <3>3 DEF last
  <2>2. FreshCall(a, DOMAIN zones', fresh')
    BY <1>1, <1>2, <1>3, <1>5, <1>6, <2>1 DEF FreshCall
  <2> QED
    BY <1>2, <1>9, <2>2, FreshKeep, Zenon
<1> QED
  BY <1>4, <1>7, <1>8, <1>9

(* The zone that is asked lies above the cursor. *)
LEMMA FreshAsk ==
  ASSUME ResolverInv, FreshInv, NEW p \in Requests,
         resolveLabel(p) \/ addResponse(p) \/ nestedExchange(p)
  PROVE  FreshInv'
<1> DEFINE me == call[p]
           g  == [me EXCEPT !.given = @ \cup AboveName(me, me.z.name)]
<1>1. /\ me \in Calls /\ FreshCall(me, DOMAIN zones, fresh)
  BY Before DEF FreshInv
<1>2. UNCHANGED <<zones, fresh>> /\ \A m \in DOMAIN zones : zones[m].pool \in fresh
  BY Zenon DEF resolveLabel, addResponse, nestedExchange, FreshInv
<1>3. g \in Calls
  <2>1. me.given \cup AboveName(me, me.z.name) \in SUBSET Nat
    BY <1>1, CallFacts, AboveFacts
  <2> QED
    BY <1>1, <2>1, Zenon DEF Calls
<1>4. CASE Return(p, me, "error") \/ Return(p, g, "answer") \/ Return(p, g, "noNextNameservers")
  BY <1>1, <1>2, <1>3, <1>4, FreshReturn
<1>5. ASSUME NEW msg, NEW i, NEW x \in BOOLEAN, me.pc = "ask",
             Set(p, [me EXCEPT !.pc = "gap", !.msg = msg, !.missing = i, !.astray = me.astray \/ x])
      PROVE FreshInv'
  <2> DEFINE e == [me EXCEPT !.pc = "gap", !.msg = msg, !.missing = i, !.astray = me.astray \/ x]
  <2>1. /\ e.pc = "gap" /\ e.z = me.z /\ e.q = me.q /\ e.idx = me.idx /\ e.out = me.out
        /\ e.astray = (me.astray \/ x)
    BY <1>1, Zenon DEF Calls
  <2> HIDE DEF e
  <2>2. depth(e) = depth(me) /\ (~e.astray => ~me.astray)
    BY <2>1, Zenon DEF depth
  <2>3. FreshCall(e, DOMAIN zones', fresh')
    BY <1>1, <1>2, <1>5, <2>1, <2>2, Zenon DEF FreshCall
  <2> QED
    BY <1>2, <1>5, <2>3, FreshKeep DEF e
<1>6. CASE Set(p, [g EXCEPT !.pc = "create"])
  <2> DEFINE e == [g EXCEPT !.pc = "create"]
  <2>1. e.pc = "create" /\ e.z = me.z /\ e.out = me.out /\ e.astray = me.astray
    BY <1>1 DEF Calls
  <2> HIDE DEF e
  <2>2. FreshCall(e, DOMAIN zones', fresh')
    BY <1>1, <1>2, <2>1 DEF FreshCall
  <2> QED
    BY <1>2, <1>6, <2>2, FreshKeep DEF e
<1>7. CASE nestedExchange(p)
  <2> DEFINE e == [me EXCEPT !.counter = @ + 1]
  <2>1. /\ e.pc = me.pc /\ e.z = me.z /\ e.out = me.out /\ e.q = me.q /\ e.idx = me.idx
        /\ e.astray = me.astray /\ Set(p, e)
    BY <1>1, <1>7 DEF Calls, nestedExchange
  <2> HIDE DEF e
  <2>2. FreshCall(e, DOMAIN zones', fresh')
    BY <1>1, <1>2, <2>1 DEF FreshCall, depth
  <2> QED
    BY <1>2, <2>1, <2>2, FreshKeep
<1>8. CASE resolveLabel(p)
  <2>1. me.pc = "ask"
    BY <1>8, Zenon DEF resolveLabel
  <2>2. CASE Return(p, me, "error")
    BY <1>4, <2>2
  <2>3. ASSUME NEW m \in Messages(me),
               Set(p, [me EXCEPT !.pc = "gap", !.msg = [kind |-> m.kind, cut |-> m.cut],
                                 !.missing = gap(me, nextRecordsOwner(me.z, m.records)),
                                 !.astray = me.astray \/ Misleads(me, m)])
        PROVE  FreshInv'
    <3>1. Misleads(me, m) \in BOOLEAN
      BY DEF Misleads
    <3> HIDE DEF Misleads, gap, nextRecordsOwner
    <3> QED
      BY <1>5, <2>1, <2>3, <3>1, Zenon
  <2> QED
    BY <1>8, <2>2, <2>3, Zenon DEF resolveLabel
<1>9. CASE addResponse(p)
  BY <1>4, <1>6, <1>9 DEF addResponse
<1> QED
  BY <1>7, <1>8, <1>9

(* So a zone is cloned for a name below it only. *)
LEMMA FreshGap ==
  ASSUME ResolverInv, FreshInv, NEW p \in Requests, checkForMissingZones(p)
  PROVE  FreshInv'
<1> DEFINE c == call[p]
           n == Name(c.q, c.idx)
           e == [c EXCEPT !.given = @ \cup {depth(c)},
                          !.z = [name |-> n, pool |-> c.z.pool],
                          !.path = @ \cup {c.idx}, !.idx = @ + 1, !.missing = @ - 1]
           s == [c EXCEPT !.idx = @ + 1, !.missing = @ - 1]
<1>1. /\ c \in Calls /\ BoundInv(c) /\ (~c.astray => OnWayInv(c))
      /\ FreshCall(c, DOMAIN zones, fresh)
  BY Before DEF FreshInv
<1>2. /\ e.pc = c.pc /\ e.z = [name |-> n, pool |-> c.z.pool] /\ e.idx = c.idx + 1
      /\ e.out = c.out /\ e.astray = c.astray
      /\ s.pc = c.pc /\ s.z = c.z /\ s.idx = c.idx + 1 /\ s.out = c.out /\ s.q = c.q
      /\ s.astray = c.astray
  BY <1>1 DEF Calls
<1>3. c.pc = "gap" /\ c.missing > 0 /\ UNCHANGED fresh
  BY DEF checkForMissingZones
<1>4. \/ add(n, [parent |-> depth(c), pool |-> c.z.pool]) /\ Set(p, e)
      \/ ~Below(n, c.z.name) /\ Return(p, c, "panic") /\ UNCHANGED zones
      \/ UNCHANGED zones /\ Set(p, s)
  BY DEF checkForMissingZones
<1> HIDE DEF c, e, s
<1>5. /\ c.q \in Seq(STRING) /\ Len(c.q) \in Nat /\ c.idx \in Nat /\ depth(c) \in Nat
      /\ c.missing \in Nat /\ c.astray \in BOOLEAN
  BY <1>1, CallFacts, Zenon
<1>6. c.idx + c.missing <= Len(c.q)
  BY <1>1, <1>3, <1>5 DEF BoundInv
<1>7. c.idx \in 0..Len(c.q) /\ c.idx < Len(c.q)
  BY <1>3, <1>5, <1>6, WalkArithmetic, Zenon
<1>8. ~c.astray => c.idx > depth(c)
  <2>1. ~c.astray => c.idx > depth(c) \/ c.idx >= Len(c.q)
    BY <1>1, <1>3, Zenon DEF FreshCall
  <2> QED
    BY <1>5, <1>7, <2>1
<1>9. Len(n) = c.idx
  BY <1>5, <1>7, NameFacts
<1>10. CASE add(n, [parent |-> depth(c), pool |-> c.z.pool]) /\ Set(p, e)
  <2>1. c.z.pool \in fresh' /\ fresh \subseteq fresh'
    BY <1>1, <1>3 DEF FreshCall
  <2>2. /\ DOMAIN zones \subseteq DOMAIN zones'
        /\ \A m \in DOMAIN zones' : zones'[m].pool \in fresh'
    BY <1>10, <2>1, FreshAdd
  <2> HIDE DEF n
  <2>3. depth(e) = c.idx /\ e.z.pool = c.z.pool
    BY <1>2, <1>9 DEF depth
  <2>4. FreshCall(e, DOMAIN zones', fresh')
    BY <1>1, <1>2, <1>3, <1>5, <2>1, <2>3 DEF FreshCall
  <2> QED
    BY <1>10, <2>1, <2>2, <2>4, FreshKeep
<1>11. CASE UNCHANGED zones /\ Set(p, s)
  <2>1. depth(s) = depth(c)
    BY <1>2 DEF depth
  <2>2. FreshCall(s, DOMAIN zones', fresh')
    BY <1>1, <1>2, <1>3, <1>5, <1>8, <1>11, <2>1 DEF FreshCall
  <2> QED
    BY <1>3, <1>11, <2>2, FreshKeep DEF FreshInv
<1>12. CASE ~Below(n, c.z.name) /\ Return(p, c, "panic") /\ UNCHANGED zones
  <2>1. ASSUME ~c.astray PROVE FALSE
    <3>1. IsSubDomain(c.z.name, c.q)
      BY <1>1, <2>1, Zenon DEF OnWayInv
    <3>2. depth(c) \in 0..Len(c.q) /\ Name(c.q, depth(c)) = c.z.name
      BY <1>5, <3>1, SubFacts, Zenon DEF depth
    <3>3. depth(c) < c.idx
      BY <1>5, <1>8, <2>1
    <3>4. Below(n, Name(c.q, depth(c)))
      BY <1>5, <1>7, <3>2, <3>3, BelowOnPath, Zenon
    <3> QED
      BY <1>12, <3>2, <3>4, Zenon
  <2> QED
    BY <1>1, <1>3, <1>12, <2>1, FreshReturn
<1> QED
  BY <1>4, <1>10, <1>11, <1>12

(* A created zone is fresh. *)
LEMMA FreshCreate ==
  ASSUME ResolverInv, FreshInv, NEW p \in Requests, processDelegation(p)
  PROVE  FreshInv'
<1> DEFINE c == call[p]
<1>1. c \in Calls /\ FreshCall(c, DOMAIN zones, fresh)
  BY Before DEF FreshInv
<1>2. CASE Return(p, c, "noPool") /\ UNCHANGED <<zones, fresh>>
  BY <1>1, <1>2, FreshReturn
<1>3. ASSUME NEW k \in Pools,
             add(c.msg.cut, [parent |-> depth(c), pool |-> k]),
             fresh' = fresh \cup {k},
             Set(p, [c EXCEPT !.pc = "loop", !.msg = NoMsg,
                              !.z = [name |-> c.msg.cut, pool |-> k],
                              !.path = @ \cup AboveName(c, c.msg.cut), !.idx = @ + 1])
      PROVE  FreshInv'
  <2> DEFINE e == [c EXCEPT !.pc = "loop", !.msg = NoMsg,
                            !.z = [name |-> c.msg.cut, pool |-> k],
                            !.path = @ \cup AboveName(c, c.msg.cut), !.idx = @ + 1]
  <2>1. /\ e.pc = "loop" /\ e.z = [name |-> c.msg.cut, pool |-> k]
        /\ e.out = c.out /\ e.astray = c.astray
    BY <1>1 DEF Calls
  <2> HIDE DEF e
  <2>2. /\ DOMAIN zones \subseteq DOMAIN zones' /\ c.msg.cut \in DOMAIN zones'
        /\ \A m \in DOMAIN zones' : zones'[m].pool \in fresh'
    BY <1>3, FreshAdd
  <2>3. FreshCall(e, DOMAIN zones', fresh')
    BY <1>1, <1>3, <2>1, <2>2 DEF FreshCall
  <2> QED
    BY <1>3, <2>2, <2>3, FreshKeep, Zenon DEF e
<1> QED
  BY <1>2, <1>3, Zenon DEF processDelegation

(* As long as no pool expires, FreshInv holds of every state.                *)
LEMMA FreshCorrect == Spec => []("expiry" \notin faults => FreshInv)
<1> DEFINE I == "expiry" \notin faults => FreshInv
<1>1. Init => I
  <2> SUFFICES ASSUME Init PROVE FreshInv
    OBVIOUS
  <2>1. ASSUME NEW p \in Requests
        PROVE  call[p].z.pool = RootPool /\ call[p].pc = "idle" /\ call[p].out = "none"
    BY DEF Init, NewCall
  <2> QED
    BY <2>1 DEF Init, FreshInv, FreshCall
<1>2. ResolverInv /\ I /\ [Next]_vars => I'
  <2> SUFFICES ASSUME ResolverInv, I, [Next]_vars, "expiry" \notin faults' PROVE FreshInv'
    OBVIOUS
  <2>1. "expiry" \notin faults /\ FreshInv
    BY DEF Next, vars
  <2>2. CASE UNCHANGED vars
    BY <2>1, <2>2 DEF vars, FreshInv
  <2>3. ~poolExpires /\ ~poolRenewed
    BY <2>1 DEF poolExpires, poolRenewed
  <2> QED
    BY <2>1, <2>2, <2>3, FreshEarly, FreshLoop, FreshAsk, FreshGap, FreshCreate
    DEF Next, Step
<1> QED
  BY <1>1, <1>2, ResolverInvariant, PTL DEF Spec

(* The panic of clone has no other cause than a pool that expires or a       *)
(* referral that misleads the exchange it happens in, for every tree, every  *)
(* name and every number of exchanges that share the store.                  *)
THEOREM CloneSafety == Spec => []PanicHasCause
<1>1. ("expiry" \notin faults => FreshInv) => PanicHasCause
  BY Zenon DEF FreshInv, FreshCall, PanicHasCause
<1> QED
  BY <1>1, FreshCorrect, PTL

-----------------------------------------------------------------------------
(* One exchange alone, and nothing goes wrong.  Then the store is closed:    *)
(* with a zone it holds every zone above it, each recorded as the parent of  *)
(* the next.  So getZoneList finds all the zones there are on the way to the *)
(* name, the loop takes over none unasked but the one it starts from, and    *)
(* every zone it leaves has been given to the authenticator.                 *)

ClosedStore ==
  \A n \in DOMAIN zones \ {<<>>} : \A d \in 0..(Len(n) - 1) :
    Name(n, d) \in Cuts => Name(n, d) \in DOMAIN zones /\ d <= zones[n].parent

QuietCall(c, names) ==
  /\ c.pc # "over" => ~c.astray
  /\ c.pc = "list" => /\ \A d \in 0..(c.at - 1) : Name(c.q, d) \in names => d \in c.known
                      /\ \A d \in c.known : Name(c.q, d) \in names
  /\ c.pc \in {"wind", "loop", "ask", "gap", "create"} =>
       /\ c.z.name \in names
       /\ \A d \in (depth(c) + 1)..Len(c.q) : Name(c.q, d) \notin names
  /\ c.pc \in {"loop", "ask", "gap"} => depth(c) \in c.path /\ c.given = c.path \ {depth(c)}
  /\ c.pc \in {"gap", "create"} =>
       \A d \in 0..(c.idx - 1) : Name(c.q, d) \in Cuts => d <= depth(c)
  /\ c.pc = "gap" /\ c.msg.kind = "delegation" => Below(c.msg.cut, c.z.name)
  /\ c.pc = "create" => c.given = c.path
  /\ c.pc = "over" => /\ c.out \in {"answer", "maxQueries", "notRecursionDesired"}
                      /\ c.out = "answer" => c.given = c.path

QuietInv ==
  faults = {} => ClosedStore /\ \A p \in Requests : QuietCall(call[p], DOMAIN zones)

(* With a zone the store holds every zone above it.                          *)
LEMMA ClosedAbove ==
  ASSUME ClosedStore, NEW q \in Seq(STRING), NEW u \in 0..Len(q), Name(q, u) \in DOMAIN zones,
         NEW i \in 0..u, Name(q, i) \in Cuts
  PROVE  Name(q, i) \in DOMAIN zones /\ (i < u => i <= zones[Name(q, u)].parent)
<1>1. CASE i = u
  BY <1>1
<1>2. CASE i # u
  <2> DEFINE n == Name(q, u)
  <2>1. u > 0 /\ i \in 0..(u - 1)
    BY <1>2
  <2>2. n # <<>> /\ Len(n) = u /\ Name(n, i) = Name(q, i)
    BY <2>1, NameFacts
  <2> HIDE DEF n
  <2> QED
    BY <2>1, <2>2 DEF ClosedStore, n
<1> QED
  BY <1>1, <1>2

(* It still does when a zone is added below the last one above it.           *)
LEMMA ClosedAdd ==
  ASSUME ClosedStore, NEW q \in Seq(STRING), NEW d \in 1..Len(q), NEW u \in 0..(d - 1),
         Name(q, u) \in DOMAIN zones,
         \A i \in 0..(d - 1) : Name(q, i) \in Cuts => i <= u,
         NEW k, add(Name(q, d), [parent |-> u, pool |-> k])
  PROVE  /\ ClosedStore' /\ DOMAIN zones' = DOMAIN zones \cup {Name(q, d)}
<1> DEFINE n == Name(q, d)
           zone == [parent |-> u, pool |-> k]
<1>1. zones' = [m \in DOMAIN zones \cup {n} |-> IF m = n THEN zone ELSE zones[m]]
  BY DEF add
<1>2. n # <<>> /\ Len(n) = d /\ \A i \in 0..d : Name(n, i) = Name(q, i)
  BY NameFacts
<1>3. zone.parent = u
  OBVIOUS
<1>4. /\ DOMAIN zones' = DOMAIN zones \cup {n}
      /\ zones'[n].parent = u
      /\ \A m \in DOMAIN zones \ {n} : zones'[m] = zones[m]
  <2> HIDE DEF n, zone
  <2> QED BY <1>1, <1>3
<1>5. ASSUME NEW i \in 0..(d - 1), Name(n, i) \in Cuts
      PROVE  Name(n, i) \in DOMAIN zones /\ i <= u
  <2>1. Name(n, i) = Name(q, i) /\ i <= u /\ i \in 0..u
    BY <1>2, <1>5
  <2>2. u \in 0..Len(q)
    OBVIOUS
  <2> QED
    BY <1>5, <2>1, <2>2, ClosedAbove
<1>6. ClosedStore'
  <2> SUFFICES ASSUME NEW m \in DOMAIN zones' \ {<<>>}, NEW i \in 0..(Len(m) - 1),
                      Name(m, i) \in Cuts
               PROVE  Name(m, i) \in DOMAIN zones' /\ i <= zones'[m].parent
    BY DEF ClosedStore
  <2>1. CASE m = n
    BY <1>2, <1>4, <1>5, <2>1
  <2>2. CASE m # n
    <3>1. m \in DOMAIN zones \ {<<>>} /\ zones'[m] = zones[m]
      BY <1>4, <2>2
    <3> QED
      BY <1>4, <3>1 DEF ClosedStore
  <2> QED
    BY <2>1, <2>2
<1> QED
  BY <1>4, <1>6

(* The exchange takes a step to c.                                           *)
LEMMA QuietKeep ==
  ASSUME \A r, s \in Requests : r = s, ResolverInv, NEW p \in Requests, NEW c, Set(p, c),
         QuietCall(c, DOMAIN zones'), ClosedStore'
  PROVE  QuietInv'
<1>1. \A r \in Requests : call'[r] = c
  BY DEF ResolverInv, TypeOK, Set
<1> QED
  BY <1>1 DEF QuietInv

(* The exchange returns.                                                     *)
LEMMA QuietReturn ==
  ASSUME \A r, s \in Requests : r = s, ResolverInv, ClosedStore, NEW p \in Requests,
         NEW c \in Calls, NEW out \in {"answer", "maxQueries", "notRecursionDesired"},
         out = "answer" => c.given = c.path, Return(p, c, out), UNCHANGED zones
  PROVE  QuietInv'
<1> DEFINE r == [NewCall(c.q) EXCEPT !.pc = "over", !.out = out, !.given = c.given,
                                     !.path = c.path, !.astray = c.astray]
<1>1. r.pc = "over" /\ r.out = out /\ r.given = c.given /\ r.path = c.path /\ Set(p, r)
  BY DEF NewCall, Return
<1> HIDE DEF r
<1>2. QuietCall(r, DOMAIN zones')
  BY <1>1 DEF QuietCall
<1>3. ClosedStore'
  BY DEF ClosedStore
<1> QED
  BY <1>1, <1>2, <1>3, QuietKeep

(* The call before a step, when nothing goes wrong.                          *)
LEMMA QuietBefore ==
  ASSUME ResolverInv, FreshInv, faults = {}, QuietInv, NEW p \in Requests, call[p].pc # "over"
  PROVE  /\ call[p] \in Calls /\ BoundInv(call[p]) /\ ~call[p].astray /\ OnWayInv(call[p])
         /\ FreshCall(call[p], DOMAIN zones, fresh) /\ QuietCall(call[p], DOMAIN zones)
         /\ ClosedStore
         /\ depth(call[p]) \in 0..Len(call[p].q) /\ Name(call[p].q, depth(call[p])) = call[p].z.name
<1>1. /\ call[p] \in Calls /\ BoundInv(call[p]) /\ (~call[p].astray => OnWayInv(call[p]))
      /\ FreshCall(call[p], DOMAIN zones, fresh) /\ QuietCall(call[p], DOMAIN zones)
      /\ ClosedStore
  BY Before, Zenon DEF QuietInv, FreshInv
<1>2. ~call[p].astray
  BY <1>1, Zenon DEF QuietCall
<1>3. IsSubDomain(call[p].z.name, call[p].q) /\ call[p].q \in Seq(STRING)
  BY <1>1, <1>2, CallFacts, Zenon DEF OnWayInv
<1>4. depth(call[p]) \in 0..Len(call[p].q) /\ Name(call[p].q, depth(call[p])) = call[p].z.name
  BY <1>3, SubFacts, Zenon DEF depth
<1> QED
  BY <1>1, <1>2, <1>4, Zenon

(* A new exchange is found as it should be.                                  *)
LEMMA QuietBegins ==
  ASSUME \A r, s \in Requests : r = s, ResolverInv, FreshInv, faults = {}, QuietInv,
         NEW p \in Requests, Exchange(p)
  PROVE  QuietInv'
<1>1. UNCHANGED zones /\ ClosedStore
  BY Zenon DEF Exchange, QuietInv
<1>2. ClosedStore'
  BY <1>1 DEF ClosedStore
<1>3. ASSUME NEW q \in QNames, Set(p, NewCall(q)) PROVE QuietInv'
  <2>1. /\ NewCall(q).pc = "list" /\ NewCall(q).at = 0 /\ NewCall(q).known = {}
        /\ NewCall(q).astray = FALSE
    BY DEF NewCall
  <2>2. QuietCall(NewCall(q), DOMAIN zones')
    <3>1. \A d \in 0..(0 - 1) : FALSE
      OBVIOUS
    <3>2. NewCall(q).pc \notin {"wind", "loop", "ask", "gap", "create", "over"}
      BY <2>1
    <3> QED
      BY <2>1, <3>1, <3>2, Zenon DEF QuietCall
  <2> QED
    BY <1>2, <1>3, <2>2, QuietKeep
<1>4. ASSUME NEW q \in QNames, Return(p, NewCall(q), "notRecursionDesired") PROVE QuietInv'
  <2>1. NewCall(q) \in Calls
    BY NewIsCall
  <2> QED
    BY <1>1, <1>4, <2>1, QuietReturn, Zenon
<1> QED
  BY <1>3, <1>4, Zenon DEF Exchange

(* getZoneList finds every zone of the store on the way to the name.         *)
LEMMA QuietList ==
  ASSUME \A r, s \in Requests : r = s, ResolverInv, FreshInv, faults = {}, QuietInv,
         NEW p \in Requests, getZoneList(p)
  PROVE  QuietInv'
<1> DEFINE me == call[p]
           n  == Name(me.q, me.at)
           fits == me.known = {} \/ zones[n].parent = depth(me)
           pc == IF me.at = Len(me.q) THEN "wind" ELSE "list"
           a  == [me EXCEPT !.pc = pc, !.at = @ + 1]
           b  == [me EXCEPT !.pc = pc, !.at = @ + 1, !.known = @ \cup {me.at},
                            !.z = [name |-> n, pool |-> zones[n].pool]]
<1>1. /\ me.pc = "list"
      /\ \/ ~usable(n) /\ Set(p, a)
         \/ usable(n) /\ Set(p, b)
         \/ usable(n) /\ ~fits
  BY DEF getZoneList
<1>2. /\ me \in Calls /\ ~me.astray /\ OnWayInv(me) /\ ClosedStore
      /\ FreshCall(me, DOMAIN zones, fresh) /\ QuietCall(me, DOMAIN zones)
      /\ depth(me) \in 0..Len(me.q) /\ Name(me.q, depth(me)) = me.z.name
  <2>1. me.pc # "over"
    BY <1>1
  <2> QED
    BY <2>1, QuietBefore, Zenon
<1>3. UNCHANGED zones /\ ClosedStore' /\ \A i \in DOMAIN zones : zones[i].pool \in fresh
  BY <1>2 DEF getZoneList, FreshInv, ClosedStore
<1>4. /\ a.z = me.z /\ a.q = me.q /\ a.pc = pc /\ a.at = me.at + 1 /\ a.known = me.known
      /\ a.astray = me.astray
      /\ b.z = [name |-> n, pool |-> zones[n].pool] /\ b.q = me.q /\ b.pc = pc
      /\ b.at = me.at + 1 /\ b.known = me.known \cup {me.at} /\ b.astray = me.astray
      /\ pc \in {"wind", "list"} /\ (pc = "wind" => me.at = Len(me.q))
  BY <1>2 DEF Calls
<1>5. usable(n) <=> n \in DOMAIN zones
  BY <1>3 DEF usable
<1> HIDE DEF me, a, b, pc
<1>6. /\ me.q \in Seq(STRING) /\ Len(me.q) \in Nat /\ me.at \in Nat /\ depth(me) \in Nat
      /\ me.known \in SUBSET Nat /\ me.z.name \in Cuts
  BY <1>2, CallFacts, Zenon
<1>7. /\ me.at <= Len(me.q)
      /\ me.known = {} <=> me.at = 0
      /\ \A d \in me.known : d <= depth(me)
      /\ me.at > 0 => depth(me) \in me.known /\ depth(me) < me.at
  BY <1>1, <1>2, Zenon DEF OnWayInv, ListInv
<1>8. /\ \A d \in 0..(me.at - 1) : Name(me.q, d) \in DOMAIN zones => d \in me.known
      /\ \A d \in me.known : Name(me.q, d) \in DOMAIN zones
      /\ me.z.name \in DOMAIN zones
  BY <1>1, <1>2, Zenon DEF QuietCall, FreshCall
<1>9. usable(n) => fits
  <2> SUFFICES ASSUME n \in DOMAIN zones, me.at > 0 PROVE zones[n].parent = depth(me)
    BY <1>5, <1>6, <1>7
  <2> DEFINE u == zones[n].parent
  <2>1. n # <<>> /\ Len(n) = me.at /\ \A j \in 0..me.at : Name(n, j) = Name(me.q, j)
    BY <1>6, <1>7, NameFacts
  <2>2. u \in Nat /\ u < me.at /\ Name(me.q, u) \in Cuts
    <3>1. zones[n] \in [parent : Nat, pool : Pools] /\ u < Len(n) /\ Name(n, u) \in Cuts
      BY <2>1, Zenon DEF ResolverInv, TypeOK, StoreSound
    <3>2. u \in Nat
      BY <3>1
    <3> HIDE DEF u, n
    <3>3. u < me.at /\ u \in 0..me.at
      BY <1>6, <2>1, <3>1, <3>2
    <3> QED
      BY <2>1, <3>1, <3>2, <3>3, Zenon
  <2>3. /\ me.at \in 0..Len(me.q) /\ depth(me) \in 0..me.at /\ depth(me) < me.at
        /\ u \in 0..me.at /\ u \in 0..(me.at - 1)
    BY <1>6, <1>7, <2>2
  <2>4. Name(me.q, depth(me)) \in Cuts
    BY <1>2, <1>6, Zenon
  <2>5. depth(me) <= u
    BY <1>2, <1>6, <2>3, <2>4, ClosedAbove
  <2>6. Name(me.q, u) \in DOMAIN zones
    BY <1>2, <1>6, <2>2, <2>3, ClosedAbove
  <2>7. u <= depth(me)
    BY <1>7, <1>8, <2>3, <2>6, Zenon
  <2> HIDE DEF u
  <2>8. u = depth(me)
    BY <1>6, <2>2, <2>5, <2>7
  <2> QED
    BY <2>8 DEF u
<1> HIDE DEF fits, n
<1>10. CASE ~usable(n) /\ Set(p, a)
  <2>1. ASSUME NEW d \in 0..me.at, Name(me.q, d) \in DOMAIN zones PROVE d \in me.known
    <3>1. d # me.at
      BY <1>5, <1>10, <2>1 DEF n
    <3>2. d \in 0..(me.at - 1)
      BY <1>6, <3>1
    <3> QED
      BY <1>8, <2>1, <3>2, Zenon
  <2>2. depth(a) = depth(me)
    BY <1>4 DEF depth
  <2>3. CASE a.pc = "list"
    <3>1. \A d \in 0..(a.at - 1) : Name(a.q, d) \in DOMAIN zones => d \in a.known
      <4>1. (me.at + 1) - 1 = me.at
        BY <1>6
      <4> QED
        BY <1>4, <2>1, <4>1, Zenon
    <3>2. QuietCall(a, DOMAIN zones)
      BY <1>2, <1>4, <1>8, <2>3, <3>1, Zenon DEF QuietCall
    <3> QED
      BY <1>3, <1>10, <3>2, QuietKeep
  <2>4. CASE a.pc = "wind"
    <3>1. ASSUME NEW d \in (depth(me) + 1)..Len(me.q) PROVE Name(me.q, d) \notin DOMAIN zones
      <4>1. me.at = Len(me.q)
        BY <1>4, <2>4, Zenon
      <4>2. d \in 0..me.at /\ ~(d <= depth(me))
        BY <1>6, <4>1
      <4> QED
        BY <1>7, <2>1, <4>2, Zenon
    <3>2. QuietCall(a, DOMAIN zones)
      BY <1>2, <1>4, <1>8, <2>2, <2>4, <3>1, Zenon DEF QuietCall
    <3> QED
      BY <1>3, <1>10, <3>2, QuietKeep
  <2> QED
    BY <1>4, <2>3, <2>4
<1>11. CASE usable(n) /\ Set(p, b)
  <2>1. ASSUME NEW d \in 0..me.at, Name(me.q, d) \in DOMAIN zones PROVE d \in me.known \cup {me.at}
    <3>1. d = me.at \/ d \in 0..(me.at - 1)
      BY <1>6
    <3> QED
      BY <1>8, <2>1, <3>1, Zenon
  <2>2. CASE b.pc = "list"
    <3>1. \A d \in 0..(b.at - 1) : Name(b.q, d) \in DOMAIN zones => d \in b.known
      <4>1. (me.at + 1) - 1 = me.at
        BY <1>6
      <4> QED
        BY <1>4, <2>1, <4>1, Zenon
    <3>2. \A d \in b.known : Name(b.q, d) \in DOMAIN zones
      BY <1>4, <1>5, <1>8, <1>11, Zenon DEF n
    <3>3. QuietCall(b, DOMAIN zones)
      BY <1>2, <1>4, <2>2, <3>1, <3>2, Zenon DEF QuietCall
    <3> QED
      BY <1>3, <1>11, <3>3, QuietKeep
  <2>3. CASE b.pc = "wind"
    <3>1. me.at = Len(me.q) /\ b.z.name = n
      BY <1>4, <2>3
    <3>2. depth(b) = me.at
      BY <1>6, <3>1, NameFacts DEF depth, n
    <3>3. (me.at + 1)..Len(me.q) = {}
      BY <1>6, <3>1
    <3>4. QuietCall(b, DOMAIN zones)
      BY <1>2, <1>4, <1>5, <1>11, <2>3, <3>1, <3>2, <3>3, Zenon DEF QuietCall
    <3> QED
      BY <1>3, <1>11, <3>4, QuietKeep
  <2> QED
    BY <1>4, <2>2, <2>3
<1> QED
  BY <1>1, <1>9, <1>10, <1>11

(* All of them but the lowest have been asked for DS records.                *)
LEMMA QuietWind ==
  ASSUME \A r, s \in Requests : r = s, ResolverInv, FreshInv, faults = {}, QuietInv,
         NEW p \in Requests, addDelegationSignerLinks(p)
  PROVE  QuietInv'
<1> DEFINE me == call[p]
           c  == [me EXCEPT !.pc = "loop", !.at = 0, !.idx = windTo(me),
                            !.given = me.known \ {depth(me)}, !.path = me.known]
<1>1. Set(p, c) /\ me.pc = "wind" /\ UNCHANGED zones
  BY Zenon DEF addDelegationSignerLinks
<1>2. /\ me \in Calls /\ ~me.astray /\ OnWayInv(me) /\ ClosedStore
      /\ QuietCall(me, DOMAIN zones)
  <2>1. me.pc # "over"
    BY <1>1
  <2> QED
    BY <2>1, QuietBefore, Zenon
<1>3. ClosedStore'
  BY <1>1, <1>2 DEF ClosedStore
<1>4. /\ c.z = me.z /\ c.q = me.q /\ c.pc = "loop" /\ c.astray = me.astray
      /\ c.given = me.known \ {depth(me)} /\ c.path = me.known
  BY <1>2, Zenon DEF Calls
<1> HIDE DEF me, c
<1>5. depth(c) = depth(me) /\ depth(me) \in me.known
  BY <1>1, <1>2, <1>4, Zenon DEF OnWayInv, WindInv, depth
<1>6. QuietCall(c, DOMAIN zones')
  <2>1. /\ me.z.name \in DOMAIN zones
        /\ \A d \in (depth(me) + 1)..Len(me.q) : Name(me.q, d) \notin DOMAIN zones
    BY <1>1, <1>2, Zenon DEF QuietCall
  <2> QED
    BY <1>1, <1>2, <1>4, <1>5, <2>1 DEF QuietCall
<1> QED
  BY <1>1, <1>3, <1>6, QuietKeep

(* The loop takes over no zone but the one it starts from.                   *)
LEMMA QuietLoop ==
  ASSUME \A r, s \in Requests : r = s, ResolverInv, FreshInv, faults = {}, QuietInv,
         NEW p \in Requests, exchange(p)
  PROVE  QuietInv'
<1> DEFINE me  == call[p]
           c   == [me EXCEPT !.counter = @ + 1]
           cur == current(c)
           n   == Name(c.q, cur)
           e   == [c EXCEPT !.z = [name |-> n, pool |-> zones[n].pool],
                            !.path = @ \cup {cur}, !.idx = @ + 1]
           a   == [c EXCEPT !.pc = "ask"]
<1>1. /\ c.pc = "loop" /\ UNCHANGED zones
      /\ \/ Return(p, c, IF more(c) THEN "maxQueries" ELSE "unableToResolve")
         \/ usable(n) /\ ~last(c) /\ Set(p, e)
         \/ Set(p, a)
  BY DEF exchange
<1>2. me \in Calls
  BY Before
<1>3. /\ c \in Calls /\ c.q = me.q /\ c.idx = me.idx /\ c.z = me.z /\ c.pc = me.pc
      /\ c.path = me.path /\ c.given = me.given /\ c.astray = me.astray
  <2>1. me.counter + 1 \in Nat
    BY <1>2, CallFacts
  <2> QED
    BY <1>2, <2>1, ZenonT(30) DEF Calls
<1>4. /\ ~me.astray /\ OnWayInv(me) /\ ClosedStore /\ QuietCall(me, DOMAIN zones)
      /\ depth(me) \in 0..Len(me.q) /\ Name(me.q, depth(me)) = me.z.name
  <2>1. me.pc # "over"
    BY <1>1, <1>3
  <2> QED
    BY <2>1, QuietBefore, Zenon
<1>5. ClosedStore'
  BY <1>1, <1>4 DEF ClosedStore
<1>6. /\ e.q = c.q /\ e.z = [name |-> n, pool |-> zones[n].pool] /\ e.pc = c.pc
      /\ e.path = c.path \cup {cur} /\ e.given = c.given /\ e.astray = c.astray
      /\ a.q = c.q /\ a.z = c.z /\ a.pc = "ask" /\ a.path = c.path /\ a.given = c.given
      /\ a.astray = c.astray
  BY <1>3 DEF Calls
<1> HIDE DEF me, c, e, a
<1>7. /\ c.q \in Seq(STRING) /\ Len(c.q) \in Nat /\ c.idx \in Nat /\ depth(c) \in Nat
      /\ depth(c) = depth(me) /\ depth(a) = depth(c)
  BY <1>3, <1>6, CallFacts DEF depth
<1>8. c.idx = depth(c) + 1 \/ c.idx = depth(c)
  BY <1>1, <1>3, <1>4, <1>7, Zenon DEF OnWayInv, LoopInv
<1>9. /\ c.z.name \in DOMAIN zones /\ ~c.astray
      /\ \A d \in (depth(c) + 1)..Len(c.q) : Name(c.q, d) \notin DOMAIN zones
      /\ depth(c) \in c.path /\ c.given = c.path \ {depth(c)}
  BY <1>1, <1>3, <1>4, <1>7, Zenon DEF QuietCall
<1>10. CASE Return(p, c, IF more(c) THEN "maxQueries" ELSE "unableToResolve")
  <2>1. depth(c) <= Len(c.q)
    BY <1>3, <1>4, <1>7
  <2>2. more(c)
    BY <1>7, <1>8, <2>1 DEF more
  <2>3. Return(p, c, "maxQueries")
    BY <1>10, <2>2, Zenon
  <2> QED
    BY <1>1, <1>3, <1>4, <2>3, QuietReturn
<1>11. CASE usable(n) /\ ~last(c) /\ Set(p, e)
  <2>1. cur = c.idx /\ c.idx < Len(c.q) /\ n \in DOMAIN zones
    BY <1>7, <1>11 DEF last, current, usable
  <2>2. cur = depth(c)
    BY <1>7, <1>8, <1>9, <2>1
  <2>3. n = c.z.name
    BY <1>3, <1>4, <1>7, <2>2, Zenon
  <2>4. e.z.name = c.z.name /\ e.path = c.path
    BY <1>6, <1>9, <2>2, <2>3
  <2>5. depth(e) = depth(c)
    BY <2>4 DEF depth
  <2>6. QuietCall(e, DOMAIN zones')
    BY <1>1, <1>6, <1>9, <2>4, <2>5, Zenon DEF QuietCall
  <2> QED
    BY <1>5, <1>11, <2>6, QuietKeep
<1>12. CASE Set(p, a)
  <2>1. QuietCall(a, DOMAIN zones')
    BY <1>1, <1>6, <1>7, <1>9, Zenon DEF QuietCall
  <2> QED
    BY <1>5, <1>12, <2>1, QuietKeep
<1> QED
  BY <1>1, <1>10, <1>11, <1>12

(* A response is one of the zone asked, or leads on.                         *)
LEMMA QuietAsk ==
  ASSUME \A r, s \in Requests : r = s, ResolverInv, FreshInv, faults = {}, QuietInv,
         NEW p \in Requests, resolveLabel(p)
  PROVE  QuietInv'
<1> DEFINE c == call[p]
<1>1. /\ c.pc = "ask" /\ UNCHANGED zones
  BY Zenon DEF resolveLabel
<1>2. /\ c \in Calls /\ ~c.astray /\ OnWayInv(c) /\ ClosedStore /\ QuietCall(c, DOMAIN zones)
  <2>1. c.pc # "over"
    BY <1>1
  <2> QED
    BY <2>1, QuietBefore, Zenon
<1>3. ClosedStore'
  BY <1>1, <1>2 DEF ClosedStore
<1>4. PICK m \in Messages(c) :
        Set(p, [c EXCEPT !.pc = "gap", !.msg = [kind |-> m.kind, cut |-> m.cut],
                         !.missing = gap(c, nextRecordsOwner(c.z, m.records)),
                         !.astray = c.astray \/ Misleads(c, m)])
  BY Zenon DEF resolveLabel
<1> DEFINE msg == [kind |-> m.kind, cut |-> m.cut]
           e   == [c EXCEPT !.pc = "gap", !.msg = msg,
                            !.missing = gap(c, nextRecordsOwner(c.z, m.records)),
                            !.astray = c.astray \/ Misleads(c, m)]
<1>5. msg.kind = m.kind /\ msg.cut = m.cut
  OBVIOUS
<1> HIDE DEF msg
<1>6. /\ e.pc = "gap" /\ e.z = c.z /\ e.q = c.q /\ e.idx = c.idx /\ e.msg = msg
      /\ e.path = c.path /\ e.given = c.given /\ e.astray = (c.astray \/ Misleads(c, m))
  BY <1>2, Zenon DEF Calls
<1>7. Set(p, e)
  BY <1>4 DEF msg
<1> HIDE DEF c, e
<1>8. m.kind = "delegation" => Below(m.cut, c.z.name) /\ ~Misleads(c, m)
  <2>1. m.kind = "delegation" =>
          /\ m.cut \in Referrals(c)
          /\ Misleads(c, m) /\ IsSubDomain(m.cut, c.q) => "owner" \in faults
    BY <1>2, MessageFacts, Zenon
  <2>2. m.cut \in Referrals(c) => Below(m.cut, c.z.name) /\ IsSubDomain(m.cut, c.q)
    BY DEF Referrals
  <2> QED
    BY <2>1, <2>2
<1>9. ~e.astray
  <2>1. ~Misleads(c, m)
    BY <1>8, Zenon DEF Misleads
  <2> QED
    BY <1>2, <1>6, <2>1, Zenon
<1>10. depth(e) = depth(c) /\ c.idx \in Nat /\ depth(c) \in Nat
  BY <1>2, <1>6, CallFacts DEF depth
<1>11. \A d \in 0..(c.idx - 1) : d <= depth(c)
  <2>1. c.idx = depth(c) + 1 \/ c.idx = depth(c)
    BY <1>1, <1>2, Zenon DEF OnWayInv, LoopInv
  <2> QED
    BY <1>10, <2>1
<1>12. /\ c.z.name \in DOMAIN zones
       /\ \A d \in (depth(c) + 1)..Len(c.q) : Name(c.q, d) \notin DOMAIN zones
       /\ depth(c) \in c.path /\ c.given = c.path \ {depth(c)}
  BY <1>1, <1>2, Zenon DEF QuietCall
<1>13. QuietCall(e, DOMAIN zones')
  BY <1>1, <1>5, <1>6, <1>8, <1>9, <1>10, <1>11, <1>12, Zenon DEF QuietCall
<1> QED
  BY <1>3, <1>7, <1>13, QuietKeep

(* The zone it came from has an input now.                                   *)
LEMMA QuietResponse ==
  ASSUME \A r, s \in Requests : r = s, ResolverInv, FreshInv, faults = {}, QuietInv,
         NEW p \in Requests, addResponse(p)
  PROVE  QuietInv'
<1> DEFINE c == call[p]
           g == [c EXCEPT !.given = @ \cup AboveName(c, c.z.name)]
           e == [g EXCEPT !.pc = "create"]
<1>1. /\ g.pc = "gap" /\ UNCHANGED zones
      /\ \/ Return(p, g, "answer")
         \/ g.msg.kind = "delegation" /\ ~Below(g.msg.cut, g.z.name)
         \/ Set(p, e)
  BY Zenon DEF addResponse
<1>2. c \in Calls
  BY Before
<1>3. c.given \cup AboveName(c, c.z.name) \in SUBSET Nat
  BY <1>2, CallFacts, AboveFacts
<1> HIDE DEF AboveName
<1>4. /\ g \in Calls /\ g.pc = c.pc /\ g.z = c.z /\ g.msg = c.msg
      /\ g.path = c.path /\ g.given = c.given \cup AboveName(c, c.z.name)
      /\ e.pc = "create" /\ e.z = c.z /\ e.q = c.q /\ e.idx = c.idx
      /\ e.path = c.path /\ e.given = c.given \cup AboveName(c, c.z.name)
      /\ e.astray = c.astray
  BY <1>2, <1>3, ZenonT(30) DEF Calls
<1>5. ~c.astray /\ OnWayInv(c) /\ ClosedStore /\ QuietCall(c, DOMAIN zones)
  <2>1. c.pc # "over"
    BY <1>1, <1>4
  <2> QED
    BY <2>1, QuietBefore, Zenon
<1>6. ClosedStore'
  BY <1>1, <1>5 DEF ClosedStore
<1> HIDE DEF c, g, e
<1>7. AboveName(c, c.z.name) = {depth(c)}
  BY <1>2, <1>5, CallFacts, AboveFacts, Zenon DEF OnWayInv, depth
<1>8. /\ c.z.name \in DOMAIN zones
      /\ \A d \in (depth(c) + 1)..Len(c.q) : Name(c.q, d) \notin DOMAIN zones
      /\ \A d \in 0..(c.idx - 1) : Name(c.q, d) \in Cuts => d <= depth(c)
      /\ depth(c) \in c.path /\ c.given = c.path \ {depth(c)}
      /\ c.msg.kind = "delegation" => Below(c.msg.cut, c.z.name)
  BY <1>1, <1>4, <1>5, Zenon DEF QuietCall
<1>9. c.given \cup AboveName(c, c.z.name) = c.path
  BY <1>7, <1>8, Zenon
<1>10. CASE Return(p, g, "answer")
  BY <1>1, <1>4, <1>5, <1>9, <1>10, QuietReturn, Zenon
<1>11. CASE Set(p, e)
  <2>1. depth(e) = depth(c)
    BY <1>4, Zenon DEF depth
  <2>2. QuietCall(e, DOMAIN zones')
    BY <1>1, <1>4, <1>5, <1>8, <1>9, <2>1, Zenon DEF QuietCall
  <2> QED
    BY <1>6, <1>11, <2>2, QuietKeep
<1> QED
  BY <1>1, <1>4, <1>8, <1>10, <1>11, Zenon

(* A name that is looked at is no zone, or becomes the lowest one known.     *)
LEMMA QuietGap ==
  ASSUME \A r, s \in Requests : r = s, ResolverInv, FreshInv, faults = {}, QuietInv,
         NEW p \in Requests, checkForMissingZones(p)
  PROVE  QuietInv'
<1> DEFINE c == call[p]
           n == Name(c.q, c.idx)
           e == [c EXCEPT !.given = @ \cup {depth(c)},
                          !.z = [name |-> n, pool |-> c.z.pool],
                          !.path = @ \cup {c.idx}, !.idx = @ + 1, !.missing = @ - 1]
           s == [c EXCEPT !.idx = @ + 1, !.missing = @ - 1]
<1>1. /\ c.pc = "gap" /\ c.missing > 0
      /\ \/ n \in Cuts /\ add(n, [parent |-> depth(c), pool |-> c.z.pool]) /\ Set(p, e)
         \/ ~Below(n, c.z.name)
         \/ n \notin Cuts /\ UNCHANGED zones /\ Set(p, s)
  BY DEF checkForMissingZones
<1>2. /\ c \in Calls /\ BoundInv(c) /\ ~c.astray /\ OnWayInv(c) /\ ClosedStore
      /\ FreshCall(c, DOMAIN zones, fresh) /\ QuietCall(c, DOMAIN zones)
      /\ depth(c) \in 0..Len(c.q) /\ Name(c.q, depth(c)) = c.z.name
  <2>1. c.pc # "over"
    BY <1>1
  <2> QED
    BY <2>1, QuietBefore, Zenon
<1>3. /\ e.pc = c.pc /\ e.q = c.q /\ e.z = [name |-> n, pool |-> c.z.pool]
      /\ e.idx = c.idx + 1 /\ e.msg = c.msg /\ e.astray = c.astray
      /\ e.path = c.path \cup {c.idx} /\ e.given = c.given \cup {depth(c)}
      /\ s.pc = c.pc /\ s.q = c.q /\ s.z = c.z /\ s.idx = c.idx + 1 /\ s.msg = c.msg
      /\ s.path = c.path /\ s.given = c.given /\ s.astray = c.astray
  BY <1>2 DEF Calls
<1> HIDE DEF c, e, s
<1>4. /\ c.q \in Seq(STRING) /\ Len(c.q) \in Nat /\ c.idx \in Nat /\ depth(c) \in Nat
      /\ c.missing \in Nat /\ c.given \in SUBSET Nat /\ Len(c.msg.cut) \in Nat
  BY <1>2, CallFacts, Zenon
<1>5. c.idx + c.missing <= Len(c.q)
  BY <1>1, <1>2, <1>4 DEF BoundInv
<1>6. c.idx \in 0..Len(c.q) /\ c.idx < Len(c.q)
  BY <1>1, <1>4, <1>5, WalkArithmetic, Zenon
<1>7. depth(c) < c.idx
  <2>1. c.idx > depth(c) \/ c.idx >= Len(c.q)
    BY <1>1, <1>2, Zenon DEF FreshCall
  <2> QED
    BY <1>4, <1>6, <2>1
<1>8. Len(n) = c.idx /\ Below(n, c.z.name)
  <2>1. Below(n, Name(c.q, depth(c)))
    BY <1>2, <1>4, <1>6, <1>7, BelowOnPath, Zenon
  <2> QED
    BY <1>2, <1>4, <1>6, <2>1, NameFacts
<1>9. /\ c.z.name \in DOMAIN zones
      /\ \A d \in (depth(c) + 1)..Len(c.q) : Name(c.q, d) \notin DOMAIN zones
      /\ depth(c) \in c.path /\ c.given = c.path \ {depth(c)}
      /\ \A d \in 0..(c.idx - 1) : Name(c.q, d) \in Cuts => d <= depth(c)
      /\ c.msg.kind = "delegation" => Below(c.msg.cut, c.z.name)
  BY <1>1, <1>2, Zenon DEF QuietCall
<1>10. /\ \A d \in c.given : d < depth(c)
       /\ c.msg.kind = "delegation" => /\ IsSubDomain(c.msg.cut, c.q)
                                       /\ c.idx + c.missing = Len(c.msg.cut)
  BY <1>1, <1>2, <1>9, Zenon DEF OnWayInv, GapInv
<1>11. CASE n \in Cuts /\ add(n, [parent |-> depth(c), pool |-> c.z.pool]) /\ Set(p, e)
  <2>1. c.idx \in 1..Len(c.q) /\ depth(c) \in 0..(c.idx - 1)
    BY <1>4, <1>6, <1>7
  <2>2. ClosedStore' /\ DOMAIN zones' = DOMAIN zones \cup {n}
    BY <1>2, <1>4, <1>9, <1>11, <2>1, ClosedAdd, ZenonT(30)
  <2>3. ASSUME NEW d \in (c.idx + 1)..Len(c.q) PROVE Name(c.q, d) \notin DOMAIN zones'
    <3>1. d \in 0..Len(c.q) /\ d # c.idx /\ d \in (depth(c) + 1)..Len(c.q)
      BY <1>4, <1>7, <2>3
    <3>2. Len(Name(c.q, d)) = d
      BY <1>4, <3>1, NameFacts, Zenon
    <3> QED
      BY <1>8, <1>9, <2>2, <3>1, <3>2, Zenon
  <2>4. e.given = e.path \ {c.idx} /\ c.idx \in e.path
    <3>1. c.idx # depth(c) /\ ~(c.idx < depth(c))
      BY <1>4, <1>7
    <3>2. c.idx \notin c.given
      BY <1>10, <3>1, Zenon
    <3> QED
      BY <1>3, <1>9, <3>1, <3>2
  <2>5. \A d \in 0..((c.idx + 1) - 1) : d <= c.idx
    BY <1>4
  <2>6. c.msg.kind = "delegation" => Below(c.msg.cut, n)
    <3> SUFFICES ASSUME c.msg.kind = "delegation" PROVE Below(c.msg.cut, n)
      OBVIOUS
    <3>1. IsSubDomain(c.msg.cut, c.q) /\ c.idx + c.missing = Len(c.msg.cut)
      BY <1>10
    <3>2. c.idx < Len(c.msg.cut)
      BY <1>1, <1>4, <3>1
    <3>3. Len(c.msg.cut) \in 0..Len(c.q) /\ Name(c.q, Len(c.msg.cut)) = c.msg.cut
      BY <1>4, <3>1, SubFacts, Zenon
    <3>4. Below(Name(c.q, Len(c.msg.cut)), n)
      BY <1>4, <1>6, <3>2, <3>3, BelowOnPath, Zenon
    <3> QED
      BY <3>3, <3>4, Zenon
  <2> HIDE DEF n
  <2>7. e.z.name = n
    BY <1>3
  <2>8. depth(e) = c.idx
    BY <1>8, <2>7 DEF depth
  <2>9. e.pc = "gap" /\ e.z.name \in DOMAIN zones' /\ ~e.astray
    BY <1>1, <1>2, <1>3, <2>2, <2>7, Zenon
  <2>10. QuietCall(e, DOMAIN zones')
    BY <1>3, <2>3, <2>4, <2>5, <2>6, <2>7, <2>8, <2>9, Zenon DEF QuietCall
  <2> QED
    BY <1>11, <2>2, <2>10, QuietKeep, ZenonT(30)
<1>12. CASE n \notin Cuts /\ UNCHANGED zones /\ Set(p, s)
  <2>1. ASSUME NEW d \in 0..((c.idx + 1) - 1), Name(c.q, d) \in Cuts PROVE d <= depth(c)
    <3>1. d # c.idx
      BY <1>12, <2>1, Zenon
    <3>2. d \in 0..(c.idx - 1)
      BY <1>4, <3>1
    <3> QED
      BY <1>9, <2>1, <3>2, Zenon
  <2>2. ClosedStore'
    BY <1>2, <1>12 DEF ClosedStore
  <2>3. depth(s) = depth(c)
    BY <1>3, Zenon DEF depth
  <2>4. QuietCall(s, DOMAIN zones')
    BY <1>1, <1>2, <1>3, <1>9, <1>12, <2>1, <2>3, Zenon DEF QuietCall
  <2> QED
    BY <1>12, <2>2, <2>4, QuietKeep, Zenon
<1> QED
  BY <1>1, <1>8, <1>11, <1>12, Zenon

(* The zone a referral leads to is added below the one it came from.         *)
LEMMA QuietCreate ==
  ASSUME \A r, s \in Requests : r = s, ResolverInv, FreshInv, faults = {}, QuietInv,
         NEW p \in Requests, processDelegation(p)
  PROVE  QuietInv'
<1> DEFINE c == call[p]
           n == c.msg.cut
<1>1. PICK k \in Pools :
        /\ c.pc = "create"
        /\ add(c.msg.cut, [parent |-> depth(c), pool |-> k])
        /\ Set(p, [c EXCEPT !.pc = "loop", !.msg = NoMsg,
                            !.z = [name |-> c.msg.cut, pool |-> k],
                            !.path = @ \cup AboveName(c, c.msg.cut), !.idx = @ + 1])
  BY Zenon DEF processDelegation
<1>2. /\ c \in Calls /\ BoundInv(c) /\ ~c.astray /\ OnWayInv(c) /\ ClosedStore
      /\ QuietCall(c, DOMAIN zones)
      /\ depth(c) \in 0..Len(c.q) /\ Name(c.q, depth(c)) = c.z.name
  <2>1. c.pc # "over"
    BY <1>1
  <2> QED
    BY <2>1, QuietBefore, Zenon
<1> DEFINE e == [c EXCEPT !.pc = "loop", !.msg = NoMsg,
                          !.z = [name |-> n, pool |-> k],
                          !.path = @ \cup AboveName(c, n), !.idx = @ + 1]
<1> HIDE DEF AboveName
<1>3. /\ e.pc = "loop" /\ e.q = c.q /\ e.z = [name |-> n, pool |-> k]
      /\ e.path = c.path \cup AboveName(c, n) /\ e.given = c.given /\ e.astray = c.astray
      /\ Set(p, e) /\ add(n, [parent |-> depth(c), pool |-> k]) /\ c.pc = "create"
  BY <1>1, <1>2 DEF Calls
<1>4. /\ c.q \in Seq(STRING) /\ Len(c.q) \in Nat /\ c.idx \in Nat /\ depth(c) \in Nat
      /\ c.given \in SUBSET Nat /\ n \in Cuts /\ n \in Seq(STRING) /\ Len(n) \in Nat
  BY <1>2, CallFacts, Zenon
<1> HIDE DEF c, e
<1>5. /\ c.z.name \in DOMAIN zones
      /\ \A d \in (depth(c) + 1)..Len(c.q) : Name(c.q, d) \notin DOMAIN zones
      /\ \A d \in 0..(c.idx - 1) : Name(c.q, d) \in Cuts => d <= depth(c)
      /\ c.given = c.path
  BY <1>2, <1>3, Zenon DEF QuietCall
<1>6. /\ c.idx = Len(n) /\ IsSubDomain(n, c.q) /\ Below(n, c.z.name)
      /\ \A d \in c.given : d < Len(n)
  BY <1>2, <1>3, Zenon DEF OnWayInv, CreateInv, BoundInv
<1>7. /\ Len(n) \in 0..Len(c.q) /\ Name(c.q, Len(n)) = n /\ AboveName(c, n) = {Len(n)}
  BY <1>2, <1>4, <1>6, SubFacts, AboveFacts, Zenon
<1>8. depth(c) < Len(n)
  BY <1>4, <1>6, BelowFacts DEF depth
<1> HIDE DEF n
<1>9. Len(n) \in 1..Len(c.q) /\ depth(c) \in 0..(Len(n) - 1)
  BY <1>4, <1>7, <1>8
<1>10. ClosedStore' /\ DOMAIN zones' = DOMAIN zones \cup {n}
  <2>1. /\ Name(c.q, depth(c)) \in DOMAIN zones
        /\ \A i \in 0..(Len(n) - 1) : Name(c.q, i) \in Cuts => i <= depth(c)
        /\ add(Name(c.q, Len(n)), [parent |-> depth(c), pool |-> k])
    BY <1>2, <1>3, <1>5, <1>6, <1>7, Zenon
  <2>2. ClosedStore' /\ DOMAIN zones' = DOMAIN zones \cup {Name(c.q, Len(n))}
    BY <1>2, <1>4, <1>9, <2>1, ClosedAdd, Zenon
  <2> QED
    BY <1>7, <2>2, Zenon
<1>11. ASSUME NEW d \in (Len(n) + 1)..Len(c.q) PROVE Name(c.q, d) \notin DOMAIN zones'
  <2>1. d \in 0..Len(c.q) /\ d # Len(n) /\ d \in (depth(c) + 1)..Len(c.q)
    BY <1>4, <1>8
  <2>2. Len(Name(c.q, d)) = d
    BY <1>4, <2>1, NameFacts, Zenon
  <2> QED
    BY <1>5, <1>10, <2>1, <2>2, Zenon
<1>12. Len(n) \notin c.given
  BY <1>4, <1>6
<1>13. e.given = e.path \ {Len(n)} /\ Len(n) \in e.path /\ e.z.name = n
  BY <1>3, <1>5, <1>7, <1>12
<1>14. depth(e) = Len(n)
  BY <1>13 DEF depth
<1>15. QuietCall(e, DOMAIN zones')
  BY <1>2, <1>3, <1>10, <1>11, <1>13, <1>14, Zenon DEF QuietCall
<1> QED
  BY <1>3, <1>10, <1>15, QuietKeep

(* An exchange that shares the store with no other, while nothing goes       *)
(* wrong, ends with an answer or for want of queries, and has then given the *)
(* authenticator an input for every zone it went through, however many       *)
(* exchanges came before it and whatever cuts the servers skip               *)
(* (exchange and checkForMissingZones of resolver_exchange.go).              *)
THEOREM QuietAlone ==
  ASSUME \A r, s \in Requests : r = s
  PROVE  Spec => []QuietAnswers
<1>1. Init => QuietInv
  <2> SUFFICES ASSUME Init PROVE ClosedStore /\ \A p \in Requests : QuietCall(call[p], DOMAIN zones)
    BY DEF QuietInv
  <2>1. ASSUME NEW p \in Requests PROVE call[p].pc = "idle" /\ call[p].astray = FALSE
    BY DEF Init, NewCall
  <2> QED
    BY <2>1, Zenon DEF Init, ClosedStore, QuietCall
<1>2. /\ ResolverInv /\ ("expiry" \notin faults => FreshInv) /\ QuietInv /\ [Next]_vars
      => QuietInv'
  <2> SUFFICES ASSUME ResolverInv, "expiry" \notin faults => FreshInv, QuietInv, [Next]_vars,
                      faults' = {}
               PROVE  QuietInv'
    BY DEF QuietInv
  <2>1. faults = {} /\ FreshInv
    BY DEF Next, vars
  <2>2. CASE UNCHANGED vars
    BY <2>1, <2>2 DEF vars, QuietInv, ClosedStore
  <2>3. ~poolExpires /\ ~poolRenewed /\ \A p \in Requests : ~nestedExchange(p)
    BY <2>1 DEF poolExpires, poolRenewed, nestedExchange
  <2> QED
    BY <2>1, <2>2, <2>3, QuietBegins, QuietList, QuietWind, QuietLoop, QuietAsk, QuietResponse,
       QuietGap, QuietCreate
    DEF Next, Step
<1>3. QuietInv => QuietAnswers
  BY DEF QuietInv, QuietCall, QuietAnswers
<1> QED
  BY <1>1, <1>2, <1>3, ResolverInvariant, FreshCorrect, PTL DEF Spec

-----------------------------------------------------------------------------
(* Every exchange runs out of steps.                                         *)

(* How many steps of its own an exchange has before it at most: a turn of    *)
(* the loop takes four and moves the cursor.                                 *)
Rank(c) ==
  CASE c.pc = "list"   -> 5 * Len(c.q) + 14 - c.at
    [] c.pc = "wind"   -> 4 * Len(c.q) + 13
    [] c.pc = "loop"   -> 4 * (Len(c.q) - c.idx) + 12
    [] c.pc = "ask"    -> 4 * (Len(c.q) - c.idx) + 11
    [] c.pc = "gap"    -> 4 * (Len(c.q) - c.idx) + 10
    [] c.pc = "create" -> 4 * (Len(c.q) - c.idx) + 9
    [] OTHER           -> 0

(* The exchange of a name of n labels never has more than 5n + 14 steps      *)
(* before it, each step it takes itself leaves it fewer, and no step of      *)
(* another exchange, expiry, renewal, nested query or misleading referral    *)
(* gives it more: the loop of exchange and the loops of getZoneList and      *)
(* checkForMissingZones end whatever MaxQueriesPerRequest is                 *)
(* (resolver_exchange.go).                                                   *)
StepsRunOut ==
  \A p \in Requests :
    LET c == call[p]
    IN  c.pc \notin {"idle", "over"} =>
          /\ Rank(c) \in 1..(5 * Len(c.q) + 14)
          /\ Rank(call'[p]) <= Rank(c)
          /\ Step(p) => Rank(call'[p]) < Rank(c)

(* The cases of Rank.                                                        *)
LEMMA RankIs ==
  ASSUME NEW c
  PROVE  /\ c.pc = "list"   => Rank(c) = 5 * Len(c.q) + 14 - c.at
         /\ c.pc = "wind"   => Rank(c) = 4 * Len(c.q) + 13
         /\ c.pc = "loop"   => Rank(c) = 4 * (Len(c.q) - c.idx) + 12
         /\ c.pc = "ask"    => Rank(c) = 4 * (Len(c.q) - c.idx) + 11
         /\ c.pc = "gap"    => Rank(c) = 4 * (Len(c.q) - c.idx) + 10
         /\ c.pc = "create" => Rank(c) = 4 * (Len(c.q) - c.idx) + 9
         /\ c.pc \in {"idle", "over"} => Rank(c) = 0
BY DEF Rank

(* The arithmetic of Rank: n labels, the cursor at i.                        *)
LEMMA RankArithmetic ==
  ASSUME NEW n \in Nat, NEW i \in Nat
  PROVE  /\ 4 * (n - (i + 1)) + 12 < 4 * (n - i) + 9
         /\ 4 * (n - (i + 1)) + 12 < 4 * (n - i) + 12
         /\ 4 * (n - (i + 1)) + 10 < 4 * (n - i) + 10
         /\ 4 * (n - i) + 12 < 4 * n + 13
         /\ i <= n => 5 * n + 14 - i \in 1..(5 * n + 14)
         /\ 4 * n + 13 \in 1..(5 * n + 14)
         /\ i <= n + 2 => 4 * (n - i) + 12 \in 1..(5 * n + 14)
         /\ i <= n + 1 => /\ 4 * (n - i) + 11 \in 1..(5 * n + 14)
                          /\ 4 * (n - i) + 10 \in 1..(5 * n + 14)
                          /\ 4 * (n - i) + 9 \in 1..(5 * n + 14)
OBVIOUS

(* The rank is positive until the exchange is over.                          *)
LEMMA RankBounds ==
  ASSUME NEW c \in Calls, CallInv(c)
  PROVE  IF c.pc \in {"idle", "over"} THEN Rank(c) = 0
                                      ELSE Rank(c) \in 1..(5 * Len(c.q) + 14)
<1>1. c.pc \in Points /\ c.at \in Nat /\ c.idx \in Nat /\ Len(c.q) \in Nat
  BY CallFacts, Zenon DEF Calls
<1>2. c.pc = "list" => c.at <= Len(c.q)
  <2> SUFFICES ASSUME c.pc = "list" PROVE c.at <= Len(c.q)
    OBVIOUS
  <2>1. ~c.astray
    BY DEF CallInv, BoundInv
  <2> QED
    BY <2>1, Zenon DEF CallInv, OnWayInv, ListInv
<1>3. /\ c.pc = "loop" => c.idx <= Len(c.q) + 2
      /\ c.pc \in {"ask", "gap", "create"} => c.idx <= Len(c.q) + 1
  BY Zenon DEF CallInv, BoundInv
<1>4. c.pc \in {"idle", "over", "list", "wind", "loop", "ask", "gap", "create"}
  BY <1>1, Zenon DEF Points
<1>5. CASE c.pc \in {"idle", "over"}
  BY <1>5, RankIs, Zenon
<1>6. CASE c.pc \in {"list", "wind", "loop"}
  <2>1. Rank(c) \in 1..(5 * Len(c.q) + 14)
    BY <1>1, <1>2, <1>3, <1>6, RankIs, RankArithmetic, Zenon
  <2> QED
    BY <1>6, <2>1
<1>7. CASE c.pc \in {"ask", "gap", "create"}
  <2>1. Rank(c) \in 1..(5 * Len(c.q) + 14)
    BY <1>1, <1>3, <1>7, RankIs, RankArithmetic, Zenon
  <2> QED
    BY <1>7, <2>1
<1> QED
  BY <1>4, <1>5, <1>6, <1>7, Zenon

(* One exchange takes a step to c, the others none.                          *)
LEMMA SetOne ==
  ASSUME ResolverInv, NEW p \in Requests, NEW c, Set(p, c)
  PROVE  call'[p] = c /\ \A r \in Requests \ {p} : call'[r] = call[r]
BY DEF ResolverInv, TypeOK, Set

(* An exchange that has returned is over.                                    *)
LEMMA RankReturn ==
  ASSUME ResolverInv, NEW p \in Requests, NEW c, NEW out, Return(p, c, out)
  PROVE  call'[p].pc = "over" /\ Rank(call'[p]) = 0
<1> DEFINE r == [NewCall(c.q) EXCEPT !.pc = "over", !.out = out, !.given = c.given,
                                     !.path = c.path, !.astray = c.astray]
<1>1. r.pc = "over" /\ Set(p, r)
  BY DEF NewCall, Return
<1> HIDE DEF r
<1>2. call'[p].pc = "over"
  BY <1>1, SetOne
<1> QED
  BY <1>2, RankIs

(* A step of an exchange goes on to a lower rank, or ends it.                *)
LEMMA RankList ==
  ASSUME ResolverInv, NEW p \in Requests, getZoneList(p)
  PROVE  Rank(call'[p]) < Rank(call[p])
<1> DEFINE me == call[p]
           new == call'[p]
           n  == Name(me.q, me.at)
           pc == IF me.at = Len(me.q) THEN "wind" ELSE "list"
           a  == [me EXCEPT !.pc = pc, !.at = @ + 1]
           b  == [me EXCEPT !.pc = pc, !.at = @ + 1, !.known = @ \cup {me.at},
                            !.z = [name |-> n, pool |-> zones[n].pool]]
           c  == [me EXCEPT !.pc = "wind"]
<1>1. /\ me \in Calls /\ BoundInv(me) /\ (~me.astray => OnWayInv(me))
  BY Before, Zenon
<1>2. me.pc = "list" /\ (Set(p, a) \/ Set(p, b) \/ Set(p, c))
  BY DEF getZoneList
<1>3. /\ a.q = me.q /\ a.pc = pc /\ a.at = me.at + 1
      /\ b.q = me.q /\ b.pc = pc /\ b.at = me.at + 1
      /\ c.q = me.q /\ c.pc = "wind"
      /\ pc \in {"wind", "list"} /\ (pc = "list" => me.at # Len(me.q))
  BY <1>1 DEF Calls
<1> HIDE DEF a, b, c, pc, n
<1>4. new \in {a, b, c}
  BY <1>2, SetOne
<1>5. new.q = me.q /\ (new.pc = "wind" \/ (new.pc = "list" /\ new.at = me.at + 1))
  BY <1>3, <1>4, Zenon
<1>6. /\ Len(me.q) \in Nat /\ me.at \in Nat /\ me.at <= Len(me.q)
  <2>1. ~me.astray
    BY <1>1, <1>2 DEF BoundInv
  <2> QED
    BY <1>1, <1>2, <2>1, CallFacts, Zenon DEF OnWayInv, ListInv
<1>7. Rank(me) = 5 * Len(me.q) + 14 - me.at
  BY <1>2, RankIs
<1>8. new.pc = "wind" => Rank(new) = 4 * Len(me.q) + 13
  BY <1>5, RankIs
<1>9. new.pc = "list" => Rank(new) = 5 * Len(me.q) + 14 - (me.at + 1)
  BY <1>5, RankIs
<1> HIDE DEF me, new
<1>10. Rank(new) < Rank(me)
  BY <1>5, <1>6, <1>7, <1>8, <1>9
<1> QED
  BY <1>10, Zenon DEF me, new

(* The loop starts with the cursor at a zone above the name.                 *)
LEMMA RankWind ==
  ASSUME ResolverInv, NEW p \in Requests, addDelegationSignerLinks(p)
  PROVE  Rank(call'[p]) < Rank(call[p])
<1> DEFINE me == call[p]
           new == call'[p]
           c == [me EXCEPT !.pc = "loop", !.at = 0, !.idx = windTo(me),
                           !.given = me.known \ {depth(me)}, !.path = me.known]
<1>1. /\ me \in Calls /\ BoundInv(me) /\ (~me.astray => OnWayInv(me))
  BY Before, Zenon
<1>2. Set(p, c) /\ me.pc = "wind"
  BY Zenon DEF addDelegationSignerLinks
<1>3. c.q = me.q /\ c.pc = "loop" /\ c.idx = windTo(me)
  BY <1>1, Zenon DEF Calls
<1> HIDE DEF c
<1>4. new = c
  BY <1>2, SetOne
<1> HIDE DEF me, new
<1>5. windTo(me) = depth(me)
  <2>1. ~me.astray
    BY <1>1, <1>2 DEF BoundInv
  <2> QED
    BY <1>1, <2>1, WindsTo, Zenon DEF OnWayInv
<1>6. Len(me.q) \in Nat /\ depth(me) \in Nat
  BY <1>1, CallFacts, Zenon
<1>7. Rank(me) = 4 * Len(me.q) + 13 /\ Rank(c) = 4 * (Len(me.q) - depth(me)) + 12
  BY <1>2, <1>3, <1>5, RankIs, Zenon
<1>8. Rank(new) < Rank(me)
  BY <1>4, <1>6, <1>7, RankArithmetic, Zenon
<1> QED
  BY <1>8, Zenon DEF me, new

(* The head of the loop moves the cursor, or asks.                           *)
LEMMA RankLoop ==
  ASSUME ResolverInv, NEW p \in Requests, exchange(p), Rank(call[p]) > 0
  PROVE  Rank(call'[p]) < Rank(call[p])
<1> DEFINE me  == call[p]
           new == call'[p]
           c   == [me EXCEPT !.counter = @ + 1]
           n   == Name(c.q, current(c))
           e   == [c EXCEPT !.z = [name |-> n, pool |-> zones[n].pool],
                            !.path = @ \cup {current(c)}, !.idx = @ + 1]
           a   == [c EXCEPT !.pc = "ask"]
<1>1. /\ me \in Calls /\ Len(me.q) \in Nat /\ me.idx \in Nat
  BY Before, CallFacts, Zenon
<1>2. /\ c.pc = me.pc /\ c.q = me.q /\ c.idx = me.idx
      /\ e.pc = me.pc /\ e.q = me.q /\ e.idx = me.idx + 1
      /\ a.pc = "ask" /\ a.q = me.q /\ a.idx = me.idx
  BY <1>1 DEF Calls
<1>3. /\ me.pc = "loop"
      /\ \/ \E out : Return(p, c, out)
         \/ Set(p, e)
         \/ Set(p, a)
  BY <1>2, Zenon DEF exchange
<1> HIDE DEF c, e, a
<1>4. CASE \E out : Return(p, c, out)
  <2>1. Rank(new) = 0
    BY <1>4, RankReturn, Zenon
  <2> QED
    BY <2>1
<1>5. CASE Set(p, e)
  <2>1. new = e
    BY <1>5, SetOne
  <2>2. /\ Rank(me) = 4 * (Len(me.q) - me.idx) + 12
        /\ Rank(e) = 4 * (Len(me.q) - (me.idx + 1)) + 12
    BY <1>2, <1>3, RankIs
  <2> QED
    BY <1>1, <2>1, <2>2, RankArithmetic, Zenon
<1>6. CASE Set(p, a)
  <2>1. new = a
    BY <1>6, SetOne
  <2>2. /\ Rank(me) = 4 * (Len(me.q) - me.idx) + 12
        /\ Rank(a) = 4 * (Len(me.q) - me.idx) + 11
    BY <1>2, <1>3, RankIs
  <2> QED
    BY <1>1, <1>2, <2>1, <2>2
<1> QED
  BY <1>3, <1>4, <1>5, <1>6

(* So do a response and what is done with it.                                *)
LEMMA RankAsk ==
  ASSUME ResolverInv, NEW p \in Requests, resolveLabel(p), Rank(call[p]) > 0
  PROVE  Rank(call'[p]) < Rank(call[p])
<1> DEFINE me  == call[p]
           new == call'[p]
<1>1. /\ me \in Calls /\ Len(me.q) \in Nat /\ me.idx \in Nat
  BY Before, CallFacts, Zenon
<1>2. me.pc = "ask"
  BY Zenon DEF resolveLabel
<1>3. CASE Return(p, me, "error")
  <2>1. Rank(new) = 0
    BY <1>3, RankReturn, Zenon
  <2> QED
    BY <2>1
<1>4. ASSUME NEW m, NEW x, NEW y,
             Set(p, [me EXCEPT !.pc = "gap", !.msg = m, !.missing = x, !.astray = y])
      PROVE  Rank(new) < Rank(me)
  <2> DEFINE h == [me EXCEPT !.pc = "gap", !.msg = m, !.missing = x, !.astray = y]
  <2>1. h.pc = "gap" /\ h.q = me.q /\ h.idx = me.idx
    BY <1>1 DEF Calls
  <2>2. Set(p, h)
    BY <1>4
  <2> HIDE DEF h
  <2>3. new = h
    BY <2>2, SetOne
  <2>4. /\ Rank(me) = 4 * (Len(me.q) - me.idx) + 11
        /\ Rank(h) = 4 * (Len(me.q) - me.idx) + 10
    BY <1>2, <2>1, RankIs
  <2> QED
    BY <1>1, <2>3, <2>4
<1> QED
  BY <1>3, <1>4, Zenon DEF resolveLabel

(* The response is handed over.                                              *)
LEMMA RankResponse ==
  ASSUME ResolverInv, NEW p \in Requests, addResponse(p), Rank(call[p]) > 0
  PROVE  Rank(call'[p]) < Rank(call[p])
<1> DEFINE me  == call[p]
           new == call'[p]
           g   == [me EXCEPT !.given = @ \cup AboveName(me, me.z.name)]
           e   == [g EXCEPT !.pc = "create"]
<1>1. /\ me \in Calls /\ Len(me.q) \in Nat /\ me.idx \in Nat
  BY Before, CallFacts, Zenon
<1>2. g.pc = me.pc /\ e.pc = "create" /\ e.q = me.q /\ e.idx = me.idx
  BY <1>1, Zenon DEF Calls
<1>3. me.pc = "gap" /\ ((\E out : Return(p, g, out)) \/ Set(p, e))
  BY <1>2, Zenon DEF addResponse
<1> HIDE DEF g, e
<1>4. CASE \E out : Return(p, g, out)
  <2>1. Rank(new) = 0
    BY <1>4, RankReturn, Zenon
  <2> QED
    BY <2>1
<1>5. CASE Set(p, e)
  <2>1. new = e
    BY <1>5, SetOne
  <2>2. /\ Rank(me) = 4 * (Len(me.q) - me.idx) + 10
        /\ Rank(e) = 4 * (Len(me.q) - me.idx) + 9
    BY <1>2, <1>3, RankIs
  <2> QED
    BY <1>1, <2>1, <2>2
<1> QED
  BY <1>3, <1>4, <1>5, Zenon

(* Each name that is looked at moves the cursor.                             *)
LEMMA RankGap ==
  ASSUME ResolverInv, NEW p \in Requests, checkForMissingZones(p), Rank(call[p]) > 0
  PROVE  Rank(call'[p]) < Rank(call[p])
<1> DEFINE c   == call[p]
           new == call'[p]
           n   == Name(c.q, c.idx)
           e   == [c EXCEPT !.given = @ \cup {depth(c)},
                            !.z = [name |-> n, pool |-> c.z.pool],
                            !.path = @ \cup {c.idx}, !.idx = @ + 1, !.missing = @ - 1]
           s   == [c EXCEPT !.idx = @ + 1, !.missing = @ - 1]
<1>1. /\ c \in Calls /\ Len(c.q) \in Nat /\ c.idx \in Nat
  BY Before, CallFacts, Zenon
<1>2. /\ e.pc = c.pc /\ e.q = c.q /\ e.idx = c.idx + 1
      /\ s.pc = c.pc /\ s.q = c.q /\ s.idx = c.idx + 1
  BY <1>1 DEF Calls
<1>3. /\ c.pc = "gap"
      /\ Set(p, e) \/ Set(p, s) \/ Return(p, c, "panic")
  BY Zenon DEF checkForMissingZones
<1> HIDE DEF e, s
<1>4. CASE Return(p, c, "panic")
  <2>1. Rank(new) = 0
    BY <1>4, RankReturn, Zenon
  <2> QED
    BY <2>1
<1>5. CASE Set(p, e) \/ Set(p, s)
  <2>1. new \in {e, s}
    BY <1>5, SetOne
  <2>2. new.pc = "gap" /\ new.q = c.q /\ new.idx = c.idx + 1
    BY <1>2, <1>3, <2>1, Zenon
  <2>3. /\ Rank(c) = 4 * (Len(c.q) - c.idx) + 10
        /\ Rank(new) = 4 * (Len(c.q) - (c.idx + 1)) + 10
    BY <1>3, <2>2, RankIs
  <2> QED
    BY <1>1, <2>3, RankArithmetic, Zenon
<1> QED
  BY <1>3, <1>4, <1>5

(* A new zone is asked with the cursor one label further.                    *)
LEMMA RankCreate ==
  ASSUME ResolverInv, NEW p \in Requests, processDelegation(p), Rank(call[p]) > 0
  PROVE  Rank(call'[p]) < Rank(call[p])
<1> DEFINE c   == call[p]
           new == call'[p]
<1>1. /\ c \in Calls /\ Len(c.q) \in Nat /\ c.idx \in Nat
  BY Before, CallFacts, Zenon
<1>2. c.pc = "create"
  BY Zenon DEF processDelegation
<1>3. CASE Return(p, c, "noPool")
  <2>1. Rank(new) = 0
    BY <1>3, RankReturn, Zenon
  <2> QED
    BY <2>1
<1>4. ASSUME NEW z, NEW path,
             Set(p, [c EXCEPT !.pc = "loop", !.msg = NoMsg, !.z = z,
                              !.path = @ \cup path, !.idx = @ + 1])
      PROVE  Rank(new) < Rank(c)
  <2> DEFINE e == [c EXCEPT !.pc = "loop", !.msg = NoMsg, !.z = z,
                            !.path = @ \cup path, !.idx = @ + 1]
  <2>1. e.pc = "loop" /\ e.q = c.q /\ e.idx = c.idx + 1
    BY <1>1 DEF Calls
  <2>2. Set(p, e)
    BY <1>4
  <2> HIDE DEF e
  <2>3. new = e
    BY <2>2, SetOne
  <2>4. /\ Rank(c) = 4 * (Len(c.q) - c.idx) + 9
        /\ Rank(e) = 4 * (Len(c.q) - (c.idx + 1)) + 12
    BY <1>2, <2>1, RankIs
  <2> QED
    BY <1>1, <2>3, <2>4, RankArithmetic, Zenon
<1> QED
  BY <1>3, <1>4, ZenonT(30) DEF processDelegation

(* A nested query changes the counter only.                                  *)
LEMMA RankNested ==
  ASSUME ResolverInv, NEW p \in Requests, nestedExchange(p)
  PROVE  Rank(call'[p]) = Rank(call[p])
<1> DEFINE me == call[p]
           c  == [me EXCEPT !.counter = @ + 1]
<1>1. me \in Calls
  BY Before
<1>2. c.pc = me.pc /\ c.q = me.q /\ c.at = me.at /\ c.idx = me.idx /\ Set(p, c)
  BY <1>1 DEF Calls, nestedExchange
<1> HIDE DEF c
<1>3. call'[p] = c
  BY <1>2, SetOne
<1> QED
  BY <1>2, <1>3, Zenon DEF Rank

(* A step of one exchange is no step of another.                             *)
LEMMA OthersWait ==
  ASSUME ResolverInv, NEW r \in Requests, Exchange(r) \/ Step(r) \/ nestedExchange(r),
         NEW p \in Requests, p # r
  PROVE  call'[p] = call[p]
<1>1. ASSUME NEW c, Set(r, c) PROVE call'[p] = call[p]
  BY <1>1, SetOne
<1>2. ASSUME NEW c, NEW out, Return(r, c, out) PROVE call'[p] = call[p]
  BY <1>1, <1>2, Zenon DEF Return
<1>3. CASE Exchange(r)
  BY <1>1, <1>2, <1>3, Zenon DEF Exchange
<1>4. CASE getZoneList(r) \/ addDelegationSignerLinks(r)
  BY <1>1, <1>4, Zenon DEF getZoneList, addDelegationSignerLinks
<1>5. CASE exchange(r)
  BY <1>1, <1>2, <1>5, Zenon DEF exchange
<1>6. CASE resolveLabel(r)
  BY <1>1, <1>2, <1>6, Zenon DEF resolveLabel
<1>7. CASE checkForMissingZones(r)
  BY <1>1, <1>2, <1>7, Zenon DEF checkForMissingZones
<1>8. CASE addResponse(r)
  BY <1>1, <1>2, <1>8, Zenon DEF addResponse
<1>9. CASE processDelegation(r)
  BY <1>1, <1>2, <1>9, Zenon DEF processDelegation
<1>10. CASE nestedExchange(r)
  BY <1>1, <1>10, Zenon DEF nestedExchange
<1> QED
  BY <1>3, <1>4, <1>5, <1>6, <1>7, <1>8, <1>9, <1>10, Zenon DEF Step

(* Only an exchange that is under way takes a step of its own.               *)
LEMMA UnderWay ==
  ASSUME ResolverInv, NEW p \in Requests, Step(p)
  PROVE  call[p].pc \notin {"idle", "over"}
<1>1. call[p] \in Calls
  BY Before
<1>2. call[p].pc \in {"list", "wind", "loop", "ask", "gap", "create"}
  <2>1. CASE getZoneList(p) \/ addDelegationSignerLinks(p) \/ resolveLabel(p)
             \/ checkForMissingZones(p) \/ processDelegation(p)
    BY <2>1, Zenon DEF getZoneList, addDelegationSignerLinks, resolveLabel,
                       checkForMissingZones, processDelegation
  <2>2. CASE exchange(p)
    <3>1. [call[p] EXCEPT !.counter = @ + 1].pc = call[p].pc
      BY <1>1 DEF Calls
    <3> QED
      BY <2>2, <3>1, Zenon DEF exchange
  <2>3. CASE addResponse(p)
    <3>1. [call[p] EXCEPT !.given = @ \cup AboveName(call[p], call[p].z.name)].pc = call[p].pc
      BY <1>1, Zenon DEF Calls
    <3> QED
      BY <2>3, <3>1, Zenon DEF addResponse
  <2> QED
    BY <2>1, <2>2, <2>3, Zenon DEF Step
<1> QED
  BY <1>2

(* The rank of an exchange falls with its own steps and never rises.         *)
LEMMA RankStep ==
  ASSUME ResolverInv, [Next]_vars
  PROVE  StepsRunOut
<1>1. ASSUME NEW p \in Requests
      PROVE  /\ call[p].pc \notin {"idle", "over"} =>
                  Rank(call[p]) \in 1..(5 * Len(call[p].q) + 14)
             /\ call[p].pc \notin {"idle", "over"} => Rank(call[p]) > 0
             /\ Rank(call[p]) \in Int
  <2>1. call[p] \in Calls /\ CallInv(call[p]) /\ Len(call[p].q) \in Nat
    BY CallFacts, Zenon DEF ResolverInv, TypeOK
  <2>2. IF call[p].pc \in {"idle", "over"}
        THEN Rank(call[p]) = 0 ELSE Rank(call[p]) \in 1..(5 * Len(call[p].q) + 14)
    BY <2>1, RankBounds, Zenon
  <2> QED
    BY <2>1, <2>2
<1>2. ASSUME NEW p \in Requests PROVE Rank(call'[p]) \in Int
  <2>1. ResolverInv'
    BY ResolverStep, Zenon
  <2>2. call'[p] \in Calls /\ CallInv(call'[p])
    BY <2>1, Zenon DEF ResolverInv, TypeOK
  <2>3. Len(call'[p].q) \in Nat
    BY <2>2, CallFacts, Zenon
  <2>4. IF call'[p].pc \in {"idle", "over"}
        THEN Rank(call'[p]) = 0 ELSE Rank(call'[p]) \in 1..(5 * Len(call'[p].q) + 14)
    BY <2>2, RankBounds, Zenon
  <2> QED
    BY <2>3, <2>4
<1>3. ASSUME NEW p \in Requests, Step(p) PROVE Rank(call'[p]) < Rank(call[p])
  <2>1. Rank(call[p]) > 0
    BY <1>1, <1>3, UnderWay, Zenon
  <2> QED
    BY <1>3, <2>1, RankList, RankWind, RankLoop, RankAsk, RankResponse, RankGap, RankCreate, Zenon
    DEF Step
<1>4. ASSUME NEW p \in Requests, ~Step(p), call[p].pc \notin {"idle", "over"}
      PROVE  Rank(call'[p]) = Rank(call[p])
  <2>1. ~Exchange(p)
    BY <1>4, Zenon DEF Exchange
  <2>2. CASE \E r \in Requests : Exchange(r) \/ Step(r) \/ nestedExchange(r)
    BY <1>4, <2>1, <2>2, RankNested, OthersWait, Zenon
  <2>3. CASE poolExpires \/ poolRenewed \/ UNCHANGED vars
    <3>1. UNCHANGED call
      BY <2>3, Zenon DEF poolExpires, poolRenewed, vars
    <3> QED
      BY <3>1, Zenon
  <2> QED
    BY <2>2, <2>3, Zenon DEF Next
<1>5. ASSUME NEW p \in Requests, call[p].pc \notin {"idle", "over"}
      PROVE  /\ Rank(call[p]) \in 1..(5 * Len(call[p].q) + 14)
             /\ Rank(call'[p]) <= Rank(call[p])
             /\ Step(p) => Rank(call'[p]) < Rank(call[p])
  <2>1. CASE Step(p)
    BY <1>1, <1>2, <1>3, <1>5, <2>1
  <2>2. CASE ~Step(p)
    BY <1>1, <1>4, <1>5, <2>2
  <2> QED
    BY <2>1, <2>2
<1> QED
  BY <1>5, Zenon DEF StepsRunOut

(* The loops of resolver_exchange.go end for every name, every tree and      *)
(* every interleaving, also when a referral misleads them: an exchange takes *)
(* at most 5n + 14 steps of its own for a name of n labels.                  *)
THEOREM ExchangeRunsOut == Spec => [][StepsRunOut]_vars
<1>1. ResolverInv /\ [Next]_vars => StepsRunOut
  BY RankStep
<1> QED
  BY <1>1, ResolverInvariant, PTL DEF Spec
=============================================================================
