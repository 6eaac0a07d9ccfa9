------------------------------ MODULE Resolver ------------------------------
(***************************************************************************)
(* The exchange loop (resolver_exchange.go), the cursor over the labels of *)
(* the name it resolves (domain.go) and the store of zones all exchanges   *)
(* share (zones.go).                                                       *)
(*                                                                         *)
(* A name is the sequence of its labels, the root's first, so an ancestor  *)
(* is a prefix.  The ancestors of the name q of an exchange, and q itself, *)
(* are identified by their label count, their depth.                       *)
(*                                                                         *)
(* The servers are external: they describe one tree of zones, Cuts, but    *)
(* one server may host several zones of it, so that it answers, or refers, *)
(* past the cuts in between.  What else may happen is in faults: "owner",  *)
(* a referral comes with records of other owners that mislead the choice   *)
(* of nextRecordsOwner, say NSEC3 records ahead of the NS records; "stray",*)
(* a referral leads to a zone that q is not in.                            *)
(*                                                                         *)
(* Time is left out: a pool runs out, or is renewed by a late enrichment,  *)
(* at any moment.  The clones of a zone share its pool.                    *)
(***************************************************************************)
EXTENDS Integers, Sequences

CONSTANTS
  Requests,               \* goroutines that call Exchange
  QNames,                 \* the names they ask for
  Cuts,                   \* the names that are the apex of a zone
  OwnerLists,             \* the owners of the records of a response, in order
  Pools,                  \* identities of nameserver pools
  RootPool,               \* the one built from the root hints, never expires
  MaxQueriesPerRequest,   \* of config.go
  FaultSets               \* what may happen besides: sets of AllFaults

AllFaults == {"expiry", "soa", "server", "lame", "create", "nested",
              "owner", "stray"}

Name(q, d) == SubSeq(q, 1, d)

(* dns.IsSubDomain, and its strict form. *)
IsSubDomain(parent, n) == \E d \in 0..Len(n) : Name(n, d) = parent

Below(n, parent) == n # parent /\ IsSubDomain(parent, n)

ASSUME ResolverAssumption ==
  /\ \A q \in QNames : q \in Seq(STRING)
  /\ Cuts \subseteq Seq(STRING) /\ <<>> \in Cuts
  /\ OwnerLists \subseteq Seq(Seq(STRING))
  /\ RootPool \in Pools
  /\ MaxQueriesPerRequest \in Nat
  /\ FaultSets \subseteq SUBSET AllFaults

VARIABLES
  zones,   \* zones.zones: from name to [parent, pool]
  fresh,   \* the pools that have not expired
  call,    \* the local state of each exchange
  faults   \* what may go wrong, chosen once

vars == <<zones, fresh, call, faults>>

NoMsg == [kind |-> "none", cut |-> <<>>]

(* at: the depth getZoneList looks at.  known: the depths in its list.      *)
(* z: the zone the loop asks next.  missing: how many names that gap has    *)
(* returned are left.  given: the zones the authenticator has, or will get, *)
(* an input for.  Two are history: path, the zones above q the exchange     *)
(* went through; astray, whether a referral has misled it.                  *)
NewCall(q) ==
  [pc |-> "list", q |-> q, at |-> 0, known |-> {},
   z |-> [name |-> <<>>, pool |-> RootPool],
   idx |-> 0, counter |-> 0, msg |-> NoMsg, missing |-> 0, given |-> {},
   path |-> {}, astray |-> FALSE, out |-> "none"]

depth(c) == Len(c.z.name)

(* NewResolver: the store holds the root, whose pool never expires. *)
Init ==
  /\ zones = [n \in {<<>>} |-> [parent |-> 0, pool |-> RootPool]]
  /\ fresh = {RootPool}
  /\ call = [p \in Requests |-> [NewCall(<<>>) EXCEPT !.pc = "idle"]]
  /\ faults \in FaultSets

-----------------------------------------------------------------------------
(* The store *)

usable(n) == n \in DOMAIN zones /\ zones[n].pool \in fresh

add(n, zone) ==
  zones' = [m \in DOMAIN zones \cup {n} |-> IF m = n THEN zone ELSE zones[m]]

InUse ==
  {zones[n].pool : n \in DOMAIN zones} \cup {call[p].z.pool : p \in Requests}

-----------------------------------------------------------------------------
(* The cursor *)

current(c) == IF c.idx <= Len(c.q) THEN c.idx ELSE Len(c.q)

(* Seeded bug: the last name is returned once. *)
moreOnce(c) == c.idx <= Len(c.q)

more(c) == c.idx <= Len(c.q) + 1

last(c) == c.idx >= Len(c.q)

(* The cursor once it is at the zone the exchange starts from. *)
windTo(c) == CHOOSE d \in 0..Len(c.q) : Name(c.q, d) = c.z.name

(* How many names gap returns: they start at the cursor, which moves with    *)
(* them, and end above the target.                                           *)
gap(c, target) ==
  IF IsSubDomain(target, c.q) /\ current(c) < Len(target)
  THEN Len(target) - current(c)
  ELSE 0

-----------------------------------------------------------------------------
(* The servers (external) *)

Referrals(c) ==
  {n \in Cuts : IF Below(n, c.z.name) THEN IsSubDomain(n, c.q) \/ "stray" \in faults
                                      ELSE "lame" \in faults}

(* The first of the records with the most labels, of those in or below the   *)
(* zone.                                                                     *)
nextRecordsOwner(z, records) ==
  LET options == {i \in DOMAIN records : IsSubDomain(z.name, records[i])}
      deepest == {i \in options : \A j \in options : Len(records[j]) <= Len(records[i])}
  IN  IF options = {} THEN <<>>
      ELSE records[CHOOSE i \in deepest : \A j \in deepest : i <= j]

(* A referral misleads if it leads off the way to q, or if its records make  *)
(* gap return other names than those above the zone it leads to.             *)
Misleads(c, m) ==
  /\ m.kind = "delegation"
  /\ Below(m.cut, c.z.name)
  /\ \/ ~IsSubDomain(m.cut, c.q)
     \/ gap(c, nextRecordsOwner(c.z, m.records)) # gap(c, m.cut)

Messages(c) ==
  {[kind |-> "final", cut |-> <<>>, records |-> r] : r \in OwnerLists}
    \cup {m \in [kind : {"delegation"}, cut : Referrals(c), records : OwnerLists] :
            /\ \E i \in DOMAIN m.records : m.records[i] = m.cut
            /\ Misleads(c, m) /\ IsSubDomain(m.cut, c.q) => "owner" \in faults}

-----------------------------------------------------------------------------
(* The exchange *)

Set(p, c) == call' = [call EXCEPT ![p] = c]

(* What is left of a call that has returned is its outcome and its history.  *)
Return(p, c, out) ==
  Set(p, [NewCall(c.q) EXCEPT !.pc = "over", !.out = out, !.given = c.given,
                              !.path = c.path, !.astray = c.astray])

(* Exchange: one that does not ask for recursion is refused. *)
Exchange(p) ==
  /\ call[p].pc \in {"idle", "over"}
  /\ \E q \in QNames : \/ Set(p, NewCall(q))
                       \/ Return(p, NewCall(q), "notRecursionDesired")
  /\ UNCHANGED <<zones, fresh>>

(* One turn of the loop in getZoneList; the lock is taken for each name. *)
getZoneList(p) ==
  LET c    == call[p]
      n    == Name(c.q, c.at)
      fits == c.known = {} \/ zones[n].parent = depth(c)
      pc   == IF c.at = Len(c.q) THEN "wind" ELSE "list"
  IN  /\ c.pc = "list"
      /\ \/ /\ ~usable(n)
            /\ Set(p, [c EXCEPT !.pc = pc, !.at = @ + 1])
         \/ /\ usable(n) /\ fits
            /\ Set(p, [c EXCEPT !.pc = pc, !.at = @ + 1, !.known = @ \cup {c.at},
                                !.z = [name |-> n, pool |-> zones[n].pool]])
         \/ /\ usable(n) /\ ~fits
            /\ Set(p, [c EXCEPT !.pc = "wind"])
      /\ UNCHANGED <<zones, fresh>>

(* Seeded bug: the lowest known zone is asked for DS records too. *)
addDelegationSignerLinksAll(p) ==
  LET c == call[p]
  IN  /\ c.pc = "wind"
      /\ Set(p, [c EXCEPT !.pc = "loop", !.at = 0, !.idx = windTo(c),
                          !.given = c.known, !.path = c.known])
      /\ UNCHANGED <<zones, fresh>>

(* Every known zone but the lowest is asked for the DS records of the next.  *)
addDelegationSignerLinks(p) ==
  LET c == call[p]
  IN  /\ c.pc = "wind"
      /\ Set(p, [c EXCEPT !.pc = "loop", !.at = 0, !.idx = windTo(c),
                          !.given = c.known \ {depth(c)}, !.path = c.known])
      /\ UNCHANGED <<zones, fresh>>

(* Seeded bug: known zones are passed in a loop of its own that does not     *)
(* move the cursor.                                                          *)
exchangeSpins(p) ==
  LET c == call[p]
      n == Name(c.q, current(c))
  IN  /\ c.pc = "loop"
      /\ \/ /\ ~more(c) \/ c.counter >= MaxQueriesPerRequest
            /\ Return(p, c, IF more(c) THEN "maxQueries" ELSE "unableToResolve")
         \/ /\ usable(n) /\ ~last(c)
            /\ Set(p, [c EXCEPT !.z = [name |-> n, pool |-> zones[n].pool]])
         \/ /\ c.counter < MaxQueriesPerRequest
            /\ ~usable(n) \/ last(c)
            /\ Set(p, [c EXCEPT !.pc = "ask", !.counter = @ + 1])
      /\ UNCHANGED <<zones, fresh>>

(* The head of the loop: a zone of the store is taken over unasked. *)
exchange(p) ==
  LET c == [call[p] EXCEPT !.counter = @ + 1]
      n == Name(c.q, current(c))
  IN  /\ c.pc = "loop"
      /\ \/ /\ ~more(c) \/ c.counter > MaxQueriesPerRequest
            /\ Return(p, c, IF more(c) THEN "maxQueries" ELSE "unableToResolve")
         \/ /\ more(c)
            /\ c.counter <= MaxQueriesPerRequest
            /\ usable(n) /\ ~last(c)
            /\ Set(p, [c EXCEPT !.z = [name |-> n, pool |-> zones[n].pool],
                                !.path = @ \cup {current(c)}, !.idx = @ + 1])
         \/ /\ more(c)
            /\ c.counter <= MaxQueriesPerRequest
            /\ ~usable(n) \/ last(c)
            /\ Set(p, [c EXCEPT !.pc = "ask"])
      /\ UNCHANGED <<zones, fresh>>

(* The query to the zone.  The names of zones that may be missing are listed *)
(* once, before the first of them is looked at.                              *)
resolveLabel(p) ==
  LET c == call[p]
  IN  /\ c.pc = "ask"
      /\ \/ /\ "server" \in faults
            /\ Return(p, c, "error")
         \/ \E m \in Messages(c) :
              Set(p, [c EXCEPT !.pc = "gap", !.msg = [kind |-> m.kind, cut |-> m.cut],
                               !.missing = gap(c, nextRecordsOwner(c.z, m.records)),
                               !.astray = @ \/ Misleads(c, m)])
      /\ UNCHANGED <<zones, fresh>>

(* Seeded bug: a name without a SOA record is not stepped over. *)
checkForMissingZonesStays(p) ==
  LET c == call[p]
  IN  /\ c.pc = "gap" /\ c.missing > 0
      /\ Name(c.q, c.idx) \notin Cuts \/ "soa" \in faults
      /\ Set(p, [c EXCEPT !.missing = @ - 1])
      /\ UNCHANGED <<zones, fresh>>

(* Seeded bug: no DS records are asked for when a zone was missing. *)
checkForMissingZonesNoLink(p) ==
  LET c == call[p]
      n == Name(c.q, c.idx)
  IN  /\ c.pc = "gap" /\ c.missing > 0
      /\ \/ /\ n \in Cuts
            /\ Below(n, c.z.name)
            /\ add(n, [parent |-> depth(c), pool |-> c.z.pool])
            /\ Set(p, [c EXCEPT !.z = [name |-> n, pool |-> c.z.pool], !.path = @ \cup {c.idx},
                                !.idx = @ + 1, !.missing = @ - 1])
         \/ /\ n \notin Cuts
            /\ Set(p, [c EXCEPT !.idx = @ + 1, !.missing = @ - 1])
            /\ UNCHANGED zones
      /\ UNCHANGED fresh

(* Seeded bug: the names that are looked at start one label too early. *)
checkForMissingZonesEarly(p) ==
  LET c == call[p]
      n == Name(c.q, c.idx - 1)
  IN  /\ c.pc = "gap" /\ c.missing > 0
      /\ \/ /\ n \in Cuts
            /\ ~Below(n, c.z.name)
            /\ Return(p, c, "panic")
         \/ /\ n \notin Cuts \/ "soa" \in faults
            /\ Set(p, [c EXCEPT !.idx = @ + 1, !.missing = @ - 1])
      /\ UNCHANGED <<zones, fresh>>

(* One turn of the loop in checkForMissingZones.  A name with a SOA record   *)
(* becomes a zone with the pool of the one above; clone insists that it is   *)
(* below.                                                                    *)
checkForMissingZones(p) ==
  LET c == call[p]
      n == Name(c.q, c.idx)
  IN  /\ c.pc = "gap" /\ c.missing > 0
      /\ \/ /\ n \in Cuts
            /\ Below(n, c.z.name)
            /\ add(n, [parent |-> depth(c), pool |-> c.z.pool])
            /\ Set(p, [c EXCEPT !.given = @ \cup {depth(c)},
                                !.z = [name |-> n, pool |-> c.z.pool], !.path = @ \cup {c.idx},
                                !.idx = @ + 1, !.missing = @ - 1])
         \/ /\ n \in Cuts
            /\ ~Below(n, c.z.name)
            /\ Return(p, c, "panic")
            /\ UNCHANGED zones
         \/ /\ n \notin Cuts \/ "soa" \in faults
            /\ Set(p, [c EXCEPT !.idx = @ + 1, !.missing = @ - 1])
            /\ UNCHANGED zones
      /\ UNCHANGED fresh

(* The depth of a zone above q.  The authenticator refuses any other.        *)
AboveName(c, n) == IF IsSubDomain(n, c.q) THEN {Len(n)} ELSE {}

(* The response goes to the authenticator as one of the zone found last.     *)
addResponse(p) ==
  LET c == [call[p] EXCEPT !.given = @ \cup AboveName(call[p], call[p].z.name)]
  IN  /\ c.pc = "gap" /\ c.missing = 0
      /\ \/ /\ c.msg.kind = "final"
            /\ Return(p, c, "answer")
         \/ /\ c.msg.kind = "delegation"
            /\ ~Below(c.msg.cut, c.z.name)
            /\ Return(p, c, "noNextNameservers")
         \/ /\ c.msg.kind = "delegation"
            /\ Below(c.msg.cut, c.z.name)
            /\ Set(p, [c EXCEPT !.pc = "create"])
      /\ UNCHANGED <<zones, fresh>>

(* The exchanges that look for a pool's addresses, in createZone or in the   *)
(* background, and the one this exchange may itself be nested in, use the    *)
(* same counter.                                                             *)
nestedExchange(p) ==
  /\ "nested" \in faults
  /\ call[p].pc \notin {"idle", "over"}
  /\ call[p].counter <= MaxQueriesPerRequest
  /\ Set(p, [call[p] EXCEPT !.counter = @ + 1])
  /\ UNCHANGED <<zones, fresh>>

(* Seeded bug: the new zone is recorded as its own parent. *)
processDelegationOwnParent(p) ==
  LET c == call[p]
  IN  /\ c.pc = "create"
      /\ \E k \in Pools \ InUse :
           /\ add(c.msg.cut, [parent |-> Len(c.msg.cut), pool |-> k])
           /\ fresh' = fresh \cup {k}
           /\ Set(p, [c EXCEPT !.pc = "loop", !.msg = NoMsg,
                               !.z = [name |-> c.msg.cut, pool |-> k],
                               !.path = @ \cup AboveName(c, c.msg.cut), !.idx = @ + 1])

processDelegation(p) ==
  LET c == call[p]
  IN  /\ c.pc = "create"
      /\ \/ /\ "create" \in faults
            /\ Return(p, c, "noPool")
            /\ UNCHANGED <<zones, fresh>>
         \/ \E k \in Pools \ InUse :
              /\ add(c.msg.cut, [parent |-> depth(c), pool |-> k])
              /\ fresh' = fresh \cup {k}
              /\ Set(p, [c EXCEPT !.pc = "loop", !.msg = NoMsg,
                                  !.z = [name |-> c.msg.cut, pool |-> k],
                                  !.path = @ \cup AboveName(c, c.msg.cut), !.idx = @ + 1])

-----------------------------------------------------------------------------
(* expired of pool.go becomes true; a late enrich sets expires anew. *)

poolExpires ==
  /\ "expiry" \in faults
  /\ \E k \in fresh \ {RootPool} : fresh' = fresh \ {k}
  /\ UNCHANGED <<zones, call>>

poolRenewed ==
  /\ "expiry" \in faults
  /\ \E k \in InUse \ fresh : fresh' = fresh \cup {k}
  /\ UNCHANGED <<zones, call>>

Step(p) ==
  \/ getZoneList(p) \/ addDelegationSignerLinks(p) \/ exchange(p) \/ resolveLabel(p)
  \/ checkForMissingZones(p) \/ addResponse(p) \/ processDelegation(p)

Next ==
  /\ \/ \E p \in Requests : Exchange(p) \/ Step(p) \/ nestedExchange(p)
     \/ poolExpires
     \/ poolRenewed
  /\ UNCHANGED faults

Spec == Init /\ [][Next]_vars

(* The goroutine of an exchange runs, and every query it waits for ends.     *)
FairSpec == Spec /\ \A p \in Requests : WF_vars(Step(p) /\ UNCHANGED faults)

-----------------------------------------------------------------------------
(* Properties *)

Points == {"idle", "list", "wind", "loop", "ask", "gap", "create", "over"}

Calls ==
  [pc : Points,
   q : QNames \cup {<<>>}, at : Nat, known : SUBSET Nat,
   z : [name : Cuts, pool : Pools], idx : Nat, counter : Nat,
   msg : [kind : {"none", "final", "delegation"}, cut : Cuts], missing : Nat,
   given : SUBSET Nat, path : SUBSET Nat, astray : BOOLEAN,
   out : {"none", "answer", "error", "panic", "unableToResolve", "maxQueries",
          "noNextNameservers", "noPool", "notRecursionDesired"}]

(* The store maps names to zones, and an exchange is in one of its states.   *)
TypeOK ==
  /\ DOMAIN zones \subseteq Cuts
  /\ \A n \in DOMAIN zones : zones[n] \in [parent : Nat, pool : Pools]
  /\ fresh \subseteq Pools
  /\ call \in [Requests -> Calls]

(* Whatever the exchanges did to the store in whatever order, every zone in  *)
(* it is a zone of the tree, its parent is a zone strictly above it, and the *)
(* root is there with the pool that never expires (zones.go, add).           *)
StoreSound ==
  /\ <<>> \in DOMAIN zones
  /\ zones[<<>>].pool = RootPool
  /\ RootPool \in fresh
  /\ \A n \in DOMAIN zones \ {<<>>} :
       /\ n \in Cuts
       /\ zones[n].parent < Len(n)
       /\ Name(n, zones[n].parent) \in Cuts

(* "The last element will always be the root" (resolver_exchange.go:80) and  *)
(* knownZones[0] is the most specific one: the list is never empty, although *)
(* zones expire and are replaced while getZoneList walks over the names.     *)
KnownFromRoot ==
  \A p \in Requests :
    LET c == call[p]
    IN  c.pc = "wind" => /\ 0 \in c.known
                         /\ depth(c) \in c.known
                         /\ \A d \in c.known : d <= depth(c)

(* As long as no referral misleads the exchange, the zone asked for the next *)
(* label is the one just above the cursor, or the one at the cursor: in the  *)
(* first turn, or when the last label is looked at twice (domain.go, more).  *)
(* Other exchanges may be misled meanwhile, and write to the same store.     *)
CursorFollowsZone ==
  \A p \in Requests :
    LET c == call[p]
    IN  c.pc \in {"loop", "ask"} /\ ~c.astray =>
          /\ IsSubDomain(c.z.name, c.q)
          /\ \/ c.idx = depth(c) + 1
             \/ c.idx = depth(c) /\ c.path = c.known

(* "We expect one response per zone": an exchange that no referral misleads  *)
(* never hands the authenticator a second input for a zone                   *)
(* (authenticator.go:60 refuses it), nor one of a zone that is not above its *)
(* name (authenticator.go:43 refuses it).                                    *)
OneInputPerZone ==
  \A p \in Requests :
    LET c == call[p]
    IN  c.pc \in {"ask", "gap"} /\ ~c.astray =>
          depth(c) \notin c.given /\ IsSubDomain(c.z.name, c.q)

(* The loop never runs out of labels without a response                      *)
(* (ErrUnableToResolveAnswer) when the servers describe one tree of zones    *)
(* and no referral misleads the exchange: the second look at the last label  *)
(* is enough, also when q is the apex of a zone (domain.go:63).              *)
NeverUnresolved ==
  \A p \in Requests : call[p].out = "unableToResolve" => call[p].astray

(* "panic("invalid clone")" (zone.go:55): the name checkForMissingZones      *)
(* makes a zone of is below the zone it clones.                              *)
CloneBelow == \A p \in Requests : call[p].out # "panic"

(* The panic has one of two causes: a pool that expires, or a referral that  *)
(* misleads the very exchange that panics.  Nothing else that goes wrong,    *)
(* here or in another exchange, leads to it (resolver_exchange.go:211).      *)
PanicHasCause ==
  \A p \in Requests : call[p].out = "panic" => call[p].astray \/ "expiry" \in faults

(* What holds of an exchange at each point.                                  *)
ListInv(c) ==
  c.pc = "list" =>
    /\ c.at <= Len(c.q)
    /\ c.known = {} <=> c.at = 0
    /\ \A d \in c.known : d <= depth(c)
    /\ c.at > 0 => 0 \in c.known /\ depth(c) \in c.known /\ depth(c) < c.at

WindInv(c) ==
  c.pc = "wind" => /\ 0 \in c.known /\ depth(c) \in c.known
                   /\ \A d \in c.known : d <= depth(c)

LoopInv(c) ==
  c.pc \in {"loop", "ask"} =>
    /\ \A d \in c.given : d < depth(c)
    /\ c.idx = depth(c) + 1 \/ (c.idx = depth(c) /\ c.path = c.known)

(* A referral leads to a cut on the way to q, and the walk over the missing  *)
(* names ends with the cursor at it.                                         *)
GapInv(c) ==
  c.pc = "gap" =>
    /\ \A d \in c.given : d < depth(c)
    /\ c.msg.kind = "delegation" /\ Below(c.msg.cut, c.z.name) =>
         IsSubDomain(c.msg.cut, c.q) /\ c.idx + c.missing = Len(c.msg.cut)

CreateInv(c) ==
  c.pc = "create" =>
    /\ \A d \in c.given : d < Len(c.msg.cut)
    /\ c.idx = Len(c.msg.cut) /\ IsSubDomain(c.msg.cut, c.q)

OnWayInv(c) ==
  /\ IsSubDomain(c.z.name, c.q)
  /\ ListInv(c) /\ WindInv(c) /\ LoopInv(c) /\ GapInv(c) /\ CreateInv(c)
  /\ c.out # "unableToResolve"

(* What holds of an exchange that a referral has misled, too.                *)
BoundInv(c) ==
  /\ c.pc \in {"list", "wind"} => ~c.astray
  /\ c.pc = "loop" => c.idx <= Len(c.q) + 2
  /\ c.pc \in {"ask", "gap", "create"} => c.idx <= Len(c.q) + 1
  /\ c.pc = "gap" => c.missing = 0 \/ c.idx + c.missing <= Len(c.q)
  /\ c.pc = "create" => Below(c.msg.cut, c.z.name)

CallInv(c) == BoundInv(c) /\ (~c.astray => OnWayInv(c))

(* The inductive invariant: a sound store, and CallInv of every exchange.    *)
ResolverInv ==
  /\ TypeOK
  /\ StoreSound
  /\ \A p \in Requests : CallInv(call[p])

(* What is true besides when no pool expires: the store only holds zones     *)
(* that can be used, and among them the one the loop starts from.            *)
FreshCall(c, names, pools) ==
  /\ c.z.pool \in pools
  /\ c.pc \in {"list", "wind", "loop"} => c.z.name \in names
  /\ ~c.astray => /\ c.pc \in {"ask", "gap"} => c.idx > depth(c) \/ c.idx >= Len(c.q)
                  /\ c.out # "panic"

FreshInv ==
  /\ \A n \in DOMAIN zones : zones[n].pool \in fresh
  /\ \A p \in Requests : FreshCall(call[p], DOMAIN zones, fresh)

(* When the servers answer, nothing expires and nobody else writes to the    *)
(* store, an exchange that asks for recursion gets an answer, unless it uses *)
(* up its queries; and "we expect one response per zone in the chain"        *)
(* (authenticator.go:37): it has given the authenticator an input for every  *)
(* zone it went through on the way from the root.                            *)
QuietAnswers ==
  faults = {} =>
    \A p \in Requests :
      call[p].pc = "over" =>
        /\ call[p].out \in {"answer", "maxQueries", "notRecursionDesired"}
        /\ call[p].out = "answer" => call[p].given = call[p].path

(* Every exchange returns, whatever expires or is renewed meanwhile, and     *)
(* wherever a referral leads it.                                             *)
ExchangeEnds == \A p \in Requests : call[p].pc = "list" ~> call[p].pc = "over"
=============================================================================
