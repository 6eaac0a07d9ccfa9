-------------------------------- MODULE Pool --------------------------------
(***************************************************************************)
(* The nameserver pool of one zone (pool.go, pool_exchange.go) and the     *)
(* process-wide IPv6 switch it reads (ipv6.go).                            *)
(*                                                                         *)
(* Queries run concurrently with each other and with an enrichment.  The   *)
(* counters are atomics read and written without a lock, the server lists  *)
(* are guarded by the RWMutex `updating`.  Every access to an atomic is a  *)
(* step of its own; a section under RLock reads only what the lock guards  *)
(* and is one step, enabled while no enrichment holds the lock.            *)
(*                                                                         *)
(* A server is an index into its list: which host it stands for is not     *)
(* modelled, so a list is its length.                                      *)
(***************************************************************************)
EXTENDS Integers, FiniteSets, FiniteSetsExt

CONSTANTS
  Requests,        \* goroutines that call pool.exchange
  Delegations,     \* sets of NS records [host, ttl] a referral may carry
  AddressSets,     \* sets of address records [host, fam, ttl] in a message
  RootSizes,       \* list lengths [v4, v6] of a pool built from the root hints
  MaxAllowedTTL,   \* MaxAllowedTTL of config.go
  DesireNumberOfNameserversPerZone,
  MaxTime          \* bound: the clock stops here

Family == {"v4", "v6"}

ASSUME PoolAssumption ==
  /\ MaxAllowedTTL \in Nat
  /\ MaxTime \in Nat
  /\ DesireNumberOfNameserversPerZone \in Nat
  /\ RootSizes \subseteq [Family -> Nat]
  /\ \A S \in AddressSets :
       /\ IsFiniteSet(S)
       /\ \A r \in S : r.ttl \in Nat
  /\ \A D \in Delegations :
       /\ IsFiniteSet(D)
       /\ \A n \in D : n.ttl \in Nat

VARIABLES
  len,       \* len(pool.ipv4), len(pool.ipv6)
  count,     \* ipv4Count, ipv6Count
  cursor,    \* ipv4Next, ipv6Next
  hosts,     \* hostsWithoutAddresses
  expires,   \* expires, 0 for the root's pool
  writer,    \* how far the enrichment that holds `updating` has come
  ipv6,      \* what IPv6Available() returns
  now,       \* the clock, in seconds
  req        \* the local state of each call of exchange

vars == <<len, count, cursor, hosts, expires, writer, ipv6, now, req>>
poolVars == <<len, count, cursor, hosts, expires, writer>>

-----------------------------------------------------------------------------
(* Building the pool *)

findAddressesForHostname(hostname, records) ==
  {r \in records : r.host = hostname /\ r.fam \in Family}

(* The records of the message that give an address to one of the hosts. *)
Matching(names, records) ==
  {r \in records : r.host \in names /\ r.fam \in Family}

OfFamily(records, f) == {r \in records : r.fam = f}

Unmatched(names, records) ==
  {h \in names : findAddressesForHostname(h, records) = {}}

(* The shortest TTL among the records, capped by MaxAllowedTTL. *)
MinTTL(records) == Min({MaxAllowedTTL} \cup {r.ttl : r \in records})

HostsOf(nameservers) == {n.host : n \in nameservers}

newNameserverPool(nameservers, extra) ==
  LET found == Matching(HostsOf(nameservers), extra)
      ttl   == MinTTL(nameservers \cup found)
  IN  /\ len = [f \in Family |-> Cardinality(OfFamily(found, f))]
      /\ hosts = Unmatched(HostsOf(nameservers), extra)
      /\ expires = now + ttl

(* The root's pool has an address for every server and never expires. *)
buildRootServerPool(sizes) ==
  /\ len = sizes
  /\ hosts = {}
  /\ expires = 0

NoCall == [pc |-> "idle", has |-> {}, fam |-> "v4", idx |-> 0, of |-> 0,
           try |-> 1, resp |-> "nil", asked |-> -1]

Init ==
  /\ now = 1
  /\ \/ \E D \in Delegations, A \in AddressSets : newNameserverPool(D, A)
     \/ \E s \in RootSizes : buildRootServerPool(s)
  /\ count = len
  /\ cursor = [f \in Family |-> 0]
  /\ writer = "none"
  /\ ipv6 = FALSE
  /\ req = [p \in Requests |-> NoCall]

expired == expires > 0 /\ expires < now

status ==
  LET total == len["v4"] + (IF ipv6 THEN len["v6"] ELSE 0)
  IN  IF len["v4"] = 0 /\ len["v6"] = 0 /\ hosts = {} THEN "PoolEmpty"
      ELSE IF total = 0 THEN "PoolHasHostnamesButNoIpAddresses"
      ELSE IF total < DesireNumberOfNameserversPerZone /\ hosts # {}
           THEN "PrimedButNeedsEnhancing"
      ELSE "PoolPrimed"

-----------------------------------------------------------------------------
(* Enrichment: Lock, append the new servers, store the expiry; then the two *)
(* counters one after the other; then Unlock.                               *)

enrich(records) ==
  /\ records # {}
  /\ writer = "none"
  /\ LET found == Matching(hosts, records)
     IN  /\ len' = [f \in Family |-> len[f] + Cardinality(OfFamily(found, f))]
         /\ hosts' = Unmatched(hosts, records)
         /\ expires' = IF expires > 0 THEN now + MinTTL(found) ELSE expires
  /\ writer' = "count4"
  /\ UNCHANGED <<count, cursor, ipv6, now, req>>

updateIPv4Count ==
  /\ writer = "count4"
  /\ count' = [count EXCEPT !["v4"] = len["v4"]]
  /\ writer' = "count6"
  /\ UNCHANGED <<len, cursor, hosts, expires, ipv6, now, req>>

updateIPv6Count ==
  /\ writer = "count6"
  /\ count' = [count EXCEPT !["v6"] = len["v6"]]
  /\ writer' = "none"
  /\ UNCHANGED <<len, cursor, hosts, expires, ipv6, now, req>>

-----------------------------------------------------------------------------
(* pool.exchange *)

At(p, label) == req[p].pc = label

hasIPv4(p) ==
  /\ At(p, "idle")
  /\ req' = [req EXCEPT ![p].has = IF count["v4"] > 0 THEN {"v4"} ELSE {},
                        ![p].pc = "has6"]
  /\ UNCHANGED <<poolVars, ipv6, now>>

(* Seeded bug: a pool without servers is not refused. *)
hasIPv6Unchecked(p) ==
  /\ At(p, "has6")
  /\ LET has == req[p].has \cup (IF count["v6"] > 0 THEN {"v6"} ELSE {})
     IN  req' = [req EXCEPT ![p].has = has, ![p].pc = "family"]
  /\ UNCHANGED <<poolVars, ipv6, now>>

(* Without any server the call ends with ErrNoPoolConfiguredForZone. *)
hasIPv6(p) ==
  /\ At(p, "has6")
  /\ LET has == req[p].has \cup (IF count["v6"] > 0 THEN {"v6"} ELSE {})
     IN  req' = [req EXCEPT ![p].has = has,
                            ![p].resp = IF has = {} THEN "error" ELSE "nil",
                            ![p].pc = IF has = {} THEN "return" ELSE "family"]
  /\ UNCHANGED <<poolVars, ipv6, now>>

FirstFamily(p) == IF "v6" \in req[p].has /\ ipv6 THEN "v6" ELSE "v4"

RetryFamily(p) == IF "v4" \in req[p].has THEN "v4" ELSE "v6"

chooseFamily(p) ==
  /\ At(p, "family")
  /\ req' = [req EXCEPT ![p].fam = FirstFamily(p), ![p].pc = "check"]
  /\ UNCHANGED <<poolVars, ipv6, now>>

(* What follows a call of a server, or the discovery that there is none. *)
AfterTry(p, resp) ==
  IF resp # "good" /\ req[p].try = 1 THEN "retry" ELSE "return"

(* getIPv4 and getIPv6: test the count, load the cursor, take it modulo a   *)
(* second load of the count (`of`), store the successor, read the list.     *)
(* `asked` is history: the server of the first try.                         *)
getCheck(p) ==
  /\ At(p, "check")
  /\ req' = [req EXCEPT ![p].pc = IF count[req[p].fam] > 0 THEN "load"
                                  ELSE AfterTry(p, req[p].resp)]
  /\ UNCHANGED <<poolVars, ipv6, now>>

getLoad(p) ==
  /\ At(p, "load")
  /\ req' = [req EXCEPT ![p].idx = cursor[req[p].fam], ![p].pc = "modulo"]
  /\ UNCHANGED <<poolVars, ipv6, now>>

(* Seeded bug: the modulus is one too large. *)
getModuloLarge(p) ==
  /\ At(p, "modulo")
  /\ req' = [req EXCEPT ![p].of = count[req[p].fam],
                        ![p].idx = @ % (count[req[p].fam] + 1),
                        ![p].pc = "store"]
  /\ UNCHANGED <<poolVars, ipv6, now>>

getModulo(p) ==
  /\ At(p, "modulo")
  /\ req' = [req EXCEPT ![p].of = count[req[p].fam],
                        ![p].idx = @ % count[req[p].fam],
                        ![p].pc = "store"]
  /\ UNCHANGED <<poolVars, ipv6, now>>

(* Seeded bug: the cursor does not move. *)
getStoreStays(p) ==
  /\ At(p, "store")
  /\ cursor' = [cursor EXCEPT ![req[p].fam] = req[p].idx]
  /\ req' = [req EXCEPT ![p].pc = "pick"]
  /\ UNCHANGED <<len, count, hosts, expires, writer, ipv6, now>>

getStore(p) ==
  /\ At(p, "store")
  /\ cursor' = [cursor EXCEPT ![req[p].fam] = req[p].idx + 1]
  /\ req' = [req EXCEPT ![p].pc = "pick"]
  /\ UNCHANGED <<len, count, hosts, expires, writer, ipv6, now>>

getPick(p) ==
  LET me == req[p]
  IN  /\ At(p, "pick")
      /\ writer = "none"
      /\ req' = [req EXCEPT
           ![p].pc = IF me.idx < len[me.fam] THEN "wait" ELSE AfterTry(p, me.resp),
           ![p].asked = IF me.try = 1 /\ me.idx < len[me.fam] /\ me.fam = RetryFamily(p)
                        THEN me.idx ELSE @]
      /\ UNCHANGED <<poolVars, ipv6, now>>

serverExchange(p) ==
  /\ At(p, "wait")
  /\ \E resp \in {"good", "empty", "error"} :
       req' = [req EXCEPT ![p].resp = resp, ![p].pc = AfterTry(p, resp)]
  /\ UNCHANGED <<poolVars, ipv6, now>>

(* Seeded bug: a retry may be followed by another one. *)
retryAgain(p) ==
  /\ At(p, "retry")
  /\ req' = [req EXCEPT ![p].fam = RetryFamily(p), ![p].pc = "check"]
  /\ UNCHANGED <<poolVars, ipv6, now>>

retry(p) ==
  /\ At(p, "retry")
  /\ req' = [req EXCEPT ![p].fam = RetryFamily(p), ![p].try = 2, ![p].pc = "check"]
  /\ UNCHANGED <<poolVars, ipv6, now>>

(* The caller gets the response, an empty one after it was given an error.  *)
(* Giving an error to a nil response would panic: no step leaves that state. *)
return(p) ==
  /\ At(p, "return")
  /\ req[p].resp # "nil"
  /\ req' = [req EXCEPT ![p] = NoCall]
  /\ UNCHANGED <<poolVars, ipv6, now>>

exchange(p) ==
  \/ hasIPv4(p)
  \/ hasIPv6(p)
  \/ chooseFamily(p)
  \/ getCheck(p)
  \/ getLoad(p)
  \/ getModulo(p)
  \/ getStore(p)
  \/ getPick(p)
  \/ serverExchange(p)
  \/ retry(p)
  \/ return(p)

-----------------------------------------------------------------------------
(* Every probe of an IPv6 root server stores its outcome. *)
UpdateIPv6Availability ==
  /\ ipv6' \in BOOLEAN
  /\ UNCHANGED <<poolVars, now, req>>

Tick ==
  /\ now < MaxTime
  /\ now' = now + 1
  /\ UNCHANGED <<poolVars, ipv6, req>>

Next ==
  \/ \E records \in AddressSets : enrich(records)
  \/ updateIPv4Count
  \/ updateIPv6Count
  \/ \E p \in Requests : exchange(p)
  \/ UpdateIPv6Availability
  \/ Tick

Spec == Init /\ [][Next]_vars

-----------------------------------------------------------------------------
(* Properties *)

Calls == [pc : {"idle", "has6", "family", "check", "load", "modulo", "store",
                "pick", "wait", "retry", "return"},
          has : SUBSET Family, fam : Family, idx : Nat, of : Nat, try : {1, 2},
          resp : {"nil", "good", "empty", "error"}, asked : Nat \cup {-1}]

(* Every field of the pool and of a call of exchange has its Go type; the    *)
(* counters are unsigned.                                                    *)
TypeOK ==
  /\ len \in [Family -> Nat]
  /\ count \in [Family -> Nat]
  /\ cursor \in [Family -> Nat]
  /\ expires \in Nat
  /\ writer \in {"none", "count4", "count6"}
  /\ ipv6 \in BOOLEAN
  /\ now \in Nat \ {0}
  /\ req \in [Requests -> Calls]

(* The round-robin cursors never pass the number of servers, whatever the    *)
(* race on them that pool.go admits: they cannot wrap around.                *)
CursorBounded == \A f \in Family : cursor[f] <= count[f]

(* The index getIPv4 or getIPv6 has computed, from a cursor and a count read *)
(* without the lock, lies inside the list it will be used on.                *)
IndexInBounds ==
  \A p \in Requests :
    At(p, "store") \/ At(p, "pick") => req[p].idx < len[req[p].fam]

(* What hasIPv4 and hasIPv6 said at the start of exchange still holds when   *)
(* the retry relies on it, so exchange never ends with a nil response, which *)
(* its last lines would dereference.                                         *)
NoNilResponse ==
  \A p \in Requests : At(p, "return") => req[p].resp # "nil"

(* The lists are appended to before the counts are raised, under the lock,   *)
(* and nothing ever shrinks.                                                 *)
CountsFollowLists ==
  /\ \A f \in Family : count[f] <= len[f]
  /\ writer = "none" => count = len
  /\ writer = "count6" => count["v4"] = len["v4"]

(* What a call has learnt about the counts stays true until it returns: the  *)
(* families it saw, the one it picks from, the index it computed.            *)
CallInv(p) ==
  LET me == req[p]
  IN  /\ \A f \in me.has : count[f] > 0
      /\ me.pc \in {"idle", "has6", "family"} => me.try = 1
      /\ me.pc \notin {"idle", "has6", "return"} => me.has # {}
      /\ me.pc \in {"load", "modulo"} => count[me.fam] > 0
      /\ me.pc \in {"store", "pick"} => me.idx < count[me.fam]
      /\ me.pc = "check" /\ me.try = 2 => me.fam \in me.has
      /\ me.pc = "return" => me.resp # "nil"

(* The inductive invariant behind CursorBounded, IndexInBounds and           *)
(* NoNilResponse: a count read without the lock is never above the length of *)
(* the list, so every index and flag derived from one stays good.            *)
PoolInv ==
  /\ TypeOK
  /\ CountsFollowLists
  /\ CursorBounded
  /\ \A p \in Requests : CallInv(p)

(* "If we have more than one nameserver, this will try a different one."     *)
(* (pool_exchange.go:39): the second try, in the family of the first, goes   *)
(* to another server when that family counts more than one.  True of a query *)
(* alone: "There's a race condition here" (pool.go:60).                      *)
RetryTriesAnother ==
  \A p \in Requests :
    At(p, "store") /\ req[p].try = 2 /\ req[p].of > 1 => req[p].idx # req[p].asked

(* A pool that expires does so within MaxAllowedTTL of the present, whatever *)
(* TTLs the NS and address records carried.                                  *)
ExpiryCapped == expires > 0 => expires <= now + MaxAllowedTTL

(* Every call of exchange returns.                                           *)
ExchangeReturns == \A p \in Requests : ~At(p, "idle") ~> At(p, "idle")
=============================================================================
