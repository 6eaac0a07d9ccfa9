------------------------------ MODULE ZoneKeys ------------------------------
(***************************************************************************)
(* The DNSKEY records a zone keeps (dnskeys of zone.go).  resolveLabel     *)
(* prefetches them in a goroutine while authenticators ask for them, so    *)
(* several calls compete for dnskeyLock; the one that finds nothing valid  *)
(* keeps the lock during its query.                                        *)
(*                                                                         *)
(* A set of records is told apart by when it was received and by its       *)
(* shortest TTL; which keys are in it does not matter here.                *)
(***************************************************************************)
EXTENDS Integers, FiniteSets

CONSTANTS
  Callers,         \* goroutines that call dnskeys
  TTLs,            \* TTLs an answer may have
  Replies,         \* what the zone's servers may do, of AllReplies
  MaxAllowedTTL,   \* of config.go
  EmptyTTL,        \* how long an empty answer is kept, 60 in the code
  MaxTime          \* bound: the clock stops here

AllReplies == {"keys", "empty", "error"}

ASSUME ZoneKeysAssumption ==
  /\ TTLs \subseteq Nat
  /\ Replies \subseteq AllReplies
  /\ MaxAllowedTTL \in Nat
  /\ EmptyTTL \in Nat
  /\ MaxTime \in Nat

NoKeys == [got |-> 0, ttl |-> 0]
NoTime == -1

VARIABLES
  dnskeyRecords,
  dnskeyExpiry,    \* NoTime is the zero time
  lock,            \* who holds dnskeyLock: a set of at most one caller
  now,
  pc,
  returned,        \* what the last call of each caller returned, and when
  lastEmpty        \* history: when the last empty answer was received

keysVars == <<dnskeyRecords, dnskeyExpiry, lock, now, pc, returned, lastEmpty>>

KeysInit ==
  /\ dnskeyRecords = NoKeys
  /\ dnskeyExpiry = NoTime
  /\ lock = {}
  /\ now = 1
  /\ pc = [p \in Callers |-> "idle"]
  /\ returned = [p \in Callers |-> [keys |-> NoKeys, at |-> 0]]
  /\ lastEmpty = NoTime

dnskeys(p) ==
  /\ pc[p] = "idle"
  /\ pc' = [pc EXCEPT ![p] = "lock"]
  /\ UNCHANGED <<dnskeyRecords, dnskeyExpiry, lock, now, returned, lastEmpty>>

Valid == dnskeyExpiry # NoTime /\ dnskeyExpiry >= now

Return(p, keys) ==
  /\ pc' = [pc EXCEPT ![p] = "idle"]
  /\ returned' = [returned EXCEPT ![p] = [keys |-> keys, at |-> now]]

(* The check is based on the expiry alone: no records can be valid too. *)
dnskeysCached(p) ==
  /\ pc[p] = "lock"
  /\ lock = {}
  /\ Valid
  /\ Return(p, dnskeyRecords)
  /\ UNCHANGED <<dnskeyRecords, dnskeyExpiry, lock, now, lastEmpty>>

dnskeysQuery(p) ==
  /\ pc[p] = "lock"
  /\ lock = {}
  /\ ~Valid
  /\ lock' = {p}
  /\ pc' = [pc EXCEPT ![p] = "query"]
  /\ UNCHANGED <<dnskeyRecords, dnskeyExpiry, now, returned, lastEmpty>>

(* Seeded bug: a failed exchange is tried again, for ever. *)
dnskeysErrorRetries(p) ==
  /\ pc[p] = "query"
  /\ pc' = [pc EXCEPT ![p] = "lock"]
  /\ lock' = {}
  /\ UNCHANGED <<dnskeyRecords, dnskeyExpiry, now, returned, lastEmpty>>

(* The exchange fails, and nothing is kept. *)
dnskeysError(p) ==
  /\ pc[p] = "query"
  /\ "error" \in Replies
  /\ Return(p, NoKeys)
  /\ lock' = {}
  /\ UNCHANGED <<dnskeyRecords, dnskeyExpiry, now, lastEmpty>>

(* No answer: the expiry moves, the records stay as they are. *)
dnskeysEmpty(p) ==
  /\ pc[p] = "query"
  /\ "empty" \in Replies
  /\ dnskeyExpiry' = now + EmptyTTL
  /\ lastEmpty' = now
  /\ Return(p, NoKeys)
  /\ lock' = {}
  /\ UNCHANGED <<dnskeyRecords, now>>

(* Seeded bug: the TTLs of the records are not looked at. *)
ShortestTTLIgnored(ttl) == MaxAllowedTTL

ShortestTTL(ttl) == IF ttl < MaxAllowedTTL THEN ttl ELSE MaxAllowedTTL

dnskeysAnswer(p) ==
  /\ pc[p] = "query"
  /\ "keys" \in Replies
  /\ \E ttl \in TTLs :
       /\ dnskeyRecords' = [got |-> now, ttl |-> ttl]
       /\ dnskeyExpiry' = now + ShortestTTL(ttl)
       /\ Return(p, [got |-> now, ttl |-> ttl])
  /\ lock' = {}
  /\ UNCHANGED <<now, lastEmpty>>

Tick ==
  /\ now < MaxTime
  /\ now' = now + 1
  /\ UNCHANGED <<dnskeyRecords, dnskeyExpiry, lock, pc, returned, lastEmpty>>

Step(p) ==
  \/ dnskeysCached(p) \/ dnskeysQuery(p)
  \/ dnskeysError(p) \/ dnskeysEmpty(p) \/ dnskeysAnswer(p)

KeysNext == Tick \/ \E p \in Callers : dnskeys(p) \/ Step(p)

KeysSpec == KeysInit /\ [][KeysNext]_keysVars

(* A sync.Mutex does not starve a waiter, and a query ends.                  *)
KeysFairSpec == KeysSpec /\ \A p \in Callers : SF_keysVars(Step(p))

-----------------------------------------------------------------------------
(* Properties *)

Keys == [got : Nat, ttl : Nat]

(* The records, the expiry and the lock have their types.                    *)
KeysTypeOK ==
  /\ dnskeyRecords \in Keys
  /\ dnskeyExpiry \in Nat \cup {NoTime}
  /\ lock \in SUBSET Callers
  /\ now \in Nat
  /\ pc \in [Callers -> {"idle", "lock", "query"}]
  /\ returned \in [Callers -> [keys : Keys, at : Nat]]
  /\ lastEmpty \in Nat \cup {NoTime}

(* At most one query for a zone's keys is under way: the callers that came   *)
(* meanwhile wait for dnskeyLock and then find its answer.                   *)
OneQuery ==
  \A p \in Callers : pc[p] = "query" => lock = {p}

(* "Shorter TTLs on received records will still be respected"                *)
(* (config.go:45-46): no call returns keys longer than their TTL, nor longer *)
(* than MaxAllowedTTL, after they were received, unless an empty answer came *)
(* since.                                                                    *)
KeysRespectTTL ==
  \A p \in Callers :
    LET r == returned[p]
    IN  r.keys # NoKeys /\ r.keys.got > lastEmpty =>
          /\ r.at <= r.keys.got + r.keys.ttl
          /\ r.at <= r.keys.got + MaxAllowedTTL

(* "If we got no answer, we'll put a short cache on that" (zone.go:166):     *)
(* while an empty answer is the latest, calls return no keys.                *)
EmptyIsCached ==
  \A p \in Callers :
    LET r == returned[p]
    IN  lastEmpty # NoTime /\ r.at > lastEmpty => r.keys = NoKeys \/ r.keys.got >= lastEmpty

(* The inductive invariant behind OneQuery and KeysRespectTTL: unless an     *)
(* empty answer came since, the expiry is that of the records that are kept. *)
KeysInv ==
  /\ KeysTypeOK
  /\ OneQuery
  /\ KeysRespectTTL
  /\ dnskeyRecords.got <= now /\ lastEmpty <= now
  /\ dnskeyExpiry # NoTime /\ dnskeyRecords.got > lastEmpty =>
       dnskeyExpiry = dnskeyRecords.got + ShortestTTL(dnskeyRecords.ttl)

(* Every call returns, whatever the servers do to it.                        *)
DnskeysReturns == \A p \in Callers : pc[p] = "lock" ~> pc[p] = "idle"
=============================================================================
