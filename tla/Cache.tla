-------------------------------- MODULE Cache --------------------------------
(***************************************************************************)
(* The message cache of cache/cache.go: lookups that run while update      *)
(* goroutines store what earlier exchanges received.  A key stands for     *)
(* hash(name + type), taken to tell questions apart.                       *)
(*                                                                         *)
(* A message is [truncated, rrs]; rrs are the records of its three         *)
(* sections in order: [kind |-> "rr", key, ttl], a signature               *)
(* [kind |-> "sig", key, from, until] of the set it covers, or             *)
(* [kind |-> "meta"], a record that is never cached (OPT, TSIG, ...).      *)
(***************************************************************************)
EXTENDS Integers, Sequences, FiniteSets

CONSTANTS
  Keys,
  Callers,      \* goroutines that look something up
  Messages,     \* the messages that servers send
  ShardSize,    \* entries the store holds before it evicts
  Workers,      \* bound: update goroutines at one time
  MaxTime,      \* bound: the clock stops here
  None

NoTime == -1

ASSUME CacheAssumption == MaxTime \in Nat

VARIABLES
  cache,        \* key -> entry, or None
  now,
  calls,        \* caller -> its lookup: [pc, key, at, entry]
  jobs,         \* worker -> its update: [msg, at, todo], or None
  received      \* history: the messages handed to update goroutines

vars == <<cache, now, calls, jobs, received>>

NoCall == [pc |-> "idle", key |-> None, at |-> 0, entry |-> None]

Init ==
  /\ cache = [k \in Keys |-> None]
  /\ now = 0
  /\ calls = [c \in Callers |-> NoCall]
  /\ jobs = [w \in Workers |-> None]
  /\ received = {}

-----------------------------------------------------------------------------
(* What a message says of a key *)

ValidityPeriod(sig, t) == sig.from <= t /\ t <= sig.until

About(kind, m, k) == {i \in DOMAIN m.rrs : m.rrs[i].kind = kind /\ m.rrs[i].key = k}

Records(m, k) == {m.rrs[i] : i \in About("rr", m, k)}

FirstTTL(m, k) == m.rrs[CHOOSE i \in About("rr", m, k) :
                          \A j \in About("rr", m, k) : i <= j].ttl

Covering(m, k) == {m.rrs[i] : i \in About("sig", m, k)}

(* An expired signature empties what was collected before it. *)
Signatures(m, k, t) ==
  {m.rrs[i] : i \in {j \in About("sig", m, k) :
                       /\ ValidityPeriod(m.rrs[j], t)
                       /\ \A l \in About("sig", m, k) :
                            l > j => ValidityPeriod(m.rrs[l], t)}}

(* Seeded bug: the set is stored although its signatures are not. *)
StorableUnsigned(m, k, t) ==
  /\ Records(m, k) # {}
  /\ FirstTTL(m, k) > 0

(* No signature was seen, or one was kept; and the first record has a TTL. *)
Storable(m, k, t) ==
  /\ Records(m, k) # {}
  /\ Covering(m, k) = {} \/ Signatures(m, k, t) # {}
  /\ FirstTTL(m, k) > 0

NewEntry(m, k, t) ==
  [records |-> Records(m, k), signatures |-> Signatures(m, k, t),
   expires |-> t + FirstTTL(m, k)]

Expired(e, t) == t > e.expires

Entries ==
  {NewEntry(x[1], x[2], x[3]) :
     x \in {y \in Messages \X Keys \X (0..MaxTime) :
              ~y[1].truncated /\ Storable(y[1], y[2], y[3])}}

-----------------------------------------------------------------------------
(* The sharded map below the cache, one shard of it *)

Held == {k \in Keys : cache[k] # None}

(* An entry of a full shard makes room for a new key. *)
Add(k, e) ==
  \/ /\ k \in Held \/ Cardinality(Held) < ShardSize
     /\ cache' = [cache EXCEPT ![k] = e]
  \/ /\ k \notin Held /\ Cardinality(Held) >= ShardSize
     /\ \E v \in Held : cache' = [cache EXCEPT ![v] = None, ![k] = e]

Remove(k) == cache' = [cache EXCEPT ![k] = None]

-----------------------------------------------------------------------------
(* Lookups *)

(* The clock is read before the store is. *)
Get(c) ==
  /\ calls[c].pc = "idle"
  /\ \E k \in Keys :
       calls' = [calls EXCEPT ![c] = [pc |-> "read", key |-> k,
                                      at |-> now, entry |-> None]]
  /\ UNCHANGED <<cache, now, jobs, received>>

GetWithTime(c) ==
  /\ calls[c].pc = "read"
  /\ LET e == cache[calls[c].key]
     IN  calls' = [calls EXCEPT
           ![c].pc = IF e = None THEN "miss"
                     ELSE IF Expired(e, calls[c].at) THEN "remove" ELSE "hit",
           ![c].entry = IF e = None \/ Expired(e, calls[c].at) THEN None ELSE e]
  /\ UNCHANGED <<cache, now, jobs, received>>

(* Seeded bug: the lookup starts over with the old clock. *)
GetRemoveRetries(c) ==
  /\ calls[c].pc = "remove"
  /\ Remove(calls[c].key)
  /\ calls' = [calls EXCEPT ![c].pc = "read"]
  /\ UNCHANGED <<now, jobs, received>>

(* What is removed need not be what was read. *)
GetRemove(c) ==
  /\ calls[c].pc = "remove"
  /\ Remove(calls[c].key)
  /\ calls' = [calls EXCEPT ![c].pc = "miss"]
  /\ UNCHANGED <<now, jobs, received>>

Finish(c) == calls' = [calls EXCEPT ![c] = NoCall]

GetReturn(c) ==
  /\ calls[c].pc \in {"hit", "miss"}
  /\ Finish(c)
  /\ UNCHANGED <<cache, now, jobs, received>>

-----------------------------------------------------------------------------
(* Updates: each is a goroutine of its own, started in zoneImpl.exchange *)

Spawn(w, m) ==
  /\ jobs[w] = None
  /\ jobs' = [jobs EXCEPT ![w] = [msg |-> m, at |-> NoTime, todo |-> {}]]
  /\ received' = received \cup {m}

(* A caller that found nothing got m elsewhere. *)
Update(c, w, m) ==
  /\ calls[c].pc = "miss"
  /\ Spawn(w, m)
  /\ Finish(c)
  /\ UNCHANGED <<cache, now>>

Job(m, t, todo) == IF todo = {} THEN None
                   ELSE [msg |-> m, at |-> t, todo |-> todo]

(* The goroutine runs: the clock is read, the message is split. *)
UpdateWithTime(w) ==
  /\ jobs[w] # None
  /\ jobs[w].at = NoTime
  /\ LET m == jobs[w].msg
     IN  jobs' = [jobs EXCEPT
           ![w] = Job(m, now, {k \in Keys : ~m.truncated /\ Storable(m, k, now)})]
  /\ UNCHANGED <<cache, now, calls, received>>

(* The sets of a message are stored one by one, in the order of a map. *)
UpdateAdd(w, k) ==
  /\ jobs[w] # None
  /\ k \in jobs[w].todo
  /\ Add(k, NewEntry(jobs[w].msg, k, jobs[w].at))
  /\ jobs' = [jobs EXCEPT ![w] = Job(@.msg, @.at, @.todo \ {k})]
  /\ UNCHANGED <<now, calls, received>>

Tick ==
  /\ now < MaxTime
  /\ now' = now + 1
  /\ UNCHANGED <<cache, calls, jobs, received>>

-----------------------------------------------------------------------------
Lookup(c) == Get(c) \/ GetWithTime(c) \/ GetRemove(c) \/ GetReturn(c)

Work(w) == UpdateWithTime(w) \/ \E k \in Keys : UpdateAdd(w, k)

Next ==
  \/ Tick
  \/ \E c \in Callers : Lookup(c)
  \/ \E w \in Workers :
       Work(w) \/ \E c \in Callers, m \in Messages : Update(c, w, m)

Spec == Init /\ [][Next]_vars

-----------------------------------------------------------------------------
(* Properties *)

TypeOK ==
  /\ cache \in [Keys -> Entries \cup {None}]
  /\ now \in 0..MaxTime
  /\ calls \in [Callers ->
       [pc : {"idle", "read", "remove", "hit", "miss"}, key : Keys \cup {None},
        at : 0..MaxTime, entry : Entries \cup {None}]]
  /\ jobs \in [Workers -> {None} \cup
       [msg : Messages, at : {NoTime} \cup 0..MaxTime, todo : SUBSET Keys]]
  /\ received \subseteq Messages

(* e is what one received message says of k, as it was read at time t: all *)
(* of the set's records and, if the message signs the set, signatures that *)
(* were all valid at t, at least one.                                      *)
IsSetOf(e, m, k, t) ==
  /\ ~m.truncated
  /\ e.records = Records(m, k)
  /\ e.expires = t + FirstTTL(m, k)
  /\ \A sig \in e.signatures : ValidityPeriod(sig, t)
  /\ Covering(m, k) # {} => e.signatures # {}

(* UpdateWithTime stores each set of a message on its own while other      *)
(* goroutines store and remove the same keys: an entry never mixes two     *)
(* messages, never comes from a truncated one, and a set that came with    *)
(* signatures is never kept without a valid one, in whatever order valid   *)
(* and expired signatures stood.                                           *)
EntriesAreWhole ==
  \A k \in Keys : cache[k] # None =>
    \E m \in received, t \in 0..now : IsSetOf(cache[k], m, k, t)

(* GetWithTime reads the clock, reads the entry and maybe removes it in    *)
(* separate steps: what a caller is given had not expired when its lookup  *)
(* began, and is a whole set of a received message.                        *)
HitsAreLive ==
  \A c \in Callers : calls[c].pc = "hit" =>
    /\ ~Expired(calls[c].entry, calls[c].at)
    /\ \E m \in received, t \in 0..now :
         IsSetOf(calls[c].entry, m, calls[c].key, t)

(* The cache as the abstract store: a caller that finds an expired entry   *)
(* has its answer, nothing, before it removes the entry.                   *)
Phase(pc) == IF pc = "idle" THEN "idle" ELSE IF pc = "read" THEN "asked" ELSE "given"

Asks == [c \in Callers |-> [state |-> Phase(calls[c].pc), key |-> calls[c].key,
                            since |-> calls[c].at, entry |-> calls[c].entry]]

Promise == INSTANCE Store WITH store <- cache, asks <- Asks

(* Removals that race with updates, evictions and late updates are only    *)
(* losses and whole replacements: the cache is an expiring lossy store.    *)
ImplementsStore == Promise!Spec
=============================================================================
