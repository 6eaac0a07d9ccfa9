# A verification project for resolver-lib

TLA+ models of the recursive DNS resolver in `src/`, checked with TLC on small
instances, with TLAPS proofs of the main safety properties. `PROJECT.json` lists
the components, the runs, the source lines each definition models, the hazards,
the findings and the theorems.

## The system

`Resolver.Exchange` resolves a name from the root down. It keeps a store of the
zones it has met, each with a pool of nameservers, and asks zone after zone until
one answers. With the DO flag, an authenticator follows and verifies the chain of
signatures. Many exchanges run at once and share the store, the pools and the keys.

| Component | State | Operations | Interacts with |
|---|---|---|---|
| exchange loop (`resolver_exchange.go`) | current zone, cursor, counter | `Exchange`, `exchange`, `resolveLabel`, `checkForMissingZones`, `processDelegation`, `finaliseResponse` | all below |
| domain cursor (`domain.go`) | index into the labels | `windTo`, `current`, `next`, `more`, `last`, `gap` | exchange loop |
| zone store (`zones.go`) | map from name to zone, RWMutex | `getZoneList`, `get`, `add` | all exchanges |
| zone (`zone.go`) | name, parent, pool, keys | `exchange`, `clone`, `soa`, `dnskeys` | pool, cache |
| nameserver pool (`pool.go`, `pool_exchange.go`) | two lists, atomic counters, expiry | `newNameserverPool`, `enrich`, `getIPv4/6`, `exchange`, `status`, `expired` | nameservers, IPv6 switch |
| zone factory (`zone_factory.go`) | worker goroutine, `done`, timer | `createZone`, `enrichPool` | pool, nested exchanges |
| IPv6 switch (`ipv6.go`) | one atomic flag | `UpdateIPv6Availability` | pools |
| authenticator pipeline (`auth.go`) | channel, WaitGroup, errors | `addDelegationSignerLink`, `addResponse`, `start`, `result`, `close` | exchange loop, authenticator |
| DNSSEC authenticator (`dnssec/authenticator.go`, `result.go`) | buffer, index, results | `AddResponse`, `processResponse`, `Result` | verification |
| DNSSEC verification (`dnssec/verify*.go`, `signatures.go`, `authenticate_rrset.go`) | none | `verify` and the validations | denial of existence |
| denial of existence (`dnssec/doe/`) | none | NSEC and NSEC3 proofs | |
| message cache (`cache/`) | LRU of RRsets | `Update`, `Get` | zone |
| nameserver, clients (`nameserver.go`, `clients/`) | metrics | `exchange` over each protocol | network |
| CNAME (`cname.go`) | none | `cname` | nested exchanges |
| root, configuration, errors, logging, tracing, command line | globals set at start | | |

What is hard in it: lock-free counters next to lists under a lock; a time-out that
leaves a goroutine behind; a WaitGroup that counts both goroutines and messages;
zones that expire or are replaced between two looks at the store; servers that
host parent and child and so skip referrals; inputs of the authenticator that
arrive in any order or not at all; a lock held across a network exchange.

What should hold, part by part:

- pool: no index out of range, no nil response, a retry at another server, records
  not kept beyond their TTL, every call returns;
- zone factory: a zone that is handed out has a server, `createZone` returns;
- exchange loop and store: the store is a sound tree, the cursor follows the zone,
  every exchange ends, one input per zone for the authenticator, `clone` does not
  panic, the chain is complete;
- pipeline: no send after close, no input lost, no deadlock;
- authenticator: the verdict does not depend on the order of arrival; Secure and
  Insecure are earned;
- keys: one query at a time, TTLs respected;
- cache: an entry is a whole set of one message, a hit is live, a late update or
  a racing removal loses entries and nothing else;
- nameserver: a complete answer is not lost, no protocol is left untried;
- aliases: a response is no better than its weakest part, loops end;
- verification: what is accepted is signed by vouched keys, what is denied is not
  in the zone, what is genuine is accepted, TTLs are earned.

## Modules

| Module | Models | Its own abstraction |
|---|---|---|
| `Pool` | pool, IPv6 switch | a server is an index, a list its length; a message is the addresses it holds |
| `ZoneFactory` | `createZone`, `enrichPool`; extends `Pool` | a nested exchange ends with an answer or without |
| `Resolver` | exchange loop, cursor, store | a name is its labels; an ancestor of the name in question is its depth |
| `AuthQueue` | pipeline | an input is accepted or rejected; the channel is a set |
| `Authenticator` | buffering, `verify` along a chain, verdict | a message is the facts `verify` tells apart |
| `ZoneKeys` | `zone.dnskeys` | a set of keys is when it came and its TTL |
| `Store` | what a cache of expiring entries promises | |
| `Cache` | message cache; implements `Store` | a key is a question; a message is its records in order |
| `Zone` | `zone.exchange`, protocol loop of the nameserver; extends `Cache` | the pool passes on one nameserver's result |
| `Finalise` | `finaliseResponse`, `cname`, `Combine` | a zone's answer and a verdict are chosen |
| `Signatures` | `authenticate`, signature policies, keys, TTLs | a signature verifies with the key that made it |
| `Denial` | NSEC and NSEC3 proofs, the three validations | a label is a number in canonical order |
| `Verification` | `verifier.verify`; extends `Signatures` and `Denial` | |

An action is a handler, or the part of one between two points where another
goroutine can be seen to interfere: an atomic access, a lock, a channel
operation, a query. `MC*` modules give the constants their values. The operators
under "Seeded bug" are not used by the specifications: each is a plausible wrong
version of the definition after it, and each violates the property it is listed
with under `mutants`. `*Proofs` modules hold the theorems.

**Pool.** `len`, `count` and `cursor` are the lists, `ipvNCount` and `ipvNNext`.
`getIPv4` and `getIPv6` are the steps `getCheck`, `getLoad`, `getModulo`,
`getStore`, `getPick`: each load and store of an atomic is one, the read of the
list under `RLock` is one. `enrich` is three steps (append, count, count) under
`Lock`. A call that has a nil response where the code would dereference it has no
next step. The counters are unbounded integers: `CursorBounded`, proved for every
instance, shows that they cannot wrap. The IPv6 flag may flip at any moment, as
`UpdateIPv6Availability` is exported.

**ZoneFactory.** The caller, the waiter in `select`, and the worker. `done` is
unbuffered, so `workerDone` needs the waiter. The three seconds may be over at
any moment. A referral with IPv6 glue for all its servers, while IPv6 is off, has
the status `PoolHasHostnamesButNoIpAddresses` although no hostname is left:
`enrichPool` then refuses the pool. It refines `Pool`: `FactorySpec => Spec`.

**Resolver.** The servers are external and describe one tree of zones, `Cuts`; a
server may host several, and then answers or refers past the cuts between them.
A response has records with owners in some order (`OwnerLists`), of which
`checkForMissingZones` picks one (`nextRecordsOwner`); `gap` then lists the names
it takes to be missing, from the cursor to that owner. The variable `faults`,
chosen once from the constant `FaultSets`, says what else may happen: `expiry` (a
pool runs out, or is renewed), `soa` (a SOA lookup fails), `server` (a query
fails), `lame` (a referral that leads nowhere), `create` (`createZone` fails),
`nested` (another exchange of the same request uses the shared counter, between
any two steps), `owner` (the picked owner is not that of the zone a referral leads
to, so that `gap` lists other names than the skipped ones), `stray` (a referral
leads to a zone the name is not in). `Misleads` says which referrals do the last
two, and `astray` is a history: one of them has reached this exchange. The DO flag
is taken to be set; without it `given` means nothing and the rest is the same.
`known`, `given` and `path` are the list of `getZoneList`, the zones the
authenticator has an input for, and the zones the exchange passed.
`finaliseResponse` ends the exchange.

**AuthQueue.** `processing` is the WaitGroup; `start` evaluates `a.queue` when it
is first scheduled, which may be after `close`. The prefetch of keys that a link
starts is in `ZoneKeys`.

**Authenticator.** `processResponse`, the loops in `AddResponse` and `Result`, the
decisions of `verify` and of the three validations, and the errors as `auth.go`
treats them. Signatures and denials are facts of an input. An exchange that was
led astray may hand over a response of a zone that is not above the name:
`RefuseResponse`, up to `strays` times, at any point. One refusal makes the verdict
Unknown, several are composed and then forgotten (`auth.go:101-109`).

**ZoneKeys.** The lock, the check on the expiry alone, the three kinds of reply.

**Cache, Store, Zone.** A lookup is the steps between which update goroutines can
run: the read of the clock, the read of the entry, the removal of an expired one,
the return. An update reads the clock, then stores one set after another, in any
order, as the code ranges over a map. The sharded map underneath is external: it
replaces an entry as a whole and may evict any other. The cache is taken to be
configured (`config.cache` is set). `received` is a history of the messages that
were handed to updates. `Zone` adds the zone's exchange (lookup, query, update in
the background) and the loop over the protocols of a nameserver.

**Finalise.** A request is a stack of exchanges, because `cname` calls `Exchange`
for the targets of aliases; they share the counter. `parts`, `asked` and `failed`
are histories: what was said of each message that went into the response, the names
asked for, and whether an exchange failed. A nested exchange has its own CD flag.

**Signatures.** One response, section after section: each signature is looked at
under a clock that may move between its two readings (the validity period, the
time left), with wire times modulo `2 * Year68`; then the policy; then the TTLs.
`RequireAllSignaturesValid` is chosen at the start. A DNSKEY lookup that fails is
a matter of `Authenticator`.

**Denial.** A zone maps owners to types. `Chain` builds its NSEC or NSEC3 records
as a signer does (external); a response holds any subset of them. The reference
definitions (`Exists`, `ClosestEncloser`, `Answer`) speak of the zone, the
code's operators only of the records. The zone is not the root, since `dns.Split`
never yields "."; so a wildcard's signature counts at least one label, without
which `nsec3.go:62-68` would index past the last one. In a positive response the
NSEC check is given the question's name and the NSEC3 check the name of the
wildcard's signature (`verify_positive.go:41` and `:48`): they differ
(`resp.question`, `resp.name`) when an alias leads to the wildcard. Filtering by flags stands for the filter on hash and flags.
Hashes have no collisions. The records are the zone's own, which is what
`SignedSets` gives where every set is signed.

**Verification.** Composes the two: `verify` dispatches on the sections, and
`contents` then draws the zone and the records that the signatures vouched for.
Signatures are forgotten at that point, as no check looks at them again.

## Runs

| Run | Checks | Distinct states |
|---|---|---|
| `pool_races` | two queries and enrichments: `IndexInBounds`, `NoNilResponse` | 4.9 M |
| `zone_factory` | creation, enrichment, one query: `CreatedZoneUsable`, `RetryTriesAnother`, `CreateZoneReturns`, `WorkerEndsOrIsAbandoned`, `ExchangeReturns` | 240 k |
| `auth_queue` | `NoSendAfterClose`, `ResultIsComplete`, `AuthReturns`, `ConsumerEnds` | 315 k |
| `resolver` | two exchanges: `StoreSound`, `CursorFollowsZone`, `OneInputPerZone`, `NeverUnresolved` | 1.28 M |
| `resolver_live` | one exchange after another, every fault, all but expiry, none: `PanicHasCause`, `QuietAnswers`, `ExchangeEnds` | 120 k |
| `authenticator` | every order of arrival, up to two refusals: `OrderIndependent`, `SecureMeansChain`, `InsecureMeansProof` | 907 k |
| `zone_keys` | competing calls: `KeysRespectTTL`, `DnskeysReturns` | 17 k |
| `zone` | two exchanges, two updates, eviction: `EntriesAreWhole`, `ImplementsStore`, `CompleteAnswerWins` | 658 k |
| `finalise` | chains and loops of aliases: `ADMeansAllSecure`, `BogusIsWithheld`, `NoPartHidden`, `AliasesFollowed`, `RequestEnds` | 197 k |
| `verification` | `SignedAsRequired`, `KeysVouched`, `TTLIsEarned`, `OneGoodIsEnough`, `DeniedIsAbsent`, `EncloserIsClosest`, `WildcardApplies`, `UnsignedHasNoDS`, `GenuineIsSecure` | 1.29 M |

Type invariants and inductive invariants are proved rather than run.

Two runs end in a counterexample, to something an assertion or a comment of the
code says:

- `resolver_clone`: `panic("invalid clone")` is reached when a zone expires
  between `getZoneList` and `zones.get` and its server answers for a name below;
  also when a referral comes with a record deeper than the zone it leads to, which
  leaves the cursor behind. There is no third cause (`CloneSafety`).
- `zone_keys_empty`: after an empty answer expired keys are returned for a minute.

Where a property is weaker than one might expect, the code is the reason:

- `RetryTriesAnother` holds of a query alone (`RetryAlone`). Several share the
  cursor, and then a retry may go to the server that failed: `pool.go:60` admits
  the race.
- `QuietAnswers` holds of an exchange that shares the store with no other, while
  nothing goes wrong (`QuietAlone`).
- `CursorFollowsZone`, `OneInputPerZone` and `NeverUnresolved` are about exchanges
  that no referral has misled, whatever the others meet. One that was led astray may
  hand over a second response of a zone (refused at `authenticator.go:60`) or one of
  a zone that is not above its name (refused at `:43`), and may run out of labels.
  `StoreSound` and `ExchangeEnds` have no such condition.
- `OrderIndependent` is about one response per zone: of two, the first to arrive
  counts. A single refusal makes the verdict Unknown, two leave it as it is.
- `ConsumerEnds` excuses a consumer that starts after `close` and ranges over a nil
  channel: it never ends, and had nothing to do.
- `ExpiryIsCapped` says nothing of the shortest TTL: an enrichment replaces the
  expiry of a pool, possibly by a later one, while `config.go:46` says "Shorter
  TTLs on received records will still be respected."
- No property says that the authenticator gets an input for every zone ("We
  expect one response per zone in the chain."): when the loop takes over a stored
  zone, the DS lookup of a zone above it may be left out.
- The counter of `MaxQueriesPerRequest` counts what the code counts: the SOA
  lookups of `checkForMissingZones` (`resolver_exchange.go:206`) are not among
  them, although `config.go:49-52` excludes only those for DNSKEY and DS.
- `SignedAsRequired` has a condition on the default policy (`Tidy`), because that
  policy works by type and the sections by number, where `signatures.go:41` speaks
  of "at least one signature per RRSet".
- `TTLIsEarned` leaves out signatures that end between the two readings of the
  clock: the time left then wraps, and the other bounds apply. The TTL of an RRSIG
  itself is not lowered.
- `GenuineIsSecure` leaves out what the NSEC proofs do not accept (`NotHandled`):
  no data at an empty non-terminal or at a wildcard, a wildcard over more than one
  label, and a wildcard that an alias leads to; also answers with several wildcard signatures, which the code rejects
  (a TODO there). With NSEC, `DeniedIsAbsent` looks at the wildcard next to the name.
- `CompleteAnswerWins` is about complete answers: a truncated one ("best we've
  got", `nameserver.go:173`) is lost when a later protocol fails.
- Entries of the cache expire by the TTL of their first record, whatever
  `MaxAllowedTTL` is, and a hit carries the TTLs that were stored.

**Bounds.** Two queries are enough for a race on a cursor, and the pools have zero
to two or more servers of each family, so that an index can be stale and a modulus
one. `MaxTime` stops the clock: after every TTL can have run out in `ZoneKeys` and
`Cache`; in `Pool` and `ZoneFactory` after a pool built at time 0 with a TTL of 1
has expired, while an enrichment near the end may outlast it. The tree has a zone
with a parent and a grandparent, so that a zone can be skipped, replaced or
orphaned; `MaxQueriesPerRequest` lets the longest name be resolved and lets the
limit be reached. There are enough pools for every zone in use and one more. The
two-exchange run leaves out `nested`, `server`, `lame` and `create`, which
`resolver_live` has with one exchange, and with a name that is itself the apex of
a zone. The owners of the records are those of the cuts and of names beside and
below them, alone and behind the NS records of a referral, so that a deeper record
on the way, one beside it, and none are met. The one-exchange runs have names of
three labels of which the first is no cut, so that `gap` passes a name without a
SOA record; the other has two labels, a cut each. The channel holds fewer inputs than there are. The authenticator's inputs
cover, for each of three zones, every kind of response and each with one thing
amiss; `Labels` is 2; none, one or two more responses are refused. `zone_factory` has `LazyEnrichment` false: true only removes
the background enrichment; a referral to a single host lets a pool have IPv6 servers
only. Requests and pools are symmetric in the run with a
`SYMMETRY`, which checks no liveness property.

`zone`: two keys in a shard of one, so that storing one evicts the other; a message
whose signatures expire in either order; a caller without a pool; UDP with fallback
to TCP, the shortest list with a fallback. `finalise`: three names whose aliases can
lead back to the first, three queries, so that loops reach the limit; every verdict
and code. `verification`: `Year68` is 4, so that times wrap within the instance;
each signature has one thing amiss at a time, in pairs; two keys share a tag; zones
have up to three names below the apex, with wildcards, delegations with and without
DS, aliases and empty non-terminals, under two hash functions that order names differently;
every subset of their records is tried.

**Deadlock** is checked except for `AuthQueue`, `Authenticator`, `Finalise` and
`Verification`, which model one exchange, request or response and stop at its end.

**Fairness.** Goroutines that can run do run, and every query ends, since clients
have time-outs: weak fairness of the steps. Two places need strong fairness: a
reader blocked by `Lock` gets in before the next writer (`sync.RWMutex`), and a
waiter for `dnskeyLock` is not starved (`sync.Mutex`). The calls of clients, the
clock, expiry and the IPv6 flag have none. The time-out in `enrichPool` is fair:
a timer fires. In `Finalise` one goroutine runs the request: weak fairness of `Next`.

## Proofs

All for every value of the constants that meets the module's named assumptions.

- `PoolProofs`: `PoolSafety` and `ResponsesAreThere`, from the inductive `PoolInv`.
  The lists are longer than the counts say, never shorter, and nothing shrinks: an
  index below a count stays inside the list, and a family that had a server keeps
  it. `ExpiryIsCapped`. `RetryAlone`, for at most one query: until its second try
  the cursor stays one past the server of the first (`RetryInv`), and the successor
  of an index modulo a count that has not shrunk is another index.
  `FactoryImplementsPool`: each step of the composition is a step of `Pool` or
  leaves it alone; `FactorySafety`, from `FactoryInv`: `status()` runs under the
  lock, so the counts it vouches for are stored. `FactoryNeverStuck`, from
  `HandoverInv`: the waiter leaves its `select` by `done` only once, and then the
  worker's flag keeps it from sending again. `QueriesRunOut`.
- `ConcurrencyProofs`, on two specifications that share no state. `AuthQueue`:
  `QueueSafety` and `SendsBeforeClose`, from `QueueInv`: the WaitGroup equals the
  goroutines and inputs under way, so zero means that nobody can send.
  `QueueNeverStuck`, from `ServedInv` besides: an input that is held has a sender
  and the consumer is there until the channel is closed, so a full channel is being
  emptied and a counter above zero has a goroutine to lower it. `QueueMovesForward`.
  `ZoneKeys`: `KeysExclusive` and `KeysNeverStuck`; `KeysSafety`, from `KeysInv`: the expiry belongs to the records,
  unless an empty answer came since they were received.
- `ResolverProofs`: `ResolverInvariant` and `ResolverSafety`, from `ResolverInv`:
  a fact about the exchange for each point of the loop (`OnWayInv`), as long as no
  referral misleads it; bounds on the cursor (`BoundInv`), also when one does; and a
  sound store. `CursorTracksZone`, `InputsAreDistinct` and `LabelsSuffice` are its
  parts. `CloneSafety`, from `FreshInv` besides: without expiry the zone of an
  exchange stays in the store, so the loop takes it over and asks with the cursor
  below it. `QuietAlone`, for at
  most one exchange at a time and no faults, from `QuietInv`: with a zone the store
  holds every zone above it, each the parent of the next, so `getZoneList` finds
  all there are on the way to the name, the loop takes over none unasked but the one
  it starts from, and every zone it leaves has been given to the authenticator.
  `ExchangeRunsOut`: a turn of the loop takes at most four steps and moves the
  cursor, which stays within the labels (`Rank`, `GapBounded`).
- `AuthenticatorProofs`: `TypeCorrect`; `ArrivalOrderIrrelevant`, `SecureIsChained`
  and `InsecureIsProven`, for any inputs over any number of labels, in whatever order
  they arrive. What is inductive is `ChainInv`: the results so far are those of the
  inputs above the index, from the root down, each verified against the DS records
  that the whole chain has for it, and the errors counted are at least the refusals
  (`ErrorsInv`), so that a single one shows. An input that answers the question is positive or
  negative: this is part of `Inputs`, as the other kinds have no answer section.
- `ZoneProofs`: `CacheSafety` and `CacheImplementsStore`. What is inductive is where
  an entry comes from: one received message, as an update read it at one time; that
  it is whole and signed follows. Each step of the cache is a step of `Store` or
  none: an update replaces one entry, evictions and removals only lose some.
  `ZoneUsesCache` and `ZoneSafety` carry this over to `Zone`;
  `ZoneCompleteAnswerWins` holds for every list of protocols.
- `FinaliseProofs`: `FinaliseTypes`; `ADIsEarned`, `BogusNeverAnswers`,
  `PartsAreReported` and `AliasesAreClosed`, for any aliases and any depth. The
  invariant says of every exchange on the stack that its message, verdict and code
  are honest about the parts so far and that each alias is settled or still to do.
  `RequestNeverStuck` and `RequestTerminates`, from the same invariant and `TodoInv`:
  what is still to do is an alias, so one of the steps applies to it.
- `DenialProofs`: the lemmas on the checks of `Denial`, which hold in any state.
  With NSEC3 the chain holds every ancestor of what is in it, so a covered name and
  all below it are absent; with NSEC nothing lies between a record and its next name.
  In the other direction, the order of names is total and a zone is finite, so the
  record before a name exists; held records match or cover what they were sent for,
  and the encloser that the code finds is the closest one.
- `VerificationProofs`: `SignedSets` (the signed sets are among the sets, so equal
  numbers make them the same), `VouchedKeys`, `TTLsAreEarned` (each TTL is a minimum
  of the bounds, and the one that wraps can only lower it). `GoodIsEnough`, from
  `EnoughInv`: a signature of a section that was reached is still to be looked at or
  has a result, and the result of a good one, if its set is there, is verified; so
  where every set has a good one, the numbers are equal and the policy is met at the
  end of a section.
  `ClosestEnclosers`, `DenialsAreTrue`, `WildcardsApply`, `UnsignedDelegations` and
  `GenuineAccepted`, from `ChecksInv` and the lemmas of `DenialProofs`: what `contents`
  draws meets their hypotheses.

The assumptions on the constants, which TLC evaluates on the instances:

- `SignaturesAssumption`: TTLs and times are numbers, a section has finitely many
  sets, and keys come with their DNSKEY set (`verify_dnskey.go:10-12` takes the keys
  out of that section);
- `DenialAssumption`: a zone is finite and has an apex, which alone has a SOA; a CNAME
  is alone; the apex and wildcards have no DS; hashes tell names apart. That the names
  of a zone have a least one after each other one is proved from this (`NextExists`).

`contents` draws only questions the zone is asked (`Authoritative`): nothing below
one of its delegations, and for a delegation the topmost cut. `Genuine` leaves out
names below a DNAME, which redirects them.

**Termination.** Liveness under fairness is beyond the prover, so the eight liveness
properties are only model-checked. What they need besides fairness is proved for
every instance: that the steps run out, and that until the end somebody can take one.

| Liveness property | Steps run out | Somebody can go on |
|---|---|---|
| `ExchangeEnds` | `ExchangeRunsOut`: at most 5n + 14 steps for n labels | the exchanges wait for no other |
| `ExchangeReturns` | `QueriesRunOut`: at most 18 steps, two tries | `ResponsesAreThere`, and the lock by `FactoryNeverStuck` |
| `CreateZoneReturns`, `WorkerEndsOrIsAbandoned` | | `FactoryNeverStuck` |
| `AuthReturns`, `ConsumerEnds` | `QueueMovesForward` | `QueueNeverStuck` |
| `DnskeysReturns` | | `KeysNeverStuck` |
| `RequestEnds` | `RequestTerminates` | `RequestNeverStuck` |

The step from these facts to `<>` is an argument about well-founded orders and
`ENABLED`, which is not formalised: the "somebody can go on" theorems name the
guards of the actions instead. The goroutines of the factory and the calls of
`dnskeys` have no entry in the second column because their few steps contain no
loop but the one over the questions of the worker, each asked once.

`RetryTriesAnother` and `QuietAnswers` are proved for one query or exchange at a
time, as the runs check them; the other safety properties without such a condition.

## Not modelled

- network clients (`clients/`), the command line, logging and tracing: I/O without
  state that the resolver reads;
- parsing of the root hints and trust anchors: files;
- cryptography and the encoding of messages: libraries;
- the metrics of nameservers and zones, which nothing reads;
- the decoding of escapes in labels (`doe/functions.go`): labels are numbers in
  canonical order;
- option functions of `config.go` that only assign a field.
