----------------------------- MODULE ZoneFactory -----------------------------
(***************************************************************************)
(* createZone and enrichPool (zone_factory.go): a pool built from a        *)
(* referral is handed out at once, or only once an address was found for   *)
(* one of its hosts.  Three goroutines meet here: the caller of createZone,*)
(* the one that waits in enrichPool's select (the caller itself, unless    *)
(* the enrichment is optional), and the worker that resolves the hosts and *)
(* calls pool.enrich.  The queries of Pool start once the zone exists.     *)
(*                                                                         *)
(* createZone's first test, that the name lies below its parent, cannot    *)
(* fail here: processDelegation has made it (module Resolver).             *)
(***************************************************************************)
EXTENDS Pool

CONSTANT LazyEnrichment

ASSUME LazyAssumption == LazyEnrichment \in BOOLEAN

VARIABLES
  creator,     \* createZone: "start", "waiting", "created" or "failed"
  waiter,      \* enrichPool: "none", "begin", "select", "check" or its outcome
  worker,      \* enrichPool's goroutine
  todo,        \* the questions <<family, host>> the worker has not asked yet
  doneCalled   \* the worker's flag of that name

fvars == <<creator, waiter, worker, todo, doneCalled>>
allVars == <<vars, fvars>>

FactoryInit ==
  /\ Init
  /\ expires > 0
  /\ creator = "start"
  /\ waiter = "none"
  /\ worker = "none"
  /\ todo = {}
  /\ doneCalled = FALSE

-----------------------------------------------------------------------------
(* createZone, up to its return or to the call of enrichPool. *)
createZone ==
  /\ creator = "start"
  /\ writer = "none"
  /\ \/ /\ status = "PrimedButNeedsEnhancing"
        /\ creator' = "created"
        /\ waiter' = IF LazyEnrichment THEN "none" ELSE "begin"
     \/ /\ status = "PoolPrimed"
        /\ creator' = "created"
        /\ UNCHANGED waiter
     \/ /\ status = "PoolHasHostnamesButNoIpAddresses"
        /\ creator' = "waiting"
        /\ waiter' = "begin"
     \/ /\ status = "PoolEmpty"
        /\ creator' = "failed"
        /\ UNCHANGED waiter
  /\ UNCHANGED <<vars, worker, todo, doneCalled>>

(* What enrichPool returns decides the fate of a zone that depends on it. *)
enrichPoolReturns(outcome) ==
  /\ waiter' = outcome
  /\ creator' = IF creator # "waiting" THEN creator
                ELSE IF outcome = "enriched" THEN "created" ELSE "failed"

(* The hosts to resolve, at most DesireNumberOfNameserversPerZone of them: A *)
(* first and, if IPv6 looks available now, AAAA.  A pool without hosts is    *)
(* refused: createZone comes here with one when all its servers are IPv6     *)
(* servers and IPv6 is not available.                                        *)
Questions(chosen) ==
  {<<f, h>> : f \in IF ipv6 THEN Family ELSE {"v4"}, h \in chosen}

enrichPool ==
  /\ waiter = "begin"
  /\ \/ /\ hosts = {}
        /\ enrichPoolReturns("failed")
        /\ UNCHANGED <<worker, todo>>
     \/ /\ hosts # {}
        /\ \E chosen \in SUBSET hosts :
             /\ Cardinality(chosen) =
                  Min({Cardinality(hosts), DesireNumberOfNameserversPerZone})
             /\ todo' = Questions(chosen)
        /\ worker' = "ask"
        /\ waiter' = "select"
        /\ UNCHANGED creator
  /\ UNCHANGED <<vars, doneCalled>>

-----------------------------------------------------------------------------
(* The worker.  An answer comes from a recursive exchange with the resolver; *)
(* an error, an empty response and an empty answer section are passed over.  *)

NextQuestion(q) ==
  /\ q \in todo
  /\ q[1] = "v6" => \A other \in todo : other[1] = "v6"

workerNoAnswer ==
  /\ worker = "ask"
  /\ \E q \in todo : NextQuestion(q) /\ todo' = todo \ {q}
  /\ UNCHANGED <<vars, creator, waiter, worker, doneCalled>>

workerAnswer ==
  /\ worker = "ask"
  /\ \E q \in todo, records \in AddressSets :
       /\ NextQuestion(q)
       /\ todo' = todo \ {q}
       /\ \A r \in records : r.fam \in {q[1], "cname"}
       /\ enrich(records)
  /\ worker' = "enriching"
  /\ UNCHANGED <<creator, waiter, doneCalled>>

workerCount4 ==
  /\ updateIPv4Count
  /\ UNCHANGED fvars

(* Seeded bug: every answer is reported on done. *)
workerCount6Reports ==
  /\ updateIPv6Count
  /\ worker' = "send"
  /\ UNCHANGED <<creator, waiter, todo, doneCalled>>

workerCount6 ==
  /\ updateIPv6Count
  /\ worker' = IF doneCalled THEN "ask" ELSE "send"
  /\ UNCHANGED <<creator, waiter, todo, doneCalled>>

(* done is unbuffered: the send needs the waiter in its select. *)
workerDone ==
  /\ worker = "send"
  /\ waiter = "select"
  /\ worker' = "ask"
  /\ doneCalled' = TRUE
  /\ waiter' = "check"
  /\ UNCHANGED <<vars, creator, todo>>

workerEnds ==
  /\ worker = "ask"
  /\ todo = {}
  /\ worker' = "finished"
  /\ UNCHANGED <<vars, creator, waiter, todo, doneCalled>>

Worker ==
  \/ workerNoAnswer
  \/ workerAnswer
  \/ workerCount4
  \/ workerCount6
  \/ workerDone
  \/ workerEnds

-----------------------------------------------------------------------------
(* Seeded bug: the status of the pool is not looked at again. *)
enrichPoolDoneUnchecked ==
  /\ waiter = "check"
  /\ writer = "none"
  /\ enrichPoolReturns("enriched")
  /\ UNCHANGED <<vars, worker, todo, doneCalled>>

(* The select's two outcomes: done, and then status() under RLock, or the    *)
(* three seconds.  The clock of Pool only dates records: the time-out may    *)
(* come at any moment.                                                       *)
enrichPoolDone ==
  /\ waiter = "check"
  /\ writer = "none"
  /\ enrichPoolReturns(IF status \in {"PoolPrimed", "PrimedButNeedsEnhancing"}
                       THEN "enriched" ELSE "failed")
  /\ UNCHANGED <<vars, worker, todo, doneCalled>>

(* Seeded bug: the time-out starts the wait anew. *)
enrichPoolTimeoutRestarts ==
  /\ waiter = "select"
  /\ UNCHANGED allVars

enrichPoolTimeout ==
  /\ waiter = "select"
  /\ enrichPoolReturns("timedout")
  /\ UNCHANGED <<vars, worker, todo, doneCalled>>

(* The zone, once created, is queried. *)
zoneExchange(p) ==
  /\ creator = "created"
  /\ exchange(p)
  /\ UNCHANGED fvars

Environment ==
  /\ UpdateIPv6Availability \/ Tick
  /\ UNCHANGED fvars

FactoryNext ==
  \/ createZone
  \/ enrichPool
  \/ Worker
  \/ enrichPoolDone
  \/ enrichPoolTimeout
  \/ \E p \in Requests : zoneExchange(p)
  \/ Environment

FactorySpec == FactoryInit /\ [][FactoryNext]_allVars

(* Goroutines that can run do run; the exchange behind workerNoAnswer and    *)
(* workerAnswer ends, as its queries are bounded; the timer fires; a server's *)
(* answer or the client's time-out ends every wait.  A reader blocked by Lock *)
(* goes before the next writer (sync.RWMutex), hence strong fairness for     *)
(* getPick.                                                                  *)
FactoryFairness ==
  /\ WF_allVars(createZone)
  /\ WF_allVars(enrichPool)
  /\ WF_allVars(Worker)
  /\ WF_allVars(enrichPoolDone)
  /\ WF_allVars(enrichPoolTimeout)
  /\ \A p \in Requests :
       /\ WF_allVars(zoneExchange(p) /\ ~At(p, "idle"))
       /\ SF_allVars(zoneExchange(p) /\ At(p, "pick"))

FairFactorySpec == FactorySpec /\ FactoryFairness

-----------------------------------------------------------------------------
(* Properties *)

(* Every local of the three goroutines has a value of its domain.            *)
FactoryTypeOK ==
  /\ TypeOK
  /\ creator \in {"start", "waiting", "created", "failed"}
  /\ waiter \in {"none", "begin", "select", "check", "enriched", "failed", "timedout"}
  /\ worker \in {"none", "ask", "enriching", "send", "finished"}
  /\ todo \subseteq Family \X HostsOf(UNION Delegations)
  /\ doneCalled \in BOOLEAN

(* A zone createZone hands out has a server its queries can be sent to: no   *)
(* exchange with it fails with ErrNoPoolConfiguredForZone, whatever happens  *)
(* to the enrichment and to IPv6 meanwhile.                                  *)
CreatedZoneUsable ==
  /\ creator = "created" => count["v4"] + count["v6"] > 0
  /\ \A p \in Requests : At(p, "return") => req[p].has # {}

(* createZone returns, with a zone or with an error, even if no host can be  *)
(* resolved.                                                                 *)
CreateZoneReturns == <>(creator \in {"created", "failed"})

(* The inductive invariant behind CreatedZoneUsable: status() runs under the *)
(* lock, so the counts it vouches for are already stored; a query that saw   *)
(* no IPv4 server will see the IPv6 server the zone was created with.        *)
FactoryInv ==
  /\ PoolInv
  /\ creator = "created" => count["v4"] + count["v6"] > 0
  /\ \A p \in Requests :
       /\ ~At(p, "idle") => creator = "created"
       /\ At(p, "has6") => req[p].has # {} \/ count["v6"] > 0
       /\ At(p, "return") => req[p].has # {}

(* The worker ends, unless the waiter left by the time-out: then it may stay *)
(* blocked on done for ever.                                                 *)
WorkerEndsOrIsAbandoned ==
  worker = "ask" ~> \/ worker = "finished"
                    \/ worker = "send" /\ waiter = "timedout"
=============================================================================
