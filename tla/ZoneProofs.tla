----------------------------- MODULE ZoneProofs -----------------------------
(***************************************************************************)
(* The cache keeps whole sets of received messages and implements the      *)
(* abstract store, for any keys, messages, callers and workers; and the    *)
(* exchange of a zone uses it as its specification allows.                 *)
(***************************************************************************)
EXTENDS Zone, TLAPS

(* Where an entry comes from: the message of R and the time up to n at     *)
(* which an update goroutine read it.  This is what the steps preserve;    *)
(* that entries are whole and signed follows from it.                      *)
Origin(R, n, e, k) ==
  \E m \in R, t \in 0..n :
    ~m.truncated /\ Storable(m, k, t) /\ e = NewEntry(m, k, t)

JobInv(R, n, j) ==
  /\ j.msg \in R
  /\ j.at = NoTime => j.todo = {}
  /\ j.at # NoTime => j.at \in 0..n
  /\ \A k \in j.todo : ~j.msg.truncated /\ Storable(j.msg, k, j.at)

CallInv(R, n, x) ==
  /\ x.pc = "idle" => x = NoCall
  /\ x.pc # "idle" => x.key \in Keys
  /\ x.pc = "hit" => Origin(R, n, x.entry, x.key) /\ ~Expired(x.entry, x.at)
  /\ x.pc = "hit" => x.entry # None
  /\ x.pc # "hit" => x.entry = None

CacheInv ==
  /\ TypeOK
  /\ \A k \in Keys : cache[k] # None => Origin(received, now, cache[k], k)
  /\ \A c \in Callers : CallInv(received, now, calls[c])
  /\ \A w \in Workers : jobs[w] # None => JobInv(received, now, jobs[w])

-----------------------------------------------------------------------------
(* What an origin gives: the entry is an entry of the type, and a whole    *)
(* set of its message (Signatures and Storable of UpdateWithTime).         *)
LEMMA OriginIsWhole ==
  ASSUME NEW e, NEW m, NEW k, NEW t,
         ~m.truncated, Storable(m, k, t), e = NewEntry(m, k, t)
  PROVE  IsSetOf(e, m, k, t)
<1>1. \A sig \in e.signatures : ValidityPeriod(sig, t)
  BY DEF NewEntry, Signatures
<1>2. Covering(m, k) # {} => e.signatures # {}
  BY DEF NewEntry, Storable
<1>3. QED  BY <1>1, <1>2 DEF IsSetOf, NewEntry


(* An origin lies in the type of entries.                                  *)
LEMMA OriginIsEntry ==
  ASSUME NEW R, R \subseteq Messages, NEW n \in 0..MaxTime,
         NEW e, NEW k \in Keys, Origin(R, n, e, k)
  PROVE  e \in Entries
<1>1. PICK m \in R, t \in 0..n :
        ~m.truncated /\ Storable(m, k, t) /\ e = NewEntry(m, k, t)
  BY DEF Origin
<1>2. <<m, k, t>> \in {y \in Messages \X Keys \X (0..MaxTime) :
                         ~y[1].truncated /\ Storable(y[1], y[2], y[3])}
  BY <1>1, CacheAssumption
<1>3. e = NewEntry(<<m, k, t>>[1], <<m, k, t>>[2], <<m, k, t>>[3])
  BY <1>1
<1>4. QED  BY <1>2, <1>3 DEF Entries

(* What is known of entries, lookups and updates stays true while messages *)
(* are received and time passes.                                           *)
LEMMA OriginGrows ==
  ASSUME NEW R, NEW S, R \subseteq S, NEW n \in Nat, NEW p \in Nat, n <= p
  PROVE  /\ \A e, k : Origin(R, n, e, k) => Origin(S, p, e, k)
         /\ \A x : CallInv(R, n, x) => CallInv(S, p, x)
         /\ \A j : JobInv(R, n, j) => JobInv(S, p, j)
<1>1. 0..n \subseteq 0..p
  OBVIOUS
<1>2. \A e, k : Origin(R, n, e, k) => Origin(S, p, e, k)
  BY <1>1 DEF Origin
<1>3. \A x : CallInv(R, n, x) => CallInv(S, p, x)
  BY <1>2 DEF CallInv
<1>4. \A j : JobInv(R, n, j) => JobInv(S, p, j)
  BY <1>1 DEF JobInv
<1>5. QED  BY <1>2, <1>3, <1>4


(* The cache is empty at the start. *)
LEMMA CacheInitInv == Init => CacheInv
<1> SUFFICES ASSUME Init PROVE CacheInv
  OBVIOUS
<1>1. TypeOK
  BY CacheAssumption DEF Init, TypeOK, NoCall
<1>2. \A c \in Callers : CallInv(received, now, calls[c])
  BY DEF Init, CallInv, NoCall
<1>3. QED  BY <1>1, <1>2 DEF Init, CacheInv

(* One step of a lookup (GetWithTime of cache.go). *)
LEMMA LookupInv ==
  ASSUME CacheInv, NEW c \in Callers, Lookup(c)
  PROVE  CacheInv'
<1>0. /\ TypeOK
      /\ CallInv(received, now, calls[c])
      /\ now' = now /\ jobs' = jobs /\ received' = received
  BY DEF CacheInv, Lookup, Get, GetWithTime, GetRemove, GetReturn
<1>1. CASE Get(c)
  <2>1. PICK k \in Keys : calls' = [calls EXCEPT ![c] =
          [pc |-> "read", key |-> k, at |-> now, entry |-> None]]
    BY <1>1, Zenon DEF Get
  <2>2. CallInv(received, now, calls'[c])
    BY <2>1, <1>0 DEF TypeOK, CallInv
  <2>3. TypeOK'
    BY <2>1, <1>0, <1>1 DEF TypeOK, Get
  <2>4. \A b \in Callers : CallInv(received, now, calls'[b])
    BY <2>1, <2>2, <1>0 DEF TypeOK, CacheInv
  <2>5. QED  BY <2>3, <2>4, <1>0, <1>1 DEF CacheInv, Get
<1>2. CASE GetWithTime(c)
  <2> DEFINE e == cache[calls[c].key]
  <2>1. /\ calls[c].pc = "read" /\ calls[c].key \in Keys
        /\ calls[c].entry = None
    BY <1>0, <1>2 DEF GetWithTime, CallInv
  <2>2. e # None => Origin(received, now, e, calls[c].key)
    BY <2>1 DEF CacheInv
  <2>3. CallInv(received, now, calls'[c]) /\ calls'[c] \in
          [pc : {"idle", "read", "remove", "hit", "miss"}, key : Keys \cup {None},
           at : 0..MaxTime, entry : Entries \cup {None}]
    <3>0. calls[c] \in [pc : {"idle", "read", "remove", "hit", "miss"},
                        key : Keys \cup {None}, at : 0..MaxTime,
                        entry : Entries \cup {None}] /\ e \in Entries \cup {None}
      BY <2>1, <1>0 DEF TypeOK
    <3>1. CASE e = None \/ Expired(e, calls[c].at)
      <4>1. \/ calls'[c] = [calls[c] EXCEPT !.pc = "miss", !.entry = None]
            \/ calls'[c] = [calls[c] EXCEPT !.pc = "remove", !.entry = None]
        BY <3>1, <1>0, <1>2, Zenon DEF TypeOK, GetWithTime
      <4>2. QED  BY <4>1, <3>0, <2>1, Zenon DEF CallInv
    <3>2. CASE e # None /\ ~Expired(e, calls[c].at)
      <4>1. calls'[c] = [calls[c] EXCEPT !.pc = "hit", !.entry = e]
        BY <3>2, <1>0, <1>2, ZenonT(30) DEF TypeOK, GetWithTime
      <4> HIDE DEF e
      <4>2. QED  BY <4>1, <3>0, <3>2, <2>1, <2>2, Zenon DEF CallInv
    <3>3. QED  BY <3>1, <3>2
  <2>4. TypeOK'
    BY <2>3, <1>0, <1>2 DEF TypeOK, GetWithTime
  <2>5. \A b \in Callers : CallInv(received, now, calls'[b])
    BY <2>3, <1>0, <1>2 DEF TypeOK, CacheInv, GetWithTime
  <2>6. QED  BY <2>4, <2>5, <1>0, <1>2, Zenon DEF CacheInv, GetWithTime
<1>3. CASE GetRemove(c)
  <2>1. /\ cache' = [cache EXCEPT ![calls[c].key] = None]
        /\ calls' = [calls EXCEPT ![c].pc = "miss"]
        /\ calls[c].pc = "remove"
    BY <1>3 DEF GetRemove, Remove
  <2>2. CallInv(received, now, calls'[c])
    BY <2>1, <1>0 DEF TypeOK, CallInv
  <2>3. TypeOK'
    BY <2>1, <1>0, ZenonT(30) DEF TypeOK
  <2>4. \A b \in Callers : CallInv(received, now, calls'[b])
    BY <2>1, <2>2, <1>0 DEF TypeOK, CacheInv
  <2>5. \A k \in Keys : cache'[k] # None => cache'[k] = cache[k]
    BY <2>1, <1>0 DEF TypeOK
  <2>6. QED  BY <2>3, <2>4, <2>5, <1>0 DEF CacheInv
<1>4. CASE GetReturn(c)
  <2>1. calls' = [calls EXCEPT ![c] = NoCall] /\ cache' = cache
    BY <1>4 DEF GetReturn, Finish
  <2>2. CallInv(received, now, calls'[c])
    BY <2>1, <1>0 DEF TypeOK, CallInv, NoCall
  <2>3. TypeOK'
    BY <2>1, <1>0, CacheAssumption DEF TypeOK, NoCall
  <2>4. \A b \in Callers : CallInv(received, now, calls'[b])
    BY <2>1, <2>2, <1>0 DEF TypeOK, CacheInv
  <2>5. QED  BY <2>1, <2>3, <2>4, <1>0 DEF CacheInv
<1>5. QED  BY <1>1, <1>2, <1>3, <1>4 DEF Lookup


(* A caller returns and leaves what it received to an update goroutine. *)
LEMMA UpdateInv ==
  ASSUME CacheInv, NEW c \in Callers, NEW w \in Workers, NEW m \in Messages,
         Update(c, w, m)
  PROVE  CacheInv'
<1>1. /\ jobs' = [jobs EXCEPT ![w] = [msg |-> m, at |-> NoTime, todo |-> {}]]
      /\ received' = received \cup {m}
      /\ cache' = cache /\ now' = now /\ calls' = [calls EXCEPT ![c] = NoCall]
  BY DEF Update, Spawn, Finish
<1>2. TypeOK'
  BY <1>1, CacheAssumption DEF CacheInv, TypeOK, NoCall
<1>3. now \in Nat /\ received \subseteq received'
  BY <1>1, CacheAssumption DEF CacheInv, TypeOK
<1>4. /\ \A k \in Keys : cache'[k] # None => Origin(received', now', cache'[k], k)
      /\ \A b \in Callers : CallInv(received', now', calls[b])
      /\ \A v \in Workers : jobs[v] # None => JobInv(received', now', jobs[v])
  BY <1>1, <1>3, OriginGrows DEF CacheInv
<1>5. JobInv(received', now', jobs'[w])
  BY <1>1 DEF CacheInv, TypeOK, JobInv
<1>6. \A v \in Workers : jobs'[v] # None => JobInv(received', now', jobs'[v])
  BY <1>1, <1>4, <1>5, Zenon DEF CacheInv, TypeOK
<1>7. \A b \in Callers : CallInv(received', now', calls'[b])
  BY <1>1, <1>4, Zenon DEF CacheInv, TypeOK, CallInv, NoCall
<1>8. QED  BY <1>2, <1>4, <1>6, <1>7 DEF CacheInv

(* UpdateWithTime of cache.go: what is to be stored is storable. *)
LEMMA SplitInv ==
  ASSUME CacheInv, NEW w \in Workers, UpdateWithTime(w)
  PROVE  CacheInv'
<1> DEFINE m == jobs[w].msg
           todo == {k \in Keys : ~m.truncated /\ Storable(m, k, now)}
<1>1. /\ jobs' = [jobs EXCEPT ![w] = Job(m, now, todo)]
      /\ cache' = cache /\ now' = now /\ calls' = calls /\ received' = received
      /\ jobs[w] # None /\ JobInv(received, now, jobs[w])
  BY DEF UpdateWithTime, CacheInv
<1>2. m \in received /\ m \in Messages /\ now \in 0..now /\ now # NoTime
  BY <1>1, CacheAssumption DEF JobInv, CacheInv, TypeOK, NoTime
<1>3. todo \subseteq Keys
      /\ \A k \in todo : ~m.truncated /\ Storable(m, k, now)
  OBVIOUS
<1> HIDE DEF todo, m
<1>4. jobs'[w] # None => /\ jobs'[w] = [msg |-> m, at |-> now, todo |-> todo]
                         /\ JobInv(received, now, jobs'[w])
  BY <1>1, <1>2, <1>3 DEF Job, JobInv, CacheInv, TypeOK
<1>5. TypeOK'
  <2>1. jobs'[w] \in {None} \cup
          [msg : Messages, at : {NoTime} \cup 0..MaxTime, todo : SUBSET Keys]
    BY <1>2, <1>3, <1>4 DEF CacheInv, TypeOK
  <2>2. QED  BY <1>1, <2>1 DEF CacheInv, TypeOK
<1>6. QED  BY <1>1, <1>4, <1>5 DEF CacheInv, TypeOK

(* A set is stored: the key has an origin, the others keep theirs. *)
LEMMA AddInv ==
  ASSUME CacheInv, NEW w \in Workers, NEW k \in Keys, UpdateAdd(w, k)
  PROVE  CacheInv'
<1> DEFINE j == jobs[w]
           e == NewEntry(j.msg, k, j.at)
<1>1. /\ Add(k, e)
      /\ jobs' = [jobs EXCEPT ![w] = Job(j.msg, j.at, j.todo \ {k})]
      /\ now' = now /\ calls' = calls /\ received' = received
      /\ j # None /\ k \in j.todo
  BY DEF UpdateAdd
<1>2. /\ JobInv(received, now, j)
      /\ j \in [msg : Messages, at : {NoTime} \cup 0..MaxTime, todo : SUBSET Keys]
  BY <1>1 DEF CacheInv, TypeOK
<1>3. Origin(received, now, e, k)
  BY <1>1, <1>2 DEF Origin, JobInv
<1>4. e \in Entries
  BY <1>3, OriginIsEntry DEF CacheInv, TypeOK
<1> HIDE DEF e
<1>5. /\ cache' \in [Keys -> Entries \cup {None}]
      /\ cache'[k] = e
      /\ \A i \in Keys \ {k} : cache'[i] \in {cache[i], None}
  BY <1>1, <1>4 DEF Add, Held, CacheInv, TypeOK
<1>6. \A i \in Keys : cache'[i] # None => Origin(received, now, cache'[i], i)
  BY <1>3, <1>5 DEF CacheInv
<1>7. jobs'[w] # None =>
        /\ JobInv(received, now, jobs'[w])
        /\ jobs'[w] \in
             [msg : Messages, at : {NoTime} \cup 0..MaxTime, todo : SUBSET Keys]
  <2>1. jobs'[w] # None =>
          jobs'[w] = [msg |-> j.msg, at |-> j.at, todo |-> j.todo \ {k}]
    BY <1>1 DEF Job, CacheInv, TypeOK
  <2>2. QED  BY <2>1, <1>1, <1>2 DEF JobInv
<1>8. TypeOK'
  BY <1>1, <1>5, <1>7, Zenon DEF CacheInv, TypeOK
<1>9. QED  BY <1>1, <1>6, <1>7, <1>8, ZenonT(30) DEF CacheInv, TypeOK

(* Time passing makes no entry younger. *)
LEMMA TickInv ==
  ASSUME CacheInv, Tick
  PROVE  CacheInv'
<1>1. now \in Nat /\ now' \in Nat /\ now <= now' /\ now' \in 0..MaxTime
  BY CacheAssumption DEF CacheInv, TypeOK, Tick
<1>2. TypeOK'
  BY <1>1 DEF CacheInv, TypeOK, Tick
<1>3. QED  BY <1>1, <1>2, OriginGrows, Zenon DEF CacheInv, Tick

(* Every step of the cache keeps the invariant. *)
LEMMA CacheStepInv == CacheInv /\ [Next]_vars => CacheInv'
<1> SUFFICES ASSUME CacheInv, [Next]_vars PROVE CacheInv'
  OBVIOUS
<1>1. CASE Next
  BY <1>1, LookupInv, UpdateInv, SplitInv, AddInv, TickInv DEF Next, Work
<1>2. CASE UNCHANGED vars
  BY <1>2 DEF vars, CacheInv, TypeOK
<1>3. QED  BY <1>1, <1>2

(* Hence it always holds. *)
LEMMA CacheInvariance == Spec => []CacheInv
BY CacheInitInv, CacheStepInv, PTL DEF Spec


(* UpdateWithTime and GetWithTime, run by any number of goroutines: every  *)
(* entry is a whole set of one received, untruncated message, with valid   *)
(* signatures if it was signed, and a caller only gets such an entry,      *)
(* unexpired when its lookup began.                                        *)
THEOREM CacheSafety == Spec => [](TypeOK /\ EntriesAreWhole /\ HitsAreLive)
<1>1. CacheInv => TypeOK /\ EntriesAreWhole /\ HitsAreLive
  <2> SUFFICES ASSUME CacheInv PROVE EntriesAreWhole /\ HitsAreLive
    BY DEF CacheInv
  <2>1. \A e, k : Origin(received, now, e, k) =>
          \E m \in received, t \in 0..now : IsSetOf(e, m, k, t)
    BY OriginIsWhole DEF Origin
  <2>2. EntriesAreWhole
    BY <2>1 DEF CacheInv, EntriesAreWhole
  <2>3. HitsAreLive
    BY <2>1 DEF CacheInv, CallInv, HitsAreLive
  <2>4. QED  BY <2>2, <2>3
<1>2. QED  BY <1>1, CacheInvariance, PTL

-----------------------------------------------------------------------------
(* The refinement *)

(* A caller that returns leaves the store. *)
LEMMA LeaveRefines ==
  ASSUME CacheInv, NEW c \in Callers, calls[c].pc \in {"hit", "miss"},
         calls' = [calls EXCEPT ![c] = NoCall], now' = now, cache' = cache
  PROVE  Promise!Leave(c)
<1>0. DOMAIN calls = Callers
  BY DEF CacheInv, TypeOK
<1>1. Asks' = [Asks EXCEPT ![c] = Promise!NoAsk]
  BY <1>0, Zenon DEF Asks, Phase, NoCall, Promise!NoAsk
<1>2. Asks[c].state = "given"
  BY DEF Asks, Phase
<1>3. QED  BY <1>1, <1>2 DEF Promise!Leave

(* Every step of a lookup is one of the store. *)
LEMMA LookupRefines ==
  ASSUME CacheInv, NEW c \in Callers, Lookup(c)
  PROVE  Promise!Next
<1>0. /\ calls \in [Callers ->
           [pc : {"idle", "read", "remove", "hit", "miss"}, key : Keys \cup {None},
            at : 0..MaxTime, entry : Entries \cup {None}]]
      /\ cache \in [Keys -> Entries \cup {None}]
      /\ CallInv(received, now, calls[c])
  BY DEF CacheInv, TypeOK
<1>1. CASE Get(c)
  <2>1. PICK k \in Keys : calls' = [calls EXCEPT ![c] =
          [pc |-> "read", key |-> k, at |-> now, entry |-> None]]
    BY <1>1, Zenon DEF Get
  <2>2. Asks' = [Asks EXCEPT ![c] = [state |-> "asked", key |-> k,
                                     since |-> now, entry |-> None]]
    BY <1>0, <2>1, Zenon DEF Asks, Phase
  <2>3. Asks[c].state = "idle"
    BY <1>1 DEF Get, Asks, Phase
  <2>4. Promise!Ask(c)
    BY <1>1, <2>2, <2>3, Zenon DEF Get, Promise!Ask
  <2>5. QED  BY <2>4 DEF Promise!Next
<1>2. CASE GetWithTime(c)
  <2> DEFINE e == cache[calls[c].key]
             g == calls'[c].entry
  <2>1. /\ calls[c].pc = "read" /\ calls[c].key \in Keys
        /\ calls'[c].pc \in {"miss", "remove", "hit"}
        /\ calls' = [calls EXCEPT ![c] = [pc |-> calls'[c].pc, key |-> calls[c].key,
                                          at |-> calls[c].at, entry |-> g]]
    <3>1. calls[c].pc = "read" /\ calls[c].key \in Keys
      BY <1>0, <1>2 DEF GetWithTime, CallInv
    <3>2. PICK p \in {"miss", "remove", "hit"}, h \in {None, e} :
            calls' = [calls EXCEPT ![c].pc = p, ![c].entry = h]
      BY <1>2, Zenon DEF GetWithTime
    <3>3. calls'[c] = [pc |-> p, key |-> calls[c].key,
                       at |-> calls[c].at, entry |-> h]
      BY <1>0, <3>2, ZenonT(30)
    <3>4. QED  BY <1>0, <3>1, <3>2, <3>3, ZenonT(30)
  <2>2. g \in {None, e} /\ (g = None \/ (g # None /\ ~Expired(g, calls[c].at)))
    BY <1>0, <1>2 DEF GetWithTime
  <2> HIDE DEF g
  <2>3. Asks' = [Asks EXCEPT ![c] = [state |-> "given", key |-> @.key,
                                     since |-> @.since, entry |-> g]]
    <3>1. PICK p \in {"miss", "remove", "hit"} :
            calls' = [calls EXCEPT ![c] = [pc |-> p, key |-> calls[c].key,
                                           at |-> calls[c].at, entry |-> g]]
      BY <2>1
    <3>2. Phase(p) = "given"
      BY DEF Phase
    <3>3. Asks[c].key = calls[c].key /\ Asks[c].since = calls[c].at
      BY DEF Asks
    <3>4. Asks' = [Asks EXCEPT ![c] = [state |-> Phase(p), key |-> calls[c].key,
                                       since |-> calls[c].at, entry |-> g]]
      BY <1>0, <3>1, Zenon DEF Asks
    <3>5. QED  BY <3>2, <3>3, <3>4
  <2>4. Asks[c].state = "asked" /\ Asks[c].key = calls[c].key
        /\ Asks[c].since = calls[c].at
    BY <2>1 DEF Asks, Phase
  <2>5. Promise!Give(c)
    BY <1>2, <2>2, <2>3, <2>4, Zenon DEF GetWithTime, Promise!Give, Promise!Live, Expired
  <2>6. QED  BY <2>5 DEF Promise!Next
<1>3. CASE GetRemove(c)
  <2>1. /\ calls[c].pc = "remove" /\ calls[c].key \in Keys
        /\ cache' = [cache EXCEPT ![calls[c].key] = None]
        /\ calls' = [calls EXCEPT ![c].pc = "miss"] /\ now' = now
    BY <1>0, <1>3 DEF GetRemove, Remove, CallInv
  <2>2. Asks' = Asks
    BY <1>0, <2>1 DEF Asks, Phase
  <2>3. Promise!Hold(calls[c].key)
    BY <1>0, <2>1, <2>2 DEF Promise!Hold
  <2>4. QED  BY <2>1, <2>3 DEF Promise!Next
<1>4. CASE GetReturn(c)
  <2>1. calls[c].pc \in {"hit", "miss"} /\ calls' = [calls EXCEPT ![c] = NoCall]
    BY <1>4 DEF GetReturn, Finish
  <2>2. Promise!Leave(c)
    BY <1>4, <2>1, LeaveRefines, Zenon DEF GetReturn
  <2>3. QED  BY <2>2 DEF Promise!Next
<1>5. QED  BY <1>1, <1>2, <1>3, <1>4 DEF Lookup

(* An addition, evictions included, is one of the store. *)
LEMMA AddRefines ==
  ASSUME CacheInv, NEW w \in Workers, NEW k \in Keys, UpdateAdd(w, k)
  PROVE  Promise!Hold(k)
<1>1. cache' \in [Keys -> Entries \cup {None}]
  BY AddInv DEF CacheInv, TypeOK
<1>2. \A i \in Keys \ {k} : cache'[i] \in {cache[i], None}
  BY DEF CacheInv, TypeOK, UpdateAdd, Add
<1>3. QED  BY <1>1, <1>2 DEF UpdateAdd, Promise!Hold, Asks

(* Removals that race with updates, evictions and late updates: the cache  *)
(* of cache.go is an expiring lossy store for any number of goroutines.    *)
THEOREM CacheImplementsStore == Spec => ImplementsStore
<1>1. Init => Promise!Init
  BY DEF Init, Promise!Init, Asks, NoCall, Phase, Promise!NoAsk
<1>2. CacheInv /\ [Next]_vars => [Promise!Next]_(Promise!vars)
  <2> SUFFICES ASSUME CacheInv, [Next]_vars
               PROVE  Promise!Next \/ UNCHANGED Promise!vars
    OBVIOUS
  <2>1. CASE Tick
    BY <2>1 DEF Tick, Promise!Next, Promise!Pass, Asks
  <2>2. ASSUME NEW c \in Callers, Lookup(c) PROVE Promise!Next
    BY <2>2, LookupRefines
  <2>3. ASSUME NEW w \in Workers, UpdateWithTime(w) PROVE UNCHANGED Promise!vars
    BY <2>3 DEF UpdateWithTime, Promise!vars, Asks
  <2>4. ASSUME NEW w \in Workers, NEW k \in Keys, UpdateAdd(w, k) PROVE Promise!Next
    BY <2>4, AddRefines DEF Promise!Next
  <2>5. ASSUME NEW c \in Callers, NEW w \in Workers, NEW m \in Messages,
               Update(c, w, m)
        PROVE  Promise!Next
    <3>1. calls[c].pc = "miss" /\ calls' = [calls EXCEPT ![c] = NoCall]
      BY <2>5 DEF Update, Finish
    <3>2. Promise!Leave(c)
      BY <2>5, <3>1, LeaveRefines, Zenon DEF Update
    <3>3. QED  BY <3>2 DEF Promise!Next
  <2>6. CASE UNCHANGED vars
    BY <2>6 DEF vars, Promise!vars, Asks
  <2>7. QED  BY <2>1, <2>2, <2>3, <2>4, <2>5, <2>6 DEF Next, Work
<1>3. QED  BY <1>1, <1>2, CacheInvariance, PTL DEF Spec, ImplementsStore, Promise!Spec

-----------------------------------------------------------------------------
(* The exchange of a zone *)

Names == {"udp", "tcp", "dot", "doq"}

TriedType ==
  /\ protocols \in Seq(Names) /\ Len(protocols) >= 1
  /\ tried \in [Callers -> Seq(Messages \cup {Failed})]

ZoneInv == TriedType /\ CompleteAnswerWins

(* WithClient of config.go always names a protocol. *)
LEMMA SomeProtocol ==
  ASSUME NEW cl \in Clients
  PROVE  LET p == WithClient(cl[1], cl[2]) IN p \in Seq(Names) /\ Len(p) >= 1
<1>1. cl \in Names \X BOOLEAN
  BY ZoneAssumption DEF Names
<1>2. cl[1] \in Names /\ "udp" \in Names /\ "tcp" \in Names
  BY <1>1 DEF Names
<1> DEFINE p == WithClient(cl[1], cl[2])
<1>3. \/ p = <<cl[1]>>
      \/ p = <<"udp", "tcp">>
      \/ p = <<cl[1], "udp", "tcp">>
  BY DEF WithClient
<1> HIDE DEF p
<1>4. p \in Seq(Names) /\ Len(p) >= 1
  <2>1. CASE p = <<cl[1]>>
    BY <1>2, <2>1
  <2>2. CASE p = <<"udp", "tcp">>
    BY <1>2, <2>2
  <2>3. CASE p = <<cl[1], "udp", "tcp">>
    BY <1>2, <2>3
  <2>4. QED  BY <1>3, <2>1, <2>2, <2>3
<1>5. QED  BY <1>4 DEF p

(* The loop over the protocols keeps its invariant. *)
LEMMA ZoneInvariance == ZoneSpec => []ZoneInv
<1>1. ZoneInit => ZoneInv
  <2> SUFFICES ASSUME ZoneInit PROVE ZoneInv
    OBVIOUS
  <2>1. protocols \in Seq(Names) /\ Len(protocols) >= 1
    BY SomeProtocol DEF ZoneInit
  <2>2. TriedType
    BY <2>1 DEF ZoneInit, TriedType
  <2>3. \A c \in Callers : tried[c] = <<>>
    BY DEF ZoneInit
  <2>4. QED  BY <2>1, <2>2, <2>3 DEF ZoneInv, CompleteAnswerWins, Stops
<1>2. ZoneInv /\ [ZoneNext]_zoneVars => ZoneInv'
  <2> SUFFICES ASSUME ZoneInv, [ZoneNext]_zoneVars PROVE ZoneInv'
    OBVIOUS
  <2>1. CASE UNCHANGED <<protocols, tried>>
    BY <2>1 DEF ZoneInv, TriedType, CompleteAnswerWins, Stops
  <2>2. ASSUME NEW c \in Callers, NEW r \in Messages \cup {Failed},
               nameserverAttempt(c, r)
        PROVE  ZoneInv'
    <3> DEFINE s == tried[c]
    <3>1. /\ tried' = [tried EXCEPT ![c] = Append(s, r)] /\ protocols' = protocols
          /\ ~Stops(s)
      BY <2>2 DEF nameserverAttempt
    <3>2. s \in Seq(Messages \cup {Failed}) /\ Len(protocols) \in Nat
      BY DEF ZoneInv, TriedType
    <3>3. TriedType'
      BY <3>1, <3>2 DEF ZoneInv, TriedType
    <3>4. /\ Len(s) <= Len(protocols)
          /\ \A i \in 1..Len(s) - 1 : ~Complete(s[i])
      BY DEF ZoneInv, CompleteAnswerWins
    <3>5. /\ Len(s) + 1 <= Len(protocols)
          /\ \A i \in 1..Len(s) : ~Complete(s[i])
      <4>1. CASE s = <<>>
        BY <4>1 DEF ZoneInv, TriedType
      <4>2. CASE s # <<>>
        BY <3>1, <3>2, <3>4, <4>2 DEF Stops, Last
      <4>3. QED  BY <4>1, <4>2
    <3>6. /\ tried'[c] = Append(s, r) /\ Len(tried'[c]) = Len(s) + 1
          /\ \A i \in 1..Len(s) : tried'[c][i] = s[i]
          /\ \A b \in Callers \ {c} : tried'[b] = tried[b]
      BY <3>1, <3>2 DEF ZoneInv, TriedType
    <3>7. CompleteAnswerWins'
      <4> SUFFICES ASSUME NEW b \in Callers
                   PROVE  /\ Len(tried'[b]) <= Len(protocols)
                          /\ \A i \in 1..Len(tried'[b]) - 1 : ~Complete(tried'[b][i])
                          /\ Stops(tried'[b]) /\ ~Complete(Last(tried'[b]))
                               => Len(tried'[b]) = Len(protocols)
        BY <3>1 DEF CompleteAnswerWins, Stops
      <4>1. CASE b = c
        BY <3>2, <3>5, <3>6, <4>1 DEF Stops
      <4>2. CASE b # c
        BY <3>6, <4>2 DEF ZoneInv, CompleteAnswerWins
      <4>3. QED  BY <4>1, <4>2
    <3>8. QED  BY <3>3, <3>7 DEF ZoneInv
  <2>3. ASSUME NEW c \in Callers, exchangeReturn(c) PROVE ZoneInv'
    <3>1. tried' = [tried EXCEPT ![c] = <<>>] /\ protocols' = protocols
      BY <2>3 DEF exchangeReturn
    <3>2. TriedType'
      BY <3>1 DEF ZoneInv, TriedType
    <3>3. \A b \in Callers : tried'[b] \in {<<>>, tried[b]}
      BY <3>1 DEF ZoneInv, TriedType
    <3>4. QED  BY <3>1, <3>2, <3>3 DEF ZoneInv, TriedType, CompleteAnswerWins, Stops
  <2>4. QED
    BY <2>1, <2>2, <2>3 DEF ZoneNext, Proceed, zoneTick, exchange, cacheGet, cacheHit,
         noPool, update, zoneVars
<1>3. QED  BY <1>1, <1>2, PTL DEF ZoneSpec

(* zoneImpl.exchange uses the cache as the cache allows: every step is one *)
(* of the cache, or leaves it alone.                                       *)
THEOREM ZoneUsesCache == ZoneSpec => Spec
<1>1. ZoneInit => Init
  BY DEF ZoneInit
<1>2. TriedType /\ [ZoneNext]_zoneVars => [Next]_vars
  <2> SUFFICES ASSUME TriedType, [ZoneNext]_zoneVars PROVE [Next]_vars
    OBVIOUS
  <2>1. CASE zoneTick
    BY <2>1 DEF zoneTick, Next
  <2>2. ASSUME NEW c \in Callers, exchange(c) PROVE [Next]_vars
    BY <2>2 DEF exchange, Next, Lookup
  <2>3. ASSUME NEW c \in Callers, cacheGet(c) \/ cacheHit(c) \/ noPool(c)
        PROVE  [Next]_vars
    BY <2>3 DEF cacheGet, cacheHit, noPool, Next, Lookup
  <2>4. ASSUME NEW c \in Callers, NEW r, nameserverAttempt(c, r) PROVE [Next]_vars
    BY <2>4 DEF nameserverAttempt, vars
  <2>5. ASSUME NEW c \in Callers, exchangeReturn(c) PROVE [Next]_vars
    <3>1. CASE GetReturn(c)
      BY <3>1 DEF Next, Lookup
    <3>2. ASSUME NEW w \in Workers, Last(tried[c]) # Failed,
                 Update(c, w, Last(tried[c]))
          PROVE  [Next]_vars
      <4>1. tried[c] \in Seq(Messages \cup {Failed}) /\ tried[c] # <<>>
        BY <2>5 DEF TriedType, exchangeReturn, Stops
      <4>2. Last(tried[c]) \in Messages
        BY <3>2, <4>1 DEF Last
      <4>3. QED  BY <3>2, <4>2 DEF Next
    <3>3. QED  BY <2>5, <3>1, <3>2 DEF exchangeReturn
  <2>6. ASSUME NEW w \in Workers, update(w) PROVE [Next]_vars
    BY <2>6 DEF update, Next
  <2>7. CASE UNCHANGED zoneVars
    BY <2>7 DEF zoneVars, vars
  <2>8. QED  BY <2>1, <2>2, <2>3, <2>4, <2>5, <2>6, <2>7 DEF ZoneNext, Proceed
<1>3. ZoneInv => TriedType
  BY DEF ZoneInv
<1>4. QED  BY <1>1, <1>2, <1>3, ZoneInvariance, PTL DEF ZoneSpec, Spec

(* Hence what holds of the cache holds in every zone.                      *)
THEOREM ZoneSafety == ZoneSpec => [](TypeOK /\ EntriesAreWhole /\ HitsAreLive)
BY ZoneUsesCache, CacheSafety, PTL

(* nameserver.exchange, for every list of protocols that WithClient sets:  *)
(* the first complete answer wins, and an incomplete one is returned only  *)
(* after every protocol was tried.                                         *)
THEOREM ZoneCompleteAnswerWins == ZoneSpec => []CompleteAnswerWins
BY ZoneInvariance, PTL DEF ZoneInv
=============================================================================
