-------------------------------- MODULE Zone --------------------------------
(***************************************************************************)
(* zoneImpl.exchange of zone.go over the cache of module Cache and the     *)
(* protocol loop of nameserver.go.  The pool in between (module Pool) is   *)
(* left with what it passes on: the result of one nameserver's exchange.   *)
(***************************************************************************)
EXTENDS Cache

CONSTANTS
  Clients,      \* the <<client, fallback>> settings considered
  Poolless,     \* callers whose zone has no pool
  Failed        \* a response that is an error

ASSUME ZoneAssumption ==
  /\ Clients \subseteq {"udp", "tcp", "dot", "doq"} \X BOOLEAN
  /\ Poolless \subseteq Callers

(* The order in which a nameserver's protocols are tried. *)
WithClient(client, fallback) ==
  IF ~fallback \/ client = "tcp" THEN <<client>>
  ELSE IF client = "udp" THEN <<"udp", "tcp">> ELSE <<client, "udp", "tcp">>

VARIABLES
  protocols,    \* of the configuration
  tried         \* caller -> what each attempt of the loop brought, in order

zoneVars == <<cache, now, calls, jobs, received, protocols, tried>>

ZoneInit ==
  /\ Init
  /\ protocols \in {WithClient(cl[1], cl[2]) : cl \in Clients}
  /\ tried = [c \in Callers |-> <<>>]

Last(s) == s[Len(s)]

Complete(r) == r # Failed /\ ~r.truncated

-----------------------------------------------------------------------------
exchange(c) == Get(c) /\ UNCHANGED <<protocols, tried>>

cacheGet(c) ==
  /\ GetWithTime(c) \/ GetRemove(c)
  /\ UNCHANGED <<protocols, tried>>

cacheHit(c) ==
  /\ calls[c].pc = "hit"
  /\ GetReturn(c)
  /\ UNCHANGED <<protocols, tried>>

noPool(c) ==
  /\ calls[c].pc = "miss"
  /\ c \in Poolless
  /\ GetReturn(c)
  /\ UNCHANGED <<protocols, tried>>

(* Seeded bug: the loop stops only when the protocols are exhausted. *)
StopsLate(s) == Len(s) = Len(protocols)

(* The loop is left with a complete message or after the last protocol. *)
Stops(s) == s # <<>> /\ (Complete(Last(s)) \/ Len(s) = Len(protocols))

(* One ExchangeContext: a message or an error replaces the previous one. *)
nameserverAttempt(c, r) ==
  /\ calls[c].pc = "miss"
  /\ c \notin Poolless
  /\ ~Stops(tried[c])
  /\ tried' = [tried EXCEPT ![c] = Append(@, r)]
  /\ UNCHANGED <<cache, now, calls, jobs, received, protocols>>

(* The result is returned; a goroutine caches a copy unless it failed. *)
exchangeReturn(c) ==
  /\ calls[c].pc = "miss"
  /\ Stops(tried[c])
  /\ \/ Last(tried[c]) = Failed /\ GetReturn(c)
     \/ Last(tried[c]) # Failed /\ \E w \in Workers : Update(c, w, Last(tried[c]))
  /\ tried' = [tried EXCEPT ![c] = <<>>]
  /\ UNCHANGED protocols

update(w) == Work(w) /\ UNCHANGED <<protocols, tried>>

zoneTick == Tick /\ UNCHANGED <<protocols, tried>>

Proceed(c) ==
  \/ cacheGet(c) \/ cacheHit(c) \/ noPool(c)
  \/ \E r \in Messages \cup {Failed} : nameserverAttempt(c, r)
  \/ exchangeReturn(c)

ZoneNext ==
  \/ zoneTick
  \/ \E c \in Callers : exchange(c) \/ Proceed(c)
  \/ \E w \in Workers : update(w)

ZoneSpec == ZoneInit /\ [][ZoneNext]_zoneVars

-----------------------------------------------------------------------------
(* Properties *)

(* The loop of nameserver.exchange returns the first complete message, and *)
(* only when no protocol brought one is the last result, an error or a     *)
(* truncated message, returned: a later failure never replaces a complete  *)
(* answer, and no protocol is left untried for an incomplete one.          *)
CompleteAnswerWins ==
  \A c \in Callers :
    LET s == tried[c]
    IN  /\ Len(s) <= Len(protocols)
        /\ \A i \in 1..Len(s) - 1 : ~Complete(s[i])
        /\ Stops(s) /\ ~Complete(Last(s)) => Len(s) = Len(protocols)

=============================================================================
