-------------------------------- MODULE Store --------------------------------
(***************************************************************************)
(* What a cache of expiring entries promises, without how it keeps them.   *)
(* Any entry may be lost at any time.  An entry is replaced as a whole.    *)
(* A caller is given nothing, or what is held for its key at that moment   *)
(* and had not expired when the caller asked.                              *)
(***************************************************************************)
EXTENDS Integers

CONSTANTS Keys, Callers, Entries, None

VARIABLES
  now,
  store,     \* key -> the entry held, or None
  asks       \* caller -> [state, key, since, entry]

vars == <<now, store, asks>>

NoAsk == [state |-> "idle", key |-> None, since |-> 0, entry |-> None]

Init ==
  /\ now = 0
  /\ store = [k \in Keys |-> None]
  /\ asks = [c \in Callers |-> NoAsk]

Ask(c) ==
  /\ asks[c].state = "idle"
  /\ \E k \in Keys :
       asks' = [asks EXCEPT ![c] = [state |-> "asked", key |-> k,
                                    since |-> now, entry |-> None]]
  /\ UNCHANGED <<now, store>>

Live(e, since) == e # None /\ ~(since > e.expires)

Give(c) ==
  /\ asks[c].state = "asked"
  /\ \E e \in {None, store[asks[c].key]} :
       /\ e = None \/ Live(e, asks[c].since)
       /\ asks' = [asks EXCEPT ![c] = [state |-> "given", key |-> @.key,
                                       since |-> @.since, entry |-> e]]
  /\ UNCHANGED <<now, store>>

Leave(c) ==
  /\ asks[c].state = "given"
  /\ asks' = [asks EXCEPT ![c] = NoAsk]
  /\ UNCHANGED <<now, store>>

(* One key may get an entry; the others keep theirs or lose it. *)
Hold(k) ==
  /\ store' \in [Keys -> Entries \cup {None}]
  /\ \A j \in Keys \ {k} : store'[j] \in {store[j], None}
  /\ UNCHANGED <<now, asks>>

Pass == now' = now + 1 /\ UNCHANGED <<store, asks>>

Next ==
  \/ Pass
  \/ \E c \in Callers : Ask(c) \/ Give(c) \/ Leave(c)
  \/ \E k \in Keys : Hold(k)

Spec == Init /\ [][Next]_vars
=============================================================================
