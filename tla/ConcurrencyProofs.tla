------------------------- MODULE ConcurrencyProofs -------------------------
(***************************************************************************)
(* The two places where the goroutines of one exchange meet: the queue of  *)
(* an authenticator (AuthQueue), safe and never at a standstill for any    *)
(* number of links and responses and any capacity of the channel, and the  *)
(* DNSKEY records of a zone (ZoneKeys), for any number of callers, any     *)
(* TTLs and any MaxAllowedTTL.  The two specifications share no state.     *)
(***************************************************************************)
EXTENDS AuthQueue, ZoneKeys, TLAPS, FiniteSetTheorems

-----------------------------------------------------------------------------
(* The queue of an authenticator *)

(* Whatever the WaitGroup counts is finite.                                  *)
LEMMA CountedFinite ==
  /\ IsFiniteSet(Working) /\ Cardinality(Working) \in Nat
  /\ IsFiniteSet(Outstanding) /\ Cardinality(Outstanding) \in Nat
<1>1. IsFiniteSet(Inputs) /\ IsFiniteSet(Links)
  BY AuthQueueAssumption, FS_Union, Zenon DEF Inputs
<1>2. Working \in SUBSET Links /\ Outstanding \in SUBSET Inputs
  BY DEF Working, Outstanding
<1> QED
  BY <1>1, <1>2, FS_Subset, FS_CardinalityType

(* Once the counter is zero, no goroutine and no input is under way.         *)
LEMMA WaitMeansQuiet ==
  ASSUME QueueInv, processing = 0
  PROVE  Working = {} /\ Outstanding = {}
<1>1. Cardinality(Working) = 0 /\ Cardinality(Outstanding) = 0
  BY CountedFinite DEF QueueInv
<1> QED
  BY <1>1, CountedFinite, FS_EmptySet

(* The properties follow from the invariant.                                 *)
LEMMA QueueInvSuffices == QueueInv => TypeOK /\ NoSendAfterClose /\ ResultIsComplete
<1> SUFFICES ASSUME QueueInv PROVE NoSendAfterClose /\ ResultIsComplete
  BY DEF QueueInv
<1>1. main \in {"forget", "read", "over"} => Working = {} /\ Outstanding = {}
  BY WaitMeansQuiet DEF QueueInv
<1>2. Working = {} => \A l \in Links : link[l] \in {"none", "over"}
  BY DEF QueueInv, TypeOK, Working
<1>3. Outstanding = {} => \A i \in Inputs : input[i] \in {"none", "processed"}
  BY DEF QueueInv, TypeOK, Outstanding
<1>4. NoSendAfterClose
  BY <1>1, <1>2 DEF QueueInv, NoSendAfterClose
<1>5. ResultIsComplete
  BY <1>1, <1>2, <1>3 DEF QueueInv, ResultIsComplete
<1> QED
  BY <1>4, <1>5

(* Initially nothing is under way.                                           *)
LEMMA QueueInit == Init => QueueInv
<1> SUFFICES ASSUME Init PROVE QueueInv
  OBVIOUS
<1>1. TypeOK
  <2>1. finished \in BOOLEAN /\ closed \in BOOLEAN /\ queueNil \in BOOLEAN /\ asked \in BOOLEAN
    BY Zenon DEF Init
  <2> QED
    BY <2>1 DEF Init, TypeOK
<1>2. Working = {} /\ Outstanding = {}
  BY DEF Init, Working, Outstanding
<1>3. processing = Cardinality(Working) + Cardinality(Outstanding)
  BY <1>2, FS_EmptySet DEF Init
<1>4. Links \subseteq Inputs
  BY DEF Inputs
<1> QED
  BY <1>1, <1>3, <1>4 DEF Init, QueueInv

-----------------------------------------------------------------------------

(* After the Wait of close, goroutines and inputs have come to rest.         *)
LEMMA Rest ==
  ASSUME QueueInv, main \in {"forget", "read", "over"}
  PROVE  /\ \A l \in Links : link[l] \in {"none", "over"}
         /\ \A i \in Inputs : input[i] \in {"none", "processed"}
<1>1. Working = {} /\ Outstanding = {}
  BY WaitMeansQuiet DEF QueueInv
<1> QED
  BY <1>1 DEF QueueInv, TypeOK, Working, Outstanding

(* The steps of a link's goroutine and its start: the counter moves with the *)
(* sets it counts.                                                           *)
LEMMA LinkStep ==
  ASSUME QueueInv, NEW l \in Links, addDelegationSignerLink(l) \/ Link(l)
  PROVE  QueueInv'
<1> USE DEF QueueInv
<1>1. l \in Inputs /\ Links \subseteq Inputs
  BY DEF Inputs
<1>2. /\ IsFiniteSet(Working) /\ Cardinality(Working) \in Nat
      /\ IsFiniteSet(Outstanding) /\ Cardinality(Outstanding) \in Nat
  BY CountedFinite
<1>3. CASE addDelegationSignerLink(l)
  <2>1. TypeOK'
    BY <1>3 DEF addDelegationSignerLink, chanVars, TypeOK
  <2>2. l \notin Working /\ Working' = Working \cup {l} /\ Outstanding' = Outstanding
    BY <1>3 DEF addDelegationSignerLink, TypeOK, Working, Outstanding
  <2>3. processing' = Cardinality(Working') + Cardinality(Outstanding')
    <3>1. Cardinality(Working') = Cardinality(Working) + 1
      BY <1>2, <2>2, FS_AddElement, Zenon
    <3> QED
      BY <1>2, <1>3, <2>2, <3>1 DEF addDelegationSignerLink
  <2> QED
    BY <1>1, <1>3, <2>1, <2>3 DEF addDelegationSignerLink, chanVars, TypeOK
<1>4. CASE linkExchange(l)
  <2>1. TypeOK'
    BY <1>1, <1>4 DEF linkExchange, chanVars, TypeOK
  <2>2. input[l] = "none" /\ l \notin Outstanding /\ Working' = Working
    BY <1>1, <1>4 DEF linkExchange, TypeOK, Working, Outstanding
  <2>3. processing' = Cardinality(Working') + Cardinality(Outstanding')
    <3>1. CASE UNCHANGED <<input, processing>>
      BY <2>2, <3>1 DEF Outstanding
    <3>2. CASE input' = [input EXCEPT ![l] = "held"] /\ processing' = processing + 1
      <4>1. Outstanding' = Outstanding \cup {l}
        BY <1>1, <3>2 DEF TypeOK, Outstanding
      <4>2. Cardinality(Outstanding') = Cardinality(Outstanding) + 1
        BY <1>2, <2>2, <4>1, FS_AddElement, Zenon
      <4> QED
        BY <1>2, <2>2, <3>2, <4>2
    <3> QED
      BY <1>4, <3>1, <3>2 DEF linkExchange
  <2>4. main \notin {"forget", "read", "over"}
    BY <1>4, Rest DEF linkExchange
  <2>5. \A k \in Links : /\ link'[k] \in {"none", "asking"} => input'[k] = "none"
                         /\ link'[k] = "sending" => input'[k] = "held"
    BY <1>1, <1>4 DEF linkExchange, TypeOK
  <2>6. main' = "send" => input'[current'] = "held"
    <3>1. current \in Responses /\ current # l /\ current \in Inputs
      BY AuthQueueAssumption DEF TypeOK, Inputs
    <3> QED
      BY <1>1, <1>4, <3>1 DEF linkExchange, TypeOK
  <2>7. \A i \in Inputs : input'[i] = "taken" <=> input[i] = "taken"
    BY <1>1, <1>4, <2>2 DEF linkExchange, TypeOK
  <2> QED
    BY <1>4, <2>1, <2>3, <2>4, <2>5, <2>6, <2>7 DEF linkExchange, chanVars
<1>5. CASE linkSend(l)
  <2>1. TypeOK'
    BY <1>1, <1>5 DEF linkSend, chanVars, TypeOK
  <2>2. input[l] = "held" /\ Working' = Working /\ Outstanding' = Outstanding
    BY <1>1, <1>5 DEF linkSend, TypeOK, Working, Outstanding
  <2>3. \A k \in Links : /\ link'[k] \in {"none", "asking"} => input'[k] = "none"
                         /\ link'[k] = "sending" => input'[k] = "held"
    BY <1>1, <1>5 DEF linkSend, TypeOK
  <2>4. main' = "send" => input'[current'] = "held"
    BY <1>1, <1>5, AuthQueueAssumption DEF linkSend, TypeOK
  <2>5. \A i \in Inputs : input'[i] = "taken" <=> input[i] = "taken"
    BY <1>1, <1>5, <2>2 DEF linkSend, TypeOK
  <2> QED
    BY <1>5, <2>1, <2>2, <2>3, <2>4, <2>5 DEF linkSend, chanVars
<1>6. CASE linkDone(l)
  <2>1. l \in Working /\ Working' = Working \ {l} /\ Outstanding' = Outstanding
    BY <1>6 DEF linkDone, TypeOK, Working, Outstanding
  <2>2. Cardinality(Working') = Cardinality(Working) - 1 /\ Cardinality(Working') \in Nat
    BY <1>2, <2>1, FS_RemoveElement, FS_CardinalityType
  <2>3. processing' = Cardinality(Working') + Cardinality(Outstanding') /\ processing' \in Nat
    BY <1>2, <1>6, <2>1, <2>2 DEF linkDone
  <2>4. TypeOK'
    BY <1>6, <2>3 DEF linkDone, chanVars, TypeOK
  <2>5. main \notin {"forget", "read", "over"}
    BY <1>6, Rest DEF linkDone
  <2> QED
    BY <1>1, <1>6, <2>3, <2>4, <2>5 DEF linkDone, chanVars, TypeOK
<1> QED
  BY <1>3, <1>4, <1>5, <1>6 DEF Link

(* The steps of the consumer.                                                *)
LEMMA ConsumerStep ==
  ASSUME QueueInv, Consumer
  PROVE  QueueInv'
<1> USE DEF QueueInv
<1>1. Links \subseteq Inputs /\ Responses \subseteq Inputs
  BY DEF Inputs
<1>2. CASE startRange \/ startEnd
  <2>1. TypeOK' /\ Working' = Working /\ Outstanding' = Outstanding
    BY <1>2 DEF startRange, startEnd, chanVars, TypeOK, Working, Outstanding
  <2> QED
    BY <1>1, <1>2, <2>1 DEF startRange, startEnd, chanVars
<1>3. CASE startReceive
  <2>1. PICK i \in Queued : input' = [input EXCEPT ![i] = "taken"]
    BY <1>3, Zenon DEF startReceive
  <2>2. i \in Inputs /\ input[i] = "queued"
    BY DEF Queued
  <2>3. TypeOK' /\ Working' = Working /\ Outstanding' = Outstanding
    BY <1>3, <2>1, <2>2 DEF startReceive, chanVars, TypeOK, Working, Outstanding
  <2>4. \A j \in Inputs : input[j] # "taken"
    BY <1>3 DEF startReceive
  <2>5. \A j \in Inputs : input'[j] = "taken" <=> j = i
    BY <2>1, <2>2, <2>4 DEF TypeOK
  <2>6. \A j \in Inputs : input[j] # "queued" => input'[j] = input[j]
    BY <2>1, <2>2 DEF TypeOK
  <2>7. current \in Inputs
    BY <1>1 DEF TypeOK
  <2> QED
    BY <1>1, <1>3, <2>2, <2>3, <2>5, <2>6, <2>7 DEF startReceive, chanVars
<1>4. CASE startAddResponse
  <2>1. TypeOK' /\ Working' = Working /\ Outstanding' = Outstanding
    BY <1>4 DEF startAddResponse, chanVars, TypeOK, Working, Outstanding
  <2> QED
    BY <1>1, <1>4, <2>1 DEF startAddResponse, chanVars
<1>5. CASE startDone
  <2>1. PICK i \in Inputs : input[i] = "taken" /\ input' = [input EXCEPT ![i] = "processed"]
    BY <1>5, ZenonT(30) DEF startDone
  <2>2. i \in Outstanding /\ Outstanding' = Outstanding \ {i} /\ Working' = Working
    BY <1>5, <2>1 DEF startDone, TypeOK, Working, Outstanding
  <2>3. /\ Cardinality(Outstanding') = Cardinality(Outstanding) - 1
        /\ Cardinality(Outstanding') \in Nat
    BY <2>2, CountedFinite, FS_RemoveElement, FS_CardinalityType
  <2>4. processing' = Cardinality(Working') + Cardinality(Outstanding') /\ processing' \in Nat
    BY <1>5, <2>2, <2>3, CountedFinite DEF startDone
  <2>5. TypeOK'
    BY <1>5, <2>1, <2>4 DEF startDone, chanVars, TypeOK
  <2>6. main \notin {"forget", "read", "over"}
    BY <2>1, Rest
  <2>7. \A j \in Inputs : input'[j] # "taken"
    BY <2>1 DEF TypeOK
  <2>8. \A j \in Inputs : input[j] # "taken" => input'[j] = input[j]
    BY <2>1 DEF TypeOK
  <2>9. current \in Inputs
    BY <1>1 DEF TypeOK
  <2> QED
    BY <1>1, <1>5, <2>4, <2>5, <2>6, <2>7, <2>8, <2>9 DEF startDone, chanVars
<1> QED
  BY <1>2, <1>3, <1>4, <1>5 DEF Consumer

(* The steps of the exchange's goroutine.                                    *)
LEMMA MainStep ==
  ASSUME QueueInv, Main
  PROVE  QueueInv'
<1> USE DEF QueueInv
<1>1. Links \subseteq Inputs /\ Responses \subseteq Inputs /\ current \in Inputs
  BY DEF Inputs, TypeOK
<1>2. CASE \E l \in Links : addDelegationSignerLink(l)
  BY <1>2, LinkStep
<1>3. CASE \E r \in Responses : addResponse(r)
  <2>1. PICK r \in Responses : addResponse(r)
    BY <1>3
  <2>2. r \notin Outstanding /\ Outstanding' = Outstanding \cup {r} /\ Working' = Working
    BY <1>1, <2>1 DEF addResponse, TypeOK, Working, Outstanding
  <2>3. processing' = Cardinality(Working') + Cardinality(Outstanding') /\ processing' \in Nat
    <3>1. Cardinality(Outstanding') = Cardinality(Outstanding) + 1
      BY <2>2, CountedFinite, FS_AddElement, ZenonT(30)
    <3> QED
      BY <2>1, <2>2, <3>1, CountedFinite DEF addResponse
  <2>4. TypeOK'
    BY <1>1, <2>1, <2>3 DEF addResponse, chanVars, TypeOK
  <2>5. r \notin Links
    BY AuthQueueAssumption
  <2>6. /\ input'[r] = "held"
        /\ \A i \in Inputs \ {r} : input'[i] = input[i]
        /\ main = "run" /\ main' = "send" /\ current' = r
        /\ UNCHANGED <<link, consumer, closed, queueNil>>
    BY <1>1, <2>1 DEF addResponse, TypeOK, chanVars
  <2>7. input[r] = "none"
    BY <2>1 DEF addResponse
  <2> QED
    BY <1>1, <2>3, <2>4, <2>5, <2>6, <2>7
<1>4. CASE mainSend
  <2>1. input[current] = "held" /\ Working' = Working /\ Outstanding' = Outstanding
    BY <1>1, <1>4 DEF mainSend, TypeOK, Working, Outstanding
  <2>2. TypeOK'
    BY <1>1, <1>4 DEF mainSend, chanVars, TypeOK
  <2>3. current \notin Links
    BY AuthQueueAssumption DEF TypeOK
  <2>4. \A i \in Inputs : IF i = current THEN input'[i] = "queued" ELSE input'[i] = input[i]
    BY <1>1, <1>4 DEF mainSend, TypeOK
  <2> QED
    BY <1>1, <1>4, <2>1, <2>2, <2>3, <2>4 DEF mainSend, chanVars
<1>5. CASE result \/ close \/ resultWait \/ closeWait \/ closeForget \/ resultRead
  <2>1. Working' = Working /\ Outstanding' = Outstanding
    BY <1>5 DEF result, close, resultWait, closeWait, closeForget, resultRead, Working, Outstanding
  <2>2. TypeOK'
    BY <1>5, ZenonT(30) DEF result, close, resultWait, closeWait, closeForget, resultRead, chanVars, TypeOK
  <2>3. UNCHANGED <<link, input, consumer, processing, current>>
    BY <1>5 DEF result, close, resultWait, closeWait, closeForget, resultRead
  <2>4. /\ main' \in {"forget", "read", "over"} => processing = 0
        /\ closed' \/ queueNil' => main' \in {"forget", "read", "over"}
        /\ main' # "send"
    BY <1>5 DEF result, close, resultWait, closeWait, closeForget, resultRead, chanVars
  <2> QED
    BY <2>1, <2>2, <2>3, <2>4
<1> QED
  BY <1>2, <1>3, <1>4, <1>5 DEF Main

(* The counter of the WaitGroup and the states of the goroutines agree.      *)
LEMMA QueueInvariant == Spec => []QueueInv
<1>1. QueueInv /\ [Next]_vars => QueueInv'
  <2> SUFFICES ASSUME QueueInv, [Next]_vars PROVE QueueInv'
    OBVIOUS
  <2>1. CASE Main
    BY <2>1, MainStep
  <2>2. CASE Consumer
    BY <2>2, ConsumerStep
  <2>3. CASE \E l \in Links : Link(l)
    BY <2>3, LinkStep
  <2>4. CASE UNCHANGED vars
    BY <2>4 DEF vars, QueueInv, TypeOK, Working, Outstanding
  <2> QED
    BY <2>1, <2>2, <2>3, <2>4 DEF Next
<1> QED
  BY <1>1, QueueInit, PTL DEF Spec

(* No send after close, and a complete result, for any number of inputs.     *)
THEOREM QueueSafety == Spec => [](TypeOK /\ NoSendAfterClose /\ ResultIsComplete)
BY QueueInvariant, QueueInvSuffices, PTL

(* No goroutine sends on the queue after it was closed (auth.go).            *)
THEOREM SendsBeforeClose == Spec => []NoSendAfterClose
BY QueueSafety, PTL

-----------------------------------------------------------------------------
(* The queue never comes to a standstill *)

CanSend == ~closed /\ ~queueNil /\ Cardinality(Queued) < Capacity

(* Until result or close has returned, some goroutine can go on: whoever     *)
(* waits for room in the channel or for the WaitGroup waits for a goroutine  *)
(* that is not itself waiting (auth.go: addResponse, start, close, result).  *)
SomeoneCanGoOn ==
  \/ main \in {"run", "forget", "read", "over"}
  \/ main = "send" /\ CanSend
  \/ main \in {"wait", "close"} /\ processing = 0
  \/ consumer \in {"new", "work", "done"}
  \/ consumer = "receive" /\ Queued # {}
  \/ \E l \in Links : \/ link[l] \in {"asking", "ending"}
                      \/ link[l] = "sending" /\ CanSend

(* The consumer that ranges over a nil channel has missed no input.          *)
LeftBehindIdle == consumer = "stuck" => \A i \in Inputs : input[i] = "none"

(* The inductive invariant behind both: an input that is held has a sender,  *)
(* and the consumer is there until the channel is closed.                    *)
ServedInv ==
  /\ LeftBehindIdle
  /\ consumer = "stuck" => queueNil
  /\ consumer = "ended" => closed
  /\ consumer = "new" => \A i \in Inputs : input[i] \notin {"taken", "processed"}
  /\ \A i \in Inputs : input[i] = "held" => \/ i \in Links /\ link[i] = "sending"
                                            \/ main = "send" /\ current = i

(* The steps of a link's goroutine.                                          *)
LEMMA ServedLink ==
  ASSUME QueueInv, ServedInv, NEW l \in Links, addDelegationSignerLink(l) \/ Link(l)
  PROVE  ServedInv'
<1>1. /\ l \in Inputs /\ input \in [Inputs -> {"none", "held", "queued", "taken", "processed"}]
      /\ link \in [Links -> {"none", "asking", "sending", "ending", "over"}]
  BY DEF QueueInv, TypeOK, Inputs
<1>2. UNCHANGED <<main, current, consumer, closed, queueNil>>
  BY Zenon DEF addDelegationSignerLink, Link, linkExchange, linkSend, linkDone, chanVars
<1>3. \A k \in Links \ {l} : link'[k] = link[k]
  BY <1>1 DEF addDelegationSignerLink, Link, linkExchange, linkSend, linkDone
<1>4. \A i \in Inputs \ {l} : input'[i] = input[i]
  BY <1>1 DEF addDelegationSignerLink, Link, linkExchange, linkSend, linkDone
<1>5. consumer # "stuck" \/ UNCHANGED input
  <2>1. CASE linkExchange(l) \/ linkSend(l)
    <3>1. l \in Working
      BY <2>1 DEF linkExchange, linkSend, Working
    <3>2. main \notin {"forget", "read", "over"}
      BY <3>1, WaitMeansQuiet DEF QueueInv
    <3> QED
      BY <3>2 DEF QueueInv, ServedInv
  <2>2. CASE addDelegationSignerLink(l) \/ linkDone(l)
    BY <2>2 DEF addDelegationSignerLink, linkDone
  <2> QED
    BY <2>1, <2>2 DEF Link
<1>6. CASE linkExchange(l)
  <2>1. \/ UNCHANGED input /\ link[l] = "asking"
        \/ input'[l] = "held" /\ link'[l] = "sending"
    BY <1>1, <1>6 DEF linkExchange
  <2>2. link[l] = "asking" => input[l] = "none"
    BY DEF QueueInv
  <2> QED
    BY <1>1, <1>2, <1>3, <1>4, <1>5, <2>1, <2>2 DEF ServedInv, LeftBehindIdle
<1>7. CASE linkSend(l)
  <2>1. input'[l] = "queued"
    BY <1>1, <1>7 DEF linkSend
  <2> QED
    BY <1>1, <1>2, <1>3, <1>4, <1>5, <2>1 DEF ServedInv, LeftBehindIdle
<1>8. CASE addDelegationSignerLink(l) \/ linkDone(l)
  <2>1. UNCHANGED input /\ link[l] # "sending"
    BY <1>8 DEF addDelegationSignerLink, linkDone
  <2> QED
    BY <1>1, <1>2, <1>3, <2>1 DEF ServedInv, LeftBehindIdle
<1> QED
  BY <1>6, <1>7, <1>8 DEF Link

(* The steps of the consumer.                                                *)
LEMMA ServedConsumer ==
  ASSUME QueueInv, ServedInv, Consumer
  PROVE  ServedInv'
<1>1. input \in [Inputs -> {"none", "held", "queued", "taken", "processed"}]
  BY DEF QueueInv, TypeOK
<1>2. UNCHANGED <<main, current, link, closed, queueNil>>
  BY Zenon DEF Consumer, startRange, startReceive, startEnd, startAddResponse, startDone, chanVars
<1>3. CASE startRange
  <2>1. /\ UNCHANGED input /\ consumer = "new"
        /\ (consumer' = "stuck" /\ queueNil) \/ consumer' = "receive"
    BY <1>3 DEF startRange
  <2>2. queueNil => Outstanding = {}
    BY WaitMeansQuiet DEF QueueInv
  <2>3. queueNil => \A i \in Inputs : input[i] = "none"
    BY <1>1, <2>1, <2>2 DEF ServedInv, Outstanding
  <2> QED
    BY <1>2, <2>1, <2>3 DEF ServedInv, LeftBehindIdle
<1>4. CASE startReceive \/ startDone
  <2>1. PICK i \in Inputs : /\ input[i] \in {"queued", "taken"}
                            /\ \E v \in {"taken", "processed"} : input' = [input EXCEPT ![i] = v]
    BY <1>4 DEF startReceive, startDone, Queued
  <2>2. consumer' \in {"work", "receive"}
    BY <1>4 DEF startReceive, startDone
  <2>3. \A j \in Inputs : input'[j] = "held" => input[j] = "held"
    BY <1>1, <2>1
  <2> QED
    BY <1>2, <2>2, <2>3 DEF ServedInv, LeftBehindIdle
<1>5. CASE startEnd \/ startAddResponse
  <2>1. UNCHANGED input /\ ((consumer' = "ended" /\ closed) \/ consumer' = "done")
    BY <1>5 DEF startEnd, startAddResponse
  <2> QED
    BY <1>2, <2>1 DEF ServedInv, LeftBehindIdle
<1> QED
  BY <1>3, <1>4, <1>5 DEF Consumer

(* The steps of the exchange's goroutine.                                    *)
LEMMA ServedMain ==
  ASSUME QueueInv, ServedInv, Main
  PROVE  ServedInv'
<1>1. /\ input \in [Inputs -> {"none", "held", "queued", "taken", "processed"}]
      /\ current \in Inputs /\ Responses \subseteq Inputs
  BY DEF QueueInv, TypeOK, Inputs
<1>2. main \in {"run", "send"} => consumer \notin {"stuck", "ended"}
  BY DEF QueueInv, ServedInv
<1>3. CASE \E l \in Links : addDelegationSignerLink(l)
  BY <1>3, ServedLink
<1>4. CASE \E r \in Responses : addResponse(r)
  <2>1. PICK r \in Responses : addResponse(r)
    BY <1>4
  <2>2. /\ main = "run" /\ main' = "send" /\ current' = r
        /\ UNCHANGED <<link, consumer, closed, queueNil>> /\ input'[r] = "held"
        /\ \A i \in Inputs \ {r} : input'[i] = input[i]
    BY <1>1, <2>1 DEF addResponse, chanVars
  <2> QED
    BY <1>2, <2>2 DEF ServedInv, LeftBehindIdle
<1>5. CASE mainSend
  <2>1. /\ main = "send" /\ UNCHANGED <<current, link, consumer, closed, queueNil>>
        /\ input'[current] = "queued" /\ \A i \in Inputs \ {current} : input'[i] = input[i]
    BY <1>1, <1>5 DEF mainSend, chanVars
  <2> QED
    BY <1>2, <2>1 DEF ServedInv, LeftBehindIdle
<1>6. CASE result \/ close \/ resultWait \/ closeWait \/ closeForget \/ resultRead
  <2>1. UNCHANGED <<link, input, consumer, current>> /\ main # "send"
    BY <1>6 DEF result, close, resultWait, closeWait, closeForget, resultRead
  <2>2. (closed' = TRUE \/ UNCHANGED closed) /\ (queueNil' = TRUE \/ UNCHANGED queueNil)
    BY <1>6 DEF result, close, resultWait, closeWait, closeForget, resultRead, chanVars
  <2> QED
    BY <2>1, <2>2 DEF ServedInv, LeftBehindIdle
<1> QED
  BY <1>3, <1>4, <1>5, <1>6 DEF Main

(* While the exchange waits, there is room in the channel or an input in it. *)
LEMMA ServedSuffices == QueueInv /\ ServedInv => SomeoneCanGoOn
<1> SUFFICES ASSUME QueueInv, ServedInv, main \in {"send", "wait", "close"},
                    consumer \notin {"new", "work", "done"},
                    ~(consumer = "receive" /\ Queued # {}),
                    \A l \in Links : link[l] \notin {"asking", "ending"}
             PROVE  \/ main = "send" /\ CanSend
                    \/ main \in {"wait", "close"} /\ processing = 0
                    \/ \E l \in Links : link[l] = "sending" /\ CanSend
  <2> SUFFICES ASSUME QueueInv, ServedInv, ~SomeoneCanGoOn PROVE FALSE
    OBVIOUS
  <2>1. main \in {"run", "send", "wait", "close", "forget", "read", "over"}
    BY DEF QueueInv, TypeOK
  <2> QED
    BY <2>1, Zenon DEF SomeoneCanGoOn
<1>1. ~closed /\ ~queueNil
  BY DEF QueueInv
<1>2. Queued = {}
  BY <1>1 DEF QueueInv, TypeOK, ServedInv
<1>3. CanSend
  BY <1>1, <1>2, FS_EmptySet, AuthQueueAssumption DEF CanSend
<1>4. CASE Working = {} /\ Outstanding = {}
  <2>1. Cardinality(Working) = 0 /\ Cardinality(Outstanding) = 0
    BY <1>4, FS_EmptySet
  <2>2. processing = 0
    BY <2>1 DEF QueueInv
  <2> QED
    BY <1>3, <2>2
<1>5. CASE \E l \in Links : l \in Working
  BY <1>3, <1>5 DEF Working
<1>6. CASE \E i \in Inputs : i \in Outstanding
  <2>1. PICK i \in Inputs : input[i] \in {"held", "queued", "taken"}
    BY <1>6 DEF Outstanding
  <2>2. input[i] = "held"
    BY <1>2, <2>1 DEF Queued, QueueInv
  <2> QED
    BY <1>3, <2>2 DEF ServedInv
<1> QED
  BY <1>4, <1>5, <1>6 DEF Working, Outstanding

(* No order of sends, receives and waits brings the authenticator of an      *)
(* exchange to a standstill, for any capacity of the channel and any number  *)
(* of links and responses; and a consumer that is left behind had nothing    *)
(* to do.                                                                    *)
THEOREM QueueNeverStuck == Spec => [](SomeoneCanGoOn /\ LeftBehindIdle)
<1>1. Init => ServedInv
  BY DEF Init, ServedInv, LeftBehindIdle
<1>2. QueueInv /\ ServedInv /\ [Next]_vars => ServedInv'
  <2> SUFFICES ASSUME QueueInv, ServedInv, [Next]_vars PROVE ServedInv'
    OBVIOUS
  <2>1. CASE UNCHANGED vars
    BY <2>1 DEF vars, ServedInv, LeftBehindIdle
  <2> QED
    BY <2>1, ServedMain, ServedConsumer, ServedLink DEF Next
<1>3. ServedInv => LeftBehindIdle
  BY DEF ServedInv
<1> QED
  BY <1>1, <1>2, <1>3, QueueInvariant, ServedSuffices, PTL DEF Spec

(* How far a goroutine of a link and an input have come.                     *)
LinkStage == [none |-> 0, asking |-> 1, sending |-> 2, ending |-> 3, over |-> 4]
InputStage == [none |-> 0, held |-> 1, queued |-> 2, taken |-> 3, processed |-> 4]

(* And, between two moves of those, the exchange and the consumer.           *)
MainStage ==
  [run |-> 0, send |-> 0, wait |-> 1, close |-> 2, forget |-> 3, read |-> 4, over |-> 5]
ConsumerStage == [new |-> 0, work |-> 1, done |-> 2, receive |-> 3, ended |-> 4, stuck |-> 4]

(* No link and no input ever goes back, and a step that moves none of them   *)
(* moves the exchange or the consumer on: as there are finitely many links   *)
(* and inputs, the goroutines run out of steps (auth.go).                    *)
OnlyForward ==
  /\ \A l \in Links : LinkStage[link[l]] <= LinkStage[link'[l]]
  /\ \A i \in Inputs : InputStage[input[i]] <= InputStage[input'[i]]
  /\ \/ \E l \in Links : LinkStage[link[l]] < LinkStage[link'[l]]
     \/ \E i \in Inputs : InputStage[input[i]] < InputStage[input'[i]]
     \/ MainStage[main] < MainStage[main'] /\ UNCHANGED consumer
     \/ ConsumerStage[consumer] < ConsumerStage[consumer'] /\ UNCHANGED main

(* Each step of the authenticator's goroutines is one forward.               *)
LEMMA ForwardStep ==
  ASSUME QueueInv, Next
  PROVE  OnlyForward
<1>1. /\ input \in [Inputs -> {"none", "held", "queued", "taken", "processed"}]
      /\ link \in [Links -> {"none", "asking", "sending", "ending", "over"}]
      /\ Links \subseteq Inputs /\ Responses \subseteq Inputs /\ current \in Inputs
  BY DEF QueueInv, TypeOK, Inputs
<1>2. /\ \A l \in Links : LinkStage[link[l]] \in Int
      /\ \A i \in Inputs : InputStage[input[i]] \in Int
  BY <1>1 DEF LinkStage, InputStage
<1>3. ASSUME NEW l \in Links, addDelegationSignerLink(l) \/ Link(l) PROVE OnlyForward
  <2>1. /\ \A k \in Links \ {l} : link'[k] = link[k]
        /\ LinkStage[link[l]] < LinkStage[link'[l]]
    BY <1>1, <1>3 DEF addDelegationSignerLink, Link, linkExchange, linkSend, linkDone, LinkStage
  <2>2. \/ UNCHANGED input
        \/ input[l] = "none" /\ input' = [input EXCEPT ![l] = "held"]
        \/ input[l] = "held" /\ input' = [input EXCEPT ![l] = "queued"]
    BY <1>3 DEF addDelegationSignerLink, Link, linkExchange, linkSend, linkDone, QueueInv
  <2>3. \A i \in Inputs : InputStage[input[i]] <= InputStage[input'[i]]
    <3>1. \A i \in Inputs \ {l} : input'[i] = input[i]
      BY <1>1, <2>2
    <3>2. InputStage[input[l]] <= InputStage[input'[l]]
      BY <1>1, <2>2 DEF InputStage
    <3> QED
      BY <1>2, <3>1, <3>2
  <2>4. LinkStage[link'[l]] \in Int
    <3>1. link'[l] \in {"asking", "sending", "ending", "over"}
      BY <1>1, <1>3 DEF addDelegationSignerLink, Link, linkExchange, linkSend, linkDone
    <3> QED
      BY <3>1 DEF LinkStage
  <2> QED
    BY <1>2, <2>1, <2>3, <2>4 DEF OnlyForward
<1>4. ASSUME NEW i \in Inputs, UNCHANGED link,
             \/ input[i] = "none" /\ input' = [input EXCEPT ![i] = "held"]
             \/ input[i] = "held" /\ input' = [input EXCEPT ![i] = "queued"]
             \/ input[i] = "queued" /\ input' = [input EXCEPT ![i] = "taken"]
             \/ input[i] = "taken" /\ input' = [input EXCEPT ![i] = "processed"]
      PROVE  OnlyForward
  <2>1. \A j \in Inputs \ {i} : input'[j] = input[j]
    BY <1>1, <1>4
  <2>2. InputStage[input[i]] < InputStage[input'[i]] /\ InputStage[input'[i]] \in Int
    BY <1>1, <1>4 DEF InputStage
  <2> QED
    BY <1>2, <1>4, <2>1, <2>2 DEF OnlyForward
<1>5. CASE \E r \in Responses : addResponse(r)
  BY <1>1, <1>4, <1>5, Zenon DEF addResponse
<1>6. CASE mainSend
  <2>1. current \in Inputs /\ input[current] = "held" /\ UNCHANGED link
        /\ input' = [input EXCEPT ![current] = "queued"]
    BY <1>1, <1>6, Zenon DEF mainSend, QueueInv
  <2> QED
    BY <1>4, <2>1, Zenon
<1>7. CASE startReceive \/ startDone
  BY <1>4, <1>7 DEF startReceive, startDone, Queued
<1>8. CASE result \/ close \/ resultWait \/ closeWait \/ closeForget \/ resultRead
  <2>1. UNCHANGED <<link, input, consumer>> /\ MainStage[main] < MainStage[main']
    BY <1>8 DEF result, close, resultWait, closeWait, closeForget, resultRead, MainStage
  <2> QED
    BY <1>2, <2>1 DEF OnlyForward
<1>9. CASE startRange \/ startEnd \/ startAddResponse
  <2>1. UNCHANGED <<link, input, main>> /\ ConsumerStage[consumer] < ConsumerStage[consumer']
    BY <1>9 DEF startRange, startEnd, startAddResponse, ConsumerStage
  <2> QED
    BY <1>2, <2>1 DEF OnlyForward
<1> QED
  BY <1>3, <1>5, <1>6, <1>7, <1>8, <1>9 DEF Next, Main, Consumer

(* The goroutines of an authenticator only go forward, for any numbers of    *)
(* links and responses.                                                      *)
THEOREM QueueMovesForward == Spec => [][OnlyForward]_vars
<1>1. QueueInv /\ [Next]_vars => [OnlyForward]_vars
  BY ForwardStep
<1> QED
  BY <1>1, QueueInvariant, PTL DEF Spec

-----------------------------------------------------------------------------
(* The keys of a zone *)

(* The TTL of the keys is bounded by theirs and by MaxAllowedTTL. *)
LEMMA ShortestTTLNat ==
  ASSUME NEW ttl \in Nat
  PROVE  /\ ShortestTTL(ttl) \in Nat
         /\ ShortestTTL(ttl) <= ttl
         /\ ShortestTTL(ttl) <= MaxAllowedTTL
BY ZoneKeysAssumption DEF ShortestTTL

(* The new set of keys, and what a return does, have their types.          *)
LEMMA ReturnType ==
  ASSUME KeysTypeOK, NEW p \in Callers, NEW keys \in Keys, Return(p, keys)
  PROVE  /\ pc' \in [Callers -> {"idle", "lock", "query"}]
         /\ returned' \in [Callers -> [keys : Keys, at : Nat]]
BY DEF KeysTypeOK, Return

(* No keys are a possible value of the keys. *)
LEMMA NoKeysType == NoKeys \in Keys
BY DEF NoKeys, Keys

(* Every step keeps the types. *)
LEMMA TypeStep ==
  ASSUME KeysTypeOK, [KeysNext]_keysVars
  PROVE  KeysTypeOK'
<1>1. CASE UNCHANGED keysVars
  BY <1>1 DEF KeysTypeOK, keysVars
<1>2. CASE Tick
  BY <1>2 DEF KeysTypeOK, Tick
<1>3. ASSUME NEW p \in Callers, dnskeys(p)
      PROVE  KeysTypeOK'
  BY <1>3 DEF KeysTypeOK, dnskeys
<1>4. ASSUME NEW p \in Callers, dnskeysCached(p)
      PROVE  KeysTypeOK'
  <2>1. dnskeyRecords \in Keys
    BY DEF KeysTypeOK
  <2> QED  BY <1>4, <2>1, ReturnType DEF KeysTypeOK, dnskeysCached
<1>5. ASSUME NEW p \in Callers, dnskeysQuery(p)
      PROVE  KeysTypeOK'
  BY <1>5 DEF KeysTypeOK, dnskeysQuery
<1>6. ASSUME NEW p \in Callers, dnskeysError(p)
      PROVE  KeysTypeOK'
  BY <1>6, NoKeysType, ReturnType DEF KeysTypeOK, dnskeysError
<1>7. ASSUME NEW p \in Callers, dnskeysEmpty(p)
      PROVE  KeysTypeOK'
  <2>1. dnskeyExpiry' \in Nat
    BY <1>7, ZoneKeysAssumption DEF KeysTypeOK, dnskeysEmpty
  <2> QED  BY <1>7, <2>1, NoKeysType, ReturnType DEF KeysTypeOK, dnskeysEmpty
<1>8. ASSUME NEW p \in Callers, dnskeysAnswer(p)
      PROVE  KeysTypeOK'
  <2>1. PICK ttl \in TTLs :
          /\ dnskeyRecords' = [got |-> now, ttl |-> ttl]
          /\ dnskeyExpiry' = now + ShortestTTL(ttl)
          /\ Return(p, [got |-> now, ttl |-> ttl])
    BY <1>8 DEF dnskeysAnswer
  <2>2. ttl \in Nat /\ [got |-> now, ttl |-> ttl] \in Keys
    BY ZoneKeysAssumption DEF KeysTypeOK, Keys
  <2>3. dnskeyExpiry' \in Nat
    BY <2>1, <2>2, ShortestTTLNat DEF KeysTypeOK
  <2> QED  BY <1>8, <2>1, <2>2, <2>3, ReturnType DEF KeysTypeOK, dnskeysAnswer
<1> QED  BY <1>1, <1>2, <1>3, <1>4, <1>5, <1>6, <1>7, <1>8 DEF KeysNext, Step

(* The lock keeps a second query out. *)
LEMMA LockStep ==
  ASSUME KeysTypeOK, OneQuery, [KeysNext]_keysVars
  PROVE  OneQuery'
<1>1. CASE UNCHANGED keysVars
  BY <1>1 DEF OneQuery, keysVars
<1>2. CASE Tick
  BY <1>2 DEF OneQuery, Tick
<1>3. ASSUME NEW p \in Callers, dnskeys(p)
      PROVE  OneQuery'
  BY <1>3 DEF KeysTypeOK, OneQuery, dnskeys
<1>4. ASSUME NEW p \in Callers, dnskeysCached(p) \/ dnskeysQuery(p)
      PROVE  OneQuery'
  BY <1>4 DEF KeysTypeOK, OneQuery, dnskeysCached, dnskeysQuery, Return
<1>5. ASSUME NEW p \in Callers, dnskeysError(p) \/ dnskeysEmpty(p) \/ dnskeysAnswer(p)
      PROVE  OneQuery'
  <2>1. pc[p] = "query" /\ pc' = [pc EXCEPT ![p] = "idle"]
    BY <1>5 DEF dnskeysError, dnskeysEmpty, dnskeysAnswer, Return
  <2>2. \A q \in Callers : pc[q] = "query" => q = p
    BY <2>1 DEF OneQuery
  <2> QED  BY <2>1, <2>2 DEF KeysTypeOK, OneQuery
<1> QED  BY <1>1, <1>2, <1>3, <1>4, <1>5 DEF KeysNext, Step

(* However the calls of dnskeys overlap, and whatever the servers answer,  *)
(* at most one of them is querying for the zone's keys.                    *)
THEOREM KeysExclusive == KeysSpec => [](KeysTypeOK /\ OneQuery)
<1>1. KeysInit => KeysTypeOK /\ OneQuery
  BY NoKeysType DEF KeysInit, KeysTypeOK, OneQuery, NoTime
<1>2. KeysTypeOK /\ OneQuery /\ [KeysNext]_keysVars => (KeysTypeOK /\ OneQuery)'
  BY TypeStep, LockStep
<1> QED  BY <1>1, <1>2, PTL DEF KeysSpec

(* Whoever holds dnskeyLock is querying: a call that waits for the lock     *)
(* waits for a query of one other call, and never for a call that waits    *)
(* itself (dnskeys of zone.go).                                            *)
LockHeldByQuery == lock # {} => \E p \in Callers : lock = {p} /\ pc[p] = "query"

(* So the lock is given back by the step that ends the query.              *)
THEOREM KeysNeverStuck == KeysSpec => []LockHeldByQuery
<1>1. KeysInit => LockHeldByQuery
  BY DEF KeysInit, LockHeldByQuery
<1>2. KeysTypeOK /\ OneQuery /\ LockHeldByQuery /\ [KeysNext]_keysVars => LockHeldByQuery'
  <2> SUFFICES ASSUME KeysTypeOK, OneQuery, LockHeldByQuery, [KeysNext]_keysVars
               PROVE  LockHeldByQuery'
    OBVIOUS
  <2>1. CASE UNCHANGED <<lock, pc>>
    BY <2>1 DEF LockHeldByQuery
  <2>2. ASSUME NEW p \in Callers, dnskeys(p) PROVE LockHeldByQuery'
    BY <2>2 DEF LockHeldByQuery, KeysTypeOK, dnskeys
  <2>3. ASSUME NEW p \in Callers, dnskeysQuery(p) PROVE LockHeldByQuery'
    BY <2>3 DEF LockHeldByQuery, KeysTypeOK, dnskeysQuery
  <2>4. CASE lock' = {}
    BY <2>4 DEF LockHeldByQuery
  <2> QED
    BY <2>1, <2>2, <2>3, <2>4
    DEF KeysNext, Step, Tick, keysVars, dnskeysCached, dnskeysError, dnskeysEmpty, dnskeysAnswer
<1> QED
  BY <1>1, <1>2, KeysExclusive, PTL DEF KeysSpec

(* The expiry that is in force belongs to the records that are kept,       *)
(* unless an empty answer came since they were received.                   *)
LEMMA KeysInvStep ==
  ASSUME KeysInv, [KeysNext]_keysVars
  PROVE  KeysInv'
<1> DEFINE Fresh(r, empty) ==
             r.keys # NoKeys /\ r.keys.got > empty =>
               /\ r.at <= r.keys.got + r.keys.ttl
               /\ r.at <= r.keys.got + MaxAllowedTTL
<1>a. /\ KeysTypeOK /\ KeysRespectTTL /\ OneQuery
      /\ dnskeyRecords.got <= now /\ lastEmpty <= now
      /\ dnskeyExpiry # NoTime /\ dnskeyRecords.got > lastEmpty =>
           dnskeyExpiry = dnskeyRecords.got + ShortestTTL(dnskeyRecords.ttl)
  BY Zenon DEF KeysInv
<1>0. /\ dnskeyRecords.got \in Nat /\ dnskeyRecords.ttl \in Nat
      /\ now \in Nat /\ lastEmpty \in Int
      /\ \A q \in Callers : returned[q].keys.got \in Nat
  BY <1>a DEF KeysTypeOK, Keys, NoTime
<1>b. returned \in [Callers -> [keys : Keys, at : Nat]]
  BY <1>a, Zenon DEF KeysTypeOK
<1>c. \A q \in Callers : Fresh(returned[q], lastEmpty)
  BY <1>a, Zenon DEF KeysRespectTTL
<1>1. KeysTypeOK' /\ OneQuery'
  BY <1>a, TypeStep, LockStep, Zenon
<1>d. now' \in Nat
  BY <1>1, Zenon DEF KeysTypeOK
<1>2. CASE UNCHANGED <<dnskeyRecords, dnskeyExpiry, returned, lastEmpty>> /\ now' >= now
  <2>1. dnskeyRecords.got <= now' /\ lastEmpty <= now'
    BY <1>0, <1>a, <1>d, <1>2
  <2>2. KeysRespectTTL'
    BY <1>a, <1>2, Zenon DEF KeysRespectTTL
  <2> QED  BY <1>1, <1>a, <1>2, <2>1, <2>2, Zenon DEF KeysInv
<1>e. ASSUME NEW p \in Callers, NEW keys, Fresh([keys |-> keys, at |-> now], lastEmpty),
             returned' = [returned EXCEPT ![p] = [keys |-> keys, at |-> now]],
             UNCHANGED lastEmpty
      PROVE  KeysRespectTTL'
  <2>1. ASSUME NEW q \in Callers PROVE Fresh(returned'[q], lastEmpty)
    <3>1. CASE q = p
      <4>1. returned'[q] = [keys |-> keys, at |-> now]
        BY <1>b, <1>e, <3>1
      <4> HIDE DEF Fresh
      <4> QED  BY <1>e, <4>1, Zenon
    <3>2. CASE q # p
      <4>1. returned'[q] = returned[q]
        BY <1>b, <1>e, <3>2
      <4> HIDE DEF Fresh
      <4> QED  BY <1>c, <4>1, Zenon
    <3> QED  BY <3>1, <3>2
  <2> QED  BY <1>e, <2>1, Zenon DEF KeysRespectTTL
<1>3. ASSUME NEW p \in Callers, dnskeysCached(p)
      PROVE  KeysInv'
  <2>1. Fresh([keys |-> dnskeyRecords, at |-> now], lastEmpty)
    <3>1. dnskeyExpiry # NoTime /\ dnskeyExpiry >= now
      BY <1>3, Zenon DEF dnskeysCached, Valid
    <3>2. /\ ShortestTTL(dnskeyRecords.ttl) \in Nat
          /\ ShortestTTL(dnskeyRecords.ttl) <= dnskeyRecords.ttl
          /\ ShortestTTL(dnskeyRecords.ttl) <= MaxAllowedTTL
      BY <1>0, ShortestTTLNat, Zenon
    <3>3. SUFFICES ASSUME dnskeyRecords.got > lastEmpty
                   PROVE  /\ now <= dnskeyRecords.got + dnskeyRecords.ttl
                          /\ now <= dnskeyRecords.got + MaxAllowedTTL
      OBVIOUS
    <3>4. dnskeyExpiry = dnskeyRecords.got + ShortestTTL(dnskeyRecords.ttl)
      BY <1>a, <3>1, <3>3, Zenon
    <3> QED
      BY <1>0, <3>1, <3>2, <3>4, ZoneKeysAssumption
  <2>2. /\ returned' = [returned EXCEPT ![p] = [keys |-> dnskeyRecords, at |-> now]]
        /\ UNCHANGED <<dnskeyRecords, dnskeyExpiry, now, lastEmpty>>
    BY <1>3, Zenon DEF dnskeysCached, Return
  <2> HIDE DEF Fresh
  <2>3. KeysRespectTTL'
    BY <1>e, <2>1, <2>2, Zenon
  <2> QED  BY <1>1, <1>a, <2>2, <2>3, Zenon DEF KeysInv
<1>4. ASSUME NEW p \in Callers, dnskeysError(p)
      PROVE  KeysInv'
  <2>1. /\ returned' = [returned EXCEPT ![p] = [keys |-> NoKeys, at |-> now]]
        /\ UNCHANGED <<dnskeyRecords, dnskeyExpiry, now, lastEmpty>>
    BY <1>4, Zenon DEF dnskeysError, Return
  <2>2. Fresh([keys |-> NoKeys, at |-> now], lastEmpty)
    OBVIOUS
  <2> HIDE DEF Fresh
  <2>3. KeysRespectTTL'
    BY <1>e, <2>1, <2>2, Zenon
  <2> QED  BY <1>1, <1>a, <2>1, <2>3, Zenon DEF KeysInv
<1>5. ASSUME NEW p \in Callers, dnskeysAnswer(p)
      PROVE  KeysInv'
  <2>1. PICK ttl \in TTLs :
          /\ dnskeyRecords' = [got |-> now, ttl |-> ttl]
          /\ dnskeyExpiry' = now + ShortestTTL(ttl)
          /\ Return(p, [got |-> now, ttl |-> ttl])
    BY <1>5, Zenon DEF dnskeysAnswer
  <2>2. ttl \in Nat /\ MaxAllowedTTL \in Nat
    BY ZoneKeysAssumption
  <2>3. Fresh([keys |-> [got |-> now, ttl |-> ttl], at |-> now], lastEmpty)
    BY <1>0, <2>2
  <2>4. /\ returned' = [returned EXCEPT ![p] = [keys |-> [got |-> now, ttl |-> ttl], at |-> now]]
        /\ UNCHANGED <<now, lastEmpty>>
    BY <1>5, <2>1, Zenon DEF dnskeysAnswer, Return
  <2>5. /\ dnskeyRecords'.got = now /\ dnskeyRecords'.ttl = ttl /\ now <= now
    BY <1>0, <2>1
  <2> HIDE DEF Fresh
  <2>6. KeysRespectTTL'
    BY <1>e, <2>3, <2>4, Zenon
  <2> QED  BY <1>1, <1>a, <2>1, <2>4, <2>5, <2>6, Zenon DEF KeysInv
<1>6. ASSUME NEW p \in Callers, dnskeysEmpty(p)
      PROVE  KeysInv'
  <2>1. /\ returned' = [returned EXCEPT ![p] = [keys |-> NoKeys, at |-> now]]
        /\ lastEmpty' = now /\ now' = now /\ dnskeyRecords' = dnskeyRecords
    BY <1>6, Zenon DEF dnskeysEmpty, Return
  <2>2. ASSUME NEW q \in Callers
        PROVE  Fresh(returned'[q], now)
    <3>1. CASE q = p
      <4>1. returned'[q].keys = NoKeys
        BY <1>b, <2>1, <3>1
      <4> QED  BY <4>1, Zenon
    <3>2. CASE q # p
      <4>1. returned'[q] = returned[q]
        BY <1>b, <2>1, <3>2
      <4>2. returned[q].keys.got > now => returned[q].keys.got > lastEmpty
        BY <1>0, <1>a
      <4> QED  BY <1>c, <4>1, <4>2, Zenon
    <3> QED  BY <3>1, <3>2
  <2>3. KeysRespectTTL'
    BY <2>1, <2>2, Zenon DEF KeysRespectTTL
  <2>4. ~(dnskeyRecords.got > now) /\ now <= now
    BY <1>0, <1>a
  <2> QED  BY <1>1, <1>a, <2>1, <2>3, <2>4, Zenon DEF KeysInv
<1>7. CASE \/ UNCHANGED keysVars \/ Tick
           \/ \E p \in Callers : dnskeys(p) \/ dnskeysQuery(p)
  <2>1. /\ UNCHANGED <<dnskeyRecords, dnskeyExpiry, returned, lastEmpty>>
        /\ now' = now \/ now' = now + 1
    BY <1>7, Zenon DEF keysVars, Tick, dnskeys, dnskeysQuery
  <2>2. now' >= now
    BY <1>0, <2>1
  <2> QED  BY <1>2, <2>1, <2>2, Zenon
<1> QED  BY <1>3, <1>4, <1>5, <1>6, <1>7, Zenon DEF KeysNext, Step

(* No call returns keys longer than their TTL and MaxAllowedTTL allow,     *)
(* unless an empty answer came since they were received.                   *)
THEOREM KeysSafety == KeysSpec => []KeysRespectTTL
<1>1. KeysInit => KeysInv
  BY NoKeysType DEF KeysInit, KeysInv, KeysTypeOK, OneQuery, KeysRespectTTL, NoTime, NoKeys
<1>2. KeysInv /\ [KeysNext]_keysVars => KeysInv'
  BY KeysInvStep
<1>3. KeysInv => KeysRespectTTL
  BY DEF KeysInv
<1> QED  BY <1>1, <1>2, <1>3, PTL DEF KeysSpec
=============================================================================
