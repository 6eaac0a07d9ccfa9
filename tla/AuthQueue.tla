------------------------------ MODULE AuthQueue ------------------------------
(***************************************************************************)
(* The pipeline around the DNSSEC authenticator of one exchange (auth.go). *)
(* The goroutine of the exchange feeds it responses and starts a goroutine *)
(* for each DS record it still needs; a consumer goroutine passes what     *)
(* they send to the authenticator, one input at a time; result and close   *)
(* wait on a WaitGroup, then close the channel.                            *)
(*                                                                         *)
(* What the authenticator makes of an input is the subject of module       *)
(* Authenticator: here an input is accepted or rejected with an error.     *)
(* The channel is the set of the inputs in it: the authenticator sorts     *)
(* them itself, so their order is left open.                               *)
(***************************************************************************)
EXTENDS Integers, FiniteSets

CONSTANTS
  Links,       \* calls of addDelegationSignerLink, each with its goroutine
  Responses,   \* calls of addResponse
  Capacity     \* of the channel, 8 in the code

Inputs == Links \cup Responses

ASSUME AuthQueueAssumption ==
  /\ IsFiniteSet(Links)
  /\ IsFiniteSet(Responses)
  /\ Links \cap Responses = {}
  /\ Capacity \in Nat \ {0}

VARIABLES
  main,         \* the goroutine of the exchange
  current,      \* the input main is sending
  link,         \* the goroutines of addDelegationSignerLink
  input,        \* where each input is
  consumer,     \* the goroutine of start
  processing,   \* the counter of the WaitGroup
  finished,     \* the flag of that name
  closed,       \* the channel is closed
  queueNil,     \* a.queue is nil
  asked,        \* the exchange calls result, not only close
  errors,       \* len(a.errors)
  answer        \* what result returned

vars == <<main, current, link, input, consumer, processing, finished, closed,
          queueNil, asked, errors, answer>>
chanVars == <<closed, queueNil>>

Queued == {i \in Inputs : input[i] = "queued"}

Init ==
  /\ main = "run"
  /\ current \in Responses
  /\ link = [l \in Links |-> "none"]
  /\ input = [i \in Inputs |-> "none"]
  /\ consumer = "new"
  /\ processing = 0
  /\ finished = FALSE
  /\ closed = FALSE
  /\ queueNil = FALSE
  /\ asked = FALSE
  /\ errors = 0
  /\ answer = "none"

-----------------------------------------------------------------------------
(* addDelegationSignerLink, and the goroutine it starts. *)

(* Seeded bug: the goroutine is not counted. *)
addDelegationSignerLinkUncounted(l) ==
  /\ main = "run"
  /\ ~finished
  /\ link[l] = "none"
  /\ link' = [link EXCEPT ![l] = "asking"]
  /\ UNCHANGED <<main, current, input, consumer, processing, finished, chanVars, asked, errors,
                 answer>>

addDelegationSignerLink(l) ==
  /\ main = "run"
  /\ ~finished
  /\ link[l] = "none"
  /\ link' = [link EXCEPT ![l] = "asking"]
  /\ processing' = processing + 1
  /\ UNCHANGED <<main, current, input, consumer, finished, chanVars, asked, errors, answer>>

(* The query for the DS records: an error or an empty response ends here. *)
linkExchange(l) ==
  /\ link[l] = "asking"
  /\ \/ /\ link' = [link EXCEPT ![l] = "ending"]
        /\ UNCHANGED <<input, processing>>
     \/ /\ link' = [link EXCEPT ![l] = "sending"]
        /\ input' = [input EXCEPT ![l] = "held"]
        /\ processing' = processing + 1
  /\ UNCHANGED <<main, current, consumer, finished, chanVars, asked, errors, answer>>

linkSend(l) ==
  /\ link[l] = "sending"
  /\ ~closed /\ ~queueNil
  /\ Cardinality(Queued) < Capacity
  /\ input' = [input EXCEPT ![l] = "queued"]
  /\ link' = [link EXCEPT ![l] = "ending"]
  /\ UNCHANGED <<main, current, consumer, processing, finished, chanVars, asked, errors, answer>>

linkDone(l) ==
  /\ link[l] = "ending"
  /\ link' = [link EXCEPT ![l] = "over"]
  /\ processing' = processing - 1
  /\ UNCHANGED <<main, current, input, consumer, finished, chanVars, asked, errors, answer>>

-----------------------------------------------------------------------------
(* addResponse, called by the goroutine of the exchange. *)

addResponse(r) ==
  /\ main = "run"
  /\ ~finished
  /\ input[r] = "none"
  /\ input' = [input EXCEPT ![r] = "held"]
  /\ current' = r
  /\ processing' = processing + 1
  /\ main' = "send"
  /\ UNCHANGED <<link, consumer, finished, chanVars, asked, errors, answer>>

mainSend ==
  /\ main = "send"
  /\ ~closed /\ ~queueNil
  /\ Cardinality(Queued) < Capacity
  /\ input' = [input EXCEPT ![current] = "queued"]
  /\ main' = "run"
  /\ UNCHANGED <<current, link, consumer, processing, finished, chanVars, asked, errors, answer>>

-----------------------------------------------------------------------------
(* start: range evaluates a.queue once, when the goroutine is first run. *)

startRange ==
  /\ consumer = "new"
  /\ consumer' = IF queueNil THEN "stuck" ELSE "receive"
  /\ UNCHANGED <<main, current, link, input, processing, finished, chanVars, asked, errors, answer>>

startReceive ==
  /\ consumer = "receive"
  /\ \E i \in Queued : input' = [input EXCEPT ![i] = "taken"]
  /\ consumer' = "work"
  /\ UNCHANGED <<main, current, link, processing, finished, chanVars, asked, errors, answer>>

startEnd ==
  /\ consumer = "receive"
  /\ closed
  /\ Queued = {}
  /\ consumer' = "ended"
  /\ UNCHANGED <<main, current, link, input, processing, finished, chanVars, asked, errors, answer>>

startAddResponse ==
  /\ consumer = "work"
  /\ errors' \in {errors, errors + 1}
  /\ consumer' = "done"
  /\ UNCHANGED <<main, current, link, input, processing, finished, chanVars, asked, answer>>

(* Seeded bug: the consumer stops at the first error. *)
startDoneStops ==
  /\ consumer = "done"
  /\ \E i \in Inputs : input[i] = "taken" /\ input' = [input EXCEPT ![i] = "processed"]
  /\ processing' = processing - 1
  /\ consumer' = IF errors > 0 THEN "ended" ELSE "receive"
  /\ UNCHANGED <<main, current, link, finished, chanVars, asked, errors, answer>>

startDone ==
  /\ consumer = "done"
  /\ \E i \in Inputs : input[i] = "taken" /\ input' = [input EXCEPT ![i] = "processed"]
  /\ processing' = processing - 1
  /\ consumer' = "receive"
  /\ UNCHANGED <<main, current, link, finished, chanVars, asked, errors, answer>>

-----------------------------------------------------------------------------
(* result and close.  The deferred close after a result does nothing (Once). *)

(* Seeded bug: the errors are read before Wait. *)
resultEarly ==
  /\ main = "run"
  /\ finished' = TRUE
  /\ asked' = TRUE
  /\ main' = "read"
  /\ UNCHANGED <<current, link, input, consumer, processing, chanVars, errors, answer>>

result ==
  /\ main = "run"
  /\ finished' = TRUE
  /\ asked' = TRUE
  /\ main' = "wait"
  /\ UNCHANGED <<current, link, input, consumer, processing, chanVars, errors, answer>>

resultWait ==
  /\ main = "wait"
  /\ processing = 0
  /\ main' = "close"
  /\ UNCHANGED <<current, link, input, consumer, processing, finished, chanVars, asked, errors, answer>>

close ==
  /\ main = "run"
  /\ finished' = TRUE
  /\ main' = "close"
  /\ UNCHANGED <<current, link, input, consumer, processing, chanVars, asked, errors, answer>>

(* Seeded bug: the channel is dropped, but not closed. *)
closeWaitOpen ==
  /\ main = "close"
  /\ processing = 0
  /\ main' = "forget"
  /\ UNCHANGED <<current, link, input, consumer, processing, finished, closed, queueNil, asked,
                 errors, answer>>

closeWait ==
  /\ main = "close"
  /\ processing = 0
  /\ closed' = TRUE
  /\ main' = "forget"
  /\ UNCHANGED <<current, link, input, consumer, processing, finished, queueNil, asked, errors, answer>>

closeForget ==
  /\ main = "forget"
  /\ queueNil' = TRUE
  /\ main' = IF asked THEN "read" ELSE "over"
  /\ UNCHANGED <<current, link, input, consumer, processing, finished, closed, asked, errors, answer>>

(* A single error is returned; several are composed into one that is then    *)
(* dropped, and the authenticator's own result is returned.                  *)
resultRead ==
  /\ main = "read"
  /\ answer' = IF errors = 1 THEN "error" ELSE "result"
  /\ main' = "over"
  /\ UNCHANGED <<current, link, input, consumer, processing, finished, chanVars, asked, errors>>

-----------------------------------------------------------------------------

Link(l) == linkExchange(l) \/ linkSend(l) \/ linkDone(l)

Consumer == startRange \/ startReceive \/ startEnd \/ startAddResponse \/ startDone

Main ==
  \/ \E l \in Links : addDelegationSignerLink(l)
  \/ \E r \in Responses : addResponse(r)
  \/ mainSend
  \/ result \/ resultWait
  \/ close \/ closeWait \/ closeForget
  \/ resultRead

Next == Main \/ Consumer \/ \E l \in Links : Link(l)

Spec == Init /\ [][Next]_vars

(* Goroutines that can run do run, and a query for DS records ends.          *)
FairSpec ==
  /\ Spec
  /\ WF_vars(Main)
  /\ WF_vars(Consumer)
  /\ \A l \in Links : WF_vars(Link(l))

-----------------------------------------------------------------------------
(* Properties *)

(* Every goroutine and every input is in one of its states, and the counter  *)
(* of the WaitGroup is not negative, which would be a panic.                 *)
TypeOK ==
  /\ main \in {"run", "send", "wait", "close", "forget", "read", "over"}
  /\ current \in Responses
  /\ link \in [Links -> {"none", "asking", "sending", "ending", "over"}]
  /\ input \in [Inputs -> {"none", "held", "queued", "taken", "processed"}]
  /\ consumer \in {"new", "receive", "work", "done", "ended", "stuck"}
  /\ processing \in Nat
  /\ errors \in Nat
  /\ finished \in BOOLEAN /\ closed \in BOOLEAN /\ queueNil \in BOOLEAN
  /\ asked \in BOOLEAN
  /\ answer \in {"none", "error", "result"}

(* No goroutine ever sends on a.queue after close closed it or set it to     *)
(* nil: such a send would panic, or block for ever.                          *)
NoSendAfterClose ==
  closed \/ queueNil =>
    /\ main # "send"
    /\ \A l \in Links : link[l] \notin {"asking", "sending"}

(* "`Errors` is only accessible from this thread once we've finished Wait()" *)
(* (auth.go:100): when result reads the errors, the consumer has processed   *)
(* every input that was ever handed over, and touches the errors no more.    *)
ResultIsComplete ==
  main = "read" =>
    /\ consumer \notin {"work", "done"}
    /\ \A i \in Inputs : input[i] \in {"none", "processed"}
    /\ \A l \in Links : link[l] \in {"none", "over"}

(* The goroutines and the inputs the WaitGroup is there to count. *)
Working == {l \in Links : link[l] \in {"asking", "sending", "ending"}}
Outstanding == {i \in Inputs : input[i] \in {"held", "queued", "taken"}}

(* The inductive invariant: the counter is exactly the number of goroutines  *)
(* and inputs under way, nobody is under way once Wait has returned, and at  *)
(* most one input is with the consumer.                                      *)
QueueInv ==
  /\ TypeOK
  /\ processing = Cardinality(Working) + Cardinality(Outstanding)
  /\ main \in {"forget", "read", "over"} => processing = 0
  /\ closed \/ queueNil => main \in {"forget", "read", "over"}
  /\ main = "send" => input[current] = "held"
  /\ \A l \in Links : /\ link[l] \in {"none", "asking"} => input[l] = "none"
                      /\ link[l] = "sending" => input[l] = "held"
  /\ \A i \in Inputs : input[i] = "taken" => consumer \in {"work", "done"}
  /\ \A i, j \in Inputs : input[i] = "taken" /\ input[j] = "taken" => i = j
  /\ consumer \in {"work", "done"} => \E i \in Inputs : input[i] = "taken"

(* The exchange is never blocked for ever by its authenticator: result and   *)
(* close return, even if the channel was full.                               *)
AuthReturns == <>(main = "over")

(* The consumer ends when the channel is closed; it is left behind only if   *)
(* it first ran after close, which takes an exchange without any input.      *)
ConsumerEnds ==
  <>[](\/ consumer = "ended"
       \/ consumer = "stuck" /\ \A i \in Inputs : input[i] = "none")
=============================================================================
