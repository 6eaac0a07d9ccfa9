------------------------------ MODULE Finalise ------------------------------
(***************************************************************************)
(* What becomes of the answer of the last zone: finaliseResponse of        *)
(* resolver_exchange.go and cname of cname.go, which asks for the targets  *)
(* of aliases through nested exchanges.  One request is a stack of them;   *)
(* they share the counter of queries.                                      *)
(*                                                                         *)
(* How a name's zone is found and what the authenticator concludes are     *)
(* modules Resolver and Authenticator: here a zone's answer is a member of *)
(* Replies and a conclusion a member of Verdicts.  A record of the answer  *)
(* section is [name, type, target]; the other sections are the sets of the *)
(* types in them.                                                          *)
(***************************************************************************)
EXTENDS Integers, Sequences, FiniteSets

CONSTANTS
  Names,
  Questions,              \* the requests: [name, qtype, do, cd]
  Replies,                \* name -> messages [answer, ns, extra, rcode, aa, ad]
  Verdicts,               \* [auth, err] an authenticator may return
  MaxQueriesPerRequest,
  SuppressBogusResponseSections,
  RemoveAuthoritySectionForPositiveAnswers,
  RemoveAdditionalSectionForPositiveAnswers,
  None

Success == 0
ServerFailure == 2
NameError == 3

AuthenticationResult == {"Unknown", "Insecure", "Secure", "Bogus"}

RR == [name : Names, type : {"A", "CNAME"}, target : Names]
Types == {"A", "NS", "SOA", "OPT"}

Message ==
  [answer : SUBSET RR, ns : SUBSET Types, extra : SUBSET Types,
   rcode : Nat, aa : BOOLEAN, ad : BOOLEAN]

ASSUME FinaliseAssumption ==
  /\ MaxQueriesPerRequest \in Nat
  /\ Questions \subseteq
       [name : Names, qtype : {"A", "CNAME"}, do : BOOLEAN, cd : BOOLEAN]
  /\ Verdicts \subseteq [auth : AuthenticationResult, err : BOOLEAN]
  /\ \A n \in Names : Replies[n] \subseteq Message

VARIABLES
  question,   \* the request
  stack,      \* the exchanges in progress, the innermost last
  counter,    \* of ctxSessionQueries
  asked,      \* history: the names asked for
  failed,     \* history: an exchange of the request returned an error
  out         \* the response, or None

vars == <<question, stack, counter, asked, failed, out>>

(* parts: history, what the zones said of the messages in the response. *)
Frame(n, cd) ==
  [name |-> n, cd |-> cd, pc |-> "ask", msg |-> None, auth |-> "Unknown",
   err |-> FALSE, todo |-> {}, parts |-> {}]

Answered(f, m, auth, err, todo, parts) ==
  [name |-> f.name, cd |-> f.cd, pc |-> "cname", msg |-> m, auth |-> auth,
   err |-> err, todo |-> todo, parts |-> parts]

Init ==
  /\ question \in Questions
  /\ stack = <<Frame(question.name, question.cd)>>
  /\ counter = 0
  /\ asked = {}
  /\ failed = FALSE
  /\ out = None

Depth == Len(stack)
Top == stack[Depth]
SetTop(f) == stack' = [stack EXCEPT ![Depth] = f]

Error == [err |-> TRUE, msg |-> None, auth |-> "Unknown", parts |-> {}]

(* Seeded bug: an insecure part does not weaken a secure one. *)
CombineFirst(r, r2) ==
  IF r = "Bogus" \/ r2 = "Bogus" THEN "Bogus"
  ELSE IF r = "Unknown" \/ r2 = "Unknown" THEN "Unknown" ELSE r

Combine(r, r2) ==
  IF r = "Bogus" \/ r2 = "Bogus" THEN "Bogus"
  ELSE IF r = "Unknown" \/ r2 = "Unknown" THEN "Unknown"
  ELSE IF r = "Insecure" \/ r2 = "Insecure" THEN "Insecure"
  ELSE IF r = "Secure" /\ r2 = "Secure" THEN "Secure" ELSE "Bogus"

(* Seeded bug: the response code of the target replaces that of the alias. *)
MergeTakesLast(f, r) ==
  Answered(f, [answer |-> f.msg.answer \cup r.msg.answer,
               ns |-> f.msg.ns \cup r.msg.ns,
               extra |-> f.msg.extra \cup r.msg.extra,
               rcode |-> r.msg.rcode,
               aa |-> f.msg.aa /\ r.msg.aa, ad |-> f.msg.ad],
           Combine(f.auth, r.auth), f.err, f.todo, f.parts \cup r.parts)

(* What cname makes of a response of a nested exchange. *)
Merge(f, r) ==
  Answered(f, [answer |-> f.msg.answer \cup r.msg.answer,
               ns |-> f.msg.ns \cup r.msg.ns,
               extra |-> f.msg.extra \cup r.msg.extra,
               rcode |-> IF f.msg.rcode > r.msg.rcode THEN f.msg.rcode ELSE r.msg.rcode,
               aa |-> f.msg.aa /\ r.msg.aa, ad |-> f.msg.ad],
           Combine(f.auth, r.auth), f.err, f.todo, f.parts \cup r.parts)

(* The innermost exchange returns r: an error makes the one that waits for *)
(* it return the error too.                                                *)
Return(r) ==
  /\ failed' = (failed \/ r.err)
  /\ out' = IF Depth = 1 THEN r ELSE out
  /\ stack' = [i \in 1..Depth - 1 |->
                 IF i < Depth - 1 THEN stack[i]
                 ELSE IF r.err THEN [stack[i] EXCEPT !.pc = "fail"] ELSE Merge(stack[i], r)]

-----------------------------------------------------------------------------
(* The steps *)

Aliases(m) == {rr \in m.answer : rr.type = "CNAME"}

(* Seeded bug: only the alias of the name asked for is looked at. *)
exchangeFirstAlias ==
  /\ stack # <<>> /\ Top.pc = "ask"
  /\ counter' \in counter + 1 .. MaxQueriesPerRequest
  /\ asked' = asked \cup {Top.name}
  /\ \E m \in Replies[Top.name],
        v \in IF question.do THEN Verdicts ELSE {[auth |-> "Unknown", err |-> FALSE]} :
       SetTop(Answered(Top, m, v.auth, v.err,
                       IF question.qtype = "CNAME" THEN {} ELSE {rr \in Aliases(m) : rr.name = Top.name},
                       {[auth |-> v.auth, rcode |-> m.rcode, aa |-> m.aa]}))
  /\ UNCHANGED <<question, failed, out>>

(* The labels of the name are counted, up to the zone that answers; with   *)
(* DO there is a verdict on the answer.  Aliases in it are to be followed. *)
exchange ==
  /\ stack # <<>> /\ Top.pc = "ask"
  /\ counter' \in counter + 1 .. MaxQueriesPerRequest
  /\ asked' = asked \cup {Top.name}
  /\ \E m \in Replies[Top.name],
        v \in IF question.do THEN Verdicts ELSE {[auth |-> "Unknown", err |-> FALSE]} :
       SetTop(Answered(Top, m, v.auth, v.err,
                       IF question.qtype = "CNAME" THEN {} ELSE Aliases(m),
                       {[auth |-> v.auth, rcode |-> m.rcode, aa |-> m.aa]}))
  /\ UNCHANGED <<question, failed, out>>

(* A zone fails, or the counter passes its bound. *)
exchangeError ==
  /\ stack # <<>> /\ Top.pc = "ask"
  /\ counter' \in counter + 1 .. MaxQueriesPerRequest + 1
  /\ Return(Error)
  /\ UNCHANGED <<question, asked>>

Present(m, n) == \E rr \in m.answer : rr.name = n /\ rr.type \in {question.qtype, "CNAME"}

(* Seeded bug: an alias that needs no query is never ticked off. *)
cnameRequeues(c) ==
  /\ stack # <<>> /\ Top.pc = "cname"
  /\ c \in Top.todo
  /\ LET f == [Top EXCEPT !.todo = @ \ {c}]
     IN  IF Present(Top.msg, c.target)
         THEN UNCHANGED stack
         ELSE stack' = Append([stack EXCEPT ![Depth] = [f EXCEPT !.pc = "wait"]],
                              Frame(c.target, FALSE))
  /\ UNCHANGED <<question, counter, asked, failed, out>>

(* One alias of the answer; its target may be in the answer already. *)
cname(c) ==
  /\ stack # <<>> /\ Top.pc = "cname"
  /\ c \in Top.todo
  /\ LET f == [Top EXCEPT !.todo = @ \ {c}]
     IN  IF Present(Top.msg, c.target)
         THEN SetTop(f)
         ELSE stack' = Append([stack EXCEPT ![Depth] = [f EXCEPT !.pc = "wait"]],
                              Frame(c.target, FALSE))
  /\ UNCHANGED <<question, counter, asked, failed, out>>

cnameError ==
  /\ stack # <<>> /\ Top.pc = "fail"
  /\ Return(Error)
  /\ UNCHANGED <<question, counter, asked>>

(* What the caller gets: sections trimmed, AD set, Bogus withheld. *)
Positive(m) == m.answer # {} /\ "SOA" \notin m.ns

Trimmed(m) ==
  [answer |-> m.answer,
   ns |-> IF RemoveAuthoritySectionForPositiveAnswers /\ Positive(m) THEN {} ELSE m.ns,
   extra |-> IF RemoveAdditionalSectionForPositiveAnswers /\ Positive(m)
             THEN m.extra \cap {"OPT"} ELSE m.extra,
   rcode |-> m.rcode, aa |-> m.aa, ad |-> m.ad]

Withheld(m) ==
  IF SuppressBogusResponseSections
  THEN [answer |-> {}, ns |-> {}, extra |-> {}, rcode |-> ServerFailure,
        aa |-> m.aa, ad |-> m.ad]
  ELSE [m EXCEPT !.rcode = ServerFailure]

(* Seeded bug: a bogus answer is returned like any other. *)
SignalledBogus(f, m) ==
  IF ~question.do \/ f.cd THEN m ELSE [m EXCEPT !.ad = (f.auth = "Secure")]

Signalled(f, m) ==
  IF ~question.do \/ f.cd THEN m
  ELSE IF f.auth = "Bogus" THEN Withheld([m EXCEPT !.ad = FALSE])
  ELSE [m EXCEPT !.ad = (f.auth = "Secure")]

Final(f) ==
  [err |-> f.err \/ f.msg.rcode \notin {Success, NameError},
   msg |-> Signalled(f, Trimmed(f.msg)), auth |-> f.auth, parts |-> f.parts]

finaliseResponse ==
  /\ stack # <<>> /\ Top.pc = "cname" /\ Top.todo = {}
  /\ Return(Final(Top))
  /\ UNCHANGED <<question, counter, asked>>

Next ==
  \/ exchange \/ exchangeError \/ cnameError \/ finaliseResponse
  \/ \E n, t \in Names : cname([name |-> n, type |-> "CNAME", target |-> t])

Spec == Init /\ [][Next]_vars

(* One goroutine runs the request, and a zone's exchange ends. *)
FairSpec == Spec /\ WF_vars(Next)

-----------------------------------------------------------------------------
(* Properties *)

Part == [auth : AuthenticationResult, rcode : Nat, aa : BOOLEAN]

Frames ==
  [name : Names, cd : BOOLEAN, pc : {"ask", "cname", "wait", "fail"},
   msg : Message \cup {None}, auth : AuthenticationResult, err : BOOLEAN,
   todo : SUBSET RR, parts : SUBSET Part]

Responses ==
  [err : BOOLEAN, msg : Message \cup {None}, auth : AuthenticationResult,
   parts : SUBSET Part]

TypeOK ==
  /\ question \in Questions
  /\ counter \in 0..MaxQueriesPerRequest + 1
  /\ asked \subseteq Names
  /\ failed \in BOOLEAN
  /\ stack \in Seq(Frames)
  /\ Depth <= MaxQueriesPerRequest + 1
  /\ out \in Responses \cup {None}

(* finaliseResponse sets AD after cname has combined the verdicts of the   *)
(* alias and of every target: with DO and without CD, AD means that every  *)
(* message the response was put together from was found Secure.            *)
ADMeansAllSecure ==
  out # None /\ out.msg # None /\ question.do /\ ~question.cd /\ out.msg.ad =>
    \A p \in out.parts : p.auth = "Secure"

(* One bogus message anywhere along a chain of aliases withholds the whole *)
(* response: SERVFAIL and, if so configured, no records.                   *)
BogusIsWithheld ==
  out # None /\ out.msg # None /\ question.do /\ ~question.cd
  /\ (\E p \in out.parts : p.auth = "Bogus") =>
       /\ out.msg.rcode = ServerFailure
       /\ SuppressBogusResponseSections => out.msg.answer = {} /\ out.msg.ns = {}

(* A response without an error hides nothing of what its parts said: no    *)
(* exchange of the request failed, the code is 0 only if all codes were,   *)
(* and AA is set only if all parts were authoritative (cname).             *)
NoPartHidden ==
  out # None /\ ~out.err =>
    /\ ~failed
    /\ out.msg.rcode = Success => \A p \in out.parts : p.rcode = Success
    /\ out.msg.aa => \A p \in out.parts : p.aa

(* An answer that is returned without an error leaves no alias open: the   *)
(* target of each has a record in the answer, or was asked for.            *)
AliasesFollowed ==
  out # None /\ ~out.err /\ question.qtype # "CNAME" =>
    \A c \in Aliases(out.msg) : Present(out.msg, c.target) \/ c.target \in asked

(* Aliases that lead back to each other, in one zone or across several,    *)
(* do not keep a request going: the shared counter ends it.                *)
RequestEnds == <>(out # None)
=============================================================================
