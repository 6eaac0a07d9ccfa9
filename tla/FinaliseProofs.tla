--------------------------- MODULE FinaliseProofs ---------------------------
(* The safety properties of Finalise, for any names, replies and verdicts  *)
(* and any bound on the queries of a request; and that a request neither   *)
(* stops half-way nor goes on for ever.                                    *)
EXTENDS Finalise, TLAPS

(* What a message put together from parts says of them. *)
Honest(m, auth, parts) ==
  /\ auth = "Secure" => \A p \in parts : p.auth = "Secure"
  /\ (\E p \in parts : p.auth = "Bogus") => auth = "Bogus"
  /\ m.rcode = Success => \A p \in parts : p.rcode = Success
  /\ m.aa => \A p \in parts : p.aa

(* An alias is settled: its target is there or was asked for. *)
Settled(m, c) == Present(m, c.target) \/ c.target \in asked

(* Of the i-th exchange, once it has its answer. *)
FrameInv(i) ==
  stack[i].pc \in {"cname", "wait"} =>
    /\ stack[i].msg \in Message
    /\ Honest(stack[i].msg, stack[i].auth, stack[i].parts)
    /\ stack[i].name \in asked
    /\ question.qtype # "CNAME" =>
         \A c \in Aliases(stack[i].msg) :
           \/ c \in stack[i].todo
           \/ Settled(stack[i].msg, c)
           \/ stack[i].pc = "wait" /\ stack[i + 1].name = c.target

StackInv ==
  /\ \A i \in 1..Depth : FrameInv(i)
  /\ \A i \in 1..Depth : stack[i].pc = "wait" <=> i < Depth
  /\ stack # <<>> => stack[1].cd = question.cd

CountInv ==
  /\ ~failed => counter <= MaxQueriesPerRequest
  /\ Depth <= counter + 1
  /\ stack # <<>> /\ Top.pc # "ask" => Depth <= counter

OutInv ==
  /\ stack # <<>> => out = None
  /\ stack # <<>> /\ failed => Top.pc = "fail"
  /\ ADMeansAllSecure /\ BogusIsWithheld /\ NoPartHidden /\ AliasesFollowed

Inv == TypeOK /\ StackInv /\ CountInv /\ OutInv

(* Of a response that a nested exchange, or the request, returns. *)
ResponseInv(r) ==
  /\ r \in Responses
  /\ ~r.err =>
       /\ r.msg \in Message
       /\ Honest(r.msg, r.auth, r.parts)
       /\ question.qtype # "CNAME" =>
            \A c \in Aliases(r.msg) : Settled(r.msg, c)

(* AuthenticationResult.Combine is Secure only if both are, and Bogus if   *)
(* either is.                                                              *)
LEMMA CombineIsWeakest ==
  ASSUME NEW r \in AuthenticationResult, NEW r2 \in AuthenticationResult
  PROVE  /\ Combine(r, r2) \in AuthenticationResult
         /\ Combine(r, r2) = "Secure" => r = "Secure" /\ r2 = "Secure"
         /\ r = "Bogus" \/ r2 = "Bogus" => Combine(r, r2) = "Bogus"
BY DEF Combine, AuthenticationResult

(* What cname makes of an answer and of the response for an alias's target *)
(* is as honest about its parts as they were, and its answer section only  *)
(* grows (cname.go:48-59).                                                 *)
LEMMA MergeIsHonest ==
  ASSUME NEW f \in Frames, f.msg \in Message, Honest(f.msg, f.auth, f.parts),
         NEW r \in Responses, r.msg \in Message, Honest(r.msg, r.auth, r.parts)
  PROVE  /\ Merge(f, r) \in Frames
         /\ Merge(f, r).msg \in Message
         /\ Honest(Merge(f, r).msg, Merge(f, r).auth, Merge(f, r).parts)
         /\ Merge(f, r).msg.answer = f.msg.answer \cup r.msg.answer
         /\ Merge(f, r).pc = "cname" /\ Merge(f, r).name = f.name
         /\ Merge(f, r).todo = f.todo /\ Merge(f, r).cd = f.cd
<1> DEFINE m == Merge(f, r).msg
           a == Combine(f.auth, r.auth)
           ps == f.parts \cup r.parts
<1>1. /\ Merge(f, r).msg = m /\ m.aa = (f.msg.aa /\ r.msg.aa)
      /\ m.rcode = IF f.msg.rcode > r.msg.rcode THEN f.msg.rcode ELSE r.msg.rcode
      /\ m.answer = f.msg.answer \cup r.msg.answer
      /\ Merge(f, r).auth = a /\ Merge(f, r).parts = ps
      /\ Merge(f, r).pc = "cname" /\ Merge(f, r).name = f.name
      /\ Merge(f, r).todo = f.todo /\ Merge(f, r).cd = f.cd
  BY DEF Merge, Answered
<1>2. m \in Message
  BY DEF Merge, Answered, Message
<1>3. a \in AuthenticationResult /\ f.auth \in AuthenticationResult
      /\ r.auth \in AuthenticationResult
  BY CombineIsWeakest DEF Frames, Responses
<1>4. Merge(f, r) \in Frames
  BY <1>2, <1>3 DEF Merge, Answered, Frames, Responses
<1>5. a = "Secure" => \A p \in ps : p.auth = "Secure"
  BY <1>3, CombineIsWeakest DEF Honest
<1>6. (\E p \in ps : p.auth = "Bogus") => a = "Bogus"
  BY <1>3, CombineIsWeakest DEF Honest
<1>7. m.rcode = Success => f.msg.rcode = Success /\ r.msg.rcode = Success
  BY <1>1 DEF Message, Success
<1>8. m.rcode = Success => \A p \in ps : p.rcode = Success
  BY <1>7 DEF Honest
<1>9. m.aa => \A p \in ps : p.aa
  BY <1>1, Zenon DEF Honest
<1> QED BY <1>1, <1>2, <1>4, <1>5, <1>6, <1>8, <1>9 DEF Honest

(* finaliseResponse only makes a response say less than the answer it has: *)
(* it removes records, and a changed code is SERVFAIL.                     *)
LEMMA FinalIsHonest ==
  ASSUME NEW f \in Frames, f.msg \in Message, Honest(f.msg, f.auth, f.parts)
  PROVE  /\ Final(f) \in Responses
         /\ Final(f).msg \in Message
         /\ Honest(Final(f).msg, Final(f).auth, Final(f).parts)
         /\ Final(f).msg.answer \in {f.msg.answer, {}}
         /\ Final(f).auth = f.auth /\ Final(f).parts = f.parts
<1> DEFINE t == Trimmed(f.msg)
           s == Signalled(f, t)
<1>1. t \in Message /\ t.answer = f.msg.answer /\ t.rcode = f.msg.rcode
      /\ t.aa = f.msg.aa /\ t.ad = f.msg.ad
  BY DEF Trimmed, Message
<1>2. ASSUME NEW m \in Message
      PROVE  /\ Withheld(m) \in Message
             /\ Withheld(m).answer \in {m.answer, {}}
             /\ Withheld(m).rcode = ServerFailure /\ Withheld(m).aa = m.aa
  BY DEF Withheld, Message, ServerFailure
<1>3. /\ s \in Message /\ s.answer \in {f.msg.answer, {}}
      /\ s.rcode \in {f.msg.rcode, ServerFailure} /\ s.aa = f.msg.aa
  <2> DEFINE g(b) == [t EXCEPT !.ad = b]
  <2>1. ASSUME NEW b \in BOOLEAN
        PROVE  /\ g(b) \in Message /\ g(b).answer = f.msg.answer
               /\ g(b).rcode = f.msg.rcode /\ g(b).aa = f.msg.aa
    BY <1>1 DEF Message
  <2>2. (f.auth = "Secure") \in BOOLEAN
    OBVIOUS
  <2>3. s \in {t, g(f.auth = "Secure"), Withheld(g(FALSE))}
    BY DEF Signalled
  <2>4. /\ Withheld(g(FALSE)) \in Message
        /\ Withheld(g(FALSE)).answer \in {f.msg.answer, {}}
        /\ Withheld(g(FALSE)).rcode = ServerFailure
        /\ Withheld(g(FALSE)).aa = f.msg.aa
    BY <1>2, <2>1, Zenon
  <2> HIDE DEF t, s, g
  <2> QED BY <1>1, <2>1, <2>2, <2>3, <2>4, Zenon
<1>4. /\ Final(f).msg = s /\ Final(f).auth = f.auth /\ Final(f).parts = f.parts
      /\ Final(f) \in Responses
  BY <1>3 DEF Final, Responses, Frames
<1> QED BY <1>3, <1>4 DEF Honest, Success, ServerFailure

-----------------------------------------------------------------------------
(* A request starts with nothing settled and nothing claimed. *)
LEMMA FinaliseInit == Init => Inv
<1> SUFFICES ASSUME Init PROVE Inv OBVIOUS
<1> USE FinaliseAssumption DEF Init
<1>0. question.name \in Names /\ question.cd \in BOOLEAN
  OBVIOUS
<1>1. Frame(question.name, question.cd) \in Frames
  BY <1>0 DEF Frame, Frames, AuthenticationResult
<1>2. Depth = 1 /\ stack[1] = Frame(question.name, question.cd) /\ stack \in Seq(Frames)
  BY <1>1 DEF Depth
<1>3. TypeOK
  <2>1. counter \in 0..MaxQueriesPerRequest + 1 /\ Depth <= MaxQueriesPerRequest + 1
    BY <1>2
  <2>2. failed \in BOOLEAN /\ asked \subseteq Names /\ out \in Responses \cup {None}
    BY Zenon
  <2> QED BY <1>2, <2>1, <2>2 DEF TypeOK
<1>4. StackInv /\ CountInv
  BY <1>2 DEF StackInv, FrameInv, CountInv, Top, Frame
<1>5. OutInv
  BY DEF OutInv, ADMeansAllSecure, BogusIsWithheld, NoPartHidden, AliasesFollowed
<1> QED BY <1>3, <1>4, <1>5 DEF Inv

(* The innermost exchange is the last frame of the stack. *)
LEMMA TopIsTyped ==
  ASSUME TypeOK, stack # <<>>
  PROVE  /\ stack \in Seq(Frames) /\ Depth \in Nat /\ Depth >= 1 /\ Depth = Len(stack)
         /\ Top \in Frames /\ Top = stack[Depth] /\ Top.name \in Names
         /\ counter \in Nat /\ question \in Questions
<1> USE FinaliseAssumption
<1>1. stack \in Seq(Frames)
  BY DEF TypeOK
<1>2. Depth \in Nat /\ Depth >= 1 /\ Depth = Len(stack)
  BY <1>1 DEF Depth
<1>3. Top = stack[Depth] /\ Top \in Frames
  BY <1>1, <1>2 DEF Top
<1>4. Top.name \in Names
  BY <1>3 DEF Frames
<1>5. counter \in Nat /\ question \in Questions
  BY DEF TypeOK
<1> QED BY <1>1, <1>2, <1>3, <1>4, <1>5

(* An answer and its verdict make the first, and so far only, part. *)
LEMMA ExchangeInv == Inv /\ exchange => Inv'
<1> SUFFICES ASSUME Inv, exchange PROVE Inv' OBVIOUS
<1> USE FinaliseAssumption
<1>1. /\ stack \in Seq(Frames) /\ Depth \in Nat /\ Depth >= 1 /\ Depth = Len(stack)
      /\ Top \in Frames /\ Top = stack[Depth] /\ Top.name \in Names
      /\ counter \in Nat /\ question \in Questions
  BY TopIsTyped DEF Inv, exchange
<1>2. PICK m \in Replies[Top.name], v \in [auth : AuthenticationResult, err : BOOLEAN] :
        stack' = [stack EXCEPT ![Depth] =
          Answered(Top, m, v.auth, v.err,
                   IF question.qtype = "CNAME" THEN {} ELSE Aliases(m),
                   {[auth |-> v.auth, rcode |-> m.rcode, aa |-> m.aa]})]
  BY Zenon DEF exchange, SetTop, AuthenticationResult
<1> DEFINE todo == IF question.qtype = "CNAME" THEN {} ELSE Aliases(m)
           part == [auth |-> v.auth, rcode |-> m.rcode, aa |-> m.aa]
           f == Answered(Top, m, v.auth, v.err, todo, {part})
<1>3. m \in Message
  BY <1>1
<1>4. /\ f.pc = "cname" /\ f.msg = m /\ f.auth = v.auth /\ f.parts = {part}
      /\ f.name = Top.name /\ f.todo = todo /\ f.cd = Top.cd
  BY DEF Answered
<1>5. todo \subseteq RR /\ part \in Part
  BY <1>3 DEF Aliases, Message, Part
<1>6. f \in Frames
  BY <1>1, <1>3, <1>5 DEF Answered, Frames
<1>7. Honest(m, v.auth, {part})
  BY DEF Honest
<1>8. /\ stack' \in Seq(Frames) /\ Len(stack') = Len(stack) /\ stack'[Depth] = f
      /\ \A i \in 1..Depth : i # Depth => stack'[i] = stack[i]
  BY <1>1, <1>2, <1>6
<1>9. /\ UNCHANGED <<question, failed, out>> /\ asked' = asked \cup {Top.name}
      /\ counter' \in counter + 1 .. MaxQueriesPerRequest
      /\ stack # <<>> /\ Top.pc = "ask"
  BY DEF exchange
<1>10. Depth' = Depth /\ Top' = f /\ stack' # <<>>
  BY <1>8, <1>1 DEF Depth, Top
<1> HIDE DEF f, part
<1>11. TypeOK'
  BY <1>1, <1>8, <1>9, <1>10 DEF Inv, TypeOK
<1>12. CountInv'
  BY <1>1, <1>9, <1>10 DEF Inv, CountInv
<1>13. OutInv'
  BY <1>9, <1>10, <1>4
  DEF Inv, OutInv, ADMeansAllSecure, BogusIsWithheld, NoPartHidden, AliasesFollowed
<1>14. ASSUME NEW i \in 1..Depth PROVE FrameInv(i)'
  <2>1. CASE i = Depth
    BY <2>1, <1>3, <1>4, <1>7, <1>8, <1>9, Zenon DEF FrameInv
  <2>2. CASE i # Depth
    <3>1. stack'[i] = stack[i] /\ i + 1 \in 1..Depth /\ stack'[i + 1].name = stack[i + 1].name
      BY <2>2, <1>1, <1>4, <1>8
    <3>2. FrameInv(i)
      BY DEF Inv, StackInv
    <3> QED BY <3>1, <3>2, <1>9 DEF FrameInv, Settled, Present
  <2> QED BY <2>1, <2>2
<1>15. StackInv'
  BY <1>1, <1>4, <1>8, <1>9, <1>10, <1>14 DEF Inv, StackInv
<1> QED BY <1>11, <1>12, <1>13, <1>15 DEF Inv

(* A nested exchange returns to the alias that waits for it; an error goes *)
(* on to the caller.                                                       *)
LEMMA ReturnInv ==
  ASSUME Inv, stack # <<>>, NEW r, Return(r), ResponseInv(r),
         UNCHANGED <<question, asked>>,
         counter' \in counter .. MaxQueriesPerRequest + 1,
         ~r.err => Top.name \in asked /\ ~failed /\ counter' = counter,
         Depth = 1 => (ADMeansAllSecure /\ BogusIsWithheld
                       /\ NoPartHidden /\ AliasesFollowed)'
  PROVE  Inv'
<1> USE FinaliseAssumption
<1>1. /\ stack \in Seq(Frames) /\ Depth \in Nat /\ Depth >= 1 /\ Depth = Len(stack)
      /\ Top \in Frames /\ Top = stack[Depth] /\ counter \in Nat
  BY TopIsTyped DEF Inv
<1> DEFINE d == Depth - 1
           g(i) == IF i < d THEN stack[i]
                   ELSE IF r.err THEN [stack[i] EXCEPT !.pc = "fail"] ELSE Merge(stack[i], r)
<1>2. d \in Nat /\ stack' = [i \in 1..d |-> g(i)]
  BY <1>1 DEF Return
<1>3. r \in Responses /\ r.err \in BOOLEAN
  BY DEF ResponseInv, Responses
<1>4. \A i \in 1..Depth : stack[i] \in Frames
  BY <1>1
<1>5. \A i \in 1..d : FrameInv(i) /\ stack[i].pc = "wait"
  BY <1>1 DEF Inv, StackInv
<1>6. ASSUME d >= 1, ~r.err
      PROVE  /\ g(d) = Merge(stack[d], r) /\ g(d) \in Frames
             /\ g(d).msg \in Message
             /\ Honest(g(d).msg, g(d).auth, g(d).parts)
             /\ g(d).msg.answer = stack[d].msg.answer \cup r.msg.answer
             /\ g(d).pc = "cname" /\ g(d).name = stack[d].name
             /\ g(d).todo = stack[d].todo /\ g(d).cd = stack[d].cd
  <2>1. /\ stack[d] \in Frames /\ stack[d].msg \in Message
        /\ Honest(stack[d].msg, stack[d].auth, stack[d].parts)
    BY <1>1, <1>4, <1>5, <1>6 DEF FrameInv
  <2>2. r.msg \in Message /\ Honest(r.msg, r.auth, r.parts)
    BY <1>6 DEF ResponseInv
  <2>3. g(d) = Merge(stack[d], r)
    BY <1>1, <1>6
  <2> HIDE DEF g, d
  <2> QED BY <1>3, <2>1, <2>2, <2>3, MergeIsHonest
<1>7. ASSUME d >= 1, r.err
      PROVE  g(d) \in Frames /\ g(d).pc = "fail" /\ g(d).cd = stack[d].cd
  <2>1. stack[d] \in Frames /\ g(d) = [stack[d] EXCEPT !.pc = "fail"]
    BY <1>1, <1>4, <1>7
  <2> HIDE DEF g, d
  <2> QED BY <2>1 DEF Frames
<1>a. d \in Nat /\ Depth = d + 1 /\ \A i \in 1..d : i < d => g(i) = stack[i]
  BY <1>1
<1>b. d >= 1 /\ r.err => g(d).name = stack[d].name
  BY <1>1, <1>4 DEF Frames
<1> HIDE DEF d, g
<1>8. \A i \in 1..d : g(i) \in Frames
  BY <1>a, <1>3, <1>4, <1>6, <1>7
<1>9. /\ stack' \in Seq(Frames) /\ Depth' = d /\ \A i \in 1..d : stack'[i] = g(i)
  BY <1>2, <1>8 DEF Depth
<1>10. d >= 1 => Top' = g(d)
  BY <1>1, <1>a, <1>9 DEF Top
<1>11. /\ failed' = (failed \/ r.err)
       /\ out' = IF Depth = 1 THEN r ELSE out
  BY DEF Return
<1>12. stack' # <<>> => d >= 1
  BY <1>1, <1>a, <1>9 DEF Depth
<1>13. TypeOK'
  <2>1. failed' \in BOOLEAN /\ out' \in Responses \cup {None} /\ d <= MaxQueriesPerRequest + 1
    BY <1>1, <1>a, <1>3, <1>11 DEF Inv, TypeOK
  <2>2. counter' \in 0..MaxQueriesPerRequest + 1
    BY <1>1, <1>a
  <2> QED BY <1>9, <2>1, <2>2 DEF Inv, TypeOK
<1>14. CountInv'
  <2>1. ~failed' => counter' <= MaxQueriesPerRequest
    BY <1>3, <1>11 DEF Inv, CountInv
  <2>2. d <= counter'
    BY <1>1, <1>a DEF Inv, CountInv
  <2>3. counter' \in Nat
    BY <1>1
  <2>4. d <= counter' + 1
    <3>1. d \in Nat
      BY <1>a
    <3>2. \A m, n \in Nat : m <= n => m <= n + 1
      OBVIOUS
    <3> QED BY <2>2, <2>3, <3>1, <3>2
  <2>5. Depth' = d
    BY <1>9
  <2> QED BY <2>1, <2>2, <2>4, <2>5 DEF CountInv
<1>15. OutInv'
  <2>1. CASE Depth = 1
    BY <2>1, <1>1, <1>a, <1>12 DEF OutInv
  <2>2. CASE Depth # 1
    <3>1. out' = None
      BY <2>2, <1>11 DEF Inv, OutInv
    <3>2. failed' => Top'.pc = "fail"
      <4>1. CASE r.err
        BY <4>1, <2>2, <1>1, <1>a, <1>7, <1>10
      <4>2. CASE ~r.err
        BY <4>2, <1>11, Zenon
      <4> QED BY <4>1, <4>2
    <3> QED BY <3>1, <3>2
        DEF OutInv, ADMeansAllSecure, BogusIsWithheld, NoPartHidden, AliasesFollowed
  <2> QED BY <2>1, <2>2
<1>16. ASSUME NEW i \in 1..d PROVE FrameInv(i)'
  <2>1. CASE i < d
    <3>1. stack'[i] = stack[i] /\ i \in 1..Depth
      BY <2>1, <1>1, <1>a, <1>9
    <3>2. i + 1 \in 1..d
      BY <2>1, <1>1, <1>a
    <3>3. stack'[i + 1].name = stack[i + 1].name
      <4>1. CASE i + 1 < d
        BY <4>1, <1>a, <1>9, <3>2
      <4>2. CASE i + 1 = d /\ ~r.err
        BY <4>2, <1>1, <1>a, <1>6, <1>9, <3>2
      <4>3. CASE i + 1 = d /\ r.err
        BY <4>3, <1>a, <1>b, <1>9, <3>2
      <4> QED BY <4>1, <4>2, <4>3, <1>3, <3>2, <1>1, <1>a
    <3> QED BY <3>1, <3>3, <1>5 DEF FrameInv, Settled, Present
  <2>2. CASE i = d /\ r.err
    BY <2>2, <1>1, <1>a, <1>7, <1>9 DEF FrameInv
  <2>3. CASE i = d /\ ~r.err
    <3> DEFINE f == stack[d]
    <3>1. stack'[i] = g(d) /\ d >= 1
      BY <2>3, <1>1, <1>a, <1>9
    <3>2. f.name \in asked /\ f.pc = "wait"
      BY <2>3, <1>5 DEF FrameInv
    <3>3. ASSUME question.qtype # "CNAME", NEW c \in Aliases(g(d).msg)
          PROVE  c \in g(d).todo \/ Settled(g(d).msg, c)
      <4>1. g(d).msg.answer = f.msg.answer \cup r.msg.answer /\ g(d).todo = f.todo
        BY <1>6, <2>3, <3>1
      <4>2. c \in Aliases(f.msg) \/ c \in Aliases(r.msg)
        BY <3>3, <4>1 DEF Aliases
      <4>3. ASSUME NEW m, m.answer \subseteq g(d).msg.answer, Settled(m, c)
            PROVE  Settled(g(d).msg, c)
        BY <4>3 DEF Settled, Present
      <4>4. CASE c \in Aliases(r.msg)
        BY <4>1, <4>3, <4>4, <2>3, <3>3 DEF ResponseInv
      <4>5. CASE c \in Aliases(f.msg)
        <5>1. \/ c \in f.todo \/ Settled(f.msg, c)
              \/ stack[d + 1].name = c.target
          BY <4>5, <2>3, <1>5, <3>2, <3>3 DEF FrameInv
        <5>2. stack[d + 1].name \in asked
          BY <1>1, <1>a, <2>3
        <5> QED BY <5>1, <5>2, <4>1, <4>3 DEF Settled
      <4> QED BY <4>2, <4>4, <4>5
    <3> QED BY <2>3, <3>1, <3>2, <3>3, <1>6 DEF FrameInv, Settled, Present
  <2> QED BY <2>1, <2>2, <2>3, <1>1, <1>a, <1>3
<1>17. ASSUME NEW i \in 1..d PROVE (stack[i].pc = "wait")' <=> i < d
  <2>1. CASE i < d
    BY <2>1, <1>a, <1>5, <1>9
  <2>2. CASE i = d
    BY <2>2, <1>1, <1>a, <1>3, <1>6, <1>7, <1>9
  <2> QED BY <2>1, <2>2, <1>1, <1>a
<1>18. d >= 1 => stack'[1].cd = question.cd
  <2>1. stack[1].cd = question.cd
    BY DEF Inv, StackInv
  <2>2. CASE d > 1
    BY <2>1, <2>2, <1>1, <1>a, <1>9
  <2>3. CASE d = 1
    BY <2>1, <2>3, <1>1, <1>a, <1>3, <1>6, <1>7, <1>9
  <2> QED BY <2>2, <2>3, <1>2
<1>19. StackInv'
  BY <1>9, <1>12, <1>16, <1>17, <1>18 DEF StackInv
<1> QED BY <1>13, <1>14, <1>15, <1>19 DEF Inv

(* An error claims nothing. *)
LEMMA ErrorInv ==
  ASSUME Inv, stack # <<>>, Return(Error), UNCHANGED <<question, asked>>,
         counter' \in counter .. MaxQueriesPerRequest + 1
  PROVE  Inv'
<1>1. Error.err /\ Error.msg = None /\ Error \in Responses
  BY DEF Error, Responses, AuthenticationResult
<1>2. ResponseInv(Error)
  BY <1>1 DEF ResponseInv
<1>3. Depth = 1 => out'.err /\ out'.msg = None
  BY <1>1 DEF Return
<1>4. Depth = 1 => (ADMeansAllSecure /\ BogusIsWithheld
                    /\ NoPartHidden /\ AliasesFollowed)'
  BY <1>3 DEF ADMeansAllSecure, BogusIsWithheld, NoPartHidden, AliasesFollowed
<1> QED BY <1>1, <1>2, <1>4, ReturnInv

(* What finaliseResponse returns is honest about the parts, and the last   *)
(* one it returns is the answer to the request's own question.             *)
LEMMA FinaliseResponseInv == Inv /\ finaliseResponse => Inv'
<1> SUFFICES ASSUME Inv, finaliseResponse PROVE Inv' OBVIOUS
<1> USE FinaliseAssumption
<1> DEFINE r == Final(Top)
<1>1. /\ stack # <<>> /\ Top.pc = "cname" /\ Top.todo = {} /\ Return(r)
      /\ UNCHANGED <<question, counter, asked>>
  BY DEF finaliseResponse
<1>2. /\ Depth \in Nat /\ Depth >= 1 /\ Top \in Frames /\ Top = stack[Depth]
      /\ counter \in 0..MaxQueriesPerRequest + 1
  BY <1>1, TopIsTyped DEF Inv, TypeOK
<1>3. FrameInv(Depth)
  BY <1>2 DEF Inv, StackInv
<1>4. /\ Top.msg \in Message /\ Honest(Top.msg, Top.auth, Top.parts)
      /\ Top.name \in asked
      /\ question.qtype # "CNAME" =>
           \A c \in Aliases(Top.msg) : Settled(Top.msg, c)
  BY <1>1, <1>2, <1>3 DEF FrameInv
<1>5. /\ r \in Responses /\ r.msg \in Message /\ Honest(r.msg, r.auth, r.parts)
      /\ r.msg.answer \in {Top.msg.answer, {}}
      /\ r.auth = Top.auth /\ r.parts = Top.parts
  BY <1>2, <1>4, FinalIsHonest
<1>6. question.qtype # "CNAME" => \A c \in Aliases(r.msg) : Settled(r.msg, c)
  <2> HIDE DEF r
  <2> QED BY <1>4, <1>5 DEF Aliases, Settled, Present
<1>7. ResponseInv(r)
  BY <1>5, <1>6 DEF ResponseInv
<1>8. ~failed
  BY <1>1 DEF Inv, OutInv
<1>9. ASSUME Depth = 1
      PROVE  (ADMeansAllSecure /\ BogusIsWithheld /\ NoPartHidden /\ AliasesFollowed)'
  <2>1. out' = r /\ failed' = r.err
    BY <1>1, <1>8, <1>9, <1>5 DEF Return, Responses
  <2>2. Top.cd = question.cd
    BY <1>1, <1>2, <1>9 DEF Inv, StackInv
  <2>3. ASSUME question.do, ~question.cd
        PROVE  /\ r.msg.ad => Top.auth = "Secure"
               /\ Top.auth = "Bogus" =>
                    /\ r.msg.rcode = ServerFailure
                    /\ SuppressBogusResponseSections =>
                         r.msg.answer = {} /\ r.msg.ns = {}
    <3>1. Trimmed(Top.msg) \in Message
      BY <1>4 DEF Trimmed, Message
    <3>2. r.msg = IF Top.auth = "Bogus"
                  THEN Withheld([Trimmed(Top.msg) EXCEPT !.ad = FALSE])
                  ELSE [Trimmed(Top.msg) EXCEPT !.ad = (Top.auth = "Secure")]
      BY <2>2, <2>3 DEF Final, Signalled
    <3>3. ASSUME NEW m \in Message, NEW b \in BOOLEAN
          PROVE  /\ [m EXCEPT !.ad = b].ad = b
                 /\ Withheld([m EXCEPT !.ad = b]).ad = b
                 /\ Withheld([m EXCEPT !.ad = b]).rcode = ServerFailure
                 /\ SuppressBogusResponseSections =>
                      /\ Withheld([m EXCEPT !.ad = b]).answer = {}
                      /\ Withheld([m EXCEPT !.ad = b]).ns = {}
      <4> DEFINE n == [m EXCEPT !.ad = b]
      <4>1. n \in Message /\ n.ad = b
        BY DEF Message
      <4> HIDE DEF n
      <4>2. /\ Withheld(n).ad = n.ad /\ Withheld(n).rcode = ServerFailure
            /\ SuppressBogusResponseSections =>
                 Withheld(n).answer = {} /\ Withheld(n).ns = {}
        BY <4>1 DEF Withheld, Message
      <4> QED BY <4>1, <4>2 DEF n
    <3> DEFINE t == Trimmed(Top.msg)
    <3> HIDE DEF t, r
    <3>4. CASE Top.auth = "Bogus"
      BY <3>1, <3>2, <3>3, <3>4, Zenon DEF t
    <3>5. CASE Top.auth # "Bogus"
      <4>1. (Top.auth = "Secure") \in BOOLEAN
        OBVIOUS
      <4> QED BY <3>1, <3>2, <3>3, <3>5, <4>1, Zenon DEF t
    <3> QED BY <3>4, <3>5
  <2> HIDE DEF r
  <2>4. ADMeansAllSecure'
    BY <1>1, <1>5, <2>1, <2>3 DEF ADMeansAllSecure, Honest
  <2>5. BogusIsWithheld'
    BY <1>1, <1>5, <2>1, <2>3 DEF BogusIsWithheld, Honest
  <2>6. NoPartHidden'
    BY <1>1, <1>5, <2>1 DEF NoPartHidden, Honest
  <2>7. AliasesFollowed'
    BY <1>1, <1>6, <2>1 DEF AliasesFollowed, Settled, Present
  <2> QED BY <2>4, <2>5, <2>6, <2>7
<1>10. counter' \in counter .. MaxQueriesPerRequest + 1
  BY <1>1, <1>2
<1> HIDE DEF r
<1> QED BY <1>1, <1>4, <1>7, <1>8, <1>9, <1>10, ReturnInv

(* An alias whose target is there is settled; for another one a nested     *)
(* exchange starts, of which the alias then waits.                         *)
LEMMA CnameInv ==
  ASSUME Inv, NEW c, c.target \in Names, cname(c)
  PROVE  Inv'
<1> USE FinaliseAssumption
<1>1. /\ stack \in Seq(Frames) /\ Depth \in Nat /\ Depth >= 1 /\ Depth = Len(stack)
      /\ Top \in Frames /\ Top = stack[Depth] /\ counter \in Nat
  BY TopIsTyped DEF Inv, cname
<1>2. /\ stack # <<>> /\ Top.pc = "cname" /\ c \in Top.todo
      /\ UNCHANGED <<question, counter, asked, failed, out>>
  BY DEF cname
<1>3. ~failed /\ out = None /\ Depth <= counter /\ counter <= MaxQueriesPerRequest
  BY <1>2 DEF Inv, OutInv, CountInv
<1>4. \A i \in 1..Depth : FrameInv(i) /\ (stack[i].pc = "wait" <=> i < Depth)
  BY DEF Inv, StackInv
<1> DEFINE f == [Top EXCEPT !.todo = @ \ {c}]
           w == [f EXCEPT !.pc = "wait"]
<1>5. /\ f \in Frames /\ f.pc = "cname" /\ f.todo = Top.todo \ {c}
      /\ f.msg = Top.msg /\ f.auth = Top.auth /\ f.parts = Top.parts
      /\ f.name = Top.name /\ f.cd = Top.cd
  BY <1>1, <1>2 DEF Frames
<1>6. /\ w \in Frames /\ w.pc = "wait" /\ w.todo = f.todo
      /\ w.msg = f.msg /\ w.auth = f.auth /\ w.parts = f.parts
      /\ w.name = f.name /\ w.cd = f.cd
  <2> HIDE DEF f
  <2> QED BY <1>5 DEF Frames
<1>7. \/ Present(Top.msg, c.target) /\ stack' = [stack EXCEPT ![Depth] = f]
      \/ stack' = Append([stack EXCEPT ![Depth] = w], Frame(c.target, FALSE))
  BY Zenon DEF cname, SetTop
<1> HIDE DEF f, w
<1>8. CASE Present(Top.msg, c.target) /\ stack' = [stack EXCEPT ![Depth] = f]
  <2>1. /\ stack' \in Seq(Frames) /\ Depth' = Depth /\ Top' = f /\ stack' # <<>>
        /\ stack'[Depth] = f
        /\ \A i \in 1..Depth : i # Depth => stack'[i] = stack[i]
    BY <1>1, <1>5, <1>8 DEF Depth, Top
  <2>2. TypeOK'
    BY <1>2, <2>1 DEF Inv, TypeOK
  <2>3. CountInv' /\ OutInv'
    BY <1>2, <1>3, <1>5, <2>1 DEF Inv, CountInv, OutInv, ADMeansAllSecure,
       BogusIsWithheld, NoPartHidden, AliasesFollowed
  <2>4. ASSUME NEW i \in 1..Depth PROVE FrameInv(i)'
    <3>1. CASE i # Depth
      <4>1. stack'[i] = stack[i] /\ i + 1 \in 1..Depth
            /\ stack'[i + 1].name = stack[i + 1].name
        BY <3>1, <1>1, <1>5, <2>1
      <4> QED BY <4>1, <1>2, <1>4 DEF FrameInv, Settled, Present
    <3>2. CASE i = Depth
      BY <3>2, <1>1, <1>2, <1>4, <1>5, <1>8, <2>1 DEF FrameInv, Settled, Present
    <3> QED BY <3>1, <3>2, SMTT(20)
  <2>5. \A i \in 1..Depth : stack'[i].pc = "wait" <=> i < Depth
    BY <1>1, <1>4, <1>5, <2>1
  <2>6. stack'[1].cd = question.cd
    BY <1>1, <1>2, <1>5, <2>1 DEF Inv, StackInv
  <2>7. StackInv'
    BY <1>2, <2>1, <2>4, <2>5, <2>6 DEF StackInv
  <2> QED BY <2>2, <2>3, <2>7 DEF Inv
<1>9. CASE stack' = Append([stack EXCEPT ![Depth] = w], Frame(c.target, FALSE))
  <2> DEFINE n == Frame(c.target, FALSE)
  <2>1. n \in Frames /\ n.pc = "ask" /\ n.name = c.target
    BY DEF Frame, Frames, AuthenticationResult
  <2> HIDE DEF n
  <2>2. /\ stack' \in Seq(Frames) /\ Depth' = Depth + 1 /\ Top' = n /\ stack' # <<>>
        /\ stack'[Depth] = w /\ stack'[Depth + 1] = n
        /\ \A i \in 1..Depth : i # Depth => stack'[i] = stack[i]
    <3>1. /\ [stack EXCEPT ![Depth] = w] \in Seq(Frames)
          /\ Len([stack EXCEPT ![Depth] = w]) = Depth
          /\ [stack EXCEPT ![Depth] = w][Depth] = w
          /\ \A i \in 1..Depth : i # Depth => [stack EXCEPT ![Depth] = w][i] = stack[i]
      BY <1>1, <1>6
    <3> DEFINE q == [stack EXCEPT ![Depth] = w]
    <3> HIDE DEF q
    <3>2. stack' = Append(q, n)
      BY <1>9 DEF q, n
    <3>3. q \in Seq(Frames) /\ Len(q) = Depth /\ q[Depth] = w
          /\ \A i \in 1..Depth : i # Depth => q[i] = stack[i]
      BY <3>1 DEF q
    <3>4. /\ stack' \in Seq(Frames) /\ Len(stack') = Depth + 1
          /\ stack'[Depth] = w /\ stack'[Depth + 1] = n
          /\ \A i \in 1..Depth : i # Depth => stack'[i] = stack[i]
      BY <1>1, <2>1, <3>2, <3>3
    <3> QED BY <1>1, <3>4 DEF Depth, Top
  <2>3. TypeOK'
    <3>1. Depth + 1 <= MaxQueriesPerRequest + 1
      BY <1>1, <1>3
    <3> QED BY <1>2, <2>2, <3>1 DEF Inv, TypeOK
  <2>4. CountInv' /\ OutInv'
    BY <1>1, <1>2, <1>3, <2>1, <2>2 DEF Inv, CountInv, OutInv, ADMeansAllSecure,
       BogusIsWithheld, NoPartHidden, AliasesFollowed
  <2>5. ASSUME NEW i \in 1..Depth + 1 PROVE FrameInv(i)'
    <3>1. CASE i < Depth
      <4>1. stack'[i] = stack[i] /\ i + 1 \in 1..Depth /\ i \in 1..Depth
            /\ stack'[i + 1].name = stack[i + 1].name
        BY <3>1, <1>1, <1>5, <1>6, <2>2
      <4> QED BY <4>1, <1>2, <1>4 DEF FrameInv, Settled, Present
    <3>2. CASE i = Depth
      BY <3>2, <1>1, <1>2, <1>4, <1>5, <1>6, <2>1, <2>2, SMTT(20) DEF FrameInv, Settled, Present
    <3>3. CASE i = Depth + 1
      BY <3>3, <2>1, <2>2 DEF FrameInv
    <3> QED BY <3>1, <3>2, <3>3, <1>1
  <2>6. \A i \in 1..Depth + 1 : stack'[i].pc = "wait" <=> i < Depth + 1
    BY <1>1, <1>4, <1>6, <2>1, <2>2, SMTT(20)
  <2>7. stack'[1].cd = question.cd
    BY <1>1, <1>2, <1>5, <1>6, <2>2 DEF Inv, StackInv
  <2>8. StackInv'
    BY <1>2, <2>2, <2>5, <2>6, <2>7 DEF StackInv
  <2> QED BY <2>3, <2>4, <2>8 DEF Inv
<1> QED BY <1>7, <1>8, <1>9, Zenon

-----------------------------------------------------------------------------
(* One case for each step of a request. *)
LEMMA FinaliseInvariance == Spec => []Inv
<1>1. Inv /\ [Next]_vars => Inv'
  <2> SUFFICES ASSUME Inv, [Next]_vars PROVE Inv' OBVIOUS
  <2>1. CASE exchange
    BY <2>1, ExchangeInv
  <2>2. CASE exchangeError
    <3>1. counter' \in counter .. MaxQueriesPerRequest + 1
      BY <2>2, FinaliseAssumption DEF exchangeError, Inv, TypeOK
    <3> QED BY <2>2, <3>1, ErrorInv DEF exchangeError
  <2>3. CASE cnameError
    <3>1. counter' \in counter .. MaxQueriesPerRequest + 1
      BY <2>3, FinaliseAssumption DEF cnameError, Inv, TypeOK
    <3> QED BY <2>3, <3>1, ErrorInv DEF cnameError
  <2>4. CASE finaliseResponse
    BY <2>4, FinaliseResponseInv
  <2>5. ASSUME NEW n \in Names, NEW t \in Names,
               cname([name |-> n, type |-> "CNAME", target |-> t])
        PROVE  Inv'
    <3> DEFINE c == [name |-> n, type |-> "CNAME", target |-> t]
    <3>1. c.target \in Names
      OBVIOUS
    <3> HIDE DEF c
    <3>2. cname(c)
      BY <2>5 DEF c
    <3> QED BY <3>1, <3>2, CnameInv
  <2>6. CASE UNCHANGED vars
    <3>1. UNCHANGED <<question, stack, counter, asked, failed, out>>
      BY <2>6 DEF vars
    <3>2. UNCHANGED <<Depth, Top>>
      BY <3>1 DEF Depth, Top
    <3>3. TypeOK' /\ CountInv'
      BY <3>1, <3>2 DEF Inv, TypeOK, CountInv
    <3>4. StackInv'
      BY <3>1, <3>2 DEF Inv, StackInv, FrameInv, Settled, Present
    <3>5. OutInv'
      BY <3>1, <3>2 DEF Inv, OutInv, Present, ADMeansAllSecure, BogusIsWithheld,
         NoPartHidden, AliasesFollowed
    <3> QED BY <3>3, <3>4, <3>5 DEF Inv
  <2> QED BY <2>1, <2>2, <2>3, <2>4, <2>5, <2>6, Zenon DEF Next
<1> QED BY FinaliseInit, <1>1, PTL DEF Spec

(* Types, and nested exchanges never more than one deeper than the bound   *)
(* on the queries of a request.                                            *)
THEOREM FinaliseTypes == Spec => []TypeOK
<1>1. Inv => TypeOK
  BY DEF Inv
<1> QED BY FinaliseInvariance, <1>1, PTL

(* However long the chain of aliases and whatever the servers say, AD is   *)
(* set for a validating client only if every part was Secure.              *)
THEOREM ADIsEarned == Spec => []ADMeansAllSecure
<1>1. Inv => ADMeansAllSecure
  BY DEF Inv, OutInv
<1> QED BY FinaliseInvariance, <1>1, PTL

(* One Bogus part makes the response SERVFAIL. *)
THEOREM BogusNeverAnswers == Spec => []BogusIsWithheld
<1>1. Inv => BogusIsWithheld
  BY DEF Inv, OutInv
<1> QED BY FinaliseInvariance, <1>1, PTL

(* Errors, codes and the lack of AA of a part reach the response. *)
THEOREM PartsAreReported == Spec => []NoPartHidden
<1>1. Inv => NoPartHidden
  BY DEF Inv, OutInv
<1> QED BY FinaliseInvariance, <1>1, PTL

(* No alias of a response without an error is left open. *)
THEOREM AliasesAreClosed == Spec => []AliasesFollowed
<1>1. Inv => AliasesFollowed
  BY DEF Inv, OutInv
<1> QED BY FinaliseInvariance, <1>1, PTL

-----------------------------------------------------------------------------
(* A request neither stops half-way nor goes on for ever *)

(* Until there is a response, the innermost exchange can go on: it may still *)
(* count a query, or it has an alias to look at, or it can return            *)
(* (resolver_exchange.go: exchange; cname.go: cname).                        *)
RequestGoesOn ==
  /\ stack = <<>> => out \in Responses
  /\ stack # <<>> =>
       /\ Top.pc \in {"ask", "cname", "fail"}
       /\ Top.pc = "ask" => counter <= MaxQueriesPerRequest
       /\ \A c \in Top.todo : c.type = "CNAME"

(* What it rests on besides Inv: only aliases are ever to be looked at.      *)
TodoInv ==
  /\ stack = <<>> => out \in Responses
  /\ \A i \in 1..Depth : \A c \in stack[i].todo : c.type = "CNAME"

(* Every step uses up something: queries of the shared counter; or, without  *)
(* a query, it starts a nested exchange, which will have to count one; or it *)
(* returns; or it ticks off an alias.                                        *)
RequestRunsOut ==
  \/ counter < counter'
  \/ /\ counter' = counter /\ stack # <<>> /\ Top.pc # "ask"
     /\ \/ stack' = <<>>
        \/ Top'.pc = "ask" /\ Depth' = Depth + 1
        \/ Top'.pc # "ask" /\ Depth' = Depth - 1
        \/ /\ Top'.pc # "ask" /\ Depth' = Depth
           /\ Top'.todo \subseteq Top.todo /\ Top'.todo # Top.todo

(* The stack after a return: the exchange that waited goes on, with the      *)
(* aliases it still has.                                                     *)
LEMMA ReturnShape ==
  ASSUME Inv, stack # <<>>, NEW r, Return(r)
  PROVE  /\ Depth = 1 => stack' = <<>> /\ out' = r
         /\ Depth # 1 => stack' # <<>> /\ Top'.pc \in {"fail", "cname"}
         /\ Depth' = Depth - 1
         /\ \A i \in 1..Depth - 1 : stack'[i].todo = stack[i].todo
<1>1. stack \in Seq(Frames) /\ Depth \in Nat /\ Depth >= 1 /\ Depth = Len(stack)
  BY TopIsTyped DEF Inv
<1> DEFINE d == Depth - 1
           g(i) == IF i < d THEN stack[i]
                   ELSE IF r.err THEN [stack[i] EXCEPT !.pc = "fail"] ELSE Merge(stack[i], r)
<1>2. d \in Nat /\ stack' = [i \in 1..d |-> g(i)]
  BY <1>1 DEF Return
<1>3. \A i \in 1..d : stack[i] \in Frames
  BY <1>1
<1>4. ASSUME NEW i \in 1..d
      PROVE  g(i).todo = stack[i].todo /\ (i = d => g(i).pc \in {"fail", "cname"})
  <2>1. CASE i < d
    BY <2>1
  <2>2. CASE i = d /\ r.err
    BY <1>3, <2>2 DEF Frames
  <2>3. CASE i = d /\ ~r.err
    BY <2>3 DEF Merge, Answered
  <2> QED
    BY <1>2, <2>1, <2>2, <2>3
<1>5. Depth = d + 1
  BY <1>1
<1> HIDE DEF g, d
<1>6. Len(stack') = d /\ \A i \in 1..d : stack'[i] = g(i)
  BY <1>2
<1>7. d = 0 => stack' = <<>>
  BY <1>2
<1>8. d # 0 => stack' # <<>> /\ Top' = g(d)
  BY <1>2, <1>6 DEF Top, Depth
<1>9. Depth = 1 => out' = r
  BY DEF Return
<1>10. Depth' = d
  BY <1>6 DEF Depth
<1> QED
  BY <1>1, <1>2, <1>4, <1>5, <1>6, <1>7, <1>8, <1>9, <1>10

(* The stack after one alias was looked at.                                  *)
LEMMA CnameShape ==
  ASSUME Inv, NEW c, cname(c)
  PROVE  /\ stack' # <<>> /\ Top.pc = "cname" /\ c \in Top.todo
         /\ \A i \in 1..Depth : stack'[i].todo \subseteq stack[i].todo
         /\ \/ Depth' = Depth /\ Top'.pc = "cname" /\ Top'.todo = Top.todo \ {c}
            \/ /\ Depth' = Depth + 1 /\ Top'.pc = "ask"
               /\ stack'[Depth'].todo = {}
<1>1. /\ stack \in Seq(Frames) /\ Depth \in Nat /\ Depth >= 1 /\ Depth = Len(stack)
      /\ Top \in Frames /\ Top = stack[Depth]
  BY TopIsTyped DEF Inv, cname
<1>2. Top.pc = "cname" /\ c \in Top.todo
  BY DEF cname
<1> DEFINE f == [Top EXCEPT !.todo = @ \ {c}]
           w == [f EXCEPT !.pc = "wait"]
           n == Frame(c.target, FALSE)
<1>3. f.pc = "cname" /\ f.todo = Top.todo \ {c} /\ w.todo = Top.todo \ {c}
  BY <1>1, <1>2 DEF Frames
<1>4. n.pc = "ask" /\ n.todo = {}
  BY DEF Frame
<1>5. stack' = [stack EXCEPT ![Depth] = f] \/ stack' = Append([stack EXCEPT ![Depth] = w], n)
  BY Zenon DEF cname, SetTop
<1> HIDE DEF f, w, n
<1>6. CASE stack' = [stack EXCEPT ![Depth] = f]
  <2>1. Len(stack') = Depth /\ \A i \in 1..Depth : stack'[i] = IF i = Depth THEN f ELSE stack[i]
    BY <1>1, <1>6
  <2>2. Depth' = Depth /\ Top' = f /\ stack' # <<>>
    BY <1>1, <2>1 DEF Depth, Top
  <2> QED
    BY <1>1, <1>2, <1>3, <2>1, <2>2
<1>7. CASE stack' = Append([stack EXCEPT ![Depth] = w], n)
  <2> DEFINE q == [stack EXCEPT ![Depth] = w]
  <2>1. /\ \E S : q \in Seq(S)
        /\ Len(q) = Depth /\ \A i \in 1..Depth : q[i] = IF i = Depth THEN w ELSE stack[i]
    <3>1. q \in Seq(Frames \cup {w})
      BY <1>1
    <3> QED
      BY <1>1, <3>1
  <2> HIDE DEF q
  <2>2. stack' = Append(q, n)
    BY <1>7 DEF q
  <2>3. /\ Len(stack') = Depth + 1 /\ stack'[Depth + 1] = n
        /\ \A i \in 1..Depth : stack'[i] = q[i]
    BY <1>1, <2>1, <2>2
  <2>4. Depth' = Depth + 1 /\ Top' = n /\ stack'[Depth'] = n /\ stack' # <<>>
    BY <1>1, <2>3 DEF Depth, Top
  <2> QED
    BY <1>1, <1>2, <1>3, <1>4, <2>1, <2>3, <2>4
<1> QED
  BY <1>5, <1>6, <1>7, Zenon

(* What one answer does to the stack.                                        *)
LEMMA ExchangeShape ==
  ASSUME Inv, exchange
  PROVE  /\ stack' # <<>> /\ Depth' = Depth
         /\ \A c \in stack'[Depth].todo : c.type = "CNAME"
         /\ \A i \in 1..Depth : i # Depth => stack'[i] = stack[i]
<1>1. /\ stack \in Seq(Frames) /\ Depth \in Nat /\ Depth >= 1 /\ Depth = Len(stack)
      /\ Top \in Frames
  BY TopIsTyped DEF Inv, exchange
<1>2. PICK m, v :
        stack' = [stack EXCEPT ![Depth] =
          Answered(Top, m, v.auth, v.err,
                   IF question.qtype = "CNAME" THEN {} ELSE Aliases(m),
                   {[auth |-> v.auth, rcode |-> m.rcode, aa |-> m.aa]})]
  BY Zenon DEF exchange, SetTop
<1> DEFINE f == Answered(Top, m, v.auth, v.err,
                         IF question.qtype = "CNAME" THEN {} ELSE Aliases(m),
                         {[auth |-> v.auth, rcode |-> m.rcode, aa |-> m.aa]})
<1>3. \A c \in f.todo : c.type = "CNAME"
  <2>1. f.todo = IF question.qtype = "CNAME" THEN {} ELSE Aliases(m)
    BY DEF Answered
  <2> HIDE DEF f
  <2> QED
    BY <2>1 DEF Aliases
<1> HIDE DEF f
<1>4. stack' = [stack EXCEPT ![Depth] = f]
  BY <1>2 DEF f
<1>5. Len(stack') = Depth /\ \A i \in 1..Depth : stack'[i] = IF i = Depth THEN f ELSE stack[i]
  BY <1>1, <1>4
<1> QED
  BY <1>1, <1>3, <1>5 DEF Depth

(* The aliases to look at stay aliases, and every step uses up something.    *)
LEMMA RequestStep ==
  ASSUME Inv, TodoInv, Next
  PROVE  TodoInv' /\ RequestRunsOut
<1>1. ASSUME NEW r \in Responses, stack # <<>>, Return(r) PROVE TodoInv'
  <2>1. Depth \in Nat /\ Depth >= 1
    BY <1>1, TopIsTyped DEF Inv
  <2>2. /\ Depth = 1 => stack' = <<>> /\ out' = r
        /\ Depth # 1 => stack' # <<>>
        /\ Depth' = Depth - 1
        /\ \A i \in 1..Depth - 1 : stack'[i].todo = stack[i].todo
    BY <1>1, ReturnShape, Zenon
  <2>3. \A i \in 1..Depth - 1 : i \in 1..Depth
    BY <2>1
  <2> QED
    BY <1>1, <2>2, <2>3, Zenon DEF TodoInv
<1>2. ASSUME NEW r, stack # <<>>, Return(r), UNCHANGED counter, Top.pc # "ask"
      PROVE  RequestRunsOut
  <2>1. \/ stack' = <<>>
        \/ Top'.pc \in {"fail", "cname"} /\ Depth' = Depth - 1
    BY <1>2, ReturnShape, Zenon
  <2> QED
    BY <1>2, <2>1 DEF RequestRunsOut
<1>3. CASE exchange \/ exchangeError
  <2>1. counter \in Nat /\ counter' \in counter + 1 .. MaxQueriesPerRequest + 1
    BY <1>3, FinaliseAssumption DEF exchange, exchangeError, Inv, TypeOK
  <2>2. RequestRunsOut
    BY <2>1, FinaliseAssumption DEF RequestRunsOut
  <2>3. CASE exchange
    <3>1. /\ stack' # <<>> /\ Depth' = Depth
          /\ \A c \in stack'[Depth].todo : c.type = "CNAME"
          /\ \A i \in 1..Depth : i # Depth => stack'[i] = stack[i]
      BY <2>3, ExchangeShape, Zenon
    <3> QED
      BY <2>2, <3>1, Zenon DEF TodoInv
  <2>4. CASE exchangeError
    <3>1. Error \in Responses
      BY DEF Error, Responses, AuthenticationResult
    <3> QED
      BY <1>1, <2>2, <2>4, <3>1, Zenon DEF exchangeError
  <2> QED
    BY <1>3, <2>3, <2>4, Zenon
<1>4. CASE cnameError
  <2>1. Error \in Responses
    BY DEF Error, Responses, AuthenticationResult
  <2>2. stack # <<>> /\ Top.pc # "ask" /\ Return(Error) /\ UNCHANGED counter
    BY <1>4 DEF cnameError
  <2> QED
    BY <1>1, <1>2, <2>1, <2>2, Zenon
<1>5. CASE finaliseResponse
  <2>1. stack # <<>> /\ Top.pc = "cname" /\ Return(Final(Top)) /\ UNCHANGED counter
    BY <1>5, Zenon DEF finaliseResponse
  <2>2. /\ Depth \in 1..Depth /\ Top \in Frames /\ Top = stack[Depth]
    BY <2>1, TopIsTyped DEF Inv
  <2>3. Top.msg \in Message /\ Honest(Top.msg, Top.auth, Top.parts)
    BY <2>1, <2>2 DEF Inv, StackInv, FrameInv
  <2>4. Final(Top) \in Responses
    BY <2>2, <2>3, FinalIsHonest, Zenon
  <2>5. Top.pc # "ask"
    BY <2>1
  <2> QED
    BY <1>1, <1>2, <2>1, <2>4, <2>5, Zenon
<1>6. ASSUME NEW c, cname(c) PROVE TodoInv' /\ RequestRunsOut
  <2>1. /\ stack' # <<>> /\ Top.pc = "cname" /\ c \in Top.todo
        /\ \A i \in 1..Depth : stack'[i].todo \subseteq stack[i].todo
        /\ \/ Depth' = Depth /\ Top'.pc = "cname" /\ Top'.todo = Top.todo \ {c}
           \/ Depth' = Depth + 1 /\ Top'.pc = "ask" /\ stack'[Depth'].todo = {}
    BY <1>6, CnameShape, Zenon
  <2>2. counter' = counter /\ stack # <<>> /\ Depth \in Nat
    BY <1>6, TopIsTyped DEF cname, Inv
  <2>3. ASSUME NEW i \in 1..Depth' PROVE i \in 1..Depth \/ stack'[i].todo = {}
    BY <2>1, <2>2
  <2>4. TodoInv'
    BY <2>1, <2>3, Zenon DEF TodoInv
  <2>5. RequestRunsOut
    BY <2>1, <2>2 DEF RequestRunsOut
  <2> QED
    BY <2>4, <2>5
<1> QED
  BY <1>3, <1>4, <1>5, <1>6, Zenon DEF Next

(* The invariant behind both.                                                *)
LEMMA TodoInvariant == Spec => []TodoInv
<1>1. Init => TodoInv
  BY DEF Init, TodoInv, Depth, Frame
<1>2. Inv /\ TodoInv /\ [Next]_vars => TodoInv'
  <2>1. Inv /\ TodoInv /\ Next => TodoInv'
    BY RequestStep, Zenon
  <2>2. TodoInv /\ UNCHANGED vars => TodoInv'
    BY Zenon DEF TodoInv, Depth, vars
  <2> QED
    BY <2>1, <2>2, Zenon
<1> QED
  BY <1>1, <1>2, FinaliseInvariance, PTL DEF Spec

(* A request never stops half-way: it has its response when no exchange is   *)
(* left, and the innermost exchange can go on before that.                   *)
THEOREM RequestNeverStuck == Spec => []RequestGoesOn
<1>1. Inv /\ TodoInv => RequestGoesOn
  <2> SUFFICES ASSUME Inv, TodoInv, stack # <<>>
               PROVE  /\ Top.pc \in {"ask", "cname", "fail"}
                      /\ Top.pc = "ask" => counter <= MaxQueriesPerRequest
                      /\ \A c \in Top.todo : c.type = "CNAME"
    BY Zenon DEF RequestGoesOn, TodoInv
  <2>1. Depth \in 1..Depth /\ ~(Depth < Depth) /\ Top \in Frames /\ Top = stack[Depth]
    BY TopIsTyped DEF Inv
  <2>2. Top.pc # "wait"
    BY <2>1, Zenon DEF Inv, StackInv
  <2>3. Top.pc \in {"ask", "cname", "wait", "fail"}
    BY <2>1 DEF Frames
  <2>4. Top.pc = "ask" => ~failed
    BY DEF Inv, OutInv
  <2>5. Top.pc = "ask" => counter <= MaxQueriesPerRequest
    BY <2>4, Zenon DEF Inv, CountInv
  <2>6. \A c \in Top.todo : c.type = "CNAME"
    BY <2>1, Zenon DEF TodoInv
  <2> QED
    BY <2>2, <2>3, <2>5, <2>6
<1> QED
  BY <1>1, FinaliseInvariance, TodoInvariant, PTL

(* Nor does it go on for ever: the counter is bounded, between two queries   *)
(* at most one nested exchange starts before the next query, and returns and *)
(* aliases run out.                                                          *)
THEOREM RequestTerminates == Spec => [][RequestRunsOut]_vars
<1>1. Inv /\ TodoInv /\ [Next]_vars => [RequestRunsOut]_vars
  BY RequestStep, Zenon
<1> QED
  BY <1>1, FinaliseInvariance, TodoInvariant, PTL DEF Spec
=============================================================================
