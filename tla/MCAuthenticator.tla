-------------------------- MODULE MCAuthenticator --------------------------
(* A name of two labels.  For each zone: referrals and DS answers, with DS   *)
(* records or a denial; final answers; and each with something amiss.        *)
EXTENDS Authenticator

Base(d) == [zone |-> d, signer |-> d, keys |-> "ok", signed |-> TRUE, kind |-> "positive",
            ds |-> NoName, doe |-> "NotFound", asks |-> NoName, answers |-> TRUE]

Referrals(d) ==
  {[Base(d) EXCEPT !.kind = "delegation", !.answers = FALSE, !.ds = c] : c \in (d + 1)..Labels}
    \cup {[Base(d) EXCEPT !.kind = "delegation", !.answers = FALSE, !.doe = p] :
            p \in {"NotFound", "MissingDS", "OptOut"}}

DSAnswers(d) ==
  {[Base(d) EXCEPT !.answers = FALSE, !.asks = c, !.ds = c] : c \in (d + 1)..Labels}
    \cup {[Base(d) EXCEPT !.answers = FALSE, !.asks = c, !.kind = "negative", !.doe = p] :
            c \in (d + 1)..Labels, p \in {"NoData", "OptOut"}}

Answers(d) ==
  {[Base(d) EXCEPT !.doe = p] : p \in {"NotFound", "Wildcard", "WildcardUnproven"}}
    \cup {[Base(d) EXCEPT !.kind = "negative", !.answers = FALSE, !.doe = p] :
            p \in {"NxDomain", "NoData", "OptOut"}}

Amiss(d) ==
  {[Base(d) EXCEPT !.keys = "none"], [Base(d) EXCEPT !.keys = "bad"],
   [Base(d) EXCEPT !.signed = FALSE], [Base(d) EXCEPT !.signer = NoName, !.keys = "none"],
   [Base(d) EXCEPT !.signer = Labels], [Base(d) EXCEPT !.kind = "odd", !.answers = FALSE]}

Of(d) == Referrals(d) \cup DSAnswers(d) \cup Answers(d) \cup Amiss(d)

(* At most one for each zone, or two for the same. *)
MCInputSets ==
  {UNION {a, b, c} : a \in {{}} \cup {{x} : x \in Of(0)}, b \in {{}} \cup {{x} : x \in Of(1)},
                     c \in {{}} \cup {{x} : x \in Of(2)}}
    \cup {{Base(0), Base(1), [Base(1) EXCEPT !.keys = "none"]},
           {Base(1), [Base(1) EXCEPT !.keys = "none"], [Base(1) EXCEPT !.keys = "bad"]}}
=============================================================================
