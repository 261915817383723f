---------------------------- MODULE TossRequest ----------------------------
(***************************************************************************)
(* One call of the SDK client (client.py _request, auth.py TokenManager):  *)
(* the account lookup before the first account call, the access token, the *)
(* sends, the single reissue after a 401, the bounded retries after a 429, *)
(* and what the caller is told.                                            *)
(*                                                                         *)
(* A process is one client; they all use the same API credentials, for     *)
(* which Toss keeps one live token.  Every send may execute: nothing here  *)
(* relies on clientOrderId, which a modify or a cancel does not carry.     *)
(* The rate limiter only delays a send and is left to its own module.      *)
(***************************************************************************)
EXTENDS Naturals

CONSTANTS Proc, MaxRetries   \* max_retries

Nobody == "nobody"

ASSUME TossRequestAssumption == MaxRetries \in Nat /\ Nobody \notin Proc

VARIABLES
  owner,    \* at Toss: the process that got the live token, if any has it
  held,     \* the processes with a token cached
  fresh,    \* those of them whose cached token has not reached _expires_at
  known,    \* the processes that know their accountSeq
  req       \* per process, the call it is in

vars == <<owner, held, fresh, known, req>>

Idle == [at |-> "idle"]
Answer == {"ok", "unusable", "token", "rate", "rejected", "unavailable", "lost"}
Outcome == Answer \cup {"oauth", "no-account"}

\* kind "accounts" is the lookup that runs inside the first account call.
Started(kind) ==
  [at |-> "gate", kind |-> kind, retried |-> FALSE, attempt |-> 0,
   sends |-> 0, executed |-> 0, rival |-> FALSE, outcome |-> "ok"]

Req ==
  [at : {"gate", "ready", "backoff", "ended"}, kind : {"accounts", "call"}, retried : BOOLEAN,
   attempt : 0 .. MaxRetries, sends : 0 .. MaxRetries + 3, executed : 0 .. 2, rival : BOOLEAN, outcome : Outcome]

TypeOK ==
  /\ owner \in Proc \cup {Nobody}
  /\ fresh \subseteq held /\ held \subseteq Proc
  /\ known \subseteq Proc
  /\ req \in [Proc -> Req \cup {Idle}]

Init ==
  /\ owner = Nobody
  /\ held = {} /\ fresh = {} /\ known = {}
  /\ req = [p \in Proc |-> Idle]

At(p, where) == req[p].at = where

Begin(p) ==
  /\ req[p] = Idle
  /\ req' = [req EXCEPT ![p] = Started(IF p \in known THEN "call" ELSE "accounts")]
  /\ UNCHANGED <<owner, held, fresh, known>>
-----------------------------------------------------------------------------
(* The access token. *)

\* History: the live token changes hands, to o, under the calls of the others.
Overtaken(o) ==
  [p \in Proc |-> IF p # o /\ req[p] # Idle THEN [req[p] EXCEPT !.rival = TRUE] ELSE req[p]]

UseCached(p) ==
  /\ At(p, "gate")
  /\ p \in fresh
  /\ req' = [req EXCEPT ![p].at = "ready"]
  /\ UNCHANGED <<owner, held, fresh, known>>

Fetch(p) ==
  /\ At(p, "gate")
  /\ p \notin fresh
  /\ owner' = p
  /\ held' = held \cup {p}
  /\ fresh' = fresh \cup {p}
  /\ req' = [Overtaken(p) EXCEPT ![p].at = "ready", ![p].rival = FALSE]
  /\ UNCHANGED known

\* The token request fails; Toss may have issued a token all the same.
FetchFails(p) ==
  /\ At(p, "gate")
  /\ p \notin fresh
  /\ \/ owner' = Nobody /\ req' = [Overtaken(p) EXCEPT ![p].at = "ended", ![p].outcome = "oauth"]
     \/ UNCHANGED owner /\ req' = [req EXCEPT ![p].at = "ended", ![p].outcome = "oauth"]
  /\ UNCHANGED <<held, fresh, known>>

\* The cached token reaches _expires_at.
Age(p) ==
  /\ p \in fresh
  /\ fresh' = fresh \ {p}
  /\ UNCHANGED <<owner, held, known, req>>

\* Toss drops the live token before its time.
Lapse ==
  /\ owner # Nobody
  /\ owner' = Nobody
  /\ req' = Overtaken(Nobody)
  /\ UNCHANGED <<held, fresh, known>>
-----------------------------------------------------------------------------
(* Sending. *)

\* What Toss can answer, and whether it executed the request: a token that is
\* not the live one is refused; an answer that is lost or a 5xx tells nothing.
TossMay(p) ==
  IF owner # p THEN {<<"token", 0>>}
  ELSE {<<"ok", 1>>, <<"unusable", 1>>, <<"rate", 0>>, <<"rejected", 0>>}
         \cup ({"unavailable", "lost"} \X {0, 1})

\* Variant with a bug: the second reissue is not ruled out.
ReissuesAlways(r, answer) == answer = "token"

\* 401 with a code that a fresh token fixes, once per call.
Reissues(r, answer) == answer = "token" /\ ~r.retried

\* Variant with a bug: a 5xx is retried like a 429.
RetriesUnavailable(r, answer) == answer \in {"rate", "unavailable"} /\ r.attempt < MaxRetries

\* 429, up to max_retries times per call.
Retries(r, answer) == answer = "rate" /\ r.attempt < MaxRetries

\* Variant with a bug: the cached token is not invalidated.
ReissueKeepingToken(p, r) ==
  /\ req' = [req EXCEPT ![p] = [r EXCEPT !.at = "gate", !.retried = TRUE]]
  /\ UNCHANGED <<held, fresh, known>>

\* invalidate(), and the call starts over with _retried set.
Reissue(p, r) ==
  /\ held' = held \ {p}
  /\ fresh' = fresh \ {p}
  /\ req' = [req EXCEPT ![p] = [r EXCEPT !.at = "gate", !.retried = TRUE]]
  /\ UNCHANGED known

\* Variant with a bug: the retry starts over with its counter at zero.
BackoffAnew(p, r) ==
  /\ req' = [req EXCEPT ![p] = [r EXCEPT !.at = "backoff", !.attempt = 0]]
  /\ UNCHANGED <<held, fresh, known>>

Backoff(p, r) ==
  /\ req' = [req EXCEPT ![p] = [r EXCEPT !.at = "backoff", !.attempt = @ + 1]]
  /\ UNCHANGED <<held, fresh, known>>

\* The lookup found the account, and the call it ran for goes on; or it found
\* none, which is a RuntimeError.
AccountsAnswered(p, r) ==
  /\ \/ known' = known \cup {p} /\ req' = [req EXCEPT ![p] = Started("call")]
     \/ UNCHANGED known
        /\ req' = [req EXCEPT ![p] = [r EXCEPT !.at = "ended", !.outcome = "no-account"]]
  /\ UNCHANGED <<held, fresh>>

End(p, r, answer) ==
  /\ req' = [req EXCEPT ![p] = [r EXCEPT !.at = "ended", !.outcome = answer]]
  /\ UNCHANGED <<held, fresh, known>>

\* bound: the two history counters stop one above what they should reach.
Counted(n, more, most) == IF n + more > most THEN most ELSE n + more

Send(p) ==
  /\ At(p, "ready")
  /\ \E reply \in TossMay(p) :
       LET answer == reply[1]
           r == [req[p] EXCEPT !.sends = Counted(@, 1, MaxRetries + 3),
                               !.executed = Counted(@, reply[2], 2)]
       IN \/ Reissues(r, answer) /\ Reissue(p, r)
          \/ Retries(r, answer) /\ Backoff(p, r)
          \/ answer = "ok" /\ r.kind = "accounts" /\ AccountsAnswered(p, r)
          \/ /\ ~Reissues(r, answer) /\ ~Retries(r, answer)
             /\ ~(answer = "ok" /\ r.kind = "accounts")
             /\ End(p, r, answer)
  /\ UNCHANGED owner

\* backoff_wait has passed; it is at most retry_max_wait.
Resume(p) ==
  /\ At(p, "backoff")
  /\ req' = [req EXCEPT ![p].at = "gate"]
  /\ UNCHANGED <<owner, held, fresh, known>>

Return(p) ==
  /\ At(p, "ended")
  /\ req' = [req EXCEPT ![p] = Idle]
  /\ UNCHANGED <<owner, held, fresh, known>>

CallStep(p) ==
  \/ UseCached(p)
  \/ Fetch(p)
  \/ FetchFails(p)
  \/ Send(p)
  \/ Resume(p)
  \/ Return(p)

Next ==
  \/ \E p \in Proc : Begin(p) \/ Age(p)
  \/ \E p \in Proc : CallStep(p)
  \/ Lapse

Spec == Init /\ [][Next]_vars

\* A call that runs goes on: httpx and sleep return after a bounded time.
LiveSpec == Spec /\ \A p \in Proc : WF_vars(CallStep(p))
-----------------------------------------------------------------------------
(* Properties. *)

Ended(p, outcomes) == At(p, "ended") /\ req[p].outcome \in outcomes

\* However often a call is sent, Toss executes it at most once, and the caller
\* is told the truth: a success or an unusable 200 was executed, a 4xx was not
\* (tools.py _is_rejection relies on it within one call).
OutcomeIsTrue ==
  \A p \in Proc : req[p] # Idle =>
    /\ req[p].executed <= 1
    /\ Ended(p, {"ok", "unusable"}) => req[p].executed = 1
    /\ Ended(p, {"rejected", "rate", "token"}) => req[p].executed = 0

\* The two reasons to send again share one budget of max_retries + 1 repeats.
SendsAreBounded ==
  \A p \in Proc : req[p] # Idle => req[p].sends <= MaxRetries + 2

\* A call fails for its token only if the token it had just been issued was
\* taken away before the send: a stale cache alone never fails a call.
TokenFailureNeedsRival ==
  \A p \in Proc : Ended(p, {"token"}) => req[p].rival

\* Clients that revoke each other's tokens still finish every call.
EveryCallEnds == \A p \in Proc : req[p] # Idle ~> req[p] = Idle
=============================================================================
