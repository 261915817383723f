------------------------ MODULE TossRequest_proofs ------------------------
(* What a call of the SDK tells its caller is true and the number of its     *)
(* sends is bounded, for any number of clients that share one credential     *)
(* pair, any max_retries and whatever Toss answers.                          *)
EXTENDS TossRequest, TLAPS

USE TossRequestAssumption

Running(p) == req[p].at \in {"gate", "ready", "backoff"}

\* While a call runs, nothing it sent was executed, and every send used up the
\* reissue or a retry.
NothingYet(p) ==
  Running(p) =>
    /\ req[p].executed = 0
    /\ req[p].sends = req[p].attempt + (IF req[p].retried THEN 1 ELSE 0)

\* A call that ended is true, within its sends, and fails for its token only
\* under a rival.
TruthTold(p) ==
  At(p, "ended") =>
    /\ req[p].executed <= 1
    /\ req[p].outcome \in {"ok", "unusable"} => req[p].executed = 1
    /\ req[p].outcome \in {"rejected", "rate", "token"} => req[p].executed = 0
    /\ req[p].sends <= MaxRetries + 2
    /\ req[p].outcome = "token" => req[p].rival

\* After a reissue the token a call has, or would take from the cache, is the live
\* one, or was taken away since.
JustIssued(p) ==
  Running(p) /\ req[p].retried /\ (At(p, "ready") \/ p \in fresh) =>
    owner = p \/ req[p].rival

Good(p) == NothingYet(p) /\ TruthTold(p) /\ JustIssued(p)

IInv == TypeOK /\ \A p \in Proc : Good(p)

\* A call in progress is a record of a call.
LEMMA ReqType ==
  ASSUME TypeOK, NEW p \in Proc
  PROVE  /\ req[p] # Idle <=> req[p] \in Req
         /\ req[p] # Idle <=> req[p].at # "idle"
BY DEF TypeOK, Req, Idle

\* A call keeps its promises in steps of the other clients, of Toss and of time.
LEMMA BystanderGood ==
  ASSUME TypeOK, NEW p \in Proc, Good(p),
         req'[p] = req[p] \/ (req[p] # Idle /\ req'[p] = [req[p] EXCEPT !.rival = TRUE]),
         p \in fresh' => p \in fresh,
         owner' = owner \/ req[p] = Idle \/ req'[p].rival
  PROVE  Good(p)'
<1>1. CASE req'[p] = req[p] /\ owner' = owner
  BY <1>1 DEF Good, NothingYet, TruthTold, JustIssued, Running, At
<1>2. CASE req'[p] = req[p] /\ req[p] = Idle
  BY <1>2 DEF Good, NothingYet, TruthTold, JustIssued, Running, At, Idle
<1>3. CASE req'[p] = req[p] /\ req[p] # Idle /\ req'[p].rival
  BY <1>3 DEF Good, NothingYet, TruthTold, JustIssued, Running, At
<1>4. CASE req[p] # Idle /\ req'[p] = [req[p] EXCEPT !.rival = TRUE]
  <2>1. req[p] \in Req
    BY <1>4, ReqType
  <2>2. /\ req'[p].at = req[p].at /\ req'[p].executed = req[p].executed
        /\ req'[p].sends = req[p].sends /\ req'[p].attempt = req[p].attempt
        /\ req'[p].retried = req[p].retried /\ req'[p].outcome = req[p].outcome
        /\ req'[p].rival = TRUE
    BY <1>4, <2>1 DEF Req
  <2> QED
    BY <2>2 DEF Good, NothingYet, TruthTold, JustIssued, Running, At
<1> QED
  BY <1>1, <1>2, <1>3, <1>4

\* The live token changes hands: typed, and noticed by every other call.
LEMMA OvertakenType ==
  ASSUME TypeOK, NEW o
  PROVE  /\ Overtaken(o) \in [Proc -> Req \cup {Idle}]
         /\ \A q \in Proc : q # o =>
              \/ req[q] = Idle /\ Overtaken(o)[q] = req[q]
              \/ /\ req[q] # Idle /\ Overtaken(o)[q] = [req[q] EXCEPT !.rival = TRUE]
                 /\ Overtaken(o)[q].rival
         /\ o \in Proc => Overtaken(o)[o] = req[o]
<1>1. \A q \in Proc : req[q] # Idle => [req[q] EXCEPT !.rival = TRUE] \in Req
  BY ReqType DEF Req
<1>2. \A q \in Proc : req[q] \in Req \cup {Idle}
  BY DEF TypeOK
<1>3. \A q \in Proc : req[q] # Idle => [req[q] EXCEPT !.rival = TRUE].rival
  BY ReqType DEF Req
<1> QED
  BY <1>1, <1>2, <1>3 DEF Overtaken
-----------------------------------------------------------------------------
(* The steps of a call, Toss's own, and time. *)

\* A call starts with nothing sent.
LEMMA BeginInv ==
  ASSUME IInv, NEW p \in Proc, Begin(p)
  PROVE  IInv'
<1>1. PICK kind \in {"accounts", "call"} : req' = [req EXCEPT ![p] = Started(kind)]
  BY DEF Begin
<1>2. Started(kind) \in Req /\ Started(kind).at = "gate" /\ ~Started(kind).retried
      /\ Started(kind).executed = 0 /\ Started(kind).sends = 0 /\ Started(kind).attempt = 0
  BY DEF Started, Req, Outcome, Answer
<1>3. TypeOK'
  BY <1>1, <1>2 DEF Begin, IInv, TypeOK
<1>4. Good(p)'
  <2>1. req'[p] = Started(kind)
    BY <1>1 DEF IInv, TypeOK
  <2> QED
    BY <1>2, <2>1 DEF Good, NothingYet, TruthTold, JustIssued, Running, At
<1>5. ASSUME NEW q \in Proc, q # p PROVE Good(q)'
  BY <1>1, <1>5, BystanderGood DEF Begin, IInv, TypeOK
<1> QED
  BY <1>3, <1>4, <1>5 DEF IInv

\* A call goes on to its next send.
LEMMA MovesOnInv ==
  ASSUME IInv, NEW p \in Proc, UseCached(p) \/ Resume(p)
  PROVE  IInv'
<1>1. /\ Running(p) /\ req[p] # Idle /\ req[p] \in Req /\ TypeOK
      /\ At(p, "gate") => p \in fresh
      /\ UNCHANGED <<owner, held, fresh, known>>
  BY ReqType DEF UseCached, Resume, Running, At, Idle, IInv
<1>2. PICK where \in {"ready", "gate"} :
        /\ req' = [req EXCEPT ![p].at = where]
        /\ where = "ready" => p \in fresh
  BY <1>1 DEF UseCached, Resume
<1>3. /\ req'[p] = [req[p] EXCEPT !.at = where] /\ req'[p] \in Req
      /\ \A q \in Proc : q # p => req'[q] = req[q]
  BY <1>1, <1>2 DEF TypeOK, Req
<1>4. TypeOK'
  BY <1>1, <1>2, <1>3 DEF TypeOK
<1>5. /\ req'[p].at = where /\ req'[p].executed = req[p].executed
      /\ req'[p].sends = req[p].sends /\ req'[p].attempt = req[p].attempt
      /\ req'[p].retried = req[p].retried /\ req'[p].rival = req[p].rival
  BY <1>1, <1>3 DEF Req
<1>6. Good(p)'
  BY <1>1, <1>2, <1>5 DEF IInv, Good, NothingYet, TruthTold, JustIssued, Running, At
<1>7. ASSUME NEW q \in Proc, q # p PROVE Good(q)'
  BY <1>1, <1>3, <1>7, BystanderGood DEF IInv
<1> QED
  BY <1>4, <1>6, <1>7 DEF IInv

\* A new token is the live one; the calls of the others lose theirs.
LEMMA FetchInv ==
  ASSUME IInv, NEW p \in Proc, Fetch(p)
  PROVE  IInv'
<1>1. TypeOK /\ At(p, "gate") /\ req[p] # Idle /\ req[p] \in Req
  BY ReqType DEF Fetch, At, Idle, IInv
<1>2. /\ req' \in [Proc -> Req \cup {Idle}]
      /\ req'[p] = [req[p] EXCEPT !.at = "ready", !.rival = FALSE]
      /\ \A q \in Proc : q # p => req'[q] = Overtaken(p)[q]
  <2> DEFINE r == [req[p] EXCEPT !.at = "ready", !.rival = FALSE]
  <2>1. Overtaken(p) \in [Proc -> Req \cup {Idle}] /\ Overtaken(p)[p] = req[p]
    BY <1>1, OvertakenType
  <2>2. r \in Req
    BY <1>1 DEF Req
  <2>3. req' = [Overtaken(p) EXCEPT ![p] = r]
    BY <2>1 DEF Fetch
  <2> HIDE DEF r
  <2>4. /\ req' \in [Proc -> Req \cup {Idle}] /\ req'[p] = r
        /\ \A q \in Proc : q # p => req'[q] = Overtaken(p)[q]
    BY <2>1, <2>2, <2>3
  <2> QED
    BY <2>4 DEF r
<1>3. TypeOK'
  BY <1>1, <1>2 DEF Fetch, TypeOK
<1>4. /\ req'[p].at = "ready" /\ req'[p].executed = req[p].executed
      /\ req'[p].sends = req[p].sends /\ req'[p].attempt = req[p].attempt
      /\ req'[p].retried = req[p].retried
  BY <1>1, <1>2 DEF Req
<1>5. Good(p)'
  BY <1>1, <1>4 DEF Fetch, IInv, Good, NothingYet, TruthTold, JustIssued, Running, At
<1>6. ASSUME NEW q \in Proc, q # p PROVE Good(q)'
  <2>1. /\ req'[q] = req[q] \/ (req[q] # Idle /\ req'[q] = [req[q] EXCEPT !.rival = TRUE])
        /\ req[q] = Idle \/ req'[q].rival
    BY <1>1, <1>2, <1>6, OvertakenType
  <2>2. q \in fresh' => q \in fresh
    BY <1>6 DEF Fetch
  <2> QED
    BY <1>1, <2>1, <2>2, BystanderGood DEF IInv
<1> QED
  BY <1>3, <1>5, <1>6 DEF IInv

\* A token request that fails ends the call, and may cost the others their token.
LEMMA FetchFailsInv ==
  ASSUME IInv, NEW p \in Proc, FetchFails(p)
  PROVE  IInv'
<1>1. TypeOK /\ At(p, "gate") /\ req[p] # Idle /\ req[p] \in Req /\ Nobody \notin Proc
  BY ReqType DEF FetchFails, At, Idle, IInv
<1>2. PICK r \in Req :
        /\ r = req[p] \/ r = [req[p] EXCEPT !.rival = TRUE]
        /\ req'[p] = [r EXCEPT !.at = "ended", !.outcome = "oauth"]
        /\ req' \in [Proc -> Req \cup {Idle}]
        /\ \A q \in Proc : q # p =>
             \/ req'[q] = req[q] /\ (owner' = owner \/ req[q] = Idle)
             \/ req[q] # Idle /\ req'[q] = [req[q] EXCEPT !.rival = TRUE] /\ req'[q].rival
  <2>1. CASE owner' = Nobody /\ req' = [Overtaken(p) EXCEPT ![p].at = "ended", ![p].outcome = "oauth"]
    <3>1. [req[p] EXCEPT !.at = "ended", !.outcome = "oauth"] \in Req
      BY <1>1 DEF Req, Outcome
    <3>2. /\ req'[p] = [req[p] EXCEPT !.at = "ended", !.outcome = "oauth"]
          /\ \A q \in Proc : q # p => req'[q] = Overtaken(p)[q]
          /\ req' \in [Proc -> Req \cup {Idle}]
      BY <1>1, <2>1, <3>1, OvertakenType
    <3> QED
      BY <1>1, <3>2, OvertakenType
  <2>2. CASE UNCHANGED owner /\ req' = [req EXCEPT ![p].at = "ended", ![p].outcome = "oauth"]
    <3>1. [req[p] EXCEPT !.at = "ended", !.outcome = "oauth"] \in Req
      BY <1>1 DEF Req, Outcome
    <3>2. /\ req'[p] = [req[p] EXCEPT !.at = "ended", !.outcome = "oauth"]
          /\ \A q \in Proc : q # p => req'[q] = req[q]
          /\ req' \in [Proc -> Req \cup {Idle}]
      BY <1>1, <2>2, <3>1 DEF TypeOK
    <3> QED
      BY <1>1, <2>2, <3>2
  <2> QED
    BY <2>1, <2>2 DEF FetchFails
<1>3. TypeOK'
  BY <1>1, <1>2 DEF FetchFails, TypeOK
<1>4. /\ req'[p].at = "ended" /\ req'[p].outcome = "oauth" /\ req'[p].executed = req[p].executed
      /\ req'[p].sends = req[p].sends
  BY <1>1, <1>2 DEF Req
<1>5. Good(p)'
  <2>1. req[p].executed = 0 /\ req[p].sends <= MaxRetries + 2
    BY <1>1 DEF IInv, Good, NothingYet, Running, At, Req
  <2> QED
    BY <1>4, <2>1 DEF Good, NothingYet, TruthTold, JustIssued, Running, At
<1>6. ASSUME NEW q \in Proc, q # p PROVE Good(q)'
  BY <1>1, <1>2, <1>6, BystanderGood DEF IInv, FetchFails
<1> QED
  BY <1>3, <1>5, <1>6 DEF IInv

\* A token ages, Toss drops the live one, a call returns.
LEMMA QuietInv ==
  ASSUME IInv
  PROVE  /\ \A p \in Proc : Age(p) \/ Return(p) => IInv'
         /\ Lapse => IInv'
<1>1. ASSUME NEW p \in Proc, Age(p) PROVE IInv'
  <2>1. TypeOK'
    BY <1>1 DEF Age, IInv, TypeOK
  <2> QED
    BY <1>1, <2>1, BystanderGood DEF Age, IInv
<1>2. ASSUME NEW p \in Proc, Return(p) PROVE IInv'
  <2>1. TypeOK' /\ req'[p] = Idle /\ \A q \in Proc : q # p => req'[q] = req[q]
    BY <1>2 DEF Return, IInv, TypeOK
  <2>2. Good(p)'
    BY <2>1 DEF Good, NothingYet, TruthTold, JustIssued, Running, At, Idle
  <2>3. ASSUME NEW q \in Proc, q # p PROVE Good(q)'
    BY <1>2, <2>1, <2>3, BystanderGood DEF Return, IInv
  <2> QED
    BY <2>1, <2>2, <2>3 DEF IInv
<1>3. ASSUME Lapse PROVE IInv'
  <2>1. TypeOK'
    BY <1>3, OvertakenType DEF Lapse, IInv, TypeOK
  <2>2. ASSUME NEW q \in Proc PROVE Good(q)'
    <3>1. q # Nobody /\ TypeOK /\ Good(q)
      BY DEF IInv
    <3>2. req'[q] = Overtaken(Nobody)[q]
      BY <1>3 DEF Lapse
    <3>3. \/ req[q] = Idle /\ Overtaken(Nobody)[q] = req[q]
          \/ /\ req[q] # Idle /\ Overtaken(Nobody)[q] = [req[q] EXCEPT !.rival = TRUE]
             /\ Overtaken(Nobody)[q].rival
      BY <3>1, OvertakenType, Zenon
    <3>4. q \in fresh' => q \in fresh
      BY <1>3 DEF Lapse
    <3>5. CASE req[q] = Idle /\ req'[q] = req[q]
      BY <3>1, <3>4, <3>5, BystanderGood
    <3>6. CASE req[q] # Idle /\ req'[q] = [req[q] EXCEPT !.rival = TRUE] /\ req'[q].rival
      BY <3>1, <3>4, <3>6, BystanderGood
    <3> QED
      BY <3>2, <3>3, <3>5, <3>6
  <2> QED
    BY <2>1, <2>2 DEF IInv
<1> QED
  BY <1>1, <1>2, <1>3
-----------------------------------------------------------------------------
(* The send. *)

\* The record of a call after Toss has answered a send: one send more, and
\* executed once if Toss did.
LEMMA SentType ==
  ASSUME IInv, NEW p \in Proc, At(p, "ready"), NEW reply \in TossMay(p)
  PROVE  LET r == [req[p] EXCEPT !.sends = Counted(@, 1, MaxRetries + 3),
                                 !.executed = Counted(@, reply[2], 2)]
         IN /\ r \in Req /\ reply[1] \in Answer /\ reply[2] \in {0, 1}
            /\ r.sends = req[p].attempt + (IF req[p].retried THEN 1 ELSE 0) + 1
            /\ r.executed = reply[2]
            /\ r.attempt = req[p].attempt /\ r.retried = req[p].retried
            /\ r.kind = req[p].kind /\ r.rival = req[p].rival
            /\ reply[1] = "token" => reply[2] = 0 /\ owner # p
            /\ reply[1] \in {"rate", "rejected"} => reply[2] = 0
            /\ reply[1] \in {"ok", "unusable"} => reply[2] = 1
<1> DEFINE r == [req[p] EXCEPT !.sends = Counted(@, 1, MaxRetries + 3),
                               !.executed = Counted(@, reply[2], 2)]
<1>1. /\ req[p] \in Req /\ req[p].executed = 0
      /\ req[p].sends = req[p].attempt + (IF req[p].retried THEN 1 ELSE 0)
  BY ReqType DEF IInv, Good, NothingYet, Running, At
<1>2. /\ reply[1] \in Answer /\ reply[2] \in {0, 1}
      /\ reply[1] = "token" => reply[2] = 0 /\ owner # p
      /\ reply[1] \in {"rate", "rejected"} => reply[2] = 0
      /\ reply[1] \in {"ok", "unusable"} => reply[2] = 1
  BY DEF TossMay, Answer
<1>3. req[p].attempt \in 0 .. MaxRetries /\ req[p].retried \in BOOLEAN
  BY <1>1 DEF Req
<1>4. /\ Counted(req[p].sends, 1, MaxRetries + 3) = req[p].sends + 1
      /\ req[p].sends + 1 \in 0 .. MaxRetries + 3
  BY <1>1, <1>3 DEF Counted
<1>5. Counted(req[p].executed, reply[2], 2) = reply[2]
  BY <1>1, <1>2 DEF Counted
<1>6. r = [req[p] EXCEPT !.sends = req[p].sends + 1, !.executed = reply[2]]
  BY <1>4, <1>5
<1> HIDE DEF r
<1>7. r \in Req
  <2>1. reply[2] \in 0 .. 2
    BY <1>2
  <2> QED
    BY <1>1, <1>4, <1>6, <2>1 DEF Req
<1>8. /\ r.sends = req[p].sends + 1 /\ r.executed = reply[2]
      /\ r.attempt = req[p].attempt /\ r.retried = req[p].retried
      /\ r.kind = req[p].kind /\ r.rival = req[p].rival
  BY <1>1, <1>6 DEF Req
<1> QED
  BY <1>1, <1>2, <1>7, <1>8 DEF r

\* Every answer to a send keeps the promises.
LEMMA SendInv ==
  ASSUME IInv, NEW p \in Proc, Send(p)
  PROVE  IInv'
<1>1. TypeOK /\ At(p, "ready") /\ UNCHANGED owner /\ req[p] \in Req
  BY ReqType DEF Send, IInv, At
<1>2. PICK reply \in TossMay(p), r \in Req :
        /\ reply[1] \in Answer
        /\ r.sends = req[p].attempt + (IF req[p].retried THEN 1 ELSE 0) + 1
        /\ r.executed = reply[2]
        /\ r.attempt = req[p].attempt /\ r.retried = req[p].retried /\ r.rival = req[p].rival
        /\ reply[2] \in {0, 1}
        /\ reply[1] = "token" => reply[2] = 0 /\ owner # p
        /\ reply[1] \in {"rate", "rejected"} => reply[2] = 0
        /\ reply[1] \in {"ok", "unusable"} => reply[2] = 1
        /\ \/ Reissues(r, reply[1]) /\ Reissue(p, r)
           \/ Retries(r, reply[1]) /\ Backoff(p, r)
           \/ reply[1] = "ok" /\ AccountsAnswered(p, r)
           \/ ~Reissues(r, reply[1]) /\ End(p, r, reply[1])
  <2>1. PICK reply \in TossMay(p) :
          LET r == [req[p] EXCEPT !.sends = Counted(@, 1, MaxRetries + 3),
                                  !.executed = Counted(@, reply[2], 2)]
          IN \/ Reissues(r, reply[1]) /\ Reissue(p, r)
             \/ Retries(r, reply[1]) /\ Backoff(p, r)
             \/ reply[1] = "ok" /\ AccountsAnswered(p, r)
             \/ ~Reissues(r, reply[1]) /\ End(p, r, reply[1])
    BY DEF Send
  <2> QED
    BY <1>1, <2>1, SentType
<1>3. req[p].attempt \in 0 .. MaxRetries /\ req[p].retried \in BOOLEAN
  BY <1>1 DEF Req
<1>4. ASSUME fresh' \subseteq fresh,
             req'[p] \in Req, req' = [req EXCEPT ![p] = req'[p]], Good(p)'
      PROVE  \A q \in Proc : req'[q] \in Req \cup {Idle} /\ Good(q)'
  <2>1. ASSUME NEW q \in Proc, q # p PROVE req'[q] = req[q] /\ Good(q)'
    BY <1>1, <1>4, <2>1, BystanderGood DEF IInv, TypeOK
  <2> QED
    BY <1>1, <1>4, <2>1 DEF TypeOK
<1>5. CASE Reissues(r, reply[1]) /\ Reissue(p, r)
  <2>1. req'[p] = [r EXCEPT !.at = "gate", !.retried = TRUE] /\ req' = [req EXCEPT ![p] = req'[p]]
        /\ fresh' = fresh \ {p} /\ held' = held \ {p} /\ UNCHANGED known
    BY <1>1, <1>5 DEF Reissue, TypeOK
  <2>2. /\ req'[p] \in Req /\ req'[p].at = "gate" /\ req'[p].retried /\ req'[p].sends = r.sends
        /\ req'[p].attempt = r.attempt /\ req'[p].executed = r.executed
    BY <2>1 DEF Req
  <2>3. Good(p)'
    BY <1>2, <1>3, <1>5, <2>1, <2>2 DEF Reissues, Good, NothingYet, TruthTold, JustIssued, Running, At
  <2> QED
    BY <1>1, <1>4, <2>1, <2>2, <2>3 DEF IInv, TypeOK
<1>6. CASE Retries(r, reply[1]) /\ Backoff(p, r)
  <2>1. req'[p] = [r EXCEPT !.at = "backoff", !.attempt = @ + 1] /\ req' = [req EXCEPT ![p] = req'[p]]
        /\ UNCHANGED <<held, fresh, known>> /\ r.attempt + 1 \in 0 .. MaxRetries
    BY <1>1, <1>2, <1>3, <1>6 DEF Backoff, Retries, TypeOK
  <2>2. /\ req'[p] \in Req /\ req'[p].at = "backoff" /\ req'[p].retried = r.retried
        /\ req'[p].attempt = r.attempt + 1 /\ req'[p].executed = r.executed
        /\ req'[p].sends = r.sends /\ req'[p].rival = r.rival
    BY <2>1 DEF Req
  <2>3. owner = p \/ req[p].rival \/ ~req[p].retried
    BY <1>1, <1>3 DEF IInv, Good, JustIssued, Running, At
  <2>4. Good(p)'
    BY <1>1, <1>2, <1>3, <1>6, <2>2, <2>3
       DEF Retries, Good, NothingYet, TruthTold, JustIssued, Running, At
  <2> QED
    BY <1>1, <1>4, <2>1, <2>2, <2>4 DEF IInv, TypeOK
<1>7. CASE reply[1] = "ok" /\ AccountsAnswered(p, r)
  <2>1. CASE known' = known \cup {p} /\ req' = [req EXCEPT ![p] = Started("call")]
    <3>1. /\ Started("call") \in Req /\ Started("call").at = "gate" /\ ~Started("call").retried
          /\ Started("call").executed = 0 /\ Started("call").sends = 0
          /\ Started("call").attempt = 0
      BY DEF Started, Req, Outcome, Answer
    <3>2. req'[p] = Started("call")
      BY <1>1, <2>1 DEF TypeOK
    <3>3. Good(p)'
      BY <3>1, <3>2 DEF Good, NothingYet, TruthTold, JustIssued, Running, At
    <3> QED
      BY <1>1, <1>4, <1>7, <2>1, <3>1, <3>2, <3>3 DEF AccountsAnswered, IInv, TypeOK
  <2>2. CASE UNCHANGED known /\ req' = [req EXCEPT ![p] = [r EXCEPT !.at = "ended", !.outcome = "no-account"]]
    <3>1. req'[p] = [r EXCEPT !.at = "ended", !.outcome = "no-account"]
      BY <1>1, <2>2 DEF TypeOK
    <3>2. /\ req'[p] \in Req /\ req'[p].at = "ended" /\ req'[p].outcome = "no-account"
          /\ req'[p].executed = r.executed /\ req'[p].sends = r.sends
      BY <3>1 DEF Req, Outcome
    <3>3. Good(p)'
      BY <1>2, <1>3, <3>2 DEF Good, NothingYet, TruthTold, JustIssued, Running, At
    <3> QED
      BY <1>1, <1>4, <1>7, <2>2, <3>1, <3>2, <3>3 DEF AccountsAnswered, IInv, TypeOK
  <2> QED
    BY <1>7, <2>1, <2>2 DEF AccountsAnswered
<1>8. CASE ~Reissues(r, reply[1]) /\ End(p, r, reply[1])
  <2>1. /\ req'[p] = [r EXCEPT !.at = "ended", !.outcome = reply[1]]
        /\ req' = [req EXCEPT ![p] = req'[p]] /\ UNCHANGED <<held, fresh, known>>
    BY <1>1, <1>8 DEF End, TypeOK
  <2>2. /\ req'[p] \in Req /\ req'[p].at = "ended" /\ req'[p].outcome = reply[1]
        /\ req'[p].executed = r.executed /\ req'[p].sends = r.sends /\ req'[p].rival = r.rival
    BY <1>2, <2>1 DEF Req, Outcome
  <2>3. reply[1] = "token" => req[p].rival
    BY <1>1, <1>2, <1>3, <1>8 DEF Reissues, IInv, Good, JustIssued, Running, At
  <2>4. Good(p)'
    BY <1>2, <1>3, <2>2, <2>3 DEF Good, NothingYet, TruthTold, JustIssued, Running, At
  <2> QED
    BY <1>1, <1>4, <2>1, <2>2, <2>4 DEF IInv, TypeOK
<1> QED
  BY <1>2, <1>5, <1>6, <1>7, <1>8
-----------------------------------------------------------------------------
\* The inductive invariant holds in every reachable state.
THEOREM Invariance == Spec => []IInv
<1>1. Init => IInv
  <2> SUFFICES ASSUME Init PROVE IInv
    OBVIOUS
  <2>1. TypeOK /\ \A p \in Proc : req[p] = Idle
    BY DEF Init, TypeOK
  <2> QED
    BY <2>1 DEF IInv, Good, NothingYet, TruthTold, JustIssued, Running, At, Idle
<1>2. IInv /\ [Next]_vars => IInv'
  <2> SUFFICES ASSUME IInv, [Next]_vars PROVE IInv'
    OBVIOUS
  <2>1. ASSUME NEW p \in Proc, Begin(p) \/ Age(p) PROVE IInv'
    BY <2>1, BeginInv, QuietInv
  <2>2. ASSUME NEW p \in Proc, CallStep(p) PROVE IInv'
    BY <2>2, MovesOnInv, FetchInv, FetchFailsInv, SendInv, QuietInv DEF CallStep
  <2>3. CASE Lapse
    BY <2>3, QuietInv
  <2>4. CASE UNCHANGED vars
    BY <2>4 DEF vars, IInv, TypeOK, Good, NothingYet, TruthTold, JustIssued, Running, At
  <2> QED
    BY <2>1, <2>2, <2>3, <2>4 DEF Next
<1> QED
  BY <1>1, <1>2, PTL DEF Spec

\* A call is executed at most once and its caller is told the truth.
THEOREM OutcomeIsAlwaysTrue == Spec => []OutcomeIsTrue
<1>1. IInv => OutcomeIsTrue
  <2> SUFFICES ASSUME IInv, NEW p \in Proc, req[p] # Idle
               PROVE  /\ req[p].executed <= 1
                      /\ Ended(p, {"ok", "unusable"}) => req[p].executed = 1
                      /\ Ended(p, {"rejected", "rate", "token"}) => req[p].executed = 0
    BY DEF OutcomeIsTrue
  <2>1. Running(p) \/ At(p, "ended")
    BY ReqType DEF IInv, Req, Running, At
  <2> QED
    BY <2>1 DEF IInv, Good, NothingYet, TruthTold, Running, Ended, At
<1> QED
  BY <1>1, Invariance, PTL

\* A call sends at most max_retries + 2 requests, its lookup not counted.
THEOREM SendsAreAlwaysBounded == Spec => []SendsAreBounded
<1>1. IInv => SendsAreBounded
  <2> SUFFICES ASSUME IInv, NEW p \in Proc, req[p] # Idle
               PROVE  req[p].sends <= MaxRetries + 2
    BY DEF SendsAreBounded
  <2>1. req[p] \in Req /\ (Running(p) \/ At(p, "ended"))
    BY ReqType DEF IInv, Req, Running, At
  <2>2. req[p].attempt \in 0 .. MaxRetries /\ req[p].retried \in BOOLEAN
    BY <2>1 DEF Req
  <2> QED
    BY <2>1, <2>2 DEF IInv, Good, NothingYet, TruthTold
<1> QED
  BY <1>1, Invariance, PTL

\* A call fails for its token only when a rival, or Toss, took it away.
THEOREM TokenFailureAlwaysNeedsRival == Spec => []TokenFailureNeedsRival
<1>1. IInv => TokenFailureNeedsRival
  BY DEF IInv, Good, TruthTold, TokenFailureNeedsRival, Ended
<1> QED
  BY <1>1, Invariance, PTL
=============================================================================
