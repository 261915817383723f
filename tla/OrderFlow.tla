----------------------------- MODULE OrderFlow -----------------------------
(***************************************************************************)
(* The write path of the MCP server in live mode: preview, confirmation    *)
(* token, reservation, the call to Toss, settlement and audit, as          *)
(* tools.py (preview_order, place_order, preview_modify, modify_order) and *)
(* safety.py (SafetyManager) run them.                                     *)
(*                                                                         *)
(* A process is one server instance.  It runs one tool call at a time and  *)
(* can be interrupted between any two of the calls it makes to its stores  *)
(* and to Toss.  Durable chooses the state backend: TRUE is redis, whose   *)
(* tokens, counters and reservations outlive a process; FALSE is memory,   *)
(* where a restart keeps only the audit file.                              *)
(*                                                                         *)
(* What Toss and the caller may do is chosen by four more constants:       *)
(*   RejectIsFinal  a 4xx reaches a call only when no request carrying the *)
(*                  order's clientOrderId was executed or still can be     *)
(*   BadBodies      a request may be executed and answered by a 200 whose  *)
(*                  body the SDK cannot use                                *)
(*   SerialTokens   no token is used by two calls at the same time         *)
(*   CutCalls       the orders whose reserve or release may be cut short   *)
(*                  between its two writes by a crash or a redis error     *)
(***************************************************************************)
EXTENDS SpendStore, Sequences, SequencesExt

CONSTANTS Proc, Durable, RejectIsFinal, BadBodies, SerialTokens, CutCalls

ASSUME OrderFlowAssumption ==
  /\ {Durable, RejectIsFinal, BadBodies, SerialTokens} \subseteq BOOLEAN
  /\ CutCalls \subseteq Order

VARIABLES
  today,     \* the KST date
  token,     \* per order, its record in the token store
  call,      \* per process, the tool call it runs
  orphan,    \* requests Toss may still execute though no call waits for them
  fill,      \* history: per order, what Toss executed and the day it is charged to
  audit      \* the placed and modified events of the audit log, oldest first

vars == <<spent, reserved, today, token, call, orphan, fill, audit>>

NoDay == -1
Tool == {"place", "modify"}
Idle == [at |-> "idle"]
Call == [at : {"checked", "sent", "refused", "filled", "committed"},
         order : Order, tool : Tool, day : Day]
Request == [order : Order, tool : Tool, day : Day]
Booking == [day : Day \cup {NoDay}, amount : Amount]
NotBooked == [day |-> NoDay, amount |-> 0]
Event == [order : Order, amount : Amount, day : Day]

TypeOK ==
  /\ StoreTypeOK
  /\ today \in Day
  /\ token \in [Order -> {"none", "live", "expired", "committed"}]
  /\ call \in [Proc -> Call \cup {Idle}]
  /\ orphan \in SUBSET Request
  /\ fill \in [Order -> Booking]
  /\ audit \in Seq(Event)

Init ==
  /\ StoreInit
  /\ today = 0
  /\ token = [o \in Order |-> "none"]
  /\ call = [p \in Proc |-> Idle]
  /\ orphan = {}
  /\ fill = [o \in Order |-> NotBooked]
  /\ audit = <<>>

At(p, where) == call[p] # Idle /\ call[p].at = where
Goto(p, where) == call' = [call EXCEPT ![p] = [call[p] EXCEPT !.at = where]]
Finish(p) == call' = [call EXCEPT ![p] = Idle]
Using(o) == {p \in Proc : call[p] # Idle /\ call[p].order = o}
RequestOf(p) == [order |-> call[p].order, tool |-> call[p].tool, day |-> call[p].day]
-----------------------------------------------------------------------------
(* Tokens. *)

\* check_guardrails, as far as it reads shared state: today's counter has room.
PassesDailyCheck(o) == Fits(today, o, Increment(o))

IssueToken(o) ==
  /\ token[o] = "none"
  /\ token' = [token EXCEPT ![o] = "live"]
  /\ UNCHANGED <<spent, reserved, today, call, orphan, fill, audit>>

\* preview_order, preview_modify
Preview(o) ==
  /\ OrderSpec[o].kind = "order"
  /\ PassesDailyCheck(o)
  /\ IssueToken(o)

\* preview_conditional_order, preview_conditional_modify: the daily check takes
\* the increment with its sign, though no conditional modify ever refunds.
PreviewConditional(o) ==
  /\ OrderSpec[o].kind = "conditional"
  /\ PassesDailyCheck(o)
  /\ IssueToken(o)

\* confirmation_ttl_sec has passed: from here on consume() deletes the record
\* and raises expired-confirmation.
Expire(o) ==
  /\ token[o] = "live"
  /\ token' = [token EXCEPT ![o] = "expired"]
  /\ UNCHANGED <<spent, reserved, today, call, orphan, fill, audit>>

\* Variant with a bug: wrong-token is never raised.
AnyTool(tool, o) == tool \in Tool

RightTool(tool, o) == tool = IF OrderSpec[o].modify THEN "modify" ELSE "place"

\* place_order / modify_order up to the reservation: consume() reads the token
\* and leaves it in the store; a token of the other tool is refused.
Start(p, o, tool) ==
  /\ call[p] = Idle
  /\ token[o] = "live"
  /\ RightTool(tool, o)
  /\ SerialTokens => Using(o) = {}
  /\ call' = [call EXCEPT ![p] =
                [at |-> "checked", order |-> o, tool |-> tool, day |-> today]]
  /\ UNCHANGED <<spent, reserved, today, token, orphan, fill, audit>>
-----------------------------------------------------------------------------
(* Reservation. *)

\* From here the request is on its way to Toss; one that fails before it leaves
\* ends like one that is lost or refused.
MakeReservation(p) ==
  /\ At(p, "checked")
  /\ Reserve(today, call[p].order)
  /\ call' = [call EXCEPT ![p] = [call[p] EXCEPT !.at = "sent", !.day = today]]
  /\ UNCHANGED <<today, token, orphan, fill, audit>>

\* reserve() raises half way: the tool call ends, the token stays.
ReserveCutShort(p) ==
  /\ Durable
  /\ At(p, "checked")
  /\ call[p].order \in CutCalls
  /\ CountOnly(today, call[p].order)
  /\ Finish(p)
  /\ UNCHANGED <<today, token, orphan, fill, audit>>

\* daily-limit: the tool call ends, the token stays.
OverLimit(p) ==
  /\ At(p, "checked")
  /\ Refuses(today, call[p].order)
  /\ Finish(p)
  /\ UNCHANGED <<spent, reserved, today, token, orphan, fill, audit>>
-----------------------------------------------------------------------------
(* Toss. *)

FillAmount(r) == IF r.tool = "place" THEN OrderSpec[r.order].notional ELSE Increment(r.order)

\* Toss executes a request once per clientOrderId, whatever the number of sends.
Execute(r) ==
  fill' = IF fill[r.order] = NotBooked
            THEN [fill EXCEPT ![r.order] = [day |-> r.day, amount |-> FillAmount(r)]]
            ELSE fill

\* Nothing sent earlier for order o was executed or still can be, p's own request aside.
NothingOut(p, o) ==
  /\ fill[o] = NotBooked
  /\ \A r \in orphan : r.order # o
  /\ \A q \in Using(o) \ {p} : call[q].at # "sent"

\* http_status of the failures that are a TossInvestError; a timeout or a
\* dropped connection is an httpx error and has none.
Status == [unusable |-> 200, refused |-> 409, duplicate |-> 409, unavailable |-> 503]

\* Variant with a bug: every failure releases, a timeout or a 5xx too.
IsAnyFailure(answer) == answer # "duplicate"

\* _is_rejection in live mode ("duplicate" is the one code of _RETRY_ECHO_CODES).
IsRejection(answer) ==
  /\ answer \in DOMAIN Status
  /\ answer # "duplicate"
  /\ Status[answer] < 500

\* Where the call goes once Toss has answered or failed to: commit, release, or
\* out with the reservation kept.
Answered(p, answer) ==
  IF answer = "ok" THEN Goto(p, "filled")
  ELSE IF IsRejection(answer) THEN Goto(p, "refused")
  ELSE Finish(p)

\* Executed, or a place answered with the order an earlier request made.  A
\* modify has no clientOrderId: Toss executes it once and never echoes it.
Accepted(p) ==
  /\ At(p, "sent")
  /\ call[p].tool = "place" \/ fill[call[p].order] = NotBooked
  /\ Execute(RequestOf(p))
  /\ \/ Answered(p, "ok")
     \/ BadBodies /\ Answered(p, "unusable")
  /\ UNCHANGED <<spent, reserved, today, token, orphan, audit>>

Refused(p) ==
  /\ At(p, "sent")
  /\ RejectIsFinal => NothingOut(p, call[p].order)
  /\ Answered(p, "refused")
  /\ UNCHANGED <<spent, reserved, today, token, orphan, fill, audit>>

\* duplicate-conditional-order may be the answer to a retry of what was executed.
RefusedAsDuplicate(p) ==
  /\ At(p, "sent")
  /\ OrderSpec[call[p].order].kind = "conditional" /\ call[p].tool = "place"
  /\ Answered(p, "duplicate")
  /\ UNCHANGED <<spent, reserved, today, token, orphan, fill, audit>>

\* A 5xx, a timeout or a dropped connection: the request was executed, or was
\* not, or still is on its way.
Unclear(p) ==
  /\ At(p, "sent")
  /\ \/ Execute(RequestOf(p)) /\ UNCHANGED orphan
     \/ UNCHANGED <<fill, orphan>>
     \/ orphan' = orphan \cup {RequestOf(p)} /\ UNCHANGED fill
  /\ \E answer \in {"unavailable", "timeout"} : Answered(p, answer)
  /\ UNCHANGED <<spent, reserved, today, token, audit>>

LateExecution(r) ==
  /\ r \in orphan
  /\ Execute(r)
  /\ orphan' = orphan \ {r}
  /\ UNCHANGED <<spent, reserved, today, token, call, audit>>

LateLoss(r) ==
  /\ r \in orphan
  /\ orphan' = orphan \ {r}
  /\ UNCHANGED <<spent, reserved, today, token, call, fill, audit>>
-----------------------------------------------------------------------------
(* Settlement. *)

\* Variant with a bug: the token is used up by a failure too.
SettleAndCommit(p) ==
  /\ At(p, "refused")
  /\ Release(today, call[p].order)
  /\ token' = [token EXCEPT ![call[p].order] = "committed"]
  /\ Finish(p)
  /\ UNCHANGED <<today, orphan, fill, audit>>

\* _settle_failure: release() computes the date again.
Settle(p) ==
  /\ At(p, "refused")
  /\ Release(today, call[p].order)
  /\ Finish(p)
  /\ UNCHANGED <<today, token, orphan, fill, audit>>

\* release() raises half way.
ReleaseCutShort(p) ==
  /\ Durable
  /\ At(p, "refused")
  /\ call[p].order \in CutCalls
  /\ LoseKey(today, call[p].order)
  /\ Finish(p)
  /\ UNCHANGED <<today, token, orphan, fill, audit>>

\* Variant with a bug: a token that succeeded can be used again.
CommitKeepingToken(p) ==
  /\ At(p, "filled")
  /\ Goto(p, "committed")
  /\ UNCHANGED <<spent, reserved, today, token, orphan, fill, audit>>

Commit(p) ==
  /\ At(p, "filled")
  /\ token' = [token EXCEPT ![call[p].order] = "committed"]
  /\ Goto(p, "committed")
  /\ UNCHANGED <<spent, reserved, today, orphan, fill, audit>>

Record(p) ==
  /\ At(p, "committed")
  /\ audit' = Append(audit, [order |-> call[p].order, day |-> today,
                             amount |-> SpendDelta[call[p].order]])
  /\ Finish(p)
  /\ UNCHANGED <<spent, reserved, today, token, orphan, fill>>
-----------------------------------------------------------------------------
(* Failures and time. *)

Sent(ps) == {RequestOf(p) : p \in {q \in ps : At(q, "sent")}}

\* The process dies, or a redis call raises (state-unavailable) before or after
\* redis applied it: the call ends where it is, what it sent is still out.
Abort(p) ==
  /\ Durable
  /\ call[p] # Idle
  /\ orphan' = orphan \cup Sent({p})
  /\ Finish(p)
  /\ UNCHANGED <<spent, reserved, today, token, fill, audit>>

\* Variant with a bug: seeding overwrites what an earlier event seeded.
SeedOver(d, buckets, e) ==
  IF e.day # d THEN buckets ELSE [buckets EXCEPT ![CurrencyOf(e.order)] = Floored(e.amount)]

\* seed(): add one audited amount of day d to the bucket of its currency.
Seed(d, buckets, e) ==
  IF e.day # d THEN buckets
  ELSE [buckets EXCEPT ![CurrencyOf(e.order)] = Floored(@ + e.amount)]

\* restore_spend: the buckets of day d, rebuilt from a log.
SpendIn(log, d) == FoldLeft(LAMBDA buckets, e : Seed(d, buckets, e), [c \in Currency |-> 0], log)

\* Memory backend: the process restarts with empty stores and rebuilds today's
\* counters from the audit log (build_app_context, restore_spend).
Restart ==
  /\ ~Durable
  /\ spent' = [EmptyCounters EXCEPT ![today] = SpendIn(audit, today)]
  /\ reserved' = [d \in Day |-> {}]
  /\ token' = [o \in Order |-> IF token[o] = "live" THEN "expired" ELSE token[o]]
  /\ orphan' = orphan \cup Sent(Proc)
  /\ call' = [p \in Proc |-> Idle]
  /\ UNCHANGED <<today, fill, audit>>

NextDay ==
  /\ today < LastDay
  /\ today' = today + 1
  /\ UNCHANGED <<spent, reserved, token, call, orphan, fill, audit>>

CallStep(p) ==
  \/ MakeReservation(p)
  \/ ReserveCutShort(p)
  \/ OverLimit(p)
  \/ Accepted(p)
  \/ Refused(p)
  \/ RefusedAsDuplicate(p)
  \/ Unclear(p)
  \/ Settle(p)
  \/ ReleaseCutShort(p)
  \/ Commit(p)
  \/ Record(p)
  \/ Abort(p)

Next ==
  \/ \E o \in Order : Preview(o) \/ PreviewConditional(o) \/ Expire(o)
  \/ \E p \in Proc, o \in Order, tool \in Tool : Start(p, o, tool)
  \/ \E p \in Proc : CallStep(p)
  \/ \E r \in Request : LateExecution(r) \/ LateLoss(r)
  \/ Restart
  \/ NextDay

Spec == Init /\ [][Next]_vars
-----------------------------------------------------------------------------
(* Properties. *)

\* The orders that raise the exposure of day d in currency c, and by how much.
Raises(d, c) == {o \in Order : fill[o].day = d /\ fill[o].amount > 0 /\ CurrencyOf(o) = c}
Charged == [o \in Order |-> fill[o].amount]
Exposure(d, c) == Total(Raises(d, c), Charged)

\* daily_order_limit limits what Toss executes: the orders charged to a day stay
\* within the cap of their currency, whatever is retried, refused, released or
\* cut short.  No downsize widens the cap here: a modify of the model is of an
\* order made elsewhere, and the downsize of an order the server never counted
\* must not bank credit under the cap (stores.py 49).
CapHolds == \A d \in Day, c \in Currency : Exposure(d, c) <= Cap[c]

\* Whatever Toss answers, executed orders pass the cap only by those whose
\* reservation is gone, given back though they executed or forgotten by a restart
\* of the memory backend: the counter, its floor and the keys of the other days
\* never let in one order too many (stores.py 42-60).
OverrunIsReleased ==
  \A d \in Day, c \in Currency :
    Total({o \in Raises(d, c) : o \in reserved[d]}, Charged) <= Cap[c]

\* Whatever Toss executed, or may still execute, holds a standing reservation
\* on the day it is charged to (tools.py _settle_failure gives a reservation
\* back only when the order certainly did not execute).
ChargesStand ==
  /\ \A o \in Order : fill[o] # NotBooked => o \in reserved[fill[o].day]
  /\ \A r \in orphan : r.order \in reserved[r.day]
  /\ \A p \in Proc : At(p, "sent") => call[p].order \in reserved[call[p].day]

\* A reservation is given back only for an order that was not executed, which is
\* what tools.py 144-145 says of _is_rejection.
ReleaseIsCertain ==
  [][\A d \in Day, o \in Order : o \in reserved[d] \ reserved'[d] => fill[o] = NotBooked]_vars

\* An order whose tool call succeeded was executed, and its amount is counted
\* on some day, whatever Toss answered to earlier attempts with its token.
SuccessIsCounted ==
  \A i \in DOMAIN audit :
    /\ fill[audit[i].order] # NotBooked
    /\ \E d \in Day : audit[i].order \in reserved[d]

\* A token leaves the store for good only when its order was executed: after
\* any failure the caller can retry under the same clientOrderId.
CommittedIsExecuted ==
  \A o \in Order : token[o] = "committed" => fill[o] # NotBooked

\* Memory backend: today's counter covers the orders charged to today whose
\* tool call finished, across any number of restarts (restore_spend).
Finished(o) == \E i \in DOMAIN audit : audit[i].order = o
FinishedIsCountedToday ==
  \A c \in Currency :
    Total({o \in Order : fill[o].day = today /\ CurrencyOf(o) = c /\ Finished(o)}, SpendDelta)
      <= spent[today][c]
=============================================================================
