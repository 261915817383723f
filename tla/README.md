# Verification of the order path of tossinvest

This directory holds TLA+ models of the parts of `pytossinvest` (the Python SDK
for the Toss Securities open API) and `pytossinvest-mcp` (an MCP server that lets
a language model trade through it) in which state, failure and order of events
matter, TLC runs that check them on small instances, and TLAPS proofs about them.

Paths below are short for `src/pytossinvest-mcp/src/pytossinvest_mcp/` (the
server) and `src/pytossinvest/src/pytossinvest/` (the SDK). `PROJECT.json` names
the lines every definition stands for.

## 1. The system

| Component | State it keeps | Operations | Where it is hard | What makes it correct |
|---|---|---|---|---|
| Write path (`tools.py`, `safety.py`) | confirmation tokens, daily spend counters and reservations (in a state backend), audit events | `preview_order`, `place_order`, `preview_modify`, `modify_order`, and the same for conditional orders | a tool call is a chain of store calls and one HTTP call; a failure may or may not have executed the order; retries reuse the token; several server processes share redis; the KST date changes during a call | executed orders stay within `daily_order_limit`; a reservation is only returned for an order that was not executed; a success is executed, counted and audited; a failure leaves the token usable |
| Confirmation tokens and guardrails (`safety.py`, `redis_stores.py` `RedisTokenStore`, `config.py`) | the token records, one redis for instances of several modes, settings and builds | `put`, `get`, `delete`, expiry and minimum delay in `consume`, `check_symbol`, `check_guardrails` | tokens wander between instances with other settings, clocks and code; Toss forgets a `clientOrderId` after ten minutes | one execution per preview; a submission is as previewed, in time, allowed by the instance's mode and within its own guardrails |
| Conditional orders (`conditional.py`) | none of its own | validation, group notional, preview, execute, cancel of SINGLE/OCO/OTO orders | one-sided deltas, `duplicate-conditional-order` answers, what a group can cost | as the write path; the notional is what the group can be charged |
| Market hours gate (`market_hours.py`) | none | `is_market_open` | US sessions wrap past midnight KST | equal to a reference definition |
| Memory spend store (`stores.py`) | counter per day and currency, reserved `clientOrderId`s per day | `reserve`, `release`, `seed`, `current` | signed amounts (a downsize is negative) under a floor at 0 and a cap | the counter covers what is reserved and stays within the cap; a downsize of an order never counted banks nothing |
| Redis stores (`redis_stores.py`) | the same under redis keys, a lock per day with a lease | the same as GET/SET/SADD/SREM sequences | interleavings, crash between two writes, lease expiry, waiting clients | each call is one call of the memory store; a crash only tightens the cap; every call ends |
| Paper broker (`paper.py`) | one book: cash and realized profit per currency, positions, fills | `place` (load, change, save under a lock) | lost updates, duplicate `clientOrderId`, a fill whose answer is lost, currency of a position | each order is filled once, no fill is lost, money is conserved per currency |
| SDK request pipeline (`client.py` `_request`, `auth.py`) | cached token, account number | a call with account lookup, reissue on 401, retry on 429 | one live token per credential pair at Toss, nested lookup, two kinds of repeats in one call, 200s that cannot be used | at most one execution, outcomes that tell the truth, bounded sends, every call ends |
| Rate limiter (`ratelimit.py`, `client.py` `_gate`) | token bucket per API group | gate, refill, header sync, peak halving | time, two buckets that drift apart, headers that change the rate, rounding of sleeps | no 429 without a cause, no spinning, no call stuck at the gate |
| Audit log (`audit.py`), server assembly (`server.py`) | append-only events | `record`, `today_spend`, `build_app_context`, tools registered per mode | a restart rebuilds the counters of the memory backend from the events | the counters cover what finished today |
| Cancel tools, read tools, market data | none | pass-through calls | which mode may ask Toss for what | the mode table of the documentation |
| HTTP transport (`http.py`), stream (`stream.py`), models | a websocket connection in `stream.py` | bearer check, subscriptions, parsing | – | – |

The parts interact by calls: a tool calls `SafetyManager` (`consume`, `reserve`,
`release`, `commit`), which calls the token store and the spend store; between
them it calls `PaperBroker` or the SDK client, whose every request passes the
rate limiter and the token manager. Processes interact only through redis and
through Toss.

## 2. The modules

```
Amounts ── Orders ─┬─ SpendStore ─┬─ OrderFlow    the write path, live mode
                   │              └─ PaperFlow    place_order in paper mode; implements PaperBook
                   ├─ PaperBook                   the book, one atomic fill at a time (abstract)
                   └─ RedisSpendStore             reserve/release in redis commands; implements SpendStore
Requests ── Confirmation                          several instances on one redis: tokens, clocks, settings
TossRequest                                       one SDK call, tokens and repeats
RateLimit                                         the gate of one API group, and Toss's bucket
```

* **Amounts** defines the sum of signed integers over a finite set by counting
  units, without recursion, so that proofs can use it. The program's `Decimal`s
  are whole units here: every operation of the modelled code on them (`+`, `-`,
  `max(0, ·)`, `<=`) is closed over whole units. `Ceiling` bounds one amount of `Total`;
  the costs of positions, which only grow up and have no bound, use `ColumnSum`.
* **Orders** is `OrderSpec` with the deltas derived from it: the increment the
  preview checks, and `spend_delta`, which never refunds for a conditional modify.
  One element of `Order` stands for a preview: its spec, its `clientOrderId` and
  its confirmation token.
* **SpendStore** is `MemorySpendStore.reserve/release`, called as `SafetyManager`
  calls it. A state is `spent` (day → currency → amount) and `reserved` (day →
  keys). `CountOnly` and `LoseKey` are what a reserve and
  a release leave that are cut between their two writes.
* **OrderFlow** composes it with tokens, tool calls, Toss and the audit log.
  `call[p]` is where process `p` is in `place_order`/`modify_order`: `checked`
  (consume has read the token), `sent` (reserved, request on its way), `refused`
  or `filled` (answer classified by `_is_rejection`), `committed` (token deleted,
  event not yet written). Another process, a crash or midnight can come between
  any two of them, and a reserve or release can be cut in half (`ReserveCutShort`, `ReleaseCutShort`). Toss executes a request at most once, now, later (`orphan`), or
  never, and the answer may be lost. A place is answered again by its
  `clientOrderId`; a modify has none and is never echoed. `fill` is a history
  variable: what was executed and the day it is charged to. `Durable` selects the
  redis backend (a crash ends a call, state stays) or the memory backend (`Restart`
  empties the stores and seeds the counters from the audit events).
  Every modify of the model is of an order made elsewhere (in the app, or on an earlier
  day), since an order here is previewed and executed once. So its downsize is one of an
  order the server never counted, and `CapHolds` compares what Toss executes with the cap
  itself: no downsize widens it. What the documentation grants to the downsize of an
  order counted on the same day (`pytossinvest-mcp.md:73`) is not modelled.
* **RedisSpendStore** has one action per redis command of `reserve`/`release` and
  the lock as a lease. `IsAtomic` says it implements SpendStore with
  `spent <- counter` and `reserved <- KeysInEffect`: a call takes effect at its
  SET, so a key whose SADD (reserve) is still to come already counts, and one whose
  SREM is done counts until its SET (release). A failure may lose the key of its order and
  leave the counter (`LoseKey`): the one step beside the store's own that `IsAtomic` admits.
* **PaperBook/PaperFlow** do the same for the paper broker: PaperFlow interleaves
  lock, load, save and unlock of several processes inside `place_order`;
  `FillsAreAtomic` says the stored book changes as PaperBook says. A position keeps
  its cost in place of `avg_price` (the weighted average is cost over quantity).
* **Requests** is the pure part of a preview: which orders and groups are valid,
  what they count, whether a session is open. Each is next to its reference:
  what Toss can charge (`Charged`, `Firings`), and a session as a start and a length (`Covers`).
* **Confirmation** puts several instances (live, paper, read_only, one without
  `allow_live`, one of a build that does not know conditional orders) on one redis,
  each with its clock and settings. It has the tools each mode offers, the previews
  with validation, guardrails and hours gate, `consume` with its expiry and minimum
  delay, the second check of the guardrails, the way to Toss or to the paper broker, and the cancels and reads.
  `sent` records what a step asked of Toss, `made` what Toss executed. It leaves out
  the daily counters, OrderFlow leaves out the clocks; both keep the token.
* **TossRequest** follows `_request` through lookup, token, send, reissue and
  backoff for several clients with the same credentials. Toss keeps one live token
  and any send may execute.
* **RateLimit** puts the client's bucket next to the one Toss keeps. Time is in
  ticks, a token is `One` units, so fractions are whole numbers; only the time
  since the last refill is kept.

`MC*` modules hold the values of the constants for TLC, `*_proofs` modules the
theorems. A definition preceded by "Variant with a bug" is a mutant: a plausible
bug, used only to show that a property notices it.

## 3. Environment assumptions

The models make explicit what the code takes for granted. Each is a constant or a
named assumption, so that a run can drop it:

| Name | Meaning | Justified? |
|---|---|---|
| `RejectIsFinal` | a 4xx reaches a call only if no request for its token was executed or can be | This is the code's own premise ("only a Toss 4xx is certain", `tools.py:144-145`), and stronger than what Toss is known to keep. For the first send it is how 4xx works. For a retry after a timeout it relies on Toss echoing the earlier order by its `clientOrderId`, but `tools.py:151` takes every status below 500, and some come without Toss having looked at the id: a 401, a 429 after all repeats, an error of the token request (`auth.py:50-55`), and any refusal of a modify, which has no id (a documented limit, `pytossinvest-mcp.md:82`). Without it TLC finds `CapHolds` violated: place times out but executes, the retry is refused, the reservation goes. So `hostile_toss` drops it, and `OverrunIsReleased` states what the cap is then worth |
| `BadBodies` | a request may be executed and answered by a 200 the SDK cannot use | Possible; see finding 1 |
| `SerialTokens` | no token is used by two calls at once | Natural for one conversation, not enforced; see finding 2 |
| `LeaseHolds` | a client finishes inside its 5 s lease | Not checked by the code before its SET; without it TLC finds a lost update (`CounterCovers`) |
| `CutCalls` | the orders whose reserve or release may be cut between its two writes | Any order's may. A downsize that is cut keeps its credit and is credited again by its retry, so `order_flow` cuts the calls of the other three orders; the proofs take any, and speak of currencies without downsizes |
| `Failures` | commands can raise, processes can die | on in `redis` and `paper` |
| `ModifiesStayLive` | no modify token is used on a paper instance | Not enforced; see finding 4 |
| `SkewAssumption` | the hosts' clocks differ by at most `MaxSkew` | What NTP gives; the code compares wall clocks of two hosts |
| `RetryWindowAssumption` | `ttl + MaxSkew + MaxCall < Window`: a token expires before Toss forgets its `clientOrderId` | Holds for the default (120 s against ten minutes, `tossinvest-open-api.md:231`); nothing in `config.py` bounds `confirmation_ttl_sec` |
| `RateLimitAssumption` | Toss offers at least the built-in rates and at least one token of capacity | The first is documented; a capacity below one token would close the gate for good |

## 4. The runs

| Run | Instance | Checks |
|---|---|---|
| `order_flow` | OrderFlow on redis, 2 processes, 2 days; in won a conditional order and an upsize that each fill the cap of 2, in dollars the downsize by 1 of an order made elsewhere and an order of 3 | `TypeOK`, `CapHolds`, `ChargesStand` with the contract kept, under crashes, store calls cut in half, late and lost requests, retries and midnight; the downsize meets a counter at 0 and, floored, banks nothing for the order of 3 |
| `hostile_toss` | 2 orders, 2 processes, 2 days, contract dropped | `SuccessIsCounted`, `CommittedIsExecuted`, `CounterIsExact`, `OverrunIsReleased`: what still holds whatever Toss answers |
| `memory_restart` | memory backend, an order and an upsize, one process, 2 days | `FinishedIsCountedToday` over any number of restarts |
| `redis` | 3 clients, 3 orders in 2 currencies, failures anywhere | `IsAtomic`, `CounterCovers`, `CounterWithinCap`, `EveryCallEnds` |
| `paper` | 2 processes, redis failures, shared tokens; two buys in dollars and a sale whose spec says won | `SuccessStays`, `MoneyIsConserved`, `FillsAreAtomic` |
| `toss_request` | 2 clients, one credential pair, `max_retries` 1 | `OutcomeIsTrue`, `SendsAreBounded`, `TokenFailureNeedsRival`, `EveryCallEnds` |
| `rate_limit` | one group with peak halving, the settings Toss may choose | `TypeOK`, `RefusalNeedsDrift`, `OneSleepIsEnough`, `EveryCallPasses` |
| `deployment` | Confirmation: five instances, one preview made with any of eight arguments, tokens retried, handed over, expired | `ExecutedOnce`, `AsPreviewed`, `ModeTable`, `GuardrailsHold`, `ConfirmedInTime`, `OpenWhenPreviewed`, `NotionalIsExposure` |
| `unusable_answer`, `shared_token`, `uncounted_downsize`, `paper_modify` | expected violations | the findings below |

Every property of a passing run has a mutant in `PROJECT.json`, a bug in the code that breaks it.
OrderFlow, PaperFlow and Confirmation really stop (each token is used up, days and the
horizon end), so their runs do not check deadlock; the other runs do.

**Findings.**

1. `unusable_answer`: a 200 without usable body carries `http_status` 200, and
   `_is_rejection` takes everything below 500 for a certain rejection, so the
   reservation of an executed order is released (`tools.py:151`).
2. `shared_token`: two instances that use one token share one dedup key. When the
   first is refused but has not settled, the second reserves without counting and
   is executed; the first then releases what the second stands on. This needs
   neither crash nor misbehaving Toss, and the design says two instances placing at
   the same time cannot pass the cap.
3. `uncounted_downsize`: the comment on the floor says a downsize of an order never
   counted must not bank credit under the cap (`stores.py:49`, and `pytossinvest-mcp.md:196`
   says so of the redis store). The floor keeps it from that only while the counter is at 0. Above
   it, `max(0, current + delta)` takes the downsize out of what other orders have spent: after an
   order of 2 under a cap of 2 the downsize by 1 of an order made in the app lets in
   another order of 1, and 3 are executed. The credit counts from the reservation
   on, so the downsize need not have been executed, or may be refused later.
4. `paper_modify`: the documentation sends the orders of a paper instance to the
   `PaperBroker` (`pytossinvest-mcp.md:38`) and calls `modify_order` live only (`:164`).
   `preview_modify` and the conditional executions check the mode
   (`conditional.py:201`, `:210`), `modify_order` does not (`tools.py:351`): with a
   token that a live instance on the same redis issued, a paper instance modifies the order at Toss.

One more disagreement has no run of its own: a crash between SET and SADD of a downsize
(`redis_stores.py:111-112`) keeps the credit without its key, so the retry credits it again,
where the design (`2026-06-18-self-host-remote-mcp-design.md:121`) says a crash leaks
only in the direction that tightens the cap. `CounterCovers` is violated by a `redis`
instance with a downsize and `Failures` on.

**Bounds, and why they are enough.** Days `0 .. LastDay`: `order_flow`, `hostile_toss` and
`memory_restart` have two, since a call compares a day only with the day
its reservation was made on. Two processes show every pairwise race; the
third client of `redis` waits for the lock while one dies with it. Orders: a race for the
cap needs one that fits and one that then does not, a third to be charged
after a wrongful release, and a downsize an order that only fits if it banked something; currencies
share nothing but the days and the processes, so two orders in each show both. Caps
leave room for exactly the cases
named in the MC modules (fits alone, fits together, does not fit). `Ceiling` is at least the
largest amount used. `MaxRetries = 1` gives one 429 retry on top of the reissue; the
counters `sends` and `executed` are histories that stop one above what they
should reach. In RateLimit a request is on its way for at most `MaxDelay` ticks, and
after `MaxAge` ticks any bucket is full, so older refills are the same state.
PaperFlow has one day (midnight is OrderFlow's matter) and even prices so that the cost
of half a position is a whole number. In `deployment` one preview is enough, since previews
share nothing there but the instances. A day has 4 ticks, the dollar session wraps past
its end, the ttl is 2 ticks, the delay 2 (1 on the older build, whose clock is ahead), skew and call length 1, Toss remembers an id
for 5 (the least `RetryWindowAssumption` allows), and `Horizon = 6` lies beyond the
end of that window. Process symmetry is used in safety runs only.

**Fairness.** `LiveSpec` assumes weak fairness of one call's own steps (a Python
call goes on; httpx and redis have timeouts, `sleep` returns), of lease expiry
(redis counts down whatever clients do), of time and of the arrival of a request.
No fairness is assumed of Toss choosing a good answer, of a lock becoming free to a
particular client, or of crashes. `EveryCallEnds` of the redis store rests on
`blocking_timeout` (`GiveUp`): a waiting client may lose every race for the lock but still ends.

## 5. The proofs

| Module | Theorem | Assuming |
|---|---|---|
| `OrderFlow_proofs` | `TypeCorrect` | nothing: either backend, whatever Toss does |
| | `AlwaysCovered`, `CounterIsAccounted` | nothing: either backend, whatever Toss does, calls cut in half; the second speaks of the currencies without downsizes |
| | `OverrunIsAlwaysReleased` | no downsizes (`NoCredit`); either backend, whatever Toss does |
| | `CounterNeverDrifts` (`CounterIsExact`) | redis, `NoCredit`, no store call cut in half |
| | `CommittedIsAlwaysExecuted` | `SerialTokens`; either backend, whatever Toss does |
| | `SuccessIsAlwaysCounted` | redis and `SerialTokens`, whatever Toss does |
| | `FinishedIsAlwaysCountedToday` | `SerialTokens` and no downsizes; either backend, whatever Toss does |
| | `SpendInCovers` (`restore_spend`) | no downsizes; a log of any length |
| | `Invariance`, `ChargesAlwaysStand` | `Contract`, downsizes and cut calls included |
| | `CapHoldsPerBucket` | `Contract`; the cap of every currency that has no downsizes, whatever downsizes the others have |
| | `CapAlwaysHolds` | `Contract` and `NoCredit` |
| `RedisSpendStore_proofs` | `TypeCorrect` | nothing: leases may expire, clients die |
| | `LockIsExclusive`, `ImplementsStore` | `LeaseHolds`, failures and downsizes included |
| | `CounterIsSafe` (`CounterCovers`) | `LeaseHolds`, and no downsizes if anything fails |
| | `CapNeedsNoLock` (`CounterWithinCap`) | no downsizes; leases may expire under a call |
| `PaperFlow_proofs` | `Invariance`, `FillsAreAlwaysAtomic`, `SuccessAlwaysStays` | `LeaseHolds`, failures and shared tokens included |
| | `MoneyIsAlwaysConserved` | `LeaseHolds` and `OneCurrency`: the buys of a symbol agree on their currency |
| `Confirmation_proofs` | `TypeCorrect`, `Invariance`, `AtMostOnce`, `GuardrailsAlwaysHold`, `AlwaysConfirmedInTime` | the named assumptions of the module (`AtMostOnce` needs `RetryWindowAssumption`) |
| | `AlwaysAsPreviewed`, `NotionalIsAlwaysExposure`, `AlwaysOpenWhenPreviewed` | that arguments are of their types, that sessions lie in a day |
| | `ModeTableHolds` | `ModifiesStayLive` |
| `TossRequest_proofs` | `Invariance`, `OutcomeIsAlwaysTrue`, `SendsAreAlwaysBounded`, `TokenFailureAlwaysNeedsRival` | nothing but the type of `MaxRetries` |
| `RateLimit_proofs` | `Invariance`, `TypeCorrect`, `RefusalAlwaysNeedsDrift`, `OneSleepIsAlwaysEnough` | `RateLimitAssumption` |

All hold for every number of processes, instances, orders, previews, currencies and
days, and all amounts, prices, rates and delays. `SpendStore_proofs` and
`Amounts_proofs` hold lemmas only: what a sum does when an element joins, leaves or changes
in a set, and what reserve and release do to the counter. The provers cannot
instantiate the library's induction rules, which take a predicate; `NatSetInduction` and
`LeastNumber` state induction with a set in its place, from the well-foundedness of `<`, so
facts about a fold over a log of any length can be proved.

**OrderFlow.** `Contract` is `Durable /\ RejectIsFinal /\ ~BadBodies /\ SerialTokens`.
The counter alone does not imply the cap: it says what is reserved, the cap is about what
is executed. Three invariants join them.

* `CoveredInv`: a request carries the tool its token is for (`RightTools`), so what is executed is
  at most what was reserved (`FillsAreCovered`); a modify token used with `place_order`
  would execute the whole notional against a reserved increment. It needs nothing of
  Toss or of the caller (`AlwaysCovered`).
* `Accounted` ties reservations to the counter: in a currency without downsizes what is
  reserved on a day is at most that day's counter and at most the cap. That the counter is at most the cap
  is not enough, because a release cut in half leaves the counter too high and a restart sets it anew; and the
  sum alone is not inductive, because a reserve compares the counter with the cap, not the sum. A
  call cut in half moves the counter up under the cap or takes a reservation from the sum
  (`CallAccounted`); a restart leaves nothing reserved. It needs nothing of Toss either.
* `IInv` ties executions to reservations, under the contract. `ChargesStand`: whatever was
  executed, is orphaned or is on its way has a reservation on its day. `OneUse` and
  `RefusedIsUnfilled`: a token is in one call, and one that is refused has nothing
  executed or out, so `Settle` returns nothing an execution stands on.

The first two give `OverrunIsAlwaysReleased`: the executed orders of a day that are still reserved
are a subset of the reserved ones, each at most its reservation (`HeldIsWithin`, by `TotalMonotone`).
With the third, all executed orders are reserved, which is `CapHoldsPerBucket`: under the contract the cap of a
currency can only be passed with the help of a downsize in that very currency, and
finding 3 shows that a downsize does so.
`CommittedIsAlwaysExecuted` and `SuccessIsAlwaysCounted` need less of the environment and
have an invariant of their own, `SInv`: a call that was sent stands on a reservation, one that
may commit was executed, and no call but the committing one still uses a committed token,
so that nobody can release it. A restart of the memory backend keeps it, because it ends
every call (`RestartSuccess`).

`FinishedIsAlwaysCountedToday` is about what `restore_spend` rebuilds. Its invariant `DInv` does not
say how the counter came about, only that today's counter covers `DueToday`: the orders
reserved today and the finished ones charged to today, whose reservations a restart forgot.
A restart keeps this because the counter is then a fold over the audit log that covers the
orders logged for today, each once (`SpendInCovers`, by induction over the log), and a
finished order charged to today has an event of today: events are not older than the execution they
report (`EventsAreTrue`), and no execution bears a later date (`DaysPassed`). A call that is
still to log its event has its order reserved on the day of the call (`HeldOnItsDay`), and no call
works on a finished order (`FinishedIsOver`), so no settlement takes a finished order's count back.
Without downsizes only: one in flight has lowered the counter before it is finished, and one
reserved before midnight and logged after it is seeded into a
day whose counter never had the amount it lowers, so a restored counter can be too low by it.

**RedisSpendStore.** `LockInv`: the types; a client inside the lock of a
day is its owner (`Locked`), so it is alone there; and what it knows still holds
(`Agrees`): the key is where its SISMEMBER found it, and the counter it is about to
write is the one it has read. Without the last part the invariant is not
inductive, because the SET writes a value computed from an earlier GET. `StepEffect` then shows that only
the SET changes what counts: it is one whole call of `SpendStore`; every other
command leaves `counter` and `KeysInEffect` as they are, and a failure takes at
most the key of its own order out of effect (`FailEffect`). That leaves the counter too high (`FailureCovers`) unless the key
carried a negative delta. OrderFlow's steps on the store are
those of SpendStore (`StepIsStoreCall`), with a reserve cut in half as one step: nobody sees the day
before its lock is free again, so a reserve that fails after its SET (Reserve, then LoseKey) is `CountOnly`.
`ImplementsStore` justifies taking the calls as atomic there.
`CapNeedsNoLock` needs none of it: whatever client overwrites whatever other, a SET of a reserve writes
what passed `Fits` and a SET of a release writes no more than the counter it has read, which was
under the cap at the time (`WritesWithinCap`), so a lost lock costs coverage
(`CounterCovers`), never the bound on the counter itself.

**PaperFlow.** The same argument for a whole book: who is inside the lock holds it, the book
a process has loaded is the stored one (`LockInv`), and an order that was saved stays in the
stored book (`SavedStays`). So each `Save` is one `PaperBook!Fill` of the stored book
(`SaveFills`); `FilledType` says a covered fill keeps the book a book and adds its order.
`MoneyIsAlwaysConserved` follows the book through its fills. `ConservedIn` alone is not inductive:
a sale splits the cost of its position by an integer division, which stays within the cost only if a position
never costs less than nothing, and a buy adds to a position of its own currency only if that
is the currency the position took from an earlier buy. So `MInv` adds that each position is `Sound`
(no quantity, no cost; in the currency of a buy of its symbol), and `BalanceMoves` says that one position
that changes and the cash that pays for it leave every currency balanced (`SumChange`, `ShareWithin`).
`OneCurrency` is the design's own assumption ("assumed stable per symbol",
`2026-06-24-paper-currency-aware-design.md:55`); `PaperBroker.place` does not check it, and without it
money moves between currencies.

**Confirmation.** `AtMostOnce` is about deadlines: a token is fresh only until
`Deadline(v)`, its true time of issue plus ttl plus skew. A call starts before it (`CallLaw`), a
request on the wire is gone `MaxCall` after it (`WireLaw`), and an execution lies after the
issue (`MadeLaw`); by `RetryWindowAssumption` Toss still knows the `clientOrderId` then, so no
request is new twice (`NewOnlyOnce`). `CallLaw` also keeps what `consume` and the second
`check_guardrails` established until the call submits (`MayUse`), and `TokenLaw` what the preview
checked, which gives the guardrails, the delay, the mode table and the hours. `NotionalIsAlwaysExposure` is arithmetic on
`GroupNotional` and `Firings`, `AlwaysOpenWhenPreviewed` that `IsOpen` and `Covers` agree within a day, in both directions (`OpenIsCovered`, `CoveredIsOpen`).

**TossRequest.** While a call runs, nothing it sent was executed and its sends are its attempts
plus its reissue (`NothingYet`): only a 401 or a 429 leads to another send, and neither
was executed. `JustIssued` says that after a reissue the call has the live token or was
overtaken since, so a second 401 has a rival.

**RateLimit.** `Behind`: as long as there was no drift, what the client's bucket holds,
its refills up to now included, is at most what Toss's holds, minus the token already on its
way, and its capacity and rate are at most Toss's. Since time credits both buckets
alike, the inequality survives every tick (`KeepsUp`). `SleepCovers` says that the sleep
computed when tokens were short refills one whole token at the rate then in force. The sleep is rounded up to
a whole tick, because only ticks pass in the model; `time_until_available` divides floats and rounds nothing.

**Only model-checked**: liveness (`EveryCallEnds`, `EveryCallPasses`), which is out of the
prover's reach, as is ENABLED. Every safety property of a passing run is also a theorem.

## 6. Not modelled

* Paper mode: amount-based market orders (a fraction of a share) and the serialization of the book.
* The two-day TTL of redis keys (keys roll by day) and the one-day TTL of token keys (far above `confirmation_ttl_sec`).
* The audit log's other events, its redis stream's trimming and damaged lines.
* Parsing: dates and shapes of conditional requests, the wire models, settings from the environment, times of the calendar. What the calendar's "today" is after midnight KST is Toss's.
* `http.py` (no state, a constant-time comparison), `stream.py` (one connection over a library, nothing shared with the write path), the benchmark probes.

## 7. What is left

`CounterCovers` is proved without downsizes or without failures; with both, the crash
between SET and SADD stands in the way. Downsizes of orders that were counted on the same day, which the
documentation lets give budget back, are not modelled, as the specs of the model do not name the order they
modify. A
memory backend with orders in flight at a restart loses their reservations, which the documentation accepts
(`pytossinvest-mcp.md:84`); no property is stated there.
