---------------------------- MODULE Confirmation ----------------------------
(***************************************************************************)
(* Several server instances over one redis, seen by their clocks and their *)
(* settings: which tools an instance offers (server.py), what a preview    *)
(* checks and stores, who may use its confirmation token and for how long  *)
(* (SafetyManager.consume, RedisTokenStore), and where a call then goes:   *)
(* to the account at Toss or to the paper broker (tools.py,                *)
(* conditional.py).  The daily counters are OrderFlow's matter.            *)
(*                                                                         *)
(* Toss remembers a clientOrderId for Window ticks; afterwards the same id *)
(* is a new order.  A modify has none, but is executed once: the order     *)
(* gets a new id.  A call, and what it has sent, is over MaxCall ticks     *)
(* after its consume().                                                    *)
(*                                                                         *)
(*   ModifiesStayLive  no modify token is used on a paper instance         *)
(***************************************************************************)
EXTENDS Requests

CONSTANTS
  Instance,
  Setting,   \* [Instance -> SettingType]
  Skew,      \* [Instance -> Int], how far its wall clock is ahead
  Preview,   \* one preview: its spec, its clientOrderId and its token
  Argument,  \* what preview tools are called with: the kind of order and its data
  Last,      \* per symbol the last price, None if the price call fails
  AppOrder,  \* symbols of the orders that can be cancelled, made in the app too
  Symbol, Canon,            \* the symbols, and _canon_symbol
  Currency, Market,         \* per currency the regular session of the day
  HighValue, HardCeiling,   \* per currency
  Window, MaxCall, MaxSkew, ModifiesStayLive,
  DayLength, Horizon        \* ticks of a day; bound: the last tick

SettingType ==
  [mode : {"read_only", "paper", "live"}, allowLive : BOOLEAN, enforceHours : BOOLEAN,
   knowsConditional : BOOLEAN,   \* FALSE for a build from before conditional orders
   ttl : Nat, delay : Nat, cap : [Currency -> Nat],
   deny : SUBSET Symbol, allow : SUBSET Symbol]

ASSUME ConfirmationAssumption ==
  /\ Setting \in [Instance -> SettingType]
  /\ {Window, MaxCall, MaxSkew, Horizon} \subseteq Nat
  /\ DayLength \in Nat \ {0}
  /\ ModifiesStayLive \in BOOLEAN

ASSUME SkewAssumption ==
  /\ Skew \in [Instance -> Int]
  /\ \A i, j \in Instance : Skew[i] - Skew[j] <= MaxSkew

\* confirmation_ttl_sec is short enough for the retries of a token to stay
\* within the time that Toss remembers its clientOrderId.
ASSUME RetryWindowAssumption ==
  \A i \in Instance : Setting[i].ttl + MaxSkew + MaxCall < Window

VARIABLES
  now,     \* true time
  token,   \* per preview, its record in the token store
  call,    \* per instance, the place_order or modify_order call it runs
  wire,    \* requests that may still reach Toss though no call waits for them
  made,    \* per preview, how often Toss executed it and when it last did
  sent     \* what this step asked of Toss

vars == <<now, token, call, wire, made, sent>>

Submission == {"order", "modify", "conditional", "conditional modify"}
Access == {"market", "account", "cancel"} \cup Submission
Unused == [key |-> "none"]
\* by and issued are the issuer and its clock
Record == [key : {"tok:", "ctok:", "gone"}, args : Argument, by : Instance, issued : Int]
Idle == [at |-> "idle"]
Call == [at : {"checked", "done"}, preview : Preview, started : Nat]
Request == [preview : Preview, until : Nat]
Nothing == [what |-> {}]

TypeOK ==
  /\ now \in 0 .. Horizon
  /\ token \in [Preview -> Record \cup {Unused}]
  /\ call \in [Instance -> Call \cup {Idle}]
  /\ wire \subseteq Request
  /\ made \in [Preview -> [count : Nat, last : Nat]]
  /\ sent # Nothing => sent.from \in Instance /\ sent.what \subseteq Access

Init ==
  /\ now = 0
  /\ token = [v \in Preview |-> Unused]
  /\ call = [i \in Instance |-> Idle]
  /\ wire = {}
  /\ made = [v \in Preview |-> [count |-> 0, last |-> 0]]
  /\ sent = Nothing

Clock(i) == now + Skew[i]
UsePaper(i) == Setting[i].mode = "paper"
IsLive(i) == Setting[i].mode = "live"
At(i, where) == call[i] # Idle /\ call[i].at = where
Asks(i, what) == sent' = [from |-> i, what |-> what]
-----------------------------------------------------------------------------
(* The tools. *)

MarketReads ==
  {"get_quote", "get_candles", "get_stock_info", "get_market_info", "get_stock_trends",
   "get_rankings", "get_market_indicators", "get_indicator_history"}
AccountReads ==
  {"get_accounts", "get_holdings", "get_buying_power", "list_orders", "get_order",
   "list_conditional_orders", "get_conditional_order"}
WriteTools ==
  {"get_order_readiness", "preview_order", "place_order", "preview_modify", "modify_order",
   "cancel_order", "preview_conditional_order", "preview_conditional_modify",
   "cancel_conditional_order"}

\* mode 'live' without allow_live does not start.
Starts(i) == IsLive(i) => Setting[i].allowLive

Offers(i, tool) ==
  /\ Starts(i)
  /\ \/ tool \in MarketReads \cup AccountReads
     \/ tool \in WriteTools /\ Setting[i].mode # "read_only"

\* Market data always comes from Toss.
ReadMarket(i) ==
  /\ Offers(i, "get_quote")
  /\ Asks(i, {"market"})
  /\ UNCHANGED <<now, token, call, wire, made>>

\* In paper mode the paper broker answers; get_order_readiness reads the same way.
ReadAccount(i) ==
  /\ Offers(i, "get_holdings")
  /\ IF UsePaper(i) THEN sent' = Nothing ELSE Asks(i, {"account"})
  /\ UNCHANGED <<now, token, call, wire, made>>
-----------------------------------------------------------------------------
(* Previews. *)

IsConditional(a) == a.kind = "conditional"

\* The price a MARKET order is estimated with; a modify is given none.
Reference(a) == IF a.modify THEN None ELSE Last[a.symbol]

Notional(a) ==
  IF IsConditional(a) THEN GroupNotional(a.group) ELSE OrderNotional(a.order, Reference(a))

Valid(a) ==
  IF IsConditional(a) THEN ValidGroup(a.group) ELSE ValidOrder(a.order, Reference(a))

\* check_symbol
AdmitsSymbol(i, symbol) ==
  LET Listed(symbols) == Canon[symbol] \in {Canon[s] : s \in symbols} IN
  /\ ~Listed(Setting[i].deny)
  /\ Setting[i].allow # {} => Listed(Setting[i].allow)

\* check_guardrails without the daily counter and the hours
Admits(i, a) ==
  /\ AdmitsSymbol(i, a.symbol)
  /\ Notional(a) <= HardCeiling[a.currency]
  /\ Notional(a) >= HighValue[a.currency] => a.confirmed
  /\ Notional(a) <= Setting[i].cap[a.currency]

\* _market_gate: an instance asks its own clock.
Enforces(i) == Setting[i].enforceHours /\ IsLive(i)
GatePasses(i, a) == Enforces(i) => IsOpen(Market[a.currency], Clock(i) % DayLength)

\* Variant with a bug: one key space for all tokens.
OneKeySpace(a) == "tok:"

KeyOf(a) == IF IsConditional(a) THEN "ctok:" ELSE "tok:"

IssueToken(i, v, a) ==
  /\ token' = [token EXCEPT ![v] = [key |-> KeyOf(a), args |-> a, by |-> i, issued |-> Clock(i)]]
  /\ UNCHANGED <<now, call, wire, made>>

\* preview_order; the last price is asked for in every mode.
PreviewOrder(i, v, a) ==
  /\ Offers(i, "preview_order")
  /\ ~IsConditional(a) /\ ~a.modify
  /\ Valid(a) /\ GatePasses(i, a) /\ Admits(i, a)
  /\ IssueToken(i, v, a)
  /\ Asks(i, {"market"})

\* preview_modify; the order to modify is read from the account.  An order by
\* amount cannot be asked for.
PreviewModify(i, v, a) ==
  /\ Offers(i, "preview_modify")
  /\ ~IsConditional(a) /\ a.modify /\ ~Given(a.order.amount)
  /\ ~UsePaper(i)
  /\ Valid(a) /\ GatePasses(i, a) /\ Admits(i, a)
  /\ IssueToken(i, v, a)
  /\ Asks(i, {"market", "account"})

\* preview_conditional_order, preview_conditional_modify: no gate, a conditional
\* order may be registered at any time.
PreviewConditional(i, v, a) ==
  /\ Offers(i, "preview_conditional_order") /\ Setting[i].knowsConditional
  /\ IsConditional(a)
  /\ ~UsePaper(i)
  /\ Valid(a) /\ Admits(i, a)
  /\ IssueToken(i, v, a)
  /\ Asks(i, IF a.modify THEN {"market", "account"} ELSE {"market"})
-----------------------------------------------------------------------------
(* place_order and modify_order up to the reservation. *)

ToolOf(v) == IF token[v].args.modify THEN "modify_order" ELSE "place_order"

\* get() looks under every prefix the build knows.
Readable(i, v) ==
  \/ token[v].key = "tok:"
  \/ token[v].key = "ctok:" /\ Setting[i].knowsConditional

\* Variant with a bug: a token is good for as long as it is in the store.
NeverExpires(i, v) == TRUE

\* consume(), expiry: the issuer's clock and ttl against the caller's clock
Fresh(i, v) == Clock(i) <= token[v].issued + Setting[token[v].by].ttl

\* Variant with a bug: live_confirm_min_delay_sec has no effect.
AnyTime(i, v) == TRUE

WaitedEnough(i, v) == IsLive(i) => Clock(i) - token[v].issued >= Setting[i].delay

\* Variant with a bug: the checks of the preview are trusted.
AdmittedBefore(i, v) == TRUE

AdmitsAgain(i, v) == Admits(i, token[v].args)

Begin(i, v) ==
  /\ call[i] = Idle
  /\ token[v] # Unused /\ Offers(i, ToolOf(v))
  /\ Readable(i, v) /\ Fresh(i, v) /\ WaitedEnough(i, v)
  /\ AdmitsAgain(i, v)
  /\ ModifiesStayLive => ~(UsePaper(i) /\ token[v].args.modify)
  /\ call' = [call EXCEPT ![i] = [at |-> "checked", preview |-> v, started |-> now]]
  /\ sent' = Nothing
  /\ UNCHANGED <<now, token, wire, made>>

Delete(v) == token' = [token EXCEPT ![v].key = "gone"]

\* consume() of an expired token deletes it.
Discard(i, v) ==
  /\ Offers(i, "place_order")
  /\ token[v] # Unused
  /\ Readable(i, v) /\ ~Fresh(i, v)
  /\ Delete(v)
  /\ sent' = Nothing
  /\ UNCHANGED <<now, call, wire, made>>
-----------------------------------------------------------------------------
(* Execution. *)

\* A build that does not know conditional orders takes every spec for an order.
RunsConditional(i) == Setting[i].knowsConditional /\ IsConditional(token[call[i].preview].args)

\* Variant with a bug: no check of the mode.
AnyMode(i) == TRUE

\* _require_live
MayReachBroker(i) == RunsConditional(i) => ~UsePaper(i)

\* The call of the client that place_order or modify_order makes.
RequestOf(i) ==
  IF token[call[i].preview].args.modify
    THEN IF RunsConditional(i) THEN "conditional modify" ELSE "modify"
    ELSE IF RunsConditional(i) THEN "conditional" ELSE "order"

FillsPaper(i) == UsePaper(i) /\ RequestOf(i) = "order"

Finish(i) == call' = [call EXCEPT ![i] = Idle]
Succeed(i) == call' = [call EXCEPT ![i].at = "done"]

\* PaperBroker.place fills or refuses; a MARKET order asks for the last price.
PaperFill(i) ==
  /\ At(i, "checked") /\ FillsPaper(i)
  /\ Succeed(i) \/ Finish(i)
  /\ sent' = Nothing \/ Asks(i, {"market"})
  /\ UNCHANGED <<now, token, wire, made>>

\* Toss executes a request that is new to it.
IsNew(v) ==
  \/ made[v].count = 0
  \/ ~token[v].args.modify /\ now - made[v].last >= Window

Execute(v) ==
  made' = IF IsNew(v)
            THEN [made EXCEPT ![v] = [count |-> made[v].count + 1, last |-> now]]
            ELSE made

\* Executed, or answered like the first time; not executed; still on its way.
Submit(i) ==
  LET v == call[i].preview IN
  /\ At(i, "checked") /\ ~FillsPaper(i) /\ MayReachBroker(i)
  /\ sent' = [from |-> i, what |-> {RequestOf(i)}, preview |-> v]
  /\ \/ Execute(v) /\ UNCHANGED wire /\ (Succeed(i) \/ Finish(i))
     \/ UNCHANGED <<made, wire>> /\ Finish(i)
     \/ /\ wire' = wire \cup {[preview |-> v, until |-> call[i].started + MaxCall]}
        /\ UNCHANGED made /\ Finish(i)
  /\ UNCHANGED <<now, token>>

\* The call ends before it sends anything (paper mode for a conditional order, no
\* room under the daily cap, a refusal), or after Toss answered: a crash, a store
\* that fails.
Abandon(i) ==
  /\ call[i] # Idle
  /\ Finish(i)
  /\ sent' = Nothing
  /\ UNCHANGED <<now, token, wire, made>>

Commit(i) ==
  /\ At(i, "done")
  /\ Delete(call[i].preview)
  /\ Finish(i)
  /\ sent' = Nothing
  /\ UNCHANGED <<now, wire, made>>

Arrive(r) ==
  /\ Execute(r.preview)
  /\ wire' = wire \ {r}
  /\ sent' = Nothing
  /\ UNCHANGED <<now, token, call>>

\* cancel_order, cancel_conditional_order
Cancel(i, symbol) ==
  /\ Offers(i, "cancel_order")
  /\ ~UsePaper(i)
  /\ AdmitsSymbol(i, symbol)
  /\ sent' = [from |-> i, what |-> {"account", "cancel"}, symbol |-> symbol]
  /\ UNCHANGED <<now, token, call, wire, made>>

\* Time passes; what is lost on the wire by then is lost for good.
Tick ==
  /\ now < Horizon
  /\ \A i \in Instance : call[i] # Idle => now < call[i].started + MaxCall
  /\ now' = now + 1
  /\ wire' = {r \in wire : now < r.until}
  /\ sent' = Nothing
  /\ UNCHANGED <<token, call, made>>

Next ==
  \/ \E v \in {w \in Preview : token[w] = Unused}, i \in Instance, a \in Argument :
       PreviewOrder(i, v, a) \/ PreviewModify(i, v, a) \/ PreviewConditional(i, v, a)
  \/ \E i \in Instance, v \in Preview : Begin(i, v) \/ Discard(i, v)
  \/ \E i \in Instance : ReadMarket(i) \/ ReadAccount(i)
  \/ \E i \in Instance : PaperFill(i) \/ Submit(i) \/ Abandon(i) \/ Commit(i)
  \/ \E i \in Instance, symbol \in AppOrder : Cancel(i, symbol)
  \/ \E r \in wire : Arrive(r)
  \/ Tick

Spec == Init /\ [][Next]_vars
-----------------------------------------------------------------------------
(* Properties. *)

Submitted == sent.what \cap Submission # {}

\* However often a token is retried, by however many instances, Toss executes
\* its order at most once (consume's expiry under the clientOrderId window).
ExecutedOnce == \A v \in Preview : made[v].count <= 1

\* Toss is asked for what was previewed: no instance runs a conditional spec as
\* a plain order, an old build on the same redis included (RedisTokenStore).
AsPreviewed ==
  Submitted =>
    LET a == token[sent.preview].args
    IN sent.what = {CASE a.kind = "order" /\ ~a.modify -> "order"
                      [] a.kind = "order" /\ a.modify -> "modify"
                      [] a.kind = "conditional" /\ ~a.modify -> "conditional"
                      [] a.kind = "conditional" /\ a.modify -> "conditional modify"}

MayAsk(i) ==
  CASE Setting[i].mode = "paper" -> {"market"}
    [] Setting[i].mode = "read_only" -> {"market", "account"}
    [] IsLive(i) -> IF Setting[i].allowLive THEN Access ELSE {}

\* The mode table of docs/wiki/pytossinvest-mcp.md: from a paper instance only
\* market data is asked of Toss, a read_only one also reads the account, and
\* only a live one that was allowed to be live changes anything.
ModeTable == sent # Nothing => sent.what \subseteq MayAsk(sent.from)

\* Whoever made the preview, what an instance submits or cancels passes its own
\* symbol lists and per-order limits (place_order's second check_guardrails).
GuardrailsHold ==
  /\ Submitted => Admits(sent.from, token[sent.preview].args)
  /\ "cancel" \in sent.what => AdmitsSymbol(sent.from, sent.symbol)

\* In true time, an order is submitted within its issuer's ttl after the preview
\* and, from a live instance, not before the delay, up to the skew of the clocks
\* and the length of a call.
IssuedAt(v) == token[v].issued - Skew[token[v].by]
ConfirmedInTime ==
  Submitted =>
    LET v == sent.preview IN
    /\ now - IssuedAt(v) <= Setting[token[v].by].ttl + MaxSkew + MaxCall
    /\ IsLive(sent.from) => now - IssuedAt(v) >= Setting[sent.from].delay - MaxSkew

\* However the session lies in the day, over midnight too (is_market_open): a
\* plain order that an enforcing instance previewed was previewed within it, and
\* within it no preview is turned away for the hours.
OpenWhenPreviewed ==
  /\ Submitted =>
       LET t == token[sent.preview] IN
       ~IsConditional(t.args) /\ Enforces(t.by) =>
         Covers(Market[t.args.currency], t.issued % DayLength, DayLength)
  /\ \A i \in Instance, a \in Argument :
       ~IsConditional(a) /\ Covers(Market[a.currency], Clock(i) % DayLength, DayLength) =>
         GatePasses(i, a)

\* What was checked against the caps is what Toss can come to charge at the prices
\* it was estimated with: no group fires for more, some firing reaches it.
NotionalIsExposure ==
  \A v \in Preview : token[v] # Unused =>
    LET a == token[v].args IN
    IF IsConditional(a)
      THEN /\ \A amount \in Firings(a.group) : amount <= Notional(a)
           /\ Notional(a) \in Firings(a.group)
      ELSE Takes(a.order) => Charged(a.order, Last[a.symbol]) = Notional(a)
=============================================================================
