----------------------------- MODULE RateLimit -----------------------------
(***************************************************************************)
(* The token bucket of one API group (ratelimit.py) as the SDK client runs *)
(* it (client.py _gate, _sync_bucket_from_headers), against the bucket     *)
(* Toss keeps for the same group.  One client, one call at a time.         *)
(*                                                                         *)
(* Time is a tick, and only differences of times are kept.  A token is One *)
(* units and a rate is in units per tick, so that fractions of a token     *)
(* are whole numbers.                                                      *)
(***************************************************************************)
EXTENDS Integers

CONSTANTS
  One,         \* units of a token
  BaseRate,    \* _GROUP_RATES: the capacity, in tokens, that refills in a second
  Second,      \* ticks of a second
  Peaks,       \* the group is in PEAK_GROUPS
  Limit,       \* the settings Toss can run the group with
  MaxDelay,    \* bound: ticks a request is on its way to Toss
  MaxAge       \* bound: ticks after which any bucket is full

Setting == [capacity : Nat \ {0}, refill : Nat \ {0}]

\* effective_rate, as the setting _gate derives from it.
Static(peak) ==
  LET rate == IF Peaks /\ peak THEN (BaseRate * One) \div 2 ELSE BaseRate * One
  IN [capacity |-> rate, refill |-> rate \div Second]

\* The built-in rates are below what Toss allows (open-api.md:319), and no
\* bucket is smaller than the token a call needs.
Offered(peak) ==
  {l \in Limit : l.capacity >= Static(peak).capacity /\ l.refill >= Static(peak).refill}

ASSUME RateLimitAssumption ==
  /\ {One, BaseRate, Second} \subseteq Nat \ {0} /\ {MaxDelay, MaxAge} \subseteq Nat
  /\ Peaks \in BOOLEAN
  /\ \A peak \in BOOLEAN : Offered(peak) # {} /\ Static(peak) \in Setting
  /\ \A l \in Limit \cup {Static(FALSE), Static(TRUE)} :
       /\ l \in Setting /\ l.capacity >= One
       /\ \A m \in Limit \cup {Static(FALSE)} : MaxAge * l.refill >= m.capacity

VARIABLES
  bucket,      \* the TokenBucket: tokens, capacity, refill_per_sec
  age,         \* ticks since its _last
  fromHeader,  \* _rate_from_header
  at,          \* where the one call is
  wait,        \* ticks it still sleeps
  peak,        \* between 09:00 and 09:10
  limit,       \* at Toss: the setting in force
  level,       \* at Toss: the units left
  flight,      \* ticks the request has been on its way
  header,      \* what the answer on its way back says
  drift        \* history: the limit changed or a request was late since the last header

vars == <<bucket, age, fromHeader, at, wait, peak, limit, level, flight, header, drift>>

client == <<bucket, age, fromHeader, wait>>
toss == <<peak, limit, level>>

NoHeader == [capacity |-> 0]

TypeOK ==
  /\ bucket \in [tokens : Nat, capacity : Nat \ {0}, refill : Nat \ {0}]
  /\ age \in 0 .. MaxAge /\ wait \in Nat /\ flight \in 0 .. MaxDelay
  /\ at \in {"idle", "gate", "asleep", "sent", "answered"}
  /\ fromHeader \in BOOLEAN /\ peak \in BOOLEAN /\ drift \in BOOLEAN
  /\ limit \in Offered(peak) /\ level \in 0 .. limit.capacity

Init ==
  /\ bucket = [tokens |-> BaseRate * One, capacity |-> BaseRate * One,
               refill |-> (BaseRate * One) \div Second]
  /\ age = 0 /\ wait = 0 /\ flight = 0
  /\ fromHeader = FALSE /\ drift = FALSE
  /\ at = "idle"
  /\ peak \in BOOLEAN
  /\ limit \in Offered(peak)
  /\ level = limit.capacity
  /\ header = NoHeader

Least(m, n) == IF m < n THEN m ELSE n
-----------------------------------------------------------------------------
(* The client. *)

\* _gate: the static rate of the hour, unless a header has been seen.
Enter ==
  /\ at = "idle"
  /\ at' = "gate"
  /\ bucket' = IF fromHeader THEN bucket
               ELSE [bucket EXCEPT !.capacity = Static(peak).capacity, !.refill = Static(peak).refill]
  /\ UNCHANGED <<age, fromHeader, wait, toss, flight, header, drift>>

\* Variant with a bug: what has been refilled is not bounded.
Overfilled == bucket.tokens + age * bucket.refill

\* _refill
Refilled == Least(bucket.capacity, bucket.tokens + age * bucket.refill)

\* try_acquire -> True, and the request leaves.
Acquire ==
  /\ at = "gate"
  /\ Refilled >= One
  /\ bucket' = [bucket EXCEPT !.tokens = Refilled - One]
  /\ age' = 0
  /\ at' = "sent"
  /\ flight' = 0
  /\ UNCHANGED <<fromHeader, wait, toss, header, drift>>

\* Variant with a bug: the wait is rounded down.
ShortWait(tokens) == (One - tokens) \div bucket.refill

\* time_until_available: the code divides floats and rounds nothing.  Time is in
\* ticks here, so the sleep ends at the first tick by which that time has passed.
TimeUntilAvailable(tokens) == (One - tokens + bucket.refill - 1) \div bucket.refill

\* try_acquire -> False, and the client sleeps.
Sleep ==
  /\ at = "gate"
  /\ Refilled < One
  /\ bucket' = [bucket EXCEPT !.tokens = Refilled]
  /\ age' = 0
  /\ wait' = TimeUntilAvailable(Refilled)
  /\ at' = "asleep"
  /\ UNCHANGED <<fromHeader, toss, flight, header, drift>>

Wake ==
  /\ at = "asleep"
  /\ wait = 0
  /\ at' = "gate"
  /\ UNCHANGED <<client, toss, flight, header, drift>>

\* Variant with a bug: the capacity becomes what is left of it.
SyncToRemaining ==
  /\ bucket' = [bucket EXCEPT !.capacity = header.remaining, !.tokens = Least(@, header.remaining)]
  /\ fromHeader' = TRUE

\* _sync_bucket_from_headers; a reset of 0 says nothing of the rate.
Sync ==
  /\ bucket' = [bucket EXCEPT !.capacity = header.capacity,
                              !.refill = IF header.refill > 0 THEN header.refill ELSE @,
                              !.tokens = Least(@, header.remaining)]
  /\ fromHeader' = TRUE

\* The answer is here, a 429 too.
Answer ==
  /\ at = "answered"
  /\ IF header = NoHeader THEN UNCHANGED <<bucket, fromHeader>> ELSE Sync
  /\ at' = "idle"
  /\ header' = NoHeader
  /\ UNCHANGED <<age, wait, toss, flight, drift>>
-----------------------------------------------------------------------------
(* Toss and the clock. *)

\* The X-RateLimit-* headers: limit, whole tokens remaining, and a reset of 0 or of
\* the seconds a token takes, here as the rate it stands for.
Announced(left, refill) ==
  [capacity |-> limit.capacity, refill |-> refill, remaining |-> (left \div One) * One]

\* The request takes a token or is answered by a 429, with headers or without.
Arrive ==
  /\ at = "sent"
  /\ level' = IF level >= One THEN level - One ELSE level
  /\ at' = "answered"
  /\ \/ header' = Announced(level', limit.refill) /\ drift' = (flight > 0)
     \/ header' \in {Announced(level', 0), NoHeader} /\ drift' = (drift \/ flight > 0)
  /\ UNCHANGED <<client, peak, limit, flight>>

\* Toss changes the limit, at the turn of the peak or at any other time.
ChangeLimit ==
  /\ peak' \in BOOLEAN
  /\ limit' \in Offered(peak')
  /\ <<peak', limit'>> # <<peak, limit>>
  /\ level' = Least(level, limit'.capacity)
  /\ drift' = TRUE
  /\ UNCHANGED <<client, at, flight, header>>

Tick ==
  /\ at = "sent" => flight < MaxDelay
  /\ age' = Least(age + 1, MaxAge)
  /\ wait' = IF wait = 0 THEN 0 ELSE wait - 1
  /\ flight' = IF at = "sent" THEN flight + 1 ELSE 0
  /\ level' = Least(level + limit.refill, limit.capacity)
  /\ UNCHANGED <<bucket, fromHeader, at, peak, limit, header, drift>>

CallStep == Acquire \/ Sleep \/ Wake \/ Answer

Next == Enter \/ CallStep \/ Arrive \/ ChangeLimit \/ Tick

Spec == Init /\ [][Next]_vars

\* The client goes on, time passes, and a request arrives in bounded time.
LiveSpec == Spec /\ WF_vars(CallStep) /\ WF_vars(Arrive) /\ WF_vars(Tick)
-----------------------------------------------------------------------------
(* Properties. *)

\* A client that is alone with its credentials is sent a 429 only when the
\* limit was changed, or a request came late, since the last header: between
\* headers the client's bucket never runs ahead of the one at Toss.
RefusalNeedsDrift == [][Arrive /\ level < One => drift]_vars

\* The gate never spins: one sleep is enough for the token it slept for.
OneSleepIsEnough == [][Wake => Refilled >= One]_vars

\* Every call passes the gate and ends, whatever the headers announce.
EveryCallPasses == at # "idle" ~> at = "idle"
=============================================================================
