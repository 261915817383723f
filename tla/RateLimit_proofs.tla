------------------------- MODULE RateLimit_proofs -------------------------
(* The gate of an API group, for any rates, units, limits Toss may set and   *)
(* delays: the bucket is sound, one sleep is enough for a token, and a 429   *)
(* is answered only after a change of the limit or a late request.           *)
EXTENDS RateLimit, TLAPS

\* What the assumptions say of the settings.
LEMMA SettingFacts ==
  /\ One \in Nat \ {0} /\ {MaxDelay, MaxAge} \subseteq Nat /\ Peaks \in BOOLEAN
  /\ \A p \in BOOLEAN :
       /\ Static(p) \in Setting /\ Static(p).capacity >= One /\ MaxAge * Static(p).refill >= One
       /\ \A l \in Offered(p) :
            /\ l \in Setting /\ l.capacity >= One /\ MaxAge * l.refill >= One
            /\ Static(p).capacity <= l.capacity /\ Static(p).refill <= l.refill
  /\ BaseRate * One = Static(FALSE).capacity /\ (BaseRate * One) \div Second = Static(FALSE).refill
<1>1. /\ One \in Nat \ {0} /\ {MaxDelay, MaxAge} \subseteq Nat /\ Peaks \in BOOLEAN
  BY RateLimitAssumption
<1>2. BaseRate * One = Static(FALSE).capacity /\ (BaseRate * One) \div Second = Static(FALSE).refill
  BY DEF Static
<1> DEFINE All == Limit \cup {Static(FALSE), Static(TRUE)}
<1>3. ASSUME NEW l \in All
      PROVE  l \in Setting /\ l.capacity >= One /\ MaxAge * l.refill >= One
  <2>1. /\ l \in Setting /\ l.capacity >= One
        /\ MaxAge * l.refill >= Static(FALSE).capacity
        /\ Static(FALSE) \in Setting /\ Static(FALSE).capacity >= One
    BY RateLimitAssumption
  <2>2. MaxAge \in Nat /\ One \in Nat /\ l.refill \in Nat /\ Static(FALSE).capacity \in Nat
    BY <1>1, <2>1 DEF Setting
  <2>3. MaxAge * l.refill \in Nat
    BY <2>2
  <2>4. \A a, b, c \in Nat : a >= b /\ b >= c => a >= c
    OBVIOUS
  <2> QED
    BY <2>1, <2>2, <2>3, <2>4, Zenon
<1>4. \A p \in BOOLEAN : Static(p) \in All /\ \A l \in Offered(p) : l \in All
  BY DEF Offered
<1> HIDE DEF All
<1>5. ASSUME NEW p \in BOOLEAN, NEW l \in Offered(p)
      PROVE  Static(p).capacity <= l.capacity /\ Static(p).refill <= l.refill
  <2>1. Static(p) \in Setting /\ l \in Setting
    BY <1>3, <1>4
  <2> QED
    BY <2>1 DEF Offered, Setting
<1> QED
  BY <1>1, <1>2, <1>3, <1>4, <1>5

\* What a bucket of capacity c holds: tokens t after a ticks at r a tick.
Holds(c, t, a, r) == Least(c, t + a * r)

\* A bucket fills up tick by tick, and never faster than a larger one.
LEMMA KeepsUp ==
  ASSUME NEW c \in Nat, NEW t \in Nat, NEW a \in Nat, NEW r \in Nat,
         NEW cc \in Nat, NEW rr \in Nat, NEW v \in Nat, NEW b \in {a, a + 1},
         c <= cc, r <= rr, v <= cc, Holds(c, t, a, r) <= v
  PROVE  Holds(c, t, b, r) <= Least(v + rr, cc)
<1>1. (a + 1) * r = a * r + r /\ a * r \in Nat
  OBVIOUS
<1> QED
  BY <1>1 DEF Holds, Least

\* Less tokens, capacity and refill hold less.
LEMMA HoldsLess ==
  ASSUME NEW c \in Nat, NEW t \in Nat, NEW a \in Nat, NEW r \in Nat,
         NEW cc \in Nat, NEW tt \in Nat, NEW rr \in Nat,
         c <= cc, t <= tt, r <= rr
  PROVE  Holds(c, t, a, r) \in Nat /\ Holds(c, t, a, r) <= Holds(cc, tt, a, rr)
<1>1. a * r \in Nat /\ a * rr \in Nat /\ a * r <= a * rr
  OBVIOUS
<1> QED
  BY <1>1 DEF Holds, Least

\* A bucket holds at most its capacity, and at once only its tokens.
LEMMA HoldsType ==
  ASSUME NEW c \in Nat, NEW t \in Nat, NEW a \in Nat, NEW r \in Nat
  PROVE  /\ Holds(c, t, a, r) \in Nat /\ Holds(c, t, a, r) <= c
         /\ a = 0 => Holds(c, t, a, r) <= t
<1>1. a * r \in Nat /\ (a = 0 => a * r = 0)
  OBVIOUS
<1> QED
  BY <1>1 DEF Holds, Least

\* Rounding up reaches what is missing.
LEMMA RoundedUp ==
  ASSUME NEW n \in Nat, NEW r \in Nat \ {0}
  PROVE  (n + r - 1) \div r \in Nat /\ ((n + r - 1) \div r) * r >= n
OBVIOUS
-----------------------------------------------------------------------------
(* The invariant. *)

Header == [capacity : Nat \ {0}, refill : Nat, remaining : Nat]

\* Bucket and header are sound: a token fits, and the refill makes one by MaxAge.
Sound ==
  /\ header \in Header \cup {NoHeader}
  /\ bucket.capacity >= One /\ MaxAge * bucket.refill >= One
  /\ header \in Header =>
       header.capacity >= One /\ (header.refill > 0 => MaxAge * header.refill >= One)

\* A sleep is long enough for the token it was computed for.
SleepCovers ==
  at = "asleep" => age = MaxAge \/ bucket.tokens + (age + wait) * bucket.refill >= One

\* A request that is not late left in this tick.
FlightIsAge == at = "sent" /\ flight = 0 => age = 0

\* The client runs the group no faster than Toss does.
Tame ==
  /\ bucket.capacity <= limit.capacity /\ bucket.refill <= limit.refill
  /\ ~fromHeader => bucket.capacity = Static(peak).capacity /\ bucket.refill = Static(peak).refill

\* What the header announced is still there, refilled since.
Backed ==
  /\ header.capacity = limit.capacity
  /\ header.refill = limit.refill \/ (header.refill = 0 /\ bucket.refill <= limit.refill)
  /\ Holds(limit.capacity, header.remaining, age, limit.refill) <= level

\* Without drift the client's bucket never holds more than the one at Toss.
Behind ==
  ~drift =>
    /\ at \in {"gate", "asleep"} => Tame /\ Refilled <= level
    /\ at = "sent" => Tame /\ level >= One /\ (flight = 0 => Refilled + One <= level)
    /\ at = "answered" => IF header = NoHeader THEN Tame /\ Refilled <= level ELSE Backed
    /\ at = "idle" => (~fromHeader /\ level = limit.capacity) \/ (Tame /\ Refilled <= level)

IInv == TypeOK /\ Sound /\ SleepCovers /\ FlightIsAge /\ Behind

\* The types, field by field.
LEMMA Fields ==
  ASSUME TypeOK
  PROVE  /\ bucket.tokens \in Nat /\ bucket.capacity \in Nat \ {0} /\ bucket.refill \in Nat \ {0}
         /\ age \in Nat /\ age <= MaxAge
         /\ limit \in Setting /\ limit.capacity \in Nat \ {0} /\ limit.refill \in Nat \ {0}
         /\ limit.capacity >= One /\ MaxAge * limit.refill >= One
         /\ level \in Nat /\ level <= limit.capacity /\ peak \in BOOLEAN /\ flight \in Nat
         /\ Static(peak).capacity <= limit.capacity /\ Static(peak).refill <= limit.refill
         /\ Refilled \in Nat /\ Refilled = Holds(bucket.capacity, bucket.tokens, age, bucket.refill)
<1>1. /\ bucket.tokens \in Nat /\ bucket.capacity \in Nat \ {0} /\ bucket.refill \in Nat \ {0}
      /\ age \in 0 .. MaxAge /\ peak \in BOOLEAN /\ limit \in Offered(peak)
      /\ level \in 0 .. limit.capacity /\ flight \in 0 .. MaxDelay
  BY DEF TypeOK
<1>2. /\ limit \in Setting /\ limit.capacity >= One /\ MaxAge * limit.refill >= One
      /\ Static(peak).capacity <= limit.capacity /\ Static(peak).refill <= limit.refill
      /\ MaxAge \in Nat /\ MaxDelay \in Nat
  BY <1>1, SettingFacts
<1>3. limit.capacity \in Nat \ {0} /\ limit.refill \in Nat \ {0}
  BY <1>2 DEF Setting
<1>4. age * bucket.refill \in Nat
  BY <1>1, <1>2
<1>5. Refilled \in Nat /\ Refilled = Holds(bucket.capacity, bucket.tokens, age, bucket.refill)
  BY <1>1, <1>4 DEF Refilled, Holds, Least
<1> QED
  BY <1>1, <1>2, <1>3, <1>5

\* The group starts full at Toss, and at the built-in rate here.
LEMMA InitInv ==
  ASSUME Init
  PROVE  IInv
<1>1. Static(FALSE) \in Setting /\ Static(FALSE).capacity >= One /\ MaxAge * Static(FALSE).refill >= One
      /\ MaxAge \in Nat /\ MaxDelay \in Nat
  BY SettingFacts
<1>2. bucket = [tokens |-> Static(FALSE).capacity, capacity |-> Static(FALSE).capacity,
                refill |-> Static(FALSE).refill]
  BY SettingFacts DEF Init
<1>3. limit \in Setting
  BY SettingFacts DEF Init
<1>4. limit.capacity \in Nat /\ Static(FALSE).capacity \in Nat \ {0} /\ Static(FALSE).refill \in Nat \ {0}
  BY <1>1, <1>3 DEF Setting
<1>5. bucket \in [tokens : Nat, capacity : Nat \ {0}, refill : Nat \ {0}]
      /\ bucket.capacity = Static(FALSE).capacity /\ bucket.refill = Static(FALSE).refill
  BY <1>2, <1>4
<1>6. TypeOK
  <2>1. fromHeader \in BOOLEAN /\ peak \in BOOLEAN /\ drift \in BOOLEAN
    BY DEF Init
  <2>2. age \in 0 .. MaxAge /\ wait \in Nat /\ flight \in 0 .. MaxDelay
    BY <1>1 DEF Init
  <2>3. limit \in Offered(peak) /\ level \in 0 .. limit.capacity
    BY <1>4 DEF Init
  <2>4. at \in {"idle", "gate", "asleep", "sent", "answered"}
    BY DEF Init
  <2> QED
    BY <1>5, <2>1, <2>2, <2>3, <2>4 DEF TypeOK
<1>7. NoHeader \notin Header
  BY DEF NoHeader, Header
<1>8. Sound
  BY <1>1, <1>5, <1>7 DEF Init, Sound
<1> QED
  BY <1>6, <1>8 DEF Init, IInv, SleepCovers, FlightIsAge, Behind
-----------------------------------------------------------------------------
(* The steps of the client. *)

\* The gate takes the static rate of the hour; Toss offers no less.
LEMMA EnterInv ==
  ASSUME IInv, Enter
  PROVE  IInv'
<1>1. /\ TypeOK /\ at = "idle" /\ at' = "gate"
      /\ UNCHANGED <<age, fromHeader, wait, peak, limit, level, flight, header, drift>>
  BY DEF Enter, IInv, toss
<1>2. /\ Static(peak).capacity \in Nat \ {0} /\ Static(peak).refill \in Nat \ {0}
      /\ Static(peak).capacity >= One /\ MaxAge * Static(peak).refill >= One
  BY <1>1, Fields, SettingFacts DEF Setting
<1>3. /\ bucket'.tokens = bucket.tokens
      /\ bucket' \in [tokens : Nat, capacity : Nat \ {0}, refill : Nat \ {0}]
      /\ fromHeader => bucket' = bucket
      /\ ~fromHeader => bucket'.capacity = Static(peak).capacity /\ bucket'.refill = Static(peak).refill
  BY <1>1, <1>2 DEF Enter, TypeOK
<1>4. TypeOK'
  BY <1>1, <1>3 DEF TypeOK
<1>5. Sound'
  BY <1>1, <1>2, <1>3 DEF IInv, Sound
<1>6. Behind'
  <2> SUFFICES ASSUME ~drift PROVE Tame' /\ Refilled' <= level
    BY <1>1 DEF Behind
  <2>1. CASE Tame /\ Refilled <= level
    <3>1. bucket'.capacity = bucket.capacity /\ bucket'.refill = bucket.refill
      BY <1>3, <2>1 DEF Tame
    <3> QED
      BY <1>1, <1>3, <2>1, <3>1 DEF Tame, Refilled
  <2>2. CASE ~fromHeader /\ level = limit.capacity
    <3>1. Tame'
      BY <1>1, <1>3, <2>2, Fields DEF Tame
    <3>2. Refilled' \in Nat /\ Refilled' <= bucket'.capacity
      BY <1>1, <1>3, Fields, HoldsType DEF Refilled, Holds
    <3> QED
      BY <1>1, <1>3, <2>2, <3>1, <3>2, Fields
  <2> QED
    BY <1>1, <2>1, <2>2 DEF IInv, Behind
<1> QED
  BY <1>1, <1>4, <1>5, <1>6 DEF IInv, SleepCovers, FlightIsAge

\* The client takes a token that Toss has too.
LEMMA AcquireInv ==
  ASSUME IInv, Acquire
  PROVE  IInv'
<1>1. /\ TypeOK /\ at = "gate" /\ Refilled >= One /\ at' = "sent" /\ age' = 0 /\ flight' = 0
      /\ bucket' = [bucket EXCEPT !.tokens = Refilled - One]
      /\ UNCHANGED <<fromHeader, wait, peak, limit, level, header, drift>>
  BY DEF Acquire, IInv, toss
<1>2. Refilled \in Nat /\ One \in Nat \ {0} /\ Refilled - One \in Nat /\ MaxAge \in Nat /\ MaxDelay \in Nat
  BY <1>1, Fields, SettingFacts
<1>3. /\ bucket'.tokens = Refilled - One /\ bucket'.capacity = bucket.capacity
      /\ bucket'.refill = bucket.refill
      /\ bucket' \in [tokens : Nat, capacity : Nat \ {0}, refill : Nat \ {0}]
  BY <1>1, <1>2 DEF TypeOK
<1>4. TypeOK'
  <2>1. age' \in 0 .. MaxAge /\ flight' \in 0 .. MaxDelay
    BY <1>1, <1>2
  <2> QED
    BY <1>1, <1>3, <2>1 DEF TypeOK
<1>5. Sound'
  BY <1>1, <1>3 DEF IInv, Sound
<1>6. Refilled' \in Nat /\ Refilled' <= Refilled - One
  <2>1. Refilled' = Holds(bucket'.capacity, bucket'.tokens, 0, bucket'.refill)
    BY <1>1 DEF Refilled, Holds
  <2> QED
    BY <1>2, <1>3, <2>1, HoldsType
<1>7. Behind'
  <2> SUFFICES ASSUME ~drift PROVE Tame' /\ level >= One /\ Refilled' + One <= level
    BY <1>1 DEF Behind
  <2>1. Tame /\ Refilled <= level
    BY <1>1 DEF IInv, Behind
  <2>2. Tame'
    BY <1>1, <1>3, <2>1 DEF Tame
  <2>3. level \in Nat
    BY <1>1, Fields
  <2> QED
    BY <1>1, <1>2, <1>6, <2>1, <2>2, <2>3
<1> QED
  BY <1>1, <1>4, <1>5, <1>7 DEF IInv, SleepCovers, FlightIsAge

\* The client sleeps for the token it lacks.
LEMMA SleepInv ==
  ASSUME IInv, Sleep
  PROVE  IInv'
<1>1. /\ TypeOK /\ at = "gate" /\ Refilled < One /\ at' = "asleep" /\ age' = 0
      /\ bucket' = [bucket EXCEPT !.tokens = Refilled]
      /\ wait' = TimeUntilAvailable(Refilled)
      /\ UNCHANGED <<fromHeader, peak, limit, level, flight, header, drift>>
  BY DEF Sleep, IInv, toss
<1>2. Refilled \in Nat /\ One - Refilled \in Nat /\ MaxAge \in Nat /\ bucket.refill \in Nat \ {0}
  BY <1>1, Fields, SettingFacts
<1>3. /\ bucket'.tokens = Refilled /\ bucket'.capacity = bucket.capacity
      /\ bucket'.refill = bucket.refill
      /\ bucket' \in [tokens : Nat, capacity : Nat \ {0}, refill : Nat \ {0}]
  BY <1>1, <1>2 DEF TypeOK
<1>4. wait' \in Nat /\ wait' * bucket.refill >= One - Refilled
  BY <1>1, <1>2, RoundedUp DEF TimeUntilAvailable
<1>5. TypeOK'
  <2>1. age' \in 0 .. MaxAge
    BY <1>1, <1>2
  <2> QED
    BY <1>1, <1>3, <1>4, <2>1 DEF TypeOK
<1>6. Sound'
  BY <1>1, <1>3 DEF IInv, Sound
<1>7. SleepCovers'
  <2>1. (age' + wait') * bucket'.refill = wait' * bucket.refill
    BY <1>1, <1>2, <1>3, <1>4
  <2>2. wait' * bucket.refill \in Nat /\ One \in Nat
    BY <1>2, <1>4, SettingFacts
  <2> QED
    BY <1>2, <1>3, <1>4, <2>1, <2>2 DEF SleepCovers
<1>8. Refilled' \in Nat /\ Refilled' <= Refilled
  <2>1. Refilled' = Holds(bucket'.capacity, bucket'.tokens, 0, bucket'.refill)
    BY <1>1 DEF Refilled, Holds
  <2> QED
    BY <1>2, <1>3, <2>1, HoldsType
<1>9. Behind'
  <2> SUFFICES ASSUME ~drift PROVE Tame' /\ Refilled' <= level
    BY <1>1 DEF Behind
  <2>1. Tame /\ Refilled <= level
    BY <1>1 DEF IInv, Behind
  <2>2. Tame'
    BY <1>1, <1>3, <2>1 DEF Tame
  <2>3. level \in Nat
    BY <1>1, Fields
  <2> QED
    BY <1>1, <1>2, <1>8, <2>1, <2>2, <2>3
<1> QED
  BY <1>1, <1>5, <1>6, <1>7, <1>9 DEF IInv, FlightIsAge

\* The client wakes up and asks again.
LEMMA WakeInv ==
  ASSUME IInv, Wake
  PROVE  IInv'
<1>1. /\ TypeOK /\ at = "asleep" /\ at' = "gate"
      /\ UNCHANGED <<bucket, age, fromHeader, wait, peak, limit, level, flight, header, drift>>
  BY DEF Wake, IInv, toss, client
<1>2. TypeOK' /\ Sound'
  BY <1>1 DEF IInv, TypeOK, Sound
<1>3. Behind'
  BY <1>1 DEF IInv, Behind, Tame, Refilled
<1> QED
  BY <1>1, <1>2, <1>3 DEF IInv, SleepCovers, FlightIsAge

\* The client takes the headers over; what they say Toss still has.
LEMMA AnswerInv ==
  ASSUME IInv, Answer
  PROVE  IInv'
<1>1. /\ TypeOK /\ at = "answered" /\ at' = "idle" /\ header' = NoHeader
      /\ UNCHANGED <<age, wait, peak, limit, level, flight, drift>>
      /\ IF header = NoHeader THEN UNCHANGED <<bucket, fromHeader>> ELSE Sync
  BY DEF Answer, IInv, toss
<1>2. CASE header = NoHeader
  <2>1. TypeOK' /\ Sound'
    BY <1>1, <1>2 DEF IInv, TypeOK, Sound, NoHeader, Header
  <2>2. Behind'
    BY <1>1, <1>2 DEF IInv, Behind, Tame, Refilled
  <2> QED
    BY <1>1, <2>1, <2>2 DEF IInv, SleepCovers, FlightIsAge
<1>3. CASE header # NoHeader
  <2>1. /\ header \in Header /\ header.capacity \in Nat \ {0} /\ header.refill \in Nat
        /\ header.remaining \in Nat /\ header.capacity >= One
        /\ header.refill > 0 => MaxAge * header.refill >= One
    BY <1>3 DEF IInv, Sound, Header
  <2>2. /\ bucket'.tokens = Least(bucket.tokens, header.remaining)
        /\ bucket'.capacity = header.capacity
        /\ bucket'.refill = IF header.refill > 0 THEN header.refill ELSE bucket.refill
        /\ bucket' \in [tokens : Nat, capacity : Nat \ {0}, refill : Nat \ {0}]
        /\ fromHeader' = TRUE
    <3>1. Least(bucket.tokens, header.remaining) \in Nat
      BY <1>1, <2>1, Fields DEF Least
    <3>2. /\ bucket' = [bucket EXCEPT !.capacity = header.capacity,
                                      !.refill = IF header.refill > 0 THEN header.refill ELSE @,
                                      !.tokens = Least(@, header.remaining)]
          /\ fromHeader' = TRUE
      BY <1>1, <1>3 DEF Sync
    <3>3. bucket \in [tokens : Nat, capacity : Nat \ {0}, refill : Nat \ {0}]
      BY <1>1 DEF TypeOK
    <3>4. (IF header.refill > 0 THEN header.refill ELSE bucket.refill) \in Nat \ {0}
      BY <2>1, <3>3
    <3> QED
      BY <2>1, <3>1, <3>2, <3>3, <3>4
  <2>3. TypeOK'
    BY <1>1, <2>2 DEF TypeOK
  <2>4. Sound'
    <3>1. NoHeader \notin Header
      BY DEF NoHeader, Header
    <3> QED
      BY <1>1, <2>1, <2>2, <3>1 DEF IInv, Sound
  <2>5. Behind'
    <3> SUFFICES ASSUME ~drift PROVE Tame' /\ Refilled' <= level
      BY <1>1 DEF Behind
    <3>1. Backed
      BY <1>1, <1>3 DEF IInv, Behind
    <3>2. bucket'.capacity <= limit.capacity /\ bucket'.refill <= limit.refill
      BY <1>1, <2>2, <3>1, Fields DEF Backed
    <3>3. Refilled' = Holds(bucket'.capacity, bucket'.tokens, age, bucket'.refill)
      BY <1>1 DEF Refilled, Holds
    <3>4. bucket'.tokens <= header.remaining /\ bucket'.tokens \in Nat
      BY <1>1, <2>1, <2>2, Fields DEF Least
    <3>5. /\ Refilled' \in Nat
          /\ Refilled' <= Holds(limit.capacity, header.remaining, age, limit.refill)
      BY <1>1, <2>1, <2>2, <3>2, <3>3, <3>4, Fields, HoldsLess
    <3>6. Holds(limit.capacity, header.remaining, age, limit.refill) \in Nat
      BY <1>1, <2>1, Fields, HoldsType
    <3>7. Refilled' <= level
      BY <1>1, <3>1, <3>5, <3>6, Fields DEF Backed
    <3> QED
      BY <1>1, <2>2, <3>2, <3>7 DEF Tame
  <2> QED
    BY <1>1, <2>3, <2>4, <2>5 DEF IInv, SleepCovers, FlightIsAge
<1> QED
  BY <1>2, <1>3
-----------------------------------------------------------------------------
(* The steps of Toss and of the clock. *)

\* The request takes a token; what the headers announce is what is left.
LEMMA ArriveInv ==
  ASSUME IInv, Arrive
  PROVE  IInv'
<1>1. /\ TypeOK /\ at = "sent" /\ at' = "answered"
      /\ UNCHANGED <<bucket, age, fromHeader, wait, peak, limit, flight>>
      /\ level' = IF level >= One THEN level - One ELSE level
      /\ One \in Nat \ {0}
  BY SettingFacts DEF Arrive, IInv, client
<1>2. level' \in Nat /\ level' <= limit.capacity
  BY <1>1, Fields
<1>3. /\ (level' \div One) * One \in Nat /\ (level' \div One) * One <= level'
  BY <1>1, <1>2
<1>4. PICK refill \in {limit.refill, 0} :
        \/ /\ header' = Announced(level', refill)
           /\ refill = limit.refill /\ drift' = (flight > 0)
        \/ header' = Announced(level', refill) /\ drift' = (drift \/ flight > 0)
        \/ header' = NoHeader /\ drift' = (drift \/ flight > 0)
  BY DEF Arrive
<1>5. /\ Announced(level', refill) \in Header
      /\ Announced(level', refill).capacity = limit.capacity
      /\ Announced(level', refill).refill = refill
      /\ Announced(level', refill).remaining = (level' \div One) * One
  BY <1>1, <1>3, <1>4, Fields DEF Announced, Header
<1>6. NoHeader \notin Header
  BY DEF NoHeader, Header
<1>7. TypeOK'
  <2>1. drift' \in BOOLEAN
    <3>1. (flight > 0) \in BOOLEAN /\ (drift \/ flight > 0) \in BOOLEAN
      OBVIOUS
    <3> QED
      BY <1>4, <3>1, Zenon
  <2>2. level' \in 0 .. limit'.capacity
    BY <1>1, <1>2, Fields
  <2> QED
    BY <1>1, <2>1, <2>2 DEF TypeOK
<1>8. Sound'
  <2>1. header' \in Header =>
          header'.capacity >= One /\ (header'.refill > 0 => MaxAge * header'.refill >= One)
    BY <1>1, <1>4, <1>5, <1>6, Fields
  <2> QED
    BY <1>1, <1>4, <1>5, <2>1 DEF IInv, Sound
<1>9. Behind'
  <2> SUFFICES ASSUME ~drift'
               PROVE  IF header' = NoHeader THEN Tame' /\ Refilled' <= level' ELSE Backed'
    BY <1>1 DEF Behind
  <2>1. flight = 0 /\ age = 0 /\ Refilled' = Refilled
    <3>1. ~(flight > 0)
      BY <1>4, Zenon
    <3>2. flight = 0
      BY <1>1, <3>1, Fields
    <3> QED
      BY <1>1, <3>2 DEF IInv, FlightIsAge, Refilled
  <2>2. CASE header' = NoHeader
    <3>1. ~drift
      BY <1>4, <1>5, <1>6, <2>2
    <3>2. Tame /\ level >= One /\ Refilled + One <= level
      BY <1>1, <2>1, <3>1 DEF IInv, Behind
    <3> QED
      BY <1>1, <2>1, <2>2, <3>2, Fields DEF Tame
  <2>3. CASE header' # NoHeader
    <3>1. header' = Announced(level', refill)
      BY <1>4, <2>3
    <3>2. refill = limit.refill \/ (refill = 0 /\ bucket.refill <= limit.refill)
      <4>1. refill = limit.refill \/ ~drift
        BY <1>4, <2>3
      <4>2. ~drift => Tame
        BY <1>1 DEF IInv, Behind
      <4> QED
        BY <1>4, <4>1, <4>2 DEF Tame
    <3>3. Holds(limit.capacity, (level' \div One) * One, 0, limit.refill) <= (level' \div One) * One
          /\ Holds(limit.capacity, (level' \div One) * One, 0, limit.refill) \in Nat
      BY <1>1, <1>3, Fields, HoldsType
    <3>4. Holds(limit.capacity, header'.remaining, age, limit.refill) <= level'
      BY <1>2, <1>3, <1>5, <2>1, <3>1, <3>3
    <3> QED
      BY <1>1, <1>5, <2>3, <3>1, <3>2, <3>4 DEF Backed, Holds
  <2> QED
    BY <2>2, <2>3
<1> QED
  BY <1>1, <1>7, <1>8, <1>9 DEF IInv, SleepCovers, FlightIsAge

\* A change of the limit is drift.
LEMMA ChangeLimitInv ==
  ASSUME IInv, ChangeLimit
  PROVE  IInv'
<1>1. /\ TypeOK /\ peak' \in BOOLEAN /\ limit' \in Offered(peak') /\ drift' = TRUE
      /\ level' = Least(level, limit'.capacity)
      /\ UNCHANGED <<bucket, age, fromHeader, wait, at, flight, header>>
  BY DEF ChangeLimit, IInv, client
<1>2. limit'.capacity \in Nat /\ level \in Nat
  BY <1>1, SettingFacts, Fields DEF Setting
<1>3. TypeOK'
  <2>1. level' \in 0 .. limit'.capacity
    BY <1>1, <1>2 DEF Least
  <2> QED
    BY <1>1, <2>1 DEF TypeOK
<1> QED
  BY <1>1, <1>3 DEF IInv, Sound, SleepCovers, FlightIsAge, Behind

\* Time refills both buckets, the client's no faster.
LEMMA TickInv ==
  ASSUME IInv, Tick
  PROVE  IInv'
<1>1. /\ TypeOK
      /\ at = "sent" => flight < MaxDelay
      /\ age' = Least(age + 1, MaxAge)
      /\ wait' = IF wait = 0 THEN 0 ELSE wait - 1
      /\ flight' = IF at = "sent" THEN flight + 1 ELSE 0
      /\ level' = Least(level + limit.refill, limit.capacity)
      /\ UNCHANGED <<bucket, fromHeader, at, peak, limit, header, drift>>
      /\ MaxAge \in Nat /\ MaxDelay \in Nat
  BY SettingFacts DEF Tick, IInv
<1>2. /\ age' \in {age, age + 1} /\ age' \in 0 .. MaxAge
      /\ age' = age => age' = MaxAge
      /\ wait' \in Nat /\ flight' \in 0 .. MaxDelay
      /\ level' \in 0 .. limit.capacity /\ level <= level'
  BY <1>1, Fields DEF Least, TypeOK
<1>3. TypeOK'
  BY <1>1, <1>2 DEF TypeOK
<1>4. Sound'
  BY <1>1 DEF IInv, Sound
<1>5. SleepCovers'
  <2> SUFFICES ASSUME at = "asleep", age' # MaxAge
               PROVE  bucket.tokens + (age' + wait') * bucket.refill >= One
    BY <1>1 DEF SleepCovers
  <2>1. age' = age + 1 /\ age # MaxAge
    BY <1>1, <1>2, Fields DEF Least
  <2>2. bucket.tokens + (age + wait) * bucket.refill >= One
    BY <2>1 DEF IInv, SleepCovers
  <2>3. (age + wait) * bucket.refill <= (age' + wait') * bucket.refill
    <3>1. wait \in Nat /\ age + wait \in Nat /\ age' + wait' \in Nat /\ age + wait <= age' + wait'
      BY <1>1, <1>2, <2>1, Fields DEF TypeOK
    <3> QED
      BY <1>1, <3>1, Fields
  <2>4. {(age + wait) * bucket.refill, (age' + wait') * bucket.refill, bucket.tokens, One} \subseteq Nat
    <3>1. age + wait \in Nat /\ age' + wait' \in Nat
      BY <1>1, <1>2, Fields DEF TypeOK
    <3> QED
      BY <1>1, <3>1, Fields, SettingFacts
  <2> QED
    BY <2>2, <2>3, <2>4
<1>6. ASSUME Tame, Refilled <= level PROVE Tame' /\ Refilled' <= level'
  <2>1. Refilled' = Holds(bucket.capacity, bucket.tokens, age', bucket.refill)
    BY <1>1 DEF Refilled, Holds
  <2>2. Refilled' <= level'
    <3>1. /\ bucket.capacity \in Nat /\ bucket.tokens \in Nat /\ bucket.refill \in Nat
          /\ limit.capacity \in Nat /\ limit.refill \in Nat /\ age \in Nat /\ level \in Nat
          /\ level <= limit.capacity
      BY <1>1, Fields
    <3>2. bucket.capacity <= limit.capacity /\ bucket.refill <= limit.refill
      BY <1>6 DEF Tame
    <3>3. Holds(bucket.capacity, bucket.tokens, age, bucket.refill) <= level
      BY <1>6 DEF Refilled, Holds
    <3> QED
      BY <1>1, <1>2, <2>1, <3>1, <3>2, <3>3, KeepsUp
  <2> QED
    BY <1>1, <1>6, <2>2 DEF Tame
<1>7. ASSUME Backed, header \in Header PROVE Backed'
  <2>1. header.remaining \in Nat
    BY <1>7 DEF Header
  <2>2. Holds(limit.capacity, header.remaining, age', limit.refill) <= level'
    <3>1. /\ limit.capacity \in Nat /\ limit.refill \in Nat /\ age \in Nat /\ level \in Nat
          /\ level <= limit.capacity /\ limit.capacity <= limit.capacity
          /\ limit.refill <= limit.refill
      BY <1>1, Fields
    <3>2. Holds(limit.capacity, header.remaining, age, limit.refill) <= level
      BY <1>7 DEF Backed
    <3> QED
      BY <1>1, <1>2, <2>1, <3>1, <3>2, KeepsUp
  <2> QED
    BY <1>1, <1>7, <2>2 DEF Backed, Holds
<1>8. Behind'
  <2> SUFFICES ASSUME ~drift PROVE Behind'
    BY <1>1 DEF Behind
  <2>1. CASE at \in {"gate", "asleep"}
    BY <1>1, <1>6, <2>1 DEF IInv, Behind
  <2>2. CASE at = "sent"
    <3>1. Tame' /\ level' >= One /\ flight' # 0
      BY <1>1, <1>2, <2>2, Fields, SettingFacts DEF IInv, Behind, Tame
    <3> QED
      BY <1>1, <2>2, <3>1 DEF Behind
  <2>3. CASE at = "answered"
    BY <1>1, <1>6, <1>7, <2>3 DEF IInv, Behind, Sound
  <2>4. CASE at = "idle"
    <3>1. CASE Tame /\ Refilled <= level
      BY <1>1, <1>6, <2>4, <3>1 DEF Behind
    <3>2. CASE ~fromHeader /\ level = limit.capacity
      <4>1. level' = limit.capacity
        BY <1>1, <1>2, <3>2, Fields
      <4> QED
        BY <1>1, <2>4, <3>2, <4>1 DEF Behind
    <3> QED
      BY <2>4, <3>1, <3>2 DEF IInv, Behind
  <2> QED
    BY <1>1, <2>1, <2>2, <2>3, <2>4 DEF TypeOK
<1>9. FlightIsAge'
  BY <1>1, <1>2, Fields DEF FlightIsAge
<1> QED
  BY <1>3, <1>4, <1>5, <1>8, <1>9 DEF IInv
-----------------------------------------------------------------------------
\* Every step keeps the inductive invariant.
LEMMA StepInv ==
  ASSUME IInv, [Next]_vars
  PROVE  IInv'
<1>1. CASE Enter \/ CallStep
  BY <1>1, EnterInv, AcquireInv, SleepInv, WakeInv, AnswerInv DEF CallStep
<1>2. CASE Arrive \/ ChangeLimit \/ Tick
  BY <1>2, ArriveInv, ChangeLimitInv, TickInv
<1>3. CASE UNCHANGED vars
  BY <1>3 DEF vars, IInv, TypeOK, Sound, SleepCovers, FlightIsAge, Behind, Tame, Backed, Refilled, Holds
<1> QED
  BY <1>1, <1>2, <1>3 DEF Next

\* The inductive invariant holds in every reachable state.
THEOREM Invariance == Spec => []IInv
<1>1. Init => IInv
  BY InitInv
<1>2. IInv /\ [Next]_vars => IInv'
  BY StepInv
<1> QED
  BY <1>1, <1>2, PTL DEF Spec

\* Whatever the headers say, the bucket keeps its type: no empty capacity, no
\* refill of nothing, no negative tokens, and Toss's level within its limit.
THEOREM TypeCorrect == Spec => []TypeOK
<1>1. IInv => TypeOK
  BY DEF IInv
<1> QED
  BY <1>1, Invariance, PTL

\* A 429 without a changed limit or a late request cannot happen.
THEOREM RefusalAlwaysNeedsDrift == Spec => RefusalNeedsDrift
<1>1. IInv /\ Arrive /\ level < One => drift
  <2> SUFFICES ASSUME IInv, at = "sent", level < One, ~drift PROVE FALSE
    BY DEF Arrive
  <2>1. level >= One /\ level \in Nat /\ One \in Nat
    BY Fields, SettingFacts DEF IInv, Behind
  <2> QED
    BY <2>1
<1>2. IInv /\ [Next]_vars => [Arrive /\ level < One => drift]_vars
  BY <1>1
<1> QED
  BY <1>2, Invariance, PTL DEF Spec, RefusalNeedsDrift

\* A sleep is never repeated: the token is there when the client wakes up.
THEOREM OneSleepIsAlwaysEnough == Spec => OneSleepIsEnough
<1>1. IInv /\ Wake => Refilled >= One
  <2> SUFFICES ASSUME IInv, at = "asleep", wait = 0 PROVE Refilled >= One
    BY DEF Wake
  <2>1. /\ TypeOK /\ One \in Nat /\ MaxAge \in Nat /\ bucket.capacity >= One
        /\ MaxAge * bucket.refill >= One
    BY SettingFacts DEF IInv, Sound
  <2>2. bucket.tokens + age * bucket.refill >= One
    <3>1. CASE age = MaxAge
      <4>1. MaxAge * bucket.refill \in Nat /\ bucket.tokens \in Nat
        BY <2>1, Fields
      <4> QED
        BY <2>1, <3>1, <4>1
    <3>2. CASE bucket.tokens + (age + wait) * bucket.refill >= One
      <4>1. age + wait = age
        BY <2>1, Fields
      <4> QED
        BY <3>2, <4>1
    <3> QED
      BY <3>1, <3>2 DEF IInv, SleepCovers
  <2> QED
    BY <2>1, <2>2, Fields DEF Refilled, Least
<1>2. IInv /\ [Next]_vars => [Wake => Refilled >= One]_vars
  BY <1>1
<1> QED
  BY <1>2, Invariance, PTL DEF Spec, OneSleepIsEnough
=============================================================================
