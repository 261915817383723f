------------------------ MODULE Confirmation_proofs ------------------------
(* Every order reaches Toss as it was previewed, once, in time, from an      *)
(* instance that may send it and within that instance's own guardrails, for  *)
(* any number of instances, settings, previews and arguments.                *)
EXTENDS Confirmation, TLAPS

USE ConfirmationAssumption, SkewAssumption
-----------------------------------------------------------------------------
(* Type correctness. *)

\* The settings of an instance, field by field.
LEMMA SettingFields ==
  ASSUME NEW i \in Instance
  PROVE  /\ Setting[i].mode \in {"read_only", "paper", "live"}
         /\ Setting[i].ttl \in Nat /\ Setting[i].delay \in Nat
         /\ Skew[i] \in Int
BY DEF SettingType

\* A token that was issued keeps what it says; at most its key goes.
TokensStay ==
  \A v \in Preview : token[v] # Unused =>
    /\ token'[v] # Unused
    /\ token'[v].args = token[v].args
    /\ token'[v].by = token[v].by
    /\ token'[v].issued = token[v].issued
    /\ token'[v].key \in {token[v].key, "gone"}

\* The record of a token that was issued.
LEMMA RecordType ==
  ASSUME TypeOK, NEW v \in Preview, token[v] # Unused
  PROVE  /\ token[v] \in Record
         /\ token[v].args \in Argument /\ token[v].by \in Instance
         /\ token[v].issued \in Int /\ IssuedAt(v) \in Int
         /\ IssuedAt(v) = token[v].issued - Skew[token[v].by]
BY DEF TypeOK, Record, IssuedAt

\* The record of a call.
LEMMA CallType ==
  ASSUME TypeOK, NEW i \in Instance, call[i] # Idle
  PROVE  /\ call[i] \in Call /\ call[i].preview \in Preview /\ call[i].started \in Nat
BY DEF TypeOK, Call

\* Issuing a token writes one record where there was none.
LEMMA IssueStep ==
  ASSUME TypeOK, NEW i \in Instance, NEW v \in Preview, NEW a \in Argument,
         token[v] = Unused, IssueToken(i, v, a)
  PROVE  /\ token' \in [Preview -> Record \cup {Unused}]
         /\ token'[v] = [key |-> KeyOf(a), args |-> a, by |-> i, issued |-> Clock(i)]
         /\ \A w \in Preview : w # v => token'[w] = token[w]
         /\ TokensStay
         /\ UNCHANGED <<now, call, wire, made>>
<1>1. [key |-> KeyOf(a), args |-> a, by |-> i, issued |-> Clock(i)] \in Record
  BY SettingFields DEF Record, KeyOf, Clock, TypeOK
<1>2. \A w \in Preview : w # v => token'[w] = token[w]
  BY DEF IssueToken, TypeOK
<1>3. \A w \in Preview : token[w] # Unused => token'[w] = token[w]
  BY <1>2
<1> QED
  BY <1>1, <1>2, <1>3 DEF IssueToken, TypeOK, TokensStay

\* Deleting a token leaves its record readable as history.
LEMMA DeleteStep ==
  ASSUME TypeOK, NEW v \in Preview, token[v] # Unused, Delete(v)
  PROVE  /\ token' \in [Preview -> Record \cup {Unused}]
         /\ TokensStay
         /\ \A w \in Preview : token'[w] # Unused => token[w] # Unused
<1>1. [token[v] EXCEPT !.key = "gone"] \in Record /\ token[v] \in Record
  BY RecordType DEF Record
<1>2. [token[v] EXCEPT !.key = "gone"] # Unused
  BY <1>1 DEF Record, Unused
<1>3. token' = [token EXCEPT ![v] = [token[v] EXCEPT !.key = "gone"]]
  BY DEF Delete
<1>4. token'[v] = [token[v] EXCEPT !.key = "gone"] /\ \A w \in Preview : w # v => token'[w] = token[w]
  BY <1>3 DEF TypeOK
<1>5. /\ token'[v] # Unused /\ token'[v].key = "gone"
      /\ token'[v].args = token[v].args /\ token'[v].by = token[v].by
      /\ token'[v].issued = token[v].issued
  BY <1>1, <1>2, <1>4 DEF Record
<1> QED
  BY <1>1, <1>3, <1>4, <1>5 DEF TypeOK, TokensStay

\* Executing a request counts it at most once more, now.
LEMMA ExecuteStep ==
  ASSUME TypeOK, NEW v \in Preview, Execute(v)
  PROVE  /\ made' \in [Preview -> [count : Nat, last : Nat]]
         /\ \A w \in Preview : w # v => made'[w] = made[w]
         /\ \/ made'[v] = made[v]
            \/ IsNew(v) /\ made'[v] = [count |-> made[v].count + 1, last |-> now]
<1>1. made[v].count \in Nat /\ now \in Nat
  BY DEF TypeOK
<1>2. [count |-> made[v].count + 1, last |-> now] \in [count : Nat, last : Nat]
  BY <1>1
<1> QED
  BY <1>2 DEF Execute, TypeOK

\* A call that succeeds or ends keeps its preview and its start.
LEMMA CallMoves ==
  ASSUME TypeOK, NEW i \in Instance, call[i] # Idle, Succeed(i) \/ Finish(i)
  PROVE  /\ call' \in [Instance -> Call \cup {Idle}]
         /\ \A j \in Instance : call'[j] # Idle =>
              /\ call[j] # Idle
              /\ call'[j].preview = call[j].preview
              /\ call'[j].started = call[j].started
<1>1. [call[i] EXCEPT !.at = "done"] \in Call
  BY CallType DEF Call
<1> QED
  BY <1>1 DEF Succeed, Finish, TypeOK, Call

\* The bounds and the time are numbers.
LEMMA NumberTypes ==
  ASSUME TypeOK
  PROVE  {Window, MaxCall, MaxSkew, Horizon, now} \subseteq Nat
BY DEF TypeOK

CallsHaveTokens == \A i \in Instance : call[i] # Idle => token[call[i].preview] # Unused

TypeInv == TypeOK /\ CallsHaveTokens

\* Every step keeps the types, and a call has a token to look at.
LEMMA StepType ==
  ASSUME TypeInv, [Next]_vars
  PROVE  TypeInv'
<1> USE DEF TypeInv
<1>1. ASSUME NEW v \in Preview, token[v] = Unused, NEW i \in Instance, NEW a \in Argument,
             PreviewOrder(i, v, a) \/ PreviewModify(i, v, a) \/ PreviewConditional(i, v, a)
      PROVE  TypeInv'
  <2>1. IssueToken(i, v, a)
    BY <1>1 DEF PreviewOrder, PreviewModify, PreviewConditional
  <2>2. PICK what \in SUBSET Access : sent' = [from |-> i, what |-> what]
    <3>1. CASE PreviewOrder(i, v, a)
      BY <3>1 DEF PreviewOrder, Asks, Access
    <3>2. CASE PreviewModify(i, v, a)
      BY <3>2 DEF PreviewModify, Asks, Access
    <3>3. CASE PreviewConditional(i, v, a)
      BY <3>3 DEF PreviewConditional, Asks, Access
    <3> QED
      BY <1>1, <3>1, <3>2, <3>3
  <2>3. TypeOK'
    BY <1>1, <2>1, <2>2, IssueStep DEF TypeOK
  <2>4. TokensStay /\ UNCHANGED call
    BY <1>1, <2>1, IssueStep
  <2> QED
    BY <2>3, <2>4, CallType DEF CallsHaveTokens, TokensStay
<1>2. ASSUME NEW i \in Instance, NEW v \in Preview, Begin(i, v) PROVE TypeInv'
  <2>1. [at |-> "checked", preview |-> v, started |-> now] \in Call
    BY NumberTypes DEF Call
  <2>2. TypeOK'
    BY <1>2, <2>1 DEF Begin, TypeOK, Nothing
  <2> QED
    BY <1>2, <2>1, <2>2 DEF Begin, CallsHaveTokens, TypeOK
<1>3. ASSUME NEW i \in Instance, NEW v \in Preview, Discard(i, v) PROVE TypeInv'
  <2>1. TypeOK' /\ TokensStay
    BY <1>3, DeleteStep DEF Discard, TypeOK, Nothing
  <2> QED
    BY <1>3, <2>1, CallType DEF Discard, CallsHaveTokens, TokensStay
<1>4. ASSUME NEW i \in Instance, ReadMarket(i) \/ ReadAccount(i) PROVE TypeInv'
  <2>1. sent' = Nothing \/ \E what \in SUBSET Access : sent' = [from |-> i, what |-> what]
    BY <1>4 DEF ReadMarket, ReadAccount, Asks, Access
  <2>2. TypeOK'
    BY <1>4, <2>1 DEF ReadMarket, ReadAccount, TypeOK, Nothing
  <2> QED
    BY <1>4, <2>2 DEF ReadMarket, ReadAccount, CallsHaveTokens
<1>5. ASSUME NEW i \in Instance, PaperFill(i) \/ Abandon(i) PROVE TypeInv'
  <2>1. /\ call' \in [Instance -> Call \cup {Idle}]
        /\ \A j \in Instance : call'[j] # Idle => call[j] # Idle /\ call'[j].preview = call[j].preview
    BY <1>5, CallMoves DEF PaperFill, Abandon, At
  <2>2. sent' = Nothing \/ \E what \in SUBSET Access : sent' = [from |-> i, what |-> what]
    BY <1>5 DEF PaperFill, Abandon, Asks, Access
  <2>3. TypeOK'
    BY <1>5, <2>1, <2>2 DEF PaperFill, Abandon, TypeOK, Nothing
  <2> QED
    BY <1>5, <2>1, <2>3 DEF PaperFill, Abandon, CallsHaveTokens
<1>6. ASSUME NEW i \in Instance, Submit(i) PROVE TypeInv'
  <2> DEFINE v == call[i].preview
             r == [preview |-> v, until |-> call[i].started + MaxCall]
  <2>1. call[i] # Idle /\ v \in Preview /\ r \in Request
    BY <1>6, CallType, NumberTypes DEF Submit, At, Request
  <2>2. /\ call' \in [Instance -> Call \cup {Idle}]
        /\ \A j \in Instance : call'[j] # Idle => call[j] # Idle /\ call'[j].preview = call[j].preview
    BY <1>6, <2>1, CallMoves DEF Submit
  <2>3. made' \in [Preview -> [count : Nat, last : Nat]]
    BY <1>6, <2>1, ExecuteStep DEF Submit, TypeOK
  <2>4. wire' \subseteq Request
    BY <1>6, <2>1 DEF Submit, TypeOK
  <2>5. sent'.from \in Instance /\ sent'.what \subseteq Access
    BY <1>6 DEF Submit, RequestOf, Access, Submission
  <2>6. TypeOK'
    BY <1>6, <2>2, <2>3, <2>4, <2>5 DEF Submit, TypeOK
  <2> QED
    BY <1>6, <2>2, <2>6 DEF Submit, CallsHaveTokens
<1>7. ASSUME NEW i \in Instance, Commit(i) PROVE TypeInv'
  <2>1. /\ call[i] # Idle /\ call' \in [Instance -> Call \cup {Idle}]
        /\ \A j \in Instance : call'[j] # Idle => call[j] # Idle /\ call'[j].preview = call[j].preview
    BY <1>7, CallMoves DEF Commit, At
  <2>2. token' \in [Preview -> Record \cup {Unused}] /\ TokensStay
    BY <1>7, <2>1, CallType, DeleteStep DEF Commit, CallsHaveTokens
  <2>3. TypeOK'
    BY <1>7, <2>1, <2>2 DEF Commit, TypeOK, Nothing
  <2> QED
    BY <2>1, <2>2, <2>3, CallType DEF CallsHaveTokens, TokensStay
<1>8. ASSUME NEW i \in Instance, NEW symbol \in AppOrder, Cancel(i, symbol) PROVE TypeInv'
  <2>1. sent'.from \in Instance /\ sent'.what \subseteq Access
    BY <1>8 DEF Cancel, Access
  <2>2. TypeOK'
    BY <1>8, <2>1 DEF Cancel, TypeOK
  <2> QED
    BY <1>8, <2>2 DEF Cancel, CallsHaveTokens
<1>9. ASSUME NEW r \in wire, Arrive(r) PROVE TypeInv'
  <2>1. TypeOK'
    BY <1>9, ExecuteStep DEF Arrive, TypeOK, Request, Nothing
  <2> QED
    BY <1>9, <2>1 DEF Arrive, CallsHaveTokens
<1>10. CASE Tick
  <2>1. TypeOK'
    BY <1>10, NumberTypes DEF Tick, TypeOK, Nothing
  <2> QED
    BY <1>10, <2>1 DEF Tick, CallsHaveTokens
<1>11. CASE UNCHANGED vars
  BY <1>11 DEF vars, TypeOK, CallsHaveTokens
<1> QED
  BY <1>1, <1>2, <1>3, <1>4, <1>5, <1>6, <1>7, <1>8, <1>9, <1>10, <1>11 DEF Next

\* Every reachable state is well typed.
THEOREM TypeCorrect == Spec => []TypeOK
<1>1. Init => TypeInv
  BY DEF Init, TypeInv, TypeOK, CallsHaveTokens, Nothing, Idle
<1>2. TypeInv /\ [Next]_vars => TypeInv'
  BY StepType
<1>3. TypeInv => TypeOK
  BY DEF TypeInv
<1> QED
  BY <1>1, <1>2, <1>3, PTL DEF Spec
-----------------------------------------------------------------------------
(* The inductive invariant. *)

Deadline(v) == IssuedAt(v) + Setting[token[v].by].ttl + MaxSkew

\* An issued token has its own prefix until it goes, its arguments were accepted,
\* and its issuer passed the gate when it issued it.
TokenLaw ==
  \A v \in Preview : token[v] # Unused =>
    /\ token[v].key \in {KeyOf(token[v].args), "gone"}
    /\ Valid(token[v].args)
    /\ IssuedAt(v) <= now
    /\ ~IsConditional(token[v].args) /\ Enforces(token[v].by) =>
         IsOpen(Market[token[v].args.currency], token[v].issued % DayLength)

\* What consume() and the second check_guardrails leave true of instance i and
\* the arguments a for the rest of the call.
MayUse(i, a) ==
  /\ Starts(i) /\ Setting[i].mode # "read_only"
  /\ Admits(i, a)
  /\ IsConditional(a) => Setting[i].knowsConditional
  /\ ModifiesStayLive => ~(UsePaper(i) /\ a.modify)

Uses(i, v) == call[i] # Idle /\ call[i].preview = v

\* A call runs for at most MaxCall ticks after a consume() that was in time.
CallLaw ==
  \A i \in Instance, v \in Preview : Uses(i, v) =>
    /\ token[v] # Unused
    /\ call[i].started <= now /\ now <= call[i].started + MaxCall
    /\ call[i].started <= Deadline(v)
    /\ IsLive(i) => call[i].started + Skew[i] - token[v].issued >= Setting[i].delay
    /\ MayUse(i, token[v].args)

WireLaw ==
  \A r \in wire :
    /\ token[r.preview] # Unused
    /\ now <= r.until /\ r.until <= Deadline(r.preview) + MaxCall

MadeLaw ==
  \A v \in Preview :
    /\ made[v].count <= 1
    /\ made[v].count > 0 => token[v] # Unused /\ IssuedAt(v) <= made[v].last /\ made[v].last <= now

IInv == TypeInv /\ TokenLaw /\ CallLaw /\ WireLaw /\ MadeLaw

\* What depends on an issued token only through its record stays.
LEMMA RecordStays ==
  ASSUME TokensStay, NEW v \in Preview, token[v] # Unused
  PROVE  /\ token'[v] # Unused
         /\ token'[v].args = token[v].args /\ token'[v].by = token[v].by
         /\ token'[v].issued = token[v].issued
         /\ IssuedAt(v)' = IssuedAt(v) /\ Deadline(v)' = Deadline(v)
BY DEF TokensStay, IssuedAt, Deadline

\* The deadline is a time.
LEMMA DeadlineType ==
  ASSUME TypeOK, NEW v \in Preview, token[v] # Unused
  PROVE  /\ Deadline(v) \in Int /\ IssuedAt(v) \in Int /\ Setting[token[v].by].ttl \in Nat
         /\ Deadline(v) = IssuedAt(v) + Setting[token[v].by].ttl + MaxSkew
         /\ Deadline(v) + MaxCall < IssuedAt(v) + Window
<1>1. token[v].by \in Instance /\ IssuedAt(v) \in Int /\ {MaxSkew, MaxCall, Window} \subseteq Nat
  BY RecordType
<1>2. Setting[token[v].by].ttl \in Nat
  BY <1>1, SettingFields
<1>3. Setting[token[v].by].ttl + MaxSkew + MaxCall < Window
  BY <1>1, RetryWindowAssumption
<1> QED
  BY <1>1, <1>2, <1>3 DEF Deadline

\* Within the deadline Toss still knows the clientOrderId of what it executed.
LEMMA NewOnlyOnce ==
  ASSUME IInv, NEW v \in Preview, token[v] # Unused, now <= Deadline(v) + MaxCall, IsNew(v)
  PROVE  made[v].count = 0
<1>1. /\ made[v].count \in Nat /\ made[v].last \in Nat /\ now \in Nat /\ MaxCall \in Nat /\ Window \in Nat
  BY NumberTypes DEF IInv, TypeInv, TypeOK
<1>2. made[v].count > 0 => IssuedAt(v) <= made[v].last
  BY DEF IInv, MadeLaw
<1>3. /\ Deadline(v) \in Int /\ IssuedAt(v) \in Int
      /\ Deadline(v) + MaxCall < IssuedAt(v) + Window
  BY DeadlineType DEF IInv, TypeInv
<1> QED
  BY <1>1, <1>2, <1>3 DEF IsNew

\* Executing a request of an issued token within its deadline.
LEMMA ExecuteLaw ==
  ASSUME IInv, NEW v \in Preview, token[v] # Unused, now <= Deadline(v) + MaxCall,
         Execute(v), UNCHANGED <<now, token>>
  PROVE  MadeLaw'
<1>1. TypeOK /\ now \in Nat /\ made[v].count \in Nat
  BY NumberTypes DEF IInv, TypeInv, TypeOK
<1>2. \A w \in Preview : w # v => made'[w] = made[w]
  BY <1>1, ExecuteStep
<1>3. \A w \in Preview : IssuedAt(w)' = IssuedAt(w)
  BY DEF IssuedAt
<1>4. IssuedAt(v) <= now
  BY DEF IInv, TokenLaw
<1>5. CASE made'[v] = made[v]
  BY <1>2, <1>3, <1>5 DEF IInv, MadeLaw
<1>6. CASE IsNew(v) /\ made'[v] = [count |-> made[v].count + 1, last |-> now]
  <2>1. made'[v].count = 1 /\ made'[v].last = now
    BY <1>1, <1>6, NewOnlyOnce
  <2> QED
    BY <1>1, <1>2, <1>3, <1>4, <2>1 DEF IInv, MadeLaw
<1> QED
  BY <1>1, <1>5, <1>6, ExecuteStep

\* Tokens say what they said, none is new.
TokensOnlyGo == TokensStay /\ \A v \in Preview : token'[v] # Unused => token[v] # Unused

\* Calls only move on.
CallsMoveOn ==
  \A j \in Instance : call'[j] # Idle =>
    /\ call[j] # Idle
    /\ call'[j].preview = call[j].preview
    /\ call'[j].started = call[j].started

\* The token law depends on records and on a time that does not run back.
LEMMA TokenLawStays ==
  ASSUME IInv, TokensOnlyGo, now' \in Nat, now <= now'
  PROVE  TokenLaw'
<1> SUFFICES ASSUME NEW v \in Preview, token'[v] # Unused
             PROVE  /\ token'[v].key \in {KeyOf(token'[v].args), "gone"}
                    /\ Valid(token'[v].args)
                    /\ IssuedAt(v)' <= now'
                    /\ ~IsConditional(token'[v].args) /\ Enforces(token'[v].by) =>
                         IsOpen(Market[token'[v].args.currency], token'[v].issued % DayLength)
  BY DEF TokenLaw
<1>1. token[v] # Unused
  BY DEF TokensOnlyGo
<1>2. /\ token'[v].args = token[v].args /\ token'[v].by = token[v].by
      /\ token'[v].issued = token[v].issued
      /\ token'[v].key \in {token[v].key, "gone"}
      /\ IssuedAt(v)' = IssuedAt(v)
  BY <1>1, RecordStays DEF TokensOnlyGo, TokensStay
<1>3. IssuedAt(v) \in Int /\ now \in Nat
  BY <1>1, RecordType, NumberTypes DEF IInv, TypeInv
<1> QED
  BY <1>1, <1>2, <1>3 DEF IInv, TokenLaw

\* A call that moves on is as it was when it began.
LEMMA CallLawStays ==
  ASSUME IInv, TokensStay, CallsMoveOn, UNCHANGED now
  PROVE  CallLaw'
<1> SUFFICES ASSUME NEW j \in Instance, NEW v \in Preview, Uses(j, v)'
             PROVE  /\ token'[v] # Unused
                    /\ call'[j].started <= now' /\ now' <= call'[j].started + MaxCall
                    /\ call'[j].started <= Deadline(v)'
                    /\ IsLive(j) => call'[j].started + Skew[j] - token'[v].issued >= Setting[j].delay
                    /\ MayUse(j, token'[v].args)
  BY DEF CallLaw
<1>1. Uses(j, v) /\ call'[j].started = call[j].started
  BY DEF CallsMoveOn, Uses
<1>2. token[v] # Unused
  BY <1>1 DEF IInv, CallLaw
<1>3. /\ token'[v] # Unused
      /\ token'[v].args = token[v].args
      /\ token'[v].issued = token[v].issued
      /\ Deadline(v)' = Deadline(v)
  BY <1>2, RecordStays
<1> QED
  BY <1>1, <1>3 DEF IInv, CallLaw

\* What is on the wire was sent by a call.
LEMMA WireLawStays ==
  ASSUME IInv, TokensStay, UNCHANGED now, wire' \subseteq wire
  PROVE  WireLaw'
<1> SUFFICES ASSUME NEW r \in wire'
             PROVE  /\ token'[r.preview] # Unused
                    /\ now' <= r.until /\ r.until <= Deadline(r.preview)' + MaxCall
  BY DEF WireLaw
<1>1. r \in wire /\ r.preview \in Preview /\ token[r.preview] # Unused
  BY DEF IInv, TypeInv, TypeOK, Request, WireLaw
<1>2. token'[r.preview] # Unused /\ Deadline(r.preview)' = Deadline(r.preview)
  BY <1>1, RecordStays
<1> QED
  BY <1>1, <1>2 DEF IInv, WireLaw

\* What was executed stays executed.
LEMMA MadeLawStays ==
  ASSUME IInv, TokensStay, UNCHANGED made, now' \in Nat, now <= now'
  PROVE  MadeLaw'
<1> SUFFICES ASSUME NEW v \in Preview
             PROVE  /\ made[v].count <= 1
                    /\ made[v].count > 0 =>
                         token'[v] # Unused /\ IssuedAt(v)' <= made[v].last /\ made[v].last <= now'
  BY DEF MadeLaw
<1>1. made[v].count <= 1
  BY DEF IInv, MadeLaw
<1>2. ASSUME made[v].count > 0
      PROVE  token'[v] # Unused /\ IssuedAt(v)' <= made[v].last /\ made[v].last <= now'
  <2>1. token[v] # Unused /\ IssuedAt(v) <= made[v].last /\ made[v].last <= now
    BY <1>2 DEF IInv, MadeLaw
  <2>2. token'[v] # Unused /\ IssuedAt(v)' = IssuedAt(v)
    BY <2>1, RecordStays
  <2>3. made[v].last \in Nat /\ now \in Nat
    BY NumberTypes DEF IInv, TypeInv, TypeOK
  <2> QED
    BY <2>1, <2>2, <2>3
<1> QED
  BY <1>1, <1>2

\* A step that only moves calls on and deletes tokens.
LEMMA QuietStep ==
  ASSUME IInv, TypeInv', TokensOnlyGo, CallsMoveOn, UNCHANGED <<now, made>>, wire' \subseteq wire
  PROVE  IInv'
<1>1. TokensStay /\ now \in Nat /\ now <= now'
  BY NumberTypes DEF TokensOnlyGo, IInv, TypeInv
<1> QED
  BY <1>1, TokenLawStays, CallLawStays, WireLawStays, MadeLawStays DEF IInv

\* A preview writes a record that its own checks passed.
LEMMA PreviewInv ==
  ASSUME IInv, TypeInv', NEW i \in Instance, NEW v \in Preview, NEW a \in Argument, token[v] = Unused,
         PreviewOrder(i, v, a) \/ PreviewModify(i, v, a) \/ PreviewConditional(i, v, a)
  PROVE  IInv'
<1>1. /\ TypeOK /\ now \in Nat /\ IssueToken(i, v, a) /\ Valid(a)
      /\ ~IsConditional(a) => GatePasses(i, a)
  BY NumberTypes DEF IInv, TypeInv, PreviewOrder, PreviewModify, PreviewConditional
<1>2. /\ token'[v] = [key |-> KeyOf(a), args |-> a, by |-> i, issued |-> Clock(i)]
      /\ \A w \in Preview : w # v => token'[w] = token[w]
      /\ TokensStay /\ UNCHANGED <<now, call, wire, made>>
  BY <1>1, IssueStep
<1>3. TokenLaw'
  <2> SUFFICES ASSUME NEW w \in Preview, token'[w] # Unused
               PROVE  /\ token'[w].key \in {KeyOf(token'[w].args), "gone"}
                      /\ Valid(token'[w].args)
                      /\ IssuedAt(w)' <= now'
                      /\ ~IsConditional(token'[w].args) /\ Enforces(token'[w].by) =>
                           IsOpen(Market[token'[w].args.currency], token'[w].issued % DayLength)
    BY DEF TokenLaw
  <2>1. CASE w = v
    <3>1. IssuedAt(v)' = now
      BY <1>1, <1>2, SettingFields DEF IssuedAt, Clock
    <3> QED
      BY <1>1, <1>2, <2>1, <3>1 DEF GatePasses
  <2>2. CASE w # v
    <3>1. token'[w] = token[w] /\ IssuedAt(w)' = IssuedAt(w)
      BY <1>2, <2>2 DEF IssuedAt
    <3> QED
      BY <1>2, <3>1 DEF IInv, TokenLaw
  <2> QED
    BY <2>1, <2>2
<1>4. CallLaw' /\ WireLaw' /\ MadeLaw'
  <2>1. CallsMoveOn
    BY <1>2 DEF CallsMoveOn
  <2> QED
    BY <1>1, <1>2, <2>1, CallLawStays, WireLawStays, MadeLawStays
<1> QED
  BY <1>3, <1>4 DEF IInv

\* place_order and modify_order are tools of an instance that starts and writes.
LEMMA OffersWrite ==
  ASSUME NEW i \in Instance, NEW v, Offers(i, ToolOf(v))
  PROVE  Starts(i) /\ Setting[i].mode # "read_only"
<1>1. ToolOf(v) \in {"modify_order", "place_order"}
  BY DEF ToolOf
<1> QED
  BY <1>1 DEF Offers, MarketReads, AccountReads

\* consume() is in time, and a build finds a conditional token only if it knows
\* conditional orders.
LEMMA BeginFacts ==
  ASSUME IInv, NEW i \in Instance, NEW v \in Preview, Begin(i, v)
  PROVE  /\ token[v] # Unused
         /\ now <= Deadline(v)
         /\ IsLive(i) => now + Skew[i] - token[v].issued >= Setting[i].delay
         /\ MayUse(i, token[v].args)
<1>1. /\ token[v] # Unused /\ Offers(i, ToolOf(v)) /\ Readable(i, v) /\ Fresh(i, v) /\ WaitedEnough(i, v)
      /\ AdmitsAgain(i, v) /\ (ModifiesStayLive => ~(UsePaper(i) /\ token[v].args.modify))
  BY DEF Begin
<1>2. TypeOK /\ now \in Nat /\ MaxSkew \in Nat
  BY NumberTypes DEF IInv, TypeInv
<1>3. now <= Deadline(v)
  <2>1. /\ token[v].by \in Instance /\ token[v].issued \in Int
        /\ IssuedAt(v) = token[v].issued - Skew[token[v].by]
    BY <1>1, <1>2, RecordType
  <2>2. /\ Skew[i] \in Int /\ Skew[token[v].by] \in Int /\ Setting[token[v].by].ttl \in Nat
        /\ Skew[token[v].by] - Skew[i] <= MaxSkew
    BY <2>1, SettingFields
  <2>3. now + Skew[i] <= token[v].issued + Setting[token[v].by].ttl
    BY <1>1 DEF Fresh, Clock
  <2> QED
    BY <1>2, <2>1, <2>2, <2>3 DEF Deadline
<1>4. IsConditional(token[v].args) => Setting[i].knowsConditional
  BY <1>1 DEF Readable, IInv, TokenLaw, KeyOf
<1>5. MayUse(i, token[v].args)
  <2>1. Starts(i) /\ Setting[i].mode # "read_only"
    BY <1>1, OffersWrite
  <2> QED
    BY <1>1, <1>4, <2>1 DEF MayUse, AdmitsAgain
<1>6. IsLive(i) => now + Skew[i] - token[v].issued >= Setting[i].delay
  <2>1. token[v].issued \in Int /\ Skew[i] \in Int /\ Setting[i].delay \in Nat
    BY <1>1, <1>2, RecordType, SettingFields
  <2>2. CASE IsLive(i)
    <3>1. Clock(i) - token[v].issued >= Setting[i].delay
      BY <1>1, <2>2 DEF WaitedEnough
    <3> QED
      BY <1>2, <2>1, <3>1 DEF Clock
  <2>3. CASE ~IsLive(i)
    BY <2>3
  <2> QED
    BY <2>2, <2>3
<1> QED
  BY <1>1, <1>3, <1>5, <1>6

\* A call begins within every bound.
LEMMA BeginInv ==
  ASSUME IInv, TypeInv', NEW i \in Instance, NEW v \in Preview, Begin(i, v)
  PROVE  IInv'
<1>1. /\ call'[i] = [at |-> "checked", preview |-> v, started |-> now]
      /\ \A j \in Instance : j # i => call'[j] = call[j]
      /\ UNCHANGED <<now, token, wire, made>>
  BY DEF Begin, IInv, TypeInv, TypeOK
<1>2. TokensOnlyGo /\ TokensStay /\ now \in Nat /\ MaxCall \in Nat /\ now <= now'
  BY <1>1, NumberTypes DEF TokensOnlyGo, TokensStay, IInv, TypeInv
<1>3. TokenLaw' /\ WireLaw' /\ MadeLaw'
  BY <1>1, <1>2, TokenLawStays, WireLawStays, MadeLawStays
<1>4. CallLaw'
  <2> SUFFICES ASSUME NEW j \in Instance, NEW w \in Preview, Uses(j, w)'
               PROVE  /\ token'[w] # Unused
                      /\ call'[j].started <= now' /\ now' <= call'[j].started + MaxCall
                      /\ call'[j].started <= Deadline(w)'
                      /\ IsLive(j) => call'[j].started + Skew[j] - token'[w].issued >= Setting[j].delay
                      /\ MayUse(j, token'[w].args)
    BY DEF CallLaw
  <2>1. Deadline(w)' = Deadline(w)
    BY <1>1 DEF Deadline, IssuedAt
  <2>2. CASE j = i
    <3>1. w = v
      BY <1>1, <2>2 DEF Uses
    <3> QED
      BY <1>1, <1>2, <2>1, <2>2, <3>1, BeginFacts
  <2>3. CASE j # i
    <3>1. Uses(j, w) /\ call'[j].started = call[j].started
      BY <1>1, <2>3 DEF Uses
    <3> QED
      BY <1>1, <2>1, <3>1 DEF IInv, CallLaw
  <2> QED
    BY <2>2, <2>3
<1> QED
  BY <1>3, <1>4 DEF IInv

\* What a call may rely on when it sends.
LEMMA CallFacts ==
  ASSUME IInv, NEW i \in Instance, NEW v \in Preview, Uses(i, v)
  PROVE  /\ token[v] # Unused /\ MayUse(i, token[v].args)
         /\ call[i].started \in Nat /\ now \in Nat /\ MaxCall \in Nat /\ Deadline(v) \in Int
         /\ now <= call[i].started + MaxCall /\ call[i].started <= now
         /\ call[i].started <= Deadline(v) /\ now <= Deadline(v) + MaxCall
         /\ IsLive(i) => call[i].started + Skew[i] - token[v].issued >= Setting[i].delay
<1>1. /\ token[v] # Unused /\ MayUse(i, token[v].args)
      /\ call[i].started <= now /\ now <= call[i].started + MaxCall
      /\ call[i].started <= Deadline(v)
      /\ IsLive(i) => call[i].started + Skew[i] - token[v].issued >= Setting[i].delay
  BY DEF IInv, CallLaw
<1>2. /\ call[i].started \in Nat /\ now \in Nat /\ MaxCall \in Nat /\ Deadline(v) \in Int
  BY <1>1, CallType, NumberTypes, DeadlineType DEF Uses, IInv, TypeInv
<1> QED
  BY <1>1, <1>2

\* A request leaves, is executed or not, or stays on the wire.
LEMMA SubmitInv ==
  ASSUME IInv, TypeInv', NEW i \in Instance, Submit(i)
  PROVE  IInv'
<1> DEFINE v == call[i].preview
           r == [preview |-> v, until |-> call[i].started + MaxCall]
<1>1. /\ TypeOK /\ call[i] # Idle /\ v \in Preview /\ Uses(i, v)
      /\ Succeed(i) \/ Finish(i)
      /\ UNCHANGED <<now, token>>
  BY CallType DEF Submit, At, Uses, IInv, TypeInv
<1>2. CallsMoveOn
  BY <1>1, CallMoves DEF CallsMoveOn
<1>3. TokensOnlyGo /\ TokensStay /\ now \in Nat /\ now <= now'
  BY <1>1, NumberTypes DEF TokensOnlyGo, TokensStay
<1>4. TokenLaw' /\ CallLaw'
  BY <1>1, <1>2, <1>3, TokenLawStays, CallLawStays
<1>5. token[v] # Unused /\ now <= Deadline(v) + MaxCall
  BY <1>1, CallFacts
<1>6. MadeLaw'
  <2>1. CASE Execute(v)
    BY <1>1, <1>5, <2>1, ExecuteLaw
  <2>2. CASE UNCHANGED made
    BY <1>1, <1>3, <2>2, MadeLawStays
  <2> QED
    BY <2>1, <2>2 DEF Submit
<1>7. WireLaw'
  <2>1. CASE UNCHANGED wire
    BY <1>1, <1>3, <2>1, WireLawStays
  <2>2. CASE wire' = wire \cup {r}
    <3>1. /\ now <= r.until /\ r.until <= Deadline(v) + MaxCall
      BY <1>1, CallFacts
    <3>2. \A w \in Preview : Deadline(w)' = Deadline(w)
      BY <1>1 DEF Deadline, IssuedAt
    <3>3. \A x \in wire : x.preview \in Preview
      BY <1>1 DEF TypeOK, Request
    <3> QED
      BY <1>1, <1>5, <2>2, <3>1, <3>2, <3>3 DEF WireLaw, IInv
  <2> QED
    BY <2>1, <2>2 DEF Submit
<1> QED
  BY <1>4, <1>6, <1>7 DEF IInv

\* A request on the wire arrives within its time.
LEMMA ArriveInv ==
  ASSUME IInv, TypeInv', NEW r \in wire, Arrive(r)
  PROVE  IInv'
<1>1. /\ TypeOK /\ r.preview \in Preview /\ token[r.preview] # Unused /\ Execute(r.preview)
      /\ UNCHANGED <<now, token, call>> /\ wire' \subseteq wire
  BY DEF IInv, TypeInv, TypeOK, Request, WireLaw, Arrive
<1>2. now <= Deadline(r.preview) + MaxCall
  <2>1. /\ now <= r.until /\ r.until <= Deadline(r.preview) + MaxCall
    BY DEF IInv, WireLaw
  <2>2. r.until \in Nat /\ now \in Nat /\ Deadline(r.preview) \in Int /\ MaxCall \in Nat
    BY <1>1, NumberTypes, DeadlineType DEF TypeOK, Request
  <2> QED
    BY <2>1, <2>2
<1>3. TokensOnlyGo /\ TokensStay /\ CallsMoveOn /\ now \in Nat /\ now <= now'
  BY <1>1, NumberTypes DEF TokensOnlyGo, TokensStay, CallsMoveOn
<1>4. MadeLaw'
  BY <1>1, <1>2, ExecuteLaw
<1> QED
  BY <1>1, <1>3, <1>4, TokenLawStays, CallLawStays, WireLawStays DEF IInv

\* Time waits for the calls, and what is on the wire too long is lost.
LEMMA TickInv ==
  ASSUME IInv, TypeInv', Tick
  PROVE  IInv'
<1>1. /\ now \in Nat /\ now' = now + 1 /\ now' \in Nat /\ now <= now'
      /\ MaxCall \in Nat /\ UNCHANGED <<token, call, made>>
  BY NumberTypes DEF Tick, IInv, TypeInv
<1>2. TokensOnlyGo /\ TokensStay /\ \A v \in Preview : Deadline(v)' = Deadline(v)
  BY <1>1 DEF TokensOnlyGo, TokensStay, Deadline, IssuedAt
<1>3. CallLaw'
  <2> SUFFICES ASSUME NEW j \in Instance, NEW v \in Preview, Uses(j, v)
               PROVE  /\ token[v] # Unused
                      /\ call[j].started <= now' /\ now' <= call[j].started + MaxCall
                      /\ call[j].started <= Deadline(v)
                      /\ IsLive(j) => call[j].started + Skew[j] - token[v].issued >= Setting[j].delay
                      /\ MayUse(j, token[v].args)
    BY <1>1, <1>2 DEF CallLaw, Uses
  <2>1. now < call[j].started + MaxCall
    BY DEF Tick, Uses
  <2> QED
    BY <1>1, <2>1, CallFacts
<1>4. WireLaw'
  <2> SUFFICES ASSUME NEW r \in wire, now < r.until
               PROVE  token[r.preview] # Unused /\ now' <= r.until
                      /\ r.until <= Deadline(r.preview) + MaxCall
    <3>1. \A r \in wire : r.preview \in Preview
      BY DEF IInv, TypeInv, TypeOK, Request
    <3> QED
      BY <1>1, <1>2, <3>1 DEF WireLaw, Tick
  <2>1. r.until \in Nat
    BY DEF IInv, TypeInv, TypeOK, Request
  <2> QED
    BY <1>1, <2>1 DEF IInv, WireLaw
<1> QED
  BY <1>1, <1>2, <1>3, <1>4, TokenLawStays, MadeLawStays DEF IInv

\* The initial state satisfies the inductive invariant.
LEMMA InitInv ==
  ASSUME Init
  PROVE  IInv
BY DEF Init, IInv, TypeInv, TypeOK, CallsHaveTokens, Nothing, Idle, TokenLaw, CallLaw, Uses,
       WireLaw, MadeLaw

\* Every step keeps the inductive invariant.
LEMMA StepInv ==
  ASSUME IInv, [Next]_vars
  PROVE  IInv'
<1>1. TypeInv' /\ TypeOK
  BY StepType DEF IInv, TypeInv
<1>2. ASSUME NEW v \in Preview, token[v] = Unused, NEW i \in Instance, NEW a \in Argument,
             PreviewOrder(i, v, a) \/ PreviewModify(i, v, a) \/ PreviewConditional(i, v, a)
      PROVE  IInv'
  BY <1>1, <1>2, PreviewInv
<1>3. ASSUME NEW i \in Instance, NEW v \in Preview, Begin(i, v) PROVE IInv'
  BY <1>1, <1>3, BeginInv
<1>4. ASSUME NEW i \in Instance, NEW v \in Preview, Discard(i, v) PROVE IInv'
  <2>1. TokensOnlyGo
    BY <1>1, <1>4, DeleteStep DEF Discard, TokensOnlyGo
  <2> QED
    BY <1>1, <1>4, <2>1, QuietStep DEF Discard, CallsMoveOn
<1>5. ASSUME NEW i \in Instance, PaperFill(i) \/ Abandon(i) PROVE IInv'
  <2>1. CallsMoveOn
    BY <1>1, <1>5, CallMoves DEF PaperFill, Abandon, At, CallsMoveOn
  <2>2. UNCHANGED <<now, token, wire, made>>
    BY <1>5 DEF PaperFill, Abandon
  <2> QED
    BY <1>1, <2>1, <2>2, QuietStep DEF TokensOnlyGo, TokensStay
<1>6. ASSUME NEW i \in Instance, Submit(i) PROVE IInv'
  BY <1>1, <1>6, SubmitInv
<1>7. ASSUME NEW i \in Instance, Commit(i) PROVE IInv'
  <2>1. call[i] # Idle /\ call[i].preview \in Preview /\ token[call[i].preview] # Unused
    BY <1>1, <1>7, CallType DEF Commit, At, IInv, TypeInv, CallsHaveTokens
  <2>2. TokensOnlyGo
    BY <1>1, <1>7, <2>1, DeleteStep DEF Commit, TokensOnlyGo
  <2>3. CallsMoveOn
    BY <1>1, <1>7, <2>1, CallMoves DEF Commit, CallsMoveOn
  <2> QED
    BY <1>1, <1>7, <2>2, <2>3, QuietStep DEF Commit
<1>8. ASSUME UNCHANGED <<now, token, call, wire, made>> PROVE IInv'
  BY <1>1, <1>8, QuietStep DEF TokensOnlyGo, TokensStay, CallsMoveOn
<1>9. ASSUME NEW r \in wire, Arrive(r) PROVE IInv'
  BY <1>1, <1>9, ArriveInv
<1>10. CASE Tick
  BY <1>1, <1>10, TickInv
<1> QED
  BY <1>2, <1>3, <1>4, <1>5, <1>6, <1>7, <1>8, <1>9, <1>10
     DEF Next, vars, ReadMarket, ReadAccount, Cancel

\* The inductive invariant holds in every reachable state.
THEOREM Invariance == Spec => []IInv
<1>1. Init => IInv
  BY InitInv
<1>2. IInv /\ [Next]_vars => IInv'
  BY StepInv
<1> QED
  BY <1>1, <1>2, PTL DEF Spec

\* However often and by whomever a token is retried, its order is executed at
\* most once: a retry that consume() still admits meets a clientOrderId that
\* Toss still knows.
THEOREM AtMostOnce == Spec => []ExecutedOnce
<1>1. IInv => ExecutedOnce
  BY DEF IInv, MadeLaw, ExecutedOnce
<1> QED
  BY <1>1, Invariance, PTL
-----------------------------------------------------------------------------
(* What is asked of Toss. *)

\* A step that asks for nothing, or for data.
AsksForData == sent' = Nothing \/ \E i \in Instance, what \in SUBSET {"market", "account"} :
                                    sent' = [from |-> i, what |-> what]

\* A step asks for data, cancels or submits.
LEMMA StepAsks ==
  ASSUME Next
  PROVE  \/ AsksForData
         \/ \E i \in Instance, symbol \in AppOrder : Cancel(i, symbol)
         \/ \E i \in Instance : Submit(i)
<1>1. ASSUME NEW v \in Preview, NEW i \in Instance, NEW a \in Argument,
             PreviewOrder(i, v, a) \/ PreviewModify(i, v, a) \/ PreviewConditional(i, v, a)
      PROVE  AsksForData
  <2>1. CASE PreviewOrder(i, v, a)
    BY <2>1 DEF PreviewOrder, Asks, AsksForData
  <2>2. CASE PreviewModify(i, v, a)
    BY <2>2 DEF PreviewModify, Asks, AsksForData
  <2>3. CASE PreviewConditional(i, v, a)
    BY <2>3 DEF PreviewConditional, Asks, AsksForData
  <2> QED
    BY <1>1, <2>1, <2>2, <2>3
<1>2. ASSUME NEW i \in Instance, NEW v \in Preview, Begin(i, v) \/ Discard(i, v) PROVE AsksForData
  BY <1>2 DEF Begin, Discard, AsksForData
<1>3. ASSUME NEW i \in Instance, ReadMarket(i) PROVE AsksForData
  BY <1>3 DEF ReadMarket, Asks, AsksForData
<1>4. ASSUME NEW i \in Instance, ReadAccount(i) PROVE AsksForData
  BY <1>4 DEF ReadAccount, Asks, AsksForData
<1>5. ASSUME NEW i \in Instance, PaperFill(i) PROVE AsksForData
  BY <1>5 DEF PaperFill, Asks, AsksForData
<1>6. ASSUME NEW i \in Instance, Abandon(i) \/ Commit(i) PROVE AsksForData
  BY <1>6 DEF Abandon, Commit, AsksForData
<1>7. ASSUME NEW r \in wire, Arrive(r) PROVE AsksForData
  BY <1>7 DEF Arrive, AsksForData
<1>8. CASE Tick
  BY <1>8 DEF Tick, AsksForData
<1> QED
  BY <1>1, <1>2, <1>3, <1>4, <1>5, <1>6, <1>7, <1>8 DEF Next

\* Data is not an order and not a cancel.
LEMMA DataIsNoOrder ==
  ASSUME AsksForData
  PROVE  ~Submitted' /\ "cancel" \notin sent'.what
<1>1. PICK what \in SUBSET {"market", "account"} : sent'.what = what
  <2>1. CASE sent' = Nothing
    BY <2>1 DEF Nothing
  <2>2. CASE \E i \in Instance, what \in SUBSET {"market", "account"} :
               sent' = [from |-> i, what |-> what]
    BY <2>2
  <2> QED
    BY <2>1, <2>2 DEF AsksForData
<1>2. "cancel" \notin what /\ what \cap Submission = {}
  BY DEF Submission
<1>3. Submitted' <=> sent'.what \cap Submission # {}
  BY DEF Submitted
<1> QED
  BY <1>1, <1>2, <1>3

\* Only Submit asks for an order.
LEMMA OnlySubmit ==
  ASSUME Next, Submitted'
  PROVE  \E i \in Instance : Submit(i)
<1>1. ASSUME NEW i \in Instance, NEW symbol \in AppOrder, Cancel(i, symbol) PROVE FALSE
  <2>1. sent'.what = {"account", "cancel"}
    BY <1>1 DEF Cancel
  <2> QED
    BY <2>1 DEF Submitted, Submission
<1> QED
  BY <1>1, StepAsks, DataIsNoOrder

\* Submit asks with the record of a token that the call may use.
LEMMA SubmitFacts ==
  ASSUME IInv, NEW i \in Instance, Submit(i)
  PROVE  /\ call[i].preview \in Preview /\ Uses(i, call[i].preview)
         /\ UNCHANGED <<now, token>>
         /\ sent'.from = i /\ sent'.preview = call[i].preview /\ sent'.what = {RequestOf(i)}
         /\ token[call[i].preview] # Unused
         /\ MayUse(i, token[call[i].preview].args)
         /\ MayReachBroker(i) /\ ~FillsPaper(i)
<1>1. call[i] # Idle /\ call[i].preview \in Preview
  BY CallType DEF Submit, At, IInv, TypeInv
<1>2. sent' = [from |-> i, what |-> {RequestOf(i)}, preview |-> call[i].preview]
  BY DEF Submit
<1> QED
  BY <1>1, <1>2, CallFacts DEF Submit, Uses

\* Whoever made the preview, what is submitted or cancelled passes the guardrails
\* of the instance that asks: place_order's second check_guardrails, and
\* check_symbol before a cancel.
THEOREM GuardrailsAlwaysHold == Spec => []GuardrailsHold
<1>1. Init => GuardrailsHold
  BY DEF Init, GuardrailsHold, Submitted, Nothing
<1>2. IInv /\ GuardrailsHold /\ [Next]_vars => GuardrailsHold'
  <2> SUFFICES ASSUME IInv, GuardrailsHold, [Next]_vars PROVE GuardrailsHold'
    OBVIOUS
  <2>1. CASE AsksForData
    BY <2>1, DataIsNoOrder DEF GuardrailsHold
  <2>2. ASSUME NEW i \in Instance, NEW symbol \in AppOrder, Cancel(i, symbol) PROVE GuardrailsHold'
    <3>1. /\ sent'.what = {"account", "cancel"} /\ sent'.from = i /\ sent'.symbol = symbol
          /\ AdmitsSymbol(i, symbol)
      BY <2>2 DEF Cancel
    <3>2. ~Submitted'
      BY <3>1 DEF Submitted, Submission
    <3> QED
      BY <3>1, <3>2 DEF GuardrailsHold
  <2>3. ASSUME NEW i \in Instance, Submit(i) PROVE GuardrailsHold'
    <3>1. sent'.from = i /\ Admits(i, token'[sent'.preview].args)
      BY <2>3, SubmitFacts DEF MayUse
    <3>2. "cancel" \notin sent'.what
      <4>1. RequestOf(i) \in Submission /\ sent'.what = {RequestOf(i)}
        BY <2>3, SubmitFacts DEF RequestOf, Submission
      <4> QED
        BY <4>1 DEF Submission
    <3> QED
      BY <3>1, <3>2 DEF GuardrailsHold
  <2>4. CASE UNCHANGED vars
    BY <2>4 DEF vars, GuardrailsHold, Submitted
  <2> QED
    BY <2>1, <2>2, <2>3, <2>4, StepAsks
<1> QED
  BY <1>1, <1>2, Invariance, PTL DEF Spec

\* A retried, delayed or handed over token reaches Toss neither after its issuer's
\* ttl nor, from a live instance, before the delay, as far as clocks agree.
THEOREM AlwaysConfirmedInTime == Spec => []ConfirmedInTime
<1>1. Init => ConfirmedInTime
  BY DEF Init, ConfirmedInTime, Submitted, Nothing
<1>2. IInv /\ ConfirmedInTime /\ [Next]_vars => ConfirmedInTime'
  <2> SUFFICES ASSUME IInv, ConfirmedInTime, [Next]_vars PROVE ConfirmedInTime'
    OBVIOUS
  <2>1. CASE UNCHANGED vars
    BY <2>1 DEF vars, ConfirmedInTime, Submitted, IssuedAt
  <2>2. CASE ~Submitted'
    BY <2>2 DEF ConfirmedInTime
  <2>3. ASSUME NEW i \in Instance, Submit(i) PROVE ConfirmedInTime'
    <3> PICK v \in Preview : v = call[i].preview
      BY <2>3, SubmitFacts
    <3>1. /\ Uses(i, v) /\ UNCHANGED <<now, token>>
          /\ sent'.from = i /\ sent'.preview = v
      BY <2>3, SubmitFacts
    <3>2. /\ token[v] # Unused
          /\ call[i].started \in Nat /\ now \in Nat /\ MaxCall \in Nat
          /\ call[i].started <= now /\ now <= Deadline(v) + MaxCall
          /\ IsLive(i) => call[i].started + Skew[i] - token[v].issued >= Setting[i].delay
      BY <3>1, CallFacts
    <3>3. /\ token[v].by \in Instance /\ token[v].issued \in Int /\ IssuedAt(v) \in Int
          /\ IssuedAt(v) = token[v].issued - Skew[token[v].by]
          /\ Setting[token[v].by].ttl \in Nat /\ MaxSkew \in Nat
          /\ Deadline(v) = IssuedAt(v) + Setting[token[v].by].ttl + MaxSkew
      BY <3>1, <3>2, RecordType, DeadlineType, NumberTypes DEF IInv, TypeInv
    <3>4. now - IssuedAt(v) <= Setting[token[v].by].ttl + MaxSkew + MaxCall
      BY <3>2, <3>3
    <3>5. CASE IsLive(i)
      <4>1. /\ Skew[i] \in Int /\ Skew[token[v].by] \in Int /\ Setting[i].delay \in Nat
            /\ Skew[i] - Skew[token[v].by] <= MaxSkew
        BY <3>3, SettingFields
      <4>2. call[i].started + Skew[i] - token[v].issued >= Setting[i].delay
        BY <3>2, <3>5
      <4>3. now - IssuedAt(v) >= Setting[i].delay - MaxSkew
        BY <3>2, <3>3, <4>1, <4>2
      <4> QED
        BY <3>1, <3>4, <4>3 DEF ConfirmedInTime, IssuedAt
    <3>6. CASE ~IsLive(i)
      <4>1. ~IsLive(sent'.from)
        BY <3>1, <3>6
      <4>2. IssuedAt(v)' = IssuedAt(v)
        BY <3>1 DEF IssuedAt
      <4>3. now' - IssuedAt(v)' <= Setting[token'[v].by].ttl + MaxSkew + MaxCall
        BY <3>1, <3>4, <4>2
      <4> QED
        BY <3>1, <4>1, <4>3 DEF ConfirmedInTime
    <3> QED
      BY <3>5, <3>6
  <2> QED
    BY <2>1, <2>2, <2>3, OnlySubmit
<1> QED
  BY <1>1, <1>2, Invariance, PTL DEF Spec

KnownKinds == \A a \in Argument : a.kind \in {"order", "conditional"} /\ a.modify \in BOOLEAN

\* Old and new builds on one redis: what an instance submits is of the kind that
\* the token was made for, because no build reads a prefix it does not know.
THEOREM AlwaysAsPreviewed ==
  ASSUME KnownKinds
  PROVE  Spec => []AsPreviewed
<1>1. Init => AsPreviewed
  <2>1. Init => ~Submitted
    BY DEF Init, Submitted, Nothing
  <2> QED
    BY <2>1 DEF AsPreviewed
<1>2. IInv /\ AsPreviewed /\ [Next]_vars => AsPreviewed'
  <2> SUFFICES ASSUME IInv, AsPreviewed, [Next]_vars PROVE AsPreviewed'
    OBVIOUS
  <2>1. CASE UNCHANGED vars
    BY <2>1 DEF vars, AsPreviewed, Submitted
  <2>2. CASE ~Submitted'
    BY <2>2 DEF AsPreviewed
  <2>3. ASSUME NEW i \in Instance, Submit(i) PROVE AsPreviewed'
    <3> DEFINE a == token[call[i].preview].args
    <3>1. /\ sent'.preview = call[i].preview /\ sent'.what = {RequestOf(i)} /\ UNCHANGED token
          /\ MayUse(i, a) /\ call[i].preview \in Preview /\ token[call[i].preview] # Unused
      BY <2>3, SubmitFacts
    <3>2. a \in Argument
      BY <3>1, RecordType DEF IInv, TypeInv
    <3>3. a.kind \in {"order", "conditional"} /\ a.modify \in BOOLEAN
      BY <3>2 DEF KnownKinds
    <3>4. RunsConditional(i) <=> a.kind = "conditional"
      BY <3>1 DEF RunsConditional, IsConditional, MayUse
    <3>5. RequestOf(i) = CASE a.kind = "order" /\ ~a.modify -> "order"
                           [] a.kind = "order" /\ a.modify -> "modify"
                           [] a.kind = "conditional" /\ ~a.modify -> "conditional"
                           [] a.kind = "conditional" /\ a.modify -> "conditional modify"
      BY <3>3, <3>4 DEF RequestOf
    <3> QED
      BY <3>1, <3>5 DEF AsPreviewed
  <2> QED
    BY <2>1, <2>2, <2>3, OnlySubmit
<1> QED
  BY <1>1, <1>2, Invariance, PTL DEF Spec

\* What the mode of an instance lets it ask.
LEMMA Allowances ==
  ASSUME NEW i \in Instance, Starts(i), sent' # Nothing, sent'.from = i,
         \/ sent'.what \subseteq {"market"}
         \/ sent'.what \subseteq {"market", "account"} /\ ~UsePaper(i)
         \/ sent'.what \subseteq Access /\ ~UsePaper(i) /\ Setting[i].mode # "read_only"
  PROVE  ModeTable'
<1>1. Setting[i].mode \in {"read_only", "paper", "live"}
  BY SettingFields
<1>2. sent'.what \subseteq MayAsk(i)
  <2>1. CASE Setting[i].mode = "paper"
    BY <2>1 DEF MayAsk, UsePaper, IsLive
  <2>2. CASE Setting[i].mode = "read_only"
    BY <2>2 DEF MayAsk, IsLive
  <2>3. CASE Setting[i].mode = "live"
    BY <2>3 DEF MayAsk, IsLive, Starts, Access
  <2> QED
    BY <1>1, <2>1, <2>2, <2>3
<1> QED
  BY <1>2 DEF ModeTable

\* The mode table of the documentation, as long as no modify token is used on a
\* paper instance.
THEOREM ModeTableHolds ==
  ASSUME ModifiesStayLive
  PROVE  Spec => []ModeTable
<1>1. Init => ModeTable
  BY DEF Init, ModeTable
<1>2. IInv /\ ModeTable /\ [Next]_vars => ModeTable'
  <2> SUFFICES ASSUME IInv, ModeTable, [Next]_vars PROVE ModeTable'
    OBVIOUS
  <2>1. CASE sent' = Nothing
    BY <2>1 DEF ModeTable
  <2>2. CASE UNCHANGED vars
    BY <2>2 DEF vars, ModeTable
  <2> SUFFICES ASSUME Next, sent' # Nothing PROVE ModeTable'
    BY <2>1, <2>2
  <2>3. ASSUME NEW v \in Preview, NEW i \in Instance, NEW a \in Argument,
               PreviewOrder(i, v, a) \/ PreviewModify(i, v, a) \/ PreviewConditional(i, v, a)
        PROVE  ModeTable'
    <3>1. CASE PreviewOrder(i, v, a)
      <4>1. sent' = [from |-> i, what |-> {"market"}] /\ Starts(i)
        BY <3>1 DEF PreviewOrder, Offers, Asks
      <4> QED
        BY <4>1, Allowances
    <3>2. CASE PreviewModify(i, v, a)
      <4>1. sent' = [from |-> i, what |-> {"market", "account"}] /\ Starts(i) /\ ~UsePaper(i)
        BY <3>2 DEF PreviewModify, Offers, Asks
      <4> QED
        BY <4>1, Allowances
    <3>3. CASE PreviewConditional(i, v, a)
      <4>1. /\ sent'.from = i /\ sent'.what \subseteq {"market", "account"}
            /\ Starts(i) /\ ~UsePaper(i)
        BY <3>3 DEF PreviewConditional, Offers, Asks
      <4> QED
        BY <4>1, Allowances
    <3> QED
      BY <2>3, <3>1, <3>2, <3>3
  <2>4. ASSUME NEW i \in Instance, NEW v \in Preview, Begin(i, v) \/ Discard(i, v) PROVE FALSE
    BY <2>4 DEF Begin, Discard
  <2>5. ASSUME NEW i \in Instance, ReadMarket(i) PROVE ModeTable'
    BY <2>5, Allowances DEF ReadMarket, Offers, Asks
  <2>6. ASSUME NEW i \in Instance, ReadAccount(i) PROVE ModeTable'
    BY <2>6, Allowances DEF ReadAccount, Offers, Asks
  <2>7. ASSUME NEW i \in Instance, PaperFill(i) PROVE ModeTable'
    <3>1. sent' = [from |-> i, what |-> {"market"}] /\ Setting[i].mode = "paper"
      BY <2>7 DEF PaperFill, Asks, FillsPaper, UsePaper
    <3>2. MayAsk(i) = {"market"}
      BY <3>1 DEF MayAsk, IsLive
    <3> QED
      BY <3>1, <3>2 DEF ModeTable
  <2>8. ASSUME NEW i \in Instance, Submit(i) PROVE ModeTable'
    <3>1. /\ sent'.from = i /\ sent'.what = {RequestOf(i)}
          /\ MayUse(i, token[call[i].preview].args) /\ MayReachBroker(i) /\ ~FillsPaper(i)
      BY <2>8, SubmitFacts
    <3>2. ~UsePaper(i)
      BY <3>1 DEF MayUse, MayReachBroker, FillsPaper, RequestOf
    <3>3. sent'.what \subseteq Access
      <4>1. RequestOf(i) \in Access
        BY DEF RequestOf, Access, Submission
      <4> QED
        BY <3>1, <4>1
    <3>4. Starts(i) /\ Setting[i].mode # "read_only"
      BY <3>1 DEF MayUse
    <3> QED
      BY <3>1, <3>2, <3>3, <3>4, Allowances
  <2>9. ASSUME NEW i \in Instance, Abandon(i) \/ Commit(i) PROVE FALSE
    BY <2>9 DEF Abandon, Commit
  <2>10. ASSUME NEW i \in Instance, NEW symbol \in AppOrder, Cancel(i, symbol) PROVE ModeTable'
    <3>1. /\ sent'.from = i /\ sent'.what = {"account", "cancel"} /\ ~UsePaper(i)
          /\ Offers(i, "cancel_order")
      BY <2>10 DEF Cancel
    <3>2. Starts(i) /\ Setting[i].mode # "read_only" /\ sent'.what \subseteq Access
      BY <3>1 DEF Offers, MarketReads, AccountReads, Access
    <3> QED
      BY <3>1, <3>2, Allowances
  <2>11. ASSUME NEW r \in wire, Arrive(r) PROVE FALSE
    BY <2>11 DEF Arrive
  <2>12. CASE Tick
    BY <2>12 DEF Tick
  <2> QED
    BY <2>3, <2>4, <2>5, <2>6, <2>7, <2>8, <2>9, <2>10, <2>11, <2>12 DEF Next
<1> QED
  BY <1>1, <1>2, Invariance, PTL DEF Spec
-----------------------------------------------------------------------------
(* What was checked when the token was made. *)

\* A session lies within the day or there is none.
SessionsInDay ==
  \A a \in Argument :
    \/ Market[a.currency] = Closed
    \/ Market[a.currency].start \in 0 .. DayLength - 1 /\ Market[a.currency].end \in 0 .. DayLength - 1

\* is_market_open is right about sessions that wrap past midnight, too.
LEMMA OpenIsCovered ==
  ASSUME NEW s, NEW t \in 0 .. DayLength - 1, IsOpen(s, t),
         \/ s = Closed
         \/ s.start \in 0 .. DayLength - 1 /\ s.end \in 0 .. DayLength - 1
  PROVE  Covers(s, t, DayLength)
<1>1. s # Closed /\ s.start \in 0 .. DayLength - 1 /\ s.end \in 0 .. DayLength - 1
  BY DEF IsOpen, Given, Closed, None
<1>2. DayLength \in Nat
  OBVIOUS
<1>3. CASE s.start <= s.end
  <2>1. s.start <= t + 0 /\ t + 0 < s.start + LengthOf(s, DayLength)
    BY <1>1, <1>2, <1>3 DEF IsOpen, LengthOf
  <2> QED
    BY <1>1, <2>1 DEF Covers
<1>4. CASE ~(s.start <= s.end)
  <2>1. LengthOf(s, DayLength) = s.end - s.start + DayLength
    BY <1>4 DEF LengthOf
  <2>2. CASE s.start <= t
    <3>1. s.start <= t + 0 /\ t + 0 < s.start + LengthOf(s, DayLength)
      BY <1>1, <1>2, <2>1, <2>2
    <3> QED
      BY <1>1, <3>1 DEF Covers
  <2>3. CASE t < s.end
    <3>1. s.start <= t + DayLength /\ t + DayLength < s.start + LengthOf(s, DayLength)
      BY <1>1, <1>2, <2>1, <2>3
    <3> QED
      BY <1>1, <3>1 DEF Covers
  <2> QED
    BY <1>4, <2>2, <2>3 DEF IsOpen
<1> QED
  BY <1>3, <1>4

\* At a time of day that a session covers, is_market_open says so.
LEMMA CoveredIsOpen ==
  ASSUME NEW s, NEW t \in 0 .. DayLength - 1, Covers(s, t, DayLength),
         s = Closed \/ (s.start \in 0 .. DayLength - 1 /\ s.end \in 0 .. DayLength - 1)
  PROVE  IsOpen(s, t)
<1>1. s.start \in 0 .. DayLength - 1 /\ s.end \in 0 .. DayLength - 1
  BY DEF Covers
<1>2. Given(s.start) /\ Given(s.end)
  BY <1>1 DEF Given, None
<1>3. DayLength \in Nat
  OBVIOUS
<1>4. PICK day \in {0, DayLength} :
        s.start <= t + day /\ t + day < s.start + LengthOf(s, DayLength)
  BY DEF Covers
<1>5. CASE s.start <= s.end
  <2>1. LengthOf(s, DayLength) = s.end - s.start
    BY <1>1, <1>5 DEF LengthOf
  <2>2. s.start <= t /\ t < s.end
    BY <1>1, <1>3, <1>4, <1>5, <2>1
  <2> QED
    BY <1>2, <1>5, <2>2 DEF IsOpen
<1>6. CASE ~(s.start <= s.end)
  <2>1. LengthOf(s, DayLength) = s.end - s.start + DayLength
    BY <1>1, <1>6 DEF LengthOf
  <2>2. s.start <= t \/ t < s.end
    BY <1>1, <1>3, <1>4, <2>1
  <2> QED
    BY <1>2, <1>6, <2>2 DEF IsOpen
<1> QED
  BY <1>5, <1>6

\* Every session is closed all day or lies in a day.
LEMMA SessionOf ==
  ASSUME SessionsInDay, NEW a \in Argument
  PROVE  LET s == Market[a.currency] IN
         s = Closed \/ (s.start \in 0 .. DayLength - 1 /\ s.end \in 0 .. DayLength - 1)
BY DEF SessionsInDay

\* No plain order of an enforcing instance was previewed outside its session, and
\* none is turned away within it.
THEOREM AlwaysOpenWhenPreviewed ==
  ASSUME SessionsInDay
  PROVE  Spec => []OpenWhenPreviewed
<1> DEFINE InSession ==
      Submitted =>
        LET t == token[sent.preview] IN
        ~IsConditional(t.args) /\ Enforces(t.by) =>
          Covers(Market[t.args.currency], t.issued % DayLength, DayLength)
<1>1. Init => InSession
  BY DEF Init, Submitted, Nothing
<1>2. IInv /\ InSession /\ [Next]_vars => InSession'
  <2> SUFFICES ASSUME IInv, InSession, [Next]_vars PROVE InSession'
    OBVIOUS
  <2>1. CASE UNCHANGED vars
    BY <2>1 DEF vars, Submitted
  <2>2. CASE ~Submitted'
    BY <2>2
  <2>3. ASSUME NEW i \in Instance, Submit(i) PROVE InSession'
    <3> DEFINE t == token[call[i].preview]
    <3>1. sent'.preview = call[i].preview /\ UNCHANGED token /\ call[i].preview \in Preview /\ t # Unused
      BY <2>3, SubmitFacts
    <3>2. t.args \in Argument /\ t.issued \in Int
      BY <3>1, RecordType DEF IInv, TypeInv
    <3>3. t.issued % DayLength \in 0 .. DayLength - 1
      BY <3>2
    <3>4. ASSUME ~IsConditional(t.args), Enforces(t.by)
          PROVE  Covers(Market[t.args.currency], t.issued % DayLength, DayLength)
      <4>1. IsOpen(Market[t.args.currency], t.issued % DayLength)
        BY <3>1, <3>4 DEF IInv, TokenLaw
      <4> QED
        BY <3>2, <3>3, <4>1, SessionOf, OpenIsCovered
    <3> QED
      BY <3>1, <3>4
  <2> QED
    BY <2>1, <2>2, <2>3, OnlySubmit
<1>3. IInv /\ InSession => OpenWhenPreviewed
  <2> SUFFICES ASSUME IInv, InSession, NEW i \in Instance, NEW a \in Argument,
                      ~IsConditional(a),
                      Covers(Market[a.currency], Clock(i) % DayLength, DayLength)
               PROVE  GatePasses(i, a)
    BY DEF OpenWhenPreviewed
  <2>1. Clock(i) \in Int
    BY SettingFields DEF IInv, TypeInv, TypeOK, Clock
  <2>2. Clock(i) % DayLength \in 0 .. DayLength - 1
    BY <2>1
  <2>3. IsOpen(Market[a.currency], Clock(i) % DayLength)
    BY <2>2, SessionOf, CoveredIsOpen
  <2> QED
    BY <2>3 DEF GatePasses
<1> QED
  BY <1>1, <1>2, <1>3, Invariance, PTL DEF Spec

\* What the preview tools take: numbers, given or not.
Legible(leg) == leg.trigger \in Int /\ leg.price \in Int
GroupType ==
  \A a \in Argument : IsConditional(a) =>
    /\ a.group.type \in {"SINGLE", "OCO", "OTO"}
    /\ a.group.orderType \in {"LIMIT", "MARKET"}
    /\ a.group.quantity \in Int
    /\ Legible(a.group.first) /\ Legible(a.group.second)
OrderType ==
  \A a \in Argument : ~IsConditional(a) =>
    /\ a.order.market \in BOOLEAN
    /\ {a.order.quantity, a.order.price, a.order.amount, Last[a.symbol]} \subseteq Int

\* The amount of a leg that was accepted is a positive number.
LEMMA LegAmountPositive ==
  ASSUME NEW g, NEW leg \in Legs(g), ValidGroup(g),
         g.orderType \in {"LIMIT", "MARKET"}, g.quantity \in Int, Legible(leg),
         Given(leg.trigger), Positive(leg.trigger), Positive(leg.price)
  PROVE  LegAmount(g, leg) \in Nat
<1>1. g.quantity \in Nat
  BY DEF ValidGroup, Positive
<1>2. g.orderType = "LIMIT" => leg.price \in Nat
  <2>1. Given(leg.price) <=> g.orderType = "LIMIT"
    BY DEF ValidGroup
  <2> QED
    BY <2>1 DEF Positive, Legible
<1>3. g.orderType # "LIMIT" => leg.trigger \in Nat
  BY DEF Positive, Legible
<1>4. \A m, n \in Nat : m * n \in Nat
  OBVIOUS
<1> QED
  BY <1>1, <1>2, <1>3, <1>4 DEF LegAmount

\* group_notional is the dearest firing of a group that was accepted.
LEMMA GroupExposure ==
  ASSUME NEW g, ValidGroup(g),
         g.type \in {"SINGLE", "OCO", "OTO"}, g.orderType \in {"LIMIT", "MARKET"},
         g.quantity \in Int, Legible(g.first), Legible(g.second)
  PROVE  /\ \A amount \in Firings(g) : amount <= GroupNotional(g)
         /\ GroupNotional(g) \in Firings(g)
<1> DEFINE first == LegAmount(g, g.first)
           second == LegAmount(g, g.second)
<1>1. first \in Nat
  BY LegAmountPositive DEF ValidGroup, Legs
<1>2. CASE g.type = "SINGLE"
  <2>1. ~HasSecond(g)
    BY <1>2 DEF ValidGroup
  <2>2. GroupNotional(g) = first /\ Firings(g) = {first}
    BY <1>2, <2>1 DEF GroupNotional, Firings
  <2> QED
    BY <1>1, <2>2
<1>3. CASE g.type # "SINGLE"
  <2>1. HasSecond(g) /\ g.second \in Legs(g) /\ Given(g.second.trigger)
    BY <1>3 DEF ValidGroup, HasSecond, Legs
  <2>2. second \in Nat
    BY <2>1, LegAmountPositive DEF ValidGroup
  <2>3. CASE g.type = "OCO"
    <3>1. GroupNotional(g) = (IF first < second THEN second ELSE first)
      BY <2>1, <2>3 DEF GroupNotional
    <3>2. Firings(g) = {first, second}
      BY <2>3 DEF Firings
    <3> QED
      BY <1>1, <2>2, <3>1, <3>2
  <2>4. CASE g.type = "OTO"
    <3>1. GroupNotional(g) = first + second
      BY <2>1, <2>4 DEF GroupNotional
    <3>2. Firings(g) = {first, first + second}
      BY <2>4 DEF Firings
    <3> QED
      BY <1>1, <2>2, <3>1, <3>2
  <2> QED
    BY <1>3, <2>3, <2>4
<1> QED
  BY <1>2, <1>3

\* build_spec's notional is what an order that Toss takes is charged at the last
\* price, whether the preview was given that price or none.
LEMMA OrderExposure ==
  ASSUME NEW o, NEW last, NEW ref \in {None, last}, ValidOrder(o, ref), Takes(o),
         o.market \in BOOLEAN, {o.quantity, o.price, o.amount, last} \subseteq Int
  PROVE  Charged(o, last) = OrderNotional(o, ref)
<1>1. CASE Given(o.amount)
  BY <1>1 DEF Charged, OrderNotional
<1>2. CASE ~Given(o.amount) /\ Given(o.price)
  <2>1. Charged(o, last) = o.quantity * o.price /\ OrderNotional(o, ref) = o.price * o.quantity
    BY <1>2 DEF Charged, OrderNotional, Takes
  <2> QED
    BY <2>1
<1>3. CASE ~Given(o.amount) /\ ~Given(o.price)
  <2>1. o.market /\ RefPrice(o, ref) = ref
    BY <1>3 DEF Takes, RefPrice
  <2>2. ref = last
    BY <1>3, <2>1 DEF ValidOrder, Given
  <2>3. Charged(o, last) = o.quantity * last /\ OrderNotional(o, ref) = last * o.quantity
    BY <1>3, <2>1, <2>2 DEF Charged, OrderNotional
  <2> QED
    BY <2>3
<1> QED
  BY <1>1, <1>2, <1>3

\* The amount that the guardrails and the daily cap see is what can be charged.
THEOREM NotionalIsAlwaysExposure ==
  ASSUME GroupType, OrderType
  PROVE  Spec => []NotionalIsExposure
<1>1. IInv => NotionalIsExposure
  <2> SUFFICES ASSUME IInv, NEW v \in Preview, token[v] # Unused
               PROVE  LET a == token[v].args IN
                      IF IsConditional(a)
                        THEN /\ \A amount \in Firings(a.group) : amount <= Notional(a)
                             /\ Notional(a) \in Firings(a.group)
                        ELSE Takes(a.order) => Charged(a.order, Last[a.symbol]) = Notional(a)
    BY DEF NotionalIsExposure
  <2> DEFINE a == token[v].args
  <2>1. a \in Argument /\ Valid(a)
    BY RecordType DEF IInv, TypeInv, TokenLaw
  <2>2. CASE IsConditional(a)
    <3>1. ValidGroup(a.group) /\ Notional(a) = GroupNotional(a.group)
      BY <2>1, <2>2 DEF Valid, Notional
    <3> QED
      BY <2>1, <2>2, <3>1, GroupExposure DEF GroupType
  <2>3. CASE ~IsConditional(a)
    <3>1. ValidOrder(a.order, Reference(a)) /\ Notional(a) = OrderNotional(a.order, Reference(a))
      BY <2>1, <2>3 DEF Valid, Notional
    <3>2. Reference(a) \in {None, Last[a.symbol]}
      BY DEF Reference
    <3> QED
      BY <2>1, <2>3, <3>1, <3>2, OrderExposure DEF OrderType
  <2> QED
    BY <2>2, <2>3
<1> QED
  BY <1>1, Invariance, PTL
=============================================================================
