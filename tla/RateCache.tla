----------------------------- MODULE RateCache -----------------------------
(***************************************************************************)
(* FxService of one API process: an exchange rate kept in memory for a     *)
(* while, fetched by every request that finds it stale, several at once if *)
(* they come together, from a provider that may fail, stall or answer      *)
(* nonsense.  Rates are numbered in the order the provider publishes them. *)
(***************************************************************************)
EXTENDS Integers

CONSTANTS
    Asks,        \* GET /fx/rates requests
    Ttl,         \* _ttlMs
    MaxTime,     \* bound: the clock stops here
    Fallback     \* no rate was ever fetched: _fallbackRate is served

ASSUME ClockAssumption == Ttl \in Nat /\ MaxTime \in Nat

ASSUME FallbackAssumption == Fallback \notin [rate : Nat, at : Nat]

VARIABLES
    now,
    rate,        \* the rate the provider publishes
    cache,       \* FxService.cache: rate and fetchedAt, or Fallback
    ask,         \* how far each request is, and the rate in its answer
    overtaken    \* history: requests whose rate is older than one stored meanwhile

rates == <<now, rate, cache, ask, overtaken>>

Idle == [pc |-> "idle", rate |-> 0]

RatesTypeOK ==
    /\ now  \in 0 .. MaxTime
    /\ rate \in Nat
    /\ cache \in [rate : Nat, at : 0 .. MaxTime] \cup {Fallback}
    /\ ask  \in [Asks -> [pc : {"idle", "headers", "body"}, rate : Nat]]
    /\ overtaken \subseteq Asks

RatesInit ==
    /\ now = 0
    /\ rate = 1
    /\ cache = Fallback
    /\ ask = [r \in Asks |-> Idle]
    /\ overtaken = {}

-----------------------------------------------------------------------------
\* Time passes, and the provider may publish a new rate.
Tick ==
    /\ now < MaxTime
    /\ now' = now + 1
    /\ rate' \in {rate, rate + 1}
    /\ UNCHANGED <<cache, ask, overtaken>>

\* There is a cached rate, and it is not stale.
Fresh == cache # Fallback /\ now - cache.at <= Ttl

Answer(r) ==
    /\ ask' = [ask EXCEPT ![r] = Idle]
    /\ overtaken' = overtaken \ {r}

\* getRates with a fresh cache answers at once and changes nothing; otherwise
\* it sends a request, whoever else has sent one.
Fetch(r) ==
    /\ ask[r].pc = "idle"
    /\ ~Fresh
    /\ ask' = [ask EXCEPT ![r].pc = "headers"]
    /\ UNCHANGED <<now, rate, cache, overtaken>>

\* The headers arrive, with a body that has the rate of this moment, and the
\* timer is cleared.
Headers(r) ==
    /\ ask[r].pc = "headers"
    /\ ask' = [ask EXCEPT ![r] = [pc |-> "body", rate |-> rate]]
    /\ UNCHANGED <<now, rate, cache, overtaken>>

\* Variant: what was known is forgotten.
ServeForgetting(r) ==
    /\ cache' = Fallback
    /\ Answer(r)
    /\ UNCHANGED <<now, rate>>

\* The last good rate is served, or the fallback.
Serve(r) ==
    /\ Answer(r)
    /\ UNCHANGED <<now, rate, cache>>

\* The five seconds are over, or the connection fails, before the headers.
Abort(r) == ask[r].pc = "headers" /\ Serve(r)

\* The body is cut off, is not JSON, or has no positive KHR rate.
BadBody(r) == ask[r].pc = "body" /\ Serve(r)

Store(r) ==
    /\ ask[r].pc = "body"
    /\ cache' = [rate |-> ask[r].rate, at |-> now]
    /\ ask' = [ask EXCEPT ![r] = Idle]
    /\ overtaken' = (overtaken \cup {s \in Asks : ask[s].pc = "body" /\ ask[s].rate < ask[r].rate}) \ {r}
    /\ UNCHANGED <<now, rate>>

\* The process ends, and its memory with it.
Forget ==
    /\ cache' = Fallback
    /\ ask' = [r \in Asks |-> Idle]
    /\ overtaken' = {}
    /\ UNCHANGED <<now, rate>>

RatesNext ==
    \/ Tick
    \/ \E r \in Asks : Fetch(r) \/ Headers(r) \/ Abort(r) \/ BadBody(r) \/ Store(r)
=============================================================================
