----------------------------- MODULE LlmFailover -----------------------------
(***************************************************************************)
(* Inference calls over the chain of model providers, with their circuit   *)
(* breakers (src/src/adapters/outbound/llm/llm-provider.service.ts,        *)
(* circuit-breaker.ts and the three adapters), in one process: breakers    *)
(* live in memory and are shared by all the calls in flight.               *)
(*                                                                         *)
(* A call runs without a pause from one await to the next: beginning, or   *)
(* giving a provider up, it passes over every provider that refuses it, to *)
(* the first that admits it.  What a model answers is an answer, or one of *)
(* the failures its adapter tells apart; a provider that is up answers.    *)
(* Backoff is a pause; consecutiveFailures counts up to the threshold,     *)
(* above which it makes no difference.                                     *)
(***************************************************************************)
EXTENDS Integers, Sequences

CONSTANTS Call,         \* calls that can be in flight
          Chain,        \* the configured providers, in PROVIDER_ORDER
          Threshold,    \* circuitBreakerThreshold
          MaxAttempts   \* maxAttempts on one provider

Provider == {"openai", "gemini", "anthropic"}

ASSUME FailoverAssumption ==
    /\ Chain \in Seq(Provider) /\ Len(Chain) > 0
    /\ Threshold \in Nat \ {0} /\ MaxAttempts \in Nat \ {0}

VARIABLES circuit,  \* per provider: "closed", "open", or "elapsed" past resetMs
          failures, \* consecutiveFailures
          probe,    \* probeInFlight
          up,       \* whether the provider answers whatever it is asked
          place,    \* per call: place in the chain, 0 when not calling
          attempt,  \* its attempts on that provider
          status,   \* "none", "calling", "answered", "failed"
          refused,  \* providers whose circuit turned the call away
          probing,  \* whether the provider it is at was not closed when it was admitted
          straggled \* per provider: another call reported while a probe was out

breakerVars == <<circuit, failures, probe>>
callVars == <<place, attempt, status, refused, probing>>
failoverVars == <<breakerVars, up, callVars, straggled>>

Place == 1..Len(Chain)

FailoverTypeOK ==
    /\ circuit \in [Place -> {"closed", "open", "elapsed"}]
    /\ failures \in [Place -> 0..Threshold]
    /\ probe \in [Place -> BOOLEAN]
    /\ up \in [Place -> BOOLEAN]
    /\ place \in [Call -> 0..Len(Chain)]
    /\ attempt \in [Call -> 0..MaxAttempts]
    /\ status \in [Call -> {"none", "calling", "answered", "failed"}]
    /\ refused \in [Call -> SUBSET Place]
    /\ probing \in [Call -> BOOLEAN]
    /\ straggled \in [Place -> BOOLEAN]

FailoverInit ==
    /\ circuit = [p \in Place |-> "closed"]
    /\ failures = [p \in Place |-> 0]
    /\ probe = [p \in Place |-> FALSE]
    /\ up = [p \in Place |-> TRUE]
    /\ place = [c \in Call |-> 0] /\ attempt = [c \in Call |-> 0]
    /\ status = [c \in Call |-> "none"]
    /\ refused = [c \in Call |-> {}]
    /\ probing = [c \in Call |-> FALSE]
    /\ straggled = [p \in Place |-> FALSE]

\* Mutant: whoever comes after the cooldown is let through.
AllowRequestElapsed(p) == circuit[p] # "open"

\* allowRequest: closed, or the one probe of a half-open circuit.
AllowRequest(p) == circuit[p] = "closed" \/ (circuit[p] = "elapsed" /\ ~probe[p])

Probes(p) == {c \in Call : place[c] = p /\ probing[c]}

\* No provider after place i takes the call.
Fail(c, i, flag) ==
    LET ahead == {p \in Place : p > i} IN
    /\ \A p \in ahead : ~AllowRequest(p)
    /\ place' = [place EXCEPT ![c] = 0]
    /\ attempt' = [attempt EXCEPT ![c] = 0]
    /\ status' = [status EXCEPT ![c] = "failed"]
    /\ refused' = [refused EXCEPT ![c] = @ \cup ahead]
    /\ probing' = [probing EXCEPT ![c] = FALSE]
    /\ probe' = flag

\* The first provider after place i that allows the call takes it, as a probe
\* unless its circuit is closed.
Admit(c, i, flag) ==
    \E p \in Place :
      LET passed == {q \in Place : i < q /\ q < p} IN
      /\ p > i /\ AllowRequest(p)
      /\ \A q \in passed : ~AllowRequest(q)
      /\ place' = [place EXCEPT ![c] = p]
      /\ attempt' = [attempt EXCEPT ![c] = 1]
      /\ status' = [status EXCEPT ![c] = "calling"]
      /\ refused' = [refused EXCEPT ![c] = @ \cup passed]
      /\ probing' = [probing EXCEPT ![c] = circuit[p] # "closed"]
      /\ probe' = [flag EXCEPT ![p] = @ \/ circuit[p] # "closed"]

\* The loop of complete after place i; flag is what probe has become by then.
GoOn(c, i, flag) == Admit(c, i, flag) \/ Fail(c, i, flag)

\* Another call's report while a probe is out, until none is.
Straggle(c, p) ==
    straggled' = [straggled EXCEPT ![p] = Probes(p) \ {c} # {} /\ (@ \/ ~probing[c])]

Begin(c) ==
    /\ status[c] = "none"
    /\ GoOn(c, 0, probe)
    /\ UNCHANGED <<circuit, failures, up, straggled>>

\* A provider answers with what the caller's schema accepts: recordSuccess.
Answer(c) ==
    LET p == place[c] IN
    /\ status[c] = "calling"
    /\ circuit' = [circuit EXCEPT ![p] = "closed"]
    /\ failures' = [failures EXCEPT ![p] = 0]
    /\ probe' = [probe EXCEPT ![p] = FALSE]
    /\ place' = [place EXCEPT ![c] = 0] /\ attempt' = [attempt EXCEPT ![c] = 0]
    /\ status' = [status EXCEPT ![c] = "answered"]
    /\ probing' = [probing EXCEPT ![c] = FALSE]
    /\ Straggle(c, p)
    /\ UNCHANGED <<up, refused>>

\* The failures an adapter reports, and those it calls retryable.  Text that
\* no JSON can be found in, or that the schema rejects, is malformed; Gemini
\* does not look why a text ended, and takes a refusal for a failure of the
\* service.  Whether a lost connection counts as an API error is the SDK's.
Failure == {"limited", "server", "unreachable", "rejected", "truncated", "empty",
            "refused", "malformed"}

Reports ==
    [openai    |-> Failure,
     gemini    |-> Failure \ {"truncated"},
     anthropic |-> Failure \ {"refused"}]

Transient ==
    [openai    |-> Failure \ {"rejected", "refused"},
     gemini    |-> Failure \ {"rejected"},
     anthropic |-> Failure \ {"rejected"}]

Terminal ==
    [openai    |-> {"rejected", "refused", "unreachable"},
     gemini    |-> {"rejected"},
     anthropic |-> {"rejected", "unreachable"}]

FailuresOf(p) == IF up[p] THEN {} ELSE Reports[Chain[p]]

HasAttempts(c) == attempt[c] < MaxAttempts

\* attemptProvider tries the same provider again, after the backoff.
Retry(c) ==
    /\ status[c] = "calling" /\ HasAttempts(c)
    /\ FailuresOf(place[c]) \cap Transient[Chain[place[c]]] # {}
    /\ attempt' = [attempt EXCEPT ![c] = @ + 1]
    /\ UNCHANGED <<breakerVars, up, place, status, refused, probing, straggled>>

\* Mutant: a failed probe stays in flight.
AfterFailureProbing(p) == probe

AfterFailure(p) == [probe EXCEPT ![p] = FALSE]

\* The provider is given up: recordFailure, and on to the next.
GiveUp(c) ==
    LET p == place[c] IN
    /\ status[c] = "calling"
    /\ FailuresOf(p) \cap Terminal[Chain[p]] # {} \/ (~HasAttempts(c) /\ FailuresOf(p) # {})
    /\ failures' = [failures EXCEPT ![p] = IF @ < Threshold THEN @ + 1 ELSE @]
    /\ circuit' = [circuit EXCEPT ![p] = IF failures'[p] = Threshold THEN "open" ELSE @]
    /\ GoOn(c, p, AfterFailure(p))
    /\ Straggle(c, p)
    /\ UNCHANGED up

\* The caller has its result or its error, and may call again.
Return(c) ==
    /\ status[c] \in {"answered", "failed"}
    /\ status' = [status EXCEPT ![c] = "none"]
    /\ refused' = [refused EXCEPT ![c] = {}]
    /\ UNCHANGED <<breakerVars, up, place, attempt, probing, straggled>>

\* resetMs has passed since the circuit opened.
Elapse(p) ==
    /\ circuit[p] = "open"
    /\ circuit' = [circuit EXCEPT ![p] = "elapsed"]
    /\ UNCHANGED <<failures, probe, up, callVars, straggled>>

\* A provider fails or recovers.
Turn(p) ==
    /\ up' = [up EXCEPT ![p] = ~@]
    /\ UNCHANGED <<breakerVars, callVars, straggled>>

FailoverNext ==
    \/ \E c \in Call : Begin(c) \/ Answer(c) \/ Retry(c) \/ GiveUp(c) \/ Return(c)
    \/ \E p \in Place : Elapse(p) \/ Turn(p)

\* A request ends (it has a timeout), so does a backoff, and the clock runs.
Fairness ==
    /\ \A c \in Call : /\ WF_failoverVars(Answer(c) \/ Retry(c) \/ GiveUp(c))
                        /\ WF_failoverVars(Return(c))
    /\ \A p \in Place : WF_failoverVars(Elapse(p))

FailoverSpec == FailoverInit /\ [][FailoverNext]_failoverVars /\ Fairness
-----------------------------------------------------------------------------
\* A half-open circuit lets one call through, unless another call, admitted
\* while it was still closed, reported while the probe was out.
OneProbe == \A p \in Place : \A c, d \in Probes(p) : c # d => straggled[p]

\* A provider that has recovered for good stops turning calls away: no probe
\* is left hanging, whatever happened while it was down.
RecoveredIsUsed ==
    \A p \in Place : <>[]up[p] => <>[](\A c \in Call : p \notin refused[c])
=============================================================================
