------------------------------ MODULE ModelGateway ------------------------------
(***************************************************************************)
(* The calls of one model wrapped by the gateway: accounting, around       *)
(* fallback, around retry, around the circuit breaker, around the          *)
(* provider.  The breaker and the ambient scopes are what the calls share. *)
(*                                                                         *)
(* Time is kept as two facts: whether resetAfterMs has gone by since the   *)
(* circuit opened, and whether it has since the latest probe started.      *)
(***************************************************************************)
EXTENDS Naturals, FiniteSets

CONSTANTS
  Calls,        \* calls of the wrapped model
  Attempts,     \* RetryOptions.attempts
  Threshold,    \* BreakerOptions.threshold
  Secondaries,  \* how many models FallbackOptions.models holds
  Scopes,       \* model scopes
  Parent,       \* [Scopes -> Scopes]: the scope it is nested in, or itself if none
  Budget,       \* [Scopes -> Nat]: tokenBudget
  MaxTokens,    \* the most tokens one response reports (a bound)
  NoScope       \* no model scope

ASSUME AttemptsAssumption == Attempts \in Nat \ {0}
ASSUME ThresholdAssumption == Threshold \in Nat \ {0}
ASSUME SecondariesAssumption == Secondaries \in Nat
ASSUME ScopesAssumption ==
  /\ Parent \in [Scopes -> Scopes]
  /\ Budget \in [Scopes -> Nat]
ASSUME MaxTokensAssumption == MaxTokens \in Nat
ASSUME CallsAssumption == IsFiniteSet(Calls)
ASSUME NoScopeAssumption == NoScope \notin Scopes

VARIABLES
  (* one call *)
  stage,     \* where the call is in the stack of policies
  scope,     \* the scope captured when it starts
  streams,   \* it is a doStream
  attempt,   \* physical attempts made on the primary
  failovers, \* secondaries asked
  usage,     \* tokens its response has reported
  aborted,   \* the calls whose abortSignal is aborted
  (* CircuitBreaker, the circuit of the model *)
  failures,
  open,      \* openedAt is set
  cooled,    \* resetAfterMs has gone by since openedAt
  probe,     \* probeStartedAt: "none", or a probe that is "young" or "stale"
  (* ModelScope *)
  spent,     \* tokensSpent
  (* history *)
  beside     \* calls under way in the scope when its latest call was admitted

circuit == <<failures, open, cooled, probe>>
call == <<stage, scope, streams, attempt, failovers, usage>>
vars == <<call, aborted, circuit, spent, beside>>

Stages == {"idle", "trying", "primary", "backoff", "secondary", "streaming", "done"}

Init ==
  /\ stage = [c \in Calls |-> "idle"]
  /\ scope = [c \in Calls |-> NoScope]
  /\ streams = [c \in Calls |-> FALSE]
  /\ attempt = [c \in Calls |-> 0]
  /\ failovers = [c \in Calls |-> 0]
  /\ usage = [c \in Calls |-> 0]
  /\ aborted = {}
  /\ failures = 0
  /\ open = FALSE
  /\ cooled = FALSE
  /\ probe = "none"
  /\ spent = [s \in Scopes |-> 0]
  /\ beside = [s \in Scopes |-> 0]

-----------------------------------------------------------------------------
(* Accounting *)

\* Scope by scope, itself and every scope around it, however deep the nesting: what
\* any set holds that has the scope and, with each of its scopes, its parent.
Chains ==
  [s \in Scopes |->
     {r \in Scopes :
        \A S \in SUBSET Scopes : (s \in S /\ \A t \in S : Parent[t] \in S) => r \in S}]

\* The walk from a scope over its parents.
Chain(s) == Chains[s]

\* The calls made in a scope or in one nested in it.
Within(s) == {c \in Calls : scope[c] \in Scopes /\ s \in Chain(scope[c])}

Settled == {c \in Calls : stage[c] = "done"}

\* preflight, then the retry policy's first attempt is due.
Begin(c, s, stream) ==
  /\ stage[c] = "idle"
  /\ \A r \in Chain(s) : spent[r] < Budget[r]
  /\ stage' = [stage EXCEPT ![c] = "trying"]
  /\ scope' = [scope EXCEPT ![c] = s]
  /\ streams' = [streams EXCEPT ![c] = stream]
  /\ beside' = [r \in Scopes |->
                  IF r \in Chain(s)
                  THEN Cardinality(Within(r) \ Settled) + 1
                  ELSE beside[r]]
  /\ UNCHANGED <<attempt, failovers, usage, aborted, circuit, spent>>

\* preflight throws: nothing is called and nothing settled.
Refuse(c, s) ==
  /\ stage[c] = "idle"
  /\ \E r \in Chain(s) : spent[r] >= Budget[r]
  /\ stage' = [stage EXCEPT ![c] = "done"]
  /\ UNCHANGED <<scope, streams, attempt, failovers, usage, aborted, circuit, spent, beside>>

\* Mutant of Bill: only the innermost scope pays.
BillInnermost(c, tokens) ==
  spent' = [spent EXCEPT ![scope[c]] = @ + tokens]

\* settle: every scope of the chain pays.
Bill(c, tokens) ==
  spent' = [s \in Scopes |->
              IF s \in Chain(scope[c]) THEN spent[s] + tokens ELSE spent[s]]

\* The provider has answered: a response is billed at once, a stream at its end.
Answered(c, tokens) ==
  IF streams[c]
  THEN /\ stage' = [stage EXCEPT ![c] = "streaming"]
       /\ UNCHANGED <<usage, spent>>
  ELSE /\ stage' = [stage EXCEPT ![c] = "done"]
       /\ usage' = [usage EXCEPT ![c] = tokens]
       /\ Bill(c, tokens)

\* The finish part of a stream goes through the tap, with its usage.
FinishPart(c, tokens) ==
  /\ stage[c] = "streaming"
  /\ usage[c] = 0
  /\ usage' = [usage EXCEPT ![c] = tokens]
  /\ UNCHANGED <<stage, scope, streams, attempt, failovers, aborted, circuit, spent, beside>>

\* The stream ends, or its consumer walks away, before or after the finish part.
StreamEnds(c) ==
  /\ stage[c] = "streaming"
  /\ stage' = [stage EXCEPT ![c] = "done"]
  /\ Bill(c, usage[c])
  /\ UNCHANGED <<scope, streams, attempt, failovers, usage, aborted, circuit, beside>>

-----------------------------------------------------------------------------
(* Fallback and retry: where a call goes when what it asked has failed *)

\* Mutant of FailOver: the caller's signal is not looked at.
FailOverAnyway(c) ==
  IF failovers[c] < Secondaries
  THEN /\ stage' = [stage EXCEPT ![c] = "secondary"]
       /\ failovers' = [failovers EXCEPT ![c] = @ + 1]
  ELSE /\ stage' = [stage EXCEPT ![c] = "done"]
       /\ UNCHANGED failovers

\* The next secondary, unless the caller has left or there is none; the call
\* then settles with no usage.
FailOver(c) ==
  IF c \notin aborted /\ failovers[c] < Secondaries
  THEN /\ stage' = [stage EXCEPT ![c] = "secondary"]
       /\ failovers' = [failovers EXCEPT ![c] = @ + 1]
  ELSE /\ stage' = [stage EXCEPT ![c] = "done"]
       /\ UNCHANGED failovers

GiveUp(c) ==
  /\ stage' = [stage EXCEPT ![c] = "done"]
  /\ UNCHANGED failovers

\* What a provider's error says: "busy" is worth another attempt; "away" as well,
\* but asks to wait longer than maxDelayMs; "broken" has no status and no
\* isRetryable, or a status like 501; "bad" is the request's own fault.
Errors == {"busy", "away", "broken", "bad"}

\* isRetryable, which is also countsAgainstHealth.
IsRetryable(c, error) == c \notin aborted /\ error \in {"busy", "away"}

Retries(c, error) ==
  IsRetryable(c, error) /\ error # "away" /\ attempt[c] < Attempts

\* What becomes of a call whose primary attempt failed.
AttemptFailed(c, error) ==
  IF Retries(c, error)
  THEN /\ stage' = [stage EXCEPT ![c] = "backoff"]
       /\ UNCHANGED failovers
  ELSE IF error = "bad" THEN GiveUp(c) ELSE FailOver(c)

\* A secondary, which has neither retries nor a circuit of its own, answers.
SecondaryAnswers(c, tokens) ==
  /\ stage[c] = "secondary"
  /\ Answered(c, tokens)
  /\ UNCHANGED <<scope, streams, attempt, failovers, aborted, circuit, beside>>

SecondaryFails(c, error) ==
  /\ stage[c] = "secondary"
  /\ IF error = "bad" THEN GiveUp(c) ELSE FailOver(c)
  /\ UNCHANGED <<scope, streams, attempt, usage, aborted, circuit, spent, beside>>

\* The wait ends by its timer or, at once, by the caller's abort, which
\* rejects with the signal's reason: no further attempt, no failover.
BackoffEnds(c) ==
  /\ stage[c] = "backoff"
  /\ stage' = [stage EXCEPT ![c] = IF c \in aborted THEN "done" ELSE "trying"]
  /\ UNCHANGED <<scope, streams, attempt, failovers, usage, aborted, circuit, spent, beside>>

\* The caller's signal is aborted.
Abort(c) ==
  /\ c \notin aborted
  /\ stage[c] # "done"
  /\ aborted' = aborted \cup {c}
  /\ UNCHANGED <<call, circuit, spent, beside>>

-----------------------------------------------------------------------------
(* The circuit breaker, around each attempt on the primary *)

\* Mutant of Admits: the probe holds a flag, not a lease.
AdmitsUnlessHeld == ~open \/ (cooled /\ probe = "none")

\* assertClosed does not throw.
Admits == ~open \/ (cooled /\ probe # "young")

\* The retry policy looks at the signal and the breaker at its circuit: the
\* attempt starts, as a probe when the circuit is half open.
Try(c) ==
  /\ stage[c] = "trying"
  /\ c \notin aborted
  /\ Admits
  /\ stage' = [stage EXCEPT ![c] = "primary"]
  /\ attempt' = [attempt EXCEPT ![c] = @ + 1]
  /\ probe' = IF open THEN "young" ELSE probe
  /\ UNCHANGED <<scope, streams, failovers, usage, aborted, failures, open, cooled, spent, beside>>

\* A call that was cancelled stops here.
StopTrying(c) ==
  /\ stage[c] = "trying"
  /\ c \in aborted
  /\ GiveUp(c)
  /\ UNCHANGED <<scope, streams, attempt, usage, aborted, circuit, spent, beside>>

\* CircuitOpenError: never retried, always a reason to fail over.
FailFast(c) ==
  /\ stage[c] = "trying"
  /\ c \notin aborted
  /\ ~Admits
  /\ FailOver(c)
  /\ UNCHANGED <<scope, streams, attempt, usage, aborted, circuit, spent, beside>>

\* recordSuccess
PrimaryAnswers(c, tokens) ==
  /\ stage[c] = "primary"
  /\ Answered(c, tokens)
  /\ failures' = 0
  /\ open' = FALSE
  /\ cooled' = FALSE
  /\ probe' = "none"
  /\ UNCHANGED <<scope, streams, attempt, failovers, aborted, beside>>

\* recordFailure: one more failure; the circuit opens, or its cooldown starts anew.
\* Failures past the threshold are not counted: nothing reads them.
RecordFailure ==
  /\ failures' = IF failures < Threshold THEN failures + 1 ELSE failures
  /\ open' = (open \/ failures + 1 >= Threshold)
  /\ cooled' = FALSE
  /\ probe' = "none"

\* recordNeutral: only the probe's slot is given back.
RecordNeutral ==
  /\ probe' = "none"
  /\ UNCHANGED <<failures, open, cooled>>

PrimaryFails(c, error) ==
  /\ stage[c] = "primary"
  /\ IF IsRetryable(c, error) THEN RecordFailure ELSE RecordNeutral
  /\ AttemptFailed(c, error)
  /\ UNCHANGED <<scope, streams, attempt, usage, aborted, spent, beside>>

-----------------------------------------------------------------------------
(* Time *)

\* resetAfterMs have gone by since the circuit opened.
Cool ==
  /\ open
  /\ ~cooled
  /\ cooled' = TRUE
  /\ UNCHANGED <<call, aborted, failures, open, probe, spent, beside>>

\* The latest probe has run for resetAfterMs.
LeaseRunsOut ==
  /\ probe = "young"
  /\ probe' = "stale"
  /\ UNCHANGED <<call, aborted, failures, open, cooled, spent, beside>>

Tokens == 0 .. MaxTokens

Next ==
  \/ \E c \in Calls :
       \/ \E s \in Scopes :
            Refuse(c, s) \/ (\E stream \in BOOLEAN : Begin(c, s, stream))
       \/ Abort(c)
       \/ Try(c) \/ StopTrying(c) \/ FailFast(c) \/ BackoffEnds(c)
       \/ StreamEnds(c)
       \/ \E t \in Tokens :
            PrimaryAnswers(c, t) \/ SecondaryAnswers(c, t) \/ FinishPart(c, t)
       \/ \E e \in Errors : PrimaryFails(c, e) \/ SecondaryFails(c, e)
  \/ Cool
  \/ LeaseRunsOut

Spec == Init /\ [][Next]_vars

\* Time goes by, and a timer that is due fires.  Nothing makes a provider answer.
FairSpec ==
  /\ Spec
  /\ WF_vars(Cool)
  /\ WF_vars(LeaseRunsOut)
  /\ \A c \in Calls : WF_vars(BackoffEnds(c))

-----------------------------------------------------------------------------
(* Properties *)

\* Every variable keeps the shape its initial value has.
TypeOK ==
  /\ stage \in [Calls -> Stages]
  /\ scope \in [Calls -> Scopes \cup {NoScope}]
  /\ streams \in [Calls -> BOOLEAN]
  /\ attempt \in [Calls -> 0 .. Attempts]
  /\ failovers \in [Calls -> 0 .. Secondaries]
  /\ usage \in [Calls -> Tokens]
  /\ aborted \subseteq Calls
  /\ failures \in 0 .. Threshold
  /\ open \in BOOLEAN
  /\ cooled \in BOOLEAN
  /\ probe \in {"none", "young", "stale"}
  /\ spent \in [Scopes -> Nat]
  /\ beside \in [Scopes -> Nat]

\* The calls of a scope that have come to their end, those of the scopes nested in
\* it included.
SettledIn(s) == Within(s) \cap Settled

\* How many tokens their responses and their streams have reported.
Reported(s) ==
  Cardinality({t \in SettledIn(s) \X (1 .. MaxTokens) : t[2] <= usage[t[1]]})

\* A scope and every scope around it overshoot their budget by at most one
\* response for each call that was under way when the latest one was admitted:
\* calls in nested scopes, streams that report at their end and answers of a
\* secondary are all counted (accountingPolicy's preflight and settle).
OvershootIsBounded ==
  \A s \in Scopes :
    Reported(s) > 0 => Reported(s) < Budget[s] + MaxTokens * beside[s]

\* Once its caller has cancelled it, a call starts no attempt on the primary
\* and asks no secondary, whatever it was waiting for (the aborted checks of
\* retryPolicy, isRetryable and fallbackPolicy).
CancelledCallsStayDown ==
  [][\A c \in aborted :
        attempt'[c] = attempt[c] /\ failovers'[c] = failovers[c]]_vars

\* A probe that never comes back does not shut the circuit for ever: time and
\* again a call would be let through (the lease of assertClosed, recordNeutral).
NeverWedged == []<>Admits
=============================================================================
