------------------------------ MODULE Gateway -------------------------------
(***************************************************************************)
(* API gateways: proxying requests to one backend service.                 *)
(*                                                                         *)
(* ProxyService.proxyRequest asks the service's circuit breaker once, then *)
(* sends the request through HttpRetryService.retry, whose attempts and    *)
(* pauses are awaits, and records in the breaker what came of it.  The     *)
(* breakers of different services share nothing, so one is modelled.  Both *)
(* gateways hold the same code.                                            *)
(*                                                                         *)
(* Time is counted in ticks, and an instant t is kept as its age,          *)
(* Date.now() - t, which stops counting where no comparison tells it from  *)
(* a larger one.                                                           *)
(***************************************************************************)
EXTENDS Naturals, Sequences, FiniteSets

CONSTANTS
    Requests,          \* bound: requests under way at once
    MaxAttempts,       \* retryConfig.maxAttempts
    FailureThreshold,  \* DEFAULT_CIRCUIT_BREAKER_CONFIG ...
    SuccessThreshold,
    Timeout,           \* ... its two periods, in ticks
    MonitoringPeriod,
    ClientErrors,      \* do clients send what the service answers with a 4xx?
    MaxOutages         \* bound: times the service goes down

\* The breaker's configuration is fixed in the source, with equal periods.
ASSUME GatewayAssumption ==
    /\ MaxAttempts \in Nat \ {0}
    /\ FailureThreshold \in Nat \ {0}
    /\ SuccessThreshold \in Nat \ {0}
    /\ Timeout \in Nat \ {0}
    /\ MonitoringPeriod \in 1..Timeout
    /\ ClientErrors \in BOOLEAN
    /\ MaxOutages \in Nat

VARIABLES
    breaker,  \* the service's CircuitState
    call,     \* the requests in proxyRequest
    up,       \* does the service answer?
    outages   \* outages left to happen

vars == <<breaker, call, up, outages>>

-----------------------------------------------------------------------------
(* CircuitState                                                            *)

CircuitBreakerState == {"CLOSED", "OPEN", "HALF_OPEN"}

\* lastFailureTime and failureTimestamps are ages; the latter are pushed in
\* order of time, so the oldest comes first.
Ages == 0..MonitoringPeriod

CircuitState == [state : CircuitBreakerState,
                 failures : Nat,
                 successes : Nat,
                 lastFailureTime : 0..Timeout,
                 failureTimestamps : Seq(Ages)]

InitialCircuit == [state |-> "CLOSED", failures |-> 0, successes |-> 0,
                   lastFailureTime |-> Timeout, failureTimestamps |-> <<>>]

Lesser(m, n) == IF m <= n THEN m ELSE n

\* The same circuit one tick later.
Later(b) ==
    [b EXCEPT !.lastFailureTime = Lesser(@ + 1, Timeout),
              !.failureTimestamps =
                  [i \in DOMAIN @ |-> Lesser(@[i] + 1, MonitoringPeriod)]]

\* filter(now - timestamp < monitoringPeriod): what is outside the period
\* leads the list.
Expired(timestamps) ==
    {i \in DOMAIN timestamps : timestamps[i] >= MonitoringPeriod}
InPeriod(timestamps) ==
    SubSeq(timestamps, Cardinality(Expired(timestamps)) + 1, Len(timestamps))

\* Mutant of Rested: a tick early.
RestedEarly(b) == b.lastFailureTime + 1 >= Timeout

Rested(b) == b.lastFailureTime >= Timeout

\* The transition both canExecute and getState make.
GetState(b) ==
    IF b.state = "OPEN" /\ Rested(b)
    THEN [b EXCEPT !.state = "HALF_OPEN", !.successes = 0]
    ELSE b

CanExecute(b) == GetState(b).state # "OPEN"

\* Mutant of RecordSuccess: a success in HALF_OPEN is not counted.
RecordSuccessUncounted(b) ==
    IF b.state = "CLOSED" THEN [b EXCEPT !.failures = 0] ELSE b

RecordSuccess(b) ==
    LET filtered == [b EXCEPT !.failureTimestamps = InPeriod(@)]
    IN CASE b.state = "HALF_OPEN" /\ b.successes + 1 >= SuccessThreshold ->
              [filtered EXCEPT !.state = "CLOSED", !.failures = 0,
                               !.successes = 0]
         [] b.state = "HALF_OPEN" /\ b.successes + 1 < SuccessThreshold ->
              [filtered EXCEPT !.successes = @ + 1]
         [] b.state = "CLOSED" -> [filtered EXCEPT !.failures = 0]
         [] b.state = "OPEN" -> filtered

Counted(b) ==
    LET timestamps == InPeriod(Append(b.failureTimestamps, 0))
    IN [b EXCEPT !.lastFailureTime = 0, !.failureTimestamps = timestamps,
                 !.failures = Len(timestamps)]

\* Mutant of RecordFailure: a failure that arrives when the breaker is open
\* already does not put off the next test.
RecordFailureUnlessOpen(b) ==
    LET counted == Counted(b)
        opens == b.state = "HALF_OPEN" \/ counted.failures >= FailureThreshold
    IN CASE b.state = "OPEN" ->
              [counted EXCEPT !.lastFailureTime = b.lastFailureTime]
         [] b.state # "OPEN" /\ opens ->
              [counted EXCEPT !.state = "OPEN", !.successes = 0]
         [] OTHER -> counted

RecordFailure(b) ==
    LET counted == Counted(b)
    IN CASE b.state = "HALF_OPEN" ->
              [counted EXCEPT !.state = "OPEN", !.successes = 0]
         [] b.state = "CLOSED" /\ counted.failures >= FailureThreshold ->
              [counted EXCEPT !.state = "OPEN"]
         [] b.state = "CLOSED" /\ counted.failures < FailureThreshold ->
              counted
         [] b.state = "OPEN" -> counted

-----------------------------------------------------------------------------
(* ProxyService.proxyRequest                                               *)

\* attempt is the number of the attempt, made or awaited.  waiting: has the
\* TimeoutInterceptor not answered the client yet?  probe: did canExecute
\* admit the request when the breaker was not CLOSED?
Call == [pc : {"idle", "sending", "pausing"}, attempt : 1..MaxAttempts,
         waiting : BOOLEAN, probe : BOOLEAN]

Idle == [pc |-> "idle", attempt |-> 1, waiting |-> FALSE, probe |-> FALSE]

Init ==
    /\ breaker = InitialCircuit
    /\ call = [r \in Requests |-> Idle]
    /\ up = TRUE
    /\ outages = MaxOutages

End(r) == call' = [call EXCEPT ![r] = Idle]

Send(r) ==
    /\ call[r].pc = "idle"
    /\ CanExecute(breaker)
    /\ breaker' = GetState(breaker)
    /\ call' = [call EXCEPT ![r] =
                  [pc |-> "sending", attempt |-> 1, waiting |-> TRUE,
                   probe |-> breaker.state # "CLOSED"]]
    /\ UNCHANGED <<up, outages>>

\* A request is answered 503 without being sent.  The message asks for the
\* state again, and the clock may have moved on.
Reject ==
    /\ ~CanExecute(breaker)
    /\ \/ breaker' = breaker
       \/ CanExecute(Later(breaker)) /\ breaker' = GetState(Later(breaker))
    /\ UNCHANGED <<call, up, outages>>

\* No status makes axios throw, so every response ends the retry loop.
Succeed(r) ==
    /\ call[r].pc = "sending"
    /\ up
    /\ breaker' = RecordSuccess(breaker)
    /\ End(r)
    /\ UNCHANGED <<up, outages>>

\* A status of 400 and above is recorded as a success, then as a failure, and
\* the exception it is turned into is caught and recorded as a failure again.
RecordErrorResponse(b) == RecordFailure(RecordFailure(RecordSuccess(b)))

ErrorResponse(r) ==
    /\ call[r].pc = "sending"
    /\ ~up \/ ClientErrors
    /\ breaker' = RecordErrorResponse(breaker)
    /\ End(r)
    /\ UNCHANGED <<up, outages>>

\* Mutant of MayRetry: one attempt too many.
MayRetryOnceMore(attempt) == attempt <= MaxAttempts

MayRetry(attempt) == attempt < MaxAttempts

\* Mutant of NextAttempt: attempts are not counted.
NextAttemptUncounted(attempt) == attempt

NextAttempt(attempt) == attempt + 1

\* No response: a connection error, or the 30 seconds of axios have passed.
Retry(r) ==
    /\ call[r].pc = "sending"
    /\ ~up
    /\ MayRetry(call[r].attempt)
    /\ call' = [call EXCEPT ![r].pc = "pausing",
                            ![r].attempt = NextAttempt(@)]
    /\ UNCHANGED <<breaker, up, outages>>

\* It was the last attempt, or the error is not one to retry.
GiveUp(r) ==
    /\ call[r].pc = "sending"
    /\ ~up
    /\ breaker' = RecordFailure(breaker)
    /\ End(r)
    /\ UNCHANGED <<up, outages>>

\* The pause is over: the request is sent again, whatever the breaker says.
Resend(r) ==
    /\ call[r].pc = "pausing"
    /\ call' = [call EXCEPT ![r].pc = "sending"]
    /\ UNCHANGED <<breaker, up, outages>>

\* TimeoutInterceptor answers 408; the promise it waited for goes on.
AnswerTimeout(r) ==
    /\ call[r].pc # "idle"
    /\ call[r].waiting
    /\ call' = [call EXCEPT ![r].waiting = FALSE]
    /\ UNCHANGED <<breaker, up, outages>>

-----------------------------------------------------------------------------
(* The environment.                                                        *)

Tick == breaker' = Later(breaker) /\ UNCHANGED <<call, up, outages>>

GoDown ==
    /\ up /\ outages > 0
    /\ up' = FALSE /\ outages' = outages - 1
    /\ UNCHANGED <<breaker, call>>

ComeUp == ~up /\ up' = TRUE /\ UNCHANGED <<breaker, call, outages>>

\* The gateway's process starts again: breakers and requests are in memory.
Restart ==
    /\ breaker' = InitialCircuit
    /\ call' = [r \in Requests |-> Idle]
    /\ UNCHANGED <<up, outages>>

ProxyRequest(r) ==
    Succeed(r) \/ ErrorResponse(r) \/ Retry(r) \/ GiveUp(r) \/ Resend(r)

Next ==
    \/ \E r \in Requests : Send(r) \/ ProxyRequest(r) \/ AnswerTimeout(r)
    \/ Reject
    \/ Tick
    \/ GoDown \/ ComeUp
    \/ Restart

Spec == Init /\ [][Next]_vars

\* Clocks tick and every await of a request ends: axios has a timeout and a
\* pause a timer.
Fairness == WF_vars(Tick) /\ \A r \in Requests : WF_vars(ProxyRequest(r))

\* Clients that keep calling.
Called == WF_vars(\E r \in Requests : Send(r))

FairSpec == Spec /\ Fairness
CalledSpec == FairSpec /\ Called
-----------------------------------------------------------------------------
(* Properties.                                                             *)

\* Every variable holds what the code's types allow.
TypeOK ==
    /\ breaker \in CircuitState
    /\ call \in [Requests -> Call]
    /\ up \in BOOLEAN
    /\ outages \in 0..MaxOutages

\* A breaker that tests its service, or has come to trust it again, does not
\* hold old failures against it, although the timestamps are never cleared:
\* HALF_OPEN is reached only when every recorded failure has left the
\* monitoring period, late ones of requests sent before it opened included,
\* so that a CLOSED breaker always has fewer than FailureThreshold in it.
RecentFailures(b) == DOMAIN b.failureTimestamps \ Expired(b.failureTimestamps)
CleanSlate ==
    /\ breaker.state = "HALF_OPEN" => RecentFailures(breaker) = {}
    /\ breaker.state = "CLOSED" =>
          /\ Cardinality(RecentFailures(breaker)) < FailureThreshold
          /\ breaker.failures < FailureThreshold

\* Between the failure that opens the breaker and its closing no request is
\* let through within Timeout of the last failure that reached the gateway,
\* whichever request it was of.
CooledDown == \A i \in DOMAIN breaker.failureTimestamps :
                  breaker.failureTimestamps[i] >= MonitoringPeriod
AdmittedAfterCoolDown ==
    [][\A r \in Requests :
          /\ call[r].pc = "idle" /\ call'[r].pc = "sending"
          /\ breaker.state # "CLOSED"
          => breaker.lastFailureTime >= Timeout /\ CooledDown]_vars

\* "automatically recovers when healthy": once the service answers for good, no
\* error among its answers any more, and is called, its breaker closes for good.
Recovers ==
    <>[]up /\ <>[][\A r \in Requests : ~ErrorResponse(r)]_vars
        => <>[](breaker.state = "CLOSED")

\* Every proxied request comes to an end, whatever the service does.
RequestsEnd == \A r \in Requests : call[r].pc # "idle" ~> call[r].pc = "idle"

\* "Allow one request to test".
OneProbe ==
    breaker.state = "HALF_OPEN" =>
        Cardinality({r \in Requests : call[r].probe}) <= 1

\* "If we fail in half-open, go back to open": a request that ends while the
\* breaker is HALF_OPEN and is recorded as failed opens it.
FailedProbeReopens ==
    [][breaker.state = "HALF_OPEN" /\ breaker'.lastFailureTime = 0
         => breaker'.state = "OPEN"]_vars

\* "Number of failures before opening": a failed request counts as one.
OneFailurePerRequest ==
    [][Len(breaker'.failureTimestamps)
         <= Len(breaker.failureTimestamps) + 1]_vars

\* "Reset failure count on success": what is counted afterwards is what fails
\* afterwards, at most one request and its two records a step.
CountRestarts ==
    [][breaker.failures = 0 => breaker'.failures <= 2]_vars

\* "Stops calls to failing services": the breaker of a service that has never
\* been down stays CLOSED.
HealthyStaysClosed ==
    up /\ outages = MaxOutages => breaker.state = "CLOSED"

\* "Automatic request cancellation": after the client was told of the timeout
\* the request is not sent again.
TimeoutCancels ==
    [][\A r \in Requests :
          call[r].pc = "pausing" /\ ~call[r].waiting
             => call'[r].pc # "sending"]_vars
=============================================================================
