---------------------------- MODULE CircuitBreaker ----------------------------
(***************************************************************************)
(* The circuit breaker of core/circuit_breaker.py, over four keys of a     *)
(* shared cache.  is_available reads the state and acts in a later step, so *)
(* that two callers may both take the last probe; a record is one step.    *)
(* Its one user is the malware scanner (MalwareScan).                      *)
(***************************************************************************)
EXTENDS Naturals

CONSTANTS FailureThreshold,    \* failure_threshold
          HalfOpenMaxCalls     \* half_open_max_calls

ASSUME CircuitAssumption ==
    FailureThreshold \in Nat \ {0} /\ HalfOpenMaxCalls \in Nat \ {0}

VARIABLE circuit

CircuitStates == {"closed", "open", "half_open"}

(* "rested": recovery_timeout has passed since opened_at.  "calls" counts  *)
(* the half-open probes; it is only compared with HalfOpenMaxCalls.  Both  *)
(* are kept at their first value where the code does not read them.        *)
Circuit == [state : CircuitStates, failures : 0..FailureThreshold,
            rested : BOOLEAN, calls : 0..HalfOpenMaxCalls]

CircuitInit ==
    circuit = [state |-> "closed", failures |-> 0, rested |-> FALSE, calls |-> 0]

Capped(n, top) == IF n < top THEN n + 1 ELSE top

-----------------------------------------------------------------------------
(* is_available: what the caller decides from what it reads.               *)
Decision ==
    CASE circuit.state = "closed" -> "go"
      [] circuit.state = "open" -> IF circuit.rested THEN "half_open" ELSE "skip"
      [] circuit.state = "half_open" ->
            IF circuit.calls < HalfOpenMaxCalls THEN "probe" ELSE "skip"

Decisions == {"go", "half_open", "probe"}

(* ... and writes before it goes on.                                       *)
Turned(state) == [circuit EXCEPT !.state = state, !.rested = FALSE, !.calls = 0]

Admit(decision) ==
    circuit' =
        CASE decision = "half_open" -> [Turned("half_open") EXCEPT !.calls = 1]
          [] decision = "probe" /\ circuit.state = "half_open" ->
                [circuit EXCEPT !.calls = Capped(@, HalfOpenMaxCalls)]
          [] OTHER -> circuit

(* record_success, record_failure; failures are not reset by opening.      *)
RecordSuccess ==
    circuit' = [(IF circuit.state = "half_open" THEN Turned("closed") ELSE circuit)
                EXCEPT !.failures = 0]

RecordFailure ==
    LET probed == circuit.state = "half_open"
        failures == IF probed THEN circuit.failures
                    ELSE Capped(circuit.failures, FailureThreshold)
        opens == probed \/ failures = FailureThreshold
    IN circuit' = [(IF opens THEN Turned("open") ELSE circuit) EXCEPT !.failures = failures]

-----------------------------------------------------------------------------
(* The time.                                                               *)
Rest ==
    /\ circuit.state = "open" /\ ~circuit.rested
    /\ circuit' = [circuit EXCEPT !.rested = TRUE]

(* The state's key runs out: no state is the closed state.  The failures'  *)
(* key is older than it.                                                   *)
NeverForgets == FALSE /\ UNCHANGED circuit      \* bug: keys without a TTL
Forget ==
    /\ circuit.state # "closed"
    /\ circuit' = [Turned("closed") EXCEPT !.failures = 0]
=============================================================================
