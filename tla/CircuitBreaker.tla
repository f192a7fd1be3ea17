--------------------------- MODULE CircuitBreaker ---------------------------
(* The circuit breaker of one backend, class CircuitBreaker in              *)
(* yamp/resilience.py, as operators on its record of fields. The clock the  *)
(* class is given is the argument now, in ticks. Reading the property       *)
(* `state` may move the stored state from open to half_open; Refresh is     *)
(* that write, and every operator that reads the property performs it.      *)
EXTENDS Naturals

CONSTANTS Threshold,     \* failure_threshold
          ResetTimeout   \* reset_timeout, in ticks

(* The configuration is not validated by the code; a threshold below one    *)
(* would open the breaker with a failure count of zero.                     *)
ASSUME BreakerAssumption == Threshold \in Nat \ {0} /\ ResetTimeout \in Nat

CircuitState == {"closed", "open", "half_open"}

Breaker == [state : CircuitState, failures : Nat, opened_at : Nat]

NewBreaker == [state |-> "closed", failures |-> 0, opened_at |-> 0]

State_Impatient(b, now) ==   \* mutant: the reset timeout is not waited for
  IF b.state = "open" THEN "half_open" ELSE b.state

State(b, now) == IF b.state = "open" /\ now - b.opened_at >= ResetTimeout
                   THEN "half_open"
                   ELSE b.state

Refresh(b, now) == [b EXCEPT !.state = State(b, now)]

Allow(b, now) == State(b, now) # "open"

RecordSuccess(b) == [b EXCEPT !.failures = 0, !.state = "closed"]

Trip(now) == [state |-> "open", failures |-> Threshold, opened_at |-> now]

RecordFailure_OffByOne(b, now) ==   \* mutant: one failure too many is tolerated
  IF State(b, now) = "half_open" \/ b.failures >= Threshold
    THEN Trip(now)
    ELSE [b EXCEPT !.failures = b.failures + 1]

RecordFailure(b, now) ==
  IF State(b, now) = "half_open" \/ b.failures + 1 >= Threshold
    THEN Trip(now)
    ELSE [b EXCEPT !.failures = b.failures + 1]

-----------------------------------------------------------------------------
(* What the three fields say to each other: a closed breaker has counted    *)
(* fewer failures than the threshold, any other one exactly the threshold,  *)
(* and no breaker was opened in the future (which would keep it open past   *)
(* its reset timeout).                                                      *)
Coherent(b, now) == /\ b.state = "closed" <=> b.failures < Threshold
                    /\ b.failures <= Threshold
                    /\ b.opened_at <= now
=============================================================================
