-------------------------- MODULE AutomationPolicy --------------------------
(***************************************************************************)
(* The pure retry policy of the automation queue                           *)
(* (automation/automation-policy.ts): the statuses of a job row, the       *)
(* backoff schedule and the decision taken after a failed attempt.         *)
(***************************************************************************)
EXTENDS Naturals

JobStatuses ==
  {"queued", "running", "succeeded", "failed", "dead_letter", "cancelled"}

TerminalJobStatuses == {"succeeded", "failed", "dead_letter", "cancelled"}

RetryBaseDelay == 1000
RetryMaxDelay  == 300000

AtMost(a, b)  == IF a <= b THEN a ELSE b
AtLeast(a, b) == IF a >= b THEN a ELSE b

\* Delay before the attempt that follows attempt number `attempt`. The code
\* clamps the exponent at 30; from 9 on the product is above RetryMaxDelay, so
\* clamping at 9 gives the same delay within the integers of the model checker.
BackoffDelay(attempt) ==
  IF attempt < 1 THEN 0
  ELSE AtMost(RetryBaseDelay * 2 ^ AtMost(attempt - 1, 9), RetryMaxDelay)

\* (fault) The attempt in progress is not counted against the budget.
DecideFailureOneMore(attempt, maxAttempts, retryable) ==
  IF retryable /\ attempt <= maxAttempts
  THEN [nextStatus |-> "queued", attempt |-> attempt + 1, delay |-> 0]
  ELSE [nextStatus |-> "dead_letter", attempt |-> attempt, delay |-> 0]

\* (fault) The next attempt is counted against the budget already.
DecideFailureOneLess(attempt, maxAttempts, retryable) ==
  IF retryable /\ attempt + 1 < maxAttempts
  THEN [nextStatus |-> "queued", attempt |-> attempt + 1, delay |-> 0]
  ELSE [nextStatus |-> "dead_letter", attempt |-> attempt, delay |-> 0]

\* (fault) The outcome is returned where the status is expected.
DecideFailureOutcome(attempt, maxAttempts, retryable) ==
  [nextStatus |-> IF retryable /\ attempt < maxAttempts THEN "retry" ELSE "dead_letter",
   attempt |-> attempt, delay |-> 0]

\* What a failed attempt leads to: back to "queued" after a delay, or buried.
DecideFailure(attempt, maxAttempts, retryable) ==
  LET budget == AtLeast(1, maxAttempts)
      n      == AtLeast(1, attempt)
  IN  IF retryable /\ n < budget
      THEN [nextStatus |-> "queued", attempt |-> n + 1, delay |-> BackoffDelay(n)]
      ELSE [nextStatus |-> "dead_letter", attempt |-> n, delay |-> 0]
=============================================================================
