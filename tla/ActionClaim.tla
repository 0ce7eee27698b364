----------------------------- MODULE ActionClaim -----------------------------
(***************************************************************************)
(* What the compare-and-swap on boss_actions.status is for: an action is a *)
(* task that one request at a time may hold, and that nobody holds again   *)
(* once it has ended (rules 5 and 6 of boss/boss-execution-policy.ts).     *)
(***************************************************************************)
CONSTANTS Actions, Requests

VARIABLES holders,   \* requests that hold each action
          ended      \* the action has reached a terminal state

vars == <<holders, ended>>

Init ==
  /\ holders = [a \in Actions |-> {}]
  /\ ended = [a \in Actions |-> FALSE]

\* A free action that has not ended is taken.
Take(a, r) ==
  /\ holders[a] = {} /\ ~ended[a]
  /\ holders' = [holders EXCEPT ![a] = {r}]
  /\ UNCHANGED ended

\* The holder gives up: the action may be tried again.
Release(a) ==
  /\ holders' = [holders EXCEPT ![a] = {}]
  /\ UNCHANGED ended

\* A free action is ended without having been run, or its holder ends it.
End(a) ==
  /\ ended' = [ended EXCEPT ![a] = TRUE]
  /\ holders' = [holders EXCEPT ![a] = {}]

Next == \E a \in Actions : Release(a) \/ End(a) \/ \E r \in Requests : Take(a, r)

Spec == Init /\ [][Next]_vars
=============================================================================
