------------------------------ MODULE ControlPlane ------------------------------
(***************************************************************************)
(* A request through the guards to the gateway or to the boss, in one      *)
(* process that may be replaced (app.module.ts, ai/ai.controller.ts,       *)
(* boss/boss.controller.ts). The guards and what a handler does up to its  *)
(* first wait are one step.                                                *)
(***************************************************************************)
EXTENDS ApiGuards, AiGateway, BossCommands

CONSTANTS MaxRequests,  \* bound: requests that reach the limiter
          MaxRestarts   \* bound: replacements of the process

ASSUME ControlAssumption == MaxRequests \in Nat /\ MaxRestarts \in Nat

VARIABLES arrived,  \* requests that reached the limiter
          restarts  \* replacements of the process

handlerVars == <<gatewayVars, bossVars>>
boundVars == <<arrived, restarts>>
vars == <<guardVars, handlerVars, boundVars>>

Init == GuardsInit /\ GatewayInit /\ BossInit /\ arrived = 0 /\ restarts = 0

-----------------------------------------------------------------------------
\* POST /ai/invoke names a provider it knows, or none.
AskModel(c, role) ==
  \E l \in AskedLevels, n \in Named : Invoke(c, role, l, n)

\* What a request of a method does first, once it is let through. The
\* routes that are modelled are not public, and those that only read are left
\* out.
Handle(c, method) == LET role == RoleOf(FALSE) IN
  \/ method = "POST" /\ AskModel(c, role) /\ UNCHANGED bossVars
  \/ method = "POST" /\ BossPost(c, role) /\ UNCHANGED gatewayVars
  \/ method = "PATCH" /\ BossPatch(c, role) /\ UNCHANGED gatewayVars
  \/ method = "DELETE" /\ BossDelete(c) /\ UNCHANGED gatewayVars

NextRequest == arrived < MaxRequests /\ arrived' = arrived + 1 /\ UNCHANGED restarts

Arrive(c, k) == NextRequest /\ Admit(k) /\ Handle(c, k[1])

Refused(k) == NextRequest /\ TurnAway(k) /\ UNCHANGED handlerVars

\* The process is replaced.
Restart ==
  /\ restarts < MaxRestarts
  /\ restarts' = restarts + 1
  /\ ForgetWindows
  /\ GatewayDies
  /\ BossDies
  /\ UNCHANGED arrived

Next ==
  \/ \E c \in Clients, k \in WindowKeys : Arrive(c, k)
  \/ \E k \in WindowKeys : Refused(k)
  \/ Tick /\ UNCHANGED <<handlerVars, boundVars>>
  \/ \E c \in Clients : GatewayStep(c) /\ UNCHANGED <<guardVars, bossVars, boundVars>>
  \/ \E c \in Clients : BossStep(c) /\ UNCHANGED <<guardVars, gatewayVars, boundVars>>
  \/ Restart

\* A timer fires, a backoff ends and a statement is answered in the end; a
\* provider need not answer.
Fairness == \A c \in Clients : WF_gatewayVars(OwnStep(c))

Spec == Init /\ [][Next]_vars /\ Fairness

ControlTypeOK == /\ GuardsTypeOK /\ GatewayTypeOK /\ BossTypeOK
                 /\ arrived \in 0..MaxRequests /\ restarts \in 0..MaxRestarts
=================================================================================
