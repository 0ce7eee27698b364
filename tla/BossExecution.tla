---------------------------- MODULE BossExecution ----------------------------
(***************************************************************************)
(* The execution boundary of the AI CEO: executeAction and cancelAction    *)
(* (boss/boss-executor.service.ts), the Owner's decisions and the requests *)
(* for them (boss/boss-approval.service.ts) and the policy they share      *)
(* (boss/boss-execution-policy.ts), interleaved one SQL statement at a     *)
(* time. A request of the API is a slot of Requests, free when "idle".     *)
(*                                                                         *)
(* Of a tool the model keeps what the policy asks of it. No code changes   *)
(* the tool, the input or the version of an action after boss.service      *)
(* created it, so an approval never goes stale by version or by hash.      *)
(***************************************************************************)
EXTENDS Naturals, Sequences, FiniteSets

CONSTANTS Actions,       \* rows of boss_actions
          Requests,      \* requests the API serves at the same time
          NoAction,
          Tools,         \* kinds of tool the actions may name
          Circumstances, \* what may happen, a subset of AllCircumstances
          MaxCalls,      \* bound: tool calls of one action
          MaxApprovals,  \* bound: approval rows of one action
          MaxAborts      \* bound: statements rejected by the database

\* "internal": granted autonomy, implemented, no external effect; "external":
\* granted autonomy, leaves the system, not implemented; "above": requires more
\* autonomy than the action has; "unknown": not in the typed registry.
AllTools == {"internal", "external", "above", "unknown"}

AllCircumstances == {"decide", "cancel", "lapse", "crash", "abort"}

ASSUME BossAssumption ==
  /\ NoAction \notin Actions
  /\ Tools \subseteq AllTools
  /\ Circumstances \subseteq AllCircumstances
  /\ MaxCalls \in Nat /\ MaxApprovals \in Nat /\ MaxAborts \in Nat

VARIABLES status,     \* boss_actions.status
          tool,       \* boss_actions.tool, as one of Tools
          approvals,  \* boss_approvals of each action, by createdAt
          calls,      \* boss_tool_calls of each action: their status
          pc,         \* the next statement of each request
          target,     \* the action a request is about
          seen,       \* the status it loaded
          next,       \* the status it decided to write
          row,        \* the approval or tool call it works on
          outcomes,   \* history: how runs of the tool of an action ended
          granted,    \* history: the Owner approved the action at some time
          ended,      \* history: the action was terminal at some time
          aborts

rowVars     == <<status, tool, approvals, calls>>
requestVars == <<pc, target, seen, next, row>>
historyVars == <<outcomes, granted, ended>>
vars        == <<rowVars, requestVars, historyVars, aborts>>

ActionStatuses == {"proposed", "approval_required", "approved", "executing",
                   "executed", "failed", "denied", "skipped", "cancelled"}

TerminalStatuses == {"executed", "denied", "skipped", "cancelled"}

Approval == [status : {"pending", "approved", "rejected", "cancelled"},
             lapsed : BOOLEAN]

CallStatuses == {"running", "succeeded", "failed", "skipped"}

RequestPc ==
  {"idle", "decide", "refuse", "ensure", "createApproval", "claim", "createCall",
   "skip", "tool", "callDone", "markExecuted", "auditExecuted", "callFailed",
   "markFailed", "cancelClaim", "cancelRead", "cancelApproval",
   "decideApproval", "decideAction"}

TypeOK ==
  /\ status \in [Actions -> ActionStatuses]
  /\ tool \in [Actions -> AllTools]
  /\ approvals \in [Actions -> Seq(Approval)]
  /\ calls \in [Actions -> Seq(CallStatuses)]
  /\ pc \in [Requests -> RequestPc]
  /\ target \in [Requests -> Actions \cup {NoAction}]
  /\ seen \in [Requests -> ActionStatuses]
  /\ next \in [Requests -> ActionStatuses]
  /\ row \in [Requests -> Nat]
  /\ outcomes \in [Actions -> SUBSET {"ok", "error"}]
  /\ granted \in [Actions -> BOOLEAN]
  /\ ended \in [Actions -> BOOLEAN]
  /\ aborts \in Nat

\* Every action row is created "proposed", whatever its permission check said.
Init ==
  /\ status = [a \in Actions |-> "proposed"]
  /\ tool \in [Actions -> Tools]
  /\ approvals = [a \in Actions |-> << >>]
  /\ calls = [a \in Actions |-> << >>]
  /\ pc = [r \in Requests |-> "idle"]
  /\ target = [r \in Requests |-> NoAction]
  /\ seen = [r \in Requests |-> "proposed"]
  /\ next = [r \in Requests |-> "proposed"]
  /\ row = [r \in Requests |-> 0]
  /\ outcomes = [a \in Actions |-> {}]
  /\ granted = [a \in Actions |-> FALSE]
  /\ ended = [a \in Actions |-> FALSE]
  /\ aborts = 0

-----------------------------------------------------------------------------
(* The policy *)

NoApproval == [status |-> "none", lapsed |-> FALSE]

\* currentApproval: ORDER BY createdAt DESC LIMIT 1.
LatestApproval(a) ==
  IF approvals[a] = << >> THEN NoApproval ELSE approvals[a][Len(approvals[a])]

\* (fault) An approval that was asked for is taken for one that was given.
AnyApproval(ap) == ap.status # "none"

\* An approval that lets an external tool run.
Consents(ap) == ap.status = "approved" /\ ~ap.lapsed

\* (fault) The deny code is stored where the status belongs.
PolicyCode(s, t, ap) ==
  IF s \in TerminalStatuses \cup {"executing"} THEN "ALREADY_TERMINAL" ELSE "allowed"

\* evaluateExecutionPolicy: "allowed", or the status a refusal leads to.
Policy(s, t, ap) ==
  CASE s \in TerminalStatuses \cup {"executing"} -> s
    [] /\ s \notin TerminalStatuses \cup {"executing"}
       /\ t = "above" \/ (t = "external" /\ ap.status = "rejected") -> "denied"
    [] /\ s \notin TerminalStatuses \cup {"executing"}
       /\ t = "external" /\ ap.status # "rejected" /\ ~Consents(ap) -> "approval_required"
    [] OTHER -> "allowed"

-----------------------------------------------------------------------------
(* Helpers *)

\* An update of the action's status by id, whatever it was.
Write(a, s) ==
  /\ status' = [status EXCEPT ![a] = s]
  /\ ended' = [ended EXCEPT ![a] = @ \/ s \in TerminalStatuses]

Goto(r, l) == pc' = [pc EXCEPT ![r] = l]

\* The request is answered, or dies: its local state is forgotten.
Return(r) ==
  /\ pc' = [pc EXCEPT ![r] = "idle"]
  /\ target' = [target EXCEPT ![r] = NoAction]
  /\ seen' = [seen EXCEPT ![r] = "proposed"]
  /\ next' = [next EXCEPT ![r] = "proposed"]
  /\ row' = [row EXCEPT ![r] = 0]

\* Requests about an action that have not been answered.
About(a) == {r \in Requests : target[r] = a}

\* Requests that have claimed the action and not yet recorded how it went.
HolderPcs == {"createCall", "skip", "tool", "callDone", "markExecuted",
              "callFailed", "markFailed"}

Holders(a) == {r \in About(a) : pc[r] \in HolderPcs}

\* The bounds on the rows of an action leave room for the requests under way;
\* executing an action that is terminal or executing adds no row.
RoomFor(a) ==
  /\ Len(calls[a]) + Cardinality(About(a)) < MaxCalls
  /\ Len(approvals[a]) + Cardinality(About(a)) < MaxApprovals

-----------------------------------------------------------------------------
(* executeAction *)

\* loadAction: the status the rest of the request goes by.
ExecuteLoad(r, a) ==
  /\ pc[r] = "idle"
  /\ status[a] \in TerminalStatuses \cup {"executing"} \/ RoomFor(a)
  /\ target' = [target EXCEPT ![r] = a]
  /\ seen' = [seen EXCEPT ![r] = status[a]]
  /\ \/ /\ tool[a] = "unknown"
        /\ next' = [next EXCEPT ![r] = "denied"]
        /\ Goto(r, "refuse")
     \/ /\ tool[a] # "unknown"
        /\ Goto(r, "decide")
        /\ UNCHANGED next
  /\ UNCHANGED <<rowVars, row, historyVars, aborts>>

\* The latest approval is read and the policy evaluated.
ExecuteDecide(r) ==
  /\ pc[r] = "decide"
  /\ LET verdict == Policy(seen[r], tool[target[r]], LatestApproval(target[r]))
     IN  \/ /\ verdict = "allowed"
            /\ Goto(r, "claim")
            /\ UNCHANGED next
         \/ /\ verdict # "allowed"
            /\ next' = [next EXCEPT ![r] = verdict]
            /\ Goto(r, "refuse")
  /\ UNCHANGED <<rowVars, target, seen, row, historyVars, aborts>>

\* A refusal writes the status it decided on, by id alone.
ExecuteRefuse(r) ==
  /\ pc[r] = "refuse"
  /\ Write(target[r], next[r])
  /\ \/ /\ next[r] = "approval_required"
        /\ Goto(r, "ensure")
        /\ UNCHANGED <<target, seen, next, row>>
     \/ /\ next[r] # "approval_required"
        /\ Return(r)
  /\ UNCHANGED <<tool, approvals, calls, outcomes, granted, aborts>>

\* (fault) The claim is an update by id.
ClaimWins(s, expected) == s \notin TerminalStatuses

\* The where clause of both compare-and-swaps: the status is still the one seen.
StillSeen(s, expected) == s = expected

\* The claim; a lost race is EXECUTION_RACE_LOST.
ExecuteClaim(r) ==
  /\ pc[r] = "claim"
  /\ \/ /\ StillSeen(status[target[r]], seen[r])
        /\ Write(target[r], "executing")
        /\ Goto(r, "createCall")
        /\ UNCHANGED <<target, seen, next, row>>
     \/ /\ ~StillSeen(status[target[r]], seen[r])
        /\ Return(r)
        /\ UNCHANGED <<status, ended>>
  /\ UNCHANGED <<tool, approvals, calls, outcomes, granted, aborts>>

\* A tool without a handler is recorded as skipped, never as run.
ExecuteCreateCall(r) ==
  /\ pc[r] = "createCall"
  /\ LET a == target[r]
     IN  /\ \/ /\ tool[a] = "external"
               /\ calls' = [calls EXCEPT ![a] = Append(@, "skipped")]
               /\ Goto(r, "skip")
            \/ /\ tool[a] # "external"
               /\ calls' = [calls EXCEPT ![a] = Append(@, "running")]
               /\ Goto(r, "tool")
         /\ row' = [row EXCEPT ![r] = Len(calls[a]) + 1]
  /\ UNCHANGED <<status, tool, approvals, target, seen, next, historyVars, aborts>>

ExecuteSkip(r) ==
  /\ pc[r] = "skip"
  /\ Write(target[r], "skipped")
  /\ Return(r)
  /\ UNCHANGED <<tool, approvals, calls, outcomes, granted, aborts>>

\* (fault) A throwing tool is recorded like one that returned.
ToolAlwaysDone(v) == "callDone"

\* (fault) The tool call is not updated when the tool returned.
ToolNotRecorded(v) == IF v = "ok" THEN "markExecuted" ELSE "callFailed"

AfterTool(v) == IF v = "ok" THEN "callDone" ELSE "callFailed"

\* runTool returns or throws.
ExecuteTool(r) ==
  /\ pc[r] = "tool"
  /\ \E v \in {"ok", "error"} :
       /\ outcomes' = [outcomes EXCEPT ![target[r]] = @ \cup {v}]
       /\ Goto(r, AfterTool(v))
  /\ UNCHANGED <<rowVars, target, seen, next, row, granted, ended, aborts>>

\* The tool call is updated: succeeded, or failed in the catch block.
ExecuteRecordCall(r) ==
  /\ \/ /\ pc[r] = "callDone"
        /\ calls' = [calls EXCEPT ![target[r]][row[r]] = "succeeded"]
        /\ Goto(r, "markExecuted")
     \/ /\ pc[r] = "callFailed"
        /\ calls' = [calls EXCEPT ![target[r]][row[r]] = "failed"]
        /\ Goto(r, "markFailed")
  /\ UNCHANGED <<status, tool, approvals, target, seen, next, row, historyVars, aborts>>

\* The action is marked executed; the audit rows are still inside the try.
ExecuteMark(r) ==
  /\ \/ /\ pc[r] = "markExecuted"
        /\ Write(target[r], "executed")
        /\ Goto(r, "auditExecuted")
        /\ UNCHANGED <<target, seen, next, row>>
     \/ /\ pc[r] = "markFailed"
        /\ Write(target[r], "failed")
        /\ Return(r)
  /\ UNCHANGED <<tool, approvals, calls, outcomes, granted, aborts>>

ExecuteAnswer(r) ==
  /\ pc[r] = "auditExecuted"
  /\ Return(r)
  /\ UNCHANGED <<rowVars, historyVars, aborts>>

-----------------------------------------------------------------------------
(* Requests for an approval *)

\* requestForAction starts where ensureApproval starts.
RequestStart(r, a) ==
  /\ "decide" \in Circumstances
  /\ pc[r] = "idle" /\ RoomFor(a)
  /\ target' = [target EXCEPT ![r] = a]
  /\ Goto(r, "ensure")
  /\ UNCHANGED <<rowVars, seen, next, row, historyVars, aborts>>

\* A pending approval is answered as it is, lapsed or not.
EnsureRead(r) ==
  /\ pc[r] = "ensure"
  /\ \/ /\ LatestApproval(target[r]).status = "pending"
        /\ Return(r)
     \/ /\ LatestApproval(target[r]).status # "pending"
        /\ Goto(r, "createApproval")
        /\ UNCHANGED <<target, seen, next, row>>
  /\ UNCHANGED <<rowVars, historyVars, aborts>>

CreateApproval(r) ==
  /\ pc[r] = "createApproval"
  /\ approvals' = [approvals EXCEPT ![target[r]] =
                     Append(@, [status |-> "pending", lapsed |-> FALSE])]
  /\ Return(r)
  /\ UNCHANGED <<status, tool, calls, historyVars, aborts>>

-----------------------------------------------------------------------------
(* cancelAction *)

\* A terminal or executing action is refused without a write.
CancelLoad(r, a) ==
  /\ "cancel" \in Circumstances
  /\ pc[r] = "idle"
  /\ status[a] \notin TerminalStatuses \cup {"executing"}
  /\ target' = [target EXCEPT ![r] = a]
  /\ seen' = [seen EXCEPT ![r] = status[a]]
  /\ Goto(r, "cancelClaim")
  /\ UNCHANGED <<rowVars, next, row, historyVars, aborts>>

CancelClaim(r) ==
  /\ pc[r] = "cancelClaim"
  /\ \/ /\ StillSeen(status[target[r]], seen[r])
        /\ Write(target[r], "cancelled")
        /\ Goto(r, "cancelRead")
        /\ UNCHANGED <<target, seen, next, row>>
     \/ /\ ~StillSeen(status[target[r]], seen[r])
        /\ Return(r)
        /\ UNCHANGED <<status, ended>>
  /\ UNCHANGED <<tool, approvals, calls, outcomes, granted, aborts>>

CancelRead(r) ==
  /\ pc[r] = "cancelRead"
  /\ \/ /\ LatestApproval(target[r]).status = "pending"
        /\ row' = [row EXCEPT ![r] = Len(approvals[target[r]])]
        /\ Goto(r, "cancelApproval")
        /\ UNCHANGED <<target, seen, next>>
     \/ /\ LatestApproval(target[r]).status # "pending"
        /\ Return(r)
  /\ UNCHANGED <<rowVars, historyVars, aborts>>

CancelApproval(r) ==
  /\ pc[r] = "cancelApproval"
  /\ approvals' = [approvals EXCEPT ![target[r]][row[r]].status = "cancelled"]
  /\ Return(r)
  /\ UNCHANGED <<status, tool, calls, historyVars, aborts>>

-----------------------------------------------------------------------------
(* decide: the Owner approves or rejects *)

\* Only a pending approval is decided, and a lapsed one is never approved.
Decidable(ap, s) == ap.status = "pending" /\ (s = "approved" => ~ap.lapsed)

DecideRead(r, a, i) ==
  /\ "decide" \in Circumstances
  /\ pc[r] = "idle"
  /\ \E s \in {"approved", "denied"} :
       /\ Decidable(approvals[a][i], s)
       /\ next' = [next EXCEPT ![r] = s]
  /\ target' = [target EXCEPT ![r] = a]
  /\ row' = [row EXCEPT ![r] = i]
  /\ Goto(r, "decideApproval")
  /\ UNCHANGED <<rowVars, seen, historyVars, aborts>>

\* The approval row, by id alone ...
DecideApproval(r) ==
  /\ pc[r] = "decideApproval"
  /\ LET a == target[r]
         s == IF next[r] = "approved" THEN "approved" ELSE "rejected"
     IN  /\ approvals' = [approvals EXCEPT ![a][row[r]].status = s]
         /\ granted' = [granted EXCEPT ![a] = @ \/ s = "approved"]
  /\ Goto(r, "decideAction")
  /\ UNCHANGED <<status, tool, calls, target, seen, next, row, outcomes, ended, aborts>>

\* ... and then the action, whatever has become of it.
DecideAction(r) ==
  /\ pc[r] = "decideAction"
  /\ Write(target[r], next[r])
  /\ Return(r)
  /\ UNCHANGED <<tool, approvals, calls, outcomes, granted, aborts>>

-----------------------------------------------------------------------------
(* Time and failures *)

\* expiresAt passes (APPROVAL_EXPIRY_HOURS).
ApprovalLapses(a, i) ==
  /\ "lapse" \in Circumstances
  /\ ~approvals[a][i].lapsed
  /\ approvals' = [approvals EXCEPT ![a][i].lapsed = TRUE]
  /\ UNCHANGED <<status, tool, calls, requestVars, historyVars, aborts>>

\* A statement is rejected: inside the try block of executeAction the catch
\* block takes over, anywhere else the request ends with an error.
StatementFails(r) ==
  /\ "abort" \in Circumstances
  /\ aborts < MaxAborts
  /\ aborts' = aborts + 1
  /\ \/ /\ pc[r] \in {"callDone", "markExecuted", "auditExecuted"}
        /\ Goto(r, "callFailed")
        /\ UNCHANGED <<target, seen, next, row>>
     \/ /\ pc[r] \notin {"idle", "tool", "callDone", "markExecuted", "auditExecuted"}
        /\ Return(r)
  /\ UNCHANGED <<rowVars, historyVars>>

\* The API process that serves the request dies.
Crash(r) ==
  /\ "crash" \in Circumstances
  /\ pc[r] # "idle"
  /\ Return(r)
  /\ UNCHANGED <<rowVars, historyVars, aborts>>

-----------------------------------------------------------------------------
RequestStep(r) ==
  \/ ExecuteDecide(r) \/ ExecuteRefuse(r) \/ ExecuteClaim(r)
  \/ ExecuteCreateCall(r) \/ ExecuteSkip(r) \/ ExecuteTool(r)
  \/ ExecuteRecordCall(r) \/ ExecuteMark(r) \/ ExecuteAnswer(r)
  \/ EnsureRead(r) \/ CreateApproval(r)
  \/ CancelClaim(r) \/ CancelRead(r) \/ CancelApproval(r)
  \/ DecideApproval(r) \/ DecideAction(r)

RequestBegins(r, a) ==
  \/ ExecuteLoad(r, a) \/ RequestStart(r, a) \/ CancelLoad(r, a)
  \/ \E i \in DOMAIN approvals[a] : DecideRead(r, a, i)

Next ==
  \/ \E r \in Requests : RequestStep(r) \/ StatementFails(r) \/ Crash(r)
  \/ \E r \in Requests, a \in Actions : RequestBegins(r, a)
  \/ \E a \in Actions : \E i \in DOMAIN approvals[a] : ApprovalLapses(a, i)

Spec == Init /\ [][Next]_vars
-----------------------------------------------------------------------------
(* Properties that hold whatever happens *)

\* An action is reported executed only if its tool really returned, also when
\* statements fail between the tool call and the status ("Never fabricates
\* success", boss-executor.service.ts:120).
ToolReallyRan ==
  \A a \in Actions : status[a] = "executed" => "ok" \in outcomes[a]

\* No tool call is ever opened for an unknown tool or above the action's
\* autonomy, nor for an external tool the Owner has not approved, however the
\* policy's reads interleave with decisions, expiries and cancellations.
CallsArePermitted ==
  \A a \in Actions : calls[a] # << >> =>
    /\ tool[a] \in {"internal", "external"}
    /\ tool[a] = "external" => granted[a]

-----------------------------------------------------------------------------
(* Properties of the executor alone: nobody decides an approval *)

\* "Exactly one caller may hold an action at a time" (rule 6 of the policy).
SingleHolder ==
  \A a \in Actions : Cardinality(Holders(a)) <= 1

\* A cancellation is not "reported as successful while the tool is still
\* running" (boss-execution.controller.ts:56).
CancelledNotRunning ==
  \A a \in Actions : status[a] = "cancelled" => Holders(a) = {}

\* An executed action has a tool call that says so.
ExecutedHasSucceededCall ==
  \A a \in Actions : status[a] = "executed" =>
    \E i \in DOMAIN calls[a] : calls[a][i] = "succeeded"

\* What the claim is for: one holder at a time, and none once the action ended.
Claim == INSTANCE ActionClaim
           WITH holders <- [a \in Actions |-> Holders(a)]

ImplementsClaim == Claim!Spec

-----------------------------------------------------------------------------
(* What the documentation says and the code does not do *)

\* An action that is "executing" is executed by somebody: the refusal says that
\* "another caller is already executing this action" (boss-execution-policy.ts:122).
ExecutingIsHeld ==
  \A a \in Actions : status[a] = "executing" => Holders(a) # {}
=============================================================================
