------------------------ MODULE BossExecutionProofs ------------------------
(***************************************************************************)
(* What holds of the execution boundary for any number of actions and      *)
(* requests. In all circumstances: types, ToolReallyRan (no action is      *)
(* reported executed unless its tool returned) and CallsArePermitted (no   *)
(* tool is called without the autonomy and the approval it needs). While   *)
(* nobody decides an approval and no statement is rejected: one holder at  *)
(* a time, no cancellation of a running action, and ImplementsClaim. While *)
(* no statement is rejected: ExecutedHasSucceededCall.                     *)
(***************************************************************************)
EXTENDS BossExecution, FiniteSetTheorems, TLAPS

\* The tool of an action may be called.
Permitted(a) ==
  /\ tool[a] \in {"internal", "external"}
  /\ tool[a] = "external" => granted[a]

\* What a request knows of its action at each of its statements.
RequestInv(r) ==
  /\ pc[r] # "idle" => target[r] \in Actions
  /\ pc[r] = "decide" => /\ tool[target[r]] # "unknown"
                         /\ seen[r] = "executed" => "ok" \in outcomes[target[r]]
  /\ pc[r] = "refuse" /\ next[r] = "executed" => "ok" \in outcomes[target[r]]
  /\ pc[r] \in {"decideApproval", "decideAction"} => next[r] \in {"approved", "denied"}
  /\ pc[r] \in {"claim"} \cup HolderPcs => Permitted(target[r])
  /\ pc[r] \in {"callDone", "markExecuted", "auditExecuted"} => "ok" \in outcomes[target[r]]
  /\ pc[r] \in {"skip", "tool", "callDone", "markExecuted", "auditExecuted", "callFailed"} =>
       calls[target[r]] # << >>

\* An approval row is approved only if the Owner approved.
ApprovedMeansGranted ==
  \A a \in Actions : \A i \in DOMAIN approvals[a] :
    approvals[a][i].status = "approved" => granted[a]

IInv ==
  /\ TypeOK
  /\ ToolReallyRan
  /\ CallsArePermitted
  /\ ApprovedMeansGranted
  /\ \A r \in Requests : RequestInv(r)

-----------------------------------------------------------------------------
(* Sequences and the policy *)

\* Changing one element of a sequence, in its domain or not.
LEMMA SeqExcept ==
  ASSUME NEW T, NEW s \in Seq(T), NEW i, NEW v,
         i \in DOMAIN s => v \in T
  PROVE  /\ [s EXCEPT ![i] = v] \in Seq(T)
         /\ DOMAIN [s EXCEPT ![i] = v] = DOMAIN s
<1>1. DOMAIN s = 1 .. Len(s) /\ Len(s) \in Nat /\ \A k \in 1 .. Len(s) : s[k] \in T
  OBVIOUS
<1>2. [s EXCEPT ![i] = v] \in [1 .. Len(s) -> T]
  BY <1>1
<1>. QED BY <1>1, <1>2

\* A refusal never invents a success.
LEMMA PolicyRefuses ==
  ASSUME NEW s \in ActionStatuses, NEW t, NEW ap, Policy(s, t, ap) # "allowed"
  PROVE  Policy(s, t, ap) \in ActionStatuses /\ (Policy(s, t, ap) = "executed" => s = "executed")
BY DEF Policy, ActionStatuses, TerminalStatuses

\* Being allowed takes the autonomy, and the approval if the tool is external.
LEMMA PolicyAllows ==
  ASSUME NEW s \in ActionStatuses, NEW t \in AllTools \ {"unknown"}, NEW ap,
         Policy(s, t, ap) = "allowed"
  PROVE  t \in {"internal", "external"} /\ (t = "external" => Consents(ap))
<1>1. s \notin TerminalStatuses \cup {"executing"}
  BY DEF Policy, ActionStatuses, TerminalStatuses
<1>2. t # "above" /\ ~(t = "external" /\ ap.status = "rejected")
  BY <1>1 DEF Policy
<1>3. ~(t = "external" /\ ap.status # "rejected" /\ ~Consents(ap))
  BY <1>1, <1>2 DEF Policy
<1>. QED BY <1>2, <1>3 DEF AllTools

LEMMA ConsentGranted ==
  ASSUME IInv, NEW a \in Actions, Consents(LatestApproval(a))
  PROVE  granted[a]
<1>1. approvals[a] # << >>
  BY DEF Consents, LatestApproval, NoApproval
<1>2. approvals[a] \in Seq(Approval)
  BY DEF IInv, TypeOK
<1>3. Len(approvals[a]) \in DOMAIN approvals[a]
  BY <1>1, <1>2
<1>. QED
  BY <1>1, <1>3 DEF Consents, LatestApproval, IInv, ApprovedMeansGranted

-----------------------------------------------------------------------------
(* Pieces of the inductive step *)

RequestTypes ==
  /\ pc \in [Requests -> RequestPc]
  /\ target \in [Requests -> Actions \cup {NoAction}]
  /\ seen \in [Requests -> ActionStatuses]
  /\ next \in [Requests -> ActionStatuses]
  /\ row \in [Requests -> Nat]

\* Histories grow, tool calls are added, tools do not change.
Grows ==
  /\ tool' = tool
  /\ outcomes' \in [Actions -> SUBSET {"ok", "error"}]
  /\ granted' \in [Actions -> BOOLEAN]
  /\ calls' \in [Actions -> Seq(CallStatuses)]
  /\ \A a \in Actions :
       /\ outcomes[a] \subseteq outcomes'[a]
       /\ granted[a] => granted'[a]
       /\ calls[a] # << >> => calls'[a] # << >>

\* Only request r moves.
OnlyMoves(r) ==
  \A u \in Requests \ {r} :
    /\ pc'[u] = pc[u] /\ target'[u] = target[u] /\ seen'[u] = seen[u]
    /\ next'[u] = next[u] /\ row'[u] = row[u]

LEMMA OthersKeep ==
  ASSUME IInv, Grows, NEW u \in Requests, RequestInv(u),
         pc'[u] = pc[u], target'[u] = target[u], seen'[u] = seen[u], next'[u] = next[u]
  PROVE  RequestInv(u)'
<1>1. CASE pc[u] = "idle"
  BY <1>1 DEF RequestInv, HolderPcs
<1>2. CASE pc[u] # "idle"
  <2>1. target[u] \in Actions
    BY <1>2 DEF RequestInv
  <2>2. Permitted(target[u]) => Permitted(target[u])'
    BY <2>1 DEF Permitted, Grows
  <2>. QED BY <2>1, <2>2 DEF RequestInv, Grows, HolderPcs
<1>. QED BY <1>1, <1>2

LEMMA Returned ==
  ASSUME IInv, Grows, NEW r \in Requests, Return(r)
  PROVE  RequestTypes' /\ \A u \in Requests : RequestInv(u)'
<1>1. RequestTypes' /\ pc'[r] = "idle"
  BY DEF Return, IInv, TypeOK, RequestTypes, RequestPc, ActionStatuses
<1>2. RequestInv(r)'
  BY <1>1 DEF RequestInv, HolderPcs
<1>3. ASSUME NEW u \in Requests \ {r}
      PROVE  RequestInv(u)'
  <2>1. pc'[u] = pc[u] /\ target'[u] = target[u] /\ seen'[u] = seen[u] /\ next'[u] = next[u]
    BY DEF Return, IInv, TypeOK
  <2>. QED BY <2>1, OthersKeep DEF IInv
<1>. QED BY <1>1, <1>2, <1>3

\* A request that moves on to statement l, its local state typed.
LEMMA Moved ==
  ASSUME IInv, Grows, NEW r \in Requests, NEW l \in RequestPc,
         pc' = [pc EXCEPT ![r] = l], RequestInv(r)',
         target' \in [Requests -> Actions \cup {NoAction}],
         seen' \in [Requests -> ActionStatuses],
         next' \in [Requests -> ActionStatuses],
         row' \in [Requests -> Nat],
         OnlyMoves(r)
  PROVE  RequestTypes' /\ \A u \in Requests : RequestInv(u)'
<1>1. RequestTypes'
  BY DEF RequestTypes, IInv, TypeOK
<1>2. ASSUME NEW u \in Requests \ {r}
      PROVE  RequestInv(u)'
  BY OthersKeep DEF IInv, OnlyMoves
<1>. QED BY <1>1, <1>2

\* A status is written that claims no success that was not had.
LEMMA Written ==
  ASSUME IInv, Grows, NEW a \in Actions, NEW s \in ActionStatuses, Write(a, s),
         s = "executed" => "ok" \in outcomes[a]
  PROVE  /\ status' \in [Actions -> ActionStatuses]
         /\ ended' \in [Actions -> BOOLEAN]
         /\ ToolReallyRan'
<1>1. status' \in [Actions -> ActionStatuses]
  BY DEF Write, IInv, TypeOK
<1>2. ended' \in [Actions -> BOOLEAN]
  BY DEF Write, IInv, TypeOK
<1>3. ToolReallyRan'
  BY DEF Write, IInv, TypeOK, ToolReallyRan, Grows
<1>. QED BY <1>1, <1>2, <1>3

\* The step is over when every part of it keeps its half of the invariant.
LEMMA Together ==
  ASSUME IInv, Grows,
         RequestTypes', \A u \in Requests : RequestInv(u)',
         status' \in [Actions -> ActionStatuses], ended' \in [Actions -> BOOLEAN],
         ToolReallyRan',
         approvals' \in [Actions -> Seq(Approval)], ApprovedMeansGranted',
         \A a \in Actions : calls[a] = << >> /\ calls'[a] # << >> => Permitted(a),
         aborts' \in Nat
  PROVE  IInv'
<1>1. TypeOK'
  BY DEF IInv, TypeOK, RequestTypes, Grows
<1>2. CallsArePermitted'
  BY DEF IInv, CallsArePermitted, Permitted, Grows
<1>. QED BY <1>1, <1>2 DEF IInv

\* What a step that leaves the rows and the histories alone keeps.
LEMMA RowsAlone ==
  ASSUME IInv, UNCHANGED <<rowVars, historyVars>>
  PROVE  /\ Grows
         /\ status' \in [Actions -> ActionStatuses] /\ ended' \in [Actions -> BOOLEAN]
         /\ ToolReallyRan'
         /\ approvals' \in [Actions -> Seq(Approval)] /\ ApprovedMeansGranted'
         /\ calls' = calls
BY DEF IInv, TypeOK, Grows, rowVars, historyVars, ToolReallyRan, ApprovedMeansGranted

\* What a step that only writes the status of an action keeps.
LEMMA StatusOnly ==
  ASSUME IInv, UNCHANGED <<tool, approvals, calls, outcomes, granted>>
  PROVE  /\ Grows
         /\ approvals' \in [Actions -> Seq(Approval)] /\ ApprovedMeansGranted'
         /\ calls' = calls
BY DEF IInv, TypeOK, Grows, ApprovedMeansGranted

\* One approval row gets a status; approved only with the grant recorded.
LEMMA ApprovalWritten ==
  ASSUME IInv, NEW a \in Actions, NEW i, NEW x \in {"approved", "rejected", "cancelled"},
         approvals' = [approvals EXCEPT ![a][i].status = x],
         \A b \in Actions : granted[b] => granted'[b],
         x = "approved" => granted'[a]
  PROVE  approvals' \in [Actions -> Seq(Approval)] /\ ApprovedMeansGranted'
<1>. DEFINE v == [approvals[a][i] EXCEPT !.status = x]
            s == [approvals[a] EXCEPT ![i] = v]
<1>1. approvals[a] \in Seq(Approval) /\ approvals' = [approvals EXCEPT ![a] = s]
  BY DEF IInv, TypeOK
<1>2. i \in DOMAIN approvals[a] => approvals[a][i] \in Approval
  BY <1>1
<1>3. i \in DOMAIN approvals[a] => v \in Approval /\ v.status = x
  BY <1>2 DEF Approval
<1>4. s \in Seq(Approval) /\ DOMAIN s = DOMAIN approvals[a]
  BY <1>1, <1>3, SeqExcept
<1>5. \A k \in DOMAIN s : s[k] = IF k = i THEN v ELSE approvals[a][k]
  BY <1>4
<1>. HIDE DEF s, v
<1>6. approvals' \in [Actions -> Seq(Approval)]
  BY <1>1, <1>4 DEF IInv, TypeOK
<1>7. ASSUME NEW b \in Actions, NEW k \in DOMAIN approvals'[b], approvals'[b][k].status = "approved"
      PROVE  granted'[b]
  <2>1. CASE b = a
    BY <1>1, <1>3, <1>4, <1>5, <1>7, <2>1 DEF IInv, TypeOK, ApprovedMeansGranted
  <2>2. CASE b # a
    BY <1>1, <1>7, <2>2 DEF IInv, TypeOK, ApprovedMeansGranted
  <2>. QED BY <2>1, <2>2
<1>. QED BY <1>6, <1>7 DEF ApprovedMeansGranted

\* A tool call gets a status; no call is added.
LEMMA CallWritten ==
  ASSUME IInv, NEW a \in Actions, NEW i, NEW x \in CallStatuses,
         calls' = [calls EXCEPT ![a][i] = x],
         UNCHANGED <<tool, outcomes, granted>>
  PROVE  Grows /\ \A b \in Actions : calls[b] = << >> => calls'[b] = << >>
<1>. DEFINE s == [calls[a] EXCEPT ![i] = x]
<1>1. calls[a] \in Seq(CallStatuses) /\ calls' = [calls EXCEPT ![a] = s]
  BY DEF IInv, TypeOK
<1>2. s \in Seq(CallStatuses) /\ DOMAIN s = DOMAIN calls[a]
  BY <1>1, SeqExcept
<1>3. s = << >> <=> calls[a] = << >>
  BY <1>1, <1>2
<1>. HIDE DEF s
<1>4. \A b \in Actions : calls'[b] = IF b = a THEN s ELSE calls[b]
  BY <1>1 DEF IInv, TypeOK
<1>. QED
  BY <1>1, <1>2, <1>3, <1>4 DEF Grows, IInv, TypeOK
-----------------------------------------------------------------------------
(* The steps *)

LEMMA BeginSteps ==
  ASSUME IInv, NEW r \in Requests, NEW a \in Actions, RequestBegins(r, a)
  PROVE  IInv'
<1>1. UNCHANGED <<rowVars, historyVars, aborts>>
  BY DEF RequestBegins, ExecuteLoad, RequestStart, CancelLoad, DecideRead
<1>2. /\ Grows
      /\ status' \in [Actions -> ActionStatuses] /\ ended' \in [Actions -> BOOLEAN]
      /\ ToolReallyRan'
      /\ approvals' \in [Actions -> Seq(Approval)] /\ ApprovedMeansGranted'
      /\ calls' = calls
  BY <1>1, RowsAlone
<1>3. status[a] \in ActionStatuses /\ tool[a] \in AllTools
  BY DEF IInv, TypeOK
<1>4. RequestTypes' /\ \A u \in Requests : RequestInv(u)'
  <2>. USE DEF IInv, TypeOK
  <2>1. CASE ExecuteLoad(r, a)
    <3>1. PICK l \in {"refuse", "decide"} :
            /\ pc' = [pc EXCEPT ![r] = l]
            /\ target' = [target EXCEPT ![r] = a]
            /\ seen' = [seen EXCEPT ![r] = status[a]]
            /\ next' = IF l = "refuse" THEN [next EXCEPT ![r] = "denied"] ELSE next
            /\ row' = row
            /\ l = "decide" => tool[a] # "unknown"
      BY <2>1 DEF ExecuteLoad, Goto
    <3>2. l \in RequestPc /\ "denied" \in ActionStatuses
      BY DEF RequestPc, ActionStatuses
    <3>3. status[a] = "executed" => "ok" \in outcomes[a]
      BY DEF ToolReallyRan
    <3>4. RequestInv(r)'
      BY <1>1, <3>1, <3>3 DEF RequestInv, HolderPcs, rowVars, historyVars
    <3>5. next' \in [Requests -> ActionStatuses]
      BY <3>1, <3>2
    <3>6. OnlyMoves(r)
      BY <3>1 DEF OnlyMoves
    <3>. HIDE DEF IInv, TypeOK
    <3>7. target' \in [Requests -> Actions \cup {NoAction}] /\ seen' \in [Requests -> ActionStatuses]
      BY <1>3, <3>1 DEF IInv, TypeOK
    <3>8. row' \in [Requests -> Nat]
      BY <3>1 DEF IInv, TypeOK
    <3>. QED BY <1>2, <3>1, <3>2, <3>4, <3>5, <3>6, <3>7, <3>8, Moved
  <2>2. CASE RequestStart(r, a)
    <3>1. /\ pc' = [pc EXCEPT ![r] = "ensure"] /\ target' = [target EXCEPT ![r] = a]
          /\ UNCHANGED <<seen, next, row>>
      BY <2>2 DEF RequestStart, Goto
    <3>2. "ensure" \in RequestPc
      BY DEF RequestPc
    <3>3. RequestInv(r)' /\ OnlyMoves(r)
      BY <3>1 DEF RequestInv, HolderPcs, OnlyMoves
    <3>4. target' \in [Requests -> Actions \cup {NoAction}]
      BY <3>1
    <3>. HIDE DEF IInv
    <3>. QED BY <1>2, <3>1, <3>2, <3>3, <3>4, Moved DEF IInv
  <2>3. CASE CancelLoad(r, a)
    <3>1. /\ pc' = [pc EXCEPT ![r] = "cancelClaim"] /\ target' = [target EXCEPT ![r] = a]
          /\ seen' = [seen EXCEPT ![r] = status[a]]
          /\ UNCHANGED <<next, row>>
      BY <2>3 DEF CancelLoad, Goto
    <3>2. "cancelClaim" \in RequestPc
      BY DEF RequestPc
    <3>3. RequestInv(r)' /\ OnlyMoves(r)
      BY <3>1 DEF RequestInv, HolderPcs, OnlyMoves
    <3>4. target' \in [Requests -> Actions \cup {NoAction}] /\ seen' \in [Requests -> ActionStatuses]
      BY <1>3, <3>1
    <3>. HIDE DEF IInv
    <3>. QED BY <1>2, <3>1, <3>2, <3>3, <3>4, Moved DEF IInv
  <2>4. ASSUME NEW i \in DOMAIN approvals[a], DecideRead(r, a, i)
        PROVE  RequestTypes' /\ \A u \in Requests : RequestInv(u)'
    <3>1. PICK x \in {"approved", "denied"} : next' = [next EXCEPT ![r] = x]
      BY <2>4 DEF DecideRead
    <3>2. /\ pc' = [pc EXCEPT ![r] = "decideApproval"] /\ target' = [target EXCEPT ![r] = a]
          /\ row' = [row EXCEPT ![r] = i] /\ seen' = seen
      BY <2>4 DEF DecideRead, Goto
    <3>3. "decideApproval" \in RequestPc /\ x \in ActionStatuses
      BY DEF RequestPc, ActionStatuses
    <3>4. i \in Nat
      <4>1. approvals[a] \in Seq(Approval)
        OBVIOUS
      <4>. QED BY <4>1
    <3>5. RequestInv(r)' /\ OnlyMoves(r)
      BY <3>1, <3>2 DEF RequestInv, HolderPcs, OnlyMoves
    <3>6. /\ target' \in [Requests -> Actions \cup {NoAction}]
          /\ next' \in [Requests -> ActionStatuses] /\ row' \in [Requests -> Nat]
      BY <3>1, <3>2, <3>3, <3>4
    <3>. HIDE DEF IInv
    <3>. QED BY <1>2, <3>2, <3>3, <3>5, <3>6, Moved DEF IInv
  <2>. QED BY <2>1, <2>2, <2>3, <2>4 DEF RequestBegins
<1>5. aborts' \in Nat
  BY <1>1 DEF IInv, TypeOK
<1>. QED BY <1>2, <1>4, <1>5, Together
\* The request moves on and nothing else of it changes.
LEMMA Advanced ==
  ASSUME IInv, Grows, NEW r \in Requests, NEW l \in RequestPc, Goto(r, l),
         UNCHANGED <<target, seen, next, row>>, RequestInv(r)'
  PROVE  RequestTypes' /\ \A u \in Requests : RequestInv(u)'
<1>1. pc' = [pc EXCEPT ![r] = l]
  BY DEF Goto
<1>2. OnlyMoves(r)
  BY <1>1 DEF OnlyMoves, IInv, TypeOK
<1>. QED BY <1>1, <1>2, Moved DEF IInv, TypeOK

\* A step that touches no row.
LEMMA QuietStep ==
  ASSUME IInv, UNCHANGED <<rowVars, historyVars>>, aborts' \in Nat,
         RequestTypes', \A u \in Requests : RequestInv(u)'
  PROVE  IInv'
BY RowsAlone, Together

\* A step that writes the status of an action and no other row.
LEMMA WriteStep ==
  ASSUME IInv, NEW a \in Actions, NEW s \in ActionStatuses, Write(a, s),
         s = "executed" => "ok" \in outcomes[a],
         UNCHANGED <<tool, approvals, calls, outcomes, granted, aborts>>,
         RequestTypes', \A u \in Requests : RequestInv(u)'
  PROVE  IInv'
<1>1. Grows /\ approvals' \in [Actions -> Seq(Approval)] /\ ApprovedMeansGranted' /\ calls' = calls
  BY StatusOnly
<1>2. aborts' \in Nat
  BY DEF IInv, TypeOK
<1>. QED BY <1>1, <1>2, Written, Together

LEMMA TargetTyped ==
  ASSUME IInv, NEW r \in Requests, pc[r] # "idle"
  PROVE  target[r] \in Actions
BY DEF IInv, RequestInv

LEMMA DecideStep ==
  ASSUME IInv, NEW r \in Requests, ExecuteDecide(r)
  PROVE  IInv'
<1>. DEFINE a == target[r]
            verdict == Policy(seen[r], tool[a], LatestApproval(a))
<1>1. /\ pc[r] = "decide" /\ a \in Actions /\ seen[r] \in ActionStatuses
      /\ tool[a] \in AllTools \ {"unknown"} /\ RequestInv(r)
  <2>1. pc[r] = "decide"
    BY DEF ExecuteDecide
  <2>2. a \in Actions
    BY <2>1, TargetTyped
  <2>. QED BY <2>1, <2>2 DEF IInv, TypeOK, RequestInv
<1>2. /\ UNCHANGED <<rowVars, historyVars>> /\ UNCHANGED <<target, seen, row>> /\ aborts' \in Nat
      /\ UNCHANGED <<tool, granted, outcomes>>
  BY DEF ExecuteDecide, IInv, TypeOK, rowVars, historyVars
<1>3. Grows
  BY <1>2, RowsAlone
<1>4. CASE verdict = "allowed"
  <2>1. Goto(r, "claim") /\ next' = next
    BY <1>4 DEF ExecuteDecide
  <2>2. tool[a] \in {"internal", "external"} /\ (tool[a] = "external" => Consents(LatestApproval(a)))
    BY <1>1, <1>4, PolicyAllows
  <2>3. Permitted(a)
    BY <1>1, <2>2, ConsentGranted DEF Permitted
  <2>4. pc'[r] = "claim"
    BY <2>1 DEF Goto, IInv, TypeOK
  <2>5. RequestInv(r)'
    BY <1>1, <1>2, <2>3, <2>4 DEF RequestInv, HolderPcs, Permitted
  <2>6. "claim" \in RequestPc
    BY DEF RequestPc
  <2>. QED BY <1>2, <1>3, <2>1, <2>5, <2>6, Advanced, QuietStep
<1>5. CASE verdict # "allowed"
  <2>1. pc' = [pc EXCEPT ![r] = "refuse"] /\ next' = [next EXCEPT ![r] = verdict]
    BY <1>5 DEF ExecuteDecide, Goto
  <2>2. verdict \in ActionStatuses /\ (verdict = "executed" => seen[r] = "executed")
    BY <1>1, <1>5, PolicyRefuses
  <2>. HIDE DEF verdict
  <2>3. pc'[r] = "refuse" /\ next'[r] = verdict /\ OnlyMoves(r)
    BY <1>2, <2>1 DEF OnlyMoves, IInv, TypeOK
  <2>4. RequestInv(r)'
    BY <1>1, <1>2, <2>2, <2>3 DEF RequestInv, HolderPcs
  <2>5. "refuse" \in RequestPc
    BY DEF RequestPc
  <2>6. /\ target' \in [Requests -> Actions \cup {NoAction}] /\ seen' \in [Requests -> ActionStatuses]
        /\ next' \in [Requests -> ActionStatuses] /\ row' \in [Requests -> Nat]
    BY <1>2, <2>1, <2>2 DEF IInv, TypeOK
  <2>. QED BY <1>2, <1>3, <2>1, <2>3, <2>4, <2>5, <2>6, Moved, QuietStep
<1>. QED BY <1>4, <1>5

\* The steps whose only row is the status of the action.
LEMMA StatusSteps ==
  ASSUME IInv, NEW r \in Requests,
         \/ ExecuteRefuse(r) \/ ExecuteClaim(r) \/ ExecuteSkip(r)
         \/ ExecuteMark(r) \/ CancelClaim(r) \/ DecideAction(r)
  PROVE  IInv'
<1>. DEFINE a == target[r]
<1>1. /\ pc[r] # "idle"
      /\ UNCHANGED <<tool, approvals, calls, outcomes, granted, aborts>>
  BY DEF ExecuteRefuse, ExecuteClaim, ExecuteSkip, ExecuteMark, CancelClaim, DecideAction
<1>2. a \in Actions /\ RequestInv(r) /\ next[r] \in ActionStatuses /\ aborts' \in Nat
  BY <1>1, TargetTyped DEF IInv, TypeOK
<1>3. Grows
  BY <1>1, StatusOnly
<1>4. \A l \in RequestPc : Goto(r, l) => pc'[r] = l
  BY DEF Goto, IInv, TypeOK
<1>5. {"ensure", "createCall", "auditExecuted", "cancelRead"} \subseteq RequestPc
  BY DEF RequestPc
<1>6. {"executing", "skipped", "executed", "failed", "cancelled"} \subseteq ActionStatuses
  BY DEF ActionStatuses
<1>7. CASE ExecuteRefuse(r)
  <2>1. Write(a, next[r]) /\ (next[r] = "executed" => "ok" \in outcomes[a])
    BY <1>2, <1>7 DEF ExecuteRefuse, RequestInv
  <2>2. CASE Goto(r, "ensure") /\ UNCHANGED <<target, seen, next, row>>
    <3>1. RequestInv(r)'
      BY <1>2, <1>4, <1>5, <2>2 DEF RequestInv, HolderPcs
    <3>. QED BY <1>1, <1>2, <1>3, <1>5, <2>1, <2>2, <3>1, Advanced, WriteStep
  <2>3. CASE Return(r)
    BY <1>1, <1>2, <1>3, <2>1, <2>3, Returned, WriteStep
  <2>. QED BY <1>7, <2>2, <2>3 DEF ExecuteRefuse
<1>8. CASE ExecuteClaim(r)
  <2>1. CASE Write(a, "executing") /\ Goto(r, "createCall") /\ UNCHANGED <<target, seen, next, row>>
    <3>1. Permitted(a)
      BY <1>2, <1>8 DEF ExecuteClaim, RequestInv
    <3>2. RequestInv(r)'
      BY <1>1, <1>2, <1>4, <1>5, <2>1, <3>1 DEF RequestInv, HolderPcs, Permitted
    <3>. QED BY <1>1, <1>2, <1>3, <1>5, <1>6, <2>1, <3>2, Advanced, WriteStep
  <2>2. CASE Return(r) /\ UNCHANGED <<status, ended>>
    <3>1. UNCHANGED <<rowVars, historyVars>>
      BY <1>1, <2>2 DEF rowVars, historyVars
    <3>. QED BY <1>2, <1>3, <2>2, <3>1, Returned, QuietStep
  <2>. QED BY <1>8, <2>1, <2>2 DEF ExecuteClaim
<1>9. CASE ExecuteSkip(r)
  BY <1>1, <1>2, <1>3, <1>6, <1>9, Returned, WriteStep DEF ExecuteSkip
<1>10. CASE ExecuteMark(r)
  <2>1. CASE /\ pc[r] = "markExecuted" /\ Write(a, "executed")
             /\ Goto(r, "auditExecuted") /\ UNCHANGED <<target, seen, next, row>>
    <3>1. "ok" \in outcomes[a] /\ calls[a] # << >> /\ Permitted(a)
      BY <1>2, <2>1 DEF RequestInv, HolderPcs
    <3>2. RequestInv(r)'
      BY <1>1, <1>2, <1>4, <1>5, <2>1, <3>1 DEF RequestInv, HolderPcs
    <3>. QED BY <1>1, <1>2, <1>3, <1>5, <1>6, <2>1, <3>1, <3>2, Advanced, WriteStep
  <2>2. CASE Write(a, "failed") /\ Return(r)
    BY <1>1, <1>2, <1>3, <1>6, <2>2, Returned, WriteStep
  <2>. QED BY <1>10, <2>1, <2>2 DEF ExecuteMark
<1>11. CASE CancelClaim(r)
  <2>1. CASE Write(a, "cancelled") /\ Goto(r, "cancelRead") /\ UNCHANGED <<target, seen, next, row>>
    <3>1. RequestInv(r)'
      BY <1>2, <1>4, <1>5, <2>1 DEF RequestInv, HolderPcs
    <3>. QED BY <1>1, <1>2, <1>3, <1>5, <1>6, <2>1, <3>1, Advanced, WriteStep
  <2>2. CASE Return(r) /\ UNCHANGED <<status, ended>>
    <3>1. UNCHANGED <<rowVars, historyVars>>
      BY <1>1, <2>2 DEF rowVars, historyVars
    <3>. QED BY <1>2, <1>3, <2>2, <3>1, Returned, QuietStep
  <2>. QED BY <1>11, <2>1, <2>2 DEF CancelClaim
<1>12. CASE DecideAction(r)
  <2>1. Write(a, next[r]) /\ Return(r) /\ next[r] # "executed"
    BY <1>2, <1>12 DEF DecideAction, RequestInv
  <2>. QED BY <1>1, <1>2, <1>3, <2>1, Returned, WriteStep
<1>. QED BY <1>7, <1>8, <1>9, <1>10, <1>11, <1>12

\* The steps on the row of the tool call, and the run of the tool.
LEMMA CreateCallStep ==
  ASSUME IInv, NEW r \in Requests, ExecuteCreateCall(r)
  PROVE  IInv'
<1>. DEFINE a == target[r]
<1>1. /\ pc[r] = "createCall"
      /\ UNCHANGED <<status, tool, approvals, target, seen, next, outcomes, granted, ended, aborts>>
  BY DEF ExecuteCreateCall, historyVars
<1>2. a \in Actions /\ RequestInv(r) /\ aborts' \in Nat
  BY <1>1, TargetTyped DEF IInv, TypeOK
<1>3. PICK c \in {"skipped", "running"}, l \in {"skip", "tool"} :
        /\ calls' = [calls EXCEPT ![a] = Append(@, c)]
        /\ pc' = [pc EXCEPT ![r] = l]
  BY DEF ExecuteCreateCall, Goto
<1>4. row' = [row EXCEPT ![r] = Len(calls[a]) + 1]
  BY DEF ExecuteCreateCall
<1>5. calls[a] \in Seq(CallStatuses) /\ c \in CallStatuses /\ l \in RequestPc
  BY <1>2 DEF IInv, TypeOK, CallStatuses, RequestPc
<1>. DEFINE t == Append(calls[a], c)
<1>6. t \in Seq(CallStatuses) /\ t # << >> /\ Len(calls[a]) + 1 \in Nat
  <2>1. t \in Seq(CallStatuses) /\ Len(t) = Len(calls[a]) + 1 /\ Len(calls[a]) \in Nat
    BY <1>5
  <2>. HIDE DEF t
  <2>. QED BY <2>1
<1>7. calls' = [calls EXCEPT ![a] = t]
  BY <1>3
<1>. HIDE DEF t
<1>8. calls' \in [Actions -> Seq(CallStatuses)] /\ calls'[a] # << >>
      /\ \A b \in Actions : b # a => calls'[b] = calls[b]
  BY <1>2, <1>6, <1>7 DEF IInv, TypeOK
<1>9. Grows
  BY <1>1, <1>8 DEF Grows, IInv, TypeOK
<1>10. Permitted(a)
  BY <1>1, <1>2 DEF RequestInv, HolderPcs
<1>11. RequestInv(r)'
  <2>1. pc'[r] = l
    BY <1>3 DEF IInv, TypeOK
  <2>. QED BY <1>1, <1>2, <1>8, <1>10, <2>1 DEF RequestInv, HolderPcs, Permitted
<1>12. OnlyMoves(r)
  BY <1>1, <1>3, <1>4 DEF OnlyMoves, IInv, TypeOK
<1>13. row' \in [Requests -> Nat]
  BY <1>4, <1>6 DEF IInv, TypeOK
<1>14. RequestTypes' /\ \A u \in Requests : RequestInv(u)'
  BY <1>1, <1>3, <1>5, <1>9, <1>11, <1>12, <1>13, Moved DEF IInv, TypeOK
<1>15. /\ status' \in [Actions -> ActionStatuses] /\ ended' \in [Actions -> BOOLEAN] /\ ToolReallyRan'
       /\ approvals' \in [Actions -> Seq(Approval)] /\ ApprovedMeansGranted'
  BY <1>1 DEF IInv, TypeOK, ToolReallyRan, ApprovedMeansGranted
<1>16. \A b \in Actions : calls[b] = << >> /\ calls'[b] # << >> => Permitted(b)
  BY <1>8, <1>10
<1>. QED BY <1>2, <1>9, <1>14, <1>15, <1>16, Together

LEMMA RecordStep ==
  ASSUME IInv, NEW r \in Requests, ExecuteRecordCall(r)
  PROVE  IInv'
<1>. DEFINE a == target[r]
<1>1. /\ pc[r] \in {"callDone", "callFailed"}
      /\ UNCHANGED <<status, tool, approvals, target, seen, next, row>>
      /\ UNCHANGED <<outcomes, granted, ended, aborts>>
  BY DEF ExecuteRecordCall, historyVars
<1>2. a \in Actions /\ RequestInv(r) /\ aborts' \in Nat
  BY <1>1, TargetTyped DEF IInv, TypeOK
<1>3. PICK c \in {"succeeded", "failed"}, l \in {"markExecuted", "markFailed"} :
        /\ calls' = [calls EXCEPT ![a][row[r]] = c]
        /\ Goto(r, l)
        /\ l = "markExecuted" => pc[r] = "callDone"
  BY DEF ExecuteRecordCall
<1>4. c \in CallStatuses /\ l \in RequestPc
  BY DEF CallStatuses, RequestPc
<1>5. Grows /\ \A b \in Actions : calls[b] = << >> => calls'[b] = << >>
  BY <1>1, <1>2, <1>3, <1>4, CallWritten
<1>6. RequestInv(r)'
  <2>1. pc'[r] = l
    BY <1>3 DEF IInv, TypeOK, Goto
  <2>2. Permitted(a) /\ (l = "markExecuted" => "ok" \in outcomes[a]) /\ calls[a] # << >>
    BY <1>1, <1>2, <1>3 DEF RequestInv, HolderPcs
  <2>3. calls'[a] # << >>
    BY <1>2, <1>5, <2>2 DEF Grows
  <2>. QED BY <1>1, <1>2, <2>1, <2>2, <2>3 DEF RequestInv, HolderPcs, Permitted
<1>7. RequestTypes' /\ \A u \in Requests : RequestInv(u)'
  BY <1>1, <1>3, <1>4, <1>5, <1>6, Advanced
<1>8. /\ status' \in [Actions -> ActionStatuses] /\ ended' \in [Actions -> BOOLEAN] /\ ToolReallyRan'
      /\ approvals' \in [Actions -> Seq(Approval)] /\ ApprovedMeansGranted'
  BY <1>1 DEF IInv, TypeOK, ToolReallyRan, ApprovedMeansGranted
<1>. QED BY <1>2, <1>5, <1>7, <1>8, Together

LEMMA ToolStep ==
  ASSUME IInv, NEW r \in Requests, ExecuteTool(r)
  PROVE  IInv'
<1>. DEFINE a == target[r]
<1>1. /\ pc[r] = "tool"
      /\ UNCHANGED <<status, tool, approvals, calls, target, seen, next, row, granted, ended, aborts>>
  BY DEF ExecuteTool, rowVars
<1>2. a \in Actions /\ RequestInv(r) /\ aborts' \in Nat
  BY <1>1, TargetTyped DEF IInv, TypeOK
<1>3. PICK v \in {"ok", "error"} :
        /\ outcomes' = [outcomes EXCEPT ![a] = @ \cup {v}]
        /\ Goto(r, AfterTool(v))
  BY DEF ExecuteTool
<1>. DEFINE l == AfterTool(v)
<1>4. l \in {"callDone", "callFailed"} /\ l \in RequestPc /\ (l = "callDone" => v = "ok")
  BY DEF AfterTool, RequestPc
<1>5. /\ outcomes' \in [Actions -> SUBSET {"ok", "error"}]
      /\ v \in outcomes'[a]
      /\ \A b \in Actions : outcomes[b] \subseteq outcomes'[b]
  BY <1>2, <1>3 DEF IInv, TypeOK
<1>6. Grows
  BY <1>1, <1>5 DEF Grows, IInv, TypeOK
<1>. HIDE DEF l
<1>7. RequestInv(r)'
  <2>1. pc'[r] = l
    BY <1>3 DEF IInv, TypeOK, Goto, l
  <2>2. Permitted(a) /\ calls[a] # << >>
    BY <1>1, <1>2 DEF RequestInv, HolderPcs
  <2>3. l = "callDone" => "ok" \in outcomes'[a]
    BY <1>4, <1>5
  <2>. QED BY <1>1, <1>2, <1>4, <2>1, <2>2, <2>3 DEF RequestInv, HolderPcs, Permitted
<1>8. RequestTypes' /\ \A u \in Requests : RequestInv(u)'
  BY <1>1, <1>3, <1>4, <1>6, <1>7, Advanced DEF l
<1>9. /\ status' \in [Actions -> ActionStatuses] /\ ended' \in [Actions -> BOOLEAN]
      /\ approvals' \in [Actions -> Seq(Approval)] /\ ApprovedMeansGranted'
  BY <1>1 DEF IInv, TypeOK, ApprovedMeansGranted
<1>10. ToolReallyRan'
  BY <1>1, <1>5 DEF IInv, ToolReallyRan
<1>. QED BY <1>1, <1>2, <1>6, <1>8, <1>9, <1>10, Together

\* The steps on the row of an approval.
LEMMA ApprovalSteps ==
  ASSUME IInv, NEW r \in Requests,
         CreateApproval(r) \/ CancelApproval(r) \/ DecideApproval(r)
  PROVE  IInv'
<1>. DEFINE a == target[r]
<1>1. /\ pc[r] \in {"createApproval", "cancelApproval", "decideApproval"}
      /\ UNCHANGED <<status, tool, calls, outcomes, ended, aborts>>
  BY DEF CreateApproval, CancelApproval, DecideApproval, historyVars
<1>2. a \in Actions /\ RequestInv(r) /\ aborts' \in Nat
  BY <1>1, TargetTyped DEF IInv, TypeOK
<1>3. granted' \in [Actions -> BOOLEAN] /\ \A b \in Actions : granted[b] => granted'[b]
  <2>1. CASE UNCHANGED granted
    BY <2>1 DEF IInv, TypeOK
  <2>2. CASE DecideApproval(r)
    <3>1. PICK g \in BOOLEAN : granted' = [granted EXCEPT ![a] = @ \/ g]
      <4>. DEFINE g == next[r] = "approved"
      <4>1. granted' = [granted EXCEPT ![a] = @ \/ g]
        BY <2>2 DEF DecideApproval
      <4>. QED BY <4>1
    <3>. QED BY <1>2, <3>1 DEF IInv, TypeOK
  <2>. QED BY <2>1, <2>2 DEF CreateApproval, CancelApproval, historyVars
<1>4. Grows
  BY <1>1, <1>3 DEF Grows, IInv, TypeOK
<1>5. /\ status' \in [Actions -> ActionStatuses] /\ ended' \in [Actions -> BOOLEAN] /\ ToolReallyRan'
  BY <1>1 DEF IInv, TypeOK, ToolReallyRan
<1>6. RequestTypes' /\ \A u \in Requests : RequestInv(u)'
  <2>1. CASE Return(r)
    BY <1>4, <2>1, Returned
  <2>2. CASE DecideApproval(r)
    <3>1. Goto(r, "decideAction") /\ UNCHANGED <<target, seen, next, row>> /\ pc[r] = "decideApproval"
      BY <2>2 DEF DecideApproval
    <3>2. "decideAction" \in RequestPc
      BY DEF RequestPc
    <3>3. pc'[r] = "decideAction"
      BY <3>1 DEF Goto, IInv, TypeOK
    <3>4. RequestInv(r)'
      BY <1>2, <3>1, <3>3 DEF RequestInv, HolderPcs
    <3>. QED BY <1>4, <3>1, <3>2, <3>4, Advanced
  <2>. QED BY <2>1, <2>2 DEF CreateApproval, CancelApproval
<1>7. approvals' \in [Actions -> Seq(Approval)] /\ ApprovedMeansGranted'
  <2>1. CASE CreateApproval(r)
    <3>. DEFINE p == [status |-> "pending", lapsed |-> FALSE]
                t == Append(approvals[a], p)
    <3>1. approvals' = [approvals EXCEPT ![a] = t] /\ UNCHANGED granted
      BY <2>1 DEF CreateApproval, historyVars
    <3>2. approvals[a] \in Seq(Approval) /\ p \in Approval /\ p.status # "approved"
      BY <1>2 DEF IInv, TypeOK, Approval
    <3>. HIDE DEF p
    <3>3. /\ t \in Seq(Approval)
          /\ \A k \in DOMAIN t : t[k] = p \/ (k \in DOMAIN approvals[a] /\ t[k] = approvals[a][k])
      BY <3>2
    <3>. HIDE DEF t
    <3>4. approvals' \in [Actions -> Seq(Approval)]
      BY <3>1, <3>3 DEF IInv, TypeOK
    <3>5. ASSUME NEW b \in Actions, NEW k \in DOMAIN approvals'[b], approvals'[b][k].status = "approved"
          PROVE  granted'[b]
      <4>1. CASE b = a
        <5>1. approvals'[b] = t
          BY <1>2, <3>1, <4>1 DEF IInv, TypeOK
        <5>2. k \in DOMAIN approvals[a] /\ t[k] = approvals[a][k]
          BY <3>2, <3>3, <3>5, <5>1
        <5>. QED BY <1>2, <3>1, <3>5, <4>1, <5>1, <5>2 DEF IInv, ApprovedMeansGranted
      <4>2. CASE b # a
        <5>1. approvals'[b] = approvals[b]
          BY <3>1, <4>2 DEF IInv, TypeOK
        <5>. QED BY <3>1, <3>5, <5>1 DEF IInv, ApprovedMeansGranted
      <4>. QED BY <4>1, <4>2
    <3>. QED BY <3>4, <3>5 DEF ApprovedMeansGranted
  <2>2. CASE CancelApproval(r)
    <3>1. approvals' = [approvals EXCEPT ![a][row[r]].status = "cancelled"]
      BY <2>2 DEF CancelApproval
    <3>. QED BY <1>2, <1>3, <3>1, ApprovalWritten
  <2>3. CASE DecideApproval(r)
    <3>. DEFINE x == IF next[r] = "approved" THEN "approved" ELSE "rejected"
    <3>1. approvals' = [approvals EXCEPT ![a][row[r]].status = x]
      BY <2>3 DEF DecideApproval
    <3>2. x = "approved" => granted'[a]
      BY <1>2, <2>3 DEF DecideApproval, IInv, TypeOK
    <3>3. x \in {"approved", "rejected", "cancelled"}
      OBVIOUS
    <3>. HIDE DEF x
    <3>. QED BY <1>2, <1>3, <3>1, <3>2, <3>3, ApprovalWritten
  <2>. QED BY <2>1, <2>2, <2>3
<1>. QED BY <1>1, <1>2, <1>4, <1>5, <1>6, <1>7, Together

\* The steps that touch no row.
LEMMA QuietSteps ==
  ASSUME IInv, NEW r \in Requests,
         ExecuteAnswer(r) \/ EnsureRead(r) \/ CancelRead(r) \/ StatementFails(r) \/ Crash(r)
  PROVE  IInv'
<1>1. /\ pc[r] # "idle" /\ UNCHANGED <<rowVars, historyVars>> /\ aborts' \in Nat
      /\ UNCHANGED <<tool, outcomes, calls, granted>>
  BY DEF ExecuteAnswer, EnsureRead, CancelRead, StatementFails, Crash, IInv, TypeOK,
         rowVars, historyVars
<1>2. Grows
  BY <1>1, RowsAlone
<1>3. target[r] \in Actions /\ RequestInv(r)
  BY <1>1, TargetTyped DEF IInv
<1>4. {"createApproval", "cancelApproval", "callFailed"} \subseteq RequestPc
  BY DEF RequestPc
<1>5. CASE Return(r)
  BY <1>1, <1>2, <1>5, Returned, QuietStep
<1>6. CASE EnsureRead(r) /\ Goto(r, "createApproval") /\ UNCHANGED <<target, seen, next, row>>
  <2>1. pc'[r] = "createApproval"
    BY <1>6 DEF Goto, IInv, TypeOK
  <2>2. RequestInv(r)'
    BY <1>3, <1>6, <2>1 DEF RequestInv, HolderPcs
  <2>. QED BY <1>1, <1>2, <1>4, <1>6, <2>2, Advanced, QuietStep
<1>7. CASE /\ row' = [row EXCEPT ![r] = Len(approvals[target[r]])]
           /\ Goto(r, "cancelApproval") /\ UNCHANGED <<target, seen, next>>
  <2>1. pc' = [pc EXCEPT ![r] = "cancelApproval"] /\ OnlyMoves(r)
    BY <1>7 DEF Goto, OnlyMoves, IInv, TypeOK
  <2>2. RequestInv(r)'
    BY <1>3, <1>7, <2>1 DEF RequestInv, HolderPcs, IInv, TypeOK
  <2>3. row' \in [Requests -> Nat]
    <3>1. approvals[target[r]] \in Seq(Approval)
      BY <1>3 DEF IInv, TypeOK
    <3>2. Len(approvals[target[r]]) \in Nat
      BY <3>1
    <3>. QED BY <1>7, <3>2 DEF IInv, TypeOK
  <2>4. RequestTypes' /\ \A u \in Requests : RequestInv(u)'
    BY <1>2, <1>4, <1>7, <2>1, <2>2, <2>3, Moved DEF IInv, TypeOK
  <2>. QED BY <1>1, <2>4, QuietStep
<1>8. CASE /\ pc[r] \in {"callDone", "markExecuted", "auditExecuted"}
           /\ Goto(r, "callFailed") /\ UNCHANGED <<target, seen, next, row>>
  <2>1. pc'[r] = "callFailed"
    BY <1>8 DEF Goto, IInv, TypeOK
  <2>2. calls[target[r]] # << >> /\ Permitted(target[r])
    <3>1. calls[target[r]] # << >>
      BY <1>3, <1>8 DEF RequestInv
    <3>2. tool[target[r]] \in {"internal", "external"}
      BY <1>3, <3>1 DEF IInv, CallsArePermitted
    <3>. QED BY <1>3, <3>1, <3>2 DEF IInv, CallsArePermitted, Permitted
  <2>3. RequestInv(r)'
    BY <1>1, <1>3, <1>8, <2>1, <2>2 DEF RequestInv, HolderPcs, Permitted
  <2>. QED BY <1>1, <1>2, <1>4, <1>8, <2>3, Advanced, QuietStep
<1>. QED
  BY <1>5, <1>6, <1>7, <1>8 DEF ExecuteAnswer, EnsureRead, CancelRead, StatementFails, Crash

LEMMA LapseStep ==
  ASSUME IInv, NEW a \in Actions, NEW i \in DOMAIN approvals[a], ApprovalLapses(a, i)
  PROVE  IInv'
<1>1. /\ approvals' = [approvals EXCEPT ![a][i].lapsed = TRUE]
      /\ UNCHANGED <<status, tool, calls, outcomes, granted, ended, aborts>>
      /\ UNCHANGED <<pc, target, seen, next, row>>
  BY DEF ApprovalLapses, requestVars, historyVars
<1>. DEFINE v == [approvals[a][i] EXCEPT !.lapsed = TRUE]
            s == [approvals[a] EXCEPT ![i] = v]
<1>2. approvals[a] \in Seq(Approval) /\ approvals' = [approvals EXCEPT ![a] = s]
  BY <1>1 DEF IInv, TypeOK
<1>3. v \in Approval /\ v.status = approvals[a][i].status
  <2>1. approvals[a][i] \in Approval
    BY <1>2
  <2>. QED BY <2>1 DEF Approval
<1>4. s \in Seq(Approval) /\ DOMAIN s = DOMAIN approvals[a]
  BY <1>2, <1>3, SeqExcept
<1>5. \A k \in DOMAIN s : s[k].status = approvals[a][k].status
  BY <1>3, <1>4
<1>. HIDE DEF s, v
<1>6. approvals' \in [Actions -> Seq(Approval)]
  BY <1>2, <1>4 DEF IInv, TypeOK
<1>7. ApprovedMeansGranted'
  BY <1>1, <1>2, <1>4, <1>5 DEF IInv, TypeOK, ApprovedMeansGranted
<1>8. Grows
  BY <1>1 DEF IInv, TypeOK, Grows
<1>9. RequestTypes' /\ \A u \in Requests : RequestInv(u)'
  <2>1. RequestTypes'
    BY <1>1 DEF IInv, TypeOK, RequestTypes
  <2>. QED BY <1>1, <1>8, <2>1, OthersKeep DEF IInv
<1>. QED
  BY <1>1, <1>6, <1>7, <1>8, <1>9, Together DEF IInv, TypeOK, ToolReallyRan

-----------------------------------------------------------------------------
(* The invariant and the theorems *)

LEMMA InitInv == Init => IInv
<1>. SUFFICES ASSUME Init PROVE IInv
  OBVIOUS
<1>1. \A a \in Actions : approvals[a] = << >> /\ calls[a] = << >> /\ status[a] = "proposed"
  BY DEF Init
<1>2. TypeOK
  BY BossAssumption DEF Init, TypeOK, ActionStatuses, RequestPc
<1>3. ToolReallyRan /\ CallsArePermitted /\ ApprovedMeansGranted
  BY <1>1 DEF ToolReallyRan, CallsArePermitted, ApprovedMeansGranted
<1>4. \A r \in Requests : RequestInv(r)
  BY DEF Init, RequestInv, HolderPcs
<1>. QED BY <1>2, <1>3, <1>4 DEF IInv

LEMMA NextInv == IInv /\ [Next]_vars => IInv'
<1>. SUFFICES ASSUME IInv, [Next]_vars PROVE IInv'
  OBVIOUS
<1>1. ASSUME NEW r \in Requests, RequestStep(r)
      PROVE  IInv'
  BY <1>1, DecideStep, StatusSteps, CreateCallStep, ToolStep, RecordStep, QuietSteps,
     ApprovalSteps DEF RequestStep
<1>2. ASSUME NEW r \in Requests, StatementFails(r) \/ Crash(r)
      PROVE  IInv'
  BY <1>2, QuietSteps
<1>3. ASSUME NEW r \in Requests, NEW a \in Actions, RequestBegins(r, a)
      PROVE  IInv'
  BY <1>3, BeginSteps
<1>4. ASSUME NEW a \in Actions, NEW i \in DOMAIN approvals[a], ApprovalLapses(a, i)
      PROVE  IInv'
  BY <1>4, LapseStep
<1>5. CASE UNCHANGED vars
  <2>1. UNCHANGED <<rowVars, historyVars, aborts>> /\ UNCHANGED <<pc, target, seen, next, row>>
    BY <1>5 DEF vars, requestVars
  <2>2. Grows
    BY <2>1, RowsAlone
  <2>3. RequestTypes' /\ \A u \in Requests : RequestInv(u)'
    <3>1. RequestTypes'
      BY <2>1 DEF IInv, TypeOK, RequestTypes
    <3>. QED BY <2>1, <2>2, <3>1, OthersKeep DEF IInv
  <2>4. aborts' \in Nat
    BY <2>1 DEF IInv, TypeOK
  <2>. QED BY <2>1, <2>3, <2>4, QuietStep
<1>. QED BY <1>1, <1>2, <1>3, <1>4, <1>5 DEF Next

\* The executor, its approvals and its requests keep the inductive invariant
\* in every interleaving of their SQL statements, with crashes, failing
\* statements, decisions and expiries.
THEOREM Invariance == Spec => []IInv
BY InitInv, NextInv, PTL DEF Spec

\* The rows of the executor and the requests stay within their types: no
\* status is ever stored that the ACTION_STATUSES list does not have.
THEOREM TypeCorrect == Spec => []TypeOK
<1>1. IInv => TypeOK
  BY DEF IInv
<1>. QED BY <1>1, Invariance, PTL

\* "Never fabricates success": an action that is reported executed has had a
\* run of its tool that returned.
THEOREM SuccessIsReal == Spec => []ToolReallyRan
<1>1. IInv => ToolReallyRan
  BY DEF IInv
<1>. QED BY <1>1, Invariance, PTL

\* No tool call is ever opened without the autonomy it requires and, when it
\* leaves the system, without an approval of the Owner.
THEOREM OnlyPermittedCalls == Spec => []CallsArePermitted
<1>1. IInv => CallsArePermitted
  BY DEF IInv
<1>. QED BY <1>1, Invariance, PTL
-----------------------------------------------------------------------------
(* Exclusion, while nobody decides an approval and no statement is rejected *)

\* Crashes, cancellations and expiries may happen; a decision writes the status
\* of an action by id, and a rejected audit row reopens an executed one.
Undisturbed == "decide" \notin Circumstances /\ "abort" \notin Circumstances

\* The statuses that no caller claims from.
Settled == TerminalStatuses \cup {"executing"}

\* The only holder of its action, which is executing and has not ended.
HoldsAlone(r) ==
  pc[r] \in HolderPcs =>
    /\ status[target[r]] = "executing" /\ ~ended[target[r]]
    /\ \A u \in Requests : pc[u] \in HolderPcs /\ target[u] = target[r] => u = r

\* What a request knows of the end of its action; what it goes by when it claims.
EndKnown(r) ==
  /\ pc[r] \notin {"decideApproval", "decideAction"}
  /\ pc[r] = "decide" /\ seen[r] \in TerminalStatuses => ended[target[r]]
  /\ pc[r] = "refuse" /\ tool[target[r]] = "internal" =>
       /\ next[r] \in Settled
       /\ next[r] \in TerminalStatuses => ended[target[r]]
  /\ pc[r] \in {"claim", "cancelClaim"} => seen[r] \notin Settled

\* An ended action may read "executing" again (a stale refusal writes what it
\* read), but never a status a claim would be made from.
EndIsFinal(a) ==
  /\ ~granted[a]
  /\ status[a] \in TerminalStatuses => ended[a]
  /\ tool[a] = "internal" /\ ended[a] => status[a] \in Settled

ExclusionInv ==
  /\ \A a \in Actions : EndIsFinal(a)
  /\ \A r \in Requests : HoldsAlone(r) /\ EndKnown(r)

\* Statements that follow a tool call that is still open.
OpenCallPcs == {"tool", "callDone", "callFailed"}

Succeeded(a) == \E i \in DOMAIN calls[a] : calls[a][i] = "succeeded"

\* The open tool call of a request is its own.
OwnsCall(r) ==
  pc[r] \in OpenCallPcs =>
    /\ row[r] \in DOMAIN calls[target[r]] /\ calls[target[r]][row[r]] = "running"
    /\ \A u \in Requests :
         pc[u] \in OpenCallPcs /\ target[u] = target[r] /\ row[u] = row[r] => u = r

\* A request that takes the action for executed, or makes it so, has the call.
SuccessKnown(r) ==
  (\/ pc[r] = "markExecuted"
   \/ pc[r] = "decide" /\ seen[r] = "executed"
   \/ pc[r] = "refuse" /\ next[r] = "executed") => Succeeded(target[r])

CallInv ==
  /\ ExecutedHasSucceededCall
  /\ \A r \in Requests : OwnsCall(r) /\ SuccessKnown(r)
-----------------------------------------------------------------------------
(* Preservation of the exclusion *)

\* A step of request r, which is about action a before and after it.
StepOf(r, a) ==
  /\ OnlyMoves(r)
  /\ pc[r] # "idle" => target[r] = a
  /\ pc'[r] # "idle" => target'[r] = a
  /\ tool' = tool
  /\ \A b \in Actions \ {a} : status'[b] = status[b] /\ ended'[b] = ended[b]
  /\ ended[a] => ended'[a]

LEMMA FrameOfStep ==
  ASSUME IInv, NEW r \in Requests, RequestStep(r) \/ StatementFails(r) \/ Crash(r)
  PROVE  target[r] \in Actions /\ \A a \in Actions : a = target[r] => StepOf(r, a)
<1>. USE DEF Goto, Return, historyVars, rowVars
<1>1. pc[r] # "idle"
  BY DEF RequestStep, StatementFails, Crash, ExecuteDecide, ExecuteRefuse, ExecuteClaim,
         ExecuteCreateCall, ExecuteSkip, ExecuteTool, ExecuteRecordCall, ExecuteMark,
         ExecuteAnswer, EnsureRead, CreateApproval, CancelClaim, CancelRead, CancelApproval,
         DecideApproval, DecideAction
<1>2. target[r] \in Actions
  BY <1>1, TargetTyped
<1>3. OnlyMoves(r)
  BY DEF RequestStep, StatementFails, Crash, ExecuteDecide, ExecuteRefuse, ExecuteClaim,
         ExecuteCreateCall, ExecuteSkip, ExecuteTool, ExecuteRecordCall, ExecuteMark,
         ExecuteAnswer, EnsureRead, CreateApproval, CancelClaim, CancelRead, CancelApproval,
         DecideApproval, DecideAction, OnlyMoves, IInv, TypeOK
<1>4. tool' = tool /\ (pc'[r] # "idle" => target'[r] = target[r])
  BY DEF RequestStep, StatementFails, Crash, ExecuteDecide, ExecuteRefuse, ExecuteClaim,
         ExecuteCreateCall, ExecuteSkip, ExecuteTool, ExecuteRecordCall, ExecuteMark,
         ExecuteAnswer, EnsureRead, CreateApproval, CancelClaim, CancelRead, CancelApproval,
         DecideApproval, DecideAction, IInv, TypeOK
<1>5. \/ UNCHANGED <<status, ended>>
      \/ \E s : Write(target[r], s)
  BY DEF RequestStep, StatementFails, Crash, ExecuteDecide, ExecuteRefuse, ExecuteClaim,
         ExecuteCreateCall, ExecuteSkip, ExecuteTool, ExecuteRecordCall, ExecuteMark,
         ExecuteAnswer, EnsureRead, CreateApproval, CancelClaim, CancelRead, CancelApproval,
         DecideApproval, DecideAction, IInv, TypeOK, ActionStatuses
<1>6. /\ \A b \in Actions \ {target[r]} : status'[b] = status[b] /\ ended'[b] = ended[b]
      /\ ended[target[r]] => ended'[target[r]]
  BY <1>2, <1>5 DEF Write, IInv, TypeOK
<1>. QED BY <1>2, <1>3, <1>4, <1>6 DEF StepOf

LEMMA FrameOfBegin ==
  ASSUME IInv, NEW r \in Requests, NEW a \in Actions, RequestBegins(r, a)
  PROVE  StepOf(r, a) /\ pc[r] = "idle" /\ UNCHANGED <<rowVars, historyVars>>
BY DEF RequestBegins, ExecuteLoad, RequestStart, CancelLoad, DecideRead, StepOf, OnlyMoves,
       Goto, IInv, TypeOK, rowVars, historyVars

\* What a step of r must show about r and a for the whole exclusion to hold.
LEMMA ExclusionKept ==
  ASSUME IInv, ExclusionInv, NEW r \in Requests, NEW a \in Actions, StepOf(r, a),
         granted' = granted, EndIsFinal(a)', EndKnown(r)',
         \A u \in Requests \ {r} : pc[u] \in HolderPcs /\ target[u] = a =>
           status'[a] = "executing" /\ ~ended'[a] /\ pc'[r] \notin HolderPcs,
         pc'[r] \in HolderPcs => status'[a] = "executing" /\ ~ended'[a]
  PROVE  ExclusionInv'
<1>. USE DEF StepOf, OnlyMoves
<1>1. ASSUME NEW b \in Actions
      PROVE  EndIsFinal(b)'
  BY DEF ExclusionInv, EndIsFinal
<1>2. ASSUME NEW u \in Requests \ {r}, pc[u] # "idle"
      PROVE  target[u] \in Actions /\ EndKnown(u)'
  <2>1. target[u] \in Actions
    BY <1>2, TargetTyped
  <2>2. ended[target[u]] => ended'[target[u]]
    BY <2>1
  <2>. QED BY <2>1, <2>2 DEF ExclusionInv, EndKnown
<1>3. ASSUME NEW u \in Requests \ {r}, pc[u] = "idle"
      PROVE  EndKnown(u)' /\ HoldsAlone(u)'
  BY <1>3 DEF EndKnown, HoldsAlone, HolderPcs
<1>4. ASSUME NEW u \in Requests \ {r}, pc[u] # "idle"
      PROVE  HoldsAlone(u)'
  <2>1. SUFFICES ASSUME pc[u] \in HolderPcs
                 PROVE  /\ status'[target[u]] = "executing" /\ ~ended'[target[u]]
                        /\ \A v \in Requests : pc'[v] \in HolderPcs /\ target'[v] = target[u] => v = u
    BY DEF HoldsAlone
  <2>2. HoldsAlone(u) /\ target[u] \in Actions
    BY <1>2, <1>4 DEF ExclusionInv
  <2>3. status'[target[u]] = "executing" /\ ~ended'[target[u]]
    BY <2>1, <2>2 DEF HoldsAlone
  <2>4. ~(pc'[r] \in HolderPcs /\ target'[r] = target[u])
    BY <2>1 DEF HolderPcs
  <2>. QED BY <2>1, <2>2, <2>3, <2>4 DEF HoldsAlone
<1>5. HoldsAlone(r)'
  BY DEF HoldsAlone, HolderPcs
<1>. QED BY <1>1, <1>2, <1>3, <1>4, <1>5 DEF ExclusionInv

\* Steps that write no status and end no hold nor begin one.
LEMMA ExclusionQuiet ==
  ASSUME IInv, ExclusionInv, NEW r \in Requests, NEW a \in Actions, StepOf(r, a),
         UNCHANGED <<status, ended, granted>>, EndKnown(r)',
         pc'[r] \in HolderPcs => pc[r] \in HolderPcs
  PROVE  ExclusionInv'
<1>1. EndIsFinal(a)'
  BY DEF ExclusionInv, EndIsFinal, StepOf
<1>2. CASE pc'[r] \in HolderPcs
  <2>1. pc[r] \in HolderPcs /\ target[r] = a /\ HoldsAlone(r)
    BY <1>2 DEF StepOf, HolderPcs, ExclusionInv
  <2>2. /\ status'[a] = "executing" /\ ~ended'[a]
        /\ \A u \in Requests : pc[u] \in HolderPcs /\ target[u] = a => u = r
    BY <2>1 DEF HoldsAlone
  <2>. QED BY <1>1, <2>2, ExclusionKept
<1>3. CASE pc'[r] \notin HolderPcs
  <2>1. \A u \in Requests : pc[u] \in HolderPcs /\ target[u] = a => status[a] = "executing" /\ ~ended[a]
    BY DEF ExclusionInv, HoldsAlone
  <2>. QED BY <1>1, <1>3, <2>1, ExclusionKept
<1>. QED BY <1>2, <1>3

\* Without a decision, only internal tools are ever claimed.
LEMMA ClaimsInternal ==
  ASSUME IInv, ExclusionInv, NEW r \in Requests, pc[r] \in {"claim"} \cup HolderPcs
  PROVE  target[r] \in Actions /\ tool[target[r]] = "internal"
<1>1. RequestInv(r) /\ pc[r] # "idle"
  BY DEF IInv, HolderPcs
<1>2. target[r] \in Actions /\ Permitted(target[r])
  BY <1>1 DEF RequestInv
<1>3. ~granted[target[r]]
  BY <1>2 DEF ExclusionInv, EndIsFinal
<1>. QED BY <1>2, <1>3 DEF Permitted

\* The statements that write the status of an action.
LEMMA ExclusionWrites ==
  ASSUME IInv, ExclusionInv, NEW r \in Requests,
         \/ ExecuteRefuse(r) \/ ExecuteClaim(r) \/ ExecuteSkip(r)
         \/ ExecuteMark(r) \/ CancelClaim(r)
  PROVE  ExclusionInv'
<1>0. PICK a \in Actions : a = target[r]
  BY FrameOfStep DEF RequestStep
<1>1. StepOf(r, a)
  BY <1>0, FrameOfStep DEF RequestStep
<1>2. UNCHANGED <<tool, granted>> /\ ~granted[a] /\ EndIsFinal(a) /\ HoldsAlone(r) /\ EndKnown(r)
  BY <1>0 DEF ExecuteRefuse, ExecuteClaim, ExecuteSkip, ExecuteMark, CancelClaim,
              ExclusionInv, EndIsFinal
<1>3. \A s : Write(a, s) => /\ status'[a] = s
                            /\ ended'[a] <=> ended[a] \/ s \in TerminalStatuses
  BY <1>0 DEF Write, IInv, TypeOK
<1>4. \A l : Goto(r, l) => pc'[r] = l
  BY DEF Goto, IInv, TypeOK
<1>5. Return(r) => pc'[r] = "idle"
  BY DEF Return, IInv, TypeOK
<1>6. \A u \in Requests : pc[u] \in HolderPcs /\ target[u] = a =>
        status[a] = "executing" /\ ~ended[a] /\ tool[a] = "internal"
  BY <1>0, ClaimsInternal DEF ExclusionInv, HoldsAlone
<1>7. \A l \in {"idle", "ensure", "auditExecuted", "cancelRead", "createCall"} :
        pc'[r] = l => EndKnown(r)'
  BY DEF EndKnown
<1>8. CASE ExecuteRefuse(r)
  <2>1. Write(a, next[r]) /\ pc[r] = "refuse" /\ pc'[r] \in {"idle", "ensure"}
    BY <1>0, <1>4, <1>5, <1>8 DEF ExecuteRefuse
  <2>2. tool[a] = "internal" => next[r] \in Settled /\ (next[r] \in TerminalStatuses => ended[a])
    BY <1>0, <1>2, <2>1 DEF EndKnown
  <2>3. EndIsFinal(a)'
    BY <1>1, <1>2, <1>3, <2>1, <2>2 DEF EndIsFinal, StepOf
  <2>4. \A u \in Requests \ {r} : pc[u] \in HolderPcs /\ target[u] = a =>
           status'[a] = "executing" /\ ~ended'[a] /\ pc'[r] \notin HolderPcs
    BY <1>3, <1>6, <2>1, <2>2 DEF HolderPcs, Settled, TerminalStatuses
  <2>5. pc'[r] \notin HolderPcs
    BY <2>1 DEF HolderPcs
  <2>. QED BY <1>1, <1>2, <1>7, <2>1, <2>3, <2>4, <2>5, ExclusionKept
<1>9. CASE ExecuteClaim(r)
  <2>1. CASE StillSeen(status[a], seen[r]) /\ Write(a, "executing") /\ Goto(r, "createCall")
    <3>1. pc[r] = "claim" /\ tool[a] = "internal" /\ status[a] \notin Settled
      BY <1>0, <1>2, <1>9, <2>1, ClaimsInternal DEF ExecuteClaim, StillSeen, EndKnown
    <3>2. ~ended[a] /\ \A u \in Requests : ~(pc[u] \in HolderPcs /\ target[u] = a)
      BY <1>2, <1>6, <3>1 DEF EndIsFinal, Settled
    <3>3. status'[a] = "executing" /\ ~ended'[a] /\ pc'[r] = "createCall"
      BY <1>3, <1>4, <2>1, <3>2 DEF TerminalStatuses
    <3>4. EndIsFinal(a)'
      BY <1>1, <1>2, <3>3 DEF StepOf, EndIsFinal, TerminalStatuses
    <3>. QED BY <1>1, <1>2, <1>7, <3>2, <3>3, <3>4, ExclusionKept
  <2>2. CASE Return(r) /\ UNCHANGED <<status, ended>>
    BY <1>1, <1>2, <1>5, <1>7, <2>2, ExclusionQuiet DEF HolderPcs
  <2>. QED BY <1>0, <1>9, <2>1, <2>2 DEF ExecuteClaim
<1>10. CASE ExecuteSkip(r) \/ ExecuteMark(r)
  <2>1. PICK s \in {"skipped", "executed", "failed"} :
          pc[r] \in HolderPcs /\ Write(a, s) /\ pc'[r] \in {"idle", "auditExecuted"}
    BY <1>0, <1>4, <1>5, <1>10 DEF ExecuteSkip, ExecuteMark, HolderPcs
  <2>2. ~ended[a] /\ \A u \in Requests : pc[u] \in HolderPcs /\ target[u] = a => u = r
    BY <1>0, <1>2, <2>1 DEF HoldsAlone
  <2>3. EndIsFinal(a)'
    BY <1>1, <1>2, <1>3, <2>1, <2>2 DEF StepOf, EndIsFinal, Settled, TerminalStatuses
  <2>4. pc'[r] \notin HolderPcs
    BY <2>1 DEF HolderPcs
  <2>. QED BY <1>1, <1>2, <1>7, <2>1, <2>2, <2>3, <2>4, ExclusionKept
<1>11. CASE CancelClaim(r)
  <2>1. CASE StillSeen(status[a], seen[r]) /\ Write(a, "cancelled") /\ Goto(r, "cancelRead")
    <3>1. status[a] \notin Settled
      BY <1>0, <1>2, <1>11, <2>1 DEF CancelClaim, StillSeen, EndKnown
    <3>2. \A u \in Requests : ~(pc[u] \in HolderPcs /\ target[u] = a)
      BY <1>6, <3>1 DEF Settled
    <3>3. EndIsFinal(a)' /\ pc'[r] = "cancelRead" /\ pc'[r] \notin HolderPcs
      BY <1>1, <1>2, <1>3, <1>4, <2>1 DEF StepOf, EndIsFinal, Settled, TerminalStatuses, HolderPcs
    <3>. QED BY <1>1, <1>2, <1>7, <3>2, <3>3, ExclusionKept
  <2>2. CASE Return(r) /\ UNCHANGED <<status, ended>>
    BY <1>1, <1>2, <1>5, <1>7, <2>2, ExclusionQuiet DEF HolderPcs
  <2>. QED BY <1>0, <1>11, <2>1, <2>2 DEF CancelClaim
<1>. QED BY <1>8, <1>9, <1>10, <1>11

\* The policy refuses an internal tool only for a status nobody claims from.
LEMMA InternalRefused ==
  ASSUME NEW s \in ActionStatuses, NEW ap
  PROVE  /\ Policy(s, "internal", ap) # "allowed" =>
              Policy(s, "internal", ap) = s /\ s \in Settled
         /\ \A t : Policy(s, t, ap) = "allowed" => s \notin Settled
BY DEF Policy, Settled, TerminalStatuses, ActionStatuses

\* The statements that write no status.
LEMMA ExclusionReads ==
  ASSUME IInv, ExclusionInv, NEW r \in Requests, Undisturbed,
         \/ RequestStep(r) /\ UNCHANGED <<status, ended>>
         \/ Crash(r)
  PROVE  ExclusionInv'
<1>. DEFINE a == target[r]
<1>1. a \in Actions /\ StepOf(r, a) /\ EndKnown(r)
  BY FrameOfStep DEF ExclusionInv
<1>2. \A l : Goto(r, l) => pc'[r] = l
  BY DEF Goto, IInv, TypeOK
<1>3. Return(r) => pc'[r] = "idle"
  BY DEF Return, IInv, TypeOK
<1>4. CASE ExecuteDecide(r)
  <2>. DEFINE verdict == Policy(seen[r], tool[a], LatestApproval(a))
  <2>1. UNCHANGED <<tool, status, ended, granted, seen, target>> /\ pc[r] = "decide"
        /\ seen[r] \in ActionStatuses
    BY <1>4 DEF ExecuteDecide, rowVars, historyVars, IInv, TypeOK
  <2>2. CASE verdict = "allowed" /\ Goto(r, "claim")
    <3>1. pc'[r] = "claim" /\ seen[r] \notin Settled
      BY <1>2, <2>1, <2>2, InternalRefused
    <3>. QED BY <1>1, <2>1, <3>1, ExclusionQuiet DEF EndKnown, HolderPcs
  <2>3. CASE verdict # "allowed" /\ next' = [next EXCEPT ![r] = verdict] /\ Goto(r, "refuse")
    <3>1. tool[a] = "internal" => verdict = seen[r] /\ seen[r] \in Settled
      BY <2>1, <2>3, InternalRefused
    <3>. HIDE DEF verdict
    <3>2. pc'[r] = "refuse" /\ next'[r] = verdict
      BY <1>2, <2>3 DEF IInv, TypeOK
    <3>3. EndKnown(r)'
      BY <1>1, <2>1, <3>1, <3>2 DEF EndKnown
    <3>. QED BY <1>1, <2>1, <3>2, <3>3, ExclusionQuiet DEF HolderPcs
  <2>. QED BY <1>4, <2>2, <2>3 DEF ExecuteDecide
<1>5. CASE ExecuteCreateCall(r) \/ ExecuteTool(r) \/ ExecuteRecordCall(r)
  <2>1. /\ pc[r] \in HolderPcs
        /\ pc'[r] \in {"skip", "tool", "callDone", "callFailed", "markExecuted", "markFailed"}
        /\ UNCHANGED <<status, ended, granted>>
    BY <1>2, <1>5 DEF ExecuteCreateCall, ExecuteTool, ExecuteRecordCall, HolderPcs, AfterTool,
                      historyVars, rowVars
  <2>. QED BY <1>1, <2>1, ExclusionQuiet DEF EndKnown
<1>6. CASE ExecuteAnswer(r) \/ EnsureRead(r) \/ CreateApproval(r) \/ CancelRead(r)
           \/ CancelApproval(r) \/ Crash(r)
  <2>1. /\ pc'[r] \in {"idle", "createApproval", "cancelApproval"}
        /\ UNCHANGED <<status, ended, granted>>
    BY <1>2, <1>3, <1>6 DEF ExecuteAnswer, EnsureRead, CreateApproval, CancelRead, CancelApproval,
                            Crash, historyVars, rowVars
  <2>. QED BY <1>1, <2>1, ExclusionQuiet DEF EndKnown, HolderPcs
<1>7. CASE DecideApproval(r) \/ DecideAction(r)
  BY <1>1, <1>7 DEF DecideApproval, DecideAction, EndKnown
<1>8. CASE \/ ExecuteRefuse(r) \/ ExecuteClaim(r) \/ ExecuteSkip(r)
           \/ ExecuteMark(r) \/ CancelClaim(r)
  BY <1>8, ExclusionWrites
<1>. QED BY <1>4, <1>5, <1>6, <1>7, <1>8 DEF RequestStep

LEMMA ExclusionBegins ==
  ASSUME IInv, ExclusionInv, NEW r \in Requests, NEW a \in Actions, Undisturbed,
         RequestBegins(r, a)
  PROVE  ExclusionInv'
<1>1. StepOf(r, a) /\ pc[r] = "idle" /\ UNCHANGED <<tool, status, ended, granted>>
  BY FrameOfBegin DEF rowVars, historyVars
<1>2. EndIsFinal(a)
  BY DEF ExclusionInv
<1>3. CASE ExecuteLoad(r, a)
  <2>1. /\ target'[r] = a /\ seen'[r] = status[a]
        /\ pc'[r] \in {"refuse", "decide"}
        /\ pc'[r] = "refuse" => tool[a] = "unknown"
    BY <1>3 DEF ExecuteLoad, Goto, IInv, TypeOK
  <2>2. EndKnown(r)'
    BY <1>1, <1>2, <2>1 DEF EndKnown, EndIsFinal
  <2>. QED BY <1>1, <2>1, <2>2, ExclusionQuiet DEF HolderPcs
<1>4. CASE CancelLoad(r, a)
  <2>1. /\ target'[r] = a /\ seen'[r] = status[a] /\ status[a] \notin Settled
        /\ pc'[r] = "cancelClaim"
    BY <1>4 DEF CancelLoad, Goto, IInv, TypeOK, Settled
  <2>2. EndKnown(r)'
    BY <2>1 DEF EndKnown
  <2>. QED BY <1>1, <2>1, <2>2, ExclusionQuiet DEF HolderPcs
<1>. QED BY <1>3, <1>4 DEF RequestBegins, RequestStart, DecideRead, Undisturbed
LEMMA ExclusionInit ==
  ASSUME Init
  PROVE  ExclusionInv
<1>1. \A a \in Actions : EndIsFinal(a)
  BY DEF Init, EndIsFinal, TerminalStatuses
<1>2. \A r \in Requests : HoldsAlone(r) /\ EndKnown(r)
  BY DEF Init, HoldsAlone, EndKnown, HolderPcs
<1>. QED BY <1>1, <1>2 DEF ExclusionInv

LEMMA ExclusionNext ==
  ASSUME IInv, ExclusionInv, Undisturbed, [Next]_vars
  PROVE  ExclusionInv'
<1>1. ASSUME NEW r \in Requests, RequestStep(r)
      PROVE  ExclusionInv'
  <2>1. CASE \/ ExecuteRefuse(r) \/ ExecuteClaim(r) \/ ExecuteSkip(r)
             \/ ExecuteMark(r) \/ CancelClaim(r)
    BY <2>1, ExclusionWrites
  <2>2. CASE DecideAction(r)
    BY <2>2 DEF DecideAction, ExclusionInv, EndKnown
  <2>3. CASE \/ ExecuteDecide(r) \/ ExecuteCreateCall(r) \/ ExecuteTool(r) \/ ExecuteRecordCall(r)
             \/ ExecuteAnswer(r) \/ EnsureRead(r) \/ CreateApproval(r) \/ CancelRead(r)
             \/ CancelApproval(r) \/ DecideApproval(r)
    <3>1. UNCHANGED <<status, ended>>
      BY <2>3 DEF ExecuteDecide, ExecuteCreateCall, ExecuteTool, ExecuteRecordCall, ExecuteAnswer,
         EnsureRead, CreateApproval, CancelRead, CancelApproval, DecideApproval, rowVars, historyVars
    <3>. QED BY <1>1, <3>1, ExclusionReads
  <2>. QED BY <1>1, <2>1, <2>2, <2>3 DEF RequestStep
<1>2. ASSUME NEW r \in Requests, StatementFails(r) \/ Crash(r)
      PROVE  ExclusionInv'
  BY <1>2, ExclusionReads DEF StatementFails, Undisturbed
<1>3. ASSUME NEW r \in Requests, NEW a \in Actions, RequestBegins(r, a)
      PROVE  ExclusionInv'
  BY <1>3, ExclusionBegins
<1>4. CASE \/ \E a \in Actions : \E i \in DOMAIN approvals[a] : ApprovalLapses(a, i)
           \/ UNCHANGED vars
  <2>1. UNCHANGED <<status, tool, granted, ended>> /\ UNCHANGED requestVars
    BY <1>4 DEF ApprovalLapses, historyVars, vars, rowVars
  <2>. QED BY <2>1 DEF requestVars, ExclusionInv, EndIsFinal, HoldsAlone, EndKnown
<1>. QED BY <1>1, <1>2, <1>3, <1>4 DEF Next

\* The compare-and-swap excludes: it keeps the exclusion for any number of
\* requests, with crashes, cancellations and expiring approvals.
THEOREM Exclusion == Undisturbed => (Spec => []ExclusionInv)
<1>. SUFFICES ASSUME Undisturbed PROVE Spec => []ExclusionInv
  OBVIOUS
<1>1. Init => ExclusionInv
  BY ExclusionInit
<1>2. IInv /\ ExclusionInv /\ [Next]_vars => ExclusionInv'
  BY ExclusionNext
<1>. QED BY <1>1, <1>2, Invariance, PTL DEF Spec

LEMMA HoldersAlone ==
  ASSUME ExclusionInv, NEW a \in Actions, NEW r \in Holders(a)
  PROVE  Holders(a) = {r} /\ status[a] = "executing" /\ ~ended[a]
BY DEF ExclusionInv, HoldsAlone, Holders, About

\* "Exactly one caller may hold an action at a time" (rule 6 of the policy), as
\* long as nobody writes the action's status but the executor.
THEOREM OneHolder == Undisturbed => (Spec => []SingleHolder)
<1>1. ExclusionInv => SingleHolder
  <2>. SUFFICES ASSUME ExclusionInv, NEW a \in Actions
                PROVE  Cardinality(Holders(a)) <= 1
    BY DEF SingleHolder
  <2>1. CASE Holders(a) = {}
    BY <2>1, FS_EmptySet
  <2>2. ASSUME NEW r \in Holders(a)
        PROVE  Cardinality(Holders(a)) <= 1
    <3>1. Holders(a) = {r}
      BY HoldersAlone
    <3>2. Cardinality({r}) = 1
      BY FS_Singleton
    <3>. QED BY <3>1, <3>2
  <2>. QED BY <2>1, <2>2
<1>. QED BY <1>1, Exclusion, PTL

\* No cancellation is reported while a caller still runs the action.
THEOREM NoCancelledRun == Undisturbed => (Spec => []CancelledNotRunning)
<1>1. ExclusionInv => CancelledNotRunning
  BY HoldersAlone DEF CancelledNotRunning
<1>. QED BY <1>1, Exclusion, PTL

\* What a step of r does to the holders of every action.
LEMMA HoldersOfStep ==
  ASSUME IInv, NEW r \in Requests, NEW a \in Actions, StepOf(r, a)
  PROVE  /\ \A b \in Actions \ {a} : Holders(b)' = Holders(b)
         /\ Holders(a)' \ {r} = Holders(a) \ {r}
BY DEF StepOf, OnlyMoves, Holders, About, HolderPcs

LEMMA ClaimStep ==
  ASSUME IInv, ExclusionInv, ExclusionInv', NEW r \in Requests, NEW a \in Actions,
         StepOf(r, a), ended' \in [Actions -> BOOLEAN]
  PROVE  [Claim!Next]_(Claim!vars)
<1>. DEFINE H == [b \in Actions |-> Holders(b)]
<1>1. /\ \A b \in Actions \ {a} : Holders(b)' = Holders(b) /\ ended'[b] = ended[b]
      /\ Holders(a)' \ {r} = Holders(a) \ {r}
  BY HoldersOfStep DEF StepOf
<1>2. /\ Holders(a) # {} => ~ended[a] /\ \E u \in Requests : Holders(a) = {u}
      /\ Holders(a)' # {} => ~ended'[a] /\ \E u \in Requests : Holders(a)' = {u}
  BY DEF ExclusionInv, HoldsAlone, Holders, About
<1>3. ended \in [Actions -> BOOLEAN]
  BY DEF IInv, TypeOK
<1>4. CASE ended'[a] # ended[a]
  <2>1. ended' = [ended EXCEPT ![a] = TRUE] /\ Holders(a)' = {}
    BY <1>1, <1>2, <1>3, <1>4 DEF StepOf
  <2>2. H' = [H EXCEPT ![a] = {}]
    BY <1>1, <2>1
  <2>. QED BY <2>1, <2>2 DEF Claim!Next, Claim!End
<1>. DEFINE alike == ended'[a] = ended[a]
<1>8. ASSUME alike PROVE ended' = ended
  <2>1. \A b \in Actions : ended'[b] = ended[b]
    BY <1>1, <1>8
  <2>. QED BY <1>3, <2>1
<1>5. CASE ended'[a] = ended[a] /\ Holders(a)' = Holders(a)
  <2>1. ended' = ended /\ H' = H
    BY <1>1, <1>5, <1>8
  <2>. QED BY <2>1 DEF Claim!vars
<1>6. CASE ended'[a] = ended[a] /\ Holders(a)' # Holders(a) /\ Holders(a)' = {}
  <2>1. ended' = ended /\ H' = [H EXCEPT ![a] = {}]
    BY <1>1, <1>6, <1>8
  <2>. QED BY <2>1 DEF Claim!Next, Claim!Release
<1>7. CASE ended'[a] = ended[a] /\ Holders(a)' # Holders(a) /\ Holders(a)' # {}
  <2>1. Holders(a)' = {r} /\ Holders(a) = {} /\ ~ended[a]
    BY <1>1, <1>2, <1>7
  <2>2. ended' = ended /\ H' = [H EXCEPT ![a] = {r}]
    BY <1>1, <1>7, <1>8, <2>1
  <2>. QED BY <2>1, <2>2 DEF Claim!Next, Claim!Take
<1>. QED BY <1>4, <1>5, <1>6, <1>7

\* The executor implements the claim it is written for: a free action is taken
\* by one request, given up or ended, and an ended one is never taken again.
THEOREM ClaimImplemented == Undisturbed => (Spec => ImplementsClaim)
<1>. SUFFICES ASSUME Undisturbed PROVE Spec => ImplementsClaim
  OBVIOUS
<1>1. Init => Claim!Init
  BY DEF Init, Claim!Init, Holders, About, HolderPcs
<1>2. IInv /\ IInv' /\ ExclusionInv /\ ExclusionInv' /\ [Next]_vars => [Claim!Next]_(Claim!vars)
  <2>. SUFFICES ASSUME IInv, IInv', ExclusionInv, ExclusionInv', [Next]_vars
                PROVE  [Claim!Next]_(Claim!vars)
    OBVIOUS
  <2>1. ended' \in [Actions -> BOOLEAN]
    BY DEF IInv, TypeOK
  <2>2. ASSUME NEW r \in Requests, RequestStep(r) \/ StatementFails(r) \/ Crash(r)
        PROVE  [Claim!Next]_(Claim!vars)
    <3>1. PICK a \in Actions : a = target[r]
      BY <2>2, FrameOfStep
    <3>. QED BY <2>1, <2>2, <3>1, FrameOfStep, ClaimStep
  <2>3. ASSUME NEW r \in Requests, NEW a \in Actions, RequestBegins(r, a)
        PROVE  [Claim!Next]_(Claim!vars)
    BY <2>1, <2>3, FrameOfBegin, ClaimStep
  <2>4. CASE \/ \E a \in Actions : \E i \in DOMAIN approvals[a] : ApprovalLapses(a, i)
             \/ UNCHANGED vars
    <3>1. UNCHANGED <<pc, target, ended>>
      BY <2>4 DEF ApprovalLapses, requestVars, historyVars, vars
    <3>. QED BY <3>1 DEF Claim!vars, Holders, About
  <2>. QED BY <2>2, <2>3, <2>4 DEF Next
<1>. QED BY <1>1, <1>2, Invariance, Exclusion, PTL DEF Spec, ImplementsClaim, Claim!Spec
-----------------------------------------------------------------------------
(* The tool call of an executed action, while no statement is rejected *)

LEMMA CallsKept ==
  ASSUME IInv, CallInv, NEW r \in Requests, NEW a \in Actions, StepOf(r, a),
         \A b \in Actions \ {a} : calls'[b] = calls[b],
         Succeeded(a) => Succeeded(a)',
         status'[a] = "executed" => Succeeded(a)',
         SuccessKnown(r)',
         pc'[r] \in OpenCallPcs =>
           row'[r] \in DOMAIN calls'[a] /\ calls'[a][row'[r]] = "running",
         \A u \in Requests \ {r} : pc[u] \in OpenCallPcs /\ target[u] = a =>
           /\ row[u] \in DOMAIN calls'[a] /\ calls'[a][row[u]] = "running"
           /\ ~(pc'[r] \in OpenCallPcs /\ row'[r] = row[u])
  PROVE  CallInv'
<1>. USE DEF StepOf, OnlyMoves
<1>1. ASSUME NEW b \in Actions, Succeeded(b)
      PROVE  Succeeded(b)'
  BY <1>1 DEF Succeeded
<1>2. ExecutedHasSucceededCall'
  <2>1. ASSUME NEW b \in Actions, status'[b] = "executed"
        PROVE  Succeeded(b)'
    BY <1>1, <2>1 DEF CallInv, ExecutedHasSucceededCall, Succeeded
  <2>. QED BY <2>1 DEF ExecutedHasSucceededCall, Succeeded
<1>3. ASSUME NEW u \in Requests \ {r}
      PROVE  OwnsCall(u)' /\ SuccessKnown(u)'
  <2>1. CASE pc[u] = "idle"
    BY <2>1 DEF OwnsCall, SuccessKnown, OpenCallPcs
  <2>2. CASE pc[u] # "idle"
    <3>1. target[u] \in Actions /\ OwnsCall(u) /\ SuccessKnown(u)
      BY <2>2, TargetTyped DEF CallInv
    <3>2. SuccessKnown(u)'
      BY <1>1, <3>1 DEF SuccessKnown, Succeeded
    <3>3. ASSUME pc[u] \in OpenCallPcs
          PROVE  /\ row[u] \in DOMAIN calls'[target[u]] /\ calls'[target[u]][row[u]] = "running"
                 /\ \A v \in Requests :
                      pc'[v] \in OpenCallPcs /\ target'[v] = target[u] /\ row'[v] = row[u] => v = u
      <4>1. row[u] \in DOMAIN calls'[target[u]] /\ calls'[target[u]][row[u]] = "running"
        BY <3>1, <3>3 DEF OwnsCall
      <4>2. ~(pc'[r] \in OpenCallPcs /\ target'[r] = target[u] /\ row'[r] = row[u])
        BY <3>1, <3>3 DEF OpenCallPcs
      <4>. QED BY <3>1, <3>3, <4>1, <4>2 DEF OwnsCall
    <3>. QED BY <3>2, <3>3 DEF OwnsCall
  <2>. QED BY <2>1, <2>2
<1>4. OwnsCall(r)'
  <2>1. ASSUME pc'[r] \in OpenCallPcs, NEW v \in Requests, pc'[v] \in OpenCallPcs,
               target'[v] = a, row'[v] = row'[r]
        PROVE  v = r
    BY <2>1
  <2>2. pc'[r] \in OpenCallPcs => target'[r] = a
    BY DEF OpenCallPcs
  <2>. QED BY <2>1, <2>2 DEF OwnsCall
<1>. QED BY <1>2, <1>3, <1>4 DEF CallInv

\* Steps that leave the tool calls alone.
LEMMA CallsQuiet ==
  ASSUME IInv, CallInv, NEW r \in Requests, NEW a \in Actions, StepOf(r, a),
         UNCHANGED calls,
         status'[a] = "executed" => Succeeded(a),
         SuccessKnown(r)',
         pc'[r] \in OpenCallPcs => pc[r] \in OpenCallPcs /\ row'[r] = row[r]
  PROVE  CallInv'
<1>1. Succeeded(a)' <=> Succeeded(a)
  BY DEF Succeeded
<1>2. \A u \in Requests \ {r} : pc[u] \in OpenCallPcs /\ target[u] = a =>
           /\ row[u] \in DOMAIN calls[a] /\ calls[a][row[u]] = "running"
           /\ ~(pc'[r] \in OpenCallPcs /\ row'[r] = row[u])
  BY DEF CallInv, OwnsCall, StepOf, OpenCallPcs
<1>3. pc'[r] \in OpenCallPcs =>
           row'[r] \in DOMAIN calls[a] /\ calls[a][row'[r]] = "running"
  BY DEF CallInv, OwnsCall, StepOf, OpenCallPcs
<1>. QED BY <1>1, <1>2, <1>3, CallsKept

\* The steps of a request on its tool call.
LEMMA CallsWritten ==
  ASSUME IInv, CallInv, NEW r \in Requests, ExecuteCreateCall(r) \/ ExecuteRecordCall(r)
  PROVE  CallInv'
<1>0. PICK a \in Actions : a = target[r]
  BY FrameOfStep DEF RequestStep
<1>1. StepOf(r, a) /\ OwnsCall(r)
  BY <1>0, FrameOfStep DEF RequestStep, CallInv
<1>2. \A l : Goto(r, l) => pc'[r] = l
  BY DEF Goto, IInv, TypeOK
<1>3. calls[a] \in Seq(CallStatuses) /\ DOMAIN calls[a] = 1 .. Len(calls[a]) /\ Len(calls[a]) \in Nat
  <2>1. calls[a] \in Seq(CallStatuses)
    BY DEF IInv, TypeOK
  <2>. QED BY <2>1
<1>4. \A u \in Requests : pc[u] \in OpenCallPcs /\ target[u] = a =>
        row[u] \in DOMAIN calls[a] /\ calls[a][row[u]] = "running"
  BY DEF CallInv, OwnsCall
<1>5. status'[a] = status[a] /\ (status[a] = "executed" => Succeeded(a))
  BY DEF ExecuteCreateCall, ExecuteRecordCall, CallInv, ExecutedHasSucceededCall, Succeeded
<1>6. CASE ExecuteCreateCall(r)
  <2>1. PICK c \in {"skipped", "running"} :
          /\ calls' = [calls EXCEPT ![a] = Append(@, c)]
          /\ c = "running" \/ pc'[r] \notin OpenCallPcs
          /\ pc'[r] \in {"skip", "tool"}
    BY <1>0, <1>2, <1>6 DEF ExecuteCreateCall, OpenCallPcs
  <2>2. row'[r] = Len(calls[a]) + 1
    BY <1>0, <1>6 DEF ExecuteCreateCall, IInv, TypeOK
  <2>. DEFINE t == Append(calls[a], c)
  <2>3. /\ DOMAIN t = 1 .. Len(calls[a]) + 1
        /\ \A k \in 1 .. Len(calls[a]) : t[k] = calls[a][k]
        /\ t[Len(calls[a]) + 1] = c
    BY <1>3
  <2>4. calls' = [calls EXCEPT ![a] = t]
    BY <2>1
  <2>. HIDE DEF t
  <2>5. calls'[a] = t /\ \A b \in Actions \ {a} : calls'[b] = calls[b]
    BY <2>4 DEF IInv, TypeOK
  <2>6. Succeeded(a) => Succeeded(a)'
    BY <1>3, <2>3, <2>5 DEF Succeeded
  <2>7. SuccessKnown(r)'
    BY <2>1 DEF SuccessKnown
  <2>8. pc'[r] \in OpenCallPcs => row'[r] \in DOMAIN calls'[a] /\ calls'[a][row'[r]] = "running"
    BY <1>3, <2>1, <2>2, <2>3, <2>5
  <2>9. \A u \in Requests \ {r} : pc[u] \in OpenCallPcs /\ target[u] = a =>
           /\ row[u] \in DOMAIN calls'[a] /\ calls'[a][row[u]] = "running"
           /\ ~(pc'[r] \in OpenCallPcs /\ row'[r] = row[u])
    BY <1>3, <1>4, <2>2, <2>3, <2>5
  <2>. QED BY <1>1, <1>5, <2>5, <2>6, <2>7, <2>8, <2>9, CallsKept
<1>7. CASE ExecuteRecordCall(r)
  <2>1. PICK c \in {"succeeded", "failed"} :
          /\ calls' = [calls EXCEPT ![a][row[r]] = c]
          /\ pc'[r] \in {"markExecuted", "markFailed"}
          /\ pc'[r] = "markExecuted" => c = "succeeded"
          /\ pc[r] \in OpenCallPcs
    BY <1>0, <1>2, <1>7 DEF ExecuteRecordCall, OpenCallPcs
  <2>. DEFINE t == [calls[a] EXCEPT ![row[r]] = c]
  <2>2. row[r] \in DOMAIN calls[a] /\ calls[a][row[r]] = "running"
    BY <1>0, <1>1, <2>1 DEF OwnsCall
  <2>3. /\ DOMAIN t = DOMAIN calls[a] /\ t[row[r]] = c
        /\ \A k \in DOMAIN calls[a] : k # row[r] => t[k] = calls[a][k]
    BY <2>2
  <2>4. calls' = [calls EXCEPT ![a] = t]
    BY <2>1
  <2>. HIDE DEF t
  <2>5. calls'[a] = t /\ \A b \in Actions \ {a} : calls'[b] = calls[b]
    BY <2>4 DEF IInv, TypeOK
  <2>6. Succeeded(a) => Succeeded(a)'
    BY <2>2, <2>3, <2>5 DEF Succeeded
  <2>7. SuccessKnown(r)'
    <3>1. pc'[r] = "markExecuted" => Succeeded(a)'
      BY <2>1, <2>2, <2>3, <2>5 DEF Succeeded
    <3>. QED BY <1>1, <2>1, <3>1 DEF SuccessKnown, StepOf, Succeeded
  <2>8. pc'[r] \notin OpenCallPcs
    BY <2>1 DEF OpenCallPcs
  <2>9. \A u \in Requests \ {r} : pc[u] \in OpenCallPcs /\ target[u] = a =>
           row[u] \in DOMAIN calls'[a] /\ calls'[a][row[u]] = "running"
    BY <1>0, <1>1, <1>4, <2>1, <2>3, <2>5 DEF OwnsCall
  <2>. QED BY <1>1, <1>5, <2>5, <2>6, <2>7, <2>8, <2>9, CallsKept
<1>. QED BY <1>6, <1>7

\* All other steps of a request.
LEMMA CallsRest ==
  ASSUME IInv, CallInv, NEW r \in Requests, RequestStep(r) \/ Crash(r)
  PROVE  CallInv'
<1>0. PICK a \in Actions : a = target[r]
  BY FrameOfStep
<1>1. StepOf(r, a) /\ SuccessKnown(r) /\ (status[a] = "executed" => Succeeded(a))
  BY <1>0, FrameOfStep DEF CallInv, ExecutedHasSucceededCall, Succeeded
<1>2. \A l : Goto(r, l) => pc'[r] = l
  BY DEF Goto, IInv, TypeOK
<1>3. Return(r) => pc'[r] = "idle"
  BY DEF Return, IInv, TypeOK
<1>4. \A s : Write(a, s) => status'[a] = s
  BY DEF Write, IInv, TypeOK
<1>5. CASE ExecuteCreateCall(r) \/ ExecuteRecordCall(r)
  BY <1>5, CallsWritten
<1>6. CASE ExecuteDecide(r)
  <2>1. UNCHANGED <<calls, status>> /\ pc[r] = "decide" /\ seen[r] \in ActionStatuses
    BY <1>6 DEF ExecuteDecide, rowVars, IInv, TypeOK
  <2>2. pc'[r] \in {"claim", "refuse"} /\ (pc'[r] = "refuse" /\ next'[r] = "executed" => seen[r] = "executed")
    BY <1>2, <1>6, <2>1, PolicyRefuses DEF ExecuteDecide, IInv, TypeOK
  <2>3. pc'[r] = "refuse" /\ next'[r] = "executed" => Succeeded(a)
    BY <1>0, <1>1, <2>1, <2>2 DEF SuccessKnown
  <2>4. Succeeded(a)' <=> Succeeded(a)
    BY <2>1 DEF Succeeded
  <2>5. SuccessKnown(r)'
    BY <1>1, <2>2, <2>3, <2>4 DEF SuccessKnown, StepOf, Succeeded
  <2>. QED BY <1>1, <2>1, <2>2, <2>5, CallsQuiet DEF OpenCallPcs
<1>7. CASE ExecuteTool(r)
  <2>1. /\ UNCHANGED <<calls, status, row>> /\ pc[r] \in OpenCallPcs
        /\ pc'[r] \in {"callDone", "callFailed"}
    BY <1>2, <1>7 DEF ExecuteTool, AfterTool, rowVars, OpenCallPcs
  <2>. QED BY <1>1, <2>1, CallsQuiet DEF SuccessKnown
<1>8. CASE \/ ExecuteRefuse(r) \/ ExecuteClaim(r) \/ ExecuteSkip(r) \/ ExecuteMark(r)
           \/ CancelClaim(r) \/ DecideAction(r)
  <2>1. /\ UNCHANGED calls
        /\ pc'[r] \in {"idle", "ensure", "createCall", "auditExecuted", "cancelRead"}
    BY <1>2, <1>3, <1>8 DEF ExecuteRefuse, ExecuteClaim, ExecuteSkip, ExecuteMark, CancelClaim,
                            DecideAction
  <2>2. status'[a] = "executed" => Succeeded(a)
    <3>1. CASE ExecuteRefuse(r) \/ ExecuteMark(r)
      BY <1>0, <1>1, <1>4, <3>1 DEF ExecuteRefuse, ExecuteMark, SuccessKnown
    <3>2. CASE ExecuteClaim(r) \/ ExecuteSkip(r) \/ CancelClaim(r)
      BY <1>0, <1>1, <1>4, <3>2 DEF ExecuteClaim, ExecuteSkip, CancelClaim
    <3>3. CASE DecideAction(r)
      <4>1. next[r] # "executed"
        BY <3>3 DEF DecideAction, IInv, RequestInv
      <4>. QED BY <1>0, <1>4, <3>3, <4>1 DEF DecideAction
    <3>. QED BY <1>8, <3>1, <3>2, <3>3
  <2>. QED BY <1>1, <2>1, <2>2, CallsQuiet DEF OpenCallPcs, SuccessKnown
<1>9. CASE \/ ExecuteAnswer(r) \/ EnsureRead(r) \/ CreateApproval(r) \/ CancelRead(r)
           \/ CancelApproval(r) \/ DecideApproval(r) \/ Crash(r)
  <2>1. /\ UNCHANGED <<calls, status>>
        /\ pc'[r] \in {"idle", "createApproval", "cancelApproval", "decideAction"}
    BY <1>2, <1>3, <1>9 DEF ExecuteAnswer, EnsureRead, CreateApproval, CancelRead, CancelApproval,
                            DecideApproval, Crash, rowVars
  <2>. QED BY <1>1, <2>1, CallsQuiet DEF OpenCallPcs, SuccessKnown
<1>. QED BY <1>5, <1>6, <1>7, <1>8, <1>9 DEF RequestStep

LEMMA CallsBegin ==
  ASSUME IInv, CallInv, NEW r \in Requests, NEW a \in Actions, RequestBegins(r, a)
  PROVE  CallInv'
<1>1. StepOf(r, a) /\ pc[r] = "idle" /\ UNCHANGED <<status, calls>>
  BY FrameOfBegin DEF rowVars
<1>2. status[a] = "executed" => Succeeded(a)
  BY DEF CallInv, ExecutedHasSucceededCall, Succeeded
<1>3. /\ pc'[r] \in {"refuse", "decide", "ensure", "cancelClaim", "decideApproval"}
      /\ pc'[r] = "refuse" => next'[r] = "denied"
      /\ pc'[r] = "decide" => seen'[r] = status[a]
  <2>. USE DEF Goto, IInv, TypeOK
  <2>1. CASE ExecuteLoad(r, a)
    BY <2>1 DEF ExecuteLoad
  <2>2. CASE RequestStart(r, a) \/ CancelLoad(r, a) \/ \E i \in DOMAIN approvals[a] : DecideRead(r, a, i)
    <3>1. pc'[r] \in {"ensure", "cancelClaim", "decideApproval"}
      BY <2>2 DEF RequestStart, CancelLoad, DecideRead
    <3>. QED BY <3>1
  <2>. QED BY <2>1, <2>2 DEF RequestBegins
<1>4. Succeeded(a)' <=> Succeeded(a)
  BY <1>1 DEF Succeeded
<1>5. SuccessKnown(r)'
  BY <1>1, <1>2, <1>3, <1>4 DEF SuccessKnown, StepOf, Succeeded
<1>. QED BY <1>1, <1>2, <1>3, <1>5, CallsQuiet DEF OpenCallPcs

LEMMA CallNext ==
  ASSUME IInv, CallInv, "abort" \notin Circumstances, [Next]_vars
  PROVE  CallInv'
<1>1. ASSUME NEW r \in Requests, RequestStep(r) \/ StatementFails(r) \/ Crash(r)
      PROVE  CallInv'
  BY <1>1, CallsRest DEF StatementFails
<1>2. ASSUME NEW r \in Requests, NEW a \in Actions, RequestBegins(r, a)
      PROVE  CallInv'
  BY <1>2, CallsBegin
<1>3. CASE \/ \E a \in Actions : \E i \in DOMAIN approvals[a] : ApprovalLapses(a, i)
           \/ UNCHANGED vars
  <2>1. UNCHANGED <<status, calls>> /\ UNCHANGED requestVars
    BY <1>3 DEF ApprovalLapses, vars, rowVars
  <2>. QED
    BY <2>1 DEF requestVars, CallInv, ExecutedHasSucceededCall, OwnsCall, SuccessKnown, Succeeded
<1>. QED BY <1>1, <1>2, <1>3 DEF Next

\* An executed action has a tool call that says so, through crashes, decisions,
\* cancellations and races, as long as the database rejects no statement.
THEOREM ExecutedIsRecorded ==
  "abort" \notin Circumstances => (Spec => []ExecutedHasSucceededCall)
<1>. SUFFICES ASSUME "abort" \notin Circumstances PROVE Spec => []ExecutedHasSucceededCall
  OBVIOUS
<1>1. Init => CallInv
  BY DEF Init, CallInv, ExecutedHasSucceededCall, OwnsCall, SuccessKnown, OpenCallPcs
<1>2. IInv /\ CallInv /\ [Next]_vars => CallInv'
  BY CallNext
<1>3. CallInv => ExecutedHasSucceededCall
  BY DEF CallInv
<1>. QED BY <1>1, <1>2, <1>3, Invariance, PTL DEF Spec
=============================================================================
