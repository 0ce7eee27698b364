------------------------------- MODULE AiGateway -------------------------------
(***************************************************************************)
(* One completion through the boundary to a model (ai/ai.service.ts,       *)
(* ai/ai-provider.registry.ts, ai/providers): the refusals before any      *)
(* provider is called, the attempts with their timer and backoff, and the  *)
(* row that accounts for the request. A provider may charge for a call     *)
(* whose answer never reaches the request; what a call costs is one unit.  *)
(* Of the rows only what the totals and the status are computed from is    *)
(* kept.                                                                   *)
(***************************************************************************)
EXTENDS Autonomy, FiniteSets

CONSTANTS Providers,       \* AI_PROVIDERS
          Health,          \* the health of each provider that is registered
          DefaultProvider, \* AI_DEFAULT_PROVIDER, or Unset
          Named,           \* bound: the providers named in requests, Unset for none
          Retries,         \* bound: the maxRetries asked for
          MaxInvocations   \* bound: requests begun

InvokeLevel == 3      \* AI_INVOKE_REQUIRED_AUTONOMY
DefaultRetries == 2   \* DEFAULT_AI_MAX_RETRIES
RetryCap == 5

ASSUME GatewayAssumption ==
  /\ DOMAIN Health \subseteq Providers
  /\ \A p \in DOMAIN Health : Health[p] \in {"configured", "not_configured", "mock"}
  /\ Unset \notin Providers
  /\ DefaultProvider \in Providers \cup {Unset}
  /\ Named \subseteq Providers \cup {Unset}
  /\ Retries \subseteq Int \cup {Unset}
  /\ MaxInvocations \in Nat

VARIABLES call,     \* what each request is doing
          booked,   \* ai_invocations: rows, their known cost, is one unknown, verified providers
          due,      \* history: calls charged for, less those tried again or with a lost row
          answered, \* history: providers that have answered a call with a completion
          invoked   \* requests begun

gatewayVars == <<call, booked, due, answered, invoked>>

Free == [at |-> "idle"]

\* A row to be written. Its cost is what the row will say, its charge what the
\* provider charged for the last call; a success names its provider.
Row == [provider : Providers \cup {Unset}, success : BOOLEAN, charge : {0, 1},
        cost : {0, 1, Unset}]

Call ==
  {Free}
  \cup [at : {"calling", "backoff"}, provider : Providers, attempt : Nat, max : Nat]
  \cup [at : {"record"}, row : Row]

GatewayTypeOK ==
  /\ call \in [Clients -> Call]
  /\ booked \in [rows : Nat, cost : Nat, unknown : BOOLEAN, verified : SUBSET Providers]
  /\ due \in Nat
  /\ answered \subseteq Providers
  /\ invoked \in 0..MaxInvocations

GatewayInit ==
  /\ call = [c \in Clients |-> Free]
  /\ booked = [rows |-> 0, cost |-> 0, unknown |-> FALSE, verified |-> {}]
  /\ due = 0
  /\ answered = {}
  /\ invoked = 0

-----------------------------------------------------------------------------
\* registry.resolve: the provider named, else the default; neither if it is
\* not registered.
Resolve(named) == LET p == IF named = Unset THEN DefaultProvider ELSE named IN
  IF p \in DOMAIN Health THEN p ELSE Unset

\* maxRetries, clamped.
Clamp(retries) == LET r == IF retries = Unset THEN DefaultRetries ELSE retries IN
  IF r < 0 THEN 0 ELSE Lower(r, RetryCap)

Real(p) == Health[p] = "configured"

Goes(c, next) == call' = [call EXCEPT ![c] = next]

\* The row of a request without a completion: nothing is known of its cost.
FailureRow(p, charge) ==
  [at |-> "record", row |-> [provider |-> p, success |-> FALSE, charge |-> charge, cost |-> Unset]]

BeginInvocation(c) == call[c] = Free /\ invoked < MaxInvocations /\ invoked' = invoked + 1

\* Autonomy, role, a provider that is registered and has its credential.
Served(role, level, named) ==
  /\ Effective(level, role) >= InvokeLevel
  /\ role # "viewer"
  /\ Resolve(named) # Unset
  /\ Health[Resolve(named)] # "not_configured"

\* invoke: refused, and the refusal is recorded.
Refuse(c, role, level, named) ==
  /\ BeginInvocation(c)
  /\ ~Served(role, level, named)
  /\ Goes(c, FailureRow(Resolve(named), 0))
  /\ UNCHANGED <<booked, due, answered>>

\* invoke: assertRequest throws. Nothing is called and no row is written.
RejectRequest(c, role, level, named) ==
  /\ BeginInvocation(c)
  /\ Served(role, level, named)
  /\ UNCHANGED <<call, booked, due, answered>>

\* invoke: the first call to the provider.
FirstCall(c, role, level, named, retries) ==
  /\ BeginInvocation(c)
  /\ Served(role, level, named)
  /\ Goes(c, [at |-> "calling", provider |-> Resolve(named), attempt |-> 0, max |-> Clamp(retries)])
  /\ UNCHANGED <<booked, due, answered>>

\* (fault) A completion without usage or price is called free.
FreeWhenUnknown(p, stated) == IF Real(p) /\ stated THEN 1 ELSE 0

\* withCost: known when the usage is reported and the model has its price. The
\* mock answers for one model only, which it lists at price 0, and always with
\* its usage (providers/mock-ai.provider.ts:25-34, 90-124): it costs 0.
CostOf(p, stated) == IF ~Real(p) THEN 0 ELSE IF stated THEN 1 ELSE Unset

\* The provider answers with a completion before the timer fires.
Completes(c, stated) ==
  /\ call[c].at = "calling"
  /\ LET p == call[c].provider
         charge == IF Real(p) THEN 1 ELSE 0 IN
       /\ due' = due + charge
       /\ answered' = answered \cup {p}
       /\ Goes(c, [at |-> "record", row |-> [provider |-> p, success |-> TRUE, charge |-> charge,
                                             cost |-> CostOf(p, stated)]])
  /\ UNCHANGED <<booked, invoked>>

\* A call has failed: the next attempt, unless the error is final or it was
\* the last.
CallFailed(c, retryable, charge) ==
  LET k == call[c] IN
  /\ charge = 1 => Real(k.provider)
  /\ IF retryable /\ k.attempt < k.max
     THEN Goes(c, [k EXCEPT !.at = "backoff"]) /\ UNCHANGED due
     ELSE Goes(c, FailureRow(k.provider, charge)) /\ due' = due + charge
  /\ UNCHANGED <<booked, answered, invoked>>

\* The provider answers with an error, or with a body that is no completion.
ProviderFails(c, retryable, charge) == call[c].at = "calling" /\ CallFailed(c, retryable, charge)

\* (fault) Only the adapter's own timer bounds a call.
NoTimer(c) == FALSE

\* withTimeout: the timer of a call may fire while the call lasts.
TimerRuns(c) == call[c].at = "calling"

\* The timer fires. An answer that comes later is dropped; the provider may
\* have charged for it.
TimesOut(c, charge) == TimerRuns(c) /\ CallFailed(c, TRUE, charge)

\* The backoff is over: the next call.
CallAgain(c) ==
  /\ call[c].at = "backoff"
  /\ Goes(c, [call[c] EXCEPT !.at = "calling", !.attempt = @ + 1])
  /\ UNCHANGED <<booked, due, answered, invoked>>

\* (fault) A completion of the mock counts as evidence.
AnySuccess(row) == row.success

\* verified: !mocked
Verifies(row) == row.success /\ Real(row.provider)

\* record, and the answer to the request.
StoreRow(c) ==
  /\ call[c].at = "record"
  /\ LET row == call[c].row IN
       booked' = [rows |-> booked.rows + 1,
                  cost |-> IF row.cost = Unset THEN booked.cost ELSE booked.cost + row.cost,
                  unknown |-> booked.unknown \/ row.cost = Unset,
                  verified |-> IF Verifies(row) THEN booked.verified \cup {row.provider}
                               ELSE booked.verified]
  /\ Goes(c, Free)
  /\ UNCHANGED <<due, answered, invoked>>

\* record: the insert fails, which is logged; the answer is given all the same.
LoseRow(c) ==
  /\ call[c].at = "record"
  /\ due' = due - call[c].row.charge
  /\ Goes(c, Free)
  /\ UNCHANGED <<booked, answered, invoked>>

\* Charged for and not yet written.
Unwritten == {c \in Clients : call[c].at = "record" /\ call[c].row.charge = 1}

\* The process dies with everything in it.
GatewayDies ==
  /\ due' = due - Cardinality(Unwritten)
  /\ call' = [c \in Clients |-> Free]
  /\ UNCHANGED <<booked, answered, invoked>>

Invoke(c, role, level, named) ==
  \/ Refuse(c, role, level, named)
  \/ RejectRequest(c, role, level, named)
  \/ \E r \in Retries : FirstCall(c, role, level, named, r)

\* What a request does by itself once a provider has been asked.
OwnStep(c) ==
  \/ \E charge \in {0, 1} : TimesOut(c, charge)
  \/ CallAgain(c)
  \/ StoreRow(c)
  \/ LoseRow(c)

GatewayStep(c) ==
  \/ OwnStep(c)
  \/ \E stated \in BOOLEAN : Completes(c, stated)
  \/ \E retryable \in BOOLEAN, charge \in {0, 1} : ProviderFails(c, retryable, charge)

GatewayNext ==
  \/ \E c \in Clients : \/ GatewayStep(c)
                        \/ \E role \in Roles, level \in Levels \cup {Unset},
                              named \in Named : Invoke(c, role, level, named)
  \/ GatewayDies

GatewaySpec == GatewayInit /\ [][GatewayNext]_gatewayVars

-----------------------------------------------------------------------------
\* strictSum: a total is given when every row states its cost.
TotalGiven == booked.rows > 0 /\ ~booked.unknown

\* "A total is only reported when EVERY row is known ... a partial sum
\* presented as a total is a lie" (:331-332): a total given is what the providers
\* charged for, but for the calls a request tried again after, the rows that
\* were lost, and those that are yet to be written.
SpendIsAccounted == TotalGiven => due = booked.cost + Cardinality(Unwritten)

\* "a provider counts as verified only if an earlier real call to it actually
\* succeeded. Configuration can never set that flag" (:106-108).
VerifiedIsEarned == \A p \in booked.verified : p \in answered /\ Real(p)

\* "a slow provider of any kind is bounded rather than hanging a request"
\* (:264-265): every request is answered, whatever the provider does.
EventuallyAnswered == \A c \in Clients : call[c] # Free ~> call[c] = Free
================================================================================
