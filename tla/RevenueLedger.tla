---------------------------- MODULE RevenueLedger ----------------------------
(***************************************************************************)
(* Affiliate revenue events and the profit records they are reconciled     *)
(* into (revenue/revenue.service.ts). A request is a client slot; one step *)
(* is one read, or the statements of a transaction up to its commit, which *)
(* Postgres applies together. The transactions run at READ COMMITTED: what *)
(* one has read may have changed when it writes.                           *)
(***************************************************************************)
EXTENDS ApiRequests, Integers, FiniteSets

CONSTANTS Events,        \* identifiers of revenue_events rows
          Recorded,      \* the link of each event recorded before the behaviour starts
          Providers, Sources, NoSource,   \* provider; its own sourceId, or null
          Values,        \* the value of an event
          Evidence,      \* reconcile inputs: [gross, fee, cost]
          NoEvent, NoProfit,
          MaxRevenue     \* bound: requests begun

ASSUME RevenueAssumption ==
  /\ DOMAIN Recorded \subseteq Events
  /\ \A e \in DOMAIN Recorded : Recorded[e] \in Links \cup {NoLink}
  /\ Providers # {} /\ NoSource \notin Sources
  /\ NoEvent \notin Events
  /\ Evidence \subseteq [gross : Nat, fee : Nat, cost : Nat]   \* isFiniteNonNegative
  /\ NoProfit \notin Evidence
  /\ Values \subseteq Nat \ {0}
  /\ MaxRevenue \in Nat

VARIABLES event,      \* revenue_events
          profit,     \* profit_records by revenueEventId
          revPc,      \* the next step of each request
          revKey,     \* the (provider, sourceId) it records
          revEvent,   \* the event it has loaded as pending
          decisions,  \* history: reconciliations and rejections committed per event
          overlapped, \* history: the events two requests had loaded as pending at a time
          revServed   \* requests begun

eventVars == <<event, profit>>
revenueVars == <<event, profit, revPc, revKey, revEvent, decisions, overlapped, revServed>>

AbsentEvent == [status |-> "absent", provider |-> CHOOSE p \in Providers : TRUE,
                source |-> NoSource, value |-> 0, link |-> NoLink]

Key == [provider : Providers, source : Sources \cup {NoSource}]

RevenueTypeOK ==
  /\ event \in [Events -> [status : {"absent", "pending", "reconciled", "rejected"},
                           provider : Providers, source : Sources \cup {NoSource},
                           value : Values \cup {0}, link : Links \cup {NoLink}]]
  /\ profit \in [Events -> Evidence \cup {NoProfit}]
  /\ revPc \in [Clients -> {"idle", "insert", "reconcile", "reject"}]
  /\ revKey \in [Clients -> Key]
  /\ revEvent \in [Clients -> Events \cup {NoEvent}]
  /\ decisions \in [Events -> Nat]
  /\ overlapped \subseteq Events
  /\ revServed \in 0..MaxRevenue

NoRevenueKey == [provider |-> AbsentEvent.provider, source |-> NoSource]

\* Events recorded earlier are pending and carry no sourceId.
RevenueInit ==
  /\ \E v \in Values :
       event = [e \in Events |->
                  IF e \in DOMAIN Recorded
                  THEN [AbsentEvent EXCEPT !.status = "pending", !.value = v, !.link = Recorded[e]]
                  ELSE AbsentEvent]
  /\ profit = [e \in Events |-> NoProfit]
  /\ revPc = [c \in Clients |-> "idle"]
  /\ revKey = [c \in Clients |-> NoRevenueKey]
  /\ revEvent = [c \in Clients |-> NoEvent]
  /\ decisions = [e \in Events |-> 0]
  /\ overlapped = {}
  /\ revServed = 0

-----------------------------------------------------------------------------
Exists(e) == event[e].status # "absent"

BeginRevenue == revServed < MaxRevenue /\ revServed' = revServed + 1

RevenueReturn(c) ==
  /\ revPc' = [revPc EXCEPT ![c] = "idle"]
  /\ revKey' = [revKey EXCEPT ![c] = NoRevenueKey]
  /\ revEvent' = [revEvent EXCEPT ![c] = NoEvent]
  /\ UNCHANGED revServed

\* The rows a (provider, sourceId) identifies; null identifies none.
Same(k) == {e \in Events : Exists(e) /\ k.source # NoSource
                           /\ event[e].provider = k.provider /\ event[e].source = k.source}

\* (fault) No unique index stands behind the lookup.
NoIndex(k) == {}

\* The rows the unique index on (provider, sourceId) finds in the way of an insert.
InTheWay(k) == Same(k)

\* record: the lookup. An event already recorded is the answer.
FindEvent(c, k) ==
  /\ revPc[c] = "idle"
  /\ BeginRevenue
  /\ \/ /\ Same(k) # {}
        /\ UNCHANGED <<revPc, revKey>>
     \/ /\ Same(k) = {}
        /\ revPc' = [revPc EXCEPT ![c] = "insert"]
        /\ revKey' = [revKey EXCEPT ![c] = k]
  /\ UNCHANGED <<event, profit, revEvent, decisions, overlapped>>

\* record: the insert and the audit row.
InsertEvent(c, e, v, l) ==
  /\ revPc[c] = "insert"
  /\ ~Exists(e)
  /\ InTheWay(revKey[c]) = {}
  /\ event' = [event EXCEPT ![e] = [status |-> "pending", provider |-> revKey[c].provider,
                                    source |-> revKey[c].source, value |-> v, link |-> l]]
  /\ RevenueReturn(c)
  /\ UNCHANGED <<profit, decisions, overlapped>>

\* (fault) The status is not looked at.
AnyStatus(e) == Exists(e)

\* What reconcile and reject let pass: `event.status !== "pending"` is refused.
MayDecide(e) == event[e].status = "pending"

\* reconcile and reject: the read and the guard on the status.
LoadEvent(c, e, decision) ==
  /\ revPc[c] = "idle"
  /\ MayDecide(e)
  /\ BeginRevenue
  /\ revPc' = [revPc EXCEPT ![c] = decision]
  /\ revEvent' = [revEvent EXCEPT ![c] = e]
  /\ overlapped' = overlapped \cup {e2 \in {e} : \E d \in Clients : revEvent[d] = e2}
  /\ UNCHANGED <<event, profit, revKey, decisions>>

\* revenueEventId is unique in profit_records.
NoProfitYet(e) == profit[e] = NoProfit

\* The profit record of an event.
Book(e, evidence) == [profit EXCEPT ![e] = evidence]

\* reconcile: profit record, status and audit row, without a second look at the status.
Reconcile(c, evidence) ==
  /\ revPc[c] = "reconcile"
  /\ LET e == revEvent[c] IN
       /\ NoProfitYet(e)
       /\ profit' = Book(e, evidence)
       /\ event' = [event EXCEPT ![e].status = "reconciled"]
       /\ decisions' = [decisions EXCEPT ![e] = @ + 1]
  /\ RevenueReturn(c)
  /\ UNCHANGED overlapped

\* reject: status and audit row. A profit record recorded meanwhile stays.
Reject(c) ==
  /\ revPc[c] = "reject"
  /\ LET e == revEvent[c] IN
       /\ event' = [event EXCEPT ![e].status = "rejected"]
       /\ decisions' = [decisions EXCEPT ![e] = @ + 1]
  /\ RevenueReturn(c)
  /\ UNCHANGED <<profit, overlapped>>

\* A unique index refuses a row, another statement fails or the process
\* dies: the transaction leaves nothing.
RevenueRequestFails(c) ==
  /\ revPc[c] # "idle"
  /\ RevenueReturn(c)
  /\ UNCHANGED <<event, profit, decisions, overlapped>>

\* The deletion of an affiliate link nulls the reference (no onDelete: SetNull).
UnlinkEvents(l) ==
  /\ event' = [e \in Events |-> IF event[e].link = l THEN [event[e] EXCEPT !.link = NoLink]
                                                     ELSE event[e]]
  /\ UNCHANGED <<profit, revPc, revKey, revEvent, decisions, overlapped, revServed>>

RevenueStep(c) ==
  \/ \E k \in Key : FindEvent(c, k)
  \/ \E e \in Events, v \in Values, l \in Links \cup {NoLink} : InsertEvent(c, e, v, l)
  \/ \E e \in Events, d \in {"reconcile", "reject"} : LoadEvent(c, e, d)
  \/ \E m \in Evidence : Reconcile(c, m)
  \/ Reject(c)
  \/ RevenueRequestFails(c)

RevenueNext ==
  \/ \E c \in Clients : RevenueStep(c)
  \/ \E l \in Links : UnlinkEvents(l)

RevenueSpec == RevenueInit /\ [][RevenueNext]_revenueVars

-----------------------------------------------------------------------------
\* netProfit = gross - fee - cost, over the profit records there are.
NetProfit(m) == m.gross - m.fee - m.cost

\* A reported event keeps exactly one row ("so two concurrent ingests of the
\* same provider event cannot both create a duplicate", :56-57).
OneEventPerSource == \A e, f \in Events :
  Exists(e) /\ Exists(f) /\ event[e].source # NoSource
  /\ event[e].provider = event[f].provider /\ event[e].source = event[f].source => e = f

\* A reconciled event carries its profit record, whatever decisions crossed
\* ("a retry cannot double-count profit or leave an unreconciled profit
\* record", :145-147): no crossing rejection or retry leaves one without.
ReconciledHasProfit == \A e \in Events : event[e].status = "reconciled" => profit[e] # NoProfit

\* "a reconciled/rejected event is final" (:123) but for the requests that
\* had both loaded it as pending: outside such an overlap one decision counts.
FinalUnlessOverlapped == \A e \in Events : decisions[e] > 1 => e \in overlapped

\* Money booked is never rewritten: the profit record of an event keeps its
\* amounts, whatever is decided about the event later.
BookedForGood == [][\A e \in Events : profit[e] # NoProfit => profit'[e] = profit[e]]_revenueVars
==============================================================================
