---------------------------- MODULE LedgerProofs ----------------------------
(***************************************************************************)
(* The two ledgers of the API process, each for any number of requests.    *)
(*                                                                         *)
(* Revenue: one row per reported event, a profit record for every          *)
(* reconciled event, and one decision per event unless two requests had    *)
(* loaded it as pending at a time. A request holds an event only between   *)
(* its read and its commit; an event that only one request holds is still  *)
(* pending when that request writes, so the status it read is still true.  *)
(*                                                                         *)
(* Stock: no row ever holds a negative quantity, and a sku on which no two *)
(* movements were in progress at a time holds the sum of its movements,    *)
(* because the one request on it computed what it writes from the row that *)
(* is still the newest. Keys: an order key has one row; a return or        *)
(* settlement key has two only if two requests were between lookup and     *)
(* insert of it at a time.                                                 *)
(***************************************************************************)
EXTENDS RevenueLedger, SellerLedger, SequenceTheorems, TLAPS

\* A request holds an event exactly between LoadEvent and its end.
HoldsWhileDeciding == \A c \in Clients :
  (revPc[c] \in {"reconcile", "reject"} <=> revEvent[c] # NoEvent)

\* Two requests that hold the same event overlap on it.
SharedIsOverlapped == \A c, d \in Clients :
  c # d /\ revEvent[c] = revEvent[d] /\ revEvent[c] # NoEvent => revEvent[c] \in overlapped

\* An event is never deleted: what a request holds is there.
HeldExists == \A c \in Clients : revEvent[c] # NoEvent => Exists(revEvent[c])

\* What one request alone has loaded is still as it read it.
HeldIsPending == \A c \in Clients :
  revEvent[c] # NoEvent /\ revEvent[c] \notin overlapped => event[revEvent[c]].status = "pending"

\* An event about which something was decided is pending no more.
DecidedIsFinal == \A e \in Events :
  decisions[e] > 0 /\ e \notin overlapped => event[e].status \notin {"pending", "absent"}

RevenueInv ==
  /\ RevenueTypeOK
  /\ HoldsWhileDeciding
  /\ SharedIsOverlapped
  /\ HeldExists
  /\ HeldIsPending
  /\ DecidedIsFinal
  /\ OneEventPerSource
  /\ ReconciledHasProfit
  /\ FinalUnlessOverlapped

EventRow == [status : {"absent", "pending", "reconciled", "rejected"},
             provider : Providers, source : Sources \cup {NoSource},
             value : Values \cup {0}, link : Links \cup {NoLink}]

LEMMA RevenueInitInv ==
  ASSUME RevenueInit
  PROVE  RevenueInv
<1>0. /\ profit = [e \in Events |-> NoProfit]
      /\ revPc = [c \in Clients |-> "idle"]
      /\ revKey = [c \in Clients |-> NoRevenueKey]
      /\ revEvent = [c \in Clients |-> NoEvent]
      /\ decisions = [e \in Events |-> 0]
      /\ overlapped = {} /\ revServed = 0
  BY DEF RevenueInit
<1>1. AbsentEvent \in EventRow /\ AbsentEvent.source = NoSource /\ AbsentEvent.status = "absent"
  BY RevenueAssumption DEF AbsentEvent, EventRow
<1>2. /\ event \in [Events -> EventRow]
      /\ \A e \in Events : event[e].source = NoSource /\ event[e].status # "reconciled"
  <2>1. PICK v \in Values :
          event = [e \in Events |->
                     IF e \in DOMAIN Recorded
                     THEN [AbsentEvent EXCEPT !.status = "pending", !.value = v, !.link = Recorded[e]]
                     ELSE AbsentEvent]
    BY DEF RevenueInit
  <2>2. ASSUME NEW e \in DOMAIN Recorded
        PROVE  LET r == [AbsentEvent EXCEPT !.status = "pending", !.value = v, !.link = Recorded[e]]
               IN r \in EventRow /\ r.source = NoSource /\ r.status = "pending"
    BY <1>1, <2>2, RevenueAssumption DEF EventRow
  <2>. QED BY <1>1, <2>1, <2>2
<1>3. NoRevenueKey \in Key
  BY RevenueAssumption DEF NoRevenueKey, Key, AbsentEvent
<1>4. RevenueTypeOK
  BY <1>0, <1>2, <1>3, RevenueAssumption DEF RevenueTypeOK, EventRow
<1>5. HoldsWhileDeciding /\ SharedIsOverlapped /\ HeldExists /\ HeldIsPending
  BY <1>0 DEF HoldsWhileDeciding, SharedIsOverlapped, HeldExists, HeldIsPending
<1>6. DecidedIsFinal /\ FinalUnlessOverlapped
  BY <1>0 DEF DecidedIsFinal, FinalUnlessOverlapped
<1>7. OneEventPerSource /\ ReconciledHasProfit
  BY <1>2 DEF OneEventPerSource, ReconciledHasProfit
<1>. QED
  BY <1>4, <1>5, <1>6, <1>7 DEF RevenueInv

\* The end of a request leaves the others what they hold.
LEMMA ReturnKeeps ==
  ASSUME RevenueInv, NEW c \in Clients, RevenueReturn(c)
  PROVE  /\ revPc' \in [Clients -> {"idle", "insert", "reconcile", "reject"}]
         /\ revKey' \in [Clients -> Key]
         /\ revEvent' \in [Clients -> Events \cup {NoEvent}]
         /\ revServed' \in 0..MaxRevenue
         /\ HoldsWhileDeciding'
         /\ revEvent'[c] = NoEvent
         /\ \A d \in Clients \ {c} : revEvent'[d] = revEvent[d]
<1>1. NoRevenueKey \in Key
  BY RevenueAssumption DEF NoRevenueKey, Key, AbsentEvent
<1>. QED
  BY <1>1 DEF RevenueReturn, RevenueInv, RevenueTypeOK, HoldsWhileDeciding

\* Deciding event e, which request c holds, keeps the invariant about the others.
LEMMA DecisionKeeps ==
  ASSUME RevenueInv, NEW c \in Clients, NEW e \in Events, e = revEvent[c],
         NEW s \in {"reconciled", "rejected"},
         event' = [event EXCEPT ![e].status = s],
         decisions' = [decisions EXCEPT ![e] = @ + 1],
         RevenueReturn(c), UNCHANGED overlapped
  PROVE  /\ event' \in [Events -> EventRow]
         /\ decisions' \in [Events -> Nat]
         /\ SharedIsOverlapped' /\ HeldExists' /\ HeldIsPending' /\ DecidedIsFinal'
         /\ OneEventPerSource' /\ FinalUnlessOverlapped'
<1>1. event \in [Events -> EventRow] /\ decisions \in [Events -> Nat]
  BY DEF RevenueInv, RevenueTypeOK, EventRow
<1>2. /\ event' \in [Events -> EventRow]
      /\ event'[e].status = s
      /\ \A f \in Events : event'[f].source = event[f].source
                           /\ event'[f].provider = event[f].provider
      /\ \A f \in Events \ {e} : event'[f] = event[f]
  BY <1>1 DEF EventRow
<1>3. /\ decisions' \in [Events -> Nat]
      /\ decisions'[e] = decisions[e] + 1
      /\ \A f \in Events \ {e} : decisions'[f] = decisions[f]
  BY <1>1
<1>4. /\ revEvent'[c] = NoEvent
      /\ \A d \in Clients \ {c} : revEvent'[d] = revEvent[d]
  BY ReturnKeeps
<1>5. e # NoEvent
  BY RevenueAssumption
<1>6. \A d \in Clients \ {c} : revEvent[d] = e => e \in overlapped
  BY <1>5 DEF RevenueInv, SharedIsOverlapped
<1>7. SharedIsOverlapped'
  BY <1>4 DEF RevenueInv, SharedIsOverlapped
<1>8. HeldIsPending'
  <2>. SUFFICES ASSUME NEW d \in Clients, revEvent'[d] # NoEvent, revEvent'[d] \notin overlapped
                PROVE  event'[revEvent'[d]].status = "pending"
    BY DEF HeldIsPending
  <2>1. d # c /\ revEvent'[d] = revEvent[d] /\ revEvent[d] # e
    BY <1>4, <1>6
  <2>2. revEvent[d] \in Events
    BY <2>1 DEF RevenueInv, RevenueTypeOK
  <2>. QED
    BY <1>2, <2>1, <2>2 DEF RevenueInv, HeldIsPending
<1>9. DecidedIsFinal'
  BY <1>2, <1>3 DEF RevenueInv, DecidedIsFinal
<1>10. FinalUnlessOverlapped'
  <2>1. e \notin overlapped => decisions[e] = 0
    BY <1>1, <1>5 DEF RevenueInv, HeldIsPending, DecidedIsFinal
  <2>. QED
    BY <1>3, <2>1 DEF RevenueInv, FinalUnlessOverlapped
<1>11. Exists(e)
  BY <1>5 DEF RevenueInv, HeldExists
<1>12. \A f \in Events : Exists(f)' => Exists(f)
  BY <1>2, <1>11 DEF Exists
<1>13. OneEventPerSource'
  BY <1>2, <1>12 DEF RevenueInv, OneEventPerSource
<1>14. HeldExists'
  <2>. SUFFICES ASSUME NEW d \in Clients, revEvent'[d] # NoEvent
                PROVE  event'[revEvent'[d]].status # "absent"
    BY DEF HeldExists, Exists
  <2>1. revEvent'[d] = revEvent[d] /\ revEvent[d] \in Events
    BY <1>4 DEF RevenueInv, RevenueTypeOK
  <2>2. event[revEvent[d]].status # "absent"
    BY <2>1 DEF RevenueInv, HeldExists, Exists
  <2>. QED BY <1>2, <2>1, <2>2
<1>. QED
  BY <1>2, <1>3, <1>7, <1>8, <1>9, <1>10, <1>13, <1>14

LEMMA RevenueStepInv ==
  ASSUME RevenueInv, RevenueNext
  PROVE  RevenueInv'
<1>0. event \in [Events -> EventRow]
  BY DEF RevenueInv, RevenueTypeOK, EventRow
<1>1. ASSUME NEW c \in Clients, NEW k \in Key, FindEvent(c, k)
      PROVE  RevenueInv'
  <2>1. RevenueTypeOK' /\ HoldsWhileDeciding'
    BY <1>1, RevenueAssumption
    DEF FindEvent, BeginRevenue, RevenueInv, RevenueTypeOK, HoldsWhileDeciding
  <2>2. UNCHANGED <<event, profit, revEvent, decisions, overlapped>>
    BY <1>1 DEF FindEvent
  <2>. QED
    BY <2>1, <2>2 DEF RevenueInv, SharedIsOverlapped, HeldExists, HeldIsPending, DecidedIsFinal,
      OneEventPerSource, ReconciledHasProfit, FinalUnlessOverlapped, Exists
<1>2. ASSUME NEW c \in Clients, NEW e \in Events, NEW v \in Values, NEW l \in Links \cup {NoLink},
             InsertEvent(c, e, v, l)
      PROVE  RevenueInv'
  <2>1. /\ revKey[c] \in Key /\ revPc[c] = "insert" /\ ~Exists(e)
        /\ InTheWay(revKey[c]) = {}
        /\ event' = [event EXCEPT ![e] = [status |-> "pending", provider |-> revKey[c].provider,
                                    source |-> revKey[c].source, value |-> v, link |-> l]]
        /\ RevenueReturn(c)
        /\ UNCHANGED <<profit, decisions, overlapped>>
    BY <1>2 DEF InsertEvent, RevenueInv, RevenueTypeOK
  <2>2. /\ event' \in [Events -> EventRow]
        /\ event'[e].status = "pending" /\ event'[e].provider = revKey[c].provider
        /\ event'[e].source = revKey[c].source
        /\ \A f \in Events \ {e} : event'[f] = event[f]
    BY <1>0, <2>1 DEF EventRow, Key
  <2>3. revEvent[c] = NoEvent
    BY <2>1 DEF RevenueInv, HoldsWhileDeciding
  <2>4. UNCHANGED revEvent
    BY <2>1, <2>3 DEF RevenueReturn, RevenueInv, RevenueTypeOK
  <2>5. \A d \in Clients : revEvent[d] # e
    BY <2>1, RevenueAssumption DEF RevenueInv, HeldExists
  <2>6. RevenueTypeOK' /\ HoldsWhileDeciding'
    BY <2>1, <2>2, ReturnKeeps DEF RevenueInv, RevenueTypeOK, EventRow
  <2>7. SharedIsOverlapped'
    BY <2>1, <2>4 DEF RevenueInv, SharedIsOverlapped
  <2>8. HeldExists' /\ HeldIsPending'
    BY <2>1, <2>2, <2>4, <2>5 DEF RevenueInv, RevenueTypeOK, HeldExists, HeldIsPending, Exists
  <2>9. DecidedIsFinal' /\ FinalUnlessOverlapped'
    <3>1. decisions[e] > 0 => e \in overlapped
      BY <2>1 DEF RevenueInv, DecidedIsFinal, Exists
    <3>. QED BY <2>1, <2>2, <3>1 DEF RevenueInv, DecidedIsFinal, FinalUnlessOverlapped
  <2>10. ReconciledHasProfit'
    BY <2>1, <2>2 DEF RevenueInv, ReconciledHasProfit
  <2>11. OneEventPerSource'
    <3>1. \A f \in Events : Exists(f) /\ revKey[c].source # NoSource
            => ~(event[f].provider = revKey[c].provider /\ event[f].source = revKey[c].source)
      BY <2>1 DEF InTheWay, Same
    <3>. QED BY <2>2, <3>1 DEF RevenueInv, OneEventPerSource, Exists
  <2>. QED BY <2>6, <2>7, <2>8, <2>9, <2>10, <2>11 DEF RevenueInv
<1>3. ASSUME NEW c \in Clients, NEW e \in Events, NEW dec \in {"reconcile", "reject"},
             LoadEvent(c, e, dec)
      PROVE  RevenueInv'
  <2>1. /\ revPc[c] = "idle" /\ event[e].status = "pending"
        /\ revPc' = [revPc EXCEPT ![c] = dec]
        /\ revEvent' = [revEvent EXCEPT ![c] = e]
        /\ overlapped' = overlapped \cup {e2 \in {e} : \E d \in Clients : revEvent[d] = e2}
        /\ UNCHANGED <<event, profit, revKey, decisions>>
    BY <1>3 DEF LoadEvent, MayDecide
  <2>2. /\ revEvent \in [Clients -> Events \cup {NoEvent}]
        /\ e # NoEvent /\ overlapped \subseteq overlapped'
    BY <2>1, RevenueAssumption DEF RevenueInv, RevenueTypeOK
  <2>3. RevenueTypeOK' /\ HoldsWhileDeciding'
    BY <1>3, <2>1, <2>2, RevenueAssumption
    DEF LoadEvent, BeginRevenue, RevenueInv, RevenueTypeOK, HoldsWhileDeciding
  <2>4. SharedIsOverlapped'
    <3>1. \A d \in Clients : d # c /\ revEvent[d] = e => e \in overlapped'
      BY <2>1
    <3>. QED BY <2>1, <2>2, <3>1 DEF RevenueInv, SharedIsOverlapped
  <2>5. HeldExists' /\ HeldIsPending'
    BY <2>1, <2>2 DEF RevenueInv, HeldExists, HeldIsPending, Exists
  <2>6. DecidedIsFinal' /\ FinalUnlessOverlapped' /\ OneEventPerSource' /\ ReconciledHasProfit'
    BY <2>1, <2>2
    DEF RevenueInv, DecidedIsFinal, FinalUnlessOverlapped, OneEventPerSource, ReconciledHasProfit,
        Exists
  <2>. QED BY <2>3, <2>4, <2>5, <2>6 DEF RevenueInv
<1>4. ASSUME NEW c \in Clients, NEW m \in Evidence, Reconcile(c, m)
      PROVE  RevenueInv'
  <2>. DEFINE e == revEvent[c]
  <2>1. e \in Events
    BY <1>4 DEF Reconcile, RevenueInv, RevenueTypeOK, HoldsWhileDeciding
  <2>2. /\ profit' = [profit EXCEPT ![e] = m]
        /\ event' = [event EXCEPT ![e].status = "reconciled"]
        /\ decisions' = [decisions EXCEPT ![e] = @ + 1]
        /\ RevenueReturn(c) /\ UNCHANGED overlapped
    BY <1>4 DEF Reconcile, Book
  <2>3. /\ event' \in [Events -> EventRow]
        /\ decisions' \in [Events -> Nat]
        /\ SharedIsOverlapped' /\ HeldExists' /\ HeldIsPending' /\ DecidedIsFinal'
        /\ OneEventPerSource' /\ FinalUnlessOverlapped'
    BY <2>1, <2>2, DecisionKeeps
  <2>4. RevenueTypeOK' /\ HoldsWhileDeciding'
    BY <2>1, <2>2, <2>3, ReturnKeeps DEF RevenueInv, RevenueTypeOK, EventRow
  <2>5. ReconciledHasProfit'
    <3>1. profit'[e] # NoProfit /\ \A f \in Events \ {e} : profit'[f] = profit[f]
      BY <2>1, <2>2, RevenueAssumption DEF RevenueInv, RevenueTypeOK
    <3>2. \A f \in Events \ {e} : event'[f] = event[f]
      BY <1>0, <2>1, <2>2
    <3>. QED BY <3>1, <3>2 DEF RevenueInv, ReconciledHasProfit
  <2>. QED BY <2>3, <2>4, <2>5 DEF RevenueInv
<1>5. ASSUME NEW c \in Clients, Reject(c)
      PROVE  RevenueInv'
  <2>. DEFINE e == revEvent[c]
  <2>1. e \in Events
    BY <1>5 DEF Reject, RevenueInv, RevenueTypeOK, HoldsWhileDeciding
  <2>2. /\ event' = [event EXCEPT ![e].status = "rejected"]
        /\ decisions' = [decisions EXCEPT ![e] = @ + 1]
        /\ RevenueReturn(c) /\ UNCHANGED <<profit, overlapped>>
    BY <1>5 DEF Reject
  <2>3. /\ event' \in [Events -> EventRow]
        /\ decisions' \in [Events -> Nat]
        /\ SharedIsOverlapped' /\ HeldExists' /\ HeldIsPending' /\ DecidedIsFinal'
        /\ OneEventPerSource' /\ FinalUnlessOverlapped'
    BY <2>1, <2>2, DecisionKeeps
  <2>4. RevenueTypeOK' /\ HoldsWhileDeciding'
    BY <2>2, <2>3, ReturnKeeps DEF RevenueInv, RevenueTypeOK, EventRow
  <2>5. ReconciledHasProfit'
    <3>1. event'[e].status = "rejected" /\ \A f \in Events \ {e} : event'[f] = event[f]
      BY <1>0, <2>1, <2>2 DEF EventRow
    <3>. QED BY <2>2, <3>1 DEF RevenueInv, ReconciledHasProfit
  <2>. QED BY <2>3, <2>4, <2>5 DEF RevenueInv
<1>6. ASSUME NEW c \in Clients, RevenueRequestFails(c)
      PROVE  RevenueInv'
  <2>1. RevenueReturn(c) /\ UNCHANGED <<event, profit, decisions, overlapped>>
    BY <1>6 DEF RevenueRequestFails
  <2>2. RevenueTypeOK' /\ HoldsWhileDeciding'
    BY <2>1, ReturnKeeps DEF RevenueInv, RevenueTypeOK
  <2>3. revEvent'[c] = NoEvent /\ \A d \in Clients \ {c} : revEvent'[d] = revEvent[d]
    BY <2>1, ReturnKeeps
  <2>4. SharedIsOverlapped' /\ HeldExists' /\ HeldIsPending'
    BY <2>1, <2>3 DEF RevenueInv, SharedIsOverlapped, HeldExists, HeldIsPending, Exists
  <2>5. DecidedIsFinal' /\ FinalUnlessOverlapped' /\ OneEventPerSource' /\ ReconciledHasProfit'
    BY <2>1
    DEF RevenueInv, DecidedIsFinal, FinalUnlessOverlapped, OneEventPerSource, ReconciledHasProfit,
        Exists
  <2>. QED BY <2>2, <2>4, <2>5 DEF RevenueInv
<1>7. ASSUME NEW l \in Links, UnlinkEvents(l)
      PROVE  RevenueInv'
  <2>1. /\ event' \in [Events -> EventRow]
        /\ \A e \in Events : /\ event'[e].status = event[e].status
                             /\ event'[e].provider = event[e].provider
                             /\ event'[e].source = event[e].source
    BY <1>0, <1>7 DEF UnlinkEvents, EventRow
  <2>2. UNCHANGED <<profit, revPc, revKey, revEvent, decisions, overlapped, revServed>>
    BY <1>7 DEF UnlinkEvents
  <2>3. RevenueTypeOK' /\ HoldsWhileDeciding' /\ SharedIsOverlapped'
    BY <2>1, <2>2
    DEF RevenueInv, RevenueTypeOK, EventRow, HoldsWhileDeciding, SharedIsOverlapped
  <2>4. HeldExists' /\ HeldIsPending'
    BY <2>1, <2>2 DEF RevenueInv, RevenueTypeOK, HeldExists, HeldIsPending, Exists
  <2>5. DecidedIsFinal' /\ FinalUnlessOverlapped' /\ OneEventPerSource' /\ ReconciledHasProfit'
    BY <2>1, <2>2
    DEF RevenueInv, DecidedIsFinal, FinalUnlessOverlapped, OneEventPerSource, ReconciledHasProfit,
        Exists
  <2>. QED BY <2>3, <2>4, <2>5 DEF RevenueInv
<1>. QED
  BY <1>1, <1>2, <1>3, <1>4, <1>5, <1>6, <1>7 DEF RevenueNext, RevenueStep

LEMMA RevenueStutterInv ==
  ASSUME RevenueInv, UNCHANGED revenueVars
  PROVE  RevenueInv'
BY DEF RevenueInv, revenueVars, RevenueTypeOK, HoldsWhileDeciding, SharedIsOverlapped, HeldExists,
       HeldIsPending, DecidedIsFinal, OneEventPerSource, ReconciledHasProfit, FinalUnlessOverlapped,
       Exists

\* The inductive invariant holds of the ledger.
THEOREM RevenueInvariant == RevenueSpec => []RevenueInv
<1>1. RevenueInit => RevenueInv
  BY RevenueInitInv
<1>2. RevenueInv /\ [RevenueNext]_revenueVars => RevenueInv'
  BY RevenueStepInv, RevenueStutterInv
<1>. QED BY <1>1, <1>2, PTL DEF RevenueSpec

\* Every variable of the ledger keeps its type.
THEOREM RevenueTypeSafety == RevenueSpec => []RevenueTypeOK
<1>1. RevenueInv => RevenueTypeOK
  BY DEF RevenueInv
<1>. QED BY <1>1, RevenueInvariant, PTL

\* However many requests report the same provider event, it is one row (:56-57).
THEOREM ReportedOnce == RevenueSpec => []OneEventPerSource
<1>1. RevenueInv => OneEventPerSource
  BY DEF RevenueInv
<1>. QED BY <1>1, RevenueInvariant, PTL

\* No order of reconciliations, rejections and failures leaves a reconciled
\* event without its profit record.
THEOREM ReconciledIsBooked == RevenueSpec => []ReconciledHasProfit
<1>1. RevenueInv => ReconciledHasProfit
  BY DEF RevenueInv
<1>. QED BY <1>1, RevenueInvariant, PTL

\* The status check outside the transaction decides once, unless two requests
\* had both read the event as pending.
THEOREM DecidedOnceUnlessOverlapped == RevenueSpec => []FinalUnlessOverlapped
<1>1. RevenueInv => FinalUnlessOverlapped
  BY DEF RevenueInv
<1>. QED BY <1>1, RevenueInvariant, PTL

\* No decision rewrites the amounts that were booked for an event.
THEOREM BookingIsFinal == RevenueSpec => BookedForGood
<1>1. ASSUME RevenueInv, RevenueNext
      PROVE  \A e \in Events : profit[e] # NoProfit => profit'[e] = profit[e]
  <2>1. ASSUME NEW c \in Clients, NEW m \in Evidence, Reconcile(c, m)
        PROVE  \A e \in Events : profit[e] # NoProfit => profit'[e] = profit[e]
    BY <1>1, <2>1 DEF Reconcile, NoProfitYet, Book, RevenueInv, RevenueTypeOK
  <2>2. CASE UNCHANGED profit
    BY <2>2
  <2>. QED
    BY <1>1, <2>1, <2>2 DEF RevenueNext, RevenueStep, FindEvent, InsertEvent, LoadEvent, Reject,
      RevenueRequestFails, UnlinkEvents
<1>2. RevenueInv /\ [RevenueNext]_revenueVars
        => [\A e \in Events : profit[e] # NoProfit => profit'[e] = profit[e]]_revenueVars
  BY <1>1
<1>. QED BY <1>2, RevenueInvariant, PTL DEF RevenueSpec, BookedForGood

-----------------------------------------------------------------------------
Moving(c, s) == sellerReq[c].op \in {"find", "save"} /\ sellerReq[c].sku = s

\* What a movement is about to write was allowed.
HeldIsAllowed == \A c \in Clients :
  sellerReq[c].op \in {"find", "save"} => Allowed(sellerReq[c].next)

\* Two movements on one sku have crossed.
SharedIsCrossed == \A s \in Skus : \A c, d \in Clients :
  c # d /\ Moving(c, s) /\ Moving(d, s) => s \in crossed

\* What a movement alone on its sku has read is still the newest row.
AloneIsCurrent == \A s \in Skus \ crossed : \A c \in Clients :
  Moving(c, s) =>
    /\ sellerReq[c].next = Plus(Snapshot(s), sellerReq[c].delta)
    /\ sellerReq[c].op = "save" => sellerReq[c].row = Len(stock[s])

StockPart == HeldIsAllowed /\ StockNeverNegative /\ SharedIsCrossed /\ AloneIsCurrent
             /\ StockExactUnlessCrossed

\* Two requests between lookup and insert of a key have raced on it.
MeetIsRaced == \A k \in Keys : \A op \in {"return", "settle"} : \A c, d \in Clients :
  c # d /\ c \in Inserting(op, k) /\ d \in Inserting(op, k) => <<op, k>> \in raced

\* A request that is about to insert a key already there has raced on it.
LateIsRaced == \A k \in Keys : \A c \in Clients :
  /\ c \in Inserting("return", k) /\ returns[k] > 0 => <<"return", k>> \in raced
  /\ c \in Inserting("settle", k) /\ Settled(k) # {} => <<"settle", k>> \in raced

KeysPart == OneOrderPerKey /\ MeetIsRaced /\ LateIsRaced /\ TwiceOnlyWhenRaced

SellerInv == SellerTypeOK /\ StockPart /\ KeysPart

\* A request of each kind carries what its next step needs.
LEMMA RequestShape ==
  ASSUME NEW r \in SellerRequest
  PROVE  /\ r.op \in {"idle", "find", "save", "order", "return", "settle", "version"}
         /\ r.op \in {"find", "save"} => r.sku \in Skus /\ r.next \in Quantities
                                         /\ r.delta \in Quantities
         /\ r.op = "save" => r.row \in Nat
         /\ r.op \in {"order", "return"} => r.key \in Keys \cup {NoKey}
         /\ r.op = "settle" => r.key \in Keys /\ r.lines \in [Kinds -> Int \cup {Unknown}]
         /\ r.op = "version" => r.listing \in Listings
BY DEF SellerRequest, Idle

LEMMA IdleIsRequest == Idle \in SellerRequest /\ Idle.op = "idle"
BY DEF SellerRequest, Idle

LEMMA PlusType ==
  ASSUME NEW q \in Quantities, NEW d \in Quantities
  PROVE  Plus(q, d) \in Quantities
BY DEF Plus, Quantities

LEMMA SnapshotType ==
  ASSUME SellerTypeOK, NEW s \in Skus
  PROVE  Snapshot(s) \in Quantities
<1>1. stock[s] \in Seq(Quantities) /\ Zero \in Quantities
  BY DEF SellerTypeOK, Zero, Quantities
<1>2. stock[s] # <<>> => stock[s][Len(stock[s])] \in Quantities
  BY <1>1
<1>. QED BY <1>1, <1>2 DEF Snapshot

\* A step that leaves the stock alone leaves what is known about it.
LEMMA StockFrame ==
  ASSUME StockPart, UNCHANGED <<stock, moved, crossed>>,
         \A d \in Clients : \/ sellerReq'[d] = sellerReq[d]
                            \/ sellerReq'[d].op \notin {"find", "save"}
  PROVE  StockPart'
<1>1. \A s \in Skus : Snapshot(s)' = Snapshot(s)
  BY DEF Snapshot
<1>2. \A s \in Skus, c \in Clients : Moving(c, s)' => Moving(c, s) /\ sellerReq'[c] = sellerReq[c]
  BY DEF Moving
<1>3. StockNeverNegative' /\ StockExactUnlessCrossed'
  BY <1>1 DEF StockPart, StockNeverNegative, StockExactUnlessCrossed, Allowed
<1>4. HeldIsAllowed'
  BY DEF StockPart, HeldIsAllowed, Allowed
<1>5. SharedIsCrossed' /\ AloneIsCurrent'
  BY <1>1, <1>2 DEF StockPart, SharedIsCrossed, AloneIsCurrent
<1>. QED BY <1>3, <1>4, <1>5 DEF StockPart

\* A step that leaves the keyed tables alone leaves what is known about them.
LEMMA KeysFrame ==
  ASSUME KeysPart, UNCHANGED <<orders, returns, settlement, raced>>,
         \A d \in Clients : \/ sellerReq'[d] = sellerReq[d]
                            \/ sellerReq'[d].op \notin {"return", "settle"}
  PROVE  KeysPart'
<1>1. \A k \in Keys, op \in {"return", "settle"} : Inserting(op, k)' \subseteq Inserting(op, k)
  BY DEF Inserting
<1>2. \A k \in Keys : Settled(k)' = Settled(k)
  BY DEF Settled
<1>3. OneOrderPerKey' /\ TwiceOnlyWhenRaced'
  BY <1>2 DEF KeysPart, OneOrderPerKey, TwiceOnlyWhenRaced
<1>4. MeetIsRaced' /\ LateIsRaced'
  BY <1>1, <1>2 DEF KeysPart, MeetIsRaced, LateIsRaced
<1>. QED BY <1>3, <1>4 DEF KeysPart

LEMMA SellerInitInv ==
  ASSUME SellerInit
  PROVE  SellerInv
<1>1. SellerTypeOK
  BY IdleIsRequest, SellerAssumption
  DEF SellerInit, SellerTypeOK, Zero, Quantities, ListingRow
<1>2. \A c \in Clients : sellerReq[c].op = "idle"
  BY IdleIsRequest DEF SellerInit
<1>3. \A s \in Skus : stock[s] = <<>> /\ Snapshot(s) = Zero /\ moved[s] = Zero
  BY DEF SellerInit, Snapshot
<1>4. StockPart
  BY <1>2, <1>3 DEF StockPart, HeldIsAllowed, StockNeverNegative, SharedIsCrossed, AloneIsCurrent,
                    StockExactUnlessCrossed, Moving
<1>5. \A k \in Keys : orders[k] = 0 /\ returns[k] = 0 /\ Settled(k) = {}
  BY DEF SellerInit, Settled
<1>6. KeysPart
  BY <1>2, <1>5 DEF KeysPart, OneOrderPerKey, MeetIsRaced, LateIsRaced, TwiceOnlyWhenRaced, Inserting
<1>. QED BY <1>1, <1>4, <1>6 DEF SellerInv

\* One request's slot changes; the others keep what they hold.
LEMMA SlotType ==
  ASSUME SellerTypeOK, NEW c \in Clients, NEW r \in SellerRequest,
         sellerReq' = [sellerReq EXCEPT ![c] = r]
  PROVE  /\ sellerReq' \in [Clients -> SellerRequest]
         /\ sellerReq'[c] = r
         /\ \A d \in Clients \ {c} : sellerReq'[d] = sellerReq[d]
BY DEF SellerTypeOK

LEMMA ReadStockInv ==
  ASSUME SellerInv, NEW c \in Clients, NEW s \in Skus, NEW d \in Movements, ReadStock(c, s, d)
  PROVE  SellerInv'
<1>. DEFINE next == Plus(Snapshot(s), d)
            r == [op |-> "find", sku |-> s, next |-> next, delta |-> d]
<1>1. /\ sellerReq[c] = Idle /\ Allowed(next) /\ BeginSeller
      /\ sellerReq' = [sellerReq EXCEPT ![c] = r]
      /\ crossed' = IF OnSku(s) = {} THEN crossed ELSE crossed \cup {s}
      /\ UNCHANGED <<stock, orders, returns, settlement, listing, moved, raced>>
  BY DEF ReadStock
<1>2. d \in Quantities /\ next \in Quantities
  BY SellerAssumption, PlusType, SnapshotType DEF SellerInv
<1>3. r \in SellerRequest
  BY <1>2 DEF SellerRequest
<1>4. /\ sellerReq' \in [Clients -> SellerRequest]
      /\ sellerReq'[c] = r
      /\ \A x \in Clients \ {c} : sellerReq'[x] = sellerReq[x]
  BY <1>1, <1>3, SlotType DEF SellerInv
<1>. HIDE DEF r, next
<1>5. r.op = "find" /\ r.sku = s /\ r.next = next /\ r.delta = d
  BY DEF r
<1>6. SellerTypeOK'
  BY <1>1, <1>4, SellerAssumption DEF SellerInv, SellerTypeOK, BeginSeller
<1>7. crossed \subseteq crossed' /\ \A t \in Skus : Snapshot(t)' = Snapshot(t)
  BY <1>1 DEF Snapshot
<1>8. \A x \in Clients \ {c}, t \in Skus : Moving(x, t)' <=> Moving(x, t)
  BY <1>4 DEF Moving
<1>9. \A t \in Skus : Moving(c, t)' => t = s
  BY <1>4, <1>5 DEF Moving
<1>10. HeldIsAllowed'
  BY <1>1, <1>4, <1>5 DEF SellerInv, StockPart, HeldIsAllowed, Allowed
<1>11. StockNeverNegative' /\ StockExactUnlessCrossed'
  BY <1>1, <1>7 DEF SellerInv, StockPart, StockNeverNegative, StockExactUnlessCrossed, Allowed
<1>12. SharedIsCrossed'
  <2>1. \A x \in Clients \ {c} : Moving(x, s) => s \in crossed'
    BY <1>1 DEF OnSku, Moving
  <2>. QED BY <1>7, <1>8, <1>9, <2>1 DEF SellerInv, StockPart, SharedIsCrossed
<1>13. AloneIsCurrent'
  <2>. SUFFICES ASSUME NEW t \in Skus, t \notin crossed', NEW x \in Clients, Moving(x, t)'
       PROVE  /\ sellerReq'[x].next = Plus(Snapshot(t), sellerReq'[x].delta)
              /\ sellerReq'[x].op = "save" => sellerReq'[x].row = Len(stock'[t])
    BY <1>7 DEF AloneIsCurrent
  <2>1. CASE x = c
    BY <1>4, <1>5, <1>9, <2>1 DEF next
  <2>2. CASE x # c
    BY <1>1, <1>4, <1>7, <1>8, <2>2 DEF SellerInv, StockPart, AloneIsCurrent
  <2>. QED BY <2>1, <2>2
<1>14. KeysPart'
  BY <1>1, <1>4, <1>5, KeysFrame DEF SellerInv
<1>. QED BY <1>6, <1>10, <1>11, <1>12, <1>13, <1>14 DEF SellerInv, StockPart

LEMMA FindStockRowInv ==
  ASSUME SellerInv, NEW c \in Clients, FindStockRow(c)
  PROVE  SellerInv'
<1>. DEFINE q == sellerReq[c]
            r == [op |-> "save", sku |-> q.sku, next |-> q.next, delta |-> q.delta,
                  row |-> Len(stock[q.sku])]
<1>1. /\ q.op = "find"
      /\ sellerReq' = [sellerReq EXCEPT ![c] = r]
      /\ UNCHANGED <<stock, orders, returns, settlement, listing, moved, crossed, raced, sellerServed>>
  BY DEF FindStockRow
<1>2. q.sku \in Skus /\ q.next \in Quantities /\ q.delta \in Quantities
  BY <1>1, RequestShape DEF SellerInv, SellerTypeOK
<1>3. Len(stock[q.sku]) \in Nat
  BY <1>2 DEF SellerInv, SellerTypeOK
<1>4. r \in SellerRequest
  BY <1>2, <1>3 DEF SellerRequest
<1>5. /\ sellerReq' \in [Clients -> SellerRequest]
      /\ sellerReq'[c] = r
      /\ \A x \in Clients \ {c} : sellerReq'[x] = sellerReq[x]
  BY <1>1, <1>4, SlotType DEF SellerInv
<1>. HIDE DEF r
<1>6. r.op = "save" /\ r.sku = q.sku /\ r.next = q.next /\ r.delta = q.delta
      /\ r.row = Len(stock[q.sku])
  BY DEF r
<1>7. SellerTypeOK'
  BY <1>1, <1>5 DEF SellerInv, SellerTypeOK
<1>8. \A t \in Skus : Snapshot(t)' = Snapshot(t)
  BY <1>1 DEF Snapshot
<1>9. \A x \in Clients, t \in Skus : Moving(x, t)' <=> Moving(x, t)
  BY <1>1, <1>5, <1>6 DEF Moving
<1>10. HeldIsAllowed'
  BY <1>1, <1>5, <1>6 DEF SellerInv, StockPart, HeldIsAllowed, Allowed
<1>11. StockNeverNegative' /\ StockExactUnlessCrossed'
  BY <1>1, <1>8 DEF SellerInv, StockPart, StockNeverNegative, StockExactUnlessCrossed, Allowed
<1>12. SharedIsCrossed'
  BY <1>1, <1>9 DEF SellerInv, StockPart, SharedIsCrossed
<1>13. AloneIsCurrent'
  <2>. SUFFICES ASSUME NEW t \in Skus, t \notin crossed', NEW x \in Clients, Moving(x, t)'
       PROVE  /\ sellerReq'[x].next = Plus(Snapshot(t), sellerReq'[x].delta)
              /\ sellerReq'[x].op = "save" => sellerReq'[x].row = Len(stock'[t])
    BY <1>8 DEF AloneIsCurrent
  <2>1. /\ Moving(x, t)
        /\ sellerReq[x].next = Plus(Snapshot(t), sellerReq[x].delta)
        /\ sellerReq[x].op = "save" => sellerReq[x].row = Len(stock[t])
    BY <1>1, <1>9 DEF SellerInv, StockPart, AloneIsCurrent
  <2>2. CASE x = c
    <3>1. q.sku = t
      BY <2>1, <2>2 DEF Moving
    <3>. QED BY <1>1, <1>5, <1>6, <2>1, <2>2, <3>1
  <2>3. CASE x # c
    BY <1>1, <1>5, <2>1, <2>3
  <2>. QED BY <2>2, <2>3
<1>14. KeysPart'
  BY <1>1, <1>5, <1>6, KeysFrame DEF SellerInv
<1>. QED BY <1>7, <1>10, <1>11, <1>12, <1>13, <1>14 DEF SellerInv, StockPart

\* The rows of a sku after a movement has written x.
Rewritten(q, row, x) == IF row = 0 THEN Append(q, x) ELSE [q EXCEPT ![row] = x]

\* The newest is what the movement computed if it wrote over the newest, and
\* every other row is as it was.
LEMMA WrittenRow ==
  ASSUME NEW q \in Seq(Quantities), NEW x \in Quantities, NEW row \in Nat
  PROVE  LET new == Rewritten(q, row, x) IN
         /\ new \in Seq(Quantities)
         /\ \A i \in 1..Len(new) : new[i] = x \/ (i \in 1..Len(q) /\ new[i] = q[i])
         /\ row = Len(q) => new # <<>> /\ new[Len(new)] = x
<1>. DEFINE new == Rewritten(q, row, x)
<1>. SUFFICES /\ new \in Seq(Quantities)
              /\ \A i \in 1..Len(new) : new[i] = x \/ (i \in 1..Len(q) /\ new[i] = q[i])
              /\ row = Len(q) => new # <<>> /\ new[Len(new)] = x
  OBVIOUS
<1>1. CASE row = 0
  <2>1. /\ new \in Seq(Quantities) /\ Len(new) = Len(q) + 1
        /\ \A i \in 1..Len(q) : new[i] = q[i]
        /\ new[Len(q) + 1] = x
    BY <1>1 DEF Rewritten
  <2>. HIDE DEF new
  <2>. QED BY <2>1
<1>2. CASE row # 0
  <2>1. /\ new \in Seq(Quantities) /\ Len(new) = Len(q)
        /\ \A i \in 1..Len(q) : new[i] = IF i = row THEN x ELSE q[i]
    <3>1. CASE row \in 1..Len(q)
      BY <1>2, <3>1, ExceptSeq DEF Rewritten
    <3>2. CASE row \notin 1..Len(q)
      <4>1. DOMAIN q = 1..Len(q)
        OBVIOUS
      <4>2. new = q
        BY <1>2, <3>2, <4>1 DEF Rewritten
      <4>. QED BY <3>2, <4>2
    <3>. QED BY <3>1, <3>2
  <2>2. row = Len(q) => row \in 1..Len(q)
    BY <1>2
  <2>. HIDE DEF new
  <2>. QED BY <2>1, <2>2
<1>. QED BY <1>1, <1>2

LEMMA SaveStockInv ==
  ASSUME SellerInv, NEW c \in Clients, NEW s \in Skus, s = sellerReq[c].sku, SaveStock(c)
  PROVE  SellerInv'
<1>. DEFINE q == sellerReq[c]
            new == Rewritten(stock[s], q.row, q.next)
<1>1. /\ q.op = "save"
      /\ stock' = [stock EXCEPT ![s] = new]
      /\ moved' = [moved EXCEPT ![s] = Plus(@, q.delta)]
      /\ sellerReq' = [sellerReq EXCEPT ![c] = Idle]
      /\ UNCHANGED <<orders, returns, settlement, listing, crossed, raced, sellerServed>>
  BY DEF SaveStock, ToWrite, SellerReturn, Rewritten
<1>2. q.next \in Quantities /\ q.delta \in Quantities /\ q.row \in Nat
  BY <1>1, RequestShape DEF SellerInv, SellerTypeOK
<1>3. stock[s] \in Seq(Quantities)
  BY <1>2 DEF SellerInv, SellerTypeOK
<1>4. /\ new \in Seq(Quantities)
      /\ \A i \in 1..Len(new) : new[i] = q.next \/ (i \in 1..Len(stock[s]) /\ new[i] = stock[s][i])
      /\ q.row = Len(stock[s]) => new # <<>> /\ new[Len(new)] = q.next
  BY <1>2, <1>3, WrittenRow
<1>. HIDE DEF new
<1>5. /\ stock' \in [Skus -> Seq(Quantities)]
      /\ stock'[s] = new /\ \A t \in Skus \ {s} : stock'[t] = stock[t]
  BY <1>1, <1>2, <1>4 DEF SellerInv, SellerTypeOK
<1>6. /\ moved' \in [Skus -> Quantities]
      /\ moved'[s] = Plus(moved[s], q.delta) /\ \A t \in Skus \ {s} : moved'[t] = moved[t]
  BY <1>1, <1>2, PlusType DEF SellerInv, SellerTypeOK
<1>7. /\ sellerReq' \in [Clients -> SellerRequest]
      /\ sellerReq'[c] = Idle
      /\ \A x \in Clients \ {c} : sellerReq'[x] = sellerReq[x]
  BY <1>1, IdleIsRequest, SlotType DEF SellerInv
<1>8. SellerTypeOK'
  BY <1>1, <1>5, <1>6, <1>7 DEF SellerInv, SellerTypeOK
<1>9. \A x \in Clients, t \in Skus : Moving(x, t)' => x # c /\ Moving(x, t)
  BY <1>7, IdleIsRequest DEF Moving
<1>10. Moving(c, s)
  BY <1>1 DEF Moving
<1>11. HeldIsAllowed'
  BY <1>7, IdleIsRequest DEF SellerInv, StockPart, HeldIsAllowed, Allowed
<1>12. StockNeverNegative'
  <2>1. Allowed(q.next)
    BY <1>1 DEF SellerInv, StockPart, HeldIsAllowed
  <2>2. \A i \in 1..Len(new) : Allowed(new[i])
    BY <1>2, <1>4, <2>1 DEF SellerInv, StockPart, StockNeverNegative
  <2>3. \A t \in Skus : \A i \in 1..Len(stock'[t]) : Allowed(stock'[t][i])
    BY <1>5, <2>2 DEF SellerInv, StockPart, StockNeverNegative
  <2>. QED BY <2>3 DEF StockNeverNegative, Allowed
<1>13. SharedIsCrossed'
  BY <1>1, <1>9 DEF SellerInv, StockPart, SharedIsCrossed
<1>14. \A t \in Skus \ {s} : Snapshot(t)' = Snapshot(t)
  BY <1>5 DEF Snapshot
<1>15. AloneIsCurrent'
  <2>. SUFFICES ASSUME NEW t \in Skus, t \notin crossed', NEW x \in Clients, Moving(x, t)'
       PROVE  /\ sellerReq'[x].next = Plus(Snapshot(t)', sellerReq'[x].delta)
              /\ sellerReq'[x].op = "save" => sellerReq'[x].row = Len(stock'[t])
    BY DEF AloneIsCurrent, Plus
  <2>1. x # c /\ Moving(x, t) /\ t \notin crossed
    BY <1>1, <1>9
  <2>2. t # s
    BY <1>10, <2>1 DEF SellerInv, StockPart, SharedIsCrossed
  <2>. QED BY <1>5, <1>7, <1>14, <2>1, <2>2 DEF SellerInv, StockPart, AloneIsCurrent
<1>16. StockExactUnlessCrossed'
  <2>. SUFFICES ASSUME NEW t \in Skus, t \notin crossed'
       PROVE  Snapshot(t)' = moved'[t]
    BY DEF StockExactUnlessCrossed
  <2>1. Snapshot(t) = moved[t]
    BY <1>1 DEF SellerInv, StockPart, StockExactUnlessCrossed
  <2>2. CASE t # s
    BY <1>6, <1>14, <2>1, <2>2
  <2>3. CASE t = s
    <3>1. q.next = Plus(Snapshot(s), q.delta) /\ q.row = Len(stock[s])
      BY <1>1, <1>10, <2>3 DEF SellerInv, StockPart, AloneIsCurrent
    <3>2. Snapshot(s)' = q.next
      BY <1>4, <1>5, <3>1 DEF Snapshot
    <3>. QED BY <1>6, <2>1, <2>3, <3>1, <3>2
  <2>. QED BY <2>2, <2>3
<1>17. KeysPart'
  BY <1>1, <1>7, IdleIsRequest, KeysFrame DEF SellerInv
<1>. QED BY <1>8, <1>11, <1>12, <1>13, <1>15, <1>16, <1>17 DEF SellerInv, StockPart

\* A request that found nothing under its key joins those about to insert it.
LEMMA LookedUpKeeps ==
  ASSUME SellerInv, NEW c \in Clients, NEW op \in {"order", "return", "settle"},
         NEW k \in Keys \cup {NoKey}, NEW hold \in SellerRequest, hold.op = op, hold.key = k,
         op = "settle" => k \in Keys,
         LookedUp(c, op, k, hold),
         UNCHANGED <<orders, returns, settlement>>,
         op = "return" /\ k \in Keys => ~(returns[k] > 0),
         op = "settle" => Settled(k) = {}
  PROVE  /\ sellerReq' \in [Clients -> SellerRequest]
         /\ raced' \subseteq {"order", "return", "settle"} \X Keys
         /\ \A d \in Clients : sellerReq'[d] = sellerReq[d] \/ sellerReq'[d].op = op
         /\ KeysPart'
<1>1. /\ sellerReq' \in [Clients -> SellerRequest]
      /\ sellerReq'[c] = hold
      /\ \A x \in Clients \ {c} : sellerReq'[x] = sellerReq[x]
  BY SlotType DEF LookedUp, SellerInv
<1>2. raced \subseteq raced' /\ raced' \subseteq {"order", "return", "settle"} \X Keys
  BY SellerAssumption DEF LookedUp, SellerInv, SellerTypeOK
<1>3. \A x \in Clients \ {c}, o \in {"return", "settle"}, q \in Keys :
        x \in Inserting(o, q)' <=> x \in Inserting(o, q)
  BY <1>1 DEF Inserting
<1>4. \A o \in {"return", "settle"}, q \in Keys : c \in Inserting(o, q)' => o = op /\ q = k
  BY <1>1 DEF Inserting
<1>5. \A x \in Clients : x \in Inserting(op, k) /\ k \in Keys => <<op, k>> \in raced'
  BY SellerAssumption DEF LookedUp
<1>6. \A q \in Keys : Settled(q)' = Settled(q)
  BY DEF Settled
<1>7. OneOrderPerKey' /\ TwiceOnlyWhenRaced'
  BY <1>2, <1>6 DEF SellerInv, KeysPart, OneOrderPerKey, TwiceOnlyWhenRaced
<1>8. MeetIsRaced'
  <2>. SUFFICES ASSUME NEW q \in Keys, NEW o \in {"return", "settle"},
                       NEW x \in Clients, NEW y \in Clients, x # y,
                       x \in Inserting(o, q)', y \in Inserting(o, q)'
                PROVE  <<o, q>> \in raced'
    BY DEF MeetIsRaced
  <2>1. CASE x = c
    BY <1>3, <1>4, <1>5, <2>1
  <2>2. CASE y = c
    BY <1>3, <1>4, <1>5, <2>2
  <2>3. CASE x # c /\ y # c
    <3>1. x \in Inserting(o, q) /\ y \in Inserting(o, q)
      BY <1>3, <2>3
    <3>. QED BY <1>2, <3>1 DEF SellerInv, KeysPart, MeetIsRaced
  <2>. QED BY <2>1, <2>2, <2>3
<1>9. LateIsRaced'
  <2>. SUFFICES ASSUME NEW q \in Keys, NEW x \in Clients
       PROVE  /\ x \in Inserting("return", q)' /\ returns[q] > 0 => <<"return", q>> \in raced'
              /\ x \in Inserting("settle", q)' /\ Settled(q) # {} => <<"settle", q>> \in raced'
    BY <1>6 DEF LateIsRaced
  <2>1. CASE x = c
    BY <1>4, <2>1
  <2>2. CASE x # c
    BY <1>2, <1>3, <2>2 DEF SellerInv, KeysPart, LateIsRaced
  <2>. QED BY <2>1, <2>2
<1>10. \A d \in Clients : sellerReq'[d] = sellerReq[d] \/ sellerReq'[d].op = op
  BY <1>1
<1>. QED BY <1>1, <1>2, <1>7, <1>8, <1>9, <1>10 DEF KeysPart

LEMMA LookupInv ==
  ASSUME SellerInv, NEW c \in Clients,
         \/ \E k \in Keys : FindOrder(c, k)
         \/ \E k \in Keys \cup {NoKey} : FindReturn(c, k)
         \/ \E k \in Keys, lines \in Statements : FindSettlement(c, k, lines)
  PROVE  SellerInv'
<1>1. BeginSeller /\ UNCHANGED <<stock, orders, returns, settlement, listing, moved, crossed>>
  BY DEF FindOrder, FindReturn, FindSettlement
<1>2. sellerServed' \in 0..MaxSeller
  BY <1>1, SellerAssumption DEF BeginSeller, SellerInv, SellerTypeOK
<1>3. CASE UNCHANGED <<sellerReq, raced>>
  <2>1. SellerTypeOK'
    BY <1>1, <1>2, <1>3 DEF SellerInv, SellerTypeOK
  <2>2. StockPart'
    BY <1>1, <1>3, StockFrame DEF SellerInv
  <2>3. KeysPart'
    BY <1>1, <1>3, KeysFrame DEF SellerInv
  <2>. QED BY <2>1, <2>2, <2>3 DEF SellerInv
<1>4. ASSUME NEW op \in {"order", "return", "settle"},
             NEW k \in Keys \cup {NoKey}, NEW hold \in SellerRequest, hold.op = op, hold.key = k,
             op = "settle" => k \in Keys,
             LookedUp(c, op, k, hold),
             op = "return" /\ k \in Keys => ~(returns[k] > 0),
             op = "settle" => Settled(k) = {}
      PROVE  SellerInv'
  <2>1. /\ sellerReq' \in [Clients -> SellerRequest]
        /\ raced' \subseteq {"order", "return", "settle"} \X Keys
        /\ \A d \in Clients : sellerReq'[d] = sellerReq[d] \/ sellerReq'[d].op = op
        /\ KeysPart'
    BY <1>1, <1>4, LookedUpKeeps
  <2>2. SellerTypeOK'
    BY <1>1, <1>2, <2>1 DEF SellerInv, SellerTypeOK
  <2>3. StockPart'
    BY <1>1, <1>4, <2>1, StockFrame DEF SellerInv
  <2>. QED BY <2>1, <2>2, <2>3 DEF SellerInv
<1>5. ASSUME NEW k \in Keys, FindOrder(c, k)
      PROVE  SellerInv'
  <2>. DEFINE hold == [op |-> "order", key |-> k]
  <2>1. hold \in SellerRequest /\ hold.op = "order" /\ hold.key = k
    BY DEF SellerRequest
  <2>2. UNCHANGED <<sellerReq, raced>> \/ LookedUp(c, "order", k, hold)
    BY <1>5 DEF FindOrder
  <2>. HIDE DEF hold
  <2>. QED BY <1>3, <1>4, <2>1, <2>2
<1>6. ASSUME NEW k \in Keys \cup {NoKey}, FindReturn(c, k)
      PROVE  SellerInv'
  <2>. DEFINE hold == [op |-> "return", key |-> k]
  <2>1. hold \in SellerRequest /\ hold.op = "return" /\ hold.key = k
    BY DEF SellerRequest
  <2>2. \/ UNCHANGED <<sellerReq, raced>>
        \/ ~ReturnIsThere(k) /\ LookedUp(c, "return", k, hold)
    BY <1>6 DEF FindReturn
  <2>3. ~ReturnIsThere(k) /\ k \in Keys => ~(returns[k] > 0)
    BY SellerAssumption DEF ReturnIsThere
  <2>. HIDE DEF hold
  <2>. QED BY <1>3, <1>4, <2>1, <2>2, <2>3
<1>7. ASSUME NEW k \in Keys, NEW lines \in Statements, FindSettlement(c, k, lines)
      PROVE  SellerInv'
  <2>. DEFINE hold == [op |-> "settle", key |-> k, lines |-> lines]
  <2>1. hold \in SellerRequest /\ hold.op = "settle" /\ hold.key = k
    BY SellerAssumption DEF SellerRequest
  <2>2. \/ UNCHANGED <<sellerReq, raced>>
        \/ Settled(k) = {} /\ LookedUp(c, "settle", k, hold)
    BY <1>7 DEF FindSettlement
  <2>. HIDE DEF hold
  <2>. QED BY <1>3, <1>4, <2>1, <2>2
<1>. QED BY <1>5, <1>6, <1>7

\* What a request that ends leaves behind.
LEMMA ReturnsIdle ==
  ASSUME SellerInv, NEW c \in Clients, SellerReturn(c)
  PROVE  /\ sellerReq' \in [Clients -> SellerRequest]
         /\ sellerServed' \in 0..MaxSeller
         /\ sellerReq'[c].op = "idle"
         /\ \A x \in Clients \ {c} : sellerReq'[x] = sellerReq[x]
BY IdleIsRequest, SlotType DEF SellerReturn, SellerInv, SellerTypeOK

LEMMA InsertOrderInv ==
  ASSUME SellerInv, NEW c \in Clients, InsertOrder(c)
  PROVE  SellerInv'
<1>. DEFINE k == sellerReq[c].key
<1>1. /\ sellerReq[c].op = "order" /\ OrderIsNew(k)
      /\ orders' = [orders EXCEPT ![k] = @ + 1]
      /\ SellerReturn(c)
      /\ UNCHANGED <<stock, returns, settlement, listing, moved, crossed, raced>>
  BY DEF InsertOrder
<1>2. /\ sellerReq' \in [Clients -> SellerRequest] /\ sellerServed' \in 0..MaxSeller
      /\ \A d \in Clients : \/ sellerReq'[d] = sellerReq[d]
                            \/ sellerReq'[d].op = "idle"
  BY <1>1, ReturnsIdle
<1>3. orders' \in [Keys -> Nat] /\ OneOrderPerKey'
  <2>1. orders \in [Keys -> Nat] /\ \A q \in Keys : orders[q] <= 1
    BY DEF SellerInv, SellerTypeOK, KeysPart, OneOrderPerKey
  <2>2. k \in Keys => orders[k] = 0
    BY <1>1 DEF OrderIsNew
  <2>3. \A q \in Keys : orders'[q] = IF q = k THEN orders[k] + 1 ELSE orders[q]
    BY <1>1, <2>1
  <2>4. \A q \in Keys : orders'[q] \in Nat /\ orders'[q] <= 1
    BY <2>1, <2>2, <2>3
  <2>5. orders' = [q \in Keys |-> IF q = k THEN orders[k] + 1 ELSE orders[q]]
    BY <1>1, <2>1
  <2>6. orders' \in [Keys -> Nat]
    BY <2>1, <2>5
  <2>. QED BY <2>4, <2>6 DEF OneOrderPerKey
<1>4. SellerTypeOK'
  BY <1>1, <1>2, <1>3 DEF SellerInv, SellerTypeOK
<1>5. StockPart'
  BY <1>1, <1>2, StockFrame DEF SellerInv
<1>6. \A q \in Keys, op \in {"return", "settle"} : Inserting(op, q)' \subseteq Inserting(op, q)
  BY <1>2 DEF Inserting
<1>7. \A q \in Keys : Settled(q)' = Settled(q)
  BY <1>1 DEF Settled
<1>8. TwiceOnlyWhenRaced' /\ MeetIsRaced' /\ LateIsRaced'
  BY <1>1, <1>6, <1>7 DEF SellerInv, KeysPart, TwiceOnlyWhenRaced, MeetIsRaced, LateIsRaced
<1>. QED BY <1>3, <1>4, <1>5, <1>8 DEF SellerInv, KeysPart

LEMMA InsertReturnInv ==
  ASSUME SellerInv, NEW c \in Clients, NEW k, k = sellerReq[c].key, InsertReturn(c)
  PROVE  SellerInv'
<1>1. /\ sellerReq[c].op = "return"
      /\ returns' = IF k = NoKey THEN returns ELSE [returns EXCEPT ![k] = @ + 1]
      /\ SellerReturn(c)
      /\ UNCHANGED <<stock, orders, settlement, listing, moved, crossed, raced>>
  BY DEF InsertReturn
<1>2. /\ sellerReq' \in [Clients -> SellerRequest] /\ sellerServed' \in 0..MaxSeller
      /\ sellerReq'[c].op = "idle"
      /\ \A d \in Clients \ {c} : sellerReq'[d] = sellerReq[d]
  BY <1>1, ReturnsIdle
<1>3. k \in Keys \cup {NoKey}
  BY <1>1, RequestShape DEF SellerInv, SellerTypeOK
<1>4. /\ returns' \in [Keys -> Nat]
      /\ \A q \in Keys : returns'[q] # returns[q] => q = k /\ returns'[q] = returns[q] + 1
  BY <1>1, <1>3 DEF SellerInv, SellerTypeOK
<1>5. SellerTypeOK'
  BY <1>1, <1>2, <1>4 DEF SellerInv, SellerTypeOK
<1>6. StockPart'
  BY <1>1, <1>2, StockFrame DEF SellerInv
<1>7. \A q \in Keys, op \in {"return", "settle"} :
        \A d \in Inserting(op, q)' : d # c /\ d \in Inserting(op, q)
  BY <1>2 DEF Inserting
<1>8. \A q \in Keys : Settled(q)' = Settled(q)
  BY <1>1 DEF Settled
<1>9. k \in Keys => c \in Inserting("return", k)
  BY <1>1 DEF Inserting
<1>10. OneOrderPerKey'
  BY <1>1 DEF SellerInv, KeysPart, OneOrderPerKey
<1>11. MeetIsRaced'
  BY <1>1, <1>7 DEF SellerInv, KeysPart, MeetIsRaced
<1>12. TwiceOnlyWhenRaced'
  <2>1. ASSUME NEW q \in Keys, returns'[q] > 1
        PROVE  <<"return", q>> \in raced
    <3>1. CASE returns'[q] = returns[q]
      BY <2>1, <3>1 DEF SellerInv, KeysPart, TwiceOnlyWhenRaced
    <3>2. CASE returns'[q] # returns[q]
      <4>1. q = k /\ returns[q] > 0
        BY <1>4, <2>1, <3>2 DEF SellerInv, SellerTypeOK
      <4>. QED BY <1>9, <4>1 DEF SellerInv, KeysPart, LateIsRaced
    <3>. QED BY <3>1, <3>2
  <2>. QED BY <1>1, <1>8, <2>1 DEF SellerInv, KeysPart, TwiceOnlyWhenRaced
<1>13. LateIsRaced'
  <2>1. ASSUME NEW q \in Keys, NEW d \in Inserting("return", q)', returns'[q] > 0
        PROVE  <<"return", q>> \in raced
    <3>0. d \in Clients /\ d # c /\ d \in Inserting("return", q)
      BY <1>7 DEF Inserting
    <3>1. CASE returns'[q] = returns[q]
      BY <2>1, <3>0, <3>1 DEF SellerInv, KeysPart, LateIsRaced
    <3>2. CASE returns'[q] # returns[q]
      <4>1. q = k
        BY <1>4, <3>2
      <4>. QED BY <1>9, <3>0, <4>1 DEF SellerInv, KeysPart, MeetIsRaced
    <3>. QED BY <3>1, <3>2
  <2>. QED BY <1>1, <1>7, <1>8, <2>1 DEF SellerInv, KeysPart, LateIsRaced
<1>. QED BY <1>5, <1>6, <1>10, <1>11, <1>12, <1>13 DEF SellerInv, KeysPart

\* The net profit of a statement is a number or unknown.
LEMMA NetOfType ==
  ASSUME NEW lines \in [Kinds -> Int \cup {Unknown}]
  PROVE  NetOf(lines) \in Int \cup {Unknown}
<1>1. CASE \E kind \in Kinds : lines[kind] = Unknown
  BY <1>1 DEF NetOf
<1>2. CASE \A kind \in Kinds : lines[kind] # Unknown
  <2>1. \A kind \in Kinds : lines[kind] \in Int
    BY <1>2
  <2>2. /\ lines["revenue"] \in Int /\ lines["cogs"] \in Int /\ lines["fees"] \in Int
        /\ lines["shipping"] \in Int /\ lines["refunds"] \in Int /\ lines["other"] \in Int
    BY <2>1 DEF Kinds
  <2>. QED BY <1>2, <2>2 DEF NetOf
<1>. QED BY <1>1, <1>2

LEMMA InsertSettlementInv ==
  ASSUME SellerInv, NEW c \in Clients, NEW s \in Settlements, NEW k, k = sellerReq[c].key,
         InsertSettlement(c, s)
  PROVE  SellerInv'
<1>. DEFINE r == sellerReq[c]
            new == [key |-> k, lines |-> r.lines, net |-> NetOf(r.lines)]
<1>1. /\ r.op = "settle" /\ settlement[s] = NoSettlement
      /\ settlement' = [settlement EXCEPT ![s] = new]
      /\ SellerReturn(c)
      /\ UNCHANGED <<stock, orders, returns, listing, moved, crossed, raced>>
  BY DEF InsertSettlement
<1>2. /\ sellerReq' \in [Clients -> SellerRequest] /\ sellerServed' \in 0..MaxSeller
      /\ sellerReq'[c].op = "idle"
      /\ \A d \in Clients \ {c} : sellerReq'[d] = sellerReq[d]
  BY <1>1, ReturnsIdle
<1>3. k \in Keys /\ r.lines \in [Kinds -> Int \cup {Unknown}]
  BY <1>1, RequestShape DEF SellerInv, SellerTypeOK
<1>4. new \in SettlementRow /\ new.key = k
  BY <1>3, NetOfType DEF SettlementRow
<1>. HIDE DEF new
<1>5. /\ settlement' \in [Settlements -> SettlementRow \cup {NoSettlement}]
      /\ settlement'[s] = new /\ \A t \in Settlements \ {s} : settlement'[t] = settlement[t]
  BY <1>1, <1>4 DEF SellerInv, SellerTypeOK
<1>6. SellerTypeOK'
  BY <1>1, <1>2, <1>5 DEF SellerInv, SellerTypeOK
<1>7. StockPart'
  BY <1>1, <1>2, StockFrame DEF SellerInv
<1>8. \A q \in Keys, op \in {"return", "settle"} :
        \A d \in Inserting(op, q)' : d # c /\ d \in Inserting(op, q)
  BY <1>2 DEF Inserting
<1>9. \A q \in Keys : Settled(q)' \subseteq Settled(q) \cup (IF q = k THEN {s} ELSE {})
  BY <1>4, <1>5 DEF Settled
<1>10. c \in Inserting("settle", k)
  BY <1>1 DEF Inserting
<1>11. OneOrderPerKey'
  BY <1>1 DEF SellerInv, KeysPart, OneOrderPerKey
<1>12. MeetIsRaced'
  BY <1>1, <1>8 DEF SellerInv, KeysPart, MeetIsRaced
<1>13. TwiceOnlyWhenRaced'
  <2>1. ASSUME NEW q \in Keys, NEW t \in Settled(q)', NEW u \in Settled(q)', t # u
        PROVE  <<"settle", q>> \in raced
    <3>1. CASE t \in Settled(q) /\ u \in Settled(q)
      BY <2>1, <3>1 DEF SellerInv, KeysPart, TwiceOnlyWhenRaced
    <3>2. CASE ~(t \in Settled(q) /\ u \in Settled(q))
      <4>1. q = k /\ Settled(q) # {}
        BY <1>9, <2>1, <3>2
      <4>. QED BY <1>10, <4>1 DEF SellerInv, SellerTypeOK, KeysPart, LateIsRaced, Inserting
    <3>. QED BY <3>1, <3>2
  <2>. QED BY <1>1, <2>1 DEF SellerInv, KeysPart, TwiceOnlyWhenRaced
<1>14. LateIsRaced'
  <2>1. ASSUME NEW q \in Keys, NEW d \in Inserting("settle", q)', Settled(q)' # {}
        PROVE  <<"settle", q>> \in raced
    <3>0. d \in Clients /\ d # c /\ d \in Inserting("settle", q)
      BY <1>8 DEF Inserting
    <3>1. CASE Settled(q) # {}
      BY <3>0, <3>1 DEF SellerInv, KeysPart, LateIsRaced
    <3>2. CASE Settled(q) = {}
      <4>1. q = k
        BY <1>9, <2>1, <3>2
      <4>. QED BY <1>10, <3>0, <4>1 DEF SellerInv, KeysPart, MeetIsRaced
    <3>. QED BY <3>1, <3>2
  <2>. QED BY <1>1, <1>8, <2>1 DEF SellerInv, KeysPart, LateIsRaced
<1>. QED BY <1>6, <1>7, <1>11, <1>12, <1>13, <1>14 DEF SellerInv, KeysPart

\* The steps about listings and the failures touch neither stock nor keys.
LEMMA OtherInv ==
  ASSUME SellerInv, NEW c \in Clients,
         \/ \E l \in Listings, valid \in BOOLEAN : InsertListing(c, l, valid)
         \/ InsertVersion(c)
         \/ \E l \in Listings, status \in StatusTexts : SetListingStatus(c, l, status)
         \/ SellerRequestFails(c)
  PROVE  SellerInv'
<1>. DEFINE Quiet == UNCHANGED <<stock, orders, returns, settlement, moved, crossed, raced>>
            Typed == /\ listing' \in [Listings -> ListingRow]
                     /\ sellerReq' \in [Clients -> SellerRequest]
                     /\ sellerServed' \in 0..MaxSeller
            Frame == \A d \in Clients : \/ sellerReq'[d] = sellerReq[d]
                                        \/ sellerReq'[d].op \in {"idle", "version"}
<1>1. ASSUME NEW l \in Listings, NEW valid \in BOOLEAN, InsertListing(c, l, valid)
      PROVE  Quiet /\ Typed /\ Frame
  <2>. DEFINE r == [op |-> "version", listing |-> l]
  <2>1. r \in SellerRequest /\ r.op = "version"
    BY DEF SellerRequest
  <2>2. sellerReq' = [sellerReq EXCEPT ![c] = r] /\ BeginSeller /\ Quiet
        /\ listing' = [listing EXCEPT ![l].status = IF valid THEN "pending_approval" ELSE "draft"]
    BY <1>1 DEF InsertListing
  <2>. HIDE DEF r
  <2>3. sellerReq' \in [Clients -> SellerRequest] /\ Frame
    BY <2>1, <2>2, SlotType DEF SellerInv
  <2>4. listing' \in [Listings -> ListingRow]
    BY <2>2 DEF SellerInv, SellerTypeOK, ListingRow, ListingStatuses
  <2>5. sellerServed' \in 0..MaxSeller
    BY <2>2, SellerAssumption DEF BeginSeller, SellerInv, SellerTypeOK
  <2>. QED BY <2>2, <2>3, <2>4, <2>5
<1>2. ASSUME InsertVersion(c)
      PROVE  Quiet /\ Typed /\ Frame
  <2>1. /\ sellerReq[c].op = "version" /\ SellerReturn(c) /\ Quiet
        /\ listing' = [listing EXCEPT ![sellerReq[c].listing].versions = @ + 1]
    BY <1>2 DEF InsertVersion
  <2>2. sellerReq[c].listing \in Listings
    BY <2>1, RequestShape DEF SellerInv, SellerTypeOK
  <2>3. listing' \in [Listings -> ListingRow]
    <3>. DEFINE l == sellerReq[c].listing
    <3>1. listing \in [Listings -> ListingRow] /\ l \in Listings
          /\ listing' = [listing EXCEPT ![l].versions = @ + 1]
      BY <2>1, <2>2 DEF SellerInv, SellerTypeOK
    <3>. HIDE DEF l
    <3>. QED BY <3>1 DEF ListingRow
  <2>. QED BY <2>1, <2>3, ReturnsIdle
<1>3. ASSUME NEW l \in Listings, NEW status \in StatusTexts, SetListingStatus(c, l, status)
      PROVE  Quiet /\ Typed /\ Frame
  <2>1. /\ status \in ListingStatuses /\ BeginSeller /\ Quiet /\ UNCHANGED sellerReq
        /\ listing' = [listing EXCEPT ![l].status = status]
    BY <1>3 DEF SetListingStatus, StatusAccepted
  <2>2. listing' \in [Listings -> ListingRow]
    BY <2>1 DEF SellerInv, SellerTypeOK, ListingRow
  <2>3. sellerServed' \in 0..MaxSeller
    BY <2>1, SellerAssumption DEF BeginSeller, SellerInv, SellerTypeOK
  <2>. QED BY <2>1, <2>2, <2>3 DEF SellerInv, SellerTypeOK
<1>4. ASSUME SellerRequestFails(c)
      PROVE  Quiet /\ Typed /\ Frame
  <2>1. SellerReturn(c) /\ Quiet /\ UNCHANGED listing
    BY <1>4 DEF SellerRequestFails
  <2>. QED BY <2>1, ReturnsIdle DEF SellerInv, SellerTypeOK
<1>5. Quiet /\ Typed /\ Frame
  BY <1>1, <1>2, <1>3, <1>4
<1>6. SellerTypeOK'
  BY <1>5 DEF SellerInv, SellerTypeOK
<1>7. StockPart'
  BY <1>5, StockFrame DEF SellerInv
<1>8. KeysPart'
  BY <1>5, KeysFrame DEF SellerInv
<1>. QED BY <1>6, <1>7, <1>8 DEF SellerInv

LEMMA SellerStepInv ==
  ASSUME SellerInv, [SellerNext]_sellerVars
  PROVE  SellerInv'
<1>1. ASSUME NEW c \in Clients, SellerStep(c)
      PROVE  SellerInv'
  <2>1. CASE SaveStock(c)
    <3>1. sellerReq[c].sku \in Skus
      BY <2>1, RequestShape DEF SaveStock, SellerInv, SellerTypeOK
    <3>. QED BY <2>1, <3>1, SaveStockInv
  <2>2. CASE \E s \in Skus, d \in Movements : ReadStock(c, s, d)
    BY <2>2, ReadStockInv
  <2>3. CASE FindStockRow(c)
    BY <2>3, FindStockRowInv
  <2>4. CASE InsertOrder(c)
    BY <2>4, InsertOrderInv
  <2>5. CASE InsertReturn(c)
    BY <2>5, InsertReturnInv
  <2>6. CASE \E s \in Settlements : InsertSettlement(c, s)
    BY <2>6, InsertSettlementInv
  <2>. QED BY <1>1, <2>1, <2>2, <2>3, <2>4, <2>5, <2>6, LookupInv, OtherInv DEF SellerStep
<1>2. CASE UNCHANGED sellerVars
  <2>1. UNCHANGED <<stock, orders, returns, settlement, listing, sellerReq, moved, crossed, raced,
                    sellerServed>>
    BY <1>2 DEF sellerVars
  <2>2. SellerTypeOK'
    BY <2>1 DEF SellerInv, SellerTypeOK
  <2>. QED BY <2>1, <2>2, StockFrame, KeysFrame DEF SellerInv
<1>. QED BY <1>1, <1>2 DEF SellerNext

\* The inductive invariant holds of the ledger.
THEOREM SellerInvariant == SellerSpec => []SellerInv
<1>1. SellerInit => SellerInv
  BY SellerInitInv
<1>2. SellerInv /\ [SellerNext]_sellerVars => SellerInv'
  BY SellerStepInv
<1>. QED BY <1>1, <1>2, PTL DEF SellerSpec

\* "available can never go negative" (seller-domain.ts:274-278), nor reserved
\* nor sold: every row was checked when it was computed, whoever wrote between.
THEOREM NoNegativeStock == SellerSpec => []StockNeverNegative
<1>1. SellerInv => StockNeverNegative
  BY DEF SellerInv, StockPart
<1>. QED BY <1>1, SellerInvariant, PTL

\* A movement is lost only where two were in progress on a sku at a time.
THEOREM NoMovementLostAlone == SellerSpec => []StockExactUnlessCrossed
<1>1. SellerInv => StockExactUnlessCrossed
  BY DEF SellerInv, StockPart
<1>. QED BY <1>1, SellerInvariant, PTL

\* A replayed or racing order import makes no second order.
THEOREM OneOrderEach == SellerSpec => []OneOrderPerKey
<1>1. SellerInv => OneOrderPerKey
  BY DEF SellerInv, KeysPart
<1>. QED BY <1>1, SellerInvariant, PTL

\* A replayed return or settlement is booked twice only if it met itself.
THEOREM NoReplayWithoutRace == SellerSpec => []TwiceOnlyWhenRaced
<1>1. SellerInv => TwiceOnlyWhenRaced
  BY DEF SellerInv, KeysPart
<1>. QED BY <1>1, SellerInvariant, PTL
=============================================================================
