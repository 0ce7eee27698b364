--------------------------- MODULE CommerceReports ---------------------------
(***************************************************************************)
(* The ledgers of the API process side by side, and the reports read from  *)
(* them (analytics/analytics.service.ts,                                   *)
(* campaign-analytics/campaign-analytics.service.ts). A report is several  *)
(* queries, each a snapshot of its own: those of a Promise.all are         *)
(* answered in any order, and rows change between them. Reports only read: *)
(* one is followed at a time. They are taken over all time.                *)
(***************************************************************************)
EXTENDS RevenueLedger, SellerLedger, ContentAssets, FiniteSetsExt

CONSTANTS Views,        \* the reports asked for
          NoReport,
          MaxReports,   \* bound: reports begun
          MaxRequests   \* bound: requests begun, of all components

Reports == {"affiliate", "campaign", "seller", "channels", "campaigns", "outcomes"}

ASSUME ReportsAssumption ==
  /\ Views \subseteq Reports
  /\ NoReport \notin Reports
  /\ MaxReports \in Nat /\ MaxRequests \in Nat

\* Identifiers are strings of bounded length, and a row recorded earlier names
\* a link that is there (the foreign key).
ASSUME RowsAssumption ==
  /\ \A ids \in {Events, Links, Assets, Settlements} : IsFiniteSet(ids)
  /\ \A e \in DOMAIN Recorded : Recorded[e] \in Published \cup {NoLink}

VARIABLES reading,      \* the report being collected, with the answers so far
          quiet,        \* history: no row has changed since it began
          shown,        \* history: what the report answered in the last step was made of
          reportServed  \* reports begun

reportVars == <<reading, quiet, shown, reportServed>>
ledgerVars == <<event, profit, stock, orders, returns, settlement, listing, link, clicks, asset,
                approved>>
vars == <<revenueVars, sellerVars, linkVars, contentVars, reportVars>>

NoAnswers == [view |-> NoReport, got |-> <<>>]

NothingShown == [report |-> NoAnswers, quiet |-> TRUE]

ReportsInit ==
  /\ reading = NoAnswers
  /\ quiet = TRUE
  /\ shown = NothingShown
  /\ reportServed = 0

-----------------------------------------------------------------------------
Null == Unknown   \* SQL's NULL: the SUM over no rows

Reconciled == {e \in Events : event[e].status = "reconciled"}
Booked == {e \in Events : profit[e] # NoProfit}
Rows == {s \in Settlements : settlement[s] # NoSettlement}

SumOf(f) == MapThenSumSet(LAMBDA x : f[x], DOMAIN f)

SumOrNull(f) == IF DOMAIN f = {} THEN Null ELSE SumOf(f)

\* (fault) Every event counts as revenue, decided or not.
AllEvents == {e \in Events : Exists(e)}

\* The events a figure of revenue or conversions is made of.
Counted == Reconciled

\* The answer of each query.
Answer(q) ==
  CASE q = "clicks" -> clicks
    [] q = "revenueSum" -> SumOrNull([e \in Counted |-> event[e].value])
    [] q = "campaignRevenue" -> SumOrNull([e \in Counted |-> event[e].value])
    [] q = "conversions" -> Cardinality(Counted)
    [] q = "profits" -> [e \in Booked |-> NetProfit(profit[e])]
    [] q = "assets" -> Cardinality({a \in Assets : AssetLive(a)})
    [] q = "published" -> Cardinality({a \in Assets : AssetLive(a) /\ asset[a].published})
    [] q = "orders" -> SumOf(orders)
    [] q = "settlements" -> [s \in Rows |-> settlement[s]]
    [] q = "cogsSum" -> SumOrNull([s \in {t \in Rows : settlement[t].lines["cogs"] # Unknown}
                                     |-> settlement[s].lines["cogs"]])
    [] q = "cogsCount" -> Cardinality(Rows)  \* each settlement has a cogs line, stated or NULL
    [] q = "links" -> [l \in {k \in Links : Live(k)} |-> link[l].campaign]
    [] q = "linksCounted" ->
         [l \in {k \in Links : Live(k)} |-> [campaign |-> link[l].campaign, clicks |-> clicks[l]]]
    [] q = "events" -> [e \in Counted |-> [link |-> event[e].link, value |-> event[e].value]]

Queries(view) ==
  CASE view = "affiliate" -> {"clicks", "revenueSum", "conversions", "profits"}
    [] view = "campaign" -> {"assets", "published", "revenueSum", "campaignRevenue"}
    [] view = "seller" -> {"settlements", "orders", "cogsSum", "cogsCount"}
    [] view \in {"channels", "campaigns"} -> {"links", "clicks", "events"}
    [] view = "outcomes" -> {"linksCounted", "events", "profits"}

\* channels and campaigns ask one query after the other.
Awaits(view, q) ==
  CASE view = "channels" /\ q = "clicks" -> {"links"}
    [] view = "channels" /\ q = "events" -> {"links", "clicks"}
    [] view = "campaigns" /\ q = "events" -> {"links"}
    [] view = "campaigns" /\ q = "clicks" -> {"links", "events"}
    [] OTHER -> {}

BeginReport(view) ==
  /\ reading = NoAnswers
  /\ reportServed < MaxReports
  /\ reading' = [NoAnswers EXCEPT !.view = view]
  /\ quiet' = TRUE
  /\ reportServed' = reportServed + 1
  /\ shown' = NothingShown

\* A query is answered. With the last of them the report is.
AnswerQuery(q) ==
  LET got == [x \in DOMAIN reading.got \cup {q} |-> IF x = q THEN Answer(q) ELSE reading.got[x]]
      full == [reading EXCEPT !.got = got] IN
  /\ reading # NoAnswers
  /\ q \in Queries(reading.view) \ DOMAIN reading.got
  /\ Awaits(reading.view, q) \subseteq DOMAIN reading.got
  /\ IF DOMAIN got = Queries(reading.view)
     THEN /\ reading' = NoAnswers
          /\ quiet' = TRUE
          /\ shown' = [report |-> full, quiet |-> quiet]
     ELSE /\ reading' = full
          /\ shown' = NothingShown
          /\ UNCHANGED quiet
  /\ UNCHANGED reportServed

ReportStep ==
  \/ \E view \in Views : BeginReport(view)
  \/ \E q \in UNION {Queries(view) : view \in Views} : AnswerQuery(q)

\* What a report being collected sees of a ledger's step.
Disturb ==
  /\ quiet' = (quiet /\ (reading = NoAnswers \/ UNCHANGED ledgerVars))
  /\ shown' = NothingShown
  /\ UNCHANGED <<reading, reportServed>>

-----------------------------------------------------------------------------
Init == RevenueInit /\ SellerInit /\ LinksInit /\ ContentInit /\ ReportsInit

\* The foreign key of a revenue event to its link, and what removing a link
\* does to the events and assets that name it.
LinkRemovedFor(gone) ==
  /\ IF gone = {} THEN UNCHANGED revenueVars ELSE \E l \in gone : UnlinkEvents(l)
  /\ CascadeToAssets(gone)

NamesLiveLinks == \A e \in Events : event'[e].link # event[e].link =>
                    event'[e].link = NoLink \/ Live(event'[e].link)

Served == <<revServed, sellerServed, linkServed, contentServed, reportServed>>

Next ==
  /\ IF revServed + sellerServed + linkServed + contentServed + reportServed < MaxRequests
     THEN TRUE ELSE UNCHANGED Served
  /\ \/ /\ \E c \in Clients : RevenueStep(c) /\ NamesLiveLinks
        /\ UNCHANGED <<sellerVars, linkVars, contentVars>> /\ Disturb
     \/ SellerNext /\ UNCHANGED <<revenueVars, linkVars, contentVars>> /\ Disturb
     \/ LinksNext /\ LinkRemovedFor(GoneLinks) /\ UNCHANGED sellerVars /\ Disturb
     \/ /\ \E c \in Clients : ContentStep(c)
        /\ UNCHANGED <<revenueVars, sellerVars, linkVars>> /\ Disturb
     \/ ReportStep /\ UNCHANGED <<revenueVars, sellerVars, linkVars, contentVars>>

Spec == Init /\ [][Next]_vars

CommerceTypeOK == RevenueTypeOK /\ SellerTypeOK /\ LinksTypeOK /\ ContentTypeOK
===============================================================================
