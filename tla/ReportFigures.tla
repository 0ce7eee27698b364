---------------------------- MODULE ReportFigures ----------------------------
(***************************************************************************)
(* What a report makes of the answers it has collected: the figures of     *)
(* analytics/analytics.service.ts and the rows of                          *)
(* campaign-analytics/campaign-analytics.service.ts. No marketplace has a  *)
(* verified connection: isLive answers false (marketplace-adapter.ts:145). *)
(***************************************************************************)
EXTENDS CommerceReports

\* MetricValue: a value, or null with the reason there is none.
Known(v) == [value |-> v, evidence |-> "known"]

NotKnown == [value |-> Unknown, evidence |-> "unknown"]

Measured(v) == IF v = Unknown THEN NotKnown ELSE Known(v)

IsKnown(figure) == figure.evidence = "known"

\* A count of seller rows: with no transport, no row is no measured zero.
RowsCounted(n) == IF n > 0 THEN Known(n) ELSE [value |-> 0, evidence |-> "not_connected"]

\* The share of n in d in hundredths of a percent, as Math.round leaves it.
Rate(n, d) == (20000 * n + d) \div (2 * d)

AffiliateFigures(got) ==
  LET visits == SumOf(got["clicks"])  sales == got["conversions"] IN
  [clicks |-> Known(visits),
   conversions |-> IF sales > 0 THEN Known(sales) ELSE NotKnown,
   commission |-> Measured(got["revenueSum"]),
   profit |-> Measured(SumOrNull(got["profits"])),
   conversionRate |-> IF visits > 0 /\ sales > 0 THEN Known(Rate(sales, visits)) ELSE NotKnown]

CampaignFigures(got) ==
  [assets |-> Known(got["assets"]),
   published |-> Known(got["published"]),
   revenue |-> Measured(got["campaignRevenue"])]

-----------------------------------------------------------------------------
\* allStated and totalOf: a total is known when every settlement of the same
\* answer states the component; without a settlement it is not.
AllStated(amounts) == DOMAIN amounts # {} /\ \A s \in DOMAIN amounts : amounts[s] # Unknown

TotalOf(amounts) == IF AllStated(amounts) THEN Known(SumOf(amounts)) ELSE NotKnown

LinesOf(rows, kind) == [s \in DOMAIN rows |-> rows[s].lines[kind]]

\* The figure of the cost of goods has queries of its own.
CogsTotal(got) ==
  IF got["cogsSum"] = Null \/ got["cogsCount"] < Cardinality(DOMAIN got["settlements"])
  THEN NotKnown ELSE Known(got["cogsSum"])

SellerFigures(got) ==
  LET rows == got["settlements"] IN
  [orders |-> RowsCounted(got["orders"]),
   settlements |-> RowsCounted(Cardinality(DOMAIN rows)),
   gmv |-> TotalOf(LinesOf(rows, "revenue")),
   fees |-> TotalOf(LinesOf(rows, "fees")),
   refunds |-> TotalOf(LinesOf(rows, "refunds")),
   cogs |-> CogsTotal(got),
   profit |-> TotalOf([s \in DOMAIN rows |-> rows[s].net])]

-----------------------------------------------------------------------------
\* The commission of some links: that of the events that name them, unknown if none does.
CommissionOf(got, links) ==
  Measured(SumOrNull([e \in {f \in DOMAIN got["events"] : got["events"][f].link \in links}
                        |-> got["events"][e].value]))

ClicksOf(got, links) == Known(SumOf([l \in links |-> got["clicks"][l]]))

\* channels: the links of a channel make a row.
ChannelRows(got) ==
  LET of(channel) == {l \in DOMAIN got["links"] : got["links"][l] = channel} IN
  [channel \in {got["links"][l] : l \in DOMAIN got["links"]} |->
     [clicks |-> ClicksOf(got, of(channel)), commission |-> CommissionOf(got, of(channel))]]

\* campaigns: a link is a row.
CampaignRows(got) ==
  [l \in DOMAIN got["links"] |->
     [clicks |-> ClicksOf(got, {l}), commission |-> CommissionOf(got, {l})]]

-----------------------------------------------------------------------------
\* The campaign an event is attributed to, from the links the report has read.
NoCampaign == NoLink

CampaignOf(got, e) ==
  LET l == got["events"][e].link IN
  IF l \in DOMAIN got["linksCounted"] THEN got["linksCounted"][l].campaign ELSE NoCampaign

\* The profit of an event that was not read as reconciled is "uncategorized".
ProfitCampaign(got, e) == IF e \in DOMAIN got["events"] THEN CampaignOf(got, e) ELSE NoCampaign

Labels(got) == {got["linksCounted"][l].campaign : l \in DOMAIN got["linksCounted"]}
               \cup {CampaignOf(got, e) : e \in DOMAIN got["events"]}
               \cup {ProfitCampaign(got, e) : e \in DOMAIN got["profits"]}

\* overview of campaign-analytics: a row per campaign, and the totals of the rows.
Buckets(got) ==
  [label \in Labels(got) |->
     LET mine == {e \in DOMAIN got["events"] : CampaignOf(got, e) = label}
         links == {l \in DOMAIN got["linksCounted"] : got["linksCounted"][l].campaign = label}
         booked == {e \in DOMAIN got["profits"] : ProfitCampaign(got, e) = label} IN
     [links |-> Cardinality(links),
      clicks |-> SumOf([l \in links |-> got["linksCounted"][l].clicks]),
      conversions |-> Cardinality(mine),
      revenue |-> SumOf([e \in mine |-> got["events"][e].value]),
      profit |-> SumOf([e \in booked |-> got["profits"][e]])]]

Totals(rows) ==
  LET of(field) == SumOf([label \in DOMAIN rows |-> rows[label][field]]) IN
  [field \in {"clicks", "conversions", "revenue", "profit"} |-> of(field)]

-----------------------------------------------------------------------------
\* Revenue, conversions and profit tell one story: known together, and as many
\* profit records as conversions, unless two decisions on an event overlapped.
AffiliateIsBacked(got) ==
  LET f == AffiliateFigures(got) IN
  /\ IsKnown(f.commission) <=> IsKnown(f.conversions)
  /\ overlapped = {} => Cardinality(DOMAIN got["profits"]) = got["conversions"]

\* The two revenue figures of the overview agree ("so the two can never
\* disagree", analytics.service.ts:179-180).
CampaignIsBacked(got) ==
  LET f == CampaignFigures(got) IN
  /\ f.revenue = Measured(got["revenueSum"])
  /\ f.published.value <= f.assets.value

\* A seller's net profit is what its components come to, all of them known.
SellerIsBacked(got) ==
  LET f == SellerFigures(got)  of(kind) == TotalOf(LinesOf(got["settlements"], kind)) IN
  IsKnown(f.profit) =>
    /\ \A kind \in Kinds : IsKnown(of(kind))
    /\ f.cogs = of("cogs")
    /\ f.profit.value = NetOf([kind \in Kinds |-> of(kind).value])

\* No commission and no click drops out of a breakdown because it names a link
\* that is not there.
BreakdownIsWhole(got, rows) ==
  LET sum(field) == SumOf([r \in {x \in DOMAIN rows : IsKnown(rows[x][field])} |-> rows[r][field].value])
      named == {e \in DOMAIN got["events"] : got["events"][e].link # NoLink} IN
  /\ sum("commission") = SumOf([e \in named |-> got["events"][e].value])
  /\ sum("clicks") = SumOf(got["clicks"])

\* Of the outcomes nothing is lost or counted twice, and a campaign has profit
\* only from revenue of its own, unless two decisions on an event overlapped.
OutcomesAreWhole(got) ==
  LET rows == Buckets(got)  totals == Totals(rows) IN
  /\ totals["conversions"] = Cardinality(DOMAIN got["events"])
  /\ totals["profit"] = SumOf(got["profits"])
  /\ overlapped = {} => \A label \in DOMAIN rows : rows[label].profit # 0 => rows[label].revenue > 0
  /\ \A e \in DOMAIN got["events"] : got["events"][e].link \in DOMAIN got["linksCounted"] \cup {NoLink}

\* "Money ... only from reconciled evidence": the figures of a report no write
\* has crossed are backed by the ledgers and by each other.
ReportIsBacked ==
  LET view == shown.report.view  got == shown.report.got IN
  shown.quiet =>
    CASE view = "affiliate" -> AffiliateIsBacked(got)
      [] view = "campaign" -> CampaignIsBacked(got)
      [] view = "seller" -> SellerIsBacked(got)
      [] view = "channels" -> BreakdownIsWhole(got, ChannelRows(got))
      [] view = "campaigns" -> BreakdownIsWhole(got, CampaignRows(got))
      [] view = "outcomes" -> OutcomesAreWhole(got)
      [] OTHER -> TRUE

\* "A total is only real when EVERY settlement in the window stated a cogs
\* line; a settlement that omitted it leaves the total UNKNOWN"
\* (analytics.service.ts:329-332).
CogsTotalIsWhole ==
  LET got == shown.report.got IN
  shown.report.view = "seller" /\ shown.quiet /\ IsKnown(CogsTotal(got)) =>
    AllStated(LinesOf(got["settlements"], "cogs"))
===============================================================================
