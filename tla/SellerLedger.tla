----------------------------- MODULE SellerLedger -----------------------------
(***************************************************************************)
(* Stock, orders, returns, settlements and listing drafts of a seller      *)
(* (seller/seller.service.ts, seller/seller-domain.ts). Orders, returns    *)
(* and settlements look their external key up before they insert, but only *)
(* orders have a unique index behind the lookup. A stock movement is two   *)
(* reads and a write with no transaction around them.                      *)
(***************************************************************************)
EXTENDS ApiRequests, Integers, Sequences, FiniteSets

CONSTANTS Skus,
          Movements,     \* stock deltas: [available, reserved, sold]
          Keys, NoKey,   \* pairs (platform, externalId), or no externalId
          Settlements,   \* identifiers of seller_settlements rows
          Statements,    \* what a settlement states: an amount or Unknown per kind
          Unknown,
          Listings,      \* identifiers of seller_listings rows
          NoSettlement,  \* an absent settlement
          StatusTexts,   \* bound: the listing statuses asked for
          MaxSeller      \* bound: requests begun

Kinds == {"revenue", "cogs", "fees", "shipping", "refunds", "other"}

Quantities == [available : Int, reserved : Int, sold : Int]

ASSUME SellerAssumption ==
  /\ Movements \subseteq Quantities
  /\ NoKey \notin Keys
  /\ Unknown \notin Int
  /\ Statements \subseteq [Kinds -> Int \cup {Unknown}]
  /\ \A s \in Statements : s["revenue"] # Unknown   \* requireVerifiedMoney
  /\ MaxSeller \in Nat

VARIABLES stock,       \* seller_inventories rows of a sku, oldest first
          orders,      \* seller_orders rows, counted by key
          returns,     \* seller_returns rows, counted by key
          settlement,  \* seller_settlements with their lines
          listing,     \* seller_listings and their number of versions
          sellerReq,   \* what each request holds between two statements
          moved,       \* history: the sum of the movements answered as applied
          crossed,     \* history: skus two movements were in progress on at a time
          raced,       \* history: (table, key) two requests were between lookup and insert of
          sellerServed \* requests begun

sellerVars == <<stock, orders, returns, settlement, listing, sellerReq, moved, crossed, raced,
                sellerServed>>

SettlementRow == [key : Keys, lines : [Kinds -> Int \cup {Unknown}], net : Int \cup {Unknown}]

ListingStatuses == {"draft", "pending_approval", "live", "error", "inactive"}

ListingRow == [status : {"absent"} \cup ListingStatuses, versions : Nat]

Idle == [op |-> "idle"]

SellerRequest ==
  {Idle}
  \cup [op : {"find"}, sku : Skus, next : Quantities, delta : Quantities]
  \cup [op : {"save"}, sku : Skus, next : Quantities, delta : Quantities, row : Nat]
  \cup [op : {"order", "return"}, key : Keys \cup {NoKey}]
  \cup [op : {"settle"}, key : Keys, lines : [Kinds -> Int \cup {Unknown}]]
  \cup [op : {"version"}, listing : Listings]

SellerTypeOK ==
  /\ stock \in [Skus -> Seq(Quantities)]
  /\ orders \in [Keys -> Nat]
  /\ returns \in [Keys -> Nat]
  /\ settlement \in [Settlements -> SettlementRow \cup {NoSettlement}]
  /\ listing \in [Listings -> ListingRow]
  /\ sellerReq \in [Clients -> SellerRequest]
  /\ moved \in [Skus -> Quantities]
  /\ crossed \subseteq Skus
  /\ raced \subseteq {"order", "return", "settle"} \X Keys
  /\ sellerServed \in 0..MaxSeller

Zero == [available |-> 0, reserved |-> 0, sold |-> 0]

SellerInit ==
  /\ stock = [s \in Skus |-> <<>>]
  /\ orders = [k \in Keys |-> 0]
  /\ returns = [k \in Keys |-> 0]
  /\ settlement = [s \in Settlements |-> NoSettlement]
  /\ listing = [l \in Listings |-> [status |-> "absent", versions |-> 0]]
  /\ sellerReq = [c \in Clients |-> Idle]
  /\ moved = [s \in Skus |-> Zero]
  /\ crossed = {}
  /\ raced = {}
  /\ sellerServed = 0

-----------------------------------------------------------------------------
BeginSeller == sellerServed < MaxSeller /\ sellerServed' = sellerServed + 1

SellerReturn(c) == sellerReq' = [sellerReq EXCEPT ![c] = Idle] /\ UNCHANGED sellerServed

Plus(q, d) == [available |-> q.available + d.available, reserved |-> q.reserved + d.reserved,
               sold |-> q.sold + d.sold]

\* inventorySnapshot: the newest row, zero where there is none.
Snapshot(sku) == IF stock[sku] = <<>> THEN Zero ELSE stock[sku][Len(stock[sku])]

\* applyInventoryAdjustment refuses to take a quantity below zero.
Allowed(q) == q.available >= 0 /\ q.reserved >= 0 /\ q.sold >= 0

OnSku(s) == {c \in Clients : sellerReq[c].op \in {"find", "save"} /\ sellerReq[c].sku = s}

\* adjustInventory: the snapshot and what the movement makes of it. A refused
\* movement changes nothing.
ReadStock(c, s, d) ==
  /\ sellerReq[c] = Idle
  /\ BeginSeller
  /\ LET next == Plus(Snapshot(s), d) IN
       /\ Allowed(next)
       /\ sellerReq' = [sellerReq EXCEPT ![c] = [op |-> "find", sku |-> s, next |-> next, delta |-> d]]
  /\ crossed' = IF OnSku(s) = {} THEN crossed ELSE crossed \cup {s}
  /\ UNCHANGED <<stock, orders, returns, settlement, listing, moved, raced>>

\* adjustInventory: the row to write, 0 for a new one.
FindStockRow(c) ==
  /\ sellerReq[c].op = "find"
  /\ sellerReq' = [sellerReq EXCEPT ![c] = [op |-> "save", sku |-> @.sku, next |-> @.next,
                                            delta |-> @.delta, row |-> Len(stock[@.sku])]]
  /\ UNCHANGED <<stock, orders, returns, settlement, listing, moved, crossed, raced, sellerServed>>

\* (fault) Two columns are swapped on the way to the row.
Swapped(r) == [r.next EXCEPT !.available = r.next.reserved, !.reserved = r.next.available]

\* What is written: the absolute numbers computed from the first read.
ToWrite(r) == r.next

\* adjustInventory: the update by id, or the insert.
SaveStock(c) ==
  /\ sellerReq[c].op = "save"
  /\ LET r == sellerReq[c] IN
       /\ stock' = [stock EXCEPT ![r.sku] = IF r.row = 0 THEN Append(@, ToWrite(r))
                                            ELSE [@ EXCEPT ![r.row] = ToWrite(r)]]
       /\ moved' = [moved EXCEPT ![r.sku] = Plus(@, r.delta)]
  /\ SellerReturn(c)
  /\ UNCHANGED <<orders, returns, settlement, listing, crossed, raced>>

-----------------------------------------------------------------------------
\* The requests between the lookup of a key and its insert, per table.
Inserting(op, k) == {c \in Clients : sellerReq[c].op = op /\ sellerReq[c].key = k}

\* A request has looked the key up, found nothing and goes on to insert.
LookedUp(c, op, k, hold) ==
  /\ sellerReq' = [sellerReq EXCEPT ![c] = hold]
  /\ raced' = IF k # NoKey /\ Inserting(op, k) # {} THEN raced \cup {<<op, k>>} ELSE raced

\* ingestOrder: the lookup. An order already ingested is the answer.
FindOrder(c, k) ==
  /\ sellerReq[c] = Idle
  /\ BeginSeller
  /\ IF orders[k] > 0 THEN UNCHANGED <<sellerReq, raced>>
     ELSE LookedUp(c, "order", k, [op |-> "order", key |-> k])
  /\ UNCHANGED <<stock, orders, returns, settlement, listing, moved, crossed>>

\* seller_orders is unique on (platform, externalId).
OrderIsNew(k) == orders[k] = 0

\* ingestOrder: order, items and audit row in one transaction.
InsertOrder(c) ==
  /\ sellerReq[c].op = "order"
  /\ OrderIsNew(sellerReq[c].key)
  /\ orders' = [orders EXCEPT ![sellerReq[c].key] = @ + 1]
  /\ SellerReturn(c)
  /\ UNCHANGED <<stock, returns, settlement, listing, moved, crossed, raced>>

\* (fault) The lookup of a return is left out.
NotLookedUp(k) == FALSE

\* The return is already there.
ReturnIsThere(k) == k # NoKey /\ returns[k] > 0

\* recordReturn: the lookup, for a return that carries a key.
FindReturn(c, k) ==
  /\ sellerReq[c] = Idle
  /\ BeginSeller
  /\ IF ReturnIsThere(k) THEN UNCHANGED <<sellerReq, raced>>
     ELSE LookedUp(c, "return", k, [op |-> "return", key |-> k])
  /\ UNCHANGED <<stock, orders, returns, settlement, listing, moved, crossed>>

\* recordReturn: the insert; no index refuses a second row of a key.
InsertReturn(c) ==
  /\ sellerReq[c].op = "return"
  /\ LET k == sellerReq[c].key IN
       returns' = IF k = NoKey THEN returns ELSE [returns EXCEPT ![k] = @ + 1]
  /\ SellerReturn(c)
  /\ UNCHANGED <<stock, orders, settlement, listing, moved, crossed, raced>>

Settled(k) == {s \in Settlements : settlement[s] # NoSettlement /\ settlement[s].key = k}

\* recordSettlement: the lookup, outside the transaction.
FindSettlement(c, k, lines) ==
  /\ sellerReq[c] = Idle
  /\ BeginSeller
  /\ IF Settled(k) # {} THEN UNCHANGED <<sellerReq, raced>>
     ELSE LookedUp(c, "settle", k, [op |-> "settle", key |-> k, lines |-> lines])
  /\ UNCHANGED <<stock, orders, returns, settlement, listing, moved, crossed>>

\* calculateNetProfit: one unknown component leaves the profit unknown.
NetOf(lines) ==
  IF \E kind \in Kinds : lines[kind] = Unknown THEN Unknown
  ELSE lines["revenue"] - lines["cogs"] - lines["fees"] - lines["shipping"]
       - lines["refunds"] - lines["other"]

\* recordSettlement: the row, a line per kind (NULL where nothing was stated)
\* and the audit row in one transaction; no index refuses a second row.
InsertSettlement(c, s) ==
  /\ sellerReq[c].op = "settle"
  /\ settlement[s] = NoSettlement
  /\ LET r == sellerReq[c] IN
       settlement' = [settlement EXCEPT ![s] =
                        [key |-> r.key, lines |-> r.lines, net |-> NetOf(r.lines)]]
  /\ SellerReturn(c)
  /\ UNCHANGED <<stock, orders, returns, listing, moved, crossed, raced>>

-----------------------------------------------------------------------------
\* createListingDraft: the listing, pending approval if the draft is valid.
InsertListing(c, l, valid) ==
  /\ sellerReq[c] = Idle
  /\ BeginSeller
  /\ listing[l].status = "absent"
  /\ listing' = [listing EXCEPT ![l].status = IF valid THEN "pending_approval" ELSE "draft"]
  /\ sellerReq' = [sellerReq EXCEPT ![c] = [op |-> "version", listing |-> l]]
  /\ UNCHANGED <<stock, orders, returns, settlement, moved, crossed, raced>>

\* createListingDraft: the next version, a write of its own.
InsertVersion(c) ==
  /\ sellerReq[c].op = "version"
  /\ listing' = [listing EXCEPT ![sellerReq[c].listing].versions = @ + 1]
  /\ SellerReturn(c)
  /\ UNCHANGED <<stock, orders, returns, settlement, moved, crossed, raced>>

\* (fault) The status is taken as it was sent.
AnyText(status) == TRUE

StatusAccepted(status) == status \in ListingStatuses

\* updateListingStatus: any status of the list replaces any other.
SetListingStatus(c, l, status) ==
  /\ sellerReq[c] = Idle
  /\ BeginSeller
  /\ listing[l].status # "absent"
  /\ StatusAccepted(status)
  /\ listing' = [listing EXCEPT ![l].status = status]
  /\ UNCHANGED <<stock, orders, returns, settlement, sellerReq, moved, crossed, raced>>

\* A statement fails, an index refuses the row or the process dies.
SellerRequestFails(c) ==
  /\ sellerReq[c] # Idle
  /\ SellerReturn(c)
  /\ UNCHANGED <<stock, orders, returns, settlement, listing, moved, crossed, raced>>

SellerStep(c) ==
  \/ \E s \in Skus, d \in Movements : ReadStock(c, s, d)
  \/ FindStockRow(c)
  \/ SaveStock(c)
  \/ \E k \in Keys : FindOrder(c, k)
  \/ InsertOrder(c)
  \/ \E k \in Keys \cup {NoKey} : FindReturn(c, k)
  \/ InsertReturn(c)
  \/ \E k \in Keys, lines \in Statements : FindSettlement(c, k, lines)
  \/ \E s \in Settlements : InsertSettlement(c, s)
  \/ \E l \in Listings, valid \in BOOLEAN : InsertListing(c, l, valid)
  \/ InsertVersion(c)
  \/ \E l \in Listings, status \in StatusTexts : SetListingStatus(c, l, status)
  \/ SellerRequestFails(c)

SellerNext == \E c \in Clients : SellerStep(c)

SellerSpec == SellerInit /\ [][SellerNext]_sellerVars

-----------------------------------------------------------------------------
\* "Inventory invariant: available can never go negative" (seller-domain.ts:
\* 274-278): in every row, whatever movements cross between reads and writes.
StockNeverNegative == \A s \in Skus : \A i \in 1..Len(stock[s]) : Allowed(stock[s][i])

\* The newest row is the sum of the movements that were answered as applied,
\* except on a sku where two movements were in progress at a time: there one
\* writes the absolute numbers of its own read over the other (:215, :228).
StockExactUnlessCrossed == \A s \in Skus \ crossed : Snapshot(s) = moved[s]

\* "a repeated sync is a no-op rather than a duplicate order" (:265-268).
OneOrderPerKey == \A k \in Keys : orders[k] <= 1

\* "a replayed marketplace webhook cannot double-count a refund" (:386) and a
\* settlement is not booked twice (:498-503), but for requests that crossed
\* between lookup and insert: no index stands behind these lookups.
TwiceOnlyWhenRaced == \A k \in Keys :
  /\ returns[k] > 1 => <<"return", k>> \in raced
  /\ \A s, t \in Settled(k) : s # t => <<"settle", k>> \in raced
===============================================================================
