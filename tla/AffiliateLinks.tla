---------------------------- MODULE AffiliateLinks ----------------------------
(***************************************************************************)
(* Affiliate links and their recorded clicks                               *)
(* (affiliates/affiliate-link.service.ts). A visitor's redirect reads the  *)
(* link and then inserts the click; an operator may remove the link        *)
(* meanwhile. Of a destination the model keeps which of the two host       *)
(* checks let it pass: that of links and redirects, which takes any Amazon *)
(* storefront and its subdomains, and that of the QA gate, which takes     *)
(* amazon.in and amazon.com, bare or with www.                             *)
(***************************************************************************)
EXTENDS ApiRequests, Naturals, FiniteSets

CONSTANTS Published,        \* the links created before the behaviour starts
          Campaigns,        \* labels a link carries (campaign, offer, channel)
          MaxLinkRequests   \* bound: requests begun

ASSUME LinksAssumption ==
  /\ Published \subseteq Links
  /\ MaxLinkRequests \in Nat

VARIABLES link,       \* affiliate_links
          clicks,     \* affiliate_link_clicks, counted by linkId
          linkPc,     \* the next step of each request
          linkOf,     \* the link it has read
          linkServed  \* requests begun

linkVars == <<link, clicks, linkPc, linkOf, linkServed>>

\* An https address of a host both checks accept, of one that only links and
\* redirects accept, or neither.
Destinations == {"listed", "storefront", "elsewhere"}

LinkRow == [status : {"absent", "live", "removed"}, campaign : Campaigns,
            destination : Destinations]

LinksTypeOK ==
  /\ link \in [Links -> LinkRow]
  /\ clicks \in [Links -> Nat]
  /\ linkPc \in [Clients -> {"idle", "click", "delete"}]
  /\ linkOf \in [Clients -> Links \cup {NoLink}]
  /\ linkServed \in 0..MaxLinkRequests

LinksInit ==
  /\ \E campaign \in Campaigns, to \in Destinations :   \* older rows may lead anywhere
       link = [l \in Links |-> [status |-> IF l \in Published THEN "live" ELSE "absent",
                               campaign |-> campaign, destination |-> to]]
  /\ clicks = [l \in Links |-> 0]
  /\ linkPc = [c \in Clients |-> "idle"]
  /\ linkOf = [c \in Clients |-> NoLink]
  /\ linkServed = 0

-----------------------------------------------------------------------------
BeginLinkRequest == linkServed < MaxLinkRequests /\ linkServed' = linkServed + 1

LinkReturn(c) ==
  /\ linkPc' = [linkPc EXCEPT ![c] = "idle"]
  /\ linkOf' = [linkOf EXCEPT ![c] = NoLink]
  /\ UNCHANGED linkServed

Live(l) == link[l].status = "live"

\* isAllowedAmazonHost, with the test for https before it.
AllowedAmazonHost(to) == to \in {"listed", "storefront"}

\* createLink: the url is rebuilt with the server's tag and refused unless it
\* is an https address of an Amazon host. One insert.
CreateLink(c, l, campaign, to) ==
  /\ linkPc[c] = "idle"
  /\ BeginLinkRequest
  /\ link[l].status = "absent"
  /\ AllowedAmazonHost(to)
  /\ link' = [link EXCEPT ![l] = [status |-> "live", campaign |-> campaign, destination |-> to]]
  /\ UNCHANGED <<clicks, linkPc, linkOf>>

\* recordClick redirects only to an https address of an Amazon host.
RedirectAllowed(l) == AllowedAmazonHost(link[l].destination)

\* recordClick: the read and the checks on the stored destination.
LoadForClick(c, l) ==
  /\ linkPc[c] = "idle"
  /\ BeginLinkRequest
  /\ Live(l)
  /\ RedirectAllowed(l)
  /\ linkPc' = [linkPc EXCEPT ![c] = "click"]
  /\ linkOf' = [linkOf EXCEPT ![c] = l]
  /\ UNCHANGED <<link, clicks>>

\* recordClick: the insert, which the foreign key refuses once the link is
\* gone, and the answer.
RecordClick(c) ==
  /\ linkPc[c] = "click"
  /\ LET l == linkOf[c] IN
       /\ Live(l)
       /\ clicks' = [clicks EXCEPT ![l] = @ + 1]
  /\ LinkReturn(c)
  /\ UNCHANGED link

\* remove: the read.
LoadForDelete(c, l) ==
  /\ linkPc[c] = "idle"
  /\ BeginLinkRequest
  /\ Live(l)
  /\ linkPc' = [linkPc EXCEPT ![c] = "delete"]
  /\ linkOf' = [linkOf EXCEPT ![c] = l]
  /\ UNCHANGED <<link, clicks>>

\* remove: the delete, whose foreign keys take the clicks along (Cascade).
DeleteLink(c) ==
  /\ linkPc[c] = "delete"
  /\ Live(linkOf[c])
  /\ link' = [link EXCEPT ![linkOf[c]].status = "removed"]
  /\ clicks' = [clicks EXCEPT ![linkOf[c]] = 0]
  /\ LinkReturn(c)

\* A row is gone, a statement fails or the process dies.
LinkRequestFails(c) ==
  /\ linkPc[c] # "idle"
  /\ LinkReturn(c)
  /\ UNCHANGED <<link, clicks>>

LinkStep(c) ==
  \/ \E l \in Links, campaign \in Campaigns, to \in Destinations : CreateLink(c, l, campaign, to)
  \/ \E l \in Links : LoadForClick(c, l) \/ LoadForDelete(c, l)
  \/ RecordClick(c)
  \/ DeleteLink(c)
  \/ LinkRequestFails(c)

LinksNext == \E c \in Clients : LinkStep(c)

LinksSpec == LinksInit /\ [][LinksNext]_linkVars
===============================================================================
