---------------------------- MODULE ContentAssets ----------------------------
(***************************************************************************)
(* Content assets, the QA gate before publication and the approvals that   *)
(* excuse from it (content-assets/content-asset.service.ts,                *)
(* content-qa/{publish-approval,content-qa}.service.ts, content-qa.rules). *)
(* An update reads the row, then asks for an approval, then counts the     *)
(* duplicates, then writes the fields it was given: four statements with   *)
(* no transaction. A text is a title with a description; of a text the     *)
(* model keeps whether the rules about wording and length let it pass.     *)
(***************************************************************************)
EXTENDS AffiliateLinks

CONSTANTS Assets,      \* identifiers of content_assets rows
          Texts, CleanTexts,
          Drafts,      \* the text and the link of each asset created earlier
          NoAsset,
          Keep,        \* a field the update does not name
          Edits,       \* bound: the updates asked for
          MaxContentRequests  \* bound: requests begun

ASSUME ContentAssumption ==
  /\ Texts # {} /\ Links # {}
  /\ DOMAIN Drafts \subseteq Assets
  /\ \A a \in DOMAIN Drafts : Drafts[a] \in [text : Texts, link : Published]
  /\ NoAsset \notin Assets
  /\ CleanTexts \subseteq Texts
  /\ Keep \notin Texts \cup BOOLEAN
  /\ Edits \subseteq [text : Texts \cup {Keep}, published : BOOLEAN \cup {Keep},
                     disclosed : BOOLEAN \cup {Keep}]
  /\ MaxContentRequests \in Nat

VARIABLES asset,      \* content_assets
          approved,   \* publish_approvals, by assetId
          editPc,     \* the next statement of each update
          editOf,     \* the asset it is about
          editRead,   \* the row it has read
          edit,       \* the fields it was given
          contended,  \* history: assets written over a row other than the one read
          publishedAs, \* history: the text each asset was last published with
          unnoticed,  \* history: assets the gate let pass beside a duplicate
          contentServed  \* requests begun

contentVars == <<asset, approved, editPc, editOf, editRead, edit, contended, publishedAs,
                 unnoticed, contentServed>>
editVars == <<editPc, editOf, editRead, edit>>

AssetRow == [status : {"absent", "live", "removed"}, text : Texts, link : Links,
             published : BOOLEAN, dated : BOOLEAN, disclosed : BOOLEAN]

\* An update: the text, published and disclosureAdded, each only if it is named.
Edit == [text : Texts \cup {Keep}, published : BOOLEAN \cup {Keep},
         disclosed : BOOLEAN \cup {Keep}]

NoEdit == [text |-> Keep, published |-> Keep, disclosed |-> Keep]

ContentTypeOK ==
  /\ asset \in [Assets -> AssetRow]
  /\ approved \subseteq Assets
  /\ editPc \in [Clients -> {"idle", "approval", "siblings", "write"}]
  /\ editOf \in [Clients -> Assets \cup {NoAsset}]
  /\ editRead \in [Clients -> AssetRow]
  /\ edit \in [Clients -> Edit]
  /\ contended \subseteq Assets
  /\ publishedAs \in [Assets -> Texts]
  /\ unnoticed \subseteq Assets
  /\ contentServed \in 0..MaxContentRequests

AssetLive(a) == asset[a].status = "live"

NoAssetRow == [status |-> "absent", text |-> CHOOSE t \in Texts : TRUE,
               link |-> CHOOSE l \in Links : TRUE,
               published |-> FALSE, dated |-> FALSE, disclosed |-> FALSE]

ContentInit ==
  /\ asset = [a \in Assets |->
                IF a \in DOMAIN Drafts
                THEN [NoAssetRow EXCEPT !.status = "live", !.text = Drafts[a].text,
                                        !.link = Drafts[a].link]
                ELSE NoAssetRow]
  /\ approved = {}
  /\ editPc = [c \in Clients |-> "idle"]
  /\ editOf = [c \in Clients |-> NoAsset]
  /\ editRead = [c \in Clients |-> NoAssetRow]
  /\ edit = [c \in Clients |-> NoEdit]
  /\ contended = {}
  /\ publishedAs = [a \in Assets |-> asset[a].text]
  /\ unnoticed = {}
  /\ contentServed = 0

-----------------------------------------------------------------------------
BeginContentRequest == contentServed < MaxContentRequests /\ contentServed' = contentServed + 1

\* `input.x ?? stored`
Given(new, stored) == IF new = Keep THEN stored ELSE new

\* The row a request would leave: what the gate is asked about.
Prospective(row, in) == [row EXCEPT !.text = Given(in.text, row.text),
                                    !.published = Given(in.published, row.published),
                                    !.disclosed = Given(in.disclosed, row.disclosed)]

EditReturn(c) ==
  /\ editPc' = [editPc EXCEPT ![c] = "idle"]
  /\ edit' = [edit EXCEPT ![c] = NoEdit]
  /\ editOf' = [editOf EXCEPT ![c] = NoAsset]
  /\ editRead' = [editRead EXCEPT ![c] = NoAssetRow]
  /\ UNCHANGED contentServed

\* create: the link is looked up, and the foreign key looks again.
CreateAsset(c, a, t, l) ==
  /\ editPc[c] = "idle"
  /\ BeginContentRequest
  /\ asset[a].status = "absent"
  /\ Live(l)
  /\ asset' = [asset EXCEPT ![a] = [status |-> "live", text |-> t, link |-> l, published |-> FALSE,
                                    dated |-> FALSE, disclosed |-> FALSE]]
  /\ UNCHANGED <<approved, editVars, contended, publishedAs, unnoticed>>

\* grant and migrateLegacyApprovals: an approval for an asset that has one is
\* a no-op (a second row, if two grants cross, says the same).
GrantApproval(c, a) ==
  /\ editPc[c] = "idle"
  /\ BeginContentRequest
  /\ approved' = approved \cup {a}
  /\ UNCHANGED <<asset, editVars, contended, publishedAs, unnoticed>>

\* The disclosure guards: none published without, none removed while live.
DisclosureGuard(row, in) ==
  /\ in.published = TRUE => Prospective(row, in).disclosed
  /\ row.published /\ in.disclosed = FALSE => in.published = FALSE

Transition(row, in) == in.published = TRUE /\ ~row.published

\* update: the read and the guards on what was read.
LoadForUpdate(c, a, in) ==
  /\ editPc[c] = "idle"
  /\ BeginContentRequest
  /\ AssetLive(a)
  /\ DisclosureGuard(asset[a], in)
  /\ editPc' = [editPc EXCEPT ![c] = IF Transition(asset[a], in) THEN "approval" ELSE "write"]
  /\ editOf' = [editOf EXCEPT ![c] = a]
  /\ editRead' = [editRead EXCEPT ![c] = asset[a]]
  /\ edit' = [edit EXCEPT ![c] = in]
  /\ UNCHANGED <<asset, approved, contended, publishedAs, unnoticed>>

\* update: an approval on record excuses from the gate.
AskApproval(c) ==
  /\ editPc[c] = "approval"
  /\ editPc' = [editPc EXCEPT ![c] = IF editOf[c] \in approved THEN "write" ELSE "siblings"]
  /\ UNCHANGED <<asset, approved, editOf, editRead, edit, contended, publishedAs, unnoticed,
                 contentServed>>

WithText(t) == {a \in Assets : AssetLive(a) /\ asset[a].text = t}

\* (fault) The gate asks what a redirect asks.
AnyStorefront(row) == RedirectAllowed(row.link)

\* The gate's own list of hosts (AMAZON_HOST_PATTERN).
DestinationListed(row) == link[row.link].destination = "listed"

\* evaluateContentQa: both gates, over the prospective row. The asset itself
\* is among the rows counted when its stored text is the prospective one.
PublishReady(row, siblings) ==
  /\ row.disclosed
  /\ row.text \in CleanTexts
  /\ DestinationListed(row)
  /\ siblings <= 1

\* (fault) A failed verdict is only reported.
Advisory(row, siblings) == TRUE

\* What an update needs of the verdict to go on.
GatePasses(row, siblings) == PublishReady(row, siblings)

\* update: the duplicates are counted and the verdict is given.
AskGate(c) ==
  /\ editPc[c] = "siblings"
  /\ LET row == Prospective(editRead[c], edit[c]) IN
       \/ /\ GatePasses(row, Cardinality(WithText(row.text)))
          /\ editPc' = [editPc EXCEPT ![c] = "write"]
          /\ unnoticed' = IF WithText(row.text) \ {editOf[c]} = {} THEN unnoticed
                          ELSE unnoticed \cup {editOf[c]}
          /\ UNCHANGED <<editOf, editRead, edit, contentServed>>
       \/ /\ ~GatePasses(row, Cardinality(WithText(row.text)))
          /\ EditReturn(c)
          /\ UNCHANGED unnoticed
  /\ UNCHANGED <<asset, approved, contended, publishedAs>>

\* (fault) An update never changes the date.
DateKept(row, in) == row.dated

\* publishedAt: a new date for a fresh publication, none for an asset that is
\* not published, else what was read.
DateAfter(row, in) == LET will == Given(in.published, row.published) IN
  will /\ (row.published => row.dated)

\* The row after the write: the named fields, and the date if it is another.
Written(row, read, in) ==
  [Prospective(row, in) EXCEPT !.dated = IF DateAfter(read, in) # read.dated
                                         THEN DateAfter(read, in) ELSE row.dated]

\* update: the write.
WriteAsset(c) ==
  /\ editPc[c] = "write"
  /\ LET a == editOf[c]
         row == Written(asset[a], editRead[c], edit[c]) IN
       /\ AssetLive(a)
       /\ asset' = [asset EXCEPT ![a] = row]
       /\ contended' = IF asset[a] = editRead[c] THEN contended ELSE contended \cup {a}
       /\ publishedAs' = IF Transition(editRead[c], edit[c])
                         THEN [publishedAs EXCEPT ![a] = row.text] ELSE publishedAs
  /\ EditReturn(c)
  /\ UNCHANGED <<approved, unnoticed>>

\* remove
RemoveAsset(c, a) ==
  /\ editPc[c] = "idle"
  /\ BeginContentRequest
  /\ AssetLive(a)
  /\ asset' = [asset EXCEPT ![a].status = "removed"]
  /\ UNCHANGED <<approved, editVars, contended, publishedAs, unnoticed>>

\* The row is gone, a statement fails or the process dies.
EditFails(c) ==
  /\ editPc[c] # "idle"
  /\ EditReturn(c)
  /\ UNCHANGED <<asset, approved, contended, publishedAs, unnoticed>>

\* The assets of a deleted link go with it (onDelete: Cascade).
CascadeToAssets(gone) ==
  /\ asset' = [a \in Assets |-> IF AssetLive(a) /\ asset[a].link \in gone
                                THEN [asset[a] EXCEPT !.status = "removed"] ELSE asset[a]]
  /\ UNCHANGED <<approved, editVars, contended, publishedAs, unnoticed, contentServed>>

ContentStep(c) ==
  \/ \E a \in Assets, t \in Texts, l \in Links : CreateAsset(c, a, t, l)
  \/ \E a \in Assets : GrantApproval(c, a) \/ RemoveAsset(c, a)
  \/ \E a \in Assets, in \in Edits : LoadForUpdate(c, a, in)
  \/ AskApproval(c)
  \/ AskGate(c)
  \/ WriteAsset(c)
  \/ EditFails(c)

\* The links removed by a step.
GoneLinks == {l \in Links : Live(l) /\ link'[l].status = "removed"}

PublishingNext ==
  \/ LinksNext /\ CascadeToAssets(GoneLinks)
  \/ \E c \in Clients : ContentStep(c) /\ UNCHANGED linkVars

PublishingSpec == LinksInit /\ ContentInit /\ [][PublishingNext]_<<linkVars, contentVars>>

-----------------------------------------------------------------------------
\* "disclosure must be present before publishing" and "Cannot unset disclosure
\* while the asset remains published" (:86-87, :104), and publishedAt, which the
\* analytics count by, is set while and only while the asset is published:
\* updates that do not overlap on a row reach no other row, in any order.
PublishedIsComplete == \A a \in Assets \ contended :
  AssetLive(a) =>
    /\ asset[a].published => asset[a].disclosed
    /\ asset[a].published <=> asset[a].dated

\* QA-01: what an asset went live with passed the wording rules, or the asset
\* holds an approval, unless the row changed between the verdict and the write.
LiveTextWasCleared == \A a \in Assets \ contended :
  AssetLive(a) /\ asset[a].published => a \in approved \/ publishedAs[a] \in CleanTexts

\* "destination must be an https link to amazon.in or amazon.com"
\* (content-qa.rules.ts:95): a live published asset without an approval has
\* such a link. An asset read as published is not gated again
\* (content-asset.service.ts:108-109), so this rests on every earlier
\* publication, whatever updates crossed, and on links that keep their
\* destination as long as an asset has them.
PublishedLinkIsListed == \A a \in Assets :
  AssetLive(a) /\ asset[a].published =>
    a \in approved \/ link[asset[a].link].destination = "listed"

\* The comment on the duplicate check (content-qa.service.ts:31-33): the count
\* "equals 'other duplicates exist' both when the prospective title/description
\* match the stored row (self + others > 1) and when they differ". When they
\* differ, one duplicate is a count of one, and passes.
DuplicatesAreNoticed == unnoticed = {}
==============================================================================
