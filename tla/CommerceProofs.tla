---------------------------- MODULE CommerceProofs ----------------------------
(***************************************************************************)
(* Publication for any number of links, assets, texts and requests, and    *)
(* the composition: every step of the ledgers side by side is a step of    *)
(* one of them or changes nothing of it, so what is proved of a ledger     *)
(* holds of them together. From that, the figures of the reports: the      *)
(* answers of a report that no write has crossed are what its queries      *)
(* answer now, and the ledgers' invariants make those agree.               *)
(***************************************************************************)
EXTENDS ReportFigures, LedgerProofs, FiniteSums

\* A request about a link holds one.
LinkHeld == \A c \in Clients : linkPc[c] # "idle" => linkOf[c] \in Links

\* An update that is under way passed the disclosure guards on what it read.
EditIsGuarded == \A c \in Clients :
  editPc[c] # "idle" => editOf[c] \in Assets /\ DisclosureGuard(editRead[c], edit[c])

\* An update about to publish holds an approval or the verdict on its text.
WriteIsCleared == \A c \in Clients :
  editPc[c] = "write" /\ Transition(editRead[c], edit[c])
    => editOf[c] \in approved \/ Prospective(editRead[c], edit[c]).text \in CleanTexts

PublishingInv ==
  /\ LinksTypeOK /\ LinkHeld
  /\ ContentTypeOK /\ EditIsGuarded /\ WriteIsCleared
  /\ PublishedIsComplete /\ LiveTextWasCleared

LEMMA NoRowType == NoAssetRow \in AssetRow /\ NoAssetRow.status = "absent"
BY ContentAssumption DEF NoAssetRow, AssetRow

LEMMA NoEditType == NoEdit \in Edit
BY DEF NoEdit, Edit

LEMMA LinksInitInv == LinksInit => LinksTypeOK /\ LinkHeld
<1>. SUFFICES ASSUME LinksInit PROVE LinksTypeOK /\ LinkHeld
  OBVIOUS
<1>1. link \in [Links -> LinkRow]
  BY DEF LinksInit, LinkRow
<1>. QED BY <1>1, LinksAssumption DEF LinksInit, LinksTypeOK, LinkHeld

LEMMA LinkStepInv ==
  ASSUME LinksTypeOK, LinkHeld, NEW c \in Clients, LinkStep(c)
  PROVE  LinksTypeOK' /\ LinkHeld'
<1>1. ASSUME NEW l \in Links, NEW campaign \in Campaigns, NEW to \in Destinations,
             CreateLink(c, l, campaign, to)
      PROVE  LinksTypeOK' /\ LinkHeld'
  BY <1>1, LinksAssumption DEF CreateLink, BeginLinkRequest, LinksTypeOK, LinkHeld, LinkRow
<1>2. ASSUME NEW l \in Links, LoadForClick(c, l) \/ LoadForDelete(c, l)
      PROVE  LinksTypeOK' /\ LinkHeld'
  BY <1>2, LinksAssumption
  DEF LoadForClick, LoadForDelete, BeginLinkRequest, LinksTypeOK, LinkHeld
<1>3. CASE RecordClick(c)
  BY <1>3 DEF RecordClick, LinkReturn, LinksTypeOK, LinkHeld
<1>4. CASE DeleteLink(c)
  BY <1>4 DEF DeleteLink, LinkReturn, LinksTypeOK, LinkHeld, LinkRow
<1>5. CASE LinkRequestFails(c)
  BY <1>5 DEF LinkRequestFails, LinkReturn, LinksTypeOK, LinkHeld
<1>. QED BY <1>1, <1>2, <1>3, <1>4, <1>5 DEF LinkStep

LEMMA ContentInitInv == ContentInit /\ LinksTypeOK /\ LinkHeld => PublishingInv
<1>. SUFFICES ASSUME ContentInit, LinksTypeOK, LinkHeld PROVE PublishingInv
  OBVIOUS
<1>1. \A a \in Assets : /\ asset[a] \in AssetRow
                        /\ ~asset[a].published /\ ~asset[a].dated
  <2>. TAKE a \in Assets
  <2>1. ~NoAssetRow.published /\ ~NoAssetRow.dated
    BY DEF NoAssetRow
  <2>2. CASE a \in DOMAIN Drafts
    <3>1. Drafts[a].text \in Texts /\ Drafts[a].link \in Links
      BY <2>2, LinksAssumption, ContentAssumption
    <3>2. asset[a] = [NoAssetRow EXCEPT !.status = "live", !.text = Drafts[a].text,
                                        !.link = Drafts[a].link]
      BY <2>2 DEF ContentInit
    <3>. QED BY <2>1, <3>1, <3>2, NoRowType DEF AssetRow
  <2>3. CASE a \notin DOMAIN Drafts
    BY <2>1, <2>3, NoRowType DEF ContentInit
  <2>. QED BY <2>2, <2>3
<1>2. asset \in [Assets -> AssetRow]
  BY <1>1 DEF ContentInit
<1>3. publishedAs \in [Assets -> Texts]
  BY <1>1 DEF ContentInit, AssetRow
<1>0. /\ editPc = [c \in Clients |-> "idle"]
      /\ editOf = [c \in Clients |-> NoAsset]
      /\ editRead = [c \in Clients |-> NoAssetRow]
      /\ edit = [c \in Clients |-> NoEdit]
      /\ approved = {} /\ contended = {} /\ unnoticed = {} /\ contentServed = 0
  BY DEF ContentInit
<1>4. ContentTypeOK
  BY <1>0, <1>2, <1>3, NoRowType, NoEditType, ContentAssumption DEF ContentTypeOK
<1>5. EditIsGuarded /\ WriteIsCleared
  BY DEF ContentInit, EditIsGuarded, WriteIsCleared
<1>6. PublishedIsComplete /\ LiveTextWasCleared
  BY <1>1 DEF PublishedIsComplete, LiveTextWasCleared
<1>. QED BY <1>4, <1>5, <1>6 DEF PublishingInv

LEMMA ProspectiveType ==
  ASSUME NEW row \in AssetRow, NEW in \in Edit
  PROVE  Prospective(row, in) \in AssetRow
<1>1. /\ Given(in.text, row.text) \in Texts
      /\ Given(in.published, row.published) \in BOOLEAN
      /\ Given(in.disclosed, row.disclosed) \in BOOLEAN
  BY ContentAssumption DEF Given, AssetRow, Edit
<1>. QED BY <1>1 DEF Prospective, AssetRow

\* A row written over the row that was read: what the guards on the read row
\* say of the update is true of the result.
LEMMA WrittenOverRead ==
  ASSUME NEW row \in AssetRow, NEW in \in Edit, DisclosureGuard(row, in),
         row.published => row.disclosed, row.published <=> row.dated
  PROVE  LET new == Written(row, row, in) IN
         /\ new.published => new.disclosed
         /\ new.published <=> new.dated
         /\ new.text = Prospective(row, in).text
         /\ new.published /\ ~Transition(row, in) => row.published
<1>. DEFINE new == Written(row, row, in)
<1>1. /\ new.published = Given(in.published, row.published)
      /\ new.disclosed = Given(in.disclosed, row.disclosed)
      /\ new.text = Prospective(row, in).text
      /\ new.dated = IF DateAfter(row, in) # row.dated THEN DateAfter(row, in) ELSE row.dated
  BY DEF Written, Prospective, AssetRow
<1>2. in.published \in BOOLEAN \cup {Keep} /\ in.disclosed \in BOOLEAN \cup {Keep}
      /\ Keep \notin BOOLEAN
  BY ContentAssumption DEF Edit
<1>3. row.published \in BOOLEAN /\ row.disclosed \in BOOLEAN /\ row.dated \in BOOLEAN
  BY DEF AssetRow
<1>4. Prospective(row, in).disclosed = Given(in.disclosed, row.disclosed)
  BY DEF Prospective, AssetRow
<1>. HIDE DEF new
<1>5. new.published => new.disclosed
  BY <1>1, <1>2, <1>3, <1>4 DEF Given, DisclosureGuard
<1>6. new.dated = DateAfter(row, in)
  BY <1>1
<1>7. DateAfter(row, in) <=> new.published
  BY <1>1 DEF DateAfter
<1>8. new.published /\ ~Transition(row, in) => row.published
  BY <1>1, <1>2, <1>3 DEF Given, Transition
<1>. QED BY <1>1, <1>5, <1>6, <1>7, <1>8 DEF new

\* The end of an update leaves the others what they hold.
LEMMA EditReturnKeeps ==
  ASSUME PublishingInv, NEW c \in Clients, EditReturn(c)
  PROVE  /\ editPc' \in [Clients -> {"idle", "approval", "siblings", "write"}]
         /\ editOf' \in [Clients -> Assets \cup {NoAsset}]
         /\ editRead' \in [Clients -> AssetRow]
         /\ edit' \in [Clients -> Edit]
         /\ contentServed' \in 0..MaxContentRequests
         /\ editPc'[c] = "idle"
         /\ \A d \in Clients \ {c} : /\ editPc'[d] = editPc[d] /\ editOf'[d] = editOf[d]
                                     /\ editRead'[d] = editRead[d] /\ edit'[d] = edit[d]
<1>1. editPc' = [editPc EXCEPT ![c] = "idle"] /\ editOf' = [editOf EXCEPT ![c] = NoAsset]
      /\ editRead' = [editRead EXCEPT ![c] = NoAssetRow] /\ edit' = [edit EXCEPT ![c] = NoEdit]
      /\ UNCHANGED contentServed
  BY DEF EditReturn
<1>. QED
  BY <1>1, NoRowType, NoEditType DEF PublishingInv, ContentTypeOK

\* When a slot is idle and the others are as they were, what is known of the
\* updates under way still is.
LEMMA SlotsKeep ==
  ASSUME PublishingInv, NEW c \in Clients, approved \subseteq approved',
         editPc'[c] = "idle",
         \A d \in Clients \ {c} : /\ editPc'[d] = editPc[d] /\ editOf'[d] = editOf[d]
                                  /\ editRead'[d] = editRead[d] /\ edit'[d] = edit[d]
  PROVE  EditIsGuarded' /\ WriteIsCleared'
<1>1. EditIsGuarded'
  BY DEF PublishingInv, EditIsGuarded, DisclosureGuard, Prospective, Given
<1>2. WriteIsCleared'
  BY DEF PublishingInv, WriteIsCleared, Transition, Prospective, Given
<1>. QED BY <1>1, <1>2

\* The updates under way are the same and no approval is withdrawn.
LEMMA UpdatesKeep ==
  ASSUME PublishingInv, approved \subseteq approved', UNCHANGED editVars
  PROVE  EditIsGuarded' /\ WriteIsCleared'
<1>1. UNCHANGED <<editPc, editOf, editRead, edit>>
  BY DEF editVars
<1>2. EditIsGuarded'
  BY <1>1 DEF PublishingInv, EditIsGuarded, DisclosureGuard, Prospective, Given
<1>3. WriteIsCleared'
  BY <1>1 DEF PublishingInv, WriteIsCleared, Transition, Prospective, Given
<1>. QED BY <1>2, <1>3

\* Rows that are removed, created unpublished or left alone keep the safety
\* properties.
LEMMA RowsKeep ==
  ASSUME PublishingInv, UNCHANGED publishedAs, contended \subseteq contended',
         approved \subseteq approved',
         \A a \in Assets : \/ asset'[a] = asset[a]
                           \/ asset'[a].status = "removed"
                           \/ ~asset'[a].published /\ ~asset'[a].dated
  PROVE  PublishedIsComplete' /\ LiveTextWasCleared'
<1>1. PublishedIsComplete'
  BY DEF PublishingInv, PublishedIsComplete, AssetLive
<1>2. LiveTextWasCleared'
  BY DEF PublishingInv, LiveTextWasCleared, AssetLive
<1>. QED BY <1>1, <1>2

LEMMA WriteAssetInv ==
  ASSUME PublishingInv, NEW c \in Clients, NEW a \in Assets, a = editOf[c], WriteAsset(c)
  PROVE  ContentTypeOK' /\ EditIsGuarded' /\ WriteIsCleared'
         /\ PublishedIsComplete' /\ LiveTextWasCleared'
<1>. DEFINE read == editRead[c]
            in == edit[c]
            row == Written(asset[a], read, in)
<1>1. /\ editPc[c] = "write" /\ AssetLive(a)
      /\ asset' = [asset EXCEPT ![a] = row]
      /\ contended' = IF asset[a] = read THEN contended ELSE contended \cup {a}
      /\ publishedAs' = IF Transition(read, in)
                        THEN [publishedAs EXCEPT ![a] = row.text] ELSE publishedAs
      /\ EditReturn(c)
      /\ UNCHANGED <<approved, unnoticed>>
  BY DEF WriteAsset
<1>2. read \in AssetRow /\ in \in Edit /\ asset[a] \in AssetRow
  BY DEF PublishingInv, ContentTypeOK
<1>3. DisclosureGuard(read, in)
  BY <1>1 DEF PublishingInv, EditIsGuarded
<1>4. row \in AssetRow /\ row.status = asset[a].status
  <2>1. Prospective(asset[a], in) \in AssetRow
        /\ Prospective(asset[a], in).status = asset[a].status
    BY <1>2, ProspectiveType DEF Prospective, AssetRow
  <2>2. (IF DateAfter(read, in) # read.dated THEN DateAfter(read, in) ELSE asset[a].dated)
          \in BOOLEAN
    BY <1>2 DEF DateAfter, AssetRow
  <2>. QED BY <2>1, <2>2 DEF Written, AssetRow
<1>5. asset[a] = read =>
        /\ AssetLive(a)
        /\ a \notin contended' =>
             /\ row.published => row.disclosed
             /\ row.published <=> row.dated
             /\ row.text = Prospective(read, in).text
             /\ row.published /\ ~Transition(read, in) => read.published
  <2>. SUFFICES ASSUME asset[a] = read, a \notin contended'
                PROVE  /\ row.published => row.disclosed
                       /\ row.published <=> row.dated
                       /\ row.text = Prospective(read, in).text
                       /\ row.published /\ ~Transition(read, in) => read.published
    BY <1>1
  <2>1. a \notin contended
    BY <1>1
  <2>2. (read.published => read.disclosed) /\ (read.published <=> read.dated)
    BY <1>1, <2>1 DEF PublishingInv, PublishedIsComplete
  <2>. QED BY <1>2, <1>3, <2>2, WrittenOverRead
<1>. HIDE DEF row
<1>6. /\ asset' \in [Assets -> AssetRow]
      /\ asset'[a] = row /\ \A b \in Assets \ {a} : asset'[b] = asset[b]
  BY <1>1, <1>4 DEF PublishingInv, ContentTypeOK
<1>7. /\ publishedAs' \in [Assets -> Texts]
      /\ \A b \in Assets \ {a} : publishedAs'[b] = publishedAs[b]
      /\ publishedAs'[a] = IF Transition(read, in) THEN row.text ELSE publishedAs[a]
  <2>1. row.text \in Texts
    BY <1>4 DEF AssetRow
  <2>. QED BY <1>1, <2>1 DEF PublishingInv, ContentTypeOK
<1>8. ContentTypeOK'
  BY <1>1, <1>6, <1>7, EditReturnKeeps DEF PublishingInv, ContentTypeOK
<1>9. EditIsGuarded' /\ WriteIsCleared'
  BY <1>1, EditReturnKeeps, SlotsKeep
<1>10. contended \subseteq contended' /\ (a \notin contended' => asset[a] = read)
  BY <1>1
<1>11. PublishedIsComplete'
  <2>. SUFFICES ASSUME NEW b \in Assets, b \notin contended', asset'[b].status = "live"
                PROVE  /\ asset'[b].published => asset'[b].disclosed
                       /\ asset'[b].published <=> asset'[b].dated
    BY DEF PublishedIsComplete, AssetLive
  <2>1. CASE b = a
    BY <1>5, <1>6, <1>10, <2>1
  <2>2. CASE b # a
    BY <1>6, <1>10, <2>2 DEF PublishingInv, PublishedIsComplete, AssetLive
  <2>. QED BY <2>1, <2>2
<1>12. LiveTextWasCleared'
  <2>. SUFFICES ASSUME NEW b \in Assets, b \notin contended', asset'[b].status = "live",
                       asset'[b].published
                PROVE  b \in approved \/ publishedAs'[b] \in CleanTexts
    BY <1>1 DEF LiveTextWasCleared, AssetLive
  <2>1. CASE b = a /\ Transition(read, in)
    BY <1>1, <1>5, <1>7, <1>10, <2>1 DEF PublishingInv, WriteIsCleared
  <2>2. CASE b = a /\ ~Transition(read, in)
    <3>1. AssetLive(a) /\ asset[a].published /\ a \notin contended
      BY <1>1, <1>5, <1>6, <1>10, <2>2
    <3>. QED BY <1>7, <2>2, <3>1 DEF PublishingInv, LiveTextWasCleared
  <2>3. CASE b # a
    BY <1>6, <1>7, <1>10, <2>3 DEF PublishingInv, LiveTextWasCleared, AssetLive
  <2>. QED BY <2>1, <2>2, <2>3
<1>. QED BY <1>8, <1>9, <1>11, <1>12

LEMMA LoadForUpdateInv ==
  ASSUME PublishingInv, NEW c \in Clients, NEW a \in Assets, NEW in \in Edits,
         LoadForUpdate(c, a, in)
  PROVE  ContentTypeOK' /\ EditIsGuarded' /\ WriteIsCleared'
         /\ PublishedIsComplete' /\ LiveTextWasCleared'
<1>. DEFINE read == asset[a]
            pc == IF Transition(read, in) THEN "approval" ELSE "write"
<1>1. /\ BeginContentRequest /\ DisclosureGuard(read, in)
      /\ editPc' = [editPc EXCEPT ![c] = pc]
      /\ editOf' = [editOf EXCEPT ![c] = a]
      /\ editRead' = [editRead EXCEPT ![c] = read]
      /\ edit' = [edit EXCEPT ![c] = in]
      /\ UNCHANGED <<asset, approved, contended, publishedAs, unnoticed>>
  BY DEF LoadForUpdate
<1>2. in \in Edit /\ read \in AssetRow
  BY ContentAssumption DEF PublishingInv, ContentTypeOK, Edit
<1>3. /\ pc \in {"approval", "siblings", "write"}
      /\ pc = "write" => ~Transition(read, in)
  OBVIOUS
<1>. HIDE DEF pc, read
<1>4. /\ editPc'[c] = pc /\ editOf'[c] = a /\ editRead'[c] = read /\ edit'[c] = in
      /\ \A d \in Clients \ {c} : /\ editPc'[d] = editPc[d] /\ editOf'[d] = editOf[d]
                                  /\ editRead'[d] = editRead[d] /\ edit'[d] = edit[d]
  BY <1>1, <1>2, <1>3 DEF PublishingInv, ContentTypeOK
<1>5. contentServed' \in 0..MaxContentRequests
  BY <1>1, ContentAssumption DEF BeginContentRequest, PublishingInv, ContentTypeOK
<1>6. ContentTypeOK'
  BY <1>1, <1>2, <1>3, <1>5 DEF PublishingInv, ContentTypeOK
<1>7. EditIsGuarded'
  <2>. SUFFICES ASSUME NEW d \in Clients, editPc'[d] # "idle"
                PROVE  editOf'[d] \in Assets /\ DisclosureGuard(editRead'[d], edit'[d])
    BY DEF EditIsGuarded, DisclosureGuard, Prospective, Given
  <2>. QED BY <1>1, <1>4 DEF PublishingInv, EditIsGuarded
<1>8. WriteIsCleared'
  <2>. SUFFICES ASSUME NEW d \in Clients, editPc'[d] = "write",
                       Transition(editRead'[d], edit'[d])
                PROVE  editOf'[d] \in approved \/ Prospective(editRead'[d], edit'[d]).text \in CleanTexts
    BY <1>1 DEF WriteIsCleared, Transition, Prospective, Given
  <2>. QED BY <1>3, <1>4 DEF PublishingInv, WriteIsCleared
<1>9. PublishedIsComplete' /\ LiveTextWasCleared'
  BY <1>1, RowsKeep
<1>. QED BY <1>6, <1>7, <1>8, <1>9

\* A step that only moves an update along keeps what it holds.
LEMMA AskInv ==
  ASSUME PublishingInv, NEW c \in Clients, AskApproval(c) \/ AskGate(c)
  PROVE  ContentTypeOK' /\ EditIsGuarded' /\ WriteIsCleared'
         /\ PublishedIsComplete' /\ LiveTextWasCleared'
<1>1. UNCHANGED <<asset, approved, contended, publishedAs>> /\ editPc[c] # "idle"
  BY DEF AskApproval, AskGate
<1>2. PublishedIsComplete' /\ LiveTextWasCleared'
  BY <1>1, RowsKeep
<1>3. CASE EditReturn(c) /\ UNCHANGED unnoticed
  <2>1. ContentTypeOK'
    BY <1>1, <1>3, EditReturnKeeps DEF PublishingInv, ContentTypeOK
  <2>. QED BY <1>1, <1>2, <1>3, <2>1, EditReturnKeeps, SlotsKeep
<1>4. ASSUME NEW pc \in {"siblings", "write"}, editPc' = [editPc EXCEPT ![c] = pc],
             UNCHANGED <<editOf, editRead, edit, contentServed>>,
             unnoticed' \subseteq Assets,
             pc = "write" => \/ editOf[c] \in approved
                             \/ Prospective(editRead[c], edit[c]).text \in CleanTexts
      PROVE  ContentTypeOK' /\ EditIsGuarded' /\ WriteIsCleared'
  <2>1. ContentTypeOK'
    BY <1>1, <1>4 DEF PublishingInv, ContentTypeOK
  <2>2. editPc'[c] = pc /\ \A d \in Clients \ {c} : editPc'[d] = editPc[d]
    BY <1>4 DEF PublishingInv, ContentTypeOK
  <2>3. EditIsGuarded'
    BY <1>1, <1>4, <2>2 DEF PublishingInv, EditIsGuarded, DisclosureGuard, Prospective, Given
  <2>4. WriteIsCleared'
    BY <1>1, <1>4, <2>2 DEF PublishingInv, WriteIsCleared, Transition, Prospective, Given
  <2>. QED BY <2>1, <2>3, <2>4
<1>5. CASE AskApproval(c)
  <2>1. /\ editPc' = [editPc EXCEPT ![c] = IF editOf[c] \in approved THEN "write" ELSE "siblings"]
        /\ UNCHANGED <<editOf, editRead, edit, unnoticed, contentServed>>
    BY <1>5 DEF AskApproval
  <2>2. unnoticed' \subseteq Assets
    BY <2>1 DEF PublishingInv, ContentTypeOK
  <2>. QED BY <1>2, <1>4, <2>1, <2>2
<1>6. CASE AskGate(c)
  <2>. DEFINE row == Prospective(editRead[c], edit[c])
              n == Cardinality(WithText(row.text))
  <2>1. \/ /\ GatePasses(row, n)
           /\ editPc' = [editPc EXCEPT ![c] = "write"]
           /\ unnoticed' = IF WithText(row.text) \ {editOf[c]} = {} THEN unnoticed
                           ELSE unnoticed \cup {editOf[c]}
           /\ UNCHANGED <<editOf, editRead, edit, contentServed>>
        \/ EditReturn(c) /\ UNCHANGED unnoticed
    BY <1>6 DEF AskGate
  <2>2. GatePasses(row, n) => row.text \in CleanTexts
    BY DEF GatePasses, PublishReady
  <2>3. editOf[c] \in Assets
    BY <1>1 DEF PublishingInv, EditIsGuarded
  <2>. HIDE DEF n
  <2>4. CASE EditReturn(c) /\ UNCHANGED unnoticed
    BY <1>2, <1>3, <2>4
  <2>5. CASE ~(EditReturn(c) /\ UNCHANGED unnoticed)
    <3>1. unnoticed' \subseteq Assets
      BY <2>1, <2>3, <2>5 DEF PublishingInv, ContentTypeOK
    <3>. QED BY <1>2, <1>4, <2>1, <2>2, <2>5, <3>1
  <2>. QED BY <2>4, <2>5
<1>. QED BY <1>5, <1>6

LEMMA ContentStepInv ==
  ASSUME PublishingInv, NEW c \in Clients, ContentStep(c)
  PROVE  ContentTypeOK' /\ EditIsGuarded' /\ WriteIsCleared'
         /\ PublishedIsComplete' /\ LiveTextWasCleared'
<1>1. ASSUME NEW a \in Assets, NEW t \in Texts, NEW l \in Links, CreateAsset(c, a, t, l)
      PROVE  ContentTypeOK' /\ EditIsGuarded' /\ WriteIsCleared'
             /\ PublishedIsComplete' /\ LiveTextWasCleared'
  <2>. DEFINE new == [status |-> "live", text |-> t, link |-> l, published |-> FALSE,
                      dated |-> FALSE, disclosed |-> FALSE]
  <2>1. /\ BeginContentRequest /\ asset' = [asset EXCEPT ![a] = new]
        /\ UNCHANGED <<approved, editVars, contended, publishedAs, unnoticed>>
    BY <1>1 DEF CreateAsset
  <2>2. new \in AssetRow /\ ~new.published /\ ~new.dated
    BY DEF AssetRow
  <2>. HIDE DEF new
  <2>3. asset' \in [Assets -> AssetRow] /\ asset'[a] = new
        /\ \A b \in Assets \ {a} : asset'[b] = asset[b]
    BY <2>1, <2>2 DEF PublishingInv, ContentTypeOK
  <2>4. ContentTypeOK'
    BY <2>1, <2>3, ContentAssumption
    DEF BeginContentRequest, PublishingInv, ContentTypeOK, editVars
  <2>. QED BY <2>1, <2>2, <2>3, <2>4, UpdatesKeep, RowsKeep
<1>2. ASSUME NEW a \in Assets, GrantApproval(c, a)
      PROVE  ContentTypeOK' /\ EditIsGuarded' /\ WriteIsCleared'
             /\ PublishedIsComplete' /\ LiveTextWasCleared'
  <2>1. /\ BeginContentRequest /\ approved' = approved \cup {a}
        /\ UNCHANGED <<asset, editVars, contended, publishedAs, unnoticed>>
    BY <1>2 DEF GrantApproval
  <2>2. ContentTypeOK'
    BY <2>1, ContentAssumption DEF BeginContentRequest, PublishingInv, ContentTypeOK, editVars
  <2>. QED BY <2>1, <2>2, UpdatesKeep, RowsKeep
<1>3. ASSUME NEW a \in Assets, RemoveAsset(c, a)
      PROVE  ContentTypeOK' /\ EditIsGuarded' /\ WriteIsCleared'
             /\ PublishedIsComplete' /\ LiveTextWasCleared'
  <2>1. /\ BeginContentRequest /\ asset' = [asset EXCEPT ![a].status = "removed"]
        /\ UNCHANGED <<approved, editVars, contended, publishedAs, unnoticed>>
    BY <1>3 DEF RemoveAsset
  <2>2. asset' \in [Assets -> AssetRow] /\ asset'[a].status = "removed"
        /\ \A b \in Assets \ {a} : asset'[b] = asset[b]
    BY <2>1 DEF PublishingInv, ContentTypeOK, AssetRow
  <2>3. ContentTypeOK'
    BY <2>1, <2>2, ContentAssumption
    DEF BeginContentRequest, PublishingInv, ContentTypeOK, editVars
  <2>. QED BY <2>1, <2>2, <2>3, UpdatesKeep, RowsKeep
<1>4. ASSUME WriteAsset(c)
      PROVE  ContentTypeOK' /\ EditIsGuarded' /\ WriteIsCleared'
             /\ PublishedIsComplete' /\ LiveTextWasCleared'
  <2>1. editOf[c] \in Assets
    BY <1>4 DEF WriteAsset, PublishingInv, EditIsGuarded
  <2>. QED BY <1>4, <2>1, WriteAssetInv
<1>5. ASSUME EditFails(c)
      PROVE  ContentTypeOK' /\ EditIsGuarded' /\ WriteIsCleared'
             /\ PublishedIsComplete' /\ LiveTextWasCleared'
  <2>1. EditReturn(c) /\ UNCHANGED <<asset, approved, contended, publishedAs, unnoticed>>
    BY <1>5 DEF EditFails
  <2>2. ContentTypeOK'
    BY <2>1, EditReturnKeeps DEF PublishingInv, ContentTypeOK
  <2>. QED BY <2>1, <2>2, EditReturnKeeps, SlotsKeep, RowsKeep
<1>. QED
  BY <1>1, <1>2, <1>3, <1>4, <1>5, LoadForUpdateInv, AskInv DEF ContentStep

LEMMA CascadeInv ==
  ASSUME PublishingInv, NEW gone, CascadeToAssets(gone)
  PROVE  ContentTypeOK' /\ EditIsGuarded' /\ WriteIsCleared'
         /\ PublishedIsComplete' /\ LiveTextWasCleared'
<1>1. /\ asset' = [a \in Assets |-> IF AssetLive(a) /\ asset[a].link \in gone
                                    THEN [asset[a] EXCEPT !.status = "removed"] ELSE asset[a]]
      /\ UNCHANGED <<approved, editVars, contended, publishedAs, unnoticed, contentServed>>
  BY DEF CascadeToAssets
<1>2. /\ asset' \in [Assets -> AssetRow]
      /\ \A a \in Assets : asset'[a] = asset[a] \/ asset'[a].status = "removed"
  BY <1>1 DEF PublishingInv, ContentTypeOK, AssetRow
<1>3. ContentTypeOK'
  BY <1>1, <1>2 DEF PublishingInv, ContentTypeOK, editVars
<1>. QED BY <1>1, <1>2, <1>3, UpdatesKeep, RowsKeep

LEMMA PublishingStepInv ==
  ASSUME PublishingInv, [PublishingNext]_<<linkVars, contentVars>>
  PROVE  PublishingInv'
<1>1. CASE LinksNext /\ CascadeToAssets(GoneLinks)
  <2>1. LinksTypeOK' /\ LinkHeld'
    BY <1>1, LinkStepInv DEF LinksNext, PublishingInv
  <2>2. ContentTypeOK' /\ EditIsGuarded' /\ WriteIsCleared'
        /\ PublishedIsComplete' /\ LiveTextWasCleared'
    BY <1>1, CascadeInv
  <2>. QED BY <2>1, <2>2 DEF PublishingInv
<1>2. ASSUME NEW c \in Clients, ContentStep(c), UNCHANGED linkVars
      PROVE  PublishingInv'
  <2>1. LinksTypeOK' /\ LinkHeld'
    BY <1>2 DEF linkVars, PublishingInv, LinksTypeOK, LinkHeld
  <2>. QED BY <1>2, <2>1, ContentStepInv DEF PublishingInv
<1>3. CASE UNCHANGED <<linkVars, contentVars>>
  <2>1. LinksTypeOK' /\ LinkHeld'
    BY <1>3 DEF linkVars, PublishingInv, LinksTypeOK, LinkHeld
  <2>2. UNCHANGED <<asset, approved, editVars, contended, publishedAs, unnoticed, contentServed>>
    BY <1>3 DEF contentVars, editVars
  <2>3. ContentTypeOK'
    BY <2>2 DEF PublishingInv, ContentTypeOK, editVars
  <2>. QED BY <2>1, <2>2, <2>3, UpdatesKeep, RowsKeep DEF PublishingInv
<1>. QED BY <1>1, <1>2, <1>3 DEF PublishingNext

\* The inductive invariant of links and assets.
THEOREM PublishingInvariant == PublishingSpec => []PublishingInv
<1>1. LinksInit /\ ContentInit => PublishingInv
  BY LinksInitInv, ContentInitInv
<1>2. PublishingInv /\ [PublishingNext]_<<linkVars, contentVars>> => PublishingInv'
  BY PublishingStepInv
<1>. QED BY <1>1, <1>2, PTL DEF PublishingSpec

-----------------------------------------------------------------------------
\* The revenue ledger behaves beside the others as it does alone: the only
\* step of another ledger it notices is the removal of a link.
THEOREM RefinesRevenue == Spec => RevenueSpec
<1>1. Init => RevenueInit
  BY DEF Init
<1>2. [Next]_vars => [RevenueNext]_revenueVars
  <2>. SUFFICES ASSUME [Next]_vars PROVE [RevenueNext]_revenueVars
    OBVIOUS
  <2>1. CASE \E c \in Clients : RevenueStep(c) /\ NamesLiveLinks
    BY <2>1 DEF RevenueNext
  <2>2. CASE LinkRemovedFor(GoneLinks)
    <3>1. GoneLinks \subseteq Links
      BY DEF GoneLinks
    <3>. QED BY <2>2, <3>1 DEF LinkRemovedFor, RevenueNext
  <2>3. CASE UNCHANGED revenueVars
    BY <2>3
  <2>. QED BY <2>1, <2>2, <2>3 DEF Next, vars
<1>. QED BY <1>1, <1>2, PTL DEF Spec, RevenueSpec

\* So does the seller ledger, which shares nothing with them.
THEOREM RefinesSeller == Spec => SellerSpec
<1>1. Init => SellerInit
  BY DEF Init
<1>2. [Next]_vars => [SellerNext]_sellerVars
  BY DEF Next, vars
<1>. QED BY <1>1, <1>2, PTL DEF Spec, SellerSpec

\* And so do links and assets, which revenue events only point to.
THEOREM RefinesPublishing == Spec => PublishingSpec
<1>1. Init => LinksInit /\ ContentInit
  BY DEF Init
<1>2. [Next]_vars => [PublishingNext]_<<linkVars, contentVars>>
  BY DEF Next, vars, PublishingNext, LinkRemovedFor
<1>. QED BY <1>1, <1>2, PTL DEF Spec, PublishingSpec

\* Every variable of the composed ledgers keeps its type.
THEOREM CommerceTypeSafety == Spec => []CommerceTypeOK
<1>1. SellerInv => SellerTypeOK
  BY DEF SellerInv
<1>2. PublishingInv => LinksTypeOK /\ ContentTypeOK
  BY DEF PublishingInv
<1>3. RevenueTypeOK /\ SellerTypeOK /\ LinksTypeOK /\ ContentTypeOK => CommerceTypeOK
  BY DEF CommerceTypeOK
<1>. QED
  BY <1>1, <1>2, <1>3, RefinesRevenue, RevenueTypeSafety, RefinesSeller, SellerInvariant,
     RefinesPublishing, PublishingInvariant, PTL

\* Money is counted once beside the other ledgers too: one row per reported
\* event, a profit record behind every reconciled one, one decision unless two
\* requests had both read it as pending.
THEOREM RevenueIsSound == Spec => [](OneEventPerSource /\ ReconciledHasProfit /\ FinalUnlessOverlapped)
<1>1. RevenueInv => OneEventPerSource /\ ReconciledHasProfit /\ FinalUnlessOverlapped
  BY DEF RevenueInv
<1>. QED BY <1>1, RefinesRevenue, RevenueInvariant, PTL

\* A live published asset is disclosed and dated, in whatever order updates,
\* approvals and removals come, unless two updates met on its row.
THEOREM PublishedComplete == Spec => []PublishedIsComplete
<1>1. PublishingInv => PublishedIsComplete
  BY DEF PublishingInv
<1>. QED BY <1>1, RefinesPublishing, PublishingInvariant, PTL

\* The text an asset went live with passed the gate or was approved, although
\* verdict and write are separate statements, unless two updates met on its row.
THEOREM LiveTextCleared == Spec => []LiveTextWasCleared
<1>1. PublishingInv => LiveTextWasCleared
  BY DEF PublishingInv
<1>. QED BY <1>1, RefinesPublishing, PublishingInvariant, PTL

-----------------------------------------------------------------------------
(* Where published assets lead *)

\* An asset that may be published: approved, or its link is of a listed host.
MayLead(a) == a \in approved \/ link[asset[a].link].destination = "listed"

\* The link of an asset is, or has been, a row.
AssetsHaveLinks == \A a \in Assets :
  asset[a].status # "absent" => link[asset[a].link].status # "absent"

PublishedMayLead == \A a \in Assets :
  asset[a].published => asset[a].status # "absent" /\ MayLead(a)

\* An update under way is about a row that is, or has been, there, has read its
\* link, and is past the gate if it is about to publish.
UpdatesMayLead == \A c \in Clients :
  editPc[c] # "idle" =>
    /\ asset[editOf[c]].status # "absent"
    /\ editRead[c].link = asset[editOf[c]].link
    /\ editRead[c].published => MayLead(editOf[c])
    /\ editPc[c] = "write" /\ edit[c].published = TRUE => MayLead(editOf[c])

DestinationInv == AssetsHaveLinks /\ PublishedMayLead /\ UpdatesMayLead

LEMMA DestinationInit == LinksInit /\ ContentInit => DestinationInv
<1>. SUFFICES ASSUME LinksInit, ContentInit PROVE DestinationInv
  OBVIOUS
<1>1. \A l \in Published : link[l].status = "live"
  BY LinksAssumption DEF LinksInit
<1>2. \A a \in Assets : ~asset[a].published
        /\ (asset[a].status # "absent" => asset[a].link \in Published)
  BY ContentAssumption DEF ContentInit, NoAssetRow
<1>3. \A c \in Clients : editPc[c] = "idle"
  BY DEF ContentInit
<1>. QED
  BY <1>1, <1>2, <1>3
  DEF DestinationInv, AssetsHaveLinks, PublishedMayLead, UpdatesMayLead

\* A link that is or was there leads where it led.
DestinationsKept == \A l \in Links : link[l].status # "absent" =>
  link'[l].status # "absent" /\ link'[l].destination = link[l].destination

LEMMA LinksKeepDestinations ==
  ASSUME LinksTypeOK, LinkHeld, NEW c \in Clients, LinkStep(c)
  PROVE  DestinationsKept
<1>1. ASSUME NEW l \in Links, NEW campaign \in Campaigns, NEW to \in Destinations,
             CreateLink(c, l, campaign, to)
      PROVE  DestinationsKept
  BY <1>1 DEF CreateLink, LinksTypeOK, DestinationsKept
<1>2. ASSUME NEW l \in Links, LoadForClick(c, l) \/ LoadForDelete(c, l)
      PROVE  DestinationsKept
  BY <1>2 DEF LoadForClick, LoadForDelete, DestinationsKept
<1>3. CASE DeleteLink(c)
  <2>1. link' = [link EXCEPT ![linkOf[c]].status = "removed"]
    BY <1>3 DEF DeleteLink
  <2>. QED BY <2>1 DEF LinksTypeOK, LinkRow, DestinationsKept
<1>4. CASE RecordClick(c) \/ LinkRequestFails(c)
  BY <1>4 DEF RecordClick, LinkRequestFails, DestinationsKept
<1>. QED BY <1>1, <1>2, <1>3, <1>4 DEF LinkStep

\* A row that is or was there keeps its link, and approvals are never taken back.
LinksOfAssetsKept ==
  /\ approved \subseteq approved'
  /\ \A a \in Assets : asset[a].status # "absent" =>
       asset'[a].status # "absent" /\ asset'[a].link = asset[a].link

\* So what an asset may, it may after any step of another.
LEMMA MayLeadKept ==
  ASSUME ContentTypeOK, AssetsHaveLinks, DestinationsKept, LinksOfAssetsKept,
         NEW a \in Assets, asset[a].status # "absent", MayLead(a)
  PROVE  MayLead(a)'
<1>1. asset[a].link \in Links
  BY DEF ContentTypeOK, AssetRow
<1>2. asset'[a].link = asset[a].link /\ approved \subseteq approved'
  BY DEF LinksOfAssetsKept
<1>3. link'[asset[a].link].destination = link[asset[a].link].destination
  BY <1>1 DEF DestinationsKept, AssetsHaveLinks
<1>. QED BY <1>2, <1>3 DEF MayLead

\* A step that publishes nothing, and leaves the updates under way or ends them.
LEMMA QuietStep ==
  ASSUME ContentTypeOK, EditIsGuarded, DestinationInv, DestinationsKept, LinksOfAssetsKept,
         \A a \in Assets : asset'[a].published => asset[a].published,
         \A a \in Assets : asset'[a].status # "absent" =>
            asset[a].status # "absent" \/ link'[asset'[a].link].status # "absent",
         \A c \in Clients : \/ editPc'[c] = "idle"
                            \/ /\ editPc'[c] = editPc[c] /\ editOf'[c] = editOf[c]
                               /\ editRead'[c] = editRead[c] /\ edit'[c] = edit[c]
  PROVE  DestinationInv'
<1>1. AssetsHaveLinks'
  <2>. SUFFICES ASSUME NEW a \in Assets, asset'[a].status # "absent"
                PROVE  link'[asset'[a].link].status # "absent"
    BY DEF AssetsHaveLinks
  <2>1. CASE asset[a].status # "absent"
    <3>1. asset[a].link \in Links
      BY DEF ContentTypeOK, AssetRow
    <3>. QED
      BY <2>1, <3>1 DEF DestinationInv, AssetsHaveLinks, DestinationsKept, LinksOfAssetsKept
  <2>. QED BY <2>1
<1>2. PublishedMayLead'
  <2>. SUFFICES ASSUME NEW a \in Assets, asset'[a].published
                PROVE  asset'[a].status # "absent" /\ MayLead(a)'
    BY DEF PublishedMayLead
  <2>1. asset[a].status # "absent" /\ MayLead(a)
    BY DEF DestinationInv, PublishedMayLead
  <2>. QED BY <2>1, MayLeadKept DEF DestinationInv, LinksOfAssetsKept
<1>3. UpdatesMayLead'
  <2>. SUFFICES ASSUME NEW c \in Clients, editPc'[c] # "idle"
                PROVE  /\ asset'[editOf'[c]].status # "absent"
                       /\ editRead'[c].link = asset'[editOf'[c]].link
                       /\ editRead'[c].published => MayLead(editOf[c])'
                       /\ editPc'[c] = "write" /\ edit'[c].published = TRUE => MayLead(editOf[c])'
    BY DEF UpdatesMayLead
  <2>1. /\ editPc'[c] = editPc[c] /\ editOf'[c] = editOf[c]
        /\ editRead'[c] = editRead[c] /\ edit'[c] = edit[c]
    OBVIOUS
  <2>2. editOf[c] \in Assets /\ asset[editOf[c]].status # "absent"
        /\ editRead[c].link = asset[editOf[c]].link
    BY <2>1 DEF DestinationInv, UpdatesMayLead, EditIsGuarded
  <2>3. MayLead(editOf[c]) => \A a \in {editOf[c]} : MayLead(a)'
    BY <2>2, MayLeadKept DEF DestinationInv
  <2>4. MayLead(editOf[c]) => MayLead(editOf[c])'
    BY <2>1, <2>3 DEF MayLead
  <2>. QED
    BY <2>1, <2>2, <2>4 DEF DestinationInv, UpdatesMayLead, LinksOfAssetsKept
<1>. QED BY <1>1, <1>2, <1>3 DEF DestinationInv

LEMMA LoadDestination ==
  ASSUME PublishingInv, DestinationInv, NEW c \in Clients, NEW a \in Assets, NEW in \in Edits,
         LoadForUpdate(c, a, in), UNCHANGED link
  PROVE  DestinationInv'
<1>. USE DEF PublishingInv
<1>1. /\ AssetLive(a)
      /\ editPc' = [editPc EXCEPT ![c] = IF Transition(asset[a], in) THEN "approval" ELSE "write"]
      /\ editOf' = [editOf EXCEPT ![c] = a]
      /\ editRead' = [editRead EXCEPT ![c] = asset[a]]
      /\ edit' = [edit EXCEPT ![c] = in]
      /\ UNCHANGED <<asset, approved>>
  BY DEF LoadForUpdate
<1>2. AssetsHaveLinks' /\ PublishedMayLead'
  BY <1>1 DEF DestinationInv, AssetsHaveLinks, PublishedMayLead, MayLead
<1>3. /\ editPc'[c] = (IF Transition(asset[a], in) THEN "approval" ELSE "write")
      /\ editOf'[c] = a /\ editRead'[c] = asset[a] /\ edit'[c] = in
  BY <1>1 DEF ContentTypeOK
<1>4. asset[a].status # "absent" /\ (asset[a].published => MayLead(a))
  BY <1>1 DEF AssetLive, DestinationInv, PublishedMayLead
<1>5. /\ asset'[editOf'[c]].status # "absent"
      /\ editRead'[c].link = asset'[editOf'[c]].link
      /\ editRead'[c].published => MayLead(editOf[c])'
      /\ editPc'[c] = "write" /\ edit'[c].published = TRUE => MayLead(editOf[c])'
  BY <1>1, <1>3, <1>4 DEF MayLead, Transition
<1>6. \A d \in Clients \ {c} : /\ editPc'[d] = editPc[d] /\ editOf'[d] = editOf[d]
                              /\ editRead'[d] = editRead[d] /\ edit'[d] = edit[d]
  BY <1>1 DEF ContentTypeOK
<1>7. UpdatesMayLead'
  BY <1>1, <1>5, <1>6 DEF DestinationInv, UpdatesMayLead, MayLead
<1>. QED BY <1>2, <1>7 DEF DestinationInv

\* Only an approval or the verdict lets an unpublished row on to the write.
LEMMA AskDestination ==
  ASSUME PublishingInv, DestinationInv, NEW c \in Clients, AskApproval(c) \/ AskGate(c),
         UNCHANGED link
  PROVE  DestinationInv'
<1>. USE DEF PublishingInv
<1>1. UNCHANGED <<asset, approved>> /\ editPc[c] # "idle"
  BY DEF AskApproval, AskGate
<1>2. AssetsHaveLinks' /\ PublishedMayLead'
  BY <1>1 DEF DestinationInv, AssetsHaveLinks, PublishedMayLead, MayLead
<1>3. CASE EditReturn(c)
  <2>1. \A d \in Clients :
          \/ editPc'[d] = "idle"
          \/ /\ editPc'[d] = editPc[d] /\ editOf'[d] = editOf[d]
             /\ editRead'[d] = editRead[d] /\ edit'[d] = edit[d]
    BY <1>3 DEF EditReturn, ContentTypeOK
  <2>2. UpdatesMayLead'
    BY <1>1, <2>1 DEF DestinationInv, UpdatesMayLead, MayLead
  <2>. QED BY <1>2, <2>2 DEF DestinationInv
<1>4. ASSUME NEW pc \in {"siblings", "write"}, editPc' = [editPc EXCEPT ![c] = pc],
             UNCHANGED <<editOf, editRead, edit>>, pc = "write" => MayLead(editOf[c])
      PROVE  DestinationInv'
  <2>1. editPc'[c] = pc /\ \A d \in Clients \ {c} : editPc'[d] = editPc[d]
    BY <1>4 DEF ContentTypeOK
  <2>2. UpdatesMayLead'
    BY <1>1, <1>4, <2>1 DEF DestinationInv, UpdatesMayLead, MayLead
  <2>. QED BY <1>2, <2>2 DEF DestinationInv
<1>5. CASE AskApproval(c)
  <2>1. /\ editPc' = [editPc EXCEPT ![c] = IF editOf[c] \in approved THEN "write" ELSE "siblings"]
        /\ UNCHANGED <<editOf, editRead, edit>>
    BY <1>5 DEF AskApproval
  <2>. QED BY <1>4, <2>1 DEF MayLead
<1>6. CASE AskGate(c)
  <2>. DEFINE row == Prospective(editRead[c], edit[c])
              n == Cardinality(WithText(row.text))
  <2>1. \/ /\ GatePasses(row, n)
           /\ editPc' = [editPc EXCEPT ![c] = "write"]
           /\ UNCHANGED <<editOf, editRead, edit>>
        \/ EditReturn(c)
    BY <1>6 DEF AskGate
  <2>2. row.link = editRead[c].link
    BY DEF ContentTypeOK, AssetRow, Prospective
  <2>3. editRead[c].link = asset[editOf[c]].link
    BY <1>1 DEF DestinationInv, UpdatesMayLead
  <2>4. GatePasses(row, n) => MayLead(editOf[c])
    BY <2>2, <2>3 DEF GatePasses, PublishReady, DestinationListed, MayLead
  <2>. HIDE DEF row, n
  <2>. QED BY <1>3, <1>4, <2>1, <2>4
<1>. QED BY <1>5, <1>6

\* The write publishes an asset that may be, and leaves its link.
LEMMA WriteDestination ==
  ASSUME PublishingInv, DestinationInv, NEW c \in Clients, WriteAsset(c), UNCHANGED link
  PROVE  DestinationInv'
<1>. USE DEF PublishingInv
<1>. DEFINE a == editOf[c]
<1>1. a \in Assets /\ asset[a] \in AssetRow /\ edit[c] \in Edit /\ editRead[c] \in AssetRow
  BY DEF WriteAsset, EditIsGuarded, ContentTypeOK
<1>2. /\ editPc[c] = "write" /\ AssetLive(a)
      /\ asset' = [asset EXCEPT ![a] = Written(asset[a], editRead[c], edit[c])]
      /\ UNCHANGED approved /\ EditReturn(c)
  BY DEF WriteAsset
<1>3. LET row == Written(asset[a], editRead[c], edit[c]) IN
        /\ row.status = asset[a].status /\ row.link = asset[a].link
        /\ row.published = Given(edit[c].published, asset[a].published)
  BY <1>1 DEF Written, Prospective, AssetRow
<1>4. /\ asset'[a].status = asset[a].status /\ asset'[a].link = asset[a].link
      /\ asset'[a].published = Given(edit[c].published, asset[a].published)
      /\ \A b \in Assets \ {a} : asset'[b] = asset[b]
  BY <1>1, <1>2, <1>3 DEF ContentTypeOK
<1>5. \A b \in Assets : asset'[b].status = asset[b].status /\ asset'[b].link = asset[b].link
  BY <1>4
<1>6. AssetsHaveLinks'
  BY <1>5 DEF DestinationInv, AssetsHaveLinks
<1>7. asset'[a].published => MayLead(a)
  <2>1. edit[c].published = TRUE => MayLead(a)
    BY <1>2 DEF DestinationInv, UpdatesMayLead
  <2>2. asset[a].published => MayLead(a)
    BY <1>1 DEF DestinationInv, PublishedMayLead
  <2>3. edit[c].published \in BOOLEAN \cup {Keep} /\ asset[a].published \in BOOLEAN
    BY <1>1 DEF Edit, AssetRow
  <2>. QED BY <1>4, <2>1, <2>2, <2>3 DEF Given
<1>8. PublishedMayLead'
  <2>. SUFFICES ASSUME NEW b \in Assets, asset'[b].published
                PROVE  asset'[b].status # "absent" /\ MayLead(b)'
    BY DEF PublishedMayLead
  <2>1. asset[b].status # "absent" /\ MayLead(b)
    BY <1>2, <1>4, <1>7 DEF DestinationInv, PublishedMayLead, AssetLive
  <2>. QED BY <1>2, <1>5, <2>1 DEF MayLead
<1>9. UpdatesMayLead'
  <2>1. \A d \in Clients :
          \/ editPc'[d] = "idle"
          \/ /\ editPc'[d] = editPc[d] /\ editOf'[d] = editOf[d]
             /\ editRead'[d] = editRead[d] /\ edit'[d] = edit[d]
    BY <1>2 DEF EditReturn, ContentTypeOK
  <2>. QED
    BY <1>2, <1>5, <2>1 DEF DestinationInv, UpdatesMayLead, MayLead, EditIsGuarded
<1>. QED BY <1>6, <1>8, <1>9 DEF DestinationInv

LEMMA ContentDestination ==
  ASSUME PublishingInv, DestinationInv, NEW c \in Clients, ContentStep(c), UNCHANGED link
  PROVE  DestinationInv'
<1>. USE DEF PublishingInv
<1>0. DestinationsKept
  BY DEF DestinationsKept
<1>1. ASSUME NEW a \in Assets, NEW t \in Texts, NEW l \in Links, CreateAsset(c, a, t, l)
      PROVE  DestinationInv'
  <2>. DEFINE new == [status |-> "live", text |-> t, link |-> l, published |-> FALSE,
                      dated |-> FALSE, disclosed |-> FALSE]
  <2>1. /\ asset[a].status = "absent" /\ Live(l) /\ asset' = [asset EXCEPT ![a] = new]
        /\ UNCHANGED <<approved, editVars>>
    BY <1>1 DEF CreateAsset
  <2>2. asset'[a] = new /\ \A b \in Assets \ {a} : asset'[b] = asset[b]
    BY <2>1 DEF ContentTypeOK
  <2>3. new.link = l /\ ~new.published /\ new.status = "live"
    OBVIOUS
  <2>. HIDE DEF new
  <2>4. LinksOfAssetsKept
    BY <2>1, <2>2 DEF LinksOfAssetsKept
  <2>. QED
    BY <1>0, <2>1, <2>2, <2>3, <2>4, QuietStep DEF Live, editVars
<1>2. ASSUME NEW a \in Assets, GrantApproval(c, a)
      PROVE  DestinationInv'
  <2>1. approved' = approved \cup {a} /\ UNCHANGED <<asset, editVars>>
    BY <1>2 DEF GrantApproval
  <2>2. LinksOfAssetsKept
    BY <2>1 DEF LinksOfAssetsKept
  <2>. QED BY <1>0, <2>1, <2>2, QuietStep DEF editVars
<1>3. ASSUME NEW a \in Assets, RemoveAsset(c, a)
      PROVE  DestinationInv'
  <2>1. /\ AssetLive(a) /\ asset' = [asset EXCEPT ![a].status = "removed"]
        /\ UNCHANGED <<approved, editVars>>
    BY <1>3 DEF RemoveAsset
  <2>2. /\ asset'[a].status = "removed" /\ asset'[a].link = asset[a].link
        /\ asset'[a].published = asset[a].published
        /\ \A b \in Assets \ {a} : asset'[b] = asset[b]
    BY <2>1 DEF ContentTypeOK, AssetRow
  <2>3. LinksOfAssetsKept
    BY <2>1, <2>2 DEF LinksOfAssetsKept
  <2>. QED BY <1>0, <2>1, <2>2, <2>3, QuietStep DEF editVars, AssetLive
<1>4. ASSUME EditFails(c)
      PROVE  DestinationInv'
  <2>1. EditReturn(c) /\ UNCHANGED <<asset, approved>>
    BY <1>4 DEF EditFails
  <2>2. LinksOfAssetsKept
    BY <2>1 DEF LinksOfAssetsKept
  <2>3. \A d \in Clients :
          \/ editPc'[d] = "idle"
          \/ /\ editPc'[d] = editPc[d] /\ editOf'[d] = editOf[d]
             /\ editRead'[d] = editRead[d] /\ edit'[d] = edit[d]
    BY <2>1 DEF EditReturn, ContentTypeOK
  <2>. QED BY <1>0, <2>1, <2>2, <2>3, QuietStep
<1>. QED
  BY <1>1, <1>2, <1>3, <1>4, LoadDestination, AskDestination, WriteDestination DEF ContentStep

\* A link that goes takes its assets along, and those keep what they had.
LEMMA CascadeDestination ==
  ASSUME PublishingInv, DestinationInv, LinksNext, NEW gone, CascadeToAssets(gone)
  PROVE  DestinationInv'
<1>. USE DEF PublishingInv
<1>1. DestinationsKept
  BY LinksKeepDestinations DEF LinksNext
<1>2. /\ asset' = [a \in Assets |-> IF AssetLive(a) /\ asset[a].link \in gone
                                    THEN [asset[a] EXCEPT !.status = "removed"] ELSE asset[a]]
      /\ UNCHANGED <<approved, editVars>>
  BY DEF CascadeToAssets
<1>3. \A a \in Assets : /\ asset'[a].link = asset[a].link
                        /\ asset'[a].published = asset[a].published
                        /\ asset[a].status = "absent" <=> asset'[a].status = "absent"
  BY <1>2 DEF ContentTypeOK, AssetRow, AssetLive
<1>4. LinksOfAssetsKept
  BY <1>2, <1>3 DEF LinksOfAssetsKept
<1>. QED BY <1>1, <1>2, <1>3, <1>4, QuietStep DEF editVars

\* No published asset without an approval leads to a host the gate does not
\* list, whatever updates crossed and although a row read as published is not
\* gated again: links keep their destination and assets their link.
THEOREM PublishedListed == Spec => []PublishedLinkIsListed
<1>1. LinksInit /\ ContentInit => DestinationInv
  BY DestinationInit
<1>2. PublishingInv /\ DestinationInv /\ [PublishingNext]_<<linkVars, contentVars>>
        => DestinationInv'
  <2>. SUFFICES ASSUME PublishingInv, DestinationInv, [PublishingNext]_<<linkVars, contentVars>>
                PROVE  DestinationInv'
    OBVIOUS
  <2>1. CASE LinksNext /\ CascadeToAssets(GoneLinks)
    BY <2>1, CascadeDestination
  <2>2. ASSUME NEW c \in Clients, ContentStep(c), UNCHANGED linkVars
        PROVE  DestinationInv'
    BY <2>2, ContentDestination DEF linkVars
  <2>3. CASE UNCHANGED <<linkVars, contentVars>>
    BY <2>3
    DEF linkVars, contentVars, DestinationInv, AssetsHaveLinks, PublishedMayLead,
        UpdatesMayLead, MayLead
  <2>. QED BY <2>1, <2>2, <2>3 DEF PublishingNext
<1>3. DestinationInv => PublishedLinkIsListed
  BY DEF DestinationInv, PublishedMayLead, MayLead, PublishedLinkIsListed
<1>. QED
  BY <1>1, <1>2, <1>3, RefinesPublishing, PublishingInvariant, PTL DEF PublishingSpec

-----------------------------------------------------------------------------
(* The rows that reports read *)

\* Money is booked for a reconciled event, unless two decisions on it overlapped.
BookedIsReconciled == \A e \in Events :
  profit[e] # NoProfit /\ e \notin overlapped => event[e].status = "reconciled"

\* What is recorded is worth something.
RecordedIsPositive == \A e \in Events : Exists(e) => event[e].value \in Values

\* A link that an event names is there; one that is not there has no clicks.
LinksResolve ==
  /\ \A e \in Events : event[e].link = NoLink \/ Live(event[e].link)
  /\ \A l \in Links : ~Live(l) => clicks[l] = 0

\* A settlement's net profit is what was computed from its lines.
NetIsComputed == \A s \in Rows : settlement[s].net = NetOf(settlement[s].lines)

FiguresInv == BookedIsReconciled /\ RecordedIsPositive /\ LinksResolve /\ NetIsComputed

LedgersInv == RevenueInv /\ SellerInv /\ PublishingInv

LEMMA FiguresInit == LedgersInv /\ Init => FiguresInv
<1>. SUFFICES ASSUME LedgersInv, Init PROVE FiguresInv
  OBVIOUS
<1>1. BookedIsReconciled
  BY DEF Init, RevenueInit, BookedIsReconciled
<1>2. PICK v \in Values :
        event = [e \in Events |->
                   IF e \in DOMAIN Recorded
                   THEN [AbsentEvent EXCEPT !.status = "pending", !.value = v, !.link = Recorded[e]]
                   ELSE AbsentEvent]
  BY DEF Init, RevenueInit
<1>3. ASSUME NEW e \in Events
      PROVE  /\ Exists(e) => event[e].value \in Values
             /\ event[e].link = IF e \in DOMAIN Recorded THEN Recorded[e] ELSE NoLink
  BY <1>2 DEF Exists, AbsentEvent
<1>4. \A l \in Links : (Live(l) <=> l \in Published) /\ clicks[l] = 0
  BY DEF Init, LinksInit, Live
<1>5. LinksResolve
  BY <1>3, <1>4, RowsAssumption, LinksAssumption DEF LinksResolve
<1>6. NetIsComputed
  BY DEF Init, SellerInit, NetIsComputed, Rows
<1>. QED BY <1>1, <1>3, <1>5, <1>6 DEF FiguresInv, RecordedIsPositive

\* A decision settles what its event is: booked, or rejected while no profit is.
LEMMA BookedStep ==
  ASSUME RevenueInv, BookedIsReconciled, NEW c \in Clients, RevenueStep(c)
  PROVE  BookedIsReconciled'
<1>. USE DEF RevenueInv, RevenueTypeOK
<1>1. ASSUME NEW k \in Key, FindEvent(c, k)
      PROVE  BookedIsReconciled'
  BY <1>1 DEF FindEvent, BookedIsReconciled
<1>2. ASSUME NEW e \in Events, NEW v \in Values, NEW l \in Links \cup {NoLink}, InsertEvent(c, e, v, l)
      PROVE  BookedIsReconciled'
  BY <1>2 DEF InsertEvent, BookedIsReconciled, Exists
<1>3. ASSUME NEW e \in Events, NEW d \in {"reconcile", "reject"}, LoadEvent(c, e, d)
      PROVE  BookedIsReconciled'
  BY <1>3 DEF LoadEvent, BookedIsReconciled
<1>4. ASSUME NEW m \in Evidence, Reconcile(c, m)
      PROVE  BookedIsReconciled'
  <2>1. revEvent[c] \in Events
    BY <1>4 DEF Reconcile, HoldsWhileDeciding
  <2>. QED BY <1>4, <2>1 DEF Reconcile, Book, BookedIsReconciled
<1>5. CASE Reject(c)
  <2>1. revEvent[c] \in Events
    BY <1>5 DEF Reject, HoldsWhileDeciding
  <2>2. revEvent[c] \notin overlapped => event[revEvent[c]].status = "pending"
    BY <2>1, RevenueAssumption DEF HeldIsPending
  <2>. QED BY <1>5, <2>1, <2>2 DEF Reject, BookedIsReconciled
<1>6. CASE RevenueRequestFails(c)
  BY <1>6 DEF RevenueRequestFails, BookedIsReconciled
<1>. QED BY <1>1, <1>2, <1>3, <1>4, <1>5, <1>6 DEF RevenueStep

\* A request records or decides an event; of its value and link it changes
\* nothing but by recording it.
LEMMA ValueStep ==
  ASSUME RevenueInv, RecordedIsPositive, NEW c \in Clients, RevenueStep(c)
  PROVE  RecordedIsPositive'
<1>. USE DEF RevenueInv, RevenueTypeOK
<1>1. ASSUME NEW e \in Events, NEW v \in Values, NEW l \in Links \cup {NoLink}, InsertEvent(c, e, v, l)
      PROVE  RecordedIsPositive'
  BY <1>1 DEF InsertEvent, RecordedIsPositive, Exists
<1>2. ASSUME NEW status, NEW e \in Events, Exists(e), event' = [event EXCEPT ![e].status = status]
      PROVE  RecordedIsPositive'
  BY <1>2 DEF RecordedIsPositive, Exists
<1>3. CASE Reject(c) \/ \E m \in Evidence : Reconcile(c, m)
  <2>1. revEvent[c] \in Events /\ Exists(revEvent[c])
    BY <1>3, RevenueAssumption DEF Reject, Reconcile, HoldsWhileDeciding, HeldExists
  <2>. QED BY <1>2, <1>3, <2>1 DEF Reject, Reconcile
<1>4. CASE UNCHANGED event
  BY <1>4 DEF RecordedIsPositive, Exists
<1>. QED
  BY <1>1, <1>3, <1>4 DEF RevenueStep, FindEvent, LoadEvent, RevenueRequestFails

\* At most one link goes in a step.
LEMMA LinkGone ==
  ASSUME PublishingInv, NEW c \in Clients, LinkStep(c)
  PROVE  /\ \A l \in Links : Live(l) /\ ~Live(l)' => l \in GoneLinks
         /\ \A l, m \in GoneLinks : l = m
<1>. USE DEF PublishingInv, LinksTypeOK, LinkRow
<1>1. ASSUME NEW l \in Links, NEW campaign \in Campaigns, NEW to \in Destinations,
             CreateLink(c, l, campaign, to)
      PROVE  \A k \in Links : Live(k) => link'[k] = link[k]
  BY <1>1 DEF CreateLink, Live
<1>2. CASE DeleteLink(c)
  <2>1. linkOf[c] \in Links
    BY <1>2 DEF DeleteLink, LinkHeld
  <2>2. /\ \A k \in Links \ {linkOf[c]} : link'[k] = link[k]
        /\ link'[linkOf[c]].status = "removed"
    BY <1>2, <2>1 DEF DeleteLink
  <2>. QED BY <2>1, <2>2 DEF Live, GoneLinks
<1>3. CASE \A k \in Links : Live(k) => link'[k] = link[k]
  BY <1>3 DEF Live, GoneLinks
<1>. QED
  BY <1>1, <1>2, <1>3 DEF LinkStep, LoadForClick, LoadForDelete, RecordClick, LinkRequestFails

LEMMA ClicksStep ==
  ASSUME PublishingInv, LinksResolve, NEW c \in Clients, LinkStep(c)
  PROVE  \A l \in Links : ~Live(l)' => clicks'[l] = 0
<1>. USE DEF PublishingInv, LinksTypeOK, LinkRow
<1>1. ASSUME NEW l \in Links, NEW campaign \in Campaigns, NEW to \in Destinations,
             CreateLink(c, l, campaign, to)
      PROVE  \A k \in Links : ~Live(k)' => clicks'[k] = 0
  BY <1>1 DEF CreateLink, Live, LinksResolve
<1>2. CASE DeleteLink(c)
  <2>1. linkOf[c] \in Links
    BY <1>2 DEF DeleteLink, LinkHeld
  <2>. QED BY <1>2, <2>1 DEF DeleteLink, Live, LinksResolve
<1>3. CASE RecordClick(c)
  BY <1>3 DEF RecordClick, Live, LinksResolve
<1>4. CASE UNCHANGED <<link, clicks>>
  BY <1>4 DEF Live, LinksResolve
<1>. QED
  BY <1>1, <1>2, <1>3, <1>4 DEF LinkStep, LoadForClick, LoadForDelete, LinkRequestFails

LEMMA NetStep ==
  ASSUME SellerInv, NetIsComputed, NEW c \in Clients, SellerStep(c)
  PROVE  NetIsComputed'
<1>. USE DEF SellerInv, SellerTypeOK
<1>1. ASSUME NEW s \in Settlements, InsertSettlement(c, s)
      PROVE  NetIsComputed'
  <2>. DEFINE row == [key |-> sellerReq[c].key, lines |-> sellerReq[c].lines,
                      net |-> NetOf(sellerReq[c].lines)]
  <2>1. settlement' = [settlement EXCEPT ![s] = row]
    BY <1>1 DEF InsertSettlement
  <2>2. row.net = NetOf(row.lines)
    OBVIOUS
  <2>. HIDE DEF row
  <2>3. \A t \in Settlements : settlement'[t] = IF t = s THEN row ELSE settlement[t]
    BY <2>1
  <2>. QED BY <2>2, <2>3 DEF NetIsComputed, Rows, NetOf
<1>2. CASE UNCHANGED settlement
  BY <1>2 DEF NetIsComputed, Rows, NetOf
<1>. QED
  BY <1>1, <1>2 DEF SellerStep, ReadStock, FindStockRow, SaveStock, FindOrder, InsertOrder,
    FindReturn, InsertReturn, FindSettlement, InsertListing, InsertVersion, SetListingStatus,
    SellerRequestFails

\* The removal of a link changes of an event nothing but the link it names.
LEMMA UnlinkKeeps ==
  ASSUME RevenueInv, BookedIsReconciled, RecordedIsPositive, NEW l \in Links, UnlinkEvents(l)
  PROVE  /\ BookedIsReconciled' /\ RecordedIsPositive'
         /\ \A e \in Events : event'[e].link = IF event[e].link = l THEN NoLink ELSE event[e].link
<1>. USE DEF RevenueInv, RevenueTypeOK
<1>1. /\ UNCHANGED <<profit, overlapped>>
      /\ \A e \in Events : /\ event'[e].status = event[e].status
                           /\ event'[e].value = event[e].value
                           /\ event'[e].link = IF event[e].link = l THEN NoLink ELSE event[e].link
  BY DEF UnlinkEvents
<1>. QED BY <1>1 DEF BookedIsReconciled, RecordedIsPositive, Exists

LEMMA FiguresStep ==
  ASSUME LedgersInv, FiguresInv, [Next]_vars
  PROVE  FiguresInv'
<1>. USE DEF LedgersInv, FiguresInv
<1>1. UNCHANGED sellerVars => NetIsComputed'
  BY DEF sellerVars, NetIsComputed, Rows, NetOf
<1>2. UNCHANGED revenueVars => BookedIsReconciled' /\ RecordedIsPositive'
  BY DEF revenueVars, BookedIsReconciled, RecordedIsPositive, Exists
<1>3. UNCHANGED <<revenueVars, linkVars>> => LinksResolve'
  BY DEF revenueVars, linkVars, LinksResolve, Live
<1>4. ASSUME NEW c \in Clients, RevenueStep(c), NamesLiveLinks, UNCHANGED <<sellerVars, linkVars>>
      PROVE  FiguresInv'
  <2>1. LinksResolve'
    BY <1>4 DEF NamesLiveLinks, linkVars, LinksResolve, Live
  <2>. QED BY <1>1, <1>4, <2>1, BookedStep, ValueStep
<1>5. ASSUME NEW c \in Clients, SellerStep(c), UNCHANGED <<revenueVars, linkVars>>
      PROVE  FiguresInv'
  BY <1>2, <1>3, <1>5, NetStep
<1>6. ASSUME NEW c \in Clients, LinkStep(c), LinkRemovedFor(GoneLinks), UNCHANGED sellerVars
      PROVE  FiguresInv'
  <2>1. \A l \in Links : ~Live(l)' => clicks'[l] = 0
    BY <1>6, ClicksStep
  <2>2. /\ \A l \in Links : Live(l) /\ ~Live(l)' => l \in GoneLinks
        /\ \A l, m \in GoneLinks : l = m
    BY <1>6, LinkGone
  <2>3. GoneLinks \subseteq Links /\ \A e \in Events : event[e].link \in Links \cup {NoLink}
    BY DEF GoneLinks, RevenueInv, RevenueTypeOK
  <2>4. CASE GoneLinks = {}
    <3>1. UNCHANGED revenueVars
      BY <1>6, <2>4 DEF LinkRemovedFor
    <3>2. UNCHANGED event
      BY <3>1 DEF revenueVars
    <3>3. \A e \in Events : event'[e].link = NoLink \/ Live(event[e].link)'
      BY <2>2, <2>3, <2>4, <3>2 DEF LinksResolve
    <3>4. LinksResolve'
      BY <2>1, <3>2, <3>3 DEF LinksResolve, Live
    <3>. QED BY <1>1, <1>2, <1>6, <3>1, <3>4
  <2>5. CASE GoneLinks # {}
    <3>1. PICK l \in GoneLinks : UnlinkEvents(l)
      BY <1>6, <2>5 DEF LinkRemovedFor
    <3>2. \A e \in Events : event'[e].link = IF event[e].link = l THEN NoLink ELSE event[e].link
      BY <2>3, <3>1, UnlinkKeeps
    <3>3. \A m \in Links : Live(m) /\ m # l => Live(m)'
      BY <2>2, <3>1
    <3>4. \A e \in Events : event'[e].link = NoLink \/ link'[event'[e].link].status = "live"
      BY <2>3, <3>2, <3>3 DEF LinksResolve, Live
    <3>5. LinksResolve'
      BY <2>1, <3>4 DEF LinksResolve, Live
    <3>. QED BY <1>1, <1>6, <2>3, <3>1, <3>5, UnlinkKeeps
  <2>. QED BY <2>4, <2>5
<1>7. CASE UNCHANGED <<revenueVars, sellerVars, linkVars>>
  BY <1>1, <1>2, <1>3, <1>7
<1>. QED BY <1>4, <1>5, <1>6, <1>7 DEF Next, vars, SellerNext, LinksNext

-----------------------------------------------------------------------------
(* Reports *)

\* The answers of a report nothing has crossed are what the queries answer now.
AnswersAreCurrent(report) ==
  \A q \in DOMAIN report.got : report.got[q] = Answer(q)

SnapshotInv ==
  /\ reading # NoAnswers => reading.view \in Views
  /\ reading = [view |-> reading.view, got |-> reading.got]
  /\ quiet => AnswersAreCurrent(reading)
  /\ shown.report.view # NoReport =>
       shown.report.view \in Views /\ DOMAIN shown.report.got = Queries(shown.report.view)
  /\ shown.quiet => AnswersAreCurrent(shown.report)

LEMMA SnapshotInit == Init => SnapshotInv
BY DEF Init, ReportsInit, NothingShown, NoAnswers, SnapshotInv, AnswersAreCurrent

\* What a query answers depends on the rows only.
LEMMA AnswerSame ==
  ASSUME UNCHANGED ledgerVars, NEW q
  PROVE  Answer(q)' = Answer(q)
BY DEF ledgerVars, Answer, Counted, Reconciled, Booked, Rows, AssetLive, Live, NetProfit

LEMMA DisturbKeeps ==
  ASSUME SnapshotInv, Disturb
  PROVE  SnapshotInv'
<1>1. reading' = reading /\ shown' = NothingShown
      /\ (quiet' => quiet /\ (reading = NoAnswers \/ UNCHANGED ledgerVars))
  BY DEF Disturb
<1>2. quiet' => AnswersAreCurrent(reading)'
  <2>1. CASE reading = NoAnswers
    BY <1>1, <2>1 DEF AnswersAreCurrent, NoAnswers
  <2>2. CASE quiet' /\ UNCHANGED ledgerVars
    BY <1>1, <2>2, AnswerSame DEF SnapshotInv, AnswersAreCurrent
  <2>. QED BY <1>1, <2>1, <2>2
<1>3. AnswersAreCurrent(shown.report)'
  BY <1>1 DEF AnswersAreCurrent, NothingShown, NoAnswers
<1>4. shown.report.view' = NoReport
  BY <1>1 DEF NothingShown, NoAnswers
<1>. QED BY <1>1, <1>2, <1>3, <1>4 DEF SnapshotInv

LEMMA SnapshotStep ==
  ASSUME SnapshotInv, [Next]_vars
  PROVE  SnapshotInv'
<1>1. CASE Disturb
  BY <1>1, DisturbKeeps
<1>2. ASSUME NEW view \in Views, BeginReport(view), UNCHANGED ledgerVars
      PROVE  SnapshotInv'
  <2>1. reading' = [view |-> view, got |-> <<>>] /\ shown' = NothingShown
    BY <1>2 DEF BeginReport, NoAnswers
  <2>2. DOMAIN <<>> = {}
    OBVIOUS
  <2>3. AnswersAreCurrent(reading)' /\ AnswersAreCurrent(shown.report)'
    BY <2>1, <2>2 DEF AnswersAreCurrent, NothingShown, NoAnswers
  <2>. QED BY <2>1, <2>3 DEF SnapshotInv, NothingShown, NoAnswers
<1>3. ASSUME NEW q, AnswerQuery(q), UNCHANGED ledgerVars
      PROVE  SnapshotInv'
  <2>. DEFINE got == [x \in DOMAIN reading.got \cup {q} |->
                        IF x = q THEN Answer(q) ELSE reading.got[x]]
              full == [reading EXCEPT !.got = got]
  <2>1. /\ reading # NoAnswers
        /\ \/ /\ DOMAIN got = Queries(reading.view)
              /\ reading' = NoAnswers /\ quiet' = TRUE
              /\ shown' = [report |-> full, quiet |-> quiet]
           \/ reading' = full /\ shown' = NothingShown /\ quiet' = quiet
    BY <1>3 DEF AnswerQuery
  <2>2. full = [view |-> reading.view, got |-> got]
    BY DEF SnapshotInv
  <2>3. reading.view \in Views
    BY <2>1 DEF SnapshotInv
  <2>4. quiet => \A x \in DOMAIN got : got[x] = Answer(x)'
    BY <1>3, AnswerSame DEF SnapshotInv, AnswersAreCurrent
  <2>. HIDE DEF got, full
  <2>5. CASE /\ DOMAIN got = Queries(reading.view)
             /\ reading' = NoAnswers /\ quiet' = TRUE
             /\ shown' = [report |-> full, quiet |-> quiet]
    <3>1. shown'.report = full /\ shown'.quiet = quiet
      BY <2>5
    <3>2. AnswersAreCurrent(reading)' /\ (quiet => AnswersAreCurrent(shown.report)')
      BY <2>2, <2>4, <2>5, <3>1 DEF AnswersAreCurrent, NoAnswers
    <3>3. shown'.report.view = reading.view /\ shown'.report.got = got
      BY <2>2, <3>1
    <3>4. reading' = [view |-> reading'.view, got |-> reading'.got]
      BY <2>5 DEF NoAnswers
    <3>5. (reading # NoAnswers => reading.view \in Views)'
      BY <2>5 DEF NoAnswers
    <3>6. DOMAIN shown'.report.got = Queries(shown'.report.view)
      BY <2>5, <3>3
    <3>. QED BY <2>3, <3>1, <3>2, <3>3, <3>4, <3>5, <3>6 DEF SnapshotInv
  <2>6. CASE reading' = full /\ shown' = NothingShown /\ quiet' = quiet
    <3>1. (quiet => AnswersAreCurrent(reading)') /\ AnswersAreCurrent(shown.report)'
      BY <2>2, <2>4, <2>6 DEF AnswersAreCurrent, NoAnswers, NothingShown
    <3>2. shown'.report.view = NoReport
      BY <2>6 DEF NoAnswers, NothingShown
    <3>3. reading' = [view |-> reading.view, got |-> got]
      BY <2>2, <2>6
    <3>4. reading' = [view |-> reading'.view, got |-> reading'.got] /\ reading'.view \in Views
      BY <2>3, <3>3
    <3>. QED BY <2>6, <3>1, <3>2, <3>4 DEF SnapshotInv
  <2>. QED BY <2>1, <2>5, <2>6
<1>4. CASE UNCHANGED vars
  <2>1. UNCHANGED <<ledgerVars, reading, quiet, shown>>
    BY <1>4 DEF vars, reportVars, ledgerVars, revenueVars, sellerVars, linkVars, contentVars
  <2>. QED BY <2>1, AnswerSame DEF SnapshotInv, AnswersAreCurrent
<1>5. UNCHANGED <<revenueVars, sellerVars, linkVars, contentVars>> => UNCHANGED ledgerVars
  BY DEF ledgerVars, revenueVars, sellerVars, linkVars, contentVars
<1>. QED BY <1>1, <1>2, <1>3, <1>4, <1>5 DEF Next, ReportStep

-----------------------------------------------------------------------------
(* Figures *)

LEMMA SumOfIsSum == ASSUME NEW f PROVE SumOf(f) = SumOver(f, DOMAIN f)
BY DEF SumOf, SumOver

\* The rows a report reads: finitely many, each with a value of its own.
LEMMA RowsRead ==
  ASSUME LedgersInv, FiguresInv
  PROVE  /\ IsFiniteSet(Reconciled) /\ IsFiniteSet(Booked) /\ IsFiniteSet(Rows)
         /\ \A e \in Reconciled : e \in Events /\ event[e].value \in Nat /\ event[e].value > 0
         /\ \A e \in Booked : NetProfit(profit[e]) \in Int
         /\ \A s \in Rows : settlement[s] \in SettlementRow
<1>1. IsFiniteSet(Events) /\ IsFiniteSet(Settlements)
  BY RowsAssumption
<1>2. IsFiniteSet(Reconciled) /\ IsFiniteSet(Booked) /\ IsFiniteSet(Rows)
  BY <1>1, FS_Subset DEF Reconciled, Booked, Rows
<1>3. ASSUME NEW e \in Reconciled
      PROVE  e \in Events /\ event[e].value \in Nat /\ event[e].value > 0
  <2>1. e \in Events /\ Exists(e)
    BY DEF Reconciled, Exists
  <2>2. Values \subseteq Nat \ {0}
    BY RevenueAssumption
  <2>3. event[e].value \in Values
    BY <2>1 DEF FiguresInv, RecordedIsPositive
  <2>4. event[e].value \in Nat /\ event[e].value # 0
    BY <2>2, <2>3
  <2>5. \A n \in Nat : n # 0 => n > 0
    OBVIOUS
  <2>. QED BY <2>1, <2>4, <2>5
<1>4. ASSUME NEW e \in Booked
      PROVE  NetProfit(profit[e]) \in Int
  <2>1. profit[e] \in [gross : Nat, fee : Nat, cost : Nat]
    BY RevenueAssumption DEF Booked, LedgersInv, RevenueInv, RevenueTypeOK
  <2>. QED BY <2>1 DEF NetProfit
<1>5. \A s \in Rows : settlement[s] \in SettlementRow
  BY DEF Rows, LedgersInv, SellerInv, SellerTypeOK
<1>. QED BY <1>2, <1>3, <1>4, <1>5

\* A sum of amounts is known exactly when there is something to sum.
LEMMA KnownSum ==
  ASSUME NEW S, IsFiniteSet(S), NEW f, DOMAIN f = S, \A x \in S : f[x] \in Int
  PROVE  /\ SumOrNull(f) = Null <=> S = {}
         /\ S # {} => SumOrNull(f) = SumOver(f, S) /\ SumOver(f, S) \in Int
         /\ IsKnown(Measured(SumOrNull(f))) <=> S # {}
         /\ IsKnown(Measured(SumOrNull(f))) => Measured(SumOrNull(f)).value = SumOver(f, S)
<1>1. SumOver(f, S) \in Int /\ SumOf(f) = SumOver(f, S)
  BY SumType, SumOfIsSum
<1>2. SumOver(f, S) # Unknown
  BY <1>1, SellerAssumption
<1>3. IsKnown(Known(SumOver(f, S))) /\ ~IsKnown(NotKnown) /\ Known(SumOver(f, S)).value = SumOver(f, S)
  BY DEF IsKnown, Known, NotKnown
<1>. QED BY <1>1, <1>2, <1>3 DEF SumOrNull, Null, Measured

\* Unless decisions overlapped, what is booked is what is reconciled.
LEMMA BookedAreReconciled ==
  ASSUME LedgersInv, FiguresInv, overlapped = {}
  PROVE  Booked = Reconciled
BY DEF LedgersInv, RevenueInv, ReconciledHasProfit, FiguresInv, BookedIsReconciled, Booked, Reconciled

LEMMA AffiliateBacked ==
  ASSUME LedgersInv, FiguresInv, NEW got, \A q \in Queries("affiliate") : got[q] = Answer(q)
  PROVE  AffiliateIsBacked(got)
<1>. DEFINE values == [e \in Reconciled |-> event[e].value]
            f == AffiliateFigures(got)
<1>1. /\ got["revenueSum"] = SumOrNull(values)
      /\ got["conversions"] = Cardinality(Reconciled)
      /\ got["profits"] = [e \in Booked |-> NetProfit(profit[e])]
  BY DEF Queries, Answer, Counted
<1>2. IsFiniteSet(Reconciled) /\ \A e \in Reconciled : values[e] \in Int
  BY RowsRead
<1>3. Cardinality(Reconciled) \in Nat /\ (Cardinality(Reconciled) = 0 <=> Reconciled = {})
  BY <1>2, FS_CardinalityType, FS_EmptySet
<1>4. f.commission = Measured(got["revenueSum"])
      /\ f.conversions = IF got["conversions"] > 0 THEN Known(got["conversions"]) ELSE NotKnown
  BY DEF AffiliateFigures
<1>. HIDE DEF values, f
<1>5. IsKnown(f.commission) <=> Reconciled # {}
  <2>1. DOMAIN values = Reconciled
    BY DEF values
  <2>. QED BY <1>1, <1>2, <1>4, <2>1, KnownSum
<1>6. IsKnown(f.conversions) <=> Reconciled # {}
  BY <1>1, <1>3, <1>4 DEF IsKnown, Known, NotKnown
<1>7. overlapped = {} => Cardinality(DOMAIN got["profits"]) = got["conversions"]
  BY <1>1, BookedAreReconciled
<1>. QED BY <1>5, <1>6, <1>7 DEF AffiliateIsBacked, f

LEMMA CampaignBacked ==
  ASSUME NEW got, \A q \in Queries("campaign") : got[q] = Answer(q)
  PROVE  CampaignIsBacked(got)
<1>. DEFINE live == {a \in Assets : AssetLive(a)}
            public == {a \in Assets : AssetLive(a) /\ asset[a].published}
<1>1. /\ got["campaignRevenue"] = got["revenueSum"]
      /\ got["assets"] = Cardinality(live) /\ got["published"] = Cardinality(public)
  BY DEF Queries, Answer
<1>2. IsFiniteSet(live) /\ public \in SUBSET live
  BY RowsAssumption, FS_Subset
<1>3. Cardinality(public) <= Cardinality(live)
  BY <1>2, FS_Subset
<1>. HIDE DEF live, public
<1>. QED BY <1>1, <1>3 DEF CampaignIsBacked, CampaignFigures, Known

-----------------------------------------------------------------------------
\* The sum of an amount over the settlements, when every one states it.
LEMMA StatedTotal ==
  ASSUME NEW amounts, IsFiniteSet(DOMAIN amounts),
         \A s \in DOMAIN amounts : amounts[s] \in Int \cup {Unknown}
  PROVE  /\ IsKnown(TotalOf(amounts)) <=> AllStated(amounts)
         /\ AllStated(amounts) =>
              /\ TotalOf(amounts) = Known(SumOver(amounts, DOMAIN amounts))
              /\ TotalOf(amounts).value = SumOver(amounts, DOMAIN amounts)
              /\ \A s \in DOMAIN amounts : amounts[s] \in Int
              /\ SumOver(amounts, DOMAIN amounts) \in Int
<1>1. AllStated(amounts) => \A s \in DOMAIN amounts : amounts[s] \in Int
  BY DEF AllStated
<1>2. AllStated(amounts) => SumOver(amounts, DOMAIN amounts) \in Int
  BY <1>1, SumType
<1>. QED BY <1>1, <1>2, SumOfIsSum DEF TotalOf, IsKnown, Known, NotKnown

\* Net profits computed one by one add up to the net of the totals.
LEMMA NetIsAdditive ==
  ASSUME NEW S, IsFiniteSet(S), NEW line, NEW net,
         \A kind \in Kinds : \A s \in S : line[kind][s] \in Int,
         \A s \in S : net[s] = line["revenue"][s] - line["cogs"][s] - line["fees"][s]
                               - line["shipping"][s] - line["refunds"][s] - line["other"][s]
  PROVE  SumOver(net, S) =
           SumOver(line["revenue"], S) - SumOver(line["cogs"], S) - SumOver(line["fees"], S)
           - SumOver(line["shipping"], S) - SumOver(line["refunds"], S) - SumOver(line["other"], S)
<1>. DEFINE a == [s \in S |-> line["revenue"][s] - line["cogs"][s]]
            b == [s \in S |-> a[s] - line["fees"][s]]
            c == [s \in S |-> b[s] - line["shipping"][s]]
            d == [s \in S |-> c[s] - line["refunds"][s]]
<1>1. \A s \in S : /\ line["revenue"][s] \in Int /\ line["cogs"][s] \in Int /\ line["fees"][s] \in Int
                   /\ line["shipping"][s] \in Int /\ line["refunds"][s] \in Int
                   /\ line["other"][s] \in Int
  BY DEF Kinds
<1>2. \A s \in S : a[s] \in Int /\ b[s] \in Int /\ c[s] \in Int /\ d[s] \in Int
  BY <1>1
<1>3. /\ \A s \in S : a[s] = line["revenue"][s] - line["cogs"][s]
      /\ \A s \in S : b[s] = a[s] - line["fees"][s]
      /\ \A s \in S : c[s] = b[s] - line["shipping"][s]
      /\ \A s \in S : d[s] = c[s] - line["refunds"][s]
      /\ \A s \in S : net[s] = d[s] - line["other"][s]
  BY <1>1
<1>. HIDE DEF a, b, c, d
<1>4. SumOver(a, S) = SumOver(line["revenue"], S) - SumOver(line["cogs"], S)
  BY <1>1, <1>3, SumMinus
<1>5. SumOver(b, S) = SumOver(a, S) - SumOver(line["fees"], S)
  BY <1>1, <1>2, <1>3, SumMinus
<1>6. SumOver(c, S) = SumOver(b, S) - SumOver(line["shipping"], S)
  BY <1>1, <1>2, <1>3, SumMinus
<1>7. SumOver(d, S) = SumOver(c, S) - SumOver(line["refunds"], S)
  BY <1>1, <1>2, <1>3, SumMinus
<1>8. SumOver(net, S) = SumOver(d, S) - SumOver(line["other"], S)
  BY <1>1, <1>2, <1>3, SumMinus
<1>. QED BY <1>4, <1>5, <1>6, <1>7, <1>8, Zenon

LEMMA SellerBacked ==
  ASSUME LedgersInv, FiguresInv, NEW got, \A q \in Queries("seller") : got[q] = Answer(q)
  PROVE  SellerIsBacked(got)
<1>. DEFINE rows == [s \in Rows |-> settlement[s]]
            nets == [s \in DOMAIN rows |-> rows[s].net]
            line == [kind \in Kinds |-> LinesOf(rows, kind)]
            f == SellerFigures(got)
            of(kind) == TotalOf(LinesOf(got["settlements"], kind))
<1>1. /\ got["settlements"] = rows
      /\ got["cogsCount"] = Cardinality(Rows)
      /\ got["cogsSum"] = SumOrNull([s \in {t \in Rows : settlement[t].lines["cogs"] # Unknown}
                                       |-> settlement[s].lines["cogs"]])
  BY DEF Queries, Answer
<1>2. IsFiniteSet(Rows) /\ \A s \in Rows : settlement[s] \in SettlementRow
  BY RowsRead
<1>3. \A s \in Rows : rows[s].net = NetOf(rows[s].lines)
                      /\ rows[s].lines \in [Kinds -> Int \cup {Unknown}]
                      /\ rows[s].net \in Int \cup {Unknown}
  BY <1>2 DEF SettlementRow, FiguresInv, NetIsComputed
<1>4. f.profit = TotalOf(nets) /\ f.cogs = CogsTotal(got)
  BY <1>1 DEF SellerFigures
<1>5. DOMAIN rows = Rows /\ DOMAIN nets = Rows /\ \A s \in Rows : nets[s] = rows[s].net
  OBVIOUS
<1>6. \A kind \in Kinds : /\ line[kind] = LinesOf(rows, kind)
                          /\ DOMAIN LinesOf(rows, kind) = Rows
                          /\ \A s \in Rows : LinesOf(rows, kind)[s] = rows[s].lines[kind]
  BY DEF LinesOf
<1>. SUFFICES ASSUME IsKnown(f.profit)
              PROVE  /\ \A kind \in Kinds : IsKnown(of(kind))
                     /\ f.cogs = of("cogs")
                     /\ f.profit.value = NetOf([kind \in Kinds |-> of(kind).value])
  BY DEF SellerIsBacked
<1>. HIDE DEF rows, nets, line, f
<1>7. AllStated(nets) /\ f.profit.value = SumOver(nets, Rows)
  BY <1>2, <1>3, <1>4, <1>5, StatedTotal
<1>8. Rows # {} /\ \A s \in Rows : rows[s].net # Unknown
  BY <1>5, <1>7 DEF AllStated
<1>9. \A kind \in Kinds : \A s \in Rows : rows[s].lines[kind] # Unknown /\ rows[s].lines[kind] \in Int
  <2>1. \A s \in Rows : \A kind \in Kinds : rows[s].lines[kind] # Unknown
    BY <1>3, <1>8 DEF NetOf
  <2>. QED BY <1>3, <2>1
<1>10. ASSUME NEW kind \in Kinds
       PROVE  /\ IsKnown(of(kind))
              /\ of(kind) = Known(SumOver(line[kind], Rows))
              /\ of(kind).value = SumOver(line[kind], Rows)
              /\ SumOver(line[kind], Rows) \in Int
  <2>1. AllStated(LinesOf(rows, kind))
    BY <1>6, <1>8, <1>9 DEF AllStated
  <2>2. \A s \in DOMAIN LinesOf(rows, kind) : LinesOf(rows, kind)[s] \in Int \cup {Unknown}
    BY <1>6, <1>9
  <2>3. of(kind) = TotalOf(LinesOf(rows, kind))
    BY <1>1
  <2>. QED BY <1>2, <1>6, <2>1, <2>2, <2>3, StatedTotal
<1>11. f.cogs = of("cogs")
  <2>. DEFINE stated == {t \in Rows : settlement[t].lines["cogs"] # Unknown}
              costs == [s \in stated |-> settlement[s].lines["cogs"]]
  <2>1. "cogs" \in Kinds
    BY DEF Kinds
  <2>2. \A s \in Rows : rows[s] = settlement[s]
    BY DEF rows
  <2>3. stated = Rows
    BY <1>9, <2>1, <2>2
  <2>4. DOMAIN costs = Rows /\ \A s \in Rows : costs[s] = rows[s].lines["cogs"]
    BY <2>2, <2>3
  <2>5. got["cogsSum"] = SumOrNull(costs)
    BY <1>1
  <2>. HIDE DEF stated, costs
  <2>6. \A s \in Rows : costs[s] \in Int
    BY <1>9, <2>1, <2>4
  <2>7. got["cogsSum"] = SumOver(costs, Rows) /\ got["cogsSum"] # Null
    BY <1>2, <1>8, <2>4, <2>5, <2>6, KnownSum
  <2>8. SumOver(costs, Rows) = SumOver(line["cogs"], Rows)
    BY <1>2, <1>6, <2>1, <2>4, SumSame
  <2>9. ~(got["cogsCount"] < Cardinality(DOMAIN got["settlements"]))
    <3>1. Cardinality(Rows) \in Nat
      BY <1>2, FS_CardinalityType
    <3>. QED BY <1>1, <1>5, <3>1
  <2>10. CogsTotal(got) = Known(got["cogsSum"])
    BY <2>7, <2>9 DEF CogsTotal
  <2>. QED BY <1>4, <1>10, <2>1, <2>7, <2>8, <2>10
<1>12. f.profit.value = NetOf([kind \in Kinds |-> of(kind).value])
  <2>. DEFINE total == [kind \in Kinds |-> of(kind).value]
  <2>1. \A kind \in Kinds : total[kind] = SumOver(line[kind], Rows) /\ total[kind] # Unknown
    BY <1>10, SellerAssumption
  <2>2. SumOver(nets, Rows) =
          SumOver(line["revenue"], Rows) - SumOver(line["cogs"], Rows) - SumOver(line["fees"], Rows)
          - SumOver(line["shipping"], Rows) - SumOver(line["refunds"], Rows)
          - SumOver(line["other"], Rows)
    <3>1. \A kind \in Kinds : \A s \in Rows : line[kind][s] \in Int
      BY <1>6, <1>9
    <3>2. ASSUME NEW s \in Rows
          PROVE  nets[s] = line["revenue"][s] - line["cogs"][s] - line["fees"][s]
                           - line["shipping"][s] - line["refunds"][s] - line["other"][s]
      <4>1. nets[s] = NetOf(rows[s].lines) /\ \A kind \in Kinds : rows[s].lines[kind] # Unknown
        BY <1>3, <1>5, <1>9
      <4>2. \A kind \in Kinds : line[kind][s] = rows[s].lines[kind]
        BY <1>6
      <4>. QED BY <4>1, <4>2 DEF NetOf, Kinds
    <3>. QED BY <1>2, <3>1, <3>2, NetIsAdditive
  <2>. HIDE DEF total
  <2>3. NetOf(total) =
          total["revenue"] - total["cogs"] - total["fees"] - total["shipping"] - total["refunds"]
          - total["other"]
    BY <2>1 DEF NetOf
  <2>4. /\ "revenue" \in Kinds /\ "cogs" \in Kinds /\ "fees" \in Kinds
        /\ "shipping" \in Kinds /\ "refunds" \in Kinds /\ "other" \in Kinds
    BY DEF Kinds
  <2>5. NetOf(total) = SumOver(nets, Rows)
    BY <2>1, <2>2, <2>3, <2>4, Zenon
  <2>. QED BY <1>7, <2>5 DEF total
<1>. QED BY <1>10, <1>11, <1>12

Linked == {l \in Links : Live(l)}

\* The links an event may name, and the links that have clicks, are the live ones.
LEMMA LinkedFacts ==
  ASSUME LedgersInv, FiguresInv
  PROVE  /\ IsFiniteSet(Links) /\ IsFiniteSet(Linked)
         /\ clicks \in [Links -> Nat] /\ \A l \in Links \ Linked : clicks[l] = 0
         /\ \A e \in Events : event[e].link # NoLink => event[e].link \in Linked
         /\ NoLink \notin Linked
<1>1. IsFiniteSet(Links) /\ IsFiniteSet(Linked)
  BY RowsAssumption, FS_Subset DEF Linked
<1>2. clicks \in [Links -> Nat] /\ \A l \in Links \ Linked : clicks[l] = 0
  BY DEF LedgersInv, PublishingInv, LinksTypeOK, FiguresInv, LinksResolve, Linked
<1>3. \A e \in Events : event[e].link # NoLink => event[e].link \in Linked
  BY DEF LedgersInv, RevenueInv, RevenueTypeOK, FiguresInv, LinksResolve, Linked
<1>. QED BY <1>1, <1>2, <1>3, RequestsAssumption DEF Linked

\* A sum over a set of a function that is given on it.
LEMMA SumOfGiven ==
  ASSUME NEW S, IsFiniteSet(S), NEW f, NEW g, DOMAIN g = S, \A x \in S : g[x] = f[x]
  PROVE  SumOf(g) = SumOver(f, S)
BY SumOfIsSum, SumSame

\* Rows that divide the live links among them lose nothing.
LEMMA BreakdownWhole ==
  ASSUME LedgersInv, FiguresInv, NEW got, got["clicks"] = clicks, got["events"] = Answer("events"),
         NEW K, IsFiniteSet(K), NEW label, \A l \in Linked : label[l] \in K,
         NEW rows, DOMAIN rows = K,
         \A k \in K :
           /\ rows[k].clicks = ClicksOf(got, Labelled(Linked, label, k))
           /\ rows[k].commission = CommissionOf(got, Labelled(Linked, label, k))
  PROVE  BreakdownIsWhole(got, rows)
<1>. DEFINE links(k) == Labelled(Linked, label, k)
            value == [e \in Reconciled |-> event[e].value]
            named == {e \in Reconciled : event[e].link # NoLink}
            of == [e \in named |-> label[event[e].link]]
            known(field) == {x \in DOMAIN rows : IsKnown(rows[x][field])}
            figures(field) == [r \in known(field) |-> rows[r][field].value]
<1>1. /\ DOMAIN got["events"] = Reconciled
      /\ \A e \in Reconciled : got["events"][e].link = event[e].link
                               /\ got["events"][e].value = event[e].value
  BY DEF Answer, Counted
<1>2. /\ IsFiniteSet(Links) /\ IsFiniteSet(Linked) /\ clicks \in [Links -> Nat]
      /\ \A l \in Links \ Linked : clicks[l] = 0
      /\ \A e \in Events : event[e].link # NoLink => event[e].link \in Linked
      /\ NoLink \notin Linked
  BY LinkedFacts
<1>3. IsFiniteSet(Reconciled) /\ \A e \in Reconciled : e \in Events /\ value[e] \in Int
  BY RowsRead
<1>4. SumOf(figures("clicks")) = SumOf(clicks)
  <2>1. ASSUME NEW k \in K
        PROVE  IsKnown(rows[k].clicks) /\ rows[k].clicks.value = SumOver(clicks, links(k))
    <3>1. IsFiniteSet(links(k)) /\ links(k) \subseteq Links
      BY <1>2, FS_Subset DEF Linked, Labelled
    <3>2. rows[k].clicks = Known(SumOf([l \in links(k) |-> clicks[l]]))
      BY DEF ClicksOf
    <3>3. SumOf([l \in links(k) |-> clicks[l]]) = SumOver(clicks, links(k))
      BY <3>1, SumOfGiven
    <3>. QED BY <3>2, <3>3 DEF Known, IsKnown
  <2>2. known("clicks") = K /\ DOMAIN figures("clicks") = K
        /\ \A k \in K : figures("clicks")[k] = SumOver(clicks, links(k))
    BY <2>1
  <2>3. \A l \in Linked : clicks[l] \in Int
    BY <1>2 DEF Linked
  <2>. HIDE DEF figures
  <2>4. SumOver(figures("clicks"), K) = SumOver(clicks, Linked)
    BY <1>2, <2>2, <2>3, SumByLabel
  <2>5. SumOver(clicks, Links) = SumOver(clicks, Linked)
    <3>1. Linked \in SUBSET Links /\ \A l \in Links : clicks[l] \in Int
      BY <1>2 DEF Linked
    <3>. QED BY <1>2, <3>1, SumPart
  <2>6. SumOf(figures("clicks")) = SumOver(figures("clicks"), K)
        /\ SumOf(clicks) = SumOver(clicks, Links)
    BY <1>2, <2>2, SumOfIsSum
  <2>. QED BY <2>4, <2>5, <2>6
<1>5. SumOf(figures("commission")) = SumOver(value, named)
  <2>. DEFINE mine(k) == {e \in Reconciled : event[e].link \in links(k)}
  <2>0. \A k \in K : mine(k) = Labelled(named, of, k)
    BY <1>2, <1>3 DEF Labelled
  <2>1. ASSUME NEW k \in K
        PROVE  /\ IsKnown(rows[k].commission) <=> mine(k) # {}
               /\ IsKnown(rows[k].commission) => rows[k].commission.value = SumOver(value, mine(k))
    <3>. DEFINE amounts == [e \in mine(k) |-> got["events"][e].value]
    <3>1. {f \in DOMAIN got["events"] : got["events"][f].link \in links(k)} = mine(k)
      BY <1>1
    <3>2. rows[k].commission = Measured(SumOrNull(amounts))
      BY <3>1 DEF CommissionOf
    <3>3. /\ IsFiniteSet(mine(k)) /\ DOMAIN amounts = mine(k)
          /\ \A e \in mine(k) : amounts[e] = value[e] /\ amounts[e] \in Int
      BY <1>1, <1>3, FS_Subset
    <3>. HIDE DEF amounts, mine
    <3>4. SumOver(amounts, mine(k)) = SumOver(value, mine(k))
      BY <3>3, SumSame
    <3>. QED BY <3>2, <3>3, <3>4, KnownSum
  <2>2. IsFiniteSet(known("commission"))
        /\ \A k \in known("commission") :
             k \in K /\ figures("commission")[k] = SumOver(value, Labelled(named, of, k))
    <3>1. known("commission") \in SUBSET K
      OBVIOUS
    <3>. QED BY <2>0, <2>1, <3>1, FS_Subset
  <2>3. IsFiniteSet(named) /\ \A e \in named : value[e] \in Int /\ of[e] \in known("commission")
    <3>1. \A e \in named : value[e] \in Int
      BY <1>3
    <3>2. ASSUME NEW e \in named PROVE of[e] \in known("commission")
      <4>1. of[e] \in K
        BY <1>2, <1>3
      <4>2. e \in mine(of[e])
        BY <2>0, <4>1 DEF Labelled
      <4>. QED BY <2>1, <4>1, <4>2
    <3>. QED BY <1>3, <3>1, <3>2, FS_Subset
  <2>4. DOMAIN figures("commission") = known("commission")
    OBVIOUS
  <2>. HIDE DEF figures, known, named, of, value, mine
  <2>5. SumOver(figures("commission"), known("commission")) = SumOver(value, named)
    BY <2>2, <2>3, SumByLabel
  <2>. QED BY <2>4, <2>5, SumOfIsSum
<1>6. LET named2 == {e \in DOMAIN got["events"] : got["events"][e].link # NoLink} IN
      SumOf([e \in named2 |-> got["events"][e].value]) = SumOver(value, named)
  <2>1. {e \in DOMAIN got["events"] : got["events"][e].link # NoLink} = named
    BY <1>1
  <2>2. \A e \in named : got["events"][e].value = value[e]
    BY <1>1
  <2>3. IsFiniteSet(named)
    BY <1>3, FS_Subset
  <2>4. SumOf([e \in named |-> got["events"][e].value]) = SumOver(value, named)
    BY <2>2, <2>3, SumOfGiven
  <2>. QED BY <2>1, <2>4
<1>. QED BY <1>4, <1>5, <1>6 DEF BreakdownIsWhole

LEMMA ChannelsWhole ==
  ASSUME LedgersInv, FiguresInv, NEW got, \A q \in Queries("channels") : got[q] = Answer(q)
  PROVE  BreakdownIsWhole(got, ChannelRows(got))
<1>. DEFINE campaign == got["links"]
            K == {campaign[l] : l \in Linked}
<1>1. got["clicks"] = clicks /\ got["events"] = Answer("events")
      /\ campaign = [l \in Linked |-> link[l].campaign]
  BY DEF Queries, Answer, Linked
<1>2. DOMAIN campaign = Linked
  BY <1>1
<1>3. IsFiniteSet(K) /\ \A l \in Linked : campaign[l] \in K
  BY LinkedFacts, ImageIsFinite
<1>. DEFINE rows == ChannelRows(got)
<1>4. DOMAIN rows = K
      /\ \A k \in K : /\ rows[k].clicks = ClicksOf(got, Labelled(Linked, campaign, k))
                      /\ rows[k].commission = CommissionOf(got, Labelled(Linked, campaign, k))
  BY <1>2 DEF ChannelRows, Labelled
<1>. HIDE DEF rows, K
<1>5. BreakdownIsWhole(got, rows)
  BY <1>1, <1>3, <1>4, BreakdownWhole
<1>. QED BY <1>5 DEF rows

LEMMA CampaignsWhole ==
  ASSUME LedgersInv, FiguresInv, NEW got, \A q \in Queries("campaigns") : got[q] = Answer(q)
  PROVE  BreakdownIsWhole(got, CampaignRows(got))
<1>. DEFINE self == [l \in Linked |-> l]
            rows == CampaignRows(got)
            K == Linked
<1>1. got["clicks"] = clicks /\ got["events"] = Answer("events") /\ DOMAIN got["links"] = Linked
  BY DEF Queries, Answer, Linked
<1>2. \A k \in K : Labelled(Linked, self, k) = {k}
  BY DEF Labelled
<1>3. DOMAIN rows = K
      /\ \A k \in K : /\ rows[k].clicks = ClicksOf(got, Labelled(Linked, self, k))
                           /\ rows[k].commission = CommissionOf(got, Labelled(Linked, self, k))
  BY <1>1, <1>2 DEF CampaignRows
<1>4. \A l \in Linked : self[l] \in K
  OBVIOUS
<1>5. IsFiniteSet(K)
  BY LinkedFacts
<1>. HIDE DEF rows, self, K
<1>6. BreakdownIsWhole(got, rows)
  BY <1>1, <1>3, <1>4, <1>5, BreakdownWhole
<1>. QED BY <1>6 DEF rows

\* The labels of the outcomes are those of finitely many rows.
LEMMA LabelsFinite ==
  ASSUME NEW got, IsFiniteSet(DOMAIN got["linksCounted"]), IsFiniteSet(DOMAIN got["events"]),
         IsFiniteSet(DOMAIN got["profits"])
  PROVE  IsFiniteSet(Labels(got))
<1>. DEFINE A == [l \in DOMAIN got["linksCounted"] |-> got["linksCounted"][l].campaign]
            B == [e \in DOMAIN got["events"] |-> CampaignOf(got, e)]
            C == [e \in DOMAIN got["profits"] |-> ProfitCampaign(got, e)]
<1>1. /\ IsFiniteSet({A[l] : l \in DOMAIN got["linksCounted"]})
      /\ IsFiniteSet({B[e] : e \in DOMAIN got["events"]})
      /\ IsFiniteSet({C[e] : e \in DOMAIN got["profits"]})
  BY ImageIsFinite
<1>2. /\ {A[l] : l \in DOMAIN got["linksCounted"]}
           = {got["linksCounted"][l].campaign : l \in DOMAIN got["linksCounted"]}
      /\ {B[e] : e \in DOMAIN got["events"]} = {CampaignOf(got, e) : e \in DOMAIN got["events"]}
      /\ {C[e] : e \in DOMAIN got["profits"]} = {ProfitCampaign(got, e) : e \in DOMAIN got["profits"]}
  OBVIOUS
<1>. QED BY <1>1, <1>2, FS_Union DEF Labels

LEMMA OutcomesWhole ==
  ASSUME LedgersInv, FiguresInv, NEW got, \A q \in Queries("outcomes") : got[q] = Answer(q)
  PROVE  OutcomesAreWhole(got)
<1>. DEFINE rows == Buckets(got)
            K == Labels(got)
            value == [e \in Reconciled |-> event[e].value]
            net == [e \in Booked |-> NetProfit(profit[e])]
            one == [e \in Reconciled |-> 1]
            campaign == [e \in Reconciled |-> CampaignOf(got, e)]
            bookedFor == [e \in Booked |-> ProfitCampaign(got, e)]
            mine(k) == Labelled(Reconciled, campaign, k)
            booked(k) == Labelled(Booked, bookedFor, k)
            conversions == [k \in DOMAIN rows |-> rows[k].conversions]
            profits == [k \in DOMAIN rows |-> rows[k].profit]
<1>1. /\ DOMAIN got["linksCounted"] = Linked
      /\ DOMAIN got["events"] = Reconciled
      /\ \A e \in Reconciled : got["events"][e].value = value[e]
                               /\ got["events"][e].link = event[e].link
      /\ got["profits"] = net /\ DOMAIN got["profits"] = Booked
  <2>1. got["linksCounted"] = Answer("linksCounted") /\ got["events"] = Answer("events")
        /\ got["profits"] = Answer("profits")
    BY DEF Queries
  <2>2. DOMAIN Answer("linksCounted") = Linked
    BY DEF Answer, Linked
  <2>3. Answer("events") = [e \in Reconciled |-> [link |-> event[e].link, value |-> event[e].value]]
    BY DEF Answer, Counted
  <2>4. Answer("profits") = net
    BY DEF Answer
  <2>. QED BY <2>1, <2>2, <2>3, <2>4
<1>2. /\ IsFiniteSet(Reconciled) /\ IsFiniteSet(Booked)
      /\ \A e \in Reconciled : e \in Events /\ value[e] \in Nat /\ value[e] > 0
      /\ \A e \in Booked : net[e] \in Int
      /\ \A e \in Reconciled : one[e] = 1
  BY RowsRead
<1>3. IsFiniteSet(K) /\ (\A e \in Reconciled : campaign[e] \in K)
      /\ \A e \in Booked : bookedFor[e] \in K
  <2>1. IsFiniteSet(K)
    BY <1>1, <1>2, LinkedFacts, LabelsFinite
  <2>. QED BY <1>1, <2>1 DEF Labels
<1>4. \A k \in K : /\ IsFiniteSet(mine(k)) /\ mine(k) \subseteq Reconciled
                   /\ IsFiniteSet(booked(k)) /\ booked(k) \subseteq Booked
  BY <1>2, FS_Subset DEF Labelled
<1>5. DOMAIN rows = K
      /\ \A k \in K : /\ rows[k].conversions = Cardinality(mine(k))
                      /\ rows[k].revenue = SumOf([e \in mine(k) |-> got["events"][e].value])
                      /\ rows[k].profit = SumOf([e \in booked(k) |-> got["profits"][e]])
  <2>1. ASSUME NEW k \in K
        PROVE  /\ {e \in DOMAIN got["events"] : CampaignOf(got, e) = k} = mine(k)
               /\ {e \in DOMAIN got["profits"] : ProfitCampaign(got, e) = k} = booked(k)
    BY <1>1 DEF Labelled
  <2>. HIDE DEF K, mine, booked
  <2>2. DOMAIN rows = K
    BY DEF Buckets, K
  <2>3. ASSUME NEW k \in K
        PROVE  /\ rows[k].conversions = Cardinality(mine(k))
               /\ rows[k].revenue = SumOf([e \in mine(k) |-> got["events"][e].value])
               /\ rows[k].profit = SumOf([e \in booked(k) |-> got["profits"][e]])
    BY <2>1 DEF Buckets, K
  <2>. QED BY <2>2, <2>3
<1>6. /\ Totals(rows)["conversions"] = SumOf(conversions)
      /\ Totals(rows)["profit"] = SumOf(profits)
  BY DEF Totals
<1>7. ASSUME NEW k \in K
      PROVE  /\ rows[k].conversions = SumOver(one, mine(k))
             /\ rows[k].revenue = SumOver(value, mine(k))
             /\ rows[k].profit = SumOver(net, booked(k))
  <2>1. SumOver(one, mine(k)) = Cardinality(mine(k))
    <3>1. \A e \in mine(k) : one[e] = 1
      BY <1>2, <1>4
    <3>. QED BY <1>4, <3>1, SumOnes
  <2>2. SumOf([e \in mine(k) |-> got["events"][e].value]) = SumOver(value, mine(k))
    <3>1. \A e \in mine(k) : got["events"][e].value = value[e]
      BY <1>1, <1>4
    <3>. QED BY <1>4, <3>1, SumOfGiven
  <2>3. SumOf([e \in booked(k) |-> got["profits"][e]]) = SumOver(net, booked(k))
    BY <1>1, <1>4, SumOfGiven
  <2>. QED BY <1>5, <2>1, <2>2, <2>3
<1>8. /\ DOMAIN conversions = K /\ DOMAIN profits = K
      /\ \A k \in K : /\ conversions[k] = SumOver(one, mine(k))
                      /\ profits[k] = SumOver(net, booked(k))
  BY <1>5, <1>7
<1>. HIDE DEF rows, conversions, profits, K, bookedFor, campaign, net, value, one
<1>9. Totals(rows)["conversions"] = Cardinality(DOMAIN got["events"])
  <2>1. SumOver(conversions, K) = SumOver(one, Reconciled)
    <3>1. IsFiniteSet(Reconciled) /\ \A e \in Reconciled : one[e] \in Int
      BY <1>2
    <3>2. IsFiniteSet(K) /\ \A e \in Reconciled : campaign[e] \in K
      BY <1>3
    <3>3. \A k \in K : conversions[k] = SumOver(one, Labelled(Reconciled, campaign, k))
      BY <1>8
    <3>. QED BY <3>1, <3>2, <3>3, SumByLabel
  <2>2. SumOver(one, Reconciled) = Cardinality(Reconciled)
    BY <1>2, SumOnes
  <2>. QED BY <1>1, <1>6, <1>8, <2>1, <2>2, SumOfIsSum
<1>10. Totals(rows)["profit"] = SumOf(got["profits"])
  <2>1. SumOver(profits, K) = SumOver(net, Booked)
    <3>1. IsFiniteSet(Booked) /\ \A e \in Booked : net[e] \in Int
      BY <1>2
    <3>2. IsFiniteSet(K) /\ \A e \in Booked : bookedFor[e] \in K
      BY <1>3
    <3>3. \A k \in K : profits[k] = SumOver(net, Labelled(Booked, bookedFor, k))
      BY <1>8
    <3>. QED BY <3>1, <3>2, <3>3, SumByLabel
  <2>. QED BY <1>1, <1>6, <1>8, <2>1, SumOfIsSum
<1>11. ASSUME overlapped = {}, NEW k \in K, rows[k].profit # 0
       PROVE  rows[k].revenue > 0
  <2>1. Booked = Reconciled
    BY <1>11, BookedAreReconciled
  <2>2. PICK e \in booked(k) : TRUE
    BY <1>7, <1>11, SumEmpty
  <2>3. e \in mine(k)
    BY <1>1, <2>1 DEF ProfitCampaign, bookedFor, campaign, Labelled
  <2>4. SumOver(value, mine(k)) > 0
    <3>1. \A y \in mine(k) : value[y] \in Nat
      BY <1>2 DEF Labelled
    <3>2. value[e] > 0
      BY <1>2, <2>3 DEF Labelled
    <3>. HIDE DEF mine
    <3>. QED BY <1>4, <2>3, <3>1, <3>2, SumPositive
  <2>. QED BY <1>7, <2>4
<1>12. \A e \in DOMAIN got["events"] :
         got["events"][e].link \in DOMAIN got["linksCounted"] \cup {NoLink}
  BY <1>1, <1>2, LinkedFacts
<1>13. overlapped = {} => \A k \in DOMAIN rows : rows[k].profit # 0 => rows[k].revenue > 0
  BY <1>5, <1>11
<1>. QED BY <1>9, <1>10, <1>12, <1>13 DEF OutcomesAreWhole, rows

\* What was shown of a quiet report is what its queries answer now.
LEMMA ShownIsBacked == LedgersInv /\ FiguresInv /\ SnapshotInv => ReportIsBacked
<1>. SUFFICES ASSUME LedgersInv, FiguresInv, SnapshotInv, shown.quiet PROVE
       LET view == shown.report.view  got == shown.report.got IN
       CASE view = "affiliate" -> AffiliateIsBacked(got)
         [] view = "campaign" -> CampaignIsBacked(got)
         [] view = "seller" -> SellerIsBacked(got)
         [] view = "channels" -> BreakdownIsWhole(got, ChannelRows(got))
         [] view = "campaigns" -> BreakdownIsWhole(got, CampaignRows(got))
         [] view = "outcomes" -> OutcomesAreWhole(got)
         [] OTHER -> TRUE
  BY DEF ReportIsBacked
<1>. DEFINE view == shown.report.view
            got == shown.report.got
<1>1. CASE view \in Reports
  <2>1. \A q \in Queries(view) : got[q] = Answer(q)
    BY <1>1, ReportsAssumption DEF SnapshotInv, AnswersAreCurrent
  <2>. HIDE DEF view, got
  <2>2. CASE view = "affiliate"
    BY <2>1, <2>2, AffiliateBacked DEF view, got
  <2>3. CASE view = "campaign"
    BY <2>1, <2>3, CampaignBacked DEF view, got
  <2>4. CASE view = "seller"
    BY <2>1, <2>4, SellerBacked DEF view, got
  <2>5. CASE view = "channels"
    BY <2>1, <2>5, ChannelsWhole DEF view, got
  <2>6. CASE view = "campaigns"
    BY <2>1, <2>6, CampaignsWhole DEF view, got
  <2>7. CASE view = "outcomes"
    BY <2>1, <2>7, OutcomesWhole DEF view, got
  <2>. QED BY <1>1, <2>2, <2>3, <2>4, <2>5, <2>6, <2>7 DEF Reports
<1>2. CASE view \notin Reports
  BY <1>2 DEF Reports
<1>. QED BY <1>1, <1>2

\* The figures of a report that no write has crossed are backed by the ledgers
\* and by each other, for any rows, requests and order of the queries.
THEOREM FiguresBacked == Spec => []ReportIsBacked
<1>1. RevenueInv /\ SellerInv /\ PublishingInv => LedgersInv
  BY DEF LedgersInv
<1>2. LedgersInv /\ Init => FiguresInv
  BY FiguresInit
<1>3. Init => SnapshotInv
  BY SnapshotInit
<1>4. LedgersInv /\ FiguresInv /\ [Next]_vars => FiguresInv'
  BY FiguresStep
<1>5. SnapshotInv /\ [Next]_vars => SnapshotInv'
  BY SnapshotStep
<1>. QED
  BY <1>1, <1>2, <1>3, <1>4, <1>5, RefinesRevenue, RevenueInvariant, RefinesSeller, SellerInvariant,
     RefinesPublishing, PublishingInvariant, ShownIsBacked, PTL DEF Spec
=============================================================================
