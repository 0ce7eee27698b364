----------------------------- MODULE ApiRequests -----------------------------
(***************************************************************************)
(* What the components of the API process have in common: the requests it  *)
(* serves at a time, each a slot that is free again once its request is    *)
(* answered or has failed, and the identifiers that rows of one component  *)
(* hold of another's.                                                      *)
(***************************************************************************)
CONSTANTS Clients,       \* requests served at a time, of each component
          Links, NoLink  \* affiliate_links rows an event or an asset may name

ASSUME RequestsAssumption == NoLink \notin Links
==============================================================================
