------------------------------- MODULE Autonomy -------------------------------
(***************************************************************************)
(* Who makes a request and the autonomy level in force for it              *)
(* (security/principal.ts, security/autonomy.ts). A level in a request is  *)
(* only asked for: the deployment's ceiling bounds it.                     *)
(***************************************************************************)
EXTENDS Integers

CONSTANTS Clients,        \* requests served at a time
          Unset,          \* a value a request or the environment does not give
          CeilingSetting, \* OPERATOR_AUTONOMY_CEILING, a whole number or Unset
          OwnerOptIn      \* AUTONOMY_ALLOW_OWNER_LEVEL=true

Levels == 0..5
DefaultLevel == 2
OwnerOnlyLevel == 5

\* The key names the owner; a public route and a request that nobody
\* identified are viewers.
Roles == {"owner", "viewer"}

ASSUME AutonomyAssumption ==
  /\ CeilingSetting \in Int \cup {Unset}
  /\ Unset \notin Int
  /\ OwnerOptIn \in BOOLEAN

\* configuredOperatorCeiling: a missing or meaningless setting is the default.
Ceiling == IF CeilingSetting \in Levels THEN CeilingSetting ELSE DefaultLevel

\* assertAutonomyLevel; a level out of range is refused before.
Asked(level) == IF level = Unset THEN DefaultLevel ELSE level

OwnerCapable(role) == role = "owner" /\ OwnerOptIn

Lower(a, b) == IF a < b THEN a ELSE b

\* (fault) The level is taken as it was asked for.
TakenAsAsked(level, role) == Asked(level)

\* resolveEffectiveAutonomy: the ceiling bounds the level; level 5 needs the
\* owner and the opt-in, else it is at most 4.
Effective(level, role) ==
  LET refused == Asked(level) = OwnerOnlyLevel /\ ~OwnerCapable(role) IN
  Lower(Asked(level), IF refused THEN Lower(Ceiling, OwnerOnlyLevel - 1) ELSE Ceiling)

\* A reduction: what the audit trail must name.
Clamped(level, role) == Effective(level, role) # Asked(level)
===============================================================================
