------------------------------- MODULE BossPlans -------------------------------
(***************************************************************************)
(* The plan made of a command's text (boss/boss-plan-generator.ts) and the *)
(* autonomy its tools require (boss/boss-tools.ts). A text is the set of   *)
(* the intents one of whose keywords occurs in it.                         *)
(***************************************************************************)
EXTENDS Autonomy, Sequences

CONSTANT CommandTexts

\* INTENT_RULES, in the order they are tried.
IntentRules == <<"publish", "research", "revenue", "asset">>

ASSUME TextsAssumption == \A text \in CommandTexts : text \subseteq {IntentRules[i] : i \in 1..4}

\* classifyIntent: the first rule with a keyword in the text, else the fallback.
ClassifyIntent(text) ==
  LET hits == {i \in 1..Len(IntentRules) : IntentRules[i] \in text} IN
  IF hits = {} THEN "clarify" ELSE IntentRules[CHOOSE i \in hits : \A j \in hits : i <= j]

\* The tools of the actions a rule plans, task by task.
ToolsOf ==
  [publish |-> <<"content.draft", "content.review", "affiliate.publish">>,
   research |-> <<"opportunity.research", "plan.generate">>,
   revenue |-> <<"analytics.read", "revenue.reconcile">>,
   asset |-> <<"asset.catalog">>,
   clarify |-> <<"command.clarify", "plan.generate">>]

\* BOSS_TOOL_REGISTRY; what only reads, researches or plans requires 1.
RequiredAutonomy(tool) ==
  IF tool = "affiliate.publish" THEN 4
  ELSE IF tool = "revenue.reconcile" THEN 3
  ELSE IF tool \in {"content.draft", "content.review"} THEN 2
  ELSE 1

\* generatePlan: of each action, the autonomy it requires.
GeneratePlan(text) ==
  LET tools == ToolsOf[ClassifyIntent(text)] IN
  [i \in 1..Len(tools) |-> RequiredAutonomy(tools[i])]
=================================================================================
