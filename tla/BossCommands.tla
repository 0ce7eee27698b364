------------------------------ MODULE BossCommands ------------------------------
(***************************************************************************)
(* Commands for the boss and the actions planned for them                  *)
(* (boss/boss.service.ts), and the outcomes of its decisions               *)
(* (boss/boss-memory.service.ts). Each request is a chain of statements    *)
(* with no transaction. Cautions from memory change nothing that is        *)
(* modelled.                                                               *)
(***************************************************************************)
EXTENDS BossPlans

CONSTANTS Commands,     \* identifiers of boss_commands rows
          AskedLevels,  \* bound: the levels asked for
          AskedStatus,  \* bound: the statuses asked for
          Decisions,    \* identifiers of boss_decisions rows
          MaxBoss       \* bound: requests begun

ASSUME BossAssumption ==
  /\ AskedLevels \subseteq Levels \cup {Unset}
  /\ AskedStatus \subseteq {"received", "planned", "archived", Unset}
  /\ MaxBoss \in Nat

VARIABLES command,    \* boss_commands with the actions of their plan
          clampNoted, \* commands with an autonomy_clamped audit row
          decision,   \* boss_decisions: has it an outcome
          lessons,    \* boss_lessons by decision
          bossReq,    \* what each request holds between two statements
          reduced,    \* history: commands that hold a level below the one asked for
          created,    \* history: commands whose creation was answered
          outcomes,   \* history: outcomes written per decision
          crossing,   \* history: decisions two requests had read without outcome at a time
          bossServed  \* requests begun

bossVars == <<command, clampNoted, decision, lessons, bossReq, reduced, created, outcomes,
              crossing, bossServed>>
commandVars == <<command, clampNoted, reduced, created>>
decisionVars == <<decision, lessons, outcomes, crossing>>

\* A proposed action: the autonomy it requires, the level it was planned at
\* and the verdict on it.
Action == [required : Levels, level : Levels, granted : BOOLEAN]

CommandRow == [status : {"absent", "received", "planned", "archived"}, level : Levels,
               actions : Seq(Action)]

Resting == [op |-> "idle"]

BossRequest ==
  {Resting}
  \cup [op : {"note", "plan"}, of : Commands, level : Levels, todo : Seq(Levels)]
  \cup [op : {"audit", "write"}, of : Commands, level : Levels \cup {Unset}, clamped : BOOLEAN,
        status : {"received", "planned", "archived", Unset}]
  \cup [op : {"archive"}, of : Commands]
  \cup [op : {"outcome", "lesson"}, on : Decisions]

BossTypeOK ==
  /\ command \in [Commands -> CommandRow]
  /\ clampNoted \subseteq Commands
  /\ decision \in [Decisions -> {"absent", "open", "observed"}]
  /\ lessons \in [Decisions -> Nat]
  /\ bossReq \in [Clients -> BossRequest]
  /\ reduced \subseteq Commands
  /\ created \subseteq Commands
  /\ outcomes \in [Decisions -> Nat]
  /\ crossing \subseteq Decisions
  /\ bossServed \in 0..MaxBoss

BossInit ==
  /\ command = [k \in Commands |-> [status |-> "absent", level |-> 0, actions |-> <<>>]]
  /\ clampNoted = {}
  /\ decision = [d \in Decisions |-> "absent"]
  /\ lessons = [d \in Decisions |-> 0]
  /\ bossReq = [c \in Clients |-> Resting]
  /\ reduced = {}
  /\ created = {}
  /\ outcomes = [d \in Decisions |-> 0]
  /\ crossing = {}
  /\ bossServed = 0

-----------------------------------------------------------------------------
BeginBoss(c) == bossReq[c] = Resting /\ bossServed < MaxBoss /\ bossServed' = bossServed + 1

Holds(c, request) == bossReq' = [bossReq EXCEPT ![c] = request]

Stored(k) == command[k].status # "absent"

\* A command whose level is written is one reduced below what was asked, or not.
Reduced(k, clamped) == IF clamped THEN reduced \cup {k} ELSE reduced \ {k}

\* (fault) A reduced level is not written to the audit trail.
NeverNoted(level, role) == FALSE

\* "A reduction is never silent: the clamp itself is part of the audit trail."
MustNote(level, role) == Clamped(level, role)

\* create: the command row with the level in force.
CreateCommand(c, role, k, asked, text) ==
  /\ BeginBoss(c)
  /\ ~Stored(k)
  /\ command' = [command EXCEPT ![k].status = "received", ![k].level = Effective(asked, role)]
  /\ reduced' = Reduced(k, Clamped(asked, role))
  /\ Holds(c, [op |-> IF MustNote(asked, role) THEN "note" ELSE "plan", of |-> k,
               level |-> Effective(asked, role), todo |-> GeneratePlan(text)])
  /\ UNCHANGED <<clampNoted, created, decisionVars>>

\* create: the audit row of the reduction.
NoteClamp(c) ==
  /\ bossReq[c].op = "note"
  /\ clampNoted' = clampNoted \cup {bossReq[c].of}
  /\ Holds(c, [bossReq[c] EXCEPT !.op = "plan"])
  /\ UNCHANGED <<command, reduced, created, decisionVars, bossServed>>

\* evaluatePermission
Permission(required, level) == [required |-> required, level |-> level, granted |-> level >= required]

\* create: the next action of the plan, judged at the level of the request,
\* whatever the command's has become.
PlanAction(c) ==
  /\ bossReq[c].op = "plan"
  /\ bossReq[c].todo # <<>>
  /\ command' = [command EXCEPT ![bossReq[c].of].actions =
                   Append(@, Permission(Head(bossReq[c].todo), bossReq[c].level))]
  /\ Holds(c, [bossReq[c] EXCEPT !.todo = Tail(@)])
  /\ UNCHANGED <<clampNoted, reduced, created, decisionVars, bossServed>>

\* create: the command is planned, even if it was archived meanwhile.
FinishPlan(c) ==
  /\ bossReq[c].op = "plan"
  /\ bossReq[c].todo = <<>>
  /\ command' = [command EXCEPT ![bossReq[c].of].status = "planned"]
  /\ created' = created \cup {bossReq[c].of}
  /\ Holds(c, Resting)
  /\ UNCHANGED <<clampNoted, reduced, decisionVars, bossServed>>

\* update: the command is read; a request that names nothing is answered.
LoadForUpdate(c, role, k, asked, status) ==
  /\ BeginBoss(c)
  /\ Stored(k)
  /\ IF asked = Unset /\ status = Unset THEN UNCHANGED bossReq
     ELSE Holds(c, [op |-> "audit", of |-> k, status |-> status,
                    level |-> IF asked = Unset THEN Unset ELSE Effective(asked, role),
                    clamped |-> asked # Unset /\ MustNote(asked, role)])
  /\ UNCHANGED <<commandVars, decisionVars>>

\* update: the audit rows come before the write they are about.
AuditUpdate(c) ==
  /\ bossReq[c].op = "audit"
  /\ clampNoted' = IF bossReq[c].clamped THEN clampNoted \cup {bossReq[c].of} ELSE clampNoted
  /\ Holds(c, [bossReq[c] EXCEPT !.op = "write"])
  /\ UNCHANGED <<command, reduced, created, decisionVars, bossServed>>

\* update: the write, of the fields that were named.
WriteUpdate(c) ==
  /\ bossReq[c].op = "write"
  /\ LET r == bossReq[c] IN
       /\ command' = [command EXCEPT
            ![r.of].level = IF r.level = Unset THEN @ ELSE r.level,
            ![r.of].status = IF r.status = Unset THEN @ ELSE r.status]
       /\ reduced' = IF r.level = Unset THEN reduced ELSE Reduced(r.of, r.clamped)
  /\ Holds(c, Resting)
  /\ UNCHANGED <<clampNoted, created, decisionVars, bossServed>>

\* remove: the command is read and its audit row written.
LoadForArchive(c, k) ==
  /\ BeginBoss(c)
  /\ Stored(k)
  /\ Holds(c, [op |-> "archive", of |-> k])
  /\ UNCHANGED <<commandVars, decisionVars>>

\* remove: the write.
Archive(c) ==
  /\ bossReq[c].op = "archive"
  /\ command' = [command EXCEPT ![bossReq[c].of].status = "archived"]
  /\ Holds(c, Resting)
  /\ UNCHANGED <<clampNoted, reduced, created, decisionVars, bossServed>>

-----------------------------------------------------------------------------
RecordDecision(c, d) ==
  /\ BeginBoss(c)
  /\ decision[d] = "absent"
  /\ decision' = [decision EXCEPT ![d] = "open"]
  /\ UNCHANGED <<commandVars, lessons, bossReq, outcomes, crossing>>

\* (fault) A decision that has an outcome is given another.
AnyDecision(d) == decision[d] # "absent"

\* recordOutcome refuses a decision that has an outcome.
AwaitsOutcome(d) == decision[d] = "open"

OnDecision(d) == {c \in Clients : bossReq[c].op = "outcome" /\ bossReq[c].on = d}

\* recordOutcome: the read and the guard.
LoadDecision(c, d) ==
  /\ BeginBoss(c)
  /\ AwaitsOutcome(d)
  /\ Holds(c, [op |-> "outcome", on |-> d])
  /\ crossing' = IF OnDecision(d) = {} THEN crossing ELSE crossing \cup {d}
  /\ UNCHANGED <<commandVars, decision, lessons, outcomes>>

\* recordOutcome: the outcome, written over whatever is there.
WriteOutcome(c) ==
  /\ bossReq[c].op = "outcome"
  /\ LET d == bossReq[c].on IN
       /\ decision' = [decision EXCEPT ![d] = "observed"]
       /\ outcomes' = [outcomes EXCEPT ![d] = @ + 1]
       /\ Holds(c, [op |-> "lesson", on |-> d])
  /\ UNCHANGED <<commandVars, lessons, crossing, bossServed>>

\* recordOutcome: the lesson, and its audit row.
AddLesson(c) ==
  /\ bossReq[c].op = "lesson"
  /\ lessons' = [lessons EXCEPT ![bossReq[c].on] = @ + 1]
  /\ Holds(c, Resting)
  /\ UNCHANGED <<commandVars, decision, outcomes, crossing, bossServed>>

\* A statement fails: what was written stays.
BossRequestFails(c) ==
  /\ bossReq[c] # Resting
  /\ Holds(c, Resting)
  /\ UNCHANGED <<commandVars, decisionVars, bossServed>>

\* The process dies: so do all its requests.
BossDies ==
  /\ bossReq' = [c \in Clients |-> Resting]
  /\ UNCHANGED <<commandVars, decisionVars, bossServed>>

-----------------------------------------------------------------------------
\* The first statements of the requests, by the method that brings them.
BossPost(c, role) ==
  \/ \E k \in Commands, l \in AskedLevels, t \in CommandTexts : CreateCommand(c, role, k, l, t)
  \/ \E d \in Decisions : RecordDecision(c, d) \/ LoadDecision(c, d)

BossPatch(c, role) ==
  \E k \in Commands, l \in AskedLevels, s \in AskedStatus :
    LoadForUpdate(c, role, k, l, s)

BossDelete(c) == \E k \in Commands : LoadForArchive(c, k)

BossStep(c) ==
  \/ NoteClamp(c)
  \/ PlanAction(c)
  \/ FinishPlan(c)
  \/ AuditUpdate(c)
  \/ WriteUpdate(c)
  \/ Archive(c)
  \/ WriteOutcome(c)
  \/ AddLesson(c)
  \/ BossRequestFails(c)

BossNext ==
  \/ \E c \in Clients : \/ BossStep(c)
                        \/ \E role \in Roles : BossPost(c, role) \/ BossPatch(c, role)
                        \/ BossDelete(c)
  \/ BossDies

BossSpec == BossInit /\ [][BossNext]_bossVars

-----------------------------------------------------------------------------
\* "the server can only ever LOWER autonomy" (autonomy.ts:131), and a PATCH is
\* no "escalation route" (boss.service.ts:247-248): no stored level, of a
\* command or of an action planned for it, passes the ceiling; level 5 needs
\* the opt-in; and what is granted is within them.
AuthorityIsCapped == \A k \in Commands :
  LET levels == {command[k].level} \cup {command[k].actions[i].level : i \in 1..Len(command[k].actions)}
      within(l) == l <= Ceiling /\ (l = OwnerOnlyLevel => OwnerOptIn) IN
  Stored(k) =>
    /\ \A l \in levels : within(l)
    /\ \A i \in 1..Len(command[k].actions) :
         command[k].actions[i].granted => within(command[k].actions[i].required)

\* "A reduction is never silent" (boss.service.ts:114): a command that was
\* answered for holds a reduced level only with the audit row that says so,
\* whatever requests crossed on it or died on the way.
ClampIsAudited == \A k \in created \cap reduced : k \in clampNoted

\* "Rejects a second outcome for the same decision so a prediction can never
\* be silently rewritten" (boss-memory.service.ts:122-123), but for requests
\* that had both read the decision without one; and a lesson has its outcome.
OutcomeOnceUnlessCrossed == \A d \in Decisions :
  /\ outcomes[d] > 1 => d \in crossing
  /\ lessons[d] <= outcomes[d]
=================================================================================
