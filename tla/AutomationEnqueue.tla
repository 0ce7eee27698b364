-------------------------- MODULE AutomationEnqueue --------------------------
(***************************************************************************)
(* Idempotent enqueueing (enqueue and replayDeadLetter of                  *)
(* automation/automation.service.ts): clients that retry, the unique index *)
(* on (handler, idempotencyKey), and the replay that gives a row another   *)
(* key. One statement is one step; a member of Keys is a handler with a    *)
(* key. Validation and authorisation refuse a request before any of this   *)
(* and write no job: they are the requests that are never made.            *)
(***************************************************************************)
EXTENDS Naturals, FiniteSets

CONSTANTS Clients,      \* requests of POST /automation/jobs served at a time
          Keys,         \* pairs (handler, idempotencyKey)
          NoKey,        \* no idempotencyKey was given
          Jobs,         \* identifiers of automation_jobs rows
          MaxReplays    \* bound: replays of one job

ASSUME EnqueueAssumption ==
  /\ NoKey \notin Keys
  /\ MaxReplays \in Nat

VARIABLES row,      \* automation_jobs: key and whether the job is dead-lettered
          pc,       \* the next statement of each client's request
          wants,    \* the key it sends
          made,     \* history: the key each row was inserted with
          answers   \* history: the jobs clients were given for a key

vars == <<row, pc, wants, made, answers>>

\* A key in the table: as sent, or of a replay generation of the row itself
\* (`${jobId}#replay:${generation}` is shared by no other row).
StoredKey == [kind : {"sent"}, key : Keys \cup {NoKey}] \cup
             [kind : {"replay"}, generation : Nat \ {0}]

AbsentRow == [exists |-> FALSE, key |-> [kind |-> "sent", key |-> NoKey], dead |-> FALSE]

TypeOK ==
  /\ row \in [Jobs -> [exists : BOOLEAN, key : StoredKey, dead : BOOLEAN]]
  /\ pc \in [Clients -> {"idle", "create", "refind"}]
  /\ wants \in [Clients -> Keys \cup {NoKey}]
  /\ made \in [Jobs -> Keys \cup {NoKey}]
  /\ answers \in [Keys -> SUBSET Jobs]

Init ==
  /\ row = [j \in Jobs |-> AbsentRow]
  /\ pc = [c \in Clients |-> "idle"]
  /\ wants = [c \in Clients |-> NoKey]
  /\ made = [j \in Jobs |-> NoKey]
  /\ answers = [k \in Keys |-> {}]

-----------------------------------------------------------------------------
\* (fault) The key is stored as it came.
BareKey(k) == k

Sent(k) == [kind |-> "sent", key |-> k]

\* findExisting: WHERE handler, idempotencyKey LIMIT 1.
Existing(k) == IF k = NoKey THEN {} ELSE {j \in Jobs : row[j].exists /\ row[j].key = Sent(k)}

\* (fault) There is no unique index: the read is trusted.
NeverTaken(k) == FALSE

\* The unique index refuses the insert (P2002).
Taken(k) == Existing(k) # {}

Generation(j) == IF row[j].key.kind = "replay" THEN row[j].key.generation ELSE 0

\* A request is answered with job j.
Answer(c, j) ==
  /\ pc' = [pc EXCEPT ![c] = "idle"]
  /\ wants' = [wants EXCEPT ![c] = NoKey]
  /\ answers' = IF wants[c] = NoKey THEN answers
                ELSE [answers EXCEPT ![wants[c]] = @ \cup {j}]

\* A request ends without an answer.
NoAnswer(c) ==
  /\ pc' = [pc EXCEPT ![c] = "idle"]
  /\ wants' = [wants EXCEPT ![c] = NoKey]
  /\ UNCHANGED answers

-----------------------------------------------------------------------------
\* The first read. An existing job is the answer.
Find(c, k) ==
  /\ pc[c] = "idle"
  /\ \/ /\ \E j \in Existing(k) : answers' = [answers EXCEPT ![k] = @ \cup {j}]
        /\ UNCHANGED <<pc, wants>>
     \/ /\ Existing(k) = {}
        /\ pc' = [pc EXCEPT ![c] = "create"]
        /\ wants' = [wants EXCEPT ![c] = k]
        /\ UNCHANGED answers
  /\ UNCHANGED <<row, made>>

\* The insert.
Create(c, j) ==
  /\ pc[c] = "create"
  /\ ~row[j].exists
  /\ ~Taken(wants[c])
  /\ row' = [row EXCEPT ![j] = [exists |-> TRUE, key |-> Sent(wants[c]), dead |-> FALSE]]
  /\ made' = [made EXCEPT ![j] = wants[c]]
  /\ Answer(c, j)

\* The unique violation of whoever lost the race.
CreateLoses(c) ==
  /\ pc[c] = "create"
  /\ Taken(wants[c])
  /\ pc' = [pc EXCEPT ![c] = "refind"]
  /\ UNCHANGED <<row, made, wants, answers>>

\* The insert succeeds, but the audit row fails or the answer is lost.
CreateUnanswered(c, j) ==
  /\ pc[c] = "create"
  /\ ~row[j].exists
  /\ ~Taken(wants[c])
  /\ row' = [row EXCEPT ![j] = [exists |-> TRUE, key |-> Sent(wants[c]), dead |-> FALSE]]
  /\ made' = [made EXCEPT ![j] = wants[c]]
  /\ NoAnswer(c)

\* (fault) The loser is answered with whatever job there is.
AnyJob(k) == {j \in Jobs : row[j].exists}

\* The rows the second findExisting may return.
Winner(k) == Existing(k)

\* The loser of the race reads again; without a row the error is thrown.
Refind(c) ==
  /\ pc[c] = "refind"
  /\ \/ \E j \in Winner(wants[c]) : Answer(c, j)
     \/ /\ Winner(wants[c]) = {}
        /\ NoAnswer(c)
  /\ UNCHANGED <<row, made>>

\* A request dies, or a statement of it fails.
RequestFails(c) ==
  /\ pc[c] # "idle"
  /\ NoAnswer(c)
  /\ UNCHANGED <<row, made>>

\* The job is run and ends up dead-lettered.
DeadLetter(j) ==
  /\ row[j].exists /\ ~row[j].dead
  /\ row' = [row EXCEPT ![j].dead = TRUE]
  /\ UNCHANGED <<pc, wants, made, answers>>

\* replayDeadLetter: the row gets the key of its next replay generation. Its
\* read and its update are one step here, and two in AutomationWorker.
Replay(j) ==
  /\ row[j].dead /\ Generation(j) < MaxReplays
  /\ row' = [row EXCEPT ![j].key = [kind |-> "replay", generation |-> Generation(j) + 1],
                        ![j].dead = FALSE]
  /\ UNCHANGED <<pc, wants, made, answers>>

Next ==
  \/ \E c \in Clients, k \in Keys \cup {NoKey} : Find(c, k)
  \/ \E c \in Clients, j \in Jobs : Create(c, j) \/ CreateUnanswered(c, j)
  \/ \E c \in Clients : CreateLoses(c) \/ Refind(c) \/ RequestFails(c)
  \/ \E j \in Jobs : DeadLetter(j) \/ Replay(j)

Spec == Init /\ [][Next]_vars
-----------------------------------------------------------------------------
\* However often clients retry, race and lose answers, work is enqueued a second
\* time only after a dead letter of the key was replayed and renamed.
SecondJobOnlyAfterReplay ==
  \A i, j \in Jobs :
    made[i] = made[j] /\ made[i] # NoKey /\ Generation(i) = 0 /\ Generation(j) = 0 => i = j

\* What the documentation says: "a client retrying a request can never
\* double-post a publish" (automation.service.ts:9-11), replayed or not.
OneJobPerKey ==
  \A i, j \in Jobs : made[i] = made[j] /\ made[i] # NoKey => i = j

\* A client is only ever given a job that was made for its key.
AnsweredWithOwnJob ==
  \A k \in Keys : \A j \in answers[k] : made[j] = k
=============================================================================
