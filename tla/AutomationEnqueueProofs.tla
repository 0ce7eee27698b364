---------------------- MODULE AutomationEnqueueProofs ----------------------
(***************************************************************************)
(* Idempotency of enqueue for any number of clients, keys and jobs: a      *)
(* client is never given the job of another key, and a key has at most one *)
(* job that was never replayed.                                            *)
(***************************************************************************)
EXTENDS AutomationEnqueue, TLAPS

\* A row that still has the key it was inserted with says so.
KeyAsMade ==
  \A j \in Jobs : row[j].exists /\ row[j].key.kind = "sent" => row[j].key = Sent(made[j])

MadeOnInsert == \A j \in Jobs : ~row[j].exists => made[j] = NoKey

AnswersExist == \A k \in Keys : \A j \in answers[k] : row[j].exists /\ made[j] = k

IInv == TypeOK /\ KeyAsMade /\ MadeOnInsert /\ AnswersExist

\* What a read of the table finds was made for the key.
LEMMA ExistingMade ==
  ASSUME IInv, NEW k \in Keys, NEW j \in Existing(k)
  PROVE  j \in Jobs /\ row[j].exists /\ made[j] = k
<1>1. j \in Jobs /\ row[j].exists /\ row[j].key = Sent(k)
  BY EnqueueAssumption DEF Existing
<1>2. Sent(k).kind = "sent" /\ Sent(k).key = k /\ Sent(made[j]).key = made[j]
  BY DEF Sent
<1>. QED BY <1>1, <1>2 DEF IInv, KeyAsMade

\* Answering with an existing row made for the key keeps the answers right.
LEMMA AnswerKeeps ==
  ASSUME IInv, NEW c \in Clients, NEW j \in Jobs, Answer(c, j),
         \A i \in Jobs : row[i].exists => row'[i].exists /\ made'[i] = made[i],
         wants[c] # NoKey => row'[j].exists /\ made'[j] = wants[c]
  PROVE  /\ pc' \in [Clients -> {"idle", "create", "refind"}]
         /\ wants' \in [Clients -> Keys \cup {NoKey}]
         /\ answers' \in [Keys -> SUBSET Jobs]
         /\ AnswersExist'
<1>1. wants[c] \in Keys \cup {NoKey}
  BY DEF IInv, TypeOK
<1>2. CASE wants[c] = NoKey
  BY <1>2 DEF Answer, IInv, TypeOK, AnswersExist
<1>3. CASE wants[c] \in Keys
  <2>1. answers' = [answers EXCEPT ![wants[c]] = @ \cup {j}]
    BY <1>3, EnqueueAssumption DEF Answer
  <2>. QED
    BY <1>3, <2>1, EnqueueAssumption DEF Answer, IInv, TypeOK, AnswersExist
<1>. QED BY <1>1, <1>2, <1>3

\* An insert with key k makes one more good row.
LEMMA InsertKeeps ==
  ASSUME IInv, NEW c \in Clients, NEW j \in Jobs, ~row[j].exists,
         row' = [row EXCEPT ![j] = [exists |-> TRUE, key |-> Sent(wants[c]), dead |-> FALSE]],
         made' = [made EXCEPT ![j] = wants[c]]
  PROVE  /\ row' \in [Jobs -> [exists : BOOLEAN, key : StoredKey, dead : BOOLEAN]]
         /\ made' \in [Jobs -> Keys \cup {NoKey}]
         /\ KeyAsMade' /\ MadeOnInsert'
         /\ \A i \in Jobs : row[i].exists => row'[i].exists /\ made'[i] = made[i]
         /\ row'[j].exists /\ made'[j] = wants[c]
<1>1. wants[c] \in Keys \cup {NoKey}
  BY DEF IInv, TypeOK
<1>2. Sent(wants[c]) \in StoredKey /\ Sent(wants[c]).kind = "sent"
  BY <1>1 DEF Sent, StoredKey
<1>. QED
  BY <1>1, <1>2 DEF IInv, TypeOK, KeyAsMade, MadeOnInsert

LEMMA InitInv == Init => IInv
BY DEF Init, AbsentRow, IInv, TypeOK, StoredKey, KeyAsMade, MadeOnInsert, AnswersExist

LEMMA NextInv == IInv /\ [Next]_vars => IInv'
<1>. SUFFICES ASSUME IInv, [Next]_vars PROVE IInv'
  OBVIOUS
<1>1. ASSUME NEW c \in Clients, NEW k \in Keys \cup {NoKey}, Find(c, k)
      PROVE  IInv'
  <2>1. CASE \E j \in Existing(k) : answers' = [answers EXCEPT ![k] = @ \cup {j}]
    <3>1. k \in Keys
      BY <2>1 DEF Existing
    <3>2. PICK j \in Existing(k) : answers' = [answers EXCEPT ![k] = @ \cup {j}]
      BY <2>1
    <3>3. j \in Jobs /\ row[j].exists /\ made[j] = k
      BY <3>1, ExistingMade
    <3>4. /\ answers' \in [Keys -> SUBSET Jobs]
          /\ \A q \in Keys : answers'[q] \subseteq answers[q] \cup (IF q = k THEN {j} ELSE {})
      BY <3>1, <3>2, <3>3 DEF IInv, TypeOK
    <3>5. UNCHANGED <<row, made>>
      BY <1>1 DEF Find
    <3>6. pc' \in [Clients -> {"idle", "create", "refind"}] /\ wants' \in [Clients -> Keys \cup {NoKey}]
      BY <1>1 DEF Find, IInv, TypeOK
    <3>. QED
      BY <3>3, <3>4, <3>5, <3>6 DEF IInv, TypeOK, KeyAsMade, MadeOnInsert, AnswersExist
  <2>2. CASE UNCHANGED answers
    BY <1>1, <2>2 DEF Find, IInv, TypeOK, KeyAsMade, MadeOnInsert, AnswersExist
  <2>. QED BY <1>1, <2>1, <2>2 DEF Find
<1>2. ASSUME NEW c \in Clients, NEW j \in Jobs, Create(c, j)
      PROVE  IInv'
  <2>1. /\ ~row[j].exists
        /\ row' = [row EXCEPT ![j] = [exists |-> TRUE, key |-> Sent(wants[c]), dead |-> FALSE]]
        /\ made' = [made EXCEPT ![j] = wants[c]]
        /\ Answer(c, j)
    BY <1>2 DEF Create
  <2>2. /\ row' \in [Jobs -> [exists : BOOLEAN, key : StoredKey, dead : BOOLEAN]]
        /\ made' \in [Jobs -> Keys \cup {NoKey}]
        /\ KeyAsMade' /\ MadeOnInsert'
        /\ \A i \in Jobs : row[i].exists => row'[i].exists /\ made'[i] = made[i]
        /\ row'[j].exists /\ made'[j] = wants[c]
    BY <2>1, InsertKeeps
  <2>3. /\ pc' \in [Clients -> {"idle", "create", "refind"}]
        /\ wants' \in [Clients -> Keys \cup {NoKey}]
        /\ answers' \in [Keys -> SUBSET Jobs]
        /\ AnswersExist'
    BY <2>1, <2>2, AnswerKeeps
  <2>. QED BY <2>2, <2>3 DEF IInv, TypeOK
<1>3. ASSUME NEW c \in Clients, NEW j \in Jobs, CreateUnanswered(c, j)
      PROVE  IInv'
  <2>1. /\ ~row[j].exists
        /\ row' = [row EXCEPT ![j] = [exists |-> TRUE, key |-> Sent(wants[c]), dead |-> FALSE]]
        /\ made' = [made EXCEPT ![j] = wants[c]]
        /\ NoAnswer(c)
    BY <1>3 DEF CreateUnanswered
  <2>2. /\ row' \in [Jobs -> [exists : BOOLEAN, key : StoredKey, dead : BOOLEAN]]
        /\ made' \in [Jobs -> Keys \cup {NoKey}]
        /\ KeyAsMade' /\ MadeOnInsert'
        /\ \A i \in Jobs : row[i].exists => row'[i].exists /\ made'[i] = made[i]
    BY <2>1, InsertKeeps
  <2>3. /\ pc' \in [Clients -> {"idle", "create", "refind"}]
        /\ wants' \in [Clients -> Keys \cup {NoKey}]
        /\ answers' = answers
    BY <2>1 DEF NoAnswer, IInv, TypeOK
  <2>. QED BY <2>2, <2>3 DEF IInv, TypeOK, AnswersExist
<1>4. ASSUME NEW c \in Clients, CreateLoses(c) \/ RequestFails(c)
      PROVE  IInv'
  BY <1>4 DEF CreateLoses, RequestFails, NoAnswer, IInv, TypeOK, KeyAsMade,
     MadeOnInsert, AnswersExist
<1>5. ASSUME NEW c \in Clients, Refind(c)
      PROVE  IInv'
  <2>1. UNCHANGED <<row, made>>
    BY <1>5 DEF Refind
  <2>2. ASSUME NEW j \in Existing(wants[c]), Answer(c, j)
        PROVE  IInv'
    <3>1. wants[c] \in Keys
      BY DEF IInv, TypeOK, Existing
    <3>2. j \in Jobs /\ row[j].exists /\ made[j] = wants[c]
      BY <3>1, ExistingMade
    <3>3. /\ \A i \in Jobs : row[i].exists => row'[i].exists /\ made'[i] = made[i]
          /\ row'[j].exists /\ made'[j] = wants[c]
      BY <2>1, <3>2
    <3>. QED
      BY <2>1, <2>2, <3>2, <3>3, AnswerKeeps DEF IInv, TypeOK, KeyAsMade, MadeOnInsert
  <2>3. CASE NoAnswer(c)
    BY <2>1, <2>3 DEF NoAnswer, IInv, TypeOK, KeyAsMade, MadeOnInsert, AnswersExist
  <2>. QED BY <1>5, <2>2, <2>3 DEF Refind, Winner
<1>6. ASSUME NEW j \in Jobs, DeadLetter(j)
      PROVE  IInv'
  <2>1. row' = [row EXCEPT ![j].dead = TRUE] /\ UNCHANGED <<pc, wants, made, answers>>
    BY <1>6 DEF DeadLetter
  <2>2. row' \in [Jobs -> [exists : BOOLEAN, key : StoredKey, dead : BOOLEAN]]
    BY <2>1 DEF IInv, TypeOK
  <2>3. \A i \in Jobs : row'[i].exists = row[i].exists /\ row'[i].key = row[i].key
    BY <2>1 DEF IInv, TypeOK
  <2>. QED
    BY <2>1, <2>2, <2>3 DEF IInv, TypeOK, KeyAsMade, MadeOnInsert, AnswersExist
<1>7. ASSUME NEW j \in Jobs, Replay(j)
      PROVE  IInv'
  <2>. DEFINE q == [kind |-> "replay", generation |-> Generation(j) + 1]
  <2>1. q \in StoredKey /\ q.kind = "replay"
    <3>1. Generation(j) \in Nat
      BY DEF Generation, StoredKey, IInv, TypeOK
    <3>. QED BY <3>1 DEF StoredKey
  <2>2. row' = [row EXCEPT ![j] = [row[j] EXCEPT !.key = q, !.dead = FALSE]]
    BY <1>7 DEF Replay, IInv, TypeOK
  <2>. HIDE DEF q
  <2>3. UNCHANGED <<pc, wants, made, answers>>
    BY <1>7 DEF Replay
  <2>4. row' \in [Jobs -> [exists : BOOLEAN, key : StoredKey, dead : BOOLEAN]]
    BY <2>1, <2>2 DEF IInv, TypeOK
  <2>5. \A i \in Jobs : row'[i].exists = row[i].exists
    BY <2>2 DEF IInv, TypeOK
  <2>6. \A i \in Jobs : row'[i].key = (IF i = j THEN q ELSE row[i].key)
    BY <2>2 DEF IInv, TypeOK
  <2>7. KeyAsMade'
    BY <2>1, <2>3, <2>5, <2>6 DEF IInv, KeyAsMade
  <2>. QED
    BY <2>3, <2>4, <2>5, <2>7 DEF IInv, TypeOK, MadeOnInsert, AnswersExist
<1>8. CASE UNCHANGED vars
  BY <1>8 DEF vars, IInv, TypeOK, KeyAsMade, MadeOnInsert, AnswersExist
<1>. QED
  BY <1>1, <1>2, <1>3, <1>4, <1>5, <1>6, <1>7, <1>8 DEF Next

\* The rows, the keys and what each client waits for keep their types, however
\* requests race, fail and are sent again (enqueue, replayDeadLetter).
THEOREM TypeCorrect == Spec => []TypeOK
<1>1. IInv => TypeOK
  BY DEF IInv
<1>. QED BY <1>1, InitInv, NextInv, PTL DEF Spec

\* No client is ever given a job that was made for another key, replays or not.
THEOREM OwnJobOnly == Spec => []AnsweredWithOwnJob
<1>1. IInv => AnsweredWithOwnJob
  BY DEF IInv, AnswersExist, AnsweredWithOwnJob
<1>. QED BY <1>1, InitInv, NextInv, PTL DEF Spec

\* A key has at most one job that still has it.
OneKeptJob ==
  \A i, j \in Jobs :
    made[i] = made[j] /\ made[i] # NoKey
      /\ row[i].key.kind = "sent" /\ row[j].key.kind = "sent" => i = j

\* The insert finds every earlier row that still has its key, through every
\* race, retry and lost answer.
LEMMA OneKeptStep ==
  ASSUME IInv, OneKeptJob, [Next]_vars
  PROVE  OneKeptJob'
<1>1. ASSUME NEW c \in Clients, NEW j \in Jobs, Create(c, j) \/ CreateUnanswered(c, j)
      PROVE  OneKeptJob'
  <2>1. /\ ~Taken(wants[c])
        /\ made' = [made EXCEPT ![j] = wants[c]]
        /\ \A i \in Jobs \ {j} : row'[i] = row[i]
    BY <1>1 DEF Create, CreateUnanswered, IInv, TypeOK
  <2>2. ASSUME NEW i \in Jobs, made[i] = wants[c], wants[c] # NoKey, row[i].key.kind = "sent"
        PROVE  FALSE
    <3>1. row[i].exists /\ row[i].key = Sent(wants[c])
      BY <2>2 DEF IInv, MadeOnInsert, KeyAsMade
    <3>. QED BY <2>1, <2>2, <3>1 DEF Taken, Existing
  <2>. QED BY <2>1, <2>2 DEF OneKeptJob, IInv, TypeOK
<1>2. ASSUME NEW j \in Jobs, DeadLetter(j) \/ Replay(j)
      PROVE  OneKeptJob'
  <2>1. made' = made
    BY <1>2 DEF DeadLetter, Replay
  <2>2. \A i \in Jobs : row'[i].key.kind = "sent" => row[i].key.kind = "sent"
    BY <1>2 DEF DeadLetter, Replay, IInv, TypeOK
  <2>. QED BY <2>1, <2>2 DEF OneKeptJob
<1>3. CASE UNCHANGED <<row, made>>
  BY <1>3 DEF OneKeptJob
<1>. QED
  BY <1>1, <1>2, <1>3 DEF Next, vars, Find, CreateLoses, Refind, RequestFails

\* A (handler, idempotencyKey) pair has one job that was never replayed, however
\* many clients send it at once or again.
THEOREM Idempotent == Spec => []SecondJobOnlyAfterReplay
<1>1. Init => OneKeptJob
  BY DEF Init, OneKeptJob
<1>2. IInv /\ OneKeptJob => SecondJobOnlyAfterReplay
  <2>. SUFFICES ASSUME IInv, OneKeptJob, NEW i \in Jobs, NEW j \in Jobs,
                       made[i] = made[j], made[i] # NoKey,
                       Generation(i) = 0, Generation(j) = 0
                PROVE  i = j
    BY DEF SecondJobOnlyAfterReplay
  <2>1. ASSUME NEW k \in Jobs, Generation(k) = 0
        PROVE  row[k].key.kind = "sent"
    BY <2>1 DEF Generation, IInv, TypeOK, StoredKey
  <2>. QED BY <2>1 DEF OneKeptJob
<1>. QED BY <1>1, <1>2, InitInv, NextInv, OneKeptStep, PTL DEF Spec
=============================================================================
