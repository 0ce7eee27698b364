------------------------------ MODULE JobLease ------------------------------
(***************************************************************************)
(* What the automation queue promises: a job is leased to one process at a *)
(* time, its work is done by one thread of the holder at a time, and the   *)
(* job leaves the lease only while nobody is doing its work. A settled job *)
(* stays settled, except that a dead letter may be replayed.               *)
(***************************************************************************)
CONSTANTS Jobs, Workers, Threads, NoWorker

VARIABLES status,   \* of each job
          holder,   \* the process a job is leased to
          active    \* the threads doing the work of a job

leaseVars == <<status, holder, active>>

Init ==
  /\ status = [j \in Jobs |-> "absent"]
  /\ holder = [j \in Jobs |-> NoWorker]
  /\ active = [j \in Jobs |-> {}]

Submit(j) ==
  /\ status[j] = "absent"
  /\ status' = [status EXCEPT ![j] = "queued"]
  /\ UNCHANGED <<holder, active>>

Grant(j, w) ==
  /\ status[j] = "queued"
  /\ active[j] = {}
  /\ status' = [status EXCEPT ![j] = "running"]
  /\ holder' = [holder EXCEPT ![j] = w]
  /\ UNCHANGED active

Begin(j, t) ==
  /\ status[j] = "running" /\ holder[j] = t[1] /\ active[j] = {}
  /\ active' = [active EXCEPT ![j] = {t}]
  /\ UNCHANGED <<status, holder>>

End(j) ==
  /\ active[j] # {}
  /\ active' = [active EXCEPT ![j] = {}]
  /\ UNCHANGED <<status, holder>>

\* A process disappears with all its threads.
Kill(w) ==
  /\ active' = [j \in Jobs |-> active[j] \ ({w} \X Threads)]
  /\ UNCHANGED <<status, holder>>

\* The lease ends: the work is done, has failed, or is handed back.
Finish(j) ==
  /\ status[j] = "running" /\ active[j] = {}
  /\ \E s \in {"succeeded", "dead_letter", "queued"} :
       status' = [status EXCEPT ![j] = s]
  /\ holder' = [holder EXCEPT ![j] = NoWorker]
  /\ UNCHANGED active

Reopen(j) ==
  /\ status[j] = "dead_letter"
  /\ status' = [status EXCEPT ![j] = "queued"]
  /\ UNCHANGED <<holder, active>>

Next ==
  \/ \E j \in Jobs : Submit(j) \/ End(j) \/ Finish(j) \/ Reopen(j)
  \/ \E j \in Jobs, w \in Workers : Grant(j, w)
  \/ \E j \in Jobs, t \in Workers \X Threads : Begin(j, t)
  \/ \E w \in Workers : Kill(w)

Spec == Init /\ [][Next]_leaseVars
=============================================================================
