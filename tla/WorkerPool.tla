----------------------------- MODULE WorkerPool -----------------------------
(***************************************************************************)
(* The worker threads (Reactor::worker_thread, src/worker/reactor.rs) over *)
(* their work-stealing queues, and the thread that hands them tasks.       *)
(*                                                                         *)
(* No code of the repository submits a task, so the submitting thread is   *)
(* external: it submits jobs to any queue (local() is there "for direct    *)
(* submission") and stops the pool by one Shutdown to every queue, after   *)
(* which it submits nothing more to that queue.  self.running stays TRUE.  *)
(***************************************************************************)
EXTENDS WorkStealingQueue, FiniteSets

VARIABLES
    scan,       \* 0, or which queue (the scan-th) a worker's pop tries next
    alive,      \* workers that have not left their loop
    taken,      \* jobs each worker has processed
    submitted,  \* jobs that were submitted
    stopped,    \* queues that were sent their Shutdown
    resident    \* history: jobs queued ever since a worker's pop began

vars == <<queue, scan, alive, taken, submitted, stopped, resident>>

(* A task t waits in queue i.                                              *)
At(t, i) == \E k \in DOMAIN queue[i] : queue[i][k] = t

Queued == {j \in Job : \E i \in Worker : At(j, i)}

Done == UNION {taken[w] : w \in Worker}

Init ==
    /\ QueueInit
    /\ scan = [w \in Worker |-> 0]
    /\ alive = Worker
    /\ taken = [w \in Worker |-> {}]
    /\ submitted = {}
    /\ stopped = {}
    /\ resident = [w \in Worker |-> {}]

-----------------------------------------------------------------------------
(* The submitting thread *)

Submit(i, j) ==
    /\ j \notin submitted
    /\ i \notin stopped
    /\ Push(i, j)
    /\ submitted' = submitted \cup {j}
    /\ UNCHANGED <<scan, alive, taken, stopped, resident>>

Stop(i) ==
    /\ i \notin stopped
    /\ Push(i, Shutdown)
    /\ stopped' = stopped \cup {i}
    /\ UNCHANGED <<scan, alive, taken, submitted, resident>>

-----------------------------------------------------------------------------
(* A worker *)

(* while running: queue.pop() is called.                                   *)
PopBegins(w) ==
    /\ w \in alive
    /\ scan[w] = 0
    /\ scan' = [scan EXCEPT ![w] = 1]
    /\ resident' = [resident EXCEPT ![w] = Queued]
    /\ UNCHANGED <<queue, alive, taken, submitted, stopped>>

Scanning(w) == w \in alive /\ scan[w] \in Worker

Tried(w) == Victim(w, scan[w])

(* One queue has a job: pop returns it and the worker processes it.        *)
PopTakesJob(w) ==
    /\ Scanning(w)
    /\ PopFrom(Tried(w))
    /\ LET task == Head(queue[Tried(w)]) IN
         /\ task \in Job
         /\ taken' = [taken EXCEPT ![w] = @ \cup {task}]
         /\ resident' = [v \in Worker |-> resident[v] \ {task}]
    /\ scan' = [scan EXCEPT ![w] = 0]
    /\ UNCHANGED <<alive, submitted, stopped>>

PopTakesShutdown_AsJob(w) ==    \* mutant: no arm for Shutdown, so `_` takes it
    /\ Scanning(w)
    /\ PopFrom(Tried(w))
    /\ Head(queue[Tried(w)]) = Shutdown
    /\ taken' = [taken EXCEPT ![w] = @ \cup {Shutdown}]
    /\ scan' = [scan EXCEPT ![w] = 0]
    /\ UNCHANGED <<alive, submitted, stopped, resident>>

PopTakesShutdown_OwnOnly(w) ==  \* mutant: a stolen Shutdown is dropped
    /\ Scanning(w)
    /\ PopFrom(Tried(w))
    /\ Head(queue[Tried(w)]) = Shutdown
    /\ alive' = IF Tried(w) = w THEN alive \ {w} ELSE alive
    /\ scan' = [scan EXCEPT ![w] = 0]
    /\ UNCHANGED <<taken, submitted, stopped, resident>>

(* pop returns Shutdown, the worker's own or a stolen one: break.          *)
PopTakesShutdown(w) ==
    /\ Scanning(w)
    /\ PopFrom(Tried(w))
    /\ Head(queue[Tried(w)]) = Shutdown
    /\ alive' = alive \ {w}
    /\ scan' = [scan EXCEPT ![w] = 0]
    /\ UNCHANGED <<taken, submitted, stopped, resident>>

PopMisses(w) ==
    /\ Scanning(w)
    /\ queue[Tried(w)] = <<>>
    /\ scan' = [scan EXCEPT ![w] = @ + 1]
    /\ UNCHANGED <<queue, alive, taken, submitted, stopped, resident>>

(* pop returned None: sleep, then start over.                              *)
Sleep(w) ==
    /\ w \in alive
    /\ scan[w] > NumWorkers
    /\ scan' = [scan EXCEPT ![w] = 0]
    /\ UNCHANGED <<queue, alive, taken, submitted, stopped, resident>>

WorkerStep(w) ==
    \/ PopBegins(w)
    \/ PopTakesJob(w)
    \/ PopTakesShutdown(w)
    \/ PopMisses(w)
    \/ Sleep(w)

(* Every worker has left its loop.                                         *)
Ended == alive = {} /\ UNCHANGED vars

Next ==
    \/ \E i \in Worker, j \in Job : Submit(i, j)
    \/ \E i \in Worker : Stop(i)
    \/ \E w \in Worker : WorkerStep(w)
    \/ Ended

Spec == Init /\ [][Next]_vars

(* Every worker is a thread of its own that the system keeps scheduling.   *)
FairSpec == Spec /\ \A w \in Worker : WF_vars(WorkerStep(w))

-----------------------------------------------------------------------------
(* Properties *)

TypeOK ==
    /\ queue \in [Worker -> Seq(Task)]
    /\ scan \in [Worker -> 0..(NumWorkers + 1)]
    /\ alive \subseteq Worker
    /\ taken \in [Worker -> SUBSET Job]
    /\ submitted \subseteq Job
    /\ stopped \subseteq Worker
    /\ resident \in [Worker -> SUBSET Job]

(* pop returns None although it looks at the queues at different times and *)
(* others push and steal meanwhile: no job was there all along.            *)
NoneMeansNoJob == \A w \in Worker : scan[w] > NumWorkers => resident[w] = {}

(* Why that is so: a job that has been there since pop began waits in a    *)
(* queue that the pop has yet to try.                                      *)
ScanAhead ==
    \A w \in Worker : scan[w] > 0 =>
        \A j \in resident[w] : \E k \in scan[w]..NumWorkers : At(j, Victim(w, k))

(* No job is in two places.                                                *)
Distinct ==
    \A i, h \in Worker : \A k \in DOMAIN queue[i], l \in DOMAIN queue[h] :
        queue[i][k] = queue[h][l] /\ queue[i][k] # Shutdown => i = h /\ k = l

(* A job that was submitted is in one place of one queue or was processed  *)
(* by one worker: never lost, never processed twice.                       *)
JobsConserved ==
    /\ submitted = Queued \cup Done
    /\ Queued \cap Done = {}
    /\ \A v, w \in Worker : v # w => taken[v] \cap taken[w] = {}
    /\ Distinct

(* A Shutdown is the last task of a queue that was stopped and no other's; *)
(* once it is taken, the queue is empty for good.                          *)
ShutdownLast ==
    \A i \in Worker : \A k \in DOMAIN queue[i] :
        queue[i][k] = Shutdown <=> i \in stopped /\ k = Len(queue[i])

(* The queues that have a Shutdown or are still to get one.                *)
Owing == {i \in Worker : i \notin stopped \/ At(Shutdown, i)}

(* A Shutdown may be stolen by another worker than the one it was sent to. *)
(* There is still one for every worker that lives on when all queues are   *)
(* stopped.                                                                *)
ShutdownForEach == Cardinality(alive) = Cardinality(Owing)

(* The last worker does not leave a job behind.                            *)
NoJobStranded == alive = {} => Queued = {}

(* Once every queue is stopped, every worker leaves its loop.              *)
AllStop == stopped = Worker ~> alive = {}

(* The workers implement a pool in which every job submitted is processed  *)
(* once, and eventually.                                                   *)
Pool == INSTANCE TaskPool WITH pending <- Queued, done <- Done
PoolSpec == Pool!Spec

(* The same without its fairness.                                          *)
PoolSafety == Pool!Init /\ [][Pool!Next]_(Pool!vars)
=============================================================================
