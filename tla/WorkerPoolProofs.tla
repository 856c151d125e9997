-------------------------- MODULE WorkerPoolProofs --------------------------
(***************************************************************************)
(* Proofs about the worker pool (module WorkerPool), for any number of     *)
(* workers and jobs and any capacity of the queues.                        *)
(***************************************************************************)
EXTENDS WorkerPool, FiniteSetTheorems, TLAPS

-----------------------------------------------------------------------------
(* Operators *)

(* The k-th queue a worker tries is a queue of the pool, ...               *)
LEMMA VictimType ==
    ASSUME NEW w \in Worker, NEW k \in Worker
    PROVE  Victim(w, k) \in Worker
  BY QueueAssumption DEF Victim, Worker

(* ... and it tries every queue.                                           *)
LEMMA VictimOnto ==
    ASSUME NEW w \in Worker, NEW i \in Worker
    PROVE  \E k \in 1..NumWorkers : Victim(w, k) = i
  <1>1. CASE i = w
    BY <1>1, QueueAssumption DEF Victim, Worker
  <1>2. CASE i < w
    <2>1. i + 1 \in 1..NumWorkers /\ Victim(w, i + 1) = i
      BY <1>2, QueueAssumption DEF Victim, Worker
    <2> QED
      BY <2>1
  <1>3. CASE i > w
    <2>1. i \in 1..NumWorkers /\ Victim(w, i) = i
      BY <1>3, QueueAssumption DEF Victim, Worker
    <2> QED
      BY <2>1
  <1> QED
    BY <1>1, <1>2, <1>3, QueueAssumption DEF Worker

-----------------------------------------------------------------------------
(* Type correctness *)

LEMMA InitTypeOK == Init => TypeOK
  BY QueueAssumption DEF Init, QueueInit, TypeOK, Worker

LEMMA NextTypeOK ==
    ASSUME TypeOK, [Next]_vars
    PROVE  TypeOK'
  <1> USE DEF TypeOK
  <1>1. ASSUME NEW i \in Worker, NEW j \in Job, Submit(i, j)
        PROVE  TypeOK'
    BY <1>1 DEF Submit, Push, Task
  <1>2. ASSUME NEW i \in Worker, Stop(i)
        PROVE  TypeOK'
    BY <1>2 DEF Stop, Push, Task
  <1>3. ASSUME NEW w \in Worker, PopBegins(w)
        PROVE  TypeOK'
    <2>1. 1 \in 0..(NumWorkers + 1) /\ Queued \subseteq Job
      BY QueueAssumption DEF Queued
    <2> QED
      BY <1>3, <2>1 DEF PopBegins
  <1>4. ASSUME NEW w \in Worker, PopTakesJob(w)
        PROVE  TypeOK'
    <2>1. Tried(w) \in Worker
      BY <1>4, VictimType DEF PopTakesJob, Scanning, Tried
    <2>2. queue' \in [Worker -> Seq(Task)]
      BY <1>4, <2>1 DEF PopTakesJob, PopFrom
    <2>3. scan' \in [Worker -> 0..(NumWorkers + 1)]
      BY <1>4, QueueAssumption DEF PopTakesJob, Worker
    <2> QED
      BY <1>4, <2>2, <2>3 DEF PopTakesJob
  <1>5. ASSUME NEW w \in Worker, PopTakesShutdown(w)
        PROVE  TypeOK'
    <2>1. Tried(w) \in Worker
      BY <1>5, VictimType DEF PopTakesShutdown, Scanning, Tried
    <2>2. queue' \in [Worker -> Seq(Task)]
      BY <1>5, <2>1 DEF PopTakesShutdown, PopFrom
    <2>3. scan' \in [Worker -> 0..(NumWorkers + 1)]
      BY <1>5, QueueAssumption DEF PopTakesShutdown, Worker
    <2> QED
      BY <1>5, <2>2, <2>3 DEF PopTakesShutdown
  <1>6. ASSUME NEW w \in Worker, PopMisses(w)
        PROVE  TypeOK'
    <2>1. scan[w] \in 1..NumWorkers
      BY <1>6 DEF PopMisses, Scanning, Worker
    <2>2. scan[w] + 1 \in 0..(NumWorkers + 1)
      BY <2>1, QueueAssumption
    <2>3. scan' \in [Worker -> 0..(NumWorkers + 1)]
      BY <1>6, <2>2 DEF PopMisses
    <2> QED
      BY <1>6, <2>3 DEF PopMisses
  <1>7. ASSUME NEW w \in Worker, Sleep(w)
        PROVE  TypeOK'
    <2>1. 0 \in 0..(NumWorkers + 1)
      BY QueueAssumption
    <2> QED
      BY <1>7, <2>1 DEF Sleep
  <1>8. CASE UNCHANGED vars
    BY <1>8 DEF vars
  <1> QED
    BY <1>1, <1>2, <1>3, <1>4, <1>5, <1>6, <1>7, <1>8 DEF Next, WorkerStep, Ended

(* Every variable of the pool keeps its type; pop never tries more queues  *)
(* than there are.                                                         *)
THEOREM PoolTypeCorrect == Spec => []TypeOK
  BY InitTypeOK, NextTypeOK, PTL DEF Spec

-----------------------------------------------------------------------------
(* pop *)

(* A push moves no task.                                                   *)
LEMMA PushKeepsPlace ==
    ASSUME TypeOK, NEW i \in Worker, NEW t \in Task, Push(i, t),
           NEW j, NEW h \in Worker, At(j, h)
    PROVE  At(j, h)'
  <1>1. PICK l \in DOMAIN queue[h] : queue[h][l] = j
    BY DEF At
  <1>2. queue'[h] = IF h = i THEN Append(queue[i], t) ELSE queue[h]
    BY DEF TypeOK, Push
  <1>3. queue[h] \in Seq(Task)
    BY DEF TypeOK
  <1>4. l \in DOMAIN queue'[h] /\ queue'[h][l] = j
    BY <1>1, <1>2, <1>3
  <1> QED
    BY <1>4 DEF At

(* Taking the head of a queue moves no other task to another queue.        *)
LEMMA PopKeepsPlace ==
    ASSUME TypeOK, NEW i \in Worker, PopFrom(i),
           NEW j, j # Head(queue[i]), NEW h \in Worker, At(j, h)
    PROVE  At(j, h)'
  <1>1. PICK l \in DOMAIN queue[h] : queue[h][l] = j
    BY DEF At
  <1>2. queue'[h] = IF h = i THEN Tail(queue[i]) ELSE queue[h]
    BY DEF TypeOK, PopFrom
  <1>3. queue[h] \in Seq(Task)
    BY DEF TypeOK
  <1>4. CASE h = i
    <2>1. l # 1
      BY <1>1, <1>3, <1>4
    <2>2. l - 1 \in DOMAIN queue'[h] /\ queue'[h][l - 1] = j
      BY <1>1, <1>2, <1>3, <1>4, <2>1
    <2> QED
      BY <2>2 DEF At
  <1>5. CASE h # i
    BY <1>1, <1>2, <1>5 DEF At
  <1> QED
    BY <1>4, <1>5

(* Jobs stay where a pop will still look, whatever the others do.          *)
LEMMA PlacesKeepScanAhead ==
    ASSUME TypeOK, ScanAhead,
           \A w \in Worker : scan'[w] > 0 => scan'[w] = scan[w],
           \A w \in Worker : resident'[w] \subseteq resident[w],
           \A w \in Worker : \A j \in resident'[w], h \in Worker : At(j, h) => At(j, h)'
    PROVE  ScanAhead'
  <1> SUFFICES ASSUME NEW w \in Worker, scan'[w] > 0, NEW j \in resident'[w]
               PROVE  \E k \in scan'[w]..NumWorkers : At(j, Victim(w, k))'
    BY DEF ScanAhead
  <1>1. PICK k \in scan[w]..NumWorkers : At(j, Victim(w, k))
    BY DEF ScanAhead
  <1>2. k \in Worker
    BY QueueAssumption DEF TypeOK, Worker
  <1>3. Victim(w, k) \in Worker
    BY <1>2, VictimType
  <1>4. At(j, Victim(w, k))'
    BY <1>1, <1>3 DEF Victim
  <1> QED
    BY <1>1, <1>4

LEMMA NextScanAhead ==
    ASSUME TypeOK, ScanAhead, [Next]_vars
    PROVE  ScanAhead'
  <1>1. ASSUME NEW i \in Worker, NEW j \in Job, Submit(i, j)
        PROVE  ScanAhead'
    <2>1. \A w \in Worker : \A g \in resident[w], h \in Worker : At(g, h) => At(g, h)'
      BY <1>1, PushKeepsPlace DEF Submit, Task, TypeOK
    <2> QED
      BY <1>1, <2>1, PlacesKeepScanAhead DEF Submit
  <1>2. ASSUME NEW i \in Worker, Stop(i)
        PROVE  ScanAhead'
    <2>1. \A w \in Worker : \A g \in resident[w], h \in Worker : At(g, h) => At(g, h)'
      BY <1>2, PushKeepsPlace DEF Stop, Task, TypeOK
    <2> QED
      BY <1>2, <2>1, PlacesKeepScanAhead DEF Stop
  <1>3. ASSUME NEW w \in Worker, PopBegins(w)
        PROVE  ScanAhead'
    <2> SUFFICES ASSUME NEW v \in Worker, scan'[v] > 0, NEW j \in resident'[v]
                 PROVE  \E k \in scan'[v]..NumWorkers : At(j, Victim(v, k))'
      BY DEF ScanAhead
    <2>1. \A h \in Worker : At(j, h) => At(j, h)'
      BY <1>3 DEF PopBegins, At
    <2>2. CASE v = w
      <3>1. scan'[w] = 1 /\ j \in Queued
        BY <1>3, <2>2 DEF PopBegins, TypeOK
      <3>2. PICK i \in Worker : At(j, i)
        BY <3>1 DEF Queued
      <3>3. PICK k \in 1..NumWorkers : Victim(w, k) = i
        BY VictimOnto
      <3> QED
        BY <1>3, <2>2, <3>1, <3>2, <3>3 DEF PopBegins, At, Victim
    <2>3. CASE v # w
      <3>1. scan'[v] = scan[v] /\ j \in resident[v]
        BY <1>3, <2>3 DEF PopBegins, TypeOK
      <3>2. PICK k \in scan[v]..NumWorkers : At(j, Victim(v, k))
        BY <3>1 DEF ScanAhead
      <3> QED
        BY <1>3, <3>1, <3>2 DEF PopBegins, At, Victim
    <2> QED
      BY <2>2, <2>3
  <1>4. ASSUME NEW w \in Worker, PopTakesJob(w)
        PROVE  ScanAhead'
    <2>1. Tried(w) \in Worker
      BY <1>4, VictimType DEF PopTakesJob, Scanning, Tried
    <2>2. \A v \in Worker : resident'[v] = resident[v] \ {Head(queue[Tried(w)])}
      BY <1>4 DEF PopTakesJob
    <2>3. \A v \in Worker : \A g \in resident'[v], h \in Worker : At(g, h) => At(g, h)'
      BY <1>4, <2>1, <2>2, PopKeepsPlace DEF PopTakesJob, TypeOK
    <2>4. \A v \in Worker : scan'[v] > 0 => scan'[v] = scan[v]
      BY <1>4 DEF PopTakesJob, TypeOK
    <2> QED
      BY <2>2, <2>3, <2>4, PlacesKeepScanAhead
  <1>5. ASSUME NEW w \in Worker, PopTakesShutdown(w)
        PROVE  ScanAhead'
    <2>1. Tried(w) \in Worker
      BY <1>5, VictimType DEF PopTakesShutdown, Scanning, Tried
    <2>2. \A g \in Job : g # Head(queue[Tried(w)])
      BY <1>5, QueueAssumption DEF PopTakesShutdown
    <2>3. \A v \in Worker : \A g \in resident'[v], h \in Worker : At(g, h) => At(g, h)'
      BY <1>5, <2>1, <2>2, PopKeepsPlace DEF PopTakesShutdown, TypeOK
    <2>4. \A v \in Worker : scan'[v] > 0 => scan'[v] = scan[v]
      BY <1>5 DEF PopTakesShutdown, TypeOK
    <2> QED
      BY <1>5, <2>3, <2>4, PlacesKeepScanAhead DEF PopTakesShutdown
  <1>6. ASSUME NEW w \in Worker, PopMisses(w)
        PROVE  ScanAhead'
    <2> SUFFICES ASSUME NEW v \in Worker, scan'[v] > 0, NEW j \in resident'[v]
                 PROVE  \E k \in scan'[v]..NumWorkers : At(j, Victim(v, k))'
      BY DEF ScanAhead
    <2>1. scan[v] > 0 /\ j \in resident[v] /\ scan[v] \in Nat
      BY <1>6 DEF PopMisses, Scanning, TypeOK, Worker
    <2>2. PICK k \in scan[v]..NumWorkers : At(j, Victim(v, k))
      BY <2>1 DEF ScanAhead
    <2>3. k \in scan'[v]..NumWorkers
      <3>1. CASE v = w
        <4>1. k # scan[v]
          BY <1>6, <2>2, <3>1 DEF PopMisses, Tried, At
        <4> QED
          BY <1>6, <2>1, <3>1, <4>1, QueueAssumption DEF PopMisses, TypeOK
      <3>2. CASE v # w
        BY <1>6, <3>2 DEF PopMisses, TypeOK
      <3> QED
        BY <3>1, <3>2
    <2> QED
      BY <1>6, <2>2, <2>3 DEF PopMisses, At, Victim
  <1>7. ASSUME NEW w \in Worker, Sleep(w)
        PROVE  ScanAhead'
    <2>1. \A v \in Worker : scan'[v] > 0 => scan'[v] = scan[v]
      BY <1>7 DEF Sleep, TypeOK
    <2> QED
      BY <1>7, <2>1, PlacesKeepScanAhead DEF Sleep, At
  <1>8. CASE UNCHANGED vars
    BY <1>8 DEF vars, ScanAhead, At
  <1> QED
    BY <1>1, <1>2, <1>3, <1>4, <1>5, <1>6, <1>7, <1>8 DEF Next, WorkerStep, Ended

(* A job that waits all through a pop is in a queue the pop has yet to     *)
(* try ...                                                                 *)
THEOREM PopLooksAhead == Spec => []ScanAhead
  <1>1. Init => ScanAhead
    BY DEF Init, ScanAhead
  <1> QED
    BY <1>1, PoolTypeCorrect, NextScanAhead, PTL DEF Spec

(* ... so when pop returns None, no job waited all through it.             *)
THEOREM PopIsSound == Spec => []NoneMeansNoJob
  <1>1. TypeOK /\ ScanAhead => NoneMeansNoJob
    <2> SUFFICES ASSUME TypeOK, ScanAhead, NEW w \in Worker, scan[w] > NumWorkers
                 PROVE  resident[w] = {}
      BY DEF NoneMeansNoJob
    <2>1. scan[w] \in Nat /\ scan[w] > 0 /\ scan[w]..NumWorkers = {}
      BY QueueAssumption DEF TypeOK
    <2> QED
      BY <2>1 DEF ScanAhead
  <1> QED
    BY <1>1, PoolTypeCorrect, PopLooksAhead, PTL

-----------------------------------------------------------------------------
(* Jobs are neither lost nor processed twice *)

(* The positions of the queues after a push, ...                           *)
LEMMA PushPositions ==
    ASSUME TypeOK, NEW i \in Worker, NEW t \in Task, Push(i, t),
           NEW h \in Worker, NEW l \in DOMAIN queue'[h]
    PROVE  \/ l \in DOMAIN queue[h] /\ queue'[h][l] = queue[h][l]
           \/ h = i /\ l = Len(queue[i]) + 1 /\ queue'[h][l] = t
  <1>1. queue'[h] = IF h = i THEN Append(queue[i], t) ELSE queue[h]
    BY DEF TypeOK, Push
  <1>2. queue[h] \in Seq(Task)
    BY DEF TypeOK
  <1> QED
    BY <1>1, <1>2

(* ... where the new task is, ...                                          *)
LEMMA PushPlacesTask ==
    ASSUME TypeOK, NEW i \in Worker, NEW t \in Task, Push(i, t)
    PROVE  At(t, i)'
  <1>1. queue'[i] = Append(queue[i], t) /\ queue[i] \in Seq(Task)
    BY DEF TypeOK, Push
  <1>2. Len(queue[i]) + 1 \in DOMAIN queue'[i] /\ queue'[i][Len(queue[i]) + 1] = t
    BY <1>1
  <1> QED
    BY <1>2 DEF At

(* ... what is queued after it, ...                                        *)
LEMMA PushQueues ==
    ASSUME TypeOK, NEW i \in Worker, NEW t \in Task, Push(i, t)
    PROVE  Queued' = Queued \cup ({t} \cap Job)
  <1>1. \A j \in Job, h \in Worker : At(j, h) => At(j, h)'
    BY PushKeepsPlace
  <1>2. \A j \in Job, h \in Worker : At(j, h)' => At(j, h) \/ j = t
    BY PushPositions DEF At
  <1>3. At(t, i)'
    BY PushPlacesTask
  <1> QED
    BY <1>1, <1>2, <1>3 DEF Queued

(* ... and the positions after a pop.                                      *)
LEMMA PopPositions ==
    ASSUME TypeOK, NEW i \in Worker, PopFrom(i),
           NEW h \in Worker, NEW l \in DOMAIN queue'[h]
    PROVE  IF h = i THEN l + 1 \in DOMAIN queue[h] /\ queue'[h][l] = queue[h][l + 1] /\ l \in Nat \ {0}
                    ELSE l \in DOMAIN queue[h] /\ queue'[h][l] = queue[h][l]
  <1>1. queue'[h] = IF h = i THEN Tail(queue[i]) ELSE queue[h]
    BY DEF TypeOK, PopFrom
  <1>2. queue[h] \in Seq(Task) /\ (h = i => queue[h] # <<>>)
    BY DEF TypeOK, PopFrom
  <1> QED
    BY <1>1, <1>2

(* A pop puts no task anywhere.                                            *)
LEMMA PopAddsNone ==
    ASSUME TypeOK, NEW i \in Worker, PopFrom(i), NEW j, NEW h \in Worker, At(j, h)'
    PROVE  At(j, h)
  <1>1. PICK l \in DOMAIN queue'[h] : queue'[h][l] = j
    BY DEF At
  <1> QED
    BY <1>1, PopPositions DEF At

(* A push of a task that is not queued, and a pop, keep every job in one   *)
(* place.                                                                  *)
LEMMA PushDistinct ==
    ASSUME TypeOK, Distinct, NEW i \in Worker, NEW t \in Task, Push(i, t),
           t # Shutdown => t \notin Queued
    PROVE  Distinct'
  <1> SUFFICES ASSUME NEW g \in Worker, NEW h \in Worker,
                      NEW k \in DOMAIN queue'[g], NEW l \in DOMAIN queue'[h],
                      queue'[g][k] = queue'[h][l], queue'[g][k] # Shutdown
               PROVE  g = h /\ k = l
    BY DEF Distinct
  <1>1. \/ k \in DOMAIN queue[g] /\ queue'[g][k] = queue[g][k]
        \/ g = i /\ k = Len(queue[i]) + 1 /\ queue'[g][k] = t
    BY PushPositions
  <1>2. \/ l \in DOMAIN queue[h] /\ queue'[h][l] = queue[h][l]
        \/ h = i /\ l = Len(queue[i]) + 1 /\ queue'[h][l] = t
    BY PushPositions
  <1>3. t # Shutdown => /\ \A m \in DOMAIN queue[g] : queue[g][m] # t
                        /\ \A m \in DOMAIN queue[h] : queue[h][m] # t
    BY DEF Queued, At, Task
  <1> QED
    BY <1>1, <1>2, <1>3 DEF Distinct

LEMMA PopDistinct ==
    ASSUME TypeOK, Distinct, NEW i \in Worker, PopFrom(i)
    PROVE  /\ Distinct'
           /\ Queued' = Queued \ {Head(queue[i])}
  <1>1. Distinct'
    <2> SUFFICES ASSUME NEW g \in Worker, NEW h \in Worker,
                        NEW k \in DOMAIN queue'[g], NEW l \in DOMAIN queue'[h],
                        queue'[g][k] = queue'[h][l], queue'[g][k] # Shutdown
                 PROVE  g = h /\ k = l
      BY DEF Distinct
    <2>1. /\ IF g = i THEN k + 1 \in DOMAIN queue[g] /\ queue'[g][k] = queue[g][k + 1] /\ k \in Nat \ {0}
                      ELSE k \in DOMAIN queue[g] /\ queue'[g][k] = queue[g][k]
          /\ IF h = i THEN l + 1 \in DOMAIN queue[h] /\ queue'[h][l] = queue[h][l + 1] /\ l \in Nat \ {0}
                      ELSE l \in DOMAIN queue[h] /\ queue'[h][l] = queue[h][l]
      BY PopPositions
    <2> QED
      BY <2>1 DEF Distinct
  <1>2. \A j \in Job, h \in Worker : j # Head(queue[i]) /\ At(j, h) => At(j, h)'
    BY PopKeepsPlace
  <1>3. \A j \in Job, h \in Worker : At(j, h)' => At(j, h)
    BY PopAddsNone
  <1>4. \A j \in Job, h \in Worker : At(j, h)' => j # Head(queue[i])
    <2> SUFFICES ASSUME NEW j \in Job, NEW h \in Worker, At(j, h)', j = Head(queue[i])
                 PROVE  FALSE
      OBVIOUS
    <2>1. PICK l \in DOMAIN queue'[h] : queue'[h][l] = j
      BY DEF At
    <2>2. 1 \in DOMAIN queue[i] /\ queue[i][1] = j /\ j # Shutdown
      BY QueueAssumption DEF TypeOK, PopFrom
    <2>3. IF h = i THEN l + 1 \in DOMAIN queue[h] /\ queue'[h][l] = queue[h][l + 1] /\ l \in Nat \ {0}
                   ELSE l \in DOMAIN queue[h] /\ queue'[h][l] = queue[h][l]
      BY PopPositions
    <2> QED
      BY <2>1, <2>2, <2>3 DEF Distinct
  <1> QED
    BY <1>1, <1>2, <1>3, <1>4 DEF Queued

LEMMA NextJobsConserved ==
    ASSUME TypeOK, JobsConserved, [Next]_vars
    PROVE  JobsConserved'
  <1> USE DEF JobsConserved
  <1>1. ASSUME NEW i \in Worker, NEW j \in Job, Submit(i, j)
        PROVE  JobsConserved'
    <2>1. Push(i, j) /\ j \in Task /\ j \notin Queued /\ j \notin Done
      BY <1>1 DEF Submit, Task
    <2>2. Queued' = Queued \cup {j} /\ Distinct'
      BY <2>1, PushQueues, PushDistinct
    <2>3. taken' = taken /\ Done' = Done /\ submitted' = submitted \cup {j}
      BY <1>1 DEF Submit, Done
    <2> QED
      BY <2>1, <2>2, <2>3
  <1>2. ASSUME NEW i \in Worker, Stop(i)
        PROVE  JobsConserved'
    <2>1. Push(i, Shutdown) /\ Shutdown \in Task
      BY <1>2 DEF Stop, Task
    <2>2. Queued' = Queued /\ Distinct'
      BY <2>1, PushQueues, PushDistinct, QueueAssumption
    <2>3. taken' = taken /\ Done' = Done /\ submitted' = submitted
      BY <1>2 DEF Stop, Done
    <2> QED
      BY <2>2, <2>3
  <1>3. ASSUME NEW w \in Worker, PopTakesJob(w)
        PROVE  JobsConserved'
    <2> DEFINE i == Tried(w)
               j == Head(queue[i])
    <2>1. i \in Worker /\ PopFrom(i) /\ j \in Job
      BY <1>3, VictimType DEF PopTakesJob, Scanning, Tried
    <2>2. j \in Queued
      <3>1. 1 \in DOMAIN queue[i] /\ queue[i][1] = j
        BY <2>1 DEF TypeOK, PopFrom
      <3> QED
        BY <2>1, <3>1 DEF Queued, At
    <2>3. Queued' = Queued \ {j} /\ Distinct'
      BY <2>1, PopDistinct
    <2>4. /\ taken'[w] = taken[w] \cup {j}
          /\ \A v \in Worker \ {w} : taken'[v] = taken[v]
          /\ submitted' = submitted
      BY <1>3 DEF PopTakesJob, TypeOK
    <2> HIDE DEF i, j
    <2>5. Done' = Done \cup {j}
      BY <2>4 DEF Done
    <2>6. \A v \in Worker : j \notin taken[v]
      BY <2>2 DEF Done
    <2>7. \A u, v \in Worker : u # v => taken'[u] \cap taken'[v] = {}
      BY <2>4, <2>6
    <2> QED
      BY <2>2, <2>3, <2>4, <2>5, <2>7
  <1>4. ASSUME NEW w \in Worker, PopTakesShutdown(w)
        PROVE  JobsConserved'
    <2>1. Tried(w) \in Worker /\ PopFrom(Tried(w)) /\ Head(queue[Tried(w)]) = Shutdown
      BY <1>4, VictimType DEF PopTakesShutdown, Scanning, Tried
    <2>2. Queued' = Queued /\ Distinct'
      BY <2>1, PopDistinct, QueueAssumption DEF Queued
    <2>3. taken' = taken /\ Done' = Done /\ submitted' = submitted
      BY <1>4 DEF PopTakesShutdown, Done
    <2> QED
      BY <2>2, <2>3
  <1>5. ASSUME UNCHANGED <<queue, taken, submitted>>
        PROVE  JobsConserved'
    BY <1>5 DEF Queued, At, Done, Distinct
  <1> QED
    BY <1>1, <1>2, <1>3, <1>4, <1>5
    DEF Next, WorkerStep, PopBegins, PopMisses, Sleep, Ended, vars

(* Every job submitted waits in one place or was processed by one worker,  *)
(* however the workers' pops interleave.                                   *)
THEOREM JobsNeitherLostNorRepeated == Spec => []JobsConserved
  <1>1. Init => JobsConserved
    BY DEF Init, QueueInit, JobsConserved, Distinct, Queued, At, Done
  <1> QED
    BY <1>1, PoolTypeCorrect, NextJobsConserved, PTL DEF Spec

-----------------------------------------------------------------------------
(* Every worker finds a Shutdown, and leaves no job behind *)

(* Nothing is pushed behind a Shutdown.                                    *)
LEMMA NextShutdownLast ==
    ASSUME TypeOK, ShutdownLast, [Next]_vars
    PROVE  ShutdownLast'
  <1>1. ASSUME NEW i \in Worker, NEW j \in Job, Submit(i, j)
        PROVE  ShutdownLast'
    <2>1. Push(i, j) /\ j \in Task /\ j # Shutdown /\ i \notin stopped /\ stopped' = stopped
      BY <1>1, QueueAssumption DEF Submit, Task
    <2> SUFFICES ASSUME NEW h \in Worker, NEW k \in DOMAIN queue'[h]
                 PROVE  queue'[h][k] = Shutdown <=> h \in stopped' /\ k = Len(queue'[h])
      BY DEF ShutdownLast
    <2>2. queue'[h] = IF h = i THEN Append(queue[i], j) ELSE queue[h]
      BY <2>1 DEF TypeOK, Push
    <2>3. queue[h] \in Seq(Task)
      BY DEF TypeOK
    <2>4. \/ k \in DOMAIN queue[h] /\ queue'[h][k] = queue[h][k]
          \/ h = i /\ k = Len(queue[i]) + 1 /\ queue'[h][k] = j
      BY <2>1, PushPositions
    <2> QED
      BY <2>1, <2>2, <2>3, <2>4 DEF ShutdownLast
  <1>2. ASSUME NEW i \in Worker, Stop(i)
        PROVE  ShutdownLast'
    <2>1. Push(i, Shutdown) /\ Shutdown \in Task /\ i \notin stopped
          /\ stopped' = stopped \cup {i}
      BY <1>2 DEF Stop, Task
    <2> SUFFICES ASSUME NEW h \in Worker, NEW k \in DOMAIN queue'[h]
                 PROVE  queue'[h][k] = Shutdown <=> h \in stopped' /\ k = Len(queue'[h])
      BY DEF ShutdownLast
    <2>2. queue'[h] = IF h = i THEN Append(queue[i], Shutdown) ELSE queue[h]
      BY <2>1 DEF TypeOK, Push
    <2>3. queue[h] \in Seq(Task)
      BY DEF TypeOK
    <2>4. \/ k \in DOMAIN queue[h] /\ queue'[h][k] = queue[h][k]
          \/ h = i /\ k = Len(queue[i]) + 1 /\ queue'[h][k] = Shutdown
      BY <2>1, PushPositions
    <2> QED
      BY <2>1, <2>2, <2>3, <2>4 DEF ShutdownLast
  <1>3. ASSUME NEW i \in Worker, PopFrom(i), stopped' = stopped
        PROVE  ShutdownLast'
    <2> SUFFICES ASSUME NEW h \in Worker, NEW k \in DOMAIN queue'[h]
                 PROVE  queue'[h][k] = Shutdown <=> h \in stopped' /\ k = Len(queue'[h])
      BY DEF ShutdownLast
    <2>1. queue'[h] = IF h = i THEN Tail(queue[i]) ELSE queue[h]
      BY <1>3 DEF TypeOK, PopFrom
    <2>2. queue[h] \in Seq(Task) /\ (h = i => queue[h] # <<>>)
      BY <1>3 DEF TypeOK, PopFrom
    <2>3. IF h = i THEN k + 1 \in DOMAIN queue[h] /\ queue'[h][k] = queue[h][k + 1] /\ k \in Nat \ {0}
                   ELSE k \in DOMAIN queue[h] /\ queue'[h][k] = queue[h][k]
      BY <1>3, PopPositions
    <2>4. h = i => Len(queue'[h]) = Len(queue[h]) - 1
      BY <2>1, <2>2
    <2> QED
      BY <1>3, <2>1, <2>2, <2>3, <2>4 DEF ShutdownLast
  <1>4. ASSUME NEW w \in Worker, PopTakesJob(w)
        PROVE  ShutdownLast'
    BY <1>3, <1>4, VictimType DEF PopTakesJob, Scanning, Tried
  <1>5. ASSUME NEW w \in Worker, PopTakesShutdown(w)
        PROVE  ShutdownLast'
    BY <1>3, <1>5, VictimType DEF PopTakesShutdown, Scanning, Tried
  <1>6. ASSUME UNCHANGED <<queue, stopped>>
        PROVE  ShutdownLast'
    BY <1>6 DEF ShutdownLast
  <1> QED
    BY <1>1, <1>2, <1>4, <1>5, <1>6
    DEF Next, WorkerStep, PopBegins, PopMisses, Sleep, Ended, vars

(* A Shutdown is the last task of its queue, and a queue that was stopped  *)
(* and has lost its Shutdown is empty.                                     *)
THEOREM ShutdownEndsQueue == Spec => []ShutdownLast
  <1>1. Init => ShutdownLast
    BY DEF Init, QueueInit, ShutdownLast
  <1> QED
    BY <1>1, PoolTypeCorrect, NextShutdownLast, PTL DEF Spec

(* The queues that still owe a worker its Shutdown.                        *)
LEMMA OwingFinite ==
    /\ IsFiniteSet(Worker)
    /\ Owing \subseteq Worker
    /\ IsFiniteSet(Owing)
    /\ \A S \in SUBSET Worker : IsFiniteSet(S)
  <1>1. IsFiniteSet(Worker)
    BY QueueAssumption, FS_Interval DEF Worker
  <1>2. \A S \in SUBSET Worker : IsFiniteSet(S)
    BY <1>1, FS_Subset
  <1> QED
    BY <1>1, <1>2 DEF Owing

(* Only taking a Shutdown changes them, and it takes one off.              *)
LEMMA NextShutdownForEach ==
    ASSUME TypeOK, ShutdownLast, ShutdownForEach, [Next]_vars
    PROVE  ShutdownForEach'
  <1> USE DEF ShutdownForEach
  <1>1. ASSUME NEW i \in Worker, NEW j \in Job, Submit(i, j)
        PROVE  Owing' = Owing
    <2>1. Push(i, j) /\ j \in Task /\ j # Shutdown /\ stopped' = stopped
      BY <1>1, QueueAssumption DEF Submit, Task
    <2>2. \A h \in Worker : At(Shutdown, h) => At(Shutdown, h)'
      BY <2>1, PushKeepsPlace
    <2>3. \A h \in Worker : At(Shutdown, h)' => At(Shutdown, h)
      BY <2>1, PushPositions DEF At
    <2> QED
      BY <2>1, <2>2, <2>3 DEF Owing
  <1>2. ASSUME NEW i \in Worker, Stop(i)
        PROVE  Owing' = Owing
    <2>1. Push(i, Shutdown) /\ Shutdown \in Task /\ i \notin stopped
          /\ stopped' = stopped \cup {i}
      BY <1>2 DEF Stop, Task
    <2>2. \A h \in Worker : At(Shutdown, h) => At(Shutdown, h)'
      BY <2>1, PushKeepsPlace
    <2>3. \A h \in Worker \ {i} : At(Shutdown, h)' => At(Shutdown, h)
      BY <2>1, PushPositions DEF At
    <2>4. At(Shutdown, i)'
      BY <2>1, PushPlacesTask
    <2> QED
      BY <2>1, <2>2, <2>3, <2>4 DEF Owing
  <1>3. ASSUME NEW w \in Worker, PopTakesJob(w)
        PROVE  Owing' = Owing
    <2>1. Tried(w) \in Worker /\ PopFrom(Tried(w)) /\ stopped' = stopped
          /\ Head(queue[Tried(w)]) # Shutdown
      BY <1>3, VictimType, QueueAssumption DEF PopTakesJob, Scanning, Tried
    <2>2. \A h \in Worker : At(Shutdown, h) => At(Shutdown, h)'
      BY <2>1, PopKeepsPlace DEF Task
    <2>3. \A h \in Worker : At(Shutdown, h)' => At(Shutdown, h)
      BY <2>1, PopAddsNone DEF Task
    <2> QED
      BY <2>1, <2>2, <2>3 DEF Owing
  <1>4. ASSUME NEW w \in Worker, PopTakesShutdown(w)
        PROVE  ShutdownForEach'
    <2>1. PICK i \in Worker : /\ PopFrom(i)
                              /\ Head(queue[i]) = Shutdown
                              /\ stopped' = stopped
                              /\ w \in alive /\ alive' = alive \ {w}
      BY <1>4, VictimType DEF PopTakesShutdown, Scanning, Tried
    <2>2. queue[i] \in Seq(Task) /\ queue[i] # <<>> /\ queue[i][1] = Shutdown
          /\ 1 \in DOMAIN queue[i]
      BY <2>1 DEF TypeOK, PopFrom
    <2>3. i \in stopped /\ Len(queue[i]) = 1
      BY <2>1, <2>2 DEF ShutdownLast
    <2>4. ~At(Shutdown, i)' /\ At(Shutdown, i)
      <3>1. queue'[i] = <<>>
        <4>1. queue'[i] = Tail(queue[i])
          BY <2>1 DEF TypeOK, PopFrom
        <4>2. Tail(queue[i]) \in Seq(Task) /\ Len(Tail(queue[i])) = 0
          BY <2>2, <2>3
        <4>3. \A s \in Seq(Task) : Len(s) = 0 => s = <<>>
          OBVIOUS
        <4> QED
          BY <4>1, <4>2, <4>3, ZenonT(60)
      <3> QED
        BY <2>2, <3>1 DEF At
    <2>5. \A h \in Worker \ {i} : At(Shutdown, h)' <=> At(Shutdown, h)
      BY <2>1 DEF At, PopFrom, TypeOK
    <2>6. Owing' = Owing \ {i} /\ i \in Owing
      BY <2>1, <2>3, <2>4, <2>5 DEF Owing
    <2>7. IsFiniteSet(alive) /\ IsFiniteSet(Owing)
      BY OwingFinite DEF TypeOK
    <2>8. Cardinality(Owing \ {i}) = Cardinality(Owing) - 1
      BY <2>6, <2>7, FS_RemoveElement
    <2>9. Cardinality(alive \ {w}) = Cardinality(alive) - 1
      BY <2>1, <2>7, FS_RemoveElement
    <2> QED
      BY <2>1, <2>6, <2>8, <2>9
  <1>5. ASSUME UNCHANGED <<queue, stopped>>
        PROVE  Owing' = Owing
    BY <1>5 DEF Owing, At
  <1>6. CASE alive' = alive /\ Owing' = Owing
    BY <1>6
  <1> QED
    BY <1>1, <1>2, <1>3, <1>4, <1>5, <1>6
    DEF Next, WorkerStep, Submit, Stop, PopTakesJob, PopBegins, PopMisses, Sleep, Ended, vars

(* A worker that takes the Shutdown of another leaves it its own: there is *)
(* one for each that lives.                                                *)
THEOREM EveryWorkerStops == Spec => []ShutdownForEach
  <1>1. Init => ShutdownForEach
    <2>1. Init => Owing = Worker
      BY DEF Init, Owing
    <2> QED
      BY <2>1 DEF Init, ShutdownForEach
  <1> QED
    BY <1>1, PoolTypeCorrect, ShutdownEndsQueue, NextShutdownForEach, PTL DEF Spec

(* When the last worker has left, every queue was stopped and is empty.    *)
LEMMA NoneAliveNoneQueued ==
    ASSUME TypeOK, ShutdownLast, ShutdownForEach
    PROVE  NoJobStranded
  <1> SUFFICES ASSUME alive = {} PROVE Queued = {}
    BY DEF NoJobStranded
  <1>1. Owing = {}
    BY OwingFinite, FS_EmptySet DEF ShutdownForEach
  <1>2. ASSUME NEW i \in Worker, queue[i] # <<>>
        PROVE  FALSE
    <2>1. i \in stopped /\ ~At(Shutdown, i)
      BY <1>1 DEF Owing
    <2>2. queue[i] \in Seq(Task) /\ Len(queue[i]) \in DOMAIN queue[i]
      BY <1>2 DEF TypeOK
    <2> QED
      BY <2>1, <2>2 DEF ShutdownLast, At
  <1> QED
    BY <1>2 DEF Queued, At

(* The last worker does not leave a job behind.                            *)
THEOREM LastWorkerLeavesNothing == Spec => []NoJobStranded
  BY PoolTypeCorrect, ShutdownEndsQueue, EveryWorkerStops, NoneAliveNoneQueued, PTL

-----------------------------------------------------------------------------
(* The workers implement the pool of TaskPool *)

(* Every step of the workers and of the submitting thread is a step of the *)
(* abstract pool, or none.                                                 *)
LEMMA NextRefines ==
    ASSUME TypeOK, JobsConserved, ShutdownLast, ShutdownForEach, NoJobStranded', [Next]_vars
    PROVE  [Pool!Next]_(Pool!vars)
  <1>1. ASSUME NEW i \in Worker, NEW j \in Job, Submit(i, j)
        PROVE  Pool!Submit(j)
    <2>1. Push(i, j) /\ j \in Task /\ j \notin Queued /\ j \notin Done
      BY <1>1 DEF Submit, Task, JobsConserved
    <2>2. Queued' = Queued \cup {j}
      BY <2>1, PushQueues
    <2>3. Done' = Done /\ alive' = alive
      BY <1>1 DEF Submit, Done
    <2>4. alive # {}
      <3>1. i \in Owing
        BY <1>1 DEF Submit, Owing
      <3> QED
        BY <3>1, OwingFinite, FS_EmptySet DEF ShutdownForEach, TypeOK
    <2> QED
      BY <2>1, <2>2, <2>3, <2>4 DEF Pool!Submit
  <1>2. ASSUME NEW i \in Worker, Stop(i)
        PROVE  UNCHANGED (Pool!vars)
    <2>1. Queued' = Queued
      BY <1>2, PushQueues, QueueAssumption DEF Stop, Task
    <2> QED
      BY <1>2, <2>1 DEF Stop, Done, Pool!vars
  <1>3. ASSUME NEW w \in Worker, PopTakesJob(w)
        PROVE  \E j \in Job : Pool!Process(j)
    <2> DEFINE i == Tried(w)
               j == Head(queue[i])
    <2>1. i \in Worker /\ PopFrom(i) /\ j \in Job /\ w \in alive /\ alive' = alive
      BY <1>3, VictimType DEF PopTakesJob, Scanning, Tried
    <2>2. j \in Queued
      <3>1. 1 \in DOMAIN queue[i] /\ queue[i][1] = j
        BY <2>1 DEF TypeOK, PopFrom
      <3> QED
        BY <2>1, <3>1 DEF Queued, At
    <2>3. Queued' = Queued \ {j}
      BY <2>1, PopDistinct DEF JobsConserved
    <2>4. /\ taken'[w] = taken[w] \cup {j}
          /\ \A v \in Worker \ {w} : taken'[v] = taken[v]
      BY <1>3 DEF PopTakesJob, TypeOK
    <2> HIDE DEF i, j
    <2>5. Done' = Done \cup {j}
      BY <2>4 DEF Done
    <2>6. Pool!Process(j)
      BY <2>1, <2>2, <2>3, <2>5 DEF Pool!Process
    <2> QED
      BY <2>1, <2>6
  <1>4. ASSUME NEW w \in Worker, PopTakesShutdown(w)
        PROVE  Pool!Quit(w)
    <2>1. Tried(w) \in Worker /\ PopFrom(Tried(w)) /\ Head(queue[Tried(w)]) = Shutdown
          /\ w \in alive /\ alive' = alive \ {w}
      BY <1>4, VictimType DEF PopTakesShutdown, Scanning, Tried
    <2>2. Queued' = Queued
      BY <2>1, PopDistinct, QueueAssumption DEF Queued, JobsConserved
    <2>3. Done' = Done
      BY <1>4 DEF PopTakesShutdown, Done
    <2>4. alive = {w} => Queued = {}
      BY <2>1, <2>2 DEF NoJobStranded
    <2> QED
      BY <2>1, <2>2, <2>3, <2>4 DEF Pool!Quit
  <1>5. ASSUME UNCHANGED <<queue, taken, alive>>
        PROVE  UNCHANGED (Pool!vars)
    BY <1>5 DEF Queued, At, Done, Pool!vars
  <1> QED
    BY <1>1, <1>2, <1>3, <1>4, <1>5
    DEF Next, WorkerStep, PopBegins, PopMisses, Sleep, Ended, vars, Pool!Next, Worker

(* The workers implement TaskPool, apart from its fairness: each job is    *)
(* processed at most once and only after it was submitted, no worker       *)
(* leaves as the last one while a job waits, and no job is submitted to a  *)
(* pool without workers.                                                   *)
THEOREM WorkersImplementPool == Spec => PoolSafety
  <1>1. Init => Pool!Init
    BY DEF Init, QueueInit, Queued, At, Done, Pool!Init, Worker
  <1> QED
    BY <1>1, PoolTypeCorrect, JobsNeitherLostNorRepeated, ShutdownEndsQueue, EveryWorkerStops,
       LastWorkerLeavesNothing, NextRefines, PTL DEF Spec, PoolSafety
=============================================================================
