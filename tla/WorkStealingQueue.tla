------------------------- MODULE WorkStealingQueue -------------------------
(***************************************************************************)
(* WorkStealingQueue and LockFreeQueue (src/worker/queue.rs): one bounded  *)
(* queue per worker, each shared with every other worker.  A call on one   *)
(* queue is atomic (crossbeam's ArrayQueue is linearizable); pop is not,   *)
(* since it tries the queues one after the other.                          *)
(***************************************************************************)
EXTENDS Naturals, Sequences

CONSTANTS
    NumWorkers,     \* config.num_workers
    Capacity,       \* ArrayQueue::new(capacity)
    Job,            \* the tasks other than Shutdown, all different
    Shutdown        \* Task::Shutdown

ASSUME QueueAssumption ==
    /\ NumWorkers \in Nat \ {0}
    /\ Capacity \in Nat \ {0}
    /\ Shutdown \notin Job

Worker == 1..NumWorkers

Task == Job \cup {Shutdown}

VARIABLE queue      \* local_queue of each worker

QueueInit == queue = [i \in Worker |-> <<>>]

IsFull(i) == Len(queue[i]) >= Capacity

Push_Evicts(i, task) ==     \* mutant: force_push, which drops the oldest task
    queue' = [queue EXCEPT ![i] = Append(IF IsFull(i) THEN Tail(@) ELSE @, task)]

Push_Newest(i, task) ==     \* mutant: a deque's owner end, the newest task first
    /\ ~IsFull(i)
    /\ queue' = [queue EXCEPT ![i] = <<task>> \o @]

(* push hands the task back when the queue is full: no step.               *)
Push(i, task) ==
    /\ ~IsFull(i)
    /\ queue' = [queue EXCEPT ![i] = Append(@, task)]

PopFrom(i) ==
    /\ queue[i] # <<>>
    /\ queue' = [queue EXCEPT ![i] = Tail(@)]

Victim_SkipsFirst(w, k) ==  \* mutant: the others are numbered from 1
    IF k = 1 THEN w ELSE k

(* The queue that worker w tries as its k-th: its own, then shared_queues, *)
(* which new() fills with the others in ascending order.                   *)
Victim(w, k) == IF k = 1 THEN w ELSE IF k - 1 < w THEN k - 1 ELSE k
=============================================================================
