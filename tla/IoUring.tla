------------------------------ MODULE IoUring ------------------------------
(***************************************************************************)
(* IoUringBackend (src/net/io_uring.rs): a submission queue of bounded     *)
(* length, the operations the kernel works on, and the completion queue.   *)
(* Every submit method pushes one entry and then calls io_uring_enter,     *)
(* which takes entries off the front of the queue.                         *)
(*                                                                         *)
(* Nothing in the repository calls the backend.  The caller modelled here  *)
(* (external) is the one its interface allows: completions name only a     *)
(* descriptor, so it keeps one operation per descriptor in flight; it      *)
(* leaves the buffer of an operation alone until the completion is         *)
(* reported, and takes it back at once when a submit method returns Err.   *)
(***************************************************************************)
EXTENDS Naturals, Integers, Sequences, FiniteSets

CONSTANTS
    Fd,         \* descriptors
    Pipe,       \* those that are pipes
    Call,       \* what the submit methods are called with:
                \* [op, fd, in_fd, len], where in_fd differs for "splice" only
    QueueDepth, \* IoUringBackend::new(queue_depth)
    Width,      \* bits of the length of an entry (32)
    MaxOps,     \* bound on the operations of the caller
    MaxFaults   \* bound on the times io_uring_enter fails or stops early

ASSUME IoUringAssumption ==
    /\ Pipe \subseteq Fd
    /\ Call \subseteq [op : {"read", "write", "accept", "splice"}, fd : Fd, in_fd : Fd, len : Nat]
    /\ Call # {}
    /\ QueueDepth \in Nat \ {0}
    /\ Width \in Nat
    /\ MaxOps \in Nat
    /\ MaxFaults \in Nat

(* Arithmetic: true of all numbers, and named for the proofs, since the    *)
(* provers do not know powers.                                             *)
ASSUME PowerAssumption ==
    /\ \A k \in 0..QueueDepth : 2^k \in Nat
    /\ 2^QueueDepth >= QueueDepth
    /\ 2^Width \in Nat \ {0}

Op == 1..MaxOps

VARIABLES
    sq,         \* entries pushed and not yet taken by the kernel
    kernel,     \* entries the kernel works on
    cq,         \* completions posted and not yet read
    pc,         \* "idle", or inside wait_for_completion
    flushed,    \* the wait has handed entries to the kernel
    made,       \* number of operations the caller has started
    asked,      \* their arguments
    told,       \* what the caller knows of each operation
    reports,    \* history: how often each has been reported
    faults

callVars == <<made, asked>>
vars == <<sq, kernel, cq, pc, flushed, callVars, told, reports, faults>>

(* "ok": in flight, the buffer is lent; "err": submit() failed; "refused": *)
(* push() failed; "done": a completion was reported.                       *)
Told == {"none", "ok", "err", "refused", "done"}

Init ==
    /\ sq = <<>>
    /\ kernel = {}
    /\ cq = <<>>
    /\ pc = "idle"
    /\ flushed = FALSE
    /\ made = 0
    /\ asked = [i \in Op |-> CHOOSE c \in Call : TRUE]
    /\ told = [i \in Op |-> "none"]
    /\ reports = [i \in Op |-> 0]
    /\ faults = 0

(* IoUring::new rounds the length of the queue up to a power of two.       *)
SqEntries == CHOOSE n \in {2^k : k \in 0..QueueDepth} :
                /\ n >= QueueDepth
                /\ \A k \in 0..QueueDepth : 2^k >= QueueDepth => n <= 2^k

(* The kernel makes the completion queue twice as long.                    *)
CqEntries == 2 * SqEntries

-----------------------------------------------------------------------------
(* Entries *)

AsU32_Fixed(len) == 2^Width - 1     \* mutant: asks for the largest buffer there is

AsU32(len) == len % 2^Width

UserData_InFd(call) == call.in_fd   \* mutant: splice is tagged with the file

UserData(call) == call.fd

Entry(i, call) ==
    [id |-> i, op |-> call.op, in_fd |-> call.in_fd, len |-> AsU32(call.len),
     user_data |-> UserData(call)]

(* io_uring_enter takes n entries of q.  It stops early at an entry it     *)
(* cannot prepare or has no memory for.                                    *)
Enter(q, n) ==
    /\ n \in 0..Len(q)
    /\ n = 0 => q = <<>>
    /\ n < Len(q) => faults < MaxFaults
    /\ sq' = SubSeq(q, n + 1, Len(q))
    /\ kernel' = kernel \cup {q[k] : k \in 1..n}
    /\ faults' = IF n < Len(q) THEN faults + 1 ELSE faults

EnterFails(q) ==
    /\ faults < MaxFaults
    /\ faults' = faults + 1
    /\ sq' = q
    /\ UNCHANGED kernel

-----------------------------------------------------------------------------
(* submit_read, submit_write, submit_accept, submit_sendfile *)

(* The caller starts an operation and is told the outcome.                 *)
Starts(call, outcome) ==
    /\ pc = "idle"
    /\ made < MaxOps
    /\ \A i \in Op : told[i] = "ok" => asked[i].fd # call.fd
    /\ made' = made + 1
    /\ asked' = [asked EXCEPT ![made + 1] = call]
    /\ told' = [told EXCEPT ![made + 1] = outcome]
    /\ UNCHANGED <<cq, pc, flushed, reports>>

Full_Late == Len(sq) > SqEntries    \* mutant: off by one

Full == Len(sq) = SqEntries

(* push() finds the queue full.  The method returns before submit(), so    *)
(* the queue stays full.                                                   *)
PushFails(call) ==
    /\ Starts(call, "refused")
    /\ Full
    /\ UNCHANGED <<sq, kernel, faults>>

Pushed(call) == Append(sq, Entry(made + 1, call))

Submit(call) ==
    /\ Starts(call, "ok")
    /\ ~Full
    /\ \E n \in 0..(Len(sq) + 1) : Enter(Pushed(call), n)

(* submit() fails: the entry stays in the queue, for a later call to send. *)
SubmitFails(call) ==
    /\ Starts(call, "err")
    /\ ~Full
    /\ EnterFails(Pushed(call))

BatchSubmit ==
    /\ pc = "idle"
    /\ sq # <<>>
    /\ (\E n \in 0..Len(sq) : Enter(sq, n)) \/ EnterFails(sq)
    /\ UNCHANGED <<cq, pc, flushed, callVars, told, reports>>

-----------------------------------------------------------------------------
(* wait_for_completion: submit_and_wait(1), then read the queue *)

Expects == \E i \in Op : told[i] = "ok"

Wait_Only ==                    \* mutant: waits without submitting what is queued
    /\ pc = "idle"
    /\ Expects
    /\ pc' = "waiting"
    /\ flushed' = FALSE
    /\ UNCHANGED <<sq, kernel, faults, cq, callVars, told, reports>>

(* The kernel waits only if it took all entries.                           *)
Wait ==
    /\ pc = "idle"
    /\ Expects
    /\ \E n \in 0..Len(sq) :
         /\ Enter(sq, n)
         /\ pc' = IF n = Len(sq) THEN "waiting" ELSE "read"
         /\ flushed' = (n > 0)
    /\ UNCHANGED <<cq, callVars, told, reports>>

WaitFails ==
    /\ pc = "idle"
    /\ Expects
    /\ sq # <<>>
    /\ EnterFails(sq)
    /\ UNCHANGED <<cq, pc, flushed, callVars, told, reports>>

(* EINTR is reported unless entries were taken by the same call; then the  *)
(* method reads a queue that may be empty.                                 *)
WaitInterrupted ==
    /\ pc = "waiting"
    /\ cq = <<>>
    /\ faults < MaxFaults
    /\ faults' = faults + 1
    /\ pc' = IF flushed THEN "read" ELSE "idle"
    /\ UNCHANGED <<sq, kernel, cq, flushed, callVars, told, reports>>

(* What the caller takes a completion for: the operation it has in flight  *)
(* on the descriptor.                                                      *)
TakenFor(i) == told[i] = "ok" /\ \E k \in DOMAIN cq : cq[k].user_data = asked[i].fd

Reported ==
    /\ pc = "read" \/ (pc = "waiting" /\ cq # <<>>)
    /\ told' = [i \in Op |-> IF TakenFor(i) THEN "done" ELSE told[i]]
    /\ reports' = [i \in Op |-> reports[i] + Cardinality({k \in DOMAIN cq : cq[k].id = i})]
    /\ pc' = "idle"
    /\ flushed' = FALSE
    /\ UNCHANGED <<sq, kernel, callVars, faults>>

ReadCompletions_Leaves == Reported /\ UNCHANGED cq   \* mutant: the head is not advanced

ReadCompletions == Reported /\ cq' = <<>>

-----------------------------------------------------------------------------
(* The kernel completes operations in any order.  splice needs a pipe at   *)
(* one end and fails without; -1 stands for an error, and the descriptor   *)
(* accept returns for 0.  While the completion queue is full the kernel    *)
(* keeps what it completes (IORING_FEAT_NODROP).                           *)
Results(e) ==
    IF e.op = "splice" /\ {e.user_data, e.in_fd} \cap Pipe = {} THEN {-1} ELSE -1..e.len

Complete(e) ==
    /\ e \in kernel
    /\ Len(cq) < CqEntries
    /\ kernel' = kernel \ {e}
    /\ \E res \in Results(e) :
         cq' = Append(cq, [id |-> e.id, user_data |-> e.user_data, res |-> res])
    /\ UNCHANGED <<sq, pc, flushed, callVars, told, reports, faults>>

WaitStep == Wait \/ WaitFails \/ WaitInterrupted \/ ReadCompletions

Next ==
    \/ \E call \in Call : PushFails(call) \/ Submit(call) \/ SubmitFails(call)
    \/ BatchSubmit
    \/ WaitStep
    \/ \E e \in kernel : Complete(e)

Spec == Init /\ [][Next]_vars

(* The caller waits as long as it expects completions, and the kernel      *)
(* completes what it was given.                                            *)
FairSpec ==
    /\ Spec
    /\ WF_vars(WaitStep)
    /\ WF_vars(\E e \in kernel : Complete(e))

-----------------------------------------------------------------------------
(* Properties *)

Completion == [id : Op, user_data : Fd, res : Int]
EntryType == [id : Op, op : {"read", "write", "accept", "splice"}, in_fd : Fd,
              len : 0..(2^Width - 1), user_data : Fd]

(* Type invariant: no queue ever holds more than its length.               *)
TypeOK ==
    /\ sq \in Seq(EntryType)
    /\ Len(sq) <= SqEntries
    /\ kernel \subseteq EntryType
    /\ cq \in Seq(Completion)
    /\ Len(cq) <= CqEntries
    /\ pc \in {"idle", "waiting", "read"}
    /\ flushed \in BOOLEAN
    /\ made \in 0..MaxOps
    /\ asked \in [Op -> Call]
    /\ told \in [Op -> Told]
    /\ reports \in [Op -> Nat]
    /\ faults \in 0..MaxFaults

Places(i) ==
    Cardinality({k \in DOMAIN sq : sq[k].id = i}) + Cardinality({e \in kernel : e.id = i})
    + Cardinality({k \in DOMAIN cq : cq[k].id = i}) + reports[i]

(* An operation is in one place: queued, with the kernel, completed or     *)
(* reported.  None is lost or reported twice when io_uring_enter fails or  *)
(* takes part of the queue, and one that push() refused is nowhere.        *)
OpsConserved ==
    \A i \in Op : Places(i) = IF told[i] \in {"none", "refused"} THEN 0 ELSE 1

(* A submit method returned Err for fd with its entry left in the queue.   *)
Leftover(fd) == \E i \in Op : told[i] = "err" /\ asked[i].fd = fd

Queued(i) == \E k \in DOMAIN sq : sq[k].id = i
Working(i) == \E e \in kernel : e.id = i
Completed(i) == \E k \in DOMAIN cq : cq[k].id = i

Live(i) == Queued(i) \/ Working(i)

(* "The buffer must remain valid until the operation completes"            *)
(* (io_uring.rs): the caller, who goes by the descriptor a completion      *)
(* names, never takes back the buffer of an operation that is queued or    *)
(* under way.  The exception is a descriptor for which submit() has        *)
(* failed: its entry is still sent, and its completion is then taken for   *)
(* that of the retry.                                                      *)
BufferStaysLent ==
    \A i \in Op : Live(i) /\ ~Leftover(asked[i].fd) => told[i] = "ok"

(* The count of a completion is within the buffer of its own operation,    *)
(* whatever `len as u32` made of the length; and its own operation is what *)
(* the caller takes it for, but on a descriptor for which submit() has     *)
(* failed.  There the completion of the entry that was left in the queue   *)
(* may be taken for that of a retry with a smaller buffer, and nothing     *)
(* bounds its count by that one.                                           *)
WithinBuffer ==
    \A k \in DOMAIN cq :
        /\ cq[k].res <= asked[cq[k].id].len
        /\ \A i \in Op : told[i] = "ok" /\ asked[i].fd = cq[k].user_data
                            => cq[k].id = i \/ Leftover(asked[i].fd)

(* An operation that was accepted is reported in the end, also when        *)
(* io_uring_enter left it in the queue: a wait that blocks has something   *)
(* to wait for.                                                            *)
AcceptedIsReported == \A i \in Op : told[i] = "ok" ~> told[i] = "done"

-----------------------------------------------------------------------------
(* What these rest on *)

(* OpsConserved without counting.                                          *)
OnePlace ==
    /\ \A k, l \in DOMAIN sq : sq[k].id = sq[l].id => k = l
    /\ \A e, f \in kernel : e.id = f.id => e = f
    /\ \A k, l \in DOMAIN cq : cq[k].id = cq[l].id => k = l
    /\ \A i \in Op :
         /\ ~(Queued(i) /\ Working(i))
         /\ Live(i) => ~Completed(i)
         /\ Live(i) \/ Completed(i) => reports[i] = 0
         /\ reports[i] \in {0, 1}
         /\ told[i] \in {"none", "refused"} <=> ~Live(i) /\ ~Completed(i) /\ reports[i] = 0
         /\ i > made => told[i] = "none"

(* The caller has one operation in flight on a descriptor.                 *)
OneInFlight ==
    \A i, j \in Op : told[i] = "ok" /\ told[j] = "ok" /\ asked[i].fd = asked[j].fd => i = j

(* An entry carries the descriptor of its operation and asks for no more   *)
(* than its buffer holds.                                                  *)
Fits(e) == e.user_data = asked[e.id].fd /\ e.len <= asked[e.id].len

Tagged ==
    /\ \A k \in DOMAIN sq : Fits(sq[k])
    /\ \A e \in kernel : Fits(e)
    /\ \A k \in DOMAIN cq : /\ cq[k].user_data = asked[cq[k].id].fd
                            /\ cq[k].res <= asked[cq[k].id].len

(* The buffer stays lent until the completion is read, too.                *)
LentUntilRead ==
    \A i \in Op : (Live(i) \/ Completed(i)) /\ ~Leftover(asked[i].fd) => told[i] = "ok"

RingInvariant == TypeOK /\ OnePlace /\ OneInFlight /\ Tagged /\ LentUntilRead
=============================================================================
