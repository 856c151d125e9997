---------------------------- MODULE BenchProofs ----------------------------
(***************************************************************************)
(* Proofs about the benchmark client (module Bench), for any load and any  *)
(* way the server divides its answers.                                     *)
(***************************************************************************)
EXTENDS Bench, Recursion, SequenceTheorems, FiniteSetTheorems

(* A set of numbers that is not empty has a least one.                     *)
LEMMA LeastIsMember ==
    ASSUME NEW T, T \subseteq Nat, T # {}
    PROVE  Min(T) \in T
  <1>1. PICK m \in T : \A y \in T : m <= y
    BY LeastNumber
  <1> QED
    BY <1>1 DEF Min

LEMMA EmptyIsEmpty == DOMAIN <<>> = {}
  OBVIOUS

LEMMA InitStep == Init => StepInvariant
  <1> SUFFICES ASSUME Init
               PROVE  StepInvariant
    OBVIOUS
  <1>1. /\ DOMAIN worker = {} /\ DOMAIN sent = {} /\ DOMAIN link = {}
        /\ pc = "args" /\ worker = <<>>
        /\ worker = <<>> /\ sent = <<>> /\ link = <<>> /\ pending = <<>> /\ inbox = <<>>
    BY EmptyIsEmpty DEF Init
  <1> QED
    BY <1>1 DEF StepInvariant

(* What OneAnswer says of the lengths.                                     *)
LEMMA OneAnswerLengths ==
    ASSUME NEW t, OneAnswer(t)
    PROVE  \/ pending[t] = <<>> /\ inbox[t] = <<>>
           \/ pending[t] = <<>> /\ Len(inbox[t]) = 1
           \/ Len(pending[t]) = 1 /\ inbox[t] = <<>>
  <1>1. pending[t] \in Seq(Nat) /\ inbox[t] \in Seq(Nat) /\ Len(pending[t]) + Len(inbox[t]) <= 1
    BY DEF OneAnswer
  <1>2. PICK p \in Seq(Nat), b \in Seq(Nat) : p = pending[t] /\ b = inbox[t]
    BY <1>1
  <1>3. Len(p) \in Nat /\ Len(b) \in Nat /\ Len(p) + Len(b) <= 1
    BY <1>1, <1>2, LenProperties
  <1>4. (p # <<>> => Len(p) # 0) /\ (b # <<>> => Len(b) # 0)
    BY EmptySeq
  <1>5. \/ p = <<>> /\ b = <<>>
        \/ p = <<>> /\ Len(b) = 1
        \/ Len(p) = 1 /\ b = <<>>
    <2>1. PICK x \in Nat, y \in Nat : x = Len(p) /\ y = Len(b) /\ x + y <= 1
      BY <1>3
    <2>2. (x = 0 /\ y = 0) \/ (x = 0 /\ y = 1) \/ (x = 1 /\ y = 0)
      BY <2>1
    <2> QED
      BY <1>4, <2>1, <2>2, ZenonT(60)
  <1> QED
    BY <1>2, <1>5

(* A thread moves on, and nothing of its connection changes: it does not   *)
(* leave a read behind that it has not done.                               *)
LEMMA MoveKeepsStep ==
    ASSUME StepInvariant, NEW t \in DOMAIN worker, NEW to \in Place,
           worker' = [worker EXCEPT ![t] = to],
           worker[t] \in {"read", "done"} => to = "done",
           UNCHANGED <<sent, pending, inbox, link, ragged>>,
           pc' = pc \/ pc' \notin {"args", "spawn"}, pc # "args", config' = config
    PROVE  StepInvariant'
  <1>1. /\ worker' \in [DOMAIN worker -> Place] /\ DOMAIN worker' = DOMAIN worker
        /\ worker'[t] = to /\ \A u \in DOMAIN worker : u # t => worker'[u] = worker[u]
    BY DEF StepInvariant, Place
  <1>2. ASSUME NEW u \in DOMAIN worker \ ragged
        PROVE  OneAnswer(u)'
    <2>1. OneAnswer(u)
      BY DEF StepInvariant
    <2>2. worker'[u] \notin {"read", "done"} => worker[u] \notin {"read", "done"}
      BY <1>1
    <2> QED
      BY <2>1, <2>2 DEF OneAnswer
  <1> QED
    BY <1>1, <1>2 DEF StepInvariant, Place, Thread

(* The server's answer to a request is one piece, or the thread is out of  *)
(* step from now on.                                                       *)
LEMMA SendsKeepsStep ==
    ASSUME StepInvariant, NEW t \in DOMAIN worker, Sends(t)
    PROVE  StepInvariant'
  <1>1. /\ worker[t] = "send" /\ worker' = [worker EXCEPT ![t] = "read"]
        /\ sent' = [sent EXCEPT ![t] = sent[t] + 1]
        /\ UNCHANGED <<pc, config, inbox, link>>
        /\ link[t] # "reset"
    BY DEF Sends, Move
  <1>2. /\ worker' \in [DOMAIN worker -> Place] /\ DOMAIN worker' = DOMAIN worker
        /\ worker'[t] = "read" /\ \A u \in DOMAIN worker : u # t => worker'[u] = worker[u]
        /\ sent' \in [DOMAIN worker -> Nat]
        /\ sent'[t] = sent[t] + 1 /\ sent'[t] \in Nat
        /\ \A u \in DOMAIN worker : u # t => sent'[u] = sent[u]
    BY <1>1 DEF StepInvariant, Place
  <1>3. pc # "args"
    <2>1. DOMAIN worker # {}
      OBVIOUS
    <2> QED
      BY <2>1, EmptyIsEmpty DEF StepInvariant
  <1>4. CASE link[t] = "fin"
    <2>1. pending' = pending /\ ragged' = ragged
      BY <1>4 DEF Sends
    <2>2. ASSUME NEW u \in DOMAIN worker \ ragged
          PROVE  OneAnswer(u)'
      <3>1. OneAnswer(u)
        BY DEF StepInvariant
      <3>2. CASE u = t
        BY <1>1, <1>2, <2>1, <3>1, <3>2, EmptyIsEmpty DEF OneAnswer
      <3>3. CASE u # t
        BY <1>1, <1>2, <2>1, <3>1, <3>3 DEF OneAnswer
      <3> QED
        BY <3>2, <3>3
    <2> QED
      BY <1>1, <1>2, <1>3, <2>1, <2>2 DEF StepInvariant, Place, Thread
  <1>5. CASE link[t] # "fin"
    <2>1. PICK pieces \in 1..(MaxAnswers * MaxPieces) :
            /\ pending' = [pending EXCEPT ![t] = pending[t] \o [k \in 1..pieces |-> sent[t] + 1]]
            /\ ragged' = IF pieces = 1 THEN ragged ELSE ragged \cup {t}
      BY <1>5 DEF Sends
    <2>2. link[t] = "up"
      BY <1>1, <1>5 DEF StepInvariant
    <2>3. /\ DOMAIN pending = DOMAIN worker
          /\ pending' = [u \in DOMAIN worker |-> pending'[u]]
          /\ \A u \in DOMAIN worker : u # t => pending'[u] = pending[u]
          /\ pending'[t] = pending[t] \o [k \in 1..pieces |-> sent[t] + 1]
      BY <2>1 DEF StepInvariant
    <2>4. ASSUME NEW u \in DOMAIN worker \ ragged'
          PROVE  OneAnswer(u)'
      <3>0. u \notin ragged
        BY <2>1
      <3>1. OneAnswer(u)
        BY <3>0 DEF StepInvariant
      <3>2. CASE u = t
        <4>1. pieces = 1
          BY <2>1, <2>4, <3>2
        <4>2. pending[t] = <<>> /\ inbox[t] = <<>>
          BY <1>1, <3>1, <3>2 DEF OneAnswer
        <4>3. pending'[t] = <<>> \o [k \in 1..1 |-> sent[t] + 1]
          BY <2>3, <4>1, <4>2
        <4>4. PICK n \in Nat : n = sent[t] + 1
          BY <1>2
        <4>5. [k \in 1..1 |-> n] \in Seq(Nat) /\ Len([k \in 1..1 |-> n]) = 1
          OBVIOUS
        <4>6. pending'[t] = [k \in 1..1 |-> n]
          BY <4>3, <4>4, <4>5, ConcatEmptySeq
        <4>7. /\ pending'[t] \in Seq(Nat) /\ Len(pending'[t]) = 1
              /\ \A k \in DOMAIN pending'[t] : pending'[t][k] = sent'[t]
          BY <1>2, <4>4, <4>5, <4>6
        <4>8. inbox'[t] \in Seq(Nat) /\ Len(inbox'[t]) = 0 /\ DOMAIN inbox'[t] = {}
          BY <1>1, <4>2, EmptySeq, EmptyIsEmpty
        <4> QED
          BY <1>1, <1>2, <2>2, <3>2, <4>7, <4>8 DEF OneAnswer
      <3>3. CASE u # t
        BY <1>1, <1>2, <2>3, <3>1, <3>3 DEF OneAnswer
      <3> QED
        BY <3>2, <3>3
    <2> QED
      BY <1>1, <1>2, <1>3, <2>3, <2>4 DEF StepInvariant, Place, Thread
  <1> QED
    BY <1>4, <1>5

(* A read takes the whole answer: nothing is left for the next one.        *)
LEMMA ReadsKeepsStep ==
    ASSUME StepInvariant, NEW t \in DOMAIN worker, Reads(t)
    PROVE  StepInvariant'
  <1>1. /\ worker[t] = "read" /\ worker' = [worker EXCEPT ![t] = "count"]
        /\ inbox' = [inbox EXCEPT ![t] = SubSeq(inbox[t], Available(t) + 1, Len(inbox[t]))]
        /\ UNCHANGED <<pc, config, sent, pending, link, ragged>>
        /\ CanRead(t)
    BY DEF Reads, Move
  <1>2. /\ worker' \in [DOMAIN worker -> Place] /\ DOMAIN worker' = DOMAIN worker
        /\ worker'[t] = "count" /\ \A u \in DOMAIN worker : u # t => worker'[u] = worker[u]
    BY <1>1 DEF StepInvariant, Place
  <1>3. pc # "args"
    <2>1. DOMAIN worker # {}
      OBVIOUS
    <2> QED
      BY <2>1, EmptyIsEmpty DEF StepInvariant
  <1>4. /\ DOMAIN inbox = DOMAIN worker
        /\ inbox' = [u \in DOMAIN worker |-> inbox'[u]]
        /\ \A u \in DOMAIN worker : u # t => inbox'[u] = inbox[u]
        /\ inbox'[t] = SubSeq(inbox[t], Available(t) + 1, Len(inbox[t]))
    BY <1>1 DEF StepInvariant
  <1>5. ASSUME NEW u \in DOMAIN worker \ ragged
        PROVE  OneAnswer(u)'
    <2>1. OneAnswer(u)
      BY DEF StepInvariant
    <2>2. CASE u = t
      <3>a. OneAnswer(t)
        BY <2>1, <2>2
      <3>b. \/ pending[t] = <<>> /\ inbox[t] = <<>>
            \/ pending[t] = <<>> /\ Len(inbox[t]) = 1
            \/ Len(pending[t]) = 1 /\ inbox[t] = <<>>
        BY <3>a, OneAnswerLengths, ZenonT(60)
      <3>1. PICK a \in {0, 1} : a = Len(inbox[t])
        BY <3>b, EmptySeq
      <3>2. Available(t) = a
        <4>1. Min({a, ReadMax}) = a
          BY BenchAssumption DEF Min
        <4> QED
          BY <3>1, <4>1 DEF Available
      <3>3. inbox'[t] = <<>>
        BY <1>4, <3>1, <3>2, SubSeqEmpty
      <3>4. pending[t] = <<>>
        <4>1. CASE link[t] = "fin"
          BY <2>1, <2>2, <4>1 DEF OneAnswer
        <4>2. CASE inbox[t] # <<>>
          BY <3>b, <4>2
        <4> QED
          BY <1>1, <4>1, <4>2 DEF CanRead
      <3>5. inbox'[t] \in Seq(Nat) /\ Len(inbox'[t]) = 0 /\ DOMAIN inbox'[t] = {}
        BY <3>3, EmptySeq, EmptyIsEmpty
      <3>6. pending'[t] = <<>> /\ pending'[t] \in Seq(Nat) /\ Len(pending'[t]) = 0 /\ DOMAIN pending'[t] = {}
        BY <1>1, <3>4, EmptySeq, EmptyIsEmpty
      <3> QED
        BY <2>2, <3>3, <3>5, <3>6 DEF OneAnswer
    <2>3. CASE u # t
      BY <1>1, <1>2, <1>4, <2>1, <2>3 DEF OneAnswer
    <2> QED
      BY <2>2, <2>3
  <1> QED
    BY <1>1, <1>2, <1>3, <1>4, <1>5 DEF StepInvariant, Place, Thread

LEMMA DeliverKeepsStep ==
    ASSUME StepInvariant, NEW t \in DOMAIN worker, Deliver(t)
    PROVE  StepInvariant'
  <1>1. /\ pending[t] # <<>>
        /\ pending' = [pending EXCEPT ![t] = Tail(pending[t])]
        /\ inbox' = [inbox EXCEPT ![t] = Append(inbox[t], Head(pending[t]))]
        /\ UNCHANGED <<pc, config, worker, sent, link, ragged>>
    BY DEF Deliver, threadVars
  <1>2. /\ DOMAIN inbox = DOMAIN worker /\ DOMAIN pending = DOMAIN worker
        /\ inbox' = [u \in DOMAIN worker |-> inbox'[u]]
        /\ pending' = [u \in DOMAIN worker |-> pending'[u]]
        /\ \A u \in DOMAIN worker : u # t => inbox'[u] = inbox[u] /\ pending'[u] = pending[u]
        /\ inbox'[t] = Append(inbox[t], Head(pending[t]))
        /\ pending'[t] = Tail(pending[t])
    BY <1>1 DEF StepInvariant
  <1>3. ASSUME NEW u \in DOMAIN worker \ ragged
        PROVE  OneAnswer(u)'
    <2>1. OneAnswer(u)
      BY DEF StepInvariant
    <2>2. CASE u = t
      <3>1. /\ pending[t] \in Seq(Nat) /\ inbox[t] \in Seq(Nat)
            /\ Len(pending[t]) = 1 /\ Len(inbox[t]) = 0
        <4>1. OneAnswer(t)
          BY <2>1, <2>2
        <4>2. Len(pending[t]) = 1 /\ inbox[t] = <<>>
          BY <1>1, <4>1, OneAnswerLengths, ZenonT(60)
        <4> QED
          BY <4>1, <4>2, EmptySeq DEF OneAnswer
      <3>2. Head(pending[t]) = sent[t] /\ sent[t] \in Nat
        BY <2>1, <2>2, <3>1 DEF OneAnswer, StepInvariant
      <3>3. pending'[t] = <<>>
        BY <1>2, <3>1
      <3>4. /\ inbox'[t] \in Seq(Nat) /\ Len(inbox'[t]) = 1
            /\ \A k \in DOMAIN inbox'[t] : inbox'[t][k] = sent[t]
        <4>1. PICK b \in Seq(Nat) : b = inbox[t] /\ Len(b) = 0
          BY <3>1
        <4>2. PICK n \in Nat : n = sent[t]
          BY <3>2
        <4>3. /\ Append(b, n) \in Seq(Nat) /\ Len(Append(b, n)) = 1
              /\ DOMAIN Append(b, n) = 1..1
              /\ Append(b, n)[1] = n
          BY <4>1, AppendProperties
        <4> QED
          BY <1>2, <3>2, <4>1, <4>2, <4>3
      <3>5. pending'[t] \in Seq(Nat) /\ Len(pending'[t]) = 0 /\ DOMAIN pending'[t] = {}
        BY <3>3, EmptySeq, EmptyIsEmpty
      <3>6. worker[t] \in {"read", "done"}
        BY <1>1, <2>1, <2>2 DEF OneAnswer
      <3> QED
        <4>1. Len(pending'[t]) + Len(inbox'[t]) <= 1
          BY <3>4, <3>5
        <4>2. /\ \A k \in DOMAIN pending'[t] : pending'[t][k] = sent'[t]
              /\ \A k \in DOMAIN inbox'[t] : inbox'[t][k] = sent'[t]
          BY <1>1, <3>4, <3>5
        <4>3. worker'[t] \in {"read", "done"}
          BY <1>1, <3>6
        <4> QED
          BY <2>2, <3>3, <3>4, <3>5, <4>1, <4>2, <4>3 DEF OneAnswer
    <2>3. CASE u # t
      BY <1>1, <1>2, <2>1, <2>3 DEF OneAnswer
    <2> QED
      BY <2>2, <2>3
  <1> QED
    BY <1>1, <1>2, <1>3 DEF StepInvariant, Thread

LEMMA HangsKeepsStep ==
    ASSUME StepInvariant, NEW t \in DOMAIN worker, NEW how \in {"fin", "reset"}, Hangs(t, how)
    PROVE  StepInvariant'
  <1>1. /\ link' = [link EXCEPT ![t] = how]
        /\ pending' = [pending EXCEPT ![t] = <<>>]
        /\ UNCHANGED <<pc, config, worker, sent, inbox, ragged>>
    BY DEF Hangs, threadVars
  <1>2. /\ DOMAIN pending = DOMAIN worker
        /\ pending' = [u \in DOMAIN worker |-> pending'[u]]
        /\ \A u \in DOMAIN worker : u # t => pending'[u] = pending[u] /\ link'[u] = link[u]
        /\ pending'[t] = <<>>
        /\ link' \in [DOMAIN worker -> {"up", "fin", "reset"}]
    BY <1>1 DEF StepInvariant
  <1>3. ASSUME NEW u \in DOMAIN worker \ ragged
        PROVE  OneAnswer(u)'
    <2>1. OneAnswer(u)
      BY DEF StepInvariant
    <2>2. CASE u = t
      <3>1. pending'[t] \in Seq(Nat) /\ Len(pending'[t]) = 0 /\ DOMAIN pending'[t] = {}
        BY <1>2, EmptySeq, EmptyIsEmpty
      <3>2. Len(pending'[t]) + Len(inbox'[t]) <= 1
        <4>1. OneAnswer(t)
          BY <2>1, <2>2
        <4>2. inbox[t] = <<>> \/ Len(inbox[t]) = 1
          BY <4>1, OneAnswerLengths, ZenonT(60)
        <4>3. Len(inbox[t]) \in {0, 1}
          BY <4>2, EmptySeq
        <4>4. inbox'[t] = inbox[t]
          BY <1>1
        <4> QED
          <5>1. PICK x, y : x = Len(pending'[t]) /\ y = Len(inbox'[t])
            OBVIOUS
          <5>2. x = 0 /\ y \in {0, 1}
            BY <3>1, <4>3, <4>4, <5>1, ZenonT(60)
          <5>3. x + y <= 1
            BY <5>2
          <5> QED
            BY <5>1, <5>3, ZenonT(60)
      <3> QED
        BY <1>1, <1>2, <2>1, <2>2, <3>1, <3>2 DEF OneAnswer
    <2>3. CASE u # t
      BY <1>1, <1>2, <2>1, <2>3 DEF OneAnswer
    <2> QED
      BY <2>2, <2>3
  <1> QED
    BY <1>1, <1>2, <1>3 DEF StepInvariant, Thread

(* main: the threads are made when the command line has been read, and     *)
(* started one by one.                                                     *)
LEMMA MainKeepsStep ==
    ASSUME StepInvariant, MainStep
    PROVE  StepInvariant'
  <1>1. CASE ParseArgs
    <2>1. PICK n : /\ worker' = [t \in 1..n |-> "none"]
                   /\ sent' = [t \in 1..n |-> 0]
                   /\ pending' = [t \in 1..n |-> <<>>]
                   /\ inbox' = [t \in 1..n |-> <<>>]
                   /\ link' = [t \in 1..n |-> "up"]
                   /\ pc' \in {"exited", "spawn"}
                   /\ pc' = "spawn" => n = config'.connections
      BY <1>1 DEF ParseArgs
    <2>2. DOMAIN worker' = 1..n
      BY <2>1
    <2>3. /\ worker' \in [DOMAIN worker' -> Place]
          /\ sent' \in [DOMAIN worker' -> Nat]
          /\ link' \in [DOMAIN worker' -> {"up", "fin", "reset"}]
          /\ pending' = [t \in DOMAIN worker' |-> pending'[t]]
          /\ inbox' = [t \in DOMAIN worker' |-> inbox'[t]]
          /\ pc' # "args"
          /\ pc' = "spawn" => DOMAIN worker' = Thread'
      BY <2>1, <2>2 DEF Place, Thread
    <2>4. ASSUME NEW t \in DOMAIN worker'
          PROVE  OneAnswer(t)'
      <3>1. pending'[t] = <<>> /\ inbox'[t] = <<>>
        BY <2>1, <2>2
      <3>2. /\ pending'[t] \in Seq(Nat) /\ Len(pending'[t]) = 0 /\ DOMAIN pending'[t] = {}
            /\ inbox'[t] \in Seq(Nat) /\ Len(inbox'[t]) = 0 /\ DOMAIN inbox'[t] = {}
        BY <3>1, EmptySeq, EmptyIsEmpty
      <3> QED
        BY <3>1, <3>2 DEF OneAnswer
    <2> QED
      BY <2>3, <2>4 DEF StepInvariant, Place
  <1>2. CASE Spawns /\ \E t \in Thread : worker[t] = "none"
    <2>0. pc = "spawn" /\ DOMAIN worker = Thread
      BY <1>2 DEF Spawns, StepInvariant
    <2>1. {t \in Thread : worker[t] = "none"} \subseteq Nat
      BY DEF Thread
    <2>2. Min({t \in Thread : worker[t] = "none"}) \in {t \in Thread : worker[t] = "none"}
      BY <1>2, <2>1, LeastIsMember
    <2>3. PICK m \in DOMAIN worker : worker[m] = "none" /\ worker' = [worker EXCEPT ![m] = "connect"]
      BY <1>2, <2>0, <2>2 DEF Spawns
    <2>4. UNCHANGED <<pc, config, sent, pending, inbox, link, ragged>>
      BY <1>2 DEF Spawns, serverVars
    <2>5. "connect" \in Place
      BY DEF Place
    <2> QED
      BY <2>0, <2>3, <2>4, <2>5, MoveKeepsStep
  <1>3. CASE SpawnFails \/ Prints \/ Exports \/ (Spawns /\ ~\E t \in Thread : worker[t] = "none")
    <2>1. /\ UNCHANGED <<worker, sent, pending, inbox, link, ragged>>
          /\ pc' \notin {"args", "spawn"}
      BY <1>3 DEF SpawnFails, Prints, Exports, Spawns, threadVars, serverVars
    <2> QED
      BY <2>1 DEF StepInvariant, OneAnswer
  <1> QED
    BY <1>1, <1>2, <1>3 DEF MainStep

LEMMA NextStep ==
    ASSUME StepInvariant, [Next]_vars
    PROVE  StepInvariant'
  <1>1. CASE MainStep
    BY <1>1, MainKeepsStep
  <1>2. ASSUME NEW t \in DOMAIN worker, ThreadStep(t)
        PROVE  StepInvariant'
    <2>0. pc # "args"
      BY EmptyIsEmpty DEF StepInvariant
    <2>1. CASE Connects(t) \/ Ends(t) \/ CountsRequest(t) \/ CountsBytes(t) \/ PushesLatency(t)
      <3>1. /\ \E to \in Place :
                 /\ worker' = [worker EXCEPT ![t] = to]
                 /\ worker[t] \in {"read", "done"} => to = "done"
            /\ UNCHANGED <<pc, config, sent, pending, inbox, link, ragged>>
        BY <2>1 DEF Connects, Ends, CountsRequest, CountsBytes, PushesLatency, Move, serverVars, Place
      <3> QED
        BY <2>0, <3>1, MoveKeepsStep
    <2>2. CASE Sends(t)
      BY <2>2, SendsKeepsStep
    <2>3. CASE Reads(t)
      BY <2>3, ReadsKeepsStep
    <2> QED
      BY <1>2, <2>1, <2>2, <2>3 DEF ThreadStep
  <1>3. ASSUME NEW t \in DOMAIN worker, Deliver(t)
        PROVE  StepInvariant'
    BY <1>3, DeliverKeepsStep
  <1>4. ASSUME NEW t \in DOMAIN worker, NEW how \in {"fin", "reset"}, Hangs(t, how)
        PROVE  StepInvariant'
    BY <1>4, HangsKeepsStep
  <1>5. CASE UNCHANGED vars
    BY <1>5 DEF vars, threadVars, serverVars, StepInvariant, OneAnswer, Thread
  <1> QED
    BY <1>1, <1>2, <1>3, <1>4, <1>5 DEF Next, Rests

(* While the answers to a thread are single pieces, each of its reads gets *)
(* the answer to the request it has just written, for any number of        *)
(* threads and requests.                                                   *)
THEOREM ReadsStayInStep == Spec => []InStep
  <1>1. Init => StepInvariant
    BY InitStep
  <1>2. StepInvariant /\ [Next]_vars => StepInvariant'
    BY NextStep
  <1>3. StepInvariant => InStep
    BY DEF StepInvariant, OneAnswer, InStep
  <1> QED
    BY <1>1, <1>2, <1>3, PTL DEF Spec

-----------------------------------------------------------------------------
(* The command line *)

(* One option sets its field to a value of the right type.                 *)
LEMMA OptionType ==
    ASSUME NEW c \in BenchConfig, NEW o \in DOMAIN OptionField, NEW w \in STRING
    PROVE  [c EXCEPT ![FieldOf(o)] = OptionValue(o, w)] \in BenchConfig
  <1>1. PICK f, v : f = FieldOf(o) /\ v = OptionValue(o, w)
    OBVIOUS
  <1>2. CASE o = "--host"
    <2>1. f = "host" /\ v = w
      BY <1>1, <1>2 DEF FieldOf, OptionField, OptionValue
    <2>2. [c EXCEPT !["host"] = v] \in BenchConfig
      BY <2>1 DEF BenchConfig
    <2> QED
      BY <1>1, <2>1, <2>2
  <1>3. CASE o = "--port"
    <2>1. f = "port" /\ v \in Port
      <3>1. f = "port"
        BY <1>1, <1>3 DEF FieldOf, OptionField
      <3>2. Default["port"] = 8080
        BY DEF Default
      <3> QED
        BY <1>1, <1>3, <3>1, <3>2, BenchAssumption DEF OptionValue, Port
    <2>2. [c EXCEPT !["port"] = v] \in BenchConfig
      BY <2>1 DEF BenchConfig
    <2> QED
      BY <1>1, <2>1, <2>2
  <1>4. CASE o \in {"--connections", "-c", "--requests", "-n", "--payload", "-p"}
    <2>1. f \in {"connections", "requests", "payload"}
      BY <1>1, <1>4 DEF FieldOf, OptionField
    <2>2. Default["connections"] = 10 /\ Default["requests"] = 1000 /\ Default["payload"] = 128
      BY DEF Default
    <2>3. Default[f] \in Nat
      BY <2>1, <2>2
    <2>4. v \in Nat
      BY <1>1, <1>4, <2>3, BenchAssumption DEF OptionValue
    <2>5. /\ [c EXCEPT !["connections"] = v] \in BenchConfig
          /\ [c EXCEPT !["requests"] = v] \in BenchConfig
          /\ [c EXCEPT !["payload"] = v] \in BenchConfig
      BY <2>4 DEF BenchConfig
    <2> QED
      BY <1>1, <2>1, <2>5
  <1> QED
    BY <1>2, <1>3, <1>4 DEF OptionField

(* Where the loop over the command line can be.                            *)
ParseState == [i : Nat \ {0}, config : BenchConfig, help : BOOLEAN]

LEMMA LoopType ==
    ASSUME NEW a \in Seq(STRING), NEW p \in ParseState
    PROVE  CommandLineOf!Loop(a, p) \in ParseState
  <1>1. CASE p.help \/ p.i > Len(a)
    BY <1>1 DEF CommandLineOf!Loop
  <1>2. CASE ~p.help /\ ~(p.i > Len(a))
    <2>1. CommandLineOf!Loop(a, p) = CommandLineOf!Turn(a, p)
      BY <1>2 DEF CommandLineOf!Loop
    <2>2. p.i \in 1..Len(a) /\ a[p.i] \in STRING
      BY <1>2 DEF ParseState
    <2>3. CASE a[p.i] \in {"--help", "-h"}
      <3>1. CommandLineOf!Turn(a, p) = [p EXCEPT !.help = TRUE]
        BY <2>3 DEF CommandLineOf!Turn, OptionField
      <3> QED
        BY <2>1, <3>1 DEF ParseState
    <2>4. CASE a[p.i] \in DOMAIN OptionField /\ p.i < Len(a) /\ a[p.i] \notin {"--help", "-h"}
      <3>1. PICK c \in BenchConfig : c = [p.config EXCEPT ![FieldOf(a[p.i])] = OptionValue(a[p.i], a[p.i + 1])]
        <4>1. a[p.i + 1] \in STRING /\ p.config \in BenchConfig
          BY <2>2, <2>4 DEF ParseState
        <4> QED
          BY <2>4, <4>1, OptionType
      <3>2. CommandLineOf!Turn(a, p) = [i |-> p.i + 2, config |-> c, help |-> p.help]
        BY <2>4, <3>1 DEF CommandLineOf!Turn, ParseState
      <3> QED
        BY <2>1, <3>2 DEF ParseState
    <2>5. CASE ~(a[p.i] \in DOMAIN OptionField /\ p.i < Len(a)) /\ a[p.i] \notin {"--help", "-h"}
      <3>1. CommandLineOf!Turn(a, p) = [p EXCEPT !.i = @ + 1]
        BY <2>5 DEF CommandLineOf!Turn
      <3> QED
        BY <2>1, <3>1 DEF ParseState
    <2> QED
      BY <2>3, <2>4, <2>5
  <1> QED
    BY <1>1, <1>2

(* parse_args ends in such a state, whatever the words are: the port has   *)
(* 16 bits and the numbers are numbers.                                    *)
LEMMA ParseType ==
    ASSUME NEW a \in Seq(STRING)
    PROVE  CommandLineOf!Parse(a, Default) \in ParseState
  <1> DEFINE Body(f) == [k \in 0..Len(a) |-> IF k = 0 THEN CommandLineOf!Start(Default)
                                            ELSE CommandLineOf!Loop(a, f[k - 1])]
  <1>1. PICK n \in Nat : n = Len(a)
    OBVIOUS
  <1>2. PICK c \in ParseState : c = CommandLineOf!Start(Default)
    <2>1. Default \in BenchConfig
      <3>1. 8080 \in Port /\ 10 \in Nat /\ 1000 \in Nat /\ 128 \in Nat
        BY DEF Port
      <3> QED
        BY <3>1 DEF Default, BenchConfig
    <2>2. [i |-> 1, config |-> Default, help |-> FALSE] \in ParseState
      <3>1. 1 \in Nat \ {0} /\ FALSE \in BOOLEAN
        OBVIOUS
      <3> QED
        BY <2>1, <3>1, ZenonT(60) DEF ParseState
    <2> QED
      BY <2>2 DEF CommandLineOf!Start
  <1> DEFINE S == ParseState
             g == [k \in 1..n |-> [p \in S |-> CommandLineOf!Loop(a, p)]]
  <1>3. g \in [1..n -> [S -> S]] /\ c \in S
    BY <1>2, LoopType
  <1> HIDE DEF g, S
  <1>4. PICK f \in [0..n -> S] : Stepwise(f, n, c, g)
    BY <1>3, StepwiseExists
  <1>5. f = Body(f)
    <2>1. ASSUME NEW k \in 0..n
          PROVE  f[k] = IF k = 0 THEN c ELSE CommandLineOf!Loop(a, f[k - 1])
      <3>1. CASE k # 0
        <4>1. k \in 1..n /\ f[k - 1] \in S
          BY <3>1
        <4>2. f[k] = g[k][f[k - 1]]
          BY <1>4, <4>1 DEF Stepwise
        <4> QED
          BY <3>1, <4>1, <4>2 DEF g
      <3> QED
        BY <1>4, <3>1 DEF Stepwise
    <2> QED
      BY <1>1, <1>2, <2>1
  <1> DEFINE h == CHOOSE h : h = Body(h)
  <1>6. h = Body(h) /\ CommandLineOf!Parse(a, Default) = h[n]
    BY <1>1, <1>5 DEF CommandLineOf!Parse
  <1> HIDE DEF h
  <1>7. h[0] = c /\ \A k \in 1..n : h[k] = CommandLineOf!Loop(a, h[k - 1])
    <2>1. \A k \in 0..n : h[k] = IF k = 0 THEN c ELSE CommandLineOf!Loop(a, h[k - 1])
      BY <1>1, <1>2, <1>6, ZenonT(60)
    <2> QED
      BY <2>1
  <1> DEFINE T == {k \in 0..n : h[k] \in ParseState}
  <1>8. 0 \in T /\ \A k \in 0..(n - 1) : k \in T => k + 1 \in T
    <2>1. ASSUME NEW k \in 0..(n - 1), h[k] \in ParseState
          PROVE  h[k + 1] \in ParseState
      <3>1. k + 1 \in 1..n /\ (k + 1) - 1 = k
        OBVIOUS
      <3>2. h[k + 1] = CommandLineOf!Loop(a, h[k])
        BY <1>7, <3>1
      <3> QED
        BY <2>1, <3>2, LoopType
    <2> QED
      BY <1>7, <2>1
  <1> HIDE DEF T
  <1>9. \A k \in 0..n : k \in T
    BY <1>8, UpTo, ZenonT(60)
  <1>10. n \in 0..n
    OBVIOUS
  <1> QED
    BY <1>6, <1>9, <1>10 DEF T

-----------------------------------------------------------------------------
(* Sums *)

(* The partial sums of f.                                                  *)
PartialSums(f, n, h) == h[0] = 0 /\ \A k \in 1..n : h[k] = h[k - 1] + f[k]

LEMMA TotalIs ==
    ASSUME NEW n \in Nat, NEW f \in [1..n -> Nat]
    PROVE  \E h \in [0..n -> Nat] : PartialSums(f, n, h) /\ Total(f, n) = h[n]
  <1> DEFINE Body(h) == [k \in 0..n |-> IF k = 0 THEN 0 ELSE h[k - 1] + f[k]]
             g == [k \in 1..n |-> [x \in Nat |-> x + f[k]]]
  <1>1. g \in [1..n -> [Nat -> Nat]]
    OBVIOUS
  <1> HIDE DEF g
  <1>2. PICK e \in [0..n -> Nat] : Stepwise(e, n, 0, g)
    BY <1>1, StepwiseExists
  <1>3. e = Body(e)
    <2>1. ASSUME NEW k \in 0..n
          PROVE  e[k] = IF k = 0 THEN 0 ELSE e[k - 1] + f[k]
      <3>1. CASE k # 0
        <4>1. k \in 1..n /\ e[k - 1] \in Nat
          BY <3>1
        <4>2. e[k] = g[k][e[k - 1]]
          BY <1>2, <4>1 DEF Stepwise
        <4> QED
          BY <3>1, <4>1, <4>2 DEF g
      <3> QED
        BY <1>2, <3>1 DEF Stepwise
    <2> QED
      BY <2>1
  <1> DEFINE h == CHOOSE h : h = Body(h)
  <1>4. h = Body(h) /\ Total(f, n) = h[n]
    BY <1>3 DEF Total
  <1> HIDE DEF h
  <1>5. /\ h[0] = 0
        /\ \A k \in 1..n : h[k] = h[k - 1] + f[k]
    <2>1. \A k \in 0..n : h[k] = IF k = 0 THEN 0 ELSE h[k - 1] + f[k]
      BY <1>4, ZenonT(60)
    <2> QED
      BY <2>1
  <1> DEFINE T == {k \in 0..n : h[k] \in Nat}
  <1>6. 0 \in T /\ \A k \in 0..(n - 1) : k \in T => k + 1 \in T
    <2>1. ASSUME NEW k \in 0..(n - 1), h[k] \in Nat
          PROVE  h[k + 1] \in Nat
      <3>1. k + 1 \in 1..n /\ (k + 1) - 1 = k
        OBVIOUS
      <3>2. h[k + 1] = h[k] + f[k + 1]
        BY <1>5, <3>1
      <3> QED
        BY <2>1, <3>1, <3>2
    <2> QED
      BY <1>5, <2>1
  <1> HIDE DEF T
  <1>7. \A k \in 0..n : k \in T
    BY <1>6, UpTo, ZenonT(60)
  <1>8. h \in [0..n -> Nat]
    <2>1. h = [k \in 0..n |-> h[k]]
      BY <1>4
    <2> QED
      BY <1>7, <2>1 DEF T
  <1> QED
    BY <1>4, <1>5, <1>8 DEF PartialSums

(* One term changes, and the sum by as much.                               *)
LEMMA TotalChange ==
    ASSUME NEW n \in Nat, NEW e \in [1..n -> Nat], NEW f \in [1..n -> Nat], NEW t \in 1..n,
           \A k \in 1..n : k # t => f[k] = e[k]
    PROVE  Total(f, n) + e[t] = Total(e, n) + f[t] /\ Total(f, n) \in Nat /\ Total(e, n) \in Nat
  <1>1. PICK g \in [0..n -> Nat] : PartialSums(e, n, g) /\ Total(e, n) = g[n]
    BY TotalIs
  <1>2. PICK h \in [0..n -> Nat] : PartialSums(f, n, h) /\ Total(f, n) = h[n]
    BY TotalIs
  <1> DEFINE T == {k \in 0..n : IF k < t THEN h[k] = g[k] ELSE h[k] + e[t] = g[k] + f[t]}
  <1>3. 0 \in T /\ \A k \in 0..(n - 1) : k \in T => k + 1 \in T
    <2>1. 0 \in T
      BY <1>1, <1>2 DEF PartialSums
    <2>2. ASSUME NEW k \in 0..(n - 1), k \in T
          PROVE  k + 1 \in T
      <3>1. k + 1 \in 1..n /\ (k + 1) - 1 = k
        OBVIOUS
      <3>2. g[k + 1] = g[k] + e[k + 1] /\ h[k + 1] = h[k] + f[k + 1]
        BY <1>1, <1>2, <3>1 DEF PartialSums
      <3>3. PICK gk \in Nat, hk \in Nat, ek \in Nat, fk \in Nat, et \in Nat, ft \in Nat :
              /\ gk = g[k] /\ hk = h[k] /\ ek = e[k + 1] /\ fk = f[k + 1] /\ et = e[t] /\ ft = f[t]
        <4>1. /\ g[k] \in Nat /\ h[k] \in Nat /\ e[k + 1] \in Nat /\ f[k + 1] \in Nat
              /\ e[t] \in Nat /\ f[t] \in Nat
          BY <3>1
        <4> QED
          BY <4>1, ZenonT(60)
      <3>4. IF k < t THEN hk = gk ELSE hk + et = gk + ft
        BY <2>2, <3>3
      <3>5. (k + 1 = t => ek = et /\ fk = ft) /\ (k + 1 # t => ek = fk)
        BY <3>1, <3>3
      <3>6. IF k + 1 < t THEN hk + fk = gk + ek ELSE (hk + fk) + et = (gk + ek) + ft
        BY <3>4, <3>5
      <3>7. g[k + 1] = gk + ek /\ h[k + 1] = hk + fk
        BY <3>2, <3>3
      <3>8. IF k + 1 < t THEN h[k + 1] = g[k + 1] ELSE h[k + 1] + e[t] = g[k + 1] + f[t]
        BY <3>3, <3>6, <3>7, ZenonT(60)
      <3>9. k + 1 \in 0..n
        BY <3>1
      <3> QED
        BY <3>8, <3>9, ZenonT(60)
    <2> QED
      BY <2>1, <2>2
  <1> HIDE DEF T
  <1>4. \A k \in 0..n : k \in T
    BY <1>3, UpTo, ZenonT(60)
  <1>5. n \in T /\ ~(n < t)
    BY <1>4
  <1> QED
    BY <1>1, <1>2, <1>5 DEF T

LEMMA TotalZero ==
    ASSUME NEW n \in Nat, NEW f \in [1..n -> Nat], \A k \in 1..n : f[k] = 0
    PROVE  Total(f, n) = 0
  <1>1. PICK h \in [0..n -> Nat] : PartialSums(f, n, h) /\ Total(f, n) = h[n]
    BY TotalIs
  <1> DEFINE T == {k \in 0..n : h[k] = 0}
  <1>2. 0 \in T /\ \A k \in 0..(n - 1) : k \in T => k + 1 \in T
    <2>1. ASSUME NEW k \in 0..(n - 1), h[k] = 0
          PROVE  h[k + 1] = 0
      <3>1. k + 1 \in 1..n /\ (k + 1) - 1 = k
        OBVIOUS
      <3> QED
        BY <1>1, <2>1, <3>1 DEF PartialSums
    <2> QED
      BY <1>1, <2>1 DEF PartialSums
  <1> HIDE DEF T
  <1>3. \A k \in 0..n : k \in T
    BY <1>2, UpTo, ZenonT(60)
  <1> QED
    BY <1>1, <1>3 DEF T

-----------------------------------------------------------------------------
(* The types *)

(* A number of threads is the length of the sequence of their places.      *)
LEMMA ThreadNumbers ==
    ASSUME worker \in Seq(Place)
    PROVE  /\ Len(worker) \in Nat /\ DOMAIN worker = 1..Len(worker)
           /\ worker \in [DOMAIN worker -> Place]
  OBVIOUS

LEMMA AvailableType ==
    ASSUME NEW t, inbox[t] \in Seq(Nat)
    PROVE  Available(t) \in Nat /\ Available(t) <= Len(inbox[t])
  <1>1. PICK a \in Nat, b \in Nat : a = Len(inbox[t]) /\ b = ReadMax
    BY BenchAssumption, LenProperties
  <1>2. Min({a, b}) \in {a, b}
    <2>1. {a, b} \subseteq Nat /\ {a, b} # {}
      OBVIOUS
    <2> QED
      BY <2>1, LeastIsMember
  <1>3. Min({a, b}) <= a
    <2>1. \E m \in {a, b} : \A y \in {a, b} : m <= y
      OBVIOUS
    <2> QED
      BY <2>1 DEF Min
  <1> QED
    BY <1>1, <1>2, <1>3 DEF Available

LEMMA InitTypes == Init => TypeOK
  <1> SUFFICES ASSUME Init
               PROVE  TypeOK
    OBVIOUS
  <1>1. /\ pc \in {"args", "spawn", "join", "export", "exited"}
        /\ args \in Seq(STRING)
        /\ total_requests \in Nat /\ total_bytes \in Nat /\ bytes_read \in Nat
    BY BenchAssumption DEF Init
  <1>2. config \in BenchConfig
    <2>1. 8080 \in Port /\ 10 \in Nat /\ 1000 \in Nat /\ 128 \in Nat
      BY DEF Port
    <2> QED
      BY <2>1 DEF Init, Default, BenchConfig
  <1>3. /\ worker \in Seq(Place) /\ DOMAIN worker = {} /\ latencies \in Seq(Latency)
        /\ DOMAIN sent = {} /\ DOMAIN got = {} /\ DOMAIN pending = {} /\ DOMAIN inbox = {}
        /\ DOMAIN link = {} /\ ragged = {}
    BY EmptyIsEmpty, EmptySeq DEF Init
  <1>4. /\ sent \in [DOMAIN worker -> 0..config.requests]
        /\ got \in [DOMAIN worker -> Nat]
        /\ pending \in [DOMAIN worker -> Seq(Nat)]
        /\ inbox \in [DOMAIN worker -> Seq(Nat)]
        /\ link \in [DOMAIN worker -> {"up", "fin", "reset"}]
    BY <1>3 DEF Init
  <1> QED
    BY <1>1, <1>2, <1>3, <1>4 DEF TypeOK

LEMMA MoveType ==
    ASSUME TypeOK, NEW t \in DOMAIN worker, NEW to \in Place, worker' = [worker EXCEPT ![t] = to]
    PROVE  /\ worker' \in Seq(Place) /\ DOMAIN worker' = DOMAIN worker /\ Len(worker') = Len(worker)
           /\ worker'[t] = to /\ \A u \in DOMAIN worker : u # t => worker'[u] = worker[u]
  BY DEF TypeOK

LEMMA ParseTypes ==
    ASSUME TypeOK, ThreadsKnown, ParseArgs
    PROVE  TypeOK'
  <1>1. PICK p \in ParseState : p = CommandLineOf!Parse(args, Default)
    BY ParseType DEF TypeOK
  <1>2. PICK n \in Nat : n = IF p.help THEN 0 ELSE p.config.connections
    <2>1. p.config.connections \in Nat
      BY DEF ParseState, BenchConfig
    <2> QED
      BY <2>1
  <1>3. /\ pc' \in {"exited", "spawn"} /\ config' = p.config /\ args' = <<>>
        /\ worker' = [t \in 1..n |-> "none"]
        /\ sent' = [t \in 1..n |-> 0]
        /\ got' = [t \in 1..n |-> 0]
        /\ pending' = [t \in 1..n |-> <<>>]
        /\ inbox' = [t \in 1..n |-> <<>>]
        /\ link' = [t \in 1..n |-> "up"]
        /\ UNCHANGED <<ragged, total_requests, total_bytes, latencies, bytes_read>>
    BY <1>1, <1>2 DEF ParseArgs, stats
  <1>4. DOMAIN worker' = 1..n /\ worker' \in Seq(Place)
    BY <1>3 DEF Place
  <1>5. config' \in BenchConfig /\ 0 \in 0..config'.requests
    BY <1>3 DEF ParseState, BenchConfig
  <1>6. ragged = {}
    BY EmptyIsEmpty DEF ThreadsKnown, ParseArgs, TypeOK
  <1>7. <<>> \in Seq(Nat) /\ <<>> \in Seq(STRING)
    BY EmptySeq
  <1>8. pending' \in [1..n -> Seq(Nat)] /\ inbox' \in [1..n -> Seq(Nat)]
    BY <1>3, <1>7
  <1>9. sent' \in [1..n -> 0..config'.requests] /\ got' \in [1..n -> Nat]
        /\ link' \in [1..n -> {"up", "fin", "reset"}]
    BY <1>3, <1>5
  <1> QED
    BY <1>3, <1>4, <1>5, <1>6, <1>7, <1>8, <1>9 DEF TypeOK

(* A thread's step adds one to what it sends, and keeps the rest in form.  *)
LEMMA ThreadTypes ==
    ASSUME TypeOK, NEW t \in DOMAIN worker, ThreadStep(t)
    PROVE  TypeOK'
  <1>1. PICK to \in Place : worker' = [worker EXCEPT ![t] = to]
    BY DEF ThreadStep, Connects, Sends, Ends, Reads, CountsRequest, CountsBytes, PushesLatency, Move, Place
  <1>2. worker' \in Seq(Place) /\ DOMAIN worker' = DOMAIN worker
    BY <1>1, MoveType
  <1>3. UNCHANGED <<pc, args, config>>
    BY DEF ThreadStep, Connects, Sends, Ends, Reads, CountsRequest, CountsBytes, PushesLatency, Move
  <1>4. CASE Connects(t) \/ Ends(t)
    <2>1. UNCHANGED <<sent, got, serverVars, stats, bytes_read>>
      BY <1>4 DEF Connects, Ends
    <2> QED
      BY <1>2, <1>3, <2>1 DEF TypeOK, serverVars, stats
  <1>5. CASE Sends(t)
    <2>1. sent' = [sent EXCEPT ![t] = sent[t] + 1] /\ sent[t] < config.requests
          /\ UNCHANGED <<got, inbox, link, stats, bytes_read>>
      BY <1>5 DEF Sends, More
    <2>2. sent' \in [DOMAIN worker -> 0..config.requests]
      <3>1. config.requests \in Nat
        BY DEF TypeOK, BenchConfig
      <3>2. sent[t] + 1 \in 0..config.requests
        BY <2>1, <3>1 DEF TypeOK
      <3> QED
        BY <2>1, <3>2 DEF TypeOK
    <2>3. pending' \in [DOMAIN worker -> Seq(Nat)] /\ ragged' \subseteq DOMAIN worker
      <3>1. CASE link[t] = "fin"
        BY <1>5, <3>1 DEF Sends, TypeOK
      <3>2. CASE link[t] # "fin"
        <4>1. PICK pieces \in 1..(MaxAnswers * MaxPieces) :
                /\ pending' = [pending EXCEPT ![t] = pending[t] \o [k \in 1..pieces |-> sent[t] + 1]]
                /\ ragged' = IF pieces = 1 THEN ragged ELSE ragged \cup {t}
          BY <1>5, <3>2 DEF Sends
        <4>2. PICK n \in Nat : n = pieces
          <5>1. \A last : \A k \in 1..last : k \in Nat
            OBVIOUS
          <5> QED
            BY <5>1
        <4>3. PICK m \in Nat : m = sent[t] + 1
          BY DEF TypeOK, BenchConfig
        <4>4. [k \in 1..n |-> m] \in Seq(Nat) /\ pending[t] \in Seq(Nat)
          BY DEF TypeOK
        <4>5. pending[t] \o [k \in 1..n |-> m] \in Seq(Nat)
          BY <4>4, ConcatProperties
        <4> QED
          BY <4>1, <4>2, <4>3, <4>5 DEF TypeOK
      <3> QED
        BY <3>1, <3>2
    <2> QED
      BY <1>2, <1>3, <2>1, <2>2, <2>3 DEF TypeOK, stats
  <1>6. CASE Reads(t)
    <2>1. PICK n \in Nat : n = Available(t) /\ n <= Len(inbox[t])
      BY AvailableType DEF TypeOK
    <2>2. /\ got' = [got EXCEPT ![t] = n]
          /\ inbox' = [inbox EXCEPT ![t] = SubSeq(inbox[t], n + 1, Len(inbox[t]))]
          /\ bytes_read' = bytes_read + n
          /\ UNCHANGED <<sent, pending, link, ragged, stats>>
      BY <1>6, <2>1 DEF Reads
    <2>3. SubSeq(inbox[t], n + 1, Len(inbox[t])) \in Seq(Nat)
      <3>1. PICK b \in Seq(Nat) : b = inbox[t]
        BY DEF TypeOK
      <3>2. \A i \in (n + 1)..Len(b) : b[i] \in Nat
        OBVIOUS
      <3> QED
        BY <3>1, <3>2, SubSeqProperties
    <2>4. got' \in [DOMAIN worker -> Nat] /\ bytes_read' \in Nat
      BY <2>2 DEF TypeOK
    <2>5. inbox' \in [DOMAIN worker -> Seq(Nat)]
      BY <2>2, <2>3 DEF TypeOK
    <2> QED
      BY <1>2, <1>3, <2>2, <2>4, <2>5 DEF TypeOK, stats
  <1>7. CASE CountsRequest(t) \/ CountsBytes(t)
    <2>1. /\ total_requests' \in {total_requests, total_requests + 1}
          /\ total_bytes' \in {total_bytes, total_bytes + got[t]}
          /\ UNCHANGED <<sent, got, serverVars, latencies, bytes_read>>
      BY <1>7 DEF CountsRequest, CountsBytes
    <2>2. got[t] \in Nat
      BY DEF TypeOK
    <2> QED
      BY <1>2, <1>3, <2>1, <2>2 DEF TypeOK, serverVars
  <1>8. CASE PushesLatency(t)
    <2>1. PICK l \in Latency : latencies' = Append(latencies, l)
      BY <1>8 DEF PushesLatency
    <2>2. UNCHANGED <<sent, got, serverVars, total_requests, total_bytes, bytes_read>>
      BY <1>8 DEF PushesLatency
    <2>3. latencies' \in Seq(Latency)
      BY <2>1 DEF TypeOK
    <2> QED
      BY <1>2, <1>3, <2>2, <2>3 DEF TypeOK, serverVars
  <1> QED
    BY <1>4, <1>5, <1>6, <1>7, <1>8 DEF ThreadStep

LEMMA SpawnMoves ==
    ASSUME TypeOK, ThreadsKnown, Spawns, \E t \in Thread : worker[t] = "none"
    PROVE  \E t \in DOMAIN worker : worker[t] = "none" /\ worker' = [worker EXCEPT ![t] = "connect"]
  <1>1. DOMAIN worker = Thread
    BY DEF Spawns, ThreadsKnown
  <1>2. {t \in Thread : worker[t] = "none"} \subseteq Nat
    BY DEF Thread
  <1>3. Min({t \in Thread : worker[t] = "none"}) \in {t \in Thread : worker[t] = "none"}
    BY <1>2, LeastIsMember
  <1> QED
    BY <1>1, <1>3 DEF Spawns

(* Sorting permutes the latencies.                                         *)
LEMMA PrintsTypes ==
    ASSUME TypeOK, Prints
    PROVE  /\ latencies' \in Seq(Latency) /\ Len(latencies') = Len(latencies)
           /\ DOMAIN latencies' = DOMAIN latencies
           /\ \A j, k \in DOMAIN latencies : j <= k => latencies'[j] <= latencies'[k]
  <1>1. PICK p \in Bijection(DOMAIN latencies, DOMAIN latencies) :
          /\ latencies' = [k \in DOMAIN latencies |-> latencies[p[k]]]
          /\ \A j, k \in DOMAIN latencies : j <= k => latencies'[j] <= latencies'[k]
    BY DEF Prints
  <1>2. PICK n \in Nat : n = Len(latencies) /\ DOMAIN latencies = 1..n
    BY DEF TypeOK
  <1>3. p \in [1..n -> 1..n]
    BY <1>2 DEF Bijection, Injection, Surjection, IsInjective
  <1>4. latencies' \in [1..n -> Latency]
    BY <1>1, <1>2, <1>3 DEF TypeOK
  <1> QED
    BY <1>1, <1>2, <1>4

LEMMA NextTypes ==
    ASSUME TypeOK, ThreadsKnown, [Next]_vars
    PROVE  TypeOK'
  <1>1. CASE ParseArgs
    BY <1>1, ParseTypes
  <1>2. CASE Spawns
    <2>1. UNCHANGED <<args, config, sent, got, serverVars, stats, bytes_read>> /\ pc' \in {"spawn", "join"}
      BY <1>2 DEF Spawns
    <2>2. worker' \in Seq(Place) /\ DOMAIN worker' = DOMAIN worker
      <3>1. CASE \E t \in Thread : worker[t] = "none"
        <4>1. PICK t \in DOMAIN worker : worker' = [worker EXCEPT ![t] = "connect"]
          BY <1>2, <3>1, SpawnMoves
        <4>2. "connect" \in Place
          BY DEF Place
        <4> QED
          BY <4>1, <4>2, MoveType
      <3>2. CASE ~\E t \in Thread : worker[t] = "none"
        BY <1>2, <3>2 DEF Spawns, TypeOK
      <3> QED
        BY <3>1, <3>2
    <2> QED
      BY <2>1, <2>2 DEF TypeOK, serverVars, stats
  <1>3. CASE Prints
    <2>1. latencies' \in Seq(Latency)
      BY <1>3, PrintsTypes
    <2> QED
      BY <1>3, <2>1 DEF Prints, TypeOK, threadVars, serverVars
  <1>4. CASE SpawnFails \/ Exports
    BY <1>4 DEF SpawnFails, Exports, TypeOK, threadVars, serverVars, stats
  <1>5. ASSUME NEW t \in DOMAIN worker, ThreadStep(t)
        PROVE  TypeOK'
    BY <1>5, ThreadTypes
  <1>6. ASSUME NEW t \in DOMAIN worker, Deliver(t)
        PROVE  TypeOK'
    <2>1. /\ pending[t] # <<>>
          /\ pending' = [pending EXCEPT ![t] = Tail(pending[t])]
          /\ inbox' = [inbox EXCEPT ![t] = Append(inbox[t], Head(pending[t]))]
          /\ UNCHANGED <<pc, args, config, worker, sent, got, link, ragged, stats, bytes_read>>
      BY <1>6 DEF Deliver, threadVars
    <2>2. PICK p \in Seq(Nat), b \in Seq(Nat) : p = pending[t] /\ b = inbox[t] /\ p # <<>>
      BY <2>1 DEF TypeOK
    <2>3. Tail(p) \in Seq(Nat) /\ Head(p) \in Nat /\ Append(b, Head(p)) \in Seq(Nat)
      BY <2>2
    <2>4. pending' \in [DOMAIN worker -> Seq(Nat)] /\ inbox' \in [DOMAIN worker -> Seq(Nat)]
      BY <2>1, <2>2, <2>3 DEF TypeOK
    <2> QED
      BY <2>1, <2>4 DEF TypeOK, stats
  <1>7. ASSUME NEW t \in DOMAIN worker, NEW how \in {"fin", "reset"}, Hangs(t, how)
        PROVE  TypeOK'
    <2>1. /\ link' = [link EXCEPT ![t] = how]
          /\ pending' = [pending EXCEPT ![t] = <<>>]
          /\ UNCHANGED <<pc, args, config, worker, sent, got, inbox, ragged, stats, bytes_read>>
      BY <1>7 DEF Hangs, threadVars
    <2>2. <<>> \in Seq(Nat)
      BY EmptySeq
    <2>3. pending' \in [DOMAIN worker -> Seq(Nat)] /\ link' \in [DOMAIN worker -> {"up", "fin", "reset"}]
      BY <2>1, <2>2 DEF TypeOK
    <2> QED
      BY <2>1, <2>3 DEF TypeOK, stats
  <1>8. CASE UNCHANGED vars
    BY <1>8 DEF vars, threadVars, serverVars, stats, TypeOK
  <1> QED
    BY <1>1, <1>2, <1>3, <1>4, <1>5, <1>6, <1>7, <1>8 DEF Next, MainStep, Rests

-----------------------------------------------------------------------------
(* The statistics *)

LEMMA RecordingFinite ==
    ASSUME TypeOK, NEW W
    PROVE  IsFiniteSet(Recording(W)) /\ Cardinality(Recording(W)) \in Nat
  <1>1. PICK n \in Nat : DOMAIN worker = 1..n
    BY DEF TypeOK
  <1>2. IsFiniteSet(1..n)
    BY FS_Interval
  <1>3. Recording(W) \in SUBSET (1..n)
    BY <1>1 DEF Recording
  <1> QED
    BY <1>2, <1>3, FS_Subset, FS_CardinalityType

(* A thread that moves is counted, or no longer counted, or neither.       *)
LEMMA RecordingMove ==
    ASSUME TypeOK, NEW t \in DOMAIN worker, NEW to \in Place, NEW W,
           worker' = [worker EXCEPT ![t] = to]
    PROVE  Cardinality(Recording(W)') =
             CASE to \in W /\ worker[t] \notin W -> Cardinality(Recording(W)) + 1
               [] to \notin W /\ worker[t] \in W -> Cardinality(Recording(W)) - 1
               [] OTHER -> Cardinality(Recording(W))
  <1>1. DOMAIN worker' = DOMAIN worker /\ worker'[t] = to /\ \A u \in DOMAIN worker : u # t => worker'[u] = worker[u]
    BY MoveType
  <1>2. IsFiniteSet(Recording(W))
    BY RecordingFinite
  <1>3. t \in Recording(W) <=> worker[t] \in W
    BY DEF Recording
  <1>4. CASE to \in W
    <2>1. Recording(W)' = Recording(W) \cup {t}
      BY <1>1, <1>4 DEF Recording
    <2>2. Cardinality(Recording(W)') =
            IF t \in Recording(W) THEN Cardinality(Recording(W)) ELSE Cardinality(Recording(W)) + 1
      BY <1>2, <2>1, FS_AddElement
    <2> QED
      BY <1>3, <1>4, <2>2
  <1>5. CASE to \notin W
    <2>1. Recording(W)' = Recording(W) \ {t}
      BY <1>1, <1>5 DEF Recording
    <2>2. Cardinality(Recording(W)') =
            IF t \in Recording(W) THEN Cardinality(Recording(W)) - 1 ELSE Cardinality(Recording(W))
      BY <1>2, <2>1, FS_RemoveElement
    <2> QED
      BY <1>3, <1>5, <2>2
  <1> QED
    BY <1>4, <1>5

LEMMA UnrecordedType ==
    ASSUME TypeOK
    PROVE  Unrecorded \in [1..Len(worker) -> Nat] /\ Total(Unrecorded, Len(worker)) \in Nat
  <1>1. PICK n \in Nat : n = Len(worker) /\ DOMAIN worker = 1..n
    BY DEF TypeOK
  <1>2. Unrecorded \in [1..n -> Nat]
    BY <1>1 DEF Unrecorded, TypeOK
  <1>3. PICK h \in [0..n -> Nat] : Total(Unrecorded, n) = h[n]
    BY <1>2, TotalIs
  <1>4. n \in 0..n
    OBVIOUS
  <1> QED
    BY <1>1, <1>2, <1>3, <1>4

(* The sum of what is read and not recorded follows the thread that moves. *)
LEMMA UnrecordedMove ==
    ASSUME TypeOK, TypeOK', NEW t \in DOMAIN worker, NEW to \in Place,
           worker' = [worker EXCEPT ![t] = to], \A u \in DOMAIN worker : u # t => got'[u] = got[u]
    PROVE  Total(Unrecorded, Len(worker))' + Unrecorded[t] = Total(Unrecorded, Len(worker)) + Unrecorded'[t]
  <1>1. /\ DOMAIN worker' = DOMAIN worker /\ worker'[t] = to /\ Len(worker') = Len(worker)
        /\ \A u \in DOMAIN worker : u # t => worker'[u] = worker[u]
    BY MoveType
  <1>2. PICK n \in Nat : n = Len(worker) /\ DOMAIN worker = 1..n
    <2>1. worker \in Seq(Place)
      BY DEF TypeOK
    <2> QED
      BY <2>1, ThreadNumbers
  <1>3. Unrecorded \in [1..n -> Nat] /\ Unrecorded' \in [1..n -> Nat]
    BY <1>1, <1>2, UnrecordedType DEF Unrecorded, TypeOK
  <1>4. \A u \in 1..n : u # t => Unrecorded'[u] = Unrecorded[u]
    BY <1>1, <1>2 DEF Unrecorded
  <1>5. t \in 1..n
    BY <1>2
  <1>6. Total(Unrecorded', n) + Unrecorded[t] = Total(Unrecorded, n) + Unrecorded'[t]
    BY <1>3, <1>4, <1>5, TotalChange
  <1> QED
    BY <1>1, <1>2, <1>6

(* Nobody is in between before the first move.                             *)
LEMMA NothingRecorded ==
    ASSUME TypeOK, \A t \in DOMAIN worker : worker[t] \notin {"count", "bytes", "push"}
    PROVE  Cardinality(Recording({"bytes", "push"})) = 0 /\ Total(Unrecorded, Len(worker)) = 0
  <1>1. PICK n \in Nat : n = Len(worker) /\ DOMAIN worker = 1..n
    BY DEF TypeOK
  <1>2. Recording({"bytes", "push"}) = {}
    BY DEF Recording
  <1>3. Unrecorded \in [1..n -> Nat] /\ \A t \in 1..n : Unrecorded[t] = 0
    BY <1>1 DEF Unrecorded
  <1>4. Total(Unrecorded, n) = 0
    BY <1>3, TotalZero
  <1> QED
    BY <1>1, <1>2, <1>4, FS_EmptySet

(* One step of a thread moves the statistics and their difference alike.   *)
LEMMA MoveKeepsStats ==
    ASSUME TypeOK, TypeOK', StatsAgree, NEW t \in DOMAIN worker, NEW to \in Place,
           worker' = [worker EXCEPT ![t] = to],
           \A u \in DOMAIN worker : u # t => got'[u] = got[u],
           Len(latencies') = Len(latencies) + (IF worker[t] = "push" THEN 1 ELSE 0),
           total_requests' = total_requests + (IF worker[t] = "count" THEN 1 ELSE 0),
           total_bytes' = total_bytes + (IF worker[t] = "bytes" THEN got[t] ELSE 0),
           bytes_read' = bytes_read + (IF to = "count" THEN got'[t] ELSE 0),
           to = "count" <=> worker[t] = "read" /\ to # "done",
           to = "bytes" <=> worker[t] = "count",
           to = "push" <=> worker[t] = "bytes",
           to = "bytes" => got'[t] = got[t]
    PROVE  StatsAgree'
  <1> DEFINE W == {"bytes", "push"}
  <1>1. Len(latencies) \in Nat /\ Len(latencies') \in Nat /\ total_requests \in Nat /\ total_bytes \in Nat /\ bytes_read \in Nat
        /\ got[t] \in Nat /\ got'[t] \in Nat
    <2>1. /\ latencies \in Seq(Latency) /\ latencies' \in Seq(Latency)
          /\ total_requests \in Nat /\ total_bytes \in Nat /\ bytes_read \in Nat
          /\ got \in [DOMAIN worker -> Nat] /\ got' \in [DOMAIN worker' -> Nat]
      BY DEF TypeOK
    <2>2. Len(latencies) \in Nat /\ Len(latencies') \in Nat
      BY <2>1, LenProperties
    <2>3. t \in DOMAIN worker'
      BY MoveType, ZenonT(60)
    <2>4. got[t] \in Nat /\ got'[t] \in Nat
      BY <2>1, <2>3, ZenonT(60)
    <2> QED
      BY <2>1, <2>2, <2>4, ZenonT(60)
  <1>2. PICK c \in Nat, s \in Nat : c = Cardinality(Recording(W)) /\ s = Total(Unrecorded, Len(worker))
    BY RecordingFinite, UnrecordedType
  <1>3. total_requests = Len(latencies) + c /\ bytes_read = total_bytes + s
    BY <1>2 DEF StatsAgree
  <1>4. total_requests' = Len(latencies') + Cardinality(Recording(W)')
    <2>1. Cardinality(Recording(W)') = CASE to \in W /\ worker[t] \notin W -> c + 1
                                         [] to \notin W /\ worker[t] \in W -> c - 1
                                         [] OTHER -> c
      <3>1. Cardinality(Recording(W)') = CASE to \in W /\ worker[t] \notin W -> Cardinality(Recording(W)) + 1
                                           [] to \notin W /\ worker[t] \in W -> Cardinality(Recording(W)) - 1
                                           [] OTHER -> Cardinality(Recording(W))
        <4> HIDE DEF W
        <4> QED
          BY RecordingMove, ZenonT(60)
      <3> QED
        BY <1>2, <3>1
    <2>2. CASE worker[t] = "count"
      BY <1>1, <1>3, <2>1, <2>2
    <2>3. CASE worker[t] = "bytes"
      BY <1>1, <1>3, <2>1, <2>3
    <2>4. CASE worker[t] = "push"
      BY <1>1, <1>3, <2>1, <2>4
    <2>5. CASE worker[t] \notin {"count", "bytes", "push"}
      BY <1>1, <1>3, <2>1, <2>5
    <2> QED
      BY <2>2, <2>3, <2>4, <2>5
  <1>5. bytes_read' = total_bytes' + Total(Unrecorded, Len(worker))'
    <2>1. PICK r \in Nat : r = Total(Unrecorded, Len(worker))'
      <3>1. (Total(Unrecorded, Len(worker)) \in Nat)'
        BY UnrecordedType, PTL
      <3> QED
        BY <3>1
    <2>2. PICK a \in Nat, b \in Nat : a = Unrecorded[t] /\ b = Unrecorded'[t]
      <3>1. Unrecorded[t] = (IF worker[t] \in {"count", "bytes"} THEN got[t] ELSE 0)
        BY DEF Unrecorded
      <3>2. Unrecorded'[t] = (IF to \in {"count", "bytes"} THEN got'[t] ELSE 0)
        BY MoveType DEF Unrecorded
      <3>3. Unrecorded[t] \in Nat /\ Unrecorded'[t] \in Nat
        BY <1>1, <3>1, <3>2
      <3> QED
        BY <3>3
    <2>3. r + a = s + b
      BY <1>2, <2>1, <2>2, UnrecordedMove
    <2>4. a = (IF worker[t] \in {"count", "bytes"} THEN got[t] ELSE 0)
      BY <2>2 DEF Unrecorded
    <2>5. b = (IF to \in {"count", "bytes"} THEN got'[t] ELSE 0)
      BY <2>2, MoveType DEF Unrecorded
    <2>6. CASE to = "count"
      BY <1>1, <1>3, <2>1, <2>3, <2>4, <2>5, <2>6
    <2>7. CASE worker[t] = "count"
      <3>1. to = "bytes" /\ got'[t] = got[t]
        BY <2>7
      <3>2. a = got[t] /\ b = got[t]
        BY <2>4, <2>5, <2>7, <3>1
      <3>3. r = s
        BY <1>1, <1>2, <2>1, <2>3, <3>2
      <3>4. total_bytes' = total_bytes /\ bytes_read' = bytes_read
        BY <1>1, <2>7, <3>1
      <3> QED
        BY <1>3, <2>1, <3>3, <3>4
    <2>8. CASE worker[t] = "bytes"
      BY <1>1, <1>3, <2>1, <2>3, <2>4, <2>5, <2>8
    <2>9. CASE worker[t] \notin {"count", "bytes"} /\ to # "count"
      BY <1>1, <1>3, <2>1, <2>3, <2>4, <2>5, <2>9
    <2> QED
      BY <2>6, <2>7, <2>8, <2>9
  <1> QED
    BY <1>4, <1>5 DEF StatsAgree

LEMMA ThreadReports ==
    ASSUME ReportInvariant, NEW t \in DOMAIN worker, ThreadStep(t)
    PROVE  ReportInvariant'
  <1>1. TypeOK /\ ThreadsKnown /\ StatsAgree /\ TypeOK'
    BY ThreadTypes DEF ReportInvariant
  <1>2. pc' = pc /\ config' = config
    BY DEF ThreadStep, Connects, Sends, Ends, Reads, CountsRequest, CountsBytes, PushesLatency, Move
  <1>3. pc \notin {"args", "export"}
    <2>1. worker[t] # "done"
      BY DEF ThreadStep, Connects, Sends, Ends, Reads, CountsRequest, CountsBytes, PushesLatency, Move
    <2> QED
      BY <1>1, <2>1, EmptyIsEmpty DEF ThreadsKnown
  <1>4. /\ Len(latencies) \in Nat /\ total_requests \in Nat /\ total_bytes \in Nat /\ bytes_read \in Nat
        /\ got \in [DOMAIN worker -> Nat]
    BY <1>1 DEF TypeOK
  <1>5. PICK to \in Place :
          /\ worker' = [worker EXCEPT ![t] = to]
          /\ \A u \in DOMAIN worker : u # t => got'[u] = got[u]
          /\ Len(latencies') = Len(latencies) + (IF worker[t] = "push" THEN 1 ELSE 0)
          /\ total_requests' = total_requests + (IF worker[t] = "count" THEN 1 ELSE 0)
          /\ total_bytes' = total_bytes + (IF worker[t] = "bytes" THEN got[t] ELSE 0)
          /\ bytes_read' = bytes_read + (IF to = "count" THEN got'[t] ELSE 0)
          /\ to = "count" <=> worker[t] = "read" /\ to # "done"
          /\ to = "bytes" <=> worker[t] = "count"
          /\ to = "push" <=> worker[t] = "bytes"
          /\ to = "bytes" => got'[t] = got[t]
    <2>1. CASE Connects(t) \/ Ends(t) \/ Sends(t)
      <3>1. UNCHANGED <<got, total_requests, total_bytes, latencies, bytes_read>>
        BY <2>1 DEF Connects, Ends, Sends, stats
      <3>2. PICK to \in {"send", "done", "read"} :
              worker' = [worker EXCEPT ![t] = to] /\ worker[t] \in {"connect", "send", "read"}
              /\ (worker[t] = "read" => to = "done")
        BY <2>1 DEF Connects, Ends, Sends, Move
      <3>3. to \in Place
        BY DEF Place
      <3> WITNESS to \in Place
      <3> QED
        BY <1>4, <3>1, <3>2, <3>3
    <2>2. CASE Reads(t)
      <3>1. /\ worker[t] = "read" /\ worker' = [worker EXCEPT ![t] = "count"]
            /\ got' = [got EXCEPT ![t] = Available(t)] /\ bytes_read' = bytes_read + Available(t)
            /\ UNCHANGED <<total_requests, total_bytes, latencies>>
        BY <2>2 DEF Reads, Move, stats
      <3>2. got'[t] = Available(t) /\ \A u \in DOMAIN worker : u # t => got'[u] = got[u]
        BY <1>4, <3>1
      <3>3. "count" \in Place
        BY DEF Place
      <3> WITNESS "count" \in Place
      <3> QED
        BY <1>4, <3>1, <3>2, <3>3
    <2>3. CASE CountsRequest(t)
      <3>1. /\ worker[t] = "count" /\ worker' = [worker EXCEPT ![t] = "bytes"]
            /\ total_requests' = total_requests + 1
            /\ UNCHANGED <<got, total_bytes, latencies, bytes_read>>
        BY <2>3 DEF CountsRequest, Move
      <3>3. "bytes" \in Place
        BY DEF Place
      <3> WITNESS "bytes" \in Place
      <3> QED
        BY <1>4, <3>1, <3>3
    <2>4. CASE CountsBytes(t)
      <3>1. /\ worker[t] = "bytes" /\ worker' = [worker EXCEPT ![t] = "push"]
            /\ total_bytes' = total_bytes + got[t]
            /\ UNCHANGED <<got, total_requests, latencies, bytes_read>>
        BY <2>4 DEF CountsBytes, Move
      <3>3. "push" \in Place
        BY DEF Place
      <3> WITNESS "push" \in Place
      <3> QED
        BY <1>4, <3>1, <3>3
    <2>5. CASE PushesLatency(t)
      <3>1. /\ worker[t] = "push" /\ worker' = [worker EXCEPT ![t] = "send"]
            /\ \E l \in Latency : latencies' = Append(latencies, l)
            /\ UNCHANGED <<got, total_requests, total_bytes, bytes_read>>
        BY <2>5 DEF PushesLatency, Move
      <3>2. Len(latencies') = Len(latencies) + 1
        BY <1>1, <3>1 DEF TypeOK
      <3>3. "send" \in Place
        BY DEF Place
      <3> WITNESS "send" \in Place
      <3> QED
        BY <1>4, <3>1, <3>2, <3>3
    <2> QED
      BY <2>1, <2>2, <2>3, <2>4, <2>5 DEF ThreadStep
  <1>6. StatsAgree'
    BY <1>1, <1>5, MoveKeepsStats
  <1>7. ThreadsKnown'
    BY <1>1, <1>2, <1>3, <1>5, MoveType DEF ThreadsKnown, Thread
  <1> QED
    BY <1>1, <1>2, <1>3, <1>6, <1>7 DEF ReportInvariant, SortedAtEnd

(* main's steps touch no statistics but to sort them, when no thread is    *)
(* left.                                                                   *)
LEMMA MainReports ==
    ASSUME ReportInvariant, MainStep
    PROVE  ReportInvariant'
  <1>1. TypeOK /\ ThreadsKnown /\ StatsAgree
    BY DEF ReportInvariant
  <1>2. TypeOK'
    BY <1>1, NextTypes DEF Next
  <1>3. CASE ParseArgs
    <2>1. pc = "args" /\ pc' \in {"exited", "spawn"} /\ UNCHANGED <<stats, bytes_read>>
      BY <1>3 DEF ParseArgs
    <2>2. PICK n : /\ worker' = [t \in 1..n |-> "none"]
                   /\ pc' = "spawn" => n = config'.connections
      BY <1>3 DEF ParseArgs
    <2>3. ThreadsKnown'
      BY <2>1, <2>2 DEF ThreadsKnown, Thread
    <2>4. \A t \in DOMAIN worker : worker[t] \notin {"count", "bytes", "push"}
      BY <1>1, <2>1, EmptyIsEmpty DEF ThreadsKnown
    <2>5. (\A t \in DOMAIN worker : worker[t] \notin {"count", "bytes", "push"})'
      BY <2>2
    <2>6. Cardinality(Recording({"bytes", "push"})) = 0 /\ Total(Unrecorded, Len(worker)) = 0
      BY <1>1, <2>4, NothingRecorded
    <2>7. (Cardinality(Recording({"bytes", "push"})) = 0 /\ Total(Unrecorded, Len(worker)) = 0)'
      BY <1>2, <2>5, NothingRecorded, PTL
    <2>8. StatsAgree'
      BY <1>1, <2>1, <2>6, <2>7 DEF StatsAgree, stats
    <2> QED
      BY <1>2, <2>1, <2>3, <2>8 DEF ReportInvariant, SortedAtEnd
  <1>4. CASE Spawns /\ \E t \in Thread : worker[t] = "none"
    <2>1. pc = "spawn" /\ UNCHANGED <<pc, config, got, stats, bytes_read>>
      BY <1>4 DEF Spawns
    <2>2. PICK t \in DOMAIN worker : worker[t] = "none" /\ worker' = [worker EXCEPT ![t] = "connect"]
      BY <1>1, <1>4, SpawnMoves
    <2>3. "connect" \in Place
      BY DEF Place
    <2>4. Len(latencies) \in Nat /\ total_requests \in Nat /\ total_bytes \in Nat /\ bytes_read \in Nat
      BY <1>1 DEF TypeOK
    <2>5. /\ Len(latencies') = Len(latencies) + (IF worker[t] = "push" THEN 1 ELSE 0)
          /\ total_requests' = total_requests + (IF worker[t] = "count" THEN 1 ELSE 0)
          /\ total_bytes' = total_bytes + (IF worker[t] = "bytes" THEN got[t] ELSE 0)
          /\ bytes_read' = bytes_read + (IF "connect" = "count" THEN got'[t] ELSE 0)
          /\ "connect" = "count" <=> worker[t] = "read" /\ "connect" # "done"
          /\ "connect" = "bytes" <=> worker[t] = "count"
          /\ "connect" = "push" <=> worker[t] = "bytes"
          /\ "connect" # "bytes"
          /\ \A u \in DOMAIN worker : u # t => got'[u] = got[u]
      BY <2>1, <2>2, <2>4 DEF stats
    <2>6. StatsAgree'
      BY <1>1, <1>2, <2>2, <2>3, <2>5, MoveKeepsStats
    <2>7. ThreadsKnown'
      BY <1>1, <2>1, <2>2, <2>3, MoveType DEF ThreadsKnown, Thread
    <2> QED
      BY <1>2, <2>1, <2>6, <2>7 DEF ReportInvariant, SortedAtEnd
  <1>5. CASE SpawnFails \/ Exports \/ (Spawns /\ ~\E t \in Thread : worker[t] = "none")
    <2>1. UNCHANGED <<config, threadVars, stats, bytes_read>> /\ pc' \in {"join", "exited"}
          /\ (pc' = "join" => pc = "spawn")
      BY <1>5 DEF SpawnFails, Exports, Spawns, threadVars
    <2>2. StatsAgree'
      BY <1>1, <2>1 DEF StatsAgree, Recording, Unrecorded, threadVars, stats
    <2>3. ThreadsKnown'
      BY <1>1, <2>1 DEF ThreadsKnown, Thread, threadVars
    <2> QED
      BY <1>2, <2>1, <2>2, <2>3 DEF ReportInvariant, SortedAtEnd
  <1>6. CASE Prints
    <2>1. /\ pc = "join" /\ pc' = "export" /\ \A t \in Thread : worker[t] = "done"
          /\ UNCHANGED <<config, threadVars, total_requests, total_bytes, bytes_read>>
      BY <1>6 DEF Prints
    <2>2. SortedAtEnd' /\ Len(latencies') = Len(latencies)
      BY <1>1, <1>6, PrintsTypes DEF SortedAtEnd
    <2>3. ThreadsKnown'
      BY <1>1, <2>1 DEF ThreadsKnown, Thread, threadVars
    <2>4. StatsAgree'
      BY <1>1, <2>1, <2>2 DEF StatsAgree, Recording, Unrecorded, threadVars
    <2> QED
      BY <1>2, <2>2, <2>3, <2>4 DEF ReportInvariant
  <1> QED
    BY <1>3, <1>4, <1>5, <1>6 DEF MainStep

LEMMA InitReports == Init => ReportInvariant
  <1> SUFFICES ASSUME Init
               PROVE  ReportInvariant
    OBVIOUS
  <1>1. TypeOK
    BY InitTypes
  <1>2. DOMAIN worker = {} /\ pc = "args" /\ worker = <<>>
    BY EmptyIsEmpty DEF Init
  <1>3. Cardinality(Recording({"bytes", "push"})) = 0 /\ Total(Unrecorded, Len(worker)) = 0
    BY <1>1, <1>2, NothingRecorded
  <1>4. Len(latencies) = 0 /\ total_requests = 0 /\ bytes_read = 0 /\ total_bytes = 0
    BY EmptySeq DEF Init
  <1>5. StatsAgree
    BY <1>3, <1>4 DEF StatsAgree
  <1> QED
    BY <1>1, <1>2, <1>5 DEF ReportInvariant, ThreadsKnown, SortedAtEnd

LEMMA NextReports ==
    ASSUME ReportInvariant, [Next]_vars
    PROVE  ReportInvariant'
  <1>1. CASE MainStep
    BY <1>1, MainReports
  <1>2. ASSUME NEW t \in DOMAIN worker, ThreadStep(t)
        PROVE  ReportInvariant'
    BY <1>2, ThreadReports
  <1>3. CASE \/ UNCHANGED vars
             \/ \E t \in DOMAIN worker : Deliver(t) \/ \E how \in {"fin", "reset"} : Hangs(t, how)
    <2>1. UNCHANGED <<pc, config, threadVars, stats, bytes_read>>
      BY <1>3 DEF vars, Deliver, Hangs
    <2>2. TypeOK'
      BY NextTypes DEF ReportInvariant
    <2> QED
      BY <2>1, <2>2 DEF ReportInvariant, ThreadsKnown, Thread, SortedAtEnd, StatsAgree, Recording,
                        Unrecorded, threadVars, stats
  <1> QED
    BY <1>1, <1>2, <1>3 DEF Next, Rests

LEMMA ReportHolds == Spec => []ReportInvariant
  <1>1. Init => ReportInvariant
    BY InitReports
  <1>2. ReportInvariant /\ [Next]_vars => ReportInvariant'
    BY NextReports
  <1> QED
    BY <1>1, <1>2, PTL DEF Spec

(* The client's state is of the declared types for every command line: the *)
(* port fits 16 bits and no thread writes more requests than were asked    *)
(* for.                                                                    *)
THEOREM BenchTypes == Spec => []TypeOK
  <1>1. ReportInvariant => TypeOK
    BY DEF ReportInvariant
  <1> QED
    BY <1>1, ReportHolds, PTL

(* The two counters and the list of latencies, which record_request        *)
(* updates one after the other, differ by exactly the threads in between,  *)
(* for any number of threads and requests and however they interleave.     *)
THEOREM StatisticsAgree == Spec => []StatsAgree
  <1>1. ReportInvariant => StatsAgree
    BY DEF ReportInvariant
  <1> QED
    BY <1>1, ReportHolds, PTL

(* The index of a percentile is inside a list of n, and that far into it   *)
(* is that share of it.                                                    *)
LEMMA PercentileIndex ==
    ASSUME NEW n \in Nat \ {0}, NEW p \in {50, 95, 99}
    PROVE  /\ (n * p) \div 100 \in Nat
           /\ 1 + (n * p) \div 100 \in 1..n
           /\ 100 * (1 + (n * p) \div 100) >= p * n
  <1>1. CASE p = 50
    BY <1>1
  <1>2. CASE p = 95
    BY <1>2
  <1>3. CASE p = 99
    BY <1>3
  <1> QED
    BY <1>1, <1>2, <1>3

(* The percentiles that are printed exist, and that share of the requests  *)
(* took no longer, however many were measured.                             *)
THEOREM PercentilesAreRight == Spec => []PercentilesRight
  <1>1. ReportInvariant => PercentilesRight
    <2> SUFFICES ASSUME ReportInvariant, pc = "export", latencies # <<>>, NEW p \in {50, 95, 99}
                 PROVE  LET i == 1 + (Len(latencies) * p) \div 100 IN
                        /\ i \in DOMAIN latencies
                        /\ 100 * Cardinality({k \in DOMAIN latencies : latencies[k] <= latencies[i]})
                                >= p * Len(latencies)
      BY DEF PercentilesRight
    <2>1. PICK n \in Nat \ {0} : n = Len(latencies) /\ DOMAIN latencies = 1..n
      <3>1. latencies \in Seq(Latency)
        BY DEF ReportInvariant, TypeOK
      <3> QED
        BY <3>1, EmptySeq
    <2>2. PICK i \in 1..n : i = 1 + (n * p) \div 100 /\ 100 * i >= p * n
      BY PercentileIndex
    <2> DEFINE K == {k \in DOMAIN latencies : latencies[k] <= latencies[i]}
    <2>3. 1..i \in SUBSET K
      BY <2>1 DEF ReportInvariant, SortedAtEnd
    <2>4. IsFiniteSet(K)
      <3>1. IsFiniteSet(1..n) /\ K \in SUBSET (1..n)
        BY <2>1, FS_Interval
      <3> QED
        BY <3>1, FS_Subset
    <2>5. Cardinality(1..i) <= Cardinality(K) /\ Cardinality(K) \in Nat
      BY <2>3, <2>4, FS_Subset, FS_CardinalityType
    <2>6. Cardinality(1..i) = i
      BY FS_Interval
    <2> HIDE DEF K
    <2>7. 100 * Cardinality(K) >= 100 * i
      BY <2>5, <2>6
    <2>8. PICK c \in Nat, a \in Nat, b \in Nat : c = Cardinality(K) /\ a = p * n /\ b = 100 * i
      BY <2>5
    <2>9. 100 * Cardinality(K) >= p * n
      BY <2>2, <2>7, <2>8
    <2> QED
      BY <2>1, <2>2, <2>9 DEF K
  <1> QED
    BY <1>1, ReportHolds, PTL
=============================================================================
