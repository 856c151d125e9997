---------------------------- MODULE ServerProofs ----------------------------
(***************************************************************************)
(* Proofs about the start and the end of the server process (module        *)
(* Server), for any command line, any CPUs and any calls that fail.        *)
(***************************************************************************)
EXTENDS Server, Recursion, SequenceTheorems

LEMMA InitLaunch == Init => LaunchInvariant
  BY DEF Init, LaunchInvariant, WorkersStay, Places, Up, Starting, Worker

(* Before the socket listens there is no thread; main goes on from one     *)
(* place to the next.                                                      *)
LEMMA MainKeepsLaunch ==
    ASSUME LaunchInvariant, MainStep \/ ServeFails
    PROVE  LaunchInvariant'
  <1>1. CASE ParseArgs
    <2>1. /\ pc = "args" /\ UNCHANGED <<running, sock>>
          /\ pc' \in {"exited", "limits"}
          /\ \E n : worker' = [w \in 0..(n - 1) |-> "none"]
      BY <1>1 DEF ParseArgs, Threads
    <2>2. worker' \in [Worker' -> {"none"}] /\ \A w \in Worker' : worker'[w] = "none"
      BY <2>1 DEF Worker
    <2> QED
      BY <2>1, <2>2 DEF LaunchInvariant, WorkersStay, Places, Up, Starting, Worker
  <1>2. CASE \/ CheckSystemLimits \/ DetectBackend \/ PinMain \/ NewReactor \/ Start
             \/ OpenSocket \/ ParseHost \/ Bind \/ Listen
    <2>1. /\ worker' = worker
          /\ pc \notin Up \cup {"exited"}
          /\ pc' \in Places
          /\ pc' # "exited"
          /\ pc' \in Starting \cup Up => running'
          /\ pc' \in Up => sock' = "listening"
      BY <1>2 DEF CheckSystemLimits, DetectBackend, PinMain, NewReactor, Start, OpenSocket,
                  ParseHost, Bind, Listen, Goto, Up, Starting, Places, LaunchInvariant
    <2>2. \A w \in Worker : worker[w] = "none"
      BY <2>1 DEF LaunchInvariant
    <2> QED
      BY <2>1, <2>2 DEF LaunchInvariant, WorkersStay, Worker
  <1>3. ASSUME NEW w \in Worker, Spawn(w)
        PROVE  LaunchInvariant'
    <2>1. /\ pc = "spawn" /\ pc' = "spawn" /\ sock' = sock /\ running' = running
          /\ worker' = [worker EXCEPT ![w] = "spawned"]
      BY <1>3 DEF Spawn, Goto
    <2>2. sock = "listening" /\ running /\ worker \in [Worker -> {"none", "spawned", "loop", "killed"}]
      BY <2>1 DEF LaunchInvariant, Up
    <2> QED
      BY <2>1, <2>2 DEF LaunchInvariant, WorkersStay, Places, Up, Starting, Worker
  <1>4. CASE SpawnEnds \/ CreateEpoll \/ RegisterListener
    <2>1. /\ pc \in Up /\ pc' \in Up /\ UNCHANGED <<sock, running, worker>>
      BY <1>4 DEF SpawnEnds, CreateEpoll, RegisterListener, Goto, Up
    <2> QED
      BY <2>1 DEF LaunchInvariant, WorkersStay, Places, Up, Starting, Worker
  <1>5. CASE SomeCallFails \/ ServeFails
    <2>1. /\ pc' = "exited" /\ sock' \in {sock, "closed"}
          /\ worker' = [w \in Worker |-> IF worker[w] = "none" THEN "none" ELSE "killed"]
      BY <1>5 DEF SomeCallFails, ServeFails, CallFails, ThreadsEnd, Goto
    <2>2. /\ Worker' = Worker
          /\ \A w \in Worker : /\ worker'[w] \in {"none", "killed"}
                               /\ worker'[w] # "none" => worker[w] # "none"
      BY <2>1 DEF Worker
    <2>3. worker' \in [Worker' -> {"none", "spawned", "loop", "killed"}]
      BY <2>1 DEF Worker
    <2> QED
      BY <2>1, <2>2, <2>3 DEF LaunchInvariant, WorkersStay, Places, Up, Starting
  <1> QED
    BY <1>1, <1>2, <1>3, <1>4, <1>5 DEF MainStep

(* A worker that reads the flag finds it set.                              *)
LEMMA NextLaunch ==
    ASSUME LaunchInvariant, [Next]_vars
    PROVE  LaunchInvariant'
  <1>1. CASE MainStep \/ ServeFails
    BY <1>1, MainKeepsLaunch
  <1>2. ASSUME NEW w \in Worker, PinWorker(w) \/ WorkerIdles(w)
        PROVE  LaunchInvariant'
    <2>1. /\ pc' = pc /\ sock' = sock /\ running' = running
          /\ worker[w] \in {"spawned", "loop"}
      BY <1>2 DEF PinWorker, WorkerIdles
    <2>2. pc \in Up
      BY <2>1 DEF LaunchInvariant
    <2>3. sock = "listening" /\ running /\ worker \in [Worker -> {"none", "spawned", "loop", "killed"}]
      BY <2>2 DEF LaunchInvariant
    <2>4. worker' = [worker EXCEPT ![w] = "loop"]
      BY <1>2, <2>3 DEF PinWorker, WorkerIdles
    <2> QED
      BY <2>1, <2>2, <2>3, <2>4 DEF LaunchInvariant, WorkersStay, Places, Up, Starting, Worker
  <1>3. CASE UNCHANGED vars
    BY <1>3 DEF vars, LaunchInvariant, WorkersStay, Worker
  <1> QED
    BY <1>1, <1>2, <1>3 DEF Next, Rests

(* No worker thread exists before the server listens, and none leaves its  *)
(* loop while the process lives: start sets the flag first, and nothing    *)
(* resets it.                                                              *)
THEOREM WorkersNeverLeave == Spec => []WorkersStay
  <1>1. Init => LaunchInvariant
    BY InitLaunch
  <1>2. LaunchInvariant /\ [Next]_vars => LaunchInvariant'
    BY NextLaunch
  <1>3. LaunchInvariant => WorkersStay
    BY DEF LaunchInvariant
  <1> QED
    BY <1>1, <1>2, <1>3, PTL DEF Spec

-----------------------------------------------------------------------------
(* The command line *)

Option == DOMAIN OptionField \ {"--no-io-uring"}
Switch == {"--no-io-uring"}
Help == {"--help", "-h"}

Names(a) == CommandLineOf!Named(a)

(* The words that are not values are those whose neighbour to the left is  *)
(* not an option with a value, as the recursive definition says.           *)
LEMMA NamesAre ==
    ASSUME NEW a \in Seq(STRING)
    PROVE  /\ Names(a) \subseteq 1..Len(a)
           /\ \A j \in 1..Len(a) :
                j \in Names(a) <=> ~(j > 1 /\ a[j - 1] \in Option /\ j - 1 \in Names(a))
  <1> DEFINE D == 1..Len(a)
             Body(f) == [j \in D |-> ~(j > 1 /\ a[j - 1] \in Option /\ f[j - 1])]
  <1>1. PICK n \in Nat : n = Len(a) /\ DOMAIN a = 1..n
    OBVIOUS
  <1> DEFINE S == BOOLEAN
             c == FALSE
             g == [j \in 1..n |-> [v \in S |-> ~(j > 1 /\ a[j - 1] \in Option /\ v)]]
  <1>2. c \in S /\ g \in [1..n -> [S -> S]]
    BY ZenonT(60)
  <1> HIDE DEF S, c, g
  <1>3. PICK f \in [0..n -> S] : Stepwise(f, n, c, g)
    BY <1>2, StepwiseExists
  <1> DEFINE e == [j \in D |-> f[j]]
  <1>4. e = Body(e)
    <2>1. ASSUME NEW j \in D
          PROVE  e[j] = ~(j > 1 /\ a[j - 1] \in Option /\ e[j - 1])
      <3>1. j \in 1..n /\ j - 1 \in 0..n /\ (j > 1 => j - 1 \in D)
        BY <1>1
      <3>2. e[j] = g[j][f[j - 1]] /\ f[j - 1] \in S
        BY <1>3, <3>1 DEF Stepwise
      <3>3. e[j] = ~(j > 1 /\ a[j - 1] \in Option /\ f[j - 1])
        BY <3>1, <3>2, ZenonT(60) DEF g
      <3>4. j > 1 => e[j - 1] = f[j - 1]
        BY <3>1, ZenonT(60)
      <3> QED
        BY <3>3, <3>4, ZenonT(60)
    <2> HIDE DEF e
    <2>2. e = [j \in D |-> e[j]]
      BY ZenonT(60) DEF e
    <2> QED
      BY <2>1, <2>2, ZenonT(60)
  <1> DEFINE h == CHOOSE h : h = Body(h)
  <1>5. h = Body(h)
    BY <1>4, ZenonT(60)
  <1>6. Names(a) = {j \in D : h[j]}
    BY <1>1, ZenonT(60) DEF Names, CommandLineOf!Named, Option
  <1> HIDE DEF h
  <1>7. \A j \in D : h[j] = ~(j > 1 /\ a[j - 1] \in Option /\ h[j - 1])
    BY <1>5, ZenonT(60)
  <1>8. ASSUME NEW j \in 1..Len(a)
        PROVE  j \in Names(a) <=> ~(j > 1 /\ a[j - 1] \in Option /\ j - 1 \in Names(a))
    <2>1. j > 1 => j - 1 \in D
      BY <1>1
    <2>2. j \in Names(a) <=> h[j]
      BY <1>6, ZenonT(60)
    <2>3. j > 1 => (j - 1 \in Names(a) <=> h[j - 1])
      BY <1>6, <2>1, ZenonT(60)
    <2> QED
      BY <1>7, <2>2, <2>3, ZenonT(60)
  <1> QED
    BY <1>6, <1>8, ZenonT(60)

(* What the word at j sets its field to.                                   *)
ValueAt(a, j) == OptionValue(a[j], IF a[j] \in Option THEN a[j + 1] ELSE "")

Sets(a, f) == CommandLineOf!Setting(a, f)

LEMMA SetsAre ==
    ASSUME NEW a, NEW f, NEW j
    PROVE  j \in Sets(a, f) <=> /\ j \in Names(a)
                                /\ a[j] \in Switch \cup Option
                                /\ a[j] \in Option => j < Len(a)
                                /\ FieldOf(a[j]) = f
  BY DEF Sets, CommandLineOf!Setting, Names, Switch, Option

(* What a field may hold.                                                  *)
Values(a) ==
    {Default[f] : f \in DOMAIN Default} \cup
    UNION {{OptionValue(o, w) : w \in {a[j] : j \in DOMAIN a} \cup {""}} : o \in DOMAIN OptionField}

(* Where the loop over the command line can be ...                         *)
ParseState(a) ==
    [i : 1..(Len(a) + 1), config : [DOMAIN Default -> Values(a)], help : BOOLEAN]

(* ... and how far it has come: a field has the value of the last setting  *)
(* before the word at which the loop is.                                   *)
FieldIs(a, p, f) ==
    \/ (\A j \in Sets(a, f) : ~(j < p.i)) /\ p.config[f] = Default[f]
    \/ \E j \in Sets(a, f) : /\ j < p.i
                             /\ \A m \in Sets(a, f) : m < p.i => m <= j
                             /\ p.config[f] = ValueAt(a, j)

Reached(a, p) ==
    /\ p.i <= Len(a) => p.i \in Names(a)
    /\ p.help => p.i \in Names(a) /\ a[p.i] \in Help
    /\ ~p.help => \A j \in Names(a) : j < p.i => a[j] \notin Help
    /\ \A f \in DOMAIN Default : FieldIs(a, p, f)

(* The four ways of a turn.                                                *)
LEMMA TurnIs ==
    ASSUME NEW a \in Seq(STRING), NEW p \in ParseState(a), p.i <= Len(a)
    PROVE  /\ a[p.i] \in Help => CommandLineOf!Turn(a, p) = [p EXCEPT !.help = TRUE]
           /\ a[p.i] \in Option /\ p.i < Len(a) =>
                CommandLineOf!Turn(a, p) =
                   [i |-> p.i + 2,
                    config |-> [p.config EXCEPT ![FieldOf(a[p.i])] = OptionValue(a[p.i], a[p.i + 1])],
                    help |-> p.help]
           /\ a[p.i] \in Switch =>
                CommandLineOf!Turn(a, p) =
                   [i |-> p.i + 1,
                    config |-> [p.config EXCEPT ![FieldOf(a[p.i])] = OptionValue(a[p.i], "")],
                    help |-> p.help]
           /\ a[p.i] \notin Help \cup Switch /\ ~(a[p.i] \in Option /\ p.i < Len(a)) =>
                CommandLineOf!Turn(a, p) = [p EXCEPT !.i = p.i + 1]
  <1>1. Help \cap Option = {} /\ Help \cap Switch = {} /\ Switch \cap Option = {}
    BY DEF Help, Option, Switch, OptionField
  <1>2. CASE a[p.i] \in Help
    <2>1. CommandLineOf!Turn(a, p) = [p EXCEPT !.help = TRUE]
      BY <1>1, <1>2 DEF CommandLineOf!Turn, Help, Option, Switch
    <2> QED
      BY <1>1, <1>2, <2>1
  <1>3. CASE a[p.i] \in Option /\ p.i < Len(a)
    <2>1. CommandLineOf!Turn(a, p) =
                   [i |-> p.i + 2,
                    config |-> [p.config EXCEPT ![FieldOf(a[p.i])] = OptionValue(a[p.i], a[p.i + 1])],
                    help |-> p.help]
      BY <1>1, <1>3 DEF CommandLineOf!Turn, Help, Option, Switch, ParseState
    <2> QED
      BY <1>1, <1>3, <2>1
  <1>4. CASE a[p.i] \in Switch
    <2>1. CommandLineOf!Turn(a, p) =
                   [i |-> p.i + 1,
                    config |-> [p.config EXCEPT ![FieldOf(a[p.i])] = OptionValue(a[p.i], "")],
                    help |-> p.help]
      BY <1>1, <1>4 DEF CommandLineOf!Turn, Help, Option, Switch, ParseState
    <2> QED
      BY <1>1, <1>4, <2>1
  <1>5. CASE a[p.i] \notin Help \cup Switch /\ ~(a[p.i] \in Option /\ p.i < Len(a))
    <2>1. CommandLineOf!Turn(a, p) = [p EXCEPT !.i = p.i + 1]
      BY <1>1, <1>5 DEF CommandLineOf!Turn, Help, Option, Switch
    <2> QED
      BY <1>5, <2>1
  <1> QED
    BY <1>2, <1>3, <1>4, <1>5

(* A turn that sets a field with the value of the word at i and goes to    *)
(* the next word that is not a value.                                      *)
LEMMA SettingStep ==
    ASSUME NEW a \in Seq(STRING), NEW p \in ParseState(a), Reached(a, p), ~p.help, p.i <= Len(a),
           NEW q \in ParseState(a), q.i > p.i, ~q.help, a[p.i] \notin Help,
           q.i <= Len(a) => q.i \in Names(a),
           \A j \in Names(a) : j < q.i => j <= p.i,
           q.config = [p.config EXCEPT ![FieldOf(a[p.i])] = ValueAt(a, p.i)],
           p.i \in Sets(a, FieldOf(a[p.i]))
    PROVE  Reached(a, q)
  <1>1. PICK i \in Nat, k \in Nat : i = p.i /\ k = q.i /\ i < k
    BY DEF ParseState
  <1>2. Names(a) \subseteq Nat
    BY NamesAre
  <1>3. ASSUME NEW f \in DOMAIN Default
        PROVE  FieldIs(a, q, f)
    <2>1. Sets(a, f) \subseteq Names(a)
      BY SetsAre
    <2>2. CASE f = FieldOf(a[i])
      <3>1. q.config[f] = ValueAt(a, i)
        BY <1>1, <2>2 DEF ParseState
      <3>2. i \in Sets(a, f) /\ \A m \in Sets(a, f) : m < k => m <= i
        BY <1>1, <2>1, <2>2
      <3> QED
        BY <1>1, <3>1, <3>2 DEF FieldIs
    <2>3. CASE f # FieldOf(a[i])
      <3>1. q.config[f] = p.config[f]
        BY <1>1, <2>3 DEF ParseState
      <3>2. i \notin Sets(a, f)
        BY <2>3, SetsAre
      <3>3. \A m \in Sets(a, f) : m < k <=> m < i
        BY <1>1, <1>2, <2>1, <3>2
      <3>4. FieldIs(a, p, f)
        BY DEF Reached
      <3> QED
        BY <1>1, <3>1, <3>3, <3>4 DEF FieldIs
    <2> QED
      BY <2>2, <2>3
  <1>4. \A j \in Names(a) : j < k => a[j] \notin Help
    <2>1. ASSUME NEW j \in Names(a), j < k
          PROVE  j < i \/ j = i
      BY <1>1, <1>2, <2>1
    <2> QED
      BY <1>1, <2>1 DEF Reached
  <1> QED
    BY <1>1, <1>3, <1>4 DEF Reached

(* A turn that sets nothing.                                               *)
LEMMA SkippingStep ==
    ASSUME NEW a \in Seq(STRING), NEW p \in ParseState(a), Reached(a, p), ~p.help, p.i <= Len(a),
           NEW q \in ParseState(a), q.i = p.i + 1, ~q.help, a[p.i] \notin Help,
           q.i <= Len(a) => q.i \in Names(a),
           q.config = p.config, \A f : p.i \notin Sets(a, f)
    PROVE  Reached(a, q)
  <1>1. PICK i \in Nat, k \in Nat : i = p.i /\ k = q.i /\ k = i + 1
    BY DEF ParseState
  <1>2. Names(a) \subseteq Nat
    BY NamesAre
  <1>3. ASSUME NEW f \in DOMAIN Default
        PROVE  FieldIs(a, q, f)
    <2>1. Sets(a, f) \subseteq Names(a)
      BY SetsAre
    <2>2. \A m \in Sets(a, f) : m < k <=> m < i
      BY <1>1, <1>2, <2>1
    <2>3. FieldIs(a, p, f)
      BY DEF Reached
    <2> QED
      BY <1>1, <2>2, <2>3 DEF FieldIs
  <1>4. \A j \in Names(a) : j < k => a[j] \notin Help
    <2>1. ASSUME NEW j \in Names(a), j < k
          PROVE  j < i \/ j = i
      BY <1>1, <1>2, <2>1
    <2> QED
      BY <1>1, <2>1 DEF Reached
  <1> QED
    BY <1>1, <1>3, <1>4 DEF Reached

(* An option's field is one of the configuration.                          *)
LEMMA FieldsExist ==
    ASSUME NEW o \in Switch \cup Option
    PROVE  FieldOf(o) \in DOMAIN Default /\ o \in DOMAIN OptionField
  BY DEF FieldOf, OptionField, Default, Switch, Option

LEMMA ValuesHave ==
    ASSUME NEW a
    PROVE  /\ \A f \in DOMAIN Default : Default[f] \in Values(a)
           /\ \A o \in Switch \cup Option : OptionValue(o, "") \in Values(a)
           /\ \A o \in Switch \cup Option, j \in DOMAIN a : OptionValue(o, a[j]) \in Values(a)
  <1>1. ASSUME NEW o \in Switch \cup Option, NEW w \in {a[j] : j \in DOMAIN a} \cup {""}
        PROVE  OptionValue(o, w) \in Values(a)
    <2>1. o \in DOMAIN OptionField
      BY FieldsExist
    <2>2. OptionValue(o, w) \in {OptionValue(o, v) : v \in {a[j] : j \in DOMAIN a} \cup {""}}
      BY ZenonT(60)
    <2> DEFINE Given(x) == {OptionValue(x, v) : v \in {a[j] : j \in DOMAIN a} \cup {""}}
    <2>3. Values(a) = {Default[f] : f \in DOMAIN Default} \cup UNION {Given(x) : x \in DOMAIN OptionField}
      BY ZenonT(60) DEF Values
    <2>4. OptionValue(o, w) \in Given(o)
      BY <2>2
    <2> HIDE DEF Given
    <2> QED
      BY <2>1, <2>3, <2>4
  <1>2. \A f \in DOMAIN Default : Default[f] \in Values(a)
    BY ZenonT(60) DEF Values
  <1> QED
    BY <1>1, <1>2, ZenonT(60)

LEMMA LoopReaches ==
    ASSUME NEW a \in Seq(STRING), NEW p \in ParseState(a), Reached(a, p)
    PROVE  LET q == CommandLineOf!Loop(a, p) IN
           /\ q \in ParseState(a) /\ Reached(a, q)
           /\ q.help \/ q.i > p.i \/ q.i > Len(a)
  <1> DEFINE q == CommandLineOf!Loop(a, p)
  <1>1. PICK n \in Nat, i \in Nat : n = Len(a) /\ i = p.i /\ i \in 1..(n + 1) /\ DOMAIN a = 1..n
    BY DEF ParseState
  <1>2. Help \cap Option = {} /\ Help \cap Switch = {} /\ Switch \cap Option = {}
    BY DEF Help, Option, Switch, OptionField
  <1>3. CASE p.help \/ p.i > Len(a)
    BY <1>3 DEF CommandLineOf!Loop
  <1>4. CASE ~p.help /\ ~(p.i > Len(a))
    <2>1. i \in 1..n /\ i <= n
      BY <1>1, <1>4
    <2>2. q = CommandLineOf!Turn(a, p)
      BY <1>4 DEF CommandLineOf!Loop
    <2>3. i \in Names(a) /\ ~p.help
      BY <1>1, <1>4, <2>1 DEF Reached
    <2>4. p.config \in [DOMAIN Default -> Values(a)]
      BY DEF ParseState
    <2> HIDE DEF q
    <2>5. CASE a[i] \in Help
      <3>1. q = [p EXCEPT !.help = TRUE]
        BY <1>1, <2>1, <2>2, <2>5, TurnIs
      <3>2. q \in ParseState(a) /\ q.help /\ q.i = i /\ q.config = p.config
        BY <1>1, <3>1 DEF ParseState
      <3>3. \A f \in DOMAIN Default : FieldIs(a, q, f)
        BY <1>1, <3>2 DEF Reached, FieldIs
      <3> QED
        BY <2>3, <2>5, <3>2, <3>3 DEF Reached, q
    <2>6. CASE a[i] \in Option /\ i < n
      <3>1. q = [i |-> i + 2,
                 config |-> [p.config EXCEPT ![FieldOf(a[i])] = OptionValue(a[i], a[i + 1])],
                 help |-> p.help]
        BY <1>1, <2>1, <2>2, <2>6, TurnIs
      <3>2. ValueAt(a, i) = OptionValue(a[i], a[i + 1]) /\ ValueAt(a, i) \in Values(a)
        <4>1. i + 1 \in DOMAIN a
          BY <1>1, <2>6
        <4> QED
          BY <2>6, <4>1, ValuesHave DEF ValueAt
      <3>3. q \in ParseState(a) /\ q.i = i + 2 /\ ~q.help
            /\ q.config = [p.config EXCEPT ![FieldOf(a[i])] = ValueAt(a, i)]
        <4>1. i + 2 \in 1..(Len(a) + 1)
          BY <1>1, <2>6
        <4>2. [p.config EXCEPT ![FieldOf(a[i])] = ValueAt(a, i)] \in [DOMAIN Default -> Values(a)]
          BY <2>4, <3>2
        <4> QED
          BY <2>3, <3>1, <3>2, <4>1, <4>2 DEF ParseState
      <3>4. i + 1 \notin Names(a)
        <4>1. i + 1 \in 1..Len(a) /\ i + 1 > 1 /\ (i + 1) - 1 = i
          BY <1>1, <2>6
        <4> QED
          BY <2>3, <2>6, <4>1, NamesAre
      <3>5. i + 2 <= Len(a) => i + 2 \in Names(a)
        <4>1. i + 2 <= Len(a) => i + 2 \in 1..Len(a) /\ (i + 2) - 1 = i + 1
          BY <1>1
        <4> QED
          BY <3>4, <4>1, NamesAre
      <3>6. \A j \in Names(a) : j < i + 2 => j <= i
        BY <1>1, <3>4, NamesAre
      <3>7. i \in Sets(a, FieldOf(a[i]))
        BY <1>1, <2>3, <2>6, SetsAre
      <3>8. a[i] \notin Help
        BY <1>2, <2>6
      <3>9. q.i > p.i
        BY <1>1, <3>3
      <3>10. Reached(a, q)
        BY <1>1, <2>1, <2>3, <3>3, <3>5, <3>6, <3>7, <3>8, <3>9, SettingStep
      <3> QED
        BY <3>3, <3>9, <3>10 DEF q
    <2>7. a[i] \notin Option => (i + 1 <= Len(a) => i + 1 \in Names(a))
      <3>1. i + 1 <= Len(a) => i + 1 \in 1..Len(a) /\ (i + 1) - 1 = i
        BY <1>1
      <3> QED
        BY <3>1, NamesAre
    <2>8. CASE a[i] \in Switch
      <3>1. q = [i |-> i + 1,
                 config |-> [p.config EXCEPT ![FieldOf(a[i])] = OptionValue(a[i], "")],
                 help |-> p.help]
        BY <1>1, <2>1, <2>2, <2>8, TurnIs
      <3>2. ValueAt(a, i) = OptionValue(a[i], "") /\ ValueAt(a, i) \in Values(a)
        BY <1>2, <2>8, ValuesHave DEF ValueAt
      <3>3. q \in ParseState(a) /\ q.i = i + 1 /\ ~q.help
            /\ q.config = [p.config EXCEPT ![FieldOf(a[i])] = ValueAt(a, i)]
        <4>1. i + 1 \in 1..(Len(a) + 1)
          BY <1>1, <2>1
        <4>2. [p.config EXCEPT ![FieldOf(a[i])] = ValueAt(a, i)] \in [DOMAIN Default -> Values(a)]
          BY <2>4, <3>2
        <4> QED
          BY <2>3, <3>1, <3>2, <4>1, <4>2 DEF ParseState
      <3>4. \A j \in Names(a) : j < i + 1 => j <= i
        BY <1>1, NamesAre
      <3>5. i \in Sets(a, FieldOf(a[i]))
        BY <1>2, <2>3, <2>8, SetsAre
      <3>6. a[i] \notin Help \cup Option
        BY <1>2, <2>8
      <3>7. q.i > p.i
        BY <1>1, <3>3
      <3>8. Reached(a, q)
        BY <1>1, <2>1, <2>3, <2>7, <3>3, <3>4, <3>5, <3>6, <3>7, SettingStep
      <3> QED
        BY <3>3, <3>7, <3>8 DEF q
    <2>9. CASE a[i] \notin Help \cup Switch /\ ~(a[i] \in Option /\ i < n)
      <3>1. q = [p EXCEPT !.i = i + 1]
        BY <1>1, <2>1, <2>2, <2>9, TurnIs
      <3>2. i + 1 \in 1..(Len(a) + 1)
        BY <1>1, <2>1
      <3>3. q \in ParseState(a) /\ q.i = i + 1 /\ ~q.help /\ q.config = p.config
        BY <2>3, <3>1, <3>2 DEF ParseState
      <3>4. \A f : i \notin Sets(a, f)
        BY <1>1, <2>9, SetsAre
      <3>5. q.i <= Len(a) => q.i \in Names(a)
        <4>1. q.i <= Len(a) => i < n
          BY <1>1, <3>3
        <4> QED
          BY <2>7, <2>9, <3>3, <4>1
      <3>6. q.i > p.i /\ q.i = p.i + 1
        BY <1>1, <3>3
      <3>7. Reached(a, q)
        BY <1>1, <2>1, <2>3, <2>9, <3>3, <3>4, <3>5, <3>6, SkippingStep
      <3> QED
        BY <3>3, <3>6, <3>7 DEF q
    <2> QED
      BY <2>5, <2>6, <2>8, <2>9
  <1> QED
    BY <1>3, <1>4

LEMMA StartReached ==
    ASSUME NEW a \in Seq(STRING)
    PROVE  LET p == CommandLineOf!Start(Default) IN
           p \in ParseState(a) /\ Reached(a, p) /\ p.i = 1 /\ ~p.help
  <1> DEFINE p == CommandLineOf!Start(Default)
  <1>1. PICK n \in Nat : n = Len(a)
    OBVIOUS
  <1>2. p = [i |-> 1, config |-> Default, help |-> FALSE]
    BY DEF CommandLineOf!Start
  <1> HIDE DEF p
  <1>3. Default \in [DOMAIN Default -> Values(a)]
    <2>1. Default = [f \in DOMAIN Default |-> Default[f]]
      BY DEF Default
    <2> QED
      BY <2>1, ValuesHave
  <1>4. p \in ParseState(a)
    <2>1. 1 \in 1..(Len(a) + 1) /\ FALSE \in BOOLEAN
      BY <1>1
    <2> QED
      BY <1>2, <1>3, <2>1, ZenonT(60) DEF ParseState
  <1>5. p.i = 1 /\ ~p.help /\ p.config = Default
    BY <1>2
  <1>6. \A j \in Names(a) : ~(j < 1)
    BY NamesAre
  <1>7. \A f \in DOMAIN Default : FieldIs(a, p, f)
    BY <1>5, <1>6, SetsAre DEF FieldIs
  <1>8. 1 <= Len(a) => 1 \in Names(a)
    <2>1. 1 <= Len(a) => 1 \in 1..Len(a) /\ ~(1 > 1)
      BY <1>1
    <2> QED
      BY <2>1, NamesAre
  <1> QED
    BY <1>4, <1>5, <1>6, <1>7, <1>8 DEF Reached, p

(* parse_args comes to the end of the line or to --help.                   *)
LEMMA ParseReaches ==
    ASSUME NEW a \in Seq(STRING)
    PROVE  LET p == CommandLineOf!Parse(a, Default) IN
           p \in ParseState(a) /\ Reached(a, p) /\ (p.help \/ p.i > Len(a))
  <1> DEFINE Body(f) == [k \in 0..Len(a) |-> IF k = 0 THEN CommandLineOf!Start(Default)
                                            ELSE CommandLineOf!Loop(a, f[k - 1])]
  <1>1. PICK n \in Nat : n = Len(a)
    OBVIOUS
  <1> DEFINE S == {p \in ParseState(a) : Reached(a, p)}
             c == CommandLineOf!Start(Default)
             g == [k \in 1..n |-> [p \in S |-> CommandLineOf!Loop(a, p)]]
  <1>2. c \in S /\ g \in [1..n -> [S -> S]]
    BY StartReached, LoopReaches
  <1> HIDE DEF S, c, g
  <1>3. PICK f \in [0..n -> S] : Stepwise(f, n, c, g)
    BY <1>2, StepwiseExists
  <1>4. f = Body(f)
    <2>1. ASSUME NEW k \in 0..n
          PROVE  f[k] = IF k = 0 THEN c ELSE CommandLineOf!Loop(a, f[k - 1])
      <3>1. CASE k # 0
        <4>1. k \in 1..n /\ f[k - 1] \in S
          BY <3>1
        <4>2. f[k] = g[k][f[k - 1]]
          BY <1>3, <4>1 DEF Stepwise
        <4> QED
          BY <3>1, <4>1, <4>2 DEF g
      <3> QED
        BY <1>3, <3>1 DEF Stepwise
    <2> QED
      BY <1>1, <2>1 DEF c
  <1> DEFINE h == CHOOSE h : h = Body(h)
  <1>5. h = Body(h) /\ CommandLineOf!Parse(a, Default) = h[n]
    BY <1>1, <1>4 DEF CommandLineOf!Parse
  <1> HIDE DEF h
  <1>6. h[0] = CommandLineOf!Start(Default) /\ \A k \in 1..n : h[k] = CommandLineOf!Loop(a, h[k - 1])
    <2>1. \A k \in 0..n : h[k] = IF k = 0 THEN CommandLineOf!Start(Default) ELSE CommandLineOf!Loop(a, h[k - 1])
      BY <1>1, <1>5, ZenonT(60)
    <2> QED
      BY <2>1
  <1> DEFINE Far(k) == h[k] \in ParseState(a) /\ Reached(a, h[k]) /\ (h[k].help \/ h[k].i > k)
             T == {k \in 0..n : Far(k)}
  <1>7. 0 \in T /\ \A k \in 0..(n - 1) : k \in T => k + 1 \in T
    <2>1. Far(0)
      BY <1>6, StartReached
    <2>2. ASSUME NEW k \in 0..(n - 1), Far(k)
          PROVE  Far(k + 1)
      <3>1. k + 1 \in 1..n /\ (k + 1) - 1 = k
        OBVIOUS
      <3>2. h[k + 1] = CommandLineOf!Loop(a, h[k])
        BY <1>6, <3>1
      <3>3. /\ h[k + 1] \in ParseState(a) /\ Reached(a, h[k + 1])
            /\ h[k + 1].help \/ h[k + 1].i > h[k].i \/ h[k + 1].i > Len(a)
        BY <2>2, <3>2, LoopReaches
      <3>4. h[k].help => h[k + 1].help
        BY <3>2 DEF CommandLineOf!Loop
      <3>5. PICK x \in Nat, y \in Nat : x = h[k].i /\ y = h[k + 1].i
        <4>1. \A z \in ParseState(a) : z.i \in Nat
          BY <1>1 DEF ParseState
        <4>2. h[k].i \in Nat /\ h[k + 1].i \in Nat
          BY <2>2, <3>3, <4>1, ZenonT(60)
        <4> QED
          BY <4>2, ZenonT(60)
      <3>6. h[k + 1].help \/ y > k + 1
        BY <1>1, <2>2, <3>3, <3>4, <3>5
      <3> QED
        BY <3>3, <3>5, <3>6
    <2> HIDE DEF Far
    <2> QED
      BY <2>1, <2>2
  <1> HIDE DEF T
  <1>8. \A k \in 0..n : k \in T
    BY <1>7, UpTo, ZenonT(60)
  <1>9. n \in 0..n
    OBVIOUS
  <1>10. Far(n)
    BY <1>8, <1>9 DEF T
  <1> QED
    BY <1>1, <1>5, <1>10

(* The last setting of a field is the one the reference takes.             *)
LEMMA LastIsMax ==
    ASSUME NEW T, T \subseteq Nat, NEW j \in T, \A m \in T : m <= j
    PROVE  (CHOOSE x \in T : \A y \in T : x >= y) = j
  <1>1. \A x \in T : (\A y \in T : x >= y) => x = j
    OBVIOUS
  <1>2. \A y \in T : j >= y
    OBVIOUS
  <1> QED
    BY <1>1, <1>2

LEMMA ArgsDocumented ==
    ASSUME NEW a \in Seq(STRING)
    PROVE  CommandLineOf!AsDocumented(a, Default)
  <1>1. PICK p : p = CommandLineOf!Parse(a, Default)
    OBVIOUS
  <1>2. p \in ParseState(a) /\ Reached(a, p) /\ (p.help \/ p.i > Len(a))
    BY <1>1, ParseReaches
  <1>3. Names(a) \subseteq 1..Len(a) /\ Len(a) \in Nat
    BY NamesAre
  <1>4. ~p.help => \A j \in Names(a) : j < p.i
    BY <1>2, <1>3 DEF ParseState
  <1>5. p.help = (\E j \in Names(a) : a[j] \in Help)
    <2>1. p.help \in BOOLEAN
      BY <1>2 DEF ParseState
    <2> QED
      BY <1>2, <1>4, <2>1 DEF Reached
  <1>6. ASSUME ~p.help
        PROVE  p.config = CommandLineOf!Reference(a, Default)
    <2>1. ASSUME NEW f \in DOMAIN Default
          PROVE  p.config[f] = IF Sets(a, f) = {} THEN Default[f]
                               ELSE ValueAt(a, CHOOSE x \in Sets(a, f) : \A y \in Sets(a, f) : x >= y)
      <3>1. FieldIs(a, p, f)
        BY <1>2 DEF Reached
      <3>2. Sets(a, f) \subseteq Nat /\ \A j \in Sets(a, f) : j < p.i
        BY <1>3, <1>4, <1>6, SetsAre
      <3>3. CASE Sets(a, f) = {}
        BY <3>1, <3>3 DEF FieldIs
      <3>4. CASE Sets(a, f) # {}
        <4>1. PICK j \in Sets(a, f) : (\A m \in Sets(a, f) : m <= j) /\ p.config[f] = ValueAt(a, j)
          BY <3>1, <3>2, <3>4 DEF FieldIs
        <4>2. (CHOOSE x \in Sets(a, f) : \A y \in Sets(a, f) : x >= y) = j
          BY <3>2, <4>1, LastIsMax
        <4> QED
          BY <3>4, <4>1, <4>2
      <3> QED
        BY <3>3, <3>4
    <2>2. p.config = [f \in DOMAIN Default |-> p.config[f]]
      BY <1>2 DEF ParseState
    <2>3. CommandLineOf!Reference(a, Default) =
            [f \in DOMAIN Default |-> IF Sets(a, f) = {} THEN Default[f]
                               ELSE ValueAt(a, CHOOSE x \in Sets(a, f) : \A y \in Sets(a, f) : x >= y)]
      BY DEF CommandLineOf!Reference, Sets, ValueAt, Option, CommandLineOf!Max
    <2> QED
      BY <2>1, <2>2, <2>3
  <1> QED
    BY <1>1, <1>5, <1>6 DEF CommandLineOf!AsDocumented, Names, Help

(* parse_args sets what the help text says, for every command line: with   *)
(* any number of words, options repeated or without a value, and values    *)
(* that look like options.                                                 *)
THEOREM ArgumentsAsDocumented == Spec => []ArgsAsDocumented
  <1> DEFINE Inv == args \in Seq(STRING)
  <1>1. Init => Inv
    BY ServerAssumption DEF Init
  <1>2. Inv /\ [Next]_vars => Inv'
    <2>1. ASSUME Inv, Next
          PROVE  args' \in {args, <<>>}
      BY <2>1 DEF Next, MainStep, ParseArgs, CheckSystemLimits, DetectBackend, PinMain, NewReactor,
                  Start, OpenSocket, ParseHost, Bind, Listen, Spawn, SpawnEnds, CreateEpoll,
                  RegisterListener, SomeCallFails, ServeFails, CallFails, Goto, PinWorker,
                  WorkerIdles, Rests, vars
    <2>2. <<>> \in Seq(STRING)
      BY EmptySeq
    <2> QED
      BY <2>1, <2>2 DEF vars
  <1>3. Inv => ArgsAsDocumented
    BY ArgsDocumented DEF ArgsAsDocumented
  <1> QED
    BY <1>1, <1>2, <1>3, PTL DEF Spec
=============================================================================
