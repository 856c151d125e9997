--------------------------- MODULE IoUringProofs ---------------------------
(***************************************************************************)
(* Proofs about the io_uring backend (module IoUring), for any depth of    *)
(* the queue, any calls and any number of operations.                      *)
(***************************************************************************)
EXTENDS IoUring, Recursion, FiniteSetTheorems, SequenceTheorems

-----------------------------------------------------------------------------
(* Operators *)

(* The length of the queue is a number, of at least one entry.             *)
LEMMA SqEntriesType == SqEntries \in Nat \ {0}
  <1> DEFINE S == {2^k : k \in 0..QueueDepth}
             T == {n \in S : n >= QueueDepth}
  <1>1. S \subseteq Nat
    BY PowerAssumption
  <1>2. QueueDepth \in 0..QueueDepth
    BY IoUringAssumption
  <1>3. 2^QueueDepth \in T
    BY <1>2, PowerAssumption
  <1>4. T \subseteq Nat /\ T # {}
    BY <1>1, <1>3
  <1> HIDE DEF T
  <1>5. PICK m \in T : \A n \in T : m <= n
    BY <1>4, LeastNumber
  <1>6. /\ m \in S
        /\ m >= QueueDepth
        /\ \A k \in 0..QueueDepth : 2^k >= QueueDepth => m <= 2^k
    BY <1>5 DEF T
  <1>7. SqEntries \in S /\ SqEntries >= QueueDepth
    BY <1>6 DEF SqEntries
  <1> QED
    BY <1>7, <1>1, IoUringAssumption

(* What is left of a sequence without its first n elements.                *)
LEMMA AfterFirst ==
    ASSUME NEW S, NEW q \in Seq(S), NEW n \in 0..Len(q)
    PROVE  LET s == SubSeq(q, n + 1, Len(q)) IN
           /\ s \in Seq(S)
           /\ Len(s) = Len(q) - n
           /\ \A k \in 1..(Len(q) - n) : n + k \in 1..Len(q) /\ s[k] = q[n + k]
  <1>1. PICK m \in Int, l \in Int : m = n + 1 /\ l = Len(q)
    BY LenProperties
  <1>2. \A i \in m..l : q[i] \in S
    BY <1>1, ElementOfSeq
  <1>3. /\ SubSeq(q, m, l) \in Seq(S)
        /\ Len(SubSeq(q, m, l)) = IF m <= l THEN l - m + 1 ELSE 0
        /\ \A i \in 1..(l - m + 1) : SubSeq(q, m, l)[i] = q[m + i - 1]
    BY <1>2, SubSeqProperties
  <1>4. Len(q) \in Nat
    BY LenProperties
  <1>5. Len(SubSeq(q, m, l)) = Len(q) - n
    BY <1>1, <1>3, <1>4
  <1>6. ASSUME NEW k \in 1..(Len(q) - n)
        PROVE  n + k \in 1..Len(q) /\ SubSeq(q, m, l)[k] = q[n + k]
    <2>1. k \in 1..(l - m + 1) /\ m + k - 1 = n + k /\ n + k \in 1..Len(q)
      BY <1>1, <1>4
    <2> QED
      BY <2>1, <1>3
  <1> QED
    BY <1>1, <1>3, <1>5, <1>6

(* `len as u32` asks for no more than the buffer holds.                    *)
LEMMA AsU32Bounds ==
    ASSUME NEW len \in Nat
    PROVE  AsU32(len) \in 0..(2^Width - 1) /\ AsU32(len) <= len
  <1>1. PICK m \in Nat \ {0} : m = 2^Width
    BY PowerAssumption
  <1>2. len % m \in 0..(m - 1) /\ len % m <= len
    OBVIOUS
  <1> QED
    BY <1>1, <1>2 DEF AsU32

(* An entry is typed, and fits its call.                                   *)
LEMMA EntryFits ==
    ASSUME NEW i \in Op, NEW call \in Call
    PROVE  /\ Entry(i, call) \in EntryType
           /\ Entry(i, call).id = i
           /\ Entry(i, call).user_data = call.fd
           /\ Entry(i, call).len <= call.len
  <1>1. call \in [op : {"read", "write", "accept", "splice"}, fd : Fd, in_fd : Fd, len : Nat]
    BY IoUringAssumption
  <1>2. AsU32(call.len) \in 0..(2^Width - 1) /\ AsU32(call.len) <= call.len
    BY <1>1, AsU32Bounds
  <1> QED
    BY <1>1, <1>2 DEF Entry, EntryType, UserData

-----------------------------------------------------------------------------
(* io_uring_enter *)

(* It takes entries off the front of q, or fails.                          *)
Entered(q) == (\E n \in 0..Len(q) : Enter(q, n)) \/ EnterFails(q)

Holds(q, i) == \E k \in DOMAIN q : q[k].id = i

(* The queue q and the kernel have no operation twice.                     *)
Distinct(q) ==
    /\ \A k, l \in DOMAIN q : q[k].id = q[l].id => k = l
    /\ \A e, f \in kernel : e.id = f.id => e = f
    /\ \A i \in Op : ~(Holds(q, i) /\ Working(i))

(* Whatever part of the queue the kernel takes, no operation is lost or    *)
(* doubled, and no entry is altered.                                       *)
LEMMA EnterConserves ==
    ASSUME NEW q \in Seq(EntryType), kernel \subseteq EntryType, faults \in 0..MaxFaults,
           Distinct(q), Entered(q)
    PROVE  /\ sq' \in Seq(EntryType)
           /\ Len(sq') <= Len(q)
           /\ kernel' \subseteq EntryType
           /\ faults' \in 0..MaxFaults
           /\ \A k, l \in DOMAIN sq' : sq'[k].id = sq'[l].id => k = l
           /\ \A e, f \in kernel' : e.id = f.id => e = f
           /\ \A i \in Op : ~(Queued(i)' /\ Working(i)')
           /\ \A i \in Op : Live(i)' <=> Holds(q, i) \/ Working(i)
           /\ \A k \in DOMAIN sq' : \E l \in DOMAIN q : sq'[k] = q[l]
           /\ \A e \in kernel' : e \in kernel \/ \E l \in DOMAIN q : e = q[l]
  <1>0. /\ Len(q) \in Nat
        /\ DOMAIN q = 1..Len(q)
        /\ \A k \in 1..Len(q) : q[k] \in EntryType /\ q[k].id \in Op
    <2>1. \A k \in 1..Len(q) : q[k] \in EntryType
      BY ElementOfSeq
    <2>2. \A e \in EntryType : e.id \in Op
      BY DEF EntryType
    <2> QED
      BY <2>1, <2>2
  <1>1. CASE EnterFails(q)
    BY <1>1, <1>0, IoUringAssumption DEF EnterFails, Distinct, Holds, Queued, Working, Live
  <1>2. ASSUME NEW n \in 0..Len(q), Enter(q, n)
        PROVE  /\ sq' \in Seq(EntryType)
               /\ Len(sq') <= Len(q)
               /\ kernel' \subseteq EntryType
               /\ faults' \in 0..MaxFaults
               /\ \A k, l \in DOMAIN sq' : sq'[k].id = sq'[l].id => k = l
               /\ \A e, f \in kernel' : e.id = f.id => e = f
               /\ \A i \in Op : ~(Queued(i)' /\ Working(i)')
               /\ \A i \in Op : Live(i)' <=> Holds(q, i) \/ Working(i)
               /\ \A k \in DOMAIN sq' : \E l \in DOMAIN q : sq'[k] = q[l]
               /\ \A e \in kernel' : e \in kernel \/ \E l \in DOMAIN q : e = q[l]
    <2>1. sq' = SubSeq(q, n + 1, Len(q)) /\ kernel' = kernel \cup {q[k] : k \in 1..n}
      BY <1>2 DEF Enter
    <2>2. /\ sq' \in Seq(EntryType)
          /\ Len(sq') = Len(q) - n
          /\ DOMAIN sq' = 1..(Len(q) - n)
          /\ \A k \in 1..(Len(q) - n) : n + k \in 1..Len(q) /\ sq'[k] = q[n + k]
      <3>1. /\ sq' \in Seq(EntryType)
            /\ Len(sq') = Len(q) - n
            /\ \A k \in 1..(Len(q) - n) : n + k \in 1..Len(q) /\ sq'[k] = q[n + k]
        BY <2>1, AfterFirst, ZenonT(60)
      <3>2. DOMAIN sq' = 1..Len(sq')
        BY <3>1
      <3> QED
        BY <3>1, <3>2
    <2>3. \A e \in kernel' : e \in kernel \/ \E k \in 1..n : e = q[k]
      BY <2>1
    <2>4. \A k \in 1..n : k \in 1..Len(q) /\ q[k] \in kernel'
      BY <2>1, <1>0
    <2>5. \A e \in kernel : e \in kernel' /\ e.id \in Op
      BY <2>1 DEF EntryType
    <2>6. faults' \in 0..MaxFaults
      BY <1>2, IoUringAssumption DEF Enter
    <2>7. kernel' \subseteq EntryType
      BY <2>3, <2>4, <1>0
    <2>8. \A k, l \in DOMAIN sq' : sq'[k].id = sq'[l].id => k = l
      <3> SUFFICES ASSUME NEW k \in 1..(Len(q) - n), NEW l \in 1..(Len(q) - n),
                          sq'[k].id = sq'[l].id
                   PROVE  k = l
        BY <2>2
      <3>0. /\ n + k \in DOMAIN q /\ sq'[k] = q[n + k]
            /\ n + l \in DOMAIN q /\ sq'[l] = q[n + l]
        BY <2>2, <1>0
      <3>1. n + k = n + l
        BY <3>0 DEF Distinct
      <3> QED
        BY <3>1, <1>0
    <2>9. \A e, f \in kernel' : e.id = f.id => e = f
      BY <2>3, <2>4, <2>5, <1>0 DEF Distinct, Holds, Working
    <2>10. \A i \in Op : ~(Queued(i)' /\ Working(i)')
      <3> SUFFICES ASSUME NEW k \in 1..(Len(q) - n), NEW e \in kernel', sq'[k].id = e.id
                   PROVE  FALSE
        BY <2>2 DEF Queued, Working
      <3>1. q[n + k].id = e.id /\ n + k \in 1..Len(q) /\ q[n + k].id \in Op
        BY <2>2, <1>0
      <3>2. CASE e \in kernel
        BY <3>1, <3>2, <1>0 DEF Distinct, Holds, Working
      <3>3. ASSUME NEW l \in 1..n, e = q[l]
            PROVE  FALSE
        <4>1. l = n + k
          BY <3>1, <3>3, <2>4, <1>0 DEF Distinct
        <4> QED
          BY <4>1, <1>0
      <3> QED
        BY <3>2, <3>3, <2>3
    <2>11. \A i \in Op : Live(i)' <=> Holds(q, i) \/ Working(i)
      <3> TAKE i \in Op
      <3>1. Queued(i)' => Holds(q, i)
        BY <2>2, <1>0 DEF Queued, Holds
      <3>2. Working(i)' => Holds(q, i) \/ Working(i)
        BY <2>3, <2>4, <1>0 DEF Working, Holds
      <3>3. Working(i) => Working(i)'
        BY <2>5 DEF Working
      <3>4. ASSUME NEW l \in 1..Len(q), q[l].id = i
            PROVE  Queued(i)' \/ Working(i)'
        <4>1. CASE l <= n
          BY <4>1, <3>4, <2>4, <1>0 DEF Working
        <4>2. CASE l > n
          <5>1. l - n \in 1..(Len(q) - n) /\ n + (l - n) = l
            BY <4>2, <1>0
          <5>2. sq'[l - n] = q[l]
            BY <5>1, <2>2
          <5> QED
            BY <5>1, <5>2, <3>4, <2>2 DEF Queued
        <4> QED
          BY <4>1, <4>2, <1>0
      <3> QED
        BY <3>1, <3>2, <3>3, <3>4, <1>0 DEF Live, Holds
    <2>12. \A k \in DOMAIN sq' : \E l \in DOMAIN q : sq'[k] = q[l]
      BY <2>2, <1>0
    <2>13. \A e \in kernel' : e \in kernel \/ \E l \in DOMAIN q : e = q[l]
      BY <2>3, <2>4, <1>0
    <2>14. Len(sq') <= Len(q)
      BY <2>2, <1>0
    <2> QED
      BY <2>2, <2>6, <2>7, <2>8, <2>9, <2>10, <2>11, <2>12, <2>13, <2>14
  <1> QED
    BY <1>1, <1>2 DEF Entered

-----------------------------------------------------------------------------
(* The steps *)

LEMMA InitRing == Init => RingInvariant
  <1> SUFFICES ASSUME Init
               PROVE  RingInvariant
    OBVIOUS
  <1>1. TypeOK
    <2>1. (CHOOSE c \in Call : TRUE) \in Call
      BY IoUringAssumption
    <2>2. /\ sq \in Seq(EntryType) /\ Len(sq) <= SqEntries
          /\ cq \in Seq(Completion) /\ Len(cq) <= CqEntries
      BY SqEntriesType DEF Init, CqEntries
    <2>3. asked \in [Op -> Call]
      BY <2>1 DEF Init
    <2>4. told \in [Op -> Told] /\ reports \in [Op -> Nat]
      BY DEF Init, Told
    <2>5. made \in 0..MaxOps /\ faults \in 0..MaxFaults
      BY IoUringAssumption DEF Init
    <2>6. pc \in {"idle", "waiting", "read"} /\ flushed \in BOOLEAN /\ kernel \subseteq EntryType
      BY DEF Init
    <2> QED
      BY <2>2, <2>3, <2>4, <2>5, <2>6 DEF TypeOK
  <1>2. \A i \in Op : ~Queued(i) /\ ~Working(i) /\ ~Completed(i)
    BY DEF Init, Queued, Working, Completed
  <1>3. OnePlace
    BY <1>2 DEF Init, OnePlace, Live
  <1>4. OneInFlight
    BY DEF Init, OneInFlight
  <1>5. Tagged
    BY DEF Init, Tagged
  <1>6. LentUntilRead
    BY <1>2 DEF LentUntilRead, Live
  <1> QED
    BY <1>1, <1>3, <1>4, <1>5, <1>6 DEF RingInvariant

(* A call that pushes nothing: batch_submit, or a wait.                    *)
LEMMA EnterKeepsRing ==
    ASSUME RingInvariant, Entered(sq), UNCHANGED <<cq, callVars, told, reports>>,
           pc' \in {"idle", "waiting", "read"}, flushed' \in BOOLEAN
    PROVE  RingInvariant'
  <1>0. TypeOK /\ OnePlace /\ OneInFlight /\ Tagged /\ LentUntilRead
    BY DEF RingInvariant
  <1>a. /\ cq' = cq /\ made' = made /\ asked' = asked /\ told' = told /\ reports' = reports
    BY DEF callVars
  <1>1. Distinct(sq)
    BY <1>0 DEF OnePlace, Distinct, Queued, Holds
  <1>2. /\ sq' \in Seq(EntryType)
        /\ Len(sq') <= Len(sq)
        /\ kernel' \subseteq EntryType
        /\ faults' \in 0..MaxFaults
        /\ \A k, l \in DOMAIN sq' : sq'[k].id = sq'[l].id => k = l
        /\ \A e, f \in kernel' : e.id = f.id => e = f
        /\ \A i \in Op : ~(Queued(i)' /\ Working(i)')
        /\ \A i \in Op : Live(i)' <=> Holds(sq, i) \/ Working(i)
        /\ \A k \in DOMAIN sq' : \E l \in DOMAIN sq : sq'[k] = sq[l]
        /\ \A e \in kernel' : e \in kernel \/ \E l \in DOMAIN sq : e = sq[l]
    BY <1>0, <1>1, EnterConserves DEF TypeOK
  <1>3. \A i \in Op : /\ Live(i)' <=> Live(i)
                      /\ Completed(i)' <=> Completed(i)
                      /\ Leftover(asked[i].fd)' <=> Leftover(asked[i].fd)
    BY <1>2, <1>a DEF Live, Queued, Holds, Completed, Leftover
  <1>4. TypeOK'
    <2>1. Len(sq') <= SqEntries
      BY <1>0, <1>2, SqEntriesType DEF TypeOK
    <2> QED
      BY <1>0, <1>2, <1>a, <2>1 DEF TypeOK
  <1>5. OnePlace'
    BY <1>0, <1>2, <1>3, <1>a DEF OnePlace
  <1>6. OneInFlight'
    BY <1>0, <1>a DEF OneInFlight
  <1>7. Tagged'
    BY <1>0, <1>2, <1>a DEF Tagged, Fits
  <1>8. LentUntilRead'
    BY <1>0, <1>3, <1>a DEF LentUntilRead
  <1> QED
    BY <1>4, <1>5, <1>6, <1>7, <1>8 DEF RingInvariant

(* A submit method that pushes its entry.                                  *)
LEMMA SubmitKeepsRing ==
    ASSUME RingInvariant, NEW call \in Call, NEW outcome \in {"ok", "err"},
           Starts(call, outcome), ~Full, Entered(Pushed(call))
    PROVE  RingInvariant'
  <1>0. TypeOK /\ OnePlace /\ OneInFlight /\ Tagged /\ LentUntilRead
    BY DEF RingInvariant
  <1>m. PICK m : m = made + 1
    OBVIOUS
  <1>q. PICK q : q = Append(sq, Entry(m, call))
    OBVIOUS
  <1>a. /\ cq' = cq /\ reports' = reports /\ pc' = pc /\ flushed' = flushed
        /\ made < MaxOps
        /\ made' = m
        /\ asked' = [asked EXCEPT ![m] = call]
        /\ told' = [told EXCEPT ![m] = outcome]
        /\ \A i \in Op : told[i] = "ok" => asked[i].fd # call.fd
    BY <1>m DEF Starts
  <1>b. m \in Op /\ made \in Nat /\ m > made
    BY <1>m, <1>0, <1>a, IoUringAssumption DEF TypeOK, Op
  <1>c. /\ told[m] = "none" /\ ~Live(m) /\ ~Completed(m) /\ reports[m] = 0
    BY <1>0, <1>b DEF OnePlace
  <1>d. /\ Entry(m, call) \in EntryType /\ Entry(m, call).id = m
        /\ Entry(m, call).user_data = call.fd /\ Entry(m, call).len <= call.len
    BY <1>b, EntryFits
  <1>e. /\ q \in Seq(EntryType)
        /\ Len(q) = Len(sq) + 1
        /\ Len(sq) \in Nat
        /\ \A k \in 1..Len(sq) : q[k] = sq[k]
        /\ q[Len(sq) + 1] = Entry(m, call)
    BY <1>q, <1>0, <1>d, AppendProperties DEF TypeOK
  <1>f. /\ DOMAIN q = 1..(Len(sq) + 1) /\ DOMAIN sq = 1..Len(sq)
        /\ \A k \in DOMAIN q : k \in DOMAIN sq \/ k = Len(sq) + 1
        /\ \A k \in DOMAIN sq : k \in DOMAIN q
        /\ Len(sq) + 1 \in DOMAIN q
    BY <1>0, <1>e DEF TypeOK
  <1>g. \A k \in DOMAIN sq : sq[k] \in EntryType /\ sq[k].id \in Op /\ sq[k].id # m
    <2>1. \A k \in DOMAIN sq : sq[k] \in EntryType
      BY <1>0, <1>f, ElementOfSeq DEF TypeOK
    <2>2. \A k \in DOMAIN sq : sq[k].id # m
      BY <1>c DEF Live, Queued
    <2> QED
      BY <2>1, <2>2 DEF EntryType
  <1>h. \A e \in kernel : e.id \in Op /\ e.id # m
    BY <1>0, <1>c DEF TypeOK, EntryType, Live, Working
  <1>i. \A i \in Op : Holds(q, i) <=> Queued(i) \/ i = m
    <2>1. \A k \in DOMAIN sq : q[k] = sq[k]
      BY <1>e, <1>f
    <2> QED
      BY <2>1, <1>d, <1>e, <1>f DEF Holds, Queued
  <1>1. Distinct(q)
    <2>1. \A k, l \in DOMAIN q : q[k].id = q[l].id => k = l
      <3>1. \A k, l \in DOMAIN sq : q[k].id = q[l].id => k = l
        BY <1>0, <1>e, <1>f DEF OnePlace
      <3>2. \A k \in DOMAIN sq : q[k].id # q[Len(sq) + 1].id
        BY <1>d, <1>e, <1>f, <1>g
      <3> QED
        BY <3>1, <3>2, <1>f
    <2>2. \A i \in Op : ~(Holds(q, i) /\ Working(i))
      BY <1>0, <1>i, <1>h DEF OnePlace, Working
    <2> QED
      BY <2>1, <2>2, <1>0 DEF Distinct, OnePlace
  <1>2. /\ sq' \in Seq(EntryType)
        /\ Len(sq') <= Len(q)
        /\ kernel' \subseteq EntryType
        /\ faults' \in 0..MaxFaults
        /\ \A k, l \in DOMAIN sq' : sq'[k].id = sq'[l].id => k = l
        /\ \A e, f \in kernel' : e.id = f.id => e = f
        /\ \A i \in Op : ~(Queued(i)' /\ Working(i)')
        /\ \A i \in Op : Live(i)' <=> Holds(q, i) \/ Working(i)
        /\ \A k \in DOMAIN sq' : \E l \in DOMAIN q : sq'[k] = q[l]
        /\ \A e \in kernel' : e \in kernel \/ \E l \in DOMAIN q : e = q[l]
    <2>1. Entered(q)
      BY <1>q, <1>m DEF Pushed
    <2>2. kernel \subseteq EntryType /\ faults \in 0..MaxFaults
      BY <1>0 DEF TypeOK
    <2> QED
      BY <2>1, <2>2, <1>1, <1>e, EnterConserves
  <1>3. \A i \in Op : /\ Live(i)' <=> Live(i) \/ i = m
                      /\ Completed(i)' <=> Completed(i)
    BY <1>2, <1>i, <1>a DEF Live, Completed
  <1>4. /\ \A i \in Op : i # m => asked'[i] = asked[i] /\ told'[i] = told[i]
        /\ asked'[m] = call /\ told'[m] = outcome
    BY <1>0, <1>a, <1>b DEF TypeOK
  <1>5. TypeOK'
    <2>1. Len(sq') <= SqEntries
      <3>1. Len(sq) < SqEntries
        BY <1>0, <1>e, SqEntriesType DEF TypeOK, Full
      <3>2. Len(sq') \in Nat
        BY <1>2, LenProperties
      <3> QED
        BY <3>1, <3>2, <1>2, <1>e, SqEntriesType
    <2>2. made' \in 0..MaxOps
      BY <1>a, <1>b, IoUringAssumption DEF Op
    <2>3. asked' \in [Op -> Call] /\ told' \in [Op -> Told]
      BY <1>0, <1>a DEF TypeOK, Told
    <2> QED
      BY <1>0, <1>2, <1>a, <2>1, <2>2, <2>3 DEF TypeOK
  <1>6. OnePlace'
    <2>1. \A k, l \in DOMAIN cq' : cq'[k].id = cq'[l].id => k = l
      BY <1>0, <1>a DEF OnePlace
    <2>2. \A i \in Op :
            /\ Live(i)' => ~Completed(i)'
            /\ Live(i)' \/ Completed(i)' => reports'[i] = 0
            /\ reports'[i] \in {0, 1}
      BY <1>0, <1>3, <1>a, <1>c DEF OnePlace
    <2>3. \A i \in Op : told'[i] \in {"none", "refused"} <=> ~Live(i)' /\ ~Completed(i)' /\ reports'[i] = 0
      BY <1>0, <1>3, <1>4, <1>a, <1>c DEF OnePlace
    <2>4. \A i \in Op : i > made' => told'[i] = "none"
      <3> SUFFICES ASSUME NEW i \in Op, i > m
                   PROVE  told'[i] = "none"
        BY <1>a
      <3>1. i > made /\ i # m
        BY <1>b, <1>m DEF Op
      <3> QED
        BY <1>0, <3>1, <1>4 DEF OnePlace
    <2> QED
      BY <1>2, <2>1, <2>2, <2>3, <2>4 DEF OnePlace
  <1>7. OneInFlight'
    BY <1>0, <1>4, <1>a, <1>b DEF OneInFlight
  <1>8. Tagged'
    <2>1. \A e \in EntryType : e.id # m /\ Fits(e) => Fits(e)'
      BY <1>4 DEF Fits, EntryType
    <2>2. \A l \in DOMAIN q : Fits(q[l])'
      <3>1. \A l \in DOMAIN sq : Fits(q[l])'
        BY <1>0, <2>1, <1>e, <1>f, <1>g DEF Tagged
      <3>2. Fits(Entry(m, call))'
        BY <1>d, <1>4 DEF Fits
      <3> QED
        BY <3>1, <3>2, <1>e, <1>f
    <2>3. \A k \in DOMAIN sq' : Fits(sq[k])'
      BY <2>2, <1>2 DEF Fits
    <2>4. \A e \in kernel : Fits(e)'
      BY <1>0, <1>h, <2>1 DEF Tagged, TypeOK
    <2>5. \A e \in kernel' : Fits(e)'
      BY <2>2, <2>4, <1>2 DEF Fits
    <2>6. \A k \in DOMAIN cq : cq[k].id \in Op /\ cq[k].id # m
      <3>1. \A k \in DOMAIN cq : cq[k] \in Completion
        BY <1>0, ElementOfSeq DEF TypeOK
      <3> QED
        BY <3>1, <1>c DEF Completion, Completed
    <2>7. \A k \in DOMAIN cq' : /\ cq'[k].user_data = asked'[cq'[k].id].fd
                                /\ cq'[k].res <= asked'[cq'[k].id].len
      BY <1>0, <2>6, <1>4, <1>a DEF Tagged
    <2> QED
      BY <2>3, <2>5, <2>7 DEF Tagged
  <1>9. LentUntilRead'
    <2> SUFFICES ASSUME NEW i \in Op, Live(i)' \/ Completed(i)', ~Leftover(asked[i].fd)'
                 PROVE  told'[i] = "ok"
      BY DEF LentUntilRead
    <2>1. CASE i = m
      BY <2>1, <1>4, <1>b DEF Leftover
    <2>2. CASE i # m
      <3>1. ~Leftover(asked[i].fd)
        BY <2>2, <1>4, <1>b, <1>c DEF Leftover
      <3> QED
        BY <1>0, <2>2, <3>1, <1>3, <1>4 DEF LentUntilRead
    <2> QED
      BY <2>1, <2>2
  <1> QED
    BY <1>5, <1>6, <1>7, <1>8, <1>9 DEF RingInvariant

(* A submit method that finds the queue full leaves no trace.              *)
LEMMA RefusedKeepsRing ==
    ASSUME RingInvariant, NEW call \in Call, PushFails(call)
    PROVE  RingInvariant'
  <1>0. TypeOK /\ OnePlace /\ OneInFlight /\ Tagged /\ LentUntilRead
    BY DEF RingInvariant
  <1>m. PICK m : m = made + 1
    OBVIOUS
  <1>a. /\ cq' = cq /\ reports' = reports /\ pc' = pc /\ flushed' = flushed
        /\ sq' = sq /\ kernel' = kernel /\ faults' = faults
        /\ made < MaxOps
        /\ made' = m
        /\ asked' = [asked EXCEPT ![m] = call]
        /\ told' = [told EXCEPT ![m] = "refused"]
    BY <1>m DEF Starts, PushFails
  <1>b. m \in Op /\ made \in Nat /\ m > made
    BY <1>m, <1>0, <1>a, IoUringAssumption DEF TypeOK, Op
  <1>c. /\ told[m] = "none" /\ ~Live(m) /\ ~Completed(m) /\ reports[m] = 0
    BY <1>0, <1>b DEF OnePlace
  <1>d. \A i \in Op : /\ Queued(i)' <=> Queued(i)
                      /\ Working(i)' <=> Working(i)
                      /\ Live(i)' <=> Live(i)
                      /\ Completed(i)' <=> Completed(i)
    BY <1>a DEF Live, Queued, Working, Completed
  <1>e. /\ \A i \in Op : i # m => asked'[i] = asked[i] /\ told'[i] = told[i]
        /\ asked'[m] = call /\ told'[m] = "refused"
    BY <1>0, <1>a, <1>b DEF TypeOK
  <1>1. TypeOK'
    <2>1. made' \in 0..MaxOps
      BY <1>a, <1>b, IoUringAssumption DEF Op
    <2>2. asked' \in [Op -> Call] /\ told' \in [Op -> Told]
      BY <1>0, <1>a DEF TypeOK, Told
    <2> QED
      BY <1>0, <1>a, <2>1, <2>2 DEF TypeOK
  <1>2. OnePlace'
    <2>1. \A i \in Op : told'[i] \in {"none", "refused"} <=> ~Live(i)' /\ ~Completed(i)' /\ reports'[i] = 0
      BY <1>0, <1>a, <1>c, <1>d, <1>e DEF OnePlace
    <2>2. \A i \in Op : i > made' => told'[i] = "none"
      <3> SUFFICES ASSUME NEW i \in Op, i > m
                   PROVE  told'[i] = "none"
        BY <1>a
      <3>1. i > made /\ i # m
        BY <1>b, <1>m DEF Op
      <3> QED
        BY <1>0, <3>1, <1>e DEF OnePlace
    <2> QED
      BY <1>0, <2>1, <2>2, <1>a, <1>d DEF OnePlace
  <1>3. OneInFlight'
    BY <1>0, <1>e DEF OneInFlight
  <1>4. Tagged'
    <2>1. \A k \in DOMAIN sq : sq[k].id # m
      BY <1>c DEF Live, Queued
    <2>2. \A k \in DOMAIN sq : sq[k].id \in Op
      <3>1. \A k \in DOMAIN sq : sq[k] \in EntryType
        BY <1>0, ElementOfSeq DEF TypeOK
      <3> QED
        BY <3>1 DEF EntryType
    <2>3. \A e \in kernel : e.id \in Op /\ e.id # m
      BY <1>0, <1>c DEF TypeOK, EntryType, Live, Working
    <2>4. \A k \in DOMAIN cq : cq[k].id \in Op /\ cq[k].id # m
      <3>1. \A k \in DOMAIN cq : cq[k] \in Completion
        BY <1>0, ElementOfSeq DEF TypeOK
      <3> QED
        BY <3>1, <1>c DEF Completion, Completed
    <2> QED
      BY <1>0, <2>1, <2>2, <2>3, <2>4, <1>a, <1>e DEF Tagged, Fits
  <1>5. LentUntilRead'
    <2> SUFFICES ASSUME NEW i \in Op, Live(i)' \/ Completed(i)', ~Leftover(asked[i].fd)'
                 PROVE  told'[i] = "ok"
      BY DEF LentUntilRead
    <2>1. i # m
      BY <1>c, <1>d
    <2>2. ~Leftover(asked[i].fd)
      BY <2>1, <1>e, <1>b, <1>c DEF Leftover
    <2> QED
      BY <1>0, <2>1, <2>2, <1>d, <1>e DEF LentUntilRead
  <1> QED
    BY <1>1, <1>2, <1>3, <1>4, <1>5 DEF RingInvariant

(* The kernel completes an operation.                                      *)
LEMMA CompleteKeepsRing ==
    ASSUME RingInvariant, NEW e \in kernel, Complete(e)
    PROVE  RingInvariant'
  <1>0. TypeOK /\ OnePlace /\ OneInFlight /\ Tagged /\ LentUntilRead
    BY DEF RingInvariant
  <1>a. /\ sq' = sq /\ pc' = pc /\ flushed' = flushed /\ made' = made /\ asked' = asked
        /\ told' = told /\ reports' = reports /\ faults' = faults
        /\ kernel' = kernel \ {e}
    BY DEF Complete, callVars
  <1>b. /\ e \in EntryType /\ e.id \in Op /\ e.user_data \in Fd /\ e.len \in Nat
    <2>1. e \in EntryType
      BY <1>0 DEF TypeOK
    <2>2. 2^Width - 1 \in Int
      BY PowerAssumption
    <2> QED
      BY <2>1, <2>2 DEF EntryType
  <1>c. PICK res \in Results(e) :
          cq' = Append(cq, [id |-> e.id, user_data |-> e.user_data, res |-> res])
    BY DEF Complete
  <1>d. res \in Int /\ res <= e.len
    BY <1>b, <1>c DEF Results
  <1>e. PICK c \in Completion : /\ cq' = Append(cq, c)
                                /\ c.id = e.id /\ c.user_data = e.user_data /\ c.res = res
    BY <1>b, <1>c, <1>d DEF Completion
  <1>f. /\ cq' \in Seq(Completion)
        /\ Len(cq') = Len(cq) + 1
        /\ Len(cq) \in Nat
        /\ \A k \in 1..Len(cq) : cq'[k] = cq[k]
        /\ cq'[Len(cq) + 1] = c
    BY <1>0, <1>e, AppendProperties DEF TypeOK
  <1>g. /\ DOMAIN cq' = 1..(Len(cq) + 1) /\ DOMAIN cq = 1..Len(cq)
        /\ \A k \in DOMAIN cq' : k \in DOMAIN cq \/ k = Len(cq) + 1
        /\ \A k \in DOMAIN cq : k \in DOMAIN cq' /\ cq'[k] = cq[k]
        /\ Len(cq) + 1 \in DOMAIN cq'
    <2>1. DOMAIN cq' = 1..Len(cq') /\ DOMAIN cq = 1..Len(cq)
      BY <1>0, <1>f DEF TypeOK
    <2>2. DOMAIN cq' = 1..(Len(cq) + 1)
      BY <2>1, <1>f
    <2> QED
      BY <2>1, <2>2, <1>f
  <1>h. Working(e.id) /\ Live(e.id) /\ ~Completed(e.id)
    BY <1>0, <1>b DEF Working, Live, OnePlace
  <1>1. \A i \in Op : /\ Queued(i)' <=> Queued(i)
                      /\ Working(i)' <=> Working(i) /\ i # e.id
                      /\ Completed(i)' <=> Completed(i) \/ i = e.id
    <2>1. \A i \in Op : Working(i)' <=> Working(i) /\ i # e.id
      BY <1>0, <1>a DEF Working, OnePlace
    <2>2. \A i \in Op : Completed(i)' <=> Completed(i) \/ i = e.id
      BY <1>e, <1>f, <1>g DEF Completed
    <2> QED
      BY <2>1, <2>2, <1>a DEF Queued
  <1>2. \A i \in Op : Live(i)' <=> Live(i) /\ i # e.id
    BY <1>0, <1>1, <1>h, <1>b DEF Live, OnePlace
  <1>3. TypeOK'
    <2>1. Len(cq) < CqEntries /\ CqEntries \in Nat
      BY SqEntriesType DEF Complete, CqEntries
    <2>2. Len(cq') <= CqEntries
      BY <2>1, <1>f
    <2> QED
      BY <1>0, <1>a, <1>f, <2>2 DEF TypeOK
  <1>4. OnePlace'
    <2>1. \A k, l \in DOMAIN cq' : cq'[k].id = cq'[l].id => k = l
      <3>1. \A k \in DOMAIN cq : cq'[k].id # e.id
        BY <1>h, <1>g DEF Completed
      <3> QED
        BY <1>0, <3>1, <1>e, <1>f, <1>g DEF OnePlace
    <2>2. \A i \in Op :
            /\ ~(Queued(i)' /\ Working(i)')
            /\ Live(i)' => ~Completed(i)'
            /\ Live(i)' \/ Completed(i)' => reports'[i] = 0
            /\ reports'[i] \in {0, 1}
            /\ told'[i] \in {"none", "refused"} <=> ~Live(i)' /\ ~Completed(i)' /\ reports'[i] = 0
            /\ i > made' => told'[i] = "none"
      BY <1>0, <1>1, <1>2, <1>a, <1>h DEF OnePlace
    <2> QED
      BY <1>0, <2>1, <2>2, <1>a DEF OnePlace
  <1>5. OneInFlight'
    BY <1>0, <1>a DEF OneInFlight
  <1>6. Tagged'
    <2>1. c.user_data = asked[c.id].fd /\ c.res <= asked[c.id].len
      <3>1. c.user_data = asked[c.id].fd /\ e.len <= asked[c.id].len
        BY <1>0, <1>e DEF Tagged, Fits
      <3>2. asked[c.id].len \in Nat
        BY <1>0, <1>b, <1>e, IoUringAssumption DEF TypeOK
      <3> QED
        BY <3>1, <3>2, <1>b, <1>d, <1>e
    <2>2. \A k \in DOMAIN cq' : /\ cq'[k].user_data = asked[cq'[k].id].fd
                                /\ cq'[k].res <= asked[cq'[k].id].len
      BY <1>0, <2>1, <1>f, <1>g DEF Tagged
    <2> QED
      BY <1>0, <2>2, <1>a DEF Tagged, Fits
  <1>7. LentUntilRead'
    <2>1. \A i \in Op : Leftover(asked[i].fd)' <=> Leftover(asked[i].fd)
      BY <1>a DEF Leftover
    <2> QED
      BY <1>0, <2>1, <1>1, <1>2, <1>a, <1>h DEF LentUntilRead
  <1> QED
    BY <1>3, <1>4, <1>5, <1>6, <1>7 DEF RingInvariant

(* The caller reads the completion queue.  Unless an operation was left in *)
(* the queue by a failed submit(), a completion for its descriptor is its  *)
(* own: no other operation on it is in flight.                             *)
LEMMA ReadKeepsRing ==
    ASSUME RingInvariant, ReadCompletions
    PROVE  RingInvariant'
  <1>0. TypeOK /\ OnePlace /\ OneInFlight /\ Tagged /\ LentUntilRead
    BY DEF RingInvariant
  <1>a. /\ sq' = sq /\ kernel' = kernel /\ made' = made /\ asked' = asked /\ faults' = faults
        /\ cq' = <<>> /\ pc' = "idle" /\ flushed' = FALSE
        /\ told' = [i \in Op |-> IF TakenFor(i) THEN "done" ELSE told[i]]
        /\ reports' = [i \in Op |-> reports[i] + Cardinality({k \in DOMAIN cq : cq[k].id = i})]
    BY DEF ReadCompletions, Reported, callVars
  <1>b. \A i \in Op : /\ Completed(i) => Cardinality({k \in DOMAIN cq : cq[k].id = i}) = 1
                      /\ ~Completed(i) => Cardinality({k \in DOMAIN cq : cq[k].id = i}) = 0
    <2> TAKE i \in Op
    <2>1. ASSUME NEW k \in DOMAIN cq, cq[k].id = i
          PROVE  Cardinality({l \in DOMAIN cq : cq[l].id = i}) = 1
      <3>1. {l \in DOMAIN cq : cq[l].id = i} = {k}
        BY <1>0, <2>1 DEF OnePlace
      <3> QED
        BY <3>1, FS_Singleton
    <2>2. ASSUME ~Completed(i)
          PROVE  Cardinality({l \in DOMAIN cq : cq[l].id = i}) = 0
      <3>1. {l \in DOMAIN cq : cq[l].id = i} = {}
        BY <2>2 DEF Completed
      <3> QED
        BY <3>1, FS_EmptySet
    <2> QED
      BY <2>1, <2>2 DEF Completed
  <1>c. \A i \in Op : reports[i] \in Nat /\ told[i] \in Told
    BY <1>0 DEF TypeOK
  <1>d. \A i \in Op : /\ Completed(i) => reports'[i] = 1
                      /\ ~Completed(i) => reports'[i] = reports[i]
    <2>1. \A i \in Op : Completed(i) => reports[i] = 0
      BY <1>0 DEF OnePlace
    <2> QED
      BY <2>1, <1>a, <1>b, <1>c
  <1>e. \A i \in Op : /\ Queued(i)' <=> Queued(i)
                      /\ Working(i)' <=> Working(i)
                      /\ Live(i)' <=> Live(i)
                      /\ ~Completed(i)'
    BY <1>a DEF Live, Queued, Working, Completed
  <1>f. \A i \in Op : /\ TakenFor(i) => told'[i] = "done" /\ told[i] = "ok"
                      /\ ~TakenFor(i) => told'[i] = told[i]
    BY <1>a DEF TakenFor
  <1>1. TypeOK'
    <2>1. reports' \in [Op -> Nat]
      <3>1. \A i \in Op : reports[i] + Cardinality({k \in DOMAIN cq : cq[k].id = i}) \in Nat
        BY <1>b, <1>c
      <3> QED
        BY <3>1, <1>a
    <2>2. told' \in [Op -> Told]
      <3>1. \A i \in Op : (IF TakenFor(i) THEN "done" ELSE told[i]) \in Told
        BY <1>c DEF Told
      <3> QED
        BY <3>1, <1>a
    <2>3. /\ cq' \in Seq(Completion) /\ Len(cq') <= CqEntries
          /\ pc' \in {"idle", "waiting", "read"} /\ flushed' \in BOOLEAN
      <3>1. cq' = <<>> /\ pc' = "idle" /\ flushed' = FALSE
        BY <1>a
      <3>2. Len(cq') = 0 /\ CqEntries \in Nat
        BY <3>1, SqEntriesType DEF CqEntries
      <3>3. Len(cq') <= CqEntries
        BY <3>2
      <3> QED
        BY <3>1, <3>3, EmptySeq
    <2> QED
      BY <1>0, <2>1, <2>2, <2>3, <1>a DEF TypeOK
  <1>2. OnePlace'
    <2>1. \A k, l \in DOMAIN cq' : cq'[k].id = cq'[l].id => k = l
      BY <1>a
    <2>2. ASSUME NEW i \in Op
          PROVE  /\ ~(Queued(i)' /\ Working(i)')
                 /\ Live(i)' => ~Completed(i)'
                 /\ Live(i)' \/ Completed(i)' => reports'[i] = 0
                 /\ reports'[i] \in {0, 1}
                 /\ told'[i] \in {"none", "refused"} <=> ~Live(i)' /\ ~Completed(i)' /\ reports'[i] = 0
                 /\ i > made' => told'[i] = "none"
      <3>1. /\ ~(Queued(i) /\ Working(i))
            /\ Live(i) => ~Completed(i)
            /\ Live(i) \/ Completed(i) => reports[i] = 0
            /\ reports[i] \in {0, 1}
            /\ told[i] \in {"none", "refused"} <=> ~Live(i) /\ ~Completed(i) /\ reports[i] = 0
            /\ i > made => told[i] = "none"
        BY <1>0 DEF OnePlace
      <3>2. told'[i] \in {"none", "refused"} <=> told[i] \in {"none", "refused"}
        BY <1>f
      <3>3. i > made' => told'[i] = "none"
        BY <3>1, <1>f, <1>a
      <3> QED
        BY <3>1, <3>2, <3>3, <1>d, <1>e
    <2> QED
      BY <1>0, <2>1, <2>2, <1>a DEF OnePlace
  <1>3. OneInFlight'
    BY <1>0, <1>f, <1>a DEF OneInFlight
  <1>4. Tagged'
    BY <1>0, <1>a DEF Tagged, Fits
  <1>5. LentUntilRead'
    <2> SUFFICES ASSUME NEW i \in Op, Live(i), ~Leftover(asked[i].fd)'
                 PROVE  told'[i] = "ok"
      BY <1>e DEF LentUntilRead
    <2>1. ~Leftover(asked[i].fd)
      BY <1>a, <1>f DEF Leftover
    <2>2. told[i] = "ok" /\ ~Completed(i)
      BY <1>0, <2>1 DEF LentUntilRead, OnePlace
    <2>3. ASSUME NEW k \in DOMAIN cq, cq[k].user_data = asked[i].fd
          PROVE  FALSE
      <3>1. cq[k].id \in Op /\ Completed(cq[k].id)
        <4>1. cq[k] \in Completion
          BY <1>0, ElementOfSeq DEF TypeOK
        <4> QED
          BY <4>1 DEF Completion, Completed
      <3>2. asked[cq[k].id].fd = asked[i].fd
        BY <1>0, <2>3 DEF Tagged
      <3>3. told[cq[k].id] = "ok"
        BY <1>0, <3>1, <3>2, <2>1 DEF LentUntilRead
      <3>4. cq[k].id = i
        BY <1>0, <3>1, <3>2, <3>3, <2>2 DEF OneInFlight
      <3> QED
        BY <3>1, <3>4, <2>2
    <2>4. ~TakenFor(i)
      BY <2>3 DEF TakenFor
    <2> QED
      BY <2>2, <2>4, <1>f
  <1> QED
    BY <1>1, <1>2, <1>3, <1>4, <1>5 DEF RingInvariant

LEMMA NextRing ==
    ASSUME RingInvariant, [Next]_vars
    PROVE  RingInvariant'
  <1>1. ASSUME NEW call \in Call, PushFails(call)
        PROVE  RingInvariant'
    BY <1>1, RefusedKeepsRing
  <1>2. ASSUME NEW call \in Call, Submit(call)
        PROVE  RingInvariant'
    <2>1. Starts(call, "ok") /\ ~Full
      BY <1>2 DEF Submit
    <2>2. PICK n \in 0..(Len(sq) + 1) : Enter(Pushed(call), n)
      BY <1>2 DEF Submit
    <2>3. Entered(Pushed(call))
      BY <2>2 DEF Enter, Entered
    <2> QED
      BY <2>1, <2>3, SubmitKeepsRing
  <1>3. ASSUME NEW call \in Call, SubmitFails(call)
        PROVE  RingInvariant'
    <2>1. Starts(call, "err") /\ ~Full /\ Entered(Pushed(call))
      BY <1>3 DEF SubmitFails, Entered
    <2> QED
      BY <2>1, SubmitKeepsRing
  <1>4. CASE BatchSubmit
    <2>1. Entered(sq) /\ UNCHANGED <<cq, callVars, told, reports>> /\ pc' = "idle" /\ flushed' = flushed
      BY <1>4 DEF BatchSubmit, Entered
    <2>2. flushed \in BOOLEAN
      BY DEF RingInvariant, TypeOK
    <2> QED
      BY <2>1, <2>2, EnterKeepsRing
  <1>5. CASE Wait
    <2>1. PICK n \in 0..Len(sq) : /\ Enter(sq, n)
                                  /\ pc' = IF n = Len(sq) THEN "waiting" ELSE "read"
                                  /\ flushed' = (n > 0)
      BY <1>5 DEF Wait
    <2>2. Entered(sq) /\ pc' \in {"idle", "waiting", "read"} /\ flushed' \in BOOLEAN
      BY <2>1 DEF Entered
    <2>3. UNCHANGED <<cq, callVars, told, reports>>
      BY <1>5 DEF Wait
    <2> QED
      BY <2>2, <2>3, EnterKeepsRing
  <1>6. CASE WaitFails
    <2>1. Entered(sq) /\ UNCHANGED <<cq, callVars, told, reports>> /\ pc' = "idle" /\ flushed' = flushed
      BY <1>6 DEF WaitFails, Entered
    <2>2. flushed \in BOOLEAN
      BY DEF RingInvariant, TypeOK
    <2> QED
      BY <2>1, <2>2, EnterKeepsRing
  <1>7. CASE WaitInterrupted
    <2>1. TypeOK'
      BY <1>7, IoUringAssumption DEF WaitInterrupted, RingInvariant, TypeOK, callVars
    <2>2. (OnePlace /\ OneInFlight /\ Tagged /\ LentUntilRead)'
      BY <1>7 DEF WaitInterrupted, RingInvariant, callVars, OnePlace, OneInFlight, Tagged,
                  LentUntilRead, Fits, Live, Queued, Working, Completed, Leftover
    <2> QED
      BY <2>1, <2>2 DEF RingInvariant
  <1>8. CASE ReadCompletions
    BY <1>8, ReadKeepsRing
  <1>9. ASSUME NEW e \in kernel, Complete(e)
        PROVE  RingInvariant'
    BY <1>9, CompleteKeepsRing
  <1>10. CASE UNCHANGED vars
    BY <1>10 DEF vars, RingInvariant, TypeOK, callVars, OnePlace, OneInFlight, Tagged,
                 LentUntilRead, Fits, Live, Queued, Working, Completed, Leftover
  <1> QED
    BY <1>1, <1>2, <1>3, <1>4, <1>5, <1>6, <1>7, <1>8, <1>9, <1>10 DEF Next, WaitStep

-----------------------------------------------------------------------------
(* What the invariant says *)

(* One place is what counting the places finds.                            *)
LEMMA OnePlaceIsCounted ==
    ASSUME TypeOK, OnePlace
    PROVE  OpsConserved
  <1> SUFFICES ASSUME NEW i \in Op
               PROVE  Places(i) = IF told[i] \in {"none", "refused"} THEN 0 ELSE 1
    BY DEF OpsConserved
  <1>1. /\ Queued(i) => Cardinality({k \in DOMAIN sq : sq[k].id = i}) = 1
        /\ ~Queued(i) => Cardinality({k \in DOMAIN sq : sq[k].id = i}) = 0
    <2>1. ASSUME NEW k \in DOMAIN sq, sq[k].id = i
          PROVE  Cardinality({l \in DOMAIN sq : sq[l].id = i}) = 1
      <3>1. {l \in DOMAIN sq : sq[l].id = i} = {k}
        BY <2>1 DEF OnePlace
      <3> QED
        BY <3>1, FS_Singleton
    <2>2. ~Queued(i) => {l \in DOMAIN sq : sq[l].id = i} = {}
      BY DEF Queued
    <2> QED
      BY <2>1, <2>2, FS_EmptySet DEF Queued
  <1>2. /\ Working(i) => Cardinality({e \in kernel : e.id = i}) = 1
        /\ ~Working(i) => Cardinality({e \in kernel : e.id = i}) = 0
    <2>1. ASSUME NEW e \in kernel, e.id = i
          PROVE  Cardinality({f \in kernel : f.id = i}) = 1
      <3>1. {f \in kernel : f.id = i} = {e}
        BY <2>1 DEF OnePlace
      <3> QED
        BY <3>1, FS_Singleton
    <2>2. ~Working(i) => {f \in kernel : f.id = i} = {}
      BY DEF Working
    <2> QED
      BY <2>1, <2>2, FS_EmptySet DEF Working
  <1>3. /\ Completed(i) => Cardinality({k \in DOMAIN cq : cq[k].id = i}) = 1
        /\ ~Completed(i) => Cardinality({k \in DOMAIN cq : cq[k].id = i}) = 0
    <2>1. ASSUME NEW k \in DOMAIN cq, cq[k].id = i
          PROVE  Cardinality({l \in DOMAIN cq : cq[l].id = i}) = 1
      <3>1. {l \in DOMAIN cq : cq[l].id = i} = {k}
        BY <2>1 DEF OnePlace
      <3> QED
        BY <3>1, FS_Singleton
    <2>2. ~Completed(i) => {l \in DOMAIN cq : cq[l].id = i} = {}
      BY DEF Completed
    <2> QED
      BY <2>1, <2>2, FS_EmptySet DEF Completed
  <1>4. /\ ~(Queued(i) /\ Working(i))
        /\ Live(i) => ~Completed(i)
        /\ Live(i) \/ Completed(i) => reports[i] = 0
        /\ reports[i] \in {0, 1}
        /\ told[i] \in {"none", "refused"} <=> ~Live(i) /\ ~Completed(i) /\ reports[i] = 0
    BY DEF OnePlace
  <1>5. PICK a, b, c : /\ a = Cardinality({k \in DOMAIN sq : sq[k].id = i})
                       /\ b = Cardinality({e \in kernel : e.id = i})
                       /\ c = Cardinality({k \in DOMAIN cq : cq[k].id = i})
    OBVIOUS
  <1>6. Places(i) = a + b + c + reports[i]
    BY <1>5 DEF Places
  <1>7. /\ a = IF Queued(i) THEN 1 ELSE 0
        /\ b = IF Working(i) THEN 1 ELSE 0
        /\ c = IF Completed(i) THEN 1 ELSE 0
    BY <1>1, <1>2, <1>3, <1>5
  <1> QED
    BY <1>4, <1>6, <1>7 DEF Live

(* The count of a completion fits its operation, and a completion that the *)
(* caller takes for an operation is that operation's own.                  *)
LEMMA OwnCompletionFits ==
    ASSUME RingInvariant
    PROVE  WithinBuffer
  <1>0. \A k \in DOMAIN cq : cq[k].res <= asked[cq[k].id].len
    BY DEF RingInvariant, Tagged
  <1> SUFFICES ASSUME NEW k \in DOMAIN cq, NEW i \in Op, told[i] = "ok",
                      asked[i].fd = cq[k].user_data, ~Leftover(asked[i].fd)
               PROVE  cq[k].id = i
    BY <1>0 DEF WithinBuffer
  <1>1. cq[k].id \in Op /\ Completed(cq[k].id)
    <2>1. cq[k] \in Completion
      BY ElementOfSeq DEF RingInvariant, TypeOK
    <2> QED
      BY <2>1 DEF Completion, Completed
  <1>2. asked[cq[k].id].fd = asked[i].fd
    BY DEF RingInvariant, Tagged
  <1>3. told[cq[k].id] = "ok"
    BY <1>1, <1>2 DEF RingInvariant, LentUntilRead
  <1> QED
    BY <1>1, <1>2, <1>3 DEF RingInvariant, OneInFlight

-----------------------------------------------------------------------------
(* Theorems *)

(* The inductive invariant holds of every run of the backend: an operation *)
(* is in one place, entries and completions carry the descriptor of their  *)
(* operation and a length within its buffer, and a buffer is lent until    *)
(* the completion is read.                                                 *)
THEOREM RingCorrect == Spec => []RingInvariant
  <1>1. Init => RingInvariant
    BY InitRing
  <1>2. RingInvariant /\ [Next]_vars => RingInvariant'
    BY NextRing
  <1> QED
    BY <1>1, <1>2, PTL DEF Spec

(* Type correctness: the submission queue never holds more than its        *)
(* length, which IoUring::new rounds up to a power of two.                 *)
THEOREM RingTypeCorrect == Spec => []TypeOK
  <1>1. RingInvariant => TypeOK
    BY DEF RingInvariant
  <1> QED
    BY <1>1, RingCorrect, PTL

(* Whatever io_uring_enter takes or fails to take, and in whatever order   *)
(* the kernel completes, no operation is lost or reported twice, and one   *)
(* that push() refused is never carried out.                               *)
THEOREM NoOperationLost == Spec => []OpsConserved
  <1>1. RingInvariant => OpsConserved
    BY OnePlaceIsCounted DEF RingInvariant
  <1> QED
    BY <1>1, RingCorrect, PTL

(* A caller with one operation per descriptor takes no buffer back while   *)
(* the kernel may use it, but where a submit method returned an error and  *)
(* left its entry in the queue.                                            *)
THEOREM BuffersStayLent == Spec => []BufferStaysLent
  <1>1. RingInvariant => BufferStaysLent
    BY DEF RingInvariant, LentUntilRead, BufferStaysLent
  <1> QED
    BY <1>1, RingCorrect, PTL

(* The count of a completion is within the buffer of its own operation,    *)
(* for any length and width, since `len as u32` only makes it less; and    *)
(* its own operation is what the caller takes it for, save on a descriptor *)
(* for which a submit method failed and left its entry in the queue.       *)
THEOREM CountsFitBuffers == Spec => []WithinBuffer
  <1>1. RingInvariant => WithinBuffer
    BY OwnCompletionFits
  <1> QED
    BY <1>1, RingCorrect, PTL
=============================================================================
