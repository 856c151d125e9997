--------------------------- MODULE SendFileProofs ---------------------------
(***************************************************************************)
(* Proofs about send_entire_file (module SendFile), for files of any       *)
(* length and any limit on one call of sendfile.                           *)
(***************************************************************************)
EXTENDS SendFile, SequenceTheorems, TLAPS

(* The positions of one call.                                              *)
LEMMA PositionsType ==
    ASSUME NEW from \in Nat, NEW n \in Nat
    PROVE  /\ Positions(from, n) \in Seq(Nat)
           /\ Len(Positions(from, n)) = n
           /\ \A i \in 1..n : Positions(from, n)[i] = from + i - 1
  <1> DEFINE p == Positions(from, n)
  <1>1. p \in [1..n -> Nat]
    BY DEF Positions
  <1>2. p \in Seq(Nat) /\ Len(p) = n
    BY <1>1
  <1> QED
    BY <1>2 DEF Positions

(* sendfile is never asked for more than is left of the length the call    *)
(* began with.                                                             *)
LEMMA AvailableBound ==
    ASSUME TypeOK, total_sent < file_size
    PROVE  Available \in 0..(file_size - total_sent)
  <1>1. ToSend \in 1..(file_size - total_sent)
    BY SendFileAssumption DEF TypeOK, ToSend, NatMin
  <1> QED
    BY <1>1 DEF TypeOK, Available, NatMin

LEMMA InitInvariant == Init => SendInvariant
  BY SendFileAssumption DEF Init, TypeOK, SentIsPrefix, SendInvariant

(* One call of sendfile appends the positions that follow.                 *)
LEMMA SendSomeKeepsPrefix ==
    ASSUME TypeOK, SentIsPrefix, SendSome
    PROVE  TypeOK' /\ SentIsPrefix'
  <1>1. PICK sent \in 1..Available :
          /\ out' = out \o Positions(offset, sent)
          /\ total_sent' = total_sent + sent
          /\ offset' = offset + sent
    BY DEF SendSome
  <1>2. sent \in Nat /\ total_sent + sent <= file_size
    BY <1>1, AvailableBound DEF SendSome, TypeOK
  <1> DEFINE p == Positions(offset, sent)
  <1>3. p \in Seq(Nat) /\ Len(p) = sent /\ \A i \in 1..sent : p[i] = offset + i - 1
    BY <1>2, PositionsType DEF TypeOK
  <1> HIDE DEF p
  <1>4. out \in Seq(Nat) /\ Len(out) = total_sent /\ offset = total_sent /\ total_sent \in Nat
    BY DEF TypeOK, SentIsPrefix
  <1>5. /\ out' \in Seq(Nat)
        /\ Len(out') = total_sent + sent
        /\ \A i \in 1..(total_sent + sent) :
              out'[i] = IF i <= total_sent THEN out[i] ELSE p[i - total_sent]
    <2>1. out' = out \o p
      BY <1>1 DEF p
    <2>2. /\ out \o p \in Seq(Nat)
          /\ Len(out \o p) = Len(out) + Len(p)
          /\ \A i \in 1..Len(out) + Len(p) :
                (out \o p)[i] = IF i <= Len(out) THEN out[i] ELSE p[i - Len(out)]
      BY <1>3, <1>4, ConcatProperties, ZenonT(60)
    <2> QED
      BY <1>3, <1>4, <2>1, <2>2, ZenonT(60)
  <1>6. \A i \in 1..(total_sent + sent) : out'[i] = i - 1
    <2> SUFFICES ASSUME NEW i \in 1..(total_sent + sent)
                 PROVE  out'[i] = i - 1
      OBVIOUS
    <2>1. CASE i <= total_sent
      BY <1>2, <1>4, <1>5, <2>1 DEF SentIsPrefix
    <2>2. CASE i > total_sent
      <3>1. i - total_sent \in 1..sent
        BY <1>2, <1>4, <2>2
      <3>2. p[i - total_sent] = offset + (i - total_sent) - 1
        BY <1>3, <3>1
      <3> QED
        BY <1>2, <1>4, <1>5, <2>2, <3>2
    <2> QED
      BY <1>4, <2>1, <2>2
  <1>7. SentIsPrefix'
    BY <1>1, <1>2, <1>4, <1>5, <1>6 DEF SendSome, SentIsPrefix
  <1>8. TypeOK'
    BY <1>1, <1>2, <1>4, <1>5 DEF SendSome, TypeOK
  <1> QED
    BY <1>7, <1>8

LEMMA NextKeepsInvariant ==
    ASSUME SendInvariant, [Next]_vars
    PROVE  SendInvariant'
  <1> USE DEF SendInvariant
  <1>1. CASE Begin
    BY <1>1 DEF Begin, TypeOK, SentIsPrefix
  <1>2. CASE BeginFails \/ SendNothing \/ SendFails \/ SendEnds
    BY <1>2 DEF BeginFails, SendNothing, SendFails, SendEnds, Return, TypeOK, SentIsPrefix
  <1>3. CASE SendSome
    <2>1. TypeOK' /\ SentIsPrefix'
      BY <1>3, SendSomeKeepsPrefix
    <2> QED
      BY <1>3, <2>1 DEF SendSome
  <1>4. ASSUME NEW n \in 0..MaxLen, Resize(n)
        PROVE  SendInvariant'
    BY <1>4, SendFileAssumption DEF Resize, TypeOK, SentIsPrefix
  <1>5. CASE UNCHANGED vars
    BY <1>5 DEF vars, TypeOK, SentIsPrefix
  <1> QED
    BY <1>1, <1>2, <1>3, <1>4, <1>5 DEF Next, Progress

LEMMA InvariantHolds == Spec => []SendInvariant
  BY InitInvariant, NextKeepsInvariant, PTL DEF Spec

-----------------------------------------------------------------------------
(* Theorems *)

(* send_entire_file hands the socket a prefix of the file, in order, and   *)
(* counts it right, whatever happens to the file meanwhile.                *)
THEOREM SendsPrefix == Spec => []SentIsPrefix
  <1>1. SendInvariant => SentIsPrefix
    BY DEF SendInvariant
  <1> QED
    BY <1>1, InvariantHolds, PTL

(* It returns Err only if the socket took nothing.                         *)
THEOREM ErrIsClean == Spec => []ErrMeansNothingSent
  <1>1. SendInvariant => ErrMeansNothingSent
    BY DEF SendInvariant, TypeOK, SentIsPrefix, ErrMeansNothingSent
  <1> QED
    BY <1>1, InvariantHolds, PTL
=============================================================================
