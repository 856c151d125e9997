------------------------------ MODULE SendFile ------------------------------
(***************************************************************************)
(* send_entire_file (src/file/sendfile.rs) while other processes change    *)
(* the length of the file.  A position of the file stands for its byte;    *)
(* out is what the socket took, position by position.                      *)
(***************************************************************************)
EXTENDS Naturals, Sequences

CONSTANTS
    MaxLen,     \* bound on the length of the file
    MaxCount    \* most that one call of sendfile is asked for (1 GB)

ASSUME SendFileAssumption ==
    /\ MaxLen \in Nat
    /\ MaxCount \in Nat \ {0}

VARIABLES
    flen,       \* length of the file now
    file_size,  \* length of the file when the call began
    total_sent,
    offset,
    out,        \* positions the socket took
    pc,         \* "begin", "send" or "returned"
    result      \* "none", or what was returned: "ok" (total_sent) or "err"

vars == <<flen, file_size, total_sent, offset, out, pc, result>>

NatMin(a, b) == IF a < b THEN a ELSE b

Init ==
    /\ flen \in 0..MaxLen
    /\ file_size = 0
    /\ total_sent = 0
    /\ offset = 0
    /\ out = <<>>
    /\ pc = "begin"
    /\ result = "none"

Return(res) ==
    /\ pc' = "returned"
    /\ result' = res

(* Another process truncates the file or appends to it.                    *)
Resize(n) ==
    /\ pc # "returned"
    /\ n # flen
    /\ flen' = n
    /\ UNCHANGED <<file_size, total_sent, offset, out, pc, result>>

-----------------------------------------------------------------------------
(* metadata() *)

Begin ==
    /\ pc = "begin"
    /\ file_size' = flen
    /\ pc' = "send"
    /\ UNCHANGED <<flen, total_sent, offset, out, result>>

BeginFails ==
    /\ pc = "begin"
    /\ Return("err")
    /\ UNCHANGED <<flen, file_size, total_sent, offset, out>>

-----------------------------------------------------------------------------
(* while total_sent < file_size *)

ToSend == NatMin(file_size - total_sent, MaxCount)

(* sendfile at an offset of its own takes what is there, at most ToSend,   *)
(* and may take less.                                                      *)
Available == IF offset < flen THEN NatMin(flen - offset, ToSend) ELSE 0

Positions(from, n) == [i \in 1..n |-> from + i - 1]

SendSome_SameOffset ==      \* mutant: trusts sendfile to move the offset
    /\ pc = "send"
    /\ total_sent < file_size
    /\ \E sent \in 1..Available :
         /\ out' = out \o Positions(offset, sent)
         /\ total_sent' = total_sent + sent
    /\ UNCHANGED <<flen, file_size, offset, pc, result>>

(* The caller's offset moves on with total_sent.                           *)
SendSome ==
    /\ pc = "send"
    /\ total_sent < file_size
    /\ \E sent \in 1..Available :
         /\ out' = out \o Positions(offset, sent)
         /\ total_sent' = total_sent + sent
         /\ offset' = offset + sent
    /\ UNCHANGED <<flen, file_size, pc, result>>

SendNothing_Retries ==      \* mutant: no break on 0
    /\ pc = "send"
    /\ total_sent < file_size
    /\ Available = 0
    /\ UNCHANGED vars

(* sendfile returned 0: the file has become shorter.                       *)
SendNothing ==
    /\ pc = "send"
    /\ total_sent < file_size
    /\ Available = 0
    /\ Return("ok")
    /\ UNCHANGED <<flen, file_size, total_sent, offset, out>>

SendFails_Err ==            \* mutant: `?` on every call
    /\ pc = "send"
    /\ total_sent < file_size
    /\ Return("err")
    /\ UNCHANGED <<flen, file_size, total_sent, offset, out>>

(* sendfile failed: EAGAIN, EPIPE, ECONNRESET, EIO.                        *)
SendFails ==
    /\ pc = "send"
    /\ total_sent < file_size
    /\ Return(IF total_sent > 0 THEN "ok" ELSE "err")
    /\ UNCHANGED <<flen, file_size, total_sent, offset, out>>

SendEnds ==
    /\ pc = "send"
    /\ total_sent >= file_size
    /\ Return("ok")
    /\ UNCHANGED <<flen, file_size, total_sent, offset, out>>

(* The thread goes on as long as its system calls succeed.                 *)
Progress == Begin \/ SendSome \/ SendNothing \/ SendEnds

Next ==
    \/ Progress
    \/ BeginFails
    \/ SendFails
    \/ \E n \in 0..MaxLen : Resize(n)

Spec == Init /\ [][Next]_vars

FairSpec == Spec /\ WF_vars(Progress)

-----------------------------------------------------------------------------
(* Properties *)

TypeOK ==
    /\ flen \in Nat
    /\ file_size \in Nat
    /\ total_sent \in Nat
    /\ offset \in Nat
    /\ out \in Seq(Nat)
    /\ pc \in {"begin", "send", "returned"}
    /\ result \in {"none", "ok", "err"}

(* Whatever sendfile takes in one call and however the file changes, the   *)
(* socket gets positions 0, 1, 2, ... without a gap or a repetition, none  *)
(* beyond the length the call began with, and total_sent counts them.      *)
SentIsPrefix ==
    /\ Len(out) = total_sent
    /\ offset = total_sent
    /\ total_sent <= file_size
    /\ \A i \in 1..total_sent : out[i] = i - 1

(* The same with what is true before the first call.                       *)
SendInvariant ==
    /\ TypeOK
    /\ SentIsPrefix
    /\ pc = "begin" => total_sent = 0
    /\ result = "err" => total_sent = 0 /\ pc = "returned"

(* An error is returned only if the socket took nothing, so the caller may *)
(* still answer with an error of its own.                                  *)
ErrMeansNothingSent == result = "err" => out = <<>>

(* The loop ends though the file may change length at every turn.          *)
Returns == <>(pc = "returned")
=============================================================================
