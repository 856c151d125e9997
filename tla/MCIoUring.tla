----------------------------- MODULE MCIoUring -----------------------------
(* An instance of IoUring for TLC: a file that is read and spliced to a     *)
(* socket, which is written to, and a listening socket.                     *)
EXTENDS IoUring

C(op, fd, in_fd, len) == [op |-> op, fd |-> fd, in_fd |-> in_fd, len |-> len]

FileAndSocket ==
    {C("read", "file", "file", 5), C("write", "sock", "sock", 2),
     C("splice", "sock", "file", 3), C("accept", "listen", "listen", 0)}
=============================================================================
