-------------------------------- MODULE Http --------------------------------
(***************************************************************************)
(* The request handler of the server, as pure operators: what              *)
(* HttpRequest::parse makes of one read buffer, and the answer that        *)
(* Reactor::handle_static_file and Reactor::handle_dynamic build for it.   *)
(*                                                                         *)
(* The byte stream of a connection is cut into units.  A request whose     *)
(* header block fits in one unit is sent as "all"; one that the network    *)
(* cuts inside its header block as "fst" then "snd"; one that is cut       *)
(* after its header block, inside its body, as "hdr" then "body".          *)
(***************************************************************************)
EXTENDS Naturals, Sequences

CONSTANTS
    Conn,       \* client connections
    Request,    \* requests a client may send, records [method, path], where
                \* path is what clean_path leaves: no query string
    Mode,       \* config.mode: "FastPath" or "DynamicPath"
    FileKind,   \* what a path names below static_dir (see Kinds)
    FileLen     \* units of body of a served file

(* "nopath": the path is empty once the query string is cut off.           *)
Kinds == {"nopath", "missing", "regular", "empty", "dir"}

ASSUME HttpAssumption ==
    /\ Mode \in {"FastPath", "DynamicPath"}
    /\ \A r \in Request : FileKind[r.path] \in Kinds
    /\ FileLen \in Nat \ {0}

Part == {"all", "fst", "snd", "hdr", "body"}

Unit == [from : Conn, req : Request, part : Part]

-----------------------------------------------------------------------------
(* HttpRequest::parse *)

NoRequest == [method |-> "", path |-> ""]

(* A buffer that starts in the middle of a request line may still parse,   *)
(* with a method that is the tail of the real one or of an earlier body.   *)
Garbled(r) == [r EXCEPT !.method = "garbled"]

(* The end of a header block lies in these units.                          *)
HeadEnds(buf) == {i \in DOMAIN buf : buf[i].part \in {"all", "snd", "hdr"}}

(* The results parse may return for buf; NoRequest stands for Err.  The    *)
(* rest of the buffer becomes the body of the request and is dropped with  *)
(* it.  Where the buffer does not start at a request, the result depends   *)
(* on the bytes at the cut, so every outcome is possible.                  *)
Parse(buf) ==
    CASE buf[1].part \in {"all", "hdr"} -> {buf[1].req}
      [] buf[1].part = "fst" /\ Len(buf) = 1 -> {NoRequest}
      [] buf[1].part = "fst" /\ Len(buf) > 1 -> {buf[1].req}
      [] OTHER -> {NoRequest} \cup UNION {{buf[i].req, Garbled(buf[i].req)} :
                                              i \in HeadEnds(buf)}

-----------------------------------------------------------------------------
(* Answers: the header block and a short body are one unit, the contents   *)
(* of a file FileLen more.  "err" and "panic" are a handler that returns   *)
(* Err and one that panics; both send nothing.                             *)

Reply(status, len) == [kind |-> "ok", status |-> status, len |-> len]
Failure(kind)      == [kind |-> kind, status |-> 500, len |-> 0]

BadRequest == Reply(400, 1)
NotFound   == Reply(404, 1)

Answer == [kind : {"ok", "err", "panic"}, status : {200, 400, 404, 500}, len : Nat]

(* MmapFile::new succeeds.  It needs a descriptor for as long as the file  *)
(* is copied into the body; a directory cannot be mapped and an empty file *)
(* is refused.                                                             *)
MmapFile(kind, canOpen) == kind = "regular" /\ canOpen

(* &path[1..] panics on an empty path.                                     *)
HandleStaticFile(r, canOpen) ==
    CASE FileKind[r.path] = "nopath"  -> Failure("panic")
      [] FileKind[r.path] = "missing" -> NotFound
      [] MmapFile(FileKind[r.path], canOpen) -> Reply(200, 1 + FileLen)
      [] OTHER -> Failure("err")

Endpoints == {"/api/health", "/api/metrics", "/api/stats"}

HandleDynamic(r) ==
    IF r.method = "GET" /\ r.path \in Endpoints THEN Reply(200, 1) ELSE NotFound

(* The match of handle_request.                                            *)
AnswerTo(r, canOpen) ==
    CASE r = NoRequest -> BadRequest
      [] r # NoRequest /\ Mode = "FastPath" -> HandleStaticFile(r, canOpen)
      [] OTHER -> HandleDynamic(r)
=============================================================================
