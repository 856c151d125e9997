------------------------------ MODULE Handlers ------------------------------
(***************************************************************************)
(* Reactor::handle_static_file and handle_dynamic (src/worker/reactor.rs)  *)
(* with MmapFile (src/file/mmap.rs), one system call at a time, while      *)
(* other processes remove, replace and change the file that is served.     *)
(* The handler keeps nothing from one request to the next, so one request  *)
(* on any file is enough.  Module Http has the handlers as the event loop  *)
(* sees them, in one step on files that do not change.                     *)
(*                                                                         *)
(* A file is a sequence of bytes; a byte is the number of the change that  *)
(* wrote it.  Names are links to inodes, so that a file that is open stays *)
(* what it was when its name is removed or given to another file.          *)
(***************************************************************************)
EXTENDS Response, Target

CONSTANTS
    Inode,          \* inodes the file may live in
    None,           \* no inode
    Dir,            \* the inode of static_dir itself, path "/"
    PageSize,       \* bytes of a page
    MaxLen,         \* bound on the length of the file
    MaxChanges,     \* bound on the changes of other processes
    Form            \* query forms a client may send, see Target

ASSUME HandlersAssumption ==
    /\ None \notin Inode
    /\ Dir \notin Inode \cup {None}
    /\ PageSize \in Nat \ {0}
    /\ MaxLen \in Nat
    /\ MaxChanges \in Nat
    /\ Form \subseteq Seq(Seq(DOMAIN Code) \X Seq(DOMAIN Code))

File == "/index.html"
Paths == {File, "/", "", "/api/health", "/api/metrics", "/api/stats"}
Methods == {"GET", "HEAD", "POST"}

VARIABLES
    mode,       \* config.mode
    linked,     \* the inode File names
    data,       \* contents of each inode
    changes,    \* number of changes made to files
    pc,         \* where the handler is
    method,
    target,     \* request target
    form,       \* history: the form its query encodes
    path,       \* clean_path()
    fd,         \* the inode that MmapFile._file has open
    len,        \* MmapFile.len
    body,       \* bytes of the mapping copied by set_body
    outcome,    \* what the handler returned
    happened,   \* history: changes and failures since the request came in
    seen        \* history: contents File has had since then

fileVars == <<linked, data, changes>>
requestVars == <<method, target, form, path>>
historyVars == <<happened, seen>>
vars == <<mode, fileVars, pc, requestVars, fd, len, body, outcome, historyVars>>

Ok(resp) == [kind |-> "ok", resp |-> resp]
Failed(kind) == [kind |-> kind, resp |-> New(500)]

Init ==
    /\ mode \in {"FastPath", "DynamicPath"}
    /\ linked \in Inode \cup {None}
    /\ \E n \in 0..MaxLen : data = [i \in Inode |-> [k \in 1..n |-> 0]]
    /\ changes = 0
    /\ pc = "idle"
    /\ method = "GET"
    /\ target = <<>>
    /\ form = <<>>
    /\ path = ""
    /\ fd = None
    /\ len = 0
    /\ body = <<>>
    /\ outcome = Failed("none")
    /\ happened = {}
    /\ seen = {}

-----------------------------------------------------------------------------
(* Other processes *)

(* Nobody looks at the files before Route or after the handler returned.   *)
Watched == pc \in {"exists", "open", "metadata", "mmap", "copy"}

Change(what) ==
    /\ Watched
    /\ changes < MaxChanges
    /\ changes' = changes + 1
    /\ happened' = happened \cup {what}
    /\ seen' = seen \cup {data'[i] : i \in Inode \cap {linked', fd}}
    /\ UNCHANGED <<mode, pc, requestVars, fd, len, body, outcome>>

Unlink ==
    /\ linked # None
    /\ linked' = None
    /\ UNCHANGED data
    /\ Change("removed")

(* rename(2) puts another file in the place of File.                       *)
Replace(i, n) ==
    /\ i \notin {linked, fd}
    /\ linked' = i
    /\ data' = [data EXCEPT ![i] = [k \in 1..n |-> changes + 1]]
    /\ Change(CASE n = 0 -> "emptied" [] linked = None -> "created" [] OTHER -> "replaced")

Truncate(i, n) ==
    /\ n < Len(data[i])
    /\ data' = [data EXCEPT ![i] = SubSeq(@, 1, n)]
    /\ UNCHANGED linked
    /\ Change("truncated")

Extend(i) ==
    /\ Len(data[i]) < MaxLen
    /\ data' = [data EXCEPT ![i] = Append(@, changes + 1)]
    /\ UNCHANGED linked
    /\ Change("extended")

Rewrite(i) ==
    /\ data' = [data EXCEPT ![i] = [k \in DOMAIN @ |-> changes + 1]]
    /\ UNCHANGED linked
    /\ Change("rewritten")

OtherProcess ==
    \/ Unlink
    \/ \E i \in Inode, n \in 0..MaxLen : Replace(i, n)
    \/ \E i \in Inode \cap {linked, fd} :
         Extend(i) \/ Rewrite(i) \/ \E n \in 0..MaxLen : Truncate(i, n)

-----------------------------------------------------------------------------
(* A request comes in *)

Receive(m, p, f) ==
    /\ pc = "idle"
    /\ method' = m
    /\ form' = f
    /\ target' = Sent(p, f)
    /\ pc' = "parsed"
    /\ UNCHANGED <<mode, fileVars, path, fd, len, body, outcome, historyVars>>

(* The handler returns; MmapFile is dropped, which unmaps and closes.      *)
Return(result) ==
    /\ outcome' = result
    /\ pc' = CASE result.kind = "ok" -> "done" [] OTHER -> result.kind
    /\ fd' = None
    /\ len' = 0
    /\ body' = <<>>

HandleDynamic(m, p) ==
    CASE m = "GET" /\ p = "/api/health" -> Json(New(200), <<"healthy">>)
      [] m = "GET" /\ p = "/api/metrics" ->
           Text(WithHeader(New(200), "Content-Type", "text/plain; version=0.0.4"), <<"metrics">>)
      [] m = "GET" /\ p = "/api/stats" -> Json(New(200), <<"stats">>)
      [] OTHER -> NotFoundResponse

(* clean_path; `&path[1..]` panics on an empty path.                       *)
Route ==
    /\ pc = "parsed"
    /\ path' = IF CleanPath(target) = <<>> THEN "" ELSE CleanPath(target)[1]
    /\ target' = <<>>
    /\ form' = <<>>
    /\ happened' = {}
    /\ seen' = {data[i] : i \in Inode \cap {linked}}
    /\ CASE mode = "DynamicPath" -> Return(Ok(HandleDynamic(method, path')))
         [] mode = "FastPath" /\ path' = "" -> Return(Failed("panic"))
         [] OTHER -> pc' = "exists" /\ UNCHANGED <<fd, len, body, outcome>>
    /\ UNCHANGED <<mode, fileVars, method>>

-----------------------------------------------------------------------------
(* handle_static_file *)

(* The inode a path names now.                                             *)
Lookup == CASE path = File -> linked [] path = "/" -> Dir [] OTHER -> None

Exists_Skipped ==               \* mutant: leaves it to open to find out
    /\ pc = "exists"
    /\ pc' = "open"
    /\ UNCHANGED <<mode, fileVars, requestVars, fd, len, body, outcome, historyVars>>

Exists ==
    /\ pc = "exists"
    /\ IF Lookup = None
       THEN Return(Ok(NotFoundResponse))
       ELSE pc' = "open" /\ UNCHANGED <<fd, len, body, outcome>>
    /\ UNCHANGED <<mode, fileVars, requestVars, historyVars>>

(* Any of the calls may fail on a file that is there (EACCES, EMFILE, EIO, *)
(* ENOMEM): Path::exists takes a failing stat for a missing file, the      *)
(* calls of MmapFile::new return Err.                                      *)
CallFails ==
    /\ \/ pc = "exists" /\ Return(Ok(NotFoundResponse))
       \/ pc \in {"open", "metadata", "mmap"} /\ Return(Failed("err"))
    /\ happened' = happened \cup {"failed"}
    /\ UNCHANGED <<mode, fileVars, requestVars, seen>>

Open ==
    /\ pc = "open"
    /\ IF Lookup = None
       THEN Return(Failed("err"))
       ELSE fd' = Lookup /\ pc' = "metadata" /\ UNCHANGED <<len, body, outcome>>
    /\ UNCHANGED <<mode, fileVars, requestVars, historyVars>>

(* A directory has a size of its own.                                      *)
Size(i) == IF i = Dir THEN PageSize ELSE Len(data[i])

SizeNow_ByPath == IF Lookup = None THEN 0 ELSE Size(Lookup)   \* mutant: fs::metadata(path)

SizeNow == Size(fd)

(* file.metadata(); an empty file is refused.                              *)
Metadata ==
    /\ pc = "metadata"
    /\ IF SizeNow = 0
       THEN Return(Failed("err"))
       ELSE len' = SizeNow /\ pc' = "mmap" /\ UNCHANGED <<fd, body, outcome>>
    /\ UNCHANGED <<mode, fileVars, requestVars, historyVars>>

(* mmap maps len bytes, whatever the file has by now; a directory cannot   *)
(* be mapped.                                                              *)
Mmap ==
    /\ pc = "mmap"
    /\ IF fd = Dir
       THEN Return(Failed("err"))
       ELSE pc' = "copy" /\ UNCHANGED <<fd, len, body, outcome>>
    /\ UNCHANGED <<mode, fileVars, requestVars, historyVars>>

CopyEnd_RoundsUp == ((len \div PageSize) + 1) * PageSize    \* mutant: one page too many

CopyEnd == len

(* Pages of the file; the last one is filled up with zeroes.               *)
Pages(i) == (Len(data[i]) + PageSize - 1) \div PageSize

PageAt(i, from) ==
    [k \in 1..Min({CopyEnd - from, PageSize}) |->
        IF from + k <= Len(data[i]) THEN data[i][from + k] ELSE 0]

(* set_body(as_slice()): the copy goes page by page.  A page past the end  *)
(* of the file raises SIGBUS, which ends the process.                      *)
Copy ==
    /\ pc = "copy"
    /\ Len(body) < CopyEnd
    /\ IF Len(body) \div PageSize < Pages(fd)
       THEN body' = body \o PageAt(fd, Len(body)) /\ UNCHANGED <<pc, fd, len, outcome>>
       ELSE Return(Failed("sigbus"))
    /\ UNCHANGED <<mode, fileVars, requestVars, historyVars>>

Respond ==
    /\ pc = "copy"
    /\ Len(body) >= CopyEnd
    /\ Return(Ok(WithHeader(SetBody(New(200), body), "Content-Type", "text/html")))
    /\ UNCHANGED <<mode, fileVars, requestVars, historyVars>>

Handler == Route \/ Exists \/ Open \/ Metadata \/ Mmap \/ Copy \/ Respond \/ CallFails

Next ==
    \/ \E m \in Methods, p \in Paths, f \in Form : Receive(m, p, f)
    \/ Handler
    \/ OtherProcess

Spec == Init /\ [][Next]_vars

-----------------------------------------------------------------------------
(* Properties *)

TypeOK ==
    /\ linked \in Inode \cup {None}
    /\ \A i \in Inode : data[i] \in Seq(0..changes) /\ Len(data[i]) <= MaxLen
    /\ pc \in {"idle", "parsed", "exists", "open", "metadata", "mmap", "copy", "done",
               "err", "panic", "sigbus"}
    /\ path \in Paths
    /\ fd \in Inode \cup {None, Dir}
    /\ len \in Nat
    /\ body \in Seq(0..changes) /\ Len(body) <= len
    /\ (fd = None) = (pc \notin {"metadata", "mmap", "copy"})

Returned == pc \in {"done", "err", "panic", "sigbus"}

(* A site that is changed by renaming complete files into place, or by     *)
(* appending, is served without error as long as no call fails, and every  *)
(* body is one version of the file that was current during the request,    *)
(* although exists, open, metadata, mmap and the copy of each page are     *)
(* separate steps.                                                         *)
RenameIsSafe ==
    /\ Returned
    /\ mode = "FastPath" /\ path = File
    /\ happened \subseteq {"replaced", "extended"}
    /\ seen # {} /\ <<>> \notin seen
    => pc = "done" /\ outcome.resp.status = 200 /\ outcome.resp.body \in seen

(* The copy faults only if the file was truncated in place.                *)
FaultNeedsTruncation == pc = "sigbus" => "truncated" \in happened

(* "The mapping will remain valid as long as the File is alive" (mmap.rs): *)
(* the copy does not fault.                                                *)
MappingStaysValid == pc # "sigbus"

KindNow(p) ==
    CASE p = File -> IF linked = None THEN "missing"
                     ELSE IF data[linked] = <<>> THEN "empty" ELSE "regular"
      [] p = "/" -> "dir"
      [] p = "" -> "nopath"
      [] OTHER -> "missing"

(* The handlers as module Http has them, on the files there are now.       *)
Atomic == INSTANCE Http WITH
            Conn <- {}, Request <- [method : Methods, path : Paths], Mode <- mode,
            FileKind <- [p \in Paths |-> KindNow(p)],
            FileLen <- IF linked = None THEN 1 ELSE Len(data[linked])

(* Where no file changes and no call fails, the steps amount to the single *)
(* step the event loop of module Reactor takes: the same outcome, status   *)
(* and size.                                                               *)
AtomicWhenQuiet ==
    Returned /\ happened = {} =>
        LET answer == Atomic!AnswerTo([method |-> method, path |-> path], TRUE) IN
        /\ answer.kind = outcome.kind
        /\ answer.kind = "ok" => answer.status = outcome.resp.status
        /\ answer.len > 1 => answer.len = Len(ToBytes(outcome.resp))

(* handle_static_file returns Err, which stops the event loop, only for    *)
(* static_dir itself, for a file that was empty at some moment of the      *)
(* request, for one that was removed after exists() had found it, or after *)
(* a call that failed: a path that names no file at all is always answered *)
(* with 404, whatever other processes rename, append or write meanwhile.   *)
ErrNeedsCause ==
    pc = "err" => \/ path = "/"
                  \/ <<>> \in seen
                  \/ happened \cap {"removed", "failed"} # {}

(* query_params gives back the form that a client encoded, with keys and   *)
(* values that hold the separators themselves.                             *)
ParamsRecovered == pc = "parsed" => QueryParams(target) = Meaning(form)

-----------------------------------------------------------------------------
(* What these rest on *)

(* The part of TypeOK that does not depend on what is asked for.           *)
FilesOK ==
    /\ mode \in {"FastPath", "DynamicPath"}
    /\ linked \in Inode \cup {None}
    /\ data \in [Inode -> Seq(Nat)]
    /\ changes \in Nat
    /\ pc \in {"idle", "parsed", "exists", "open", "metadata", "mmap", "copy", "done",
               "err", "panic", "sigbus"}
    /\ fd \in Inode \cup {None, Dir}
    /\ fd = None <=> pc \notin {"metadata", "mmap", "copy"}
    /\ pc = "copy" => fd \in Inode
    /\ len \in Nat
    /\ pc \notin {"mmap", "copy"} => len = 0
    /\ body \in Seq(Nat) /\ Len(body) <= len
    /\ seen \subseteq Seq(Nat)

(* Unless the file is truncated, the mapping stays within it.              *)
MappingWithinFile ==
    /\ pc \in {"mmap", "copy"} /\ fd \in Inode /\ "truncated" \notin happened
         => len <= Len(data[fd])
    /\ FaultNeedsTruncation

(* What File names and what is open are among the versions seen.           *)
VersionsSeen == Watched => \A i \in Inode \cap {linked, fd} : data[i] \in seen

RenamedOnly ==
    /\ mode = "FastPath" /\ path = File
    /\ happened \subseteq {"replaced", "extended"}
    /\ seen # {} /\ <<>> \notin seen

(* The first n bytes of s are those of v.                                  *)
SameUpTo(s, v, n) == \A k \in 1..n : s[k] = v[k]

(* The handler finds the file, and what it copies is the version there was *)
(* when it asked for the length.                                           *)
OneVersion ==
    RenamedOnly /\ Watched =>
        /\ linked # None
        /\ fd # Dir
        /\ pc \in {"mmap", "copy"} =>
             \E v \in seen : /\ Len(v) = len
                             /\ SameUpTo(data[fd], v, len)
                             /\ SameUpTo(body, v, Len(body))

(* The request: a target that a client sent, then its path.                *)
RequestKnown ==
    /\ method \in Methods /\ path \in Paths
    /\ pc = "parsed" => form \in Form /\ \E p \in Paths : target = Sent(p, form)
    /\ Watched => mode = "FastPath" /\ path # ""

(* As long as no file changes, what an earlier call found is still so.     *)
StillSo ==
    Watched /\ happened = {} =>
        /\ pc # "exists" => Lookup # None
        /\ pc \in {"metadata", "mmap", "copy"} => fd = Lookup
        /\ pc \in {"mmap", "copy"} => len = SizeNow /\ len # 0

QuietInvariant == RequestKnown /\ StillSo /\ AtomicWhenQuiet

HandlerInvariant ==
    FilesOK /\ MappingWithinFile /\ VersionsSeen /\ OneVersion /\ RenameIsSafe

(* Past exists(), the path is static_dir or names the file, unless the     *)
(* file was removed since; only static_dir opens as a directory.           *)
FoundBefore ==
    Watched /\ pc # "exists" =>
        /\ path = "/" \/ (path = File /\ (linked # None \/ "removed" \in happened))
        /\ fd = Dir => path = "/"

ErrInvariant == FoundBefore /\ ErrNeedsCause
=============================================================================
