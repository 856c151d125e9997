--------------------------- MODULE HandlersProofs ---------------------------
(***************************************************************************)
(* Proofs about the request handlers (module Handlers), for any number of  *)
(* inodes, any page size and any number of changes by other processes.     *)
(***************************************************************************)
EXTENDS Handlers, Recursion, SequenceTheorems

-----------------------------------------------------------------------------
(* Responses *)

IsResponse(resp) ==
    resp = [status |-> resp.status, body |-> resp.body, headers |-> resp.headers]

LEMMA NewFields ==
    ASSUME NEW st
    PROVE  IsResponse(New(st)) /\ New(st).status = st
  BY DEF New, IsResponse

LEMMA WithHeaderFields ==
    ASSUME NEW resp, NEW name, NEW value, IsResponse(resp)
    PROVE  /\ IsResponse(WithHeader(resp, name, value))
           /\ WithHeader(resp, name, value).status = resp.status
           /\ WithHeader(resp, name, value).body = resp.body
           /\ WithHeader(resp, name, value).headers = Insert(resp.headers, name, value)
  BY DEF WithHeader, IsResponse

(* set_body changes the body and a header, not the status.                 *)
LEMMA SetBodyFields ==
    ASSUME NEW resp, NEW S, NEW b \in Seq(S), IsResponse(resp)
    PROVE  /\ IsResponse(SetBody(resp, b))
           /\ SetBody(resp, b).status = resp.status
           /\ SetBody(resp, b).body = b
  <1>1. PICK w : w = WithHeader(resp, "Content-Length", Len(b))
    OBVIOUS
  <1>2. IsResponse(w) /\ w.status = resp.status
    BY <1>1, WithHeaderFields
  <1>3. SetBody(resp, b) = [w EXCEPT !.body = b]
    BY <1>1 DEF SetBody
  <1>4. PICK r : r = SetBody(resp, b)
    OBVIOUS
  <1>5. IsResponse(r) /\ r.status = w.status /\ r.body = b
    BY <1>2, <1>3, <1>4 DEF IsResponse
  <1> QED
    BY <1>2, <1>4, <1>5

(* The response to a static file.                                          *)
LEMMA StaticResponse ==
    ASSUME NEW b \in Seq(Nat)
    PROVE  LET resp == WithHeader(SetBody(New(200), b), "Content-Type", "text/html") IN
           resp.status = 200 /\ resp.body = b
  BY NewFields, SetBodyFields, WithHeaderFields

-----------------------------------------------------------------------------
(* Other processes *)

(* What any change leaves alone, and what it adds to the history.          *)
LEMMA ChangeSteps ==
    ASSUME NEW what, Change(what), FilesOK, data' \in [Inode -> Seq(Nat)]
    PROVE  /\ UNCHANGED <<mode, pc, method, path, fd, len, body, outcome>>
           /\ Watched
           /\ changes' \in Nat
           /\ happened' = happened \cup {what}
           /\ seen \subseteq seen' /\ seen' \subseteq Seq(Nat)
           /\ \A i \in Inode \cap {linked', fd} : data'[i] \in seen'
  <1>1. seen' = seen \cup {data'[i] : i \in Inode \cap {linked', fd}}
    BY DEF Change
  <1>2. \A i \in Inode : data'[i] \in Seq(Nat)
    OBVIOUS
  <1>3. seen \subseteq seen' /\ seen' \subseteq Seq(Nat)
    BY <1>1, <1>2 DEF FilesOK
  <1>4. \A i \in Inode \cap {linked', fd} : data'[i] \in seen'
    BY <1>1
  <1> QED
    BY <1>3, <1>4 DEF Change, requestVars, FilesOK

(* A change that is not a truncation leaves the open file as long as it    *)
(* was; a renaming or an extension leaves its bytes, too, and a name for   *)
(* the file.                                                               *)
LEMMA OtherProcessSteps ==
    ASSUME OtherProcess, FilesOK
    PROVE  /\ UNCHANGED <<mode, pc, method, path, fd, len, body, outcome>>
           /\ Watched
           /\ changes' \in Nat
           /\ linked' \in Inode \cup {None}
           /\ data' \in [Inode -> Seq(Nat)]
           /\ happened \subseteq happened'
           /\ seen \subseteq seen' /\ seen' \subseteq Seq(Nat)
           /\ \A i \in Inode \cap {linked', fd} : data'[i] \in seen'
           /\ "truncated" \notin happened' /\ fd \in Inode => Len(data[fd]) <= Len(data'[fd])
           /\ happened' \subseteq {"replaced", "extended"} =>
                /\ linked # None \/ fd \in Inode
                /\ linked # None => linked' # None
                /\ fd \in Inode => /\ Len(data[fd]) <= Len(data'[fd])
                                   /\ SameUpTo(data'[fd], data[fd], Len(data[fd]))
  <1>0. /\ linked \in Inode \cup {None} /\ data \in [Inode -> Seq(Nat)] /\ changes \in Nat
        /\ \A i \in Inode : data[i] \in Seq(Nat) /\ Len(data[i]) \in Nat
    <2>1. linked \in Inode \cup {None} /\ data \in [Inode -> Seq(Nat)] /\ changes \in Nat
      BY DEF FilesOK
    <2> QED
      BY <2>1, LenProperties
  <1>1. ASSUME Unlink
        PROVE  /\ data' = data /\ linked' = None /\ Change("removed")
    BY <1>1 DEF Unlink
  <1>2. CASE Unlink
    <2>1. "removed" \in happened'
      BY <1>1, <1>2, <1>0, ChangeSteps
    <2> QED
      BY <1>1, <1>2, <1>0, <2>1, ChangeSteps DEF SameUpTo
  <1>3. ASSUME NEW i \in Inode, NEW n \in 0..MaxLen, Replace(i, n)
        PROVE  /\ UNCHANGED <<mode, pc, method, path, fd, len, body, outcome>>
               /\ Watched
               /\ changes' \in Nat
               /\ linked' \in Inode \cup {None}
               /\ data' \in [Inode -> Seq(Nat)]
               /\ happened \subseteq happened'
               /\ seen \subseteq seen' /\ seen' \subseteq Seq(Nat)
               /\ \A j \in Inode \cap {linked', fd} : data'[j] \in seen'
               /\ fd \in Inode => data'[fd] = data[fd]
               /\ happened' \subseteq {"replaced", "extended"} => linked # None /\ linked' # None
    <2>1. i \notin {linked, fd} /\ linked' = i
      BY <1>3 DEF Replace
    <2>2. PICK new \in Seq(Nat) : data' = [data EXCEPT ![i] = new]
      <3>1. [k \in 1..n |-> changes + 1] \in Seq(Nat)
        BY <1>0, HandlersAssumption
      <3> QED
        BY <1>3, <3>1 DEF Replace
    <2>3. data' \in [Inode -> Seq(Nat)] /\ (fd \in Inode => data'[fd] = data[fd])
      BY <1>0, <2>1, <2>2
    <2>4. PICK what : what = CASE n = 0 -> "emptied" [] linked = None -> "created" [] OTHER -> "replaced"
      OBVIOUS
    <2>5. Change(what)
      BY <1>3, <2>4 DEF Replace
    <2>6. what \in {"replaced", "extended"} => linked # None
      BY <2>4
    <2>7. /\ UNCHANGED <<mode, pc, method, path, fd, len, body, outcome>>
          /\ Watched
          /\ changes' \in Nat
          /\ happened' = happened \cup {what}
          /\ seen \subseteq seen' /\ seen' \subseteq Seq(Nat)
          /\ \A j \in Inode \cap {linked', fd} : data'[j] \in seen'
      BY <2>3, <2>5, ChangeSteps
    <2> QED
      BY <2>1, <2>3, <2>6, <2>7, HandlersAssumption
  <1>4. ASSUME NEW i \in Inode \cap {linked, fd}, NEW n \in 0..MaxLen, Truncate(i, n)
        PROVE  /\ UNCHANGED <<mode, pc, method, path, fd, len, body, outcome>>
               /\ Watched
               /\ changes' \in Nat
               /\ linked' = linked
               /\ data' \in [Inode -> Seq(Nat)]
               /\ happened \subseteq happened'
               /\ seen \subseteq seen' /\ seen' \subseteq Seq(Nat)
               /\ \A j \in Inode \cap {linked', fd} : data'[j] \in seen'
               /\ "truncated" \in happened'
    <2>1. PICK new \in Seq(Nat) : data' = [data EXCEPT ![i] = new]
      <3>1. n < Len(data[i]) /\ data' = [data EXCEPT ![i] = SubSeq(data[i], 1, n)]
        BY <1>4 DEF Truncate
      <3>2. SubSeq(data[i], 1, n) \in Seq(Nat)
        BY <1>0, <3>1
      <3> QED
        BY <3>1, <3>2
    <2>2. data' \in [Inode -> Seq(Nat)]
      BY <1>0, <2>1
    <2> QED
      BY <1>4, <2>2, ChangeSteps DEF Truncate
  <1>5. ASSUME NEW i \in Inode \cap {linked, fd}, Extend(i)
        PROVE  /\ UNCHANGED <<mode, pc, method, path, fd, len, body, outcome>>
               /\ Watched
               /\ changes' \in Nat
               /\ linked' = linked
               /\ data' \in [Inode -> Seq(Nat)]
               /\ happened \subseteq happened'
               /\ seen \subseteq seen' /\ seen' \subseteq Seq(Nat)
               /\ \A j \in Inode \cap {linked', fd} : data'[j] \in seen'
               /\ fd \in Inode => /\ Len(data[fd]) <= Len(data'[fd])
                                  /\ SameUpTo(data'[fd], data[fd], Len(data[fd]))
               /\ linked # None \/ fd \in Inode
    <2>1. data' = [data EXCEPT ![i] = Append(data[i], changes + 1)]
      BY <1>5 DEF Extend
    <2>2. PICK new : new = Append(data[i], changes + 1)
      OBVIOUS
    <2>3. /\ new \in Seq(Nat) /\ Len(new) = Len(data[i]) + 1
          /\ \A k \in 1..Len(data[i]) : new[k] = data[i][k]
      BY <1>0, <2>2, AppendProperties
    <2>4. data' \in [Inode -> Seq(Nat)]
      BY <1>0, <2>1, <2>2, <2>3
    <2>5. \A j \in Inode : /\ Len(data[j]) <= Len(data'[j])
                           /\ SameUpTo(data'[j], data[j], Len(data[j]))
      <3> TAKE j \in Inode
      <3>1. CASE j = i
        <4>1. data'[j] = new
          BY <1>0, <2>1, <2>2, <3>1
        <4> QED
          BY <1>0, <2>3, <3>1, <4>1 DEF SameUpTo
      <3>2. CASE j # i
        <4>1. data'[j] = data[j]
          BY <1>0, <2>1, <3>2
        <4> QED
          BY <1>0, <4>1 DEF SameUpTo
      <3> QED
        BY <3>1, <3>2
    <2> QED
      BY <1>5, <2>4, <2>5, ChangeSteps, HandlersAssumption DEF Extend
  <1>6. ASSUME NEW i \in Inode \cap {linked, fd}, Rewrite(i)
        PROVE  /\ UNCHANGED <<mode, pc, method, path, fd, len, body, outcome>>
               /\ Watched
               /\ changes' \in Nat
               /\ linked' = linked
               /\ data' \in [Inode -> Seq(Nat)]
               /\ happened \subseteq happened'
               /\ seen \subseteq seen' /\ seen' \subseteq Seq(Nat)
               /\ \A j \in Inode \cap {linked', fd} : data'[j] \in seen'
               /\ fd \in Inode => Len(data[fd]) <= Len(data'[fd])
               /\ "rewritten" \in happened'
    <2>1. PICK new \in Seq(Nat) : data' = [data EXCEPT ![i] = new] /\ Len(new) = Len(data[i])
      <3>1. DOMAIN data[i] = 1..Len(data[i])
        BY <1>0
      <3>2. data' = [data EXCEPT ![i] = [k \in 1..Len(data[i]) |-> changes + 1]]
        BY <1>6, <3>1 DEF Rewrite
      <3>3. PICK m \in Nat : m = Len(data[i])
        BY <1>0
      <3>4. [k \in 1..m |-> changes + 1] \in Seq(Nat) /\ Len([k \in 1..m |-> changes + 1]) = m
        BY <1>0
      <3> QED
        BY <3>2, <3>3, <3>4
    <2>2. data' \in [Inode -> Seq(Nat)]
      BY <1>0, <2>1
    <2>3. \A j \in Inode : Len(data[j]) <= Len(data'[j])
      BY <1>0, <2>1
    <2> QED
      BY <1>6, <2>2, <2>3, ChangeSteps, SMTT(60) DEF Rewrite
  <1>8. CASE \E i \in Inode, n \in 0..MaxLen : Replace(i, n)
    <2>1. PICK i \in Inode, n \in 0..MaxLen : Replace(i, n)
      BY <1>8
    <2>2. fd \in Inode => /\ Len(data[fd]) <= Len(data'[fd])
                          /\ SameUpTo(data'[fd], data[fd], Len(data[fd]))
      BY <1>0, <1>3, <2>1 DEF SameUpTo
    <2> QED
      BY <1>3, <2>1, <2>2
  <1>9. CASE \E i \in Inode \cap {linked, fd} : \E n \in 0..MaxLen : Truncate(i, n)
    BY <1>0, <1>4, <1>9
  <1>10. CASE \E i \in Inode \cap {linked, fd} : Extend(i)
    BY <1>0, <1>5, <1>10
  <1>11. CASE \E i \in Inode \cap {linked, fd} : Rewrite(i)
    BY <1>0, <1>6, <1>11
  <1> QED
    BY <1>2, <1>8, <1>9, <1>10, <1>11 DEF OtherProcess

-----------------------------------------------------------------------------
(* The steps of the handler *)

(* A copy that is within the file finds its page.                          *)
LEMMA PageThere ==
    ASSUME NEW a \in Nat, NEW b \in Nat, a < b
    PROVE  a \div PageSize < (b + PageSize - 1) \div PageSize
  BY HandlersAssumption

(* The next page is at least a byte and at most what is left, and its      *)
(* bytes are those of the file as far as it goes.                          *)
LEMMA PageCopied ==
    ASSUME FilesOK, pc = "copy", Len(body) < CopyEnd
    PROVE  /\ body \o PageAt(fd, Len(body)) \in Seq(Nat)
           /\ Len(body \o PageAt(fd, Len(body))) <= len
           /\ \A k \in 1..Len(body) : (body \o PageAt(fd, Len(body)))[k] = body[k]
           /\ \A k \in 1..Len(body \o PageAt(fd, Len(body))) :
                k > Len(body) /\ len <= Len(data[fd])
                  => (body \o PageAt(fd, Len(body)))[k] = data[fd][k]
  <1>1. /\ len \in Nat /\ body \in Seq(Nat) /\ Len(body) \in Nat /\ Len(body) < len
        /\ fd \in Inode /\ data[fd] \in Seq(Nat) /\ Len(data[fd]) \in Nat
    <2>1. len \in Nat /\ body \in Seq(Nat) /\ fd \in Inode /\ data[fd] \in Seq(Nat) /\ Len(body) < len
      BY DEF FilesOK, CopyEnd
    <2> QED
      BY <2>1, LenProperties
  <1>2. PICK m \in Nat : m = Min({len - Len(body), PageSize}) /\ m <= len - Len(body)
    <2>1. PICK a \in Nat : a = len - Len(body)
      BY <1>1
    <2>2. PICK m \in {a, PageSize} : \A y \in {a, PageSize} : m <= y
      BY <2>1, HandlersAssumption
    <2>3. Min({a, PageSize}) \in {a, PageSize} /\ \A y \in {a, PageSize} : Min({a, PageSize}) <= y
      BY <2>2 DEF Min
    <2> QED
      BY <2>1, <2>3, HandlersAssumption
  <1>3. PICK page : page = PageAt(fd, Len(body))
    OBVIOUS
  <1>4. page = [k \in 1..m |-> IF Len(body) + k <= Len(data[fd]) THEN data[fd][Len(body) + k] ELSE 0]
    BY <1>2, <1>3 DEF PageAt, CopyEnd
  <1>5. \A k \in 1..m : Len(body) + k <= Len(data[fd]) => data[fd][Len(body) + k] \in Nat
    <2> SUFFICES ASSUME NEW k \in 1..m, Len(body) + k <= Len(data[fd])
                 PROVE  data[fd][Len(body) + k] \in Nat
      OBVIOUS
    <2>1. Len(body) + k \in 1..Len(data[fd])
      BY <1>1
    <2> QED
      BY <1>1, <2>1, ElementOfSeq
  <1>6. page \in Seq(Nat) /\ Len(page) = m
    BY <1>4, <1>5
  <1>7. PICK new : new = body \o page
    OBVIOUS
  <1>8. /\ new \in Seq(Nat) /\ Len(new) = Len(body) + m
        /\ \A k \in 1..Len(body) : new[k] = body[k]
        /\ \A k \in 1..m : new[Len(body) + k] = page[k]
    <2>1. new \in Seq(Nat) /\ Len(new) = Len(body) + m
      BY <1>1, <1>6, <1>7, ConcatProperties
    <2>2. \A k \in 1..(Len(body) + m) :
            new[k] = IF k <= Len(body) THEN body[k] ELSE page[k - Len(body)]
      BY <1>1, <1>6, <1>7
    <2>3. \A k \in 1..Len(body) : new[k] = body[k]
      BY <1>1, <2>2
    <2>4. ASSUME NEW k \in 1..m
          PROVE  new[Len(body) + k] = page[k]
      <3>1. /\ Len(body) + k \in 1..(Len(body) + m) /\ ~(Len(body) + k <= Len(body))
            /\ (Len(body) + k) - Len(body) = k
        BY <1>1
      <3> QED
        BY <2>2, <3>1
    <2> QED
      BY <2>1, <2>3, <2>4
  <1>9. Len(new) <= len
    BY <1>1, <1>2, <1>8
  <1>10. ASSUME NEW k \in 1..Len(new), k > Len(body), len <= Len(data[fd])
         PROVE  new[k] = data[fd][k]
    <2>1. PICK l \in 1..m : k = Len(body) + l
      <3>1. k - Len(body) \in 1..m /\ k = Len(body) + (k - Len(body))
        BY <1>1, <1>8, <1>10
      <3> QED
        BY <3>1
    <2>2. Len(body) + l <= Len(data[fd])
      BY <1>1, <1>2, <1>10, <2>1
    <2>3. page[l] = data[fd][Len(body) + l]
      BY <1>4, <2>2
    <2> QED
      BY <1>8, <2>1, <2>3
  <1> QED
    BY <1>3, <1>7, <1>8, <1>9, <1>10

LEMMA InitHandler == Init => HandlerInvariant
  <1> SUFFICES ASSUME Init
               PROVE  HandlerInvariant
    OBVIOUS
  <1>1. data \in [Inode -> Seq(Nat)]
    <2>1. PICK n \in 0..MaxLen : data = [i \in Inode |-> [k \in 1..n |-> 0]]
      BY DEF Init
    <2>2. [k \in 1..n |-> 0] \in Seq(Nat)
      BY HandlersAssumption
    <2> QED
      BY <2>1, <2>2
  <1>2. FilesOK
    <2>1. body \in Seq(Nat) /\ Len(body) <= len /\ len = 0
      <3>1. body = <<>> /\ len = 0
        BY DEF Init
      <3> QED
        BY <3>1, EmptySeq
    <2>2. fd = None /\ pc = "idle" /\ changes \in Nat /\ seen \subseteq Seq(Nat)
      BY DEF Init
    <2> QED
      BY <1>1, <2>1, <2>2 DEF Init, FilesOK
  <1> QED
    BY <1>2 DEF Init, HandlerInvariant, MappingWithinFile, FaultNeedsTruncation, VersionsSeen,
                OneVersion, RenameIsSafe, Watched, Returned

(* A change made by another process.                                       *)
LEMMA OtherProcessKeeps ==
    ASSUME HandlerInvariant, OtherProcess
    PROVE  HandlerInvariant'
  <1>0. FilesOK /\ MappingWithinFile /\ VersionsSeen /\ OneVersion
    BY DEF HandlerInvariant
  <1>1. /\ UNCHANGED <<mode, pc, method, path, fd, len, body, outcome>>
        /\ Watched
        /\ changes' \in Nat
        /\ linked' \in Inode \cup {None}
        /\ data' \in [Inode -> Seq(Nat)]
        /\ happened \subseteq happened'
        /\ seen \subseteq seen' /\ seen' \subseteq Seq(Nat)
        /\ \A i \in Inode \cap {linked', fd} : data'[i] \in seen'
        /\ "truncated" \notin happened' /\ fd \in Inode => Len(data[fd]) <= Len(data'[fd])
        /\ happened' \subseteq {"replaced", "extended"} =>
             /\ linked # None \/ fd \in Inode
             /\ linked # None => linked' # None
             /\ fd \in Inode => /\ Len(data[fd]) <= Len(data'[fd])
                                /\ SameUpTo(data'[fd], data[fd], Len(data[fd]))
    BY <1>0, OtherProcessSteps
  <1>2. FilesOK'
    BY <1>0, <1>1 DEF FilesOK
  <1>3. MappingWithinFile'
    <2>1. pc # "sigbus"
      BY <1>1 DEF Watched
    <2>2. ASSUME pc \in {"mmap", "copy"}, fd \in Inode, "truncated" \notin happened'
          PROVE  len <= Len(data'[fd])
      <3>1. len <= Len(data[fd]) /\ Len(data[fd]) <= Len(data'[fd])
        BY <1>0, <1>1, <2>2 DEF MappingWithinFile
      <3>2. data[fd] \in Seq(Nat) /\ data'[fd] \in Seq(Nat) /\ len \in Nat
        BY <1>0, <1>1, <2>2 DEF FilesOK
      <3>3. Len(data[fd]) \in Nat /\ Len(data'[fd]) \in Nat
        BY <3>2, LenProperties
      <3> QED
        BY <3>1, <3>2, <3>3
    <2> QED
      BY <1>1, <2>1, <2>2 DEF MappingWithinFile, FaultNeedsTruncation
  <1>4. VersionsSeen'
    BY <1>1 DEF VersionsSeen
  <1>5. OneVersion'
    <2> SUFFICES ASSUME RenamedOnly'
                 PROVE  /\ linked' # None
                        /\ fd # Dir
                        /\ pc \in {"mmap", "copy"} =>
                             \E v \in seen' : /\ Len(v) = len
                                              /\ SameUpTo(data'[fd], v, len)
                                              /\ SameUpTo(body, v, Len(body))
      BY <1>1 DEF OneVersion, SameUpTo
    <2>1. /\ mode = "FastPath" /\ path = File
          /\ happened' \subseteq {"replaced", "extended"}
          /\ <<>> \notin seen'
      BY <1>1 DEF RenamedOnly
    <2>2. linked # None \/ fd \in Inode
      BY <1>1, <2>1
    <2>3. seen # {}
      BY <1>0, <1>1, <2>2 DEF VersionsSeen, FilesOK
    <2>4. RenamedOnly
      BY <1>1, <2>1, <2>3 DEF RenamedOnly
    <2>5. /\ linked # None /\ fd # Dir
          /\ pc \in {"mmap", "copy"} =>
               \E v \in seen : /\ Len(v) = len
                               /\ SameUpTo(data[fd], v, len)
                               /\ SameUpTo(body, v, Len(body))
      BY <1>0, <1>1, <2>4 DEF OneVersion
    <2>6. linked' # None
      BY <1>1, <2>1, <2>5
    <2>7. ASSUME pc \in {"mmap", "copy"}
          PROVE  \E v \in seen' : /\ Len(v) = len
                                  /\ SameUpTo(data'[fd], v, len)
                                  /\ SameUpTo(body, v, Len(body))
      <3>1. PICK v \in seen : /\ Len(v) = len
                              /\ SameUpTo(data[fd], v, len)
                              /\ SameUpTo(body, v, Len(body))
        BY <2>5, <2>7
      <3>2. fd \in Inode
        BY <1>0, <2>5, <2>7 DEF FilesOK
      <3>3. SameUpTo(data'[fd], data[fd], Len(data[fd]))
        BY <1>1, <2>1, <3>2
      <3>4. len <= Len(data[fd])
        BY <1>0, <1>1, <2>1, <2>7, <3>2 DEF MappingWithinFile
      <3>5. len \in Nat /\ Len(data[fd]) \in Nat
        <4>1. len \in Nat /\ data[fd] \in Seq(Nat)
          BY <1>0, <3>2 DEF FilesOK
        <4> QED
          BY <4>1, LenProperties
      <3>6. SameUpTo(data'[fd], v, len)
        BY <3>1, <3>3, <3>4, <3>5 DEF SameUpTo
      <3> QED
        BY <1>1, <3>1, <3>6
    <2> QED
      BY <2>5, <2>6, <2>7
  <1>6. RenameIsSafe'
    BY <1>1 DEF RenameIsSafe, Watched, Returned
  <1> QED
    BY <1>2, <1>3, <1>4, <1>5, <1>6 DEF HandlerInvariant

(* The handler returns a response or an error.                             *)
LEMMA ReturnKeeps ==
    ASSUME HandlerInvariant, NEW result, Return(result),
           result.kind \in {"ok", "err", "panic", "sigbus"},
           UNCHANGED <<mode, fileVars>>, seen' \subseteq Seq(Nat),
           result.kind = "sigbus" => "truncated" \in happened',
           RenamedOnly' => /\ result.kind = "ok"
                           /\ result.resp.status = 200
                           /\ result.resp.body \in seen'
    PROVE  HandlerInvariant'
  <1>0. FilesOK
    BY DEF HandlerInvariant
  <1>1. /\ fd' = None /\ len' = 0 /\ body' = <<>> /\ outcome' = result
        /\ mode' = mode /\ linked' = linked /\ data' = data /\ changes' = changes
    BY DEF Return, fileVars
  <1>2. /\ pc' = IF result.kind = "ok" THEN "done" ELSE result.kind
        /\ pc' \in {"done", "err", "panic", "sigbus"}
    BY DEF Return
  <1>3. FilesOK'
    <2>1. body' \in Seq(Nat) /\ Len(body') <= len' /\ len' = 0
      BY <1>1, EmptySeq
    <2>2. pc' \in {"idle", "parsed", "exists", "open", "metadata", "mmap", "copy", "done",
                   "err", "panic", "sigbus"}
          /\ pc' \notin {"metadata", "mmap", "copy"}
      BY <1>2
    <2> QED
      BY <1>0, <1>1, <2>1, <2>2 DEF FilesOK
  <1>4. MappingWithinFile'
    BY <1>2 DEF MappingWithinFile, FaultNeedsTruncation
  <1>5. VersionsSeen' /\ OneVersion'
    BY <1>2 DEF VersionsSeen, OneVersion, Watched
  <1>6. RenameIsSafe'
    BY <1>1, <1>2 DEF RenameIsSafe, RenamedOnly
  <1> QED
    BY <1>3, <1>4, <1>5, <1>6 DEF HandlerInvariant

(* clean_path, and the choice of the handler.                              *)
LEMMA RouteKeeps ==
    ASSUME HandlerInvariant, Route
    PROVE  HandlerInvariant'
  <1>0. FilesOK
    BY DEF HandlerInvariant
  <1>1. /\ pc = "parsed" /\ mode' = mode /\ UNCHANGED fileVars
        /\ happened' = {}
        /\ seen' = {data[i] : i \in Inode \cap {linked}}
        /\ linked' = linked /\ data' = data /\ changes' = changes
    BY DEF Route, fileVars
  <1>2. seen' \subseteq Seq(Nat)
    BY <1>0, <1>1 DEF FilesOK
  <1>3. CASE mode = "DynamicPath"
    <2>1. Return(Ok(HandleDynamic(method, path')))
      BY <1>3 DEF Route
    <2>2. Ok(HandleDynamic(method, path')).kind = "ok"
      BY DEF Ok
    <2>3. ~RenamedOnly'
      BY <1>1, <1>3 DEF RenamedOnly
    <2> QED
      BY <1>1, <1>2, <2>1, <2>2, <2>3, ReturnKeeps
  <1>4. CASE mode = "FastPath" /\ path' = ""
    <2>1. Return(Failed("panic"))
      BY <1>4 DEF Route
    <2>2. Failed("panic").kind = "panic"
      BY DEF Failed
    <2>3. ~RenamedOnly'
      BY <1>4 DEF RenamedOnly, File
    <2> QED
      BY <1>1, <1>2, <2>1, <2>2, <2>3, ReturnKeeps
  <1>5. CASE mode = "FastPath" /\ path' # ""
    <2>1. pc' = "exists" /\ UNCHANGED <<fd, len, body, outcome>>
      BY <1>5 DEF Route
    <2>2. fd = None
      BY <1>0, <1>1 DEF FilesOK
    <2>3. FilesOK'
      BY <1>0, <1>1, <1>2, <2>1, <2>2 DEF FilesOK
    <2>4. MappingWithinFile'
      BY <2>1 DEF MappingWithinFile, FaultNeedsTruncation
    <2>5. VersionsSeen'
      BY <1>0, <1>1, <2>1, <2>2, HandlersAssumption DEF VersionsSeen
    <2>6. OneVersion'
      BY <1>0, <1>1, <2>1, <2>2, HandlersAssumption DEF OneVersion, RenamedOnly
    <2>7. RenameIsSafe'
      BY <2>1 DEF RenameIsSafe, Returned
    <2> QED
      BY <2>3, <2>4, <2>5, <2>6, <2>7 DEF HandlerInvariant
  <1> QED
    BY <1>0, <1>3, <1>4, <1>5 DEF FilesOK

(* A step of handle_static_file that goes on leaves the rest as it is.     *)
LEMMA ExistsKeeps ==
    ASSUME HandlerInvariant, Exists
    PROVE  HandlerInvariant'
  <1>0. FilesOK /\ VersionsSeen /\ OneVersion
    BY DEF HandlerInvariant
  <1>1. /\ pc = "exists" /\ UNCHANGED <<mode, fileVars>> /\ happened' = happened /\ seen' = seen
        /\ path' = path /\ linked' = linked /\ data' = data /\ changes' = changes
    BY DEF Exists, fileVars, requestVars, historyVars
  <1>2. CASE Lookup = None
    <2>1. Return(Ok(NotFoundResponse))
      BY <1>2 DEF Exists
    <2>2. Ok(NotFoundResponse).kind = "ok"
      BY DEF Ok
    <2>3. ~RenamedOnly'
      BY <1>0, <1>1, <1>2 DEF RenamedOnly, OneVersion, Watched, Lookup, File
    <2>4. seen' \subseteq Seq(Nat)
      BY <1>0, <1>1 DEF FilesOK
    <2> QED
      BY <1>1, <2>1, <2>2, <2>3, <2>4, ReturnKeeps
  <1>3. CASE Lookup # None
    <2>1. pc' = "open" /\ UNCHANGED <<fd, len, body, outcome>>
      BY <1>3 DEF Exists
    <2>2. FilesOK'
      BY <1>0, <1>1, <2>1 DEF FilesOK
    <2>3. MappingWithinFile' /\ VersionsSeen' /\ OneVersion'
      BY <1>0, <1>1, <2>1 DEF MappingWithinFile, FaultNeedsTruncation, VersionsSeen, OneVersion,
                             RenamedOnly, Watched
    <2>4. RenameIsSafe'
      BY <2>1 DEF RenameIsSafe, Returned
    <2> QED
      BY <2>2, <2>3, <2>4 DEF HandlerInvariant
  <1> QED
    BY <1>2, <1>3

LEMMA OpenKeeps ==
    ASSUME HandlerInvariant, Open
    PROVE  HandlerInvariant'
  <1>0. FilesOK /\ VersionsSeen /\ OneVersion
    BY DEF HandlerInvariant
  <1>1. /\ pc = "open" /\ UNCHANGED <<mode, fileVars>> /\ happened' = happened /\ seen' = seen
        /\ path' = path /\ linked' = linked /\ data' = data /\ changes' = changes
    BY DEF Open, fileVars, requestVars, historyVars
  <1>2. CASE Lookup = None
    <2>1. Return(Failed("err"))
      BY <1>2 DEF Open
    <2>2. Failed("err").kind = "err"
      BY DEF Failed
    <2>3. ~RenamedOnly'
      BY <1>0, <1>1, <1>2 DEF RenamedOnly, OneVersion, Watched, Lookup, File
    <2>4. seen' \subseteq Seq(Nat)
      BY <1>0, <1>1 DEF FilesOK
    <2> QED
      BY <1>1, <2>1, <2>2, <2>3, <2>4, ReturnKeeps
  <1>3. CASE Lookup # None
    <2>1. pc' = "metadata" /\ fd' = Lookup /\ UNCHANGED <<len, body, outcome>>
      BY <1>3 DEF Open
    <2>2. /\ fd' \in Inode \cup {Dir} /\ fd' # None
          /\ path = File => fd' = linked
          /\ fd' \in Inode => fd' = linked
      <3>1. Lookup \in {linked, Dir, None} /\ (path = File => Lookup = linked)
        BY DEF Lookup, File
      <3> QED
        BY <1>0, <1>3, <2>1, <3>1, HandlersAssumption DEF FilesOK
    <2>3. FilesOK'
      BY <1>0, <1>1, <2>1, <2>2, HandlersAssumption DEF FilesOK
    <2>4. MappingWithinFile'
      BY <2>1 DEF MappingWithinFile, FaultNeedsTruncation
    <2>5. VersionsSeen'
      BY <1>0, <1>1, <2>1, <2>2 DEF VersionsSeen, Watched
    <2>6. OneVersion'
      BY <1>0, <1>1, <2>1, <2>2, HandlersAssumption DEF OneVersion, RenamedOnly, Watched, FilesOK
    <2>7. RenameIsSafe'
      BY <2>1 DEF RenameIsSafe, Returned
    <2> QED
      BY <2>3, <2>4, <2>5, <2>6, <2>7 DEF HandlerInvariant
  <1> QED
    BY <1>2, <1>3

LEMMA MetadataKeeps ==
    ASSUME HandlerInvariant, Metadata
    PROVE  HandlerInvariant'
  <1>0. FilesOK /\ VersionsSeen /\ OneVersion
    BY DEF HandlerInvariant
  <1>1. /\ pc = "metadata" /\ UNCHANGED <<mode, fileVars>> /\ happened' = happened /\ seen' = seen
        /\ path' = path /\ linked' = linked /\ data' = data /\ changes' = changes
    BY DEF Metadata, fileVars, requestVars, historyVars
  <1>2. /\ fd \in Inode \cup {Dir}
        /\ fd \in Inode => /\ SizeNow = Len(data[fd])
                           /\ data[fd] \in Seq(Nat) /\ data[fd] \in seen
                           /\ Len(data[fd]) \in Nat
        /\ fd = Dir => SizeNow = PageSize
    <2>1. fd \in Inode \cup {Dir}
      BY <1>0, <1>1 DEF FilesOK
    <2>2. fd \in Inode => data[fd] \in Seq(Nat) /\ data[fd] \in seen
      BY <1>0, <1>1 DEF FilesOK, VersionsSeen, Watched
    <2> QED
      BY <2>1, <2>2, LenProperties, HandlersAssumption DEF SizeNow, Size
  <1>3. RenamedOnly => fd \in Inode /\ data[fd] # <<>>
    BY <1>0, <1>1, <1>2 DEF OneVersion, Watched, RenamedOnly
  <1>4. CASE SizeNow = 0
    <2>1. Return(Failed("err"))
      BY <1>4 DEF Metadata
    <2>2. Failed("err").kind = "err"
      BY DEF Failed
    <2>3. ~RenamedOnly'
      <3>1. RenamedOnly' => RenamedOnly
        BY <1>1 DEF RenamedOnly
      <3>2. fd \in Inode => data[fd] = <<>>
        BY <1>2, <1>4, EmptySeq
      <3> QED
        BY <1>3, <3>1, <3>2
    <2>4. seen' \subseteq Seq(Nat)
      BY <1>0, <1>1 DEF FilesOK
    <2> QED
      BY <1>1, <2>1, <2>2, <2>3, <2>4, ReturnKeeps
  <1>5. CASE SizeNow # 0
    <2>1. pc' = "mmap" /\ len' = SizeNow /\ UNCHANGED <<fd, body, outcome>>
      BY <1>5 DEF Metadata
    <2>2. Len(body) = 0
      <3>1. body \in Seq(Nat) /\ Len(body) <= 0
        BY <1>0, <1>1 DEF FilesOK
      <3> QED
        BY <3>1, LenProperties
    <2>3. FilesOK'
      BY <1>0, <1>1, <1>2, <2>1, <2>2, HandlersAssumption DEF FilesOK
    <2>4. MappingWithinFile'
      BY <1>1, <1>2, <2>1 DEF MappingWithinFile, FaultNeedsTruncation
    <2>5. VersionsSeen'
      BY <1>0, <1>1, <2>1 DEF VersionsSeen, Watched
    <2>6. OneVersion'
      BY <1>0, <1>1, <1>2, <1>3, <2>1, <2>2 DEF OneVersion, RenamedOnly, Watched, SameUpTo
    <2>7. RenameIsSafe'
      BY <2>1 DEF RenameIsSafe, Returned
    <2> QED
      BY <2>3, <2>4, <2>5, <2>6, <2>7 DEF HandlerInvariant
  <1> QED
    BY <1>4, <1>5

LEMMA MmapKeeps ==
    ASSUME HandlerInvariant, Mmap
    PROVE  HandlerInvariant'
  <1>0. FilesOK /\ MappingWithinFile /\ VersionsSeen /\ OneVersion
    BY DEF HandlerInvariant
  <1>1. /\ pc = "mmap" /\ UNCHANGED <<mode, fileVars>> /\ happened' = happened /\ seen' = seen
        /\ path' = path /\ linked' = linked /\ data' = data /\ changes' = changes
    BY DEF Mmap, fileVars, requestVars, historyVars
  <1>2. CASE fd = Dir
    <2>1. Return(Failed("err"))
      BY <1>2 DEF Mmap
    <2>2. Failed("err").kind = "err"
      BY DEF Failed
    <2>3. ~RenamedOnly'
      BY <1>0, <1>1, <1>2 DEF RenamedOnly, OneVersion, Watched
    <2>4. seen' \subseteq Seq(Nat)
      BY <1>0, <1>1 DEF FilesOK
    <2> QED
      BY <1>1, <2>1, <2>2, <2>3, <2>4, ReturnKeeps
  <1>3. CASE fd # Dir
    <2>1. pc' = "copy" /\ UNCHANGED <<fd, len, body, outcome>>
      BY <1>3 DEF Mmap
    <2>2. FilesOK'
      BY <1>0, <1>1, <1>3, <2>1 DEF FilesOK
    <2>3. MappingWithinFile' /\ VersionsSeen' /\ OneVersion'
      BY <1>0, <1>1, <2>1 DEF MappingWithinFile, FaultNeedsTruncation, VersionsSeen, OneVersion,
                             RenamedOnly, Watched, SameUpTo
    <2>4. RenameIsSafe'
      BY <2>1 DEF RenameIsSafe, Returned
    <2> QED
      BY <2>2, <2>3, <2>4 DEF HandlerInvariant
  <1> QED
    BY <1>2, <1>3

(* Within the mapping, Len(body) < len <= Len(data[fd]): the page is there.*)
LEMMA CopyKeeps ==
    ASSUME HandlerInvariant, Copy
    PROVE  HandlerInvariant'
  <1>0. FilesOK /\ MappingWithinFile /\ VersionsSeen /\ OneVersion
    BY DEF HandlerInvariant
  <1>1. /\ pc = "copy" /\ UNCHANGED <<mode, fileVars>> /\ happened' = happened /\ seen' = seen
        /\ path' = path /\ linked' = linked /\ data' = data /\ changes' = changes
        /\ Len(body) < CopyEnd
    BY DEF Copy, fileVars, requestVars, historyVars
  <1>2. /\ fd \in Inode /\ len \in Nat /\ Len(data[fd]) \in Nat /\ Len(body) \in Nat
        /\ body \in Seq(Nat)
    <2>1. fd \in Inode /\ len \in Nat /\ data[fd] \in Seq(Nat) /\ body \in Seq(Nat)
      BY <1>0, <1>1 DEF FilesOK
    <2> QED
      BY <2>1, LenProperties
  <1>3. "truncated" \notin happened => len <= Len(data[fd])
    BY <1>0, <1>1, <1>2 DEF MappingWithinFile
  <1>4. "truncated" \notin happened => Len(body) \div PageSize < Pages(fd)
    BY <1>1, <1>2, <1>3, PageThere DEF Pages, CopyEnd
  <1>5. CASE ~(Len(body) \div PageSize < Pages(fd))
    <2>1. Return(Failed("sigbus"))
      BY <1>5 DEF Copy
    <2>2. Failed("sigbus").kind = "sigbus"
      BY DEF Failed
    <2>3. "truncated" \in happened'
      BY <1>1, <1>4, <1>5
    <2>4. ~RenamedOnly'
      BY <2>3 DEF RenamedOnly
    <2>5. seen' \subseteq Seq(Nat)
      BY <1>0, <1>1 DEF FilesOK
    <2> QED
      BY <1>1, <2>1, <2>2, <2>3, <2>4, <2>5, ReturnKeeps
  <1>6. CASE Len(body) \div PageSize < Pages(fd)
    <2>1. body' = body \o PageAt(fd, Len(body)) /\ UNCHANGED <<pc, fd, len, outcome>>
      BY <1>6 DEF Copy
    <2>2. /\ body' \in Seq(Nat) /\ Len(body') <= len
          /\ \A k \in 1..Len(body) : body'[k] = body[k]
          /\ \A k \in 1..Len(body') : k > Len(body) /\ len <= Len(data[fd]) => body'[k] = data[fd][k]
      BY <1>0, <1>1, <2>1, PageCopied
    <2>3. FilesOK'
      BY <1>0, <1>1, <2>1, <2>2 DEF FilesOK
    <2>4. MappingWithinFile' /\ VersionsSeen'
      BY <1>0, <1>1, <2>1 DEF MappingWithinFile, FaultNeedsTruncation, VersionsSeen, Watched
    <2>5. OneVersion'
      <3> SUFFICES ASSUME RenamedOnly
                   PROVE  /\ linked # None /\ fd # Dir
                          /\ \E v \in seen : /\ Len(v) = len
                                             /\ SameUpTo(data[fd], v, len)
                                             /\ SameUpTo(body', v, Len(body'))
        BY <1>1, <2>1 DEF OneVersion, RenamedOnly, SameUpTo
      <3>1. linked # None /\ fd # Dir
        BY <1>0, <1>1 DEF OneVersion, Watched
      <3>2. PICK v \in seen : /\ Len(v) = len
                              /\ SameUpTo(data[fd], v, len)
                              /\ SameUpTo(body, v, Len(body))
        BY <1>0, <1>1 DEF OneVersion, Watched
      <3>3. len <= Len(data[fd])
        BY <1>3 DEF RenamedOnly
      <3>4. ASSUME NEW k \in 1..Len(body')
            PROVE  body'[k] = v[k]
        <4>0. Len(body') \in Nat
          BY <2>2, LenProperties
        <4>1. CASE k <= Len(body)
          <5>1. k \in 1..Len(body)
            BY <1>2, <4>0, <4>1
          <5> QED
            BY <2>2, <3>2, <5>1 DEF SameUpTo
        <4>2. CASE k > Len(body)
          <5>1. k \in 1..len
            BY <1>2, <2>2, <4>0
          <5> QED
            BY <2>2, <3>2, <3>3, <4>2, <5>1 DEF SameUpTo
        <4> QED
          BY <1>2, <4>0, <4>1, <4>2
      <3> QED
        BY <3>1, <3>2, <3>4 DEF SameUpTo
    <2>6. RenameIsSafe'
      BY <1>1, <2>1 DEF RenameIsSafe, Returned
    <2> QED
      BY <2>3, <2>4, <2>5, <2>6 DEF HandlerInvariant
  <1> QED
    BY <1>5, <1>6

(* The body that is sent is the version of which it is a prefix.           *)
LEMMA RespondKeeps ==
    ASSUME HandlerInvariant, Respond
    PROVE  HandlerInvariant'
  <1>0. FilesOK /\ OneVersion
    BY DEF HandlerInvariant
  <1>1. /\ pc = "copy" /\ UNCHANGED <<mode, fileVars>> /\ happened' = happened /\ seen' = seen
        /\ path' = path /\ Len(body) >= CopyEnd
    BY DEF Respond, fileVars, requestVars, historyVars
  <1>2. PICK resp : resp = WithHeader(SetBody(New(200), body), "Content-Type", "text/html")
    OBVIOUS
  <1>3. body \in Seq(Nat) /\ Len(body) = len /\ len \in Nat /\ seen \subseteq Seq(Nat)
    <2>1. body \in Seq(Nat) /\ Len(body) <= len /\ len \in Nat /\ seen \subseteq Seq(Nat)
      BY <1>0 DEF FilesOK
    <2> QED
      BY <1>1, <2>1, LenProperties DEF CopyEnd
  <1>4. resp.status = 200 /\ resp.body = body
    BY <1>2, <1>3, StaticResponse
  <1>5. Return(Ok(resp))
    BY <1>2 DEF Respond
  <1>6. Ok(resp).kind = "ok" /\ Ok(resp).resp = resp
    BY DEF Ok
  <1>7. ASSUME RenamedOnly'
        PROVE  body \in seen'
    <2>1. RenamedOnly
      BY <1>1, <1>7 DEF RenamedOnly
    <2>2. PICK v \in seen : Len(v) = len /\ SameUpTo(body, v, Len(body))
      BY <1>0, <1>1, <2>1 DEF OneVersion, Watched
    <2>3. v \in Seq(Nat) /\ Len(v) = Len(body) /\ \A k \in 1..Len(v) : v[k] = body[k]
      BY <1>3, <2>2 DEF SameUpTo
    <2>4. v = body
      BY <1>3, <2>3, SeqEqual
    <2> QED
      BY <1>1, <2>4
  <1> QED
    BY <1>1, <1>3, <1>4, <1>5, <1>6, <1>7, ReturnKeeps

LEMMA CallFailsKeeps ==
    ASSUME HandlerInvariant, CallFails
    PROVE  HandlerInvariant'
  <1>1. UNCHANGED <<mode, fileVars>> /\ seen' = seen /\ "failed" \in happened'
    BY DEF CallFails
  <1>2. ~RenamedOnly'
    BY <1>1 DEF RenamedOnly
  <1>3. seen' \subseteq Seq(Nat)
    BY <1>1 DEF HandlerInvariant, FilesOK
  <1>4. PICK result : Return(result) /\ result.kind \in {"ok", "err"}
    <2>1. Ok(NotFoundResponse).kind = "ok" /\ Failed("err").kind = "err"
      BY DEF Ok, Failed
    <2> QED
      BY <2>1 DEF CallFails
  <1> QED
    BY <1>1, <1>2, <1>3, <1>4, ReturnKeeps

LEMMA NextHandler ==
    ASSUME HandlerInvariant, [Next]_vars
    PROVE  HandlerInvariant'
  <1>1. ASSUME NEW m \in Methods, NEW p \in Paths, NEW f \in Form, Receive(m, p, f)
        PROVE  HandlerInvariant'
    <2>1. /\ pc = "idle" /\ pc' = "parsed"
          /\ UNCHANGED <<mode, linked, data, changes, fd, len, body, seen>>
      BY <1>1 DEF Receive, fileVars, historyVars
    <2>2. FilesOK'
      BY <2>1 DEF HandlerInvariant, FilesOK
    <2> QED
      BY <2>1, <2>2 DEF HandlerInvariant, MappingWithinFile, FaultNeedsTruncation, VersionsSeen,
                        OneVersion, Watched, RenameIsSafe, Returned
  <1>2. CASE Handler
    BY <1>2, RouteKeeps, ExistsKeeps, OpenKeeps, MetadataKeeps, MmapKeeps, CopyKeeps, RespondKeeps,
       CallFailsKeeps
       DEF Handler
  <1>3. CASE OtherProcess
    BY <1>3, OtherProcessKeeps
  <1>4. CASE UNCHANGED vars
    <2>1. /\ mode' = mode /\ linked' = linked /\ data' = data /\ changes' = changes /\ pc' = pc
          /\ path' = path /\ fd' = fd /\ len' = len /\ body' = body /\ outcome' = outcome
          /\ happened' = happened /\ seen' = seen
      BY <1>4 DEF vars, fileVars, requestVars, historyVars
    <2>2. FilesOK'
      BY <2>1 DEF HandlerInvariant, FilesOK
    <2>3. MappingWithinFile' /\ VersionsSeen'
      BY <2>1 DEF HandlerInvariant, MappingWithinFile, FaultNeedsTruncation, VersionsSeen, Watched
    <2>4. OneVersion'
      BY <2>1 DEF HandlerInvariant, OneVersion, RenamedOnly, SameUpTo, Watched
    <2>5. RenameIsSafe'
      BY <2>1 DEF HandlerInvariant, RenameIsSafe, Returned
    <2> QED
      BY <2>2, <2>3, <2>4, <2>5 DEF HandlerInvariant
  <1> QED
    BY <1>1, <1>2, <1>3, <1>4 DEF Next

-----------------------------------------------------------------------------
(* Sequences put together from pieces *)

LEMMA FlattenIs ==
    ASSUME NEW S, NEW n \in Nat, NEW p \in [1..n -> Seq(S)]
    PROVE  \E e \in [0..n -> Seq(S)] :
             /\ e[0] = <<>> /\ \A i \in 1..n : e[i] = e[i - 1] \o p[i]
             /\ FlattenSeq(p) = e[n]
  <1>0. Len(p) = n
    OBVIOUS
  <1> DEFINE X == Seq(S)
             c == <<>>
             g == [i \in 1..n |-> [v \in X |-> v \o p[i]]]
  <1>1. c \in X /\ g \in [1..n -> [X -> X]]
    <2>1. ASSUME NEW i \in 1..n, NEW v \in X
          PROVE  v \o p[i] \in X
      BY ConcatProperties
    <2> QED
      BY <2>1, EmptySeq
  <1> HIDE DEF X, c, g
  <1>2. PICK e \in [0..n -> X] : Stepwise(e, n, c, g)
    BY <1>1, StepwiseExists
  <1>3. ASSUME NEW i \in 1..n
        PROVE  e[i] = e[i - 1] \o p[i]
    <2>1. e[i - 1] \in X
      OBVIOUS
    <2> QED
      BY <1>2, <2>1 DEF Stepwise, g
  <1>4. e[0] = <<>>
    BY <1>2 DEF Stepwise, c
  <1>5. FlattenSeq(p) = e[n]
    <2>1. CASE n = 0
      <3>1. p = <<>> /\ FlattenSeq(p) = p
        BY <1>0, <2>1 DEF FlattenSeq
      <3> QED
        BY <1>4, <2>1, <3>1
    <2>2. CASE n > 0
      <3> DEFINE Body(f) == [i \in 1..n |-> IF i = 1 THEN p[i] ELSE f[i - 1] \o p[i]]
                 d == [i \in 1..n |-> e[i]]
      <3>1. e[1] = p[1]
        <4>1. 1 \in 1..n /\ 1 - 1 = 0
          BY <2>2
        <4>2. e[1] = <<>> \o p[1] /\ p[1] \in Seq(S)
          BY <1>3, <1>4, <4>1
        <4> QED
          BY <4>2, ConcatEmptySeq
      <3>2. d = Body(d)
        <4>1. ASSUME NEW i \in 1..n
              PROVE  d[i] = IF i = 1 THEN p[i] ELSE d[i - 1] \o p[i]
          <5>1. i # 1 => i - 1 \in 1..n
            OBVIOUS
          <5> QED
            BY <1>3, <3>1, <5>1
        <4> QED
          BY <4>1
      <3> DEFINE h == CHOOSE h : h = Body(h)
      <3>3. h = Body(h)
        BY <3>2
      <3>4. FlattenSeq(p) = h[n]
        BY <1>0, <2>2 DEF FlattenSeq
      <3> HIDE DEF h
      <3>5. \A i \in 1..n : h[i] = IF i = 1 THEN p[i] ELSE h[i - 1] \o p[i]
        BY <3>3, ZenonT(60)
      <3> DEFINE T == {i \in 0..n : i = 0 \/ h[i] = e[i]}
      <3>6. 0 \in T /\ \A i \in 0..(n - 1) : i \in T => i + 1 \in T
        <4>1. ASSUME NEW i \in 0..(n - 1), i \in T
              PROVE  i + 1 \in T
          <5>1. i + 1 \in 1..n /\ (i + 1) - 1 = i /\ i + 1 \in 0..n
            OBVIOUS
          <5>2. CASE i = 0
            <6>1. h[i + 1] = p[1] /\ i + 1 = 1
              BY <3>5, <5>1, <5>2
            <6> QED
              BY <3>1, <5>1, <6>1
          <5>3. CASE i # 0
            <6>1. i + 1 # 1 /\ h[i] = e[i]
              BY <4>1, <5>3
            <6>2. h[i + 1] = h[i] \o p[i + 1]
              BY <3>5, <5>1, <6>1
            <6>3. e[i + 1] = e[i] \o p[i + 1]
              BY <1>3, <5>1
            <6> QED
              BY <5>1, <6>1, <6>2, <6>3
          <5> QED
            BY <5>2, <5>3
        <4>2. 0 \in T
          OBVIOUS
        <4> QED
          BY <4>1, <4>2
      <3> HIDE DEF T
      <3>7. \A i \in 0..n : i \in T
        BY <3>6, UpTo, ZenonT(60)
      <3>8. n \in T
        BY <3>7
      <3> QED
        BY <2>2, <3>4, <3>8 DEF T
    <2> QED
      BY <2>1, <2>2
  <1> QED
    BY <1>3, <1>4, <1>5 DEF X

(* Where the pieces of a sequence lie: the i-th ends at at[i].             *)
Lies(q, p, n, at) ==
    /\ at[0] = 0 /\ \A i \in 1..n : at[i] = at[i - 1] + Len(p[i])
    /\ Len(q) = at[n]
    /\ \A i \in 1..n : \A y \in 1..Len(p[i]) : q[at[i - 1] + y] = p[i][y]
    /\ \A x \in 1..at[n] : \E i \in 1..n : at[i - 1] < x /\ x <= at[i]
    /\ \A i, j \in 0..n : i <= j => at[i] <= at[j]

(* The positions behind an offset a.                                       *)
LEMMA Offset ==
    ASSUME NEW a \in Nat, NEW b \in Nat, NEW y \in 1..b
    PROVE  /\ a + y \in 1..(a + b) /\ ~(a + y <= a) /\ (a + y) - a = y
           /\ (a + y) - 1 = a + (y - 1) /\ a + (y - 1) \in 0..(a + b)
  OBVIOUS

LEMMA Flattened ==
    ASSUME NEW S, NEW n \in Nat, NEW p \in [1..n -> Seq(S)]
    PROVE  /\ FlattenSeq(p) \in Seq(S)
           /\ \E at \in [0..n -> Nat] : Lies(FlattenSeq(p), p, n, at)
  <1>1. PICK e \in [0..n -> Seq(S)] :
             /\ e[0] = <<>> /\ \A i \in 1..n : e[i] = e[i - 1] \o p[i]
             /\ FlattenSeq(p) = e[n]
    BY FlattenIs
  <1> DEFINE at == [i \in 0..n |-> Len(e[i])]
  <1>2. at \in [0..n -> Nat]
    OBVIOUS
  <1>3. ASSUME NEW i \in 0..(n - 1)
        PROVE  /\ i + 1 \in 1..n /\ i + 1 \in 0..n /\ i \in 0..n /\ (i + 1) - 1 = i
               /\ at[i] \in Nat /\ at[i + 1] \in Nat /\ Len(p[i + 1]) \in Nat
               /\ at[i + 1] = at[i] + Len(p[i + 1])
               /\ \A x \in 1..at[i] : e[i + 1][x] = e[i][x]
               /\ \A y \in 1..Len(p[i + 1]) : e[i + 1][at[i] + y] = p[i + 1][y]
    <2>1. i + 1 \in 1..n /\ i + 1 \in 0..n /\ i \in 0..n /\ (i + 1) - 1 = i
      OBVIOUS
    <2>2. PICK a \in Seq(S), b \in Seq(S) : a = e[i] /\ b = p[i + 1] /\ e[i + 1] = a \o b
      BY <1>1, <2>1
    <2>3. /\ Len(a \o b) = Len(a) + Len(b)
          /\ \A x \in 1..(Len(a) + Len(b)) : (a \o b)[x] = IF x <= Len(a) THEN a[x] ELSE b[x - Len(a)]
      BY ConcatProperties
    <2>4. at[i] = Len(a) /\ at[i + 1] = Len(a) + Len(b) /\ Len(a) \in Nat /\ Len(b) \in Nat
      BY <2>1, <2>2, <2>3
    <2>5. \A x \in 1..Len(a) : (a \o b)[x] = a[x]
      BY <2>3, <2>4
    <2>6. ASSUME NEW y \in 1..Len(b)
          PROVE  (a \o b)[Len(a) + y] = b[y]
      <3>1. Len(a) + y \in 1..(Len(a) + Len(b)) /\ ~(Len(a) + y <= Len(a)) /\ (Len(a) + y) - Len(a) = y
        BY <2>4, Offset, ZenonT(60)
      <3> QED
        BY <2>3, <3>1
    <2> HIDE DEF at
    <2> QED
      BY <2>1, <2>2, <2>4, <2>5, <2>6
  <1>4. at[0] = 0
    BY <1>1
  <1>5. Len(FlattenSeq(p)) = at[n] /\ FlattenSeq(p) \in Seq(S)
    BY <1>1
  <1> HIDE DEF at
  <1>6. \A i \in 1..n : at[i] = at[i - 1] + Len(p[i])
    <2>1. ASSUME NEW i \in 1..n
          PROVE  at[i] = at[i - 1] + Len(p[i])
      <3>1. i - 1 \in 0..(n - 1) /\ (i - 1) + 1 = i
        OBVIOUS
      <3> QED
        BY <1>3, <3>1
    <2> QED
      BY <2>1
  <1>7. \A k \in 0..n : \A i \in 0..k : at[i] <= at[k] /\ \A x \in 1..at[i] : e[k][x] = e[i][x]
    <2> DEFINE T == {k \in 0..n : \A i \in 0..k : at[i] <= at[k] /\ \A x \in 1..at[i] : e[k][x] = e[i][x]}
    <2>1. 0 \in T
      BY <1>2
    <2>2. ASSUME NEW k \in 0..(n - 1), k \in T
          PROVE  k + 1 \in T
      <3>1. /\ k + 1 \in 0..n /\ at[k] \in Nat /\ at[k + 1] \in Nat /\ at[k] <= at[k + 1]
            /\ \A x \in 1..at[k] : e[k + 1][x] = e[k][x]
        <4>1. /\ k + 1 \in 0..n /\ at[k] \in Nat /\ at[k + 1] \in Nat /\ Len(p[k + 1]) \in Nat
              /\ at[k + 1] = at[k] + Len(p[k + 1])
              /\ \A x \in 1..at[k] : e[k + 1][x] = e[k][x]
          BY <1>3
        <4> QED
          BY <4>1
      <3>2. ASSUME NEW i \in 0..(k + 1)
            PROVE  at[i] <= at[k + 1] /\ \A x \in 1..at[i] : e[k + 1][x] = e[i][x]
        <4>1. CASE i = k + 1
          BY <3>1, <4>1
        <4>2. CASE i \in 0..k
          <5>1. /\ at[i] \in Nat /\ at[i] <= at[k]
                /\ \A x \in 1..at[i] : e[k][x] = e[i][x]
            BY <1>2, <2>2, <4>2
          <5>2. PICK u \in Nat, v \in Nat, w \in Nat : u = at[i] /\ v = at[k] /\ w = at[k + 1]
            BY <3>1, <5>1
          <5>3. u <= v /\ v <= w
            BY <3>1, <5>1, <5>2, ZenonT(60)
          <5>4. u <= w /\ \A x \in 1..u : x \in 1..v
            BY <5>3
          <5> QED
            BY <3>1, <5>1, <5>2, <5>4
        <4> QED
          BY <4>1, <4>2
      <3> QED
        BY <3>1, <3>2
    <2> HIDE DEF T
    <2>3. 0 \in T /\ \A i \in 0..(n - 1) : i \in T => i + 1 \in T
      BY <2>1, <2>2
    <2>4. \A k \in 0..n : k \in T
      BY <2>3, UpTo, ZenonT(60)
    <2> QED
      BY <2>4 DEF T
  <1>8. ASSUME NEW i \in 1..n, NEW y \in 1..Len(p[i])
        PROVE  FlattenSeq(p)[at[i - 1] + y] = p[i][y]
    <2>1. i - 1 \in 0..(n - 1) /\ (i - 1) + 1 = i /\ i \in 0..n /\ n \in 0..n
      OBVIOUS
    <2>2. /\ e[i][at[i - 1] + y] = p[i][y] /\ at[i - 1] \in Nat
          /\ at[i] = at[i - 1] + Len(p[i]) /\ Len(p[i]) \in Nat
      BY <1>3, <2>1
    <2>3. at[i - 1] + y \in 1..at[i]
      <3>1. at[i - 1] + y \in 1..(at[i - 1] + Len(p[i]))
        BY <2>2, Offset, ZenonT(60)
      <3> QED
        BY <2>2, <3>1, ZenonT(60)
    <2>4. e[n][at[i - 1] + y] = e[i][at[i - 1] + y]
      BY <1>7, <2>1, <2>3
    <2> QED
      BY <1>1, <2>2, <2>4
  <1>9. \A k \in 0..n : \A x \in 1..at[k] : \E i \in 1..k : at[i - 1] < x /\ x <= at[i]
    <2> DEFINE T == {k \in 0..n : \A x \in 1..at[k] : \E i \in 1..k : at[i - 1] < x /\ x <= at[i]}
    <2>1. 0 \in T
      BY <1>4
    <2>2. ASSUME NEW k \in 0..(n - 1), k \in T
          PROVE  k + 1 \in T
      <3>1. k + 1 \in 0..n /\ at[k] \in Nat /\ at[k + 1] \in Nat /\ (k + 1) - 1 = k
        BY <1>3
      <3>2. ASSUME NEW x \in 1..at[k + 1]
            PROVE  \E i \in 1..(k + 1) : at[i - 1] < x /\ x <= at[i]
        <4>1. CASE x \in 1..at[k]
          BY <2>2, <4>1
        <4>2. CASE x > at[k]
          BY <3>1, <4>2
        <4> QED
          BY <3>1, <4>1, <4>2
      <3> QED
        BY <3>1, <3>2
    <2> HIDE DEF T
    <2>3. 0 \in T /\ \A i \in 0..(n - 1) : i \in T => i + 1 \in T
      BY <2>1, <2>2
    <2>4. \A k \in 0..n : k \in T
      BY <2>3, UpTo, ZenonT(60)
    <2> QED
      BY <2>4 DEF T
  <1>10. \A x \in 1..at[n] : \E i \in 1..n : at[i - 1] < x /\ x <= at[i]
    BY <1>9
  <1>11. \A i, j \in 0..n : i <= j => at[i] <= at[j]
    BY <1>7
  <1> QED
    BY <1>2, <1>4, <1>5, <1>6, <1>8, <1>10, <1>11 DEF Lies

-----------------------------------------------------------------------------
(* Escapes *)

Character == DOMAIN Code

(* What an encoded word is made of.                                        *)
Safe == DOMAIN Hex \cup {"+", "%"}

LEMMA SafeIsSafe == "&" \notin Safe /\ "=" \notin Safe /\ "?" \notin Safe
  BY DEF Safe, Hex

LEMMA DigitIs ==
    ASSUME NEW n \in 0..15
    PROVE  Digit(n) \in DOMAIN Hex /\ Hex[Digit(n)] = n
  <1>1. /\ Hex["0"] = 0 /\ Hex["1"] = 1 /\ Hex["2"] = 2 /\ Hex["3"] = 3 /\ Hex["4"] = 4
        /\ Hex["5"] = 5 /\ Hex["6"] = 6 /\ Hex["7"] = 7 /\ Hex["8"] = 8 /\ Hex["9"] = 9
        /\ Hex["a"] = 10 /\ Hex["b"] = 11 /\ Hex["c"] = 12 /\ Hex["d"] = 13 /\ Hex["e"] = 14
        /\ Hex["f"] = 15
    BY DEF Hex
  <1>2. {"0", "1", "2", "3", "4", "5", "6", "7", "8", "9", "a", "b", "c", "d", "e", "f"} \subseteq DOMAIN Hex
    BY DEF Hex
  <1>3. \E d \in DOMAIN Hex : Hex[d] = n
    <2>1. n \in {0, 1, 2, 3, 4, 5, 6, 7, 8, 9, 10, 11, 12, 13, 14, 15}
      OBVIOUS
    <2> QED
      BY <1>1, <1>2, <2>1
  <1> QED
    BY <1>3 DEF Digit

LEMMA CodeIs ==
    /\ Character = {"space", "%", "&", "+", "=", "a"}
    /\ Code["%"] = 37 /\ Code["&"] = 38 /\ Code["+"] = 43 /\ Code["="] = 61
    /\ Code["space"] = 32 /\ Code["a"] = 97
  BY DEF Character, Code

LEMMA CharIs ==
    ASSUME NEW c \in Character
    PROVE  Char(Code[c]) = c
  <1>1. \A d \in Character : Code[d] = Code[c] => d = c
    BY CodeIs
  <1>2. \E d \in DOMAIN Code : Code[d] = Code[c]
    BY DEF Character
  <1>3. (CHOOSE d \in DOMAIN Code : Code[d] = Code[c]) = c
    BY <1>1, <1>2 DEF Character
  <1> QED
    BY <1>2, <1>3 DEF Char

(* An escape is one character that decode copies, or three that are the    *)
(* number of the character.                                                *)
Single(e, c) ==
    Len(e) = 1 /\ e[1] # "%" /\ c = IF e[1] = "+" THEN "space" ELSE e[1]

Triple(e, c) ==
    Len(e) = 3 /\ e[1] = "%" /\ IsByte(e[2], e[3]) /\ c = Char(Byte(e[2], e[3]))

LEMMA EscapeIs ==
    ASSUME NEW c \in Character
    PROVE  Escape(c) \in Seq(Safe) /\ (Single(Escape(c), c) \/ Triple(Escape(c), c))
  <1>1. CASE c \in {"a", "space"}
    <2>1. PICK s \in {"a", "+"} : Escape(c) = <<s>> /\ c = IF s = "+" THEN "space" ELSE s
      BY <1>1 DEF Escape
    <2>2. s \in Safe
      BY DEF Safe, Hex
    <2>3. Len(<<s>>) = 1 /\ <<s>>[1] = s /\ <<s>> \in Seq(Safe) /\ s # "%"
      BY <2>2
    <2> QED
      BY <2>1, <2>3 DEF Single
  <1>2. CASE c \in {"%", "&", "+", "="}
    <2>1. PICK n \in {37, 38, 43, 61} : n = Code[c]
      BY <1>2, CodeIs
    <2>2. PICK u \in 0..15, v \in 0..15 : n \div 16 = u /\ n % 16 = v /\ 16 * u + v = n
      <3>1. CASE n = 37
        <4>1. n \div 16 = 2 /\ n % 16 = 5 /\ 16 * 2 + 5 = n /\ 2 \in 0..15 /\ 5 \in 0..15
          BY <3>1
        <4> QED
          BY <4>1
      <3>2. CASE n = 38
        <4>1. n \div 16 = 2 /\ n % 16 = 6 /\ 16 * 2 + 6 = n /\ 2 \in 0..15 /\ 6 \in 0..15
          BY <3>2
        <4> QED
          BY <4>1
      <3>3. CASE n = 43
        <4>1. n \div 16 = 2 /\ n % 16 = 11 /\ 16 * 2 + 11 = n /\ 2 \in 0..15 /\ 11 \in 0..15
          BY <3>3
        <4> QED
          BY <4>1
      <3>4. CASE n = 61
        <4>1. n \div 16 = 3 /\ n % 16 = 13 /\ 16 * 3 + 13 = n /\ 3 \in 0..15 /\ 13 \in 0..15
          BY <3>4
        <4> QED
          BY <4>1
      <3> QED
        BY <3>1, <3>2, <3>3, <3>4
    <2>3. PICK h \in DOMAIN Hex, l \in DOMAIN Hex :
             Escape(c) = <<"%", h, l>> /\ Hex[h] = u /\ Hex[l] = v
      <3>1. Escape(c) = <<"%", Digit(n \div 16), Digit(n % 16)>>
        BY <1>2, <2>1 DEF Escape
      <3> QED
        BY <2>2, <3>1, DigitIs
    <2>4. h # "+"
      BY DEF Hex
    <2>5. IsByte(h, l) /\ Byte(h, l) = n
      BY <2>2, <2>3, <2>4 DEF IsByte, Byte
    <2>6. Char(n) = c
      BY <2>1, CharIs
    <2>7. <<"%", h, l>> \in Seq(Safe)
      BY DEF Safe
    <2> QED
      BY <2>3, <2>5, <2>6, <2>7 DEF Triple
  <1> QED
    BY <1>1, <1>2, CodeIs

-----------------------------------------------------------------------------
(* decode *)

Decoded == Safe \cup Character \cup {"other"}

DecodeState == [result : Seq(Decoded), open : Seq(Decoded), err : BOOLEAN]

LEMMA CharType ==
    ASSUME NEW n
    PROVE  Char(n) \in Decoded
  <1>1. CASE \E c \in DOMAIN Code : Code[c] = n
    BY <1>1 DEF Char, Decoded, Character
  <1>2. CASE ~\E c \in DOMAIN Code : Code[c] = n
    BY <1>2 DEF Char, Decoded
  <1> QED
    BY <1>1, <1>2

(* What one character does.                                                *)
LEMMA TakeIs ==
    ASSUME NEW st \in DecodeState, NEW c \in Safe
    PROVE  /\ Take(st, c) \in DecodeState
           /\ ~st.err /\ st.open = <<>> /\ c # "%" =>
                Take(st, c) = [result |-> Append(st.result, IF c = "+" THEN "space" ELSE c),
                               open |-> <<>>, err |-> FALSE]
           /\ ~st.err /\ st.open = <<>> /\ c = "%" =>
                Take(st, c) = [result |-> st.result, open |-> <<"%">>, err |-> FALSE]
           /\ ~st.err /\ Len(st.open) = 1 =>
                Take(st, c) = [result |-> st.result, open |-> Append(st.open, c), err |-> FALSE]
           /\ ~st.err /\ Len(st.open) = 2 /\ IsByte(st.open[2], c) =>
                Take(st, c) = [result |-> Append(st.result, Char(Byte(st.open[2], c))),
                               open |-> <<>>, err |-> FALSE]
  <1>1. PICK r \in Seq(Decoded), o \in Seq(Decoded), x \in BOOLEAN :
          st = [result |-> r, open |-> o, err |-> x]
    BY DEF DecodeState
  <1>2. st.result = r /\ st.open = o /\ st.err = x
    BY <1>1
  <1>3. c \in Decoded /\ "space" \in Decoded
    BY DEF Decoded, Character, Code
  <1>4. PICK b : b = Char(Byte(o[2], c))
    OBVIOUS
  <1>5. b \in Decoded
    BY <1>4, CharType
  <1>6. /\ Len(o) \in Nat /\ (o = <<>> <=> Len(o) = 0)
        /\ Len(o) = 0 => Len(o) # 1 /\ Len(o) # 2
        /\ Len(o) = 1 => Len(o) # 2
    <2>1. Len(o) \in Nat /\ (o = <<>> <=> Len(o) = 0)
      BY EmptySeq
    <2>2. \A k \in Nat : (k = 0 => k # 1 /\ k # 2) /\ (k = 1 => k # 2)
      OBVIOUS
    <2> QED
      BY <2>1, <2>2, ZenonT(60)
  <1>7. CASE x
    <2>1. Take(st, c) = st
      BY <1>2, <1>7 DEF Take
    <2> QED
      BY <1>2, <1>7, <2>1
  <1>8. CASE ~x /\ Len(o) = 0 /\ c # "%"
    <2>1. PICK d \in Decoded : d = IF c = "+" THEN "space" ELSE c
      BY <1>3
    <2>2. Take(st, c) = [result |-> Append(r, d), open |-> o, err |-> x]
      <3>1. Take(st, c) = [st EXCEPT !.result = Append(st.result, IF c = "+" THEN "space" ELSE c)]
        BY <1>2, <1>8 DEF Take
      <3>2. Take(st, c) = [st EXCEPT !.result = Append(r, d)]
        BY <1>2, <2>1, <3>1, ZenonT(60)
      <3> QED
        BY <1>1, <3>2
    <2>3. Append(r, d) \in Seq(Decoded)
      OBVIOUS
    <2>4. Take(st, c) \in DecodeState
      BY <2>2, <2>3 DEF DecodeState
    <2>5. Take(st, c) = [result |-> Append(st.result, IF c = "+" THEN "space" ELSE c),
                         open |-> <<>>, err |-> FALSE]
      BY <1>2, <1>6, <1>8, <2>1, <2>2, ZenonT(60)
    <2> QED
      BY <1>2, <1>6, <1>8, <2>4, <2>5, ZenonT(60)
  <1>9. CASE ~x /\ Len(o) = 0 /\ c = "%"
    <2>1. Take(st, c) = [result |-> r, open |-> <<"%">>, err |-> x]
      BY <1>1, <1>2, <1>9 DEF Take
    <2>2. <<"%">> \in Seq(Decoded)
      <3>1. "%" \in Decoded
        BY <1>3, <1>9
      <3> QED
        BY <3>1
    <2>3. Take(st, c) \in DecodeState
      BY <2>1, <2>2 DEF DecodeState
    <2> QED
      BY <1>2, <1>6, <1>9, <2>1, <2>3, ZenonT(60)
  <1>10. CASE ~x /\ Len(o) = 1
    <2>1. Take(st, c) = [result |-> r, open |-> Append(o, c), err |-> x]
      <3>1. Take(st, c) = [st EXCEPT !.open = Append(st.open, c)]
        BY <1>2, <1>10 DEF Take
      <3> QED
        BY <1>1, <1>2, <3>1
    <2>2. Append(o, c) \in Seq(Decoded)
      BY <1>3, AppendProperties
    <2>3. Take(st, c) \in DecodeState
      BY <2>1, <2>2 DEF DecodeState
    <2> QED
      BY <1>2, <1>6, <1>10, <2>1, <2>3, ZenonT(60)
  <1>11. CASE ~x /\ Len(o) \notin {0, 1} /\ IsByte(o[2], c)
    <2>1. Take(st, c) = [result |-> Append(r, b), open |-> <<>>, err |-> x]
      BY <1>1, <1>2, <1>4, <1>11 DEF Take
    <2>2. Append(r, b) \in Seq(Decoded) /\ <<>> \in Seq(Decoded)
      BY <1>5, EmptySeq
    <2>3. Take(st, c) \in DecodeState
      BY <2>1, <2>2 DEF DecodeState
    <2> QED
      BY <1>2, <1>4, <1>6, <1>11, <2>1, <2>3
  <1>12. CASE ~x /\ Len(o) \notin {0, 1} /\ ~IsByte(o[2], c)
    <2>1. Take(st, c) = [result |-> r, open |-> o, err |-> TRUE]
      BY <1>1, <1>2, <1>12 DEF Take
    <2>2. Take(st, c) \in DecodeState
      BY <2>1 DEF DecodeState
    <2> QED
      BY <1>2, <1>6, <1>12, <2>1, <2>2
  <1> QED
    BY <1>7, <1>8, <1>9, <1>10, <1>11, <1>12

LEMMA DecodeIs ==
    ASSUME NEW s \in Seq(Safe)
    PROVE  \E d \in [0..Len(s) -> DecodeState] :
             /\ d[0] = Fresh /\ \A i \in 1..Len(s) : d[i] = Take(d[i - 1], s[i])
             /\ d[Len(s)].open = <<>> /\ ~d[Len(s)].err => Decode(s) = d[Len(s)].result
  <1>1. PICK n \in Nat : n = Len(s)
    OBVIOUS
  <1> DEFINE X == DecodeState
             c == Fresh
             g == [i \in 1..n |-> [st \in X |-> Take(st, s[i])]]
             Body(f) == [i \in 0..Len(s) |-> IF i = 0 THEN Fresh ELSE Take(f[i - 1], s[i])]
  <1>2. c \in X /\ g \in [1..n -> [X -> X]]
    <2>1. ASSUME NEW i \in 1..n, NEW st \in X
          PROVE  Take(st, s[i]) \in X
      BY <1>1, TakeIs
    <2>2. <<>> \in Seq(Decoded)
      BY EmptySeq
    <2>3. c \in X
      BY <2>2 DEF Fresh, DecodeState
    <2> QED
      BY <2>1, <2>3
  <1> HIDE DEF X, c, g
  <1>3. PICK e \in [0..n -> X] : Stepwise(e, n, c, g)
    BY <1>2, StepwiseExists
  <1>4. \A i \in 0..n : e[i] = IF i = 0 THEN Fresh ELSE Take(e[i - 1], s[i])
    <2>1. ASSUME NEW i \in 0..n
          PROVE  e[i] = IF i = 0 THEN Fresh ELSE Take(e[i - 1], s[i])
      <3>1. CASE i # 0
        <4>1. i \in 1..n /\ e[i - 1] \in X
          BY <3>1
        <4>2. e[i] = g[i][e[i - 1]]
          BY <1>3, <4>1 DEF Stepwise
        <4> QED
          BY <3>1, <4>1, <4>2 DEF g
      <3> QED
        BY <1>3, <3>1 DEF Stepwise, c
    <2> QED
      BY <2>1
  <1>5. e = Body(e)
    BY <1>1, <1>4
  <1> DEFINE h == CHOOSE h : h = Body(h)
  <1>6. h = Body(h) /\ Decode(s) = IF h[n].err \/ h[n].open # <<>> THEN <<>> ELSE h[n].result
    <2>1. h = Body(h)
      BY <1>5
    <2>2. Decode(s) = IF h[Len(s)].err \/ h[Len(s)].open # <<>> THEN <<>> ELSE h[Len(s)].result
      BY ZenonT(60) DEF Decode
    <2> QED
      BY <1>1, <2>1, <2>2, ZenonT(60)
  <1> HIDE DEF h
  <1>7. \A i \in 0..n : h[i] = IF i = 0 THEN Fresh ELSE Take(h[i - 1], s[i])
    BY <1>1, <1>6, ZenonT(60)
  <1> DEFINE T == {i \in 0..n : h[i] = e[i]}
  <1>8. 0 \in T /\ \A i \in 0..(n - 1) : i \in T => i + 1 \in T
    <2>1. ASSUME NEW i \in 0..(n - 1), h[i] = e[i]
          PROVE  h[i + 1] = e[i + 1]
      <3>1. i + 1 \in 0..n /\ i + 1 # 0 /\ (i + 1) - 1 = i
        OBVIOUS
      <3> QED
        BY <1>4, <1>7, <2>1, <3>1
    <2>2. h[0] = e[0]
      BY <1>4, <1>7
    <2> QED
      BY <2>1, <2>2
  <1> HIDE DEF T
  <1>9. \A i \in 0..n : i \in T
    BY <1>8, UpTo, ZenonT(60)
  <1>10. h[n] = e[n]
    BY <1>9 DEF T
  <1>11. e[0] = Fresh /\ \A i \in 1..n : e[i] = Take(e[i - 1], s[i])
    BY <1>4
  <1>12. e[n].open = <<>> /\ ~e[n].err => Decode(s) = e[n].result
    BY <1>6, <1>10
  <1> QED
    BY <1>1, <1>11, <1>12 DEF X

(* decode undoes the client's encoding, for words of any length.           *)
LEMMA RoundTrip ==
    ASSUME NEW s \in Seq(Character)
    PROVE  Encode(s) \in Seq(Safe) /\ Decode(Encode(s)) = s
  <1>1. PICK n \in Nat : n = Len(s) /\ DOMAIN s = 1..n
    OBVIOUS
  <1> DEFINE p == [i \in 1..n |-> Escape(s[i])]
  <1>2. \A i \in 1..n : s[i] \in Character
    BY <1>1
  <1>3. p \in [1..n -> Seq(Safe)]
    BY <1>2, EscapeIs
  <1>4. \A i \in 1..n : p[i] = Escape(s[i])
    OBVIOUS
  <1>5. Encode(s) = FlattenSeq(p)
    BY <1>1 DEF Encode
  <1> HIDE DEF p
  <1>6. PICK q \in Seq(Safe), at \in [0..n -> Nat] : q = FlattenSeq(p) /\ Lies(q, p, n, at)
    BY <1>3, Flattened
  <1>7. PICK d \in [0..Len(q) -> DecodeState] :
             /\ d[0] = Fresh /\ \A i \in 1..Len(q) : d[i] = Take(d[i - 1], q[i])
             /\ d[Len(q)].open = <<>> /\ ~d[Len(q)].err => Decode(q) = d[Len(q)].result
    BY DecodeIs
  <1> DEFINE Good(i) == /\ ~d[at[i]].err /\ d[at[i]].open = <<>>
                        /\ Len(d[at[i]].result) = i
                        /\ \A x \in 1..i : d[at[i]].result[x] = s[x]
             T == {i \in 0..n : Good(i)}
  <1>8. Good(0)
    <2>1. at[0] = 0
      BY <1>6 DEF Lies
    <2>2. Len(<<>>) = 0
      BY EmptySeq
    <2> QED
      BY <1>7, <2>1, <2>2 DEF Fresh
  <1>9. ASSUME NEW k \in 0..(n - 1), Good(k)
        PROVE  Good(k + 1)
    <2>1. k + 1 \in 1..n /\ k + 1 \in 0..n /\ (k + 1) - 1 = k /\ k \in 0..n /\ n \in 0..n
      OBVIOUS
    <2>2. PICK a \in Nat, m \in Nat, size \in Nat : a = at[k] /\ m = Len(p[k + 1]) /\ size = Len(q)
      <3>1. at[k] \in Nat
        BY <2>1
      <3>2. Len(p[k + 1]) \in Nat
        BY <1>3, <2>1
      <3>3. Len(q) \in Nat
        OBVIOUS
      <3> QED
        BY <3>1, <3>2, <3>3, ZenonT(60)
    <2>3. at[k + 1] = a + m /\ a + m <= size
      <3>1. at[k + 1] = at[k] + Len(p[k + 1]) /\ at[k + 1] <= at[n] /\ Len(q) = at[n]
        <4>1. k + 1 <= n
          BY <2>1
        <4> QED
          BY <1>6, <2>1, <4>1 DEF Lies
      <3> QED
        BY <2>2, <3>1
    <2>4. \A y \in 1..m : q[a + y] = p[k + 1][y]
      BY <1>6, <2>1, <2>2 DEF Lies
    <2>5. PICK c \in Character, e \in Seq(Safe) : c = s[k + 1] /\ e = p[k + 1] /\ e = Escape(c) /\ m = Len(e)
      BY <1>2, <1>3, <1>4, <2>1, <2>2
    <2>6. Single(e, c) \/ Triple(e, c)
      BY <2>5, EscapeIs
    <2>7. PICK r \in Seq(Decoded) : /\ d[a] = [result |-> r, open |-> <<>>, err |-> FALSE]
                                   /\ Len(r) = k /\ \A x \in 1..k : r[x] = s[x]
      <3>1. d[a] \in DecodeState
        BY <2>2, <2>3
      <3>2. d[a].result \in Seq(Decoded) /\ d[a].err = FALSE /\ d[a].open = <<>>
        BY <1>9, <2>2, <3>1 DEF DecodeState
      <3>3. d[a] = [result |-> d[a].result, open |-> <<>>, err |-> FALSE]
        BY <3>1, <3>2 DEF DecodeState
      <3> QED
        BY <1>9, <2>2, <3>2, <3>3
    <2>8. c \in Decoded
      BY DEF Decoded
    <2>9. d[a + m] = [result |-> Append(r, c), open |-> <<>>, err |-> FALSE]
      <3>1. \A y \in 1..m : /\ a + y \in 1..size /\ (a + y) - 1 = a + (y - 1) /\ a + (y - 1) \in 0..size
        BY <2>3
      <3>2. \A y \in 1..m : d[a + y] = Take(d[a + (y - 1)], e[y]) /\ d[a + (y - 1)] \in DecodeState /\ e[y] \in Safe
        <4>1. ASSUME NEW y \in 1..m
              PROVE  d[a + y] = Take(d[a + (y - 1)], e[y]) /\ d[a + (y - 1)] \in DecodeState /\ e[y] \in Safe
          <5>1. d[a + y] = Take(d[(a + y) - 1], q[a + y])
            BY <1>7, <2>2, <3>1
          <5>2. (a + y) - 1 = a + (y - 1) /\ q[a + y] = e[y]
            BY <2>4, <2>5, <3>1
          <5>3. d[a + (y - 1)] \in DecodeState
            BY <2>2, <3>1
          <5>4. e[y] \in Safe
            BY <2>5, ElementOfSeq
          <5> QED
            BY <5>1, <5>2, <5>3, <5>4, ZenonT(60)
        <4> QED
          BY <4>1
      <3>3. CASE Single(e, c)
        <4>1. m = 1 /\ a + (1 - 1) = a
          BY <2>5, <3>3 DEF Single
        <4>2. d[a + 1] = Take(d[a], e[1]) /\ d[a] \in DecodeState /\ e[1] \in Safe
          BY <3>2, <4>1
        <4>3. d[a].open = <<>> /\ ~d[a].err /\ d[a].result = r
          BY <2>7
        <4>4. e[1] # "%" /\ c = IF e[1] = "+" THEN "space" ELSE e[1]
          BY <3>3 DEF Single
        <4>5. d[a + 1] = [result |-> Append(r, c), open |-> <<>>, err |-> FALSE]
          BY <4>2, <4>3, <4>4, TakeIs, ZenonT(60)
        <4> QED
          BY <4>1, <4>5
      <3>4. CASE Triple(e, c)
        <4>1. /\ m = 3 /\ a + (1 - 1) = a /\ a + (2 - 1) = a + 1 /\ a + (3 - 1) = a + 2
              /\ 1 \in 1..m /\ 2 \in 1..m /\ 3 \in 1..m
          BY <2>5, <3>4 DEF Triple
        <4>2. /\ e[1] = "%" /\ IsByte(e[2], e[3]) /\ c = Char(Byte(e[2], e[3]))
              /\ e[1] \in Safe /\ e[2] \in Safe /\ e[3] \in Safe
          BY <3>2, <3>4, <4>1 DEF Triple
        <4>3. /\ d[a + 1] = Take(d[a], e[1]) /\ d[a + 2] = Take(d[a + 1], e[2])
              /\ d[a + 3] = Take(d[a + 2], e[3])
              /\ d[a] \in DecodeState /\ d[a + 1] \in DecodeState /\ d[a + 2] \in DecodeState
          BY <3>2, <4>1
        <4>4. d[a].open = <<>> /\ ~d[a].err /\ d[a].result = r
          BY <2>7
        <4>5. d[a + 1] = [result |-> r, open |-> <<"%">>, err |-> FALSE]
          BY <4>2, <4>3, <4>4, TakeIs, ZenonT(60)
        <4>6. d[a + 1].open = <<"%">> /\ ~d[a + 1].err /\ d[a + 1].result = r /\ Len(<<"%">>) = 1
          BY <4>5
        <4>7. d[a + 2] = [result |-> r, open |-> Append(<<"%">>, e[2]), err |-> FALSE]
          <5>1. Len(d[a + 1].open) = 1
            BY <4>6, ZenonT(60)
          <5>2. Take(d[a + 1], e[2]) = [result |-> d[a + 1].result, open |-> Append(d[a + 1].open, e[2]),
                                        err |-> FALSE]
            BY <4>2, <4>3, <4>6, <5>1, TakeIs, ZenonT(60)
          <5> QED
            BY <4>3, <4>6, <5>2, ZenonT(60)
        <4>8. PICK o : o = Append(<<"%">>, e[2]) /\ Len(o) = 2 /\ o[2] = e[2]
          <5>1. PICK z \in Safe : z = e[2]
            BY <4>2
          <5>2. PICK w \in Seq(Safe) : w = <<"%">> /\ Len(w) = 1
            <6>1. "%" \in Safe
              BY DEF Safe
            <6>2. <<"%">> \in Seq(Safe)
              BY <6>1
            <6> QED
              BY <4>6, <6>2, ZenonT(60)
          <5>3. Len(Append(w, z)) = 2 /\ Append(w, z)[2] = z
            <6>1. Len(Append(w, z)) = Len(w) + 1 /\ Append(w, z)[Len(w) + 1] = z
              BY AppendProperties
            <6>2. Len(w) + 1 = 2
              BY <5>2
            <6> QED
              BY <6>1, <6>2, ZenonT(60)
          <5> QED
            BY <5>1, <5>2, <5>3, ZenonT(60)
        <4>9. d[a + 2].open = o /\ ~d[a + 2].err /\ d[a + 2].result = r
          BY <4>7, <4>8
        <4>10. d[a + 3] = [result |-> Append(r, c), open |-> <<>>, err |-> FALSE]
          <5>1. Len(d[a + 2].open) = 2 /\ d[a + 2].open[2] = e[2]
            BY <4>8, <4>9, ZenonT(60)
          <5>2. IsByte(d[a + 2].open[2], e[3]) /\ Char(Byte(d[a + 2].open[2], e[3])) = c
            BY <4>2, <5>1, ZenonT(60)
          <5>3. Take(d[a + 2], e[3]) = [result |-> Append(d[a + 2].result, Char(Byte(d[a + 2].open[2], e[3]))),
                                        open |-> <<>>, err |-> FALSE]
            BY <4>2, <4>3, <4>9, <5>1, <5>2, TakeIs, ZenonT(60)
          <5> QED
            BY <4>3, <4>9, <5>2, <5>3, ZenonT(60)
        <4> QED
          BY <4>1, <4>10
      <3> QED
        BY <2>6, <3>3, <3>4
    <2>10. PICK t \in Seq(Decoded) : /\ t = Append(r, c) /\ Len(t) = k + 1
                                    /\ \A x \in 1..(k + 1) : t[x] = s[x]
      <3>1. /\ Append(r, c) \in Seq(Decoded) /\ Len(Append(r, c)) = Len(r) + 1
            /\ \A x \in 1..Len(r) : Append(r, c)[x] = r[x]
            /\ Append(r, c)[Len(r) + 1] = c
        BY <2>8, AppendProperties
      <3>2. \A x \in 1..(k + 1) : x \in 1..k \/ x = k + 1
        OBVIOUS
      <3>3. \A x \in 1..(k + 1) : Append(r, c)[x] = s[x]
        BY <2>5, <2>7, <3>1, <3>2
      <3> QED
        BY <2>7, <3>1, <3>3
    <2>11. d[at[k + 1]] = [result |-> t, open |-> <<>>, err |-> FALSE]
      BY <2>3, <2>9, <2>10
    <2> QED
      BY <2>10, <2>11
  <1> HIDE DEF Good
  <1>10. 0 \in T /\ \A i \in 0..(n - 1) : i \in T => i + 1 \in T
    BY <1>8, <1>9
  <1> HIDE DEF T
  <1>11. \A i \in 0..n : i \in T
    BY <1>10, UpTo, ZenonT(60)
  <1>12. Good(n)
    BY <1>11 DEF T
  <1>13. Len(q) = at[n] /\ d[at[n]] \in DecodeState
    <2>1. Len(q) = at[n] /\ Len(q) \in 0..Len(q)
      BY <1>6 DEF Lies
    <2> QED
      BY <2>1
  <1>14. Decode(q) = d[at[n]].result
    BY <1>7, <1>12, <1>13 DEF Good
  <1>15. Decode(q) = s
    <2>1. PICK t \in Seq(Decoded) : t = Decode(q)
      BY <1>13, <1>14 DEF DecodeState
    <2>2. Len(t) = n /\ \A x \in 1..n : t[x] = s[x]
      BY <1>12, <1>14, <2>1 DEF Good
    <2>3. t = s
      BY <1>1, <2>2, SeqEqual
    <2> QED
      BY <2>1, <2>3
  <1> QED
    BY <1>5, <1>6, <1>15

-----------------------------------------------------------------------------
(* find and split *)

LEMMA FindFirst ==
    ASSUME NEW S, NEW s \in Seq(S), NEW c, NEW k \in 1..Len(s), s[k] = c,
           \A y \in 1..Len(s) : y < k => s[y] # c
    PROVE  Find(s, c) = k
  <1> DEFINE T == {i \in DOMAIN s : s[i] = c}
  <1>1. k \in T /\ T \subseteq Nat
    OBVIOUS
  <1>2. \A y \in T : k <= y
    OBVIOUS
  <1>3. Find(s, c) = Min(T)
    BY <1>1 DEF Find
  <1> HIDE DEF T
  <1>4. Min(T) = k
    <2>1. Min(T) \in T /\ \A y \in T : Min(T) <= y
      BY <1>1, <1>2, ZenonT(60) DEF Min
    <2>2. PICK m \in Nat : m = Min(T)
      BY <1>1, <2>1
    <2>3. m <= k /\ k <= m
      BY <1>1, <1>2, <2>1, <2>2
    <2>4. m = k
      BY <2>3
    <2> QED
      BY <2>2, <2>4
  <1> QED
    BY <1>3, <1>4

LEMMA FindNone ==
    ASSUME NEW S, NEW s \in Seq(S), NEW c, \A y \in 1..Len(s) : s[y] # c
    PROVE  Find(s, c) = 0
  <1>1. {i \in DOMAIN s : s[i] = c} = {}
    OBVIOUS
  <1> QED
    BY <1>1 DEF Find

LEMMA AfterIs ==
    ASSUME NEW S, NEW s \in Seq(S), NEW b \in Nat, b <= Len(s)
    PROVE  /\ After(s, b) \in Seq(S) /\ Len(After(s, b)) = Len(s) - b
           /\ \A y \in 1..(Len(s) - b) : After(s, b)[y] = s[b + y]
  <1>1. PICK n \in Nat : n = Len(s)
    OBVIOUS
  <1>2. b + 1 \in Int /\ n \in Int /\ \A i \in (b + 1)..n : s[i] \in S
    BY <1>1
  <1>3. /\ SubSeq(s, b + 1, n) \in Seq(S)
        /\ Len(SubSeq(s, b + 1, n)) = IF b + 1 <= n THEN n - (b + 1) + 1 ELSE 0
        /\ \A i \in 1..(n - (b + 1) + 1) : SubSeq(s, b + 1, n)[i] = s[(b + 1) + i - 1]
    BY <1>2, SubSeqProperties
  <1>4. /\ n - (b + 1) + 1 = n - b /\ (IF b + 1 <= n THEN n - (b + 1) + 1 ELSE 0) = n - b
        /\ \A i \in 1..(n - b) : (b + 1) + i - 1 = b + i
    BY <1>1
  <1> QED
    BY <1>1, <1>3, <1>4 DEF After

LEMMA BeforeIs ==
    ASSUME NEW S, NEW s \in Seq(S), NEW b \in Nat, b <= Len(s)
    PROVE  /\ Before(s, b + 1) \in Seq(S) /\ Len(Before(s, b + 1)) = b
           /\ \A y \in 1..b : Before(s, b + 1)[y] = s[y]
  <1>1. 1 \in Int /\ b \in Int /\ (b + 1) - 1 = b /\ \A i \in 1..b : s[i] \in S
    OBVIOUS
  <1>2. /\ SubSeq(s, 1, b) \in Seq(S)
        /\ Len(SubSeq(s, 1, b)) = IF 1 <= b THEN b - 1 + 1 ELSE 0
        /\ \A i \in 1..(b - 1 + 1) : SubSeq(s, 1, b)[i] = s[1 + i - 1]
    BY <1>1, SubSeqProperties
  <1>3. /\ (IF 1 <= b THEN b - 1 + 1 ELSE 0) = b /\ b - 1 + 1 = b
        /\ \A i \in 1..b : 1 + i - 1 = i
    OBVIOUS
  <1> QED
    BY <1>1, <1>2, <1>3 DEF Before

(* A piece is what lies between two separators.                            *)
LEMMA PieceIs ==
    ASSUME NEW S, NEW q \in Seq(S), NEW w \in Seq(S), NEW b \in Nat,
           b + Len(w) <= Len(q),
           \A y \in 1..Len(w) : q[b + y] = w[y] /\ w[y] # "&",
           b + Len(w) < Len(q) => q[b + Len(w) + 1] = "&"
    PROVE  Piece(q, b + 1) = w
  <1>1. PICK n \in Nat, m \in Nat : n = Len(q) /\ m = Len(w)
    OBVIOUS
  <1>2. b + m <= n /\ b <= n /\ (b + 1) - 1 = b
    BY <1>1
  <1>3. PICK r \in Seq(S) : /\ r = After(q, b) /\ Len(r) = n - b
                            /\ \A y \in 1..(n - b) : r[y] = q[b + y]
    <2>1. b <= Len(q)
      BY <1>1, <1>2
    <2> QED
      <3>1. /\ After(q, b) \in Seq(S) /\ Len(After(q, b)) = Len(q) - b
            /\ \A y \in 1..(Len(q) - b) : After(q, b)[y] = q[b + y]
        BY <2>1, AfterIs
      <3> QED
        BY <1>1, <3>1, ZenonT(60)
  <1>4. Piece(q, b + 1) = IF Find(r, "&") = 0 THEN r ELSE Before(r, Find(r, "&"))
    BY <1>2, <1>3 DEF Piece
  <1>5. \A y \in 1..m : r[y] = w[y] /\ r[y] # "&"
    BY <1>1, <1>2, <1>3
  <1>6. CASE b + m = n
    <2>1. Len(r) = m
      BY <1>3, <1>6
    <2>2. Find(r, "&") = 0
      BY <1>5, <2>1, FindNone
    <2>3. r = w
      BY <1>1, <1>5, <2>1, SeqEqual
    <2> QED
      BY <1>4, <2>2, <2>3
  <1>7. CASE b + m < n
    <2>1. m + 1 \in 1..(n - b) /\ b + (m + 1) = b + m + 1
      BY <1>7
    <2>2. r[m + 1] = "&"
      BY <1>1, <1>3, <1>7, <2>1
    <2>3. \A y \in 1..Len(r) : y < m + 1 => r[y] # "&"
      BY <1>3, <1>5
    <2>4. m + 1 \in 1..Len(r)
      BY <1>3, <2>1
    <2>5. Find(r, "&") = m + 1
      BY <2>2, <2>3, <2>4, FindFirst
    <2>6. m <= Len(r)
      BY <1>3, <1>7
    <2>7. PICK t \in Seq(S) : t = Before(r, m + 1) /\ Len(t) = m /\ \A y \in 1..m : t[y] = r[y]
      BY <2>6, BeforeIs
    <2>8. t = w
      BY <1>1, <1>5, <2>7, SeqEqual
    <2>9. m + 1 # 0
      OBVIOUS
    <2> QED
      BY <1>4, <2>5, <2>7, <2>8, <2>9
  <1> QED
    BY <1>2, <1>6, <1>7

(* A sequence is cut where the separator first stands.                     *)
LEMMA Cut ==
    ASSUME NEW S, NEW k \in Seq(S), NEW v \in Seq(S), NEW x \in S,
           \A y \in 1..Len(k) : k[y] # x
    PROVE  LET w == k \o <<x>> \o v IN
           /\ w \in Seq(S) /\ Len(w) = (Len(k) + 1) + Len(v)
           /\ Find(w, x) = Len(k) + 1
           /\ Before(w, Len(k) + 1) = k /\ After(w, Len(k) + 1) = v
  <1>1. PICK e \in Seq(S) : e = <<x>> /\ Len(e) = 1 /\ e[1] = x
    <2>1. <<x>> \in Seq(S) /\ Len(<<x>>) = 1 /\ <<x>>[1] = x
      OBVIOUS
    <2> QED
      BY <2>1, ZenonT(60)
  <1>2. PICK a \in Nat, c \in Nat : a = Len(k) /\ c = Len(v)
    OBVIOUS
  <1>3. PICK h \in Seq(S) :
             /\ h = k \o e /\ Len(h) = a + 1
             /\ \A y \in 1..(a + 1) : h[y] = IF y <= a THEN k[y] ELSE e[y - a]
    <2>1. /\ k \o e \in Seq(S) /\ Len(k \o e) = Len(k) + Len(e)
          /\ \A y \in 1..(Len(k) + Len(e)) : (k \o e)[y] = IF y <= Len(k) THEN k[y] ELSE e[y - Len(k)]
      BY ConcatProperties
    <2> QED
      BY <1>1, <1>2, <2>1, ZenonT(60)
  <1>4. PICK w \in Seq(S) :
             /\ w = h \o v /\ Len(w) = (a + 1) + c
             /\ \A y \in 1..((a + 1) + c) : w[y] = IF y <= a + 1 THEN h[y] ELSE v[y - (a + 1)]
    <2>1. /\ h \o v \in Seq(S) /\ Len(h \o v) = Len(h) + Len(v)
          /\ \A y \in 1..(Len(h) + Len(v)) : (h \o v)[y] = IF y <= Len(h) THEN h[y] ELSE v[y - Len(h)]
      BY ConcatProperties
    <2>2. Len(h) = a + 1 /\ Len(v) = c
      BY <1>2, <1>3
    <2>3. /\ h \o v \in Seq(S) /\ Len(h \o v) = (a + 1) + c
          /\ \A y \in 1..((a + 1) + c) : (h \o v)[y] = IF y <= a + 1 THEN h[y] ELSE v[y - (a + 1)]
      BY <2>1, <2>2, ZenonT(60)
    <2> QED
      BY <2>3, ZenonT(60)
  <1>5. w = k \o <<x>> \o v
    BY <1>1, <1>3, <1>4, ZenonT(60)
  <1>6. \A y \in 1..a : w[y] = k[y] /\ k[y] # x
    BY <1>2, <1>3, <1>4
  <1>7. w[a + 1] = x
    <2>1. a + 1 \in 1..(a + 1) /\ a + 1 \in 1..((a + 1) + c) /\ ~(a + 1 <= a) /\ (a + 1) - a = 1
      OBVIOUS
    <2> QED
      BY <1>1, <1>3, <1>4, <2>1
  <1>8. \A y \in 1..c : w[(a + 1) + y] = v[y]
    <2>1. ASSUME NEW y \in 1..c
          PROVE  w[(a + 1) + y] = v[y]
      <3>1. (a + 1) + y \in 1..((a + 1) + c) /\ ~((a + 1) + y <= a + 1) /\ ((a + 1) + y) - (a + 1) = y
        OBVIOUS
      <3> QED
        BY <1>4, <3>1
    <2> QED
      BY <2>1
  <1>9. \A y \in 1..Len(w) : y < a + 1 => w[y] # x
    <2>1. \A y \in Nat : y < a + 1 => y <= a
      OBVIOUS
    <2>2. \A y \in 1..Len(w) : y < a + 1 => y \in 1..a
      BY <2>1
    <2> QED
      BY <1>6, <2>2, ZenonT(60)
  <1>10. a + 1 \in 1..Len(w) /\ a <= Len(w) /\ a + 1 <= Len(w) /\ a + 1 \in Nat
    BY <1>4
  <1>11. Find(w, x) = a + 1
    BY <1>7, <1>9, <1>10, FindFirst
  <1>12. Before(w, a + 1) = k
    <2>1. PICK t \in Seq(S) : t = Before(w, a + 1) /\ Len(t) = a /\ \A y \in 1..a : t[y] = w[y]
      BY <1>10, BeforeIs
    <2> QED
      BY <1>2, <1>6, <2>1, SeqEqual
  <1>13. After(w, a + 1) = v
    <2>1. Len(w) - (a + 1) = c
      BY <1>4
    <2>2. PICK t \in Seq(S) :
            t = After(w, a + 1) /\ Len(t) = c /\ \A y \in 1..c : t[y] = w[(a + 1) + y]
      <3>1. /\ After(w, a + 1) \in Seq(S) /\ Len(After(w, a + 1)) = Len(w) - (a + 1)
            /\ \A y \in 1..(Len(w) - (a + 1)) : After(w, a + 1)[y] = w[(a + 1) + y]
        BY <1>10, AfterIs
      <3> QED
        BY <2>1, <3>1, ZenonT(60)
    <2>3. Len(t) = Len(v) /\ \A y \in 1..Len(t) : t[y] = v[y]
      BY <1>2, <1>8, <2>2, ZenonT(60)
    <2> QED
      BY <2>2, <2>3, SeqEqual
  <1> QED
    BY <1>2, <1>4, <1>5, <1>11, <1>12, <1>13, ZenonT(60)

-----------------------------------------------------------------------------
(* The query a client sends *)

QueryCharacter == Safe \cup {"&", "="}

Word(pair) == Encode(pair[1]) \o <<"=">> \o Encode(pair[2])

(* A key and its value are found again in their piece.                     *)
LEMMA WordIs ==
    ASSUME NEW pair \in Seq(Character) \X Seq(Character)
    PROVE  LET w == Word(pair) IN
           /\ w \in Seq(QueryCharacter) /\ Len(w) > 0
           /\ \A y \in 1..Len(w) : w[y] # "&"
           /\ Find(w, "=") # 0
           /\ Decode(Before(w, Find(w, "="))) = pair[1]
           /\ Decode(After(w, Find(w, "="))) = pair[2]
  <1> DEFINE S == Safe \cup {"="}
  <1>1. pair[1] \in Seq(Character) /\ pair[2] \in Seq(Character)
    OBVIOUS
  <1>2. PICK k \in Seq(Safe) : k = Encode(pair[1]) /\ Decode(k) = pair[1]
    BY <1>1, RoundTrip
  <1>3. PICK v \in Seq(Safe) : v = Encode(pair[2]) /\ Decode(v) = pair[2]
    BY <1>1, RoundTrip
  <1>4. k \in Seq(S) /\ v \in Seq(S) /\ "=" \in S
    OBVIOUS
  <1>5. \A y \in 1..Len(k) : k[y] # "="
    BY SafeIsSafe
  <1>6. "&" \notin S
    BY SafeIsSafe
  <1>7. S \subseteq QueryCharacter
    BY DEF QueryCharacter
  <1> HIDE DEF S
  <1>8. PICK w \in Seq(S) : /\ w = k \o <<"=">> \o v /\ Len(w) = (Len(k) + 1) + Len(v)
                            /\ Find(w, "=") = Len(k) + 1
                            /\ Before(w, Len(k) + 1) = k /\ After(w, Len(k) + 1) = v
    BY <1>4, <1>5, Cut, ZenonT(60)
  <1>9. w = Word(pair)
    BY <1>2, <1>3, <1>8 DEF Word
  <1>10. Len(k) + 1 # 0 /\ (Len(k) + 1) + Len(v) > 0
    OBVIOUS
  <1>11. w \in Seq(QueryCharacter) /\ \A y \in 1..Len(w) : w[y] # "&"
    BY <1>6, <1>7
  <1> QED
    BY <1>2, <1>3, <1>8, <1>9, <1>10, <1>11, ZenonT(60)

LEMMA PairIs ==
    ASSUME NEW pair \in Seq(Character) \X Seq(Character), NEW i \in Nat \ {0}
    PROVE  LET off == IF i = 1 THEN 0 ELSE 1 IN
           /\ Pair(i, pair) \in Seq(QueryCharacter)
           /\ Len(Pair(i, pair)) = off + Len(Word(pair))
           /\ i # 1 => Pair(i, pair)[1] = "&"
           /\ \A y \in 1..Len(Word(pair)) : Pair(i, pair)[off + y] = Word(pair)[y]
  <1>1. PICK w \in Seq(QueryCharacter) : w = Word(pair)
    BY WordIs
  <1>2. CASE i = 1
    <2>1. Pair(i, pair) = <<>> \o w
      BY <1>1, <1>2 DEF Pair, Word
    <2>2. Pair(i, pair) = w
      BY <2>1, ConcatEmptySeq
    <2>3. \A y \in 1..Len(w) : 0 + y = y
      OBVIOUS
    <2> QED
      BY <1>1, <1>2, <2>2, <2>3
  <1>3. CASE i # 1
    <2>1. PICK e \in Seq(QueryCharacter) : e = <<"&">> /\ Len(e) = 1 /\ e[1] = "&"
      <3>1. "&" \in QueryCharacter
        BY DEF QueryCharacter
      <3>2. <<"&">> \in Seq(QueryCharacter) /\ Len(<<"&">>) = 1 /\ <<"&">>[1] = "&"
        BY <3>1
      <3> QED
        BY <3>2, ZenonT(60)
    <2>2. PICK t \in Seq(QueryCharacter) :
             /\ t = e \o w /\ Len(t) = 1 + Len(w)
             /\ \A y \in 1..(1 + Len(w)) : t[y] = IF y <= 1 THEN e[y] ELSE w[y - 1]
      <3>1. /\ e \o w \in Seq(QueryCharacter) /\ Len(e \o w) = Len(e) + Len(w)
            /\ \A y \in 1..(Len(e) + Len(w)) : (e \o w)[y] = IF y <= Len(e) THEN e[y] ELSE w[y - Len(e)]
        BY ConcatProperties
      <3> QED
        BY <2>1, <3>1, ZenonT(60)
    <2>3. Pair(i, pair) = t
      BY <1>1, <1>3, <2>1, <2>2 DEF Pair, Word
    <2>4. t[1] = "&"
      BY <2>1, <2>2
    <2>5. \A y \in 1..Len(w) : t[1 + y] = w[y]
      <3>1. ASSUME NEW y \in 1..Len(w)
            PROVE  t[1 + y] = w[y]
        <4>1. 1 + y \in 1..(1 + Len(w)) /\ ~(1 + y <= 1) /\ (1 + y) - 1 = y
          OBVIOUS
        <4> QED
          BY <2>2, <4>1
      <3> QED
        BY <3>1
    <2> QED
      BY <1>1, <1>3, <2>2, <2>3, <2>4, <2>5
  <1> QED
    BY <1>2, <1>3

(* Where the pieces of a query start: in the order of the form.            *)
Laid(q, f, n, start) ==
    /\ \A i, j \in 1..n : i < j => start[i] < start[j]
    /\ n > 0 => start[1] = 1
    /\ Starts(q) = {1} \cup {start[i] : i \in 1..n}
    /\ \A i \in 1..n : Piece(q, start[i]) = Word(f[i])

LEMMA QueryIs ==
    ASSUME NEW n \in Nat, NEW f \in [1..n -> Seq(Character) \X Seq(Character)]
    PROVE  /\ Query(f) \in Seq(QueryCharacter) /\ (n = 0 => Query(f) = <<>>)
           /\ \E start \in [1..n -> Nat] : Laid(Query(f), f, n, start)
  <1> DEFINE p == [i \in 1..n |-> Pair(i, f[i])]
             o == [i \in 1..n |-> IF i = 1 THEN 0 ELSE 1]
             l == [i \in 1..n |-> Len(Word(f[i]))]
  <1>1. ASSUME NEW i \in 1..n
        PROVE  /\ p[i] \in Seq(QueryCharacter) /\ Len(p[i]) = o[i] + l[i]
               /\ i # 1 => p[i][1] = "&"
               /\ \A y \in 1..l[i] : p[i][o[i] + y] = Word(f[i])[y]
    <2>1. i \in Nat \ {0} /\ f[i] \in Seq(Character) \X Seq(Character)
      OBVIOUS
    <2>2. p[i] = Pair(i, f[i]) /\ l[i] = Len(Word(f[i])) /\ o[i] = IF i = 1 THEN 0 ELSE 1
      OBVIOUS
    <2>3. /\ Pair(i, f[i]) \in Seq(QueryCharacter)
          /\ Len(Pair(i, f[i])) = (IF i = 1 THEN 0 ELSE 1) + Len(Word(f[i]))
          /\ i # 1 => Pair(i, f[i])[1] = "&"
          /\ \A y \in 1..Len(Word(f[i])) : Pair(i, f[i])[(IF i = 1 THEN 0 ELSE 1) + y] = Word(f[i])[y]
      BY <2>1, PairIs
    <2> HIDE DEF p, o, l
    <2> QED
      BY <2>2, <2>3, ZenonT(60)
  <1>2. ASSUME NEW i \in 1..n
        PROVE  /\ Word(f[i]) \in Seq(QueryCharacter) /\ l[i] = Len(Word(f[i])) /\ l[i] \in Nat /\ l[i] > 0
               /\ \A y \in 1..l[i] : Word(f[i])[y] # "&"
    <2>1. f[i] \in Seq(Character) \X Seq(Character) /\ l[i] = Len(Word(f[i]))
      OBVIOUS
    <2> HIDE DEF l
    <2>2. /\ Word(f[i]) \in Seq(QueryCharacter) /\ Len(Word(f[i])) > 0
          /\ \A y \in 1..Len(Word(f[i])) : Word(f[i])[y] # "&"
      BY <2>1, WordIs
    <2>3. Len(Word(f[i])) \in Nat
      BY <2>2
    <2> QED
      BY <2>1, <2>2, <2>3, ZenonT(60)
  <1>3. ASSUME NEW i \in 1..n
        PROVE  (i = 1 => o[i] = 0) /\ (i # 1 => o[i] = 1) /\ o[i] \in 0..1
    OBVIOUS
  <1>4. p \in [1..n -> Seq(QueryCharacter)]
    <2>1. p = [i \in 1..n |-> p[i]]
      OBVIOUS
    <2> HIDE DEF p
    <2> QED
      BY <1>1, <2>1
  <1>5. Query(f) = FlattenSeq(p)
    BY DEF Query
  <1> HIDE DEF p, o, l
  <1>6. PICK q \in Seq(QueryCharacter), at \in [0..n -> Nat] : q = Query(f) /\ Lies(q, p, n, at)
    BY <1>4, <1>5, Flattened
  <1>7. n = 0 => Query(f) = <<>>
    <2>1. ASSUME n = 0
          PROVE  Len(q) = 0
      BY <1>6, <2>1 DEF Lies
    <2> QED
      BY <1>6, <2>1, EmptySeq
  <1>8. ASSUME NEW i \in 1..n
        PROVE  /\ i - 1 \in 0..n /\ i \in 0..n /\ at[i - 1] \in Nat /\ at[i] \in Nat
               /\ at[i] = at[i - 1] + (o[i] + l[i]) /\ at[i] <= Len(q)
               /\ \A y \in 1..l[i] : q[(at[i - 1] + o[i]) + y] = Word(f[i])[y]
               /\ i # 1 => q[at[i - 1] + 1] = "&"
    <2>1. i - 1 \in 0..n /\ i \in 0..n /\ n \in 0..n /\ i <= n
      OBVIOUS
    <2>2. /\ at[i] = at[i - 1] + Len(p[i]) /\ at[i] <= at[n] /\ Len(q) = at[n]
          /\ \A y \in 1..Len(p[i]) : q[at[i - 1] + y] = p[i][y]
      BY <1>6, <2>1 DEF Lies
    <2>3. PICK a \in Nat, b \in Nat, u \in 0..1, v \in Nat :
            a = at[i - 1] /\ b = at[i] /\ u = o[i] /\ v = l[i]
      <3>1. at[i - 1] \in Nat /\ at[i] \in Nat
        BY <2>1
      <3> QED
        BY <1>2, <1>3, <3>1, ZenonT(60)
    <2>4. Len(p[i]) = u + v /\ v > 0
      BY <1>1, <1>2, <2>3, ZenonT(60)
    <2>5. \A y \in 1..v : u + y \in 1..(u + v) /\ (a + u) + y = a + (u + y)
      OBVIOUS
    <2>6. ASSUME NEW y \in 1..v
          PROVE  q[(a + u) + y] = Word(f[i])[y]
      <3>1. q[a + (u + y)] = p[i][u + y]
        BY <2>2, <2>3, <2>4, <2>5, ZenonT(60)
      <3>2. p[i][u + y] = Word(f[i])[y]
        BY <1>1, <2>3, ZenonT(60)
      <3> QED
        BY <2>5, <3>1, <3>2, ZenonT(60)
    <2>7. i # 1 => q[a + 1] = "&"
      <3>1. 1 \in 1..(u + v)
        BY <2>4
      <3> QED
        BY <1>1, <2>2, <2>3, <2>4, <3>1, ZenonT(60)
    <2>8. a + (u + v) = b /\ at[i] <= Len(q)
      BY <2>2, <2>3, <2>4, ZenonT(60)
    <2> QED
      BY <2>1, <2>3, <2>6, <2>7, <2>8, ZenonT(60)
  <1> DEFINE start == [i \in 1..n |-> (at[i - 1] + o[i]) + 1]
  <1>9. ASSUME NEW i \in 1..n
        PROVE  start[i] = (at[i - 1] + o[i]) + 1 /\ start[i] \in Nat /\ start[i] <= at[i]
    <2>1. start[i] = (at[i - 1] + o[i]) + 1
      OBVIOUS
    <2> HIDE DEF start
    <2>2. PICK a \in Nat, b \in Nat, u \in 0..1, v \in Nat :
            a = at[i - 1] /\ b = at[i] /\ u = o[i] /\ v = l[i] /\ b = a + (u + v) /\ v > 0
      BY <1>2, <1>3, <1>8, ZenonT(60)
    <2>3. b = a + (u + v) /\ v > 0
      BY <2>2, ZenonT(60)
    <2>4. (a + u) + 1 \in Nat /\ (a + u) + 1 <= b
      BY <2>3
    <2> QED
      BY <2>1, <2>2, <2>4, ZenonT(60)
  <1>10. start \in [1..n -> Nat]
    <2>1. start = [i \in 1..n |-> start[i]]
      OBVIOUS
    <2> HIDE DEF start
    <2> QED
      BY <1>9, <2>1
  <1> HIDE DEF start
  <1>11. ASSUME NEW i \in 1..n, NEW j \in 1..n, i < j
         PROVE  start[i] < start[j]
    <2>1. i <= j - 1 /\ i \in 0..n /\ j - 1 \in 0..n
      BY <1>11
    <2>2. at[i] <= at[j - 1]
      BY <1>6, <2>1 DEF Lies
    <2>3. PICK b \in Nat, c \in Nat, u \in 0..1, v \in Nat :
            /\ b = at[i] /\ c = at[j - 1] /\ u = o[j] /\ v = start[i]
            /\ start[j] = (c + u) + 1 /\ v <= b
      <3>1. at[i] \in Nat /\ at[j - 1] \in Nat
        BY <2>1
      <3>2. o[j] \in 0..1 /\ start[i] \in Nat /\ start[j] = (at[j - 1] + o[j]) + 1 /\ start[i] <= at[i]
        BY <1>3, <1>9, ZenonT(60)
      <3> QED
        BY <3>1, <3>2, ZenonT(60)
    <2>4. b <= c /\ v <= b
      BY <2>2, <2>3, ZenonT(60)
    <2>5. v < (c + u) + 1
      BY <2>4
    <2> QED
      BY <2>3, <2>5, ZenonT(60)
  <1>12. n > 0 => start[1] = 1
    <2>1. ASSUME n > 0
          PROVE  start[1] = 1
      <3>1. 1 \in 1..n /\ 1 - 1 = 0
        BY <2>1
      <3>2. start[1] = (at[0] + o[1]) + 1 /\ o[1] = 0 /\ at[0] = 0
        BY <1>3, <1>6, <1>9, <3>1 DEF Lies
      <3> QED
        BY <3>2
    <2> QED
      BY <2>1
  <1>13. ASSUME NEW x \in 1..Len(q), q[x] = "&"
         PROVE  \E i \in 1..n : x + 1 = start[i]
    <2>1. x \in 1..at[n]
      BY <1>6 DEF Lies
    <2>2. PICK i \in 1..n : at[i - 1] < x /\ x <= at[i]
      BY <1>6, <2>1 DEF Lies
    <2>3. PICK a \in Nat, b \in Nat, u \in 0..1, v \in Nat :
            /\ a = at[i - 1] /\ b = at[i] /\ u = o[i] /\ v = l[i] /\ b = a + (u + v) /\ v > 0
            /\ start[i] = (a + u) + 1
      <3>1. at[i - 1] \in Nat /\ at[i] \in Nat /\ at[i] = at[i - 1] + (o[i] + l[i])
        BY <1>8, ZenonT(60)
      <3>2. start[i] = (at[i - 1] + o[i]) + 1 /\ o[i] \in 0..1 /\ l[i] \in Nat /\ l[i] > 0
        BY <1>2, <1>3, <1>9, ZenonT(60)
      <3> QED
        BY <3>1, <3>2, ZenonT(60)
    <2>4. a < x /\ x <= b /\ b = a + (u + v)
      BY <2>2, <2>3, ZenonT(60)
    <2>5. CASE x > a + u
      <3>1. x - (a + u) \in 1..v /\ (a + u) + (x - (a + u)) = x
        BY <2>4, <2>5
      <3>2. q[(a + u) + (x - (a + u))] = Word(f[i])[x - (a + u)]
        BY <1>8, <2>3, <3>1, ZenonT(60)
      <3>3. Word(f[i])[x - (a + u)] # "&"
        BY <1>2, <2>3, <3>1, ZenonT(60)
      <3> QED
        BY <1>13, <3>1, <3>2, <3>3, ZenonT(60)
    <2>6. CASE x <= a + u
      <3>1. x + 1 = (a + u) + 1
        BY <2>4, <2>6
      <3> QED
        BY <2>3, <3>1, ZenonT(60)
    <2> QED
      BY <2>5, <2>6
  <1>14. ASSUME NEW i \in 1..n, i # 1
         PROVE  \E x \in 1..Len(q) : q[x] = "&" /\ x + 1 = start[i]
    <2>1. PICK a \in Nat, b \in Nat, v \in Nat, m \in Nat :
            /\ a = at[i - 1] /\ b = at[i] /\ v = l[i] /\ b = a + (1 + v) /\ v > 0
            /\ start[i] = (a + 1) + 1 /\ m = Len(q) /\ b <= m
      <3>1. Len(q) \in Nat /\ o[i] = 1
        BY <1>3, <1>14
      <3>2. at[i - 1] \in Nat /\ at[i] \in Nat /\ at[i] = at[i - 1] + (1 + l[i]) /\ at[i] <= Len(q)
        BY <1>8, <3>1, ZenonT(60)
      <3>3. start[i] = (at[i - 1] + 1) + 1 /\ l[i] \in Nat /\ l[i] > 0
        BY <1>2, <1>9, <3>1, ZenonT(60)
      <3> QED
        BY <3>1, <3>2, <3>3, ZenonT(60)
    <2>2. a + 1 \in 1..m
      <3>1. b = a + (1 + v) /\ b <= m
        BY <2>1, ZenonT(60)
      <3> QED
        BY <3>1
    <2>3. q[a + 1] = "&"
      BY <1>8, <1>14, <2>1, ZenonT(60)
    <2> QED
      BY <2>1, <2>2, <2>3, ZenonT(60)
  <1>15. Starts(q) = {1} \cup {start[i] : i \in 1..n}
    <2>1. DOMAIN q = 1..Len(q)
      OBVIOUS
    <2>2. Starts(q) = {1} \cup {x + 1 : x \in {y \in 1..Len(q) : q[y] = "&"}}
      BY <2>1 DEF Starts
    <2>3. ASSUME NEW z \in {x + 1 : x \in {y \in 1..Len(q) : q[y] = "&"}}
          PROVE  z \in {start[i] : i \in 1..n}
      BY <1>13
    <2>4. ASSUME NEW i \in 1..n
          PROVE  start[i] \in {1} \cup {x + 1 : x \in {y \in 1..Len(q) : q[y] = "&"}}
      <3>1. CASE i = 1
        <4>1. n > 0
          OBVIOUS
        <4> QED
          BY <1>12, <3>1, <4>1
      <3>2. CASE i # 1
        BY <1>14, <3>2
      <3> QED
        BY <3>1, <3>2
    <2> QED
      BY <2>2, <2>3, <2>4
  <1>16. ASSUME NEW i \in 1..n
         PROVE  Piece(q, start[i]) = Word(f[i])
    <2>1. PICK a \in Nat, b \in Nat, u \in 0..1, v \in Nat, m \in Nat, w \in Seq(QueryCharacter) :
            /\ a = at[i - 1] /\ b = at[i] /\ u = o[i] /\ v = l[i] /\ b = a + (u + v)
            /\ start[i] = (a + u) + 1 /\ m = Len(q) /\ b <= m
            /\ w = Word(f[i]) /\ Len(w) = v
      <3>1. Len(q) \in Nat
        OBVIOUS
      <3>2. /\ at[i - 1] \in Nat /\ at[i] \in Nat /\ at[i] = at[i - 1] + (o[i] + l[i])
            /\ at[i] <= Len(q)
        BY <1>8, ZenonT(60)
      <3>3. /\ start[i] = (at[i - 1] + o[i]) + 1 /\ o[i] \in 0..1 /\ l[i] \in Nat
            /\ Word(f[i]) \in Seq(QueryCharacter) /\ Len(Word(f[i])) = l[i]
        BY <1>2, <1>3, <1>9, ZenonT(60)
      <3> QED
        BY <3>1, <3>2, <3>3, ZenonT(60)
    <2>2. PICK c \in Nat : c = a + u /\ c + v = b
      <3>1. b = a + (u + v)
        BY <2>1, ZenonT(60)
      <3>2. a + u \in Nat /\ (a + u) + v = b
        BY <3>1
      <3> QED
        BY <3>2, ZenonT(60)
    <2>3. \A y \in 1..v : q[c + y] = w[y] /\ w[y] # "&"
      BY <1>2, <1>8, <2>1, <2>2, ZenonT(60)
    <2>4. c + v < m => q[c + v + 1] = "&"
      <3>1. ASSUME c + v < m
            PROVE  q[c + v + 1] = "&"
        <4>1. i # n
          <5>1. Len(q) = at[n]
            BY <1>6 DEF Lies
          <5>2. i = n => b = m
            BY <2>1, <5>1, ZenonT(60)
          <5> QED
            BY <2>2, <3>1, <5>2
        <4>2. i + 1 \in 1..n /\ i + 1 # 1 /\ (i + 1) - 1 = i
          BY <4>1
        <4>3. q[at[i] + 1] = "&"
          BY <1>8, <4>2
        <4> QED
          BY <2>1, <2>2, <4>3, ZenonT(60)
      <3> QED
        BY <3>1
    <2>5. Piece(q, c + 1) = w
      <3>1. c + Len(w) <= Len(q)
        BY <2>1, <2>2
      <3>2. \A y \in 1..Len(w) : q[c + y] = w[y] /\ w[y] # "&"
        BY <2>1, <2>3
      <3>3. c + Len(w) < Len(q) => q[c + Len(w) + 1] = "&"
        BY <2>1, <2>4
      <3> QED
        BY <3>1, <3>2, <3>3, PieceIs
    <2> QED
      BY <2>1, <2>2, <2>5, ZenonT(60)
  <1> QED
    BY <1>6, <1>7, <1>10, <1>11, <1>12, <1>15, <1>16 DEF Laid

LEMMA MaxIs ==
    ASSUME NEW T, T \subseteq Nat, NEW m \in T, \A y \in T : y <= m
    PROVE  Max(T) = m
  <1>1. \A y \in T : m >= y
    OBVIOUS
  <1>2. Max(T) \in T /\ \A y \in T : Max(T) >= y
    BY <1>1, ZenonT(60) DEF Max
  <1>3. PICK x \in Nat : x = Max(T) /\ x \in T
    BY <1>2
  <1>4. x <= m /\ x >= m
    BY <1>2, <1>3
  <1>5. x = m
    BY <1>4
  <1> QED
    BY <1>3, <1>5

LEMMA Greatest ==
    ASSUME NEW n \in Nat, NEW T, T \subseteq 1..n, T # {}
    PROVE  \E m \in T : \A y \in T : y <= m
  <1> DEFINE D == {n - i : i \in T}
  <1>1. D \subseteq Nat /\ D # {}
    <2>1. \A i \in T : n - i \in Nat
      OBVIOUS
    <2>2. D \subseteq Nat
      BY <2>1
    <2>3. PICK i : i \in T
      OBVIOUS
    <2>4. n - i \in D
      BY <2>3
    <2> HIDE DEF D
    <2> QED
      BY <2>2, <2>4
  <1>2. \A i \in T : n - i \in D
    OBVIOUS
  <1>3. \A d \in D : \E i \in T : d = n - i
    OBVIOUS
  <1> HIDE DEF D
  <1>4. PICK d \in D : \A e \in D : d <= e
    BY <1>1, LeastNumber
  <1>5. PICK m \in T : d = n - m
    BY <1>3
  <1>6. \A y \in T : n - m <= n - y
    BY <1>2, <1>4, <1>5
  <1>7. \A y \in T : y <= m
    BY <1>6
  <1> QED
    BY <1>7

(* Splitting a query and decoding its pieces gives the form back.          *)
LEMMA ParamsAre ==
    ASSUME NEW n \in Nat, NEW f \in [1..n -> Seq(Character) \X Seq(Character)]
    PROVE  Params(Query(f)) = Meaning(f)
  <1>1. PICK q \in Seq(QueryCharacter), start \in [1..n -> Nat] :
             q = Query(f) /\ (n = 0 => q = <<>>) /\ Laid(q, f, n, start)
    BY QueryIs
  <1> DEFINE pairs == {i \in Starts(q) : Find(Piece(q, i), "=") # 0}
             key == [i \in pairs |-> Decode(Before(Piece(q, i), Find(Piece(q, i), "=")))]
             val == [i \in pairs |-> Decode(After(Piece(q, i), Find(Piece(q, i), "=")))]
  <1>2. ASSUME NEW i \in 1..n
        PROVE  /\ Find(Piece(q, start[i]), "=") # 0
               /\ Decode(Before(Piece(q, start[i]), Find(Piece(q, start[i]), "="))) = f[i][1]
               /\ Decode(After(Piece(q, start[i]), Find(Piece(q, start[i]), "="))) = f[i][2]
    <2>1. f[i] \in Seq(Character) \X Seq(Character) /\ Piece(q, start[i]) = Word(f[i])
      BY <1>1 DEF Laid
    <2>2. /\ Find(Word(f[i]), "=") # 0
          /\ Decode(Before(Word(f[i]), Find(Word(f[i]), "="))) = f[i][1]
          /\ Decode(After(Word(f[i]), Find(Word(f[i]), "="))) = f[i][2]
      BY <2>1, WordIs
    <2> QED
      BY <2>1, <2>2, ZenonT(60)
  <1>3. ASSUME NEW x \in Starts(q), Find(Piece(q, x), "=") # 0
        PROVE  \E i \in 1..n : x = start[i]
    <2>1. x = 1 \/ \E i \in 1..n : x = start[i]
      BY <1>1 DEF Laid
    <2>2. CASE x = 1
      <3>1. CASE n = 0
        <4>1. PICK w \in Seq(QueryCharacter) : w = <<>> /\ Len(w) = 0 /\ w = q
          BY <1>1, <3>1, EmptySeq
        <4>2. Piece(q, 0 + 1) = w
          <5>1. 0 \in Nat /\ 0 + Len(w) <= Len(q) /\ ~(0 + Len(w) < Len(q)) /\ 1..Len(w) = {}
            BY <4>1
          <5>2. \A y \in 1..Len(w) : q[0 + y] = w[y] /\ w[y] # "&"
            BY <5>1
          <5> QED
            BY <5>1, <5>2, PieceIs
        <4>3. Find(w, "=") = 0
          BY <4>1, FindNone
        <4>4. 0 + 1 = 1
          OBVIOUS
        <4> QED
          BY <1>3, <2>2, <4>2, <4>3, <4>4, ZenonT(60)
      <3>2. CASE n # 0
        <4>1. n > 0 /\ 1 \in 1..n
          BY <3>2
        <4> QED
          BY <1>1, <2>2, <4>1 DEF Laid
      <3> QED
        BY <3>1, <3>2
    <2> QED
      BY <2>1, <2>2
  <1>4. \A i \in 1..n : start[i] \in Starts(q)
    BY <1>1 DEF Laid
  <1>5. pairs = {start[i] : i \in 1..n}
    BY <1>2, <1>3, <1>4
  <1>6. ASSUME NEW i \in 1..n
        PROVE  start[i] \in pairs /\ key[start[i]] = f[i][1] /\ val[start[i]] = f[i][2]
    <2>1. start[i] \in pairs
      BY <1>2, <1>4
    <2>2. /\ key[start[i]] = Decode(Before(Piece(q, start[i]), Find(Piece(q, start[i]), "=")))
          /\ val[start[i]] = Decode(After(Piece(q, start[i]), Find(Piece(q, start[i]), "=")))
      BY <2>1
    <2> HIDE DEF pairs, key, val
    <2> QED
      BY <1>2, <2>1, <2>2, ZenonT(60)
  <1>7. Params(q) = [k \in {key[i] : i \in pairs} |-> val[Max({i \in pairs : key[i] = k})]]
    BY DEF Params
  <1>8. Meaning(f) = [k \in {f[i][1] : i \in 1..n} |-> f[Max({i \in 1..n : f[i][1] = k})][2]]
    <2>1. DOMAIN f = 1..n
      OBVIOUS
    <2> QED
      BY <2>1, ZenonT(60) DEF Meaning
  <1> HIDE DEF pairs, key, val
  <1>9. {key[i] : i \in pairs} = {f[i][1] : i \in 1..n}
    <2>1. \A x \in pairs : \E i \in 1..n : x = start[i]
      BY <1>5
    <2>2. ASSUME NEW x \in pairs
          PROVE  key[x] \in {f[i][1] : i \in 1..n}
      <3>1. PICK i \in 1..n : x = start[i]
        BY <2>1
      <3>2. key[x] = f[i][1]
        BY <1>6, <3>1
      <3> QED
        BY <3>2
    <2>3. ASSUME NEW i \in 1..n
          PROVE  f[i][1] \in {key[x] : x \in pairs}
      <3>1. start[i] \in pairs /\ key[start[i]] = f[i][1]
        BY <1>6
      <3> QED
        BY <3>1, ZenonT(60)
    <2>4. {key[x] : x \in pairs} \subseteq {f[i][1] : i \in 1..n}
      BY <2>2
    <2>5. {f[i][1] : i \in 1..n} \subseteq {key[x] : x \in pairs}
      BY <2>3
    <2> QED
      BY <2>4, <2>5, ZenonT(60)
  <1>10. ASSUME NEW k \in {f[i][1] : i \in 1..n}
         PROVE  val[Max({i \in pairs : key[i] = k})] = f[Max({i \in 1..n : f[i][1] = k})][2]
    <2> DEFINE I == {i \in 1..n : f[i][1] = k}
               J == {i \in pairs : key[i] = k}
    <2>1. I \subseteq 1..n /\ I # {} /\ I \subseteq Nat
      OBVIOUS
    <2>2. \A i \in I : i \in 1..n /\ f[i][1] = k
      OBVIOUS
    <2>3. J \subseteq Nat
      BY <1>5
    <2>4. \A i \in I : start[i] \in J
      BY <1>6
    <2>5. \A j \in J : \E i \in I : j = start[i]
      <3>1. ASSUME NEW j \in J
            PROVE  \E i \in I : j = start[i]
        <4>1. PICK i \in 1..n : j = start[i]
          BY <1>5
        <4>2. f[i][1] = k
          BY <1>6, <4>1
        <4> QED
          BY <4>1, <4>2
      <3> QED
        BY <3>1
    <2> HIDE DEF I, J
    <2>6. PICK m \in I : \A y \in I : y <= m
      BY <2>1, Greatest
    <2>7. Max(I) = m
      BY <2>1, <2>6, MaxIs
    <2>8. \A i \in I : start[i] <= start[m]
      <3>1. ASSUME NEW i \in I
            PROVE  start[i] <= start[m]
        <4>1. i \in 1..n /\ m \in 1..n /\ i <= m
          BY <2>2, <2>6
        <4>2. i = m \/ i < m
          BY <4>1
        <4>3. start[i] \in Nat /\ start[m] \in Nat
          BY <4>1
        <4>4. i < m => start[i] < start[m]
          BY <1>1, <4>1 DEF Laid
        <4>5. CASE i = m
          BY <4>3, <4>5
        <4>6. CASE i < m
          BY <4>3, <4>4, <4>6
        <4> QED
          BY <4>2, <4>5, <4>6
      <3> QED
        BY <3>1
    <2>9. start[m] \in J /\ \A j \in J : j <= start[m]
      BY <2>4, <2>5, <2>8
    <2>10. Max(J) = start[m]
      BY <2>3, <2>9, MaxIs
    <2>11. val[start[m]] = f[m][2]
      BY <1>6, <2>2
    <2>12. val[Max(J)] = f[Max(I)][2]
      BY <2>7, <2>10, <2>11, ZenonT(60)
    <2> QED
      BY <2>12 DEF I, J
  <1>11. Params(q) = Meaning(f)
    BY <1>7, <1>8, <1>9, <1>10
  <1> QED
    BY <1>1, <1>11

-----------------------------------------------------------------------------
(* The request target *)

(* The path Route finds.                                                   *)
PathOf(t) == IF CleanPath(t) = <<>> THEN "" ELSE CleanPath(t)[1]

LEMMA TargetIs ==
    ASSUME NEW p \in Paths, NEW f \in Seq(Seq(Character) \X Seq(Character))
    PROVE  QueryParams(Sent(p, f)) = Meaning(f) /\ PathOf(Sent(p, f)) = p
  <1> DEFINE S == QueryCharacter \cup Paths \cup {"?"}
  <1>1. PICK n \in Nat : n = Len(f) /\ f \in [1..n -> Seq(Character) \X Seq(Character)]
    <2>1. Len(f) \in Nat /\ f \in [1..Len(f) -> Seq(Character) \X Seq(Character)]
      BY LenProperties
    <2> QED
      BY <2>1, ZenonT(60)
  <1>2. PICK q \in Seq(QueryCharacter) : q = Query(f) /\ (n = 0 => q = <<>>) /\ Params(q) = Meaning(f)
    BY <1>1, QueryIs, ParamsAre
  <1>3. q \in Seq(S) /\ "?" \in S /\ p \in S
    <2>1. QueryCharacter \subseteq S /\ "?" \in S /\ p \in S
      BY ZenonT(60)
    <2> HIDE DEF S
    <2> QED
      BY <2>1
  <1>4. p # "?"
    BY DEF Paths, File
  <1> HIDE DEF S
  <1>5. PICK h \in Seq(S) : /\ h = (IF p = "" THEN <<>> ELSE <<p>>)
                            /\ \A y \in 1..Len(h) : h[y] # "?"
                            /\ (IF h = <<>> THEN "" ELSE h[1]) = p
    <2>1. CASE p = ""
      <3>1. <<>> \in Seq(S) /\ Len(<<>>) = 0
        BY EmptySeq
      <3>2. 1..0 = {}
        OBVIOUS
      <3> QED
        BY <2>1, <3>1, <3>2, ZenonT(60)
    <2>2. CASE p # ""
      <3>1. <<p>> \in Seq(S) /\ Len(<<p>>) = 1 /\ <<p>>[1] = p /\ <<p>> # <<>>
        BY <1>3
      <3>2. \A y \in 1..1 : y = 1
        OBVIOUS
      <3> QED
        BY <1>4, <2>2, <3>1, <3>2, ZenonT(60)
    <2> QED
      BY <2>1, <2>2
  <1>6. CASE f = <<>> /\ p # ""
    <2>1. q = <<>>
      <3>1. n = 0
        BY <1>1, <1>6, EmptySeq
      <3> QED
        BY <1>2, <3>1
    <2>2. Sent(p, f) = h
      <3>1. Sent(p, f) = (h \o <<>>) \o <<>>
        BY <1>2, <1>5, <1>6, <2>1, ZenonT(60) DEF Sent
      <3>2. h \o <<>> = h
        BY ConcatEmptySeq
      <3> QED
        BY <3>1, <3>2, ZenonT(60)
    <2>3. Find(h, "?") = 0
      BY <1>5, FindNone
    <2>4. Meaning(f) = <<>>
      <3>1. DOMAIN f = {}
        <4>1. n = 0
          BY <1>1, <1>6, EmptySeq
        <4>2. DOMAIN f = 1..n /\ 1..0 = {}
          BY <1>1
        <4> QED
          BY <4>1, <4>2, ZenonT(60)
      <3>2. {f[i][1] : i \in DOMAIN f} = {}
        BY <3>1
      <3>3. Meaning(f) = [k \in {} |-> f[Max({i \in DOMAIN f : f[i][1] = k})][2]]
        BY <3>2, ZenonT(60) DEF Meaning
      <3>4. PICK g : g = Meaning(f) /\ g \in [1..0 -> {}]
        <4>1. 1..0 = {}
          OBVIOUS
        <4>2. [k \in {} |-> f[Max({i \in DOMAIN f : f[i][1] = k})][2]] \in [{} -> {}]
          BY ZenonT(60)
        <4> QED
          BY <3>3, <4>1, <4>2, ZenonT(60)
      <3>5. g \in Seq({}) /\ Len(g) = 0
        BY <3>4
      <3> QED
        BY <3>4, <3>5, EmptySeq
    <2> QED
      BY <1>5, <2>2, <2>3, <2>4, ZenonT(60) DEF QueryParams, CleanPath, PathOf
  <1>7. CASE ~(f = <<>> /\ p # "")
    <2>1. PICK w \in Seq(S) : /\ w = h \o <<"?">> \o q /\ Len(w) = (Len(h) + 1) + Len(q)
                              /\ Find(w, "?") = Len(h) + 1
                              /\ Before(w, Len(h) + 1) = h /\ After(w, Len(h) + 1) = q
      <3>1. \A y \in 1..Len(h) : h[y] # "?"
        BY <1>5, ZenonT(60)
      <3>2. q \in Seq(S) /\ "?" \in S
        BY <1>3, ZenonT(60)
      <3> QED
        BY <3>1, <3>2, Cut, ZenonT(60)
    <2>2. Sent(p, f) = w
      BY <1>2, <1>5, <1>7, <2>1, ZenonT(60) DEF Sent
    <2>3. Len(h) + 1 # 0
      OBVIOUS
    <2>4. QueryParams(w) = Params(q) /\ CleanPath(w) = h
      BY <2>1, <2>3, ZenonT(60) DEF QueryParams, CleanPath
    <2> QED
      BY <1>2, <1>5, <2>2, <2>4, ZenonT(60) DEF PathOf
  <1> QED
    BY <1>6, <1>7

-----------------------------------------------------------------------------
(* The answers of module Http *)

(* Atomic!AnswerTo, case by case.                                          *)
AnswersNow ==
    \A m \in Methods, p \in Paths :
        LET answer == Atomic!AnswerTo([method |-> m, path |-> p], TRUE) IN
        /\ mode = "DynamicPath" =>
             answer = Atomic!Reply(IF m = "GET" /\ p \in Atomic!Endpoints THEN 200 ELSE 404, 1)
        /\ mode = "FastPath" =>
             /\ p = "" => answer = Atomic!Failure("panic")
             /\ p = "/" => answer = Atomic!Failure("err")
             /\ p \notin {"", "/", File} => answer = Atomic!Reply(404, 1)
             /\ p = File =>
                  /\ linked = None => answer = Atomic!Reply(404, 1)
                  /\ linked # None /\ data[linked] = <<>> => answer = Atomic!Failure("err")
                  /\ linked # None /\ data[linked] # <<>> =>
                       answer = Atomic!Reply(200, 1 + Len(data[linked]))

LEMMA AnswersAre == AnswersNow
  <1> SUFFICES ASSUME NEW m \in Methods, NEW p \in Paths
               PROVE  LET answer == Atomic!AnswerTo([method |-> m, path |-> p], TRUE) IN
        /\ mode = "DynamicPath" =>
             answer = Atomic!Reply(IF m = "GET" /\ p \in Atomic!Endpoints THEN 200 ELSE 404, 1)
        /\ mode = "FastPath" =>
             /\ p = "" => answer = Atomic!Failure("panic")
             /\ p = "/" => answer = Atomic!Failure("err")
             /\ p \notin {"", "/", File} => answer = Atomic!Reply(404, 1)
             /\ p = File =>
                  /\ linked = None => answer = Atomic!Reply(404, 1)
                  /\ linked # None /\ data[linked] = <<>> => answer = Atomic!Failure("err")
                  /\ linked # None /\ data[linked] # <<>> =>
                       answer = Atomic!Reply(200, 1 + Len(data[linked]))
    BY ZenonT(60) DEF AnswersNow
  <1> DEFINE r == [method |-> m, path |-> p]
             kinds == [x \in Paths |-> KindNow(x)]
  <1>1. r.method = m /\ r.path = p /\ r # Atomic!NoRequest
    <2>1. r.method = m /\ r.path = p
      OBVIOUS
    <2>2. m # "" /\ Atomic!NoRequest.method = ""
      BY DEF Methods, Atomic!NoRequest
    <2> QED
      BY <2>1, <2>2
  <1>2. kinds[r.path] = KindNow(p)
    BY <1>1
  <1>3. ASSUME mode = "DynamicPath"
        PROVE  Atomic!AnswerTo(r, TRUE) = Atomic!Reply(IF m = "GET" /\ p \in Atomic!Endpoints THEN 200 ELSE 404, 1)
    <2>1. Atomic!AnswerTo(r, TRUE) = Atomic!HandleDynamic(r)
      BY <1>1, <1>3 DEF Atomic!AnswerTo
    <2> QED
      BY <1>1, <2>1 DEF Atomic!HandleDynamic, Atomic!NotFound
  <1>4. ASSUME mode = "FastPath"
        PROVE  Atomic!AnswerTo(r, TRUE) = Atomic!HandleStaticFile(r, TRUE)
    BY <1>1, <1>4 DEF Atomic!AnswerTo
  <1>5. /\ p = "" => KindNow(p) = "nopath"
        /\ p = "/" => KindNow(p) = "dir"
        /\ p \notin {"", "/", File} => KindNow(p) = "missing"
        /\ p = File /\ linked = None => KindNow(p) = "missing"
        /\ p = File /\ linked # None /\ data[linked] = <<>> => KindNow(p) = "empty"
        /\ p = File /\ linked # None /\ data[linked] # <<>> => KindNow(p) = "regular"
    BY DEF KindNow, File
  <1>6. /\ KindNow(p) = "nopath" => Atomic!HandleStaticFile(r, TRUE) = Atomic!Failure("panic")
        /\ KindNow(p) = "missing" => Atomic!HandleStaticFile(r, TRUE) = Atomic!Reply(404, 1)
        /\ KindNow(p) = "regular" =>
             Atomic!HandleStaticFile(r, TRUE) = Atomic!Reply(200, 1 + (IF linked = None THEN 1 ELSE Len(data[linked])))
        /\ KindNow(p) \in {"dir", "empty"} => Atomic!HandleStaticFile(r, TRUE) = Atomic!Failure("err")
    BY <1>2 DEF Atomic!HandleStaticFile, Atomic!MmapFile, Atomic!NotFound
  <1>7. ASSUME mode = "FastPath"
        PROVE  /\ p = "" => Atomic!AnswerTo(r, TRUE) = Atomic!Failure("panic")
               /\ p = "/" => Atomic!AnswerTo(r, TRUE) = Atomic!Failure("err")
               /\ p \notin {"", "/", File} => Atomic!AnswerTo(r, TRUE) = Atomic!Reply(404, 1)
    BY <1>4, <1>5, <1>6, <1>7, ZenonT(60)
  <1>8. ASSUME mode = "FastPath", p = File
        PROVE  /\ linked = None => Atomic!AnswerTo(r, TRUE) = Atomic!Reply(404, 1)
               /\ linked # None /\ data[linked] = <<>> => Atomic!AnswerTo(r, TRUE) = Atomic!Failure("err")
               /\ linked # None /\ data[linked] # <<>> =>
                    Atomic!AnswerTo(r, TRUE) = Atomic!Reply(200, 1 + Len(data[linked]))
    BY <1>4, <1>5, <1>6, <1>8, ZenonT(60)
  <1> QED
    BY <1>3, <1>7, <1>8, ZenonT(60)

LEMMA ReplyFields ==
    ASSUME NEW st, NEW n, NEW kind
    PROVE  /\ Atomic!Reply(st, n).kind = "ok" /\ Atomic!Reply(st, n).status = st /\ Atomic!Reply(st, n).len = n
           /\ Atomic!Failure(kind).kind = kind /\ Atomic!Failure(kind).len = 0
  BY DEF Atomic!Reply, Atomic!Failure

(* The outcome is the answer of module Http.                               *)
SameAnswer(answer, result) ==
    /\ answer.kind = result.kind
    /\ answer.kind = "ok" => answer.status = result.resp.status
    /\ answer.len > 1 => answer.len = Len(ToBytes(result.resp))

LEMMA SameAnswerIs ==
    AtomicWhenQuiet <=>
        (Returned /\ happened = {} =>
            SameAnswer(Atomic!AnswerTo([method |-> method, path |-> path], TRUE), outcome))
  BY DEF AtomicWhenQuiet, SameAnswer

LEMMA BytesOf ==
    ASSUME NEW resp, resp.body \in Seq(Nat)
    PROVE  Len(ToBytes(resp)) = 1 + Len(resp.body)
  <1>1. PICK head : head = [status |-> resp.status, headers |-> resp.headers]
    OBVIOUS
  <1>2. PICK S : resp.body \in Seq(S) /\ <<head>> \in Seq(S) /\ Len(<<head>>) = 1
    <2>1. resp.body \in Seq(Nat \cup {head}) /\ <<head>> \in Seq(Nat \cup {head}) /\ Len(<<head>>) = 1
      OBVIOUS
    <2> QED
      BY <2>1
  <1>3. Len(<<head>> \o resp.body) = Len(<<head>>) + Len(resp.body)
    BY <1>2, ConcatProperties
  <1> QED
    BY <1>1, <1>2, <1>3, ZenonT(60) DEF ToBytes

LEMMA StatusOf ==
    ASSUME NEW m \in Methods, NEW p \in Paths
    PROVE  /\ NotFoundResponse.status = 404
           /\ HandleDynamic(m, p).status = IF m = "GET" /\ p \in Atomic!Endpoints THEN 200 ELSE 404
  <1>1. ASSUME NEW resp, NEW s, IsResponse(resp)
        PROVE  /\ SetBody(resp, <<s>>).status = resp.status
               /\ Json(resp, <<s>>).status = resp.status
               /\ Text(resp, <<s>>).status = resp.status
    <2>1. <<s>> \in Seq({s})
      OBVIOUS
    <2>2. SetBody(resp, <<s>>).status = resp.status
      BY <1>1, <2>1, SetBodyFields
    <2>3. ASSUME NEW b, NEW h
          PROVE  [resp EXCEPT !.body = b, !.headers = h].status = resp.status
      BY <1>1 DEF IsResponse
    <2> QED
      BY <2>2, <2>3, ZenonT(60) DEF Json, Text
  <1>2. NotFoundResponse.status = 404
    <2>1. PICK r : r = New(404) /\ IsResponse(r) /\ r.status = 404
      BY NewFields
    <2>2. ASSUME NEW x
          PROVE  SetBody(r, <<x>>).status = 404
      <3>1. SetBody(r, <<x>>).status = r.status
        BY <1>1, <2>1
      <3> QED
        BY <2>1, <3>1, ZenonT(60)
    <2> QED
      BY <2>1, <2>2, ZenonT(60) DEF NotFoundResponse
  <1>3. /\ Json(New(200), <<"healthy">>).status = 200
        /\ Json(New(200), <<"stats">>).status = 200
        /\ Text(WithHeader(New(200), "Content-Type", "text/plain; version=0.0.4"), <<"metrics">>).status = 200
    <2>1. PICK r : r = New(200) /\ IsResponse(r) /\ r.status = 200
      BY NewFields
    <2>2. ASSUME NEW v
          PROVE  Text(WithHeader(r, "Content-Type", v), <<"metrics">>).status = 200
      <3>1. PICK w : w = WithHeader(r, "Content-Type", v) /\ IsResponse(w) /\ w.status = 200
        BY <2>1, WithHeaderFields
      <3>2. Text(w, <<"metrics">>).status = 200
        BY <1>1, <3>1
      <3> QED
        BY <3>1, <3>2, ZenonT(60)
    <2>3. Json(r, <<"healthy">>).status = 200 /\ Json(r, <<"stats">>).status = 200
      BY <1>1, <2>1
    <2> QED
      BY <2>1, <2>2, <2>3, ZenonT(60)
  <1> QED
    BY <1>2, <1>3 DEF HandleDynamic, Atomic!Endpoints

LEMMA AnswersThen == AnswersNow'
  BY AnswersAre, PTL

-----------------------------------------------------------------------------
(* Requests while no file changes *)

AnswerNow == Atomic!AnswerTo([method |-> method, path |-> path], TRUE)

(* What the answer will be, once a step has left the files alone.          *)
LEMMA AnswerThen ==
    ASSUME UNCHANGED <<mode, linked, data>>, method' \in Methods, path' \in Paths
    PROVE  /\ mode = "DynamicPath" =>
                AnswerNow' = Atomic!Reply(IF method' = "GET" /\ path' \in Atomic!Endpoints THEN 200 ELSE 404, 1)
           /\ mode = "FastPath" =>
                /\ path' = "" => AnswerNow' = Atomic!Failure("panic")
                /\ path' = "/" => AnswerNow' = Atomic!Failure("err")
                /\ path' \notin {"", "/", File} => AnswerNow' = Atomic!Reply(404, 1)
                /\ path' = File =>
                     /\ linked = None => AnswerNow' = Atomic!Reply(404, 1)
                     /\ linked # None /\ data[linked] = <<>> => AnswerNow' = Atomic!Failure("err")
                     /\ linked # None /\ data[linked] # <<>> =>
                          AnswerNow' = Atomic!Reply(200, 1 + Len(data[linked]))
  <1>1. /\ mode' = "DynamicPath" =>
                AnswerNow' = Atomic!Reply(IF method' = "GET" /\ path' \in Atomic!Endpoints THEN 200 ELSE 404, 1)
        /\ mode' = "FastPath" =>
                /\ path' = "" => AnswerNow' = Atomic!Failure("panic")
                /\ path' = "/" => AnswerNow' = Atomic!Failure("err")
                /\ path' \notin {"", "/", File} => AnswerNow' = Atomic!Reply(404, 1)
                /\ path' = File =>
                     /\ linked' = None => AnswerNow' = Atomic!Reply(404, 1)
                     /\ linked' # None /\ data'[linked'] = <<>> => AnswerNow' = Atomic!Failure("err")
                     /\ linked' # None /\ data'[linked'] # <<>> =>
                          AnswerNow' = Atomic!Reply(200, 1 + Len(data'[linked']))
    BY AnswersThen, ZenonT(60) DEF AnswersNow, AnswerNow
  <1> QED
    BY <1>1, ZenonT(60)

(* The handler returns, with what module Http answers.                     *)
LEMMA ReturnQuiet ==
    ASSUME NEW result, Return(result), result.kind \in {"ok", "err", "panic", "sigbus"},
           method' \in Methods, path' \in Paths,
           happened' = {} => SameAnswer(AnswerNow', result)
    PROVE  QuietInvariant'
  <1>1. pc' \in {"done", "err", "panic", "sigbus"} /\ outcome' = result
    BY DEF Return
  <1>2. AtomicWhenQuiet'
    BY <1>1 DEF AtomicWhenQuiet, AnswerNow, SameAnswer
  <1>3. RequestKnown' /\ StillSo'
    BY <1>1 DEF RequestKnown, StillSo, Watched
  <1> QED
    BY <1>2, <1>3 DEF QuietInvariant

LEMMA OtherProcessNoted ==
    ASSUME OtherProcess
    PROVE  /\ happened' # {} /\ Watched
           /\ UNCHANGED <<mode, pc, method, target, form, path, outcome>>
  <1>1. ASSUME NEW what, Change(what)
        PROVE  /\ happened' # {} /\ Watched
               /\ UNCHANGED <<mode, pc, method, target, form, path, outcome>>
    BY <1>1 DEF Change, requestVars
  <1>2. \E what : Change(what)
    BY DEF OtherProcess, Unlink, Replace, Extend, Rewrite, Truncate
  <1> QED
    BY <1>1, <1>2

LEMMA InitQuiet == Init => QuietInvariant
  BY DEF Init, QuietInvariant, RequestKnown, StillSo, AtomicWhenQuiet, Watched, Returned, Methods, Paths

LEMMA RouteQuiet ==
    ASSUME FilesOK, RequestKnown, Route
    PROVE  QuietInvariant'
  <1>1. /\ pc = "parsed" /\ UNCHANGED <<mode, linked, data>> /\ method' = method
        /\ path' = PathOf(target)
    BY DEF Route, PathOf, fileVars
  <1>2. method' \in Methods /\ path' \in Paths
    <2>1. PICK p \in Paths : target = Sent(p, form)
      BY <1>1 DEF RequestKnown
    <2>2. form \in Seq(Seq(Character) \X Seq(Character))
      BY <1>1, HandlersAssumption DEF RequestKnown, Character
    <2>3. PathOf(target) = p
      BY <2>1, <2>2, TargetIs
    <2> QED
      BY <1>1, <2>3 DEF RequestKnown
  <1>3. CASE mode = "DynamicPath"
    <2>1. Return(Ok(HandleDynamic(method, path')))
      BY <1>3 DEF Route
    <2>2. PICK st : st = IF method' = "GET" /\ path' \in Atomic!Endpoints THEN 200 ELSE 404
      OBVIOUS
    <2>3. AnswerNow' = Atomic!Reply(st, 1)
      BY <1>1, <1>2, <1>3, <2>2, AnswerThen, ZenonT(60)
    <2>4. HandleDynamic(method, path').status = st
      <3>1. HandleDynamic(method, path').status = IF method = "GET" /\ path' \in Atomic!Endpoints THEN 200 ELSE 404
        BY <1>1, <1>2, StatusOf
      <3> QED
        BY <1>1, <2>2, <3>1, ZenonT(60)
    <2>5. SameAnswer(Atomic!Reply(st, 1), Ok(HandleDynamic(method, path')))
      <3>1. ~(1 > 1)
        OBVIOUS
      <3>2. /\ Ok(HandleDynamic(method, path')).kind = "ok"
            /\ Ok(HandleDynamic(method, path')).resp = HandleDynamic(method, path')
        BY DEF Ok
      <3>3. Atomic!Reply(st, 1).kind = "ok" /\ Atomic!Reply(st, 1).status = st /\ Atomic!Reply(st, 1).len = 1
        BY ReplyFields
      <3> QED
        BY <2>4, <3>1, <3>2, <3>3, ZenonT(60) DEF SameAnswer
    <2>6. Ok(HandleDynamic(method, path')).kind = "ok"
      BY DEF Ok
    <2> QED
      BY <1>2, <2>1, <2>3, <2>5, <2>6, ReturnQuiet
  <1>4. CASE mode = "FastPath" /\ path' = ""
    <2>1. Return(Failed("panic"))
      BY <1>4 DEF Route
    <2>2. AnswerNow' = Atomic!Failure("panic")
      BY <1>1, <1>2, <1>4, AnswerThen, ZenonT(60)
    <2>3. SameAnswer(Atomic!Failure("panic"), Failed("panic")) /\ Failed("panic").kind = "panic"
      BY ReplyFields DEF SameAnswer, Failed
    <2> QED
      BY <1>2, <2>1, <2>2, <2>3, ReturnQuiet
  <1>5. CASE mode = "FastPath" /\ path' # ""
    <2>1. pc' = "exists"
      BY <1>5 DEF Route
    <2> QED
      BY <1>1, <1>2, <1>5, <2>1
         DEF QuietInvariant, RequestKnown, StillSo, AtomicWhenQuiet, Watched, Returned
  <1> QED
    BY <1>3, <1>4, <1>5 DEF FilesOK

(* A step of handle_static_file leaves the request and the files alone.    *)
LEMMA ExistsQuiet ==
    ASSUME FilesOK, QuietInvariant, Exists
    PROVE  QuietInvariant'
  <1>1. /\ pc = "exists" /\ UNCHANGED <<mode, linked, data, method, path, happened>>
    BY DEF Exists, fileVars, requestVars, historyVars
  <1>2. method' \in Methods /\ path' \in Paths /\ mode = "FastPath" /\ path # ""
    BY <1>1 DEF QuietInvariant, RequestKnown, Watched
  <1>3. CASE Lookup = None
    <2>1. Return(Ok(NotFoundResponse))
      BY <1>3 DEF Exists
    <2>2. path' \notin {"", "/", File} \/ (path' = File /\ linked = None)
      <3>1. Dir # None
        BY HandlersAssumption
      <3>2. path = "/" => path # File /\ Lookup = Dir
        BY DEF Lookup, File
      <3>3. path = File => Lookup = linked
        BY DEF Lookup, File
      <3>4. path # "/" /\ path # "" /\ (path = File => linked = None) /\ path' = path
        BY <1>1, <1>2, <1>3, <3>1, <3>2, <3>3, ZenonT(60)
      <3> QED
        BY <3>4
    <2>3. AnswerNow' = Atomic!Reply(404, 1)
      BY <1>1, <1>2, <2>2, AnswerThen, ZenonT(60)
    <2>4. SameAnswer(Atomic!Reply(404, 1), Ok(NotFoundResponse))
      <3>1. ~(1 > 1)
        OBVIOUS
      <3>2. Ok(NotFoundResponse).kind = "ok" /\ Ok(NotFoundResponse).resp = NotFoundResponse
        BY DEF Ok
      <3>3. NotFoundResponse.status = 404
        BY <1>2, StatusOf
      <3>4. Atomic!Reply(404, 1).kind = "ok" /\ Atomic!Reply(404, 1).status = 404 /\ Atomic!Reply(404, 1).len = 1
        BY ReplyFields
      <3> QED
        BY <3>1, <3>2, <3>3, <3>4, ZenonT(60) DEF SameAnswer
    <2>5. Ok(NotFoundResponse).kind = "ok"
      BY DEF Ok
    <2> QED
      BY <1>2, <2>1, <2>3, <2>4, <2>5, ReturnQuiet
  <1>4. CASE Lookup # None
    <2>1. pc' = "open" /\ Lookup' = Lookup
      BY <1>1, <1>4 DEF Exists, Lookup
    <2> QED
      BY <1>1, <1>2, <1>4, <2>1
         DEF QuietInvariant, RequestKnown, StillSo, AtomicWhenQuiet, Watched, Returned
  <1> QED
    BY <1>3, <1>4

LEMMA OpenQuiet ==
    ASSUME FilesOK, QuietInvariant, Open
    PROVE  QuietInvariant'
  <1>1. /\ pc = "open" /\ UNCHANGED <<mode, linked, data, method, path, happened>>
    BY DEF Open, fileVars, requestVars, historyVars
  <1>2. method' \in Methods /\ path' \in Paths /\ mode = "FastPath" /\ path # ""
    BY <1>1 DEF QuietInvariant, RequestKnown, Watched
  <1>3. CASE Lookup = None
    <2>1. Return(Failed("err"))
      BY <1>3 DEF Open
    <2>2. happened' # {}
      BY <1>1, <1>3 DEF QuietInvariant, StillSo, Watched
    <2>3. Failed("err").kind = "err"
      BY DEF Failed
    <2> QED
      BY <1>2, <2>1, <2>2, <2>3, ReturnQuiet
  <1>4. CASE Lookup # None
    <2>1. pc' = "metadata" /\ fd' = Lookup /\ Lookup' = Lookup
      BY <1>1, <1>4 DEF Open, Lookup
    <2> QED
      BY <1>1, <1>2, <1>4, <2>1
         DEF QuietInvariant, RequestKnown, StillSo, AtomicWhenQuiet, Watched, Returned
  <1> QED
    BY <1>3, <1>4

(* What fd names where nothing has changed.                                *)
LEMMA OpenedIs ==
    ASSUME FilesOK, QuietInvariant, pc \in {"metadata", "mmap", "copy"}, happened = {}
    PROVE  \/ path = "/" /\ fd = Dir
           \/ path = File /\ linked # None /\ fd = linked /\ fd \in Inode /\ fd # Dir
  <1>1. fd = Lookup /\ Lookup # None /\ linked \in Inode \cup {None}
    BY DEF QuietInvariant, StillSo, Watched, FilesOK
  <1> QED
    BY <1>1, HandlersAssumption DEF Lookup, File

LEMMA MetadataQuiet ==
    ASSUME FilesOK, QuietInvariant, Metadata
    PROVE  QuietInvariant'
  <1>1. /\ pc = "metadata" /\ UNCHANGED <<mode, linked, data, method, path, happened>>
    BY DEF Metadata, fileVars, requestVars, historyVars
  <1>2. method' \in Methods /\ path' \in Paths /\ mode = "FastPath" /\ path # ""
    BY <1>1 DEF QuietInvariant, RequestKnown, Watched
  <1>3. CASE SizeNow = 0
    <2>1. Return(Failed("err"))
      BY <1>3 DEF Metadata
    <2>2. ASSUME happened' = {}
          PROVE  SameAnswer(AnswerNow', Failed("err"))
      <3>1. path = File /\ linked # None /\ fd = linked /\ fd \in Inode /\ fd # Dir
        <4>1. fd = Dir => SizeNow # 0
          BY HandlersAssumption DEF SizeNow, Size
        <4> QED
          BY <1>1, <1>3, <2>2, <4>1, OpenedIs
      <3>2. data[linked] = <<>>
        <4>1. data[fd] \in Seq(Nat) /\ Len(data[fd]) = 0
          BY <1>3, <3>1 DEF FilesOK, SizeNow, Size
        <4> QED
          BY <3>1, <4>1, EmptySeq
      <3>3. AnswerNow' = Atomic!Failure("err")
        BY <1>1, <1>2, <3>1, <3>2, AnswerThen, ZenonT(60)
      <3>4. SameAnswer(Atomic!Failure("err"), Failed("err"))
        BY ReplyFields DEF SameAnswer, Failed
      <3> QED
        BY <3>3, <3>4, ZenonT(60)
    <2>3. Failed("err").kind = "err"
      BY DEF Failed
    <2> QED
      BY <1>2, <2>1, <2>2, <2>3, ReturnQuiet
  <1>4. CASE SizeNow # 0
    <2>1. pc' = "mmap" /\ fd' = fd /\ len' = SizeNow /\ Lookup' = Lookup
      BY <1>1, <1>4 DEF Metadata, Lookup
    <2>2. SizeNow' = SizeNow
      BY <1>1, <2>1 DEF SizeNow, Size
    <2> QED
      BY <1>1, <1>2, <1>4, <2>1, <2>2
         DEF QuietInvariant, RequestKnown, StillSo, AtomicWhenQuiet, Watched, Returned
  <1> QED
    BY <1>3, <1>4

LEMMA MmapQuiet ==
    ASSUME FilesOK, QuietInvariant, Mmap
    PROVE  QuietInvariant'
  <1>1. /\ pc = "mmap" /\ UNCHANGED <<mode, linked, data, method, path, happened>>
    BY DEF Mmap, fileVars, requestVars, historyVars
  <1>2. method' \in Methods /\ path' \in Paths /\ mode = "FastPath" /\ path # ""
    BY <1>1 DEF QuietInvariant, RequestKnown, Watched
  <1>3. CASE fd = Dir
    <2>1. Return(Failed("err"))
      BY <1>3 DEF Mmap
    <2>2. ASSUME happened' = {}
          PROVE  SameAnswer(AnswerNow', Failed("err"))
      <3>1. path' = "/"
        BY <1>1, <1>3, <2>2, OpenedIs
      <3>2. AnswerNow' = Atomic!Failure("err")
        BY <1>1, <1>2, <3>1, AnswerThen, ZenonT(60)
      <3>3. SameAnswer(Atomic!Failure("err"), Failed("err"))
        BY ReplyFields DEF SameAnswer, Failed
      <3> QED
        BY <3>2, <3>3, ZenonT(60)
    <2>3. Failed("err").kind = "err"
      BY DEF Failed
    <2> QED
      BY <1>2, <2>1, <2>2, <2>3, ReturnQuiet
  <1>4. CASE fd # Dir
    <2>1. pc' = "copy" /\ fd' = fd /\ len' = len /\ Lookup' = Lookup
      BY <1>1, <1>4 DEF Mmap, Lookup
    <2>2. SizeNow' = SizeNow
      BY <1>1, <2>1 DEF SizeNow, Size
    <2> QED
      BY <1>1, <1>2, <2>1, <2>2
         DEF QuietInvariant, RequestKnown, StillSo, AtomicWhenQuiet, Watched, Returned
  <1> QED
    BY <1>3, <1>4

LEMMA CopyQuiet ==
    ASSUME HandlerInvariant', QuietInvariant, Copy
    PROVE  QuietInvariant'
  <1>1. /\ pc = "copy" /\ UNCHANGED <<mode, linked, data, method, path, happened>>
    BY DEF Copy, fileVars, requestVars, historyVars
  <1>2. method' \in Methods /\ path' \in Paths /\ mode = "FastPath" /\ path # ""
    BY <1>1 DEF QuietInvariant, RequestKnown, Watched
  <1>3. CASE ~(Len(body) \div PageSize < Pages(fd))
    <2>1. Return(Failed("sigbus"))
      BY <1>3 DEF Copy
    <2>2. Failed("sigbus").kind = "sigbus"
      BY DEF Failed
    <2>3. pc' = "sigbus"
      BY <2>1, <2>2 DEF Return
    <2>4. happened' # {}
      BY <2>3 DEF HandlerInvariant, MappingWithinFile, FaultNeedsTruncation
    <2> QED
      BY <1>2, <2>1, <2>2, <2>4, ReturnQuiet
  <1>4. CASE Len(body) \div PageSize < Pages(fd)
    <2>1. pc' = pc /\ fd' = fd /\ len' = len /\ Lookup' = Lookup
      BY <1>1, <1>4 DEF Copy, Lookup
    <2>2. SizeNow' = SizeNow
      BY <1>1, <2>1 DEF SizeNow, Size
    <2> QED
      BY <1>1, <1>2, <2>1, <2>2
         DEF QuietInvariant, RequestKnown, StillSo, AtomicWhenQuiet, Watched, Returned
  <1> QED
    BY <1>3, <1>4

LEMMA RespondQuiet ==
    ASSUME FilesOK, QuietInvariant, Respond
    PROVE  QuietInvariant'
  <1>1. /\ pc = "copy" /\ UNCHANGED <<mode, linked, data, method, path, happened>>
        /\ Len(body) >= CopyEnd
    BY DEF Respond, fileVars, requestVars, historyVars
  <1>2. method' \in Methods /\ path' \in Paths /\ mode = "FastPath" /\ path # ""
    BY <1>1 DEF QuietInvariant, RequestKnown, Watched
  <1>3. PICK resp : /\ resp = WithHeader(SetBody(New(200), body), "Content-Type", "text/html")
                    /\ resp.status = 200 /\ resp.body = body
    BY StaticResponse DEF FilesOK
  <1>4. body \in Seq(Nat) /\ Len(body) = len /\ len \in Nat
    <2>1. body \in Seq(Nat) /\ Len(body) <= len /\ len \in Nat
      BY DEF FilesOK
    <2> QED
      BY <1>1, <2>1, LenProperties DEF CopyEnd
  <1>5. Return(Ok(resp))
    BY <1>3 DEF Respond
  <1>6. Ok(resp).kind = "ok" /\ Ok(resp).resp = resp
    BY DEF Ok
  <1>7. ASSUME happened' = {}
        PROVE  SameAnswer(AnswerNow', Ok(resp))
    <2>1. fd \in Inode /\ fd # Dir
      BY <1>1, HandlersAssumption DEF FilesOK
    <2>2. path = File /\ linked # None /\ fd = linked
      BY <1>1, <1>7, <2>1, OpenedIs
    <2>3. len = Len(data[linked]) /\ len # 0
      BY <1>1, <1>7, <2>1, <2>2 DEF QuietInvariant, StillSo, Watched, SizeNow, Size
    <2>4. data[linked] # <<>>
      BY <2>3, EmptySeq
    <2>5. AnswerNow' = Atomic!Reply(200, 1 + len)
      BY <1>1, <1>2, <2>2, <2>3, <2>4, AnswerThen, ZenonT(60)
    <2>6. Len(ToBytes(resp)) = 1 + len
      BY <1>3, <1>4, BytesOf
    <2>7. /\ Atomic!Reply(200, 1 + len).kind = "ok" /\ Atomic!Reply(200, 1 + len).status = 200
          /\ Atomic!Reply(200, 1 + len).len = 1 + len
      BY ReplyFields
    <2> QED
      BY <1>3, <1>6, <2>5, <2>6, <2>7, ZenonT(60) DEF SameAnswer
  <1> QED
    BY <1>2, <1>5, <1>6, <1>7, ReturnQuiet

LEMMA CallFailsQuiet ==
    ASSUME QuietInvariant, CallFails
    PROVE  QuietInvariant'
  <1>1. method' = method /\ path' = path /\ happened' # {}
    BY DEF CallFails, requestVars
  <1>2. method' \in Methods /\ path' \in Paths
    BY <1>1 DEF QuietInvariant, RequestKnown
  <1>3. PICK result : Return(result) /\ result.kind \in {"ok", "err"}
    <2>1. Ok(NotFoundResponse).kind = "ok" /\ Failed("err").kind = "err"
      BY DEF Ok, Failed
    <2> QED
      BY <2>1 DEF CallFails
  <1> QED
    BY <1>1, <1>2, <1>3, ReturnQuiet

LEMMA NextQuiet ==
    ASSUME HandlerInvariant, HandlerInvariant', QuietInvariant, [Next]_vars
    PROVE  QuietInvariant'
  <1>0. FilesOK /\ RequestKnown
    BY DEF HandlerInvariant, QuietInvariant
  <1>1. ASSUME NEW m \in Methods, NEW p \in Paths, NEW f \in Form, Receive(m, p, f)
        PROVE  QuietInvariant'
    <2>1. pc' = "parsed" /\ method' = m /\ form' = f /\ target' = Sent(p, f) /\ path' = path
      BY <1>1 DEF Receive
    <2> QED
      BY <1>0, <2>1 DEF QuietInvariant, RequestKnown, StillSo, AtomicWhenQuiet, Watched, Returned
  <1>2. CASE Handler
    BY <1>0, <1>2, RouteQuiet, ExistsQuiet, OpenQuiet, MetadataQuiet, MmapQuiet, CopyQuiet, RespondQuiet,
       CallFailsQuiet
       DEF Handler
  <1>3. CASE OtherProcess
    <2>1. /\ happened' # {} /\ Watched
          /\ UNCHANGED <<mode, pc, method, target, form, path, outcome>>
      BY <1>3, OtherProcessNoted
    <2> QED
      BY <1>0, <2>1 DEF QuietInvariant, RequestKnown, StillSo, AtomicWhenQuiet, Watched
  <1>4. CASE UNCHANGED vars
    <2>1. /\ UNCHANGED <<mode, linked, data, pc, method, target, form, path, fd, len, outcome, happened>>
      BY <1>4 DEF vars, fileVars, requestVars, historyVars
    <2>2. RequestKnown'
      BY <1>0, <2>1 DEF RequestKnown, Watched
    <2>3. StillSo'
      BY <2>1 DEF QuietInvariant, StillSo, Watched, Lookup, SizeNow, Size
    <2>4. AtomicWhenQuiet'
      <3>1. /\ AnswerNow' = AnswerNow /\ Returned' = Returned
        BY <2>1 DEF AnswerNow, Returned, Atomic!AnswerTo, Atomic!HandleStaticFile, Atomic!MmapFile, KindNow
      <3> QED
        BY <2>1, <3>1, ZenonT(60) DEF QuietInvariant, AtomicWhenQuiet, AnswerNow
    <2> QED
      BY <2>2, <2>3, <2>4 DEF QuietInvariant
  <1> QED
    BY <1>1, <1>2, <1>3, <1>4 DEF Next

-----------------------------------------------------------------------------
(* The causes of an error *)

(* The name of the file is lost only by its removal.                       *)
LEMMA NameKept ==
    ASSUME OtherProcess
    PROVE  /\ Watched /\ UNCHANGED <<pc, path, fd>>
           /\ happened \subseteq happened' /\ seen \subseteq seen'
           /\ linked # None => linked' # None \/ "removed" \in happened'
  <1>1. ASSUME NEW what, Change(what)
        PROVE  /\ Watched /\ UNCHANGED <<pc, path, fd>>
               /\ happened' = happened \cup {what} /\ seen \subseteq seen'
    BY <1>1 DEF Change, requestVars
  <1>2. CASE Unlink
    BY <1>1, <1>2 DEF Unlink
  <1>3. CASE \E i \in Inode, n \in 0..MaxLen : Replace(i, n)
    <2>1. PICK i \in Inode, n \in 0..MaxLen : Replace(i, n)
      BY <1>3
    <2>2. linked' = i /\ i # None /\ \E what : Change(what)
      BY <2>1, HandlersAssumption DEF Replace
    <2> QED
      BY <1>1, <2>2
  <1>4. CASE \E i \in Inode : Extend(i) \/ Rewrite(i) \/ \E n \in 0..MaxLen : Truncate(i, n)
    <2>1. linked' = linked /\ \E what : Change(what)
      BY <1>4 DEF Extend, Rewrite, Truncate
    <2> QED
      BY <1>1, <2>1
  <1> QED
    BY <1>2, <1>3, <1>4 DEF OtherProcess

(* A return other than with Err needs no cause, ...                        *)
LEMMA ReturnHasCause ==
    ASSUME NEW result, Return(result), result.kind \in {"ok", "err", "panic", "sigbus"},
           result.kind = "err" => \/ path' = "/"
                                  \/ <<>> \in seen'
                                  \/ happened' \cap {"removed", "failed"} # {}
    PROVE  ErrInvariant'
  <1>1. /\ pc' = IF result.kind = "ok" THEN "done" ELSE result.kind
        /\ pc' \in {"done", "err", "panic", "sigbus"}
    BY DEF Return
  <1> QED
    BY <1>1 DEF ErrInvariant, FoundBefore, ErrNeedsCause, Watched

(* ... and each call that returns Err has one.                             *)
LEMMA HandlerHasCause ==
    ASSUME FilesOK, VersionsSeen, ErrInvariant, Handler
    PROVE  ErrInvariant'
  <1>0. /\ Ok(NotFoundResponse).kind = "ok" /\ Failed("err").kind = "err"
        /\ Failed("panic").kind = "panic" /\ Failed("sigbus").kind = "sigbus"
        /\ \A resp : Ok(resp).kind = "ok"
    BY DEF Ok, Failed
  <1>1. CASE Route
    <2>1. \/ Return(Ok(HandleDynamic(method, path'))) \/ Return(Failed("panic"))
          \/ pc' = "exists"
      BY <1>1 DEF Route
    <2>2. pc' = "exists" => ErrInvariant'
      BY DEF ErrInvariant, FoundBefore, ErrNeedsCause
    <2> QED
      BY <1>0, <2>1, <2>2, ReturnHasCause
  <1>2. CASE Exists
    <2>1. CASE Lookup = None
      BY <1>0, <1>2, <2>1, ReturnHasCause DEF Exists
    <2>2. CASE Lookup # None
      <3>1. /\ pc = "exists" /\ pc' = "open" /\ fd' = fd
            /\ path' = path /\ linked' = linked /\ happened' = happened
        BY <1>2, <2>2 DEF Exists, fileVars, requestVars, historyVars
      <3>2. path = "/" \/ (path = File /\ linked # None)
        BY <2>2 DEF Lookup
      <3>3. fd # Dir
        BY <3>1, HandlersAssumption DEF FilesOK
      <3> QED
        BY <3>1, <3>2, <3>3 DEF ErrInvariant, FoundBefore, ErrNeedsCause
    <2> QED
      BY <2>1, <2>2
  <1>3. CASE Open
    <2>1. /\ pc = "open" /\ path' = path /\ linked' = linked /\ happened' = happened
      BY <1>3 DEF Open, fileVars, requestVars, historyVars
    <2>2. path = "/" \/ (path = File /\ (linked # None \/ "removed" \in happened))
      BY <2>1 DEF ErrInvariant, FoundBefore, Watched
    <2>3. path = "/" => Lookup = Dir
      BY DEF Lookup, File
    <2>4. path = File => Lookup = linked
      BY DEF Lookup, File
    <2>5. CASE Lookup = None
      <3>1. "removed" \in happened'
        BY <2>1, <2>2, <2>3, <2>4, <2>5, HandlersAssumption
      <3>2. Return(Failed("err"))
        BY <1>3, <2>5 DEF Open
      <3> QED
        BY <1>0, <3>1, <3>2, ReturnHasCause
    <2>6. CASE Lookup # None
      <3>1. pc' = "metadata" /\ fd' = Lookup
        BY <1>3, <2>6 DEF Open
      <3>2. linked # Dir
        BY HandlersAssumption DEF FilesOK
      <3> QED
        BY <2>1, <2>2, <2>4, <3>1, <3>2 DEF ErrInvariant, FoundBefore, ErrNeedsCause
    <2> QED
      BY <2>5, <2>6
  <1>4. CASE Metadata
    <2>1. /\ pc = "metadata" /\ path' = path /\ linked' = linked
          /\ happened' = happened /\ seen' = seen
      BY <1>4 DEF Metadata, fileVars, requestVars, historyVars
    <2>2. CASE SizeNow = 0
      <3>1. fd \in Inode \cup {Dir} /\ fd # Dir
        BY <2>1, <2>2, HandlersAssumption DEF FilesOK, SizeNow, Size
      <3>2. data[fd] \in Seq(Nat) /\ data[fd] \in seen /\ Len(data[fd]) = 0
        BY <2>1, <2>2, <3>1 DEF FilesOK, VersionsSeen, Watched, SizeNow, Size
      <3>3. <<>> \in seen'
        BY <2>1, <3>2, EmptySeq
      <3>4. Return(Failed("err"))
        BY <1>4, <2>2 DEF Metadata
      <3> QED
        BY <1>0, <3>3, <3>4, ReturnHasCause
    <2>3. CASE SizeNow # 0
      <3>1. pc' = "mmap" /\ fd' = fd
        BY <1>4, <2>3 DEF Metadata
      <3> QED
        BY <2>1, <3>1 DEF ErrInvariant, FoundBefore, ErrNeedsCause, Watched
    <2> QED
      BY <2>2, <2>3
  <1>5. CASE Mmap
    <2>1. /\ pc = "mmap" /\ path' = path /\ linked' = linked /\ happened' = happened
      BY <1>5 DEF Mmap, fileVars, requestVars, historyVars
    <2>2. CASE fd = Dir
      <3>1. path' = "/"
        BY <2>1, <2>2 DEF ErrInvariant, FoundBefore, Watched
      <3>2. Return(Failed("err"))
        BY <1>5, <2>2 DEF Mmap
      <3> QED
        BY <1>0, <3>1, <3>2, ReturnHasCause
    <2>3. CASE fd # Dir
      <3>1. pc' = "copy" /\ fd' = fd
        BY <1>5, <2>3 DEF Mmap
      <3> QED
        BY <2>1, <3>1 DEF ErrInvariant, FoundBefore, ErrNeedsCause, Watched
    <2> QED
      BY <2>2, <2>3
  <1>6. CASE Copy
    <2>1. /\ pc = "copy" /\ path' = path /\ linked' = linked /\ happened' = happened
          /\ Return(Failed("sigbus")) \/ (pc' = pc /\ fd' = fd)
      BY <1>6 DEF Copy, fileVars, requestVars, historyVars
    <2>2. ASSUME pc' = pc, fd' = fd
          PROVE  ErrInvariant'
      BY <2>1, <2>2 DEF ErrInvariant, FoundBefore, ErrNeedsCause, Watched
    <2> QED
      BY <1>0, <2>1, <2>2, ReturnHasCause
  <1>7. CASE Respond
    <2>1. \E resp : Return(Ok(resp))
      BY <1>7 DEF Respond
    <2> QED
      BY <1>0, <2>1, ReturnHasCause
  <1>8. CASE CallFails
    <2>1. "failed" \in happened' /\ (Return(Ok(NotFoundResponse)) \/ Return(Failed("err")))
      BY <1>8 DEF CallFails
    <2> QED
      BY <1>0, <2>1, ReturnHasCause
  <1> QED
    BY <1>1, <1>2, <1>3, <1>4, <1>5, <1>6, <1>7, <1>8 DEF Handler

LEMMA NextHasCause ==
    ASSUME HandlerInvariant, ErrInvariant, [Next]_vars
    PROVE  ErrInvariant'
  <1>1. ASSUME NEW m \in Methods, NEW p \in Paths, NEW f \in Form, Receive(m, p, f)
        PROVE  ErrInvariant'
    BY <1>1 DEF Receive, ErrInvariant, FoundBefore, ErrNeedsCause, Watched
  <1>2. CASE Handler
    BY <1>2, HandlerHasCause DEF HandlerInvariant
  <1>3. CASE OtherProcess
    BY <1>3, NameKept DEF ErrInvariant, FoundBefore, ErrNeedsCause, Watched
  <1>4. CASE UNCHANGED vars
    BY <1>4 DEF vars, fileVars, requestVars, historyVars, ErrInvariant, FoundBefore, ErrNeedsCause, Watched
  <1> QED
    BY <1>1, <1>2, <1>3, <1>4 DEF Next

-----------------------------------------------------------------------------
(* Theorems *)

(* The inductive invariant holds of every run of the handlers.             *)
THEOREM HandlersCorrect == Spec => []HandlerInvariant
  <1>1. Init => HandlerInvariant
    BY InitHandler
  <1>2. HandlerInvariant /\ [Next]_vars => HandlerInvariant'
    BY NextHandler
  <1> QED
    BY <1>1, <1>2, PTL DEF Spec

(* The copy out of the mapping raises SIGBUS only if another process has   *)
(* truncated the file in place since the request came in.                  *)
THEOREM OnlyTruncationFaults == Spec => []FaultNeedsTruncation
  <1>1. HandlerInvariant => FaultNeedsTruncation
    BY DEF HandlerInvariant, MappingWithinFile
  <1> QED
    BY <1>1, HandlersCorrect, PTL

(* A site changed by renaming files into place or by appending to them is  *)
(* served without error, and each body is one version of the file, however *)
(* the changes fall between the system calls of handle_static_file.        *)
THEOREM RenamingIsSafe == Spec => []RenameIsSafe
  <1>1. HandlerInvariant => RenameIsSafe
    BY DEF HandlerInvariant
  <1> QED
    BY <1>1, HandlersCorrect, PTL

(* handle_static_file returns Err only for static_dir, for a file found    *)
(* empty or removed during the request, or after a failed call, however    *)
(* the changes of other processes fall between its system calls.           *)
THEOREM ErrorsHaveCauses == Spec => []ErrNeedsCause
  <1>1. Init => ErrInvariant
    BY DEF Init, ErrInvariant, FoundBefore, ErrNeedsCause, Watched
  <1>2. HandlerInvariant /\ ErrInvariant /\ [Next]_vars => ErrInvariant'
    BY NextHasCause
  <1>3. ErrInvariant => ErrNeedsCause
    BY DEF ErrInvariant
  <1> QED
    BY <1>1, <1>2, <1>3, HandlersCorrect, PTL DEF Spec

(* While no file changes and no call fails, what an earlier call found     *)
(* stays so, and the request is one that a client can send.                *)
THEOREM QuietRequests == Spec => []QuietInvariant
  <1>1. Init => QuietInvariant
    BY InitQuiet
  <1>2. HandlerInvariant /\ HandlerInvariant' /\ QuietInvariant /\ [Next]_vars => QuietInvariant'
    BY NextQuiet
  <1> QED
    BY <1>1, <1>2, HandlersCorrect, PTL DEF Spec

(* A request during which no file changes and no call fails gets the       *)
(* outcome, the status and the length that module Http gives in a single   *)
(* step, although exists, open, metadata, mmap and the copy of each page   *)
(* are separate steps.                                                     *)
THEOREM QuietIsAtomic == Spec => []AtomicWhenQuiet
  <1>1. QuietInvariant => AtomicWhenQuiet
    BY DEF QuietInvariant
  <1> QED
    BY <1>1, QuietRequests, PTL

(* For words of any length over the characters that have a meaning in a    *)
(* query, and for forms of any length: query_params returns the last value *)
(* of each key the client encoded.                                         *)
THEOREM FormsAreRecovered == Spec => []ParamsRecovered
  <1>1. QuietInvariant => ParamsRecovered
    <2> SUFFICES ASSUME QuietInvariant, pc = "parsed"
                 PROVE  QueryParams(target) = Meaning(form)
      BY DEF ParamsRecovered
    <2>1. PICK p \in Paths : target = Sent(p, form)
      BY DEF QuietInvariant, RequestKnown
    <2>2. form \in Seq(Seq(Character) \X Seq(Character))
      BY HandlersAssumption DEF QuietInvariant, RequestKnown, Character
    <2> QED
      BY <2>1, <2>2, TargetIs
  <1> QED
    BY <1>1, QuietRequests, PTL
=============================================================================
