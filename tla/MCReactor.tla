----------------------------- MODULE MCReactor -----------------------------
(* Instances of Reactor for TLC. *)
EXTENDS ReactorService, TLC

Get(p) == [method |-> "GET", path |-> p]

(* "/" names the static directory itself; "" is what is left of "?a=1".    *)
MCFileKind ==
    "/index.html" :> "regular" @@ "/" :> "dir" @@ "" :> "nopath" @@
    "/api/health" :> "missing" @@ "/empty.css" :> "empty"

FileRequests  == {Get("/index.html")}
OddRequests   == {Get("/index.html"), Get("/"), Get("")}
ApiRequests   == {Get("/api/health")}

(* Client connections and client descriptors are interchangeable.           *)
Symmetry == Permutations(Conn) \cup Permutations(FD \ {ListenFd})
=============================================================================
