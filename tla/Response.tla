------------------------------ MODULE Response ------------------------------
(***************************************************************************)
(* HttpResponse (src/http/response.rs): the builders the handlers use.  A  *)
(* body is a sequence of units; headers are a map, in which a second       *)
(* insert replaces the first.                                              *)
(***************************************************************************)
EXTENDS Naturals, Sequences

New(status) ==
    [status |-> status, body |-> <<>>,
     headers |-> [Server |-> "RustKernelEngine/0.1", Connection |-> "keep-alive"]]

(* headers.insert(name, value)                                             *)
Insert(map, name, value) ==
    [h \in DOMAIN map \cup {name} |-> IF h = name THEN value ELSE map[h]]

WithHeader(resp, name, value) == [resp EXCEPT !.headers = Insert(@, name, value)]

SetBody(resp, body) ==
    [WithHeader(resp, "Content-Length", Len(body)) EXCEPT !.body = body]

(* json (serializing a Value does not fail) and text do not use set_body:  *)
(* each stores the body and inserts both headers itself.                   *)
Json(resp, body) ==
    [resp EXCEPT !.body = body,
                 !.headers = Insert(Insert(@, "Content-Type", "application/json"),
                                    "Content-Length", Len(body))]

Text(resp, body) ==
    [resp EXCEPT !.body = body,
                 !.headers = Insert(Insert(@, "Content-Type", "text/plain; charset=utf-8"),
                                    "Content-Length", Len(body))]

NotFoundResponse == SetBody(New(404), <<"404 Not Found">>)

(* to_bytes: the status line, the headers and an empty line, then the body. *)
ToBytes(resp) == <<[status |-> resp.status, headers |-> resp.headers]>> \o resp.body
=============================================================================
