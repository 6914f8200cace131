------------------------------ MODULE Builders ------------------------------
(***************************************************************************)
(* The two message builders: ResponseBuilder (geario-http/src/response.rs) *)
(* and ClientRequest (client/request.rs, with client/service.rs and the    *)
(* constructors in client/mod.rs).  Their methods are called in any order  *)
(* and with any texts; some texts are no header name or no header value.   *)
(* Headers travel in a HeaderMap, module Headers.                          *)
(*                                                                         *)
(* calls is the history the properties look at: what the application asked *)
(* for, and what the builder itself adds when it is finished.              *)
(***************************************************************************)
EXTENDS Naturals, Sequences, FiniteSets, SequencesExt

CONSTANTS Fields,    \* header names
          NoField,   \* a text that is no header name
          Texts,     \* texts given as header values
          BadText,   \* one that is no header value
          Cookies,   \* cookies, by name; BadText is one no header value can hold
          Expired,   \* for each cookie the text that makes a browser forget it
          Heads,     \* heads a message is made from
          Defaults,  \* the headers of the client's configuration
          MaxCalls   \* bound: calls of the application

ASSUME BuilderAssumption ==
    /\ {"content-type", "cookie", "accept-encoding", "upgrade"} \subseteq Fields
    /\ DOMAIN Expired = Cookies

H == INSTANCE Headers WITH Name <- Fields, Val <- Texts, EmptyVal <- "", Space <- " ",
                           Invalid <- BadText

VARIABLES
    b,      \* the builder: what it makes, whether the head is there, its
            \* headers, err, cookie jar, connection flags and URI
    given,  \* the head it was made from
    copying,   \* names and values of given (and of the configuration) to copy
    calls,
    left,   \* calls the application may still make
    out     \* what it was finished to

bvars == <<b, given, copying, calls, left, out>>

Kinds == {"response", "request"}
Flags == {"CLOSE", "KEEP_ALIVE", "UPGRADE"}
Uris == {"ok", "refused", "invalid"}  \* refused: no host, no scheme, or an unknown one

Call(op, k, v) == [op |-> op, k |-> k, v |-> v]
NoCookies == [c \in Cookies |-> "untouched"]
Unfinished == [is |-> "none", map |-> H!new, ctype |-> "None"]

BuilderTypeOK ==
    /\ b.kind \in Kinds /\ b.head \in BOOLEAN /\ b.err \in BOOLEAN
    /\ b.jar \in [Cookies -> {"untouched", "added", "removed"}]
    /\ b.flags \subseteq Flags /\ b.uri \in Uris /\ b.decompress \in BOOLEAN
    /\ left \in 0 .. MaxCalls
    /\ out.is \in {"none", "error", "built", "sent"}

(* The pairs of a map in the order of its iterator: names in any order.     *)
PairsOf(m) ==
    {FlattenSeq([i \in DOMAIN names |->
                    [j \in DOMAIN m[names[i]].vals |-> <<names[i], m[names[i]].vals[j]>>]])
        : names \in SetToSeqs({n \in Fields : m[n].kind # "None"})}

(* ResponseBuilder::new and From<&ResponseHead>; Client::request, which      *)
(* copies the configured headers, and request_from, which also copies those  *)
(* of a head.  ClientRequest::new starts with a URI that may be invalid.     *)
BuilderInit ==
    /\ \E kind \in Kinds, uri \in Uris :
        /\ kind = "response" => uri = "invalid"
        /\ b = [kind |-> kind, head |-> TRUE, map |-> H!new,
                err |-> kind = "request" /\ uri = "invalid", jar |-> NoCookies,
                flags |-> {}, uri |-> uri, decompress |-> TRUE]
    /\ given \in Heads /\ left = MaxCalls
    /\ \E copy \in PairsOf(given) :
            IF b.kind = "response" THEN copying = copy
            ELSE \E conf \in PairsOf(Defaults) : copying = conf \o copy
    /\ calls = <<>> /\ out = Unfinished

-----------------------------------------------------------------------------
(* ResponseBuilder::parts: nothing is done once a call has failed. *)
parts(x) == x.head /\ ~x.err

(* header, set_header and set_header_if_none of a name and a value.  The     *)
(* value is looked at only if it is going to be used.                        *)
put(x, op, k, v) ==
    IF k = NoField THEN [x EXCEPT !.err = TRUE]
    ELSE IF op = "if_none" /\ H!contains_key(x.map, k) THEN x
    ELSE IF v = BadText THEN [x EXCEPT !.err = TRUE]
    ELSE [x EXCEPT !.map = IF op = "header" THEN H!append(@, k, v) ELSE H!insert(@, k, v)]

respond(x, op, k, v) == IF parts(x) THEN put(x, op, k, v) ELSE x
ask(x, op, k, v) == put(x, op, k, v)

apply(x, op, k, v) == IF x.kind = "response" THEN respond(x, op, k, v) ELSE ask(x, op, k, v)

(* A call of the application, before the message is finished *)
Open == out.is = "none" /\ copying = <<>> /\ left > 0
Calling(c) ==
    /\ calls' = Append(calls, c) /\ left' = left - 1 /\ UNCHANGED <<given, copying, out>>
Silently == left' = left - 1 /\ UNCHANGED <<given, copying, calls, out>>

(* From<&ResponseHead> appends what it copies; Client::request, request_from *)
(* and the defaults go through set_header_if_none.                           *)
CopyOp == IF b.kind = "response" THEN "header" ELSE "if_none"
CopyPair ==
    /\ copying # <<>>
    /\ b' = put(b, CopyOp, copying[1][1], copying[1][2])
    /\ copying' = Tail(copying) /\ calls' = Append(calls, Call(CopyOp, copying[1][1], copying[1][2]))
    /\ UNCHANGED <<given, left, out>>

(* header, set_header, set_header_if_none, and the methods made of them:     *)
(* content_type, content_length, basic_auth, bearer_auth                     *)
Header(op, k, v) ==
    /\ Open /\ (op = "if_none" => b.kind = "request")
    /\ b' = apply(b, op, k, v) /\ Calling(Call(op, k, v))

(* set_connection_type, keep_alive, force_close: a flag is only ever added. *)
SetConnectionType(f) ==
    /\ Open /\ (b.kind = "response" => parts(b) /\ f # "UPGRADE")
    /\ b' = [b EXCEPT !.flags = @ \union {f}] /\ Calling(Call(f, NoField, BadText))

(* ResponseBuilder::upgrade: the flag, then the header *)
Upgrade(v) ==
    /\ Open /\ b.kind = "response" /\ parts(b)
    /\ b' = respond([b EXCEPT !.flags = @ \union {"UPGRADE"}], "set", "upgrade", v)
    /\ Calling(Call("set", "upgrade", v))

(* cookie and del_cookie: the jar changes whether or not a call has failed. *)
Cookie(c) == Open /\ b' = [b EXCEPT !.jar[c] = "added"] /\ Silently
RemoveCookie(c) ==
    Open /\ b.kind = "response" /\ b' = [b EXCEPT !.jar[c] = "removed"] /\ Silently

(* ClientRequest::uri, and query, which makes a new URI of the old one *)
Uri(u) ==
    /\ Open /\ b.kind = "request"
    /\ b' = IF u = "invalid" THEN [b EXCEPT !.err = TRUE] ELSE [b EXCEPT !.uri = u]
    /\ Calling(Call("uri", NoField, u))

NoDecompress ==
    Open /\ b.kind = "request" /\ b' = [b EXCEPT !.decompress = FALSE] /\ Silently

-----------------------------------------------------------------------------
(* connection_type and ctype: what the flags stand for *)
ctype(flags) ==
    IF "CLOSE" \in flags THEN "Close" ELSE IF "KEEP_ALIVE" \in flags THEN "KeepAlive"
    ELSE IF "UPGRADE" \in flags THEN "Upgrade" ELSE "None"

Result(is, x) == [is |-> is, map |-> x.map, ctype |-> ctype(x.flags)]
Fail == out' = Result("error", [b EXCEPT !.map = H!new, !.flags = {}])

(* apply for each of a sequence of calls the builder makes on its own *)
Applied(x, cs) == FoldLeft(LAMBDA y, c : put(y, c.op, c.k, c.v), x, cs)

Bodies == {"any", "json", "unserializable"}
Json(body) ==
    IF body = "json" THEN <<Call("if_none", "content-type", "json")>> ELSE <<>>

(* CookieJar::delta: what has changed, in any order *)
delta(jar) ==
    {[i \in DOMAIN cs |-> IF jar[cs[i]] = "added" THEN cs[i] ELSE Expired[cs[i]]]
        : cs \in SetToSeqs({c \in Cookies : jar[c] # "untouched"})}

(* message_body, reached from body, finish and streaming; json, which fails  *)
(* before that if the value cannot be serialized.                            *)
Finish(body) ==
    /\ out.is = "none" /\ copying = <<>> /\ b.kind = "response"
    /\ \/ body = "unserializable" /\ Fail /\ UNCHANGED <<b, calls>>
       \/ /\ body # "unserializable" /\ b.err
          /\ b' = [b EXCEPT !.err = FALSE] /\ Fail /\ UNCHANGED calls
       \/ /\ body # "unserializable" /\ ~b.err /\ b' = [b EXCEPT !.head = FALSE]
          /\ \E set \in delta(b.jar) :
                LET added == Json(body) \o [i \in DOMAIN set |-> Call("header", "cookie", set[i])]
                IN  /\ calls' = calls \o added
                    /\ IF Contains(set, BadText) THEN Fail
                       ELSE out' = Result("built", Applied(b, added))
    /\ UNCHANGED <<given, copying, left>>

(* Response::add_cookie and del_cookie *)
AddCookie(c) ==
    /\ out.is = "built" /\ left > 0 /\ c # BadText
    /\ out' = [out EXCEPT !.map = H!append(@, "cookie", c)]
    /\ calls' = Append(calls, Call("header", "cookie", c)) /\ left' = left - 1
    /\ UNCHANGED <<b, given, copying>>
DelCookie(c) ==
    /\ out.is = "built" /\ left > 0
    /\ LET kept == SelectSeq(H!get_all(out.map, "cookie"), LAMBDA v : v \notin {c, Expired[c]})
       IN  out' = [out EXCEPT !.map = FoldLeft(LAMBDA m, v : H!append(m, "cookie", v),
                                               H!remove(@, "cookie"), kept)]
    /\ calls' = Append(calls, Call("del", "cookie", c)) /\ left' = left - 1
    /\ UNCHANGED <<b, given, copying>>

(* From<Response> for ResponseBuilder: the head goes on, with no change in   *)
(* the jar.                                                                  *)
FromResponse ==
    /\ out.is = "built" /\ left > 0
    /\ b' = [b EXCEPT !.head = TRUE, !.map = out.map, !.err = FALSE, !.jar = NoCookies]
    /\ out' = Unfinished /\ left' = left - 1 /\ UNCHANGED <<given, copying, calls>>

(* prep_for_sending, and the body: send, send_body, send_stream; send_json   *)
(* and send_form name its type.                                              *)
prepOver ==
    (IF b.jar # NoCookies THEN <<Call("set", "cookie", "jar")>> ELSE <<>>)
        \o (IF b.decompress THEN <<Call("set", "accept-encoding", "gzip")>> ELSE <<>>)
prep ==
    (IF b.jar # NoCookies THEN <<Call("set", "cookie", "jar")>> ELSE <<>>)
        \o (IF b.decompress THEN <<Call("if_none", "accept-encoding", "gzip")>> ELSE <<>>)

Send(body) ==
    /\ out.is = "none" /\ copying = <<>> /\ b.kind = "request"
    /\ \/ b.err /\ Fail /\ UNCHANGED calls
       \/ ~b.err /\ b.uri # "ok" /\ Fail /\ UNCHANGED calls
       \/ ~b.err /\ b.uri = "ok" /\ body = "unserializable" /\ Fail /\ UNCHANGED calls
       \/ /\ ~b.err /\ b.uri = "ok" /\ body # "unserializable"
          /\ calls' = calls \o prep \o Json(body)
          /\ out' = Result("sent", Applied(b, prep \o Json(body)))
    /\ UNCHANGED <<b, given, copying, left>>

BuilderNext ==
    \/ CopyPair \/ NoDecompress \/ FromResponse
    \/ \E op \in {"header", "set", "if_none"}, k \in Fields \union {NoField}, v \in Texts :
            Header(op, k, v)
    \/ \E f \in Flags : SetConnectionType(f)
    \/ \E v \in Texts : Upgrade(v)
    \/ \E c \in Cookies : Cookie(c) \/ RemoveCookie(c) \/ AddCookie(c) \/ DelCookie(c)
    \/ \E u \in Uris : Uri(u)
    \/ \E body \in Bodies : Finish(body) \/ Send(body)

BuilderSpec == BuilderInit /\ [][BuilderNext]_bvars
-----------------------------------------------------------------------------
(* Correctness.  The reference reads the history of calls backwards. *)

On(n, i) == calls[i].op \in {"header", "set", "if_none"} /\ calls[i].k = n

(* A call that gives n its value, unless a later one replaces it. *)
Counts(n, i) ==
    /\ On(n, i)
    /\ calls[i].op = "if_none" => \A j \in 1 .. i - 1 : ~On(n, j)
    /\ \A j \in i + 1 .. Len(calls) :
            /\ ~(On(n, j) /\ calls[j].op = "set")
            /\ ~(calls[j].op = "del" /\ calls[j].k = n
                /\ calls[i].v \in {calls[j].v, Expired[calls[j].v]})

Expected(n) ==
    LET at == SelectSeq([i \in DOMAIN calls |-> i], LAMBDA i : Counts(n, i))
    IN  [i \in DOMAIN at |-> calls[at[i]].v]

(* A call with a text that cannot be used *)
Failed(i) ==
    \/ calls[i].op \in {"header", "set", "if_none"} /\ calls[i].k = NoField
    \/ On(calls[i].k, i) /\ calls[i].v = BadText
        /\ (calls[i].op = "if_none" => \A j \in 1 .. i - 1 : ~On(calls[i].k, j))
    \/ calls[i].op = "uri" /\ calls[i].v = "invalid"

(* A message is built or sent only if none of the calls that made it failed, *)
(* and then it has for each name exactly the values that were set last and   *)
(* those appended since, in order, with the cookies that the builder adds;   *)
(* content type and accepted encodings never come in place of a value the    *)
(* application gave; a connection it forced to close is closed.              *)
BuiltAsCalled ==
    /\ BuilderTypeOK
    /\ out.is \in {"built", "sent"} =>
        /\ \A i \in DOMAIN calls : ~Failed(i)
        /\ \A n \in Fields : out.map[n].vals = Expected(n)
        /\ \A i \in DOMAIN calls : calls[i].v \in {"json", "gzip"} /\ Counts(calls[i].k, i) =>
                \A j \in 1 .. i - 1 : ~On(calls[i].k, j)
        /\ (\E i \in DOMAIN calls : calls[i].op = "CLOSE") => out.ctype = "Close"

(* Client::request_from: "This implementation copies all headers and the     *)
(* method" of the head it is given.                                          *)
CopiesAllHeaders ==
    b.kind = "request" /\ copying = <<>> /\ left = MaxCalls =>
        \A n \in Fields : ToSet(given[n].vals) \subseteq ToSet(b.map[n].vals)
=============================================================================
