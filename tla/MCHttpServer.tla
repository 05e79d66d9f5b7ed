---------------------------- MODULE MCHttpServer ----------------------------
(***************************************************************************)
(* HttpServer for TLC: streams of three requests out of ten, among them    *)
(* ill-formed, closing, keep-alive and repeated-header ones, one with a    *)
(* query, two with a late one and one that never ends.                     *)
(***************************************************************************)
EXTENDS HttpServer

MCWords ==
    "" :> <<"">> @@
    "GET / HTTP/1.1" :> <<"GET", "/", "HTTP/1.1">> @@
    "GET / HTTP/1.0" :> <<"GET", "/", "HTTP/1.0">> @@
    "GET /hello?a=b HTTP/1.1" :> <<"GET", "/hello?a=b", "HTTP/1.1">> @@
    "GET /none HTTP/1.1" :> <<"GET", "/none", "HTTP/1.1">> @@
    "POST / HTTP/1.1" :> <<"POST", "/", "HTTP/1.1">> @@
    "GET /" :> <<"GET", "/">> @@
    "GET / HTTP/1.1?" :> <<"GET", "/", "HTTP/1.1?">> @@
    "GOT / HTTP/1.1?" :> <<"GOT", "/", "HTTP/1.1?">> @@
    "Connection: Close" :> <<"Connection:", "Close">> @@
    "Connection: Keep-Alive" :> <<"Connection:", "Keep-Alive">> @@
    "Host: a" :> <<"Host:", "a">>

Headers == {"Connection: Close", "Connection: Keep-Alive", "Host: a"}

MCKey == [text \in DOMAIN MCWords |->
             IF text \notin Headers THEN NoColon
             ELSE IF text = "Host: a" THEN "Host" ELSE "Connection"]

MCValue == [text \in Headers |-> MCWords[text][2]]

MCPathOf == "/" :> "/" @@ "/hello?a=b" :> "/hello" @@ "/none" :> "/none"

MCLateQuery == {"GET / HTTP/1.1?", "GOT / HTTP/1.1?"}

MCPages == "/" :> 3 @@ "/hello" :> 2 @@ "/favicon" :> 1

Requests ==
    {<<"GET / HTTP/1.1", "Host: a", "">>,
     <<"GET / HTTP/1.0", "Connection: Keep-Alive", "">>,
     <<"GET / HTTP/1.0", "">>,
     <<"GET /hello?a=b HTTP/1.1", "Connection: Close", "Connection: Keep-Alive", "">>,
     <<"GET /none HTTP/1.1", "">>,
     <<"POST / HTTP/1.1", "Connection: Keep-Alive", "">>,
     <<"GET /">>,
     <<"GET / HTTP/1.1?", "">>,
     <<"GOT / HTTP/1.1?">>,
     <<"GET / HTTP/1.1", "Connection: Close">>}

Line(text) == (IF text = "" THEN <<>> ELSE <<text>>) \o <<"CR", "LF">>

Stream(texts) == FlattenSeq([i \in 1..Len(texts) |-> Line(texts[i])])

MCStreams == {Stream(FlattenSeq(requests)) : requests \in [1..3 -> Requests]}
=============================================================================
