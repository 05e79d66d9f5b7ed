----------------------------- MODULE HttpServer -----------------------------
(***************************************************************************)
(* One connection of the HTTP server, from the bytes that arrive to the    *)
(* answers that are sent: HttpContent and HttpRequest (src/http/httpcon-   *)
(* tent.{h,cc}, httprequest.{h,cc}) under HttpServer's MessageCallback and *)
(* DealWithRequest (src/http/httpserver.cc) with main's callback, whose    *)
(* answers HttpResponse puts on the wire (src/http/httpresponse.{h,cc}).   *)
(*                                                                         *)
(* The stream is cut by the network wherever it likes.  Its tokens are CR, *)
(* LF and texts: a text that has partly arrived is as good as one that has *)
(* not, since nothing is looked at before its CR LF.  A text is known by   *)
(* what find() and the comparisons make of it: its words between spaces,   *)
(* and what stands on the two sides of its first colon.  The socket takes  *)
(* every response here; how they leave is in TcpConnection.                *)
(***************************************************************************)
EXTENDS Naturals, Sequences, SequencesExt

CONSTANTS
    Streams,        \* what clients send: sequences of texts, "CR" and "LF"
    Words,          \* text -> its words
    Key, Value,     \* text -> what its first colon separates
    NoColon,        \* the Key of a text without a colon
    PathOf,         \* second word of a request line -> that word up to its '?'
    LateQuery,      \* texts with a '?' behind their second space and none
                    \* between the first and the second
    Pages           \* path that main's callback serves -> the length of its body

\* A CR and an LF come together, and a line has one text at most.
IsLines(stream) ==
    /\ stream \in Seq(STRING)
    /\ stream # <<>> => stream[1] # "LF"
    /\ \A i \in 1..Len(stream) - 1 :
          /\ stream[i] = "CR" <=> stream[i + 1] = "LF"
          /\ stream[i] \notin {"CR", "LF"} => stream[i + 1] = "CR"

ASSUME HttpAssumption == \A stream \in Streams : IsLines(stream)

VARIABLES
    network,        \* what has not been read yet
    input_buffer_,
    parse_state_, request_,     \* the HttpContent
    state_,         \* the TcpConnection's
    sent,           \* the responses given to Send, as they stand on the wire
    killed,         \* an exception has ended the process
    received,       \* history: everything read
    answered        \* history: how much of that the responses are for

vars == <<network, input_buffer_, parse_state_, request_, state_, sent, killed,
          received, answered>>

Methods == {"GET", "POST", "PUT", "DELETE", "TRACE", "OPTIONS", "CONNECT", "PATCH"}

\* HttpRequest(): its method and version are not read before they are set.
NewRequest == [method |-> "", path |-> "", version |-> "", headers |-> <<>>]

Init ==
    /\ network \in Streams
    /\ input_buffer_ = <<>>
    /\ parse_state_ = "kParseRequestLine" /\ request_ = NewRequest
    /\ state_ = "kConnected"
    /\ sent = <<>> /\ killed = FALSE /\ received = <<>> /\ answered = 0

-----------------------------------------------------------------------------
(* Parsing.                                                                *)

\* Buffer::FindCRLF: 0 when there is none.
FindCRLF(input) ==
    LET found == {i \in 1..Len(input) - 1 : input[i] = "CR" /\ input[i + 1] = "LF"}
    IN IF found = {} THEN 0 ELSE CHOOSE i \in found : \A j \in found : i <= j

\* ParseRequestLine looks for the '?' up to the end of the line.  If it finds
\* one behind the second space, query_.assign(query + 1, space) has its end
\* before its start and throws.
Throws(text) ==
    text \in LateQuery /\ Len(Words[text]) >= 3 /\ Words[text][1] \in Methods

\* Two spaces, a method before the first, a version and nothing else after the
\* second.
IsRequestLine(text) ==
    /\ Len(Words[text]) = 3
    /\ Words[text][1] \in Methods
    /\ Words[text][3] \in {"HTTP/1.0", "HTTP/1.1"}

ParseRequestLine(request, text) ==
    [request EXCEPT !.method = Words[text][1],
                    !.path = PathOf[Words[text][2]],
                    !.version = Words[text][3]]

\* headers_[field] = value.
ParseHeaders(request, text) ==
    [request EXCEPT !.headers =
        [field \in DOMAIN @ \cup {Key[text]} |->
            IF field = Key[text] THEN Value[text] ELSE @[field]]]

\* One round of ParseContent's loop.  The state is "thrown" once an exception
\* has left it.
ParseLine(p) ==
    LET at   == FindCRLF(p.input)
        text == IF at = 1 THEN "" ELSE Head(p.input)
        next == [p EXCEPT !.input = SubSeq(@, at + 2, Len(@))]
    IN CASE p.state = "kParseGotCompleteRequest" \/ at = 0 ->
              [p EXCEPT !.linemore = FALSE]
         [] p.state = "kParseRequestLine" /\ at # 0 /\ Throws(text) ->
              [p EXCEPT !.state = "thrown", !.linemore = FALSE]
         [] p.state = "kParseRequestLine" /\ at # 0 /\ ~Throws(text) ->
              IF IsRequestLine(text)
              THEN [next EXCEPT !.request = ParseRequestLine(@, text),
                                !.state = "kParseHeaders"]
              ELSE [next EXCEPT !.linemore = FALSE, !.parseok = FALSE]
         [] p.state = "kParseHeaders" /\ at # 0 ->
              IF Key[text] = NoColon
              THEN [next EXCEPT !.state = "kParseGotCompleteRequest", !.linemore = FALSE]
              ELSE [next EXCEPT !.request = ParseHeaders(@, text)]

Round(p) == IF p.linemore THEN ParseLine(p) ELSE p

\* Each round but the last takes a line, so there are no more than this.
MaxRounds(p) == Len(p.input) + 1

\* while (linemore): the parser after each of that many rounds.
Rounds(p) ==
    LET after[n \in 0..MaxRounds(p)] == IF n = 0 THEN p ELSE Round(after[n - 1])
    IN after

ParseContent(p) == Rounds(p)[MaxRounds(p)]

\* The parser's state, with what ReadFd has added to input_buffer_.
Parsed(chunk) ==
    ParseContent([input |-> input_buffer_ \o chunk, state |-> parse_state_,
                  request |-> request_, linemore |-> TRUE, parseok |-> TRUE])

-----------------------------------------------------------------------------
(* Answering.                                                              *)

\* main.cc's HttpResponseCallback: the HttpResponse it makes of one that was
\* constructed with close.
HttpResponseCallback(request, close) ==
    IF request.method # "GET" THEN [status |-> 400, body |-> "", close |-> TRUE]
    ELSE IF request.path \in DOMAIN Pages
         THEN [status |-> 200, body |-> request.path, close |-> close]
         ELSE [status |-> 404, body |-> "", close |-> TRUE]

\* What a response is on the wire: either its Content-Length stands in its
\* headers or the connection is to be closed behind it.
AppendToBuffer(response) ==
    [status |-> response.status, body |-> response.body,
     length |-> IF response.close THEN {} ELSE {Pages[response.body]}]

\* The text MessageCallback sends, which has no headers at all.
BadRequest == [status |-> 400, body |-> "", length |-> {}]

GetHeader(request, header) ==
    IF header \in DOMAIN request.headers THEN request.headers[header] ELSE ""

\* The response DealWithRequest gets from the callback.
Response(request) ==
    LET connection_state == GetHeader(request, "Connection")
        close == \/ connection_state = "Close"
                 \/ request.version = "HTTP/1.0" /\ connection_state # "Keep-Alive"
    IN HttpResponseCallback(request, close)

\* Send, and Shutdown if the connection is to be closed.  The message answers
\* all that has been taken from input_buffer_.
Send(message, close) ==
    /\ sent' = Append(sent, message)
    /\ answered' = Len(received') - Len(input_buffer_')
    /\ state_' = IF close THEN "kDisconnecting" ELSE state_
    /\ UNCHANGED killed

\* Wrong variant: the next request starts with the headers of the last.
ResetKeepsRequest(p) == parse_state_' = "kParseRequestLine" /\ request_' = p.request

\* Wrong variant: a new HttpRequest for a parser that believes to have one.
ResetKeepsState(p) == parse_state_' = p.state /\ request_' = NewRequest

ResetContentState(p) == parse_state_' = "kParseRequestLine" /\ request_' = NewRequest

-----------------------------------------------------------------------------
(* MessageCallback, after HandleMessage has read chunk.                    *)

\* The connection is being shut down: what arrives is left in the buffer.
Ignore(chunk) ==
    /\ state_ = "kDisconnecting"
    /\ input_buffer_' = input_buffer_ \o chunk
    /\ UNCHANGED <<parse_state_, request_, state_, sent, killed, answered>>

Parse(chunk) ==
    /\ state_ # "kDisconnecting"
    /\ input_buffer_' = Parsed(chunk).input

\* A line is no request line.
Refuse(p) ==
    /\ ~p.parseok
    /\ Send(BadRequest, TRUE)
    /\ parse_state_' = p.state /\ request_' = p.request

\* A whole request has been read.  Others behind it wait in the buffer.
DealWithRequest(p) ==
    /\ p.parseok /\ p.state = "kParseGotCompleteRequest"
    /\ LET response == Response(p.request)
       IN Send(AppendToBuffer(response), response.close)
    /\ ResetContentState(p)

\* The request has not come to its end.
AwaitMore(p) ==
    /\ p.parseok /\ p.state \notin {"kParseGotCompleteRequest", "thrown"}
    /\ parse_state_' = p.state /\ request_' = p.request
    /\ UNCHANGED <<state_, sent, killed, answered>>

\* Nothing catches the exception, so it ends the process.  What it left half
\* assigned is gone with that.
Terminate(p) ==
    /\ p.state = "thrown"
    /\ killed' = TRUE
    /\ UNCHANGED <<parse_state_, request_, state_, sent, answered>>

HandleMessage == \E n \in 1..Len(network) :
    LET chunk == SubSeq(network, 1, n) IN
    /\ ~killed
    /\ network' = SubSeq(network, n + 1, Len(network))
    /\ received' = received \o chunk
    /\ \/ Ignore(chunk)
       \/ /\ Parse(chunk)
          /\ \/ Refuse(Parsed(chunk))
             \/ DealWithRequest(Parsed(chunk))
             \/ AwaitMore(Parsed(chunk))
             \/ Terminate(Parsed(chunk))

Next == HandleMessage

Spec == Init /\ [][Next]_vars

-----------------------------------------------------------------------------
(* Properties.                                                             *)

\* Between two calls of MessageCallback the parser is at a request line or
\* among headers (a request that is complete has been answered), it has left
\* no complete header line behind, and input_buffer_ is the end of what has
\* been read.
TypeOK ==
    /\ parse_state_ \in {"kParseRequestLine", "kParseHeaders"}
    /\ parse_state_ = "kParseHeaders" => FindCRLF(input_buffer_) = 0
    /\ state_ \in {"kConnected", "kDisconnecting"}
    /\ request_.method \in Methods \cup {""}
    /\ killed \in BOOLEAN
    /\ IsSuffix(input_buffer_, received)

\* However the stream is cut, the same requests are found in it, each with its
\* own headers; each read answers the next one if it has come to its end, as if
\* all that is not answered yet were looked at afresh; an ill-formed line is
\* refused; and a client can tell where each answer ends: by its Content-Length,
\* or by the end of the stream, since nothing follows an answer without one.
\* Only a line with a late query ends the process, when its turn has come: no
\* earlier, and not if it is a header or stands behind an answer without length.
Service == INSTANCE HttpService

ImplementsHttpService == Service!Spec
=============================================================================
