---------------------------- MODULE HttpService -----------------------------
(***************************************************************************)
(* What a connection promises an HTTP client: an answer to each of its     *)
(* requests, in order, however the network cut them; one answer at most    *)
(* whenever more is read; each delimited by the length of its body or, the *)
(* last, by the end of the stream.  One kind of line ends it all: it kills *)
(* the server.                                                             *)
(*                                                                         *)
(* A request is described as it lies in the stream: its first line, and    *)
(* the first line behind that one which has no colon.                      *)
(***************************************************************************)
EXTENDS Naturals, Sequences, FiniteSetsExt, SequencesExt

CONSTANTS
    Words, Key, Value,  \* what the texts of lines are, as in HttpServer
    NoColon, PathOf, LateQuery, Pages

VARIABLES
    received,       \* all that has been read of the stream
    answered,       \* how much of it the answers given so far are for
    sent,           \* the answers
    killed          \* the server has ended

-----------------------------------------------------------------------------
(* The lines of a stream behind its first from tokens.                     *)

\* Where they end: the places of the CRs.
LineEnds(stream, from) ==
    {i \in from + 1 .. Len(stream) - 1 : stream[i] = "CR" /\ stream[i + 1] = "LF"}

\* Where the line that ends at i begins: behind the LF of the one before.
LineStart(stream, from, i) ==
    LET before == {j \in LineEnds(stream, from) : j < i}
    IN IF before = {} THEN from + 1 ELSE Max(before) + 2

LineText(stream, from, i) ==
    LET start == LineStart(stream, from, i) IN IF start = i THEN "" ELSE stream[start]

\* The end of the first line, that of the request.
FirstEnd(stream, from) == Min(LineEnds(stream, from))

RequestLine(stream, from) == LineText(stream, from, FirstEnd(stream, from))

\* The ends of later lines without a colon.
Blanks(stream, from) ==
    {i \in LineEnds(stream, from) :
        i > FirstEnd(stream, from) /\ Key[LineText(stream, from, i)] = NoColon}

-----------------------------------------------------------------------------
(* The request behind the first from tokens, and its answer.               *)

IsMethod(word) ==
    word \in {"GET", "POST", "PUT", "DELETE", "TRACE", "OPTIONS", "CONNECT", "PATCH"}

\* It begins as a request does and has a query where none may be.
Fatal(text) ==
    text \in LateQuery /\ Len(Words[text]) >= 3 /\ IsMethod(Words[text][1])

IsRequest(text) ==
    /\ ~Fatal(text)
    /\ Len(Words[text]) = 3 /\ IsMethod(Words[text][1])
    /\ Words[text][3] \in {"HTTP/1.0", "HTTP/1.1"}

\* It has been read to its end; what is no request is known from its first line.
Complete(stream, from) ==
    /\ LineEnds(stream, from) # {}
    /\ IsRequest(RequestLine(stream, from)) => Blanks(stream, from) # {}

\* Where its headers end.
HeaderEnd(stream, from) == Min(Blanks(stream, from))

\* Its last token.
RequestEnd(stream, from) ==
    1 + IF IsRequest(RequestLine(stream, from)) THEN HeaderEnd(stream, from)
        ELSE FirstEnd(stream, from)

\* The headers before place end that name the connection; the last one counts.
Given(stream, from, end) ==
    {i \in LineEnds(stream, from) :
        /\ FirstEnd(stream, from) < i /\ i < end
        /\ Key[LineText(stream, from, i)] = "Connection"}

Asked(stream, from, end) ==
    LET given == Given(stream, from, end)
    IN IF given = {} THEN "" ELSE Value[LineText(stream, from, Max(given))]

Refusal == [status |-> 400, body |-> "", length |-> {}]

Answer(stream, from) ==
    LET words  == Words[RequestLine(stream, from)]
        path   == PathOf[words[2]]
        asked  == Asked(stream, from, HeaderEnd(stream, from))
        closes == asked = "Close" \/ (words[3] = "HTTP/1.0" /\ asked # "Keep-Alive")
    IN IF ~IsRequest(RequestLine(stream, from)) \/ words[1] # "GET" THEN Refusal
       ELSE IF path \notin DOMAIN Pages THEN [status |-> 404, body |-> "", length |-> {}]
       ELSE [status |-> 200, body |-> path,
             length |-> IF closes THEN {} ELSE {Pages[path]}]

-----------------------------------------------------------------------------

Init == received = <<>> /\ answered = 0 /\ sent = <<>> /\ killed = FALSE

\* Nothing follows an answer without a length.
Closed == sent # <<>> /\ Last(sent).length = {}

\* There is something to do about what has been read.
Due == ~Closed /\ Complete(received', answered)

Wait == ~Due /\ UNCHANGED <<answered, sent, killed>>

Reply ==
    /\ Due /\ ~Fatal(RequestLine(received', answered))
    /\ sent' = Append(sent, Answer(received', answered))
    /\ answered' = RequestEnd(received', answered)
    /\ UNCHANGED killed

Die ==
    /\ Due /\ Fatal(RequestLine(received', answered))
    /\ killed' = TRUE
    /\ UNCHANGED <<answered, sent>>

\* More of the stream is read.
Next ==
    /\ ~killed
    /\ IsStrictPrefix(received, received')
    /\ Wait \/ Reply \/ Die

Spec == Init /\ [][Next]_<<received, answered, sent, killed>>
=============================================================================
