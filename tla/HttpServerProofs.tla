-------------------------- MODULE HttpServerProofs --------------------------
(***************************************************************************)
(* That a connection of the HTTP server answers the requests in its        *)
(* stream, each once, in order and with its own headers, wherever the      *)
(* network cuts the stream, and what line ends the process: for any        *)
(* streams, any texts and any pages.                                       *)
(***************************************************************************)
EXTENDS HttpServer, SequenceTheorems, WellFoundedInduction, TLAPS

-----------------------------------------------------------------------------
(* Least and greatest numbers.                                             *)

\* A set of naturals that is not empty has a least element.
LEMMA LeastNat ==
    ASSUME NEW T, T \subseteq Nat, T # {}
    PROVE  \E x \in T : \A y \in T : x <= y
<1> DEFINE R == OpToRel(<, Nat)
<1>1. PICK x \in T : \A y \in T : <<y, x>> \notin R
  <2> HIDE DEF R
  <2> QED BY WFMin, NatLessThanWellFounded DEF R
<1>2. ASSUME NEW y \in T PROVE x <= y
  <2>1. x \in Nat /\ y \in Nat /\ ~(y < x)
    BY <1>1 DEF OpToRel
  <2> QED BY <2>1
<1> QED BY <1>2

\* Min is that element.
LEMMA MinIs ==
    ASSUME NEW T, T \subseteq Nat, T # {}
    PROVE  Service!Min(T) \in T /\ \A y \in T : Service!Min(T) <= y
<1>1. \E x \in T : \A y \in T : x <= y
  BY LeastNat
<1> QED BY <1>1, Zenon DEF Service!Min

\* A set of naturals with a bound has a greatest element, its Max.
LEMMA MaxIs ==
    ASSUME NEW N \in Nat, NEW T, T \subseteq 0..N, T # {}
    PROVE  Service!Max(T) \in T /\ \A y \in T : Service!Max(T) >= y
<1> DEFINE D == {N - x : x \in T}
<1>1. D \subseteq Nat /\ D # {}
  OBVIOUS
<1>2. PICK d \in D : \A e \in D : d <= e
  <2> HIDE DEF D
  <2> QED BY <1>1, LeastNat
<1>3. PICK x \in T : d = N - x
  BY <1>2
<1>4. ASSUME NEW y \in T PROVE x >= y
  <2>1. N - y \in D /\ x \in 0..N /\ y \in 0..N
    BY <1>3
  <2>2. N - x <= N - y
    BY <2>1, <1>2, <1>3
  <2> QED BY <2>1, <2>2
<1> QED BY <1>3, <1>4, Zenon DEF Service!Max

-----------------------------------------------------------------------------
(* The rounds of ParseContent.                                             *)

\* f is the parser after each of the first m rounds.
IsRounds(f, p, m) == f = [n \in 0..m |-> IF n = 0 THEN p ELSE Round(f[n - 1])]

\* There is such a function.
LEMMA RoundsExist ==
    ASSUME NEW p, NEW N \in Nat
    PROVE  \E f : IsRounds(f, p, N)
<1> DEFINE T == {m \in 0..N : ~\E f : IsRounds(f, p, m)}
<1>1. SUFFICES ASSUME T # {} PROVE FALSE
  BY <1>1
<1>2. PICK m \in T : \A k \in T : m <= k
  <2>1. T \subseteq Nat
    OBVIOUS
  <2> HIDE DEF T
  <2> QED BY <1>1, <2>1, LeastNat
<1>3. m \in 0..N /\ ~\E f : IsRounds(f, p, m)
  OBVIOUS
<1>4. m # 0
  <2> DEFINE f == [n \in 0..0 |-> p]
  <2>1. \A n \in 0..0 : f[n] = IF n = 0 THEN p ELSE Round(f[n - 1])
    OBVIOUS
  <2>2. IsRounds(f, p, 0)
    BY <2>1 DEF IsRounds
  <2> QED BY <1>3, <2>2
<1>5. PICK g : IsRounds(g, p, m - 1)
  <2>1. m - 1 \in 0..N /\ ~(m <= m - 1)
    BY <1>3, <1>4
  <2> HIDE DEF T
  <2>2. m - 1 \notin T
    BY <2>1, <1>2
  <2> QED BY <2>1, <2>2 DEF T
<1> DEFINE f == [n \in 0..m |-> IF n < m THEN g[n] ELSE Round(g[n - 1])]
<1>6. ASSUME NEW n \in 0..m
      PROVE  f[n] = IF n = 0 THEN p ELSE Round(f[n - 1])
  <2>1. n \in Nat /\ m \in Nat /\ m # 0
    BY <1>3, <1>4
  <2>2. n # 0 => f[n - 1] = g[n - 1]
    BY <2>1
  <2>3. CASE n < m
    <3>1. n \in 0 .. m - 1
      BY <2>1, <2>3
    <3>2. g[n] = IF n = 0 THEN p ELSE Round(g[n - 1])
      BY <3>1, <1>5 DEF IsRounds
    <3>3. f[n] = g[n]
      BY <2>3
    <3> QED BY <3>2, <3>3, <2>2
  <2>4. CASE n = m
    BY <2>1, <2>2, <2>4
  <2> QED BY <2>1, <2>3, <2>4
<1>7. IsRounds(f, p, m)
  <2>1. f = [n \in 0..m |-> f[n]]
    OBVIOUS
  <2> HIDE DEF f
  <2> QED BY <2>1, <1>6 DEF IsRounds
<1> QED BY <1>3, <1>7

\* Rounds is one.
LEMMA RoundsAre ==
    ASSUME NEW p, MaxRounds(p) \in Nat
    PROVE  /\ Rounds(p)[0] = p
           /\ \A n \in 0..MaxRounds(p) : n # 0 => Rounds(p)[n] = Round(Rounds(p)[n - 1])
<1> DEFINE f == Rounds(p)
           N == MaxRounds(p)
<1>1. \E g : IsRounds(g, p, N)
  <2>1. N \in Nat
    OBVIOUS
  <2> HIDE DEF f, N
  <2> QED BY <2>1, RoundsExist
<1>2. f = CHOOSE after : after = [n \in 0..N |-> IF n = 0 THEN p ELSE Round(after[n - 1])]
  BY Zenon DEF Rounds
<1> HIDE DEF f, N
<1>3. IsRounds(f, p, N)
  BY <1>1, <1>2, Zenon DEF IsRounds
<1>4. N \in Nat
  BY DEF N
<1>5. \A n \in 0..N : f[n] = IF n = 0 THEN p ELSE Round(f[n - 1])
  BY <1>3 DEF IsRounds
<1>6. f[0] = p /\ \A n \in 0..N : n # 0 => f[n] = Round(f[n - 1])
  BY <1>4, <1>5
<1> QED BY <1>6 DEF f, N

-----------------------------------------------------------------------------
(* Lines.                                                                  *)

\* The first c tokens of stream s are a of them and whole lines behind those.
Boundary(s, a, c) == c \in a..Len(s) /\ (c = a \/ c - 1 \in Service!LineEnds(s, a))

\* FindCRLF finds the first CR LF.
LEMMA FindCRLFIs ==
    ASSUME NEW input \in Seq(STRING)
    PROVE  /\ FindCRLF(input) = 0 =>
                 \A i \in 1 .. Len(input) - 1 : ~(input[i] = "CR" /\ input[i + 1] = "LF")
           /\ FindCRLF(input) # 0 =>
                 /\ FindCRLF(input) \in 1 .. Len(input) - 1
                 /\ input[FindCRLF(input)] = "CR" /\ input[FindCRLF(input) + 1] = "LF"
                 /\ \A i \in 1 .. Len(input) - 1 :
                       input[i] = "CR" /\ input[i + 1] = "LF" => FindCRLF(input) <= i
<1> DEFINE found == {i \in 1 .. Len(input) - 1 : input[i] = "CR" /\ input[i + 1] = "LF"}
<1>1. FindCRLF(input) = IF found = {} THEN 0 ELSE CHOOSE i \in found : \A j \in found : i <= j
  BY DEF FindCRLF
<1>2. found \subseteq Nat /\ 0 \notin found
  OBVIOUS
<1>3. CASE found = {}
  <2>1. FindCRLF(input) = 0
    BY <1>1, <1>3
  <2> QED BY <2>1, <1>3
<1>4. CASE found # {}
  <2>1. \E i \in found : \A j \in found : i <= j
    <3> HIDE DEF found
    <3> QED BY <1>2, <1>4, LeastNat
  <2>2. FindCRLF(input) \in found /\ \A j \in found : FindCRLF(input) <= j
    <3> HIDE DEF found
    <3>1. FindCRLF(input) = CHOOSE i \in found : \A j \in found : i <= j
      BY <1>1, <1>4
    <3> QED BY <2>1, <3>1, Zenon
  <2> QED BY <1>2, <2>2
<1> QED BY <1>3, <1>4

\* What is left of a stream.
LEMMA RestIs ==
    ASSUME NEW s \in Seq(STRING), NEW c \in 0..Len(s)
    PROVE  /\ SubSeq(s, c + 1, Len(s)) \in Seq(STRING)
           /\ Len(SubSeq(s, c + 1, Len(s))) = Len(s) - c
           /\ \A i \in 1 .. Len(s) - c : SubSeq(s, c + 1, Len(s))[i] = s[c + i]
<1>1. Len(s) \in Nat /\ c \in Nat /\ c <= Len(s)
  OBVIOUS
<1>2. \A i \in c + 1 .. Len(s) : s[i] \in STRING
  BY <1>1
<1>3. /\ SubSeq(s, c + 1, Len(s)) \in Seq(STRING)
      /\ Len(SubSeq(s, c + 1, Len(s))) = IF c + 1 <= Len(s) THEN Len(s) - (c + 1) + 1 ELSE 0
      /\ \A i \in 1 .. Len(s) - (c + 1) + 1 : SubSeq(s, c + 1, Len(s))[i] = s[c + 1 + i - 1]
  BY <1>1, <1>2, SubSeqProperties
<1> QED BY <1>1, <1>3

\* The next line of a stream begins at its boundary and ends where FindCRLF
\* says; if it finds none, no line ends behind the boundary.
LEMMA NextLine ==
    ASSUME NEW s \in Seq(STRING), NEW a \in Nat, NEW c, Boundary(s, a, c),
           NEW input, input = SubSeq(s, c + 1, Len(s)),
           NEW at, at = FindCRLF(input)
    PROVE  /\ at = 0 => \A i \in Service!LineEnds(s, a) : i < c
           /\ at # 0 =>
                 /\ at \in 1 .. Len(input) - 1 /\ c + at \in Service!LineEnds(s, a)
                 /\ \A i \in Service!LineEnds(s, a) : i < c \/ c + at <= i
                 /\ Boundary(s, a, c + at + 1)
<1>1. c \in a..Len(s) /\ Len(s) \in Nat /\ c \in 0..Len(s)
  BY DEF Boundary
<1>2. /\ input \in Seq(STRING) /\ Len(input) = Len(s) - c
      /\ \A i \in 1 .. Len(s) - c : input[i] = s[c + i]
  BY <1>1, RestIs
<1>3. ASSUME NEW i \in Service!LineEnds(s, a), ~(i < c)
      PROVE  /\ i - c \in 1 .. Len(input) - 1
             /\ input[i - c] = "CR" /\ input[i - c + 1] = "LF"
  <2>1. i \in a + 1 .. Len(s) - 1 /\ s[i] = "CR" /\ s[i + 1] = "LF"
    BY <1>3 DEF Service!LineEnds
  <2>2. i # c
    <3>1. CASE c = a
      BY <2>1, <3>1
    <3>2. CASE c - 1 \in Service!LineEnds(s, a)
      <4>1. s[c - 1 + 1] = "LF" /\ c - 1 + 1 = c
        BY <1>1, <3>2 DEF Service!LineEnds
      <4> QED BY <4>1, <2>1
    <3> QED BY <3>1, <3>2 DEF Boundary
  <2>3. i - c \in 1 .. Len(input) - 1 /\ c + (i - c) = i /\ c + (i - c + 1) = i + 1
    BY <1>1, <1>2, <1>3, <2>1, <2>2
  <2> QED BY <1>1, <1>2, <2>1, <2>3
<1>4. CASE at = 0
  BY <1>2, <1>3, <1>4, FindCRLFIs
<1>5. CASE at # 0
  <2>1. /\ at \in 1 .. Len(input) - 1 /\ input[at] = "CR" /\ input[at + 1] = "LF"
        /\ \A i \in 1 .. Len(input) - 1 : input[i] = "CR" /\ input[i + 1] = "LF" => at <= i
    BY <1>2, <1>5, FindCRLFIs
  <2>2. c + at \in Service!LineEnds(s, a)
    <3>0. at \in 1 .. Len(s) - c /\ at + 1 \in 1 .. Len(s) - c /\ c + (at + 1) = c + at + 1
      BY <1>1, <1>2, <2>1
    <3>1. c + at \in a + 1 .. Len(s) - 1 /\ s[c + at] = "CR" /\ s[c + at + 1] = "LF"
      <4>1. c + at \in a + 1 .. Len(s) - 1
        BY <1>1, <3>0
      <4>2. s[c + at] = "CR" /\ s[c + (at + 1)] = "LF"
        BY <1>2, <2>1, <3>0
      <4> QED BY <3>0, <4>1, <4>2
    <3> QED BY <3>1 DEF Service!LineEnds
  <2>3. \A i \in Service!LineEnds(s, a) : i < c \/ c + at <= i
    <3> SUFFICES ASSUME NEW i \in Service!LineEnds(s, a), ~(i < c) PROVE c + at <= i
      OBVIOUS
    <3>1. at <= i - c
      BY <1>3, <2>1
    <3>2. i \in Nat
      BY <1>1 DEF Service!LineEnds
    <3> QED BY <1>1, <2>1, <3>1, <3>2
  <2>4. Boundary(s, a, c + at + 1)
    <3> DEFINE end == c + at + 1
    <3>1. end \in a..Len(s) /\ end - 1 = c + at
      <4>1. PICK m, n : m = Len(input) /\ n = Len(s)
        OBVIOUS
      <4>2. /\ n \in Nat /\ c \in Nat /\ a <= c /\ m = n - c
            /\ at \in Nat /\ 1 <= at /\ at <= m - 1
        BY <1>1, <1>2, <2>1, <4>1
      <4>3. c + at + 1 \in a..n /\ c + at + 1 - 1 = c + at
        BY <4>2
      <4> QED BY <4>1, <4>2, <4>3
    <3> HIDE DEF end
    <3>2. Boundary(s, a, end)
      BY <2>2, <3>1 DEF Boundary
    <3> QED BY <3>2 DEF end
  <2> QED BY <1>5, <2>1, <2>2, <2>3, <2>4
<1> QED BY <1>4, <1>5

\* Its text.
LEMMA NextText ==
    ASSUME NEW s \in Seq(STRING), NEW a \in Nat, NEW c, Boundary(s, a, c),
           NEW i \in Service!LineEnds(s, a), c < i,
           \A j \in Service!LineEnds(s, a) : j < c \/ i <= j
    PROVE  Service!LineText(s, a, i) = IF i = c + 1 THEN "" ELSE s[c + 1]
<1> DEFINE before == {j \in Service!LineEnds(s, a) : j < i}
<1>1. c \in a..Len(s) /\ Len(s) \in Nat /\ c \in Nat
  BY DEF Boundary
<1>2. Service!LineEnds(s, a) \subseteq a + 1 .. Len(s) - 1
  BY DEF Service!LineEnds
<1>3. Service!LineStart(s, a, i) = c + 1
  <2>1. Service!LineStart(s, a, i) = IF before = {} THEN a + 1 ELSE Service!Max(before) + 2
    BY DEF Service!LineStart
  <2>2. before = {j \in Service!LineEnds(s, a) : j < c}
    BY <1>1, <1>2
  <2>3. CASE c = a
    <3>1. before = {}
      BY <1>1, <1>2, <2>2, <2>3
    <3> QED BY <2>1, <2>3, <3>1
  <2>4. CASE c - 1 \in Service!LineEnds(s, a)
    <3>1. c - 1 \in before /\ before \subseteq 0..Len(s)
      BY <1>1, <1>2, <2>2, <2>4
    <3>2. \A j \in before : j <= c - 1
      BY <1>1, <1>2, <2>2
    <3> HIDE DEF before
    <3>3. Service!Max(before) \in before /\ Service!Max(before) >= c - 1
      BY <1>1, <3>1, MaxIs
    <3>4. Service!Max(before) = c - 1
      <4>1. Service!Max(before) <= c - 1 /\ Service!Max(before) \in 0..Len(s)
        BY <3>1, <3>2, <3>3
      <4> QED BY <1>1, <3>3, <4>1
    <3> QED BY <1>1, <2>1, <3>1, <3>4
  <2> QED BY <2>3, <2>4 DEF Boundary
<1> HIDE DEF before
<1>4. i \in Nat
  BY <1>1, <1>2
<1>5. Service!LineText(s, a, i) = IF c + 1 = i THEN "" ELSE s[c + 1]
  BY <1>3 DEF Service!LineText
<1> QED BY <1>5

-----------------------------------------------------------------------------
(* What a parser knows of the request that lies behind the first a tokens  *)
(* of a stream s, c of whose tokens it has taken.                          *)

Parser(input, state, request, linemore, parseok) ==
    [input |-> input, state |-> state, request |-> request,
     linemore |-> linemore, parseok |-> parseok]

\* request has the request line.
Opened(s, a, request) ==
    LET words == Words[Service!RequestLine(s, a)] IN
    /\ Service!LineEnds(s, a) # {}
    /\ Service!IsRequest(Service!RequestLine(s, a))
    /\ request = [method |-> words[1], path |-> PathOf[words[2]], version |-> words[3],
                  headers |-> request.headers]

\* And all headers up to a place, as far as they matter.
HasHeaders(s, a, end, request) ==
    GetHeader(request, "Connection") = Service!Asked(s, a, end)

\* How the parser's state goes with what it has taken.
AtRequestLine(s, a, c, p) ==
    p.state = "kParseRequestLine" /\ p.parseok /\ p.request = NewRequest /\ c = a

AmongHeaders(s, a, c, p) ==
    /\ p.state = "kParseHeaders" /\ p.parseok
    /\ Opened(s, a, p.request) /\ HasHeaders(s, a, c, p.request)
    /\ Service!FirstEnd(s, a) < c
    /\ \A i \in Service!Blanks(s, a) : c <= i

GotRequest(s, a, c, p) ==
    /\ p.state = "kParseGotCompleteRequest" /\ p.parseok
    /\ Opened(s, a, p.request) /\ HasHeaders(s, a, c - 1, p.request)
    /\ c - 1 \in Service!Blanks(s, a)
    /\ \A i \in Service!Blanks(s, a) : c - 1 <= i

GotNone(s, a, c, p) ==
    /\ p.state = "kParseRequestLine" /\ ~p.parseok /\ p.request = NewRequest
    /\ Service!LineEnds(s, a) # {} /\ c - 1 = Service!FirstEnd(s, a)
    /\ ~Service!Fatal(Service!RequestLine(s, a))
    /\ ~Service!IsRequest(Service!RequestLine(s, a))

\* The exception left nothing taken.
GotFatal(s, a, c, p) ==
    /\ p.state = "thrown" /\ p.parseok /\ c = a
    /\ Service!LineEnds(s, a) # {} /\ Service!Fatal(Service!RequestLine(s, a))

Tracks(s, a, c, p) ==
    /\ p = Parser(p.input, p.state, p.request, p.linemore, p.parseok)
    /\ p.linemore \in BOOLEAN /\ p.parseok \in BOOLEAN
    /\ Boundary(s, a, c) /\ p.input = SubSeq(s, c + 1, Len(s))
    /\ \/ /\ AtRequestLine(s, a, c, p) \/ AmongHeaders(s, a, c, p)
          /\ ~p.linemore => FindCRLF(p.input) = 0
       \/ GotRequest(s, a, c, p) /\ ~p.linemore
       \/ GotNone(s, a, c, p) /\ ~p.linemore
       \/ GotFatal(s, a, c, p) /\ ~p.linemore

\* A header is what was given last.
LEMMA HeaderIs ==
    ASSUME NEW request, NEW text,
           request = [method |-> request.method, path |-> request.path,
                      version |-> request.version, headers |-> request.headers]
    PROVE  /\ ParseHeaders(request, text) =
                 [method |-> request.method, path |-> request.path, version |-> request.version,
                  headers |-> ParseHeaders(request, text).headers]
           /\ GetHeader(ParseHeaders(request, text), "Connection") =
                 IF Key[text] = "Connection" THEN Value[text]
                 ELSE GetHeader(request, "Connection")
<1> DEFINE h == request.headers
           k == Key[text]
           n == [x \in DOMAIN h \cup {k} |-> IF x = k THEN Value[text] ELSE h[x]]
<1>1. /\ ParseHeaders(request, text) =
            [method |-> request.method, path |-> request.path, version |-> request.version,
             headers |-> n]
      /\ ParseHeaders(request, text).headers = n
  <2> HIDE DEF n
  <2>1. ParseHeaders(request, text) = [request EXCEPT !.headers = n]
    BY DEF ParseHeaders, n
  <2> QED BY <2>1
<1>2. /\ DOMAIN n = {k} \cup DOMAIN h
      /\ \A x \in DOMAIN n : n[x] = IF x = k THEN Value[text] ELSE h[x]
  OBVIOUS
<1> HIDE DEF n, h, k
<1>3. (IF "Connection" \in DOMAIN n THEN n["Connection"] ELSE "") =
         IF k = "Connection" THEN Value[text]
         ELSE IF "Connection" \in DOMAIN h THEN h["Connection"] ELSE ""
  BY <1>2
<1> QED BY <1>1, <1>3 DEF GetHeader, h, k

\* What is asked for changes only where a line ends that names the connection.
LEMMA AskedIs ==
    ASSUME NEW s \in Seq(STRING), NEW a \in Nat, NEW c \in Nat, NEW i,
           i \in Service!LineEnds(s, a), c <= i, Service!FirstEnd(s, a) < c,
           \A j \in Service!LineEnds(s, a) : j < c \/ i <= j
    PROVE  /\ Service!Asked(s, a, i) = Service!Asked(s, a, c)
           /\ Service!Asked(s, a, i + 1) =
                 IF Key[Service!LineText(s, a, i)] = "Connection"
                 THEN Value[Service!LineText(s, a, i)] ELSE Service!Asked(s, a, c)
<1>1. Service!LineEnds(s, a) \subseteq 0..Len(s) /\ Len(s) \in Nat
  BY DEF Service!LineEnds
<1>2. Service!FirstEnd(s, a) \in Nat
  BY <1>1, MinIs DEF Service!FirstEnd
<1>3. i \in Nat /\ \A j \in Service!LineEnds(s, a) : (j < i <=> j < c) /\ (j < i + 1 <=> j < c \/ j = i)
  BY <1>1
<1>4. Service!Given(s, a, i) = Service!Given(s, a, c)
  BY <1>3 DEF Service!Given
<1>5. CASE Key[Service!LineText(s, a, i)] = "Connection"
  <2> DEFINE given == Service!Given(s, a, i + 1)
  <2>1. i \in given /\ given \subseteq 0..Len(s) /\ \A j \in given : j <= i
    BY <1>1, <1>2, <1>3, <1>5 DEF Service!Given
  <2>2. Service!Max(given) = i
    <3> HIDE DEF given
    <3>1. Service!Max(given) \in given /\ Service!Max(given) >= i
      BY <1>1, <2>1, MaxIs
    <3>2. Service!Max(given) <= i /\ Service!Max(given) \in 0..Len(s)
      BY <2>1, <3>1
    <3> QED BY <1>3, <3>1, <3>2
  <2>3. Service!Asked(s, a, i + 1) = Value[Service!LineText(s, a, i)]
    <3>1. Service!Asked(s, a, i + 1) =
             IF given = {} THEN "" ELSE Value[Service!LineText(s, a, Service!Max(given))]
      BY DEF Service!Asked
    <3> HIDE DEF given
    <3> QED BY <2>1, <2>2, <3>1
  <2> QED BY <1>4, <1>5, <2>3 DEF Service!Asked
<1>6. CASE Key[Service!LineText(s, a, i)] # "Connection"
  <2>1. Service!Given(s, a, i + 1) = Service!Given(s, a, c)
    BY <1>3, <1>6 DEF Service!Given
  <2> QED BY <1>4, <1>6, <2>1 DEF Service!Asked
<1> QED BY <1>5, <1>6

\* What is left of what is left.
LEMMA RestOfRest ==
    ASSUME NEW s \in Seq(STRING), NEW c \in 0..Len(s), NEW n \in 0 .. Len(s) - c,
           NEW input, input = SubSeq(s, c + 1, Len(s))
    PROVE  SubSeq(input, n + 1, Len(input)) = SubSeq(s, c + n + 1, Len(s))
<1>1. Len(s) \in Nat /\ c \in Nat /\ n \in Nat /\ c + n \in 0..Len(s) /\ n <= Len(s) - c
  OBVIOUS
<1>2. /\ input \in Seq(STRING) /\ Len(input) = Len(s) - c
      /\ \A i \in 1 .. Len(s) - c : input[i] = s[c + i]
  BY RestIs
<1> DEFINE u == SubSeq(input, n + 1, Len(input))
           v == SubSeq(s, c + n + 1, Len(s))
<1>3. /\ u \in Seq(STRING) /\ Len(u) = Len(input) - n
      /\ \A i \in 1 .. Len(input) - n : u[i] = input[n + i]
  <2>1. n \in 0..Len(input)
    BY <1>1, <1>2
  <2> QED BY <1>2, <2>1, RestIs
<1>4. /\ v \in Seq(STRING) /\ Len(v) = Len(s) - (c + n)
      /\ \A i \in 1 .. Len(s) - (c + n) : v[i] = s[c + n + i]
  BY <1>1, RestIs
<1> HIDE DEF u, v
<1>5. Len(u) = Len(v)
  BY <1>1, <1>2, <1>3, <1>4
<1>6. ASSUME NEW i \in 1..Len(u) PROVE u[i] = v[i]
  <2>1. /\ i \in 1 .. Len(input) - n /\ i \in 1 .. Len(s) - (c + n)
        /\ n + i \in 1 .. Len(s) - c /\ c + (n + i) = c + n + i
    BY <1>1, <1>2, <1>3
  <2>2. u[i] = s[c + (n + i)]
    BY <1>2, <1>3, <2>1
  <2> QED BY <1>4, <2>1, <2>2
<1>7. u = v
  BY <1>3, <1>4, <1>5, <1>6, SeqEqual
<1> QED BY <1>7 DEF u, v

\* The next line of what is left of a stream, and what is left behind it.
NextOf(input) == IF FindCRLF(input) = 1 THEN "" ELSE Head(input)

RestOf(input) == SubSeq(input, FindCRLF(input) + 2, Len(input))

\* What a round does.
LEMMA ParseLineIs ==
    ASSUME NEW input, NEW state, NEW request
    PROVE  LET q == ParseLine(Parser(input, state, request, TRUE, TRUE)) IN
           /\ FindCRLF(input) = 0 => q = Parser(input, state, request, FALSE, TRUE)
           /\ FindCRLF(input) # 0 /\ state = "kParseRequestLine" =>
                 IF Throws(NextOf(input))
                 THEN q = Parser(input, "thrown", request, FALSE, TRUE)
                 ELSE IF IsRequestLine(NextOf(input))
                 THEN q = Parser(RestOf(input), "kParseHeaders",
                                 ParseRequestLine(request, NextOf(input)), TRUE, TRUE)
                 ELSE q = Parser(RestOf(input), state, request, FALSE, FALSE)
           /\ FindCRLF(input) # 0 /\ state = "kParseHeaders" =>
                 IF Key[NextOf(input)] = NoColon
                 THEN q = Parser(RestOf(input), "kParseGotCompleteRequest", request, FALSE, TRUE)
                 ELSE q = Parser(RestOf(input), state,
                                 ParseHeaders(request, NextOf(input)), TRUE, TRUE)
<1>1. PICK p, next, rest, line, q :
         /\ p = [input |-> input, state |-> state, request |-> request,
                 linemore |-> TRUE, parseok |-> TRUE]
         /\ next = [input |-> rest, state |-> state, request |-> request,
                    linemore |-> TRUE, parseok |-> TRUE]
         /\ rest = RestOf(input) /\ line = NextOf(input)
         /\ q = ParseLine(Parser(input, state, request, TRUE, TRUE))
  OBVIOUS
<1>2. p = [input |-> input, state |-> state, request |-> request,
           linemore |-> TRUE, parseok |-> TRUE]
  BY <1>1
<1>3. next = [input |-> rest, state |-> state, request |-> request,
              linemore |-> TRUE, parseok |-> TRUE]
  BY <1>1
<1>4. /\ p.input = input /\ p.state = state /\ p.request = request /\ next.request = request
      /\ q = ParseLine(p)
  BY <1>1 DEF Parser
<1>5. q = CASE state = "kParseGotCompleteRequest" \/ FindCRLF(input) = 0 ->
                  [p EXCEPT !.linemore = FALSE]
            [] state = "kParseRequestLine" /\ FindCRLF(input) # 0 /\ Throws(line) ->
                  [p EXCEPT !.state = "thrown", !.linemore = FALSE]
            [] state = "kParseRequestLine" /\ FindCRLF(input) # 0 /\ ~Throws(line) ->
                  IF IsRequestLine(line)
                  THEN [next EXCEPT !.request = ParseRequestLine(request, line),
                                    !.state = "kParseHeaders"]
                  ELSE [next EXCEPT !.linemore = FALSE, !.parseok = FALSE]
            [] state = "kParseHeaders" /\ FindCRLF(input) # 0 ->
                  IF Key[line] = NoColon
                  THEN [next EXCEPT !.state = "kParseGotCompleteRequest", !.linemore = FALSE]
                  ELSE [next EXCEPT !.request = ParseHeaders(request, line)]
  <2>1. PICK x : x = [p EXCEPT !.input = rest]
    OBVIOUS
  <2>2. x = next
    <3>1. x = [input |-> rest, state |-> state, request |-> request,
               linemore |-> TRUE, parseok |-> TRUE]
      BY <1>2, <2>1
    <3> QED BY <1>3, <3>1
  <2>3. rest = SubSeq(input, FindCRLF(input) + 2, Len(input))
    BY <1>1 DEF RestOf
  <2>4. line = IF FindCRLF(input) = 1 THEN "" ELSE Head(input)
    BY <1>1 DEF NextOf
  <2> QED BY <1>4, <2>1, <2>2, <2>3, <2>4, ZenonT(30) DEF ParseLine
<1>6. CASE FindCRLF(input) = 0
  <2>1. q = [p EXCEPT !.linemore = FALSE]
    BY <1>5, <1>6, Zenon
  <2>2. q = [input |-> input, state |-> state, request |-> request,
             linemore |-> FALSE, parseok |-> TRUE]
    BY <1>2, <2>1
  <2> QED BY <1>1, <1>6, <2>2 DEF Parser
<1>7. CASE FindCRLF(input) # 0 /\ state = "kParseRequestLine"
  <2>0. CASE Throws(line)
    <3>1. q = [p EXCEPT !.state = "thrown", !.linemore = FALSE]
      BY <1>5, <1>7, <2>0
    <3>2. q = [input |-> input, state |-> "thrown", request |-> request,
               linemore |-> FALSE, parseok |-> TRUE]
      BY <1>2, <3>1
    <3> QED BY <1>1, <1>7, <2>0, <3>2 DEF Parser
  <2>1. CASE ~Throws(line) /\ IsRequestLine(line)
    <3>1. q = [next EXCEPT !.request = ParseRequestLine(request, line), !.state = "kParseHeaders"]
      BY <1>5, <1>7, <2>1
    <3>2. q = [input |-> rest, state |-> "kParseHeaders",
               request |-> ParseRequestLine(request, line), linemore |-> TRUE, parseok |-> TRUE]
      BY <1>3, <3>1
    <3> QED BY <1>1, <1>7, <2>1, <3>2 DEF Parser
  <2>2. CASE ~Throws(line) /\ ~IsRequestLine(line)
    <3>1. q = [next EXCEPT !.linemore = FALSE, !.parseok = FALSE]
      BY <1>5, <1>7, <2>2
    <3>2. q = [input |-> rest, state |-> state, request |-> request,
               linemore |-> FALSE, parseok |-> FALSE]
      BY <1>3, <3>1
    <3> QED BY <1>1, <1>7, <2>2, <3>2 DEF Parser
  <2> QED BY <2>0, <2>1, <2>2
<1>8. CASE FindCRLF(input) # 0 /\ state = "kParseHeaders"
  <2>1. CASE Key[line] = NoColon
    <3>1. q = [next EXCEPT !.state = "kParseGotCompleteRequest", !.linemore = FALSE]
      BY <1>5, <1>8, <2>1
    <3>2. q = [input |-> rest, state |-> "kParseGotCompleteRequest", request |-> request,
               linemore |-> FALSE, parseok |-> TRUE]
      BY <1>3, <3>1
    <3> QED BY <1>1, <1>8, <2>1, <3>2 DEF Parser
  <2>2. CASE Key[line] # NoColon
    <3>1. q = [next EXCEPT !.request = ParseHeaders(request, line)]
      BY <1>5, <1>8, <2>2
    <3>2. q = [input |-> rest, state |-> state, request |-> ParseHeaders(request, line),
               linemore |-> TRUE, parseok |-> TRUE]
      BY <1>3, <3>1
    <3> QED BY <1>1, <1>8, <2>2, <3>2 DEF Parser
  <2> QED BY <2>1, <2>2
<1> QED BY <1>6, <1>7, <1>8

\* A round of ParseContent's loop keeps to what the parser knows, and takes a
\* line if it is not the last one.
LEMMA ParseLineTracks ==
    ASSUME NEW s \in Seq(STRING), NEW a \in Nat, NEW c, NEW p,
           Tracks(s, a, c, p), p.linemore
    PROVE  \E d : Tracks(s, a, d, ParseLine(p)) /\ (ParseLine(p).linemore => c < d)
<1>1. PICK input, state, request :
         /\ p = Parser(input, state, request, TRUE, TRUE)
         /\ Boundary(s, a, c) /\ input = SubSeq(s, c + 1, Len(s))
         /\ AtRequestLine(s, a, c, p) \/ AmongHeaders(s, a, c, p)
  <2>1. p.parseok /\ p.linemore = TRUE /\ p.parseok = TRUE
    BY DEF Tracks, AtRequestLine, AmongHeaders
  <2>2. p = Parser(p.input, p.state, p.request, TRUE, TRUE)
    BY <2>1, Zenon DEF Tracks
  <2> QED BY <2>2, Zenon DEF Tracks
<1>2. c \in a..Len(s) /\ c \in 0..Len(s) /\ Len(s) \in Nat /\ c \in Nat
  BY <1>1 DEF Boundary
<1>3. /\ input \in Seq(STRING) /\ Len(input) = Len(s) - c
      /\ \A j \in 1 .. Len(s) - c : input[j] = s[c + j]
  BY <1>1, <1>2, RestIs
<1>4. PICK at, i, text, rest, q :
         /\ at = FindCRLF(input) /\ i = c + at
         /\ text = NextOf(input) /\ rest = RestOf(input)
         /\ q = ParseLine(p)
  OBVIOUS
<1>5. /\ at = 0 => \A j \in Service!LineEnds(s, a) : j < c
      /\ at # 0 =>
            /\ at \in 1 .. Len(input) - 1 /\ i \in Service!LineEnds(s, a)
            /\ \A j \in Service!LineEnds(s, a) : j < c \/ i <= j
            /\ Boundary(s, a, i + 1)
  BY <1>1, <1>4, NextLine
<1>6. p.input = input /\ p.state = state /\ p.request = request
  BY <1>1 DEF Parser
<1>7. SUFFICES \E d : Tracks(s, a, d, q) /\ (q.linemore => c < d)
  BY <1>4
<1>8. CASE at = 0
  <2>1. q = Parser(input, state, request, FALSE, TRUE)
    BY <1>1, <1>4, <1>8, ParseLineIs
  <2>2. /\ q.input = input /\ q.state = state /\ q.request = request
        /\ q.linemore = FALSE /\ q.parseok = TRUE
    BY <2>1 DEF Parser
  <2>3. AtRequestLine(s, a, c, q) \/ AmongHeaders(s, a, c, q)
    BY <1>1, <1>6, <2>2 DEF AtRequestLine, AmongHeaders
  <2>4. Tracks(s, a, c, q)
    BY <1>1, <1>4, <1>8, <2>1, <2>2, <2>3 DEF Tracks
  <2> QED BY <2>2, <2>4
<1>9. CASE at # 0
  <2>1. /\ at \in 1 .. Len(s) - c - 1 /\ i \in Service!LineEnds(s, a) /\ c < i /\ i \in Nat
        /\ \A j \in Service!LineEnds(s, a) : j < c \/ i <= j
        /\ Boundary(s, a, i + 1)
    BY <1>2, <1>3, <1>4, <1>5, <1>9
  <2>2. text = Service!LineText(s, a, i)
    <3>1. Service!LineText(s, a, i) = IF i = c + 1 THEN "" ELSE s[c + 1]
      BY <1>1, <2>1, NextText
    <3>2. at = 1 <=> i = c + 1
      BY <1>2, <1>4, <2>1
    <3>3. Head(input) = s[c + 1]
      <4>1. input # <<>> /\ 1 \in 1 .. Len(s) - c
        BY <1>2, <1>3, <2>1
      <4> QED BY <1>3, <4>1
    <3> QED BY <1>4, <3>1, <3>2, <3>3 DEF NextOf
  <2>3. rest = SubSeq(s, i + 2, Len(s))
    <3>1. PICK n : n = at + 1
      OBVIOUS
    <3>2. /\ n \in 0 .. Len(s) - c
          /\ n + 1 = at + 2 /\ c + n + 1 = i + 2
      <4>1. at \in Nat /\ at + 1 <= Len(s) - c
        BY <1>2, <2>1
      <4>2. i = c + at
        BY <1>4
      <4> QED BY <1>2, <3>1, <4>1, <4>2
    <3>3. SubSeq(input, n + 1, Len(input)) = SubSeq(s, c + n + 1, Len(s))
      BY <1>1, <1>2, <3>2, RestOfRest
    <3> QED BY <1>4, <3>2, <3>3 DEF RestOf
  <2>4. PICK d : d = i + 1
    OBVIOUS
  <2>5. d + 1 = i + 2 /\ d - 1 = i /\ c < d /\ i < d
    BY <1>2, <2>1, <2>4
  <2>6. Boundary(s, a, d) /\ rest = SubSeq(s, d + 1, Len(s))
    BY <2>1, <2>3, <2>4, <2>5
  <2>7. /\ Throws(text) <=> Service!Fatal(text)
        /\ ~Throws(text) => (IsRequestLine(text) <=> Service!IsRequest(text))
    BY DEF IsRequestLine, Throws, Service!IsRequest, Service!Fatal, Service!IsMethod, Methods
  <2>8. Service!LineEnds(s, a) \subseteq a + 1 .. Len(s) - 1 /\ Service!LineEnds(s, a) \subseteq Nat
    BY <1>2 DEF Service!LineEnds
  <2>9. /\ Service!FirstEnd(s, a) \in Service!LineEnds(s, a)
        /\ \A j \in Service!LineEnds(s, a) : Service!FirstEnd(s, a) <= j
    BY <2>1, <2>8, MinIs DEF Service!FirstEnd
  <2>10. CASE AtRequestLine(s, a, c, p)
    <3>1. state = "kParseRequestLine" /\ request = NewRequest /\ c = a
      BY <1>6, <2>10 DEF AtRequestLine
    <3>2. Service!FirstEnd(s, a) = i /\ Service!RequestLine(s, a) = text
      <4>1. i <= Service!FirstEnd(s, a)
        BY <1>2, <2>1, <2>8, <2>9, <3>1
      <4>2. Service!FirstEnd(s, a) <= i /\ Service!FirstEnd(s, a) \in Nat
        BY <2>1, <2>8, <2>9
      <4> QED BY <2>1, <2>2, <4>1, <4>2 DEF Service!RequestLine
    <3>3. CASE ~Throws(text) /\ IsRequestLine(text)
      <4>1. q = Parser(rest, "kParseHeaders", ParseRequestLine(request, text), TRUE, TRUE)
        BY <1>1, <1>4, <1>9, <3>1, <3>3, ParseLineIs, ZenonT(30)
      <4>2. /\ q.input = rest /\ q.state = "kParseHeaders" /\ q.linemore = TRUE /\ q.parseok = TRUE
            /\ q.request = ParseRequestLine(request, text)
        BY <4>1 DEF Parser
      <4>3. q.request = [method |-> Words[text][1], path |-> PathOf[Words[text][2]],
                         version |-> Words[text][3], headers |-> <<>>]
        <5>1. request = [method |-> "", path |-> "", version |-> "", headers |-> <<>>]
          BY <3>1 DEF NewRequest
        <5>2. q.request = [request EXCEPT !.method = Words[text][1],
                                          !.path = PathOf[Words[text][2]],
                                          !.version = Words[text][3]]
          BY <4>2 DEF ParseRequestLine
        <5> QED BY <5>1, <5>2, ZenonT(30)
      <4>4. q.request.headers = <<>>
        BY <4>3
      <4>5. Opened(s, a, q.request)
        BY <2>1, <2>7, <3>2, <3>3, <4>3, <4>4 DEF Opened
      <4>6. HasHeaders(s, a, d, q.request)
        <5>1. Service!Given(s, a, d) = {}
          BY <2>4, <2>8, <2>1, <3>2 DEF Service!Given
        <5>2. GetHeader(q.request, "Connection") = ""
          BY <4>4 DEF GetHeader
        <5> QED BY <5>1, <5>2 DEF HasHeaders, Service!Asked
      <4>7. Service!FirstEnd(s, a) < d /\ \A j \in Service!Blanks(s, a) : d <= j
        BY <2>1, <2>4, <2>5, <2>8, <3>2 DEF Service!Blanks
      <4>8. AmongHeaders(s, a, d, q)
        BY <4>2, <4>5, <4>6, <4>7 DEF AmongHeaders
      <4>9. Tracks(s, a, d, q)
        BY <2>6, <4>1, <4>2, <4>8 DEF Tracks
      <4> QED BY <2>5, <4>9
    <3>4. CASE ~Throws(text) /\ ~IsRequestLine(text)
      <4>1. q = Parser(rest, state, request, FALSE, FALSE)
        BY <1>1, <1>4, <1>9, <3>1, <3>4, ParseLineIs
      <4>2. /\ q.input = rest /\ q.state = "kParseRequestLine" /\ q.linemore = FALSE
            /\ q.parseok = FALSE /\ q.request = request
        BY <3>1, <4>1 DEF Parser
      <4>3. GotNone(s, a, d, q)
        BY <2>1, <2>5, <2>7, <3>1, <3>2, <3>4, <4>2 DEF GotNone
      <4>4. Tracks(s, a, d, q)
        BY <2>6, <3>1, <4>1, <4>2, <4>3 DEF Tracks
      <4> QED BY <2>5, <4>4
    <3>5. CASE Throws(text)
      <4>1. q = Parser(input, "thrown", request, FALSE, TRUE)
        BY <1>1, <1>4, <1>9, <3>1, <3>5, ParseLineIs
      <4>2. /\ q.input = input /\ q.state = "thrown" /\ q.linemore = FALSE
            /\ q.parseok = TRUE /\ q.request = request
        BY <4>1 DEF Parser
      <4>3. GotFatal(s, a, c, q)
        BY <2>1, <2>7, <3>1, <3>2, <3>5, <4>2 DEF GotFatal
      <4>4. Tracks(s, a, c, q)
        BY <1>1, <4>1, <4>2, <4>3 DEF Tracks
      <4> QED BY <4>2, <4>4
    <3> QED BY <3>3, <3>4, <3>5
  <2>11. CASE AmongHeaders(s, a, c, p)
    <3>1. /\ state = "kParseHeaders" /\ Opened(s, a, request) /\ HasHeaders(s, a, c, request)
          /\ Service!FirstEnd(s, a) < c /\ \A j \in Service!Blanks(s, a) : c <= j
      BY <1>6, <2>11 DEF AmongHeaders
    <3>2. Service!Blanks(s, a) \subseteq Service!LineEnds(s, a)
      BY DEF Service!Blanks
    <3>3. /\ Service!Asked(s, a, i) = Service!Asked(s, a, c)
          /\ Service!Asked(s, a, d) =
                IF Key[text] = "Connection" THEN Value[text] ELSE Service!Asked(s, a, c)
      <4>1. c <= i
        BY <1>2, <2>1
      <4> QED BY <1>2, <2>1, <2>2, <2>4, <3>1, <4>1, AskedIs
    <3>4. Service!FirstEnd(s, a) < i /\ Service!FirstEnd(s, a) < d
      BY <1>2, <2>1, <2>4, <2>8, <2>9, <3>1
    <3>5. \A j \in Service!Blanks(s, a) : i <= j
      BY <1>2, <2>1, <2>8, <3>1, <3>2
    <3>6. i \in Service!Blanks(s, a) <=> Key[text] = NoColon
      BY <2>1, <2>2, <3>4 DEF Service!Blanks
    <3>7. CASE Key[text] = NoColon
      <4>1. q = Parser(rest, "kParseGotCompleteRequest", request, FALSE, TRUE)
        BY <1>1, <1>4, <1>9, <3>1, <3>7, ParseLineIs, ZenonT(30)
      <4>2. /\ q.input = rest /\ q.state = "kParseGotCompleteRequest" /\ q.linemore = FALSE
            /\ q.parseok = TRUE /\ q.request = request
        BY <4>1 DEF Parser
      <4>3. GotRequest(s, a, d, q)
        BY <2>5, <3>1, <3>3, <3>5, <3>6, <3>7, <4>2 DEF GotRequest, HasHeaders
      <4>4. Tracks(s, a, d, q)
        BY <2>6, <4>1, <4>2, <4>3 DEF Tracks
      <4> QED BY <2>5, <4>4
    <3>8. CASE Key[text] # NoColon
      <4>1. q = Parser(rest, state, ParseHeaders(request, text), TRUE, TRUE)
        BY <1>1, <1>4, <1>9, <3>1, <3>8, ParseLineIs
      <4>2. /\ q.input = rest /\ q.state = "kParseHeaders" /\ q.linemore = TRUE
            /\ q.parseok = TRUE /\ q.request = ParseHeaders(request, text)
        BY <3>1, <4>1 DEF Parser
      <4>3. request = [method |-> request.method, path |-> request.path,
                       version |-> request.version, headers |-> request.headers]
        <5>1. PICK m, t, v, h : request = [method |-> m, path |-> t, version |-> v, headers |-> h]
          BY <3>1, Zenon DEF Opened
        <5> QED BY <5>1
      <4>4. PICK m, t, v :
               request = [method |-> m, path |-> t, version |-> v, headers |-> request.headers]
               /\ m = Words[Service!RequestLine(s, a)][1]
               /\ t = PathOf[Words[Service!RequestLine(s, a)][2]]
               /\ v = Words[Service!RequestLine(s, a)][3]
        BY <3>1, Zenon DEF Opened
      <4>5. request.method = m /\ request.path = t /\ request.version = v
        BY <4>4
      <4>6. Opened(s, a, q.request)
        <5>1. q.request = [method |-> m, path |-> t, version |-> v, headers |-> q.request.headers]
          BY <4>2, <4>3, <4>5, HeaderIs
        <5> QED BY <3>1, <4>4, <5>1, Zenon DEF Opened
      <4>7. HasHeaders(s, a, d, q.request)
        BY <3>1, <3>3, <4>2, <4>3, HeaderIs DEF HasHeaders
      <4>8. \A j \in Service!Blanks(s, a) : d <= j
        BY <2>1, <2>4, <2>8, <3>2, <3>5, <3>6, <3>8
      <4>9. AmongHeaders(s, a, d, q)
        BY <3>4, <4>2, <4>6, <4>7, <4>8 DEF AmongHeaders
      <4>10. Tracks(s, a, d, q)
        BY <2>6, <3>1, <4>1, <4>2, <4>9 DEF Tracks
      <4> QED BY <2>5, <4>10
    <3> QED BY <3>7, <3>8
  <2> QED BY <1>1, <2>10, <2>11
<1> QED BY <1>8, <1>9

\* So does the loop, which ends.
LEMMA ParseTracks ==
    ASSUME NEW s \in Seq(STRING), NEW a \in Nat, NEW c, NEW p, Tracks(s, a, c, p)
    PROVE  \E d : Tracks(s, a, d, ParseContent(p)) /\ ~ParseContent(p).linemore
<1> DEFINE N == MaxRounds(p)
           R == Rounds(p)
<1>1. c \in a..Len(s) /\ Len(s) \in Nat /\ c \in 0..Len(s) /\ p.input = SubSeq(s, c + 1, Len(s))
  BY DEF Tracks, Boundary
<1>2. N \in Nat /\ c + N = Len(s) + 1
  <2>1. Len(p.input) = Len(s) - c
    BY <1>1, RestIs
  <2> QED BY <1>1, <2>1 DEF MaxRounds
<1>3. R[0] = p /\ \A n \in 0..N : n # 0 => R[n] = Round(R[n - 1])
  BY <1>2, RoundsAre
<1>4. ParseContent(p) = R[N]
  BY DEF ParseContent
<1> HIDE DEF N, R
<1> DEFINE After(n) == \E d : Tracks(s, a, d, R[n]) /\ (R[n].linemore => c + n <= d)
           T == {n \in 0..N : ~After(n)}
<1>5. T = {}
  <2>1. SUFFICES ASSUME T # {} PROVE FALSE
    OBVIOUS
  <2>2. PICK n \in T : \A k \in T : n <= k
    <3>1. T \subseteq Nat
      OBVIOUS
    <3> HIDE DEF T
    <3> QED BY <2>1, <3>1, LeastNat
  <2>3. n \in 0..N /\ ~After(n)
    OBVIOUS
  <2>4. n # 0
    <3>1. Tracks(s, a, c, R[0]) /\ c <= c + 0
      BY <1>1, <1>3
    <3>2. After(0)
      BY <1>1, <3>1
    <3> HIDE DEF After
    <3> QED BY <2>3, <3>2
  <2>5. n - 1 \in 0..N /\ ~(n <= n - 1) /\ n \in Nat
    BY <1>2, <2>3, <2>4
  <2>6. After(n - 1)
    <3> HIDE DEF After
    <3> QED BY <2>2, <2>5
  <2>7. PICK d : Tracks(s, a, d, R[n - 1]) /\ (R[n - 1].linemore => c + (n - 1) <= d)
    BY <2>6
  <2>8. R[n] = Round(R[n - 1])
    BY <1>3, <2>3, <2>4
  <2>9. d \in a..Len(s)
    BY <2>7 DEF Tracks, Boundary
  <2>10. CASE R[n - 1].linemore
    <3>1. R[n] = ParseLine(R[n - 1])
      BY <2>8, <2>10 DEF Round
    <3>2. PICK e : Tracks(s, a, e, R[n]) /\ (R[n].linemore => d < e)
      BY <2>7, <2>10, <3>1, ParseLineTracks
    <3>3. e \in a..Len(s)
      BY <3>2 DEF Tracks, Boundary
    <3>4. R[n].linemore => c + n <= e
      BY <1>1, <2>5, <2>7, <2>9, <2>10, <3>2, <3>3
    <3> QED BY <2>3, <3>2, <3>4
  <2>11. CASE ~R[n - 1].linemore
    <3>1. R[n] = R[n - 1]
      BY <2>8, <2>11 DEF Round
    <3> QED BY <2>3, <2>7, <2>11, <3>1
  <2> QED BY <2>10, <2>11
<1>6. After(N)
  <2>1. N \in 0..N
    BY <1>2
  <2> HIDE DEF After
  <2> QED BY <1>5, <2>1
<1>7. PICK d : Tracks(s, a, d, R[N]) /\ (R[N].linemore => c + N <= d)
  BY <1>6
<1>8. d \in a..Len(s)
  BY <1>7 DEF Tracks, Boundary
<1>9. ~R[N].linemore
  BY <1>1, <1>2, <1>7, <1>8
<1> QED BY <1>4, <1>7, <1>9

-----------------------------------------------------------------------------
(* What is known of a stream stays so when more of it is read.             *)

\* t begins with s.
Extends(s, t) == Len(s) <= Len(t) /\ \A i \in 1..Len(s) : t[i] = s[i]

\* The lines that end before a place are the same ones.
LEMMA SameLines ==
    ASSUME NEW s \in Seq(STRING), NEW t \in Seq(STRING), Extends(s, t),
           NEW a \in Nat, NEW c \in 0..Len(s)
    PROVE  /\ \A i \in Nat : i < c =>
                 (i \in Service!LineEnds(t, a) <=> i \in Service!LineEnds(s, a))
           /\ \A i \in Service!LineEnds(s, a) : i < c =>
                 Service!LineText(t, a, i) = Service!LineText(s, a, i)
<1>1. Len(s) \in Nat /\ Len(t) \in Nat /\ Len(s) <= Len(t) /\ c \in Nat /\ c <= Len(s)
  BY DEF Extends
<1>2. ASSUME NEW i \in Nat, i < c
      PROVE  i \in Service!LineEnds(t, a) <=> i \in Service!LineEnds(s, a)
  <2>1. i \in a + 1 .. Len(t) - 1 <=> i \in a + 1 .. Len(s) - 1
    BY <1>1, <1>2
  <2>2. ASSUME i \in a + 1 .. Len(s) - 1 PROVE t[i] = s[i] /\ t[i + 1] = s[i + 1]
    <3>1. i \in 1..Len(s) /\ i + 1 \in 1..Len(s)
      BY <1>1, <2>2
    <3> QED BY <3>1 DEF Extends
  <2> QED BY <2>1, <2>2 DEF Service!LineEnds
<1>3. Service!LineEnds(s, a) \subseteq a + 1 .. Len(s) - 1 /\ Service!LineEnds(s, a) \subseteq Nat
  BY <1>1 DEF Service!LineEnds
<1>4. Service!LineEnds(t, a) \subseteq Nat
  BY <1>1 DEF Service!LineEnds
<1>5. ASSUME NEW i \in Service!LineEnds(s, a), i < c
      PROVE  Service!LineText(t, a, i) = Service!LineText(s, a, i)
  <2>1. PICK before : before = {j \in Service!LineEnds(s, a) : j < i}
    OBVIOUS
  <2>2. before = {j \in Service!LineEnds(t, a) : j < i}
    BY <1>1, <1>2, <1>3, <1>4, <1>5, <2>1
  <2>3. /\ Service!LineStart(s, a, i) = IF before = {} THEN a + 1 ELSE Service!Max(before) + 2
        /\ Service!LineStart(t, a, i) = IF before = {} THEN a + 1 ELSE Service!Max(before) + 2
    BY <2>1, <2>2 DEF Service!LineStart
  <2>4. before # {} => Service!Max(before) \in before
    <3>1. before \subseteq 0..Len(s)
      BY <1>1, <1>3, <2>1
    <3> QED BY <1>1, <3>1, MaxIs
  <2>5. before # {} => Service!Max(before) \in Nat /\ Service!Max(before) < i
    BY <1>3, <2>1, <2>4
  <2>6. Service!LineStart(s, a, i) \in 1..Len(s)
    <3>1. i \in Nat /\ i < Len(s) /\ a + 1 <= i
      BY <1>1, <1>3, <1>5
    <3> QED BY <1>1, <2>3, <2>5, <3>1
  <2>7. PICK start : start = Service!LineStart(s, a, i)
    OBVIOUS
  <2>8. start = Service!LineStart(t, a, i) /\ t[start] = s[start]
    BY <2>3, <2>6, <2>7 DEF Extends
  <2> QED BY <2>7, <2>8 DEF Service!LineText
<1> QED BY <1>2, <1>5

\* So is the request that has been begun.
LEMMA SameRequest ==
    ASSUME NEW s \in Seq(STRING), NEW t \in Seq(STRING), Extends(s, t),
           NEW a \in Nat, NEW c \in 0..Len(s),
           Service!LineEnds(s, a) # {}, Service!FirstEnd(s, a) < c,
           \A i \in Service!Blanks(s, a) : c <= i
    PROVE  /\ Service!LineEnds(t, a) # {}
           /\ Service!FirstEnd(t, a) = Service!FirstEnd(s, a)
           /\ Service!RequestLine(t, a) = Service!RequestLine(s, a)
           /\ \A i \in Service!Blanks(t, a) : c <= i
           /\ Service!Asked(t, a, c) = Service!Asked(s, a, c)
<1>1. Len(s) \in Nat /\ Len(t) \in Nat /\ c \in Nat
  OBVIOUS
<1>2. /\ Service!LineEnds(s, a) \subseteq 0..Len(s) /\ Service!LineEnds(s, a) \subseteq Nat
      /\ Service!LineEnds(t, a) \subseteq Nat
  BY <1>1 DEF Service!LineEnds
<1>3. /\ \A i \in Nat : i < c =>
            (i \in Service!LineEnds(t, a) <=> i \in Service!LineEnds(s, a))
      /\ \A i \in Service!LineEnds(s, a) : i < c =>
            Service!LineText(t, a, i) = Service!LineText(s, a, i)
  BY SameLines
<1>4. PICK e : e = Service!FirstEnd(s, a)
  OBVIOUS
<1>5. e \in Service!LineEnds(s, a) /\ \A i \in Service!LineEnds(s, a) : e <= i
  BY <1>2, <1>4, MinIs DEF Service!FirstEnd
<1>6. e \in Service!LineEnds(t, a) /\ e \in Nat /\ e < c
  BY <1>2, <1>3, <1>4, <1>5
<1>7. Service!FirstEnd(t, a) = e
  <2>1. /\ Service!FirstEnd(t, a) \in Service!LineEnds(t, a)
        /\ \A i \in Service!LineEnds(t, a) : Service!FirstEnd(t, a) <= i
    BY <1>2, <1>6, MinIs DEF Service!FirstEnd
  <2>2. Service!FirstEnd(t, a) \in Nat /\ Service!FirstEnd(t, a) <= e
    BY <1>2, <1>6, <2>1
  <2>3. Service!FirstEnd(t, a) \in Service!LineEnds(s, a)
    BY <1>1, <1>3, <1>6, <2>1, <2>2
  <2> QED BY <1>5, <1>6, <2>2, <2>3
<1>8. Service!RequestLine(t, a) = Service!RequestLine(s, a)
  BY <1>3, <1>4, <1>5, <1>6, <1>7 DEF Service!RequestLine
<1>9. ASSUME NEW i \in Service!Blanks(t, a) PROVE c <= i
  <2>1. SUFFICES ASSUME i < c PROVE FALSE
    <3>1. i \in Nat
      BY <1>2 DEF Service!Blanks
    <3> QED BY <1>1, <3>1
  <2>2. i \in Service!LineEnds(t, a) /\ i \in Nat /\ e < i /\ Key[Service!LineText(t, a, i)] = NoColon
    BY <1>2, <1>7 DEF Service!Blanks
  <2>3. i \in Service!Blanks(s, a)
    BY <1>3, <1>4, <2>1, <2>2 DEF Service!Blanks
  <2> QED BY <1>1, <2>1, <2>2, <2>3
<1>10. PICK given : given = Service!Given(s, a, c)
  OBVIOUS
<1>11. given = Service!Given(t, a, c)
  <2>1. given = {i \in Service!LineEnds(s, a) :
                    e < i /\ i < c /\ Key[Service!LineText(s, a, i)] = "Connection"}
    BY <1>4, <1>10 DEF Service!Given
  <2>2. Service!Given(t, a, c) =
           {i \in Service!LineEnds(t, a) :
               e < i /\ i < c /\ Key[Service!LineText(t, a, i)] = "Connection"}
    BY <1>7 DEF Service!Given
  <2>3. ASSUME NEW i \in Service!LineEnds(t, a), i < c
        PROVE  i \in Service!LineEnds(s, a) /\
               Service!LineText(t, a, i) = Service!LineText(s, a, i)
    BY <1>2, <1>3, <2>3
  <2>4. ASSUME NEW i \in Service!LineEnds(s, a), i < c
        PROVE  i \in Service!LineEnds(t, a) /\
               Service!LineText(t, a, i) = Service!LineText(s, a, i)
    BY <1>2, <1>3, <2>4
  <2>5. ASSUME NEW i \in given PROVE i \in Service!Given(t, a, c)
    <3>1. i \in Service!LineEnds(s, a) /\ e < i /\ i < c
          /\ Key[Service!LineText(s, a, i)] = "Connection"
      BY <2>1
    <3>2. i \in Service!LineEnds(t, a) /\ Key[Service!LineText(t, a, i)] = "Connection"
      BY <2>4, <3>1
    <3> QED BY <2>2, <3>1, <3>2
  <2>6. ASSUME NEW i \in Service!Given(t, a, c) PROVE i \in given
    <3>1. i \in Service!LineEnds(t, a) /\ e < i /\ i < c
          /\ Key[Service!LineText(t, a, i)] = "Connection"
      BY <2>2
    <3>2. i \in Service!LineEnds(s, a) /\ Key[Service!LineText(s, a, i)] = "Connection"
      BY <2>3, <3>1
    <3> QED BY <2>1, <3>1, <3>2
  <2> QED BY <2>5, <2>6
<1>12. Service!Asked(t, a, c) = Service!Asked(s, a, c)
  <2>1. given # {} => Service!Max(given) \in given
    <3>1. given \subseteq 0..Len(s)
      BY <1>2, <1>10 DEF Service!Given
    <3> QED BY <1>1, <3>1, MaxIs
  <2>2. given # {} =>
           Service!LineText(t, a, Service!Max(given)) = Service!LineText(s, a, Service!Max(given))
    BY <1>3, <1>10, <2>1 DEF Service!Given
  <2>3. Service!Asked(s, a, c) =
           IF given = {} THEN "" ELSE Value[Service!LineText(s, a, Service!Max(given))]
    BY <1>10 DEF Service!Asked
  <2>4. Service!Asked(t, a, c) =
           IF given = {} THEN "" ELSE Value[Service!LineText(t, a, Service!Max(given))]
    BY <1>11 DEF Service!Asked
  <2>5. CASE given = {}
    BY <2>3, <2>4, <2>5
  <2>6. CASE given # {}
    <3>1. Service!Asked(s, a, c) = Value[Service!LineText(s, a, Service!Max(given))]
      BY <2>3, <2>6
    <3>2. Service!Asked(t, a, c) = Value[Service!LineText(t, a, Service!Max(given))]
      BY <2>4, <2>6
    <3> QED BY <2>2, <2>6, <3>1, <3>2
  <2> QED BY <2>5, <2>6
<1> QED BY <1>4, <1>6, <1>7, <1>8, <1>9, <1>12

\* What is left of a stream that goes on.
LEMMA RestMore ==
    ASSUME NEW s \in Seq(STRING), NEW chunk \in Seq(STRING), NEW c \in 0..Len(s),
           NEW input, input = SubSeq(s, c + 1, Len(s))
    PROVE  input \o chunk = SubSeq(s \o chunk, c + 1, Len(s \o chunk))
<1>1. PICK t : t = s \o chunk
  OBVIOUS
<1>2. /\ t \in Seq(STRING) /\ Len(t) = Len(s) + Len(chunk)
      /\ \A i \in 1 .. Len(s) + Len(chunk) :
            t[i] = IF i <= Len(s) THEN s[i] ELSE chunk[i - Len(s)]
  BY <1>1, ConcatProperties
<1>3. /\ Len(s) \in Nat /\ Len(chunk) \in Nat /\ Len(t) \in Nat /\ Len(s) <= Len(t)
      /\ c \in Nat /\ c <= Len(s) /\ c \in 0..Len(t)
  BY <1>2
<1>4. /\ input \in Seq(STRING) /\ Len(input) = Len(s) - c
      /\ \A i \in 1 .. Len(s) - c : input[i] = s[c + i]
  BY RestIs
<1>5. PICK u, v : u = input \o chunk /\ v = SubSeq(t, c + 1, Len(t))
  OBVIOUS
<1>6. /\ u \in Seq(STRING) /\ Len(u) = Len(input) + Len(chunk)
      /\ \A i \in 1 .. Len(input) + Len(chunk) :
            u[i] = IF i <= Len(input) THEN input[i] ELSE chunk[i - Len(input)]
  BY <1>4, <1>5, ConcatProperties
<1>7. /\ v \in Seq(STRING) /\ Len(v) = Len(t) - c
      /\ \A i \in 1 .. Len(t) - c : v[i] = t[c + i]
  BY <1>2, <1>3, <1>5, RestIs
<1>8. Len(u) = Len(v)
  BY <1>2, <1>3, <1>4, <1>6, <1>7
<1>9. ASSUME NEW i \in 1..Len(u) PROVE u[i] = v[i]
  <2>1. PICK k : k = c + i
    OBVIOUS
  <2>2. /\ i \in 1 .. Len(input) + Len(chunk) /\ i \in 1 .. Len(t) - c
        /\ k \in 1 .. Len(s) + Len(chunk) /\ i \in Nat
    BY <1>2, <1>3, <1>4, <1>6, <2>1
  <2>3. v[i] = t[k]
    BY <1>7, <2>1, <2>2
  <2>4. CASE i <= Len(input)
    <3>1. k <= Len(s) /\ i \in 1 .. Len(s) - c
      BY <1>3, <1>4, <2>1, <2>2, <2>4
    <3>2. u[i] = input[i] /\ input[i] = s[k] /\ t[k] = s[k]
      BY <1>2, <1>4, <1>6, <2>1, <2>2, <2>4, <3>1
    <3> QED BY <2>3, <3>2
  <2>5. CASE ~(i <= Len(input))
    <3>1. ~(k <= Len(s)) /\ i - Len(input) = k - Len(s)
      <4>1. PICK m, n : m = Len(input) /\ n = Len(s)
        OBVIOUS
      <4>2. m = n - c /\ i \in Nat /\ ~(i <= m) /\ n \in Nat /\ c \in Nat /\ k = c + i
        BY <1>3, <1>4, <2>1, <2>2, <2>5, <4>1
      <4>3. ~(k <= n) /\ i - m = k - n
        BY <4>2
      <4> QED BY <4>1, <4>3
    <3>2. u[i] = chunk[i - Len(input)]
      BY <1>6, <2>2, <2>5
    <3>3. t[k] = chunk[k - Len(s)]
      BY <1>2, <2>2, <3>1
    <3> QED BY <2>3, <3>1, <3>2, <3>3
  <2> QED BY <2>4, <2>5
<1>10. u = v
  BY <1>6, <1>7, <1>8, <1>9, SeqEqual
<1> QED BY <1>1, <1>5, <1>10

\* What a parser knows of a stream it knows of one that goes on.
LEMMA TracksMore ==
    ASSUME NEW s \in Seq(STRING), NEW chunk \in Seq(STRING), NEW a \in Nat, NEW c,
           NEW input, NEW state, NEW request,
           Tracks(s, a, c, Parser(input, state, request, TRUE, TRUE))
    PROVE  Tracks(s \o chunk, a, c, Parser(input \o chunk, state, request, TRUE, TRUE))
<1>1. PICK t, p, q :
         /\ t = s \o chunk
         /\ p = Parser(input, state, request, TRUE, TRUE)
         /\ q = Parser(input \o chunk, state, request, TRUE, TRUE)
  OBVIOUS
<1>2. /\ p.input = input /\ p.state = state /\ p.request = request
      /\ p.linemore = TRUE /\ p.parseok = TRUE
      /\ q.input = input \o chunk /\ q.state = state /\ q.request = request
      /\ q.linemore = TRUE /\ q.parseok = TRUE
  BY <1>1 DEF Parser
<1>3. Tracks(s, a, c, p)
  BY <1>1
<1>4. /\ Boundary(s, a, c) /\ input = SubSeq(s, c + 1, Len(s))
      /\ AtRequestLine(s, a, c, p) \/ AmongHeaders(s, a, c, p)
  BY <1>2, <1>3 DEF Tracks
<1>5. /\ t \in Seq(STRING) /\ Len(t) = Len(s) + Len(chunk)
      /\ \A i \in 1 .. Len(s) + Len(chunk) :
            t[i] = IF i <= Len(s) THEN s[i] ELSE chunk[i - Len(s)]
  BY <1>1, ConcatProperties
<1>6. Len(s) \in Nat /\ Len(chunk) \in Nat /\ Len(t) \in Nat /\ Len(s) <= Len(t)
  BY <1>5
<1>7. Extends(s, t)
  <2>1. ASSUME NEW i \in 1..Len(s) PROVE t[i] = s[i]
    <3>1. i \in 1 .. Len(s) + Len(chunk) /\ i <= Len(s)
      BY <1>6
    <3> QED BY <1>5, <3>1
  <2> QED BY <1>6, <2>1 DEF Extends
<1>8. c \in a..Len(s) /\ c \in 0..Len(s) /\ c \in 0..Len(t) /\ c \in a..Len(t) /\ c \in Nat
  BY <1>4, <1>6 DEF Boundary
<1>9. input \o chunk = SubSeq(t, c + 1, Len(t))
  BY <1>1, <1>4, <1>8, RestMore
<1>10. Boundary(t, a, c)
  <2>1. c - 1 \in Service!LineEnds(s, a) => c - 1 \in Service!LineEnds(t, a)
    <3>1. c - 1 \in Service!LineEnds(s, a) => c - 1 \in Nat /\ c - 1 < c
      BY <1>8 DEF Service!LineEnds
    <3> QED BY <1>5, <1>7, <1>8, <3>1, SameLines
  <2> QED BY <1>4, <1>8, <2>1 DEF Boundary
<1>11. AtRequestLine(t, a, c, q) \/ AmongHeaders(t, a, c, q)
  <2>1. CASE AtRequestLine(s, a, c, p)
    BY <1>2, <2>1 DEF AtRequestLine
  <2>2. CASE AmongHeaders(s, a, c, p)
    <3>1. /\ state = "kParseHeaders" /\ Opened(s, a, request) /\ HasHeaders(s, a, c, request)
          /\ Service!FirstEnd(s, a) < c /\ \A j \in Service!Blanks(s, a) : c <= j
      BY <1>2, <2>2 DEF AmongHeaders
    <3>2. Service!LineEnds(s, a) # {}
      BY <3>1 DEF Opened
    <3>3. /\ Service!LineEnds(t, a) # {}
          /\ Service!FirstEnd(t, a) = Service!FirstEnd(s, a)
          /\ Service!RequestLine(t, a) = Service!RequestLine(s, a)
          /\ \A i \in Service!Blanks(t, a) : c <= i
          /\ Service!Asked(t, a, c) = Service!Asked(s, a, c)
      BY <1>5, <1>7, <1>8, <3>1, <3>2, SameRequest
    <3>4. Opened(t, a, request) /\ HasHeaders(t, a, c, request)
      BY <3>1, <3>3 DEF Opened, HasHeaders
    <3> QED BY <1>2, <3>1, <3>3, <3>4 DEF AmongHeaders
  <2> QED BY <1>4, <2>1, <2>2
<1>12. Tracks(t, a, c, q)
  BY <1>1, <1>2, <1>9, <1>10, <1>11 DEF Tracks
<1> QED BY <1>1, <1>12

-----------------------------------------------------------------------------
(* What the parser ends with is what the service says.                     *)

\* A whole request gets the service's answer, and leaves the stream at its end.
LEMMA GotRequestIs ==
    ASSUME NEW s \in Seq(STRING), NEW a \in Nat, NEW c, NEW p,
           Boundary(s, a, c), GotRequest(s, a, c, p)
    PROVE  /\ Service!Complete(s, a) /\ ~Service!Fatal(Service!RequestLine(s, a))
           /\ Service!RequestEnd(s, a) = c
           /\ Service!Answer(s, a) = AppendToBuffer(Response(p.request))
           /\ Response(p.request).close \in BOOLEAN
           /\ Response(p.request).close <=> Service!Answer(s, a).length = {}
<1>1. PICK line, words, request :
         line = Service!RequestLine(s, a) /\ words = Words[line] /\ request = p.request
  OBVIOUS
<1>2. /\ Service!LineEnds(s, a) # {} /\ Service!IsRequest(line)
      /\ request = [method |-> words[1], path |-> PathOf[words[2]], version |-> words[3],
                    headers |-> request.headers]
      /\ HasHeaders(s, a, c - 1, request)
      /\ c - 1 \in Service!Blanks(s, a)
      /\ \A i \in Service!Blanks(s, a) : c - 1 <= i
  BY <1>1 DEF GotRequest, Opened
<1>3. c \in Nat /\ Service!Blanks(s, a) \subseteq Nat
  BY DEF Boundary, Service!Blanks, Service!LineEnds
<1>4. Service!HeaderEnd(s, a) = c - 1
  <2>1. /\ Service!HeaderEnd(s, a) \in Service!Blanks(s, a)
        /\ \A i \in Service!Blanks(s, a) : Service!HeaderEnd(s, a) <= i
    BY <1>2, <1>3, MinIs DEF Service!HeaderEnd
  <2> QED BY <1>2, <1>3, <2>1
<1>5. Service!RequestEnd(s, a) = c
  BY <1>1, <1>2, <1>3, <1>4 DEF Service!RequestEnd
<1>6. Service!Complete(s, a) /\ ~Service!Fatal(line)
  BY <1>1, <1>2 DEF Service!Complete, Service!IsRequest
<1>7. PICK asked, closes :
         /\ asked = Service!Asked(s, a, c - 1)
         /\ closes = (asked = "Close" \/ (words[3] = "HTTP/1.0" /\ asked # "Keep-Alive"))
  OBVIOUS
<1>8. request.method = words[1] /\ request.path = PathOf[words[2]] /\ request.version = words[3]
  BY <1>2
<1>9. Response(request) = HttpResponseCallback(request, closes)
  BY <1>2, <1>7, <1>8, Zenon DEF Response, HasHeaders
<1>10. Service!Answer(s, a) =
          IF words[1] # "GET" THEN Service!Refusal
          ELSE IF PathOf[words[2]] \notin DOMAIN Pages
               THEN [status |-> 404, body |-> "", length |-> {}]
          ELSE [status |-> 200, body |-> PathOf[words[2]],
                length |-> IF closes THEN {} ELSE {Pages[PathOf[words[2]]]}]
  BY <1>1, <1>2, <1>4, <1>7, ZenonT(30) DEF Service!Answer
<1>11. PICK response, answer : response = Response(request) /\ answer = Service!Answer(s, a)
  OBVIOUS
<1>12. SUFFICES /\ answer = AppendToBuffer(response)
                /\ response.close \in BOOLEAN
                /\ response.close <=> answer.length = {}
  <2>1. response = Response(p.request)
    BY <1>1, <1>11
  <2> QED BY <1>1, <1>5, <1>6, <1>11, <2>1
<1>13. CASE words[1] # "GET"
  <2>1. response = [status |-> 400, body |-> "", close |-> TRUE]
    BY <1>8, <1>9, <1>11, <1>13 DEF HttpResponseCallback
  <2>2. answer = [status |-> 400, body |-> "", length |-> {}]
    BY <1>10, <1>11, <1>13 DEF Service!Refusal
  <2>3. /\ response.close = TRUE /\ response.status = 400 /\ response.body = ""
        /\ answer.length = {}
    BY <2>1, <2>2
  <2> QED BY <2>2, <2>3 DEF AppendToBuffer
<1>14. CASE words[1] = "GET" /\ PathOf[words[2]] \notin DOMAIN Pages
  <2>1. response = [status |-> 404, body |-> "", close |-> TRUE]
    <3>1. request.method = "GET" /\ request.path \notin DOMAIN Pages
      BY <1>8, <1>14
    <3> QED BY <1>9, <1>11, <3>1 DEF HttpResponseCallback
  <2>2. answer = [status |-> 404, body |-> "", length |-> {}]
    BY <1>10, <1>11, <1>14
  <2>3. /\ response.close = TRUE /\ response.status = 404 /\ response.body = ""
        /\ answer.length = {}
    BY <2>1, <2>2
  <2> QED BY <2>2, <2>3 DEF AppendToBuffer
<1>15. CASE words[1] = "GET" /\ PathOf[words[2]] \in DOMAIN Pages
  <2>1. PICK body : body = PathOf[words[2]]
    OBVIOUS
  <2>2. response = [status |-> 200, body |-> body, close |-> closes]
    BY <1>8, <1>9, <1>11, <1>15, <2>1 DEF HttpResponseCallback
  <2>3. answer = [status |-> 200, body |-> body,
                  length |-> IF closes THEN {} ELSE {Pages[body]}]
    BY <1>10, <1>11, <1>15, <2>1
  <2>4. CASE closes = TRUE
    <3>1. response.close = TRUE /\ response.status = 200 /\ response.body = body
      BY <2>2, <2>4
    <3>2. answer = [status |-> 200, body |-> body, length |-> {}]
      BY <2>3, <2>4
    <3>3. answer.length = {}
      BY <3>2
    <3> QED BY <3>1, <3>2, <3>3 DEF AppendToBuffer
  <2>5. CASE closes = FALSE
    <3>1. response.close = FALSE /\ response.status = 200 /\ response.body = body
      BY <2>2, <2>5
    <3>2. answer = [status |-> 200, body |-> body, length |-> {Pages[body]}]
      BY <2>3, <2>5
    <3>3. answer.length # {}
      BY <3>2
    <3> QED BY <3>1, <3>2, <3>3 DEF AppendToBuffer
  <2>6. closes \in BOOLEAN
    BY <1>7
  <2> QED BY <2>4, <2>5, <2>6
<1> QED BY <1>13, <1>14, <1>15

\* What is no request gets the refusal.
LEMMA GotNoneIs ==
    ASSUME NEW s \in Seq(STRING), NEW a \in Nat, NEW c, NEW p,
           Boundary(s, a, c), GotNone(s, a, c, p)
    PROVE  /\ Service!Complete(s, a) /\ ~Service!Fatal(Service!RequestLine(s, a))
           /\ Service!RequestEnd(s, a) = c
           /\ Service!Answer(s, a) = BadRequest
           /\ BadRequest.length = {}
<1>1. c \in Nat /\ c - 1 = Service!FirstEnd(s, a) /\ Service!LineEnds(s, a) # {}
      /\ ~Service!Fatal(Service!RequestLine(s, a))
      /\ ~Service!IsRequest(Service!RequestLine(s, a))
  BY DEF Boundary, GotNone
<1>2. Service!RequestEnd(s, a) = c
  BY <1>1 DEF Service!RequestEnd
<1>3. Service!Answer(s, a) = Service!Refusal
  BY <1>1 DEF Service!Answer
<1> QED BY <1>1, <1>2, <1>3 DEF Service!Complete, Service!Refusal, BadRequest

\* What kills the server is due as soon as its line has been read.
LEMMA GotFatalIs ==
    ASSUME NEW s, NEW a, NEW c, NEW p, GotFatal(s, a, c, p)
    PROVE  Service!Complete(s, a) /\ Service!Fatal(Service!RequestLine(s, a))
BY DEF GotFatal, Service!Complete, Service!IsRequest

\* A parser that waits for a line waits for what the service has not got yet.
LEMMA GotNothingIs ==
    ASSUME NEW s \in Seq(STRING), NEW a \in Nat, NEW c, NEW p, Boundary(s, a, c),
           p.input = SubSeq(s, c + 1, Len(s)), FindCRLF(p.input) = 0,
           AtRequestLine(s, a, c, p) \/ AmongHeaders(s, a, c, p)
    PROVE  ~Service!Complete(s, a)
<1>1. \A i \in Service!LineEnds(s, a) : i < c
  BY NextLine
<1>2. c \in Nat /\ Service!LineEnds(s, a) \subseteq Nat
      /\ \A i \in Service!LineEnds(s, a) : a + 1 <= i
  BY DEF Boundary, Service!LineEnds
<1>3. CASE AtRequestLine(s, a, c, p)
  <2>1. Service!LineEnds(s, a) = {}
    BY <1>1, <1>2, <1>3 DEF AtRequestLine
  <2> QED BY <2>1 DEF Service!Complete
<1>4. CASE AmongHeaders(s, a, c, p)
  <2>1. Service!IsRequest(Service!RequestLine(s, a))
    BY <1>4 DEF AmongHeaders, Opened
  <2>2. Service!Blanks(s, a) = {}
    <3>1. ASSUME NEW i \in Service!Blanks(s, a) PROVE FALSE
      <4>1. i \in Service!LineEnds(s, a) /\ c <= i
        BY <1>4 DEF AmongHeaders, Service!Blanks
      <4> QED BY <1>1, <1>2, <4>1
    <3> QED BY <3>1
  <2> QED BY <2>1, <2>2 DEF Service!Complete
<1> QED BY <1>3, <1>4

\* A parser that waits has a method only from a request line.
LEMMA MethodIs ==
    ASSUME NEW s, NEW a, NEW c, NEW p, AtRequestLine(s, a, c, p) \/ AmongHeaders(s, a, c, p)
    PROVE  p.request.method \in Methods \cup {""}
<1>1. CASE AtRequestLine(s, a, c, p)
  <2>1. PICK request : request = p.request
    OBVIOUS
  <2>2. request = [method |-> "", path |-> "", version |-> "", headers |-> <<>>]
    BY <1>1, <2>1 DEF AtRequestLine, NewRequest
  <2>3. request.method = ""
    BY <2>2
  <2> QED BY <2>1, <2>3
<1>2. CASE AmongHeaders(s, a, c, p)
  <2>1. PICK line, words, headers :
           /\ line = Service!RequestLine(s, a) /\ words = Words[line]
           /\ headers = p.request.headers
    OBVIOUS
  <2>2. /\ Service!IsRequest(line)
        /\ p.request = [method |-> words[1], path |-> PathOf[words[2]], version |-> words[3],
                        headers |-> headers]
    BY <1>2, <2>1, Zenon DEF AmongHeaders, Opened
  <2>3. p.request.method = words[1]
    BY <2>2
  <2> QED BY <2>1, <2>2, <2>3 DEF Service!IsRequest, Service!IsMethod, Methods
<1> QED BY <1>1, <1>2

-----------------------------------------------------------------------------
(* The inductive invariant.                                                *)

\* How much of the stream has been taken from input_buffer_.
Read == Len(received) - Len(input_buffer_)

\* The parser of an open connection knows the request behind the answers given.
Parsing ==
    /\ ~killed /\ state_ = "kConnected"
    /\ Tracks(received, answered, Read,
              Parser(input_buffer_, parse_state_, request_, TRUE, TRUE))
    /\ parse_state_ = "kParseHeaders" => FindCRLF(input_buffer_) = 0

Closing ==
    ~killed /\ state_ = "kDisconnecting" /\ parse_state_ = "kParseRequestLine"

Killed == killed /\ state_ = "kConnected" /\ parse_state_ = "kParseRequestLine"

IInv ==
    /\ network \in Seq(STRING) /\ received \in Seq(STRING) /\ input_buffer_ \in Seq(STRING)
    /\ answered \in Nat
    /\ Read \in 0..Len(received) /\ input_buffer_ = SubSeq(received, Read + 1, Len(received))
    /\ \E S : sent \in Seq(S)
    /\ state_ = "kDisconnecting" <=> Service!Closed
    /\ request_.method \in Methods \cup {""}
    /\ killed \in BOOLEAN
    /\ Parsing \/ Closing \/ Killed

\* It holds at first.
LEMMA InitInv == Init => IInv /\ Service!Init
<1> SUFFICES ASSUME Init PROVE IInv /\ Service!Init
  OBVIOUS
<1> USE DEF Init
<1>1. network \in Seq(STRING) /\ received \in Seq(STRING) /\ input_buffer_ \in Seq(STRING)
  BY HttpAssumption DEF IsLines
<1>2. Read = 0
  BY DEF Read
<1>3. input_buffer_ = SubSeq(received, Read + 1, Len(received))
  BY <1>2
<1>4. sent \in Seq({})
  OBVIOUS
<1>5. state_ # "kDisconnecting" /\ ~Service!Closed /\ killed = FALSE
  BY DEF Service!Closed
<1>6. request_.method = ""
  BY DEF NewRequest
<1>7. Parsing
  <2>1. PICK p : p = Parser(input_buffer_, parse_state_, request_, TRUE, TRUE)
    OBVIOUS
  <2>2. /\ p.input = input_buffer_ /\ p.state = parse_state_ /\ p.request = request_
        /\ p.linemore = TRUE /\ p.parseok = TRUE
    BY <2>1 DEF Parser
  <2>3. Boundary(received, answered, Read)
    BY <1>2 DEF Boundary
  <2>4. AtRequestLine(received, answered, Read, p)
    BY <1>2, <2>2 DEF AtRequestLine
  <2>5. Tracks(received, answered, Read, p)
    BY <1>3, <2>1, <2>2, <2>3, <2>4 DEF Tracks
  <2> QED BY <1>5, <2>1, <2>5 DEF Parsing
<1>8. IInv
  <2>1. Read \in 0..Len(received)
    BY <1>2
  <2> QED BY <1>1, <1>3, <1>4, <1>5, <1>6, <1>7, <2>1 DEF IInv
<1> QED BY <1>8 DEF Service!Init

\* What a message appended is there at the end.
LEMMA AppendIs ==
    ASSUME NEW S, NEW messages \in Seq(S), NEW m
    PROVE  /\ \E U : Append(messages, m) \in Seq(U)
           /\ Append(messages, m) # <<>> /\ Service!Last(Append(messages, m)) = m
<1> DEFINE U == S \cup {m}
<1>1. messages \in Seq(U) /\ m \in U /\ Len(messages) \in Nat
  <2>1. Len(messages) \in Nat /\ \A i \in 1..Len(messages) : messages[i] \in U
    OBVIOUS
  <2> HIDE DEF U
  <2>2. messages = [i \in 1..Len(messages) |-> messages[i]]
    OBVIOUS
  <2>3. messages \in Seq(U)
    BY <2>1, <2>2
  <2> QED BY <2>1, <2>3 DEF U
<1> HIDE DEF U
<1>2. PICK all : all = Append(messages, m)
  OBVIOUS
<1>3. all \in Seq(U) /\ all # <<>> /\ Len(all) = Len(messages) + 1 /\ all[Len(messages) + 1] = m
  BY <1>1, <1>2, AppendProperties
<1>4. Service!Last(all) = m
  BY <1>3, Zenon DEF Service!Last
<1> QED BY <1>2, <1>3, <1>4

\* A parser that has answered starts anew behind the answer.
LEMMA Anew ==
    ASSUME NEW s \in Seq(STRING), NEW d \in 0..Len(s),
           NEW input, input = SubSeq(s, d + 1, Len(s))
    PROVE  Tracks(s, d, d, Parser(input, "kParseRequestLine", NewRequest, TRUE, TRUE))
<1>1. PICK p : p = Parser(input, "kParseRequestLine", NewRequest, TRUE, TRUE)
  OBVIOUS
<1>2. /\ p.input = input /\ p.state = "kParseRequestLine" /\ p.request = NewRequest
      /\ p.linemore = TRUE /\ p.parseok = TRUE
  BY <1>1 DEF Parser
<1>3. Boundary(s, d, d)
  BY DEF Boundary
<1>4. AtRequestLine(s, d, d, p)
  BY <1>2 DEF AtRequestLine
<1>5. Tracks(s, d, d, p)
  BY <1>1, <1>2, <1>3, <1>4 DEF Tracks
<1> QED BY <1>1, <1>5

\* What a parser that waits has kept is enough to go on with.
LEMMA Waits ==
    ASSUME NEW s, NEW a, NEW c, NEW p, Tracks(s, a, c, p),
           AtRequestLine(s, a, c, p) \/ AmongHeaders(s, a, c, p)
    PROVE  Tracks(s, a, c, Parser(p.input, p.state, p.request, TRUE, TRUE))
<1>1. PICK q : q = Parser(p.input, p.state, p.request, TRUE, TRUE)
  OBVIOUS
<1>2. /\ q.input = p.input /\ q.state = p.state /\ q.request = p.request
      /\ q.linemore = TRUE /\ q.parseok = TRUE
  BY <1>1 DEF Parser
<1>3. p.parseok
  BY DEF AtRequestLine, AmongHeaders
<1>4. AtRequestLine(s, a, c, q) \/ AmongHeaders(s, a, c, q)
  BY <1>2 DEF AtRequestLine, AmongHeaders
<1>5. Tracks(s, a, c, q)
  BY <1>1, <1>2, <1>4 DEF Tracks
<1> QED BY <1>1, <1>5

\* What a read does to the stream.
LEMMA ReadIs ==
    ASSUME network \in Seq(STRING), received \in Seq(STRING), NEW n \in 1..Len(network),
           NEW chunk, chunk = SubSeq(network, 1, n),
           network' = SubSeq(network, n + 1, Len(network)), received' = received \o chunk
    PROVE  /\ chunk \in Seq(STRING) /\ network' \in Seq(STRING) /\ received' \in Seq(STRING)
           /\ Len(received') = Len(received) + Len(chunk) /\ Len(received) <= Len(received')
           /\ Service!IsStrictPrefix(received, received')
<1>1. Len(network) \in Nat /\ Len(received) \in Nat /\ n \in Nat /\ 1 <= n /\ n <= Len(network)
      /\ n \in 0..Len(network)
  OBVIOUS
<1>2. chunk \in Seq(STRING) /\ Len(chunk) = n
  <2>1. \A i \in 1..n : network[i] \in STRING
    BY <1>1
  <2> QED BY <1>1, <2>1, SubSeqProperties
<1>3. network' \in Seq(STRING)
  BY <1>1, RestIs
<1>4. PICK t : t = received'
  OBVIOUS
<1>5. /\ t \in Seq(STRING) /\ Len(t) = Len(received) + Len(chunk)
      /\ \A i \in 1 .. Len(received) + Len(chunk) :
            t[i] = IF i <= Len(received) THEN received[i] ELSE chunk[i - Len(received)]
  BY <1>2, <1>4, ConcatProperties
<1>6. Len(received) <= Len(t) /\ received # t
  BY <1>1, <1>2, <1>5
<1>7. SubSeq(received, 1, Len(received)) = SubSeq(t, 1, Len(received))
  <2>1. PICK u, v : u = SubSeq(received, 1, Len(received)) /\ v = SubSeq(t, 1, Len(received))
    OBVIOUS
  <2>2. \A i \in 1..Len(received) : received[i] \in STRING /\ t[i] = received[i]
    BY <1>1, <1>2, <1>5
  <2>3. /\ u \in Seq(STRING) /\ Len(u) = Len(received)
        /\ \A i \in 1..Len(received) : u[i] = received[i]
    <3>1. /\ u \in Seq(STRING)
          /\ Len(u) = IF 1 <= Len(received) THEN Len(received) - 1 + 1 ELSE 0
          /\ \A i \in 1 .. Len(received) - 1 + 1 : u[i] = received[1 + i - 1]
      BY <1>1, <2>1, <2>2, SubSeqProperties
    <3> QED BY <1>1, <3>1
  <2>4. /\ v \in Seq(STRING) /\ Len(v) = Len(received)
        /\ \A i \in 1..Len(received) : v[i] = t[i]
    <3>1. /\ v \in Seq(STRING)
          /\ Len(v) = IF 1 <= Len(received) THEN Len(received) - 1 + 1 ELSE 0
          /\ \A i \in 1 .. Len(received) - 1 + 1 : v[i] = t[1 + i - 1]
      <4>1. \A i \in 1..Len(received) : t[i] \in STRING
        BY <2>2
      <4> QED BY <1>1, <2>1, <4>1, SubSeqProperties
    <3> QED BY <1>1, <3>1
  <2>5. u = v
    <3>1. Len(u) = Len(v) /\ \A i \in 1..Len(u) : u[i] = v[i]
      BY <2>2, <2>3, <2>4
    <3> QED BY <2>3, <2>4, <3>1, SeqEqual
  <2> QED BY <2>1, <2>5
<1>8. Service!IsStrictPrefix(received, t)
  BY <1>6, <1>7 DEF Service!IsStrictPrefix, Service!IsPrefix
<1> QED BY <1>2, <1>3, <1>4, <1>5, <1>6, <1>8

\* What MessageCallback parses of the stream read so far.
LEMMA ParsedIs ==
    ASSUME IInv, Parsing, NEW chunk \in Seq(STRING), received' = received \o chunk
    PROVE  /\ \E d : Tracks(received', answered, d, Parsed(chunk)) /\ ~Parsed(chunk).linemore
           /\ Tracks(received', answered, Read,
                     Parser(input_buffer_ \o chunk, parse_state_, request_, TRUE, TRUE))
<1>1. received \in Seq(STRING) /\ answered \in Nat
  BY DEF IInv
<1>2. PICK p : p = Parser(input_buffer_ \o chunk, parse_state_, request_, TRUE, TRUE)
  OBVIOUS
<1>3. Parsed(chunk) = ParseContent(p)
  BY <1>2 DEF Parsed, Parser
<1>4. PICK t, a : t = received \o chunk /\ a = answered
  OBVIOUS
<1>5. t \in Seq(STRING)
  BY <1>1, <1>4, ConcatProperties
<1>6. Tracks(t, a, Read, p)
  BY <1>1, <1>2, <1>4, TracksMore DEF Parsing
<1>7. \E d : Tracks(t, a, d, ParseContent(p)) /\ ~ParseContent(p).linemore
  BY <1>1, <1>4, <1>5, <1>6, ParseTracks
<1> QED BY <1>2, <1>3, <1>4, <1>6, <1>7

\* A connection that is being closed answers nothing more.
LEMMA IgnoreStep ==
    ASSUME IInv, NEW chunk \in Seq(STRING), received' = received \o chunk,
           received' \in Seq(STRING), network' \in Seq(STRING),
           Len(received') = Len(received) + Len(chunk), Ignore(chunk)
    PROVE  IInv' /\ Service!Closed /\ UNCHANGED <<answered, sent, killed>>
<1>1. /\ state_ = "kDisconnecting" /\ state_' = state_ /\ parse_state_' = parse_state_
      /\ request_' = request_ /\ sent' = sent /\ answered' = answered
      /\ input_buffer_' = input_buffer_ \o chunk /\ killed' = killed
  BY DEF Ignore
<1>2. /\ received \in Seq(STRING) /\ input_buffer_ \in Seq(STRING) /\ answered \in Nat
      /\ Read \in 0..Len(received) /\ input_buffer_ = SubSeq(received, Read + 1, Len(received))
      /\ \E S : sent \in Seq(S)
      /\ Service!Closed /\ request_.method \in Methods \cup {""}
      /\ Closing /\ killed = FALSE
  BY <1>1 DEF IInv, Parsing, Closing, Killed
<1>3. Len(received) \in Nat /\ Len(chunk) \in Nat /\ Len(input_buffer_) \in Nat
  <2>1. received \in Seq(STRING) /\ input_buffer_ \in Seq(STRING)
    BY <1>2
  <2> QED BY <2>1
<1>4. input_buffer_' \in Seq(STRING) /\ Len(input_buffer_') = Len(input_buffer_) + Len(chunk)
  <2>1. input_buffer_ \in Seq(STRING)
    BY <1>2
  <2> QED BY <1>1, <2>1, ConcatProperties
<1>5. PICK c : c = Read
  OBVIOUS
<1>6. c \in 0..Len(received) /\ input_buffer_ = SubSeq(received, c + 1, Len(received))
  BY <1>2, <1>5
<1>7. Read' = c /\ c \in 0..Len(received')
  <2>1. c = Len(received) - Len(input_buffer_) /\ Read' = Len(received') - Len(input_buffer_')
    BY <1>5 DEF Read
  <2>2. Read' = c
    BY <1>3, <1>4, <2>1
  <2>3. c \in Nat /\ c <= Len(received) /\ Len(received) + Len(chunk) \in Nat
    BY <1>3, <1>6
  <2>4. c <= Len(received) + Len(chunk)
    BY <1>3, <2>3
  <2> QED BY <2>2, <2>3, <2>4
<1>8. input_buffer_' = SubSeq(received', c + 1, Len(received'))
  <2>1. received \in Seq(STRING)
    BY <1>2
  <2>2. input_buffer_ \o chunk = SubSeq(received \o chunk, c + 1, Len(received \o chunk))
    BY <1>6, <2>1, RestMore, ZenonT(30)
  <2> QED BY <1>1, <2>2
<1>9. Service!Closed' /\ Closing'
  BY <1>1, <1>2 DEF Service!Closed, Closing
<1>10. (\E S : sent \in Seq(S))' /\ (request_.method \in Methods \cup {""})'
  BY <1>1, <1>2
<1>11. (state_ = "kDisconnecting" <=> Service!Closed)'
  BY <1>9 DEF Closing
<1>12. IInv'
  <2>1. /\ Read' \in 0..Len(received')
        /\ input_buffer_' = SubSeq(received', Read' + 1, Len(received'))
        /\ answered' \in Nat
    BY <1>1, <1>2, <1>7, <1>8
  <2>2. killed' \in BOOLEAN
    BY <1>1, <1>2
  <2> QED BY <1>4, <1>9, <1>10, <1>11, <2>1, <2>2 DEF IInv
<1> QED BY <1>1, <1>2, <1>12

\* An open one answers what has come to its end.
LEMMA ParseStep ==
    ASSUME IInv, NEW chunk \in Seq(STRING), received' = received \o chunk,
           received' \in Seq(STRING), network' \in Seq(STRING), ~killed, Parse(chunk),
           \/ Refuse(Parsed(chunk)) \/ DealWithRequest(Parsed(chunk))
           \/ AwaitMore(Parsed(chunk)) \/ Terminate(Parsed(chunk))
    PROVE  IInv' /\ (Service!Wait \/ Service!Reply \/ Service!Die)
<1>1. /\ Parsing /\ state_ = "kConnected" /\ ~Service!Closed
      /\ received \in Seq(STRING) /\ answered \in Nat /\ killed = FALSE
  BY DEF IInv, Closing, Killed, Parse, Parsing
<1>2. PICK T : sent \in Seq(T)
  BY DEF IInv
<1>3. PICK s, a, p : s = received' /\ a = answered /\ p = Parsed(chunk)
  OBVIOUS
<1>4. s \in Seq(STRING) /\ a \in Nat /\ Len(s) \in Nat
  BY <1>1, <1>3
<1>5. PICK d : Tracks(s, a, d, p) /\ ~p.linemore
  BY <1>1, <1>3, ParsedIs
<1>6. /\ Boundary(s, a, d) /\ p.input = SubSeq(s, d + 1, Len(s))
      /\ \/ (AtRequestLine(s, a, d, p) \/ AmongHeaders(s, a, d, p)) /\ FindCRLF(p.input) = 0
         \/ GotRequest(s, a, d, p)
         \/ GotNone(s, a, d, p)
         \/ GotFatal(s, a, d, p)
  BY <1>5, Zenon DEF Tracks
<1>7. d \in 0..Len(s) /\ d \in Nat
  BY <1>4, <1>6 DEF Boundary
<1>8. p.input \in Seq(STRING) /\ Len(p.input) = Len(s) - d
  BY <1>4, <1>6, <1>7, RestIs
<1>9. input_buffer_' = p.input
  BY <1>3 DEF Parse
<1>10. Read' = d /\ Len(received') - Len(input_buffer_') = d
  <2>1. Len(s) - Len(p.input) = d
    BY <1>4, <1>7, <1>8
  <2> QED BY <1>3, <1>9, <2>1 DEF Read
<1>11. /\ input_buffer_' \in Seq(STRING)
       /\ Read' \in 0..Len(received')
       /\ input_buffer_' = SubSeq(received', Read' + 1, Len(received'))
  BY <1>3, <1>6, <1>7, <1>8, <1>9, <1>10
<1>12. ASSUME NEW message, NEW close \in BOOLEAN, Send(message, close),
              message = Service!Answer(s, a), close <=> message.length = {},
              Service!Complete(s, a), ~Service!Fatal(Service!RequestLine(s, a)),
              Service!RequestEnd(s, a) = d,
              parse_state_' = "kParseRequestLine", request_' = NewRequest
       PROVE  IInv' /\ Service!Reply
  <2>1. /\ sent' = Append(sent, message) /\ answered' = d /\ killed' = FALSE
        /\ state_' = IF close THEN "kDisconnecting" ELSE "kConnected"
    BY <1>1, <1>10, <1>12 DEF Send
  <2>2. (\E S : sent \in Seq(S))' /\ sent' # <<>> /\ Service!Last(sent') = message
    BY <1>2, <2>1, AppendIs
  <2>3. Service!Closed' <=> message.length = {}
    BY <2>2 DEF Service!Closed
  <2>4. (state_ = "kDisconnecting" <=> Service!Closed)'
    BY <1>12, <2>1, <2>3
  <2>5. (request_.method \in Methods \cup {""})'
    <3>1. request_' = [method |-> "", path |-> "", version |-> "", headers |-> <<>>]
      BY <1>12 DEF NewRequest
    <3>2. request_'.method = ""
      BY <3>1
    <3> QED BY <3>2
  <2>6. (Parsing \/ Closing \/ Killed)'
    <3>1. CASE close
      BY <1>12, <2>1, <3>1 DEF Closing
    <3>2. CASE ~close
      <4>1. Tracks(s, d, d, Parser(p.input, "kParseRequestLine", NewRequest, TRUE, TRUE))
        BY <1>4, <1>6, <1>7, Anew
      <4>2. Parsing'
        BY <1>3, <1>9, <1>10, <1>12, <2>1, <3>2, <4>1 DEF Parsing
      <4> QED BY <4>2
    <3> QED BY <3>1, <3>2
  <2>7. answered' \in Nat
    BY <1>7, <2>1
  <2>8. IInv'
    BY <1>11, <2>1, <2>2, <2>4, <2>5, <2>6, <2>7 DEF IInv
  <2>9. Service!Reply
    BY <1>1, <1>3, <1>12, <2>1 DEF Service!Reply, Service!Due
  <2> QED BY <2>8, <2>9
<1>13. CASE GotRequest(s, a, d, p)
  <2>1. p.parseok /\ p.state = "kParseGotCompleteRequest"
    BY <1>13 DEF GotRequest
  <2>2. PICK response : response = Response(p.request)
    OBVIOUS
  <2>3. /\ Send(AppendToBuffer(response), response.close)
        /\ parse_state_' = "kParseRequestLine" /\ request_' = NewRequest
    BY <1>3, <2>1, <2>2 DEF Refuse, DealWithRequest, AwaitMore, Terminate, ResetContentState
  <2>4. /\ Service!Complete(s, a) /\ Service!RequestEnd(s, a) = d
        /\ ~Service!Fatal(Service!RequestLine(s, a))
        /\ Service!Answer(s, a) = AppendToBuffer(response)
        /\ response.close \in BOOLEAN
        /\ response.close <=> Service!Answer(s, a).length = {}
    BY <1>4, <1>6, <1>13, <2>2, GotRequestIs
  <2> QED BY <1>12, <2>3, <2>4
<1>14. CASE GotNone(s, a, d, p)
  <2>1. ~p.parseok /\ p.state = "kParseRequestLine" /\ p.request = NewRequest
    BY <1>14 DEF GotNone
  <2>2. /\ Send(BadRequest, TRUE)
        /\ parse_state_' = "kParseRequestLine" /\ request_' = NewRequest
    BY <1>3, <2>1 DEF Refuse, DealWithRequest, AwaitMore, Terminate
  <2>3. /\ Service!Complete(s, a) /\ Service!RequestEnd(s, a) = d
        /\ ~Service!Fatal(Service!RequestLine(s, a))
        /\ Service!Answer(s, a) = BadRequest /\ BadRequest.length = {}
    BY <1>4, <1>6, <1>14, GotNoneIs
  <2> QED BY <1>12, <2>2, <2>3
<1>15. CASE /\ AtRequestLine(s, a, d, p) \/ AmongHeaders(s, a, d, p)
            /\ FindCRLF(p.input) = 0
  <2>1. p.parseok /\ p.state \in {"kParseRequestLine", "kParseHeaders"}
    BY <1>15 DEF AtRequestLine, AmongHeaders
  <2>2. /\ parse_state_' = p.state /\ request_' = p.request
        /\ state_' = state_ /\ sent' = sent /\ answered' = answered /\ killed' = FALSE
    BY <1>1, <1>3, <2>1 DEF Refuse, DealWithRequest, AwaitMore, Terminate
  <2>3. ~Service!Complete(s, a)
    BY <1>4, <1>6, <1>15, GotNothingIs
  <2>4. Tracks(s, a, d, Parser(p.input, p.state, p.request, TRUE, TRUE))
    BY <1>5, <1>15, Waits
  <2>5. Parsing'
    BY <1>1, <1>3, <1>9, <1>10, <1>15, <2>2, <2>4 DEF Parsing
  <2>6. (state_ = "kDisconnecting" <=> Service!Closed)'
    BY <1>1, <2>2 DEF Service!Closed
  <2>7. (request_.method \in Methods \cup {""})'
    BY <1>15, <2>2, MethodIs
  <2>8. (\E S : sent \in Seq(S))' /\ answered' \in Nat
    BY <1>1, <1>2, <2>2
  <2>9. IInv'
    BY <1>11, <2>2, <2>5, <2>6, <2>7, <2>8 DEF IInv
  <2>10. Service!Wait
    BY <1>1, <1>3, <2>2, <2>3 DEF Service!Wait, Service!Due
  <2> QED BY <2>9, <2>10
<1>16. CASE GotFatal(s, a, d, p)
  <2>1. p.state = "thrown" /\ p.parseok
    BY <1>16 DEF GotFatal
  <2>2. /\ killed' = TRUE /\ parse_state_' = parse_state_ /\ request_' = request_
        /\ state_' = state_ /\ sent' = sent /\ answered' = answered
    BY <1>3, <2>1 DEF Refuse, DealWithRequest, AwaitMore, Terminate
  <2>3. Service!Complete(s, a) /\ Service!Fatal(Service!RequestLine(s, a))
    BY <1>16, GotFatalIs
  <2>4. PICK q, c : /\ q = Parser(input_buffer_ \o chunk, parse_state_, request_, TRUE, TRUE)
                    /\ c = Read
    OBVIOUS
  <2>5. /\ q.state = parse_state_ /\ q.request = request_ /\ q.linemore = TRUE
        /\ Tracks(s, a, c, q)
    BY <1>1, <1>3, <2>4, ParsedIs DEF Parser
  <2>6. AtRequestLine(s, a, c, q)
    <3>1. AtRequestLine(s, a, c, q) \/ AmongHeaders(s, a, c, q)
      BY <2>5 DEF Tracks
    <3>2. ~AmongHeaders(s, a, c, q)
      BY <2>3 DEF AmongHeaders, Opened, Service!IsRequest
    <3> QED BY <3>1, <3>2
  <2>7. Killed'
    BY <1>1, <2>2, <2>5, <2>6 DEF Killed, AtRequestLine
  <2>8. (request_.method \in Methods \cup {""})'
    BY <2>2 DEF IInv
  <2>9. (state_ = "kDisconnecting" <=> Service!Closed)'
    BY <1>1, <2>2 DEF Service!Closed
  <2>10. (\E S : sent \in Seq(S))' /\ answered' \in Nat
    BY <1>1, <1>2, <2>2
  <2>11. IInv'
    BY <1>11, <2>2, <2>7, <2>8, <2>9, <2>10 DEF IInv
  <2>12. Service!Die
    BY <1>1, <1>3, <2>2, <2>3 DEF Service!Die, Service!Due
  <2> QED BY <2>11, <2>12
<1> QED BY <1>6, <1>13, <1>14, <1>15, <1>16

\* So every step keeps the invariant, and is one of the service's.
LEMMA StepInv ==
    IInv /\ [Next]_vars => IInv' /\ [Service!Next]_<<received, answered, sent, killed>>
<1>1. ASSUME IInv, HandleMessage PROVE IInv' /\ Service!Next
  <2>1. PICK n \in 1..Len(network) :
           /\ ~killed
           /\ network' = SubSeq(network, n + 1, Len(network))
           /\ received' = received \o SubSeq(network, 1, n)
           /\ \/ Ignore(SubSeq(network, 1, n))
              \/ /\ Parse(SubSeq(network, 1, n))
                 /\ \/ Refuse(Parsed(SubSeq(network, 1, n)))
                    \/ DealWithRequest(Parsed(SubSeq(network, 1, n)))
                    \/ AwaitMore(Parsed(SubSeq(network, 1, n)))
                    \/ Terminate(Parsed(SubSeq(network, 1, n)))
    BY <1>1, Zenon DEF HandleMessage
  <2>2. PICK chunk : chunk = SubSeq(network, 1, n)
    OBVIOUS
  <2>3. network \in Seq(STRING) /\ received \in Seq(STRING)
    BY <1>1 DEF IInv
  <2>4. /\ chunk \in Seq(STRING) /\ network' \in Seq(STRING) /\ received' \in Seq(STRING)
        /\ Len(received') = Len(received) + Len(chunk)
        /\ Service!IsStrictPrefix(received, received')
    BY <2>1, <2>2, <2>3, ReadIs
  <2>5. CASE Ignore(chunk)
    <3>1. IInv' /\ Service!Closed /\ UNCHANGED <<answered, sent, killed>>
      BY <1>1, <2>1, <2>2, <2>4, <2>5, IgnoreStep
    <3> QED BY <2>1, <2>4, <3>1 DEF Service!Next, Service!Wait, Service!Due
  <2>6. CASE /\ Parse(chunk)
             /\ \/ Refuse(Parsed(chunk)) \/ DealWithRequest(Parsed(chunk))
                \/ AwaitMore(Parsed(chunk)) \/ Terminate(Parsed(chunk))
    <3>1. IInv' /\ (Service!Wait \/ Service!Reply \/ Service!Die)
      BY <1>1, <2>1, <2>2, <2>4, <2>6, ParseStep
    <3> QED BY <2>1, <2>4, <3>1 DEF Service!Next
  <2> QED BY <2>1, <2>2, <2>5, <2>6
<1>2. ASSUME IInv, UNCHANGED vars PROVE IInv' /\ UNCHANGED <<received, answered, sent, killed>>
  BY <1>2 DEF IInv, Parsing, Closing, Killed, Read, Service!Closed, vars
<1> QED BY <1>1, <1>2 DEF Next

\* What is left of a stream is a suffix of it.
LEMMA RestIsSuffix ==
    ASSUME NEW s \in Seq(STRING), NEW c \in 0..Len(s),
           NEW input, input = SubSeq(s, c + 1, Len(s))
    PROVE  IsSuffix(input, s)
<1>1. PICK u, v, m, n : u = Reverse(input) /\ v = Reverse(s) /\ m = Len(input) /\ n = Len(s)
  OBVIOUS
<1>2. n \in Nat /\ c \in Nat /\ c <= n
  BY <1>1
<1>3. /\ input \in Seq(STRING) /\ m = n - c /\ m \in Nat /\ m <= n
      /\ \A i \in 1..m : input[i] = s[c + i]
  BY <1>1, <1>2, RestIs
<1>4. u = [i \in 1..m |-> input[(m - i) + 1]] /\ v = [i \in 1..n |-> s[(n - i) + 1]]
  BY <1>1 DEF Reverse
<1>5. ASSUME NEW i \in 1..n PROVE v[i] = s[n - i + 1] /\ v[i] \in STRING
  <2>1. n - i + 1 \in 1..Len(s)
    BY <1>1, <1>2
  <2> QED BY <1>4, <2>1
<1>6. ASSUME NEW i \in 1..m PROVE u[i] = v[i] /\ u[i] \in STRING
  <2>1. PICK j : j = m - i + 1
    OBVIOUS
  <2>2. j \in 1..m /\ c + j = n - i + 1 /\ i \in 1..n
    BY <1>2, <1>3, <2>1
  <2>3. u[i] = input[j] /\ input[j] = s[c + j]
    BY <1>3, <1>4, <2>1, <2>2
  <2> QED BY <1>5, <2>2, <2>3
<1>7. Len(u) = m /\ Len(v) = n
  BY <1>2, <1>3, <1>4
<1>8. SubSeq(u, 1, m) = SubSeq(v, 1, m)
  <2>1. /\ SubSeq(u, 1, m) \in Seq(STRING) /\ Len(SubSeq(u, 1, m)) = m
        /\ \A i \in 1..m : SubSeq(u, 1, m)[i] = u[i]
    <3>1. \A i \in 1..m : u[i] \in STRING
      BY <1>6
    <3>2. /\ SubSeq(u, 1, m) \in Seq(STRING)
          /\ Len(SubSeq(u, 1, m)) = IF 1 <= m THEN m - 1 + 1 ELSE 0
          /\ \A i \in 1 .. m - 1 + 1 : SubSeq(u, 1, m)[i] = u[1 + i - 1]
      BY <1>3, <3>1, SubSeqProperties
    <3> QED BY <1>3, <3>2
  <2>2. /\ SubSeq(v, 1, m) \in Seq(STRING) /\ Len(SubSeq(v, 1, m)) = m
        /\ \A i \in 1..m : SubSeq(v, 1, m)[i] = v[i]
    <3>1. \A i \in 1..m : v[i] \in STRING
      BY <1>6
    <3>2. /\ SubSeq(v, 1, m) \in Seq(STRING)
          /\ Len(SubSeq(v, 1, m)) = IF 1 <= m THEN m - 1 + 1 ELSE 0
          /\ \A i \in 1 .. m - 1 + 1 : SubSeq(v, 1, m)[i] = v[1 + i - 1]
      BY <1>3, <3>1, SubSeqProperties
    <3> QED BY <1>3, <3>2
  <2>3. PICK x, y : x = SubSeq(u, 1, m) /\ y = SubSeq(v, 1, m)
    OBVIOUS
  <2>4. x \in Seq(STRING) /\ y \in Seq(STRING) /\ Len(x) = Len(y)
        /\ \A i \in 1..Len(x) : x[i] = y[i]
    BY <1>6, <2>1, <2>2, <2>3
  <2>5. x = y
    BY <2>4, SeqEqual
  <2> QED BY <2>3, <2>5
<1> QED BY <1>1, <1>3, <1>7, <1>8 DEF IsSuffix, IsPrefix

\* The invariant gives each part of the type invariant.
LEMMA InvType == IInv => TypeOK
<1> SUFFICES ASSUME IInv PROVE TypeOK
  OBVIOUS
<1>1. /\ parse_state_ \in {"kParseRequestLine", "kParseHeaders"}
      /\ parse_state_ = "kParseHeaders" => FindCRLF(input_buffer_) = 0
      /\ state_ \in {"kConnected", "kDisconnecting"}
  <2>1. CASE Parsing
    <3>1. PICK p : p = Parser(input_buffer_, parse_state_, request_, TRUE, TRUE)
      OBVIOUS
    <3>2. p.state = parse_state_ /\ p.linemore = TRUE
      BY <3>1 DEF Parser
    <3>3. Tracks(received, answered, Read, p)
      BY <2>1, <3>1 DEF Parsing
    <3>4. p.state \in {"kParseRequestLine", "kParseHeaders"}
      BY <3>2, <3>3 DEF Tracks, AtRequestLine, AmongHeaders
    <3> QED BY <2>1, <3>2, <3>4 DEF Parsing
  <2>2. CASE Closing
    BY <2>2 DEF Closing
  <2>3. CASE Killed
    BY <2>3 DEF Killed
  <2> QED BY <2>1, <2>2, <2>3 DEF IInv
<1>2. IsSuffix(input_buffer_, received)
  <2>1. /\ received \in Seq(STRING) /\ Read \in 0..Len(received)
        /\ input_buffer_ = SubSeq(received, Read + 1, Len(received))
    BY DEF IInv
  <2> QED BY <2>1, RestIsSuffix
<1>3. request_.method \in Methods \cup {""} /\ killed \in BOOLEAN
  BY DEF IInv
<1> QED BY <1>1, <1>2, <1>3 DEF TypeOK

-----------------------------------------------------------------------------
(* The theorems.                                                           *)

\* The parser of an open connection always knows exactly what the part of the
\* stream behind the last answer says up to the last line taken (httpcontent.cc's
\* ParseContent, resumed by every MessageCallback), unless a line at which the
\* parser throws has ended the process; a connection is being shut down if and
\* only if its last answer has no length.
THEOREM Invariance == Spec => []IInv
<1>1. Init => IInv
  BY InitInv
<1>2. IInv /\ [Next]_vars => IInv'
  BY StepInv
<1> QED BY <1>1, <1>2, PTL DEF Spec

\* Between two calls of MessageCallback the parser is at a request line or
\* among headers with no complete line left behind, its request has a method
\* that httprequest.cc knows or none yet, and input_buffer_ is the end of what
\* has been read.
THEOREM TypeCorrect == Spec => []TypeOK
BY InvType, Invariance, PTL

\* However the stream is cut, the same requests are found in it and each is
\* answered once, in order and from its own headers; what is no request is
\* refused, nothing follows an answer without a length (MessageCallback and
\* DealWithRequest in httpserver.cc), and the process ends exactly when it has
\* to answer a line with a late query (ParseRequestLine in httprequest.cc).
THEOREM ServiceImplemented == Spec => ImplementsHttpService
<1>1. Init => Service!Init
  BY InitInv
<1>2. IInv /\ [Next]_vars => [Service!Next]_<<received, answered, sent, killed>>
  BY StepInv
<1> QED BY <1>1, <1>2, Invariance, PTL DEF Spec, ImplementsHttpService, Service!Spec
=============================================================================
