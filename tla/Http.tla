-------------------------------- MODULE Http --------------------------------
(***************************************************************************)
(* The HTTP server the logic server starts (http_server.cpp): what it      *)
(* makes of the pieces in which the bytes of a connection arrive.          *)
(*                                                                         *)
(* A connection is a record of what has come and was not taken up, how far *)
(* the request being read has got (HttpContext, HttpRequest), and what was *)
(* sent.  A cell is the text of a line, a CR, a LF or a piece of a body.   *)
(* Of the headers only Connection is looked at.                            *)
(***************************************************************************)
EXTENDS Naturals, SequencesExt

CR == <<"cr">>
LF == <<"lf">>

Methods == {"GET", "POST", "HEAD", "PUT", "DELETE"}

NoRequest == [method |-> "none", path |-> "", connection |-> "", body |-> << >>]

\* onConnect.  "alive" is false once an assertion has ended the process.
Connected ==
    [buf |-> << >>, expect |-> "line", request |-> NoRequest, version |-> "", ok |-> TRUE,
     alive |-> TRUE, open |-> TRUE, sent |-> << >>]

\* send and shutdown of a connection: nothing is sent after a shutdown.
SendTo(c, response, close) ==
    [c EXCEPT !.sent = IF c.open THEN Append(@, response) ELSE @, !.open = @ /\ ~close]

-----------------------------------------------------------------------------
(* parseRequest.                                                           *)

\* Where the first line of s ends, 0 if it has not ended.
FindCRLF(s) ==
    LET at == {i \in 1 .. Len(s) - 1 : s[i] = CR /\ s[i + 1] = LF}
    IN  IF at = {} THEN 0 ELSE Min(at)

\* A request line that fails leaves what was set before it failed; setMethod asserts that
\* no method is set.
ProcessRequestLine(c, line) ==
    LET text    == line[Len(line)]
        spaces  == line # << >> /\ text[1] \in {"line", "header"}
        known   == Len(line) = 1 /\ text[2] \in Methods
    IN  IF ~spaces THEN [c EXCEPT !.ok = FALSE]
        ELSE IF c.request.method # "none" THEN [c EXCEPT !.ok = FALSE, !.alive = FALSE]
        ELSE IF ~known THEN [c EXCEPT !.ok = FALSE]
        ELSE [c EXCEPT !.request.method = text[2],
                       !.request.path   = text[3],
                       !.version        = IF text[4] = "other" THEN @ ELSE text[4],
                       !.ok             = text[4] # "other",
                       !.expect         = IF text[4] = "other" THEN @ ELSE "headers"]

\* Whether line has a colon.  A line without one ends the headers.
IsHeader(line) == line # << >> /\ line[1][1] = "header"

RECURSIVE ParseRequest(_)
ParseRequest(c) ==
    LET n    == FindCRLF(c.buf)
        line == SubSeq(c.buf, 1, n - 1)
        next == [c EXCEPT !.buf = SubSeq(@, n + 2, Len(@))]
        read == ProcessRequestLine(next, line)
    IN  CASE c.expect = "body" /\ c.request.method = "POST" ->
                 [c EXCEPT !.request.body = @ \o c.buf, !.buf = << >>, !.expect = "all"]
          [] c.expect = "body" /\ c.request.method # "POST" -> [c EXCEPT !.expect = "all"]
          [] c.expect \in {"line", "headers"} /\ n = 0 -> c
          [] c.expect = "line" /\ n # 0 ->
                 IF read.ok THEN ParseRequest(read) ELSE [read EXCEPT !.buf = c.buf]
          [] c.expect = "headers" /\ n # 0 ->
                 ParseRequest(IF IsHeader(line) THEN [next EXCEPT !.request.connection = line[1][2]]
                              ELSE [next EXCEPT !.expect = "body"])
          [] OTHER -> c

-----------------------------------------------------------------------------
(* Answers.                                                                *)

BadRequest == [status |-> 400, body |-> << >>]

\* onRequest.
OnRequest(request) ==
    CASE request.path = "/" ->
             [status |-> 200, body |-> IF request.method = "POST" THEN request.body ELSE <<"page">>]
      [] request.path = "/favicon.ico" -> [status |-> 200, body |-> <<"icon">>]
      [] request.path = "/hello"       -> [status |-> 200, body |-> <<"hello">>]
      [] OTHER                         -> [status |-> 404, body |-> << >>]

\* Variant with a fault: the version is not looked at.
OnHttpRequestInnerAnyVersion(c) ==
    SendTo(c, OnRequest(c.request), c.request.connection = "close" \/ OnRequest(c.request).status = 404)

\* onHttpRequestInner.
OnHttpRequestInner(c) ==
    LET response == OnRequest(c.request)
        close == \/ c.request.connection = "close"
                 \/ c.version = "HTTP/1.0" /\ c.request.connection # "Keep-Alive"
                 \/ response.status = 404
    IN  SendTo(c, response, close)

\* HttpContext::reset, which keeps the version.
Reset(c) == [c EXCEPT !.expect = "line", !.request = NoRequest]

\* Variant with a fault: a connection that sent nonsense is kept.
OnLibMessageKeeping(c, piece) ==
    LET read == ParseRequest([c EXCEPT !.buf = @ \o piece, !.ok = TRUE])
    IN  IF ~c.alive \/ ~read.alive THEN [read EXCEPT !.alive = FALSE]
        ELSE IF ~read.ok THEN SendTo(read, BadRequest, FALSE)
        ELSE IF read.expect = "all" THEN Reset(OnHttpRequestInner(read))
        ELSE read

\* onLibMessageCallback: another piece has come.
OnLibMessage(c, piece) ==
    LET read == ParseRequest([c EXCEPT !.buf = @ \o piece, !.ok = TRUE])
    IN  IF ~c.alive \/ ~read.alive THEN [read EXCEPT !.alive = FALSE]
        ELSE IF ~read.ok THEN SendTo(read, BadRequest, TRUE)
        ELSE IF read.expect = "all" THEN Reset(OnHttpRequestInner(read))
        ELSE read

-----------------------------------------------------------------------------
(* Requests to try it on, and what is to come of them.                     *)

Get(path, version, connection) ==
    [method |-> "GET", path |-> path, version |-> version, connection |-> connection, body |-> << >>]

Bodyless ==
    {Get("/", "HTTP/1.1", ""), Get("/hello", "HTTP/1.1", "close"), Get("/missing", "HTTP/1.1", ""),
     Get("/hello", "HTTP/1.0", ""), Get("/favicon.ico", "HTTP/1.0", "Keep-Alive")}

Post == [method |-> "POST", path |-> "/", version |-> "HTTP/1.1", connection |-> "",
         body |-> <<<<"x">>, <<"y">>>>]

Line(r) == <<<<"line", r.method, r.path, r.version>>, CR, LF>>
HeadOf(r) ==
    Line(r) \o (IF r.connection = "" THEN << >> ELSE <<<<"header", r.connection>>, CR, LF>>) \o <<CR, LF>>
Cells(r) == HeadOf(r) \o r.body

\* The connection after s has come in pieces that end at the given places.
After(s, i, j) ==
    FoldLeft(OnLibMessage, Connected,
             SelectSeq(<<SubSeq(s, 1, i), SubSeq(s, i + 1, j), SubSeq(s, j + 1, Len(s))>>,
                       LAMBDA p : p # << >>))

Closes(r) ==
    r.path = "/missing" \/ r.connection = "close" \/ (r.version = "HTTP/1.0" /\ r.connection = "")

\* What a client is to be told: the page it asked for, or its own text.
Told(r, text) ==
    CASE r.method = "POST"        -> [status |-> 200, body |-> text]
      [] r.path = "/missing"      -> [status |-> 404, body |-> << >>]
      [] r.path = "/"             -> [status |-> 200, body |-> <<"page">>]
      [] r.path = "/hello"        -> [status |-> 200, body |-> <<"hello">>]
      [] r.path = "/favicon.ico"  -> [status |-> 200, body |-> <<"icon">>]

\* Whether a connection over which r1 and r2 come in three pieces or fewer is left as told.
Answered(r1, r2) ==
    LET s    == Cells(r1) \o Cells(r2)
        end1 == Len(Cells(r1))
        end2 == end1 + Len(HeadOf(r2))
    IN  \A j \in 1 .. Len(s) : \A i \in 1 .. j :
            LET ends  == {i, j, Len(s)}
                first == Min({k \in ends : k >= end1})
                next  == {k \in ends : k > first /\ k >= end2}
                c     == After(s, i, j)
            IN  /\ c.alive
                /\ c.sent = <<Told(r1, << >>)>> \o
                      IF Closes(r1) \/ next = {} THEN << >>
                      ELSE <<Told(r2, SubSeq(s, end2 + 1, Min(next)))>>

Bad == {[Post EXCEPT !.method = "FETCH"], [Post EXCEPT !.version = "other"]}

\* The same for a request line that does not parse.
Refused(r1, r2) ==
    LET s == Cells(r1) \o Cells(r2)
    IN  \A j \in 1 .. Len(s) : \A i \in 1 .. j :
            LET c    == After(s, i, j)
                more == \E k \in {i, j} : k >= Len(Line(r1)) /\ k < Len(s)
            IN  /\ c.sent = <<BadRequest>> /\ ~c.open
                /\ c.alive = ~(r1.method \in Methods /\ more)
=============================================================================
