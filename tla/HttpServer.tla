----------------------------- MODULE HttpServer -----------------------------
(***************************************************************************)
(* The HTTP handler of one connection: requests arrive in pieces, several  *)
(* may be pipelined, each is cut from the read buffer, parsed, answered,   *)
(* and the connection is kept or closed.                                   *)
(*                                                                         *)
(* Source: examples/http_server/http_server.cpp, common/buffer.cpp,        *)
(* http/request.cpp, http/header.cpp, http/response.cpp, http/cgier.cpp.   *)
(*                                                                         *)
(* The stream is a sequence of lines, each ended by CRLF; a line is        *)
(* abstracted to what the parser tells apart:                              *)
(*   "get", "head"   a request for a static file that exists,              *)
(*   "gone"          one for a file, or a CGI program, that does not,      *)
(*   "cgi", "cgihead"   a GET and a HEAD request for a CGI program,        *)
(*   "keep"          the header Connection: Keep-Alive,                    *)
(*   "header"        another header, Connection: close included,           *)
(*   "junk"          neither: no text behind a colon, nor a request line,   *)
(*   "blank"         the empty line.                                       *)
(* A line counts as sent with its last byte.  A read may end anywhere, but *)
(* the bytes of an unfinished line change nothing: CRLF CRLF is looked for *)
(* in all of the buffer, and they cannot complete one.                     *)
(* Files do not change while the server runs, so that a body from the      *)
(* cache and one from the disk are the same.                               *)
(***************************************************************************)
EXTENDS Naturals, Sequences, FiniteSets, FiniteSetsExt

CONSTANTS FileSize,  \* the size of the static file
          CgiSize,   \* the size of what the CGI program prints
          MaxLines   \* bound: the lines a client sends

ASSUME HttpAssumption ==
    FileSize \in Nat /\ CgiSize \in Nat /\ MaxLines \in Nat

VARIABLES sent,    \* history: the lines the client has sent
          rx,      \* those that recv has not taken
          fin,     \* whether the client has closed its side
          buf,     \* read_buf_
          pc,      \* "poll", "parse", or "deleted" once the connection is
          out      \* history: the responses sent

vars == <<sent, rx, fin, buf, pc, out>>

RequestLines == {"get", "head", "gone", "cgi", "cgihead"}
HeaderLines == {"keep", "header"}
Lines == RequestLines \cup HeaderLines \cup {"junk", "blank"}

Response == [status : {200, 400, 404}, close : BOOLEAN,
             length : {0, FileSize, CgiSize},   \* the header Content-Length
             body : {0, FileSize, CgiSize}]     \* the bytes that follow

TypeOK ==
    /\ sent \in Seq(Lines) /\ rx \in Seq(Lines) /\ buf \in Seq(Lines)
    /\ fin \in BOOLEAN
    /\ pc \in {"poll", "parse", "deleted"}
    /\ out \in Seq(Response)
----------------------------------------------------------------------------
(***************************************************************************)
(* Cutting a request from the buffer and parsing it                        *)
(***************************************************************************)

\* Where CRLF CRLF ends: at an empty line that another line comes before.
Ends(b) == {i \in 2 .. Len(b) : b[i] = "blank"}

\* findAndPopTill("\r\n\r\n"): what is cut off, and what remains.
Popped(b) == SubSeq(b, 1, Min(Ends(b)))
Remaining(b) == SubSeq(b, Min(Ends(b)) + 1, Len(b))

\* Request::Request: a supported request line, then lines with a colon.
ValidRequest(r) ==
    /\ r[1] \in RequestLines
    /\ \A i \in 2 .. Len(r) - 1 : r[i] \in HeaderLines

\* scanHeader: the connection is closed unless some header keeps it alive.
ShouldClose(r) == ~ \E i \in 2 .. Len(r) - 1 : r[i] = "keep"

\* Mutant of ErrorResponse: the service is said to be unavailable.
ErrorResponse503(status) == [status |-> 503, close |-> TRUE, length |-> 0, body |-> 0]

\* Response::Response without a resource.
ErrorResponse(status) == [status |-> status, close |-> TRUE, length |-> 0, body |-> 0]
----------------------------------------------------------------------------
(***************************************************************************)
(* processHttpRequest                                                      *)
(***************************************************************************)
Init ==
    /\ sent = <<>> /\ rx = <<>> /\ buf = <<>> /\ out = <<>>
    /\ fin = FALSE
    /\ pc = "poll"

\* recv meets the end of the stream: the connection is deleted, and with it
\* whatever has been read.
RecvExit ==
    /\ pc = "poll"
    /\ fin
    /\ pc' = "deleted"
    /\ buf' = <<>> /\ rx' = <<>>
    /\ UNCHANGED <<sent, fin, out>>

\* recv reads all there is.
Recv ==
    /\ pc = "poll"
    /\ ~fin /\ rx # <<>>
    /\ buf' = buf \o rx
    /\ rx' = <<>>
    /\ pc' = "parse"
    /\ UNCHANGED <<sent, fin, out>>

\* There is no further complete request: back to the loop.
NoRequest ==
    /\ pc = "parse"
    /\ Ends(buf) = {}
    /\ pc' = "poll"
    /\ UNCHANGED <<sent, rx, fin, buf, out>>

\* Mutant of Reply: the loop goes on after a response that closes.
ReplyGoesOn(response) ==
    /\ out' = Append(out, response)
    /\ buf' = Remaining(buf)
    /\ pc' = "parse"
    /\ UNCHANGED <<sent, rx, fin>>

\* The response is sent, and the connection deleted if no_more_parse.
Reply(response) ==
    /\ out' = Append(out, response)
    /\ buf' = Remaining(buf)
    /\ pc' = IF response.close THEN "deleted" ELSE "parse"
    /\ UNCHANGED <<sent, rx, fin>>

\* The turn of the loop for the request that findAndPopTill returns.
HasRequest == pc = "parse" /\ Ends(buf) # {}

BadRequest ==
    /\ HasRequest
    /\ ~ValidRequest(Popped(buf))
    /\ Reply(ErrorResponse(400))

NotFound ==
    /\ HasRequest
    /\ ValidRequest(Popped(buf))
    /\ Popped(buf)[1] = "gone"
    /\ Reply(ErrorResponse(404))

\* Cgier::run; Content-Length, 0 so far, is changed to the size of the result, which
\* follows whatever the method.
RunCgi ==
    /\ HasRequest
    /\ ValidRequest(Popped(buf))
    /\ Popped(buf)[1] \in {"cgi", "cgihead"}
    /\ Reply([status |-> 200, close |-> ShouldClose(Popped(buf)),
              length |-> CgiSize, body |-> CgiSize])

\* A static file: Content-Length from the file, the content only for GET.
ServeFile ==
    /\ HasRequest
    /\ ValidRequest(Popped(buf))
    /\ Popped(buf)[1] \in {"get", "head"}
    /\ Reply([status |-> 200, close |-> ShouldClose(Popped(buf)), length |-> FileSize,
              body |-> IF Popped(buf)[1] = "get" THEN FileSize ELSE 0])

Handler ==
    RecvExit \/ Recv \/ NoRequest \/ BadRequest \/ NotFound \/ RunCgi \/ ServeFile

ClientSend ==
    /\ ~fin /\ pc # "deleted"
    /\ Len(sent) < MaxLines
    /\ \E l \in Lines : sent' = Append(sent, l) /\ rx' = Append(rx, l)
    /\ UNCHANGED <<fin, buf, pc, out>>

ClientClose ==
    /\ ~fin /\ pc # "deleted"
    /\ fin' = TRUE
    /\ UNCHANGED <<sent, rx, buf, pc, out>>

Next == Handler \/ ClientSend \/ ClientClose

Spec == Init /\ [][Next]_vars
----------------------------------------------------------------------------
(***************************************************************************)
(* The answers a stream deserves, independent of how it was cut up: a line *)
(* ends a request if it is empty and does not itself begin one.            *)
(***************************************************************************)
IsEnd(s) ==
    LET end[i \in 0 .. Len(s)] == IF i = 0 THEN TRUE ELSE s[i] = "blank" /\ ~end[i - 1]
    IN  end

RequestEnds(s) == {e \in 1 .. Len(s) : IsEnd(s)[e]}
StartOf(s, e) == Max({i \in 0 .. e - 1 : IsEnd(s)[i]}) + 1

HeadersOf(s, b, e) == {s[i] : i \in b + 1 .. e - 1}

\* What the request in line b asks for.
SizeOf(s, b) == IF s[b] \in {"get", "head"} THEN FileSize ELSE CgiSize

\* The answer to the request in lines b .. e of s.
Deserved(s, b, e) ==
    LET headers == HeadersOf(s, b, e)
        status == IF s[b] \notin RequestLines \/ ~(headers \subseteq HeaderLines) THEN 400
                  ELSE IF s[b] = "gone" THEN 404 ELSE 200
    IN  [status |-> status,
         close |-> status # 200 \/ "keep" \notin headers,
         length |-> IF status = 200 THEN SizeOf(s, b) ELSE 0,
         body |-> IF status = 200 /\ s[b] # "head" THEN SizeOf(s, b) ELSE 0]

\* The places of s where an answered request ends: every request before it
\* has left the connection open.
AnsweredEnds(s) ==
    {e \in RequestEnds(s) :
        \A d \in RequestEnds(s) : d < e => ~Deserved(s, StartOf(s, d), d).close}

\* The responses so far are the first ones the stream s deserves.
Answers(s) ==
    \A e \in AnsweredEnds(s) :
        LET k == Cardinality({d \in AnsweredEnds(s) : d <= e}) IN
        k <= Len(out) => out[k] = Deserved(s, StartOf(s, e), e)

\* Every complete request is answered, once and in order, up to the first that
\* closes the connection, wherever the stream is cut into reads, each by the status,
\* the fate of the connection, the Content-Length and the body that its own lines call
\* for (http_server.cpp:41-121, buffer.cpp:30-40, request.cpp:20-102).  A HEAD request
\* for a CGI program calls for its output too, as the code has it (http_server.cpp:68-76):
\* only for static files is content left to GET (http_server.cpp:91-92), so the client
\* of such a request takes the output for the beginning of the next response.
AnswersFollowTheStream ==
    LET read == SubSeq(sent, 1, Len(sent) - Len(rx))
        closed == out # <<>> /\ out[Len(out)].close
    IN  /\ Answers(sent)
        /\ Len(out) <= Cardinality(AnsweredEnds(sent))
        /\ pc = "poll" => ~closed /\ Len(out) = Cardinality(AnsweredEnds(read))
        /\ pc = "deleted" => fin \/ closed
=============================================================================
