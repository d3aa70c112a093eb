------------------------------- MODULE Webby --------------------------------
(***************************************************************************)
(* webby/webby.c with its front ends webbyimpl/webbythread.c and           *)
(* webbycoro.c: one connection of the web server, from the configuration   *)
(* of the server to the end of the connection.                             *)
(*                                                                         *)
(* The connection is served by one thread: it receives into the buffer of  *)
(* HttpParser and parses; the callbacks of the parser run the filters and  *)
(* the servlets, and what those answer goes out on the wire.  The header of *)
(* a response is formatted in the very buffer the request came in.         *)
(*                                                                         *)
(* There are no virtual hosts, malloc succeeds, and a servlet is any       *)
(* sequence of calls that its contract allows.                             *)
(***************************************************************************)
EXTENDS HttpParser, Integers

CONSTANTS
  MaxFilters,  \* bound on the filters added before the server runs
  Servlets,    \* how many servlets there are
  MaxCalls,    \* bound on the calls a servlet makes before it finishes
  MaxSize,     \* bound on a Content-Length, and on the data of one call
  FrontEnd,    \* "thread" or "coro"
  Splits,      \* whether recv may return part of a line, or two requests
  EarlyClose,  \* whether a connection may end before a header was accepted
  Lapses       \* what servlets do against the contract: "oversend", "short",
               \* "nochunk", "late"

ASSUME WebbyAssumption ==
  /\ MaxFilters \in Nat /\ Servlets \in Nat /\ MaxCalls \in Nat /\ MaxSize \in Nat
  /\ FrontEnd \in {"thread", "coro"} /\ Splits \in BOOLEAN /\ EarlyClose \in BOOLEAN
  /\ Lapses \subseteq {"oversend", "short", "nochunk", "late"}

VARIABLES
  filters,  \* the filters by index: the absolute indices of the next ones
  conn,     \* WEBBY_CONNECTION and the front end's object around it
  resp,     \* HTTP_servlet_response, and where the servlets stand
  client    \* how far the client has come in reading the responses

served == <<filters, conn, resp, client>>
wvars  == <<vars, served>>

-----------------------------------------------------------------------------
(* Filters: the sink is filter 0; -1 is no next filter *)

NoFilter == 0 - 1
Sink == [request |-> NoFilter, response |-> NoFilter]

At(fs, i) == fs[i + 1]

\* A slip: every filter passes responses straight to the sink.
AddFilter_ToSink(fs) ==
  LET new == Len(fs)
  IN IF new = 1
     THEN <<[At(fs, 0) EXCEPT !.request = 1], [request |-> NoFilter, response |-> 0]>>
     ELSE Append([fs EXCEPT ![At(fs, 0).request + 1].request = new],
                 [request |-> NoFilter, response |-> 0])

\* DATA_SINK_FILTER_add_filter_to_vhost for the default host, whose first
\* filter is what the sink passes requests to.  A later filter is linked
\* behind the first one.
AddFilter(fs) ==
  LET new == Len(fs)
  IN IF new = 1
     THEN <<[At(fs, 0) EXCEPT !.request = 1], [request |-> NoFilter, response |-> 0]>>
     ELSE Append([fs EXCEPT ![At(fs, 0).request + 1].request = new],
                 [request |-> NoFilter, response |-> new - 1])

\* The filters a request and a response go through, call by call: the indices
\* are relative in a connection, and every filter passes on what it gets.
Runner == Len(filters) - 1
PathFrom(i, next(_)) ==
  LET path[n \in 0..Len(filters)] ==
        IF n = 0 THEN <<i>>
        ELSE LET p == path[n - 1]
                 j == next(p[Len(p)])
             IN IF j \notin 0..Runner THEN p ELSE Append(p, j)
  IN path[Len(filters)]

NextRequestFilter(i)  == i + (At(filters, i).request - i)
NextResponseFilter(i) == i - (i - At(filters, i).response)
RequestPath  == PathFrom(0, NextRequestFilter)
ResponsePath == PathFrom(Runner, NextResponseFilter)

-----------------------------------------------------------------------------
(* What is sent, and a client that reads it by the rules of HTTP: an item    *)
(* says what it is, how much data is in it, and the request it answers      *)

Item(kind, n) == [k |-> kind, n |-> n, of |-> Len(received)]

Reading == [st |-> "idle", left |-> 0, done |-> 0]
Answered(c) == [Reading EXCEPT !.done = c.done + 1]
Broken(c)   == [c EXCEPT !.st = "broken"]

Reads(c, x) ==
  IF x.of # c.done + 1 THEN Broken(c) ELSE
  CASE c.st = "idle" ->
         (CASE x.k = "100"          -> c
            [] x.k \in {"400", "404", "500"} -> Answered(c)
            [] x.k = "head_length"  -> IF x.n = 0 THEN Answered(c)
                                       ELSE [c EXCEPT !.st = "body", !.left = x.n]
            [] x.k = "head_chunked" -> [c EXCEPT !.st = "first_chunk"]
            [] x.k = "head_close"   -> [c EXCEPT !.st = "until_close"]
            [] OTHER -> Broken(c))
    [] c.st = "body" /\ x.k = "data" /\ x.n <= c.left ->
         IF x.n = c.left THEN Answered(c) ELSE [c EXCEPT !.left = @ - x.n]
    [] c.st = "first_chunk" /\ x.k = "chunk"      -> [c EXCEPT !.st = "next_chunk"]
    [] c.st = "first_chunk" /\ x.k = "last"       -> Answered(c)
    [] c.st = "next_chunk"  /\ x.k = "crlf_chunk" -> c
    [] c.st = "next_chunk"  /\ x.k = "crlf_last"  -> Answered(c)
    [] c.st = "until_close" /\ x.k = "data"       -> c
    [] OTHER -> Broken(c)

\* impl_send_data
Send(items) ==
  client' = LET read[i \in 0..Len(items)] ==
                  IF i = 0 THEN client ELSE Reads(read[i - 1], items[i])
            IN read[Len(items)]

NoLimit == 0 - 1

HTTP_REQUEST_is_persistent == request.version = 1 /\ "close" \notin request.flags

NoResponse ==
  [pc |-> 0, state |-> 0, flags |-> {}, left |-> 0, chunk_no |-> 0,
   asked |-> "none", todo |-> 0, calls |-> 0, failed |-> FALSE]

\* HTTP_RESPONSE_WRITER_write puts one value after the other into the buffer.
HeaderValues == 2 + Cardinality(resp.flags \cap {"close", "chunked", "length"}) + 1
HeaderKind == IF "chunked" \in resp.flags THEN "head_chunked"
              ELSE IF "close" \in resp.flags THEN "head_close"
              ELSE "head_length"

\* sink_on_response_header sends all of the buffer, request bytes included;
\* when the header does not fit the loop sends and tries again for ever.
HeaderFits == HeaderValues <= PutSize
Header == (IF Size = 0 THEN <<>> ELSE <<Item("junk", Size)>>)
            \o <<Item(HeaderKind, IF "length" \in resp.flags THEN resp.left ELSE 0)>>
HeaderPut == bf' = [bf EXCEPT !.put = @ + HeaderValues]

-----------------------------------------------------------------------------
(* The calls of a servlet.  Each action is one call and its result *)

WritesForEver == 9

InServlet == /\ conn.state = "parsing" /\ In("next_request")
             /\ resp.pc \in 1..Servlets /\ resp.state # WritesForEver
Calls == InServlet /\ ~resp.failed

Called(r) == resp' = [r EXCEPT !.calls = @ + 1]
Refused   == UNCHANGED <<resp, client, bf>>
Keep      == UNCHANGED <<sent, fed, parser, request, status, received, filters, conn>>

HTTP_response_start(kind, n) ==
  /\ Calls /\ Keep
  /\ IF resp.state # 0 THEN Refused
     ELSE LET used == IF HTTP_REQUEST_is_persistent THEN kind ELSE "close"
          IN /\ UNCHANGED <<bf, client>>
             /\ Called([resp EXCEPT !.state = 1, !.asked = kind,
                          !.todo  = IF kind = "length" THEN n ELSE 0,
                          !.flags = {used},
                          !.left  = CASE used = "close"  -> NoLimit
                                      [] used = "length" -> n
                                      [] OTHER -> resp.left])

\* The body of the calls that send: the header first, if it is still due.
\* items is what follows it, and r what becomes of the response.
WithHeader(r, items) ==
  IF resp.state # 1 THEN Called(r) /\ Send(items) /\ UNCHANGED bf
  ELSE IF HeaderFits
  THEN Called(r) /\ Send(Header \o items) /\ HeaderPut
  ELSE resp' = [resp EXCEPT !.state = WritesForEver] /\ UNCHANGED <<bf, client>>

\* A slip: a response without a length is counted as well.
HTTP_response_send_CountsDown(n) ==
  /\ Calls /\ Keep
  /\ IF resp.state \notin {1, 2} THEN Refused
     ELSE LET begun == [resp EXCEPT !.state = 2]
          IN IF "chunked" \in resp.flags \/ (resp.left # NoLimit /\ resp.left < n)
             THEN WithHeader([begun EXCEPT !.failed = TRUE], <<>>)
             ELSE WithHeader([begun EXCEPT !.left = @ - n,
                                           !.todo = IF @ < n THEN 0 ELSE @ - n],
                             <<Item("data", n)>>)

HTTP_response_send(n) ==
  /\ Calls /\ Keep
  /\ IF resp.state \notin {1, 2} THEN Refused
     ELSE LET begun == [resp EXCEPT !.state = 2]
          IN IF "chunked" \in resp.flags \/ (resp.left # NoLimit /\ resp.left < n)
             THEN WithHeader([begun EXCEPT !.failed = TRUE], <<>>)
             ELSE WithHeader([begun EXCEPT !.left = IF @ = NoLimit THEN @ ELSE @ - n,
                                           !.todo = IF @ < n THEN 0 ELSE @ - n],
                             <<Item("data", n)>>)

\* A slip: the first chunk is number one.
HTTP_response_write_chunk_FromOne(n) ==
  /\ Calls /\ Keep
  /\ IF resp.state \notin {1, 2} \/ resp.flags \cap {"chunked", "close"} = {}
     THEN Refused
     ELSE LET no == resp.chunk_no + 1
              kind == IF "close" \in resp.flags THEN "data" ELSE "crlf_chunk"
          IN WithHeader([resp EXCEPT !.state = 2, !.chunk_no = no], <<Item(kind, n)>>)

HTTP_response_write_chunk(n) ==
  /\ Calls /\ Keep
  /\ IF resp.state \notin {1, 2} \/ resp.flags \cap {"chunked", "close"} = {}
     THEN Refused
     ELSE LET no == IF resp.state = 1 THEN resp.chunk_no ELSE resp.chunk_no + 1
              kind == IF "close" \in resp.flags THEN "data"
                      ELSE IF no = 0 THEN "chunk" ELSE "crlf_chunk"
          IN WithHeader([resp EXCEPT !.state = 2, !.chunk_no = no], <<Item(kind, n)>>)

\* The number is incremented before it is looked at, so that the last chunk
\* always comes with the CRLF that ends a chunk in front of it.
HTTP_response_finish ==
  /\ Calls /\ UNCHANGED <<sent, fed, parser, request, status, received, filters>>
  /\ IF resp.state \notin {1, 2} THEN Refused /\ UNCHANGED conn
     ELSE LET chunked == "chunked" \in resp.flags
              no == IF chunked THEN resp.chunk_no + 1 ELSE resp.chunk_no
              last == IF no = 0 THEN "last" ELSE "crlf_last"
          IN /\ WithHeader([resp EXCEPT !.state = 3, !.chunk_no = no],
                           IF chunked THEN <<Item(last, 0)>> ELSE <<>>)
             /\ conn' = [conn EXCEPT !.socket = IF resp'.state = 3 /\ "close" \in resp.flags
                                                THEN FALSE ELSE @]

-----------------------------------------------------------------------------
(* The contract of webby.h: the calls match the type that was asked for; a  *)
(* servlet sends what it announced, and passes a request on, or reports an  *)
(* error, only when it has sent nothing                                     *)

May(lapse) == lapse \in Lapses
Untouched == resp.state \in {0, 1}

ServletCall ==
  \/ \E kind \in {"close", "length", "chunked"}, n \in 0..MaxSize :
        (kind = "length" \/ n = 0) /\ HTTP_response_start(kind, n)
  \/ \E n \in 1..MaxSize :
        /\ resp.asked \in {"none", "close", "length"} /\ resp.calls < MaxCalls
        /\ resp.asked = "length" => n <= resp.todo \/ May("oversend")
        /\ HTTP_response_send(n)
  \/ \E n \in 1..MaxSize :
        /\ resp.asked \in {"none", "chunked"} /\ resp.calls < MaxCalls
        /\ HTTP_response_write_chunk(n)
  \/ /\ resp.todo = 0 \/ May("short")
     /\ resp.asked = "chunked" => resp.state # 1 \/ May("nochunk")
     /\ HTTP_response_finish

\* servlets_req_finished up to the first servlet.
ServletsBegin ==
  /\ conn.state = "parsing" /\ In("next_request") /\ resp.pc = 0
  /\ Send(IF "expect" \in request.flags THEN <<Item("100", 0)>> ELSE <<>>)
  /\ resp' = [NoResponse EXCEPT !.pc = 1]
  /\ UNCHANGED <<vars, filters, conn>>

\* A servlet returns.
Handled ==
  /\ InServlet /\ resp.state = 3
  /\ resp' = NoResponse /\ NextRequest(TRUE)
  /\ UNCHANGED <<filters, conn, client>>

Ignored ==
  /\ InServlet /\ Untouched
  /\ resp' = [resp EXCEPT !.pc = @ + 1, !.calls = 0]
  /\ UNCHANGED <<vars, filters, conn, client>>

Failed ==
  /\ InServlet
  /\ Untouched \/ resp.failed \/ May("late")
  /\ Send(<<Item("500", 0)>>)
  /\ resp' = NoResponse /\ NextRequest(FALSE)
  /\ UNCHANGED <<filters, conn>>

\* A slip: nobody answers for the servlets that pass a request on.
NobodyHandled_Silent ==
  /\ conn.state = "parsing" /\ In("next_request") /\ resp.pc = Servlets + 1
  /\ resp' = NoResponse /\ NextRequest(TRUE)
  /\ UNCHANGED <<filters, conn, client>>

NobodyHandled ==
  /\ conn.state = "parsing" /\ In("next_request") /\ resp.pc = Servlets + 1
  /\ Send(<<Item("404", 0)>>)
  /\ resp' = NoResponse /\ NextRequest(TRUE)
  /\ UNCHANGED <<filters, conn>>

-----------------------------------------------------------------------------
(* The server and its front end *)

WInit ==
  /\ Init
  /\ filters = <<Sink>>
  /\ conn = [state |-> "none", socket |-> FALSE, ctx |-> FALSE]
  /\ resp = NoResponse
  /\ client = Reading

WEBBY_add_filter ==
  /\ conn.state = "none" /\ Len(filters) <= MaxFilters
  /\ filters' = AddFilter(filters)
  /\ UNCHANGED <<vars, conn, resp, client>>

\* WEBBY_run adds the filter that runs the servlets.
WEBBY_run ==
  /\ conn.state = "none"
  /\ filters' = AddFilter(filters)
  /\ conn' = [conn EXCEPT !.state = "listening"]
  /\ UNCHANGED <<vars, resp, client>>

Accepts(r) == Announced(r).version = 0 \/ Has(r, "host")

WEBBY_new_connection ==
  /\ conn.state = "listening"
  /\ EarlyClose \/ (sent # <<>> /\ WellFormed(sent[1]) /\ Accepts(sent[1]))
  /\ conn' = [state |-> "recv", socket |-> TRUE, ctx |-> FALSE]
  /\ UNCHANGED <<vars, filters, resp, client>>

\* Where recv may stop: at the end of a line or within a body, and never
\* beyond the request that the client sent.
Whole(to) ==
  /\ Stream[to] = LF \/ Stream[to].k = "data"
  /\ \A i \in DOMAIN sent : fed < EndOf(i) => to <= EndOf(i)

\* Both front ends receive at get_pos.
Recv(n) ==
  /\ conn.state = "recv" /\ conn.socket
  /\ fed + n <= Len(Stream) /\ (Splits \/ Whole(fed + n))
  /\ Receive(n, bf.get)
  /\ conn' = [conn EXCEPT !.state = "parsing"]
  /\ UNCHANGED <<filters, resp, client>>

\* The peer closes, or nothing comes before the timeout.
PeerGone ==
  /\ conn.state = "recv" /\ conn.socket /\ (conn.ctx \/ EarlyClose)
  /\ conn' = [conn EXCEPT !.state = "closing"]
  /\ UNCHANGED <<vars, filters, resp, client>>

\* After a response that closes the connection the loop comes back to recv:
\* the threads' socket fails, the coroutines' is a null pointer.
RecvOnClosed ==
  /\ conn.state = "recv" /\ ~conn.socket
  /\ conn' = [conn EXCEPT !.state = IF FrontEnd = "thread" THEN "closing" ELSE "crashed"]
  /\ UNCHANGED <<vars, filters, resp, client>>

\* The header has been parsed: sink_req_header_parsed refuses a request of
\* HTTP/1.1 without host, and servlets_req_header_parsed makes the context
\* that the servlets have per connection.
HeaderParsed ==
  /\ conn.state = "parsing"
  /\ LET ok == request.version = 0 \/ "host" \in request.flags
     IN /\ EndOfHeader(ok)
        /\ client' = IF ok THEN client
                     ELSE Reads(client, [k |-> "400", n |-> 0, of |-> Len(received')])
        /\ conn' = [conn EXCEPT !.ctx = @ \/ ok]
  /\ UNCHANGED <<filters, resp>>

Parse ==
  /\ conn.state = "parsing"
  /\ RequestLine \/ HeaderLine \/ BodyMissing \/ ChunkHeader \/ ChunkEof \/ ChunkTrailer
       \/ BodyData(TRUE)
  /\ UNCHANGED served

\* WEBBY_connection_data_received returns to the front end: after a request
\* the buffer is emptied, whatever is left in it.
DataReceived ==
  /\ conn.state = "parsing" /\ status # "running"
  /\ conn' = [conn EXCEPT !.state = IF status \in {"error", "refused"} THEN "closing" ELSE "recv"]
  /\ bf' = IF status = "completed" THEN [bf EXCEPT !.get = 0, !.put = 0] ELSE bf
  /\ UNCHANGED <<sent, fed, parser, request, status, received, filters, resp, client>>

\* The front end closes, and WEBBY_connection_close visits every filter.
\* servlets_connection_close reads its context, which is null when no header
\* was accepted.
Close ==
  /\ conn.state = "closing"
  /\ conn' = [conn EXCEPT !.state = IF conn.ctx THEN "closed" ELSE "crashed", !.socket = FALSE]
  /\ UNCHANGED <<vars, filters, resp, client>>

ServerStep ==
  \/ HeaderParsed \/ Parse \/ ServletsBegin \/ NobodyHandled \/ DataReceived
  \/ RecvOnClosed \/ Close
ServletStep == ServletCall \/ Handled \/ Ignored \/ Failed

WNext ==
  \/ WEBBY_add_filter \/ WEBBY_run \/ WEBBY_new_connection
  \/ \E n \in 1..BufSize : Recv(n)
  \/ PeerGone \/ RecvOnClosed \/ HeaderParsed \/ Parse \/ DataReceived \/ Close
  \/ ServletsBegin \/ NobodyHandled \/ ServletCall \/ Handled \/ Ignored \/ Failed

WSpec == WInit /\ [][WNext]_wvars

\* The server's thread goes on, and servlets return.
FairSpec == WSpec /\ WF_wvars(ServerStep \/ ServletStep)

-----------------------------------------------------------------------------
NumFinished == Cardinality({i \in DOMAIN received : Finished(i)})

-----------------------------------------------------------------------------
(* Properties *)

WTypeOK ==
  /\ TypeOK
  /\ filters \in Seq([request : Int, response : Int])
  /\ conn.state \in {"none", "listening", "recv", "parsing", "closing", "closed", "crashed"}
  /\ resp.pc \in 0..Servlets + 1 /\ resp.state \in {0, 1, 2, 3, WritesForEver}
  /\ resp.left \in Nat \cup {NoLimit} /\ resp.chunk_no \in Nat

\* However servlets mix their calls, and whichever filter or handler answers,
\* a client can tell the responses apart: each one is framed as its header
\* announced, and answers the request it is read for.
WellFramed == client.st # "broken"

\* When the server waits for the client again, each request it has finished
\* has been answered in full, and nothing else has been sent: the client is not
\* left to wait within a response, unless its end is the end of the connection.
AnsweredInFull ==
  conn.state = "recv" =>
    IF conn.socket THEN client.st = "idle" /\ client.done = NumFinished
    ELSE client.st = "until_close" /\ client.done + 1 = NumFinished

\* A response goes back through the filters that the request went through.
ResponseRetraces ==
  conn.state # "none" =>
    /\ RequestPath[Len(RequestPath)] = Runner
    /\ \A i \in DOMAIN RequestPath :
         /\ i \in DOMAIN ResponsePath
         /\ ResponsePath[i] = RequestPath[Len(RequestPath) + 1 - i]

\* No null pointer is used, whenever and however a connection ends.
NoCrash == conn.state # "crashed"

\* The server comes back from every call of the parser: no response keeps its
\* thread in a loop.
ServerReturns == conn.state = "parsing" ~> conn.state # "parsing"
=============================================================================
