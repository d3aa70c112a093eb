----------------------------- MODULE HttpParser -----------------------------
(***************************************************************************)
(* hutils/http.c: the incremental parser of HTTP requests, and the buffer  *)
(* of nutils/bf.c that it reads.                                           *)
(*                                                                         *)
(* The caller appends whatever arrived to the buffer and calls             *)
(* HTTP_REQUEST_PARSER_process, which consumes what it can and returns a   *)
(* status.  An action is one step of the loop in that function, with the   *)
(* callback it makes; the result of the callback is the parameter ok.      *)
(*                                                                         *)
(* A byte is a record [k, v].  The text of a line is one byte that says    *)
(* what the line is, and "pad" bytes; the buffer is small to match.        *)
(***************************************************************************)
EXTENDS Naturals, Sequences, FiniteSets

CONSTANTS
  Requests,     \* the requests a peer may send, see IsRequest
  MaxRequests,  \* bound on the requests of one connection
  BufSize,      \* bf_size
  Refusals      \* whether callbacks may return an error

Byte(kind, value) == [k |-> kind, v |-> value]
CR  == Byte("CR", 0)
LF  == Byte("LF", 0)
NUL == Byte("NUL", 0)
HeaderKinds == {"length", "chunked", "close", "keepalive", "host", "expect", "other"}

\* What a peer sends: version is 0 or 1 for HTTP/1.x, or 2 for a request line
\* that is none; the headers and the trailer lines are <<kind, value, pads>>;
\* the body is what Content-Length or the chunks say, chunk by chunk.
Lines == (HeaderKinds \cup {"junk"}) \X Nat \X Nat
Has(r, kind) == \E i \in DOMAIN r.headers : r.headers[i][1] = kind

Before(cs, i) == LET sum[j \in 0..i - 1] == IF j = 0 THEN 0 ELSE sum[j - 1] + cs[j]
                 IN sum[i - 1]
BodySize(r) == Before(r.chunks, Len(r.chunks) + 1)

\* What the headers say: the last length that is positive counts.
Announced(r) ==
  LET lengths == {i \in DOMAIN r.headers : r.headers[i][1] = "length" /\ r.headers[i][2] > 0}
      kinds == {r.headers[i][1] : i \in DOMAIN r.headers} \ {"other", "length"}
  IN [version |-> r.version,
      length  |-> IF lengths = {} THEN 0
                  ELSE r.headers[CHOOSE i \in lengths : \A j \in lengths : j <= i][2],
      flags   |-> kinds \cup IF lengths = {} THEN {} ELSE {"length"}]

IsRequest(r) ==
  /\ r.version \in 0..2
  /\ r.headers \in Seq(Lines) /\ r.trailer \in Seq(Lines) /\ r.chunks \in Seq(Nat \ {0})
  /\ Has(r, "chunked") \/ (BodySize(r) = Announced(r).length /\ r.trailer = <<>>)

ASSUME HttpAssumption ==
  /\ \A r \in Requests : IsRequest(r)
  /\ MaxRequests \in Nat /\ BufSize \in Nat \ {0} /\ Refusals \in BOOLEAN

VARIABLES
  sent,     \* the requests the peer sends, one after the other
  fed,      \* how many of their bytes the caller has taken from the peer
  bf,       \* the buffer: mem, get_pos and put_pos; start and end never move
  parser,   \* state and content_left of HTTP_PARSER
  request,  \* HTTP_REQUEST, cleared by HTTP_REQUEST_free
  status,   \* "running", or the PARSER_STATUS returned last; an error is
            \* "refused" when a callback caused it
  received  \* history: what the callbacks have been told

vars == <<sent, fed, bf, parser, request, status, received>>

-----------------------------------------------------------------------------
(* The bytes of a request *)

Pads(n) == [i \in 1..n |-> Byte("pad", 0)]
Line(kind, value, pads) == <<Byte(kind, value)>> \o Pads(pads) \o <<CR, LF>>

Concat(lines) ==
  LET upto[i \in 0..Len(lines)] ==
        IF i = 0 THEN <<>> ELSE upto[i - 1] \o lines[i]
  IN upto[Len(lines)]

HeaderLines(hs) == Concat([i \in 1..Len(hs) |-> Line(hs[i][1], hs[i][2], hs[i][3])])

\* The body bytes are numbered through all chunks.
BodyBytes(from, n) == [i \in 1..n |-> Byte("data", from + i)]

Encode(r) ==
  Line("req", r.version, 0) \o HeaderLines(r.headers) \o <<CR, LF>> \o
  IF Has(r, "chunked")
  THEN Concat([i \in 1..Len(r.chunks) |->
                 Line("size", r.chunks[i], 0)
                   \o BodyBytes(Before(r.chunks, i), r.chunks[i]) \o <<CR, LF>>])
         \o Line("size", 0, 0) \o HeaderLines(r.trailer) \o <<CR, LF>>
  ELSE BodyBytes(0, BodySize(r))

Stream == Concat([i \in 1..Len(sent) |-> Encode(sent[i])])

-----------------------------------------------------------------------------
(* nutils/bf.c *)

Size == bf.put - bf.get
PutSize == BufSize - bf.put
BF_is_full == bf.get = 0 /\ bf.put = BufSize

\* A slip: the positions are reset and the bytes are not moved.
BF_compact_NoMove(b) == [b EXCEPT !.get = 0, !.put = b.put - b.get]

\* memmove: what was behind the moved bytes stays in memory.
BF_compact(b) ==
  LET n == b.put - b.get
  IN [get |-> 0, put |-> n,
      mem |-> [i \in DOMAIN b.mem |-> IF i < n THEN b.mem[b.get + i] ELSE b.mem[i]]]

\* The caller's data goes to position at, and put_pos behind it.
Appended(b, at, bytes) ==
  [b EXCEPT !.put = at + Len(bytes),
            !.mem = [i \in DOMAIN b.mem |->
                       IF i \in at..at + Len(bytes) - 1 THEN bytes[i - at + 1] ELSE b.mem[i]]]

\* BF_get_line_ext looks at one CR after the other for one that a LF follows.
\* It searches as many bytes behind a CR without LF as it did at first, so
\* beyond put_pos; the byte behind the memory is taken for no LF.
Crs == {i \in bf.get..BufSize - 1 : bf.mem[i] = CR}
SearchFrom(c) == LET before == {d + 1 : d \in {e \in Crs : e < c}} \cup {bf.get}
                 IN CHOOSE p \in before : \A q \in before : q <= p
LookedAt(c) == \A d \in {e \in Crs : e <= c} :
                  /\ d < SearchFrom(d) + (Size - 1)
                  /\ SearchFrom(d) = bf.get \/ SearchFrom(d) < bf.put
LineEnds == {c \in Crs : /\ LookedAt(c) /\ Size >= 2
                         /\ c + 1 < BufSize /\ bf.mem[c + 1] = LF}
HasLine == LineEnds # {}
LineEnd == CHOOSE c \in LineEnds : \A d \in LineEnds : c <= d

\* The first byte of the line, and the buffer once the line has been taken:
\* the terminator is zeroed, in the buffer as well.
LineByte == IF LineEnd = bf.get THEN NUL ELSE bf.mem[bf.get]
LineTaken == [bf EXCEPT !.mem[LineEnd] = NUL, !.get = LineEnd + 2]

-----------------------------------------------------------------------------
(* What a step of HTTP_REQUEST_PARSER_process does *)

NoRequest == [version |-> 1, length |-> 0, flags |-> {}]

Return(result) ==
  /\ status' = result
  /\ UNCHANGED <<sent, fed, parser, request, received>>

\* A slip: the parser asks for more and leaves the buffer as it is.
NeedMore_InPlace == UNCHANGED bf /\ Return("need_more")

NeedMore == bf' = BF_compact(bf) /\ Return("need_more")
Error    == UNCHANGED bf /\ Return("error")

\* HTTP_get_line: a line that does not fit the buffer is an error.
NoLine == ~HasLine /\ IF BF_is_full THEN Error ELSE NeedMore

In(state) == status = "running" /\ parser.state = state
GoOn(b, p, rq) ==
  /\ bf' = b /\ parser' = p /\ request' = rq
  /\ UNCHANGED <<sent, fed, status>>

-----------------------------------------------------------------------------
Init ==
  /\ sent \in UNION {[1..n -> Requests] : n \in 0..MaxRequests}
  /\ fed = 0
  /\ bf = [mem |-> [i \in 0..BufSize - 1 |-> NUL], get |-> 0, put |-> 0]
  /\ parser = [state |-> "REQUEST_LINE", left |-> 0]
  /\ request = NoRequest
  /\ status = "completed"
  /\ received = <<>>

\* The caller puts the next n bytes that arrived at a position of the buffer,
\* and calls HTTP_REQUEST_PARSER_process.
Receive(n, at) ==
  /\ n \in 1..PutSize /\ fed + n <= Len(Stream)
  /\ bf' = Appended(bf, at, SubSeq(Stream, fed + 1, fed + n))
  /\ fed' = fed + n
  /\ status' = "running"
  /\ UNCHANGED <<sent, parser, request, received>>

\* After a request the caller calls again for what is left in the buffer.
ProcessAgain ==
  /\ status = "completed"
  /\ status' = "running"
  /\ UNCHANGED <<sent, fed, bf, parser, request, received>>

RequestLine ==
  /\ In("REQUEST_LINE")
  /\ \/ NoLine
     \/ HasLine /\ (LineByte.k # "req" \/ LineByte.v > 1)
          /\ bf' = LineTaken /\ Return("error")
     \/ /\ HasLine /\ LineByte.k = "req" /\ LineByte.v <= 1
        /\ GoOn(LineTaken, [parser EXCEPT !.state = "HEADERS"],
                [request EXCEPT !.version = LineByte.v])
        /\ UNCHANGED received

\* The header actions of hparse.c; their results are ignored.  A length that
\* is not positive leaves the request without one.
HeaderRead(rq, b) ==
  LET set == [rq EXCEPT !.flags = @ \cup {b.k}]
  IN CASE b.k = "length" -> IF b.v = 0 THEN rq ELSE [set EXCEPT !.length = b.v]
       [] b.k = "other"  -> rq
       [] OTHER          -> set

\* A slip: a line without a colon is passed over.
HeaderLine_SkipsJunk ==
  /\ In("HEADERS")
  /\ \/ NoLine
     \/ /\ HasLine /\ LineByte # NUL
        /\ GoOn(LineTaken, parser,
                IF LineByte.k \in HeaderKinds THEN HeaderRead(request, LineByte) ELSE request)
        /\ UNCHANGED received

\* HTTP_parse_header_line, for a header and for a line of the trailer.
HeaderLine ==
  /\ In("HEADERS")
  /\ \/ NoLine
     \/ HasLine /\ LineByte # NUL /\ LineByte.k \notin HeaderKinds
          /\ bf' = LineTaken /\ Return("error")
     \/ /\ HasLine /\ LineByte.k \in HeaderKinds
        /\ GoOn(LineTaken, parser, HeaderRead(request, LineByte))
        /\ UNCHANGED received

\* The empty line: ev_header, and the state that the headers call for.
BodyState == IF "chunked" \in request.flags THEN "CHUNK_HEADER"
             ELSE IF "length" \in request.flags THEN "CONTENT_LENGTH"
             ELSE "next_request"

\* A slip: the caller is sent for more before the body is looked at.
EndOfHeader_Waits(ok) ==
  /\ In("HEADERS") /\ HasLine /\ LineByte = NUL
  /\ received' = Append(received, [request |-> request, body |-> <<>>, done |-> FALSE])
  /\ bf' = BF_compact(LineTaken) /\ UNCHANGED <<sent, fed, request>>
  /\ status' = IF ok THEN "need_more" ELSE "refused"
  /\ parser' = [state |-> BodyState,
                left  |-> IF BodyState = "CONTENT_LENGTH" THEN request.length ELSE parser.left]

\* A slip: the header stays in front of the body.
EndOfHeader_NoCompact(ok) ==
  /\ In("HEADERS") /\ HasLine /\ LineByte = NUL
  /\ received' = Append(received, [request |-> request, body |-> <<>>, done |-> FALSE])
  /\ IF ok
     THEN GoOn(LineTaken,
               [state |-> BodyState,
                left  |-> IF BodyState = "CONTENT_LENGTH" THEN request.length ELSE parser.left],
               request)
     ELSE bf' = LineTaken /\ status' = "refused" /\ UNCHANGED <<sent, fed, parser, request>>

EndOfHeader(ok) ==
  /\ In("HEADERS") /\ HasLine /\ LineByte = NUL
  /\ received' = Append(received, [request |-> request, body |-> <<>>, done |-> FALSE])
  /\ IF ok
     THEN GoOn(BF_compact(LineTaken),
               [state |-> BodyState,
                left  |-> IF BodyState = "CONTENT_LENGTH" THEN request.length ELSE parser.left],
               request)
     ELSE bf' = LineTaken /\ status' = "refused" /\ UNCHANGED <<sent, fed, parser, request>>

\* HTTP_PARSER_content_length_process for the body or for one chunk: ev_body
\* gets what there is of it.
Take == IF Size < parser.left THEN Size ELSE parser.left
Told(bytes) == [received EXCEPT ![Len(received)].body = @ \o bytes]

BodyData(ok) ==
  /\ status = "running" /\ parser.state \in {"CONTENT_LENGTH", "CHUNK_DATA"} /\ Size > 0
  /\ parser.left > 0
  /\ received' = Told([i \in 1..Take |-> bf.mem[bf.get + i - 1]])
  /\ LET taken == [bf EXCEPT !.get = @ + Take]
         left  == [parser EXCEPT !.left = @ - Take]
         next  == IF parser.state = "CHUNK_DATA" THEN "CHUNK_EOF" ELSE "next_request"
     IN IF ~ok
        THEN status' = "refused" /\ UNCHANGED <<sent, fed, bf, parser, request>>
        ELSE IF left.left = 0
        THEN GoOn(taken, [left EXCEPT !.state = next], request)
        ELSE /\ bf' = BF_compact(taken) /\ parser' = left /\ status' = "need_more"
             /\ UNCHANGED <<sent, fed, request>>

BodyMissing ==
  /\ status = "running" /\ parser.state \in {"CONTENT_LENGTH", "CHUNK_DATA"}
  /\ IF Size = 0 THEN NeedMore ELSE parser.left = 0 /\ Error

\* The line with the size of a chunk.  Anything but hexadecimal digits is 0.
ChunkHeader ==
  /\ In("CHUNK_HEADER")
  /\ \/ ~HasLine /\ NeedMore
     \/ /\ HasLine
        /\ LET size == IF LineByte.k = "size" THEN LineByte.v ELSE 0
           IN GoOn(LineTaken,
                   IF size # 0 THEN [state |-> "CHUNK_DATA", left |-> size]
                               ELSE [parser EXCEPT !.state = "CHUNK_TRAILER"],
                   request)
        /\ UNCHANGED received

ChunkEof ==
  /\ In("CHUNK_EOF")
  /\ \/ ~HasLine /\ NeedMore
     \/ /\ HasLine
        /\ GoOn(LineTaken, [parser EXCEPT !.state = "CHUNK_HEADER"], request)
        /\ UNCHANGED received

\* A line of the trailer sends the caller for more data, whatever the buffer
\* still holds; the empty line ends the request.
ChunkTrailer ==
  /\ In("CHUNK_TRAILER")
  /\ \/ NoLine
     \/ HasLine /\ LineByte # NUL /\ LineByte.k \notin HeaderKinds
          /\ bf' = LineTaken /\ Return("error")
     \/ /\ HasLine /\ LineByte.k \in HeaderKinds
        /\ bf' = BF_compact(LineTaken) /\ status' = "need_more"
        /\ request' = HeaderRead(request, LineByte)
        /\ UNCHANGED <<sent, fed, parser, received>>
     \/ /\ HasLine /\ LineByte = NUL
        /\ GoOn(BF_compact(LineTaken), [parser EXCEPT !.state = "next_request"], request)
        /\ UNCHANGED received

\* The label next_request: ev_finish, and the parser is ready for the next one.
NextRequest(ok) ==
  /\ In("next_request")
  /\ UNCHANGED <<sent, fed, bf>>
  /\ IF ok
     THEN /\ received' = [received EXCEPT ![Len(received)].done = TRUE]
          /\ parser' = [parser EXCEPT !.state = "REQUEST_LINE"]
          /\ request' = NoRequest
          /\ status' = "completed"
     ELSE status' = "refused" /\ UNCHANGED <<parser, request, received>>

-----------------------------------------------------------------------------
Outcomes == IF Refusals THEN BOOLEAN ELSE {TRUE}

Step == \/ RequestLine \/ HeaderLine \/ BodyMissing
        \/ ChunkHeader \/ ChunkEof \/ ChunkTrailer
        \/ \E ok \in Outcomes : EndOfHeader(ok) \/ BodyData(ok) \/ NextRequest(ok)

Next == \/ status = "need_more" /\ \E n \in 1..BufSize : Receive(n, bf.put)
        \/ ProcessAgain
        \/ Step

Spec == Init /\ [][Next]_vars

-----------------------------------------------------------------------------
(* What was sent, read from the requests and not from their bytes *)

WellFormed(r) ==
  /\ r.version \in {0, 1}
  /\ \A hs \in {r.headers, r.trailer} : \A i \in DOMAIN hs :
        hs[i][1] # "junk" /\ 3 + hs[i][3] <= BufSize

EndOf(i) == Len(Concat([j \in 1..i |-> Encode(sent[j])]))
Finished(i) == i \in DOMAIN received /\ received[i].done

-----------------------------------------------------------------------------
(* Properties *)

\* The buffer keeps get_pos <= put_pos <= end, content_left is positive while
\* a body is read, and the variables have their types.
TypeOK ==
  /\ fed \in 0..Len(Stream)
  /\ bf.get \in 0..bf.put /\ bf.put \in 0..BufSize
  /\ parser.state \in {"REQUEST_LINE", "HEADERS", "CONTENT_LENGTH", "CHUNK_HEADER",
                        "CHUNK_DATA", "CHUNK_EOF", "CHUNK_TRAILER", "next_request"}
  /\ parser.left \in Nat
  /\ parser.state \in {"CONTENT_LENGTH", "CHUNK_DATA"} => parser.left > 0
  /\ status \in {"running", "need_more", "completed", "error", "refused"}

\* However the bytes of the requests were split when they arrived, the
\* callbacks are told exactly what was sent: each request once and in order,
\* with its headers, its body without a byte lost, doubled or out of place,
\* and none before the one in front of it has finished.
ReceivedAsSent ==
  /\ Len(received) <= Len(sent)
  /\ \A i \in DOMAIN received :
       /\ received[i].request = Announced(sent[i])
       /\ Len(received[i].body) <= BodySize(sent[i])
       /\ received[i].body = BodyBytes(0, Len(received[i].body))
       /\ received[i].done => Len(received[i].body) = BodySize(sent[i])
       /\ i < Len(received) => received[i].done

\* The parser never asks for more while it holds the last byte of a request
\* that is not finished: a peer that waits for the answer would wait for ever.
AllFinishedWhenReceived ==
  status = "need_more" =>
    \A i \in DOMAIN sent :
      fed >= EndOf(i) /\ (\A j \in 1..i : WellFormed(sent[j])) => Finished(i)

\* The same for a peer that sends no trailers.
FinishedWhenReceived ==
  (\A i \in DOMAIN sent : sent[i].trailer = <<>>) => AllFinishedWhenReceived

\* An error is reported for a malformed request only, after every request in
\* front of it has finished; such a request is never taken for a good one.
RejectsTheMalformed ==
  /\ status = "error" =>
       \E i \in DOMAIN sent : ~WellFormed(sent[i]) /\ \A j \in 1..i - 1 : Finished(j)
  /\ \A i \in DOMAIN sent : Finished(i) => WellFormed(sent[i])

\* Whenever the parser asks for more, what it has not parsed is at the start of
\* the buffer and there is room behind it: a caller that offers the free part
\* of the buffer to recv offers something.  Header lines that do not fit are
\* refused; lines with a chunk size are not (http.c:480) and are short here.
ReadyForMore == status = "need_more" => bf.get = 0 /\ PutSize > 0
=============================================================================
