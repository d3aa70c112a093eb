----------------------------- MODULE WebbyProofs -----------------------------
(****************************************************************************)
(* The server answers every request of a connection in full and in order,   *)
(* whatever the requests, the number of servlets, the sizes of what they    *)
(* write and the size of the buffer.                                        *)
(*                                                                          *)
(* The invariant has four parts.  ParserInv is the one of HttpParserProofs; *)
(* the buffer it speaks of is emptied when the request is at its end, since *)
(* the header of the response is formatted over it.  ConnInv ties what the  *)
(* front end does to what the parser returned.  BufferInv says when the     *)
(* buffer holds nothing.  ServeInv relates the response that is written to  *)
(* what the client has read of it.                                          *)
(****************************************************************************)
EXTENDS Webby, HttpParserProofs

-----------------------------------------------------------------------------
(* The inductive invariant *)

\* What webby.h asks of servlets and what the front ends take for granted:
\* servlets send what they announced, recv stops at the end of a line or within a
\* body and never behind a second request.  A trailer would leave bytes behind it.
Contract ==
  /\ Lapses = {} /\ Splits = FALSE
  /\ \A r \in Requests : r.trailer = <<>>

\* From the end of a request on the buffer holds nothing but the response.
Answering == status \in {"completed", "refused"} \/ parser.state = "next_request"
Emptied   == [bf EXCEPT !.get = 0, !.put = 0]
Seen      == IF Answering THEN Emptied ELSE bf

\* Where recv stopped.
Stopped(s, f, p, rc) ==
  /\ f = 0 \/ StreamOf(s)[f] = LF \/ StreamOf(s)[f].k = "data"
  /\ Current(p, rc) <= Len(s) => f + Len(Later(s, Current(p, rc))) <= Len(StreamOf(s))

ParserInv ==
  /\ Good(sent, fed, Seen, parser, request, status, received)
  /\ status \notin {"error", "refused"} => Stopped(sent, fed, parser, received)

ConnStates == {"none", "listening", "recv", "parsing", "closing", "closed", "crashed"}
ConnTypes  == conn \in [state : ConnStates, socket : BOOLEAN, ctx : BOOLEAN]

\* What the front end does, by what the parser returned.
ConnInv ==
  /\ ConnTypes
  /\ conn.state \in {"none", "listening"} => received = <<>> /\ status = "completed" /\ resp.pc = 0
  /\ conn.state = "recv" => status \in {"completed", "need_more"}
  /\ status = "running" => conn.state = "parsing"
  /\ status = "completed" => parser.state = "REQUEST_LINE"
  /\ status = "need_more" => parser.state # "next_request"

\* The buffer is empty when the next bytes are received, and behind a request.
BufferInv ==
  /\ bf \in Buffers /\ bf.get <= bf.put /\ bf.put <= BufSize
  /\ conn.state \in {"none", "listening", "recv"} /\ status = "completed" => bf.get = 0 /\ bf.put = 0
  /\ status = "need_more" => bf.get = bf.put
  /\ In("next_request") /\ resp.state \in {0, 1} => bf.get = bf.put

\* The response that is being written, and the client that reads it.
Idle(n) == client.st = "idle" /\ client.done = n

Kinds == {"close", "length", "chunked"}
Responses ==
  [pc : Nat, state : {0, 1, 2, 3, WritesForEver}, flags : SUBSET Kinds, left : Nat \cup {NoLimit},
   chunk_no : Nat, asked : Kinds \cup {"none"}, todo : Nat, calls : Nat, failed : {FALSE}]

\* The response as HTTP_response_start left it: one kind, and what was announced.
Started ==
  /\ resp.state = 0 => resp.flags = {} /\ resp.asked = "none"
  /\ resp.state # 0 => \E kind \in Kinds : resp.flags = {kind}
  /\ resp.flags = {"length"}  => resp.asked = "length" /\ resp.left = resp.todo
  /\ resp.flags = {"chunked"} => resp.asked = "chunked"
  /\ resp.flags = {"close"}   => resp.left = NoLimit

\* How far the client is in the response of the last request, by what was written.
Written ==
  LET d == Len(received) - 1
  IN /\ resp.state \in {0, 1} => resp.chunk_no = 0
     /\ resp.state \in {0, 1, WritesForEver} => Idle(d)
     /\ resp.state \in {2, 3} /\ resp.flags = {"length"} =>
          IF resp.left = 0 THEN Idle(d + 1)
          ELSE resp.state = 2 /\ client.st = "body" /\ client.left = resp.left /\ client.done = d
     /\ resp.state \in {2, 3} /\ resp.flags = {"close"} => client.st = "until_close" /\ client.done = d
     /\ resp.state = 2 /\ resp.flags = {"chunked"} => client.st = "next_chunk" /\ client.done = d
     /\ resp.state = 3 /\ resp.flags = {"chunked"} => Idle(d + 1)
     /\ conn.socket = ~(resp.state = 3 /\ resp.flags = {"close"})

\* A servlet has been called, or all have ignored the request.
Serving ==
  /\ resp.pc \in 1 .. Servlets + 1 /\ In("next_request")
  /\ resp.pc = Servlets + 1 => resp.state \in {0, 1}
  /\ Started /\ Written

\* No servlet has been called: the client has the answers to the requests before.
Pending == Current(parser, received) - 1
Waiting ==
  /\ resp = NoResponse
  /\ conn.state \in {"none", "listening", "recv", "parsing"} /\ status \notin {"error", "refused"} =>
       IF conn.socket \/ conn.state \in {"none", "listening"} THEN Idle(Pending)
       ELSE /\ client.st = "until_close" /\ client.done + 1 = Pending
            /\ status = "completed"

Clients == [st : {"idle", "body", "first_chunk", "next_chunk", "until_close"}, left : Nat, done : Nat]
ServeInv ==
  /\ resp \in Responses /\ client \in Clients
  /\ IF resp.pc = 0 THEN Waiting ELSE Serving

WInv == ParserInv /\ ConnInv /\ BufferInv /\ ServeInv

-----------------------------------------------------------------------------
(* The parser, when recv stops at the end of a line or within a body *)

\* Emptying a buffer that holds nothing, or that nobody reads any more.
LEMMA SeenGood ==
  ASSUME NEW s, NEW f, NEW b, NEW p, NEW rq, NEW st, NEW rc, Good(s, f, b, p, rq, st, rc),
         b.get = b.put \/ st = "refused"
  PROVE  Good(s, f, [b EXCEPT !.get = 0, !.put = 0], p, rq, st, rc)
<1> DEFINE v == [b EXCEPT !.get = 0, !.put = 0]
<1>1. BufSize \in Nat \ {0} /\ Holds(StreamOf(s), b, f)
  BY Facts DEF Good
<1>2. b \in Buffers /\ f \in Nat /\ f <= Len(StreamOf(s))
  BY <1>1 DEF Holds
<1>3. v \in Buffers /\ v.get = 0 /\ v.put = 0
  BY <1>1, <1>2 DEF Buffers
<1> HIDE DEF v
<1>4. Holds(StreamOf(s), v, f)
  BY <1>1, <1>2, <1>3 DEF Holds
<1>5. b.get = b.put => Pos(v, f) = Pos(b, f)
  BY <1>2, <1>3 DEF Pos, Buffers
<1>6. Good(s, f, v, p, rq, st, rc)
  BY <1>1, <1>3, <1>4, <1>5 DEF Good
<1> QED
  BY <1>6 DEF v

\* The whole of the request has been read, so that of what was fed nothing is left.
LEMMA NothingLeft ==
  ASSUME NEW s, NEW f, NEW b, NEW p, NEW rq, NEW st, NEW rc, Good(s, f, b, p, rq, st, rc),
         p.state = "next_request", st \notin {"error", "refused"}, Stopped(s, f, p, rc)
  PROVE  b.get = b.put
<1> DEFINE n == Len(rc)
           str == StreamOf(s)
           y == Later(s, n)
<1>1. s \in Seq(Requests) /\ Holds(str, b, f) /\ History(s, rc) /\ Stands(s, Rest(str, Pos(b, f)), p, rq, rc)
  BY DEF Good
<1>2. n > 0 /\ Rest(str, Pos(b, f)) = y
  BY <1>1 DEF Stands, InBody, AtEnd
<1>3. n \in Nat /\ n <= Len(s) /\ n \in 0 .. Len(s)
  BY <1>1 DEF History
<1>4. str \in Seq(Bytes) /\ Len(y) \in Nat
  BY <1>1, <1>3, Facts
<1>5. f + Len(y) <= Len(str)
  BY <1>3 DEF Stopped, Current
<1>6. /\ Pos(b, f) \in 0 .. Len(str) /\ f \in Nat /\ b.get \in Nat /\ b.put \in Nat
      /\ Pos(b, f) = f - (b.put - b.get) /\ b.get <= b.put
  BY <1>1, <1>4 DEF Holds, Pos, Buffers
<1> HIDE DEF str, y, n
<1>7. Len(y) = Len(str) - Pos(b, f)
  BY <1>2, <1>4, <1>6, RestIs
<1> QED
  BY <1>4, <1>5, <1>6, <1>7

\* A line of which anything is in the buffer is there to its end.
LEMMA WholeLine ==
  ASSUME BufSize \in Nat, NEW str \in Seq(Bytes), Holds(str, bf, fed),
         NEW a, NEW q, Terminated(a, q), NEW b \in Seq(Bytes),
         Rest(str, Pos(bf, fed)) = Join(a, b), Size # 0,
         fed = 0 \/ str[fed] = LF \/ str[fed].k = "data"
  PROVE  HasLine
<1>1. HasLine <=> Size >= q + 1
  BY LineFound
<1>2. SUFFICES ASSUME Size < q + 1 PROVE FALSE
  <2>1. Size \in Int /\ q \in Nat
    BY DEF Size, Holds, Buffers, Terminated
  <2> QED
    BY <1>1, <2>1
<1> DEFINE p == Pos(bf, fed)
<1>3. /\ p \in 0 .. Len(str) /\ Size \in 1 .. q /\ q \in Nat /\ fed = p + Size /\ fed # 0
      /\ a \in Seq(Bytes) /\ Len(a) = q + 1
  <2>1. a \in Seq(Bytes) /\ q \in Nat /\ Len(a) = q + 1
    BY DEF Terminated
  <2>2. /\ bf.get \in Nat /\ bf.put \in Nat /\ bf.get <= bf.put /\ fed \in Nat
        /\ bf.put - bf.get <= fed /\ fed <= Len(str)
    BY DEF Holds, Buffers
  <2>3. Len(str) \in Nat
    OBVIOUS
  <2>4. Size \in Nat /\ Size <= fed /\ p = fed - Size
    BY <2>2 DEF Size, Pos
  <2> HIDE DEF p
  <2>5. Size \in 1 .. q
    BY <1>2, <2>1, <2>4
  <2>6. fed = p + Size /\ fed # 0 /\ p \in 0 .. fed
    BY <2>2, <2>4, <2>5
  <2>7. p \in 0 .. Len(str)
    BY <2>2, <2>3, <2>6
  <2> QED
    BY <2>1, <2>5, <2>6, <2>7
<1>4. Rest(str, p) = Join(a, b)
  OBVIOUS
<1> HIDE DEF p
<1>5. str[fed] = a[Size]
  <2>1. \A j \in 1 .. Len(a) : str[p + j] = a[j]
    BY <1>3, <1>4, Drop
  <2> QED
    BY <1>3, <2>1
<1>6. a[Size] = CR \/ a[Size].k \in LineKinds \cup {"pad"}
  BY <1>3 DEF Terminated
<1> QED
  BY <1>3, <1>5, <1>6, EndBytes


\* Where the parser looks for a line the next bytes of the stream are one.
LEMMA LineNext ==
  ASSUME Inv, status = "running",
         parser.state \in {"REQUEST_LINE", "HEADERS", "CHUNK_HEADER", "CHUNK_EOF", "CHUNK_TRAILER"}
  PROVE  \/ Size = 0
         \/ \E a, q, b : /\ Terminated(a, q) /\ b \in Seq(Bytes)
                         /\ Rest(StreamOf(sent), Pos(bf, fed)) = Join(a, b)
<1> DEFINE n   == Len(received)
           str == StreamOf(sent)
<1>1. /\ sent \in Seq(Requests) /\ str \in Seq(Bytes) /\ BufSize \in Nat /\ Holds(str, bf, fed)
      /\ parser \in Parsers /\ n \in Nat /\ Len(sent) \in Nat /\ n <= Len(sent)
      /\ \A i \in 1 .. Len(sent) : IsRequest(sent[i])
      /\ \A k \in 0 .. Len(sent) : Later(sent, k) \in Seq(Bytes)
  BY InvFacts
<1>2. CASE parser.state = "REQUEST_LINE"
  <2> DEFINE r == sent[n + 1]
             y == Later(sent, n + 1)
  <2>1. Rest(str, Pos(bf, fed)) = Later(sent, n)
    BY <1>2, InvFacts DEF Stands
  <2>2. CASE n = Len(sent)
    <3>1. Later(sent, n) = <<>>
      BY <1>1, <2>2, HttpAssumption, StreamIs
    <3> HIDE DEF str, n
    <3> QED
      BY <1>1, <2>1, <3>1, NothingThere
  <2>3. CASE n < Len(sent)
    <3>1. n + 1 \in 1 .. Len(sent) /\ n + 1 \in 0 .. Len(sent) /\ n \in 0 .. Len(sent)
      BY <1>1, <2>3
    <3>2. Later(sent, n) = Join(Line("req", r.version, 0), HeadersLeft(r, 0, y))
      BY <1>1, <2>3, <3>1, HttpAssumption, StreamIs
    <3>3. IsRequest(r) /\ y \in Seq(Bytes)
      BY <1>1, <3>1
    <3> HIDE DEF r, y, n, str
    <3>4. 0 \in 0 .. Len(r.headers) /\ Terminated(Line("req", r.version, 0), 2)
      BY <3>3, Pieces
    <3>5. HeadersLeft(r, 0, y) \in Seq(Bytes)
      BY <3>3, <3>4, HeadersAre
    <3> QED
      BY <2>1, <3>2, <3>4, <3>5 DEF str
  <2> QED
    BY <1>1, <2>2, <2>3
<1>3. CASE parser.state = "HEADERS"
  <2> DEFINE r == sent[n + 1]
             z == Body(r, Later(sent, n + 1))
  <2>1. /\ z \in Seq(Bytes) /\ r.headers \in Seq(Lines)
        /\ \E i \in 0 .. Len(r.headers) :
             Rest(str, Pos(bf, fed)) = Left(LinesOf(r.headers), i, Join(Blank, z))
    BY <1>3, InHeaders
  <2> HIDE DEF r, z
  <2>2. PICK i \in 0 .. Len(r.headers) :
          Rest(str, Pos(bf, fed)) = Left(LinesOf(r.headers), i, Join(Blank, z))
    BY <2>1
  <2>3. PICK a, q, b : /\ Terminated(a, q) /\ b \in Seq(Bytes)
                       /\ Left(LinesOf(r.headers), i, Join(Blank, z)) = Join(a, b)
    BY <2>1, NextLine
  <2> QED
    BY <2>2, <2>3
<1>4. CASE parser.state \in {"CHUNK_HEADER", "CHUNK_EOF", "CHUNK_TRAILER"}
  <2> DEFINE r == sent[n]
             y == Later(sent, n)
             m == Len(received[n].body)
             rest == Rest(str, Pos(bf, fed))
  <2>1. /\ IsRequest(r) /\ y \in Seq(Bytes) /\ InBody(r, y, rest, parser, m) /\ m \in Nat
    BY <1>4, InBodyFacts
  <2> HIDE DEF r, y, m, rest
  <2>2. CASE parser.state = "CHUNK_HEADER"
    <3>1. PICK a, b \in Seq(Bytes), v \in Nat :
            /\ Terminated(a, 2) /\ Len(y) <= Len(b) /\ rest = Join(a, b) /\ a[1] = Byte("size", v)
            /\ v # 0 => InBody(r, y, b, [state |-> "CHUNK_DATA", left |-> v], m)
            /\ v = 0 => \A l \in Nat : InBody(r, y, b, [state |-> "CHUNK_TRAILER", left |-> l], m)
      BY <2>1, <2>2, NextChunk
    <3> QED
      BY <3>1 DEF rest
  <2>3. CASE parser.state = "CHUNK_EOF"
    <3>1. PICK c \in 1 .. Len(r.chunks) : rest = Join(Blank, ChunksLeft(r, c, y))
      BY <2>1, <2>3 DEF InBody, AtChunkEof
    <3>2. c \in 0 .. Len(r.chunks)
      BY <2>1, Pieces
    <3>3. ChunksLeft(r, c, y) \in Seq(Bytes)
      BY <2>1, <3>2, ChunksAre
    <3> QED
      BY <3>1, <3>3, BlankIsTerminated DEF rest
  <2>4. CASE parser.state = "CHUNK_TRAILER"
    <3>1. PICK i \in 0 .. Len(r.trailer) : rest = TrailerLeft(r, i, y)
      BY <2>1, <2>4 DEF InBody, AtTrailer
    <3>2. r.trailer \in Seq(Lines)
      BY <2>1, Pieces
    <3>3. PICK a, q, b : /\ Terminated(a, q) /\ b \in Seq(Bytes)
                         /\ Left(LinesOf(r.trailer), i, Join(Blank, y)) = Join(a, b)
      BY <2>1, <3>2, NextLine
    <3> QED
      BY <3>1, <3>3 DEF rest, TrailerLeft
  <2> QED
    BY <1>4, <2>2, <2>3, <2>4
<1> QED
  BY <1>2, <1>3, <1>4

\* So when the parser asks for more it has nothing left.
LEMMA NoLineLeft ==
  ASSUME Inv, status = "running", Stopped(sent, fed, parser, received),
         parser.state \in {"REQUEST_LINE", "HEADERS", "CHUNK_HEADER", "CHUNK_EOF", "CHUNK_TRAILER"},
         ~HasLine
  PROVE  Size = 0
<1>1. /\ StreamOf(sent) \in Seq(Bytes) /\ BufSize \in Nat /\ Holds(StreamOf(sent), bf, fed)
  BY InvFacts
<1>2. SUFFICES ASSUME Size # 0 PROVE FALSE
  OBVIOUS
<1>3. PICK a, q, b : /\ Terminated(a, q) /\ b \in Seq(Bytes)
                     /\ Rest(StreamOf(sent), Pos(bf, fed)) = Join(a, b)
  BY <1>2, LineNext
<1>4. fed = 0 \/ StreamOf(sent)[fed] = LF \/ StreamOf(sent)[fed].k = "data"
  BY DEF Stopped
<1> QED
  BY <1>1, <1>2, <1>3, <1>4, WholeLine


\* What a step of the parser before the end of the request does not change.
Advances ==
  /\ sent' = sent /\ fed' = fed /\ status' \in {"running", "need_more", "error", "refused"}
  /\ status' \notin {"error", "refused"} => Current(parser', received') = Current(parser, received)
  /\ status' = "need_more" => bf'.get = bf'.put
  /\ parser'.state = "next_request" => status' = "running"

\* A line that is not there yet: a request for more, or a full buffer.
LEMMA NoLineAdvances ==
  ASSUME Inv, status = "running", Stopped(sent, fed, parser, received),
         parser.state \in {"REQUEST_LINE", "HEADERS", "CHUNK_HEADER", "CHUNK_EOF", "CHUNK_TRAILER"},
         ~HasLine, Error \/ NeedMore
  PROVE  Advances
<1>1. Size = 0
  BY NoLineLeft
<1>2. NeedMore => bf'.get = 0 /\ bf'.put = 0
  BY <1>1 DEF NeedMore, BF_compact, Size
<1> QED
  BY <1>2 DEF Error, NeedMore, Return, Advances

LEMMA RequestLineAdvances ==
  ASSUME Inv, status = "running", Stopped(sent, fed, parser, received), RequestLine
  PROVE  Advances
<1>1. parser \in Parsers /\ parser.state = "REQUEST_LINE"
  BY InvFacts DEF RequestLine, In
<1>2. CASE NoLine
  BY <1>1, <1>2, NoLineAdvances DEF NoLine
<1>3. CASE Return("error")
  BY <1>1, <1>3 DEF Return, Advances
<1>4. CASE GoOn(LineTaken, [parser EXCEPT !.state = "HEADERS"],
                [request EXCEPT !.version = LineByte.v]) /\ received' = received
  <2>1. parser'.state = "HEADERS"
    BY <1>1, <1>4 DEF GoOn, Parsers
  <2> QED
    BY <1>1, <1>4, <2>1 DEF GoOn, Current, Advances
<1> QED
  BY <1>2, <1>3, <1>4 DEF RequestLine

LEMMA HeaderLineAdvances ==
  ASSUME Inv, status = "running", Stopped(sent, fed, parser, received), HeaderLine
  PROVE  Advances
<1>1. parser.state = "HEADERS"
  BY DEF HeaderLine, In
<1>2. CASE NoLine
  BY <1>1, <1>2, NoLineAdvances DEF NoLine
<1>3. CASE Return("error")
  BY <1>1, <1>3 DEF Return, Advances
<1>4. CASE GoOn(LineTaken, parser, HeaderRead(request, LineByte)) /\ received' = received
  BY <1>1, <1>4 DEF GoOn, Current, Advances
<1> QED
  BY <1>2, <1>3, <1>4 DEF HeaderLine

LEMMA EndOfHeaderAdvances ==
  ASSUME Inv, status = "running", NEW ok \in BOOLEAN, EndOfHeader(ok)
  PROVE  Advances /\ (ok => status' = "running") /\ (~ok => status' = "refused")
         /\ Len(received') = Len(received) + 1
<1>1. parser.state = "HEADERS" /\ received \in Seq(Records)
  BY InvFacts DEF EndOfHeader, In
<1>2. Len(received') = Len(received) + 1
  BY <1>1 DEF EndOfHeader
<1>3. CASE ok
  <2>1. /\ sent' = sent /\ fed' = fed /\ status' = status
        /\ parser'.state = BodyState
    BY <1>3 DEF EndOfHeader, GoOn
  <2>2. Current(parser', received') = Current(parser, received)
    BY <1>1, <1>2, <2>1 DEF Current, BodyState
  <2> QED
    BY <1>2, <1>3, <2>1, <2>2 DEF Advances
<1>4. CASE ~ok
  BY <1>1, <1>2, <1>4 DEF EndOfHeader, Advances
<1> QED
  BY <1>3, <1>4

LEMMA BodyDataAdvances ==
  ASSUME Inv, status = "running", BodyData(TRUE)
  PROVE  Advances
<1> DEFINE taken == [bf EXCEPT !.get = @ + Take]
           left  == [parser EXCEPT !.left = @ - Take]
           next  == IF parser.state = "CHUNK_DATA" THEN "CHUNK_EOF" ELSE "next_request"
<1>1. /\ parser \in Parsers /\ parser.state \in {"CONTENT_LENGTH", "CHUNK_DATA"}
      /\ received \in Seq(Records) /\ Holds(StreamOf(sent), bf, fed)
  BY InvFacts DEF BodyData
<1>2. Len(received') = Len(received)
  BY <1>1 DEF BodyData, Told
<1>3. /\ bf.get \in Nat /\ bf.put \in Nat /\ parser.left \in Nat /\ Size \in Nat
      /\ taken.get = bf.get + Take /\ taken.put = bf.put /\ left.left = parser.left - Take
      /\ left.state = parser.state
  BY <1>1 DEF Holds, Buffers, Parsers, Size
<1>4. CASE left.left = 0 /\ GoOn(taken, [left EXCEPT !.state = next], request)
  <2>1. parser'.state = next /\ status' = "running" /\ sent' = sent /\ fed' = fed
    BY <1>1, <1>4 DEF GoOn, Parsers
  <2>2. Current(parser', received') = Current(parser, received)
    BY <1>1, <1>2, <2>1 DEF Current
  <2> QED
    BY <2>1, <2>2 DEF Advances
<1>5. CASE /\ left.left # 0 /\ bf' = BF_compact(taken) /\ parser' = left /\ status' = "need_more"
           /\ UNCHANGED <<sent, fed, request>>
  <2>1. Take = Size
    BY <1>3, <1>5 DEF Take
  <2>2. bf'.get = 0 /\ bf'.put = taken.put - taken.get
    BY <1>5 DEF BF_compact
  <2>3. bf'.put = 0
    BY <1>3, <2>1, <2>2 DEF Size
  <2>4. Current(parser', received') = Current(parser, received)
    BY <1>1, <1>2, <1>3, <1>5 DEF Current
  <2> QED
    BY <1>1, <1>3, <1>5, <2>2, <2>3, <2>4 DEF Advances
<1> QED
  BY <1>4, <1>5 DEF BodyData

LEMMA BodyMissingAdvances ==
  ASSUME Inv, status = "running", BodyMissing
  PROVE  Advances
<1>1. parser.state \in {"CONTENT_LENGTH", "CHUNK_DATA"}
  BY DEF BodyMissing
<1>2. CASE Size = 0 /\ NeedMore
  BY <1>1, <1>2 DEF NeedMore, BF_compact, Size, Return, Advances
<1>3. CASE Error
  BY <1>1, <1>3 DEF Error, Return, Advances
<1> QED
  BY <1>2, <1>3 DEF BodyMissing

LEMMA ChunkLineAdvances ==
  ASSUME Inv, status = "running", Stopped(sent, fed, parser, received), ChunkHeader \/ ChunkEof
  PROVE  Advances
<1>1. parser \in Parsers /\ parser.state \in {"CHUNK_HEADER", "CHUNK_EOF"}
  BY InvFacts DEF ChunkHeader, ChunkEof, In
<1>2. CASE ~HasLine /\ NeedMore
  BY <1>1, <1>2, NoLineAdvances
<1>3. CASE HasLine
  <2>1. /\ sent' = sent /\ fed' = fed /\ status' = "running" /\ received' = received
        /\ parser'.state \in {"CHUNK_DATA", "CHUNK_TRAILER", "CHUNK_HEADER"}
    BY <1>1, <1>3 DEF ChunkHeader, ChunkEof, GoOn, NeedMore, Return, Parsers
  <2> QED
    BY <1>1, <2>1 DEF Current, Advances
<1> QED
  BY <1>2, <1>3 DEF ChunkHeader, ChunkEof

LEMMA ChunkTrailerAdvances ==
  ASSUME Inv, status = "running", Stopped(sent, fed, parser, received), ChunkTrailer,
         \A r \in Requests : r.trailer = <<>>
  PROVE  Advances
<1> DEFINE n == Len(received)
           r == sent[n]
           y == Later(sent, n)
           str == StreamOf(sent)
<1>1. /\ parser \in Parsers /\ parser.state = "CHUNK_TRAILER" /\ sent \in Seq(Requests)
      /\ str \in Seq(Bytes) /\ BufSize \in Nat /\ Holds(str, bf, fed)
  BY InvFacts DEF ChunkTrailer, In
<1>2. CASE NoLine
  BY <1>1, <1>2, NoLineAdvances DEF NoLine
<1>3. CASE Return("error")
  BY <1>1, <1>3 DEF Return, Advances
<1>4. HasLine => LineByte.k \notin HeaderKinds
  <2>1. /\ n \in 1 .. Len(sent) /\ y \in Seq(Bytes)
        /\ InBody(r, y, Rest(str, Pos(bf, fed)), parser, Len(received[n].body))
    BY <1>1, InBodyFacts
  <2>2. r.trailer = <<>>
    BY <1>1, <2>1
  <2> HIDE DEF r, y, n, str
  <2>3. PICK i \in 0 .. Len(r.trailer) : Rest(str, Pos(bf, fed)) = TrailerLeft(r, i, y)
    BY <1>1, <2>1 DEF InBody, AtTrailer
  <2>4. r.trailer \in Seq(Lines) /\ i = Len(r.trailer)
    BY <2>2, <2>3
  <2>5. Rest(str, Pos(bf, fed)) = Left(LinesOf(r.trailer), i, Join(Blank, y))
    BY <2>3 DEF TrailerLeft
  <2>6. HasLine => LineByte = NUL
    BY <1>1, <2>1, <2>4, <2>5, LineIs
  <2>7. NUL.k \notin HeaderKinds
    BY DEF NUL, Byte, HeaderKinds
  <2> QED
    BY <2>6, <2>7
<1>5. CASE GoOn(BF_compact(LineTaken), [parser EXCEPT !.state = "next_request"], request)
           /\ received' = received
  <2>1. parser'.state = "next_request"
    BY <1>1, <1>5 DEF GoOn, Parsers
  <2> QED
    BY <1>1, <1>5, <2>1 DEF GoOn, Current, Advances
<1> QED
  BY <1>2, <1>3, <1>4, <1>5 DEF ChunkTrailer


Parsed ==
  \/ RequestLine \/ HeaderLine \/ BodyMissing \/ ChunkHeader \/ ChunkEof \/ ChunkTrailer
  \/ BodyData(TRUE) \/ \E ok \in BOOLEAN : EndOfHeader(ok)

\* A step of the parser before the end of a request keeps the invariant.
LEMMA ParsedKeeps ==
  ASSUME ParserInv, Contract, Parsed
  PROVE  /\ ParserInv' /\ Advances /\ status = "running" /\ parser.state # "next_request"
         /\ bf' \in Buffers /\ bf'.get <= bf'.put /\ bf'.put <= BufSize
         /\ In("next_request")' => bf'.get = bf'.put
<1>1. status = "running" /\ parser.state # "next_request"
  BY DEF Parsed, RequestLine, HeaderLine, BodyMissing, ChunkHeader, ChunkEof, ChunkTrailer,
         BodyData, EndOfHeader, In
<1>2. Inv
  BY <1>1 DEF ParserInv, Seen, Answering, Inv
<1>3. Stopped(sent, fed, parser, received) /\ \A r \in Requests : r.trailer = <<>>
  BY <1>1 DEF ParserInv, Contract
<1>4. Inv'
  BY <1>2, RequestLineKeeps, HeaderLineKeeps, BodyMissingKeeps, ChunkHeaderKeeps, ChunkEofKeeps,
     ChunkTrailerKeeps, BodyDataKeeps, EndOfHeaderKeeps DEF Parsed
<1>5. Advances
  BY <1>1, <1>2, <1>3, RequestLineAdvances, HeaderLineAdvances, BodyMissingAdvances,
     ChunkLineAdvances, ChunkTrailerAdvances, BodyDataAdvances, EndOfHeaderAdvances DEF Parsed
<1>6. Good(sent', fed', bf', parser', request', status', received')
  BY <1>4 DEF Inv
<1>7. status' \notin {"error", "refused"} => Stopped(sent', fed', parser', received')
  BY <1>3, <1>5 DEF Stopped, Advances
<1>8. Good(sent', fed', Seen', parser', request', status', received')
  <2>1. CASE ~Answering'
    BY <1>6, <2>1 DEF Seen
  <2>2. CASE Answering'
    <3>1. bf'.get = bf'.put \/ status' = "refused"
      <4>1. status' # "completed"
        BY <1>5 DEF Advances
      <4>2. CASE parser'.state = "next_request"
        <5>1. status' = "running"
          BY <1>5, <4>2 DEF Advances
        <5> QED
          BY <1>6, <1>7, <4>2, <5>1, NothingLeft
      <4> QED
        BY <2>2, <4>1, <4>2 DEF Answering
    <3>2. Seen' = [bf' EXCEPT !.get = 0, !.put = 0]
      BY <2>2 DEF Seen, Emptied
    <3> QED
      BY <1>6, <3>1, <3>2, SeenGood
  <2> QED
    BY <2>1, <2>2
<1>9. ParserInv'
  BY <1>7, <1>8 DEF ParserInv
<1>10. bf' \in Buffers /\ bf'.get <= bf'.put /\ bf'.put <= BufSize
  BY <1>6 DEF Good, Holds
<1>11. In("next_request")' => bf'.get = bf'.put
  <2>1. SUFFICES ASSUME parser'.state = "next_request", status' = "running"
                 PROVE  bf'.get = bf'.put
    BY DEF In
  <2>2. status' \notin {"error", "refused"}
    BY <2>1
  <2> QED
    BY <1>6, <1>7, <2>1, <2>2, NothingLeft
<1> QED
  BY <1>1, <1>5, <1>9, <1>10, <1>11


\* What has been fed is short of the end of the request that the parser waits for.
LEMMA ShortOfEnd ==
  ASSUME NEW s, NEW f, NEW b, NEW p, NEW rq, NEW st, NEW rc, Good(s, f, b, p, rq, st, rc),
         b.get = b.put, \A r \in Requests : r.trailer = <<>>,
         st = "need_more" \/ (st = "completed" /\ p.state = "REQUEST_LINE"),
         Current(p, rc) <= Len(s)
  PROVE  Current(p, rc) \in 1 .. Len(s) /\ f + Len(Later(s, Current(p, rc))) < Len(StreamOf(s))
<1> DEFINE n == Len(rc)
           str == StreamOf(s)
<1>1. /\ s \in Seq(Requests) /\ Holds(str, b, f) /\ History(s, rc) /\ Len(s) \in Nat
      /\ Stands(s, Rest(str, Pos(b, f)), p, rq, rc)
  BY DEF Good
<1>2. n \in Nat /\ n <= Len(s) /\ str \in Seq(Bytes) /\ BufSize \in Nat
  BY <1>1, Facts DEF History
<1>3. Current(p, rc) \in 1 .. Len(s)
  BY <1>1, <1>2 DEF Stands, Current
<1>4. CASE st = "need_more"
  <2>1. \A i \in 1 .. Len(s) : s[i].trailer = <<>>
    BY <1>1
  <2>2. Waits(s, f, p, rc)
    BY <1>4 DEF Good
  <2> QED
    BY <1>3, <2>1, <2>2 DEF Waits
<1>5. CASE st = "completed" /\ p.state = "REQUEST_LINE"
  <2> DEFINE r == s[n + 1]
             y == Later(s, n + 1)
             a == Line("req", r.version, 0)
             h == HeadersLeft(r, 0, y)
  <2>1. Current(p, rc) = n + 1 /\ n + 1 \in 1 .. Len(s) /\ n < Len(s) /\ n \in 0 .. Len(s)
        /\ n + 1 \in 0 .. Len(s)
    BY <1>2, <1>3, <1>5 DEF Current
  <2>2. Rest(str, Pos(b, f)) = Later(s, n)
    BY <1>1, <1>5 DEF Stands
  <2>3. Pos(b, f) = f /\ f \in 0 .. Len(str)
    BY <1>1, <1>2 DEF Pos, Holds, Buffers
  <2>4. Len(Later(s, n)) = Len(str) - f
    BY <1>2, <2>2, <2>3, RestIs
  <2>5. Later(s, n) = Join(a, h) /\ IsRequest(r) /\ y \in Seq(Bytes)
    BY <1>1, <2>1, HttpAssumption, StreamIs
  <2> HIDE DEF r, y
  <2>6. Terminated(a, 2) /\ 0 \in 0 .. Len(r.headers)
    BY <2>5, Pieces
  <2>7. a \in Seq(Bytes) /\ Len(a) = 3
    BY <2>6 DEF Terminated
  <2>8. h \in Seq(Bytes) /\ Len(h) >= Len(y)
    BY <2>5, <2>6, HeadersAre
  <2> HIDE DEF a, h
  <2>9. Len(Later(s, n)) = 3 + Len(h)
    <3>1. \A u, w \in Seq(Bytes) : Len(Join(u, w)) = Len(u) + Len(w)
      BY JoinFacts
    <3>2. Len(Join(a, h)) = 3 + Len(h)
      BY <2>7, <2>8, <3>1
    <3> QED
      BY <2>5, <3>2
  <2>10. Len(h) \in Nat /\ Len(y) \in Nat /\ Len(str) \in Nat
    BY <1>2, <2>5, <2>8
  <2>11. f + Len(y) < Len(str)
    BY <2>3, <2>4, <2>8, <2>9, <2>10
  <2> QED
    BY <1>3, <2>1, <2>11 DEF y
<1> QED
  BY <1>4, <1>5

\* recv puts the bytes behind those that are there: there are none.
LEMMA RecvKeeps ==
  ASSUME ParserInv, ConnInv, BufferInv, Contract, NEW n \in 1 .. BufSize, Recv(n)
  PROVE  /\ ParserInv' /\ status' = "running" /\ parser'.state # "next_request"
         /\ bf' \in Buffers /\ bf'.get <= bf'.put /\ bf'.put <= BufSize
<1> DEFINE str == StreamOf(sent)
           v   == Appended(bf, bf.put, SubSeq(str, fed + 1, fed + n))
           k   == Current(parser, received)
<1>1. conn.state = "recv" /\ Receive(n, bf.get) /\ Whole(fed + n)
  BY DEF Recv, Contract
<1>2. /\ bf.get = bf.put /\ bf \in Buffers
      /\ status = "need_more" \/ (status = "completed" /\ parser.state = "REQUEST_LINE")
      /\ parser.state # "next_request"
  BY <1>1 DEF ConnInv, ConnTypes, BufferInv
<1>3. Good(sent, fed, bf, parser, request, status, received)
  <2>1. CASE status = "need_more"
    BY <1>2, <2>1 DEF ParserInv, Seen, Answering
  <2>2. CASE status = "completed"
    <3>1. Emptied = bf
      BY <1>1, <1>2, <2>2 DEF BufferInv, Emptied, Buffers
    <3> QED
      BY <2>2, <3>1 DEF ParserInv, Seen, Answering
  <2> QED
    BY <1>2, <2>1, <2>2
<1>4. /\ sent \in Seq(Requests) /\ Holds(str, bf, fed) /\ parser \in Parsers /\ History(sent, received)
      /\ parser.state \in {"CONTENT_LENGTH", "CHUNK_DATA"} => parser.left > 0
      /\ Stands(sent, Rest(str, Pos(bf, fed)), parser, request, received)
  BY <1>2, <1>3 DEF Good
<1>5. /\ str \in Seq(Bytes) /\ BufSize \in Nat /\ Stream = str /\ fed \in Nat /\ Len(sent) \in Nat
  BY <1>4, Facts, StreamSame DEF Holds
<1>6. n \in Nat /\ n <= BufSize - bf.put /\ fed + n <= Len(str)
  BY <1>1, <1>5 DEF Receive, PutSize
<1>7. /\ bf' = v /\ fed' = fed + n /\ status' = "running" /\ sent' = sent /\ parser' = parser
      /\ request' = request /\ received' = received
  BY <1>1, <1>2, <1>5 DEF Receive
<1> HIDE DEF str
<1>8. Holds(str, v, fed + n) /\ Pos(v, fed + n) = Pos(bf, fed)
  BY <1>4, <1>5, <1>6, AppendedHolds
<1> HIDE DEF v
<1>9. Good(sent, fed + n, v, parser, request, "running", received)
  BY <1>4, <1>8 DEF Good, str
<1>10. Stopped(sent, fed + n, parser, received)
  <2>1. str[fed + n] = LF \/ str[fed + n].k = "data"
    BY <1>1, <1>5 DEF Whole
  <2>2. ASSUME k <= Len(sent) PROVE fed + n + Len(Later(sent, k)) <= Len(str)
    <3>1. \A r \in Requests : r.trailer = <<>>
      BY DEF Contract
    <3>2. k \in 1 .. Len(sent) /\ fed + Len(Later(sent, k)) < Len(str)
      BY <1>2, <1>3, <2>2, <3>1, ShortOfEnd DEF str
    <3>3. k \in 0 .. Len(sent) /\ k \in DOMAIN sent
      BY <1>4, <3>2
    <3>4. EndOf(k) = Len(str) - Len(Later(sent, k)) /\ Len(Later(sent, k)) \in Nat
      BY <1>4, <3>3, HttpAssumption, StreamIs, Facts DEF EndOf, str
    <3>5. fed < EndOf(k) => fed + n <= EndOf(k)
      BY <1>1, <3>3 DEF Whole
    <3>6. Len(str) \in Nat
      BY <1>5
    <3> HIDE DEF k
    <3> QED
      BY <1>5, <1>6, <3>2, <3>4, <3>5, <3>6
  <2> QED
    BY <2>1, <2>2 DEF Stopped, str
<1>11. Seen' = v
  BY <1>2, <1>7 DEF Seen, Answering
<1>12. ParserInv'
  BY <1>7, <1>9, <1>10, <1>11 DEF ParserInv
<1>13. bf' \in Buffers /\ bf'.get <= bf'.put /\ bf'.put <= BufSize
  BY <1>7, <1>8 DEF Holds
<1> QED
  BY <1>2, <1>7, <1>12, <1>13


\* What the callbacks do, as far as the parser is concerned.
LEMMA ParserSame ==
  ASSUME ParserInv, UNCHANGED <<sent, fed, parser, request, status, received>>, Seen' = Seen
  PROVE  ParserInv'
<1>1. Good(sent, fed, Seen, parser, request, status, received)
  BY DEF ParserInv
<1> HIDE DEF Seen
<1> QED
  BY <1>1 DEF ParserInv

\* The end of a request, with what the handler of FINISHED returned.
LEMMA RequestEndsKeeps ==
  ASSUME ParserInv, NEW ok \in BOOLEAN, NextRequest(ok)
  PROVE  /\ ParserInv' /\ In("next_request") /\ Len(received') = Len(received)
         /\ ok  => status' = "completed" /\ parser'.state = "REQUEST_LINE"
         /\ ~ok => status' = "refused" /\ received' = received
<1> DEFINE n == Len(received)
<1>1. /\ In("next_request") /\ sent' = sent /\ fed' = fed /\ bf' = bf
  BY DEF NextRequest
<1>2. Good(sent, fed, Emptied, parser, request, status, received)
  BY <1>1 DEF ParserInv, Seen, Answering, In
<1>3. Good(sent, fed, Emptied, parser', request', status', received')
  BY <1>1, <1>2, RequestEnds
<1>4. sent \in Seq(Requests) /\ parser \in Parsers /\ received \in Seq(Records) /\ n \in Nat
  BY <1>2 DEF Good, History
<1>5. /\ ok  => /\ status' = "completed" /\ parser'.state = "REQUEST_LINE"
                /\ Len(received') = n
      /\ ~ok => status' = "refused" /\ received' = received
  BY <1>4 DEF NextRequest, Parsers
<1>6. Seen' = Emptied
  BY <1>1, <1>5 DEF Seen, Answering, Emptied
<1>7. ASSUME ok PROVE Stopped(sent, fed, parser', received')
  <2>1. Stopped(sent, fed, parser, received) /\ Current(parser, received) = n
    BY <1>1 DEF ParserInv, In, Current
  <2>2. Current(parser', received') = n + 1
    BY <1>5, <1>7 DEF Current
  <2>3. ASSUME n + 1 <= Len(sent) PROVE fed + Len(Later(sent, n + 1)) <= Len(StreamOf(sent))
    <3>1. n \in 0 .. Len(sent) /\ n + 1 \in 0 .. Len(sent) /\ n < Len(sent) /\ n <= Len(sent)
      BY <1>4, <2>3
    <3>2. Len(Later(sent, n + 1)) <= Len(Later(sent, n))
      BY <1>4, <3>1, HttpAssumption, StreamIs
    <3>3. /\ Len(Later(sent, n + 1)) \in Nat /\ Len(Later(sent, n)) \in Nat
          /\ StreamOf(sent) \in Seq(Bytes)
      BY <1>4, <3>1, Facts
    <3>4. fed + Len(Later(sent, n)) <= Len(StreamOf(sent)) /\ fed \in Nat
      BY <1>2, <2>1, <3>1 DEF Stopped, Good, Holds
    <3> QED
      BY <3>2, <3>3, <3>4
  <2> QED
    BY <2>1, <2>2, <2>3 DEF Stopped
<1>8. ParserInv'
  BY <1>1, <1>3, <1>5, <1>6, <1>7 DEF ParserInv
<1> QED
  BY <1>1, <1>5, <1>8

-----------------------------------------------------------------------------
(* The client *)

\* What the client makes of one item or two: a recursive function in Webby.
LEMMA SendIs ==
  ASSUME NEW x, NEW y
  PROVE  /\ Send(<<>>) => client' = client
         /\ Send(<<x>>) => client' = Reads(client, x)
         /\ Send(<<x, y>>) => client' = Reads(Reads(client, x), y)
<1>1. ASSUME Send(<<>>) PROVE client' = client
  <2> DEFINE F(f) == [i \in 0 .. 0 |-> IF i = 0 THEN client ELSE Reads(f[i - 1], <<>>[i])]
             read == CHOOSE f : f = F(f)
             g == [i \in 0 .. 0 |-> client]
  <2>1. client' = read[0]
    BY <1>1 DEF Send
  <2>2. g = F(g)
    OBVIOUS
  <2>3. read = F(read)
    <3> HIDE DEF F, g
    <3> QED
      BY <2>2
  <2>4. 0 \in 0 .. 0
    OBVIOUS
  <2> HIDE DEF read
  <2>5. read[0] = client
    BY <2>3, <2>4
  <2> QED
    BY <2>1, <2>5
<1>2. ASSUME Send(<<x>>) PROVE client' = Reads(client, x)
  <2> DEFINE l == <<x>>
             F(f) == [i \in 0 .. 1 |-> IF i = 0 THEN client ELSE Reads(f[i - 1], l[i])]
             read == CHOOSE f : f = F(f)
             g == [i \in 0 .. 1 |-> IF i = 0 THEN client ELSE Reads(client, x)]
  <2>1. client' = read[1]
    BY <1>2 DEF Send
  <2>2. g = F(g)
    <3>1. l[1] = x /\ g[0] = client
      OBVIOUS
    <3>2. \A i \in 0 .. 1 : i = 0 \/ (i = 1 /\ i - 1 = 0)
      OBVIOUS
    <3> HIDE DEF l
    <3>3. \A i \in 0 .. 1 : i # 0 => Reads(g[i - 1], l[i]) = Reads(client, x)
      BY <3>1, <3>2
    <3> QED
      BY <3>3
  <2>3. read = F(read)
    <3> HIDE DEF F, g
    <3> QED
      BY <2>2
  <2>4. 0 \in 0 .. 1 /\ 1 \in 0 .. 1 /\ 1 - 1 = 0 /\ 1 # 0 /\ l[1] = x
    OBVIOUS
  <2> HIDE DEF read, l
  <2>5. read[0] = client /\ read[1] = Reads(read[0], x)
    BY <2>3, <2>4
  <2> QED
    BY <2>1, <2>5
<1>3. ASSUME Send(<<x, y>>) PROVE client' = Reads(Reads(client, x), y)
  <2> DEFINE l == <<x, y>>
             F(f) == [i \in 0 .. 2 |-> IF i = 0 THEN client ELSE Reads(f[i - 1], l[i])]
             read == CHOOSE f : f = F(f)
             g == [i \in 0 .. 2 |-> IF i = 0 THEN client
                                    ELSE IF i = 1 THEN Reads(client, x)
                                    ELSE Reads(Reads(client, x), y)]
  <2>1. client' = read[2]
    BY <1>3 DEF Send
  <2>2. g = F(g)
    <3>1. l[1] = x /\ l[2] = y /\ g[0] = client /\ g[1] = Reads(client, x)
      OBVIOUS
    <3>2. \A i \in 0 .. 2 : i = 0 \/ (i = 1 /\ i - 1 = 0) \/ (i = 2 /\ i - 1 = 1)
      OBVIOUS
    <3> HIDE DEF l
    <3>3. \A i \in 0 .. 2 : i # 0 => Reads(g[i - 1], l[i]) = IF i = 1 THEN Reads(client, x)
                                                            ELSE Reads(Reads(client, x), y)
      BY <3>1, <3>2
    <3> QED
      BY <3>3
  <2>3. read = F(read)
    <3> HIDE DEF F, g
    <3> QED
      BY <2>2
  <2>4. /\ 0 \in 0 .. 2 /\ 1 \in 0 .. 2 /\ 2 \in 0 .. 2 /\ 1 - 1 = 0 /\ 2 - 1 = 1
        /\ 1 # 0 /\ 2 # 0 /\ l[1] = x /\ l[2] = y
    OBVIOUS
  <2> HIDE DEF read, l
  <2>5. read[0] = client /\ read[1] = Reads(read[0], x) /\ read[2] = Reads(read[1], y)
    BY <2>3, <2>4
  <2> QED
    BY <2>1, <2>5
<1> QED
  BY <1>1, <1>2, <1>3

\* The client by what it waits for and what it reads.
LEMMA ReadsFacts ==
  ASSUME NEW c \in Clients, NEW x, x.of = c.done + 1, x.n \in Nat
  PROVE  /\ c.st = "idle" /\ x.k = "100" => Reads(c, x) = c
         /\ c.st = "idle" /\ x.k \in {"400", "404", "500"} => Reads(c, x) = Answered(c)
         /\ c.st = "idle" /\ x.k = "head_length" =>
              Reads(c, x) = IF x.n = 0 THEN Answered(c) ELSE [c EXCEPT !.st = "body", !.left = x.n]
         /\ c.st = "idle" /\ x.k = "head_chunked" => Reads(c, x) = [c EXCEPT !.st = "first_chunk"]
         /\ c.st = "idle" /\ x.k = "head_close" => Reads(c, x) = [c EXCEPT !.st = "until_close"]
         /\ c.st = "body" /\ x.k = "data" /\ x.n <= c.left =>
              Reads(c, x) = IF x.n = c.left THEN Answered(c) ELSE [c EXCEPT !.left = @ - x.n]
         /\ c.st = "first_chunk" /\ x.k = "chunk" => Reads(c, x) = [c EXCEPT !.st = "next_chunk"]
         /\ c.st = "next_chunk" /\ x.k = "crlf_chunk" => Reads(c, x) = c
         /\ c.st = "next_chunk" /\ x.k = "crlf_last" => Reads(c, x) = Answered(c)
         /\ c.st = "until_close" /\ x.k = "data" => Reads(c, x) = c
         /\ Answered(c) = [st |-> "idle", left |-> 0, done |-> c.done + 1]
<1>1. Answered(c) = [st |-> "idle", left |-> 0, done |-> c.done + 1]
  BY DEF Answered, Reading
<1> QED
  BY <1>1 DEF Reads


-----------------------------------------------------------------------------
(* The calls of a servlet *)

\* The client has read the header of the response, and what was written so far.
Headed(c) ==
  LET d == Len(received) - 1
  IN /\ c \in Clients
     /\ resp.flags = {"length"} => IF resp.left = 0 THEN c.st = "idle" /\ c.done = d + 1
                                   ELSE c.st = "body" /\ c.left = resp.left /\ c.done = d
     /\ resp.flags = {"close"} => c.st = "until_close" /\ c.done = d
     /\ resp.flags = {"chunked"} =>
          c.st = (IF resp.state = 1 THEN "first_chunk" ELSE "next_chunk") /\ c.done = d

ServingFacts ==
  /\ resp \in Responses /\ client \in Clients /\ Serving
  /\ received \in Seq(Records) /\ Len(received) \in Nat \ {0}
  /\ BufSize \in Nat /\ Servlets \in Nat /\ MaxSize \in Nat

\* What is known while a servlet runs.
LEMMA ServingIs ==
  ASSUME ParserInv, ServeInv, resp.pc > 0
  PROVE  ServingFacts
<1>1. resp \in Responses /\ client \in Clients /\ Serving
  <2>1. resp \in Responses /\ client \in Clients
    BY DEF ServeInv
  <2>2. resp.pc # 0
    BY <2>1 DEF Responses
  <2> QED
    BY <2>1, <2>2 DEF ServeInv
<1>2. Good(sent, fed, Emptied, parser, request, status, received) /\ In("next_request")
  BY <1>1 DEF ParserInv, Seen, Answering, Serving, In
<1>3. received \in Seq(Records)
  BY <1>2 DEF Good, History
<1>4. Len(received) > 0
  BY <1>2 DEF Good, Stands, In
<1> QED
  BY <1>1, <1>3, <1>4, HttpAssumption, WebbyAssumption DEF ServingFacts

\* The header that was announced leaves the client within the response.
LEMMA HeaderIs ==
  ASSUME ServingFacts, BufferInv, resp.state = 1
  PROVE  \E h : /\ \A x : Header \o <<>> = <<h>> /\ Header \o <<x>> = <<h, x>>
                /\ Headed(Reads(client, h)) /\ HeaderValues = 4
<1> DEFINE num == IF "length" \in resp.flags THEN resp.left ELSE 0
           h == Item(HeaderKind, num)
           c == Reads(client, h)
           d == Len(received) - 1
<1>1. Size = 0
  <2>1. In("next_request")
    BY DEF ServingFacts, Serving
  <2> QED
    BY <2>1 DEF BufferInv, Size, Buffers
<1>2. PICK kind \in Kinds : resp.flags = {kind}
  BY DEF ServingFacts, Serving, Started
<1>3. client \in Clients /\ client.st = "idle" /\ client.done = d /\ d \in Nat
  BY DEF ServingFacts, Serving, Written, Idle
<1>4. num \in Nat /\ h.of = client.done + 1 /\ h.n = num /\ h.k = HeaderKind
  <2>1. resp.flags = {"length"} => resp.left \in Nat
    BY DEF ServingFacts, Serving, Started, Responses
  <2>2. num \in Nat
    BY <1>2, <2>1 DEF Kinds
  <2>3. Len(received) = d + 1
    BY DEF ServingFacts
  <2> QED
    BY <1>3, <2>2, <2>3 DEF Item
<1>5. HeaderKind = IF resp.flags = {"chunked"} THEN "head_chunked"
                   ELSE IF resp.flags = {"close"} THEN "head_close" ELSE "head_length"
  BY <1>2 DEF HeaderKind, Kinds
<1>6. Headed(c)
  <2> HIDE DEF h, num, d
  <2>1. /\ Answered(client) = [st |-> "idle", left |-> 0, done |-> client.done + 1]
        /\ h.k = "head_length" =>
             c = IF h.n = 0 THEN Answered(client) ELSE [client EXCEPT !.st = "body", !.left = h.n]
        /\ h.k = "head_chunked" => c = [client EXCEPT !.st = "first_chunk"]
        /\ h.k = "head_close" => c = [client EXCEPT !.st = "until_close"]
    BY <1>3, <1>4, ReadsFacts
  <2> HIDE DEF c
  <2>2. CASE kind = "length"
    <3>1. h.k = "head_length" /\ resp.flags # {"close"} /\ resp.flags # {"chunked"}
      BY <1>2, <1>4, <1>5, <2>2
    <3>2. num = resp.left /\ num \in Nat
      BY <1>2, <1>4, <2>2 DEF num
    <3>3. CASE num = 0
      <4>1. c = [st |-> "idle", left |-> 0, done |-> d + 1]
        BY <1>3, <1>4, <2>1, <3>1, <3>3
      <4>4. d + 1 \in Nat /\ 0 \in Nat
        BY <1>3
      <4>2. c \in Clients /\ c.st = "idle" /\ c.done = d + 1
        BY <4>1, <4>4 DEF Clients
      <4>3. resp.left = 0
        BY <3>2, <3>3
      <4> QED
        BY <3>1, <4>2, <4>3 DEF Headed, d
    <3>4. CASE num # 0
      BY <1>3, <1>4, <2>1, <3>1, <3>2, <3>4 DEF Headed, Clients, d
    <3> QED
      BY <3>3, <3>4
  <2>3. CASE kind = "close"
    <3>1. c = [client EXCEPT !.st = "until_close"] /\ resp.flags = {"close"}
      BY <1>2, <1>4, <1>5, <2>1, <2>3
    <3>2. resp.flags # {"length"} /\ resp.flags # {"chunked"}
      BY <3>1
    <3> QED
      BY <1>3, <3>1, <3>2 DEF Headed, Clients, d
  <2>4. CASE kind = "chunked"
    <3>1. c = [client EXCEPT !.st = "first_chunk"] /\ resp.flags = {"chunked"}
      BY <1>2, <1>4, <1>5, <2>1, <2>4
    <3>2. resp.flags # {"length"} /\ resp.flags # {"close"}
      BY <3>1
    <3> QED
      BY <1>3, <3>1, <3>2 DEF Headed, Clients, d
  <2> QED
    BY <2>2, <2>3, <2>4 DEF Kinds
<1>7. Header = <<h>>
  BY <1>1 DEF Header
<1>8. \A x : Header \o <<>> = <<h>> /\ Header \o <<x>> = <<h, x>>
  <2> HIDE DEF h
  <2> TAKE x
  <2>1. <<h>> \o <<>> = <<h>>
    <3>1. <<h>> \in Seq({h})
      OBVIOUS
    <3> QED
      BY <3>1, ConcatEmptySeq
  <2>2. <<h>> \o <<x>> = <<h, x>>
    <3> DEFINE S == {h, x}
               u == <<h, x>>
               w == <<h>> \o <<x>>
    <3>1. h \in S /\ x \in S
      OBVIOUS
    <3> HIDE DEF S
    <3>2. <<h>> \in Seq(S) /\ <<x>> \in Seq(S)
      BY <3>1
    <3>3. u \in Seq(S) /\ Len(u) = 2 /\ u[1] = h /\ u[2] = x
      BY <3>1
    <3>4. /\ w \in Seq(S) /\ Len(w) = Len(<<h>>) + Len(<<x>>)
          /\ \A i \in 1 .. Len(<<h>>) + Len(<<x>>) :
               w[i] = IF i <= Len(<<h>>) THEN <<h>>[i] ELSE <<x>>[i - Len(<<h>>)]
      BY <3>2, ConcatProperties
    <3>5. Len(<<h>>) = 1 /\ Len(<<x>>) = 1 /\ <<h>>[1] = h /\ <<x>>[1] = x
      OBVIOUS
    <3> HIDE DEF u, w
    <3>6. w[1] = h /\ w[2] = x /\ Len(w) = 2
      BY <3>4, <3>5
    <3>7. \A i \in 1 .. Len(w) : w[i] = u[i]
      BY <3>3, <3>6
    <3>8. w = u
      BY <3>3, <3>4, <3>6, <3>7, SeqEqual
    <3> QED
      BY <3>8 DEF u, w
  <2> QED
    BY <1>7, <2>1, <2>2
<1>9. HeaderValues = 4
  <2>1. resp.flags \cap {"close", "chunked", "length"} = {kind}
    BY <1>2 DEF Kinds
  <2>2. Cardinality({kind}) = 1
    BY FS_Singleton
  <2> QED
    BY <2>1, <2>2 DEF HeaderValues
<1> HIDE DEF h
<1> QED
  BY <1>6, <1>8, <1>9 DEF c

\* What becomes of a call that sends: r is the response then, and c the client.
Sent(r, c) ==
  /\ bf' \in Buffers /\ bf'.get <= bf'.put /\ bf'.put <= BufSize /\ Emptied' = Emptied
  /\ \/ Called(r) /\ client' = c
     \/ resp' = [resp EXCEPT !.state = WritesForEver] /\ client' = client /\ resp.state = 1

\* What is sent with the first data or alone, HTTP_response_send_header first.
LEMMA WithHeaderIs ==
  ASSUME ServingFacts, BufferInv, resp.state \in {1, 2}, NEW r, NEW x
  PROVE  \E c : /\ Headed(c)
                /\ WithHeader(r, <<>>)  => Sent(r, c)
                /\ WithHeader(r, <<x>>) => Sent(r, Reads(c, x))
<1>1. CASE resp.state = 2
  <2>1. Headed(client)
    BY <1>1 DEF ServingFacts, Serving, Written, Idle, Headed
  <2>5. \A items : WithHeader(r, items) => Called(r) /\ Send(items) /\ bf' = bf
    BY <1>1 DEF WithHeader
  <2>2. WithHeader(r, <<>>) => Called(r) /\ client' = client /\ bf' = bf
    BY <2>5, SendIs
  <2>3. WithHeader(r, <<x>>) => Called(r) /\ client' = Reads(client, x) /\ bf' = bf
    BY <2>5, SendIs
  <2>4. bf' = bf => /\ bf' \in Buffers /\ bf'.get <= bf'.put /\ bf'.put <= BufSize
                    /\ Emptied' = Emptied
    BY DEF BufferInv, Emptied
  <2> QED
    BY <2>1, <2>2, <2>3, <2>4 DEF Sent
<1>2. CASE resp.state = 1
  <2>1. PICK h : /\ \A z : Header \o <<>> = <<h>> /\ Header \o <<z>> = <<h, z>>
                 /\ Headed(Reads(client, h)) /\ HeaderValues = 4
    BY <1>2, HeaderIs
  <2>2. bf' = bf => /\ bf' \in Buffers /\ bf'.get <= bf'.put /\ bf'.put <= BufSize
                    /\ Emptied' = Emptied
    BY DEF BufferInv, Emptied
  <2>3. HeaderFits /\ HeaderPut => /\ bf' \in Buffers /\ bf'.get <= bf'.put /\ bf'.put <= BufSize
                                   /\ Emptied' = Emptied
    <3>1. SUFFICES ASSUME HeaderFits, HeaderPut
                   PROVE  /\ bf' \in Buffers /\ bf'.get <= bf'.put /\ bf'.put <= BufSize
                          /\ Emptied' = Emptied
      OBVIOUS
    <3>2. bf' = [bf EXCEPT !.put = bf.put + 4]
      BY <2>1, <3>1 DEF HeaderPut
    <3>3. bf \in Buffers /\ bf.put + 4 <= BufSize /\ bf.get <= bf.put /\ BufSize \in Nat
      BY <2>1, <3>1 DEF HeaderFits, PutSize, BufferInv, Buffers, ServingFacts
    <3>4. bf' \in Buffers /\ bf'.get = bf.get /\ bf'.put = bf.put + 4
      BY <3>2, <3>3 DEF Buffers
    <3>5. Emptied' = Emptied
      BY <3>2, <3>3 DEF Emptied, Buffers
    <3>6. bf.get \in Nat /\ bf.put \in Nat
      BY <3>3 DEF Buffers
    <3> QED
      BY <3>3, <3>4, <3>5, <3>6
  <2>4. WithHeader(r, <<>>) =>
          \/ Called(r) /\ client' = Reads(client, h) /\ HeaderFits /\ HeaderPut
          \/ resp' = [resp EXCEPT !.state = WritesForEver] /\ client' = client /\ bf' = bf
    BY <1>2, <2>1, SendIs DEF WithHeader
  <2>5. WithHeader(r, <<x>>) =>
          \/ Called(r) /\ client' = Reads(Reads(client, h), x) /\ HeaderFits /\ HeaderPut
          \/ resp' = [resp EXCEPT !.state = WritesForEver] /\ client' = client /\ bf' = bf
    BY <1>2, <2>1, SendIs DEF WithHeader
  <2> QED
    BY <1>2, <2>1, <2>2, <2>3, <2>4, <2>5 DEF Sent
<1> QED
  BY <1>1, <1>2


\* A call changes the response, the client, and the buffer behind the request.
Replying ==
  /\ bf' \in Buffers /\ bf'.get <= bf'.put /\ bf'.put <= BufSize /\ Emptied' = Emptied
  /\ conn' \in [state : ConnStates, socket : BOOLEAN, ctx : BOOLEAN] /\ conn'.state = conn.state
  /\ resp'.pc = resp.pc /\ (resp'.state \in {0, 1} => bf'.get = bf'.put)
  /\ resp' \in Responses /\ client' \in Clients /\ Started' /\ Written'

\* Replying is all that the invariant needs of a call.
LEMMA CallKeeps ==
  ASSUME WInv, InServlet, UNCHANGED <<sent, fed, parser, request, status, received>>, Replying
  PROVE  WInv'
<1>1. /\ conn.state = "parsing" /\ In("next_request") /\ resp.pc \in 1 .. Servlets
      /\ Servlets \in Nat
  BY WebbyAssumption DEF InServlet
<1>2. ParserInv'
  <2>1. Answering /\ Answering'
    BY <1>1 DEF Answering, In
  <2>2. Seen' = Seen
    BY <2>1 DEF Seen, Replying
  <2> QED
    BY <2>2, ParserSame DEF WInv
<1>3. ConnInv'
  BY <1>1 DEF WInv, ConnInv, ConnTypes, Replying, In
<1>4. BufferInv'
  BY <1>1 DEF BufferInv, Replying, In
<1>5. Serving'
  BY <1>1 DEF Serving, Replying, In
<1>6. ServeInv'
  <2>1. resp'.pc # 0
    BY <1>1 DEF Replying
  <2> QED
    BY <1>5, <2>1 DEF ServeInv, Replying
<1> QED
  BY <1>2, <1>3, <1>4, <1>6 DEF WInv

\* The header that does not fit.
LEMMA WritesForEverReplies ==
  ASSUME ServingFacts, ConnInv, resp.state = 1, resp' = [resp EXCEPT !.state = WritesForEver],
         client' = client, conn' = conn, received' = received,
         bf' \in Buffers /\ bf'.get <= bf'.put /\ bf'.put <= BufSize /\ Emptied' = Emptied
  PROVE  Replying
<1>1. resp \in Responses /\ client \in Clients /\ Started /\ Written
  BY DEF ServingFacts, Serving
<1>2. WritesForEver \notin {0, 1, 2, 3}
  BY DEF WritesForEver
<1>3. /\ resp' \in Responses /\ resp'.state = WritesForEver /\ resp'.pc = resp.pc
      /\ resp'.flags = resp.flags /\ resp'.asked = resp.asked /\ resp'.left = resp.left
      /\ resp'.todo = resp.todo
  BY <1>1 DEF Responses
<1>4. Started'
  BY <1>1, <1>2, <1>3 DEF Started
<1>5. Written'
  BY <1>1, <1>2, <1>3 DEF Written, Idle
<1> QED
  BY <1>1, <1>2, <1>3, <1>4, <1>5 DEF Replying, ConnInv, ConnTypes

\* A call that does nothing.
LEMMA RefusedReplies ==
  ASSUME WInv, ServingFacts, Refused, conn' = conn, received' = received
  PROVE  Replying
<1>1. resp' = resp /\ client' = client /\ bf' = bf
  BY DEF Refused
<1>2. resp \in Responses /\ client \in Clients /\ Started /\ Written /\ In("next_request")
  <2>1. Serving /\ Servlets \in Nat /\ resp \in Responses /\ client \in Clients
    BY DEF ServingFacts
  <2> QED
    BY <2>1 DEF Serving
<1>3. Started' /\ Written'
  BY <1>1, <1>2 DEF Started, Written, Idle
<1> QED
  BY <1>1, <1>2, <1>3 DEF Replying, WInv, ConnInv, ConnTypes, BufferInv, Emptied


Same == UNCHANGED <<sent, fed, parser, request, status, received>>

\* The response after a call.
RespStart(q, a, t, F, l, c) ==
  [q EXCEPT !.state = 1, !.asked = a, !.todo = t, !.flags = F, !.left = l, !.calls = c]
RespSend(q, l, t, c)   == [q EXCEPT !.state = 2, !.left = l, !.todo = t, !.calls = c]
RespChunk(q, s, no, c) == [q EXCEPT !.state = s, !.chunk_no = no, !.calls = c]

LEMMA RespStartIs ==
  ASSUME NEW q \in Responses, NEW a \in Kinds, NEW t \in Nat, NEW F \in SUBSET Kinds,
         NEW l \in Nat \cup {NoLimit}, NEW c \in Nat
  PROVE  LET r == RespStart(q, a, t, F, l, c)
         IN /\ r \in Responses /\ r.state = 1 /\ r.asked = a /\ r.todo = t /\ r.flags = F
            /\ r.left = l /\ r.chunk_no = q.chunk_no /\ r.pc = q.pc
<1> DEFINE r == RespStart(q, a, t, F, l, c)
<1>1. r \in Responses
  BY ZenonT(60) DEF Responses, RespStart
<1>2. /\ r.state = 1 /\ r.asked = a /\ r.todo = t /\ r.flags = F /\ r.left = l
      /\ r.chunk_no = q.chunk_no /\ r.pc = q.pc
  BY SMT DEF Responses, RespStart
<1> QED
  BY <1>1, <1>2

LEMMA RespSendIs ==
  ASSUME NEW q \in Responses, NEW t \in Nat, NEW l \in Nat \cup {NoLimit}, NEW c \in Nat
  PROVE  LET r == RespSend(q, l, t, c)
         IN /\ r \in Responses /\ r.state = 2 /\ r.asked = q.asked /\ r.todo = t
            /\ r.flags = q.flags /\ r.left = l /\ r.chunk_no = q.chunk_no /\ r.pc = q.pc
<1> DEFINE r == RespSend(q, l, t, c)
<1>1. r \in Responses
  BY ZenonT(60) DEF Responses, RespSend
<1>2. /\ r.state = 2 /\ r.asked = q.asked /\ r.todo = t /\ r.flags = q.flags /\ r.left = l
      /\ r.chunk_no = q.chunk_no /\ r.pc = q.pc
  BY SMT DEF Responses, RespSend
<1> QED
  BY <1>1, <1>2

LEMMA RespChunkIs ==
  ASSUME NEW q \in Responses, NEW s, s = 2 \/ s = 3, NEW no \in Nat, NEW c \in Nat
  PROVE  LET r == RespChunk(q, s, no, c)
         IN /\ r \in Responses /\ r.state = s /\ r.asked = q.asked /\ r.todo = q.todo
            /\ r.flags = q.flags /\ r.left = q.left /\ r.chunk_no = no /\ r.pc = q.pc
<1> DEFINE r == RespChunk(q, s, no, c)
<1>1. r \in Responses
  BY ZenonT(60) DEF Responses, RespChunk
<1>2. /\ r.state = s /\ r.asked = q.asked /\ r.todo = q.todo /\ r.flags = q.flags
      /\ r.left = q.left /\ r.chunk_no = no /\ r.pc = q.pc
  BY SMT DEF Responses, RespChunk
<1> QED
  BY <1>1, <1>2

\* HTTP_response_start: a client that cannot keep the connection gets "close".
LEMMA StartReplies ==
  ASSUME WInv, ServingFacts, NEW kind \in Kinds, NEW n \in 0 .. MaxSize,
         HTTP_response_start(kind, n)
  PROVE  Replying /\ Same
<1>1. conn' = conn /\ received' = received /\ Same
  BY DEF HTTP_response_start, Keep, Same
<1>2. CASE resp.state # 0
  BY <1>1, <1>2, RefusedReplies DEF HTTP_response_start
<1>3. CASE resp.state = 0
  <2> DEFINE used == IF HTTP_REQUEST_is_persistent THEN kind ELSE "close"
             todo == IF kind = "length" THEN n ELSE 0
             left == CASE used = "close"  -> NoLimit
                       [] used = "length" -> n
                       [] OTHER -> resp.left
             r == [resp EXCEPT !.state = 1, !.asked = kind, !.todo = todo,
                               !.flags = {used}, !.left = left, !.calls = resp.calls + 1]
  <2>1. resp' = r /\ client' = client /\ bf' = bf
    <3>1. resp \in Responses
      BY DEF ServingFacts
    <3> QED
      BY <1>3, <3>1 DEF HTTP_response_start, Called, Responses
  <2>2. /\ resp \in Responses /\ client \in Clients /\ Started /\ Written /\ n \in Nat
        /\ In("next_request")
    <3>1. Serving /\ Servlets \in Nat /\ resp \in Responses /\ client \in Clients /\ MaxSize \in Nat
      BY DEF ServingFacts
    <3> QED
      BY <3>1 DEF Serving
  <2>3. used \in Kinds /\ (used = kind \/ used = "close") /\ todo \in Nat
    BY <2>2 DEF Kinds
  <2>4. /\ used = "close" => left = NoLimit
        /\ used = "length" => left = n /\ kind = "length" /\ todo = n
        /\ used = "chunked" => left = resp.left /\ kind = "chunked"
    BY <2>3
  <2> HIDE DEF used, todo, left
  <2>5. left \in Nat \cup {NoLimit}
    <3>1. resp.left \in Nat \cup {NoLimit}
      BY <2>2 DEF Responses
    <3>2. used \in {"close", "length", "chunked"}
      BY <2>3 DEF Kinds
    <3> QED
      BY <2>2, <2>4, <3>1, <3>2
  <2>6. /\ r \in Responses /\ r.state = 1 /\ r.asked = kind /\ r.todo = todo /\ r.flags = {used}
        /\ r.left = left /\ r.chunk_no = resp.chunk_no /\ r.pc = resp.pc
    <3> DEFINE F == {used}
               c == resp.calls + 1
    <3>1. resp \in Responses /\ todo \in Nat
      BY <2>2, <2>3
    <3>2. F \in SUBSET Kinds
      BY <2>3
    <3>3. c \in Nat
      BY <3>1 DEF Responses
    <3>4. r = RespStart(resp, kind, todo, F, left, c)
      BY DEF RespStart
    <3> HIDE DEF r, F, c
    <3>5. /\ r \in Responses /\ r.state = 1 /\ r.asked = kind /\ r.todo = todo /\ r.flags = F
          /\ r.left = left /\ r.chunk_no = resp.chunk_no /\ r.pc = resp.pc
      BY <2>5, <3>1, <3>2, <3>3, <3>4, RespStartIs
    <3> QED
      BY <3>5 DEF F
  <2> HIDE DEF r
  <2>7. Started'
    BY <2>1, <2>3, <2>4, <2>6 DEF Started
  <2>8. Written'
    BY <1>1, <1>3, <2>1, <2>2, <2>6 DEF Written, Idle
  <2>9. /\ bf \in Buffers /\ bf.get <= bf.put /\ bf.put <= BufSize /\ bf.get = bf.put
        /\ conn \in [state : ConnStates, socket : BOOLEAN, ctx : BOOLEAN]
    BY <1>3, <2>2 DEF WInv, BufferInv, ConnInv, ConnTypes
  <2>10. Emptied' = Emptied
    BY <2>1 DEF Emptied
  <2> QED
    BY <1>1, <2>1, <2>2, <2>6, <2>7, <2>8, <2>9, <2>10 DEF Replying
<1> QED
  BY <1>2, <1>3

\* No servlet sends more than it announced, and none mixes the calls.
LEMMA SendReplies ==
  ASSUME WInv, ServingFacts, NEW n \in 1 .. MaxSize, HTTP_response_send(n),
         resp.asked \in {"none", "close", "length"}, resp.asked = "length" => n <= resp.todo
  PROVE  Replying /\ Same
<1> DEFINE x == Item("data", n)
           d == Len(received) - 1
           r == [resp EXCEPT !.state = 2, !.left = IF @ = NoLimit THEN @ ELSE @ - n,
                             !.todo = IF @ < n THEN 0 ELSE @ - n]
<1>1. conn' = conn /\ received' = received /\ Same
  BY DEF HTTP_response_send, Keep, Same
<1>2. CASE resp.state \notin {1, 2}
  BY <1>1, <1>2, RefusedReplies DEF HTTP_response_send
<1>3. CASE resp.state \in {1, 2}
  <2>1. /\ resp \in Responses /\ client \in Clients /\ Started /\ Written /\ n \in Nat /\ n > 0
        /\ ConnInv /\ BufferInv /\ d \in Nat /\ Len(received) = d + 1
    BY DEF ServingFacts, Serving, WInv
  <2>2. PICK kind \in {"length", "close"} : resp.flags = {kind}
    BY <1>3, <2>1 DEF Started, Kinds
  <2>3. /\ kind = "length" => resp.asked = "length" /\ resp.left = resp.todo /\ n <= resp.left
                              /\ resp.left \in Nat
        /\ kind = "close" => resp.left = NoLimit
    BY <2>1, <2>2 DEF Started, Responses
  <2>4. "chunked" \notin resp.flags /\ ~(resp.left # NoLimit /\ resp.left < n)
    BY <2>1, <2>2, <2>3
  <2>5. WithHeader(r, <<x>>)
    BY <1>3, <2>4 DEF HTTP_response_send
  <2> HIDE DEF r, x
  <2>6. PICK c : Headed(c) /\ Sent(r, Reads(c, x))
    BY <1>3, <2>1, <2>5, WithHeaderIs
  <2>7. CASE resp' = [resp EXCEPT !.state = WritesForEver] /\ client' = client /\ resp.state = 1
    BY <1>1, <2>1, <2>6, <2>7, WritesForEverReplies DEF Sent
  <2>8. CASE Called(r) /\ client' = Reads(c, x)
    <3>1. /\ x.of = d + 1 /\ x.n = n /\ x.k = "data" /\ c \in Clients
      BY <2>1, <2>6 DEF Item, Headed, x
    <3> HIDE DEF d
    <3>4. conn.socket = TRUE
      <4>1. conn.socket = ~(resp.state = 3 /\ resp.flags = {"close"})
        BY <2>1 DEF Written
      <4>2. resp.state # 3
        BY <1>3
      <4> QED
        BY <4>1, <4>2
    <3>2. CASE kind = "length"
      <4> DEFINE l == resp.left - n
      <4>8. l \in Nat /\ resp.left # 0 /\ resp.left \in Nat
        BY <2>1, <2>3, <3>2
      <4>1. resp.flags = {"length"} /\ resp.flags # {"close"} /\ resp.flags # {"chunked"}
        BY <2>2, <3>2
      <4>2. c.st = "body" /\ c.left = resp.left /\ c.done = d
        BY <2>6, <4>1, <4>8 DEF Headed, d
      <4>3. resp.left # NoLimit
        BY <2>3, <3>2 DEF NoLimit
      <4>4. /\ resp' \in Responses /\ resp'.state = 2 /\ resp'.flags = {"length"}
            /\ resp'.left = l /\ resp'.todo = l /\ resp'.asked = "length"
            /\ resp'.pc = resp.pc
        <5>1. /\ (IF resp.left = NoLimit THEN resp.left ELSE resp.left - n) = l
              /\ (IF resp.todo < n THEN 0 ELSE resp.todo - n) = l
          BY <2>1, <2>3, <3>2, <4>3
        <5>2. r = [resp EXCEPT !.state = 2, !.left = l, !.todo = l]
          BY <2>1, <5>1 DEF r, Responses
        <5>3. resp.asked = "length"
          BY <2>3, <3>2
        <5> HIDE DEF l
        <5>4. resp' = [resp EXCEPT !.state = 2, !.left = l, !.todo = l, !.calls = resp.calls + 1]
          BY <2>1, <2>8, <5>2 DEF Called, Responses
        <5> DEFINE calls == resp.calls + 1
        <5>5. calls \in Nat /\ l \in Nat /\ l \in Nat \cup {NoLimit}
          BY <2>1, <4>8 DEF Responses, l
        <5>6. resp' = RespSend(resp, l, l, calls)
          BY <5>4 DEF RespSend
        <5> HIDE DEF calls
        <5>7. /\ resp' \in Responses /\ resp'.state = 2 /\ resp'.asked = resp.asked
              /\ resp'.todo = l /\ resp'.flags = resp.flags /\ resp'.left = l
              /\ resp'.pc = resp.pc
          <6> DEFINE q == RespSend(resp, l, l, calls)
          <6>1. resp \in Responses
            BY <2>1
          <6>2. /\ q \in Responses /\ q.state = 2 /\ q.asked = resp.asked /\ q.todo = l
                /\ q.flags = resp.flags /\ q.left = l /\ q.pc = resp.pc
            BY <5>5, <6>1, RespSendIs
          <6>3. resp' = q
            BY <5>6
          <6> HIDE DEF q
          <6> QED
            BY <6>2, <6>3
        <5> QED
          BY <4>1, <5>3, <5>7
      <4>5. /\ client' \in Clients
            /\ IF resp'.left = 0 THEN client'.st = "idle" /\ client'.done = d + 1
               ELSE client'.st = "body" /\ client'.left = resp'.left /\ client'.done = d
        <5>1. /\ Reads(c, x) = IF x.n = c.left THEN Answered(c) ELSE [c EXCEPT !.left = @ - x.n]
              /\ Answered(c) = [st |-> "idle", left |-> 0, done |-> c.done + 1]
          <6>1. x.of = c.done + 1 /\ x.n \in Nat /\ x.n <= c.left /\ c.st = "body" /\ x.k = "data"
            BY <2>1, <2>3, <3>1, <3>2, <4>2
          <6> QED
            BY <3>1, <6>1, ReadsFacts
        <5>2. d + 1 \in Nat /\ resp.left - n \in Nat /\ resp.left \in Nat
          BY <2>1, <4>8
        <5>3. CASE n = c.left
          <6>1. client' = [st |-> "idle", left |-> 0, done |-> d + 1] /\ resp'.left = 0
            BY <2>1, <2>8, <3>1, <4>2, <4>4, <5>1, <5>3
          <6> QED
            BY <5>2, <6>1 DEF Clients
        <5>4. CASE n # c.left
          <6>1. client' = [c EXCEPT !.left = resp.left - n] /\ resp'.left # 0
            BY <2>1, <2>8, <3>1, <4>2, <4>4, <5>1, <5>2, <5>4
          <6> QED
            BY <3>1, <4>2, <4>4, <5>2, <6>1 DEF Clients
        <5> QED
          BY <5>3, <5>4
      <4>6. Started'
        BY <4>4 DEF Started, Kinds
      <4>7. Written'
        <5>1. resp'.flags # {"close"} /\ resp'.flags # {"chunked"} /\ resp'.state # WritesForEver
          BY <4>4 DEF WritesForEver
        <5>2. Len(received') - 1 = d /\ conn'.socket = TRUE
          BY <1>1, <3>4 DEF d
        <5>3. resp'.state \notin {0, 1, 3, WritesForEver}
          BY <4>4 DEF WritesForEver
        <5> QED
          BY <4>4, <4>5, <5>1, <5>2, <5>3 DEF Written, Idle
      <4> QED
        BY <1>1, <2>1, <2>6, <4>4, <4>5, <4>6, <4>7 DEF Replying, Sent, ConnInv, ConnTypes
    <3>3. CASE kind = "close"
      <4>1. resp.flags = {"close"} /\ resp.flags # {"length"} /\ resp.flags # {"chunked"}
        BY <2>2, <3>3
      <4>2. c.st = "until_close" /\ c.done = d
        BY <2>6, <4>1 DEF Headed, d
      <4>3. /\ resp' \in Responses /\ resp'.state = 2 /\ resp'.flags = {"close"}
            /\ resp'.left = NoLimit /\ resp'.pc = resp.pc
        <5> DEFINE t == IF resp.todo < n THEN 0 ELSE resp.todo - n
        <5>1. t \in Nat
          BY <2>1 DEF Responses
        <5>2. resp.left = NoLimit
          BY <2>3, <3>3
        <5>3. resp' = [resp EXCEPT !.state = 2, !.left = resp.left, !.todo = t,
                                   !.calls = resp.calls + 1]
          BY <2>1, <2>8, <5>2 DEF Called, r, Responses
        <5> DEFINE calls == resp.calls + 1
                   l == resp.left
        <5>4. calls \in Nat /\ l \in Nat \cup {NoLimit}
          BY <2>1 DEF Responses
        <5>5. resp' = RespSend(resp, l, t, calls)
          BY <5>3 DEF RespSend
        <5> HIDE DEF t, calls, l
        <5>6. /\ resp' \in Responses /\ resp'.state = 2 /\ resp'.flags = resp.flags
              /\ resp'.left = l /\ resp'.pc = resp.pc
          <6> DEFINE q == RespSend(resp, l, t, calls)
          <6>1. resp \in Responses
            BY <2>1
          <6>2. /\ q \in Responses /\ q.state = 2 /\ q.asked = resp.asked /\ q.todo = t
                /\ q.flags = resp.flags /\ q.left = l /\ q.pc = resp.pc
            BY <5>1, <5>4, <6>1, RespSendIs
          <6>3. resp' = q
            BY <5>5
          <6> HIDE DEF q
          <6> QED
            BY <6>2, <6>3
        <5> QED
          BY <4>1, <5>2, <5>6 DEF l
      <4>4. client' = c
        <5>1. x.of = c.done + 1 /\ x.n \in Nat
          BY <2>1, <3>1, <4>2
        <5>2. Reads(c, x) = c
          BY <3>1, <4>2, <5>1, ReadsFacts
        <5> QED
          BY <2>8, <5>2
      <4>5. Started'
        BY <4>3 DEF Started, Kinds
      <4>6. Written'
        <5>1. resp'.flags # {"length"} /\ resp'.flags # {"chunked"} /\ resp'.state # WritesForEver
          BY <4>3 DEF WritesForEver
        <5>2. Len(received') - 1 = d /\ conn'.socket = TRUE
          BY <1>1, <3>4 DEF d
        <5>3. resp'.state \notin {0, 1, 3, WritesForEver}
          BY <4>3 DEF WritesForEver
        <5> QED
          BY <4>2, <4>3, <4>4, <5>1, <5>2, <5>3 DEF Written, Idle
      <4> QED
        BY <1>1, <2>1, <2>6, <3>1, <4>3, <4>4, <4>5, <4>6 DEF Replying, Sent, ConnInv, ConnTypes
    <3> QED
      BY <3>2, <3>3
  <2> QED
    BY <1>1, <2>6, <2>7, <2>8 DEF Sent
<1> QED
  BY <1>2, <1>3

\* Only the first chunk has no CRLF in front of it.
LEMMA ChunkReplies ==
  ASSUME WInv, ServingFacts, NEW n \in 1 .. MaxSize, HTTP_response_write_chunk(n),
         resp.asked \in {"none", "chunked"}
  PROVE  Replying /\ Same
<1> DEFINE d == Len(received) - 1
           no == IF resp.state = 1 THEN resp.chunk_no ELSE resp.chunk_no + 1
           what == IF "close" \in resp.flags THEN "data"
                   ELSE IF no = 0 THEN "chunk" ELSE "crlf_chunk"
           x == Item(what, n)
           r == [resp EXCEPT !.state = 2, !.chunk_no = no]
<1>1. conn' = conn /\ received' = received /\ Same
  BY DEF HTTP_response_write_chunk, Keep, Same
<1>2. CASE resp.state \notin {1, 2} \/ resp.flags \cap {"chunked", "close"} = {}
  BY <1>1, <1>2, RefusedReplies DEF HTTP_response_write_chunk
<1>3. CASE resp.state \in {1, 2} /\ resp.flags \cap {"chunked", "close"} # {}
  <2>1. /\ resp \in Responses /\ client \in Clients /\ Started /\ Written /\ n \in Nat /\ n > 0
        /\ ConnInv /\ BufferInv /\ d \in Nat /\ Len(received) = d + 1
    BY DEF ServingFacts, Serving, WInv
  <2>2. PICK kind \in {"chunked", "close"} : resp.flags = {kind}
    BY <1>3, <2>1 DEF Started, Kinds
  <2>3. no \in Nat /\ (resp.state = 1 => no = 0) /\ (resp.state = 2 => no # 0)
    <3>1. resp.chunk_no \in Nat /\ (resp.state = 1 => resp.chunk_no = 0)
      BY <2>1 DEF Responses, Written
    <3> QED
      BY <3>1
  <2>5. WithHeader(r, <<x>>)
    BY <1>3 DEF HTTP_response_write_chunk
  <2>9. /\ x.of = d + 1 /\ x.n = n /\ x.k = what
    BY <2>1 DEF Item
  <2>10. /\ kind = "close" => what = "data"
         /\ kind = "chunked" => what = IF no = 0 THEN "chunk" ELSE "crlf_chunk"
    BY <2>2
  <2>11. /\ kind = "close" => resp.left = NoLimit
         /\ kind = "chunked" => resp.asked = "chunked"
    BY <2>1, <2>2 DEF Started
  <2> DEFINE calls == resp.calls + 1
             q == RespChunk(resp, 2, no, calls)
  <2>12. /\ Called(r) => resp' = q
         /\ calls \in Nat
    BY <2>1 DEF Called, RespChunk, Responses
  <2> HIDE DEF r, x, no, what, calls
  <2>6. PICK c : Headed(c) /\ Sent(r, Reads(c, x))
    BY <1>3, <2>1, <2>5, WithHeaderIs
  <2>7. CASE resp' = [resp EXCEPT !.state = WritesForEver] /\ client' = client /\ resp.state = 1
    BY <1>1, <2>1, <2>6, <2>7, WritesForEverReplies DEF Sent
  <2>8. CASE Called(r) /\ client' = Reads(c, x)
    <3>1. c \in Clients
      BY <2>6 DEF Headed
    <3>2. conn.socket = TRUE
      <4>1. conn.socket = ~(resp.state = 3 /\ resp.flags = {"close"})
        BY <2>1 DEF Written
      <4>2. resp.state # 3
        BY <1>3
      <4> QED
        BY <4>1, <4>2
    <3>3. /\ resp' \in Responses /\ resp'.state = 2 /\ resp'.flags = {kind}
          /\ resp'.left = resp.left /\ resp'.pc = resp.pc /\ resp'.asked = resp.asked
          /\ resp'.todo = resp.todo
      <4>1. resp \in Responses
        BY <2>1
      <4>2. /\ q \in Responses /\ q.state = 2 /\ q.asked = resp.asked /\ q.todo = resp.todo
            /\ q.flags = resp.flags /\ q.left = resp.left /\ q.pc = resp.pc
        <5>1. calls \in Nat /\ no \in Nat
          BY <2>3, <2>12
        <5> QED
          BY <4>1, <5>1, RespChunkIs
      <4>3. resp' = q
        BY <2>8, <2>12
      <4> HIDE DEF q
      <4> QED
        BY <2>2, <4>2, <4>3
    <3> HIDE DEF d, q
    <3>4. CASE kind = "close"
      <4>1. resp.flags = {"close"} /\ what = "data"
        BY <2>2, <2>10, <3>4
      <4>2. c.st = "until_close" /\ c.done = d
        BY <2>6, <4>1 DEF Headed, d
      <4>4. client' = c
        <5>1. x.of = c.done + 1 /\ x.n \in Nat
          BY <2>1, <2>9, <4>2
        <5>2. Reads(c, x) = c
          BY <2>9, <3>1, <4>1, <4>2, <5>1, ReadsFacts
        <5> QED
          BY <2>8, <5>2
      <4>5. Started'
        BY <2>11, <3>3, <3>4 DEF Started, Kinds
      <4>6. Written'
        <5>1. resp'.flags # {"length"} /\ resp'.flags # {"chunked"} /\ resp'.flags = {"close"}
          BY <3>3, <3>4
        <5>2. Len(received') - 1 = d /\ conn'.socket = TRUE
          BY <1>1, <3>2 DEF d
        <5>3. resp'.state \notin {0, 1, 3, WritesForEver}
          BY <3>3 DEF WritesForEver
        <5> QED
          BY <3>3, <4>2, <4>4, <5>1, <5>2, <5>3 DEF Written, Idle
      <4> QED
        BY <1>1, <2>1, <2>6, <3>1, <3>3, <4>4, <4>5, <4>6 DEF Replying, Sent, ConnInv, ConnTypes
    <3>5. CASE kind = "chunked"
      <4>1. resp.flags = {"chunked"} /\ what = IF no = 0 THEN "chunk" ELSE "crlf_chunk"
        BY <2>2, <2>10, <3>5
      <4>2. c.st = (IF resp.state = 1 THEN "first_chunk" ELSE "next_chunk") /\ c.done = d
        BY <2>6, <4>1 DEF Headed, d
      <4>4. client' \in Clients /\ client'.st = "next_chunk" /\ client'.done = d
        <5>1. x.of = c.done + 1 /\ x.n \in Nat
          BY <2>1, <2>9, <4>2
        <5>2. CASE resp.state = 1
          <6>1. c.st = "first_chunk" /\ x.k = "chunk"
            BY <2>3, <2>9, <4>1, <4>2, <5>2
          <6>2. Reads(c, x) = [c EXCEPT !.st = "next_chunk"]
            BY <3>1, <5>1, <6>1, ReadsFacts
          <6> QED
            BY <2>8, <3>1, <4>2, <6>2 DEF Clients
        <5>3. CASE resp.state = 2
          <6>1. c.st = "next_chunk" /\ x.k = "crlf_chunk"
            BY <2>3, <2>9, <4>1, <4>2, <5>3
          <6>2. Reads(c, x) = c
            BY <3>1, <5>1, <6>1, ReadsFacts
          <6> QED
            BY <2>8, <3>1, <4>2, <6>1, <6>2
        <5> QED
          BY <1>3, <5>2, <5>3
      <4>5. Started'
        BY <2>11, <3>3, <3>5 DEF Started, Kinds
      <4>6. Written'
        <5>1. resp'.flags # {"length"} /\ resp'.flags # {"close"} /\ resp'.flags = {"chunked"}
          BY <3>3, <3>5
        <5>2. Len(received') - 1 = d /\ conn'.socket = TRUE
          BY <1>1, <3>2 DEF d
        <5>3. resp'.state \notin {0, 1, 3, WritesForEver}
          BY <3>3 DEF WritesForEver
        <5> QED
          BY <3>3, <4>4, <5>1, <5>2, <5>3 DEF Written, Idle
      <4>7. /\ bf' \in Buffers /\ bf'.get <= bf'.put /\ bf'.put <= BufSize /\ Emptied' = Emptied
            /\ conn' \in [state : ConnStates, socket : BOOLEAN, ctx : BOOLEAN]
            /\ conn'.state = conn.state
        BY <1>1, <2>1, <2>6 DEF Sent, ConnInv, ConnTypes
      <4> QED
        <5>1. resp'.state \notin {0, 1} /\ resp' \in Responses /\ resp'.pc = resp.pc
          BY <3>3
        <5> QED
          BY <1>1, <4>4, <4>5, <4>6, <4>7, <5>1 DEF Replying
    <3> QED
      BY <3>4, <3>5
  <2> QED
    BY <1>1, <2>6, <2>7, <2>8 DEF Sent
<1> QED
  BY <1>2, <1>3

\* What was announced has been sent, and a chunked response has a chunk.
MayFinish == resp.todo = 0 /\ (resp.asked = "chunked" => resp.state # 1)

\* HTTP_response_finish: the last chunk, a header that was not sent yet, or the close.
LEMMA FinishReplies ==
  ASSUME WInv, ServingFacts, HTTP_response_finish, MayFinish
  PROVE  Replying /\ Same
<1> DEFINE d == Len(received) - 1
           inChunks == "chunked" \in resp.flags
           no == IF inChunks THEN resp.chunk_no + 1 ELSE resp.chunk_no
           last == IF no = 0 THEN "last" ELSE "crlf_last"
           x == Item(last, 0)
           r == [resp EXCEPT !.state = 3, !.chunk_no = no]
<1>1. received' = received /\ Same
  BY DEF HTTP_response_finish, Same
<1>2. CASE resp.state \notin {1, 2}
  BY <1>1, <1>2, RefusedReplies DEF HTTP_response_finish
<1>3. CASE resp.state \in {1, 2}
  <2>1. /\ resp \in Responses /\ client \in Clients /\ Started /\ Written
        /\ ConnInv /\ BufferInv /\ d \in Nat /\ Len(received) = d + 1
    BY DEF ServingFacts, Serving, WInv
  <2>2. PICK kind \in Kinds : resp.flags = {kind}
    BY <1>3, <2>1 DEF Started
  <2>3. no \in Nat /\ (inChunks => no # 0)
    <3>1. resp.chunk_no \in Nat
      BY <2>1 DEF Responses
    <3> QED
      BY <3>1
  <2>5. /\ inChunks => WithHeader(r, <<x>>)
        /\ ~inChunks => WithHeader(r, <<>>)
        /\ conn' = [conn EXCEPT !.socket = IF resp'.state = 3 /\ "close" \in resp.flags
                                           THEN FALSE ELSE @]
    BY <1>3 DEF HTTP_response_finish
  <2>14. inChunks <=> kind = "chunked"
    BY <2>2
  <2>9. x.of = d + 1 /\ x.n = 0 /\ (kind = "chunked" => x.k = "crlf_last")
    BY <2>1, <2>3, <2>14 DEF Item
  <2>11. /\ kind = "close" => resp.left = NoLimit
         /\ kind = "chunked" => resp.asked = "chunked" /\ resp.state = 2
         /\ kind = "length" => resp.asked = "length" /\ resp.left = 0
    BY <1>3, <2>1, <2>2 DEF Started, MayFinish
  <2>13. conn.socket = TRUE /\ conn \in [state : ConnStates, socket : BOOLEAN, ctx : BOOLEAN]
    <3>1. conn.socket = ~(resp.state = 3 /\ resp.flags = {"close"})
      BY <2>1 DEF Written
    <3>2. resp.state # 3
      BY <1>3
    <3> QED
      BY <2>1, <3>1, <3>2 DEF ConnInv, ConnTypes
  <2> DEFINE calls == resp.calls + 1
             q == RespChunk(resp, 3, no, calls)
  <2>12. /\ Called(r) => resp' = q
         /\ calls \in Nat
    BY <2>1 DEF Called, RespChunk, Responses
  <2> HIDE DEF r, x, no, inChunks, calls
  <2>6. PICK c : Headed(c) /\ Sent(r, IF kind = "chunked" THEN Reads(c, x) ELSE c)
    <3>1. PICK c : /\ Headed(c)
                   /\ WithHeader(r, <<>>)  => Sent(r, c)
                   /\ WithHeader(r, <<x>>) => Sent(r, Reads(c, x))
      BY <1>3, <2>1, WithHeaderIs
    <3> QED
      BY <2>5, <2>14, <3>1
  <2>15. Headed(c)
    BY <2>6
  <2>7. CASE resp' = [resp EXCEPT !.state = WritesForEver] /\ client' = client /\ resp.state = 1
    <3>1. resp'.state # 3
      BY <2>1, <2>7 DEF Responses, WritesForEver
    <3>2. conn' = conn
      BY <2>5, <2>13, <3>1
    <3> QED
      BY <1>1, <2>1, <2>6, <2>7, <3>2, WritesForEverReplies DEF Sent
  <2>8. CASE Called(r) /\ client' = IF kind = "chunked" THEN Reads(c, x) ELSE c
    <3>1. c \in Clients
      BY <2>6 DEF Headed
    <3>3. /\ resp' \in Responses /\ resp'.state = 3 /\ resp'.flags = {kind}
          /\ resp'.left = resp.left /\ resp'.pc = resp.pc /\ resp'.asked = resp.asked
          /\ resp'.todo = resp.todo
      <4>1. resp \in Responses
        BY <2>1
      <4>2. /\ q \in Responses /\ q.state = 3 /\ q.asked = resp.asked /\ q.todo = resp.todo
            /\ q.flags = resp.flags /\ q.left = resp.left /\ q.pc = resp.pc
        <5>1. calls \in Nat /\ no \in Nat
          BY <2>3, <2>12
        <5> QED
          BY <4>1, <5>1, RespChunkIs
      <4>3. resp' = q
        BY <2>8, <2>12
      <4> HIDE DEF q
      <4> QED
        BY <2>2, <4>2, <4>3
    <3> HIDE DEF d, q
    <3>4. Started'
      <4>1. resp'.flags = {"length"} => kind = "length"
        BY <3>3
      <4>2. resp'.flags = {"chunked"} => kind = "chunked"
        BY <3>3
      <4>3. resp'.flags = {"close"} => kind = "close"
        BY <3>3
      <4> QED
        BY <2>11, <3>3, <4>1, <4>2, <4>3 DEF Started, MayFinish
    <3>5. /\ conn' \in [state : ConnStates, socket : BOOLEAN, ctx : BOOLEAN] /\ conn'.state = conn.state
          /\ conn'.socket = (kind # "close")
      <4>1. conn' = [conn EXCEPT !.socket = (kind # "close")]
        BY <2>2, <2>5, <2>13, <3>3
      <4> QED
        BY <2>13, <4>1
    <3>6. /\ client' \in Clients
          /\ kind = "close" => client'.st = "until_close" /\ client'.done = d
          /\ kind # "close" => client'.st = "idle" /\ client'.done = d + 1
      <4>1. CASE kind = "close"
        <5>1. resp.flags = {"close"}
          BY <2>2, <4>1
        <5> QED
          BY <2>8, <2>15, <3>1, <4>1, <5>1 DEF Headed, d
      <4>2. CASE kind = "length"
        <5>1. resp.flags = {"length"} /\ resp.left = 0
          BY <2>2, <2>11, <4>2
        <5> QED
          BY <2>8, <2>15, <3>1, <4>2, <5>1 DEF Headed, d
      <4>3. CASE kind = "chunked"
        <5>1. resp.flags = {"chunked"} /\ resp.state = 2
          BY <2>2, <2>11, <4>3
        <5>2. c.st = "next_chunk" /\ c.done = d
          <6>1. c.st = (IF resp.state = 1 THEN "first_chunk" ELSE "next_chunk") /\ c.done = d
            BY <2>15, <5>1 DEF Headed, d
          <6> QED
            BY <5>1, <6>1
        <5>3. x.of = c.done + 1 /\ x.n \in Nat /\ x.k = "crlf_last"
          BY <2>1, <2>9, <4>3, <5>2
        <5>4. Reads(c, x) = [st |-> "idle", left |-> 0, done |-> c.done + 1]
          BY <3>1, <5>2, <5>3, ReadsFacts
        <5>5. client' = [st |-> "idle", left |-> 0, done |-> d + 1] /\ d + 1 \in Nat
          BY <2>1, <2>8, <4>3, <5>2, <5>4 DEF d
        <5> QED
          BY <4>3, <5>5 DEF Clients
      <4> QED
        BY <4>1, <4>2, <4>3 DEF Kinds
    <3>7. Written'
      <4>1. resp'.state \notin {0, 1, 2, WritesForEver} /\ resp'.state = 3
        BY <3>3 DEF WritesForEver
      <4>2. Len(received') - 1 = d
        BY <1>1 DEF d
      <4>3. CASE kind = "close"
        <5>1. resp'.flags # {"length"} /\ resp'.flags # {"chunked"} /\ resp'.flags = {"close"}
          BY <3>3, <4>3
        <5> QED
          BY <3>5, <3>6, <4>1, <4>2, <4>3, <5>1 DEF Written, Idle
      <4>4. CASE kind = "length"
        <5>1. resp'.flags # {"close"} /\ resp'.flags # {"chunked"} /\ resp'.left = 0
          BY <2>11, <3>3, <4>4
        <5> QED
          BY <3>5, <3>6, <4>1, <4>2, <4>4, <5>1 DEF Written, Idle
      <4>5. CASE kind = "chunked"
        <5>1. resp'.flags # {"close"} /\ resp'.flags # {"length"}
          BY <3>3, <4>5
        <5> QED
          BY <3>5, <3>6, <4>1, <4>2, <4>5, <5>1 DEF Written, Idle
      <4> QED
        BY <4>3, <4>4, <4>5 DEF Kinds
    <3>8. bf' \in Buffers /\ bf'.get <= bf'.put /\ bf'.put <= BufSize /\ Emptied' = Emptied
      BY <2>6 DEF Sent
    <3>9. resp'.state \notin {0, 1} /\ resp' \in Responses /\ resp'.pc = resp.pc
      BY <3>3
    <3> QED
      BY <1>1, <3>4, <3>5, <3>6, <3>7, <3>8, <3>9 DEF Replying
  <2> QED
    BY <1>1, <2>6, <2>7, <2>8 DEF Sent
<1> QED
  BY <1>2, <1>3

\* Whatever a servlet calls within its contract.
LEMMA ServletCallKeeps ==
  ASSUME WInv, Contract, ServletCall
  PROVE  WInv'
<1>1. \A lapse : ~May(lapse)
  BY DEF Contract, May
<1>2. InServlet /\ resp.pc \in 1 .. Servlets
  BY DEF ServletCall, InServlet, Calls, HTTP_response_start, HTTP_response_send,
         HTTP_response_write_chunk, HTTP_response_finish
<1>3. ServingFacts
  BY <1>2, ServingIs, WebbyAssumption DEF WInv
<1>4. Replying /\ Same
  <2>1. CASE \E kind \in {"close", "length", "chunked"}, n \in 0..MaxSize :
               (kind = "length" \/ n = 0) /\ HTTP_response_start(kind, n)
    BY <1>3, <2>1, StartReplies DEF Kinds
  <2>2. CASE \E n \in 1..MaxSize :
               /\ resp.asked \in {"none", "close", "length"} /\ resp.calls < MaxCalls
               /\ resp.asked = "length" => n <= resp.todo \/ May("oversend")
               /\ HTTP_response_send(n)
    BY <1>1, <1>3, <2>2, SendReplies
  <2>3. CASE \E n \in 1..MaxSize :
               /\ resp.asked \in {"none", "chunked"} /\ resp.calls < MaxCalls
               /\ HTTP_response_write_chunk(n)
    BY <1>3, <2>3, ChunkReplies
  <2>4. CASE /\ resp.todo = 0 \/ May("short")
             /\ resp.asked = "chunked" => resp.state # 1 \/ May("nochunk")
             /\ HTTP_response_finish
    BY <1>1, <1>3, <2>4, FinishReplies DEF MayFinish
  <2> QED
    BY <2>1, <2>2, <2>3, <2>4 DEF ServletCall
<1> QED
  BY <1>2, <1>4, CallKeeps DEF Same

-----------------------------------------------------------------------------
(* The handlers around the calls *)

\* Before the servlets begin, the client has the answers to all requests before.
LEMMA WaitingIs ==
  ASSUME WInv, status = "running", resp.pc = 0
  PROVE  /\ resp = NoResponse /\ conn.socket = TRUE /\ Idle(Pending) /\ conn.state = "parsing"
         /\ client \in Clients
<1>1. Waiting /\ client \in Clients /\ conn.state = "parsing"
  BY DEF WInv, ServeInv, ConnInv, ConnTypes
<1>2. conn.socket \in BOOLEAN
  BY DEF WInv, ConnInv, ConnTypes
<1> QED
  BY <1>1, <1>2 DEF Waiting

\* Between requests and while one is read no servlet has been called.
LEMMA NoServletIs ==
  ASSUME WInv, ~In("next_request")
  PROVE  resp.pc = 0 /\ Waiting /\ resp \in Responses /\ client \in Clients
BY DEF WInv, ServeInv, Serving

\* A step of the parser, and what HeaderParsed answers.
LEMMA ParserStepKeeps ==
  ASSUME WInv, Contract, Parsed, resp' = resp, client' \in Clients,
         conn' \in [state : ConnStates, socket : BOOLEAN, ctx : BOOLEAN],
         conn'.state = conn.state, conn'.socket = conn.socket,
         status' # "refused" => client' = client
  PROVE  WInv'
<1>1. /\ ParserInv' /\ Advances /\ status = "running" /\ parser.state # "next_request"
      /\ bf' \in Buffers /\ bf'.get <= bf'.put /\ bf'.put <= BufSize
      /\ In("next_request")' => bf'.get = bf'.put
  BY ParsedKeeps DEF WInv
<1>2. resp.pc = 0 /\ Waiting /\ resp \in Responses
  BY <1>1, NoServletIs DEF In
<1>3. resp = NoResponse /\ conn.socket = TRUE /\ Idle(Pending) /\ conn.state = "parsing"
  BY <1>1, <1>2, WaitingIs
<1>4. /\ status' \in {"running", "need_more", "error", "refused"}
      /\ status' \notin {"error", "refused"} => Pending' = Pending
      /\ status' = "need_more" => bf'.get = bf'.put
      /\ parser'.state = "next_request" => status' = "running"
  BY <1>1 DEF Advances, Pending
<1>5. ConnInv'
  BY <1>2, <1>3, <1>4 DEF ConnInv, ConnTypes
<1>6. BufferInv'
  BY <1>1, <1>3, <1>4 DEF BufferInv
<1>7. Waiting'
  BY <1>2, <1>3, <1>4 DEF Waiting, Idle
<1>8. ServeInv'
  BY <1>2, <1>7 DEF ServeInv
<1> QED
  BY <1>1, <1>5, <1>6, <1>8 DEF WInv

LEMMA ParseKeeps ==
  ASSUME WInv, Contract, Parse
  PROVE  WInv'
<1>1. Parsed /\ resp' = resp /\ client' = client /\ conn' = conn
  BY DEF Parse, Parsed, served
<1>2. client \in Clients /\ conn \in [state : ConnStates, socket : BOOLEAN, ctx : BOOLEAN]
  BY DEF WInv, ServeInv, ConnInv, ConnTypes
<1> QED
  BY <1>1, <1>2, ParserStepKeeps

\* A request without host is answered in the place of its header.
LEMMA HeaderParsedKeeps ==
  ASSUME WInv, Contract, HeaderParsed
  PROVE  WInv'
<1> DEFINE ok == request.version = 0 \/ "host" \in request.flags
           x == [k |-> "400", n |-> 0, of |-> Len(received')]
<1>1. /\ EndOfHeader(ok) /\ client' = (IF ok THEN client ELSE Reads(client, x))
      /\ conn' = [conn EXCEPT !.ctx = @ \/ ok] /\ resp' = resp
  BY DEF HeaderParsed
<1>2. ok \in BOOLEAN
  OBVIOUS
<1>3. x.of = Len(received') /\ x.k = "400" /\ x.n = 0
  OBVIOUS
<1> HIDE DEF ok, x
<1>4. Parsed
  BY <1>1, <1>2 DEF Parsed
<1>5. conn \in [state : ConnStates, socket : BOOLEAN, ctx : BOOLEAN]
  BY DEF WInv, ConnInv, ConnTypes
<1>6. /\ conn' \in [state : ConnStates, socket : BOOLEAN, ctx : BOOLEAN]
      /\ conn'.state = conn.state /\ conn'.socket = conn.socket
  BY <1>1, <1>5
<1>7. status = "running" /\ parser.state = "HEADERS"
  BY <1>1 DEF EndOfHeader, In
<1>8. resp.pc = 0
  BY <1>7, NoServletIs DEF In
<1>9. Idle(Pending) /\ client \in Clients
  BY <1>7, <1>8, WaitingIs
<1>10. Inv
  BY <1>7 DEF WInv, ParserInv, Seen, Answering, Inv
<1>11. CASE ok
  BY <1>1, <1>4, <1>6, <1>9, <1>11, ParserStepKeeps
<1>12. CASE ~ok
  <2>1. status' = "refused" /\ Len(received') = Len(received) + 1
    BY <1>1, <1>2, <1>7, <1>10, <1>12, EndOfHeaderAdvances
  <2>2. Len(received) \in Nat
    BY <1>10, InvFacts
  <2>3. client.done = Len(received) /\ client.st = "idle"
    BY <1>7, <1>9, <2>2 DEF Idle, Pending, Current
  <2>4. client' = [st |-> "idle", left |-> 0, done |-> client.done + 1]
    <3>1. x.of = client.done + 1 /\ x.n \in Nat
      BY <1>3, <2>1, <2>3
    <3> QED
      BY <1>1, <1>3, <1>9, <1>12, <2>3, <3>1, ReadsFacts
  <2>5. client' \in Clients
    BY <2>2, <2>3, <2>4 DEF Clients
  <2> QED
    BY <1>1, <1>4, <1>6, <2>1, <2>5, ParserStepKeeps
<1> QED
  BY <1>11, <1>12

LEMMA NoResponseIs ==
  /\ NoResponse \in Responses /\ NoResponse.pc = 0 /\ NoResponse.state = 0
  /\ NoResponse.flags = {} /\ NoResponse.asked = "none" /\ NoResponse.chunk_no = 0
<1>1. /\ NoResponse.pc = 0 /\ NoResponse.state = 0
      /\ NoResponse.flags = {} /\ NoResponse.asked = "none" /\ NoResponse.chunk_no = 0
  BY DEF NoResponse
<1>2. NoResponse \in Responses
  BY DEF NoResponse, Responses, Kinds
<1> QED
  BY <1>1, <1>2

\* What is sent while a servlet, or nobody, has written nothing.
LEMMA AnswerIs ==
  ASSUME NEW d \in Nat, client \in Clients, Idle(d), Len(received) = d + 1,
         NEW kind \in {"404", "500"}, Send(<<Item(kind, 0)>>)
  PROVE  client' \in Clients /\ client'.st = "idle" /\ client'.done = d + 1
<1> DEFINE x == Item(kind, 0)
<1>1. client' = Reads(client, x)
  BY SendIs
<1>2. x.of = client.done + 1 /\ x.n \in Nat /\ x.k = kind /\ client.st = "idle" /\ client.done = d
  BY DEF Item, Idle
<1> HIDE DEF x
<1>3. Reads(client, x) = [st |-> "idle", left |-> 0, done |-> client.done + 1]
  BY <1>2, ReadsFacts
<1>4. client' = [st |-> "idle", left |-> 0, done |-> d + 1] /\ d + 1 \in Nat
  BY <1>1, <1>2, <1>3
<1> QED
  BY <1>4 DEF Clients

\* The first servlet is called with a client that has read all responses before.
LEMMA ServletsBeginKeeps ==
  ASSUME WInv, ServletsBegin
  PROVE  WInv'
<1> DEFINE d == Len(received) - 1
           x == Item("100", 0)
<1>1. /\ conn.state = "parsing" /\ In("next_request") /\ resp.pc = 0
      /\ Send(IF "expect" \in request.flags THEN <<x>> ELSE <<>>)
      /\ resp' = [NoResponse EXCEPT !.pc = 1]
      /\ UNCHANGED <<sent, fed, bf, parser, request, status, received>> /\ conn' = conn
  BY DEF ServletsBegin, vars
<1>2. /\ conn.socket = TRUE /\ Idle(Pending) /\ client \in Clients /\ resp = NoResponse
  BY <1>1, WaitingIs DEF In
<1>3. Len(received) \in Nat \ {0}
  <2>1. Good(sent, fed, Emptied, parser, request, status, received)
    BY <1>1 DEF WInv, ParserInv, Seen, Answering, In
  <2>2. received \in Seq(Records) /\ Len(received) > 0
    BY <1>1, <2>1 DEF Good, History, Stands, In
  <2> QED
    BY <2>2
<1>4. Pending = d /\ d \in Nat /\ Len(received) = d + 1
  BY <1>1, <1>3 DEF Pending, Current, In
<1>5. client' = client
  <2>1. x.of = client.done + 1 /\ x.n \in Nat /\ x.k = "100" /\ client.st = "idle"
    BY <1>2, <1>4 DEF Item, Idle
  <2> HIDE DEF x
  <2>2. Reads(client, x) = client
    BY <1>2, <2>1, ReadsFacts
  <2> QED
    BY <1>1, <2>2, SendIs
<1>6. /\ resp' \in Responses /\ resp'.pc = 1 /\ resp'.state = 0 /\ resp'.flags = {}
      /\ resp'.asked = "none" /\ resp'.chunk_no = 0
  <2>1. NoResponse \in Responses
    BY NoResponseIs
  <2>2. resp' \in Responses
    BY <1>1, <2>1 DEF Responses
  <2>3. /\ resp'.pc = 1 /\ resp'.state = NoResponse.state /\ resp'.flags = NoResponse.flags
        /\ resp'.asked = NoResponse.asked /\ resp'.chunk_no = NoResponse.chunk_no
    BY <1>1, <2>1 DEF Responses
  <2> QED
    BY <2>2, <2>3, NoResponseIs
<1>7. Started'
  BY <1>6 DEF Started
<1>8. Written'
  <2>1. resp'.state \notin {1, 2, 3, WritesForEver}
    BY <1>6 DEF WritesForEver
  <2>2. client'.st = "idle" /\ client'.done = d /\ conn'.socket = TRUE
    BY <1>1, <1>2, <1>4, <1>5 DEF Idle
  <2>3. Len(received') - 1 = d
    BY <1>1
  <2> HIDE DEF d
  <2> QED
    BY <1>6, <2>1, <2>2, <2>3 DEF Written, Idle
<1>9. Serving'
  <2>1. Servlets \in Nat
    BY WebbyAssumption
  <2>2. resp'.pc \in 1 .. Servlets + 1 /\ resp'.state \in {0, 1}
    BY <1>6, <2>1
  <2>3. In("next_request")'
    BY <1>1 DEF In
  <2> QED
    BY <1>7, <1>8, <2>2, <2>3 DEF Serving
<1>10. ServeInv'
  BY <1>2, <1>5, <1>6, <1>9 DEF ServeInv
<1>11. ParserInv'
  <2>1. Seen' = Seen
    BY <1>1 DEF Seen, Answering, Emptied
  <2> QED
    BY <1>1, <2>1, ParserSame DEF WInv
<1>12. ConnInv'
  BY <1>1 DEF WInv, ConnInv, ConnTypes
<1>13. BufferInv'
  <2>1. bf.get = bf.put
    BY <1>1, <1>2, NoResponseIs DEF WInv, BufferInv
  <2> QED
    BY <1>1, <2>1 DEF WInv, BufferInv
<1> QED
  BY <1>10, <1>11, <1>12, <1>13 DEF WInv

\* The end of a request: what the client has then.
LEMMA EndKeeps ==
  ASSUME WInv, conn.state = "parsing", NEW ok \in BOOLEAN, NextRequest(ok), resp' = NoResponse,
         conn' = conn, client' \in Clients,
         ok => IF conn.socket THEN client'.st = "idle" /\ client'.done = Len(received)
               ELSE client'.st = "until_close" /\ client'.done + 1 = Len(received)
  PROVE  WInv'
<1>1. /\ ParserInv' /\ In("next_request") /\ Len(received') = Len(received)
      /\ ok  => status' = "completed" /\ parser'.state = "REQUEST_LINE"
      /\ ~ok => status' = "refused" /\ received' = received
  BY RequestEndsKeeps DEF WInv
<1>2. bf' = bf
  BY DEF NextRequest
<1>3. status' \in {"completed", "refused"}
  BY <1>1
<1>4. ConnInv'
  BY <1>1, <1>3 DEF WInv, ConnInv, ConnTypes
<1>5. BufferInv'
  BY <1>2, <1>3 DEF WInv, BufferInv, In
<1>6. ASSUME ok PROVE Pending' = Len(received)
  <2>1. Good(sent, fed, Emptied, parser, request, status, received)
    BY <1>1 DEF WInv, ParserInv, Seen, Answering, In
  <2>2. Len(received) \in Nat
    BY <2>1 DEF Good, History
  <2> QED
    BY <1>1, <1>6, <2>2 DEF Pending, Current
<1>7. Waiting'
  BY <1>1, <1>6 DEF Waiting, Idle
<1>8. ServeInv'
  BY <1>7, NoResponseIs DEF ServeInv
<1> QED
  BY <1>1, <1>4, <1>5, <1>8 DEF WInv

\* A servlet has finished the response: the client has all of it.
LEMMA HandledKeeps ==
  ASSUME WInv, Handled
  PROVE  WInv'
<1> DEFINE d == Len(received) - 1
<1>1. /\ conn.state = "parsing" /\ resp.pc \in 1 .. Servlets /\ resp.state = 3
      /\ resp' = NoResponse /\ NextRequest(TRUE) /\ conn' = conn /\ client' = client
  BY DEF Handled, InServlet
<1>2. /\ resp \in Responses /\ client \in Clients /\ Started /\ Written
      /\ d \in Nat /\ Len(received) = d + 1
  <2>1. ServingFacts
    BY <1>1, ServingIs, WebbyAssumption DEF WInv
  <2> QED
    BY <2>1 DEF ServingFacts, Serving
<1>3. PICK kind \in Kinds : resp.flags = {kind}
  BY <1>1, <1>2 DEF Started
<1>4. conn.socket = ~(resp.flags = {"close"})
  BY <1>1, <1>2 DEF Written
<1> HIDE DEF d
<1>5. IF conn.socket THEN client.st = "idle" /\ client.done = Len(received)
      ELSE client.st = "until_close" /\ client.done + 1 = Len(received)
  <2>1. CASE kind = "close"
    <3>1. resp.flags = {"close"}
      BY <1>3, <2>1
    <3>2. client.st = "until_close" /\ client.done = d
      BY <1>1, <1>2, <3>1 DEF Written, d
    <3> QED
      BY <1>2, <1>4, <3>1, <3>2
  <2>2. CASE kind = "length"
    <3>1. resp.flags = {"length"} /\ resp.flags # {"close"}
      BY <1>3, <2>2
    <3>2. client.st = "idle" /\ client.done = d + 1
      <4>1. IF resp.left = 0 THEN Idle(d + 1)
            ELSE resp.state = 2 /\ client.st = "body" /\ client.left = resp.left /\ client.done = d
        BY <1>1, <1>2, <3>1 DEF Written, d
      <4> QED
        BY <1>1, <4>1 DEF Idle
    <3> QED
      BY <1>2, <1>4, <3>1, <3>2
  <2>3. CASE kind = "chunked"
    <3>1. resp.flags = {"chunked"} /\ resp.flags # {"close"}
      BY <1>3, <2>3
    <3>2. client.st = "idle" /\ client.done = d + 1
      BY <1>1, <1>2, <3>1 DEF Written, Idle, d
    <3> QED
      BY <1>2, <1>4, <3>1, <3>2
  <2> QED
    BY <2>1, <2>2, <2>3 DEF Kinds
<1> QED
  BY <1>1, <1>2, <1>5, EndKeeps

\* A servlet that has sent nothing leaves the client at the start of the response.
LEMMA UntouchedIs ==
  ASSUME WInv, resp.pc \in 1 .. Servlets + 1, Untouched
  PROVE  /\ client \in Clients /\ Idle(Len(received) - 1) /\ conn.socket = TRUE
         /\ Len(received) - 1 \in Nat /\ Len(received) = (Len(received) - 1) + 1
<1>1. ServingFacts
  BY ServingIs, WebbyAssumption DEF WInv
<1>2. Written /\ client \in Clients /\ Len(received) \in Nat \ {0}
  BY <1>1 DEF ServingFacts, Serving
<1>3. resp.state \in {0, 1} /\ resp.state # 3
  BY DEF Untouched
<1>4. Idle(Len(received) - 1) /\ conn.socket = TRUE
  BY <1>2, <1>3 DEF Written
<1> QED
  BY <1>2, <1>4

\* An error of a servlet before anything was sent is answered with 500.
LEMMA FailedKeeps ==
  ASSUME WInv, Contract, Failed
  PROVE  WInv'
<1>1. /\ conn.state = "parsing" /\ resp.pc \in 1 .. Servlets /\ Servlets \in Nat
      /\ Untouched \/ resp.failed
      /\ resp' = NoResponse /\ NextRequest(FALSE) /\ conn' = conn
  BY WebbyAssumption DEF Failed, InServlet, May, Contract
<1>2. resp.failed = FALSE
  BY DEF WInv, ServeInv, Responses
<1>3. resp.pc \in 1 .. Servlets + 1 /\ Untouched /\ Send(<<Item("500", 0)>>)
  BY <1>1, <1>2 DEF Failed
<1>4. client' \in Clients
  BY <1>3, UntouchedIs, AnswerIs
<1> QED
  BY <1>1, <1>4, EndKeeps

\* When all servlets have ignored the request it is answered with 404.
LEMMA NobodyHandledKeeps ==
  ASSUME WInv, NobodyHandled
  PROVE  WInv'
<1>1. /\ conn.state = "parsing" /\ In("next_request") /\ resp.pc = Servlets + 1
      /\ Servlets \in Nat /\ Send(<<Item("404", 0)>>)
      /\ resp' = NoResponse /\ NextRequest(TRUE) /\ conn' = conn
  BY WebbyAssumption DEF NobodyHandled
<1>2. resp.pc \in 1 .. Servlets + 1 /\ resp.pc > 0
  BY <1>1
<1>3. Untouched
  <2>1. ServingFacts
    BY <1>2, ServingIs DEF WInv
  <2> QED
    BY <1>1, <2>1 DEF ServingFacts, Serving, Untouched
<1>4. /\ conn.socket = TRUE /\ client' \in Clients /\ client'.st = "idle"
      /\ client'.done = Len(received)
  <2> DEFINE d == Len(received) - 1
  <2>1. client \in Clients /\ Idle(d) /\ conn.socket = TRUE /\ d \in Nat /\ Len(received) = d + 1
    BY <1>2, <1>3, UntouchedIs
  <2> HIDE DEF d
  <2> QED
    BY <1>1, <2>1, AnswerIs
<1> QED
  BY <1>1, <1>4, EndKeeps

\* A servlet that ignores the request hands it to the next.
LEMMA IgnoredKeeps ==
  ASSUME WInv, Ignored
  PROVE  WInv'
<1>1. /\ InServlet /\ Untouched /\ resp' = [resp EXCEPT !.pc = resp.pc + 1, !.calls = 0]
      /\ UNCHANGED <<sent, fed, bf, parser, request, status, received>> /\ conn' = conn
      /\ client' = client
  BY DEF Ignored, vars
<1>2. /\ resp.pc \in 1 .. Servlets /\ Servlets \in Nat /\ resp.state \in {0, 1}
      /\ conn.state = "parsing"
  BY <1>1, WebbyAssumption DEF InServlet, Untouched
<1>3. resp \in Responses /\ client \in Clients /\ Serving
  <2>1. ServingFacts
    BY <1>2, ServingIs DEF WInv
  <2> QED
    BY <2>1 DEF ServingFacts
<1> DEFINE p == resp.pc + 1
<1>4. p \in Nat /\ p \in 1 .. Servlets + 1 /\ p # 0 /\ resp' = [resp EXCEPT !.pc = p, !.calls = 0]
  BY <1>1, <1>2
<1> HIDE DEF p
<1>5. /\ resp'.pc = p /\ resp'.state = resp.state /\ resp'.flags = resp.flags
      /\ resp'.asked = resp.asked /\ resp'.left = resp.left /\ resp'.todo = resp.todo
      /\ resp'.chunk_no = resp.chunk_no
  BY <1>3, <1>4 DEF Responses
<1>6. resp' \in Responses
  BY <1>3, <1>4, ZenonT(30) DEF Responses
<1>7. Started'
  BY <1>3, <1>5 DEF Serving, Started
<1>8. Written'
  <2>1. Written
    BY <1>3 DEF Serving
  <2> QED
    BY <1>1, <1>5, <2>1 DEF Written, Idle
<1>9. Serving'
  BY <1>1, <1>2, <1>3, <1>4, <1>5, <1>7, <1>8 DEF Serving, In
<1>10. ServeInv'
  BY <1>1, <1>3, <1>4, <1>5, <1>6, <1>9 DEF ServeInv
<1>11. ParserInv'
  <2>1. Seen' = Seen
    BY <1>1 DEF Seen, Answering, Emptied
  <2> QED
    BY <1>1, <2>1, ParserSame DEF WInv
<1>12. ConnInv'
  BY <1>1, <1>2 DEF WInv, ConnInv, ConnTypes
<1>13. BufferInv'
  BY <1>1, <1>5 DEF WInv, BufferInv, In
<1> QED
  BY <1>10, <1>11, <1>12, <1>13 DEF WInv

-----------------------------------------------------------------------------
(* The front end *)

\* recv at the start of a request, or of its next part.
LEMMA RecvOneKeeps ==
  ASSUME WInv, Contract, NEW n \in 1 .. BufSize, Recv(n)
  PROVE  WInv'
<1>1. /\ ParserInv' /\ status' = "running" /\ parser'.state # "next_request"
      /\ bf' \in Buffers /\ bf'.get <= bf'.put /\ bf'.put <= BufSize
  BY RecvKeeps DEF WInv
<1>2. /\ conn.state = "recv" /\ conn.socket /\ conn' = [conn EXCEPT !.state = "parsing"]
      /\ UNCHANGED <<parser, received, resp, client>>
  BY DEF Recv, Receive
<1>3. conn \in [state : ConnStates, socket : BOOLEAN, ctx : BOOLEAN]
  BY DEF WInv, ConnInv, ConnTypes
<1>4. /\ conn' \in [state : ConnStates, socket : BOOLEAN, ctx : BOOLEAN]
      /\ conn'.state = "parsing" /\ conn'.socket = TRUE
  BY <1>2, <1>3 DEF ConnStates
<1>5. status # "running" /\ status \in {"completed", "need_more"}
  BY <1>2 DEF WInv, ConnInv, ConnTypes
<1>6. /\ resp.pc = 0 /\ Waiting /\ resp \in Responses /\ client \in Clients
  BY <1>5, NoServletIs DEF In
<1>7. ConnInv'
  BY <1>1, <1>4 DEF ConnInv, ConnTypes
<1>8. BufferInv'
  BY <1>1, <1>4 DEF BufferInv, In
<1>9. Waiting'
  <2>1. Idle(Pending) /\ resp = NoResponse
    BY <1>2, <1>5, <1>6 DEF Waiting
  <2>2. Pending' = Pending
    BY <1>2 DEF Pending, Current
  <2> QED
    BY <1>2, <1>4, <2>1, <2>2 DEF Waiting, Idle
<1>10. ServeInv'
  BY <1>2, <1>6, <1>9 DEF ServeInv
<1> QED
  BY <1>1, <1>7, <1>8, <1>10 DEF WInv

\* A step that only changes where the connection is.
LEMMA ConnKeeps ==
  ASSUME WInv, ~In("next_request"),
         UNCHANGED <<sent, fed, bf, parser, request, status, received, resp, client>>,
         conn' \in [state : ConnStates, socket : BOOLEAN, ctx : BOOLEAN],
         conn'.state \in {"none", "listening"} =>
           conn.state \in {"none", "listening"},
         conn'.state = "recv" => conn.state = "listening" /\ conn'.socket,
         conn'.state # "parsing", status # "running"
  PROVE  WInv'
<1>1. resp.pc = 0 /\ Waiting /\ resp \in Responses /\ client \in Clients
  BY NoServletIs
<1>2. ParserInv'
  <2>1. Seen' = Seen
    BY DEF Seen, Answering, Emptied
  <2> QED
    BY <2>1, ParserSame DEF WInv
<1>3. ConnInv'
  BY DEF WInv, ConnInv, ConnTypes
<1>4. BufferInv'
  BY DEF WInv, BufferInv, In
<1>5. Pending' = Pending
  BY DEF Pending, Current
<1>6. Waiting'
  BY <1>1, <1>5 DEF Waiting, Idle
<1>7. ServeInv'
  BY <1>1, <1>6 DEF ServeInv
<1> QED
  BY <1>2, <1>3, <1>4, <1>7 DEF WInv

\* The steps of the front end that do not touch the parser.
LEMMA FrontEndKeeps ==
  ASSUME WInv, WEBBY_run \/ WEBBY_new_connection \/ PeerGone \/ RecvOnClosed \/ Close
  PROVE  WInv'
<1>1. /\ UNCHANGED <<sent, fed, bf, parser, request, status, received, resp, client>>
      /\ conn.state # "parsing"
  BY DEF WEBBY_run, WEBBY_new_connection, PeerGone, RecvOnClosed, Close, vars
<1>2. conn \in [state : ConnStates, socket : BOOLEAN, ctx : BOOLEAN] /\ status # "running"
  BY <1>1 DEF WInv, ConnInv, ConnTypes
<1>3. ~In("next_request")
  BY <1>2 DEF In
<1>4. /\ conn' \in [state : ConnStates, socket : BOOLEAN, ctx : BOOLEAN]
      /\ conn'.state \in {"none", "listening"} => conn.state \in {"none", "listening"}
      /\ conn'.state = "recv" => conn.state = "listening" /\ conn'.socket
      /\ conn'.state # "parsing"
  <2>1. CASE WEBBY_run
    BY <1>2, <2>1 DEF WEBBY_run, ConnStates
  <2>2. CASE WEBBY_new_connection
    BY <1>2, <2>2 DEF WEBBY_new_connection, ConnStates
  <2>3. CASE PeerGone
    BY <1>2, <2>3 DEF PeerGone, ConnStates
  <2>4. CASE RecvOnClosed
    <3>1. \/ conn' = [conn EXCEPT !.state = "closing"]
          \/ conn' = [conn EXCEPT !.state = "crashed"]
      BY <2>4 DEF RecvOnClosed
    <3> QED
      BY <1>2, <3>1 DEF ConnStates
  <2>5. CASE Close
    <3>1. \/ conn' = [conn EXCEPT !.state = "closed", !.socket = FALSE]
          \/ conn' = [conn EXCEPT !.state = "crashed", !.socket = FALSE]
      BY <2>5 DEF Close
    <3> QED
      BY <1>2, <3>1 DEF ConnStates
  <2> QED
    BY <2>1, <2>2, <2>3, <2>4, <2>5
<1> QED
  BY <1>1, <1>2, <1>3, <1>4, ConnKeeps

\* The buffer is emptied after a request, when nothing is in it.
LEMMA DataReceivedKeeps ==
  ASSUME WInv, DataReceived
  PROVE  WInv'
<1>1. /\ conn.state = "parsing" /\ status # "running"
      /\ bf' = (IF status = "completed" THEN Emptied ELSE bf)
      /\ UNCHANGED <<sent, fed, parser, request, status, received, resp, client>>
  BY DEF DataReceived, Emptied
<1>2. \/ status \in {"error", "refused"} /\ conn' = [conn EXCEPT !.state = "closing"]
      \/ status \notin {"error", "refused"} /\ conn' = [conn EXCEPT !.state = "recv"]
  BY DEF DataReceived
<1>3. conn \in [state : ConnStates, socket : BOOLEAN, ctx : BOOLEAN]
  BY DEF WInv, ConnInv, ConnTypes
<1>4. /\ conn' \in [state : ConnStates, socket : BOOLEAN, ctx : BOOLEAN]
      /\ conn'.socket = conn.socket
      /\ \/ status \in {"error", "refused"} /\ conn'.state = "closing"
         \/ status \notin {"error", "refused"} /\ conn'.state = "recv"
  BY <1>2, <1>3 DEF ConnStates
<1>5. resp.pc = 0 /\ Waiting /\ resp \in Responses /\ client \in Clients
  BY <1>1, NoServletIs DEF In
<1>6. status \in {"running", "need_more", "completed", "error", "refused"}
  BY DEF WInv, ParserInv, Good
<1>7. bf \in Buffers /\ bf.get <= bf.put /\ bf.put <= BufSize /\ BufSize \in Nat
  BY HttpAssumption DEF WInv, BufferInv
<1>8. /\ Emptied \in Buffers /\ Emptied.get = 0 /\ Emptied.put = 0
      /\ [Emptied EXCEPT !.get = 0, !.put = 0] = Emptied
  BY <1>7 DEF Emptied, Buffers
<1>9. ParserInv'
  <2>1. CASE status = "completed"
    <3>1. Seen = Emptied /\ Seen' = [bf' EXCEPT !.get = 0, !.put = 0]
      BY <1>1, <2>1 DEF Seen, Answering, Emptied
    <3>2. Seen' = Seen
      BY <1>1, <1>8, <2>1, <3>1
    <3> QED
      BY <1>1, <3>2, ParserSame DEF WInv
  <2>2. CASE status # "completed"
    <3>1. Seen' = Seen
      BY <1>1, <2>2 DEF Seen, Answering, Emptied
    <3> QED
      BY <1>1, <3>1, ParserSame DEF WInv
  <2> QED
    BY <2>1, <2>2
<1>10. ConnInv'
  BY <1>1, <1>4, <1>5, <1>6 DEF WInv, ConnInv, ConnTypes
<1>11. BufferInv'
  <2>1. CASE status = "completed"
    <3>1. bf' \in Buffers /\ bf'.get = 0 /\ bf'.put = 0
      BY <1>1, <1>8, <2>1
    <3> QED
      BY <1>1, <1>7, <2>1, <3>1 DEF BufferInv, In
  <2>2. CASE status # "completed"
    BY <1>1, <2>2 DEF WInv, BufferInv, In
  <2> QED
    BY <2>1, <2>2
<1>12. Waiting'
  <2>1. Pending' = Pending
    BY <1>1 DEF Pending, Current
  <2> QED
    BY <1>1, <1>4, <1>5, <2>1 DEF Waiting, Idle
<1>13. ServeInv'
  BY <1>1, <1>5, <1>12 DEF ServeInv
<1> QED
  BY <1>9, <1>10, <1>11, <1>13 DEF WInv

LEMMA SameKeeps ==
  ASSUME WInv, UNCHANGED <<vars, conn, resp, client>>
  PROVE  WInv'
<1>1. UNCHANGED <<sent, fed, bf, parser, request, status, received, conn, resp, client>>
  BY DEF vars
<1>2. Seen' = Seen /\ Pending' = Pending
  BY <1>1 DEF Seen, Answering, Emptied, Pending, Current
<1>3. ParserInv'
  BY <1>1, <1>2, ParserSame DEF WInv
<1>4. ConnInv' /\ BufferInv'
  BY <1>1 DEF WInv, ConnInv, ConnTypes, BufferInv, In
<1>5. Waiting => Waiting'
  BY <1>1, <1>2 DEF Waiting, Idle
<1>6. Serving => Serving'
  BY <1>1 DEF Serving, Started, Written, Idle, In
<1>7. ServeInv'
  BY <1>1, <1>5, <1>6 DEF WInv, ServeInv
<1> QED
  BY <1>3, <1>4, <1>7 DEF WInv

\* A server before it runs.
LEMMA WInitHolds == WInit => WInv
<1> SUFFICES ASSUME WInit PROVE WInv
  OBVIOUS
<1>1. Inv
  BY InitHolds DEF WInit
<1>2. /\ fed = 0 /\ bf.get = 0 /\ bf.put = 0 /\ parser.state = "REQUEST_LINE"
      /\ status = "completed" /\ received = <<>> /\ resp = NoResponse /\ client = Reading
      /\ conn = [state |-> "none", socket |-> FALSE, ctx |-> FALSE]
  BY DEF WInit, Init
<1>3. Good(sent, fed, Seen, parser, request, status, received)
  <2>1. Seen = [bf EXCEPT !.get = 0, !.put = 0]
    BY <1>2 DEF Seen, Answering, Emptied
  <2>2. bf.get = bf.put
    BY <1>2
  <2> QED
    BY <1>1, <2>1, <2>2, SeenGood DEF Inv
<1>4. Stopped(sent, fed, parser, received)
  <2>1. Current(parser, received) = 1
    BY <1>2 DEF Current
  <2>2. ASSUME 1 <= Len(sent) PROVE fed + Len(Later(sent, 1)) <= Len(StreamOf(sent))
    <3>1. sent \in Seq(Requests) /\ Len(sent) \in Nat
      BY <1>1, InvFacts
    <3>2. 0 \in 0 .. Len(sent) /\ 1 \in 0 .. Len(sent) /\ 0 < Len(sent) /\ 0 + 1 = 1
      BY <2>2, <3>1
    <3>3. Later(sent, 0) = StreamOf(sent) /\ Len(Later(sent, 1)) <= Len(Later(sent, 0))
      BY <3>1, <3>2, HttpAssumption, StreamIs
    <3>4. Len(Later(sent, 1)) \in Nat
      BY <3>1, <3>2, Facts
    <3> QED
      BY <1>2, <3>3, <3>4
  <2> QED
    BY <1>2, <2>1, <2>2 DEF Stopped
<1>5. ConnInv
  BY <1>2, NoResponseIs DEF ConnInv, ConnTypes, ConnStates
<1>6. BufferInv
  <2>1. bf \in Buffers /\ BufSize \in Nat
    BY <1>1, InvFacts DEF Holds
  <2> QED
    BY <1>2, <2>1 DEF BufferInv, In
<1>7. client \in Clients /\ Idle(0) /\ Pending = 0
  BY <1>2 DEF Clients, Idle, Reading, Pending, Current
<1>8. Waiting
  BY <1>2, <1>7 DEF Waiting
<1>9. ServeInv
  BY <1>2, <1>7, <1>8, NoResponseIs DEF ServeInv
<1> QED
  BY <1>3, <1>4, <1>5, <1>6, <1>9 DEF WInv, ParserInv

\* Every step keeps the invariant.
LEMMA WNextKeeps ==
  ASSUME WInv, Contract, [WNext]_wvars
  PROVE  WInv'
<1>1. CASE WEBBY_add_filter
  BY <1>1, SameKeeps DEF WEBBY_add_filter
<1>2. CASE WEBBY_run \/ WEBBY_new_connection \/ PeerGone \/ RecvOnClosed \/ Close
  BY <1>2, FrontEndKeeps
<1>3. CASE \E n \in 1 .. BufSize : Recv(n)
  BY <1>3, RecvOneKeeps
<1>4. CASE HeaderParsed
  BY <1>4, HeaderParsedKeeps
<1>5. CASE Parse
  BY <1>5, ParseKeeps
<1>6. CASE DataReceived
  BY <1>6, DataReceivedKeeps
<1>7. CASE ServletsBegin
  BY <1>7, ServletsBeginKeeps
<1>8. CASE NobodyHandled
  BY <1>8, NobodyHandledKeeps
<1>9. CASE ServletCall
  BY <1>9, ServletCallKeeps
<1>10. CASE Handled
  BY <1>10, HandledKeeps
<1>11. CASE Ignored
  BY <1>11, IgnoredKeeps
<1>12. CASE Failed
  BY <1>12, FailedKeeps
<1>13. CASE UNCHANGED wvars
  BY <1>13, SameKeeps DEF wvars, served
<1> QED
  BY <1>1, <1>2, <1>3, <1>4, <1>5, <1>6, <1>7, <1>8, <1>9, <1>10, <1>11, <1>12, <1>13 DEF WNext

-----------------------------------------------------------------------------
(* The filters *)

Filter(next, back) == [request |-> next, response |-> back]
OneFilter  == <<Filter(1, NoFilter), Filter(NoFilter, 0)>>
TwoFilters == <<Filter(1, NoFilter), Filter(2, 0), Filter(NoFilter, 1)>>

\* With at most one filter in front of the servlets' own.
FiltersInv ==
  IF conn.state = "none" THEN filters \in {<<Sink>>, OneFilter} ELSE filters \in {OneFilter, TwoFilters}

\* The links, whatever the number of filters.
FilterTypes == filters \in Seq([request : Int, response : Int]) /\ Len(filters) > 0

WalkRequest(p)  == LET j == NextRequestFilter(p[Len(p)])
                   IN IF j \notin 0 .. Runner THEN p ELSE Append(p, j)
WalkResponse(p) == LET j == NextResponseFilter(p[Len(p)])
                   IN IF j \notin 0 .. Runner THEN p ELSE Append(p, j)

\* The paths are recursive functions of the number of filters; of two or three
\* they are so many steps.
LEMMA RequestWalk ==
  ASSUME NEW N \in {2, 3}, NEW a
  PROVE  LET path == CHOOSE f : f = [n \in 0 .. N |-> IF n = 0 THEN a ELSE WalkRequest(f[n - 1])]
         IN path[N] = IF N = 2 THEN WalkRequest(WalkRequest(a)) ELSE WalkRequest(WalkRequest(WalkRequest(a)))
<1> DEFINE F(f) == [n \in 0 .. N |-> IF n = 0 THEN a ELSE WalkRequest(f[n - 1])]
           path == CHOOSE f : f = F(f)
           g == [n \in 0 .. N |-> IF n = 0 THEN a
                                  ELSE IF n = 1 THEN WalkRequest(a)
                                  ELSE IF n = 2 THEN WalkRequest(WalkRequest(a))
                                  ELSE WalkRequest(WalkRequest(WalkRequest(a)))]
<1>1. g = F(g)
  <2>1. \A n \in 0 .. N : n # 0 => /\ n - 1 \in 0 .. N
                                   /\ n = 1 \/ n = 2 \/ n = 3
    OBVIOUS
  <2>2. /\ g[0] = a /\ g[1] = WalkRequest(a) /\ g[2] = WalkRequest(WalkRequest(a))
        /\ 1 - 1 = 0 /\ 2 - 1 = 1 /\ 3 - 1 = 2
    OBVIOUS
  <2>3. ASSUME NEW n \in 0 .. N, n # 0
        PROVE  WalkRequest(g[n - 1]) = g[n]
    <3>1. CASE n = 1
      BY <2>2, <3>1
    <3>2. CASE n = 2
      BY <2>2, <3>2
    <3>3. CASE n = 3
      <4>1. g[3] = WalkRequest(WalkRequest(WalkRequest(a)))
        BY <3>3
      <4> QED
        BY <2>2, <3>3, <4>1
    <3> QED
      BY <2>1, <2>3, <3>1, <3>2, <3>3
  <2>4. \A n \in 0 .. N : g[n] = IF n = 0 THEN a ELSE WalkRequest(g[n - 1])
    <3> HIDE DEF g
    <3> QED
      BY <2>2, <2>3
  <2>5. g = [n \in 0 .. N |-> g[n]]
    OBVIOUS
  <2> HIDE DEF g
  <2> QED
    BY <2>4, <2>5
<1>2. path = F(path)
  <2> HIDE DEF F, g
  <2> QED
    BY <1>1
<1> HIDE DEF path
<1>3. path[0] = a /\ path[1] = WalkRequest(path[0]) /\ path[2] = WalkRequest(path[1])
  <2>1. 0 \in 0 .. N /\ 1 \in 0 .. N /\ 2 \in 0 .. N /\ 1 - 1 = 0 /\ 2 - 1 = 1
    OBVIOUS
  <2> QED
    BY <1>2, <2>1
<1>4. N = 3 => path[3] = WalkRequest(path[2])
  <2>1. N = 3 => 3 \in 0 .. N /\ 3 - 1 = 2 /\ 3 # 0
    OBVIOUS
  <2> QED
    BY <1>2, <2>1
<1>5. path[N] = IF N = 2 THEN WalkRequest(WalkRequest(a)) ELSE WalkRequest(WalkRequest(WalkRequest(a)))
  BY <1>3, <1>4
<1> QED
  BY <1>5 DEF path

LEMMA ResponseWalk ==
  ASSUME NEW N \in {2, 3}, NEW a
  PROVE  LET path == CHOOSE f : f = [n \in 0 .. N |-> IF n = 0 THEN a ELSE WalkResponse(f[n - 1])]
         IN path[N] = IF N = 2 THEN WalkResponse(WalkResponse(a)) ELSE WalkResponse(WalkResponse(WalkResponse(a)))
<1> DEFINE F(f) == [n \in 0 .. N |-> IF n = 0 THEN a ELSE WalkResponse(f[n - 1])]
           path == CHOOSE f : f = F(f)
           g == [n \in 0 .. N |-> IF n = 0 THEN a
                                  ELSE IF n = 1 THEN WalkResponse(a)
                                  ELSE IF n = 2 THEN WalkResponse(WalkResponse(a))
                                  ELSE WalkResponse(WalkResponse(WalkResponse(a)))]
<1>1. g = F(g)
  <2>1. \A n \in 0 .. N : n # 0 => /\ n - 1 \in 0 .. N
                                   /\ n = 1 \/ n = 2 \/ n = 3
    OBVIOUS
  <2>2. /\ g[0] = a /\ g[1] = WalkResponse(a) /\ g[2] = WalkResponse(WalkResponse(a))
        /\ 1 - 1 = 0 /\ 2 - 1 = 1 /\ 3 - 1 = 2
    OBVIOUS
  <2>3. ASSUME NEW n \in 0 .. N, n # 0
        PROVE  WalkResponse(g[n - 1]) = g[n]
    <3>1. CASE n = 1
      BY <2>2, <3>1
    <3>2. CASE n = 2
      BY <2>2, <3>2
    <3>3. CASE n = 3
      <4>1. g[3] = WalkResponse(WalkResponse(WalkResponse(a)))
        BY <3>3
      <4> QED
        BY <2>2, <3>3, <4>1
    <3> QED
      BY <2>1, <2>3, <3>1, <3>2, <3>3
  <2>4. \A n \in 0 .. N : g[n] = IF n = 0 THEN a ELSE WalkResponse(g[n - 1])
    <3> HIDE DEF g
    <3> QED
      BY <2>2, <2>3
  <2>5. g = [n \in 0 .. N |-> g[n]]
    OBVIOUS
  <2> HIDE DEF g
  <2> QED
    BY <2>4, <2>5
<1>2. path = F(path)
  <2> HIDE DEF F, g
  <2> QED
    BY <1>1
<1> HIDE DEF path
<1>3. path[0] = a /\ path[1] = WalkResponse(path[0]) /\ path[2] = WalkResponse(path[1])
  <2>1. 0 \in 0 .. N /\ 1 \in 0 .. N /\ 2 \in 0 .. N /\ 1 - 1 = 0 /\ 2 - 1 = 1
    OBVIOUS
  <2> QED
    BY <1>2, <2>1
<1>4. N = 3 => path[3] = WalkResponse(path[2])
  <2>1. N = 3 => 3 \in 0 .. N /\ 3 - 1 = 2 /\ 3 # 0
    OBVIOUS
  <2> QED
    BY <1>2, <2>1
<1>5. path[N] = IF N = 2 THEN WalkResponse(WalkResponse(a)) ELSE WalkResponse(WalkResponse(WalkResponse(a)))
  BY <1>3, <1>4
<1> QED
  BY <1>5 DEF path

\* The paths of both directions by single steps.
LEMMA PathsAre ==
  ASSUME Len(filters) \in {2, 3}
  PROVE  /\ RequestPath = IF Len(filters) = 2 THEN WalkRequest(WalkRequest(<<0>>))
                          ELSE WalkRequest(WalkRequest(WalkRequest(<<0>>)))
         /\ ResponsePath = IF Len(filters) = 2 THEN WalkResponse(WalkResponse(<<Runner>>))
                           ELSE WalkResponse(WalkResponse(WalkResponse(<<Runner>>)))
<1> DEFINE N == Len(filters)
           p == CHOOSE f : f = [n \in 0 .. N |-> IF n = 0 THEN <<0>> ELSE WalkRequest(f[n - 1])]
           q == CHOOSE f : f = [n \in 0 .. N |-> IF n = 0 THEN <<Runner>> ELSE WalkResponse(f[n - 1])]
<1>1. RequestPath = p[N]
  BY DEF RequestPath, PathFrom, WalkRequest
<1>2. ResponsePath = q[N]
  BY DEF ResponsePath, PathFrom, WalkResponse
<1> HIDE DEF N
<1>3. p[N] = IF N = 2 THEN WalkRequest(WalkRequest(<<0>>)) ELSE WalkRequest(WalkRequest(WalkRequest(<<0>>)))
  BY RequestWalk DEF N
<1>4. q[N] = IF N = 2 THEN WalkResponse(WalkResponse(<<Runner>>))
             ELSE WalkResponse(WalkResponse(WalkResponse(<<Runner>>)))
  BY ResponseWalk DEF N
<1> HIDE DEF p, q
<1> QED
  BY <1>1, <1>2, <1>3, <1>4 DEF N

LEMMA AppendSecond ==
  ASSUME NEW a, NEW b
  PROVE  Append(<<a>>, b) = <<a, b>>
<1> DEFINE u == <<a>>
           v == <<a, b>>
           S == {a, b}
           z == Append(u, b)
<1>1. u \in Seq(S) /\ Len(u) = 1 /\ u[1] = a /\ v \in Seq(S) /\ Len(v) = 2 /\ v[1] = a /\ v[2] = b
  OBVIOUS
<1>2. b \in S
  OBVIOUS
<1> HIDE DEF u, v, S
<1>7. \A s \in Seq(S), e \in S : /\ Append(s, e) \in Seq(S) /\ Len(Append(s, e)) = Len(s) + 1
                                 /\ Append(s, e)[Len(s) + 1] = e
                                 /\ \A i \in 1 .. Len(s) : Append(s, e)[i] = s[i]
  BY AppendProperties
<1>3. /\ z \in Seq(S) /\ Len(z) = Len(u) + 1 /\ z[Len(u) + 1] = b
      /\ \A i \in 1 .. Len(u) : z[i] = u[i]
  BY <1>1, <1>2, <1>7, Zenon
<1> HIDE DEF z
<1>4. Len(z) = 2 /\ z[2] = b /\ z[1] = a
  <2>1. 1 + 1 = 2 /\ 1 \in 1 .. 1
    OBVIOUS
  <2> QED
    BY <1>1, <1>3, <2>1
<1>5. \A i \in 1 .. 2 : i = 1 \/ i = 2
  OBVIOUS
<1>6. z = v
  BY <1>1, <1>3, <1>4, <1>5, SeqEqual
<1> QED
  BY <1>6 DEF z, u, v

LEMMA AppendThird ==
  ASSUME NEW a, NEW b, NEW c
  PROVE  Append(<<a, b>>, c) = <<a, b, c>>
<1> DEFINE u == <<a, b>>
           v == <<a, b, c>>
           S == {a, b, c}
           z == Append(u, c)
<1>1. /\ u \in Seq(S) /\ Len(u) = 2 /\ u[1] = a /\ u[2] = b
      /\ v \in Seq(S) /\ Len(v) = 3 /\ v[1] = a /\ v[2] = b /\ v[3] = c
  OBVIOUS
<1>2. c \in S
  OBVIOUS
<1> HIDE DEF u, v, S
<1>7. \A s \in Seq(S), e \in S : /\ Append(s, e) \in Seq(S) /\ Len(Append(s, e)) = Len(s) + 1
                                 /\ Append(s, e)[Len(s) + 1] = e
                                 /\ \A i \in 1 .. Len(s) : Append(s, e)[i] = s[i]
  BY AppendProperties
<1>3. /\ z \in Seq(S) /\ Len(z) = Len(u) + 1 /\ z[Len(u) + 1] = c
      /\ \A i \in 1 .. Len(u) : z[i] = u[i]
  BY <1>1, <1>2, <1>7, Zenon
<1> HIDE DEF z
<1>4. Len(z) = 3 /\ z[3] = c /\ z[1] = a /\ z[2] = b
  <2>1. 2 + 1 = 3 /\ 1 \in 1 .. 2 /\ 2 \in 1 .. 2
    OBVIOUS
  <2> QED
    BY <1>1, <1>3, <2>1
<1>5. \A i \in 1 .. 3 : i = 1 \/ i = 2 \/ i = 3
  OBVIOUS
<1>6. z = v
  BY <1>1, <1>3, <1>4, <1>5, SeqEqual
<1> QED
  BY <1>6 DEF z, u, v

\* One step of a path, when the next index is known.
LEMMA WalksOn ==
  ASSUME NEW p, NEW e, p[Len(p)] = e, Runner \in Nat
  PROVE  /\ \A j \in 0 .. Runner : NextRequestFilter(e) = j => WalkRequest(p) = Append(p, j)
         /\ NextRequestFilter(e) = NoFilter => WalkRequest(p) = p
         /\ \A j \in 0 .. Runner : NextResponseFilter(e) = j => WalkResponse(p) = Append(p, j)
         /\ NextResponseFilter(e) = NoFilter => WalkResponse(p) = p
<1>1. NoFilter \notin 0 .. Runner
  BY DEF NoFilter
<1> QED
  BY <1>1 DEF WalkRequest, WalkResponse

\* The two chains that one call of DATA_SINK_FILTER_add_filter_to_vhost can make.
LEMMA Retraced ==
  ASSUME filters \in {OneFilter, TwoFilters}
  PROVE  /\ RequestPath[Len(RequestPath)] = Runner
         /\ \A i \in DOMAIN RequestPath :
              /\ i \in DOMAIN ResponsePath
              /\ ResponsePath[i] = RequestPath[Len(RequestPath) + 1 - i]
<1>1. CASE filters = OneFilter
  <2>1. Len(filters) = 2 /\ Runner = 1
    BY <1>1 DEF OneFilter, Runner
  <2>2. /\ filters[1].request = 1 /\ filters[2].request = NoFilter
        /\ filters[1].response = NoFilter /\ filters[2].response = 0
    BY <1>1 DEF OneFilter, Filter
  <2>3. /\ NextRequestFilter(0) = 1 /\ NextRequestFilter(1) = NoFilter
        /\ NextResponseFilter(1) = 0 /\ NextResponseFilter(0) = NoFilter
    BY <2>2 DEF NextRequestFilter, NextResponseFilter, At, NoFilter
  <2>4. WalkRequest(<<0>>) = <<0, 1>>
    <3>1. <<0>>[Len(<<0>>)] = 0 /\ Runner \in Nat
      BY <2>1
    <3>2. 1 \in 0 .. Runner /\ NextRequestFilter(0) = 1
      BY <2>1, <2>3
    <3>3. Append(<<0>>, 1) = <<0, 1>>
      BY AppendSecond, AppendThird, Zenon
    <3> QED
      BY <3>1, <3>2, <3>3, WalksOn
  <2>5. WalkRequest(<<0, 1>>) = <<0, 1>>
    <3>1. <<0, 1>>[Len(<<0, 1>>)] = 1 /\ Runner \in Nat
      BY <2>1
    <3> QED
      BY <2>3, <3>1, WalksOn
  <2>6. WalkResponse(<<1>>) = <<1, 0>>
    <3>1. <<1>>[Len(<<1>>)] = 1 /\ Runner \in Nat
      BY <2>1
    <3>2. 0 \in 0 .. Runner /\ NextResponseFilter(1) = 0
      BY <2>1, <2>3
    <3>3. Append(<<1>>, 0) = <<1, 0>>
      BY AppendSecond, AppendThird, Zenon
    <3> QED
      BY <3>1, <3>2, <3>3, WalksOn
  <2>7. WalkResponse(<<1, 0>>) = <<1, 0>>
    <3>1. <<1, 0>>[Len(<<1, 0>>)] = 0 /\ Runner \in Nat
      BY <2>1
    <3> QED
      BY <2>3, <3>1, WalksOn
  <2>8. RequestPath = <<0, 1>> /\ ResponsePath = <<1, 0>>
    BY <2>1, <2>4, <2>5, <2>6, <2>7, PathsAre
  <2> QED
    BY <2>1, <2>8
<1>2. CASE filters = TwoFilters
  <2>1. Len(filters) = 3 /\ Runner = 2
    BY <1>2 DEF TwoFilters, Runner
  <2>2. /\ filters[1].request = 1 /\ filters[2].request = 2 /\ filters[3].request = NoFilter
        /\ filters[1].response = NoFilter /\ filters[2].response = 0 /\ filters[3].response = 1
    BY <1>2 DEF TwoFilters, Filter
  <2>3. /\ NextRequestFilter(0) = 1 /\ NextRequestFilter(1) = 2 /\ NextRequestFilter(2) = NoFilter
        /\ NextResponseFilter(2) = 1 /\ NextResponseFilter(1) = 0
        /\ NextResponseFilter(0) = NoFilter
    BY <2>2 DEF NextRequestFilter, NextResponseFilter, At, NoFilter
  <2>4. WalkRequest(<<0>>) = <<0, 1>>
    <3>1. <<0>>[Len(<<0>>)] = 0 /\ Runner \in Nat
      BY <2>1
    <3>2. 1 \in 0 .. Runner /\ NextRequestFilter(0) = 1
      BY <2>1, <2>3
    <3>3. Append(<<0>>, 1) = <<0, 1>>
      BY AppendSecond, AppendThird, Zenon
    <3> QED
      BY <3>1, <3>2, <3>3, WalksOn
  <2>5. WalkRequest(<<0, 1>>) = <<0, 1, 2>>
    <3>1. <<0, 1>>[Len(<<0, 1>>)] = 1 /\ Runner \in Nat
      BY <2>1
    <3>2. 2 \in 0 .. Runner /\ NextRequestFilter(1) = 2
      BY <2>1, <2>3
    <3>3. Append(<<0, 1>>, 2) = <<0, 1, 2>>
      BY AppendSecond, AppendThird, Zenon
    <3> QED
      BY <3>1, <3>2, <3>3, WalksOn
  <2>6. WalkRequest(<<0, 1, 2>>) = <<0, 1, 2>>
    <3>1. <<0, 1, 2>>[Len(<<0, 1, 2>>)] = 2 /\ Runner \in Nat
      BY <2>1
    <3> QED
      BY <2>3, <3>1, WalksOn
  <2>7. WalkResponse(<<2>>) = <<2, 1>>
    <3>1. <<2>>[Len(<<2>>)] = 2 /\ Runner \in Nat
      BY <2>1
    <3>2. 1 \in 0 .. Runner /\ NextResponseFilter(2) = 1
      BY <2>1, <2>3
    <3>3. Append(<<2>>, 1) = <<2, 1>>
      BY AppendSecond, AppendThird, Zenon
    <3> QED
      BY <3>1, <3>2, <3>3, WalksOn
  <2>8. WalkResponse(<<2, 1>>) = <<2, 1, 0>>
    <3>1. <<2, 1>>[Len(<<2, 1>>)] = 1 /\ Runner \in Nat
      BY <2>1
    <3>2. 0 \in 0 .. Runner /\ NextResponseFilter(1) = 0
      BY <2>1, <2>3
    <3>3. Append(<<2, 1>>, 0) = <<2, 1, 0>>
      BY AppendSecond, AppendThird, Zenon
    <3> QED
      BY <3>1, <3>2, <3>3, WalksOn
  <2>9. WalkResponse(<<2, 1, 0>>) = <<2, 1, 0>>
    <3>1. <<2, 1, 0>>[Len(<<2, 1, 0>>)] = 0 /\ Runner \in Nat
      BY <2>1
    <3> QED
      BY <2>3, <3>1, WalksOn
  <2>10. RequestPath = <<0, 1, 2>> /\ ResponsePath = <<2, 1, 0>>
    BY <2>1, <2>4, <2>5, <2>6, <2>7, <2>8, <2>9, PathsAre
  <2> QED
    BY <2>1, <2>10
<1> QED
  BY <1>1, <1>2

\* What becomes of the filters in a step.
LEMMA FiltersNext ==
  ASSUME ConnTypes, [WNext]_wvars
  PROVE  /\ ConnTypes'
         /\ \/ WEBBY_add_filter
            \/ WEBBY_run
            \/ filters' = filters /\ (conn.state = "none" <=> conn'.state = "none")
<1>1. conn \in [state : ConnStates, socket : BOOLEAN, ctx : BOOLEAN]
  BY DEF ConnTypes
<1>2. CASE \E n \in 1 .. BufSize : Recv(n)
  <2>1. filters' = filters /\ conn.state = "recv" /\ conn' = [conn EXCEPT !.state = "parsing"]
    BY <1>2 DEF Recv
  <2> QED
    BY <1>1, <2>1 DEF ConnTypes, ConnStates
<1>3. CASE WEBBY_new_connection \/ PeerGone \/ RecvOnClosed \/ Close
  <2>1. /\ filters' = filters /\ conn.state # "none"
        /\ \/ conn' = [state |-> "recv", socket |-> TRUE, ctx |-> FALSE]
           \/ conn' = [conn EXCEPT !.state = "closing"]
           \/ conn' = [conn EXCEPT !.state = "crashed"]
           \/ conn' = [conn EXCEPT !.state = "closed", !.socket = FALSE]
           \/ conn' = [conn EXCEPT !.state = "crashed", !.socket = FALSE]
    BY <1>3 DEF WEBBY_new_connection, PeerGone, RecvOnClosed, Close
  <2>2. CASE conn' = [state |-> "recv", socket |-> TRUE, ctx |-> FALSE]
    BY <2>1, <2>2 DEF ConnTypes, ConnStates
  <2>3. CASE conn' # [state |-> "recv", socket |-> TRUE, ctx |-> FALSE]
    <3>1. conn'.state \in {"closing", "crashed", "closed"}
      BY <1>1, <2>1, <2>3
    <3>2. ConnTypes'
      BY <1>1, <2>1, <2>3 DEF ConnTypes, ConnStates
    <3> QED
      BY <2>1, <3>1, <3>2
  <2> QED
    BY <2>2, <2>3
<1>4. CASE HeaderParsed
  <2>1. filters' = filters /\ \E ok \in BOOLEAN : conn' = [conn EXCEPT !.ctx = ok]
    <3> DEFINE ok == request.version = 0 \/ "host" \in request.flags
    <3>1. filters' = filters /\ conn' = [conn EXCEPT !.ctx = conn.ctx \/ ok]
      BY <1>4 DEF HeaderParsed
    <3>2. (conn.ctx \/ ok) \in BOOLEAN
      OBVIOUS
    <3> QED
      BY <3>1, <3>2
  <2>2. PICK ok \in BOOLEAN : conn' = [conn EXCEPT !.ctx = ok]
    BY <2>1
  <2>3. conn'.state = conn.state /\ ConnTypes'
    BY <1>1, <2>2 DEF ConnTypes
  <2> QED
    BY <2>1, <2>3
<1>5. CASE DataReceived
  <2>1. /\ filters' = filters /\ conn.state = "parsing"
        /\ \/ conn' = [conn EXCEPT !.state = "closing"]
           \/ conn' = [conn EXCEPT !.state = "recv"]
    BY <1>5 DEF DataReceived
  <2>2. conn'.state \in {"closing", "recv"} /\ ConnTypes'
    BY <1>1, <2>1 DEF ConnTypes, ConnStates
  <2> QED
    BY <2>1, <2>2
<1>6. CASE Parse \/ ServletsBegin \/ NobodyHandled \/ Handled \/ Ignored \/ Failed
  <2>1. filters' = filters /\ conn' = conn
    BY <1>6 DEF Parse, ServletsBegin, NobodyHandled, Handled, Ignored, Failed, served
  <2> QED
    BY <1>1, <2>1 DEF ConnTypes
<1>7. CASE ServletCall
  <2>1. filters' = filters /\ (conn' = conn \/ conn' = [conn EXCEPT !.socket = FALSE])
    <3>1. ASSUME NEW kind, NEW n, HTTP_response_start(kind, n) PROVE filters' = filters /\ conn' = conn
      BY <3>1 DEF HTTP_response_start, Keep
    <3>2. ASSUME NEW n, HTTP_response_send(n) PROVE filters' = filters /\ conn' = conn
      BY <3>2 DEF HTTP_response_send, Keep
    <3>3. ASSUME NEW n, HTTP_response_write_chunk(n) PROVE filters' = filters /\ conn' = conn
      BY <3>3 DEF HTTP_response_write_chunk, Keep
    <3>4. ASSUME HTTP_response_finish
          PROVE  filters' = filters /\ (conn' = conn \/ conn' = [conn EXCEPT !.socket = FALSE])
      BY <1>1, <3>4 DEF HTTP_response_finish
    <3> QED
      BY <1>7, <3>1, <3>2, <3>3, <3>4 DEF ServletCall
  <2> QED
    BY <1>1, <2>1 DEF ConnTypes
<1>8. CASE UNCHANGED wvars
  BY <1>1, <1>8 DEF wvars, served, ConnTypes
<1>9. CASE WEBBY_add_filter \/ WEBBY_run
  <2>1. conn' = conn \/ conn' = [conn EXCEPT !.state = "listening"]
    BY <1>9 DEF WEBBY_add_filter, WEBBY_run
  <2> QED
    BY <1>1, <1>9, <2>1 DEF ConnTypes, ConnStates
<1> QED
  BY <1>2, <1>3, <1>4, <1>5, <1>6, <1>7, <1>8, <1>9 DEF WNext

FilterRecords == [request : Int, response : Int]

\* DATA_SINK_FILTER_add_filter_to_vhost links filters by indices.
LEMMA FilterTypesKeep ==
  ASSUME FilterTypes, ConnTypes, [WNext]_wvars
  PROVE  FilterTypes'
<1> DEFINE new == Len(filters)
<1>1. filters \in Seq(FilterRecords) /\ new \in Nat /\ new > 0
  BY DEF FilterTypes, FilterRecords
<1>2. At(filters, 0) \in FilterRecords
  BY <1>1 DEF At
<1>3. AddFilter(filters) \in Seq(FilterRecords) /\ Len(AddFilter(filters)) > 0
  <2>1. \A i \in Int : [request |-> NoFilter, response |-> i] \in FilterRecords
    BY DEF FilterRecords, NoFilter
  <2>2. CASE new = 1
    <3> DEFINE a == [At(filters, 0) EXCEPT !.request = 1]
               b == [request |-> NoFilter, response |-> 0]
    <3>1. a \in FilterRecords /\ b \in FilterRecords
      BY <1>2, <2>1 DEF FilterRecords
    <3>2. AddFilter(filters) = <<a, b>>
      BY <2>2 DEF AddFilter
    <3> HIDE DEF a, b
    <3>3. <<a, b>> \in Seq(FilterRecords) /\ Len(<<a, b>>) = 2
      BY <3>1
    <3> QED
      BY <3>2, <3>3
  <2>3. CASE new # 1
    <3> DEFINE k == At(filters, 0).request + 1
               u == [filters EXCEPT ![k].request = new]
               b == [request |-> NoFilter, response |-> new - 1]
    <3>1. b \in FilterRecords
      BY <1>1, <2>1
    <3>2. AddFilter(filters) = Append(u, b)
      BY <2>3 DEF AddFilter
    <3>3. u \in Seq(FilterRecords)
      <4> HIDE DEF k, new
      <4>1. \A r \in FilterRecords : [r EXCEPT !.request = new] \in FilterRecords
        BY <1>1 DEF FilterRecords
      <4>2. CASE k \in 1 .. Len(filters)
        <5>1. filters[k] \in FilterRecords
          BY <1>1, <4>2
        <5> DEFINE r == [filters[k] EXCEPT !.request = new]
        <5>2. r \in FilterRecords /\ u = [filters EXCEPT ![k] = r]
          BY <4>1, <5>1
        <5> HIDE DEF r, u
        <5>3. [filters EXCEPT ![k] = r] \in Seq(FilterRecords)
          BY <1>1, <4>2, <5>2
        <5> QED
          BY <5>2, <5>3
      <4>3. CASE k \notin 1 .. Len(filters)
        <5>1. DOMAIN filters = 1 .. Len(filters)
          BY <1>1
        <5>2. u = filters
          BY <1>1, <4>3, <5>1
        <5> QED
          BY <1>1, <5>2
      <4> QED
        BY <4>2, <4>3
    <3> HIDE DEF u, b
    <3>4. Append(u, b) \in Seq(FilterRecords) /\ Len(Append(u, b)) = Len(u) + 1 /\ Len(u) \in Nat
      BY <3>1, <3>3
    <3> QED
      BY <3>2, <3>4
  <2> QED
    BY <2>2, <2>3
<1>4. filters' = filters \/ filters' = AddFilter(filters)
  BY FiltersNext DEF WEBBY_add_filter, WEBBY_run
<1> QED
  BY <1>1, <1>3, <1>4 DEF FilterTypes, FilterRecords

\* One filter at most, and that of the servlets when the server runs.
LEMMA FiltersKeep ==
  ASSUME FiltersInv, ConnTypes, MaxFilters <= 1, [WNext]_wvars
  PROVE  FiltersInv'
<1> DEFINE one == AddFilter(<<Sink>>)
           two == AddFilter(OneFilter)
<1>1. one = OneFilter
  <2>1. Len(<<Sink>>) = 1 /\ At(<<Sink>>, 0) = Sink
    BY DEF At
  <2>2. [Sink EXCEPT !.request = 1] = Filter(1, NoFilter)
    BY DEF Sink, Filter
  <2> QED
    BY <2>1, <2>2 DEF AddFilter, OneFilter, Filter
<1>2. two = TwoFilters
  <2> DEFINE a == Filter(1, NoFilter)
             b == Filter(NoFilter, 0)
             c == Filter(2, 0)
             d == Filter(NoFilter, 1)
             l == <<a, b>>
  <2>1. OneFilter = l /\ Len(l) = 2 /\ l[1] = a /\ l[2] = b
    BY DEF OneFilter
  <2>2. a.request = 1 /\ [b EXCEPT !.request = 2] = c
    BY DEF Filter
  <2>3. [request |-> NoFilter, response |-> 2 - 1] = d
    BY DEF Filter
  <2>4. At(l, 0) = a
    BY <2>1 DEF At
  <2> HIDE DEF a, b, c, d
  <2>5. [l EXCEPT ![2].request = 2] = <<a, c>>
    BY <2>2
  <2> HIDE DEF l
  <2>6. two = Append(<<a, c>>, d)
    <3>1. At(OneFilter, 0).request + 1 = 2 /\ Len(OneFilter) = 2
      BY <2>1, <2>2, <2>4
    <3>2. two = Append([l EXCEPT ![2].request = 2], [request |-> NoFilter, response |-> 2 - 1])
      BY <2>1, <3>1 DEF AddFilter
    <3> QED
      BY <2>3, <2>5, <3>2
  <2>7. Append(<<a, c>>, d) = <<a, c, d>>
    BY AppendThird, Zenon
  <2> QED
    BY <2>6, <2>7 DEF TwoFilters, a, c, d
<1>3. CASE WEBBY_add_filter
  <2>1. /\ conn.state = "none" /\ conn' = conn /\ Len(filters) <= MaxFilters
        /\ filters' = AddFilter(filters)
    BY <1>3 DEF WEBBY_add_filter
  <2>2. filters = <<Sink>>
    <3>1. Len(OneFilter) = 2 /\ MaxFilters \in Nat
      BY WebbyAssumption DEF OneFilter
    <3>2. filters \in {<<Sink>>, OneFilter}
      BY <2>1 DEF FiltersInv
    <3> QED
      BY <2>1, <3>1, <3>2
  <2> QED
    BY <1>1, <2>1, <2>2 DEF FiltersInv
<1>4. CASE WEBBY_run
  <2>1. conn.state = "none" /\ conn' = [conn EXCEPT !.state = "listening"] /\ filters' = AddFilter(filters)
    BY <1>4 DEF WEBBY_run
  <2>2. conn'.state # "none"
    BY <2>1 DEF ConnTypes
  <2>3. filters \in {<<Sink>>, OneFilter}
    BY <2>1 DEF FiltersInv
  <2> QED
    BY <1>1, <1>2, <2>1, <2>2, <2>3 DEF FiltersInv
<1>5. CASE filters' = filters /\ (conn.state = "none" <=> conn'.state = "none")
  BY <1>5 DEF FiltersInv
<1> QED
  BY <1>3, <1>4, <1>5, FiltersNext

-----------------------------------------------------------------------------
(* The theorems *)

\* The invariant holds of the server as long as servlets and peers keep the contract.
THEOREM WInvHolds == Contract => (WSpec => [](WInv /\ FilterTypes))
<1> SUFFICES ASSUME Contract PROVE WSpec => [](WInv /\ FilterTypes)
  OBVIOUS
<1>1. WInit => WInv /\ FilterTypes
  <2>1. WInit => FilterTypes
    <3> SUFFICES ASSUME WInit PROVE FilterTypes
      OBVIOUS
    <3>1. filters = <<Sink>> /\ Sink \in [request : Int, response : Int]
      BY DEF WInit, Sink, NoFilter
    <3> QED
      BY <3>1 DEF FilterTypes
  <2> QED
    BY <2>1, WInitHolds
<1>2. (WInv /\ FilterTypes) /\ [WNext]_wvars => (WInv /\ FilterTypes)'
  BY WNextKeeps, FilterTypesKeep DEF WInv, ConnInv, ConnTypes
<1> QED
  BY <1>1, <1>2, PTL DEF WSpec

\* Every response is framed as its header announced, whatever the sequence of
\* HTTP_response_start, _send, _chunk and _finish that wrote it, and it answers the
\* request it is read for.
THEOREM FramedWell == Contract => (WSpec => []WellFramed)
<1> SUFFICES ASSUME Contract PROVE WSpec => []WellFramed
  OBVIOUS
<1>1. WInv => WellFramed
  BY DEF WInv, ServeInv, Clients, WellFramed
<1> QED
  BY <1>1, WInvHolds, PTL

\* The requests the callbacks saw the end of are those before the current one.
LEMMA NumFinishedIs ==
  ASSUME WInv, status \in {"completed", "need_more"}
  PROVE  NumFinished = Pending
<1> DEFINE n == Len(received)
           k == IF parser.state \in {"REQUEST_LINE", "HEADERS"} THEN n ELSE n - 1
           done == {i \in DOMAIN received : Finished(i)}
<1>1. Good(sent, fed, Seen, parser, request, status, received)
  BY DEF WInv, ParserInv
<1>2. /\ received \in Seq(Records) /\ n \in Nat
      /\ \A i \in 1 .. n : i < n => received[i].done
  BY <1>1 DEF Good, History
<1>3. /\ parser.state \in {"REQUEST_LINE", "HEADERS"} => AllDone(received)
      /\ parser.state \notin {"REQUEST_LINE", "HEADERS"} => n > 0 /\ ~received[n].done
  BY <1>1 DEF Good, Stands
<1>4. k \in Nat /\ Pending = k
  BY <1>2, <1>3 DEF Pending, Current
<1>5. DOMAIN received = 1 .. n
  BY <1>2
<1>6. \A i \in 1 .. n : received[i].done <=> i \in 1 .. k
  <2>1. CASE parser.state \in {"REQUEST_LINE", "HEADERS"}
    BY <1>2, <1>3, <2>1 DEF AllDone
  <2>2. CASE parser.state \notin {"REQUEST_LINE", "HEADERS"}
    <3>1. k = n - 1 /\ n > 0 /\ ~received[n].done
      BY <1>3, <2>2
    <3> HIDE DEF k
    <3>2. \A i \in 1 .. n : i = n \/ i < n
      BY <1>2
    <3>3. \A i \in 1 .. n : i < n => i \in 1 .. k
      BY <1>2, <3>1
    <3>4. n \notin 1 .. k
      BY <1>2, <3>1
    <3> QED
      BY <1>2, <3>1, <3>2, <3>3, <3>4
  <2> QED
    BY <2>1, <2>2
<1>7. k <= n
  BY <1>2
<1> HIDE DEF k
<1>8. done = 1 .. k
  BY <1>2, <1>4, <1>5, <1>6, <1>7 DEF Finished
<1>9. Cardinality(1 .. k) = k
  BY <1>4, FS_Interval
<1> QED
  BY <1>4, <1>8, <1>9 DEF NumFinished

\* When the connection waits for the client again (WEBBY_connection_data_received has
\* returned), each request finished so far has been answered in full, by a servlet,
\* by servlets_req_finished or by the check of the headers.
THEOREM AllAnswered == Contract => (WSpec => []AnsweredInFull)
<1> SUFFICES ASSUME Contract PROVE WSpec => []AnsweredInFull
  OBVIOUS
<1>1. WInv => AnsweredInFull
  <2> SUFFICES ASSUME WInv, conn.state = "recv"
               PROVE  IF conn.socket THEN client.st = "idle" /\ client.done = NumFinished
                      ELSE client.st = "until_close" /\ client.done + 1 = NumFinished
    BY DEF AnsweredInFull
  <2>1. status \in {"completed", "need_more"}
    BY DEF WInv, ConnInv, ConnTypes
  <2>2. Waiting
    BY <2>1, NoServletIs DEF In
  <2>3. NumFinished = Pending
    BY <2>1, NumFinishedIs
  <2> QED
    BY <2>1, <2>2, <2>3 DEF Waiting, Idle
<1> QED
  BY <1>1, WInvHolds, PTL

\* The states of the parser, the connection and the response stay in their ranges.
THEOREM TypesKeptInServer == Contract => (WSpec => []WTypeOK)
<1> SUFFICES ASSUME Contract PROVE WSpec => []WTypeOK
  OBVIOUS
<1>1. WInv /\ FilterTypes => WTypeOK
  <2> SUFFICES ASSUME WInv, FilterTypes PROVE WTypeOK
    OBVIOUS
  <2>1. /\ Good(sent, fed, Seen, parser, request, status, received)
        /\ bf \in Buffers /\ bf.get <= bf.put /\ bf.put <= BufSize /\ BufSize \in Nat
    BY HttpAssumption DEF WInv, ParserInv, BufferInv
  <2>2. /\ fed \in Nat /\ fed <= Len(Stream) /\ parser \in Parsers
        /\ parser.state \in {"CONTENT_LENGTH", "CHUNK_DATA"} => parser.left > 0
        /\ status \in {"running", "need_more", "completed", "error", "refused"}
    BY <2>1, StreamSame DEF Good, Holds
  <2>3. Len(Stream) \in Nat
    <3>1. sent \in Seq(Requests)
      BY <2>1 DEF Good
    <3> QED
      BY <3>1, Facts, StreamSame
  <2>4. bf.get \in 0 .. bf.put /\ bf.put \in 0 .. BufSize
    BY <2>1 DEF Buffers
  <2>5. TypeOK
    BY <2>2, <2>3, <2>4 DEF TypeOK, Parsers, States
  <2>6. /\ resp \in Responses /\ Servlets \in Nat
        /\ conn.state \in ConnStates
    BY WebbyAssumption DEF WInv, ServeInv, ConnInv, ConnTypes
  <2>7. resp.pc \in 0 .. Servlets + 1
    BY <2>6 DEF WInv, ServeInv, Serving
  <2>8. /\ resp.state \in {0, 1, 2, 3, WritesForEver} /\ resp.left \in Nat \cup {NoLimit}
        /\ resp.chunk_no \in Nat
    BY <2>6 DEF Responses
  <2> QED
    BY <2>5, <2>6, <2>7, <2>8 DEF WTypeOK, FilterTypes, ConnStates
<1> QED
  BY <1>1, WInvHolds, PTL

\* The servlets are told what the client sent, although the buffer of the request is
\* written over by the header of the response and emptied by the front end.
THEOREM ServletsToldAsSent == Contract => (WSpec => []ReceivedAsSent)
<1> SUFFICES ASSUME Contract PROVE WSpec => []ReceivedAsSent
  OBVIOUS
<1>1. WInv => ReceivedAsSent
  <2> SUFFICES ASSUME WInv PROVE ReceivedAsSent
    OBVIOUS
  <2>1. History(sent, received)
    BY DEF WInv, ParserInv, Good
  <2>2. DOMAIN received = 1 .. Len(received)
    BY <2>1 DEF History
  <2> QED
    BY <2>1, <2>2 DEF History, ReceivedAsSent
<1> QED
  BY <1>1, WInvHolds, PTL

\* A response goes back through the filters its request went through, if the server
\* adds no more than one filter to the servlets' own: with more, the links of
\* DATA_SINK_FILTER_add_filter_to_vhost leave filters out.
THEOREM ResponsesRetrace == MaxFilters <= 1 => (WSpec => []ResponseRetraces)
<1> SUFFICES ASSUME MaxFilters <= 1 PROVE WSpec => []ResponseRetraces
  OBVIOUS
<1>1. WInit => ConnTypes /\ FiltersInv
  BY DEF WInit, FiltersInv, ConnTypes, ConnStates
<1>2. ConnTypes /\ FiltersInv /\ [WNext]_wvars => (ConnTypes /\ FiltersInv)'
  BY FiltersKeep, FiltersNext
<1>3. FiltersInv => ResponseRetraces
  BY Retraced DEF FiltersInv, ResponseRetraces
<1> QED
  BY <1>1, <1>2, <1>3, PTL DEF WSpec

=============================================================================
