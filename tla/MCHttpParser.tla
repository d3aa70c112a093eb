---------------------------- MODULE MCHttpParser ----------------------------
(***************************************************************************)
(* Instances of HttpParser for TLC.                                        *)
(***************************************************************************)
EXTENDS HttpParser

Req(version, headers, chunks, trailer) ==
  [version |-> version, headers |-> headers, chunks |-> chunks, trailer |-> trailer]

Plain    == Req(1, <<<<"host", 0, 0>>>>, <<>>, <<>>)
Old      == Req(0, <<<<"keepalive", 0, 1>>>>, <<>>, <<>>)
Bare     == Req(1, <<>>, <<>>, <<>>)
Posted   == Req(1, <<<<"length", 6, 0>>>>, <<6>>, <<>>)
Short    == Req(1, <<<<"length", 1, 0>>, <<"close", 0, 1>>>>, <<1>>, <<>>)
NoBody   == Req(1, <<<<"length", 0, 0>>>>, <<>>, <<>>)
Chunked  == Req(1, <<<<"chunked", 0, 0>>>>, <<2, 5>>, <<>>)
NoChunk  == Req(1, <<<<"chunked", 0, 0>>>>, <<>>, <<>>)
Trailed  == Req(1, <<<<"chunked", 0, 0>>>>, <<1>>, <<<<"other", 0, 1>>, <<"close", 0, 0>>>>)
BadLine  == Req(2, <<>>, <<>>, <<>>)
BadField == Req(1, <<<<"junk", 0, 0>>>>, <<>>, <<>>)
TooLong  == Req(1, <<<<"other", 0, 2>>>>, <<>>, <<>>)
BadTrail == Req(1, <<<<"chunked", 0, 0>>>>, <<>>, <<<<"junk", 0, 0>>>>)

MCRequests == {Plain, Old, Bare, Posted, Short, NoBody, Chunked, NoChunk, Trailed,
               BadLine, BadField, TooLong, BadTrail}
=============================================================================
