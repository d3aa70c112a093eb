------------------------------ MODULE MCWebby -------------------------------
(***************************************************************************)
(* Instances of Webby for TLC.                                             *)
(***************************************************************************)
EXTENDS Webby

Req(version, headers, chunks) ==
  [version |-> version, headers |-> headers, chunks |-> chunks, trailer |-> <<>>]
Host == <<"host", 0, 0>>

Get      == Req(1, <<Host>>, <<>>)
Old      == Req(0, <<>>, <<>>)
Last     == Req(1, <<Host, <<"close", 0, 0>>>>, <<>>)
Expects  == Req(1, <<Host, <<"length", 3, 0>>, <<"expect", 0, 0>>>>, <<3>>)
Chunked  == Req(1, <<Host, <<"chunked", 0, 0>>>>, <<1>>)
NoHost   == Req(1, <<>>, <<>>)
Bad      == Req(2, <<>>, <<>>)

MCRequests == {Get, Old, Last, Expects, Chunked, NoHost, Bad}
MCNone == {}
MCOversend == {"oversend"}
MCNoChunk == {"nochunk"}
=============================================================================
