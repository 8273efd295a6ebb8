-------------------------- MODULE MCResponseWriter --------------------------
(* One exchange with every kind of response head; the peer's bytes play no  *)
(* part here.                                                               *)
EXTENDS ResponseWriter

MCStreams == {<<>>}

MCHeaders ==
  {[conn |-> "none",       sse |-> FALSE, len |-> 0],
   [conn |-> "none",       sse |-> FALSE, len |-> 2],
   [conn |-> "close",      sse |-> FALSE, len |-> NoLen],
   [conn |-> "keep-alive", sse |-> TRUE,  len |-> NoLen],
   [conn |-> "none",       sse |-> TRUE,  len |-> 1],
   [conn |-> "upgrade",    sse |-> FALSE, len |-> 1],
   [conn |-> "upgrade",    sse |-> TRUE,  len |-> NoLen]}
==============================================================================
