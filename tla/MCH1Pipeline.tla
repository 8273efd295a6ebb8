---------------------------- MODULE MCH1Pipeline ----------------------------
(* Peers for H1Pipeline: two or three requests, with and without a body,    *)
(* complete or broken off, and some that the server cannot frame.           *)
EXTENDS H1Pipeline

Unit(kind, val) == [kind |-> kind, val |-> val]
Get == <<Unit("reqline", 0), Unit("end", 0)>>
GetClose == <<Unit("reqline", 0), Unit("close", 0), Unit("end", 0)>>
Post(n) == <<Unit("reqline", 1), Unit("clen", n), Unit("end", 0)>>
PostUnframed == <<Unit("reqline", 1), Unit("ctype", 0), Unit("end", 0)>>
Body(n) == [i \in 1 .. n |-> Unit("body", 0)]

HonestStreams ==
  {Post(2) \o Body(2) \o Get,
   Post(1) \o Body(1) \o GetClose,
   Post(1) \o Body(1) \o Get,
   PostUnframed \o Get \o Post(2) \o Body(1)}

(* a body the server does not expect, a body that is not sent, a url that   *)
(* does not decode, a head line out of place, a head beyond the limit       *)
OddStreams ==
  {PostUnframed \o Body(1) \o Get,
   Post(2) \o Get,
   <<Unit("reqline", 2), Unit("end", 0)>>,
   Post(0) \o <<Unit("other", 0)>> \o Get,
   <<Unit("reqline", 0), Unit("other", 0), Unit("other", 0), Unit("end", 0)>>}

AllStreams == HonestStreams \cup OddStreams

(* The server is started again under the connection of a peer that sends a  *)
(* body and a second request, framed or not, or one that cannot be served.  *)
RestartedStreams ==
  {Post(1) \o Body(1) \o Get,
   PostUnframed \o Body(1) \o Get,
   <<Unit("reqline", 2), Unit("end", 0)>>}

SomeRestarts == [s \in Streams |-> IF s \in RestartedStreams THEN 1 ELSE 0]
NoRestarts == [s \in Streams |-> 0]

PlainHeaders ==
  {[conn |-> "none", sse |-> FALSE, len |-> 1],
   [conn |-> "none", sse |-> TRUE,  len |-> NoLen]}

UpgradeHeaders == {[conn |-> "upgrade", sse |-> FALSE, len |-> NoLen]}

AllHeaders == PlainHeaders \cup UpgradeHeaders
==============================================================================
