------------------------------ MODULE MCCodecs ------------------------------
(* The formats of the library: a url or a JSON document is received or made, *)
(* edited, printed and read back; the header of a WebSocket frame is sent   *)
(* and arrives byte by byte; a message is hashed.  Each behaviour is about  *)
(* one of them.                                                            *)
EXTENDS MCUrl, Json, WsFrame, Sha1

(* Final text, first fragment, close; reserved opcode, extension bit, junk  *)
MCFirstBytes == {129, 2, 136, 131, 193, 71}

(* The bounds of the three widths, and both ends of the widest *)
MCPayloadSizes == {0, 1, 125, 126, 127, 128, 255, 256, 65534, 65535, 65536, 2147483647}

MCJsonKeys == {<<97>>, <<OpenArray, 46, 58, 44, CloseArray>>, <<>>}

String(text) == Scalar("string", text)

(* 0.000012, and two that are shown as -10 and -0: -9.9999996, -0.0000004 *)
MCScalars ==
  {Scalar("null", <<>>), Scalar("boolean", True), Scalar("boolean", False),
   Scalar("integer", <<Minus, 52>>), Scalar("float", <<48, 46, 48, 48, 48, 48, 49, 50>>),
   Scalar("float", <<Minus, 57, 46, 57, 57, 57, 57, 57, 57, 54>>),
   Scalar("float", <<Minus, 48, 46, 48, 48, 48, 48, 48, 48, 52>>),
   String(<<>>), String(<<CloseObject>>),
   String(<<OpenArray, 44, 58, CloseArray>>), String(<<97, Quote, 44>>),
   String(<<Newline, 44, Tab>>), String(<<Escape, Return>>)}

(* [1 , 2.50]  {"a" : [true]}  {"a":1,"a":2,"":3}  [ "x\\"y" ,-]  "\\"  [[ ,1]] *)
MCJsonTexts ==
  {<<91, 49, 32, 44, 32, 50, 46, 53, 48, 93>>,
   <<32, 123, 34, 97, 34, 32, 58, 32, 91, 116, 114, 117, 101, 93, 125, 10>>,
   <<123, 34, 97, 34, 58, 49, 44, 34, 97, 34, 58, 50, 44, 34, 34, 58, 51, 125>>,
   <<91, 32, 34, 120, 92, 92, 34, 121, 34, 32, 44, 45, 55, 93>>,
   <<34, 92, 92, 34>>, <<91, 91, 32, 44, 49, 93, 93>>, <<32>>, <<>>, <<34>>, <<45>>,
   <<91, 44, 93>>, <<123, 125>>, <<91, 49>>, <<49, 120>>}

CodecsInit == Init /\ JsonInit /\ FrameInit /\ Sha1Init

NoUrl == url = DefaultUrl /\ UNCHANGED url
NoJson == doc = Undefined /\ UNCHANGED doc
NoFrames == sending = NoFrame /\ UNCHANGED <<sending, arrived>>
NoMessage == fed = 0 /\ ~digested /\ UNCHANGED sha1Vars

CodecsNext ==
  \/ NoJson /\ NoFrames /\ NoMessage /\ Next
  \/ NoUrl /\ NoFrames /\ NoMessage /\ JsonNext
  \/ NoUrl /\ NoJson /\ NoMessage /\ FrameNext
  \/ NoUrl /\ NoJson /\ NoFrames /\ Sha1Next

CodecsSpec == CodecsInit /\ [][CodecsNext]_<<url, doc, sending, arrived, sha1Vars>>
==============================================================================
