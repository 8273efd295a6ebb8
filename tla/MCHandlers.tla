----------------------------- MODULE MCHandlers -----------------------------
(* A root with a file, and a directory with an index page and without one; *)
(* requests of every kind for them.                                        *)
EXTENDS Handlers

MCStreams == {<<>>}
MCFiles == {<<"f">>, <<"d", "index.html">>}
MCDirs == {<<>>, <<"d">>, <<"e">>}

Lengths == {[conn |-> "none", sse |-> FALSE, len |-> n] : n \in 0 .. 3}
MCHeaders == Lengths \cup {[conn |-> "close", sse |-> FALSE, len |-> NoLen]}

Request(m, p) == [method |-> m, path |-> p, since |-> NoTime, match |-> NoTime, range |-> NoRange]

Segments == {"", ".", "..", "d", "e", "f"}
Paths == UNION {[1 .. n -> Segments] : n \in 1 .. 3}

ForAPath == {Request("GET", p) : p \in Paths}
                \cup {Request(m, <<"f">>) : m \in {"HEAD", "OPTIONS", "POST"}}
                \cup {Request("HEAD", <<"g">>)}

Ranges == {[begin |-> 0, end |-> 1], [begin |-> 1, end |-> 3], [begin |-> 2, end |-> 2],
           [begin |-> 1, end |-> ToTheEnd], [begin |-> 0, end |-> ToTheEnd]}

ForAFile ==
  [method : {"GET", "HEAD"}, path : {<<"f">>}, since : {NoTime, 0, 1}, match : {NoTime, 0, 1},
   range : Ranges \cup {NoRange}]

MCRequests == ForAPath \cup ForAFile
==============================================================================
