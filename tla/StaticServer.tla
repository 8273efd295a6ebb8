---------------------------- MODULE StaticServer ----------------------------
(***************************************************************************)
(* StaticServer::handler_fn (src/fs/static_serve.cpp) over a DirReader     *)
(* (src/fs/dir_reader.cpp), as a user of ResponseWriter.                   *)
(*                                                                         *)
(* The handler asks the file system several times: is there a file, when   *)
(* was it modified, how large is it, what is in it.  In between the file   *)
(* may be rewritten in place, replaced by another one of its name, or      *)
(* removed.  What a file holds is its version; two versions of a file may  *)
(* fall into one second, which is all that last-modified tells.            *)
(*                                                                         *)
(* A path is the sequence of its segments: "/" is <<"">>, "/a/" <<"a",     *)
(* "">>, "/a/./b" <<"a", ".", "b">>.                                       *)
(***************************************************************************)
EXTENDS ResponseWriter, SequencesExt

CONSTANTS
  Files,       \* paths of the regular files below the root
  Dirs,        \* paths of the directories, without a trailing slash
  Requests,    \* the requests a client may make
  Sizes,       \* sizes a file may have
  MaxVersion,  \* bound on the versions of the file
  OneShot      \* max_oneshot_response_size

Methods == {"GET", "HEAD", "OPTIONS", "POST"}
NoTime == -1
NoRange == [begin |-> 0, end |-> -1]
ToTheEnd == -2       \* a range without an end

PageSize == 1        \* of the "not found" page

Announcing(n) == [conn |-> "none", sse |-> FALSE, len |-> n]

ASSUME StaticAssumption ==
  /\ Sizes \subseteq Nat /\ MaxVersion \in Nat /\ OneShot \in Nat \ {0}
  /\ ~Catches
  /\ {200, 204, 206, 302, 304, 308, 404, 405, 416} \subseteq Statuses
  /\ PageSize \in Chunks
  /\ \A n \in Sizes : \A k \in 0 .. n : k \in Chunks /\ Announcing(k) \in HandlerHeaders
  /\ \A r \in Requests :
       /\ r.method \in Methods /\ r.path \in Seq(STRING) \ {<<>>}
       /\ r.since \in Nat \cup {NoTime} /\ r.match \in Nat \cup {NoTime}
       /\ r.range.begin \in Nat
       /\ r.range.end \in Nat \cup {ToTheEnd} \/ r.range = NoRange
  /\ \A d \in Dirs : d # <<>> => d[Len(d)] # "index.html"

VARIABLES
  at,         \* where handler_fn is
  req,        \* the request
  location,   \* the location header, <<>> = none
  disk,       \* what the file system holds under the file's name
  fd,         \* m_stream: the file that was opened
  mod,        \* m_mod, in seconds, and whether its name was the opened file's
  size,       \* m_size
  body,       \* what content() returned last
  written,    \* body bytes the handler passed on
  stamp       \* history: the last-modified header of the response

fileVars == <<disk, fd>>
readVars == <<mod, size, body, written, stamp>>
staticVars == <<rwVars, at, req, location, fileVars, readVars>>

NoMod == [time |-> NoTime, link |-> "lost"]
NoBody == [ver |-> 0, begin |-> 0, n |-> 0]

------------------------------------------------------------------------------
(* Paths begin with a slash and are the segments behind it.  A target that  *)
(* has none (the reader takes it as it is, pipeline_h1_rx.cpp:66) is not    *)
(* among the requests.                                                      *)

(* Mutant: the trailing slash is lost *)
DirMarkNever == {}

DirMark == {"", ".", ".."}     \* last segments that leave a trailing slash

Walk(names, seg) ==
  CASE seg \in {"", "."} -> names
    [] seg = ".."        -> IF names = <<>> THEN names ELSE Front(names)
    [] OTHER             -> Append(names, seg)

(* what is left of a path, segment by segment *)
Names(path) ==
  LET walked[n \in 0 .. Len(path)] ==
        IF n = 0 THEN <<>> ELSE Walk(walked[n - 1], path[n])
  IN walked[Len(path)]

(* lexically_normal of an absolute path *)
flatten_path(path) == Names(path) \o (IF Last(path) \in DirMark THEN <<"">> ELSE <<>>)

EndsWithSlash(path) == Last(path) = ""

FilePath(path) == IF EndsWithSlash(path) THEN Append(Front(path), "index.html") ELSE path

AsDirectory(path) == IF EndsWithSlash(path) THEN path ELSE Append(path, "")

(* the resource a path is for *)
IsFile(path) == FilePath(path) \in Files
IsDirectory(path) == FilePath(path) \in Dirs

(* where a client that asks for the path is sent, or the path itself *)
Redirected(path) ==
  IF flatten_path(path) # path THEN flatten_path(path)
  ELSE IF IsDirectory(path) THEN AsDirectory(path) ELSE path

------------------------------------------------------------------------------
(* The file system *)

VersionsPerSecond == 2
Seconds(ver) == ver \div VersionsPerSecond

Unread == at \in {"stat", "size", "content", "partial", "head", "loop"}

Newer == [entry |-> "file", ver |-> disk.ver + 1, size |-> 0]

(* in place: the opened file changes too *)
FileRewritten ==
  /\ pc = "handler" /\ Unread /\ disk.entry = "file" /\ disk.ver < MaxVersion
  /\ \E n \in Sizes : disk' = [Newer EXCEPT !.size = n]
  /\ fd' = IF fd.link = "kept" THEN [fd EXCEPT !.ver = disk'.ver, !.size = disk'.size] ELSE fd
  /\ UNCHANGED <<rwVars, at, req, location, readVars>>

(* by another file of that name, or by none *)
FileReplaced ==
  /\ pc = "handler" /\ Unread /\ disk.entry = "file" /\ disk.ver < MaxVersion
  /\ \E n \in Sizes : disk' \in {[Newer EXCEPT !.size = n], [disk EXCEPT !.entry = "none"]}
  /\ fd' = [fd EXCEPT !.link = "lost"]
  /\ UNCHANGED <<rwVars, at, req, location, readVars>>

------------------------------------------------------------------------------
(* FsDirectoryFile: modified(), size() and content(begin, end) *)

Smaller(a, b) == IF a <= b THEN a ELSE b

(* std::filesystem::last_write_time and file_size throw on a missing file. *)
StatThrows == disk.entry = "none" /\ HandlerThrows /\ at' = "done"

(* A read that reaches the end of the file leaves failbit set: seekg and    *)
(* read do nothing from then on, as on a stream that could not be opened.   *)
Content(b, e) ==
  LET begin == IF b >= e THEN 0 ELSE b
      end   == IF e > size \/ e < begin THEN size ELSE e
      n     == IF fd.state = "failed" \/ Smaller(end, fd.size) < begin THEN 0
               ELSE Smaller(end, fd.size) - begin
  IN /\ body' = [ver |-> fd.ver, begin |-> begin, n |-> n]
     /\ fd' = [fd EXCEPT !.state = IF n = end - begin THEN @ ELSE "failed"]

(* if-none-match: the hash of what was read *)
EtagMatches == req.match = body'.ver /\ fd'.state = "good"

------------------------------------------------------------------------------
(* handler_fn *)

Answer(st) == WriteHeader(st) /\ at' = "done"

Options ==
  /\ at = "start" /\ req.method = "OPTIONS"
  /\ Answer(204)
  /\ UNCHANGED <<req, location, fileVars, readVars>>

NotAllowed ==
  /\ at = "start" /\ req.method \notin {"GET", "HEAD", "OPTIONS"}
  /\ Answer(405)
  /\ UNCHANGED <<req, location, fileVars, readVars>>

Readable == at = "start" /\ req.method \in {"GET", "HEAD"}
Flat == flatten_path(req.path) = req.path

RedirectFlat ==
  /\ Readable /\ ~Flat
  /\ location' = flatten_path(req.path)
  /\ Answer(308)
  /\ UNCHANGED <<req, fileVars, readVars>>

RedirectDirectory ==
  /\ Readable /\ Flat /\ IsDirectory(req.path)
  /\ location' = AsDirectory(req.path)
  /\ Answer(302)
  /\ UNCHANGED <<req, fileVars, readVars>>

NotFound ==
  /\ Readable /\ Flat /\ ~IsFile(req.path) /\ ~IsDirectory(req.path)
  /\ WriteHeader(404)
  /\ at' = IF req.method = "HEAD" THEN "done" ELSE "page"
  /\ UNCHANGED <<req, location, fileVars, readVars>>

NotFoundPage ==
  /\ at = "page" /\ Write(PageSize)
  /\ at' = "done"
  /\ UNCHANGED <<req, location, fileVars, readVars>>

(* DirReader::open; the stream of a file may fail to open *)
OpenFile ==
  /\ pc = "handler" /\ Readable /\ Flat /\ IsFile(req.path)
  /\ \E state \in {"good", "failed"} :
       fd' = [state |-> state, link |-> "kept", ver |-> disk.ver, size |-> disk.size]
  /\ at' = "stat"
  /\ UNCHANGED <<rwVars, req, location, disk, readVars>>

(* if-modified-since *)
ReadModified ==
  /\ at = "stat"
  /\ \/ StatThrows /\ UNCHANGED mod
     \/ /\ disk.entry = "file"
        /\ mod' = [time |-> Seconds(disk.ver), link |-> fd.link]
        /\ IF req.since = mod'.time
           THEN Answer(304)
           ELSE pc = "handler" /\ at' = "size" /\ UNCHANGED rwVars
  /\ UNCHANGED <<req, location, fileVars, size, body, written, stamp>>

(* get_range, with the size of the file for an end that is not given *)
RangeEnd(n) == IF req.range.end = ToTheEnd THEN n ELSE req.range.end

(* Mutant: an empty range is let through *)
UnsatisfiableTooLong(n) == RangeEnd(n) > n

Unsatisfiable(n) == RangeEnd(n) > n \/ req.range.begin >= RangeEnd(n)

ReadSize ==
  /\ at = "size"
  /\ \/ StatThrows /\ UNCHANGED size
     \/ /\ disk.entry = "file"
        /\ size' = disk.size
        /\ IF req.range # NoRange /\ Unsatisfiable(size')
           THEN Answer(416)
           ELSE /\ pc = "handler"
                /\ at' = IF req.range # NoRange THEN "partial" ELSE "content"
                /\ UNCHANGED rwVars
  /\ UNCHANGED <<req, location, fileVars, mod, body, written, stamp>>

Announce(n) == SetHeaders /\ hdr' = Announcing(n) /\ at' = "head"

(* Mutant: the length that was asked for *)
PartialLengthAsked == RangeEnd(size) - req.range.begin

PartialLength == body'.n

ReadPartial ==
  /\ at = "partial"
  /\ Content(req.range.begin, RangeEnd(size))
  /\ IF EtagMatches THEN Answer(304) ELSE Announce(PartialLength)
  /\ UNCHANGED <<req, location, disk, mod, size, written, stamp>>

Streamed == size >= OneShot

ReadWhole ==
  /\ at = "content" /\ ~Streamed
  /\ Content(0, size)
  /\ IF EtagMatches THEN Answer(304) ELSE Announce(size)
  /\ UNCHANGED <<req, location, disk, mod, size, written, stamp>>

ReadLater ==
  /\ at = "content" /\ Streamed
  /\ Announce(size)
  /\ UNCHANGED <<req, location, fileVars, readVars>>

(* Mutant: the time is asked for again when the headers are written *)
LastModifiedNow == Seconds(disk.ver)

LastModified == mod.time

FileHead ==
  /\ at = "head"
  /\ stamp' = LastModified
  /\ IF req.range # NoRange
     THEN WriteHeader(206) /\ at' = "body"
     ELSE /\ WriteHeader(OK)
          /\ at' = IF req.method = "HEAD" \/ size = 0 THEN "done"
                   ELSE IF Streamed THEN "loop" ELSE "body"
  /\ UNCHANGED <<req, location, fileVars, mod, size, body, written>>

FileBody ==
  /\ at = "body"
  /\ Write(body.n)
  /\ written' = body.n
  /\ at' = "done"
  /\ UNCHANGED <<req, location, fileVars, mod, size, body, stamp>>

(* "read and write it in chunks": each of them is the whole file *)
FileChunk ==
  /\ at = "loop" /\ written < size
  /\ Content(0, size)
  /\ IF body'.n = 0
     THEN pc = "handler" /\ at' = "done" /\ UNCHANGED <<rwVars, written>>
     ELSE Write(body'.n) /\ written' = written + body'.n /\ UNCHANGED at
  /\ UNCHANGED <<req, location, disk, mod, size, stamp>>

FileChunksEnd ==
  /\ at = "loop" /\ written >= size
  /\ HandlerReturns
  /\ at' = "done"
  /\ UNCHANGED <<req, location, fileVars, readVars>>

StaticReturns ==
  /\ at = "done" /\ HandlerReturns
  /\ UNCHANGED <<at, req, location, fileVars, readVars>>

(* the rest of write() and flush() *)
StaticWriterStep ==
  /\ pc # "handler" /\ WriterStep
  /\ UNCHANGED <<at, req, location, fileVars, readVars>>

StaticStep ==
  \/ Options \/ NotAllowed \/ RedirectFlat \/ RedirectDirectory
  \/ NotFound \/ NotFoundPage
  \/ OpenFile \/ ReadModified \/ ReadSize \/ ReadPartial \/ ReadWhole \/ ReadLater
  \/ FileHead \/ FileBody \/ FileChunk \/ FileChunksEnd
  \/ StaticReturns \/ StaticWriterStep

FileChanges == FileRewritten \/ FileReplaced

StaticIdle ==
  /\ at = "start" /\ req \in Requests /\ location = <<>>
  /\ disk \in [entry : {"file"}, ver : {0}, size : Sizes]
  /\ fd = [state |-> "failed", link |-> "lost", ver |-> 0, size |-> 0]
  /\ mod = NoMod /\ size = 0 /\ body = NoBody /\ written = 0 /\ stamp = NoTime

StaticInit == RwInit /\ StaticIdle
StaticNext == StaticStep \/ FileChanges
StaticSpec == StaticInit /\ [][StaticNext]_staticVars

------------------------------------------------------------------------------
(* Properties *)

Answered == at = "done" /\ pc = "loop" /\ open /\ wire # <<>>

(* A whole file whose read fell short of the size it was announced with:    *)
(* it could not be opened, or was cut between the look at its size and the  *)
(* read.                                                                    *)
FellShort == req.range = NoRange /\ wire[1].st = OK /\ fd.state = "failed"

(* On a connection that goes on the body is as long as the client was told, *)
(* although length and body come from different looks at the file; part of  *)
(* a file is never announced longer than what was read.  The exception is a *)
(* whole file whose read fell short, which leaves the client waiting for    *)
(* the rest.  HEAD is answered without a body, except when it asks for a    *)
(* range.                                                                   *)
StaticFramed ==
  Answered /\ http_keep_alive =>
    IF req.method = "HEAD"
    THEN wire[1].sent = 0 \/ wire[1].st = 206
    ELSE wire[1].sent = wire[1].len \/ FellShort

(* A client never has contents older than their last-modified: with such a  *)
(* pair its next if-modified-since would be answered "Not Modified" for as  *)
(* long as the file stays.  This needs the name to stand for the opened     *)
(* file when the time is read: a file that replaces it in between gives its *)
(* own time to the contents of the other.                                   *)
BodyNotOlder ==
  Answered /\ wire[1].st \in {200, 206} /\ written > 0 /\ mod.link = "kept" =>
    stamp <= Seconds(body.ver)

(* A redirect leads on: to a path in normal form, never the one asked for,  *)
(* and after at most one more redirect to an answer.                        *)
RedirectsSettle ==
  location # <<>> =>
    /\ location # req.path
    /\ flatten_path(location) = location
    /\ LET next == Redirected(location) IN Redirected(next) = next

(* 206 answers what was asked: the bytes from `begin` up to, not including, *)
(* `end`, all of them unless the file was cut short, and never none.        *)
RangeAsAsked ==
  Answered /\ wire[1].st = 206 =>
    /\ req.range # NoRange /\ body.begin = req.range.begin
    /\ req.range.begin < RangeEnd(size) /\ RangeEnd(size) <= size
    /\ wire[1].len = RangeEnd(size) - req.range.begin \/ fd.state = "failed"
==============================================================================
