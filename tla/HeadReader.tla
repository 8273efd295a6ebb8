----------------------------- MODULE HeadReader -----------------------------
(***************************************************************************)
(* The scanning of read_request_head (src/server/pipeline_h1_rx.cpp), byte *)
(* by byte: a head arrives in chunks cut anywhere, a CR from its LF        *)
(* included, and each chunk is only searched from where the last search    *)
(* gave up.  H1Pipeline takes lines as units; this module is why it may.   *)
(*                                                                         *)
(* Positions count from 0, as in the code; sizes are size_t, so that       *)
(* size() - 1 of an empty buffer is nullidx, which stands here as -1.      *)
(***************************************************************************)
EXTENDS LineSplitter

CONSTANTS
  ChunkSize,    \* header_chunk_size
  MaxHeader     \* options.max_header_size

ASSUME SizeAssumption == ChunkSize \in Nat \ {0} /\ MaxHeader \in Nat

VARIABLES
  got,                   \* read_buff.size()
  chunker_seek,
  total_read,
  request_line_parsed,
  open,                  \* conn.is_open()
  pc

(* reader_seek is pos *)
scanVars == <<got, chunker_seek, total_read, request_line_parsed, open, pc>>
vars == <<bytes, pos, lines, scanVars>>

nullidx == -1

HeadInit ==
  /\ Init
  /\ got \in 0 .. Len(bytes)     \* left over from the request before
  /\ chunker_seek = nullidx
  /\ total_read = 0
  /\ request_line_parsed = FALSE
  /\ open \in BOOLEAN
  /\ pc = "scan"

SeekBegin == IF chunker_seek # nullidx THEN chunker_seek ELSE pos

(* next_line(read_buff, seek_begin, size): a LF after a CR, both from       *)
(* seek_begin on                                                            *)
Breaks == {i \in SeekBegin .. got - 2 : BreakAt(bytes, i)}
FirstBreak(e) == e \in Breaks /\ \A i \in Breaks : e <= i

(* ctx.done() ends the loop with what there is *)
Abort ==
  /\ pc = "scan"
  /\ pc' = "aborted"
  /\ UNCHANGED <<bytes, pos, lines, got, chunker_seek, total_read, request_line_parsed, open>>

NoLineClosed ==
  /\ pc = "scan" /\ Breaks = {}
  /\ ~open
  /\ pc' = "failed"
  /\ UNCHANGED <<bytes, pos, lines, got, chunker_seek, total_read, request_line_parsed, open>>

Fits == total_read <= MaxHeader

NoLineTooBig ==
  /\ pc = "scan" /\ Breaks = {}
  /\ open
  /\ ~Fits
  /\ pc' = "failed"
  /\ UNCHANGED <<bytes, pos, lines, got, chunker_seek, total_read, request_line_parsed, open>>

(* Mutant: the search resumes after the last byte searched *)
ResumeAtEnd == got

(* Where the search resumes: at the last byte of the buffer so far *)
ResumeAt == got - 1

ReadChunk(n) ==
  /\ pc = "scan" /\ Breaks = {}
  /\ open /\ Fits
  /\ got + n <= Len(bytes)
  /\ total_read' = total_read + n
  /\ chunker_seek' = ResumeAt
  /\ got' = got + n
  /\ UNCHANGED <<bytes, pos, lines, request_line_parsed, open, pc>>

(* timeout, disconnect or error *)
ReadNothing ==
  /\ pc = "scan" /\ Breaks = {}
  /\ open /\ Fits
  /\ pc' = "failed"
  /\ open' \in BOOLEAN
  /\ UNCHANGED <<bytes, pos, lines, got, chunker_seek, total_read, request_line_parsed>>

TakeLine(e) ==
  /\ pc = "scan" /\ FirstBreak(e)
  /\ lines' = Append(lines, <<pos, e>>)
  /\ pos' = e + 2
  /\ chunker_seek' = nullidx
  /\ UNCHANGED <<bytes, got, total_read, open>>

(* A line of at most two characters counts as the blank one. *)
Short(e) == e - pos <= 2

(* parse_request_line finds no method, url and version, as in any short line *)
BadRequestLine(e) ==
  /\ ~request_line_parsed
  /\ TakeLine(e)
  /\ pc' = "failed"
  /\ UNCHANGED request_line_parsed

GoodRequestLine(e) ==
  /\ ~request_line_parsed
  /\ TakeLine(e)
  /\ ~Short(e)
  /\ request_line_parsed' = TRUE
  /\ UNCHANGED pc

HeaderLine(e) ==
  /\ request_line_parsed
  /\ TakeLine(e)
  /\ pc' = IF Short(e) THEN "complete" ELSE "scan"
  /\ UNCHANGED request_line_parsed

HeadNext ==
  \/ Abort \/ NoLineClosed \/ NoLineTooBig
  \/ (\E n \in 1 .. ChunkSize : ReadChunk(n))
  \/ ReadNothing
  \/ \E e \in Breaks : BadRequestLine(e) \/ GoodRequestLine(e) \/ HeaderLine(e)

HeadSpec == HeadInit /\ [][HeadNext]_vars

------------------------------------------------------------------------------
(* Properties *)

(* The members have their types and stay within the buffer. *)
TypeInv ==
  /\ bytes \in Inputs
  /\ got \in 0 .. Len(bytes)
  /\ pos \in 0 .. got
  /\ chunker_seek \in nullidx .. got - 1
  /\ total_read \in Nat
  /\ request_line_parsed \in BOOLEAN
  /\ open \in BOOLEAN
  /\ pc \in {"scan", "aborted", "failed", "complete"}
  /\ lines \in Seq(Nat \X Nat)

(* What the search skips holds no end of line: resuming from the last byte  *)
(* of the buffer misses none, not even one cut between two chunks.          *)
SkippedHasNoBreak ==
  chunker_seek # nullidx =>
    /\ chunker_seek >= pos - 1
    /\ \A i \in pos .. chunker_seek - 1 : ~BreakAt(bytes, i)

(* Before the line that is looked for stands the LF of the line before. *)
AfterLf == pos > 0 => bytes[pos] = "lf"

(* However the bytes are cut into chunks, the lines handed to the parsers   *)
(* are those of the byte stream, in order.                                  *)
SplitsLines == Spec

(* A peer that never ends a line cannot make the head grow past the limit   *)
(* by more than one chunk ("request header section is too big").            *)
HeadBounded == total_read <= MaxHeader + ChunkSize

==============================================================================
