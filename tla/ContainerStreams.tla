-------------------------- MODULE ContainerStreams --------------------------
(***************************************************************************)
(* One call of DockerContainerStreams.logs (container-streams.ts) over     *)
(* openDockerStream and readBody (body-reader.ts): the body arrives in     *)
(* chunks of any size, is demultiplexed or read raw, and assembled to      *)
(* lines; the caller may abort; the connection may break.                  *)
(***************************************************************************)
EXTENDS DockerFrames

CONSTANT Logs    \* [writes, tty, contentType]: what a container writes, and how it is announced

(* A terminal has one stream.                                              *)
ASSUME LogsAssumption ==
  \A l \in Logs :
    /\ l.writes \in Seq([stream : Stream, bytes : Seq(Nat)]) /\ l.tty \in BOOLEAN
    /\ l.tty => \A i \in 1 .. Len(l.writes) : l.writes[i].stream = "stdout"

VARIABLES
  log,       \* the container's log, a member of Logs
  sent,      \* how many of its writes Docker has sent
  body,      \* bytes sent and not yet read
  reader     \* the client: [at, mode, demux, lead, lines]

logVars == <<log, sent, body, reader>>

NewStream == [at |-> "requested", mode |-> "unknown", demux |-> NewDemuxer, lead |-> FALSE,
              assembler |-> NewAssembler]

InitStream ==
  /\ log \in Logs
  /\ sent = 0 /\ body = <<>>
  /\ reader = NewStream

Over == reader.at \in {"ended", "aborted", "failed"}

(* Docker (external): a container with a terminal has no frames.           *)
ContainerWrites ==
  /\ sent < Len(log.writes)
  /\ LET write == log.writes[sent + 1]
     IN  body' = body \o IF log.tty THEN write.bytes ELSE EncodeFrame(write)
  /\ sent' = sent + 1
  /\ UNCHANGED <<log, reader>>

(* transport.request answers, or fails, which an abort makes quiet.        *)
StreamAnswered ==
  /\ reader.at = "requested"
  /\ \E at \in {"open", "failed"} : reader' = [reader EXCEPT !.at = at]
  /\ UNCHANGED <<log, sent, body>>

AbortLogs ==
  /\ ~Over
  /\ reader' = [reader EXCEPT !.at = "aborted"]
  /\ UNCHANGED <<log, sent, body>>

(* What the frames of one chunk add to the lines.                          *)
Took(s, chunk) ==
  LET mode == IF s.mode # "unknown" THEN s.mode
              ELSE IF IsMultiplexed(log.contentType, chunk) THEN "frames" ELSE "raw"
      demux == Push(s.demux, chunk)
      raw == Decode(s.lead, chunk)
  IN  IF mode = "frames"
      THEN [s EXCEPT !.mode = mode, !.demux = demux, !.assembler = Assemble(@, demux.frames)]
      ELSE [s EXCEPT !.mode = mode, !.lead = raw.lead, !.assembler = Assemble(@, Frame("stdout", raw.text))]

ReadChunk(n) ==
  /\ reader.at = "open" /\ n \in 1 .. Len(body)
  /\ reader' = Took(reader, SubSeq(body, 1, n))
  /\ body' = SubSeq(body, n + 1, Len(body))
  /\ UNCHANGED <<log, sent>>

(* The end: what the decoders hold, then the unterminated lines.           *)
LastOfStream(s) ==
  LET last == IF s.mode = "frames" THEN FlushedFrames(s.demux)
              ELSE Remainder(s.lead, "stdout")
      a == Assemble(s.assembler, last)
  IN  [partial |-> [x \in Stream |-> <<>>], lines |-> a.lines \o LastLines(a)]

BodyEnds ==
  /\ reader.at = "open" /\ body = <<>> /\ sent = Len(log.writes)
  /\ reader' = [reader EXCEPT !.at = "ended", !.assembler = LastOfStream(reader)]
  /\ UNCHANGED <<log, sent, body>>

(* readBody: "The Docker stream closed unexpectedly".                      *)
BodyFails ==
  /\ reader.at = "open"
  /\ reader' = [reader EXCEPT !.at = "failed"]
  /\ UNCHANGED <<log, sent, body>>

StreamNext ==
  \/ ContainerWrites \/ StreamAnswered \/ AbortLogs \/ BodyEnds \/ BodyFails
  \/ \E n \in 1 .. Len(body) : ReadChunk(n)

-----------------------------------------------------------------------------
(* The lines of each stream, in their order.                               *)
Sorted(f, line) == [f EXCEPT ![line.stream] = Append(@, line.text)]
Sorting == INSTANCE Scan WITH Step <- Sorted
ByStream(lines) == Sorting!After([s \in Stream |-> <<>>], lines)

(* The lines of a whole text.                                              *)
LinesOf(text) ==
  LET p == Parts(<<>>, text)
      all == p.parts \o IF p.rest = <<>> THEN <<>> ELSE <<p.rest>>
  IN  [i \in 1 .. Len(all) |-> Chomp(all[i])]

(* The first chunk tells the format unless the header does.  Docker writes *)
(* a frame at once, but a chunk may be shorter than a header: then a log   *)
(* that is announced by no content type is read raw.                       *)
FormatKnown == reader.mode = (IF log.tty THEN "raw" ELSE "frames")

(* However the log was cut into frames and chunks, inside a header or a    *)
(* character too: each reader's lines come whole and in order, no line     *)
(* mixes two streams, and at the end there are all of them (LogDemuxer,    *)
(* LogLineAssembler, DockerContainerStreams.logs).                         *)
LinesWhole ==
  FormatKnown =>
    \A s \in IF log.tty THEN {"stdout"} ELSE Stream :
      LET got == ByStream(reader.assembler.lines)[s]
          all == LinesOf(WrittenTo(log.writes, s))
      IN  /\ IsPrefix(got, all)
          /\ reader.at = "ended" => got = all
=============================================================================
