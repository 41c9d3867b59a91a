---------------------------- MODULE DockerFrames ----------------------------
(***************************************************************************)
(* What Docker's output streams are cut into, and how it is put together   *)
(* again: the frames of a container without a terminal (log-demuxer.ts),   *)
(* the lines of its log (log-lines.ts), the output of an exec within its   *)
(* caps (container-exec.ts).                                               *)
(*                                                                         *)
(* Bytes and characters are numbers.  One character takes two bytes, so    *)
(* that a frame, a chunk or a cap may fall inside it.  A frame header has  *)
(* two bytes here, its stream and its size, where Docker's has eight.      *)
(***************************************************************************)
EXTENDS Integers, SequencesExt

Newline == 10
Return == 13
Wide == 233           \* the character whose bytes are WideLead, WideRest
WideLead == 195
WideRest == 169
Replacement == 65533
Stream == {"stdout", "stderr"}
HeaderBytes == 2      \* LOG_FRAME_HEADER_BYTES

Concat(seqs) == FoldLeft(LAMBDA s, t : s \o t, <<>>, seqs)

(* TextDecoder in stream mode: `lead` says that half a character waits.    *)
DecodeByte(d, b) ==
  LET cut == IF d.lead /\ b # WideRest THEN Append(d.text, Replacement) ELSE d.text
  IN  IF b = WideLead THEN [text |-> cut, lead |-> TRUE]
      ELSE [lead |-> FALSE,
            text |-> Append(cut, IF b # WideRest THEN b ELSE IF d.lead THEN Wide ELSE Replacement)]

Decoding == INSTANCE Scan WITH Step <- DecodeByte
Decode(lead, bytes) == Decoding!After([text |-> <<>>, lead |-> lead], bytes)

-----------------------------------------------------------------------------
(* LogDemuxer *)

StreamName(type) == IF type \in {0, 1} THEN "stdout" ELSE "stderr"

NewDemuxer == [buffer |-> <<>>, lead |-> [s \in Stream |-> FALSE], frames |-> <<>>]

Complete(b) == Len(b) >= HeaderBytes /\ HeaderBytes + b[2] <= Len(b)

Frame(stream, text) == IF text = <<>> THEN <<>> ELSE <<[stream |-> stream, text |-> text]>>

(* One round of the loop in push: the frame that the buffer begins with,   *)
(* when it is complete.                                                    *)
Round(d, x) ==
  LET b == d.buffer
      end == HeaderBytes + b[2]
      s == StreamName(b[1])
      decoded == Decode(d.lead[s], SubSeq(b, HeaderBytes + 1, end))
  IN  IF ~Complete(b) THEN d
      ELSE [d EXCEPT !.buffer = SubSeq(b, end + 1, Len(b)), !.lead[s] = decoded.lead,
                     !.frames = @ \o Frame(s, decoded.text)]

Rounds == INSTANCE Scan WITH Step <- Round

(* push: the demuxer after one chunk, with the frames the chunk completes. *)
(* There are fewer of them than bytes, so a round for each byte is enough. *)
Push(d, chunk) ==
  LET b == d.buffer \o chunk
  IN  Rounds!After([buffer |-> b, lead |-> d.lead, frames |-> <<>>], b)

(* end: half a character left in a decoder; an incomplete frame is dropped. *)
Remainder(lead, s) == Frame(s, IF lead THEN <<Replacement>> ELSE <<>>)
FlushedFrames(d) == Remainder(d.lead["stdout"], "stdout") \o Remainder(d.lead["stderr"], "stderr")

-----------------------------------------------------------------------------
(* LogLineAssembler *)

NewAssembler == [partial |-> [s \in Stream |-> <<>>], lines |-> <<>>]

(* toLogLine; the timestamp before the text is left out.                   *)
Chomp(raw) == IF raw # <<>> /\ Last(raw) = Return THEN Front(raw) ELSE raw
LogLine(stream, raw) == [stream |-> stream, text |-> Chomp(raw)]

(* split("\n") of what was left over and a text: its parts, and the rest.  *)
SplitLine(p, c) ==
  IF c = Newline THEN [rest |-> <<>>, parts |-> Append(p.parts, p.rest)]
  ELSE [p EXCEPT !.rest = Append(@, c)]
Splitting == INSTANCE Scan WITH Step <- SplitLine
Parts(rest, text) == Splitting!After([rest |-> rest, parts |-> <<>>], text)
LogLines(stream, parts) == [i \in 1 .. Len(parts) |-> LogLine(stream, parts[i])]

(* Faulty: one partial line for both streams.                              *)
AssembleMixed(a, frame) ==
  LET p == Parts(a.partial["stdout"], frame.text)
  IN  [partial |-> [a.partial EXCEPT !["stdout"] = p.rest],
       lines |-> a.lines \o LogLines(frame.stream, p.parts)]

(* The text of a frame completes lines of its own stream only.             *)
AssembleFrame(a, frame) ==
  LET p == Parts(a.partial[frame.stream], frame.text)
  IN  [partial |-> [a.partial EXCEPT ![frame.stream] = p.rest],
       lines |-> a.lines \o LogLines(frame.stream, p.parts)]

Assembling == INSTANCE Scan WITH Step <- AssembleFrame
Assemble(a, frames) == Assembling!After(a, frames)

LastLine(stream, rest) == IF rest = <<>> THEN <<>> ELSE <<LogLine(stream, rest)>>
LastLines(a) == LastLine("stdout", a.partial["stdout"]) \o LastLine("stderr", a.partial["stderr"])

(* isMultiplexedLogStream: by the content type, else by the first chunk.   *)
IsMultiplexed(contentType, chunk) ==
  \/ contentType = "multiplexed"
  \/ contentType = "none" /\ Len(chunk) >= HeaderBytes /\ chunk[1] \in 0 .. 3

-----------------------------------------------------------------------------
(* OutputCollector *)

Width(c) == CASE c = Wide -> 2 [] c = Replacement -> 3 [] OTHER -> 1
AddWidth(n, c) == n + Width(c)
Measuring == INSTANCE Scan WITH Step <- AddWidth
ByteLength(text) == Measuring!After(0, text)

(* clip: the longest prefix whose encoding fits.                           *)
Clip(text, budget) ==
  LET fits == {n \in 0 .. Len(text) : n = 0 \/ ByteLength(SubSeq(text, 1, n)) <= budget}
  IN  SubSeq(text, 1, Max(fits))

NewOutput(cap, stderrCap) ==
  [stdout |-> <<>>, stderr |-> <<>>, truncated |-> FALSE, maxStdout |-> cap, maxStderr |-> stderrCap]

(* add: once stdout was cut, all that follows of it is dropped.            *)
AddItem(o, frame) ==
  IF frame.stream = "stderr"
  THEN [o EXCEPT !.stderr = @ \o Clip(frame.text, o.maxStderr - ByteLength(@))]
  ELSE IF o.truncated THEN o
  ELSE LET kept == Clip(frame.text, o.maxStdout - ByteLength(o.stdout))
       IN  [o EXCEPT !.stdout = @ \o kept, !.truncated = Len(kept) < Len(frame.text)]

(* collect: overflow is the collector's `truncated`.                       *)
Collecting == INSTANCE Scan WITH Step <- AddItem
Collect(o, frames) == Collecting!After(o, frames)

-----------------------------------------------------------------------------
(* Docker's side (external): text to bytes, and one write of a process to  *)
(* one frame.                                                              *)
Encode(text) == Concat([i \in 1 .. Len(text) |->
                  IF text[i] = Wide THEN <<WideLead, WideRest>> ELSE <<text[i]>>])

EncodeFrame(write) ==
  <<IF write.stream = "stdout" THEN 1 ELSE 2, Len(write.bytes)>> \o write.bytes

(* What was written to each stream, and the text of it, decoded at once.   *)
Written(f, write) == [f EXCEPT ![write.stream] = @ \o write.bytes]
Writing == INSTANCE Scan WITH Step <- Written
WrittenBytes(writes) == Writing!After([s \in Stream |-> <<>>], writes)

WrittenTo(writes, stream) ==
  LET all == Decode(FALSE, WrittenBytes(writes)[stream])
  IN  all.text \o IF all.lead THEN <<Replacement>> ELSE <<>>
=============================================================================
