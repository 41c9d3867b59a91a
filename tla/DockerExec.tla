----------------------------- MODULE DockerExec -----------------------------
(***************************************************************************)
(* One run of a command in a container: DockerContainerExec.run            *)
(* (container-exec.ts), with the upgraded connection of hijack.ts when it  *)
(* has stdin, the exec that the daemon keeps, and the process.             *)
(*                                                                         *)
(* client    how far run() came, why it was stopped, what it read          *)
(* link      the connection of POST /exec/{id}/start: SocketWriter's       *)
(*           pending bytes, what the daemon received of them, the daemon's *)
(*           answer, and the output in flight or in ChunkQueue             *)
(* exec      the daemon's exec and its process                             *)
(* alive     the container runs                                            *)
(***************************************************************************)
EXTENDS DockerFrames

CONSTANTS
  Jobs,       \* commands: [stdin, writes, exit, cap, stop]
  NoStdin,    \* options.stdin is undefined
  StderrCap   \* EXEC_STDERR_MAX_BYTES

ASSUME JobsAssumption ==
  /\ StderrCap \in Nat
  /\ \A j \in Jobs :
       /\ j.writes \in Seq([stream : Stream, bytes : Seq(Nat)])
       /\ j.exit \in Nat /\ j.cap \in Nat

VARIABLES job, client, link, exec, alive

execVars == <<job, client, link, exec, alive>>

Request == <<0>>      \* the bytes of the start request
HasStdin == job.stdin # NoStdin

NewClient == [at |-> "idle", reason |-> "none", started |-> FALSE,
              demux |-> NewDemuxer, output |-> NewOutput(job.cap, StderrCap), result |-> [kind |-> "none"]]

(* phase: none, connecting, open, closed; lost, when the connection ended  *)
(* without an error, or broken, with one.                                  *)
NewLink == [phase |-> "none", pending |-> <<>>, received |-> <<>>, queued |-> FALSE, eof |-> FALSE,
            answer |-> "none", wire |-> <<>>, ended |-> FALSE]

(* state: absent, created, running, ending, exited or killed.              *)
NewExec == [state |-> "absent", written |-> 0, stdin |-> <<>>, code |-> 0]

InitExec ==
  /\ job \in Jobs
  /\ client = NewClient /\ link = NewLink /\ exec = NewExec
  /\ alive \in BOOLEAN

ExecActive == client.at \in {"locate", "create", "start", "opening", "read", "code"}
ExecEnded == client.reason # "none"

Killed == [kind |-> "result", exit |-> -1, output |-> client.output,
           timedOut |-> client.reason \in {"timeout", "abort"}]
Thrown(code) == [kind |-> "error", code |-> code]

(* The `finally` of run: the connection is closed, and a process that was  *)
(* started and stopped is killed.                                          *)
Finish(result) ==
  /\ client' = [client EXCEPT !.result = result,
                  !.at = IF ExecEnded /\ client.started THEN "kill" ELSE "done"]
  /\ link' = [link EXCEPT !.phase = IF @ = "open" THEN "closed" ELSE @]

-----------------------------------------------------------------------------
(* The timer or the caller's signal: `reason ??= why` and the abort.       *)
Interrupt(why) ==
  /\ ExecActive /\ why \in job.stop /\ ~ExecEnded
  /\ client' = [client EXCEPT !.reason = why]
  /\ UNCHANGED <<job, link, exec, alive>>

(* #create: the request waits for the socket and the version first, which  *)
(* take neither the signal nor a time-out; a stop counts when they are     *)
(* there.                                                                  *)
Located ==
  /\ client.at = "locate"
  /\ IF ExecEnded THEN Finish(Killed) ELSE client' = [client EXCEPT !.at = "create"] /\ UNCHANGED link
  /\ UNCHANGED <<job, exec, alive>>

(* No socket, or no answer to GET /version: a typed failure, so it is      *)
(* thrown even after a stop.                                               *)
LocateFails ==
  /\ client.at \in {"locate", "start"}
  /\ Finish(Thrown("DOCKER_UNREACHABLE"))
  /\ UNCHANGED <<job, exec, alive>>

(* 409 for a container that does not run, typed too.                       *)
CreateRefused ==
  /\ client.at = "create" /\ exec.state = "absent" /\ ~alive
  /\ Finish(Thrown("SERVICE_NOT_RUNNING"))
  /\ UNCHANGED <<job, exec, alive>>

DaemonCreates ==
  /\ client.at = "create" /\ exec.state = "absent" /\ alive
  /\ exec' = [exec EXCEPT !.state = "created"]
  /\ UNCHANGED <<job, client, link, alive>>

Created ==
  /\ client.at = "create" /\ exec.state = "created" /\ ~ExecEnded
  /\ client' = [client EXCEPT !.at = "start", !.started = TRUE]
  /\ UNCHANGED <<job, link, exec, alive>>

(* The request fails; or its answer is cut, by a stop too, and has no id.  *)
CreateFails ==
  /\ client.at = "create"
  /\ \/ ~ExecEnded /\ Finish(Thrown("DOCKER_UNREACHABLE"))
     \/ exec.state = "created" /\ Finish(Thrown("UNKNOWN"))
  /\ UNCHANGED <<job, exec, alive>>

CreateStopped ==
  /\ client.at = "create" /\ ExecEnded
  /\ Finish(Killed)
  /\ UNCHANGED <<job, exec, alive>>

-----------------------------------------------------------------------------
(* #start, once the socket and the version are there again: fetch sends    *)
(* the request; with stdin the hijacker connects first, and sends it then. *)
StartExec ==
  /\ client.at = "start" /\ ~ExecEnded
  /\ client' = [client EXCEPT !.at = "opening"]
  /\ link' = IF HasStdin THEN [link EXCEPT !.phase = "connecting"]
             ELSE [link EXCEPT !.phase = "open", !.pending = Request]
  /\ UNCHANGED <<job, exec, alive>>

StartStopped ==
  /\ client.at = "start" /\ ExecEnded
  /\ Finish(Killed)
  /\ UNCHANGED <<job, exec, alive>>

(* Bun.connect resolves.  An abort meanwhile found no socket to close: it  *)
(* stays open, and the request goes out all the same.                      *)
Connected ==
  /\ link.phase = "connecting"
  /\ link' = [link EXCEPT !.phase = "open", !.pending = Request]
  /\ client' = IF ExecEnded THEN [client EXCEPT !.result = Killed, !.at = "kill"] ELSE client
  /\ UNCHANGED <<job, exec, alive>>

ConnectFails ==
  /\ link.phase = "connecting"
  /\ client' = [client EXCEPT !.result = Thrown("DOCKER_UNREACHABLE"),
                   !.at = IF ExecEnded THEN "kill" ELSE "done"]
  /\ link' = [link EXCEPT !.phase = "closed"]
  /\ UNCHANGED <<job, exec, alive>>

(* SocketWriter.drain: the socket takes some of what is pending.           *)
Flush(n) ==
  /\ link.phase = "open" /\ ~link.eof /\ n \in 1 .. Len(link.pending)
  /\ link' = [link EXCEPT !.received = @ \o SubSeq(link.pending, 1, n),
                          !.pending = SubSeq(@, n + 1, Len(@))]
  /\ UNCHANGED <<job, client, exec, alive>>

(* Faulty: the write side is closed behind what the socket took at once.   *)
ShutdownEarly ==
  /\ link.phase = "open" /\ link.queued /\ HasStdin /\ ~link.eof
  /\ link' = [link EXCEPT !.eof = TRUE]
  /\ UNCHANGED <<job, client, exec, alive>>

(* The write of stdin is complete: sock.shutdown().                        *)
Shutdown ==
  /\ link.phase = "open" /\ link.queued /\ HasStdin /\ ~link.eof /\ link.pending = <<>>
  /\ link' = [link EXCEPT !.eof = TRUE]
  /\ UNCHANGED <<job, client, exec, alive>>

(* onUpgraded, and the answer to fetch: stdin is written behind the        *)
(* request, also when run() no longer waits.                               *)
Upgraded ==
  /\ link.phase = "open" /\ link.answer = "upgraded" /\ ~link.queued
  /\ client.at = "opening" => ~ExecEnded
  /\ link' = [link EXCEPT !.queued = TRUE, !.pending = IF HasStdin THEN @ \o job.stdin ELSE @]
  /\ client' = [client EXCEPT !.at = IF @ = "opening" THEN "read" ELSE @]
  /\ UNCHANGED <<job, exec, alive>>

(* finishError, execApiError.                                              *)
StartRefused ==
  /\ link.phase = "open" /\ link.answer = "refused" /\ client.at = "opening"
  /\ Finish(Thrown("SERVICE_NOT_RUNNING"))
  /\ UNCHANGED <<job, exec, alive>>

(* An abort rejects the opening and closes the connection, unless that is  *)
(* still being made: nothing stops Bun.connect.                            *)
OpenStopped ==
  /\ client.at = "opening" /\ ExecEnded /\ link.phase # "connecting"
  /\ Finish(Killed)
  /\ UNCHANGED <<job, exec, alive>>

(* The connection ends early, without an error or with one; what was on    *)
(* its way may be lost from anywhere on.                                   *)
LinkLost ==
  /\ link.phase = "open"
  /\ \E phase \in {"lost", "broken"}, n \in 0 .. Len(link.wire) :
       link' = [link EXCEPT !.phase = phase, !.wire = SubSeq(@, 1, n)]
  /\ UNCHANGED <<job, client, exec, alive>>

OpenFails ==
  /\ client.at = "opening" /\ link.phase \in {"lost", "broken"} /\ ~ExecEnded
  /\ Finish(Thrown("DOCKER_UNREACHABLE"))
  /\ UNCHANGED <<job, exec, alive>>

-----------------------------------------------------------------------------
(* The output loop.                                                        *)

(* Faulty: an overflow ends the loop without a reason.                     *)
ReadUncut(n) ==
  /\ client.at = "read" /\ n \in 1 .. Len(link.wire)
  /\ LET demux == Push(client.demux, SubSeq(link.wire, 1, n))
         output == Collect(client.output, demux.frames)
     IN  client' = [client EXCEPT !.demux = demux, !.output = output,
                      !.at = IF output.truncated THEN "code" ELSE @]
  /\ link' = [link EXCEPT !.wire = SubSeq(@, n + 1, Len(@))]
  /\ UNCHANGED <<job, exec, alive>>

(* A chunk that fills the cap stops the run, as an earlier stop does.      *)
Read(n) ==
  /\ client.at = "read" /\ n \in 1 .. Len(link.wire)
  /\ LET demux == Push(client.demux, SubSeq(link.wire, 1, n))
         output == Collect(client.output, demux.frames)
         reason == IF output.truncated /\ ~ExecEnded THEN "cap" ELSE client.reason
         read == [client EXCEPT !.demux = demux, !.output = output, !.reason = reason]
     IN  /\ client' = IF reason = "none" THEN read
                      ELSE [read EXCEPT !.at = "kill",
                              !.result = [Killed EXCEPT !.output = output, !.timedOut = reason # "cap"]]
         /\ link' = [link EXCEPT !.wire = SubSeq(@, n + 1, Len(@)),
                       !.phase = IF reason # "none" /\ @ = "open" THEN "closed" ELSE @]
  /\ UNCHANGED <<job, exec, alive>>

(* The output ends; a connection that ended early looks the same.          *)
ReadEnd ==
  /\ client.at = "read" /\ ~ExecEnded /\ link.wire = <<>> /\ link.phase # "broken"
  /\ link.ended \/ link.phase = "lost"
  /\ client' = [client EXCEPT !.at = "code",
                  !.output = Collect(@, FlushedFrames(client.demux))]
  /\ link' = [link EXCEPT !.phase = IF @ = "open" THEN "closed" ELSE @]
  /\ UNCHANGED <<job, exec, alive>>

(* Faulty: a stop is noticed only when output arrives.                     *)
ReadStoppedByOutput ==
  /\ client.at = "read" /\ ExecEnded /\ link.wire # <<>>
  /\ Finish(Killed)
  /\ UNCHANGED <<job, exec, alive>>

ReadStopped ==
  /\ client.at = "read" /\ ExecEnded
  /\ Finish(Killed)
  /\ UNCHANGED <<job, exec, alive>>

(* The stream fails: the hijacker's own error, or whatever fetch threw.    *)
ReadFails ==
  /\ client.at = "read" /\ ~ExecEnded /\ link.wire = <<>> /\ link.phase = "broken"
  /\ Finish(Thrown(IF HasStdin THEN "DOCKER_UNREACHABLE" ELSE "UNKNOWN"))
  /\ UNCHANGED <<job, exec, alive>>

(* #exitCode: polled until the exec has ended, for exitWaitMs.  The timer  *)
(* still runs, and may have the process killed, but not the result changed. *)
ExitCode ==
  /\ client.at = "code"
  /\ Finish([kind |-> "result", output |-> client.output, timedOut |-> FALSE,
             exit |-> IF exec.state \in {"exited", "killed"} THEN exec.code ELSE -1])
  /\ UNCHANGED <<job, exec, alive>>

ExitUnknown ==
  /\ client.at = "code"
  /\ Finish(Thrown("DOCKER_UNREACHABLE"))
  /\ UNCHANGED <<job, exec, alive>>

(* #kill: the script of a second exec kills what carries the tag.  It may  *)
(* fail, and it finds no process that has not started yet.                 *)
KillExec ==
  /\ client.at = "kill"
  /\ client' = [client EXCEPT !.at = "done"]
  /\ \/ UNCHANGED <<exec, link>>
     \/ /\ alive /\ exec.state \in {"running", "ending"}
        /\ exec' = [exec EXCEPT !.state = "killed", !.code = 137]
        /\ UNCHANGED link
  /\ UNCHANGED <<job, alive>>

-----------------------------------------------------------------------------
(* The daemon and the process (external).                                  *)

DaemonStarts ==
  /\ exec.state = "created" /\ link.received # <<>> /\ link.answer = "none"
  /\ IF alive
     THEN exec' = [exec EXCEPT !.state = "running"] /\ link' = [link EXCEPT !.answer = "upgraded"]
     ELSE UNCHANGED exec /\ link' = [link EXCEPT !.answer = "refused"]
  /\ UNCHANGED <<job, client, alive>>

(* A command with stdin reads it to the end before it answers; the end is  *)
(* the half-closed connection, or the closed one.                          *)
StdinEnds ==
  /\ exec.state = "running" /\ HasStdin /\ exec.written = 0
  /\ link.eof \/ link.phase \in {"closed", "lost", "broken"}
  /\ exec' = [exec EXCEPT !.stdin = Tail(link.received), !.written = 1]
  /\ UNCHANGED <<job, client, link, alive>>

Writes == IF HasStdin THEN exec.written - 1 ELSE exec.written

ProcessWrites ==
  /\ exec.state = "running" /\ Writes \in 0 .. Len(job.writes) - 1
  /\ exec' = [exec EXCEPT !.written = @ + 1]
  /\ link' = IF link.phase = "open" THEN [link EXCEPT !.wire = @ \o EncodeFrame(job.writes[Writes + 1])] ELSE link
  /\ UNCHANGED <<job, client, alive>>

OutputEnds ==
  /\ exec.state = "running" /\ Writes = Len(job.writes)
  /\ exec' = [exec EXCEPT !.state = "ending"]
  /\ link' = [link EXCEPT !.ended = @ \/ link.phase = "open"]
  /\ UNCHANGED <<job, client, alive>>

ProcessExits ==
  /\ exec.state = "ending"
  /\ exec' = [exec EXCEPT !.state = "exited", !.code = job.exit]
  /\ UNCHANGED <<job, client, link, alive>>

ContainerStops ==
  /\ alive
  /\ alive' = FALSE
  /\ IF exec.state \in {"running", "ending"}
     THEN exec' = [exec EXCEPT !.state = "killed", !.code = 137] /\ link' = [link EXCEPT !.ended = @ \/ link.phase = "open"]
     ELSE UNCHANGED <<exec, link>>
  /\ UNCHANGED <<job, client>>

(* What ends a run whether or not the daemon answers and the process ends. *)
Deadline == Interrupt("timeout") \/ CreateStopped \/ OpenStopped \/ ReadStopped

(* What has no signal and no time-out of its own: locating the daemon, for *)
(* the kill too, connecting, and the poll of the exit code.                *)
Unstoppable == client.at \in {"locate", "start", "code", "kill"} \/ link.phase = "connecting"

ExecNext ==
  \/ \E why \in {"timeout", "abort"} : Interrupt(why)
  \/ Located \/ LocateFails
  \/ CreateRefused \/ DaemonCreates \/ Created \/ CreateFails \/ CreateStopped
  \/ StartExec \/ StartStopped \/ Connected \/ ConnectFails \/ Shutdown \/ Upgraded
  \/ \E n \in 1 .. Len(link.pending) : Flush(n)
  \/ StartRefused \/ OpenStopped \/ LinkLost \/ OpenFails
  \/ \E n \in 1 .. Len(link.wire) : Read(n)
  \/ ReadEnd \/ ReadStopped \/ ReadFails \/ ExitCode \/ ExitUnknown \/ KillExec
  \/ DaemonStarts \/ StdinEnds \/ ProcessWrites \/ OutputEnds \/ ProcessExits \/ ContainerStops

-----------------------------------------------------------------------------
Returned == client.at \in {"done", "told"} /\ client.result.kind = "result"
Stdout == client.result.output.stdout

(* What run returns agrees with what the process did, wherever the output  *)
(* was cut into frames and chunks and whenever the run was stopped: stdout *)
(* is what the process wrote, within the cap, and cut only if it says so,  *)
(* the run was stopped or the connection lost.  With an exit code of the   *)
(* process it is whole, but for the mark of half a character at the end    *)
(* that the cap leaves no room for: the demuxer's last frames stop nothing *)
(* any more.  The code does not tell a connection that ended early from    *)
(* the end of the output, so then stdout is a beginning of what was        *)
(* written, as after a kill, with the mark of half a character behind it.  *)
ResultAgrees ==
  Returned =>
    LET all == WrittenTo(job.writes, "stdout")
        output == client.result.output
        exit == client.result.exit
    IN  /\ \/ IsPrefix(Stdout, all)
           \/ /\ exec.state = "killed" \/ link.phase = "lost"
              /\ \E n \in 0 .. Len(all) : Stdout = Append(SubSeq(all, 1, n), Replacement)
        /\ ByteLength(Stdout) <= job.cap
        /\ output.truncated => Len(Stdout) < Len(all)
        /\ exit = 0 => exec.state = "exited" /\ job.exit = 0
        /\ exit >= 0 /\ exec.state = "exited" /\ link.phase # "lost" =>
             Stdout = all \/ (output.truncated /\ all = Append(Stdout, Replacement))

(* The deadline: a run that began returns, whatever the daemon and the     *)
(* process do or do not, unless it waits for good for an answer that it    *)
(* cannot stop waiting for.                                                *)
ReturnsInTime ==
  <>[]Unstoppable \/ (client.at = "locate" ~> client.at \in {"done", "told"})

=============================================================================
