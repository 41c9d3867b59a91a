------------------------------- MODULE OpFollow -------------------------------
(***************************************************************************)
(* How the dashboard follows an operation it started: the NDJSON response  *)
(* of `GET /api/ops/:id/events` (ops.service.ts) over the registry's       *)
(* replay buffer, followOp which reads it and opens it again once          *)
(* (op-events.ts), and trackOp which waits for the end, five minutes at    *)
(* most (track-op.tsx), with the optimistic state that useServiceActions   *)
(* shows meanwhile.                                                        *)
(*                                                                         *)
(* Events are numbered as the operation emits them; the last one is its    *)
(* terminal event.  Lost stands for the error event followOp records       *)
(* itself.  Blank heartbeat lines are skipped by the reader and left out.  *)
(***************************************************************************)
EXTENDS Integers, Sequences

CONSTANTS
  Emits,         \* bound: the longest operation, in events
  Buffer,        \* OpRegistryOptions.maxEvents
  Attempts,      \* OP_EVENTS_ATTEMPTS
  Lost,
  MaxBreaks      \* bound: responses that break off

ASSUME FollowAssumption ==
  /\ Emits \in Nat \ {0} /\ Buffer \in Nat \ {0} /\ Attempts \in Nat \ {0}
  /\ Lost \notin Nat /\ MaxBreaks \in Nat

VARIABLES
  emitted,       \* events emitted so far
  length,        \* the number of the terminal event
  retained,      \* the registry still knows the operation
  response,      \* lines of the response on their way, and whether it ended
  reader,        \* followOp: pc, attempt, already, index
  applied,       \* ObserverData.ops of the operation
  tracked,       \* trackOp: "waiting", "done" or "timeout"
  optimistic,    \* the service's entry in ObserverStore.pending
  broken         \* history: responses lost, and refusals

followVars == <<emitted, length, retained, response, reader, applied, tracked, optimistic, broken>>

NoResponse == [open |-> FALSE, lines |-> <<>>, ended |-> FALSE]

InitFollow ==
  /\ emitted = 0
  /\ length \in 1 .. Emits
  /\ retained = TRUE
  /\ response = NoResponse
  /\ reader = [pc |-> "start", attempt |-> 0, already |-> 0, index |-> 0]
  /\ applied = <<>>
  /\ tracked = "waiting"
  /\ optimistic = TRUE
  /\ broken = [breaks |-> 0, refused |-> FALSE]

Terminal(event) == event = Lost \/ event = length
HasTerminal(events) == \E i \in DOMAIN events : Terminal(events[i])

-----------------------------------------------------------------------------
(* The operation and its response *)

(* push: the events buffered are the newest ones; a response that follows  *)
(* gets the event, and ends with the terminal one.                         *)
Emit ==
  /\ emitted < length
  /\ emitted' = emitted + 1
  /\ response' = IF response.open /\ ~response.ended
                 THEN [response EXCEPT !.lines = Append(@, emitted'), !.ended = emitted' = length]
                 ELSE response
  /\ UNCHANGED <<length, retained, reader, applied, tracked, optimistic, broken>>

(* prune: a settled operation is forgotten after a while.                  *)
Expire ==
  /\ emitted = length /\ retained
  /\ retained' = FALSE
  /\ UNCHANGED <<emitted, length, response, reader, applied, tracked, optimistic, broken>>

(* OpEventsService.stream: the buffered events first.                      *)
Replay ==
  LET first == IF emitted > Buffer THEN emitted - Buffer ELSE 0
  IN  [open |-> TRUE, lines |-> [i \in 1 .. emitted - first |-> first + i], ended |-> emitted = length]

-----------------------------------------------------------------------------
(* followOp *)

TrackerLeft == tracked # "waiting"
To(pc) == [reader EXCEPT !.pc = pc]

(* finish: check runs within the store's update, and takes the follower    *)
(* away; useServiceActions then clears what it showed.                     *)
ApplyAll(events) ==
  /\ applied' = events
  /\ tracked' = IF tracked = "waiting" /\ HasTerminal(events) THEN "done" ELSE tracked
  /\ UNCHANGED optimistic

KeepApplied == UNCHANGED <<applied, tracked, optimistic>>

(* Faulty: what the store already holds is not counted.                    *)
AskFromZero ==
  /\ reader.pc = "start" /\ reader.attempt < Attempts
  /\ reader' = [reader EXCEPT !.pc = "asked", !.already = 0, !.index = 0]
  /\ KeepApplied
  /\ UNCHANGED <<emitted, length, retained, response, broken>>

(* An attempt begins: what the store holds is counted before the request.  *)
Ask ==
  /\ reader.pc = "start" /\ reader.attempt < Attempts
  /\ reader' = [reader EXCEPT !.pc = "asked", !.already = Len(applied), !.index = 0]
  /\ KeepApplied
  /\ UNCHANGED <<emitted, length, retained, response, broken>>

(* The request is answered: 404, another refusal, or the stream.           *)
Answered(refused) ==
  /\ reader.pc = "asked" /\ ~TrackerLeft
  /\ IF refused \/ ~retained
     THEN /\ reader' = To("give up")
          /\ broken' = [broken EXCEPT !.refused = TRUE]
          /\ UNCHANGED response
     ELSE /\ reader' = To("reading")
          /\ response' = Replay
          /\ UNCHANGED broken
  /\ KeepApplied
  /\ UNCHANGED <<emitted, length, retained>>

(* A chunk of whole lines: those already applied are skipped; after the    *)
(* terminal event the reader is cancelled.                                 *)
ReadChunk(n) ==
  LET taken == SubSeq(response.lines, 1, n)
      skip == IF reader.already > reader.index THEN reader.already - reader.index ELSE 0
      after == applied \o SubSeq(taken, skip + 1, n)
  IN  /\ reader.pc = "reading" /\ ~TrackerLeft
      /\ n \in 1 .. Len(response.lines)
      /\ ApplyAll(after)
      /\ IF HasTerminal(after)
         THEN reader' = To("ended") /\ response' = NoResponse
         ELSE /\ reader' = [reader EXCEPT !.index = @ + n]
              /\ response' = [response EXCEPT !.lines = SubSeq(@, n + 1, Len(@))]
      /\ UNCHANGED <<emitted, length, retained, broken>>

NextAttempt ==
  /\ reader' = [reader EXCEPT !.pc = "start", !.attempt = @ + 1]
  /\ response' = NoResponse

(* The response ends and nothing that settles was in it.                   *)
EndOfResponse ==
  /\ reader.pc = "reading" /\ ~TrackerLeft
  /\ response.lines = <<>> /\ response.ended
  /\ NextAttempt
  /\ KeepApplied
  /\ UNCHANGED <<emitted, length, retained, broken>>

(* The request fails or the response breaks off.                           *)
BreakOff ==
  /\ reader.pc \in {"asked", "reading"} /\ ~TrackerLeft
  /\ broken.breaks < MaxBreaks
  /\ broken' = [broken EXCEPT !.breaks = @ + 1]
  /\ NextAttempt
  /\ KeepApplied
  /\ UNCHANGED <<emitted, length, retained>>

(* After the last attempt, or a refusal, the failure is recorded.          *)
GiveUp ==
  /\ \/ reader.pc = "give up"
     \/ reader.pc = "start" /\ reader.attempt = Attempts
  /\ ~TrackerLeft
  /\ reader' = To("ended")
  /\ ApplyAll(Append(applied, Lost))
  /\ UNCHANGED <<emitted, length, retained, response, broken>>

(* The signal was aborted: nothing is recorded.                            *)
Aborted ==
  /\ reader.pc # "ended" /\ TrackerLeft
  /\ reader' = To("ended")
  /\ response' = NoResponse
  /\ KeepApplied
  /\ UNCHANGED <<emitted, length, retained, broken>>

-----------------------------------------------------------------------------
(* trackOp and useServiceActions *)

(* The timer of five minutes.                                              *)
TrackTimeout ==
  /\ tracked = "waiting"
  /\ tracked' = "timeout"
  /\ UNCHANGED <<emitted, length, retained, response, reader, applied, optimistic, broken>>

(* The promise resolves once the queries have been fetched again; the      *)
(* finally block clears the optimistic state.                              *)
ClearPending ==
  /\ TrackerLeft /\ optimistic
  /\ optimistic' = FALSE
  /\ UNCHANGED <<emitted, length, retained, response, reader, applied, tracked, broken>>

FollowNext ==
  \/ Emit
  \/ Expire
  \/ Ask
  \/ \E refused \in BOOLEAN : Answered(refused)
  \/ \E n \in 1 .. Emits : ReadChunk(n)
  \/ EndOfResponse
  \/ BreakOff
  \/ GiveUp
  \/ Aborted
  \/ TrackTimeout
  \/ ClearPending

-----------------------------------------------------------------------------
(* Properties *)

(* A dropped connection is reopened once, and the server replays the       *)
(* operation's events: the page says that it lost the operation only when  *)
(* it was refused or the connection broke on every attempt (followOp).     *)
ReopenedFollows ==
  (\E i \in DOMAIN applied : applied[i] = Lost) => broken.refused \/ broken.breaks >= Attempts

(* The page applies the operation's events once, in order and without a    *)
(* gap, whatever broke off in the middle of a chunk and was replayed; its  *)
(* own error comes last and only when the operation's end did not arrive.  *)
FollowedTruly ==
  /\ \A i \in DOMAIN applied : applied[i] = i \/ (applied[i] = Lost /\ i = Len(applied))
  /\ \A i, k \in DOMAIN applied : applied[i] = Lost => applied[k] # length
  /\ ReopenedFollows
=============================================================================
