----------------------------- MODULE LogStream -----------------------------
(***************************************************************************)
(* The observer's `logs:<container>` channel: one shared upstream with its *)
(* batch timer and history buffer (logs.channel.ts), one backpressure gate *)
(* per socket (backpressure.ts), and the hub that subscribes, drains and   *)
(* drops sockets (observer.service.ts).                                    *)
(*                                                                         *)
(* Log lines are numbered in the order the container writes them; the      *)
(* socket of Bun is modelled by how full its send buffer is.               *)
(***************************************************************************)
EXTENDS Integers, Sequences

CONSTANTS
    Sockets,
    Tails,         \* history sizes a client may ask for
    BufferLines,   \* LogsChannelOptions.bufferLines
    MaxLines       \* bound: lines the container writes

ASSUME BoundsAssumption ==
    /\ Tails \subseteq Nat
    /\ BufferLines \in Nat \ {0}
    /\ MaxLines \in Nat

VARIABLES
    written,       \* lines the container wrote
    stopped,       \* the container stopped: its log ends after `written`
    upstream,      \* LogsEntry of the container, or Closed
    sock           \* per socket: subscription, gate, send buffer, what arrived

logsVars == <<written, stopped, upstream, sock>>

(* low: messages are sent at once; high: they are queued, which pauses a gate;
   full: above Bun's limit they are dropped.  A message queued just below the
   threshold is one queued at "high" whose buffer then shrinks. *)
Rank(level) == CASE level = "low" -> 0 [] level = "high" -> 1 [] level = "full" -> 2

Closed == [open |-> FALSE, cursor |-> 0, listeners |-> {}, buffer |-> << >>,
           pending |-> << >>, timer |-> FALSE]

(* A subscription with a new LogGate. *)
NewGate(sk, phase, from) ==
    [sk EXCEPT !.phase = phase, !.paused = FALSE, !.skipped = 0,
               !.pendingEnd = FALSE, !.got = << >>, !.from = from]

InitLogs ==
    /\ written = 0
    /\ stopped = FALSE
    /\ upstream = Closed
    /\ sock = [s \in Sockets |->
           [phase |-> "none", paused |-> FALSE, skipped |-> 0, pendingEnd |-> FALSE,
            level |-> "low", due |-> FALSE, got |-> << >>, from |-> 0]]

-----------------------------------------------------------------------------
(* LogGate *)

Line(n) == [what |-> "line", n |-> n]
Skip(n) == [what |-> "skip", n |-> n]
End     == [what |-> "end", n |-> 0]
Failure == [what |-> "error", n |-> 0]

(* What a client reads out of one `log` message. *)
Payload(lines, ended, skipped) ==
    (IF skipped > 0 THEN <<Skip(skipped)>> ELSE << >>)
        \o [i \in 1..Len(lines) |-> Line(lines[i])]
        \o (IF ended THEN <<End>> ELSE << >>)

(* write: a dropped message is counted, a queued one pauses the gate. *)
Write(sk, lines, ended, skipped) ==
    IF sk.level = "full"
    THEN [sk EXCEPT !.paused = TRUE, !.skipped = @ + Len(lines) + skipped,
                    !.pendingEnd = @ \/ ended]
    ELSE [sk EXCEPT !.got = @ \o Payload(lines, ended, skipped),
                    !.paused = sk.level # "low"]

(* resume: below the threshold the gate reports what it skipped. *)
Resume(sk) ==
    IF ~sk.paused \/ sk.level \in {"high", "full"} THEN sk
    ELSE LET opened == [sk EXCEPT !.paused = FALSE, !.skipped = 0, !.pendingEnd = FALSE]
         IN  IF sk.skipped > 0 \/ sk.pendingEnd
             THEN Write(opened, << >>, sk.pendingEnd, sk.skipped)
             ELSE opened

(* Faulty: a paused gate counts lines but not the end of the stream. *)
DeliverEndless(sk, lines, ended) ==
    LET r == Resume(sk)
    IN  IF r.paused THEN [r EXCEPT !.skipped = @ + Len(lines)]
        ELSE Write(r, lines, ended, 0)

(* deliver: a batch found while paused resumes the gate or is counted. *)
Deliver(sk, lines, ended) ==
    LET r == IF sk.paused THEN Resume(sk) ELSE sk
    IN  IF r.paused
        THEN [r EXCEPT !.skipped = @ + Len(lines), !.pendingEnd = @ \/ ended]
        ELSE Write(r, lines, ended, 0)

-----------------------------------------------------------------------------
(* LogsChannel *)

Newest(s, n) == SubSeq(s, (IF n < Len(s) THEN Len(s) - n ELSE 0) + 1, Len(s))

(* flush: nothing is sent when nothing is pending. *)
Flushed(listeners) ==
    [s \in Sockets |-> IF s \in listeners /\ upstream.pending # << >>
                       THEN Deliver(sock[s], upstream.pending, FALSE) ELSE sock[s]]

(* detach: the last listener's leaving aborts the upstream. *)
Detached(s) ==
    IF upstream.listeners \subseteq {s} THEN Closed
    ELSE [upstream EXCEPT !.listeners = @ \ {s}]

(* A later listener: current ones first get what is pending, so that the
   newcomer finds it in its tail and nowhere else. *)
Join(s, tail) ==
    LET history == Newest(upstream.buffer, tail)
        flushed == Flushed(upstream.listeners \ {s})
    IN  /\ upstream' = [Detached(s) EXCEPT !.pending = << >>, !.timer = FALSE,
                                           !.listeners = @ \cup {s}]
        /\ sock' = [flushed EXCEPT ![s] =
               Deliver(NewGate(sock[s], "live", upstream.cursor - Len(history)), history, FALSE)]

(* The first listener opens the upstream at its own tail. *)
OpenUpstream(s, tail) ==
    LET at == IF tail < written THEN written - tail ELSE 0
    IN  /\ upstream' = [Closed EXCEPT !.open = TRUE, !.cursor = at, !.listeners = {s}]
        /\ sock' = [sock EXCEPT ![s] = NewGate(@, "live", at)]

(* message(subscribe): an earlier subscription of the socket ends first. *)
SubscribeLogs(s, tail) ==
    /\ IF Detached(s).open THEN Join(s, tail) ELSE OpenUpstream(s, tail)
    /\ UNCHANGED <<written, stopped>>

(* message(unsubscribe), or the socket closes. *)
UnsubscribeLogs(s) ==
    /\ sock[s].phase # "none"
    /\ upstream' = Detached(s)
    /\ sock' = [sock EXCEPT ![s] = NewGate(@, "none", 0)]
    /\ UNCHANGED <<written, stopped>>

(* pump: a line goes to the history and the pending batch, and arms the timer. *)
Pump ==
    /\ upstream.open
    /\ upstream.cursor < written
    /\ LET line == upstream.cursor + 1
       IN  upstream' = [upstream EXCEPT
               !.cursor = line,
               !.buffer = Newest(Append(@, line), BufferLines),
               !.pending = Append(@, line),
               !.timer = TRUE]
    /\ UNCHANGED <<written, stopped, sock>>

(* The batch timer fires. *)
FlushTimer ==
    /\ upstream.timer
    /\ sock' = Flushed(upstream.listeners)
    /\ upstream' = [upstream EXCEPT !.pending = << >>, !.timer = FALSE]
    /\ UNCHANGED <<written, stopped>>

(* The container stopped: the last batch carries the end, the entry goes. *)
StreamEnds ==
    /\ upstream.open
    /\ stopped
    /\ upstream.cursor = written
    /\ sock' = [s \in Sockets |-> IF s \in upstream.listeners
           THEN [Deliver(sock[s], upstream.pending, TRUE) EXCEPT !.phase = "ended"]
           ELSE sock[s]]
    /\ upstream' = Closed
    /\ UNCHANGED <<written, stopped>>

(* The upstream fails: what is pending goes out, then the error, which no gate
   holds back. *)
StreamFails ==
    /\ upstream.open
    /\ LET flushed == Flushed(upstream.listeners)
           Told(sk) == IF sk.level = "full" THEN sk.got ELSE Append(sk.got, Failure)
       IN  sock' = [s \in Sockets |-> IF s \in upstream.listeners
               THEN [flushed[s] EXCEPT !.phase = "failed", !.got = Told(flushed[s])]
               ELSE sock[s]]
    /\ upstream' = Closed
    /\ UNCHANGED <<written, stopped>>

-----------------------------------------------------------------------------
(* The socket and the container (external) *)

(* Other channels' messages or a slow network fill the send buffer. *)
Congest(s) ==
    /\ \E l \in {"high", "full"} :
        /\ Rank(l) > Rank(sock[s].level)
        /\ sock' = [sock EXCEPT ![s].level = l]
    /\ UNCHANGED <<written, stopped, upstream>>

(* The network takes some of it; Bun will call drain. *)
Shrink(s, l) ==
    /\ Rank(l) < Rank(sock[s].level)
    /\ sock' = [sock EXCEPT ![s].level = l, ![s].due = TRUE]
    /\ UNCHANGED <<written, stopped, upstream>>

(* drain: resume the socket's gate, which lives as long as its subscription. *)
OnDrain(s) ==
    /\ sock[s].due
    /\ sock' = [sock EXCEPT ![s] =
           [(IF @.phase = "none" THEN @ ELSE Resume(@)) EXCEPT !.due = FALSE]]
    /\ UNCHANGED <<written, stopped, upstream>>

ContainerPrints ==
    /\ ~stopped
    /\ written < MaxLines
    /\ written' = written + 1
    /\ UNCHANGED <<stopped, upstream, sock>>

ContainerExits ==
    /\ ~stopped
    /\ stopped' = TRUE
    /\ UNCHANGED <<written, upstream, sock>>

LogsNext ==
    \/ \E s \in Sockets :
        \/ \E tail \in Tails : SubscribeLogs(s, tail)
        \/ UnsubscribeLogs(s)
        \/ Congest(s)
        \/ \E l \in {"low", "high"} : Shrink(s, l)
        \/ OnDrain(s)
    \/ Pump
    \/ FlushTimer
    \/ StreamEnds
    \/ StreamFails
    \/ ContainerPrints
    \/ ContainerExits

-----------------------------------------------------------------------------
(* Properties *)

Live(s) == sock[s].phase = "live"

(* What a client can count: lines it read and lines it was told it missed. *)
Weight(item) == CASE item.what = "line" -> 1 [] item.what = "skip" -> item.n [] OTHER -> 0
CountUpTo(items) ==
    LET count[i \in 0..Len(items)] == IF i = 0 THEN 0 ELSE count[i - 1] + Weight(items[i])
    IN  count
Counted(items) == CountUpTo(items)[Len(items)]

(* The upstream is open exactly while someone listens, its batch waits for a
   timer, and a gate that holds something back is paused, so that a drain or
   the next batch brings it out. *)
UpstreamInUse ==
    /\ upstream.listeners = {s \in Sockets : Live(s)}
    /\ upstream.open <=> upstream.listeners # {}
    /\ upstream.timer <=> upstream.pending # << >>
    /\ \A s \in Sockets : sock[s].skipped > 0 \/ sock[s].pendingEnd => sock[s].paused

(* Each line a client reads is the one its count of read and skipped lines
   says, and what it has not counted is in the batch or in its gate's count. *)
LinesCounted ==
    \A s \in Sockets :
        LET sk == sock[s] IN
        sk.phase # "none" =>
            /\ \A i \in 1..Len(sk.got) : sk.got[i].what = "line" =>
                sk.got[i].n = sk.from + CountUpTo(sk.got)[i]
            /\ Live(s) => sk.from + Counted(sk.got) + sk.skipped + Len(upstream.pending)
                            = upstream.cursor
            /\ sk.phase = "ended" => sk.from + Counted(sk.got) + sk.skipped = written

(* The end is the last thing a client hears, and only once it can account for
   every line of the container. *)
EndIsLast ==
    \A s \in Sockets : LET sk == sock[s] IN
        \A i \in 1..Len(sk.got) : sk.got[i] = End =>
            i = Len(sk.got) /\ stopped /\ sk.from + Counted(sk.got) = written

(* A socket that stays subscribed to a container that stopped is told the end,
   however congested it was when the last batch came: until then its paused
   gate holds the end, and its buffer is not low or a drain is due, which
   brings it out, for no batch will (pendingEnd, drain). *)
EndNotStranded ==
    \A s \in Sockets : LET sk == sock[s] IN
        sk.phase = "ended" =>
            \/ \E i \in 1..Len(sk.got) : sk.got[i] = End
            \/ sk.pendingEnd /\ sk.paused /\ (sk.level # "low" \/ sk.due)

(* No line of a container is lost, repeated or moved without the client being
   able to tell, though it joined between batches or was congested, and the end
   follows them all and is told (subscribe, flush, deliver, write, resume). *)
EveryLineAccounted == UpstreamInUse /\ LinesCounted /\ EndIsLast /\ EndNotStranded
=============================================================================
