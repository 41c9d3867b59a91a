----------------------------- MODULE StatsChannel -----------------------------
(***************************************************************************)
(* The observer's `stats:<container>` channel (stats.channel.ts) for one   *)
(* container: one upstream shared by its listeners, a history that         *)
(* outlives them, a throttle that keeps the latest sample, and the retry   *)
(* of an upstream that ended; and its two kinds of listener: the pages     *)
(* that draw the samples (observer-state.ts) and the status channel, which *)
(* copies the latest one onto the container's row (status.channel.ts,      *)
(* overlay).                                                               *)
(*                                                                         *)
(* A sample is the moment it was taken.  A pump is one call of `pump`, so  *)
(* that one which was aborted may end after the next was opened.           *)
(***************************************************************************)
EXTENDS Integers, Sequences, SequencesExt

CONSTANTS
  Page,          \* dashboard pages
  Overlay,       \* the status channel's own listener
  History,       \* StatsChannelOptions.historyMs, in ticks
  HistoryPoints, \* StatsChannelOptions.historyPoints
  MaxRing,       \* MAX_RING
  Fresh,         \* StatsChannelOptions.freshMs, in ticks
  MaxKept,       \* MAX_STATS_SAMPLES
  MaxPumps,      \* bound: upstreams opened
  MaxTime        \* bound: ticks of the clock

ASSUME StatsAssumption ==
  /\ Overlay \notin Page
  /\ MaxPumps \in Nat /\ History \in Nat
  /\ HistoryPoints \in Nat \ {0} /\ MaxRing \in Nat \ {0} /\ MaxKept \in Nat \ {0}

VARIABLES
  clock,
  alive,         \* the container runs
  pumps,         \* each pump: "none", "running", "aborted" or "ended"
  stats,         \* StatsEntry; an empty one is the same as none
  kept,          \* ObserverData.stats of each page
  row            \* the row last published for the container, if it is watched

statsVars == <<clock, alive, pumps, stats, kept, row>>

Unwatched == [watched |-> FALSE, running |-> FALSE, usage |-> 0]

InitStats ==
  /\ clock = 0
  /\ alive = TRUE
  /\ pumps = [p \in 1 .. MaxPumps |-> "none"]
  /\ stats = [ring |-> <<>>, listeners |-> {}, controller |-> 0, pending |-> 0,
              flush |-> FALSE, retry |-> FALSE]
  /\ kept = [l \in Page |-> <<>>]
  /\ row = Unwatched

-----------------------------------------------------------------------------
(* Helpers *)

LastN(s, n) == SubSeq(s, (IF Len(s) > n THEN Len(s) - n ELSE 0) + 1, Len(s))

(* trim: the samples that are too old, and those beyond MAX_RING, go.      *)
Expired(ring, now) == Min({n \in 0 .. Len(ring) : n = Len(ring) \/ ring[n + 1] >= now - History})
Trim(ring, now) == LastN(SubSeq(ring, Expired(ring, now) + 1, Len(ring)), MaxRing)

(* latest, withUsage *)
Latest(ring) ==
  IF ring # <<>> /\ clock - Last(ring) <= Fresh THEN Last(ring) ELSE 0

(* The samples taken after a moment.                                       *)
Newer(samples, at) ==
  LET Upto[n \in 0 .. Len(samples)] ==
        IF n = 0 THEN <<>>
        ELSE IF samples[n] > at THEN Append(Upto[n - 1], samples[n]) ELSE Upto[n - 1]
  IN  Upto[Len(samples)]

(* reduceServerMessage: samples already kept are skipped.                  *)
ReduceStats(known, samples) ==
  LastN(known \o (IF known = <<>> THEN samples ELSE Newer(samples, Last(known))), MaxKept)

Sent(listeners, samples) ==
  [l \in Page |-> IF l \in listeners THEN ReduceStats(kept[l], samples) ELSE kept[l]]

(* open; pumps are numbered in the order they are opened.                  *)
NextPump(p) == pumps[p] = "none" /\ \A q \in 1 .. p - 1 : pumps[q] # "none"
Opened(entry, p) == [entry EXCEPT !.controller = p]

(* stop: the upstream is aborted, timers and what waits for them go.       *)
StoppedEntry(entry) == [entry EXCEPT !.controller = 0, !.pending = 0, !.flush = FALSE, !.retry = FALSE]
Abort == [p \in DOMAIN pumps |-> IF p = stats.controller THEN "aborted" ELSE pumps[p]]

-----------------------------------------------------------------------------
(* Listeners *)

(* subscribe, the entry's part: a new upstream unless one is open or due.  *)
TakeUp(l, p) ==
  LET joined == [stats EXCEPT !.ring = Trim(@, clock), !.listeners = @ \cup {l}]
  IN  IF stats.controller = 0 /\ ~stats.retry
      THEN /\ NextPump(p)
           /\ stats' = Opened(joined, p)
           /\ pumps' = [pumps EXCEPT ![p] = "running"]
      ELSE stats' = joined /\ UNCHANGED pumps

(* detach: the last listener stops the upstream.                           *)
LetGo(l) ==
  LET left == [stats EXCEPT !.listeners = @ \ {l}]
  IN  IF left.listeners = {}
      THEN stats' = StoppedEntry(left) /\ pumps' = Abort
      ELSE stats' = left /\ UNCHANGED pumps

PageOpens(l, p) ==
  /\ l \notin stats.listeners
  /\ TakeUp(l, p)
  /\ kept' = Sent({l}, LastN(Trim(stats.ring, clock), HistoryPoints))
  /\ UNCHANGED <<clock, alive, row>>

PageLeaves(l) ==
  /\ l \in stats.listeners
  /\ LetGo(l)
  /\ UNCHANGED <<clock, alive, kept, row>>

(* refresh of the status channel: overlay attaches to a container that     *)
(* runs, lets go of one that does not, and copies the latest sample.       *)
StatusLoads(p) ==
  /\ IF alive /\ Overlay \notin stats.listeners THEN TakeUp(Overlay, p)
     ELSE IF ~alive /\ Overlay \in stats.listeners THEN LetGo(Overlay)
     ELSE UNCHANGED <<stats, pumps>>
  /\ row' = [watched |-> TRUE, running |-> alive,
             usage |-> IF alive THEN Latest(stats'.ring) ELSE 0]
  /\ UNCHANGED <<clock, alive, kept>>

(* stop of the status channel: the last page of the project left.          *)
StatusLeaves ==
  /\ row.watched
  /\ row' = Unwatched
  /\ IF Overlay \in stats.listeners THEN LetGo(Overlay) ELSE UNCHANGED <<stats, pumps>>
  /\ UNCHANGED <<clock, alive, kept>>

-----------------------------------------------------------------------------
(* The upstream *)

(* offer: sent now, or kept for the timer in place of an earlier one.      *)
Offer(entry, at) ==
  IF entry.flush
  THEN stats' = [entry EXCEPT !.pending = at] /\ UNCHANGED kept
  ELSE stats' = [entry EXCEPT !.flush = TRUE] /\ kept' = Sent(entry.listeners, <<at>>)

(* pump: a sample of an open upstream.                                     *)
Sample(p) ==
  /\ pumps[p] = "running" /\ alive
  /\ clock < MaxTime
  /\ clock' = clock + 1
  /\ Offer([stats EXCEPT !.ring = Trim(Append(@, clock'), clock')], clock')
  /\ UNCHANGED <<alive, pumps, row>>

(* The timer of offer.                                                     *)
Flush ==
  /\ stats.flush
  /\ IF stats.pending = 0 \/ stats.listeners = {}
     THEN stats' = [stats EXCEPT !.pending = 0, !.flush = FALSE] /\ UNCHANGED kept
     ELSE /\ stats' = [stats EXCEPT !.pending = 0]
          /\ kept' = Sent(stats.listeners, <<stats.pending>>)
  /\ UNCHANGED <<clock, alive, pumps, row>>

(* Faulty: whichever pump ends takes the upstream away.                    *)
PumpEndsAnyhow(p) ==
  /\ pumps[p] \in {"running", "aborted"}
  /\ pumps' = [pumps EXCEPT ![p] = "ended"]
  /\ stats' = [stats EXCEPT !.controller = 0, !.retry = stats.listeners # {}]
  /\ UNCHANGED <<clock, alive, kept, row>>

(* pump, its end: the stream ended or failed, or sees that it was aborted; *)
(* one that was not is opened again after a while.                         *)
PumpEnds(p) ==
  /\ pumps[p] \in {"running", "aborted"}
  /\ pumps' = [pumps EXCEPT ![p] = "ended"]
  /\ stats' = IF stats.controller = p
              THEN [stats EXCEPT !.controller = 0, !.retry = stats.listeners # {}]
              ELSE stats
  /\ UNCHANGED <<clock, alive, kept, row>>

(* The retry timer.                                                        *)
Retry(p) ==
  /\ stats.retry /\ NextPump(p)
  /\ stats' = Opened([stats EXCEPT !.retry = FALSE], p)
  /\ pumps' = [pumps EXCEPT ![p] = "running"]
  /\ UNCHANGED <<clock, alive, kept, row>>

-----------------------------------------------------------------------------
(* The container and the clock (external) *)

Toggle ==
  /\ clock < MaxTime
  /\ clock' = clock + 1
  /\ alive' = ~alive
  /\ UNCHANGED <<pumps, stats, kept, row>>

Pass ==
  /\ clock < MaxTime
  /\ clock' = clock + 1
  /\ UNCHANGED <<alive, pumps, stats, kept, row>>

StatsNext ==
  \/ \E p \in DOMAIN pumps :
       \/ \E l \in Page : PageOpens(l, p)
       \/ StatusLoads(p)
       \/ Sample(p)
       \/ PumpEnds(p)
       \/ Retry(p)
  \/ \E l \in Page : PageLeaves(l)
  \/ StatusLeaves
  \/ Flush
  \/ Toggle
  \/ Pass

-----------------------------------------------------------------------------
(* Properties *)

LivePumps == {p \in DOMAIN pumps : pumps[p] = "running"}

OneUpstream ==
  /\ LivePumps = {stats.controller} \ {0}
  /\ (stats.listeners # {}) <=> (stats.controller # 0 \/ stats.retry)
  /\ stats.pending # 0 => stats.flush
  /\ (Overlay \in stats.listeners) <=> (row.watched /\ row.running)

(* One upstream at most, and only for listeners; while there are any, it   *)
(* is open or about to be, though upstreams end on their own, are aborted  *)
(* and end later than the next one opens (subscribe, stop, pump).  The     *)
(* status channel holds on to exactly the container it last found running, *)
(* and each page draws each sample once, in order, however often it comes  *)
(* back to the history (overlay, detach, reduceServerMessage).             *)
UpstreamShared ==
  /\ OneUpstream
  /\ \A l \in Page : \A i \in 1 .. Len(kept[l]) - 1 : kept[l][i] < kept[l][i + 1]
=============================================================================
