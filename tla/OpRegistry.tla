----------------------------- MODULE OpRegistry -----------------------------
(***************************************************************************)
(* The server's registry of long-running operations (op-registry.ts):      *)
(* per-project lanes built as promise chains, the event buffer of every    *)
(* operation with its replay and live listeners, retention and eviction,   *)
(* the operation journal, and the HTTP streams that follow an operation    *)
(* (ops.service.ts).                                                       *)
(*                                                                         *)
(* A job is one call of `start` (kind "op") or of `exclusive` (kind        *)
(* "direct").  JavaScript runs one callback at a time, so an action is the *)
(* code between two awaits.                                                *)
(***************************************************************************)
EXTENDS Integers, Sequences, FiniteSets

CONSTANTS
    MaxJobs,     \* bound: calls of start and exclusive
    Projects,
    Clients,     \* followers of an operation's event stream
    NoProject,
    Capacity,    \* OpRegistryOptions.capacity
    Retention,   \* OpRegistryOptions.retentionMs, in ticks
    MaxEvents,   \* OpRegistryOptions.maxEvents
    MaxSteps,    \* bound: events an operation pushes before it ends
    MaxTime      \* bound: ticks of the clock

ASSUME BoundsAssumption ==
    /\ MaxJobs \in Nat
    /\ Capacity \in Nat \ {0}
    /\ Retention \in Nat
    /\ MaxEvents \in Nat \ {0}
    /\ MaxSteps \in Nat
    /\ MaxTime \in Nat

ASSUME NullAssumption == NoProject \notin Projects

(* Fresh ids, in start order: also the insertion order of the `ops` map. *)
Jobs == 1..MaxJobs
NoJob == 0

VARIABLES
    clock,       \* now()
    started,     \* jobs handed in so far
    kind,        \* "op" or "direct"
    project,     \* the lane of a job, or NoProject
    pc,          \* where the job's chain stands
    after,       \* the job whose tail promise this one is chained to
    tail,        \* lanes: the job whose promise is a project's tail
    kept,        \* keys of the `ops` map
    state,       \* OpRecord.state, "none" before start
    finishedAt,  \* OpRecord.finishedAt
    events,      \* OpRecord.events, by kind
    pushed,      \* history: every event ever pushed
    listeners,   \* OpRecord.listeners
    row,         \* the journal row
    owed,        \* finish writes that are scheduled
    client       \* followers: [op, phase, got]

laneVars   == <<started, kind, project, pc, after, tail>>
recordVars == <<state, finishedAt, events, pushed, listeners, owed, client>>
vars == <<clock, laneVars, kept, recordVars, row>>

EventKinds == {"wait", "step", "done", "error"}
Terminal == {"done", "error"}
Finished(j) == state[j] \in Terminal

Init ==
    /\ clock = 0
    /\ started = 0
    /\ kind = [j \in Jobs |-> "op"]
    /\ project = [j \in Jobs |-> NoProject]
    /\ pc = [j \in Jobs |-> "new"]
    /\ after = [j \in Jobs |-> NoJob]
    /\ tail = [p \in Projects |-> NoJob]
    /\ kept = {}
    /\ state = [j \in Jobs |-> "none"]
    /\ finishedAt = [j \in Jobs |-> 0]
    /\ events = [j \in Jobs |-> << >>]
    /\ pushed = [j \in Jobs |-> << >>]
    /\ listeners = [j \in Jobs |-> {}]
    /\ row = [j \in Jobs |-> "none"]
    /\ owed = {}
    /\ client = [c \in Clients |-> [op |-> NoJob, phase |-> "idle", got |-> << >>]]

-----------------------------------------------------------------------------
(* Helpers *)

Expired == {j \in kept : Finished(j) /\ finishedAt[j] < clock - Retention}

(* The oldest finished operations beyond the limit. *)
Evicted(fresh, reserve) ==
    LET excess == Cardinality(fresh) - (Capacity - reserve)
        Rank(j) == Cardinality({k \in fresh : Finished(k) /\ k <= j})
    IN  {j \in fresh : Finished(j) /\ Rank(j) <= excess}

Pruned(reserve) ==
    LET fresh == kept \ Expired IN fresh \ Evicted(fresh, reserve)

(* Faulty: one event too few fits the buffer. *)
KeepFewer(s) == IF Len(s) >= MaxEvents THEN Tail(s) ELSE s

KeepNewest(s) == IF Len(s) > MaxEvents THEN Tail(s) ELSE s

(* One NDJSON line per event; the response ends with the terminal one. *)
Deliver(cl, e) ==
    IF cl.phase # "following" THEN cl
    ELSE [cl EXCEPT !.got = Append(@, e),
                    !.phase = IF e \in Terminal THEN "ended" ELSE @]

JournaledOp(j) == kind[j] = "op" /\ project[j] # NoProject

(* What push does to an operation that has not settled. *)
PushAlways(j, e) ==
    /\ pushed' = [pushed EXCEPT ![j] = Append(@, e)]
    /\ events' = [events EXCEPT ![j] = KeepNewest(Append(@, e))]
    /\ client' = [c \in Clients |->
           IF c \in listeners[j] THEN Deliver(client[c], e) ELSE client[c]]
    /\ IF e \in Terminal
       THEN /\ state' = [state EXCEPT ![j] = e]
            /\ finishedAt' = [finishedAt EXCEPT ![j] = clock]
            /\ listeners' = [listeners EXCEPT ![j] = {}]
            /\ owed' = IF JournaledOp(j) THEN owed \cup {j} ELSE owed
       ELSE UNCHANGED <<state, finishedAt, listeners, owed>>

(* push: nothing happens once the operation settled. *)
Push(j, e) ==
    IF state[j] = "running" THEN PushAlways(j, e) ELSE UNCHANGED recordVars

-----------------------------------------------------------------------------
(* Handing work in *)

(* Faulty: direct work waits for the lane but does not become its tail. *)
ChainBeside(j, p, k) ==
    /\ j = started + 1
    /\ started' = j
    /\ kind' = [kind EXCEPT ![j] = k]
    /\ project' = [project EXCEPT ![j] = p]
    /\ pc' = [pc EXCEPT ![j] = IF p = NoProject THEN "streaming" ELSE "queued"]
    /\ after' = IF p = NoProject THEN after ELSE [after EXCEPT ![j] = tail[p]]
    /\ tail' = IF p = NoProject \/ k = "direct" THEN tail ELSE [tail EXCEPT ![p] = j]

(* Chains job j to the tail of its lane and makes it the tail. *)
Chain(j, p, k) ==
    /\ j = started + 1
    /\ started' = j
    /\ kind' = [kind EXCEPT ![j] = k]
    /\ project' = [project EXCEPT ![j] = p]
    /\ IF p = NoProject
       THEN /\ pc' = [pc EXCEPT ![j] = "streaming"]
            /\ UNCHANGED <<after, tail>>
       ELSE /\ pc' = [pc EXCEPT ![j] = "queued"]
            /\ after' = [after EXCEPT ![j] = tail[p]]
            /\ tail' = [tail EXCEPT ![p] = j]

(* start: prune for one slot, record, chain; a queued op says it waits. *)
Start(j, p) ==
    /\ Chain(j, p, "op")
    /\ kept' = Pruned(1) \cup {j}
    /\ state' = [state EXCEPT ![j] = "running"]
    /\ LET said == IF p # NoProject /\ tail[p] # NoJob THEN <<"wait">> ELSE << >>
       IN  /\ events' = [events EXCEPT ![j] = said]
           /\ pushed' = [pushed EXCEPT ![j] = said]
    /\ UNCHANGED <<clock, finishedAt, listeners, owed, client, row>>

(* exclusive: the same chain, no record and no journal row. *)
Exclusive(j, p) ==
    /\ p # NoProject
    /\ Chain(j, p, "direct")
    /\ UNCHANGED <<clock, kept, recordVars, row>>

-----------------------------------------------------------------------------
(* One job's turn *)

SetPc(j, to) ==
    /\ pc' = [pc EXCEPT ![j] = to]
    /\ UNCHANGED <<started, kind, project, after, tail>>

(* The promise of the job before this one resolved, and its own reaction
   (Unhook, registered first) has run. *)
Ready(j) == after[j] # NoJob => pc[after[j]] = "unhooked"

Begin(j) ==
    /\ pc[j] = "queued"
    /\ Ready(j)
    /\ SetPc(j, IF kind[j] = "op" THEN "journaling" ELSE "working")
    /\ UNCHANGED <<clock, kept, recordVars, row>>

(* journal.start settles; a failed write is swallowed. *)
JournalStart(j) ==
    /\ pc[j] = "journaling"
    /\ SetPc(j, "streaming")
    /\ row' \in {row, [row EXCEPT ![j] = "running"]}
    /\ UNCHANGED <<clock, kept, recordVars>>

(* The op's stream yields; a terminal event breaks the loop, which closes the
   generator before consume returns. *)
Yield(j, e) ==
    /\ pc[j] = "streaming"
    /\ e = "step" => Len(pushed[j]) < MaxSteps
    /\ Push(j, e)
    /\ SetPc(j, IF e \in Terminal THEN "closing" ELSE "streaming")
    /\ UNCHANGED <<clock, kept, row>>

(* The stream throws, or its clean-up does after a terminal event. *)
Throw(j) ==
    /\ pc[j] \in {"streaming", "closing"}
    /\ Push(j, "error")
    /\ SetPc(j, "returned")
    /\ UNCHANGED <<clock, kept, row>>

(* Faulty: a stream without a terminal event leaves its operation running. *)
EndSilently(j) ==
    /\ pc[j] \in {"streaming", "closing"}
    /\ SetPc(j, "returned")
    /\ UNCHANGED <<clock, kept, recordVars, row>>

(* The stream ends, with or without a terminal event of its own. *)
EndStream(j) ==
    /\ pc[j] \in {"streaming", "closing"}
    /\ Push(j, "done")
    /\ SetPc(j, "returned")
    /\ UNCHANGED <<clock, kept, row>>

(* Direct work resolves or rejects; the lane goes on either way. *)
EndDirect(j) ==
    /\ pc[j] = "working"
    /\ SetPc(j, "returned")
    /\ UNCHANGED <<clock, kept, recordVars, row>>

(* Faulty: the lane is dropped although another job has joined it. *)
UnhookAlways(j) ==
    /\ pc[j] = "returned"
    /\ project[j] # NoProject
    /\ pc' = [pc EXCEPT ![j] = "unhooked"]
    /\ tail' = [tail EXCEPT ![project[j]] = NoJob]
    /\ UNCHANGED <<clock, started, kind, project, after, kept, recordVars, row>>

(* tail.then: the lane is dropped if nothing joined behind this job. *)
Unhook(j) ==
    /\ pc[j] = "returned"
    /\ project[j] # NoProject
    /\ pc' = [pc EXCEPT ![j] = "unhooked"]
    /\ tail' = [p \in Projects |-> IF tail[p] = j THEN NoJob ELSE tail[p]]
    /\ UNCHANGED <<clock, started, kind, project, after, kept, recordVars, row>>

(* The scheduled finish write settles: an update of the row, if there is one. *)
JournalFinish(j) ==
    /\ j \in owed
    /\ owed' = owed \ {j}
    /\ \/ UNCHANGED row
       \/ /\ row[j] # "none"
          /\ row' = [row EXCEPT ![j] = IF state[j] = "error" THEN "failed" ELSE "succeeded"]
    /\ UNCHANGED <<clock, laneVars, kept, state, finishedAt, events, pushed, listeners, client>>

-----------------------------------------------------------------------------
(* Following and pruning *)

(* GET /api/ops/:id/events: 404 when the id is gone, else replay and listen. *)
Follow(c, j) ==
    /\ client[c].phase = "idle"
    /\ j <= started
    /\ kept' = Pruned(0)
    /\ IF j \notin kept'
       THEN /\ client' = [client EXCEPT ![c] = [op |-> j, phase |-> "missing", got |-> << >>]]
            /\ UNCHANGED listeners
       ELSE /\ client' = [client EXCEPT ![c] =
                  [op |-> j, got |-> events[j],
                   phase |-> IF Finished(j) THEN "ended" ELSE "following"]]
            /\ listeners' = IF state[j] = "running"
                            THEN [listeners EXCEPT ![j] = @ \cup {c}] ELSE listeners
    /\ UNCHANGED <<clock, laneVars, state, finishedAt, events, pushed, owed, row>>

(* The reader goes away: cancel unsubscribes. *)
Leave(c) ==
    /\ client[c].phase = "following"
    /\ client' = [client EXCEPT ![c].phase = "left"]
    /\ listeners' = [listeners EXCEPT ![client[c].op] = @ \ {c}]
    /\ UNCHANGED <<clock, laneVars, kept, state, finishedAt, events, pushed, owed, row>>

(* get and list prune what they no longer show. *)
Look ==
    /\ kept' = Pruned(0)
    /\ UNCHANGED <<clock, laneVars, recordVars, row>>

Tick ==
    /\ clock < MaxTime
    /\ clock' = clock + 1
    /\ UNCHANGED <<laneVars, kept, recordVars, row>>

-----------------------------------------------------------------------------
(* A job's own steps: the code runs on until it settles. *)
JobStep(j) ==
    \/ Begin(j)
    \/ JournalStart(j)
    \/ \E e \in {"step", "done", "error"} : Yield(j, e)
    \/ Throw(j)
    \/ EndStream(j)
    \/ EndDirect(j)
    \/ Unhook(j)

Next ==
    \/ \E j \in Jobs :
        \/ \E p \in Projects \cup {NoProject} : Start(j, p) \/ Exclusive(j, p)
        \/ JobStep(j)
        \/ JournalFinish(j)
        \/ \E c \in Clients : Follow(c, j)
    \/ \E c \in Clients : Leave(c)
    \/ Look
    \/ Tick

Spec == Init /\ [][Next]_vars

(* Promise reactions always run, and every handler's stream ends: a stream
   takes at most MaxSteps steps, so fairness of the job is enough. *)
FairSpec == Spec /\ \A j \in Jobs : WF_vars(JobStep(j))

-----------------------------------------------------------------------------
(* Properties *)

ClientType ==
    [op : Jobs \cup {NoJob}, got : Seq(EventKinds),
     phase : {"idle", "following", "ended", "missing", "left"}]

LaneTypeOK ==
    /\ started \in 0..MaxJobs
    /\ kind \in [Jobs -> {"op", "direct"}]
    /\ project \in [Jobs -> Projects \cup {NoProject}]
    /\ pc \in [Jobs -> {"new", "queued", "journaling", "streaming", "working",
                        "closing", "returned", "unhooked"}]
    /\ after \in [Jobs -> Jobs \cup {NoJob}]
    /\ tail \in [Projects -> Jobs \cup {NoJob}]

RecordTypeOK ==
    /\ clock \in Nat
    /\ kept \in SUBSET Jobs
    /\ state \in [Jobs -> {"none", "running", "done", "error"}]
    /\ finishedAt \in [Jobs -> Nat]
    /\ events \in [Jobs -> Seq(EventKinds)]
    /\ pushed \in [Jobs -> Seq(EventKinds)]
    /\ listeners \in [Jobs -> SUBSET Clients]
    /\ row \in [Jobs -> {"none", "running", "succeeded", "failed"}]
    /\ owed \in SUBSET Jobs
    /\ client \in [Clients -> ClientType]

(* The registry's variables keep their types, and only a running operation has
   live listeners: one that settled never holds a subscriber (subscribe, push). *)
TypeOK ==
    /\ LaneTypeOK
    /\ RecordTypeOK
    /\ \A j \in Jobs : listeners[j] # {} => state[j] = "running"

Over(j) == pc[j] \in {"returned", "unhooked"}
Begun(j) == pc[j] \in {"journaling", "streaming", "working", "closing"} \/ Over(j)
InLane(j) == j <= started /\ project[j] # NoProject

(* Work on one project never overlaps and never overtakes: whatever has begun
   finds every earlier job of its project over, clean-up of its generator
   included, although the chain only knows its tail and a settled tail is
   dropped in a callback of its own (OpRegistry.start, exclusive). *)
LaneExclusive ==
    \A j, k \in Jobs :
        (InLane(j) /\ InLane(k) /\ project[j] = project[k] /\ j < k)
            => (Begun(k) => Over(j))

(* An operation settles with exactly one terminal event, the last one it ever
   pushes, and what the journal says of it afterwards agrees with the event,
   even when a generator throws in its clean-up (push, journalFinish). *)
OutcomeAgrees ==
    \A j \in Jobs :
        /\ \A i \in 1..Len(pushed[j]) : pushed[j][i] \in Terminal => i = Len(pushed[j])
        /\ Finished(j) => pushed[j] # << >> /\ pushed[j][Len(pushed[j])] = state[j]
        /\ row[j] = "succeeded" => state[j] = "done"
        /\ row[j] = "failed" => state[j] = "error"

(* Every operation has one outcome, and a follower reads the operation's events in order, without a gap or a
   repetition between the replay and the live ones, up to the moment: all of
   them, or the newest ones when the buffer had to drop some; and its stream
   ends exactly with the terminal event (subscribe, OpEventsService.stream). *)
StreamComplete ==
    /\ OutcomeAgrees
    /\ \A c \in Clients :
        LET cl == client[c] IN
        cl.phase \in {"following", "ended"} =>
            LET all == pushed[cl.op]
                n == Len(cl.got)
            IN  /\ n >= (IF Len(all) < MaxEvents THEN Len(all) ELSE MaxEvents)
                /\ n <= Len(all)
                /\ cl.got = SubSeq(all, Len(all) - n + 1, Len(all))
                /\ cl.phase = "ended" <=> Finished(cl.op)

(* A follower is told the end or goes away, whatever happens to the record in
   the map meanwhile (push: listeners hear the event before they are cleared). *)
FollowersTold ==
    \A c \in Clients :
        (client[c].phase = "following") ~> (client[c].phase \in {"ended", "left"})

(* Every operation that was accepted settles, however many queue in its lane
   and however the ones before it end, and everyone who follows it is told
   (consume: a throw or a missing terminal event still settles it). *)
EverySettles ==
    /\ \A j \in Jobs : (state[j] = "running") ~> Finished(j)
    /\ FollowersTold

(* The lane as a queue: the jobs of a project that are not over, oldest first. *)
Waiting(p) == {j \in Jobs : InLane(j) /\ project[j] = p /\ ~Over(j)}
LaneQueue(p) ==
    [i \in 1..Cardinality(Waiting(p)) |->
        CHOOSE j \in Waiting(p) :
            Cardinality({k \in Waiting(p) : k <= j}) = i]

Lane == INSTANCE ProjectLane WITH
    queue <- [p \in Projects |-> LaneQueue(p)],
    busy <- {p \in Projects : \E j \in Waiting(p) : Begun(j)}

(* The promise chain implements the first-in-first-out lane. *)
LaneImplemented == Lane!Spec

(* docs/api.md: a finished operation is replayed until 60 s after its terminal
   event.  The registry evicts by capacity too, whatever the age. *)
ReplayableForRetention ==
    \A j \in Jobs :
        (Finished(j) /\ clock - finishedAt[j] <= Retention) => j \in kept
=============================================================================
