-------------------------- MODULE OpRegistryProofs --------------------------
(***************************************************************************)
(* The registry's types and the exclusion of its lanes, for any number of  *)
(* jobs, projects, followers and any capacity, retention and buffer.       *)
(***************************************************************************)
EXTENDS OpRegistry, SequenceTheorems, FiniteSetTheorems, TLAPS

-----------------------------------------------------------------------------
(* Type correctness *)

(* The part of TypeOK a push may change. *)
PushTypeOK ==
    /\ state \in [Jobs -> {"none", "running", "done", "error"}]
    /\ finishedAt \in [Jobs -> Nat]
    /\ events \in [Jobs -> Seq(EventKinds)]
    /\ pushed \in [Jobs -> Seq(EventKinds)]
    /\ listeners \in [Jobs -> SUBSET Clients]
    /\ owed \in SUBSET Jobs
    /\ client \in [Clients -> ClientType]
    /\ \A j \in Jobs : listeners[j] # {} => state[j] = "running"

(* Dropping the oldest event leaves a sequence of events. *)
LEMMA KeepNewestType ==
    ASSUME NEW s \in Seq(EventKinds), NEW e \in EventKinds
    PROVE  KeepNewest(Append(s, e)) \in Seq(EventKinds)
  <1>1. Append(s, e) \in Seq(EventKinds) /\ Append(s, e) # << >>
    BY AppendProperties
  <1>2. Tail(Append(s, e)) \in Seq(EventKinds)
    BY <1>1, HeadTailProperties
  <1> QED BY <1>1, <1>2 DEF KeepNewest

(* A delivered event leaves a follower well typed. *)
LEMMA DeliverType ==
    ASSUME NEW cl \in ClientType, NEW e \in EventKinds
    PROVE  Deliver(cl, e) \in ClientType
  <1>1. Append(cl.got, e) \in Seq(EventKinds)
    BY DEF ClientType
  <1> QED BY <1>1 DEF Deliver, ClientType

(* push keeps the types, and clears the listeners of what settles. *)
LEMMA PushType ==
    ASSUME TypeOK, NEW j \in Jobs, NEW e \in {"step", "done", "error"}, Push(j, e)
    PROVE  PushTypeOK'
  <1>0. e \in EventKinds /\ PushTypeOK
    BY DEF EventKinds, TypeOK, RecordTypeOK, PushTypeOK
  <1>1. CASE state[j] # "running"
    BY <1>0, <1>1 DEF Push, recordVars, PushTypeOK
  <1>2. CASE state[j] = "running"
    <2>0. PushAlways(j, e)
      BY <1>2 DEF Push
    <2>1. pushed' \in [Jobs -> Seq(EventKinds)]
      BY <1>0, <2>0 DEF PushAlways, PushTypeOK
    <2>2. events' \in [Jobs -> Seq(EventKinds)]
      BY <1>0, <2>0, KeepNewestType DEF PushAlways, PushTypeOK
    <2>3. client' \in [Clients -> ClientType]
      BY <1>0, <2>0, DeliverType DEF PushAlways, PushTypeOK
    <2>4. CASE e \in Terminal
      <3>1. /\ state' = [state EXCEPT ![j] = e]
            /\ finishedAt' = [finishedAt EXCEPT ![j] = clock]
            /\ listeners' = [listeners EXCEPT ![j] = {}]
            /\ owed' = IF JournaledOp(j) THEN owed \cup {j} ELSE owed
        BY <2>0, <2>4 DEF PushAlways
      <3>2. clock \in Nat
        BY DEF TypeOK, RecordTypeOK
      <3>3. owed' \in SUBSET Jobs
        BY <1>0, <3>1 DEF PushTypeOK
      <3>4. /\ state' \in [Jobs -> {"none", "running", "done", "error"}]
            /\ finishedAt' \in [Jobs -> Nat]
            /\ listeners' \in [Jobs -> SUBSET Clients]
            /\ \A i \in Jobs : listeners'[i] # {} => state'[i] = "running"
        BY <1>0, <2>4, <3>1, <3>2 DEF PushTypeOK, Terminal
      <3> QED BY <2>1, <2>2, <2>3, <3>3, <3>4 DEF PushTypeOK
    <2>5. CASE e \notin Terminal
      <3>1. UNCHANGED <<state, finishedAt, listeners, owed>>
        BY <2>0, <2>5 DEF PushAlways
      <3> QED BY <1>0, <2>1, <2>2, <2>3, <3>1 DEF PushTypeOK
    <2> QED BY <2>4, <2>5
  <1> QED BY <1>1, <1>2

(* A new job leaves the lanes well typed. *)
LEMMA ChainType ==
    ASSUME TypeOK, NEW j \in Jobs, NEW p \in Projects \cup {NoProject},
           NEW k \in {"op", "direct"}, Chain(j, p, k)
    PROVE  LaneTypeOK'
  <1> USE DEF TypeOK, LaneTypeOK, Chain, Jobs, NoJob
  <1>0. MaxJobs \in Nat
    BY BoundsAssumption
  <1>1. started' \in 0..MaxJobs
    BY <1>0
  <1>2. kind' \in [Jobs -> {"op", "direct"}] /\ project' \in [Jobs -> Projects \cup {NoProject}]
    OBVIOUS
  <1>3. CASE p = NoProject
    BY <1>1, <1>2, <1>3
  <1>4. CASE p # NoProject
    <2>1. p \in Projects /\ tail[p] \in Jobs \cup {NoJob}
      BY <1>4
    <2> QED BY <1>1, <1>2, <1>4, <2>1
  <1> QED BY <1>3, <1>4

(* Setting a job's program counter leaves the lanes well typed. *)
LEMMA SetPcType ==
    ASSUME TypeOK, NEW j \in Jobs,
           NEW to \in {"new", "queued", "journaling", "streaming", "working",
                       "closing", "returned", "unhooked"}, SetPc(j, to)
    PROVE  LaneTypeOK'
  BY DEF TypeOK, LaneTypeOK, SetPc

LEMMA TypeOKInit == Init => TypeOK
  <1> SUFFICES ASSUME Init PROVE TypeOK
    OBVIOUS
  <1>1. LaneTypeOK
    BY BoundsAssumption DEF Init, LaneTypeOK, NoJob, Jobs
  <1>2. << >> \in Seq(EventKinds)
    OBVIOUS
  <1>3. RecordTypeOK
    BY <1>2 DEF Init, RecordTypeOK, ClientType
  <1> QED BY <1>1, <1>3 DEF TypeOK, Init

LEMMA PrunedKeeps == \A r \in {0, 1} : Pruned(r) \subseteq kept
  BY DEF Pruned, Expired, Evicted

LEMMA TypeOKNext == TypeOK /\ [Next]_vars => TypeOK'
  <1> SUFFICES ASSUME TypeOK, [Next]_vars PROVE TypeOK'
    OBVIOUS
  <1> USE DEF TypeOK
  <1>1. ASSUME NEW j \in Jobs, NEW p \in Projects \cup {NoProject}, Start(j, p) PROVE TypeOK'
    <2>1. LaneTypeOK'
      BY <1>1, ChainType DEF Start
    <2>2. kept' \in SUBSET Jobs
      BY <1>1, PrunedKeeps DEF Start, RecordTypeOK
    <2>3. events' \in [Jobs -> Seq(EventKinds)] /\ pushed' \in [Jobs -> Seq(EventKinds)]
      <3> DEFINE said == IF p # NoProject /\ tail[p] # NoJob THEN <<"wait">> ELSE << >>
      <3>1. << >> \in Seq(EventKinds) /\ <<"wait">> \in Seq(EventKinds)
        <4>1. "wait" \in EventKinds
          BY DEF EventKinds
        <4> QED BY <4>1
      <3>2. events' = [events EXCEPT ![j] = said] /\ pushed' = [pushed EXCEPT ![j] = said]
        BY <1>1 DEF Start
      <3>3. said \in Seq(EventKinds)
        BY <3>1
      <3> HIDE DEF said
      <3> QED BY <3>2, <3>3 DEF RecordTypeOK
    <2>4. /\ state' \in [Jobs -> {"none", "running", "done", "error"}]
          /\ \A i \in Jobs : listeners'[i] # {} => state'[i] = "running"
      BY <1>1 DEF Start, RecordTypeOK
    <2> QED BY <1>1, <2>1, <2>2, <2>3, <2>4 DEF Start, RecordTypeOK
  <1>2. ASSUME NEW j \in Jobs, NEW p \in Projects \cup {NoProject}, Exclusive(j, p) PROVE TypeOK'
    <2>1. LaneTypeOK'
      BY <1>2, ChainType DEF Exclusive
    <2> QED BY <1>2, <2>1 DEF Exclusive, RecordTypeOK, recordVars
  <1>3. ASSUME NEW j \in Jobs, Begin(j) PROVE TypeOK'
    <2>1. LaneTypeOK'
      BY <1>3, SetPcType DEF Begin
    <2> QED BY <1>3, <2>1 DEF Begin, RecordTypeOK, recordVars
  <1>4. ASSUME NEW j \in Jobs, JournalStart(j) PROVE TypeOK'
    <2>1. LaneTypeOK'
      BY <1>4, SetPcType DEF JournalStart
    <2>2. row' \in [Jobs -> {"none", "running", "succeeded", "failed"}]
      BY <1>4 DEF JournalStart, RecordTypeOK
    <2> QED BY <1>4, <2>1, <2>2 DEF JournalStart, RecordTypeOK, recordVars
  <1>5. ASSUME NEW j \in Jobs, NEW e \in {"step", "done", "error"}, Yield(j, e) PROVE TypeOK'
    <2>1. LaneTypeOK'
      BY <1>5, SetPcType DEF Yield
    <2>2. PushTypeOK'
      BY <1>5, PushType DEF Yield
    <2> QED BY <1>5, <2>1, <2>2 DEF Yield, RecordTypeOK, PushTypeOK
  <1>6. ASSUME NEW j \in Jobs, Throw(j) PROVE TypeOK'
    <2>1. LaneTypeOK'
      BY <1>6, SetPcType DEF Throw
    <2>2. PushTypeOK'
      BY <1>6, PushType DEF Throw
    <2> QED BY <1>6, <2>1, <2>2 DEF Throw, RecordTypeOK, PushTypeOK
  <1>7. ASSUME NEW j \in Jobs, EndStream(j) PROVE TypeOK'
    <2>1. LaneTypeOK'
      BY <1>7, SetPcType DEF EndStream
    <2>2. PushTypeOK'
      BY <1>7, PushType DEF EndStream
    <2> QED BY <1>7, <2>1, <2>2 DEF EndStream, RecordTypeOK, PushTypeOK
  <1>8. ASSUME NEW j \in Jobs, EndDirect(j) PROVE TypeOK'
    <2>1. LaneTypeOK'
      BY <1>8, SetPcType DEF EndDirect
    <2> QED BY <1>8, <2>1 DEF EndDirect, RecordTypeOK, recordVars
  <1>9. ASSUME NEW j \in Jobs, Unhook(j) PROVE TypeOK'
    BY <1>9 DEF Unhook, LaneTypeOK, RecordTypeOK, recordVars
  <1>10. ASSUME NEW j \in Jobs, JournalFinish(j) PROVE TypeOK'
    <2>1. row' \in [Jobs -> {"none", "running", "succeeded", "failed"}] /\ owed' \in SUBSET Jobs
      BY <1>10 DEF JournalFinish, RecordTypeOK
    <2> QED BY <1>10, <2>1 DEF JournalFinish, LaneTypeOK, laneVars, RecordTypeOK
  <1>11. ASSUME NEW j \in Jobs, NEW c \in Clients, Follow(c, j) PROVE TypeOK'
    <2>1. kept' \in SUBSET Jobs
      BY <1>11, PrunedKeeps DEF Follow, RecordTypeOK
    <2>2. << >> \in Seq(EventKinds) /\ events[j] \in Seq(EventKinds)
      BY DEF RecordTypeOK
    <2>3. client' \in [Clients -> ClientType]
      <3>1. CASE j \notin kept'
        <4> DEFINE gone == [op |-> j, phase |-> "missing", got |-> << >>]
        <4>1. gone \in ClientType
          BY <2>2 DEF ClientType
        <4>2. client' = [client EXCEPT ![c] = gone]
          BY <1>11, <3>1 DEF Follow
        <4> QED BY <4>1, <4>2 DEF RecordTypeOK
      <3>2. CASE j \in kept'
        <4> DEFINE replayed == [op |-> j, got |-> events[j],
                                phase |-> IF Finished(j) THEN "ended" ELSE "following"]
        <4>1. replayed \in ClientType
          BY <2>2 DEF ClientType
        <4>2. client' = [client EXCEPT ![c] = replayed]
          BY <1>11, <3>2 DEF Follow
        <4> QED BY <4>1, <4>2 DEF RecordTypeOK
      <3> QED BY <3>1, <3>2
    <2>4. /\ listeners' \in [Jobs -> SUBSET Clients]
          /\ \A i \in Jobs : listeners'[i] # {} => state'[i] = "running"
      <3>1. CASE listeners' = listeners
        BY <1>11, <3>1 DEF Follow, RecordTypeOK
      <3>2. CASE state[j] = "running" /\ listeners' = [listeners EXCEPT ![j] = @ \cup {c}]
        BY <1>11, <3>2 DEF Follow, RecordTypeOK
      <3> QED BY <1>11, <3>1, <3>2 DEF Follow
    <2> QED BY <1>11, <2>1, <2>3, <2>4 DEF Follow, LaneTypeOK, laneVars, RecordTypeOK
  <1>12. ASSUME NEW c \in Clients, Leave(c) PROVE TypeOK'
    <2>1. client' \in [Clients -> ClientType]
      <3> DEFINE left == [client[c] EXCEPT !.phase = "left"]
      <3>1. client \in [Clients -> ClientType] /\ client[c] \in ClientType
        BY DEF RecordTypeOK
      <3>2. left \in ClientType
        <4> DEFINE O == Jobs \cup {NoJob}
                   G == Seq(EventKinds)
                   P == {"idle", "following", "ended", "missing", "left"}
        <4>1. client[c] \in [op : O, got : G, phase : P] /\ "left" \in P
          BY <3>1 DEF ClientType
        <4>2. ClientType = [op : O, got : G, phase : P]
          BY DEF ClientType
        <4> HIDE DEF O, G, P
        <4> QED BY <4>1, <4>2
      <3>3. client' = [client EXCEPT ![c] = left]
        BY <1>12 DEF Leave
      <3> HIDE DEF left
      <3> QED BY <3>1, <3>2, <3>3
    <2>2. /\ listeners' \in [Jobs -> SUBSET Clients]
          /\ \A i \in Jobs : listeners'[i] # {} => state'[i] = "running"
      BY <1>12 DEF Leave, RecordTypeOK
    <2> QED BY <1>12, <2>1, <2>2 DEF Leave, LaneTypeOK, laneVars, RecordTypeOK
  <1>13. CASE Look
    BY <1>13, PrunedKeeps DEF Look, LaneTypeOK, laneVars, RecordTypeOK, recordVars
  <1>14. CASE Tick
    BY <1>14 DEF Tick, LaneTypeOK, laneVars, RecordTypeOK, recordVars
  <1>15. CASE UNCHANGED vars
    BY <1>15 DEF vars, LaneTypeOK, laneVars, RecordTypeOK, recordVars
  <1> QED BY <1>1, <1>2, <1>3, <1>4, <1>5, <1>6, <1>7, <1>8, <1>9, <1>10, <1>11,
             <1>12, <1>13, <1>14, <1>15 DEF Next, JobStep

(* The registry's variables keep their types and a settled operation holds no
   listener. *)
THEOREM TypeCorrect == Spec => []TypeOK
  BY TypeOKInit, TypeOKNext, PTL DEF Spec

-----------------------------------------------------------------------------
(* Lane exclusion *)

(* A job is new exactly until it is handed in, and a lane's tail is one of its
   own jobs. *)
HandedIn ==
    /\ \A j \in Jobs : j <= started <=> pc[j] # "new"
    /\ \A p \in Projects : tail[p] # NoJob => InLane(tail[p]) /\ project[tail[p]] = p

(* The tail is the newest job of its lane; without one, every job is over. *)
TailIsNewest ==
    \A j \in Jobs : InLane(j) =>
        IF tail[project[j]] = NoJob THEN pc[j] = "unhooked" ELSE j <= tail[project[j]]

(* A job is chained to the job right before it in its lane. *)
ChainedToPrevious ==
    \A j, k \in Jobs :
        (InLane(j) /\ InLane(k) /\ project[j] = project[k] /\ j < k) =>
            IF after[k] = NoJob THEN pc[j] = "unhooked" ELSE j <= after[k]

ChainedInLane ==
    \A k \in Jobs : (InLane(k) /\ after[k] # NoJob) =>
        InLane(after[k]) /\ project[after[k]] = project[k] /\ after[k] < k

(* Whatever left the queue finds every earlier job of its lane over. *)
OthersOver ==
    \A j, k \in Jobs :
        (InLane(j) /\ InLane(k) /\ project[j] = project[k] /\ j < k) =>
            (pc[k] # "queued" => pc[j] = "unhooked")

LaneInv ==
    /\ LaneTypeOK
    /\ HandedIn
    /\ TailIsNewest
    /\ ChainedToPrevious
    /\ ChainedInLane
    /\ OthersOver

LEMMA LaneInvInit == Init => LaneInv
  <1> SUFFICES ASSUME Init PROVE LaneInv
    OBVIOUS
  <1>1. LaneTypeOK
    BY TypeOKInit DEF TypeOK
  <1>2. \A j \in Jobs : ~InLane(j)
    BY DEF Init, InLane
  <1>3. HandedIn
    BY <1>1 DEF Init, HandedIn, Jobs, LaneTypeOK
  <1> QED BY <1>1, <1>2, <1>3
          DEF LaneInv, TailIsNewest, ChainedToPrevious, ChainedInLane, OthersOver

(* Handing a job in: it joins behind the tail. *)
LEMMA LaneInvChain ==
    ASSUME LaneInv, TypeOK, NEW j \in Jobs, NEW p \in Projects \cup {NoProject},
           NEW k \in {"op", "direct"}, Chain(j, p, k)
    PROVE  LaneInv'
  <1> USE DEF LaneInv
  <1>0. /\ LaneTypeOK'
        /\ MaxJobs \in Nat
        /\ NoProject \notin Projects
    BY ChainType, BoundsAssumption, NullAssumption
  <1>1. /\ j = started + 1 /\ started' = j
        /\ project' = [project EXCEPT ![j] = p]
    BY DEF Chain
  <1>2. \A i \in Jobs : InLane(i)' <=> (InLane(i) \/ (i = j /\ p # NoProject))
    BY <1>0, <1>1 DEF InLane, LaneTypeOK, Jobs
  <1>3. \A i \in Jobs : i # j => pc'[i] = pc[i] /\ after'[i] = after[i] /\ project'[i] = project[i]
    BY DEF Chain, LaneTypeOK
  <1>4. \A i \in Jobs : InLane(i) => i < j
    BY <1>1 DEF InLane, Jobs, LaneTypeOK
  <1>5. CASE p = NoProject
    <2>1. UNCHANGED <<after, tail>> /\ pc'[j] = "streaming"
      BY <1>5 DEF Chain, LaneTypeOK
    <2>2. \A i \in Jobs : InLane(i)' <=> InLane(i)
      BY <1>2, <1>5
    <2>3. HandedIn'
      BY <1>0, <1>1, <1>3, <1>4, <2>1, <2>2 DEF HandedIn, Jobs, LaneTypeOK, InLane
    <2> QED BY <1>0, <1>3, <1>4, <2>1, <2>2, <2>3
            DEF TailIsNewest, ChainedToPrevious, ChainedInLane, OthersOver, LaneTypeOK, Jobs, NoJob
  <1>6. CASE p # NoProject
    <2>1. /\ after' = [after EXCEPT ![j] = tail[p]]
          /\ tail' = [tail EXCEPT ![p] = j]
          /\ pc' = [pc EXCEPT ![j] = "queued"]
          /\ p \in Projects
      BY <1>6 DEF Chain
    <2>2. /\ InLane(j)' /\ project'[j] = p /\ pc'[j] = "queued"
          /\ after'[j] = tail[p] /\ tail'[p] = j
      BY <1>1, <1>2, <1>6, <2>1 DEF LaneTypeOK
    <2>3. HandedIn'
      BY <1>0, <1>1, <1>2, <1>3, <1>4, <2>1, <2>2 DEF HandedIn, Jobs, LaneTypeOK
    <2>4. TailIsNewest'
      BY <1>0, <1>2, <1>3, <1>4, <2>1, <2>2 DEF TailIsNewest, LaneTypeOK, Jobs, NoJob
    <2>5. ChainedToPrevious'
      BY <1>2, <1>3, <1>4, <2>1, <2>2 DEF ChainedToPrevious, TailIsNewest, LaneTypeOK, Jobs, NoJob
    <2>6. ChainedInLane'
      BY <1>2, <1>3, <1>4, <2>1, <2>2 DEF ChainedInLane, HandedIn, LaneTypeOK, Jobs, NoJob
    <2>7. OthersOver'
      BY <1>2, <1>3, <1>4, <2>1, <2>2 DEF OthersOver, Jobs
    <2> QED BY <1>0, <2>3, <2>4, <2>5, <2>6, <2>7
  <1> QED BY <1>5, <1>6

(* A job's progress: it leaves the queue only when the jobs before it are over,
   and is over for good. *)
LEMMA LaneInvSetPc ==
    ASSUME LaneInv, TypeOK, NEW j \in Jobs,
           NEW to \in {"queued", "journaling", "streaming", "working", "closing",
                       "returned"},
           SetPc(j, to), pc[j] \notin {"new", "unhooked"}, pc[j] = "queued" => Ready(j)
    PROVE  LaneInv'
  <1> USE DEF LaneInv
  <1>0. LaneTypeOK'
    BY SetPcType
  <1>1. /\ UNCHANGED <<started, project, after, tail>>
        /\ pc' = [pc EXCEPT ![j] = to]
    BY DEF SetPc
  <1>2. \A i \in Jobs : InLane(i)' <=> InLane(i)
    BY <1>1 DEF InLane
  <1>3. \A i \in Jobs : pc[i] = "unhooked" => pc'[i] = "unhooked"
    BY <1>1 DEF LaneTypeOK
  <1>4. HandedIn'
    BY <1>1, <1>2 DEF HandedIn, LaneTypeOK, InLane
  <1>5. TailIsNewest' /\ ChainedToPrevious' /\ ChainedInLane'
    BY <1>1, <1>3 DEF TailIsNewest, ChainedToPrevious, ChainedInLane, InLane
  <1>6. ASSUME NEW i \in Jobs, InLane(i), InLane(j), project[i] = project[j], i < j
        PROVE  pc[i] = "unhooked"
    <2>1. CASE pc[j] # "queued"
      BY <1>6, <2>1 DEF OthersOver
    <2>2. CASE pc[j] = "queued" /\ after[j] = NoJob
      BY <1>6, <2>2 DEF ChainedToPrevious
    <2>3. CASE pc[j] = "queued" /\ after[j] # NoJob
      <3>1. /\ after[j] \in Jobs /\ pc[after[j]] = "unhooked" /\ i <= after[j]
            /\ InLane(after[j]) /\ project[after[j]] = project[j]
        BY <1>6, <2>3 DEF Ready, ChainedToPrevious, ChainedInLane, LaneTypeOK
      <3>2. CASE i = after[j]
        BY <3>1, <3>2
      <3>3. CASE i < after[j]
        BY <1>6, <3>1, <3>3 DEF OthersOver
      <3> QED BY <3>1, <3>2, <3>3 DEF Jobs
    <2> QED BY <2>1, <2>2, <2>3
  <1>7. OthersOver'
    BY <1>1, <1>2, <1>3, <1>6 DEF OthersOver, LaneTypeOK
  <1> QED BY <1>0, <1>4, <1>5, <1>7

(* A settled tail is dropped: only when no job has joined behind it. *)
LEMMA LaneInvUnhook ==
    ASSUME LaneInv, NEW j \in Jobs, Unhook(j)
    PROVE  LaneInv'
  <1> USE DEF LaneInv
  <1>1. /\ UNCHANGED <<started, kind, project, after>>
        /\ pc[j] = "returned"
        /\ pc' = [pc EXCEPT ![j] = "unhooked"]
        /\ tail' = [p \in Projects |-> IF tail[p] = j THEN NoJob ELSE tail[p]]
    BY DEF Unhook
  <1>2. LaneTypeOK'
    BY <1>1 DEF LaneTypeOK
  <1>3. \A i \in Jobs : InLane(i)' <=> InLane(i)
    BY <1>1 DEF InLane
  <1>4. \A i \in Jobs : pc[i] = "unhooked" => pc'[i] = "unhooked"
    BY <1>1 DEF LaneTypeOK
  <1>5. HandedIn'
    BY <1>1, <1>3 DEF HandedIn, LaneTypeOK, InLane
  <1>6. ChainedToPrevious' /\ ChainedInLane'
    BY <1>1, <1>4 DEF ChainedToPrevious, ChainedInLane, InLane
  <1>7. OthersOver'
    BY <1>1, <1>3, <1>4 DEF OthersOver, LaneTypeOK
  <1>8. ASSUME NEW i \in Jobs, InLane(i)
        PROVE  IF tail'[project[i]] = NoJob THEN pc'[i] = "unhooked" ELSE i <= tail'[project[i]]
    <2>0. project[i] \in Projects
      BY <1>8 DEF InLane, LaneTypeOK
    <2>1. CASE tail[project[i]] # j
      BY <1>1, <1>4, <1>8, <2>0, <2>1 DEF TailIsNewest
    <2>2. CASE tail[project[i]] = j
      <3>1. i <= j /\ InLane(j) /\ project[j] = project[i]
        BY <1>8, <2>0, <2>2 DEF TailIsNewest, HandedIn, Jobs, NoJob
      <3>2. CASE i = j
        BY <1>1, <2>0, <2>2, <3>2 DEF LaneTypeOK
      <3>3. CASE i < j
        BY <1>1, <1>4, <1>8, <2>0, <2>2, <3>1, <3>3 DEF OthersOver
      <3> QED BY <3>1, <3>2, <3>3 DEF Jobs
    <2> QED BY <2>1, <2>2
  <1>9. TailIsNewest'
    BY <1>1, <1>3, <1>8 DEF TailIsNewest
  <1> QED BY <1>2, <1>5, <1>6, <1>7, <1>9

LEMMA LaneInvNext == LaneInv /\ TypeOK /\ [Next]_vars => LaneInv'
  <1> SUFFICES ASSUME LaneInv, TypeOK, [Next]_vars PROVE LaneInv'
    OBVIOUS
  <1>1. ASSUME UNCHANGED laneVars PROVE LaneInv'
    BY <1>1 DEF laneVars, LaneInv, LaneTypeOK, HandedIn, TailIsNewest, ChainedToPrevious,
                ChainedInLane, OthersOver, InLane
  <1>2. ASSUME NEW j \in Jobs, NEW p \in Projects \cup {NoProject},
               Start(j, p) \/ Exclusive(j, p)
        PROVE  LaneInv'
    BY <1>2, LaneInvChain DEF Start, Exclusive
  <1>3. ASSUME NEW j \in Jobs, JobStep(j) PROVE LaneInv'
    <2>1. CASE Begin(j)
      BY <2>1, LaneInvSetPc DEF Begin
    <2>2. CASE JournalStart(j)
      BY <2>2, LaneInvSetPc DEF JournalStart
    <2>3. ASSUME NEW e \in {"step", "done", "error"}, Yield(j, e) PROVE LaneInv'
      BY <2>3, LaneInvSetPc DEF Yield
    <2>4. CASE Throw(j)
      BY <2>4, LaneInvSetPc DEF Throw
    <2>5. CASE EndStream(j)
      BY <2>5, LaneInvSetPc DEF EndStream
    <2>6. CASE EndDirect(j)
      BY <2>6, LaneInvSetPc DEF EndDirect
    <2>7. CASE Unhook(j)
      BY <2>7, LaneInvUnhook
    <2> QED BY <1>3, <2>1, <2>2, <2>3, <2>4, <2>5, <2>6, <2>7 DEF JobStep
  <1>4. ASSUME NEW j \in Jobs, JournalFinish(j) PROVE LaneInv'
    BY <1>1, <1>4 DEF JournalFinish
  <1>5. ASSUME NEW j \in Jobs, NEW c \in Clients, Follow(c, j) PROVE LaneInv'
    BY <1>1, <1>5 DEF Follow
  <1>6. ASSUME NEW c \in Clients, Leave(c) PROVE LaneInv'
    BY <1>1, <1>6 DEF Leave
  <1>7. CASE Look \/ Tick \/ UNCHANGED vars
    BY <1>1, <1>7 DEF Look, Tick, vars
  <1> QED BY <1>2, <1>3, <1>4, <1>5, <1>6, <1>7 DEF Next

(* Work on one project never overlaps and never overtakes. *)
THEOREM LanesExclude == Spec => []LaneExclusive
  <1>1. LaneInv => LaneExclusive
    BY DEF LaneInv, OthersOver, LaneExclusive, Begun, Over, LaneTypeOK
  <1> QED BY LaneInvInit, LaneInvNext, TypeCorrect, <1>1, PTL DEF Spec

-----------------------------------------------------------------------------
(* Event streams *)

(* s is the end of t. *)
SuffixOf(s, t) ==
    /\ Len(s) <= Len(t)
    /\ \A i \in 1..Len(s) : s[i] = t[Len(t) - Len(s) + i]

(* s is the end of t: all of it, or what the buffer has room for. *)
Newest(s, t) == SuffixOf(s, t) /\ (Len(s) >= MaxEvents \/ Len(s) = Len(t))

LEMMA NewestAppend ==
    ASSUME NEW s \in Seq(EventKinds), NEW t \in Seq(EventKinds), NEW e \in EventKinds,
           Newest(s, t)
    PROVE  Newest(Append(s, e), Append(t, e))
  <1> DEFINE s1 == Append(s, e)
             t1 == Append(t, e)
  <1>1. /\ Len(s1) = Len(s) + 1 /\ s1[Len(s) + 1] = e
        /\ \A i \in 1..Len(s) : s1[i] = s[i]
        /\ Len(t1) = Len(t) + 1 /\ t1[Len(t) + 1] = e
        /\ \A i \in 1..Len(t) : t1[i] = t[i]
    BY AppendProperties
  <1>2. Len(s) \in Nat /\ Len(t) \in Nat /\ MaxEvents \in Nat
    BY LenProperties, BoundsAssumption
  <1> HIDE DEF s1, t1
  <1>3. ASSUME NEW i \in 1..Len(s1) PROVE s1[i] = t1[Len(t1) - Len(s1) + i]
    <2>1. CASE i = Len(s) + 1
      BY <1>1, <1>2, <2>1
    <2>2. CASE i \in 1..Len(s)
      <3>1. Len(t1) - Len(s1) + i = Len(t) - Len(s) + i
        BY <1>1, <1>2, <2>2
      <3>2. Len(t) - Len(s) + i \in 1..Len(t)
        BY <1>2, <2>2 DEF Newest, SuffixOf
      <3> QED BY <1>1, <2>2, <3>1, <3>2 DEF Newest, SuffixOf
    <2> QED BY <1>1, <1>2, <1>3, <2>1, <2>2
  <1>4. Newest(s1, t1)
    BY <1>1, <1>2, <1>3 DEF Newest, SuffixOf
  <1> QED BY <1>4 DEF s1, t1

(* Dropping the oldest event of a full buffer keeps the newest ones. *)
LEMMA NewestKept ==
    ASSUME NEW s \in Seq(EventKinds), NEW t \in Seq(EventKinds), Newest(s, t)
    PROVE  Newest(KeepNewest(s), t)
  <1>1. Len(s) \in Nat /\ Len(t) \in Nat /\ MaxEvents \in Nat
    BY LenProperties, BoundsAssumption
  <1>2. CASE Len(s) > MaxEvents
    <2>1. s # << >>
      BY <1>1, <1>2, EmptySeq
    <2>2. /\ Tail(s) \in Seq(EventKinds) /\ Len(Tail(s)) = Len(s) - 1
          /\ \A i \in 1..Len(Tail(s)) : Tail(s)[i] = s[i + 1]
      BY <2>1, HeadTailProperties
    <2>3. ASSUME NEW i \in 1..Len(Tail(s))
          PROVE  Tail(s)[i] = t[Len(t) - Len(Tail(s)) + i]
      <3>1. i + 1 \in 1..Len(s) /\ Len(t) - Len(Tail(s)) + i = Len(t) - Len(s) + (i + 1)
        BY <1>1, <2>2, <2>3
      <3> QED BY <2>2, <3>1 DEF Newest, SuffixOf
    <2>4. Len(Tail(s)) <= Len(t) /\ Len(Tail(s)) >= MaxEvents
      BY <1>1, <1>2, <2>2 DEF Newest, SuffixOf
    <2> QED BY <1>2, <2>3, <2>4 DEF Newest, SuffixOf, KeepNewest
  <1>3. CASE ~(Len(s) > MaxEvents)
    BY <1>3 DEF KeepNewest
  <1> QED BY <1>2, <1>3

LEMMA NewestItself ==
    ASSUME NEW s \in Seq(EventKinds)
    PROVE  Newest(s, s)
  BY LenProperties DEF Newest, SuffixOf

(* The events of an operation: the terminal one is the last and is its state,
   and the buffer holds the newest of them. *)
EventsAgree(j) ==
    /\ Newest(events[j], pushed[j])
    /\ \A i \in 1..Len(pushed[j]) : pushed[j][i] \in Terminal => i = Len(pushed[j])
    /\ state[j] = "running" => \A i \in 1..Len(pushed[j]) : pushed[j][i] \notin Terminal
    /\ Finished(j) => pushed[j] # << >> /\ pushed[j][Len(pushed[j])] = state[j]

(* The journal agrees with the outcome; what a record is kept for has started. *)
RowAgrees(j) ==
    /\ row[j] = "succeeded" => state[j] = "done"
    /\ row[j] = "failed" => state[j] = "error"
    /\ j \in owed => Finished(j)
    /\ j \in kept => state[j] # "none"
    /\ j > started => state[j] = "none"

(* A follower is a listener until its operation settles, and has read the
   newest of its events. *)
FollowerAgrees(c) ==
    /\ \A j \in Jobs : c \in listeners[j] =>
          client[c].op = j /\ client[c].phase = "following"
    /\ client[c].phase = "following" =>
          client[c].op \in Jobs /\ c \in listeners[client[c].op]
    /\ client[c].phase = "ended" => client[c].op \in Jobs /\ Finished(client[c].op)
    /\ client[c].phase \in {"following", "ended"} =>
          Newest(client[c].got, pushed[client[c].op])

StreamInv ==
    /\ \A j \in Jobs : EventsAgree(j)
    /\ \A j \in Jobs : RowAgrees(j)
    /\ \A c \in Clients : FollowerAgrees(c)

LEMMA StreamInvInit == Init => StreamInv
  <1> SUFFICES ASSUME Init PROVE StreamInv
    OBVIOUS
  <1>0. << >> \in Seq(EventKinds) /\ Len(<< >>) = 0
    OBVIOUS
  <1>1. \A j \in Jobs : EventsAgree(j)
    <2>1. Newest(<< >>, << >>)
      BY <1>0, NewestItself
    <2> QED BY <1>0, <2>1 DEF Init, EventsAgree, Finished, Terminal
  <1>2. \A j \in Jobs : RowAgrees(j)
    BY DEF Init, RowAgrees
  <1>3. \A c \in Clients : FollowerAgrees(c)
    BY DEF Init, FollowerAgrees
  <1> QED BY <1>1, <1>2, <1>3 DEF StreamInv

(* What the invariant speaks of. *)
streamVars == <<started, kept, recordVars, row>>

LEMMA StreamInvSame ==
    ASSUME StreamInv, UNCHANGED streamVars
    PROVE  StreamInv'
  BY DEF StreamInv, streamVars, recordVars, EventsAgree, RowAgrees, FollowerAgrees, Finished

(* push: the event reaches the buffer and whoever listens, and a terminal one
   ends both the operation and its streams. *)
LEMMA StreamInvPush ==
    ASSUME StreamInv, TypeOK, NEW j \in Jobs, NEW e \in {"step", "done", "error"},
           Push(j, e), UNCHANGED <<started, kept, row>>
    PROVE  StreamInv'
  <1> USE DEF StreamInv
  <1>1. CASE state[j] # "running"
    BY <1>1, StreamInvSame DEF Push, streamVars
  <1>2. CASE state[j] = "running"
    <2>0. PushAlways(j, e)
      BY <1>2 DEF Push
    <2>1. /\ e \in EventKinds
          /\ events \in [Jobs -> Seq(EventKinds)] /\ pushed \in [Jobs -> Seq(EventKinds)]
          /\ state \in [Jobs -> {"none", "running", "done", "error"}]
          /\ listeners \in [Jobs -> SUBSET Clients]
          /\ client \in [Clients -> ClientType]
      BY DEF EventKinds, TypeOK, RecordTypeOK
    <2>2. /\ pushed'[j] = Append(pushed[j], e)
          /\ events'[j] = KeepNewest(Append(events[j], e))
          /\ \A i \in Jobs : i # j => pushed'[i] = pushed[i] /\ events'[i] = events[i]
      BY <2>0, <2>1 DEF PushAlways
    <2>3. /\ state'[j] = IF e \in Terminal THEN e ELSE "running"
          /\ \A i \in Jobs : i # j => state'[i] = state[i] /\ listeners'[i] = listeners[i]
          /\ listeners'[j] = IF e \in Terminal THEN {} ELSE listeners[j]
          /\ \A i \in Jobs : i \in owed' => i \in owed \/ (i = j /\ e \in Terminal)
      <3>1. CASE e \in Terminal
        BY <2>0, <2>1, <3>1 DEF PushAlways
      <3>2. CASE e \notin Terminal
        BY <1>2, <2>0, <2>1, <3>2 DEF PushAlways
      <3> QED BY <3>1, <3>2
    <2>4. /\ pushed'[j] \in Seq(EventKinds) /\ Len(pushed'[j]) = Len(pushed[j]) + 1
          /\ pushed'[j][Len(pushed[j]) + 1] = e
          /\ \A i \in 1..Len(pushed[j]) : pushed'[j][i] = pushed[j][i]
          /\ Len(pushed[j]) \in Nat
      BY <2>1, <2>2, AppendProperties, LenProperties
    <2>5. ASSUME NEW i \in Jobs PROVE EventsAgree(i)'
      <3>1. CASE i # j
        BY <2>2, <2>3, <3>1 DEF EventsAgree, Finished
      <3>2. CASE i = j
        <4>1. Newest(events'[j], pushed'[j])
          <5>1. Append(events[j], e) \in Seq(EventKinds) /\ Append(pushed[j], e) \in Seq(EventKinds)
            BY <2>1, AppendProperties
          <5>2. Newest(Append(events[j], e), Append(pushed[j], e))
            BY <2>1, NewestAppend DEF EventsAgree
          <5> QED BY <2>2, <5>1, <5>2, NewestKept
        <4>2. \A k \in 1..Len(pushed[j]) : pushed[j][k] \notin Terminal
          BY <1>2 DEF EventsAgree
        <4>3. \A k \in 1..Len(pushed'[j]) :
                  k = Len(pushed'[j]) \/ (k \in 1..Len(pushed[j]) /\ k # Len(pushed'[j]))
          BY <2>4
        <4>4. \A k \in 1..Len(pushed'[j]) : pushed'[j][k] \in Terminal => k = Len(pushed'[j])
          BY <2>4, <4>2, <4>3
        <4>5. state'[j] = "running" =>
                  \A k \in 1..Len(pushed'[j]) : pushed'[j][k] \notin Terminal
          BY <2>3, <2>4, <4>2, <4>3 DEF Terminal
        <4>6. Finished(j)' => pushed'[j] # << >> /\ pushed'[j][Len(pushed'[j])] = state'[j]
          BY <2>3, <2>4 DEF Finished, Terminal
        <4> QED BY <3>2, <4>1, <4>4, <4>5, <4>6 DEF EventsAgree
      <3> QED BY <3>1, <3>2
    <2>6. ASSUME NEW i \in Jobs PROVE RowAgrees(i)'
      BY <1>2, <2>3 DEF RowAgrees, Finished, Terminal
    <2>7. ASSUME NEW c \in Clients PROVE FollowerAgrees(c)'
      <3>0. client[c] \in ClientType
        BY <2>1
      <3>1. CASE c \notin listeners[j]
        <4>1. client'[c] = client[c]
          BY <2>0, <3>1 DEF PushAlways
        <4>2. client[c].phase = "following" => client[c].op # j
          BY <3>1 DEF FollowerAgrees
        <4>3. client[c].phase = "ended" => client[c].op # j
          BY <1>2 DEF FollowerAgrees, Finished, Terminal
        <4> QED BY <2>2, <2>3, <3>1, <4>1, <4>2, <4>3 DEF FollowerAgrees, Finished
      <3>2. CASE c \in listeners[j]
        <4>1. client[c].op = j /\ client[c].phase = "following"
              /\ Newest(client[c].got, pushed[j])
          BY <3>2 DEF FollowerAgrees
        <4>2. client'[c] = [client[c] EXCEPT !.got = Append(@, e),
                                 !.phase = IF e \in Terminal THEN "ended" ELSE @]
          BY <2>0, <3>2, <4>1 DEF PushAlways, Deliver
        <4>3. /\ client'[c].op = j /\ client'[c].got = Append(client[c].got, e)
              /\ client'[c].phase = IF e \in Terminal THEN "ended" ELSE "following"
          BY <3>0, <4>1, <4>2 DEF ClientType
        <4>4. client[c].got \in Seq(EventKinds) /\ pushed[j] \in Seq(EventKinds)
          BY <2>1, <3>0 DEF ClientType
        <4>5. Newest(client'[c].got, pushed'[j])
          BY <2>1, <2>2, <4>1, <4>3, <4>4, NewestAppend
        <4>6. \A i \in Jobs : c \in listeners'[i] => i = j /\ e \notin Terminal
          BY <2>3, <4>1 DEF FollowerAgrees
        <4> QED BY <2>3, <3>2, <4>3, <4>5, <4>6 DEF FollowerAgrees, Finished
      <3> QED BY <3>1, <3>2
    <2> QED BY <2>5, <2>6, <2>7
  <1> QED BY <1>1, <1>2

(* start: the first event of a queued operation says that it waits. *)
LEMMA StreamInvStart ==
    ASSUME StreamInv, TypeOK, NEW j \in Jobs, NEW p \in Projects \cup {NoProject}, Start(j, p)
    PROVE  StreamInv'
  <1> USE DEF StreamInv
  <1> DEFINE said == IF p # NoProject /\ tail[p] # NoJob THEN <<"wait">> ELSE << >>
  <1>0. /\ state \in [Jobs -> {"none", "running", "done", "error"}]
        /\ events \in [Jobs -> Seq(EventKinds)] /\ pushed \in [Jobs -> Seq(EventKinds)]
        /\ listeners[j] # {} => state[j] = "running"
        /\ started \in 0..MaxJobs /\ MaxJobs \in Nat
    BY BoundsAssumption DEF TypeOK, RecordTypeOK, LaneTypeOK
  <1>1. /\ j = started + 1 /\ started' = j /\ kept' \subseteq kept \cup {j}
        /\ events' = [events EXCEPT ![j] = said]
        /\ pushed' = [pushed EXCEPT ![j] = said]
        /\ state' = [state EXCEPT ![j] = "running"]
        /\ UNCHANGED <<listeners, owed, client, row>>
    BY PrunedKeeps DEF Start, Chain
  <1>2. said \in Seq(EventKinds) /\ \A i \in 1..Len(said) : said[i] \notin Terminal
    <2>1. "wait" \in EventKinds /\ "wait" \notin Terminal
      BY DEF EventKinds, Terminal
    <2>2. << >> \in Seq(EventKinds) /\ Len(<< >>) = 0
      OBVIOUS
    <2>3. /\ <<"wait">> \in Seq(EventKinds) /\ Len(<<"wait">>) = 1
          /\ <<"wait">>[1] = "wait"
      BY <2>1
    <2> QED BY <2>1, <2>2, <2>3
  <1> HIDE DEF said
  <1>3. state[j] = "none" /\ listeners[j] = {}
    BY <1>0, <1>1 DEF RowAgrees
  <1>4. ASSUME NEW i \in Jobs PROVE EventsAgree(i)'
    <2>1. CASE i = j
      BY <1>0, <1>1, <1>2, <2>1, NewestItself DEF EventsAgree, Finished, Terminal
    <2>2. CASE i # j
      BY <1>0, <1>1, <2>2 DEF EventsAgree, Finished
    <2> QED BY <2>1, <2>2
  <1>5. ASSUME NEW i \in Jobs PROVE RowAgrees(i)'
    BY <1>0, <1>1, <1>3 DEF RowAgrees, Finished, Terminal, Jobs
  <1>6. ASSUME NEW c \in Clients PROVE FollowerAgrees(c)'
    <2>1. client[c].phase = "following" => client[c].op # j
      BY <1>3 DEF FollowerAgrees
    <2>2. client[c].phase = "ended" => client[c].op # j
      BY <1>3 DEF FollowerAgrees, Finished, Terminal
    <2> QED BY <1>0, <1>1, <2>1, <2>2 DEF FollowerAgrees, Finished
  <1> QED BY <1>4, <1>5, <1>6

(* subscribe: the buffer is replayed before the listener is added, in one
   callback, so no event falls between. *)
LEMMA StreamInvFollow ==
    ASSUME StreamInv, TypeOK, NEW j \in Jobs, NEW c \in Clients, Follow(c, j)
    PROVE  StreamInv'
  <1> USE DEF StreamInv
  <1>0. /\ client \in [Clients -> ClientType] /\ listeners \in [Jobs -> SUBSET Clients]
        /\ state \in [Jobs -> {"none", "running", "done", "error"}]
        /\ 0 \in {0, 1}
    BY DEF TypeOK, RecordTypeOK
  <1>1. /\ client[c].phase = "idle" /\ kept' \subseteq kept
        /\ UNCHANGED <<started, state, events, pushed, owed, row>>
    BY <1>0, PrunedKeeps DEF Follow, laneVars
  <1>2. \A i \in Jobs : EventsAgree(i)'
    BY <1>1 DEF EventsAgree, Finished
  <1>3. \A i \in Jobs : RowAgrees(i)'
    BY <1>1 DEF RowAgrees, Finished
  <1>4. \A i \in Jobs : c \notin listeners[i]
    BY <1>1 DEF FollowerAgrees
  <1>5. CASE j \notin kept'
    <2>1. /\ UNCHANGED listeners /\ client'[c].phase = "missing"
          /\ \A d \in Clients : d # c => client'[d] = client[d]
      BY <1>0, <1>5 DEF Follow
    <2> QED BY <1>1, <1>2, <1>3, <1>4, <2>1 DEF FollowerAgrees, Finished
  <1>6. CASE j \in kept'
    <2>1. /\ client'[c].op = j /\ client'[c].got = events[j]
          /\ client'[c].phase = IF Finished(j) THEN "ended" ELSE "following"
          /\ \A d \in Clients : d # c => client'[d] = client[d]
      BY <1>0, <1>6 DEF Follow
    <2>2. state[j] # "none"
      BY <1>1, <1>6 DEF RowAgrees
    <2>3. /\ \A i \in Jobs : i # j => listeners'[i] = listeners[i]
          /\ listeners'[j] = IF Finished(j) THEN listeners[j] ELSE listeners[j] \cup {c}
      BY <1>0, <1>6, <2>2 DEF Follow, Finished, Terminal
    <2>4. Newest(events[j], pushed[j])
      BY DEF EventsAgree
    <2>5. FollowerAgrees(c)'
      BY <1>1, <1>4, <2>1, <2>3, <2>4 DEF FollowerAgrees, Finished
    <2>6. ASSUME NEW d \in Clients, d # c PROVE FollowerAgrees(d)'
      BY <1>1, <2>1, <2>3, <2>6 DEF FollowerAgrees, Finished
    <2> QED BY <1>2, <1>3, <2>5, <2>6
  <1> QED BY <1>5, <1>6

LEMMA StreamInvLeave ==
    ASSUME StreamInv, TypeOK, NEW c \in Clients, Leave(c)
    PROVE  StreamInv'
  <1> USE DEF StreamInv
  <1>0. client \in [Clients -> ClientType] /\ listeners \in [Jobs -> SUBSET Clients]
    BY DEF TypeOK, RecordTypeOK
  <1>1. /\ client[c].phase = "following"
        /\ UNCHANGED <<started, kept, state, events, pushed, owed, row>>
        /\ client'[c].phase = "left"
        /\ \A d \in Clients : d # c => client'[d] = client[d]
        /\ listeners' = [listeners EXCEPT ![client[c].op] = @ \ {c}]
    BY <1>0 DEF Leave, laneVars, ClientType
  <1>2. \A i \in Jobs : EventsAgree(i)' /\ RowAgrees(i)'
    BY <1>1 DEF EventsAgree, RowAgrees, Finished
  <1>3. \A i \in Jobs : listeners'[i] = listeners[i] \ {c}
    BY <1>0, <1>1 DEF FollowerAgrees
  <1>4. ASSUME NEW d \in Clients PROVE FollowerAgrees(d)'
    BY <1>1, <1>3 DEF FollowerAgrees, Finished
  <1> QED BY <1>2, <1>4

LEMMA StreamInvNext == StreamInv /\ TypeOK /\ [Next]_vars => StreamInv'
  <1> SUFFICES ASSUME StreamInv, TypeOK, [Next]_vars PROVE StreamInv'
    OBVIOUS
  <1>0. ASSUME kept' \subseteq kept, UNCHANGED <<started, recordVars, row>> PROVE StreamInv'
    BY <1>0 DEF StreamInv, recordVars, EventsAgree, RowAgrees, FollowerAgrees, Finished
  <1>1. ASSUME NEW j \in Jobs, NEW p \in Projects \cup {NoProject}, Start(j, p) PROVE StreamInv'
    BY <1>1, StreamInvStart
  <1>2. ASSUME NEW j \in Jobs, NEW p \in Projects \cup {NoProject}, Exclusive(j, p)
        PROVE  StreamInv'
    <2>1. /\ started' = started + 1 /\ UNCHANGED <<kept, recordVars, row>>
      BY <1>2 DEF Exclusive, Chain
    <2>2. started \in Int
      BY DEF TypeOK, LaneTypeOK
    <2>3. \A i \in Jobs : EventsAgree(i)' /\ RowAgrees(i)'
      BY <2>1, <2>2 DEF StreamInv, recordVars, EventsAgree, RowAgrees, Finished, Jobs
    <2>4. \A c \in Clients : FollowerAgrees(c)'
      BY <2>1 DEF StreamInv, recordVars, FollowerAgrees, Finished
    <2> QED BY <2>3, <2>4 DEF StreamInv
  <1>3. ASSUME NEW j \in Jobs, JobStep(j) PROVE StreamInv'
    <2>1. CASE Begin(j) \/ EndDirect(j) \/ Unhook(j)
      BY <2>1, StreamInvSame DEF Begin, EndDirect, Unhook, SetPc, streamVars
    <2>2. CASE JournalStart(j)
      <3>1. /\ UNCHANGED <<started, kept, recordVars>>
            /\ \A i \in Jobs : row'[i] = row[i] \/ row'[i] = "running"
        BY <2>2 DEF JournalStart, SetPc, TypeOK, RecordTypeOK
      <3>2. \A i \in Jobs : EventsAgree(i)' /\ RowAgrees(i)'
        BY <3>1 DEF StreamInv, recordVars, EventsAgree, RowAgrees, Finished
      <3>3. \A c \in Clients : FollowerAgrees(c)'
        BY <3>1 DEF StreamInv, recordVars, FollowerAgrees, Finished
      <3> QED BY <3>2, <3>3 DEF StreamInv
    <2>3. ASSUME NEW e \in {"step", "done", "error"}, Yield(j, e) PROVE StreamInv'
      BY <2>3, StreamInvPush DEF Yield, SetPc
    <2>4. CASE Throw(j)
      BY <2>4, StreamInvPush DEF Throw, SetPc
    <2>5. CASE EndStream(j)
      BY <2>5, StreamInvPush DEF EndStream, SetPc
    <2> QED BY <1>3, <2>1, <2>2, <2>3, <2>4, <2>5 DEF JobStep
  <1>4. ASSUME NEW j \in Jobs, JournalFinish(j) PROVE StreamInv'
    <2>1. /\ UNCHANGED <<started, kept, state, events, pushed, listeners, client>>
          /\ owed' \subseteq owed /\ j \in owed
          /\ \A i \in Jobs : row'[i] = row[i] \/
                 (i = j /\ row'[i] = IF state[j] = "error" THEN "failed" ELSE "succeeded")
      BY <1>4 DEF JournalFinish, laneVars, TypeOK, RecordTypeOK
    <2>2. \A i \in Jobs : EventsAgree(i)'
      BY <2>1 DEF StreamInv, EventsAgree, Finished
    <2>3. \A i \in Jobs : RowAgrees(i)'
      BY <2>1 DEF StreamInv, RowAgrees, Finished, Terminal
    <2>4. \A c \in Clients : FollowerAgrees(c)'
      BY <2>1 DEF StreamInv, FollowerAgrees, Finished
    <2> QED BY <2>2, <2>3, <2>4 DEF StreamInv
  <1>5. ASSUME NEW j \in Jobs, NEW c \in Clients, Follow(c, j) PROVE StreamInv'
    BY <1>5, StreamInvFollow
  <1>6. ASSUME NEW c \in Clients, Leave(c) PROVE StreamInv'
    BY <1>6, StreamInvLeave
  <1>7. CASE Look
    BY <1>0, <1>7, PrunedKeeps DEF Look, laneVars
  <1>8. CASE Tick \/ UNCHANGED vars
    BY <1>8, StreamInvSame DEF Tick, vars, laneVars, streamVars
  <1> QED BY <1>1, <1>2, <1>3, <1>4, <1>5, <1>6, <1>7, <1>8 DEF Next

(* The end of a sequence, as SubSeq writes it. *)
LEMMA SuffixIsSubSeq ==
    ASSUME NEW s \in Seq(EventKinds), NEW t \in Seq(EventKinds), SuffixOf(s, t)
    PROVE  s = SubSeq(t, Len(t) - Len(s) + 1, Len(t))
  <1> DEFINE m == Len(t) - Len(s) + 1
             u == SubSeq(t, m, Len(t))
  <1>1. Len(s) \in Nat /\ Len(t) \in Nat /\ Len(s) <= Len(t) /\ m \in 1..(Len(t) + 1)
    BY LenProperties DEF SuffixOf
  <1>2. u \in Seq(EventKinds) /\ Len(u) = Len(s)
    BY <1>1, SubSeqProperties
  <1>3. ASSUME NEW i \in 1..Len(s) PROVE u[i] = s[i]
    <2>1. u[i] = t[m + i - 1]
      BY <1>1, <1>2, SubSeqProperties
    <2>2. m + i - 1 = Len(t) - Len(s) + i
      BY <1>1
    <2> QED BY <2>1, <2>2 DEF SuffixOf
  <1> QED BY <1>2, <1>3, SeqEqual

(* Every operation has one outcome, the journal agrees with it, and a follower
   reads the newest of its events in order, without a gap, to the end. *)
THEOREM StreamsComplete == Spec => []StreamComplete
  <1>1. ASSUME StreamInv, TypeOK PROVE StreamComplete
    <2>1. OutcomeAgrees
      BY <1>1 DEF StreamInv, EventsAgree, RowAgrees, OutcomeAgrees
    <2>2. ASSUME NEW c \in Clients, client[c].phase \in {"following", "ended"}
          PROVE  LET all == pushed[client[c].op]
                     n == Len(client[c].got)
                 IN  /\ n >= (IF Len(all) < MaxEvents THEN Len(all) ELSE MaxEvents)
                     /\ n <= Len(all)
                     /\ client[c].got = SubSeq(all, Len(all) - n + 1, Len(all))
                     /\ client[c].phase = "ended" <=> Finished(client[c].op)
      <3> DEFINE all == pushed[client[c].op]
                 got == client[c].got
      <3>1. client[c].op \in Jobs /\ Newest(got, all)
        BY <1>1, <2>2 DEF StreamInv, FollowerAgrees
      <3>2. got \in Seq(EventKinds) /\ all \in Seq(EventKinds)
        BY <1>1, <3>1 DEF TypeOK, RecordTypeOK, ClientType
      <3>3. Len(got) \in Nat /\ Len(all) \in Nat /\ MaxEvents \in Nat
        BY <3>2, LenProperties, BoundsAssumption
      <3>4. got = SubSeq(all, Len(all) - Len(got) + 1, Len(all))
        BY <3>1, <3>2, SuffixIsSubSeq DEF Newest
      <3>5. client[c].phase = "ended" <=> Finished(client[c].op)
        <4>1. client[c].phase = "following" => state[client[c].op] = "running"
          BY <1>1 DEF StreamInv, FollowerAgrees, TypeOK
        <4> QED BY <1>1, <2>2, <4>1 DEF StreamInv, FollowerAgrees, Finished, Terminal
      <3>6. /\ Len(got) >= (IF Len(all) < MaxEvents THEN Len(all) ELSE MaxEvents)
            /\ Len(got) <= Len(all)
        BY <3>1, <3>3 DEF Newest, SuffixOf
      <3> QED BY <3>4, <3>5, <3>6
    <2> QED BY <2>1, <2>2 DEF StreamComplete
  <1> QED BY StreamInvInit, StreamInvNext, TypeCorrect, <1>1, PTL DEF Spec

-----------------------------------------------------------------------------
(* The chain implements the lane *)

UpTo(S, j) == {k \in S : k <= j}

(* The members of S, smallest first. *)
OrderOf(S) ==
    [i \in 1..Cardinality(S) |-> CHOOSE j \in S : Cardinality({k \in S : k <= j}) = i]

(* q lists S in ascending order: every job stands at its rank. *)
Ascends(S, q) ==
    /\ q \in Seq(S)
    /\ Len(q) = Cardinality(S)
    /\ \A i \in 1..Len(q) : Cardinality(UpTo(S, q[i])) = i

LEMMA JobsFinite ==
    ASSUME NEW S \in SUBSET Jobs
    PROVE  IsFiniteSet(S) /\ Cardinality(S) \in Nat
  <1>1. IsFiniteSet(Jobs)
    BY BoundsAssumption, FS_Interval DEF Jobs
  <1>2. IsFiniteSet(S)
    BY <1>1, FS_Subset
  <1> QED BY <1>2, FS_CardinalityType

(* A rank lies between one and the size of the set, and belongs to one job. *)
LEMMA RankRange ==
    ASSUME NEW S \in SUBSET Jobs, NEW j \in S
    PROVE  Cardinality(UpTo(S, j)) \in 1..Cardinality(S)
  <1>1. IsFiniteSet(S) /\ Cardinality(S) \in Nat
    BY JobsFinite
  <1>2. UpTo(S, j) \in SUBSET S /\ j \in UpTo(S, j)
    BY DEF UpTo, Jobs
  <1>3. /\ IsFiniteSet(UpTo(S, j)) /\ Cardinality(UpTo(S, j)) <= Cardinality(S)
    BY <1>1, <1>2, FS_Subset
  <1>4. Cardinality(UpTo(S, j)) \in Nat /\ Cardinality(UpTo(S, j)) # 0
    BY <1>2, <1>3, FS_CardinalityType, FS_EmptySet
  <1> QED BY <1>1, <1>3, <1>4

LEMMA RankUnique ==
    ASSUME NEW S \in SUBSET Jobs, NEW j \in S, NEW k \in S,
           Cardinality(UpTo(S, j)) = Cardinality(UpTo(S, k))
    PROVE  j = k
  <1>1. ASSUME NEW a \in S, NEW b \in S, a < b,
               Cardinality(UpTo(S, a)) = Cardinality(UpTo(S, b))
        PROVE  FALSE
    <2>0. \A x \in S : x \in Int
      BY DEF Jobs
    <2>1. UpTo(S, a) \subseteq UpTo(S, b) /\ b \in UpTo(S, b) /\ b \notin UpTo(S, a)
      BY <1>1, <2>0 DEF UpTo
    <2>2. IsFiniteSet(UpTo(S, b))
      BY JobsFinite DEF UpTo
    <2> QED BY <1>1, <2>1, <2>2, FS_Subset
  <1>2. j \in Int /\ k \in Int
    BY DEF Jobs
  <1> QED BY <1>1, <1>2

LEMMA OrderAscends ==
    ASSUME NEW S \in SUBSET Jobs
    PROVE  Ascends(S, OrderOf(S))
  <1> DEFINE n == Cardinality(S)
             f == [j \in S |-> Cardinality(UpTo(S, j))]
             q == OrderOf(S)
  <1>1. IsFiniteSet(S) /\ n \in Nat
    BY JobsFinite
  <1>2. IsFiniteSet(1..n) /\ Cardinality(1..n) = n
    BY <1>1, FS_Interval
  <1>3. f \in Injection(S, 1..n)
    <2>1. f \in [S -> 1..n]
      BY RankRange
    <2>2. \A a, b \in S : f[a] = f[b] => a = b
      BY RankUnique
    <2> QED BY <2>1, <2>2 DEF Injection, IsInjective
  <1>4. f \in Surjection(S, 1..n)
    BY <1>2, <1>3, FS_Injection
  <1>5. ASSUME NEW i \in 1..n PROVE q[i] \in S /\ Cardinality(UpTo(S, q[i])) = i
    <2>1. \E j \in S : Cardinality(UpTo(S, j)) = i
      BY <1>4 DEF Surjection
    <2>2. q[i] = CHOOSE j \in S : Cardinality(UpTo(S, j)) = i
      BY DEF OrderOf, UpTo
    <2> QED BY <2>1, <2>2
  <1>6. q \in Seq(S) /\ Len(q) = n
    <2>1. q \in [1..n -> S]
      BY <1>5 DEF OrderOf
    <2> HIDE DEF q
    <2> QED BY <1>1, <2>1
  <1> QED BY <1>5, <1>6 DEF Ascends

LEMMA OrderIs ==
    ASSUME NEW S \in SUBSET Jobs, NEW q, Ascends(S, q)
    PROVE  OrderOf(S) = q
  <1> DEFINE o == OrderOf(S)
  <1>1. Ascends(S, o)
    BY OrderAscends
  <1> HIDE DEF o
  <1>2. /\ o \in Seq(S) /\ q \in Seq(S) /\ Len(o) = Len(q)
        /\ \A i \in 1..Len(o) : o[i] \in S /\ q[i] \in S
    BY <1>1 DEF Ascends
  <1>3. ASSUME NEW i \in 1..Len(o) PROVE o[i] = q[i]
    BY <1>1, <1>2, RankUnique DEF Ascends
  <1>4. o = q
    BY <1>2, <1>3, SeqEqual
  <1> QED BY <1>4 DEF o

(* A job younger than all joins at the end. *)
LEMMA OrderJoin ==
    ASSUME NEW S \in SUBSET Jobs, NEW n \in Jobs, \A k \in S : k < n
    PROVE  OrderOf(S \cup {n}) = Append(OrderOf(S), n)
  <1> DEFINE T == S \cup {n}
             q == OrderOf(S)
             r == Append(q, n)
  <1>0. T \in SUBSET Jobs /\ n \notin S /\ n \in Int
    BY DEF Jobs
  <1>1. Ascends(S, q)
    BY OrderAscends
  <1> HIDE DEF q
  <1>2. IsFiniteSet(S) /\ Cardinality(S) \in Nat /\ Cardinality(T) = Cardinality(S) + 1
    BY <1>0, JobsFinite, FS_AddElement
  <1>3. UpTo(T, n) = T /\ \A j \in S : UpTo(T, j) = UpTo(S, j)
    <2>1. \A x \in S : x \in Int
      BY DEF Jobs
    <2>2. UpTo(T, n) = T
      <3>1. \A k \in T : k <= n
        BY <1>0, <2>1
      <3> HIDE DEF T
      <3> QED BY <3>1 DEF UpTo
    <2>3. ASSUME NEW j \in S PROVE UpTo(T, j) = UpTo(S, j)
      <3>1. ~(n <= j) /\ j \in Int
        BY <1>0, <2>1
      <3> QED BY <3>1 DEF UpTo
    <2> QED BY <2>2, <2>3
  <1>4. q \in Seq(T) /\ Len(q) = Cardinality(S) /\ \A i \in 1..Len(q) : q[i] \in S
    BY <1>1 DEF Ascends
  <1>5. /\ r \in Seq(T) /\ Len(r) = Len(q) + 1 /\ r[Len(q) + 1] = n
        /\ \A i \in 1..Len(q) : r[i] = q[i]
    BY <1>4, AppendProperties
  <1> HIDE DEF r
  <1>6. ASSUME NEW i \in 1..Len(r) PROVE Cardinality(UpTo(T, r[i])) = i
    <2>1. CASE i = Len(q) + 1
      BY <1>2, <1>3, <1>4, <1>5, <2>1
    <2>2. CASE i # Len(q) + 1
      <3>1. i \in 1..Len(q)
        BY <1>2, <1>4, <1>5, <2>2
      <3> QED BY <1>1, <1>3, <1>4, <1>5, <3>1 DEF Ascends
    <2> QED BY <2>1, <2>2
  <1>7. Ascends(T, r)
    BY <1>2, <1>4, <1>5, <1>6 DEF Ascends
  <1> HIDE DEF T
  <1>8. OrderOf(T) = r
    BY <1>0, <1>7, OrderIs
  <1> QED BY <1>8 DEF T, r, q

(* The oldest job leaves from the front. *)
LEMMA OrderLeave ==
    ASSUME NEW S \in SUBSET Jobs, NEW m \in S, \A k \in S : m <= k
    PROVE  OrderOf(S \ {m}) = Tail(OrderOf(S)) /\ OrderOf(S) # << >>
  <1> DEFINE T == S \ {m}
             q == OrderOf(S)
             r == Tail(q)
  <1>0. T \in SUBSET Jobs /\ T \in SUBSET S
    OBVIOUS
  <1>1. Ascends(S, q)
    BY OrderAscends
  <1> HIDE DEF q
  <1>2. /\ IsFiniteSet(S) /\ Cardinality(S) \in Nat /\ Cardinality(T) = Cardinality(S) - 1
        /\ Cardinality(T) \in Nat
    BY <1>0, JobsFinite, FS_RemoveElement
  <1>3. ASSUME NEW j \in T
        PROVE  Cardinality(UpTo(T, j)) = Cardinality(UpTo(S, j)) - 1
    <2>1. UpTo(T, j) = UpTo(S, j) \ {m} /\ m \in UpTo(S, j)
      BY DEF UpTo
    <2>2. IsFiniteSet(UpTo(S, j))
      BY JobsFinite DEF UpTo
    <2>3. Cardinality(UpTo(S, j) \ {m}) = Cardinality(UpTo(S, j)) - 1
      BY <2>1, <2>2, FS_RemoveElement
    <2> QED BY <2>1, <2>3
  <1>4. UpTo(S, m) = {m}
    <2>1. \A x \in S : x \in Int
      BY DEF Jobs
    <2> QED BY <2>1 DEF UpTo
  <1>5. Cardinality(UpTo(S, m)) = 1
    BY <1>4, FS_Singleton
  <1>6. /\ q \in Seq(S) /\ Len(q) = Cardinality(S) /\ Len(q) >= 1
        /\ \A i \in 1..Len(q) : q[i] \in S
    BY <1>1, <1>2 DEF Ascends
  <1>7. q # << >>
    BY <1>6
  <1>8. /\ r \in Seq(S) /\ Len(r) = Len(q) - 1
        /\ \A i \in 1..Len(r) : r[i] = q[i + 1]
    BY <1>6, <1>7, HeadTailProperties
  <1> HIDE DEF r
  <1>9. ASSUME NEW i \in 1..Len(r)
        PROVE  r[i] \in T /\ Cardinality(UpTo(T, r[i])) = i
    <2>1. i + 1 \in 1..Len(q) /\ r[i] = q[i + 1] /\ i \in Int
      BY <1>2, <1>6, <1>8
    <2>2. Cardinality(UpTo(S, r[i])) = i + 1 /\ r[i] \in S
      BY <1>1, <1>6, <2>1 DEF Ascends
    <2>3. r[i] # m
      BY <1>5, <2>1, <2>2
    <2>4. r[i] \in T
      BY <2>2, <2>3
    <2>5. Cardinality(UpTo(T, r[i])) = Cardinality(UpTo(S, r[i])) - 1
      BY <1>3, <2>4
    <2> QED BY <2>1, <2>2, <2>4, <2>5
  <1>10. r \in Seq(T) /\ Len(r) = Cardinality(T)
    <2>1. Len(r) = Cardinality(T) /\ Len(r) \in Nat
      BY <1>2, <1>6, <1>8
    <2>2. \A i \in 1..Len(r) : r[i] \in T
      BY <1>9
    <2>3. r \in [1..Len(r) -> S]
      BY <1>8, LenProperties
    <2>4. r \in [1..Len(r) -> T]
      BY <2>2, <2>3
    <2> HIDE DEF T
    <2> QED BY <2>1, <2>4
  <1>11. Ascends(T, r)
    BY <1>9, <1>10 DEF Ascends
  <1> HIDE DEF T
  <1>12. OrderOf(T) = r
    BY <1>0, <1>11, OrderIs
  <1> QED BY <1>7, <1>12 DEF T, r, q

(* The lane's view of the registry. *)
laneQueue == [p \in Projects |-> LaneQueue(p)]
laneBusy == {p \in Projects : \E j \in Waiting(p) : Begun(j)}

LEMMA QueueIsOrder == \A p : LaneQueue(p) = OrderOf(Waiting(p))
  BY DEF LaneQueue, OrderOf

LEMMA WaitingJobs == \A p : Waiting(p) \in SUBSET Jobs
  BY DEF Waiting

LEMMA QueueIsOrderNext == \A p : LaneQueue(p)' = OrderOf(Waiting(p)')
  BY DEF LaneQueue, OrderOf

(* A step that leaves who waits and who has begun alone is no step of a lane. *)
LEMMA LaneStutters ==
    ASSUME \A p \in Projects : Waiting(p)' = Waiting(p),
           \A p \in Projects : \A j \in Waiting(p) : Begun(j)' <=> Begun(j)
    PROVE  UNCHANGED <<laneQueue, laneBusy>>
  <1>1. \A p \in Projects : LaneQueue(p)' = LaneQueue(p)
    BY QueueIsOrder, QueueIsOrderNext
  <1>2. laneQueue' = laneQueue
    BY <1>1 DEF laneQueue
  <1>3. laneBusy' = laneBusy
    BY DEF laneBusy
  <1> QED BY <1>2, <1>3

LaneStep == Lane!Next \/ UNCHANGED <<laneQueue, laneBusy>>

LEMMA LaneJoins ==
    ASSUME LaneInv, TypeOK, NEW j \in Jobs, NEW p \in Projects \cup {NoProject},
           NEW k \in {"op", "direct"}, Chain(j, p, k)
    PROVE  LaneStep
  <1> USE DEF LaneInv
  <1>0. /\ j = started + 1 /\ started' = j /\ started \in Nat /\ j \in Nat
        /\ project' = [project EXCEPT ![j] = p]
        /\ pc' = [pc EXCEPT ![j] = IF p = NoProject THEN "streaming" ELSE "queued"]
        /\ NoProject \notin Projects
    BY NullAssumption DEF Chain, Jobs, LaneTypeOK
  <1>1. \A i \in Jobs : InLane(i)' <=> (InLane(i) \/ (i = j /\ p # NoProject))
    BY <1>0 DEF InLane, LaneTypeOK, Jobs
  <1>2. \A i \in Jobs : InLane(i) => i < j
    BY <1>0 DEF InLane, Jobs
  <1>3. \A i \in Jobs : i # j => project'[i] = project[i] /\ pc'[i] = pc[i]
    BY <1>0 DEF LaneTypeOK
  <1>4. ASSUME NEW q \in Projects
        PROVE  Waiting(q)' = IF q = p THEN Waiting(q) \cup {j} ELSE Waiting(q)
    <2>1. \A i \in Jobs : i # j => (i \in Waiting(q)' <=> i \in Waiting(q))
      BY <1>1, <1>3 DEF Waiting, Over
    <2>2. j \notin Waiting(q)
      BY <1>2, <1>0 DEF Waiting
    <2>3. j \in Waiting(q)' <=> q = p
      BY <1>0, <1>1 DEF Waiting, Over, LaneTypeOK
    <2>4. Waiting(q) \subseteq Jobs /\ Waiting(q)' \subseteq Jobs
      BY DEF Waiting
    <2> QED BY <2>1, <2>2, <2>3, <2>4
  <1>5. \A i \in Jobs : i # j => (Begun(i)' <=> Begun(i))
    BY <1>3 DEF Begun, Over
  <1>6. \A q \in Projects : j \notin Waiting(q)
    BY <1>2, <1>0 DEF Waiting
  <1>7. CASE p = NoProject
    <2>1. \A q \in Projects : Waiting(q)' = Waiting(q)
      BY <1>0, <1>4, <1>7
    <2>2. \A q \in Projects : \A i \in Waiting(q) : Begun(i)' <=> Begun(i)
      BY <1>5, <1>6 DEF Waiting
    <2> QED BY <2>1, <2>2, LaneStutters DEF LaneStep
  <1>8. CASE p # NoProject
    <2>0. p \in Projects
      BY <1>8
    <2>1. ~Begun(j)'
      BY <1>0, <1>8 DEF Begun, Over, LaneTypeOK
    <2>2. laneBusy' = laneBusy
      BY <1>4, <1>5, <1>6, <2>1, WaitingJobs DEF laneBusy
    <2>3. LaneQueue(p)' = Append(LaneQueue(p), j)
      <3>1. Waiting(p)' = Waiting(p) \cup {j}
        BY <1>4, <2>0
      <3>2. \A i \in Waiting(p) : i < j
        BY <1>2 DEF Waiting
      <3>3. OrderOf(Waiting(p) \cup {j}) = Append(OrderOf(Waiting(p)), j)
        BY <3>2, WaitingJobs, OrderJoin
      <3> QED BY <3>1, <3>3, QueueIsOrder, QueueIsOrderNext
    <2>4. \A q \in Projects : q # p => LaneQueue(q)' = LaneQueue(q)
      BY <1>4, QueueIsOrder, QueueIsOrderNext
    <2>5. laneQueue' = [laneQueue EXCEPT ![p] = Append(@, j)]
      BY <2>0, <2>3, <2>4 DEF laneQueue
    <2>6. \A q \in Projects : \A i \in 1..Len(laneQueue[q]) : laneQueue[q][i] # j
      <3> TAKE q \in Projects
      <3>1. laneQueue[q] = OrderOf(Waiting(q))
        BY QueueIsOrder DEF laneQueue
      <3>2. OrderOf(Waiting(q)) \in Seq(Waiting(q))
        BY WaitingJobs, OrderAscends DEF Ascends
      <3> QED BY <1>6, <3>1, <3>2
    <2>7. Lane!Join(p, j)
      BY <2>2, <2>5, <2>6 DEF Lane!Join, laneQueue, laneBusy
    <2> QED BY <2>0, <2>7 DEF LaneStep, Lane!Next
  <1> QED BY <1>7, <1>8

(* A queued job that starts is the oldest of its lane, and the lane is idle. *)
LEMMA LaneBegins ==
    ASSUME LaneInv, LaneInv', TypeOK, NEW j \in Jobs, Begin(j)
    PROVE  LaneStep
  <1> USE DEF LaneInv
  <1>0. /\ UNCHANGED <<started, project>> /\ pc[j] = "queued"
        /\ pc' = [pc EXCEPT ![j] = IF kind[j] = "op" THEN "journaling" ELSE "working"]
        /\ pc \in [Jobs -> {"new", "queued", "journaling", "streaming", "working",
                            "closing", "returned", "unhooked"}]
    BY DEF Begin, SetPc, LaneTypeOK
  <1>1. \A i \in Jobs : InLane(i)' <=> InLane(i)
    BY <1>0 DEF InLane
  <1>2. \A i \in Jobs : (Over(i)' <=> Over(i)) /\ (i # j => (Begun(i)' <=> Begun(i)))
    BY <1>0 DEF Over, Begun
  <1>3. \A p : Waiting(p)' = Waiting(p)
    BY <1>0, <1>1, <1>2 DEF Waiting
  <1>4. Begun(j)' /\ ~Begun(j) /\ ~Over(j) /\ pc'[j] # "queued"
    BY <1>0 DEF Begun, Over
  <1>5. CASE ~InLane(j)
    BY <1>2, <1>3, <1>5, LaneStutters DEF LaneStep, Waiting
  <1>6. CASE InLane(j)
    <2>p. PICK p \in Projects : p = project[j]
      BY <1>6 DEF InLane, LaneTypeOK
    <2>0. p \in Projects /\ p = project[j] /\ j \in Waiting(p)
      BY <1>4, <1>6, <2>p DEF Waiting
    <2>1. ASSUME NEW i \in Waiting(p), Begun(i) PROVE FALSE
      <3>1. i \in Jobs /\ InLane(i) /\ project[i] = project[j] /\ ~Over(i) /\ i # j
        BY <1>4, <2>0, <2>1 DEF Waiting
      <3>2. CASE i < j
        <4>1. pc'[i] = "unhooked"
          BY <1>0, <1>1, <1>4, <1>6, <3>1, <3>2 DEF OthersOver
        <4> QED BY <1>0, <3>1, <4>1 DEF Over
      <3>3. CASE j < i
        BY <1>0, <1>6, <2>1, <3>1, <3>3 DEF OthersOver, Begun, Over
      <3> QED BY <3>1, <3>2, <3>3 DEF Jobs
    <2>2. p \notin laneBusy
      BY <2>1 DEF laneBusy
    <2>3. laneBusy' = laneBusy \cup {p}
      <3>1. \A q \in Projects : q # p => j \notin Waiting(q)
        BY <2>0 DEF Waiting
      <3>2. \A q \in Projects : (\E i \in Waiting(q)' : Begun(i)') <=>
                                    (q = p \/ \E i \in Waiting(q) : Begun(i))
        BY <1>2, <1>3, <1>4, <2>0, <3>1, WaitingJobs
      <3> QED BY <2>0, <3>2 DEF laneBusy
    <2>4. laneQueue' = laneQueue
      <3>1. \A q \in Projects : LaneQueue(q)' = LaneQueue(q)
        BY <1>3, QueueIsOrder, QueueIsOrderNext
      <3> QED BY <3>1 DEF laneQueue
    <2>5. laneQueue[p] # << >>
      <3>1. laneQueue[p] = OrderOf(Waiting(p)) /\ Ascends(Waiting(p), OrderOf(Waiting(p)))
        BY <2>0, QueueIsOrder, WaitingJobs, OrderAscends DEF laneQueue
      <3>2. Cardinality(Waiting(p)) # 0
        BY <2>0, WaitingJobs, JobsFinite, FS_EmptySet
      <3> QED BY <3>1, <3>2 DEF Ascends
    <2>6. Lane!Begin(p)
      BY <2>2, <2>3, <2>4, <2>5 DEF Lane!Begin, laneQueue, laneBusy
    <2> QED BY <2>0, <2>6 DEF LaneStep, Lane!Next
  <1> QED BY <1>5, <1>6

(* A job that returns was the oldest of its lane and the one that ran. *)
LEMMA LaneEnds ==
    ASSUME LaneInv, TypeOK, NEW j \in Jobs, SetPc(j, "returned"),
           pc[j] \in {"streaming", "closing", "working"}
    PROVE  LaneStep
  <1> USE DEF LaneInv
  <1>0. /\ UNCHANGED <<started, project>>
        /\ pc' = [pc EXCEPT ![j] = "returned"]
        /\ pc \in [Jobs -> {"new", "queued", "journaling", "streaming", "working",
                            "closing", "returned", "unhooked"}]
    BY DEF SetPc, LaneTypeOK
  <1>1. \A i \in Jobs : InLane(i)' <=> InLane(i)
    BY <1>0 DEF InLane
  <1>2. \A i \in Jobs : i # j => (Over(i)' <=> Over(i)) /\ (Begun(i)' <=> Begun(i))
    BY <1>0 DEF Over, Begun
  <1>3. Over(j)' /\ ~Over(j) /\ Begun(j)
    BY <1>0 DEF Begun, Over
  <1>4. \A q : Waiting(q)' = Waiting(q) \ {j}
    BY <1>0, <1>1, <1>2, <1>3 DEF Waiting
  <1>5. CASE ~InLane(j)
    <2>1. \A q : j \notin Waiting(q)
      BY <1>5 DEF Waiting
    <2>2. \A q : Waiting(q)' = Waiting(q)
      BY <1>4, <2>1
    <2> QED BY <1>2, <2>1, <2>2, LaneStutters, WaitingJobs DEF LaneStep
  <1>6. CASE InLane(j)
    <2>p. PICK p \in Projects : p = project[j]
      BY <1>6 DEF InLane, LaneTypeOK
    <2>0. p \in Projects /\ p = project[j] /\ j \in Waiting(p)
      BY <1>3, <1>6, <2>p DEF Waiting
    <2>1. ASSUME NEW i \in Waiting(p), i # j PROVE j < i /\ ~Begun(i)
      <3>1. i \in Jobs /\ InLane(i) /\ project[i] = project[j] /\ ~Over(i)
        BY <2>0, <2>1 DEF Waiting
      <3>2. i < j => pc[i] = "unhooked"
        BY <1>6, <3>1 DEF OthersOver
      <3>3. j < i
        BY <2>1, <3>1, <3>2 DEF Over, Jobs
      <3>4. pc[i] # "queued" => pc[j] = "unhooked"
        BY <1>6, <3>1, <3>3 DEF OthersOver
      <3> QED BY <3>3, <3>4 DEF Begun, Over
    <2>2. p \in laneBusy
      BY <1>3, <2>0 DEF laneBusy
    <2>3. laneBusy' = laneBusy \ {p}
      <3>1. \A q \in Projects : q # p => j \notin Waiting(q)
        BY <2>0 DEF Waiting
      <3>2. \A q \in Projects : (\E i \in Waiting(q)' : Begun(i)') <=>
                                    (q # p /\ \E i \in Waiting(q) : Begun(i))
        BY <1>2, <1>4, <2>1, <3>1, WaitingJobs
      <3> QED BY <2>0, <3>2 DEF laneBusy
    <2>4. LaneQueue(p)' = Tail(LaneQueue(p))
      <3>1. \A i \in Waiting(p) : j <= i
        <4>1. j \in Int /\ \A i \in Waiting(p) : i \in Int
          BY WaitingJobs DEF Jobs
        <4> QED BY <2>1, <4>1
      <3>2. OrderOf(Waiting(p) \ {j}) = Tail(OrderOf(Waiting(p)))
        BY <2>0, <3>1, WaitingJobs, OrderLeave
      <3>3. Waiting(p)' = Waiting(p) \ {j}
        BY <1>4
      <3> QED BY <3>2, <3>3, QueueIsOrder, QueueIsOrderNext
    <2>5. \A q \in Projects : q # p => LaneQueue(q)' = LaneQueue(q)
      <3>1. \A q \in Projects : q # p => Waiting(q)' = Waiting(q)
        BY <1>4, <2>0 DEF Waiting
      <3> QED BY <3>1, QueueIsOrder, QueueIsOrderNext
    <2>6. laneQueue' = [laneQueue EXCEPT ![p] = Tail(@)]
      BY <2>0, <2>4, <2>5 DEF laneQueue
    <2>7. Lane!End(p)
      BY <2>2, <2>3, <2>6 DEF Lane!End, laneQueue, laneBusy
    <2> QED BY <2>0, <2>7 DEF LaneStep, Lane!Next
  <1> QED BY <1>5, <1>6

(* Every step of the registry is a step of the lanes, or none. *)
LEMMA LaneStepNext == LaneInv /\ LaneInv' /\ TypeOK /\ [Next]_vars => LaneStep
  <1> SUFFICES ASSUME LaneInv, LaneInv', TypeOK, [Next]_vars PROVE LaneStep
    OBVIOUS
  <1>1. ASSUME UNCHANGED laneVars PROVE LaneStep
    BY <1>1, LaneStutters DEF LaneStep, laneVars, Waiting, InLane, Over, Begun
  <1>2. ASSUME NEW j \in Jobs, UNCHANGED <<started, project>>,
               \A i \in Jobs : (Over(i)' <=> Over(i)) /\ (Begun(i)' <=> Begun(i))
        PROVE  LaneStep
    BY <1>2, LaneStutters DEF LaneStep, Waiting, InLane
  <1>3. ASSUME NEW j \in Jobs, NEW p \in Projects \cup {NoProject},
               Start(j, p) \/ Exclusive(j, p)
        PROVE  LaneStep
    BY <1>3, LaneJoins DEF Start, Exclusive
  <1>4. ASSUME NEW j \in Jobs, JobStep(j) PROVE LaneStep
    <2> USE DEF LaneInv, LaneTypeOK
    <2>1. CASE Begin(j)
      BY <2>1, LaneBegins
    <2>2. CASE JournalStart(j)
      BY <1>2, <2>2 DEF JournalStart, SetPc, Over, Begun
    <2>3. ASSUME NEW e \in {"step", "done", "error"}, Yield(j, e) PROVE LaneStep
      BY <1>2, <2>3 DEF Yield, SetPc, Over, Begun
    <2>4. CASE Throw(j)
      BY <2>4, LaneEnds DEF Throw
    <2>5. CASE EndStream(j)
      BY <2>5, LaneEnds DEF EndStream
    <2>6. CASE EndDirect(j)
      BY <2>6, LaneEnds DEF EndDirect
    <2>7. CASE Unhook(j)
      BY <1>2, <2>7 DEF Unhook, Over, Begun
    <2> QED BY <1>4, <2>1, <2>2, <2>3, <2>4, <2>5, <2>6, <2>7 DEF JobStep
  <1>5. ASSUME NEW j \in Jobs, JournalFinish(j) PROVE LaneStep
    BY <1>1, <1>5 DEF JournalFinish
  <1>6. ASSUME NEW j \in Jobs, NEW c \in Clients, Follow(c, j) PROVE LaneStep
    BY <1>1, <1>6 DEF Follow
  <1>7. ASSUME NEW c \in Clients, Leave(c) PROVE LaneStep
    BY <1>1, <1>7 DEF Leave
  <1>8. CASE Look \/ Tick \/ UNCHANGED vars
    BY <1>1, <1>8 DEF Look, Tick, vars
  <1> QED BY <1>3, <1>4, <1>5, <1>6, <1>7, <1>8 DEF Next

LEMMA LaneStepInit == Init => Lane!Init
  <1> SUFFICES ASSUME Init PROVE Lane!Init
    OBVIOUS
  <1>1. \A p : Waiting(p) = {}
    BY DEF Init, Waiting, InLane, Jobs
  <1>2. \A p : LaneQueue(p) = << >>
    <2>1. Cardinality({}) = 0
      BY FS_EmptySet
    <2> QED BY <1>1, <2>1 DEF LaneQueue
  <1> QED BY <1>1, <1>2 DEF Lane!Init

(* The promise chain implements the first-in-first-out lane: ProjectLane's
   specification holds of the jobs that are not over. *)
THEOREM ChainIsLane == Spec => LaneImplemented
  <1>1. LaneInv /\ LaneInv' /\ TypeOK /\ [Next]_vars => [Lane!Next]_(Lane!laneVars)
    BY LaneStepNext DEF LaneStep, Lane!laneVars, laneQueue, laneBusy
  <1> QED BY LaneInvInit, LaneInvNext, LaneStepInit, TypeCorrect, <1>1, PTL
          DEF Spec, LaneImplemented, Lane!Spec
=============================================================================
