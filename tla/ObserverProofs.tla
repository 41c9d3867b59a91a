---------------------------- MODULE ObserverProofs ----------------------------
(***************************************************************************)
(* The live side of the dashboard, for any listeners, services, watches    *)
(* and channels: the views of the status channel, the subscriptions of the *)
(* page's socket, the upstream that listeners of a container share, the    *)
(* page that follows an operation, and the rows of a project's services.   *)
(***************************************************************************)
EXTENDS StatusChannel, ObserverClient, StatsChannel, OpFollow, ServiceStatus, FiniteSetTheorems, SequenceTheorems,
        WellFoundedInduction, TLAPS

-----------------------------------------------------------------------------
(* StatusChannel: types *)

Seen == Statuses \cup {Nothing}
EntryType ==
    [listeners : SUBSET Listeners, fresh : SUBSET Listeners, last : Seen, failing : BOOLEAN,
     refreshing : BOOLEAN, dirty : BOOLEAN, debounce : BOOLEAN]
LoadType == [phase : {"idle", "called"}, at : Nat, found : Seen] \cup [phase : {"read"}, at : Nat, found : Statuses]

StatusTyped ==
    /\ rows \in Statuses
    /\ version \in Nat /\ asked \in Nat /\ answered \in Nat
    /\ current \in 1..MaxWatches
    /\ watched \in BOOLEAN
    /\ entry \in EntryType
    /\ load \in [1..MaxWatches -> LoadType]
    /\ events \in {"closed", "open", "retry"}
    /\ view \in [Listeners -> Seen]

(* What each listener believes. *)
ViewsTrue ==
    /\ \A l \in Listeners \ entry.listeners : view[l] = Nothing
    /\ \A l \in entry.listeners : view[l] = IF l \in entry.fresh THEN Nothing ELSE entry.last
    /\ entry.last = Nothing => entry.listeners \subseteq entry.fresh
    /\ entry.last # Nothing => entry.fresh = {}

(* The entry's load, and what it will stand for. *)
LoadsTrue ==
    /\ asked <= version
    /\ watched => (entry.refreshing <=> load[current].phase # "idle")
    /\ entry.dirty => entry.refreshing
    /\ watched /\ entry.refreshing /\ ~entry.dirty => load[current].at >= asked
    /\ watched /\ ~entry.refreshing => answered >= asked

StatusInv == StatusTyped /\ WatchedWhileUsed /\ ViewsTrue /\ LoadsTrue

(* A status taken through the difference to the next one is the next one. *)
LEMMA ApplyDelta ==
    ASSUME NEW previous \in Statuses, NEW next \in Statuses
    PROVE  Apply(previous, Delta(previous, next)) = next
  <1>1. \A s \in Services :
          next[s] = IF s \in Delta(previous, next).removed THEN 0
                    ELSE IF s \in DOMAIN Delta(previous, next).changed
                         THEN Delta(previous, next).changed[s] ELSE previous[s]
    BY DEF Delta
  <1>2. next = [s \in Services |-> next[s]]
    BY DEF Statuses
  <1> QED BY <1>1, <1>2, Zenon DEF Apply

(* The channel begins with no entry. *)
LEMMA StatusBegins == Init => StatusInv
  <1> SUFFICES ASSUME Init PROVE StatusInv
    OBVIOUS
  <1>1. StatusTyped
    <2>1. rows \in Statuses
      BY BoundsAssumption DEF Init, Statuses
    <2>2. NewEntry \in EntryType /\ Idle \in LoadType
      BY DEF NewEntry, EntryType, Idle, LoadType, Seen
    <2>3. 1 \in 1..MaxWatches
      BY BoundsAssumption
    <2>4. load \in [1..MaxWatches -> LoadType] /\ view \in [Listeners -> Seen]
      BY <2>2 DEF Init, Seen
    <2> QED BY <2>1, <2>2, <2>3, <2>4 DEF Init, StatusTyped
  <1>2. WatchedWhileUsed /\ ViewsTrue /\ LoadsTrue
    BY DEF Init, NewEntry, WatchedWhileUsed, ViewsTrue, LoadsTrue
  <1> QED BY <1>1, <1>2 DEF StatusInv

(* A request keeps one load in flight and remembers itself. *)
LEMMA RequestKeeps ==
    ASSUME StatusTyped, asked <= version, NEW w \in 1..MaxWatches, NEW e \in EntryType,
           e.dirty => e.refreshing, e.refreshing <=> load[w].phase # "idle",
           Request(w, e)
    PROVE  /\ entry' \in EntryType /\ load' \in [1..MaxWatches -> LoadType]
           /\ entry'.listeners = e.listeners /\ entry'.fresh = e.fresh /\ entry'.last = e.last
           /\ entry'.refreshing /\ load'[w].phase # "idle"
           /\ ~entry'.dirty => load'[w].at >= asked'
           /\ watched' = TRUE /\ asked' = version
  <1>1. Called \in LoadType
    BY DEF Called, LoadType, Seen, StatusTyped
  <1>2. CASE e.refreshing
    BY <1>2 DEF Request, EntryType, StatusTyped
  <1>3. CASE ~e.refreshing
    <2>1. entry' = [e EXCEPT !.refreshing = TRUE] /\ load' = [load EXCEPT ![w] = Called]
      BY <1>3 DEF Request
    <2>2. load'[w] = Called /\ load' \in [1..MaxWatches -> LoadType]
      BY <2>1, <1>1 DEF StatusTyped
    <2>3. /\ entry' \in EntryType /\ entry'.refreshing
          /\ entry'.listeners = e.listeners /\ entry'.fresh = e.fresh /\ entry'.last = e.last
      BY <2>1 DEF EntryType
    <2>4. watched' = TRUE /\ asked' = version /\ load'[w].phase # "idle" /\ load'[w].at >= asked'
      BY <2>2 DEF Request, Called, StatusTyped
    <2> QED BY <2>2, <2>3, <2>4
  <1> QED BY <1>2, <1>3

(* The end of a load starts the next one when somebody asked for it. *)
LEMMA SettleKeeps ==
    ASSUME StatusTyped, NEW w \in 1..MaxWatches, NEW e \in EntryType, Settle(w, e)
    PROVE  /\ entry' \in EntryType /\ load' \in [1..MaxWatches -> LoadType]
           /\ entry'.listeners = e.listeners /\ entry'.fresh = e.fresh /\ entry'.last = e.last
           /\ ~entry'.dirty
           /\ entry'.refreshing <=> (e.dirty /\ e.refreshing)
           /\ e.dirty => load'[w].phase # "idle" /\ load'[w].at = version
           /\ ~e.dirty => load'[w].phase = "idle"
  <1>1. Called \in LoadType /\ Idle \in LoadType
    BY DEF Called, Idle, LoadType, Seen, StatusTyped
  <1>2. CASE e.dirty
    <2>1. entry' = [e EXCEPT !.dirty = FALSE] /\ load' = [load EXCEPT ![w] = Called]
      BY <1>2 DEF Settle
    <2>2. load'[w] = Called /\ load' \in [1..MaxWatches -> LoadType]
      BY <2>1, <1>1 DEF StatusTyped
    <2> QED BY <2>1, <2>2, <1>2 DEF EntryType, Called
  <1>3. CASE ~e.dirty
    <2>1. entry' = [e EXCEPT !.refreshing = FALSE] /\ load' = [load EXCEPT ![w] = Idle]
      BY <1>3 DEF Settle
    <2>2. load'[w] = Idle /\ load' \in [1..MaxWatches -> LoadType]
      BY <2>1, <1>1 DEF StatusTyped
    <2> QED BY <2>1, <2>2, <1>3 DEF EntryType, Idle
  <1> QED BY <1>2, <1>3

-----------------------------------------------------------------------------
(* StatusChannel: the steps *)

(* The source reading the containers, or a load whose entry is gone. *)
LEMMA LoadReadsKeeps ==
    ASSUME StatusInv, NEW w \in 1..MaxWatches, LoadReads(w) \/ LoadIgnored(w)
    PROVE  StatusInv'
  <1> USE DEF StatusInv
  <1>1. CASE LoadReads(w)
    <2> DEFINE found == [phase |-> "read", at |-> version, found |-> rows]
    <2>1. found \in LoadType
      BY DEF LoadType, StatusTyped
    <2>2. load' \in [1..MaxWatches -> LoadType] /\ load' = [load EXCEPT ![w] = found]
      BY <1>1, <2>1 DEF LoadReads, StatusTyped
    <2>3. StatusTyped' /\ WatchedWhileUsed' /\ ViewsTrue'
      BY <1>1, <2>2 DEF LoadReads, StatusTyped, WatchedWhileUsed, ViewsTrue, EntryType
    <2>4. load'[current].phase # "idle" <=> load[current].phase # "idle"
      BY <1>1, <2>2 DEF LoadReads, StatusTyped
    <2>5. load'[current].at = load[current].at \/ load'[current].at = version
      BY <1>1, <2>2 DEF LoadReads, StatusTyped
    <2>6. LoadsTrue'
      BY <1>1, <2>4, <2>5 DEF LoadReads, LoadsTrue, StatusTyped
    <2> QED BY <2>3, <2>6
  <1>2. CASE LoadIgnored(w)
    <2>1. Idle \in LoadType
      BY DEF LoadType, Idle, Seen
    <2>2. load' \in [1..MaxWatches -> LoadType] /\ load' = [load EXCEPT ![w] = Idle]
      BY <1>2, <2>1 DEF LoadIgnored, StatusTyped
    <2>3. StatusTyped' /\ WatchedWhileUsed' /\ ViewsTrue'
      BY <1>2, <2>2 DEF LoadIgnored, StatusTyped, WatchedWhileUsed, ViewsTrue, EntryType
    <2>4. watched => load'[current] = load[current]
      BY <1>2, <2>2 DEF LoadIgnored, Current, StatusTyped
    <2>6. LoadsTrue'
      BY <1>2, <2>4 DEF LoadIgnored, LoadsTrue, StatusTyped
    <2> QED BY <2>3, <2>6
  <1> QED BY <1>1, <1>2

(* A load that was published: every listener holds it. *)
LEMMA LoadOkKeeps ==
    ASSUME StatusInv, NEW w \in 1..MaxWatches, LoadOk(w)
    PROVE  StatusInv'
  <1> DEFINE next == load[w].found
             e == [entry EXCEPT !.last = next, !.fresh = {}, !.failing = FALSE]
  <1> USE DEF StatusInv
  <1>1. watched /\ w = current /\ load[w].phase = "read"
    BY DEF LoadOk, Current
  <1>2. next \in Statuses
    BY <1>1 DEF StatusTyped, LoadType
  <1>3. e \in EntryType
    BY <1>2 DEF StatusTyped, EntryType, Seen
  <1>4. Settle(w, e) /\ entry.refreshing
    BY <1>1 DEF LoadOk, LoadsTrue
  <1>5. /\ e.listeners = entry.listeners /\ e.fresh = {} /\ e.last = next
        /\ e.dirty = entry.dirty /\ e.refreshing = entry.refreshing
    BY <1>2 DEF StatusTyped, EntryType
  <1> HIDE DEF e, next
  <1>6. /\ entry' \in EntryType /\ load' \in [1..MaxWatches -> LoadType]
        /\ entry'.listeners = entry.listeners /\ entry'.fresh = {} /\ entry'.last = next
        /\ ~entry'.dirty
        /\ entry'.refreshing <=> entry.dirty
        /\ entry.dirty => load'[w].phase # "idle" /\ load'[w].at = version
        /\ ~entry.dirty => load'[w].phase = "idle"
    BY <1>3, <1>4, <1>5, SettleKeeps
  <1>7. view' = Published(next)
    BY DEF LoadOk, next
  <1>8. \A l \in Listeners : view'[l] = IF l \in entry.listeners THEN next ELSE Nothing
    <2> TAKE l \in Listeners
    <2>1. CASE l \notin entry.listeners
      BY <1>7, <2>1 DEF Published, ViewsTrue
    <2>2. CASE l \in entry.fresh
      BY <1>7, <2>2 DEF Published, WatchedWhileUsed
    <2>3. CASE l \in entry.listeners \ entry.fresh
      <3>1. entry.last # Nothing /\ view[l] = entry.last
        BY <2>3 DEF ViewsTrue
      <3>2. entry.last \in Statuses
        BY <3>1 DEF StatusTyped, EntryType, Seen
      <3>3. view'[l] = Apply(entry.last, Delta(entry.last, next))
        BY <1>7, <2>3, <3>1 DEF Published
      <3> QED BY <1>2, <2>3, <3>2, <3>3, ApplyDelta
    <2> QED BY <2>1, <2>2, <2>3
  <1>9. next # Nothing
    BY <1>2, NothingAssumption DEF Statuses
  <1>10. StatusTyped'
    <2>1. view' \in [Listeners -> Seen]
      <3>1. view' = [l \in Listeners |-> view'[l]]
        BY <1>7 DEF Published
      <3>2. \A l \in Listeners : view'[l] \in Seen
        BY <1>2, <1>8 DEF Seen
      <3> QED BY <3>1, <3>2
    <2>2. answered' \in Nat
      BY <1>1 DEF LoadOk, StatusTyped, LoadType
    <2> QED BY <1>6, <2>1, <2>2 DEF LoadOk, StatusTyped
  <1>11. WatchedWhileUsed'
    BY <1>1, <1>6 DEF LoadOk, WatchedWhileUsed
  <1>12. ViewsTrue'
    BY <1>6, <1>8, <1>9 DEF ViewsTrue, StatusTyped, EntryType
  <1>13. LoadsTrue'
    BY <1>1, <1>4, <1>6 DEF LoadOk, LoadsTrue, StatusTyped, LoadType
  <1> QED BY <1>10, <1>11, <1>12, <1>13

(* A load that failed: nobody is sent a row. *)
LEMMA LoadFailsKeeps ==
    ASSUME StatusInv, NEW w \in 1..MaxWatches, LoadFails(w)
    PROVE  StatusInv'
  <1> DEFINE e == [entry EXCEPT !.failing = TRUE]
  <1> USE DEF StatusInv
  <1>1. watched /\ w = current /\ load[w].phase # "idle"
    BY DEF LoadFails, Current
  <1>3. e \in EntryType
    BY DEF StatusTyped, EntryType
  <1>4. Settle(w, e) /\ entry.refreshing
    BY <1>1 DEF LoadFails, LoadsTrue
  <1>5. /\ e.listeners = entry.listeners /\ e.fresh = entry.fresh /\ e.last = entry.last
        /\ e.dirty = entry.dirty /\ e.refreshing = entry.refreshing
    BY DEF StatusTyped, EntryType
  <1> HIDE DEF e
  <1>6. /\ entry' \in EntryType /\ load' \in [1..MaxWatches -> LoadType]
        /\ entry'.listeners = entry.listeners /\ entry'.fresh = entry.fresh /\ entry'.last = entry.last
        /\ ~entry'.dirty
        /\ entry'.refreshing <=> entry.dirty
        /\ entry.dirty => load'[w].phase # "idle" /\ load'[w].at = version
        /\ ~entry.dirty => load'[w].phase = "idle"
    BY <1>3, <1>4, <1>5, SettleKeeps
  <1>7. StatusTyped'
    <2>1. answered' \in Nat
      BY <1>1 DEF LoadFails, StatusTyped, LoadType
    <2> QED BY <1>6, <2>1 DEF LoadFails, StatusTyped
  <1>8. WatchedWhileUsed' /\ ViewsTrue'
    BY <1>1, <1>6 DEF LoadFails, WatchedWhileUsed, ViewsTrue
  <1>9. LoadsTrue'
    BY <1>1, <1>4, <1>6 DEF LoadFails, LoadsTrue, StatusTyped, LoadType
  <1> QED BY <1>7, <1>8, <1>9

(* A subscriber waits for the first load or gets what was published last. *)
LEMMA SubscribeKeeps ==
    ASSUME StatusInv, NEW l \in Listeners, NEW w \in 1..MaxWatches, Subscribe(l, w)
    PROVE  StatusInv'
  <1> DEFINE e == IF watched THEN entry ELSE NewEntry
             joined == [e EXCEPT !.listeners = @ \cup {l}]
             waiting == [joined EXCEPT !.fresh = @ \cup {l}]
  <1> USE DEF StatusInv
  <1>1. e = entry
    BY DEF WatchedWhileUsed
  <1>2. /\ joined \in EntryType /\ waiting \in EntryType
        /\ joined.listeners = entry.listeners \cup {l} /\ waiting.listeners = entry.listeners \cup {l}
        /\ joined.fresh = entry.fresh /\ waiting.fresh = entry.fresh \cup {l}
        /\ joined.last = entry.last /\ waiting.last = entry.last
        /\ waiting.dirty = entry.dirty /\ waiting.refreshing = entry.refreshing
        /\ joined.dirty = entry.dirty /\ joined.refreshing = entry.refreshing
    BY <1>1 DEF StatusTyped, EntryType
  <1>3. /\ l \notin entry.listeners
        /\ IF watched THEN w = current ELSE load[w] = Idle
        /\ current' = w /\ rows' = rows /\ version' = version
        /\ events' = IF events = "closed" THEN "open" ELSE events
    BY DEF Subscribe, WatchedWhileUsed, NewEntry
  <1>4. answered' \in Nat
    BY DEF Subscribe, StatusTyped
  <1>5. entry.refreshing <=> load[w].phase # "idle"
    BY <1>3 DEF LoadsTrue, WatchedWhileUsed, NewEntry, Idle
  <1>6. events' # "closed" /\ events' \in {"closed", "open", "retry"}
    BY <1>3 DEF StatusTyped
  <1>7. CASE entry.last = Nothing
    <2>1. Request(w, waiting) /\ view' = view
      BY <1>1, <1>7 DEF Subscribe
    <2>2. waiting.dirty => waiting.refreshing
      BY <1>2 DEF LoadsTrue
    <2>3. waiting.refreshing <=> load[w].phase # "idle"
      BY <1>2, <1>5
    <2> HIDE DEF e, joined, waiting
    <2>4. /\ entry' \in EntryType /\ load' \in [1..MaxWatches -> LoadType]
          /\ entry'.listeners = waiting.listeners /\ entry'.fresh = waiting.fresh /\ entry'.last = waiting.last
          /\ entry'.refreshing /\ load'[w].phase # "idle"
          /\ ~entry'.dirty => load'[w].at >= asked'
          /\ watched' = TRUE /\ asked' = version
      BY <2>1, <2>2, <2>3, <1>2, RequestKeeps DEF LoadsTrue
    <2>5. StatusTyped'
      BY <1>3, <1>4, <1>6, <2>1, <2>4 DEF StatusTyped
    <2>6. WatchedWhileUsed'
      BY <1>2, <1>6, <2>4 DEF WatchedWhileUsed
    <2>7. ViewsTrue'
      BY <1>2, <1>3, <1>7, <2>1, <2>4 DEF ViewsTrue
    <2>8. LoadsTrue'
      BY <1>3, <2>4 DEF LoadsTrue, StatusTyped
    <2> QED BY <2>5, <2>6, <2>7, <2>8
  <1>8. CASE entry.last # Nothing
    <2>1. /\ entry' = joined /\ view' = [view EXCEPT ![l] = entry.last]
          /\ watched' = watched /\ load' = load /\ asked' = asked
      BY <1>1, <1>8 DEF Subscribe
    <2>2. watched
      BY <1>8 DEF WatchedWhileUsed, NewEntry
    <2>3. answered' = answered /\ w = current
      BY <1>3, <2>2 DEF Subscribe
    <2> HIDE DEF e, joined, waiting
    <2>4. view' \in [Listeners -> Seen]
      BY <2>1 DEF StatusTyped, EntryType
    <2>5. StatusTyped'
      BY <1>2, <1>3, <1>4, <1>6, <2>1, <2>4 DEF StatusTyped
    <2>6. WatchedWhileUsed'
      BY <1>2, <1>6, <2>1, <2>2 DEF WatchedWhileUsed
    <2>7. ViewsTrue'
      <3>1. entry'.fresh = {} /\ entry'.listeners = entry.listeners \cup {l} /\ entry'.last = entry.last
        BY <1>2, <1>8, <2>1 DEF ViewsTrue
      <3>2. \A m \in Listeners : view'[m] = IF m = l THEN entry.last ELSE view[m]
        BY <2>1 DEF StatusTyped
      <3>3. entry.fresh = {}
        BY <1>8 DEF ViewsTrue
      <3>4. entry.listeners \subseteq Listeners
        BY DEF StatusTyped, EntryType
      <3> QED BY <1>8, <3>1, <3>2, <3>3, <3>4 DEF ViewsTrue
    <2>8. LoadsTrue'
      BY <1>2, <1>3, <2>1, <2>2, <2>3 DEF LoadsTrue
    <2> QED BY <2>5, <2>6, <2>7, <2>8
  <1> QED BY <1>7, <1>8

(* The last subscriber takes the entry away. *)
LEMMA DetachKeeps ==
    ASSUME StatusInv, NEW l \in Listeners, Detach(l)
    PROVE  StatusInv'
  <1> USE DEF StatusInv
  <1>1. /\ watched /\ l \in entry.listeners
        /\ view' = [view EXCEPT ![l] = Nothing]
        /\ rows' = rows /\ version' = version /\ current' = current /\ load' = load
        /\ asked' = asked /\ answered' = answered
    BY DEF Detach
  <1>2. view' \in [Listeners -> Seen]
    BY <1>1 DEF StatusTyped, Seen
  <1>3. \A m \in Listeners : view'[m] = IF m = l THEN Nothing ELSE view[m]
    BY <1>1 DEF StatusTyped
  <1>4. CASE entry.listeners = {l}
    <2>1. watched' = FALSE /\ entry' = NewEntry /\ events' = "closed"
      BY <1>4 DEF Detach
    <2>2. NewEntry \in EntryType
      BY DEF NewEntry, EntryType, Seen
    <2>3. StatusTyped'
      BY <1>1, <1>2, <2>1, <2>2 DEF StatusTyped
    <2>4. WatchedWhileUsed' /\ ViewsTrue' /\ LoadsTrue'
      BY <1>1, <1>3, <1>4, <2>1 DEF NewEntry, WatchedWhileUsed, ViewsTrue, LoadsTrue
    <2> QED BY <2>3, <2>4
  <1>5. CASE entry.listeners # {l}
    <2>1. /\ entry' = [entry EXCEPT !.listeners = @ \ {l}, !.fresh = @ \ {l}]
          /\ watched' = watched /\ events' = events
      BY <1>5 DEF Detach
    <2>2. /\ entry' \in EntryType
          /\ entry'.listeners = entry.listeners \ {l} /\ entry'.fresh = entry.fresh \ {l}
          /\ entry'.last = entry.last /\ entry'.dirty = entry.dirty /\ entry'.refreshing = entry.refreshing
      BY <2>1 DEF StatusTyped, EntryType
    <2>3. StatusTyped'
      BY <1>1, <1>2, <2>1, <2>2 DEF StatusTyped
    <2>4. WatchedWhileUsed'
      BY <1>1, <1>5, <2>1, <2>2 DEF WatchedWhileUsed
    <2>5. ViewsTrue' /\ LoadsTrue'
      BY <1>1, <1>3, <2>1, <2>2 DEF ViewsTrue, LoadsTrue
    <2> QED BY <2>3, <2>4, <2>5
  <1> QED BY <1>4, <1>5

(* Polling, a poke, and the end of a debounce ask for a load. *)
LEMMA ReloadKeeps ==
    ASSUME StatusInv, Poll \/ DebounceFires
    PROVE  StatusInv'
  <1> USE DEF StatusInv
  <1>1. PICK e : /\ Reload(e) /\ watched /\ e \in EntryType
                 /\ e.listeners = entry.listeners /\ e.fresh = entry.fresh /\ e.last = entry.last
                 /\ e.dirty = entry.dirty /\ e.refreshing = entry.refreshing
    <2>1. CASE Poll
      BY <2>1 DEF Poll, StatusTyped
    <2>2. CASE DebounceFires
      <3>1. Reload([entry EXCEPT !.debounce = FALSE]) /\ watched
        BY <2>2 DEF DebounceFires, WatchedWhileUsed, NewEntry
      <3>2. [entry EXCEPT !.debounce = FALSE] \in EntryType
        BY DEF StatusTyped, EntryType
      <3> QED BY <3>1, <3>2 DEF StatusTyped, EntryType
    <2> QED BY <2>1, <2>2
  <1>2. Request(current, e) /\ UNCHANGED <<rows, version, current, events, view, answered>>
    BY <1>1 DEF Reload
  <1>3. current \in 1..MaxWatches
    BY DEF StatusTyped
  <1>4. /\ entry' \in EntryType /\ load' \in [1..MaxWatches -> LoadType]
        /\ entry'.listeners = e.listeners /\ entry'.fresh = e.fresh /\ entry'.last = e.last
        /\ entry'.refreshing /\ load'[current].phase # "idle"
        /\ ~entry'.dirty => load'[current].at >= asked'
        /\ watched' = TRUE /\ asked' = version
    BY <1>1, <1>2, <1>3, RequestKeeps DEF LoadsTrue
  <1>5. StatusTyped'
    BY <1>2, <1>4 DEF StatusTyped
  <1>6. WatchedWhileUsed' /\ ViewsTrue'
    BY <1>1, <1>2, <1>4 DEF WatchedWhileUsed, ViewsTrue
  <1>7. LoadsTrue'
    BY <1>2, <1>4 DEF LoadsTrue, StatusTyped
  <1> QED BY <1>5, <1>6, <1>7

(* Events of Docker, their stream, and the containers. *)
LEMMA OutsideKeeps ==
    ASSUME StatusInv,
           EventArrives \/ EventsBreak \/ EventsRetry \/ \E s \in Services, r \in Rows : Change(s, r)
    PROVE  StatusInv'
  <1> USE DEF StatusInv
  <1>1. CASE EventArrives
    <2>1. /\ entry' \in EntryType
          /\ entry'.listeners = entry.listeners /\ entry'.fresh = entry.fresh /\ entry'.last = entry.last
          /\ entry'.dirty = entry.dirty /\ entry'.refreshing = entry.refreshing
          /\ ~watched => entry' = entry
      BY <1>1 DEF EventArrives, StatusTyped, EntryType
    <2>2. StatusTyped'
      BY <1>1, <2>1 DEF EventArrives, StatusTyped
    <2>3. WatchedWhileUsed' /\ ViewsTrue' /\ LoadsTrue'
      BY <1>1, <2>1 DEF EventArrives, WatchedWhileUsed, ViewsTrue, LoadsTrue
    <2> QED BY <2>2, <2>3
  <1>2. CASE EventsBreak \/ EventsRetry
    <2>1. StatusTyped'
      BY <1>2 DEF EventsBreak, EventsRetry, StatusTyped
    <2>2. WatchedWhileUsed' /\ ViewsTrue' /\ LoadsTrue'
      BY <1>2 DEF EventsBreak, EventsRetry, WatchedWhileUsed, ViewsTrue, LoadsTrue
    <2> QED BY <2>1, <2>2
  <1>3. CASE \E s \in Services, r \in Rows : Change(s, r)
    <2>1. PICK s \in Services, r \in Rows : Change(s, r)
      BY <1>3
    <2>2. rows' \in Statuses /\ version' \in Nat /\ version' >= version
      BY <2>1 DEF Change, StatusTyped, Statuses
    <2>3. StatusTyped'
      BY <2>1, <2>2 DEF Change, StatusTyped
    <2>4. WatchedWhileUsed' /\ ViewsTrue' /\ LoadsTrue'
      BY <2>1, <2>2 DEF Change, WatchedWhileUsed, ViewsTrue, LoadsTrue, StatusTyped
    <2> QED BY <2>3, <2>4
  <1> QED BY <1>1, <1>2, <1>3

LEMMA StatusKept == StatusInv /\ [Next]_vars => StatusInv'
  <1> SUFFICES ASSUME StatusInv, [Next]_vars PROVE StatusInv'
    OBVIOUS
  <1>1. CASE Next
    BY <1>1, LoadReadsKeeps, LoadOkKeeps, LoadFailsKeeps, SubscribeKeeps, DetachKeeps,
       ReloadKeeps, OutsideKeeps, Zenon DEF Next
  <1>2. CASE UNCHANGED vars
    BY <1>2 DEF vars, StatusInv, StatusTyped, WatchedWhileUsed, ViewsTrue, LoadsTrue
  <1> QED BY <1>1, <1>2

(* Through joins, leaves, failed loads and loads that outlive their watch, a
   subscriber that applied its snapshot and every delta holds the status last
   published, and no request to reload is lost (status.channel.ts: subscribe,
   refresh, publish). *)
THEOREM ViewsStayInStep == Spec => []ViewsInStep
  <1>1. StatusInv => ViewsInStep
    BY DEF StatusInv, ViewsInStep, NoRequestLost, ViewsTrue, LoadsTrue
  <1> QED BY StatusBegins, StatusKept, <1>1, PTL DEF Spec

-----------------------------------------------------------------------------
(* ObserverClient: the socket and the hub *)

Message == [type : {"subscribe", "unsubscribe"}, channel : Watched]

ClientTyped ==
  /\ users \in [Watched -> Nat]
  /\ socket \in {"none", "connecting", "open"}
  /\ retry \in BOOLEAN /\ idle \in BOOLEAN
  /\ up \in Seq(Message)
  /\ hub \in [Watched -> {"none", "fresh", "live"}]

(* The i-th message is the newest about its channel. *)
LastAbout(p, i) == up[i].channel = p /\ \A j \in DOMAIN up : j > i => up[j].channel # p

(* The newest message about a channel, else the hub, says whether it is used. *)
WordKept ==
  \A p \in Watched :
    /\ \A i \in DOMAIN up : LastAbout(p, i) => (up[i].type = "subscribe" <=> users[p] > 0)
    /\ (\A i \in DOMAIN up : up[i].channel # p) /\ socket = "open" => (hub[p] # "none" <=> users[p] > 0)

(* Who sees to the connection. *)
ConnectionKept ==
  /\ socket # "open" => up = <<>> /\ hub = [p \in Watched |-> "none"]
  /\ idle => Subscribed = {}
  /\ retry => socket = "none"
  /\ retry /\ Subscribed = {} => idle
  /\ Subscribed # {} => socket # "none" \/ retry
  /\ Subscribed = {} /\ socket # "none" => idle

ClientInv == ClientTyped /\ WordKept /\ ConnectionKept

LEMMA ClientBegins == InitObserver => ClientInv
  <1> SUFFICES ASSUME InitObserver PROVE ClientInv
    OBVIOUS
  <1>1. ClientTyped /\ ConnectionKept
    <2>1. \A p \in Watched : users[p] = 0
      BY DEF InitObserver
    <2>2. Subscribed = {}
      BY <2>1 DEF Subscribed
    <2>3. ClientTyped
      <3>1. users \in [Watched -> Nat] /\ hub \in [Watched -> {"none", "fresh", "live"}]
        BY DEF InitObserver
      <3>2. up \in Seq(Message)
        BY DEF InitObserver
      <3> QED BY <3>1, <3>2 DEF InitObserver, ClientTyped
    <2> QED BY <2>2, <2>3 DEF InitObserver, ConnectionKept
  <1>2. WordKept
    BY DEF InitObserver, WordKept, LastAbout
  <1> QED BY <1>1, <1>2 DEF ClientInv

(* A message that is sent speaks for the users there are then. *)
LEMMA SentUpKeeps ==
  ASSUME ClientInv, NEW p \in Watched, NEW type \in {"subscribe", "unsubscribe"},
         SendUp(type, p), users' \in [Watched -> Nat],
         \A q \in Watched : q # p => users'[q] = users[q],
         type = "subscribe" <=> users'[p] > 0,
         hub' = hub, socket' = "open" <=> socket = "open"
  PROVE  up' \in Seq(Message) /\ WordKept' /\ (socket # "open" => up' = up)
  <1> USE DEF ClientInv
  <1>1. CASE socket = "open"
    <2> DEFINE m == [type |-> type, channel |-> p]
    <2>1. up' = Append(up, m) /\ m \in Message
      BY <1>1 DEF SendUp, Message
    <2> HIDE DEF m
    <2>2. /\ up' \in Seq(Message) /\ DOMAIN up' = 1..Len(up) + 1 /\ DOMAIN up = 1..Len(up)
          /\ Len(up) \in Nat /\ up'[Len(up) + 1] = m
          /\ \A i \in 1..Len(up) : up'[i] = up[i]
      BY <2>1 DEF ClientTyped
    <2>3. \A i \in DOMAIN up' : LastAbout(p, i)' => i = Len(up) + 1
      BY <2>2 DEF LastAbout, m
    <2>4. \A q \in Watched : q # p => \A i \in DOMAIN up' : LastAbout(q, i)' => i \in DOMAIN up /\ LastAbout(q, i)
      BY <2>2 DEF LastAbout, m
    <2>5. \A q \in Watched, i \in DOMAIN up' : LastAbout(q, i)' => (up'[i].type = "subscribe" <=> users'[q] > 0)
      <3> SUFFICES ASSUME NEW q \in Watched, NEW i \in DOMAIN up', LastAbout(q, i)'
                   PROVE  up'[i].type = "subscribe" <=> users'[q] > 0
        OBVIOUS
      <3>1. CASE q = p
        BY <3>1, <2>2, <2>3 DEF m
      <3>2. CASE q # p
        <4>1. i \in DOMAIN up /\ LastAbout(q, i)
          BY <2>4, <3>2
        <4> QED BY <3>2, <4>1, <2>2 DEF WordKept
      <3> QED BY <3>1, <3>2
    <2>6. \A q \in Watched : (\A i \in DOMAIN up' : up'[i].channel # q) =>
            q # p /\ \A i \in DOMAIN up : up[i].channel # q
      BY <2>2 DEF m
    <2> QED BY <1>1, <2>2, <2>5, <2>6 DEF WordKept
  <1>2. CASE socket # "open"
    <2>1. up' = up /\ up = <<>>
      BY <1>2 DEF SendUp, ConnectionKept
    <2> QED BY <1>2, <2>1 DEF WordKept, ClientTyped
  <1> QED BY <1>1, <1>2

LEMMA SubscribeChannelKeeps ==
  ASSUME ClientInv, NEW p \in Watched, SubscribeChannel(p)
  PROVE  ClientInv'
  <1> USE DEF ClientInv
  <1>1. /\ users' = [users EXCEPT ![p] = @ + 1] /\ idle' = FALSE
        /\ socket' = IF socket = "none" /\ ~retry THEN "connecting" ELSE socket
        /\ retry' = retry /\ hub' = hub
    BY DEF SubscribeChannel
  <1>2. /\ users' \in [Watched -> Nat] /\ users'[p] = users[p] + 1
        /\ \A q \in Watched : q # p => users'[q] = users[q]
    BY <1>1 DEF ClientTyped
  <1>3. socket' = "open" <=> socket = "open"
    BY <1>1
  <1>4. up' \in Seq(Message) /\ WordKept' /\ (socket # "open" => up' = up)
    <2>1. CASE users[p] = 0
      <3>1. SendUp("subscribe", p)
        BY <2>1 DEF SubscribeChannel
      <3> QED BY <1>1, <1>2, <1>3, <2>1, <3>1, SentUpKeeps DEF ClientTyped
    <2>2. CASE users[p] # 0
      <3>1. up' = up
        BY <2>2 DEF SubscribeChannel
      <3>2. \A q \in Watched : users'[q] > 0 <=> users[q] > 0
        <4>1. users[p] \in Nat /\ users[p] > 0 /\ users'[p] > 0
          BY <1>2, <2>2 DEF ClientTyped
        <4> QED BY <1>2, <4>1
      <3> QED BY <1>1, <1>3, <3>1, <3>2 DEF WordKept, LastAbout, ClientTyped
    <2> QED BY <2>1, <2>2
  <1>5. ClientTyped'
    BY <1>1, <1>2, <1>4 DEF ClientTyped
  <1>6. ConnectionKept'
    <2>1. p \in Subscribed'
      BY <1>2 DEF Subscribed, ClientTyped
    <2> QED BY <1>1, <1>3, <1>4, <2>1 DEF ConnectionKept, ClientTyped
  <1> QED BY <1>4, <1>5, <1>6

LEMMA ReleaseChannelKeeps ==
  ASSUME ClientInv, NEW p \in Watched, ReleaseChannel(p)
  PROVE  ClientInv'
  <1> USE DEF ClientInv
  <1>1. /\ users[p] > 0 /\ users' = [users EXCEPT ![p] = @ - 1]
        /\ idle' = (idle \/ (Subscribed = {p} /\ users[p] = 1))
        /\ socket' = socket /\ retry' = retry /\ hub' = hub
    BY DEF ReleaseChannel
  <1>2. /\ users' \in [Watched -> Nat] /\ users'[p] = users[p] - 1
        /\ \A q \in Watched : q # p => users'[q] = users[q]
    BY <1>1 DEF ClientTyped
  <1>3. up' \in Seq(Message) /\ WordKept' /\ (socket # "open" => up' = up)
    <2>1. CASE users[p] = 1
      <3>1. SendUp("unsubscribe", p)
        BY <2>1 DEF ReleaseChannel
      <3>2. ~(users'[p] > 0)
        BY <1>2, <2>1
      <3> QED BY <1>1, <1>2, <3>1, <3>2, SentUpKeeps
    <2>2. CASE users[p] # 1
      <3>1. up' = up
        BY <2>2 DEF ReleaseChannel
      <3>2. \A q \in Watched : users'[q] > 0 <=> users[q] > 0
        BY <1>1, <1>2, <2>2 DEF ClientTyped
      <3> QED BY <1>1, <3>1, <3>2 DEF WordKept, LastAbout, ClientTyped
    <2> QED BY <2>1, <2>2
  <1>4. ClientTyped'
    BY <1>1, <1>2, <1>3 DEF ClientTyped
  <1>5. ConnectionKept'
    <2>1. Subscribed' = IF users[p] = 1 THEN Subscribed \ {p} ELSE Subscribed
      BY <1>1, <1>2 DEF Subscribed, ClientTyped
    <2>2. p \in Subscribed
      BY <1>1 DEF Subscribed
    <2>3. idle' <=> Subscribed' = {}
      BY <1>1, <2>1, <2>2 DEF ConnectionKept
    <2> QED BY <1>1, <1>3, <2>2, <2>3 DEF ConnectionKept
  <1> QED BY <1>3, <1>4, <1>5

(* A connection that is gone takes its messages and the hub's entries along. *)
LEMMA UnpluggedKeeps ==
  ASSUME ClientInv, IdleClose \/ SocketLost
  PROVE  ClientInv'
  <1> USE DEF ClientInv
  <1>1. /\ up' = <<>> /\ hub' = [p \in Watched |-> "none"]
        /\ socket' = "none" /\ users' = users
    BY DEF IdleClose, SocketLost, Unplugged
  <1>2. Subscribed' = Subscribed
    BY <1>1 DEF Subscribed
  <1>3. ClientTyped'
    <2>1. retry' \in BOOLEAN /\ idle' \in BOOLEAN
      BY DEF IdleClose, SocketLost, ClientTyped
    <2> QED BY <1>1, <2>1 DEF ClientTyped
  <1>4. WordKept'
    BY <1>1 DEF WordKept
  <1>5. ConnectionKept'
    <2>1. CASE IdleClose
      BY <1>1, <1>2, <2>1 DEF IdleClose, ConnectionKept
    <2>2. CASE SocketLost
      BY <1>1, <1>2, <2>2 DEF SocketLost, ConnectionKept
    <2> QED BY <2>1, <2>2
  <1> QED BY <1>3, <1>4, <1>5

(* Every channel in use is asked for again on a new connection. *)
LEMMA SocketOpensKeeps ==
  ASSUME ClientInv, SocketOpens
  PROVE  ClientInv'
  <1> USE DEF ClientInv
  <1>1. /\ socket = "connecting" /\ socket' = "open"
        /\ users' = users /\ retry' = retry /\ idle' = idle /\ hub' = hub
    BY DEF SocketOpens
  <1>2. PICK order \in [1..Cardinality(Subscribed) -> Subscribed] :
          /\ {order[i] : i \in DOMAIN order} = Subscribed
          /\ up' = [i \in DOMAIN order |-> [type |-> "subscribe", channel |-> order[i]]]
    BY DEF SocketOpens
  <1>3. Cardinality(Subscribed) \in Nat
    <2>1. IsFiniteSet(Subscribed)
      BY WatchedAssumption, FS_Subset DEF Subscribed
    <2> QED BY <2>1, FS_CardinalityType
  <1>4. /\ up' \in Seq(Message) /\ DOMAIN up' = DOMAIN order
        /\ \A i \in DOMAIN up' : up'[i].type = "subscribe" /\ up'[i].channel = order[i] /\ order[i] \in Subscribed
    <2>1. \A i \in DOMAIN order : [type |-> "subscribe", channel |-> order[i]] \in Message
      BY <1>2 DEF Message, Subscribed
    <2>2. up' \in [1..Cardinality(Subscribed) -> Message]
      BY <1>2, <2>1
    <2>3. up' \in Seq(Message)
      BY <1>3, <2>2
    <2> QED BY <1>2, <2>3
  <1>5. ClientTyped'
    BY <1>1, <1>4 DEF ClientTyped
  <1>6. WordKept'
    <2> SUFFICES ASSUME NEW p \in Watched
                 PROVE  /\ \A i \in DOMAIN up' : LastAbout(p, i)' => (up'[i].type = "subscribe" <=> users'[p] > 0)
                        /\ (\A i \in DOMAIN up' : up'[i].channel # p) => (hub'[p] # "none" <=> users'[p] > 0)
      BY DEF WordKept
    <2>1. \A i \in DOMAIN up' : LastAbout(p, i)' => users[p] > 0
      BY <1>4 DEF LastAbout, Subscribed
    <2>2. (\A i \in DOMAIN up' : up'[i].channel # p) => p \notin Subscribed
      BY <1>2, <1>4
    <2>3. hub'[p] = "none"
      BY <1>1 DEF ConnectionKept
    <2> QED BY <1>1, <1>4, <2>1, <2>2, <2>3 DEF Subscribed
  <1>7. ConnectionKept'
    <2>1. Subscribed' = Subscribed
      BY <1>1 DEF Subscribed
    <2> QED BY <1>1, <2>1 DEF ConnectionKept
  <1> QED BY <1>5, <1>6, <1>7

(* The hub takes the messages in order. *)
LEMMA HubReceivesKeeps ==
  ASSUME ClientInv, NEW cached \in BOOLEAN, HubReceives(cached)
  PROVE  ClientInv'
  <1> DEFINE m == Head(up)
             c == m.channel
  <1> USE DEF ClientInv
  <1>1. /\ up # <<>> /\ up' = Tail(up)
        /\ users' = users /\ socket' = socket /\ retry' = retry /\ idle' = idle
    BY DEF HubReceives, clientVars
  <1>2. socket = "open"
    BY <1>1 DEF ConnectionKept
  <1>3. /\ Len(up) \in Nat \ {0} /\ DOMAIN up = 1..Len(up) /\ up[1] = m /\ m \in Message
        /\ up' \in Seq(Message) /\ DOMAIN up' = 1..Len(up) - 1
        /\ \A i \in DOMAIN up' : up'[i] = up[i + 1]
    BY <1>1 DEF ClientTyped
  <1>4. hub' = [hub EXCEPT ![c] = IF m.type = "unsubscribe" THEN "none" ELSE IF cached THEN "live" ELSE "fresh"]
    BY DEF HubReceives
  <1>5. c \in Watched
    BY <1>3 DEF Message
  <1> HIDE DEF m, c
  <1>6. /\ hub' \in [Watched -> {"none", "fresh", "live"}]
        /\ \A p \in Watched : p # c => hub'[p] = hub[p]
        /\ hub'[c] # "none" <=> m.type # "unsubscribe"
    BY <1>4, <1>5 DEF ClientTyped
  <1>7. ClientTyped'
    BY <1>1, <1>3, <1>6 DEF ClientTyped
  <1>8. WordKept'
    <2> SUFFICES ASSUME NEW p \in Watched
                 PROVE  /\ \A i \in DOMAIN up' : LastAbout(p, i)' => (up'[i].type = "subscribe" <=> users'[p] > 0)
                        /\ (\A i \in DOMAIN up' : up'[i].channel # p) /\ socket' = "open" =>
                              (hub'[p] # "none" <=> users'[p] > 0)
      BY DEF WordKept
    <2>1. \A i \in DOMAIN up' : LastAbout(p, i)' => i + 1 \in DOMAIN up /\ LastAbout(p, i + 1)
      <3> SUFFICES ASSUME NEW i \in DOMAIN up', LastAbout(p, i)'
                   PROVE  i + 1 \in DOMAIN up /\ LastAbout(p, i + 1)
        OBVIOUS
      <3>1. i + 1 \in DOMAIN up /\ up[i + 1].channel = p
        BY <1>3 DEF LastAbout
      <3>2. \A j \in DOMAIN up : j > i + 1 => up[j].channel # p
        <4> TAKE j \in DOMAIN up
        <4> HAVE j > i + 1
        <4>1. j - 1 \in DOMAIN up' /\ j - 1 > i /\ (j - 1) + 1 = j
          BY <1>3
        <4>2. up'[j - 1] = up[j]
          BY <1>3, <4>1
        <4> QED BY <4>1, <4>2 DEF LastAbout
      <3> QED BY <3>1, <3>2 DEF LastAbout
    <2>2. ASSUME \A i \in DOMAIN up' : up'[i].channel # p
          PROVE  hub'[p] # "none" <=> users'[p] > 0
      <3>1. \A i \in DOMAIN up : i # 1 => up[i].channel # p
        <4> TAKE i \in DOMAIN up
        <4> HAVE i # 1
        <4>1. i - 1 \in DOMAIN up' /\ (i - 1) + 1 = i
          BY <1>3
        <4>2. up'[i - 1] = up[i]
          BY <1>3, <4>1
        <4> QED BY <2>2, <4>1, <4>2
      <3>2. CASE p = c
        <4>1. LastAbout(p, 1) /\ 1 \in DOMAIN up
          BY <1>3, <3>1, <3>2 DEF LastAbout, c
        <4>2. m.type = "subscribe" <=> users[p] > 0
          BY <1>3, <4>1 DEF WordKept
        <4> QED BY <1>1, <1>3, <1>6, <3>2, <4>2 DEF Message
      <3>3. CASE p # c
        <4>1. \A i \in DOMAIN up : up[i].channel # p
          BY <1>3, <3>1, <3>3 DEF c
        <4> QED BY <1>1, <1>2, <1>6, <3>3, <4>1 DEF WordKept
      <3> QED BY <3>2, <3>3
    <2>3. \A i \in DOMAIN up' : LastAbout(p, i)' => (up'[i].type = "subscribe" <=> users'[p] > 0)
      <3> TAKE i \in DOMAIN up'
      <3> HAVE LastAbout(p, i)'
      <3>1. up[i + 1].type = "subscribe" <=> users[p] > 0
        BY <2>1 DEF WordKept
      <3> QED BY <1>1, <1>3, <3>1
    <2> QED BY <2>2, <2>3
  <1>9. ConnectionKept'
    <2>1. Subscribed' = Subscribed
      BY <1>1 DEF Subscribed
    <2> QED BY <1>1, <1>2, <2>1 DEF ConnectionKept
  <1> QED BY <1>7, <1>8, <1>9

LEMMA ClientKept == ClientInv /\ [ObserverNext]_observerVars => ClientInv'
  <1> SUFFICES ASSUME ClientInv, [ObserverNext]_observerVars PROVE ClientInv'
    OBVIOUS
  <1> USE DEF ClientInv
  <1>1. ASSUME NEW p \in Watched, HubAnswers(p)
        PROVE  ClientInv'
    <2>1. /\ hub[p] = "fresh" /\ hub' = [hub EXCEPT ![p] = "live"] /\ up' = up
          /\ users' = users /\ socket' = socket /\ retry' = retry /\ idle' = idle
      BY <1>1 DEF HubAnswers, clientVars
    <2>2. /\ hub' \in [Watched -> {"none", "fresh", "live"}]
          /\ \A q \in Watched : hub'[q] # "none" <=> hub[q] # "none"
      BY <2>1 DEF ClientTyped
    <2>3. socket = "open"
      BY <2>1 DEF ConnectionKept
    <2>4. Subscribed' = Subscribed
      BY <2>1 DEF Subscribed
    <2> QED BY <2>1, <2>2, <2>3, <2>4 DEF ClientTyped, WordKept, LastAbout, ConnectionKept
  <1>2. CASE UNCHANGED <<clientVars, up, hub>>
    <2>1. Subscribed' = Subscribed
      BY <1>2 DEF Subscribed, clientVars
    <2> QED BY <1>2, <2>1 DEF clientVars, ClientTyped, WordKept, LastAbout, ConnectionKept
  <1>3. CASE SocketReconnects
    <2>1. /\ retry /\ retry' = FALSE /\ socket' = "connecting" /\ socket = "none"
          /\ users' = users /\ idle' = idle /\ up' = up /\ hub' = hub
      BY <1>3 DEF SocketReconnects, wireVars, ConnectionKept
    <2>2. Subscribed' = Subscribed
      BY <2>1 DEF Subscribed
    <2> QED BY <2>1, <2>2 DEF ClientTyped, WordKept, LastAbout, ConnectionKept
  <1>4. CASE BrowserReceives
    <2>1. UNCHANGED <<users, socket, retry, idle, up, hub>>
      BY <1>4 DEF BrowserReceives
    <2>2. Subscribed' = Subscribed
      BY <2>1 DEF Subscribed
    <2> QED BY <2>1, <2>2 DEF ClientTyped, WordKept, LastAbout, ConnectionKept
  <1>5. ASSUME NEW p \in Watched, HubFails(p) \/ \E r \in Row : HubPublishes(p, r)
        PROVE  UNCHANGED <<clientVars, up, hub>>
    BY <1>5 DEF HubFails, HubPublishes
  <1>6. CASE UNCHANGED observerVars
    BY <1>2, <1>6 DEF observerVars, wireVars
  <1> QED BY <1>1, <1>2, <1>3, <1>4, <1>5, <1>6, SubscribeChannelKeeps, ReleaseChannelKeeps,
       UnpluggedKeeps, SocketOpensKeeps, HubReceivesKeeps, Zenon DEF ObserverNext

(* Once its messages have arrived the hub serves exactly the channels in use,
   and somebody always sees to the connection: over any number of losses,
   subscriptions and releases (socket.ts, observer.service.ts message). *)
THEOREM HubAlwaysAgrees == InitObserver /\ [][ObserverNext]_observerVars => []HubAgrees
  <1>1. ClientInv => HubAgrees
    BY DEF ClientInv, ClientTyped, WordKept, ConnectionKept, HubAgrees, Subscribed
  <1> QED BY ClientBegins, ClientKept, <1>1, PTL

-----------------------------------------------------------------------------
(* The upstream that listeners share (StatsChannel)                        *)

EntryFields == {"ring", "listeners", "controller", "pending", "flush", "retry"}

(* What is due to be opened again is not open.                             *)
UpstreamInv ==
  /\ DOMAIN pumps = 1 .. MaxPumps
  /\ DOMAIN stats = EntryFields /\ stats.retry \in BOOLEAN /\ stats.flush \in BOOLEAN
  /\ stats.retry => stats.controller = 0
  /\ \A p \in 1 .. MaxPumps : pumps[p] = "running" <=> p = stats.controller
  /\ stats.controller \in 0 .. MaxPumps
  /\ (stats.listeners # {}) <=> (stats.controller # 0 \/ stats.retry)
  /\ stats.pending # 0 => stats.flush

(* The status channel listens to the container it last found running.      *)
OverlayInv ==
  /\ row.watched \in BOOLEAN /\ row.running \in BOOLEAN /\ alive \in BOOLEAN
  /\ (Overlay \in stats.listeners) <=> (row.watched /\ row.running)

StatsInv == UpstreamInv /\ OverlayInv

LEMMA StatsBegin == InitStats => StatsInv
<1> SUFFICES ASSUME InitStats PROVE StatsInv
  OBVIOUS
<1>1. UpstreamInv
  BY StatsAssumption DEF InitStats, UpstreamInv, EntryFields
<1>2. OverlayInv
  BY DEF InitStats, OverlayInv, Unwatched
<1> QED BY <1>1, <1>2 DEF StatsInv

(* A new listener joins the upstream or opens one.                         *)
LEMMA TakeUpKeeps ==
  ASSUME UpstreamInv, NEW l, NEW p \in 1 .. MaxPumps, TakeUp(l, p)
  PROVE  UpstreamInv' /\ stats'.listeners = stats.listeners \cup {l}
<1>1. 0 \notin 1 .. MaxPumps /\ p \in 0 .. MaxPumps
  BY StatsAssumption
<1>2. CASE stats.controller = 0 /\ ~stats.retry
  <2>1. /\ pumps[p] = "none" /\ pumps' = [pumps EXCEPT ![p] = "running"]
        /\ stats' = [stats EXCEPT !.ring = Trim(@, clock), !.listeners = @ \cup {l}, !.controller = p]
    BY <1>2 DEF TakeUp, NextPump, Opened
  <2>2. /\ DOMAIN stats' = EntryFields /\ stats'.controller = p /\ stats'.retry = stats.retry
        /\ stats'.listeners = stats.listeners \cup {l}
        /\ stats'.pending = stats.pending /\ stats'.flush = stats.flush
    BY <2>1 DEF UpstreamInv, EntryFields
  <2>3. DOMAIN pumps' = 1 .. MaxPumps /\ pumps'[p] = "running"
        /\ \A q \in 1 .. MaxPumps : q # p => pumps'[q] = pumps[q]
    BY <2>1 DEF UpstreamInv
  <2> QED BY <1>1, <1>2, <2>2, <2>3 DEF UpstreamInv
<1>3. CASE ~(stats.controller = 0 /\ ~stats.retry)
  <2>1. stats' = [stats EXCEPT !.ring = Trim(@, clock), !.listeners = @ \cup {l}] /\ pumps' = pumps
    BY <1>3 DEF TakeUp
  <2>2. /\ DOMAIN stats' = EntryFields /\ stats'.controller = stats.controller /\ stats'.retry = stats.retry
        /\ stats'.listeners = stats.listeners \cup {l}
        /\ stats'.pending = stats.pending /\ stats'.flush = stats.flush
    BY <2>1 DEF UpstreamInv, EntryFields
  <2> QED BY <1>3, <2>1, <2>2 DEF UpstreamInv
<1> QED BY <1>2, <1>3

(* The last listener takes the upstream with it.                           *)
LEMMA LetGoKeeps ==
  ASSUME UpstreamInv, NEW l \in stats.listeners, LetGo(l)
  PROVE  UpstreamInv' /\ stats'.listeners = stats.listeners \ {l}
<1>0. 0 \in 0 .. MaxPumps /\ 0 \notin 1 .. MaxPumps
  BY StatsAssumption
<1>1. CASE stats.listeners \ {l} = {}
  <2>1. /\ stats' = [stats EXCEPT !.listeners = @ \ {l}, !.controller = 0, !.pending = 0,
                                 !.flush = FALSE, !.retry = FALSE]
        /\ pumps' = [p \in DOMAIN pumps |-> IF p = stats.controller THEN "aborted" ELSE pumps[p]]
    BY <1>1 DEF LetGo, StoppedEntry, Abort, UpstreamInv, EntryFields
  <2>2. /\ DOMAIN stats' = EntryFields /\ stats'.controller = 0 /\ stats'.retry = FALSE
        /\ stats'.listeners = stats.listeners \ {l}
        /\ stats'.pending = 0 /\ stats'.flush = FALSE
    BY <2>1 DEF UpstreamInv, EntryFields
  <2>3. DOMAIN pumps' = 1 .. MaxPumps /\ \A p \in 1 .. MaxPumps : pumps'[p] # "running"
    BY <2>1 DEF UpstreamInv
  <2> QED BY <1>0, <1>1, <2>2, <2>3 DEF UpstreamInv
<1>2. CASE stats.listeners \ {l} # {}
  <2>1. stats' = [stats EXCEPT !.listeners = @ \ {l}] /\ pumps' = pumps
    BY <1>2 DEF LetGo, UpstreamInv, EntryFields
  <2>2. /\ DOMAIN stats' = EntryFields /\ stats'.controller = stats.controller /\ stats'.retry = stats.retry
        /\ stats'.listeners = stats.listeners \ {l}
        /\ stats'.pending = stats.pending /\ stats'.flush = stats.flush
    BY <2>1 DEF UpstreamInv, EntryFields
  <2> QED BY <1>2, <2>1, <2>2 DEF UpstreamInv
<1> QED BY <1>1, <1>2

LEMMA SampleKeeps == ASSUME StatsInv, NEW p \in 1 .. MaxPumps, Sample(p) PROVE StatsInv'
<1> DEFINE ring == Trim(Append(stats.ring, clock'), clock')
<1>1. Offer([stats EXCEPT !.ring = ring], clock') /\ UNCHANGED <<alive, pumps, row>>
  BY DEF Sample
<1> HIDE DEF ring
<1>2. \/ stats.flush /\ stats' = [[stats EXCEPT !.ring = ring] EXCEPT !.pending = clock']
      \/ stats' = [[stats EXCEPT !.ring = ring] EXCEPT !.flush = TRUE]
  BY <1>1 DEF Offer, StatsInv, UpstreamInv, EntryFields
<1>3. /\ DOMAIN stats' = EntryFields /\ stats'.controller = stats.controller /\ stats'.retry = stats.retry
      /\ stats'.listeners = stats.listeners /\ stats'.flush \in BOOLEAN /\ stats'.flush
  BY <1>2 DEF StatsInv, UpstreamInv, EntryFields
<1> QED BY <1>1, <1>3 DEF StatsInv, UpstreamInv, OverlayInv

LEMMA FlushKeeps == ASSUME StatsInv, Flush PROVE StatsInv'
<1>1. /\ UNCHANGED <<alive, pumps, row>>
      /\ stats' = [stats EXCEPT !.pending = 0, !.flush = FALSE] \/ stats' = [stats EXCEPT !.pending = 0]
  BY DEF Flush
<1>2. /\ DOMAIN stats' = EntryFields /\ stats'.controller = stats.controller /\ stats'.retry = stats.retry
      /\ stats'.listeners = stats.listeners /\ stats'.flush \in BOOLEAN /\ stats'.pending = 0
  BY <1>1 DEF StatsInv, UpstreamInv, EntryFields
<1> QED BY <1>1, <1>2 DEF StatsInv, UpstreamInv, OverlayInv

(* A pump that was aborted ends without taking its successor away.         *)
LEMMA PumpEndsKeeps == ASSUME StatsInv, NEW p \in 1 .. MaxPumps, PumpEnds(p) PROVE StatsInv'
<1>1. /\ UNCHANGED <<alive, row>> /\ pumps' = [pumps EXCEPT ![p] = "ended"]
      /\ 0 \in 0 .. MaxPumps /\ 0 \notin 1 .. MaxPumps
  BY StatsAssumption DEF PumpEnds
<1>2. DOMAIN pumps' = 1 .. MaxPumps /\ pumps'[p] = "ended"
      /\ \A q \in 1 .. MaxPumps : q # p => pumps'[q] = pumps[q]
  BY <1>1 DEF StatsInv, UpstreamInv
<1>3. CASE stats.controller = p
  <2>1. stats' = [stats EXCEPT !.controller = 0, !.retry = (stats.listeners # {})]
    BY <1>3 DEF PumpEnds
  <2>2. /\ DOMAIN stats' = EntryFields /\ stats'.controller = 0 /\ stats'.retry = (stats.listeners # {})
        /\ stats'.listeners = stats.listeners
        /\ stats'.pending = stats.pending /\ stats'.flush = stats.flush
    BY <2>1 DEF StatsInv, UpstreamInv, EntryFields
  <2> QED BY <1>1, <1>2, <1>3, <2>2 DEF StatsInv, UpstreamInv, OverlayInv
<1>4. CASE stats.controller # p
  <2>1. stats' = stats
    BY <1>4 DEF PumpEnds
  <2> QED BY <1>1, <1>2, <1>4, <2>1 DEF StatsInv, UpstreamInv, OverlayInv
<1> QED BY <1>3, <1>4

LEMMA RetryKeeps == ASSUME StatsInv, NEW p \in 1 .. MaxPumps, Retry(p) PROVE StatsInv'
<1>1. /\ stats.retry /\ pumps[p] = "none" /\ UNCHANGED <<alive, row>>
      /\ stats' = [stats EXCEPT !.retry = FALSE, !.controller = p]
      /\ pumps' = [pumps EXCEPT ![p] = "running"]
      /\ p \in 0 .. MaxPumps /\ p # 0
  BY StatsAssumption DEF Retry, NextPump, Opened
<1>2. DOMAIN pumps' = 1 .. MaxPumps /\ pumps'[p] = "running"
      /\ \A q \in 1 .. MaxPumps : q # p => pumps'[q] = pumps[q]
  BY <1>1 DEF StatsInv, UpstreamInv
<1>3. /\ DOMAIN stats' = EntryFields /\ stats'.controller = p /\ stats'.retry = FALSE
      /\ stats'.listeners = stats.listeners
      /\ stats'.pending = stats.pending /\ stats'.flush = stats.flush
  BY <1>1 DEF StatsInv, UpstreamInv, EntryFields
<1>4. stats.controller = 0 /\ 0 \notin 1 .. MaxPumps
  BY <1>1, StatsAssumption DEF StatsInv, UpstreamInv
<1> QED BY <1>1, <1>2, <1>3, <1>4 DEF StatsInv, UpstreamInv, OverlayInv

LEMMA PageOpensKeeps == ASSUME StatsInv, NEW l \in Page, NEW p \in 1 .. MaxPumps, PageOpens(l, p) PROVE StatsInv'
<1>1. l # Overlay
  BY StatsAssumption
<1> QED BY <1>1, TakeUpKeeps DEF PageOpens, StatsInv, OverlayInv

LEMMA PageLeavesKeeps == ASSUME StatsInv, NEW l \in Page, PageLeaves(l) PROVE StatsInv'
<1>1. l # Overlay
  BY StatsAssumption
<1> QED BY <1>1, LetGoKeeps DEF PageLeaves, StatsInv, OverlayInv

LEMMA StatusLoadsKeeps == ASSUME StatsInv, NEW p \in 1 .. MaxPumps, StatusLoads(p) PROVE StatsInv'
<1>1. row'.watched = TRUE /\ row'.running = alive /\ alive' = alive
  BY DEF StatusLoads
<1>2. CASE alive /\ Overlay \notin stats.listeners
  <2>1. UpstreamInv' /\ stats'.listeners = stats.listeners \cup {Overlay}
    BY <1>2, TakeUpKeeps DEF StatusLoads, StatsInv
  <2> QED BY <1>1, <1>2, <2>1 DEF StatsInv, OverlayInv
<1>3. CASE ~alive /\ Overlay \in stats.listeners
  <2>1. UpstreamInv' /\ stats'.listeners = stats.listeners \ {Overlay}
    BY <1>3, LetGoKeeps DEF StatusLoads, StatsInv
  <2> QED BY <1>1, <1>3, <2>1 DEF StatsInv, OverlayInv
<1>4. CASE alive <=> Overlay \in stats.listeners
  <2>1. UNCHANGED <<stats, pumps>>
    BY <1>4 DEF StatusLoads
  <2> QED BY <1>1, <1>4, <2>1 DEF StatsInv, UpstreamInv, OverlayInv
<1> QED BY <1>2, <1>3, <1>4

LEMMA StatusLeavesKeeps == ASSUME StatsInv, StatusLeaves PROVE StatsInv'
<1>1. row'.watched = FALSE /\ row'.running = FALSE /\ alive' = alive
  BY DEF StatusLeaves, Unwatched
<1>2. CASE Overlay \in stats.listeners
  BY <1>1, <1>2, LetGoKeeps DEF StatusLeaves, StatsInv, OverlayInv
<1>3. CASE Overlay \notin stats.listeners
  BY <1>1, <1>3 DEF StatusLeaves, StatsInv, UpstreamInv, OverlayInv
<1> QED BY <1>2, <1>3

LEMMA StatsKept == StatsInv /\ [StatsNext]_statsVars => StatsInv'
<1> SUFFICES ASSUME StatsInv, [StatsNext]_statsVars PROVE StatsInv'
  OBVIOUS
<1>1. DOMAIN pumps = 1 .. MaxPumps
  BY DEF StatsInv, UpstreamInv
<1>2. ASSUME NEW p \in DOMAIN pumps,
             (\E l \in Page : PageOpens(l, p)) \/ StatusLoads(p) \/ Sample(p) \/ PumpEnds(p) \/ Retry(p)
      PROVE  StatsInv'
  BY <1>1, <1>2, PageOpensKeeps, StatusLoadsKeeps, SampleKeeps, PumpEndsKeeps, RetryKeeps
<1>3. CASE Toggle \/ Pass \/ UNCHANGED statsVars
  <2>1. UNCHANGED <<pumps, stats, row>> /\ alive' \in BOOLEAN
    BY <1>3 DEF Toggle, Pass, statsVars, StatsInv, OverlayInv
  <2> QED BY <2>1 DEF StatsInv, UpstreamInv, OverlayInv
<1> QED BY <1>2, <1>3, PageLeavesKeeps, StatusLeavesKeeps, FlushKeeps DEF StatsNext

(* A set of numbers that is not empty has a least one.                     *)
LEMMA EarliestOf == ASSUME NEW S, S \subseteq Nat, S # {} PROVE \E i \in S : \A j \in S : i <= j
<1> DEFINE R == {ss \in Nat \X Nat : ss[1] < ss[2]}
<1>1. IsWellFoundedOn(R, Nat)
  BY NatLessThanWellFounded, Zenon DEF OpToRel
<1>2. \E i \in S : \A j \in S : ~(<<j, i>> \in R)
  <2> HIDE DEF R
  <2> QED BY <1>1, WFMin
<1>3. PICK i \in S : \A j \in S : ~(<<j, i>> \in R)
  BY <1>2
<1>4. \A j \in Nat : j < i => <<j, i>> \in R
  OBVIOUS
<1>5. \A j \in S : ~(j < i)
  <2> HIDE DEF R
  <2> QED BY <1>3, <1>4, Zenon
<1> QED BY <1>5

(* Samples in the order they were taken, and none after a moment.          *)
InOrder(s) == s \in Seq(Nat) /\ \A i, j \in 1 .. Len(s) : i < j => s[i] < s[j]
Until(s, at) == \A i \in 1 .. Len(s) : s[i] <= at

(* The last samples of some in order are in order.                         *)
LEMMA LatterInOrder ==
  ASSUME NEW s, InOrder(s), NEW at, Until(s, at), NEW n \in 0 .. Len(s)
  PROVE  InOrder(SubSeq(s, n + 1, Len(s))) /\ Until(SubSeq(s, n + 1, Len(s)), at)
<1> DEFINE t == SubSeq(s, n + 1, Len(s))
<1>1. s \in Seq(Nat) /\ Len(s) \in Nat /\ n + 1 \in 1 .. Len(s) + 1
  BY LenProperties DEF InOrder
<1>2. t \in Seq(Nat) /\ Len(t) = Len(s) - n /\ \A i \in 1 .. Len(t) : t[i] = s[n + i]
  <2>1. Len(s) \in (n + 1) - 1 .. Len(s)
    BY <1>1
  <2>2. /\ t \in Seq(Nat) /\ Len(t) = Len(s) - (n + 1) + 1
        /\ \A i \in 1 .. Len(s) - (n + 1) + 1 : t[i] = s[(n + 1) + i - 1]
    BY <1>1, <2>1, SubSeqProperties
  <2> HIDE DEF t
  <2>3. n \in Nat /\ Len(s) - (n + 1) + 1 = Len(s) - n
    BY <1>1
  <2>4. \A i \in 1 .. Len(t) : (n + 1) + i - 1 = n + i /\ i \in 1 .. Len(s) - (n + 1) + 1
    BY <1>1, <2>2, <2>3
  <2> QED BY <2>2, <2>3, <2>4
<1> HIDE DEF t
<1>3. \A i \in 1 .. Len(t) : n + i \in 1 .. Len(s)
  BY <1>1, <1>2
<1>4. InOrder(t)
  <2>1. ASSUME NEW i \in 1 .. Len(t), NEW j \in 1 .. Len(t), i < j PROVE t[i] < t[j]
    <3>1. n + i < n + j
      BY <1>1, <2>1
    <3> QED BY <1>2, <1>3, <3>1 DEF InOrder
  <2> QED BY <1>2, <2>1 DEF InOrder
<1>5. Until(t, at)
  BY <1>2, <1>3 DEF Until
<1> QED BY <1>4, <1>5 DEF t

LEMMA LastNInOrder ==
  ASSUME NEW s, InOrder(s), NEW at, Until(s, at), NEW n \in Nat
  PROVE  InOrder(LastN(s, n)) /\ Until(LastN(s, n), at)
<1>1. Len(s) \in Nat
  BY LenProperties DEF InOrder
<1> DEFINE k == IF Len(s) > n THEN Len(s) - n ELSE 0
<1>2. k \in 0 .. Len(s)
  BY <1>1
<1> HIDE DEF k
<1>3. InOrder(SubSeq(s, k + 1, Len(s))) /\ Until(SubSeq(s, k + 1, Len(s)), at)
  BY <1>2, LatterInOrder
<1> QED BY <1>3 DEF LastN, k

(* A history that was trimmed is in order.                                 *)
LEMMA TrimInOrder ==
  ASSUME NEW s, InOrder(s), NEW at, Until(s, at), NEW now \in Nat
  PROVE  InOrder(Trim(s, now)) /\ Until(Trim(s, now), at)
<1>1. Len(s) \in Nat
  BY LenProperties DEF InOrder
<1> DEFINE S == {n \in 0 .. Len(s) : n = Len(s) \/ s[n + 1] >= now - History}
<1>2. S \subseteq Nat /\ Len(s) \in S
  BY <1>1
<1>3. Expired(s, now) = Min(S)
  BY DEF Expired
<1> HIDE DEF S
<1>4. \E i \in S : \A j \in S : i <= j
  <2>1. S # {}
    BY <1>2
  <2> QED BY <1>2, <2>1, EarliestOf
<1>5. Min(S) \in S
  BY <1>4 DEF Min
<1>6. Expired(s, now) \in 0 .. Len(s)
  BY <1>3, <1>5 DEF S
<1> DEFINE t == SubSeq(s, Expired(s, now) + 1, Len(s))
<1>7. InOrder(t) /\ Until(t, at)
  BY <1>6, LatterInOrder
<1> HIDE DEF t
<1>8. InOrder(LastN(t, MaxRing)) /\ Until(LastN(t, MaxRing), at)
  BY <1>7, LastNInOrder, StatsAssumption
<1> QED BY <1>8 DEF Trim, t

(* One more sample, taken later.                                           *)
LEMMA AppendInOrder ==
  ASSUME NEW s, InOrder(s), NEW at \in Nat, \A i \in 1 .. Len(s) : s[i] < at
  PROVE  InOrder(Append(s, at)) /\ Until(Append(s, at), at)
<1> DEFINE t == Append(s, at)
<1>1. s \in Seq(Nat) /\ Len(s) \in Nat /\ \A i \in 1 .. Len(s) : s[i] \in Nat
  BY LenProperties, ElementOfSeq DEF InOrder
<1>2. t \in Seq(Nat) /\ Len(t) = Len(s) + 1 /\ t[Len(s) + 1] = at /\ \A i \in 1 .. Len(s) : t[i] = s[i]
  BY <1>1
<1> HIDE DEF t
<1>3. ASSUME NEW i \in 1 .. Len(t), NEW j \in 1 .. Len(t), i < j PROVE t[i] < t[j]
  <2>1. i \in 1 .. Len(s)
    BY <1>1, <1>2, <1>3
  <2>2. CASE j = Len(s) + 1
    BY <1>2, <2>1, <2>2
  <2>3. CASE j # Len(s) + 1
    <3>1. j \in 1 .. Len(s)
      BY <1>1, <1>2, <2>3
    <3> QED BY <1>2, <1>3, <2>1, <3>1 DEF InOrder
  <2> QED BY <2>2, <2>3
<1>4. ASSUME NEW i \in 1 .. Len(t) PROVE t[i] <= at
  <2>1. i \in 1 .. Len(s) \/ i = Len(s) + 1
    BY <1>1, <1>2
  <2> QED BY <1>1, <1>2, <2>1
<1> QED BY <1>2, <1>3, <1>4 DEF InOrder, Until, t

(* What filter builds up, sample by sample.                                *)
Filters(f, samples, at, n) ==
  /\ f = [i \in 0 .. n |-> f[i]] /\ f[0] = <<>>
  /\ \A i \in 1 .. n : f[i] = IF samples[i] > at THEN Append(f[i - 1], samples[i]) ELSE f[i - 1]

LEMMA FilterExists ==
  ASSUME NEW samples \in Seq(Nat), NEW at \in Nat
  PROVE  \E f : Filters(f, samples, at, Len(samples))
<1>1. Len(samples) \in Nat
  BY LenProperties
<1> DEFINE S == {n \in 0 .. Len(samples) : ~\E f : Filters(f, samples, at, n)}
<1>2. ASSUME S # {} PROVE FALSE
  <2>1. PICK n \in S : \A j \in S : n <= j
    <3>1. S \subseteq Nat
      BY <1>1
    <3> HIDE DEF S
    <3> QED BY <1>2, <3>1, EarliestOf
  <2>2. n \in Nat /\ n <= Len(samples)
    BY <1>1
  <2>3. CASE n = 0
    <3> DEFINE f == [i \in 0 .. 0 |-> <<>>]
    <3>1. Filters(f, samples, at, 0)
      BY DEF Filters
    <3> QED BY <2>3, <3>1
  <2>4. CASE n # 0
    <3>1. n - 1 \in 0 .. Len(samples) /\ n - 1 \notin S
      BY SMTT(30), <1>1, <2>1, <2>2, <2>4
    <3>2. PICK f : Filters(f, samples, at, n - 1)
      BY <3>1
    <3> DEFINE x == IF samples[n] > at THEN Append(f[n - 1], samples[n]) ELSE f[n - 1]
               g == [i \in 0 .. n |-> IF i = n THEN x ELSE f[i]]
    <3>3. g[n] = x /\ \A i \in 0 .. n - 1 : g[i] = f[i]
      <4> HIDE DEF x
      <4> QED BY <2>2
    <3>4. g = [i \in 0 .. n |-> g[i]] /\ g[0] = <<>>
      BY <2>2, <2>4, <3>2, <3>3 DEF Filters
    <3>5. ASSUME NEW i \in 1 .. n
          PROVE  g[i] = IF samples[i] > at THEN Append(g[i - 1], samples[i]) ELSE g[i - 1]
      <4>1. i - 1 \in 0 .. n - 1 /\ g[i - 1] = f[i - 1]
        BY <2>2, <3>3
      <4> HIDE DEF g
      <4>2. CASE i = n
        BY <3>3, <4>1, <4>2
      <4>3. CASE i # n
        <5>1. i \in 1 .. n - 1 /\ g[i] = f[i]
          BY <2>2, <3>3, <4>3
        <5> QED BY <3>2, <4>1, <5>1 DEF Filters
      <4> QED BY <4>2, <4>3
    <3>6. Filters(g, samples, at, n)
      <4> HIDE DEF g
      <4> QED BY <3>4, <3>5 DEF Filters
    <3> QED BY <3>6
  <2> QED BY <2>3, <2>4
<1>3. Len(samples) \in 0 .. Len(samples)
  BY <1>1
<1> QED BY <1>2, <1>3

(* What a page has not kept yet is in order, and after what it has.        *)
LEMMA NewerInOrder ==
  ASSUME NEW samples, InOrder(samples), NEW at \in Nat
  PROVE  InOrder(Newer(samples, at)) /\ \A i \in 1 .. Len(Newer(samples, at)) : Newer(samples, at)[i] > at
<1>1. samples \in Seq(Nat) /\ Len(samples) \in Nat /\ \A i \in 1 .. Len(samples) : samples[i] \in Nat
  BY LenProperties, ElementOfSeq DEF InOrder
<1> DEFINE Step(f) == [i \in 0 .. Len(samples) |->
                         IF i = 0 THEN <<>>
                         ELSE IF samples[i] > at THEN Append(f[i - 1], samples[i]) ELSE f[i - 1]]
           g == CHOOSE f : f = Step(f)
<1>2. Newer(samples, at) = g[Len(samples)]
  BY DEF Newer
<1>3. \E f : f = Step(f)
  <2>1. PICK f : Filters(f, samples, at, Len(samples))
    BY <1>1, FilterExists
  <2>2. f = [i \in 0 .. Len(samples) |-> f[i]] /\ \A i \in 0 .. Len(samples) : i = 0 \/ i \in 1 .. Len(samples)
    BY <1>1, <2>1 DEF Filters
  <2>3. \A i \in 0 .. Len(samples) :
          f[i] = IF i = 0 THEN <<>> ELSE IF samples[i] > at THEN Append(f[i - 1], samples[i]) ELSE f[i - 1]
    BY <1>1, <2>1, <2>2 DEF Filters
  <2>4. f = Step(f)
    BY <2>2, <2>3, Zenon
  <2> QED BY <2>4
<1>4. g = Step(g)
  <2> HIDE DEF Step
  <2> QED BY <1>3
<1> HIDE DEF g
<1>5. Filters(g, samples, at, Len(samples))
  <2> DEFINE h == Step(g)
  <2>1. Filters(h, samples, at, Len(samples)) <=>
          /\ h = [i \in 0 .. Len(samples) |-> h[i]] /\ h[0] = <<>>
          /\ \A i \in 1 .. Len(samples) : h[i] = IF samples[i] > at THEN Append(h[i - 1], samples[i]) ELSE h[i - 1]
    BY DEF Filters
  <2>2. h = [i \in 0 .. Len(samples) |-> h[i]] /\ h[0] = <<>>
    BY <1>1
  <2>3. \A i \in 1 .. Len(samples) : h[i] = IF samples[i] > at THEN Append(g[i - 1], samples[i]) ELSE g[i - 1]
    BY <1>1
  <2> HIDE DEF h
  <2>4. h = g
    BY <1>4 DEF h
  <2> QED BY <2>2, <2>3, <2>4 DEF Filters
<1> DEFINE Fits(n) == /\ InOrder(g[n])
                      /\ \A i \in 1 .. Len(g[n]) : g[n][i] > at /\ \E j \in 1 .. n : g[n][i] = samples[j]
           S == {n \in 0 .. Len(samples) : ~Fits(n)}
<1>6. ASSUME S # {} PROVE FALSE
  <2>1. PICK n \in S : \A j \in S : n <= j
    <3>1. S \subseteq Nat
      BY <1>1
    <3> HIDE DEF S
    <3> QED BY <1>6, <3>1, EarliestOf
  <2>2. n \in Nat /\ n <= Len(samples)
    BY <1>1
  <2>3. CASE n = 0
    <3>1. g[n] = <<>>
      BY <1>5, <2>3 DEF Filters
    <3>2. Fits(n)
      BY <3>1 DEF InOrder
    <3> QED BY <3>2
  <2>4. CASE n # 0
    <3>1. n - 1 \in 0 .. Len(samples) /\ n - 1 \notin S /\ n \in 1 .. Len(samples)
      BY <1>1, <2>1, <2>2, <2>4
    <3>2. Fits(n - 1)
      BY <3>1
    <3> DEFINE t == g[n - 1]
    <3>3. InOrder(t) /\ \A i \in 1 .. Len(t) : t[i] > at /\ \E j \in 1 .. n - 1 : t[i] = samples[j]
      BY <3>2
    <3>4. g[n] = IF samples[n] > at THEN Append(t, samples[n]) ELSE t
      BY <1>5, <3>1 DEF Filters
    <3> HIDE DEF t, Fits
    <3>5. 1 .. n - 1 \subseteq 1 .. n /\ n \in 1 .. n
      BY <2>2, <2>4
    <3>6. CASE ~(samples[n] > at)
      <4>1. g[n] = t
        BY <3>4, <3>6
      <4>2. Fits(n)
        BY <3>3, <3>5, <4>1 DEF Fits
      <4> QED BY <4>2
    <3>7. CASE samples[n] > at
      <4>1. g[n] = Append(t, samples[n])
        BY <3>4, <3>7
      <4>2. samples[n] \in Nat /\ t \in Seq(Nat) /\ Len(t) \in Nat
        BY <1>1, <3>1, <3>3, LenProperties DEF InOrder
      <4>3. ASSUME NEW i \in 1 .. Len(t) PROVE t[i] < samples[n]
        <5>1. PICK j \in 1 .. n - 1 : t[i] = samples[j]
          BY <3>3
        <5>2. j \in 1 .. Len(samples) /\ j < n
          BY <2>2, <5>1
        <5> QED BY <3>1, <5>1, <5>2 DEF InOrder
      <4>4. InOrder(Append(t, samples[n]))
        BY <3>3, <4>2, <4>3, AppendInOrder
      <4>5. ASSUME NEW i \in 1 .. Len(Append(t, samples[n]))
            PROVE  Append(t, samples[n])[i] > at /\ \E j \in 1 .. n : Append(t, samples[n])[i] = samples[j]
        <5>1. /\ Len(Append(t, samples[n])) = Len(t) + 1 /\ Append(t, samples[n])[Len(t) + 1] = samples[n]
              /\ \A k \in 1 .. Len(t) : Append(t, samples[n])[k] = t[k]
          BY <4>2
        <5>2. i \in 1 .. Len(t) \/ i = Len(t) + 1
          BY <4>2, <5>1
        <5> QED BY <3>3, <3>5, <3>7, <5>1, <5>2
      <4>6. Fits(n)
        BY <4>1, <4>4, <4>5 DEF Fits
      <4> QED BY <4>6
    <3> QED BY <3>6, <3>7
  <2> QED BY <2>3, <2>4
<1>7. Fits(Len(samples))
  <2>1. Len(samples) \in 0 .. Len(samples)
    BY <1>1
  <2> HIDE DEF Fits
  <2> QED BY <1>6, <2>1
<1> QED BY <1>2, <1>7

(* What a page keeps stays in order.                                       *)
LEMMA ReduceInOrder ==
  ASSUME NEW known, InOrder(known), NEW samples, InOrder(samples)
  PROVE  InOrder(ReduceStats(known, samples))
<1>1. known \in Seq(Nat) /\ Len(known) \in Nat /\ \A i \in 1 .. Len(known) : known[i] \in Nat
  BY LenProperties, ElementOfSeq DEF InOrder
<1> DEFINE more == IF known = <<>> THEN samples ELSE Newer(samples, Last(known))
<1>2. InOrder(more) /\ (known # <<>> => \A i \in 1 .. Len(more) : known[Len(known)] < more[i])
  <2>1. CASE known = <<>>
    BY <2>1
  <2>2. CASE known # <<>>
    <3>1. Len(known) \in 1 .. Len(known) /\ Last(known) = known[Len(known)] /\ Last(known) \in Nat
      BY <1>1, <2>2, EmptySeq DEF Last
    <3>2. InOrder(Newer(samples, Last(known))) /\ \A i \in 1 .. Len(Newer(samples, Last(known))) : Newer(samples, Last(known))[i] > Last(known)
      BY <3>1, NewerInOrder
    <3>3. more = Newer(samples, Last(known))
      BY <2>2
    <3>4. more \in Seq(Nat)
      BY <3>2, <3>3 DEF InOrder
    <3> HIDE DEF more
    <3>5. \A i \in 1 .. Len(more) : more[i] \in Nat
      BY <3>4, ElementOfSeq
    <3> QED BY <3>1, <3>2, <3>3, <3>5
  <2> QED BY <2>1, <2>2
<1> HIDE DEF more
<1>3. more \in Seq(Nat) /\ Len(more) \in Nat /\ \A i \in 1 .. Len(more) : more[i] \in Nat
  BY <1>2, LenProperties, ElementOfSeq DEF InOrder
<1> DEFINE all == known \o more
<1>4. /\ all \in Seq(Nat) /\ Len(all) = Len(known) + Len(more)
      /\ \A i \in 1 .. Len(known) : all[i] = known[i]
      /\ \A i \in 1 .. Len(more) : all[Len(known) + i] = more[i]
  BY <1>1, <1>3, ConcatProperties
<1> HIDE DEF all
<1>5. ASSUME NEW i \in 1 .. Len(known), NEW j \in 1 .. Len(more) PROVE known[i] < more[j]
  <2>1. known # <<>> /\ Len(known) \in 1 .. Len(known)
    BY <1>1
  <2>2. known[i] <= known[Len(known)]
    <3>1. CASE i = Len(known)
      BY <1>1, <2>1, <3>1
    <3>2. CASE i < Len(known)
      BY <1>1, <2>1, <3>2 DEF InOrder
    <3> QED BY <1>1, <3>1, <3>2
  <2>3. known[Len(known)] < more[j]
    BY <1>2, <2>1
  <2> QED BY <1>1, <1>3, <2>1, <2>2, <2>3
<1>6. ASSUME NEW i \in 1 .. Len(all), NEW j \in 1 .. Len(all), i < j PROVE all[i] < all[j]
  <2>1. CASE j <= Len(known)
    <3>1. i \in 1 .. Len(known) /\ j \in 1 .. Len(known)
      BY <1>1, <1>4, <1>6, <2>1
    <3> QED BY <1>4, <1>6, <3>1 DEF InOrder
  <2>2. CASE i <= Len(known) /\ j > Len(known)
    <3>1. i \in 1 .. Len(known) /\ j - Len(known) \in 1 .. Len(more) /\ j = Len(known) + (j - Len(known))
      BY <1>1, <1>3, <1>4, <2>2
    <3>2. all[i] = known[i] /\ all[j] = more[j - Len(known)]
      BY <1>4, <3>1
    <3> QED BY <1>5, <3>1, <3>2
  <2>3. CASE i > Len(known)
    <3> DEFINE a == i - Len(known)
               b == j - Len(known)
    <3>1. a \in 1 .. Len(more) /\ b \in 1 .. Len(more) /\ a < b /\ i = Len(known) + a /\ j = Len(known) + b
      BY <1>1, <1>3, <1>4, <1>6, <2>3
    <3> HIDE DEF a, b
    <3>2. all[i] = more[a] /\ all[j] = more[b]
      BY <1>4, <3>1
    <3> QED BY <1>2, <3>1, <3>2 DEF InOrder
  <2> QED BY <1>1, <1>4, <2>1, <2>2, <2>3
<1>7. InOrder(all)
  BY <1>4, <1>6 DEF InOrder
<1>8. \E at : Until(all, at)
  <2>1. CASE Len(all) = 0
    BY <2>1 DEF Until
  <2>2. CASE Len(all) # 0
    <3>1. Len(all) \in 1 .. Len(all) /\ \A i \in 1 .. Len(all) : all[i] \in Nat
      BY <1>1, <1>3, <1>4, <2>2, ElementOfSeq
    <3>2. ASSUME NEW i \in 1 .. Len(all) PROVE all[i] <= all[Len(all)]
      <4>1. i = Len(all) \/ i < Len(all)
        BY <3>1
      <4> QED BY <1>6, <3>1, <4>1
    <3> QED BY <3>2 DEF Until
  <2> QED BY <2>1, <2>2
<1>9. InOrder(LastN(all, MaxKept))
  BY <1>7, <1>8, LastNInOrder, StatsAssumption
<1> QED BY <1>9 DEF ReduceStats, all, more

SamplesInv ==
  /\ clock \in Nat /\ stats.pending \in Nat
  /\ InOrder(stats.ring) /\ Until(stats.ring, clock)
  /\ DOMAIN kept = Page /\ \A l \in Page : InOrder(kept[l])

(* What is sent to listeners in order leaves their samples in order.       *)
LEMMA SentInOrder ==
  ASSUME SamplesInv, NEW samples, InOrder(samples), NEW listeners, kept' = Sent(listeners, samples)
  PROVE  DOMAIN kept' = Page /\ \A l \in Page : InOrder(kept'[l])
<1>1. \A l \in Page : InOrder(kept[l]) /\ InOrder(ReduceStats(kept[l], samples))
  BY ReduceInOrder DEF SamplesInv
<1>2. \A l \in Page : kept'[l] = IF l \in listeners THEN ReduceStats(kept[l], samples) ELSE kept[l]
  BY DEF Sent
<1>3. DOMAIN kept' = Page
  BY DEF Sent
<1> QED BY <1>1, <1>2, <1>3

LEMMA OneInOrder == ASSUME NEW at \in Nat PROVE InOrder(<<at>>)
<1>1. InOrder(<<>>) /\ \A i \in 1 .. Len(<<>>) : <<>>[i] < at
  BY DEF InOrder
<1>2. InOrder(Append(<<>>, at))
  BY <1>1, AppendInOrder
<1> QED BY <1>2

LEMMA HistoryInOrder ==
  ASSUME SamplesInv
  PROVE  InOrder(Trim(stats.ring, clock)) /\ Until(Trim(stats.ring, clock), clock)
BY TrimInOrder DEF SamplesInv

(* Whoever comes or goes, the history stays in order.                      *)
LEMMA TakeUpInOrder ==
  ASSUME UpstreamInv, SamplesInv, NEW l, NEW p, TakeUp(l, p)
  PROVE  /\ InOrder(stats'.ring) /\ Until(stats'.ring, clock) /\ stats'.pending \in Nat
<1>1. stats'.ring = Trim(stats.ring, clock) /\ stats'.pending = stats.pending
  <2>1. CASE stats.controller = 0 /\ ~stats.retry
    <3>1. stats' = [stats EXCEPT !.ring = Trim(@, clock), !.listeners = @ \cup {l}, !.controller = p]
      BY <2>1 DEF TakeUp, Opened
    <3> QED BY <3>1 DEF UpstreamInv, EntryFields
  <2>2. CASE ~(stats.controller = 0 /\ ~stats.retry)
    <3>1. stats' = [stats EXCEPT !.ring = Trim(@, clock), !.listeners = @ \cup {l}]
      BY <2>2 DEF TakeUp
    <3> QED BY <3>1 DEF UpstreamInv, EntryFields
  <2> QED BY <2>1, <2>2
<1> QED BY <1>1, HistoryInOrder DEF SamplesInv

LEMMA LetGoInOrder ==
  ASSUME UpstreamInv, SamplesInv, NEW l, LetGo(l)
  PROVE  stats'.ring = stats.ring /\ stats'.pending \in Nat
<1>1. \/ stats' = [stats EXCEPT !.listeners = @ \ {l}, !.controller = 0, !.pending = 0,
                                 !.flush = FALSE, !.retry = FALSE]
      \/ stats' = [stats EXCEPT !.listeners = @ \ {l}]
  BY DEF LetGo, StoppedEntry, UpstreamInv, EntryFields
<1>2. stats'.ring = stats.ring /\ (stats'.pending = stats.pending \/ stats'.pending = 0)
  BY <1>1 DEF UpstreamInv, EntryFields
<1> QED BY <1>2 DEF SamplesInv

LEMMA SampleInOrder == ASSUME UpstreamInv, SamplesInv, NEW p, Sample(p) PROVE SamplesInv'
<1> DEFINE ring == Trim(Append(stats.ring, clock'), clock')
           taken == [stats EXCEPT !.ring = ring]
<1>1. clock' = clock + 1 /\ clock \in Nat /\ clock' \in Nat /\ Offer(taken, clock')
  BY DEF Sample, SamplesInv
<1>2. InOrder(ring) /\ Until(ring, clock')
  <2>1. stats.ring \in Seq(Nat) /\ \A i \in 1 .. Len(stats.ring) : stats.ring[i] \in Nat
    BY ElementOfSeq DEF SamplesInv, InOrder
  <2>2. \A i \in 1 .. Len(stats.ring) : stats.ring[i] < clock'
    BY <1>1, <2>1 DEF SamplesInv, Until
  <2>3. InOrder(Append(stats.ring, clock')) /\ Until(Append(stats.ring, clock'), clock')
    BY <1>1, <2>2, AppendInOrder DEF SamplesInv
  <2> QED BY <1>1, <2>3, TrimInOrder
<1> HIDE DEF ring
<1>3. taken.ring = ring /\ taken.pending = stats.pending /\ DOMAIN taken = EntryFields
  BY DEF UpstreamInv, EntryFields
<1> HIDE DEF taken
<1>4. CASE taken.flush
  <2>1. stats' = [taken EXCEPT !.pending = clock'] /\ kept' = kept
    BY <1>1, <1>4 DEF Offer
  <2>2. stats'.ring = ring /\ stats'.pending = clock'
    BY <1>3, <2>1 DEF EntryFields
  <2> QED BY <1>1, <1>2, <2>1, <2>2 DEF SamplesInv
<1>5. CASE ~taken.flush
  <2>1. stats' = [taken EXCEPT !.flush = TRUE] /\ kept' = Sent(taken.listeners, <<clock'>>)
    BY <1>1, <1>5 DEF Offer
  <2>2. stats'.ring = ring /\ stats'.pending = stats.pending
    BY <1>3, <2>1 DEF EntryFields
  <2>3. DOMAIN kept' = Page /\ \A l \in Page : InOrder(kept'[l])
    BY <1>1, <2>1, OneInOrder, SentInOrder
  <2> QED BY <1>1, <1>2, <2>2, <2>3 DEF SamplesInv
<1> QED BY <1>4, <1>5

LEMMA FlushInOrder == ASSUME UpstreamInv, SamplesInv, Flush PROVE SamplesInv'
<1>1. clock' = clock /\ stats.pending \in Nat /\ InOrder(<<stats.pending>>)
  BY OneInOrder DEF Flush, SamplesInv
<1>2. CASE stats.pending = 0 \/ stats.listeners = {}
  <2>1. stats' = [stats EXCEPT !.pending = 0, !.flush = FALSE] /\ kept' = kept
    BY <1>2 DEF Flush
  <2>2. stats'.ring = stats.ring /\ stats'.pending = 0
    BY <2>1 DEF UpstreamInv, EntryFields
  <2> QED BY <1>1, <2>1, <2>2 DEF SamplesInv
<1>3. CASE ~(stats.pending = 0 \/ stats.listeners = {})
  <2>1. stats' = [stats EXCEPT !.pending = 0] /\ kept' = Sent(stats.listeners, <<stats.pending>>)
    BY <1>3 DEF Flush
  <2>2. stats'.ring = stats.ring /\ stats'.pending = 0
    BY <2>1 DEF UpstreamInv, EntryFields
  <2>3. DOMAIN kept' = Page /\ \A l \in Page : InOrder(kept'[l])
    BY <1>1, <2>1, SentInOrder
  <2> QED BY <1>1, <2>2, <2>3 DEF SamplesInv
<1> QED BY <1>2, <1>3

LEMMA PageOpensInOrder == ASSUME UpstreamInv, SamplesInv, NEW l, NEW p, PageOpens(l, p) PROVE SamplesInv'
<1>1. TakeUp(l, p) /\ clock' = clock /\ kept' = Sent({l}, LastN(Trim(stats.ring, clock), HistoryPoints))
  BY DEF PageOpens
<1>2. InOrder(LastN(Trim(stats.ring, clock), HistoryPoints))
  BY HistoryInOrder, LastNInOrder, StatsAssumption
<1>3. DOMAIN kept' = Page /\ \A k \in Page : InOrder(kept'[k])
  BY <1>1, <1>2, SentInOrder
<1> QED BY <1>1, <1>3, TakeUpInOrder DEF SamplesInv

LEMMA StatusInOrder ==
  ASSUME UpstreamInv, SamplesInv, (\E p \in 1 .. MaxPumps : StatusLoads(p)) \/ StatusLeaves
  PROVE  SamplesInv'
<1>1. clock' = clock /\ kept' = kept
  BY DEF StatusLoads, StatusLeaves
<1>2. (\E p \in 1 .. MaxPumps : TakeUp(Overlay, p)) \/ LetGo(Overlay) \/ stats' = stats
  BY DEF StatusLoads, StatusLeaves
<1>3. InOrder(stats'.ring) /\ Until(stats'.ring, clock) /\ stats'.pending \in Nat
  BY <1>2, TakeUpInOrder, LetGoInOrder DEF SamplesInv
<1> QED BY <1>1, <1>3 DEF SamplesInv

LEMMA SamplesBegin == InitStats => SamplesInv
<1> SUFFICES ASSUME InitStats PROVE SamplesInv
  OBVIOUS
<1>1. InOrder(<<>>) /\ Until(<<>>, 0)
  BY DEF InOrder, Until
<1> QED BY <1>1 DEF InitStats, SamplesInv

LEMMA SamplesKept == StatsInv /\ SamplesInv /\ [StatsNext]_statsVars => SamplesInv'
<1> SUFFICES ASSUME UpstreamInv, SamplesInv, [StatsNext]_statsVars PROVE SamplesInv'
  BY DEF StatsInv
<1>1. DOMAIN pumps = 1 .. MaxPumps /\ DOMAIN stats = EntryFields
  BY DEF UpstreamInv
<1>2. ASSUME NEW p \in DOMAIN pumps, PumpEnds(p) \/ Retry(p) PROVE SamplesInv'
  <2>1. stats'.ring = stats.ring /\ stats'.pending = stats.pending /\ UNCHANGED <<clock, kept>>
    BY <1>1, <1>2 DEF PumpEnds, Retry, Opened, EntryFields
  <2> QED BY <2>1 DEF SamplesInv
<1>3. ASSUME NEW p \in DOMAIN pumps, (\E l \in Page : PageOpens(l, p)) \/ StatusLoads(p) \/ Sample(p)
      PROVE  SamplesInv'
  BY <1>1, <1>3, PageOpensInOrder, StatusInOrder, SampleInOrder
<1>4. ASSUME NEW l \in Page, PageLeaves(l) PROVE SamplesInv'
  <2>1. UNCHANGED <<clock, kept>> /\ stats'.ring = stats.ring /\ stats'.pending \in Nat
    BY <1>4, LetGoInOrder DEF PageLeaves
  <2> QED BY <2>1 DEF SamplesInv
<1>5. CASE Toggle \/ Pass \/ UNCHANGED statsVars
  <2>1. UNCHANGED <<stats, kept>> /\ clock' \in Nat /\ clock <= clock' /\ clock \in Nat
    BY <1>5 DEF Toggle, Pass, statsVars, SamplesInv
  <2>2. stats.ring \in Seq(Nat) /\ \A i \in 1 .. Len(stats.ring) : stats.ring[i] \in Nat
    BY ElementOfSeq DEF SamplesInv, InOrder
  <2>3. Until(stats.ring, clock')
    BY <2>1, <2>2 DEF SamplesInv, Until
  <2> QED BY <2>1, <2>3 DEF SamplesInv
<1> QED BY <1>2, <1>3, <1>4, <1>5, StatusInOrder, FlushInOrder DEF StatsNext

(* A container that is listened to has one upstream, open or about to be   *)
(* opened again, nobody listening means no upstream, and the status        *)
(* channel listens to exactly the container it last found running; and a   *)
(* page draws each sample once, in order, however often the history is     *)
(* sent again.  For any number of pages, comings and goings, samples,      *)
(* ended and aborted upstreams (subscribe, stop, pump, trim, overlay,      *)
(* reduceServerMessage).                                                   *)
THEOREM UpstreamAlwaysShared == InitStats /\ [][StatsNext]_statsVars => []UpstreamShared
<1>1. StatsInv => OneUpstream
  <2> SUFFICES ASSUME StatsInv PROVE OneUpstream
    OBVIOUS
  <2>1. LivePumps = {stats.controller} \ {0}
    BY StatsAssumption DEF LivePumps, StatsInv, UpstreamInv
  <2> QED BY <2>1 DEF OneUpstream, StatsInv, UpstreamInv, OverlayInv
<1>2. SamplesInv => \A l \in Page : \A i \in 1 .. Len(kept[l]) - 1 : kept[l][i] < kept[l][i + 1]
  <2> SUFFICES ASSUME SamplesInv, NEW l \in Page, NEW i \in 1 .. Len(kept[l]) - 1
               PROVE  kept[l][i] < kept[l][i + 1]
    OBVIOUS
  <2>1. InOrder(kept[l]) /\ Len(kept[l]) \in Nat
    BY LenProperties DEF SamplesInv, InOrder
  <2>2. i \in 1 .. Len(kept[l]) /\ i + 1 \in 1 .. Len(kept[l]) /\ i < i + 1
    BY <2>1
  <2> QED BY <2>1, <2>2 DEF InOrder
<1>3. StatsInv /\ SamplesInv => UpstreamShared
  BY <1>1, <1>2 DEF UpstreamShared
<1> QED BY <1>3, StatsBegin, StatsKept, SamplesBegin, SamplesKept, PTL

-----------------------------------------------------------------------------
(* The page that follows an operation (OpFollow)                           *)

Event == Nat \cup {Lost}

FollowTyped ==
  /\ emitted \in Nat /\ length \in Nat /\ emitted <= length /\ 1 <= length /\ length <= Emits
  /\ response \in [open : BOOLEAN, lines : Seq(Event), ended : BOOLEAN]
  /\ DOMAIN reader = {"pc", "attempt", "already", "index"}
  /\ reader.attempt \in Nat /\ reader.already \in Nat /\ reader.index \in Nat
  /\ applied \in Seq(Event)
  /\ broken \in [breaks : Nat, refused : BOOLEAN]

(* The first k events and nothing else.                                    *)
FirstEvents(k) == k <= length /\ \A i \in 1 .. k : applied[i] = i

(* What has been applied: a beginning of the operation, and after the last *)
(* attempt or a refusal the page's own error.                              *)
AppliedOK ==
  \/ /\ FirstEvents(Len(applied))
     /\ reader.pc # "ended" => Len(applied) < length /\ Len(applied) <= emitted
  \/ /\ reader.pc = "ended" /\ Len(applied) >= 1 /\ applied[Len(applied)] = Lost
     /\ FirstEvents(Len(applied) - 1) /\ Len(applied) - 1 < length
     /\ broken.refused \/ broken.breaks >= Attempts

(* A response that is read goes on after `index`, and what was applied     *)
(* ends there or where the attempt before ended.                           *)
ReadingOK ==
  /\ reader.pc = "asked" => reader.already = Len(applied) /\ reader.index = 0
  /\ reader.pc = "reading" =>
       /\ response.open
       /\ \A i \in 1 .. Len(response.lines) : response.lines[i] = reader.index + i
       /\ reader.index + Len(response.lines) = emitted
       /\ response.ended <=> emitted = length
       /\ Len(applied) = IF reader.already > reader.index THEN reader.already ELSE reader.index

(* Every attempt but a refused one ended with a response that broke.       *)
AttemptsOK ==
  /\ reader.attempt <= broken.breaks
  /\ reader.pc = "give up" => broken.refused

FollowInv == FollowTyped /\ AppliedOK /\ ReadingOK /\ AttemptsOK

LEMMA FollowBegins == InitFollow => FollowInv
<1> SUFFICES ASSUME InitFollow PROVE FollowInv
  OBVIOUS
<1>1. FollowTyped
  BY FollowAssumption DEF InitFollow, FollowTyped, NoResponse
<1>2. AppliedOK /\ ReadingOK /\ AttemptsOK
  BY FollowAssumption DEF InitFollow, AppliedOK, FirstEvents, ReadingOK, AttemptsOK
<1> QED BY <1>1, <1>2 DEF FollowInv

LEMMA EmitKeeps == ASSUME FollowInv, Emit PROVE FollowInv'
<1>0. emitted' \in Nat /\ emitted' = emitted + 1 /\ emitted' <= length
  BY DEF Emit, FollowInv, FollowTyped
<1>1. CASE response.open /\ ~response.ended
  <2> DEFINE l == Append(response.lines, emitted')
  <2>1. response' = [response EXCEPT !.lines = l, !.ended = (emitted' = length)]
    BY <1>1 DEF Emit
  <2>2. /\ l \in Seq(Event) /\ Len(l) = Len(response.lines) + 1
        /\ \A i \in 1 .. Len(response.lines) : l[i] = response.lines[i]
        /\ l[Len(response.lines) + 1] = emitted'
    <3>1. emitted' \in Event /\ response.lines \in Seq(Event)
      BY <1>0 DEF FollowInv, FollowTyped, Event
    <3> QED BY <3>1, AppendProperties
  <2>3. /\ response' \in [open : BOOLEAN, lines : Seq(Event), ended : BOOLEAN]
        /\ response'.open = response.open /\ response'.lines = l
        /\ response'.ended = (emitted' = length)
    BY <2>1, <2>2 DEF FollowInv, FollowTyped
  <2>4. FollowTyped'
    BY <1>0, <2>3 DEF Emit, FollowInv, FollowTyped
  <2>5. ReadingOK'
    <3> SUFFICES ASSUME reader.pc = "reading"
                 PROVE  /\ \A i \in 1 .. Len(l) : l[i] = reader.index + i
                        /\ reader.index + Len(l) = emitted'
      BY <1>1, <2>3 DEF Emit, FollowInv, ReadingOK
    <3>1. Len(response.lines) \in Nat /\ reader.index \in Nat
      BY DEF FollowInv, FollowTyped
    <3>2. /\ \A i \in 1 .. Len(response.lines) : response.lines[i] = reader.index + i
          /\ reader.index + Len(response.lines) = emitted /\ emitted \in Nat
      BY DEF FollowInv, FollowTyped, ReadingOK
    <3> HIDE DEF l
    <3>3. ASSUME NEW i \in 1 .. Len(l) PROVE l[i] = reader.index + i
      <4>1. CASE i <= Len(response.lines)
        BY <2>2, <3>1, <3>2, <4>1
      <4>2. CASE i = Len(response.lines) + 1
        BY <1>0, <2>2, <3>1, <3>2, <4>2
      <4> QED BY <2>2, <3>1, <4>1, <4>2
    <3>4. reader.index + Len(l) = emitted'
      BY <1>0, <2>2, <3>1, <3>2
    <3> QED BY <3>3, <3>4
  <2>6. AppliedOK'
    BY <1>0 DEF Emit, FollowInv, FollowTyped, AppliedOK, FirstEvents
  <2> QED BY <2>4, <2>5, <2>6 DEF Emit, FollowInv, AttemptsOK
<1>2. CASE ~(response.open /\ ~response.ended)
  <2>1. response' = response
    BY <1>2 DEF Emit
  <2>2. reader.pc # "reading"
    BY <1>2 DEF FollowInv, ReadingOK, Emit, FollowTyped
  <2>3. AppliedOK'
    BY <1>0 DEF Emit, FollowInv, FollowTyped, AppliedOK, FirstEvents
  <2> QED BY <1>0, <2>1, <2>2, <2>3 DEF Emit, FollowInv, FollowTyped, ReadingOK, AttemptsOK
<1> QED BY <1>1, <1>2

LEMMA AskKeeps == ASSUME FollowInv, Ask PROVE FollowInv'
<1>1. /\ DOMAIN reader' = {"pc", "attempt", "already", "index"}
      /\ reader'.pc = "asked" /\ reader'.already = Len(applied) /\ reader'.index = 0
      /\ reader'.attempt = reader.attempt
      /\ UNCHANGED <<emitted, length, response, broken, applied>>
  BY DEF Ask, KeepApplied, FollowInv, FollowTyped
<1> QED BY <1>1 DEF Ask, FollowInv, FollowTyped, AppliedOK, FirstEvents, ReadingOK, AttemptsOK

LEMMA AnsweredKeeps == ASSUME FollowInv, Buffer >= Emits, NEW refused \in BOOLEAN, Answered(refused) PROVE FollowInv'
<1>0. UNCHANGED <<emitted, length, applied>>
  BY DEF Answered, KeepApplied
<1>1. CASE refused \/ ~retained
  <2>1. /\ reader' = [reader EXCEPT !.pc = "give up"] /\ response' = response
        /\ broken' = [broken EXCEPT !.refused = TRUE] /\ reader.pc = "asked"
    BY <1>1 DEF Answered, To
  <2> QED BY <1>0, <2>1 DEF FollowInv, FollowTyped, AppliedOK, FirstEvents, ReadingOK, AttemptsOK
<1>2. CASE ~(refused \/ ~retained)
  <2>1. /\ reader' = [reader EXCEPT !.pc = "reading"] /\ response' = Replay
        /\ broken' = broken /\ reader.pc = "asked"
    BY <1>2 DEF Answered, To
  <2>2. Replay = [open |-> TRUE, lines |-> [i \in 1 .. emitted |-> 0 + i], ended |-> emitted = length]
    <3>1. ~(emitted > Buffer) /\ emitted - 0 = emitted
      BY FollowAssumption DEF FollowInv, FollowTyped
    <3> QED BY <3>1 DEF Replay
  <2> DEFINE l == [i \in 1 .. emitted |-> 0 + i]
  <2>3. l \in Seq(Event) /\ Len(l) = emitted /\ \A i \in 1 .. Len(l) : l[i] = i
    BY DEF FollowInv, FollowTyped, Event
  <2>4. /\ response' \in [open : BOOLEAN, lines : Seq(Event), ended : BOOLEAN]
        /\ response'.open /\ response'.lines = l /\ (response'.ended <=> emitted = length)
    BY <2>1, <2>2, <2>3
  <2>5. /\ DOMAIN reader' = {"pc", "attempt", "already", "index"}
        /\ reader'.pc = "reading" /\ reader'.already = Len(applied) /\ reader'.index = 0
        /\ reader'.attempt = reader.attempt
    BY <2>1 DEF FollowInv, FollowTyped, ReadingOK
  <2> HIDE DEF l
  <2>6. ReadingOK'
    <3>1. Len(applied) \in Nat /\ emitted \in Nat
      BY DEF FollowInv, FollowTyped
    <3>2. \A i \in 1 .. Len(l) : l[i] = 0 + i
      BY <2>3
    <3> QED BY <1>0, <2>3, <2>4, <2>5, <3>1, <3>2 DEF ReadingOK
  <2>7. FollowTyped'
    BY <1>0, <2>1, <2>4, <2>5 DEF FollowInv, FollowTyped
  <2>8. AppliedOK' /\ AttemptsOK'
    BY <1>0, <2>1, <2>5 DEF FollowInv, AppliedOK, FirstEvents, AttemptsOK
  <2> QED BY <2>6, <2>7, <2>8 DEF FollowInv
<1> QED BY <1>1, <1>2

(* What ReadChunk skips and what it adds.                                 *)
Skipped(already, index) == IF already > index THEN already - index ELSE 0
Continued(a, lines, n, skip) == a \o SubSeq(SubSeq(lines, 1, n), skip + 1, n)

(* The lines of a chunk that were not applied before continue what was.    *)
LEMMA ChunkContinues ==
  ASSUME NEW a \in Seq(Event), NEW lines \in Seq(Event), NEW n \in 1 .. Len(lines),
         NEW index \in Nat, NEW already \in Nat,
         \A i \in 1 .. Len(a) : a[i] = i,
         \A i \in 1 .. Len(lines) : lines[i] = index + i,
         Len(a) = IF already > index THEN already ELSE index
  PROVE  LET after == Continued(a, lines, n, Skipped(already, index))
         IN  /\ after \in Seq(Event)
             /\ Len(after) = IF already > index + n THEN already ELSE index + n
             /\ \A i \in 1 .. Len(after) : after[i] = i
<1> DEFINE skip == Skipped(already, index)
           after == Continued(a, lines, n, skip)
<1>00. skip = IF already > index THEN already - index ELSE 0
  BY DEF Skipped
<1>01. after = a \o SubSeq(SubSeq(lines, 1, n), skip + 1, n)
  BY DEF Continued
<1> SUFFICES /\ after \in Seq(Event)
             /\ Len(after) = IF already > index + n THEN already ELSE index + n
             /\ \A i \in 1 .. Len(after) : after[i] = i
  OBVIOUS
<1> HIDE DEF skip, after
<1>0. n \in Nat /\ n <= Len(lines) /\ skip \in Nat /\ Len(a) = index + skip /\ Len(a) \in Nat
  BY <1>00
<1> DEFINE taken == SubSeq(lines, 1, n)
<1>1. taken \in Seq(Event) /\ Len(taken) = n /\ \A i \in 1 .. n : taken[i] = index + i
  BY <1>0
<1> DEFINE new == SubSeq(taken, skip + 1, n)
<1> HIDE DEF taken
<1>2. /\ new \in Seq(Event) /\ Len(new) = (IF skip + 1 <= n THEN n - skip ELSE 0)
      /\ \A i \in 1 .. Len(new) : new[i] = taken[skip + i]
  BY <1>0, <1>1
<1>3. after = a \o new
  BY <1>01 DEF taken
<1> HIDE DEF new
<1>4. \A i \in 1 .. Len(new) : new[i] = Len(a) + i
  <2> SUFFICES ASSUME NEW i \in 1 .. Len(new) PROVE new[i] = Len(a) + i
    OBVIOUS
  <2>1. skip + i \in 1 .. n /\ i \in Nat
    BY <1>0, <1>2
  <2>2. new[i] = index + (skip + i)
    BY <1>1, <1>2, <2>1
  <2> QED BY <1>0, <2>1, <2>2
<1>5. /\ after \in Seq(Event) /\ Len(after) = Len(a) + Len(new)
      /\ \A i \in 1 .. Len(a) : after[i] = a[i]
      /\ \A i \in 1 .. Len(new) : after[Len(a) + i] = new[i]
  <2>1. /\ after \in Seq(Event) /\ Len(after) = Len(a) + Len(new)
        /\ \A i \in 1 .. Len(a) + Len(new) : after[i] = IF i <= Len(a) THEN a[i] ELSE new[i - Len(a)]
    <3>1. a \in Seq(Event) /\ new \in Seq(Event)
      BY <1>2
    <3>2. /\ a \o new \in Seq(Event) /\ Len(a \o new) = Len(a) + Len(new)
          /\ \A i \in 1 .. Len(a) + Len(new) : (a \o new)[i] = IF i <= Len(a) THEN a[i] ELSE new[i - Len(a)]
      BY <3>1, ConcatProperties
    <3> QED BY <1>3, <3>2, Zenon
  <2>2. Len(new) \in Nat
    BY <1>2, LenProperties
  <2>3. ASSUME NEW i \in 1 .. Len(new) PROVE after[Len(a) + i] = new[i]
    <3>1. Len(a) + i \in 1 .. Len(a) + Len(new) /\ ~(Len(a) + i <= Len(a)) /\ (Len(a) + i) - Len(a) = i
      BY <1>0, <2>2
    <3> QED BY <2>1, <3>1
  <2>4. \A i \in 1 .. Len(a) : i \in 1 .. Len(a) + Len(new) /\ i <= Len(a)
    BY <1>0, <2>2
  <2>5. \A i \in 1 .. Len(a) : after[i] = a[i]
    BY <2>1, <2>4
  <2> QED BY <2>1, <2>3, <2>5
<1>6. Len(new) \in Nat
  BY <1>2, <1>0
<1>7. \A i \in 1 .. Len(after) : after[i] = i
  <2> SUFFICES ASSUME NEW i \in 1 .. Len(after), i > Len(a) PROVE after[i] = i
    BY <1>5, <1>0
  <2>1. i - Len(a) \in 1 .. Len(new) /\ i = Len(a) + (i - Len(a))
    BY <1>0, <1>5, <1>6
  <2> QED BY <1>4, <1>5, <2>1
<1>8. Len(after) = IF already > index + n THEN already ELSE index + n
  <2>1. CASE skip + 1 <= n
    <3>1. Len(after) = (index + skip) + (n - skip)
      BY <1>0, <1>2, <1>5, <2>1
    <3>2. (index + skip) + (n - skip) = index + n
      <4>1. skip \in Nat /\ n \in Nat
        BY <1>0
      <4> QED BY ONLY <4>1, index \in Nat
    <3>3. Len(after) = index + n
      BY <3>1, <3>2, Zenon
    <3> QED BY <1>0, <2>1, <3>3
  <2>2. CASE ~(skip + 1 <= n)
    BY <1>0, <1>2, <1>5, <2>2
  <2> QED BY <2>1, <2>2
<1> QED BY <1>5, <1>7, <1>8

LEMMA ReadKeeps == ASSUME FollowInv, NEW n \in 1 .. Emits, ReadChunk(n) PROVE FollowInv'
<1> DEFINE lines == response.lines
           after == Continued(applied, lines, n, Skipped(reader.already, reader.index))
<1>1. /\ n \in 1 .. Len(lines) /\ reader.pc = "reading" /\ applied' = after
      /\ UNCHANGED <<emitted, length, broken>>
      /\ IF HasTerminal(after)
         THEN reader' = [reader EXCEPT !.pc = "ended"] /\ response' = NoResponse
         ELSE /\ reader' = [reader EXCEPT !.index = @ + n]
              /\ response' = [response EXCEPT !.lines = SubSeq(@, n + 1, Len(@))]
  BY DEF ReadChunk, ApplyAll, To, Continued, Skipped
<1>2. /\ applied \in Seq(Event) /\ lines \in Seq(Event) /\ Len(lines) \in Nat
      /\ reader.index \in Nat /\ reader.already \in Nat
      /\ emitted \in Nat /\ length \in Nat /\ emitted <= length
  BY DEF FollowInv, FollowTyped
<1>3. /\ \A i \in 1 .. Len(applied) : applied[i] = i
      /\ Len(applied) <= emitted /\ Len(applied) < length
  BY <1>1 DEF FollowInv, AppliedOK, FirstEvents
<1>4. /\ \A i \in 1 .. Len(lines) : lines[i] = reader.index + i
      /\ reader.index + Len(lines) = emitted /\ response.open
      /\ response.ended <=> emitted = length
      /\ Len(applied) = IF reader.already > reader.index THEN reader.already ELSE reader.index
  BY <1>1 DEF FollowInv, ReadingOK
<1>5. /\ after \in Seq(Event)
      /\ Len(after) = IF reader.already > reader.index + n THEN reader.already ELSE reader.index + n
      /\ \A i \in 1 .. Len(after) : after[i] = i
  <2> HIDE DEF lines
  <2>1. n \in 1 .. Len(lines)
    BY <1>1
  <2>2. Len(applied) = IF reader.already > reader.index THEN reader.already ELSE reader.index
    BY <1>4
  <2> QED BY <1>2, <1>3, <1>4, <2>1, <2>2, ChunkContinues
<1> HIDE DEF after
<1>6. n \in Nat /\ n <= Len(lines) /\ Len(after) \in Nat /\ DOMAIN after = 1 .. Len(after)
  BY <1>1, <1>2, <1>5
<1>7. Len(after) <= emitted
  BY <1>2, <1>3, <1>4, <1>5, <1>6
<1>8. HasTerminal(after) <=> Len(after) = length
  <2>1. \A i \in 1 .. Len(after) : after[i] = i /\ i \in Nat /\ i <= Len(after)
    BY <1>5, <1>6
  <2>2. \A i \in 1 .. Len(after) : after[i] # Lost
    BY <2>1, FollowAssumption
  <2>3. HasTerminal(after) <=> \E i \in 1 .. Len(after) : i = length
    BY <1>5, <1>6, <2>2 DEF HasTerminal, Terminal
  <2>4. length \in Nat /\ 1 <= length
    BY DEF FollowInv, FollowTyped
  <2>5. Len(after) = length => length \in 1 .. Len(after)
    BY <1>6, <2>4
  <2>6. length \in 1 .. Len(after) => Len(after) = length
    <3>1. Len(after) <= length
      BY <1>2, <1>6, <1>7
    <3>2. length \in 1 .. Len(after) => length <= Len(after)
      OBVIOUS
    <3>3. length \in Nat /\ Len(after) \in Nat
      BY <1>6, <2>4
    <3> QED BY <3>1, <3>2, <3>3
  <2> QED BY <2>3, <2>5, <2>6
<1>9. CASE HasTerminal(after)
  <2>1. reader' = [reader EXCEPT !.pc = "ended"] /\ response' = NoResponse
    BY <1>1, <1>9
  <2>2. FollowTyped'
    BY <1>1, <1>5, <2>1 DEF FollowInv, FollowTyped, NoResponse
  <2>3. AppliedOK'
    BY <1>1, <1>5, <1>8, <1>9, <1>2, <2>1 DEF AppliedOK, FirstEvents, FollowInv, FollowTyped
  <2> QED BY <1>1, <2>1, <2>2, <2>3 DEF FollowInv, FollowTyped, ReadingOK, AttemptsOK
<1>10. CASE ~HasTerminal(after)
  <2> DEFINE rest == SubSeq(lines, n + 1, Len(lines))
  <2>1. /\ reader' = [reader EXCEPT !.index = @ + n]
        /\ response' = [response EXCEPT !.lines = rest]
    BY <1>1, <1>10
  <2>2. /\ rest \in Seq(Event) /\ Len(rest) = Len(lines) - n
        /\ \A i \in 1 .. Len(rest) : rest[i] = lines[n + i]
    BY <1>2, <1>6
  <2> HIDE DEF rest
  <2>3. /\ response' \in [open : BOOLEAN, lines : Seq(Event), ended : BOOLEAN]
        /\ response'.open = response.open /\ response'.lines = rest /\ response'.ended = response.ended
        /\ DOMAIN reader' = {"pc", "attempt", "already", "index"}
        /\ reader'.pc = "reading" /\ reader'.index = reader.index + n
        /\ reader'.already = reader.already /\ reader'.attempt = reader.attempt
    BY <1>1, <1>6, <2>1, <2>2 DEF FollowInv, FollowTyped
  <2>4. FollowTyped'
    BY <1>1, <1>5, <2>3 DEF FollowInv, FollowTyped
  <2>5. AppliedOK'
    BY <1>1, <1>2, <1>5, <1>6, <1>7, <1>8, <1>10, <2>3 DEF AppliedOK, FirstEvents
  <2>6. ReadingOK'
    <3>1. \A i \in 1 .. Len(rest) : rest[i] = reader.index + n + i
      <4> SUFFICES ASSUME NEW i \in 1 .. Len(rest) PROVE rest[i] = reader.index + n + i
        OBVIOUS
      <4>1. n + i \in 1 .. Len(lines) /\ i \in Nat
        BY <1>2, <1>6, <2>2
      <4>2. rest[i] = reader.index + (n + i)
        BY <1>4, <2>2, <4>1
      <4> QED BY <1>2, <1>6, <4>1, <4>2
    <3>2. reader.index + n + Len(rest) = emitted
      BY <1>2, <1>4, <1>6, <2>2
    <3> QED BY <1>1, <1>4, <1>5, <2>3, <3>1, <3>2 DEF ReadingOK
  <2> QED BY <1>1, <2>3, <2>4, <2>5, <2>6 DEF FollowInv, AttemptsOK
<1> QED BY <1>9, <1>10

LEMMA EndOfResponseNever == ASSUME FollowInv PROVE ~EndOfResponse
<1> SUFFICES ASSUME EndOfResponse PROVE FALSE
  OBVIOUS
<1>1. reader.pc = "reading" /\ Len(response.lines) = 0 /\ response.ended
  BY DEF EndOfResponse
<1>2. reader.index = length /\ Len(applied) < length
  BY <1>1 DEF FollowInv, FollowTyped, ReadingOK, AppliedOK
<1>3. Len(applied) = IF reader.already > reader.index THEN reader.already ELSE reader.index
  BY <1>1 DEF FollowInv, ReadingOK
<1> QED BY <1>2, <1>3 DEF FollowInv, FollowTyped

LEMMA BreakOffKeeps == ASSUME FollowInv, BreakOff PROVE FollowInv'
<1>1. /\ UNCHANGED <<emitted, length, applied>> /\ response' = NoResponse
      /\ reader.pc \in {"asked", "reading"}
      /\ reader' = [reader EXCEPT !.pc = "start", !.attempt = @ + 1]
      /\ broken' = [broken EXCEPT !.breaks = @ + 1]
  BY DEF BreakOff, NextAttempt, KeepApplied
<1>2. FollowTyped'
  BY <1>1 DEF FollowInv, FollowTyped, NoResponse
<1>3. reader'.pc = "start" /\ reader'.attempt = reader.attempt + 1
      /\ broken'.breaks = broken.breaks + 1 /\ broken'.refused = broken.refused
  BY <1>1 DEF FollowInv, FollowTyped
<1>4. AppliedOK'
  BY <1>1, <1>3 DEF FollowInv, AppliedOK, FirstEvents
<1>5. ReadingOK'
  BY <1>3 DEF ReadingOK
<1>6. AttemptsOK'
  <2>1. reader.attempt \in Nat /\ broken.breaks \in Nat /\ reader.attempt <= broken.breaks
    BY DEF FollowInv, FollowTyped, AttemptsOK
  <2>2. reader.attempt + 1 <= broken.breaks + 1
    BY <2>1
  <2> QED BY <1>3, <2>2 DEF AttemptsOK
<1> QED BY <1>2, <1>4, <1>5, <1>6 DEF FollowInv

LEMMA GiveUpKeeps == ASSUME FollowInv, GiveUp PROVE FollowInv'
<1>1. /\ UNCHANGED <<emitted, length, response, broken>>
      /\ reader' = [reader EXCEPT !.pc = "ended"]
      /\ applied' = Append(applied, Lost)
      /\ reader.pc # "ended"
      /\ reader.pc = "give up" \/ reader.attempt = Attempts
  BY DEF GiveUp, ApplyAll, To
<1>2. reader'.pc = "ended" /\ reader'.attempt = reader.attempt
  BY <1>1 DEF FollowInv, FollowTyped
<1>3. applied \in Seq(Event) /\ FirstEvents(Len(applied)) /\ Len(applied) < length
  BY <1>1 DEF FollowInv, FollowTyped, AppliedOK
<1>4. /\ applied' \in Seq(Event) /\ Len(applied') = Len(applied) + 1 /\ Len(applied) \in Nat
      /\ applied'[Len(applied) + 1] = Lost
      /\ \A i \in 1 .. Len(applied) : applied'[i] = applied[i]
  <2>1. Lost \in Event
    BY DEF Event
  <2>2. Len(applied) \in Nat
    BY <1>3, LenProperties
  <2>3. /\ applied' \in Seq(Event) /\ Len(applied') = Len(applied) + 1
        /\ applied'[Len(applied) + 1] = Lost
    BY <1>1, <1>3, <2>1, AppendProperties
  <2>4. \A i \in 1 .. Len(applied) : applied'[i] = applied[i]
    <3>1. \A i \in 1 .. Len(applied) : Append(applied, Lost)[i] = applied[i]
      BY <1>3, <2>1, AppendProperties
    <3> QED BY <1>1, <3>1, Zenon
  <2> QED BY <2>2, <2>3, <2>4
<1>5. broken.refused \/ broken.breaks >= Attempts
  BY <1>1 DEF FollowInv, FollowTyped, AttemptsOK
<1>6. FollowTyped'
  BY <1>1, <1>4 DEF FollowInv, FollowTyped
<1>7. AppliedOK'
  <2>1. Len(applied') - 1 = Len(applied) /\ Len(applied') >= 1
    BY <1>4
  <2>2. /\ Len(applied') - 1 <= length' /\ Len(applied') - 1 < length'
        /\ \A i \in 1 .. Len(applied') - 1 : applied'[i] = i
    BY <1>1, <1>3, <1>4, <2>1 DEF FirstEvents, FollowInv, FollowTyped
  <2>3. applied'[Len(applied')] = Lost
    BY <1>4
  <2> QED BY <1>1, <1>2, <1>5, <2>1, <2>2, <2>3 DEF AppliedOK, FirstEvents
<1> QED BY <1>1, <1>2, <1>6, <1>7 DEF FollowInv, ReadingOK, AttemptsOK

LEMMA AbortedKeeps == ASSUME FollowInv, Aborted PROVE FollowInv'
<1>1. /\ UNCHANGED <<emitted, length, applied, broken>> /\ response' = NoResponse
      /\ reader' = [reader EXCEPT !.pc = "ended"]
  BY DEF Aborted, To, KeepApplied
<1>2. FollowTyped'
  BY <1>1 DEF FollowInv, FollowTyped, NoResponse
<1>3. reader'.pc = "ended" /\ reader'.attempt = reader.attempt
  BY <1>1 DEF FollowInv, FollowTyped
<1> QED BY <1>1, <1>2, <1>3 DEF FollowInv, FollowTyped, AppliedOK, FirstEvents, ReadingOK, AttemptsOK

LEMMA FollowKept == ASSUME FollowInv, Buffer >= Emits, [FollowNext]_followVars PROVE FollowInv'
<1>1. CASE Expire \/ TrackTimeout \/ ClearPending \/ UNCHANGED followVars
  <2>1. UNCHANGED <<emitted, length, response, reader, applied, broken>>
    BY <1>1 DEF Expire, TrackTimeout, ClearPending, followVars
  <2> QED BY <2>1 DEF FollowInv, FollowTyped, AppliedOK, FirstEvents, ReadingOK, AttemptsOK
<1> QED BY <1>1, EmitKeeps, AskKeeps, AnsweredKeeps, ReadKeeps, EndOfResponseNever, BreakOffKeeps,
           GiveUpKeeps, AbortedKeeps DEF FollowNext

(* FollowedTruly: the page applies the operation's events once, in order   *)
(* and without a gap, and records an error of its own only when the end    *)
(* did not arrive and it was refused or lost every attempt, for any number *)
(* of broken responses and any chunks (followOp), as long as the registry  *)
(* buffers every event of the operation.                                   *)
THEOREM FollowsTruly ==
  ASSUME Buffer >= Emits PROVE InitFollow /\ [][FollowNext]_followVars => []FollowedTruly
<1>1. FollowInv => FollowedTruly
  <2> SUFFICES ASSUME FollowInv PROVE FollowedTruly
    OBVIOUS
  <2>1. /\ DOMAIN applied = 1 .. Len(applied) /\ Len(applied) \in Nat /\ length \in Nat
        /\ Lost \notin Nat
    BY FollowAssumption DEF FollowInv, FollowTyped
  <2>2. CASE FirstEvents(Len(applied))
    BY <2>1, <2>2 DEF FollowedTruly, ReopenedFollows, FirstEvents
  <2>3. CASE ~FirstEvents(Len(applied))
    <3>1. /\ applied[Len(applied)] = Lost /\ FirstEvents(Len(applied) - 1) /\ Len(applied) - 1 < length
          /\ broken.refused \/ broken.breaks >= Attempts
      BY <2>3 DEF FollowInv, AppliedOK
    <3>2. \A i \in DOMAIN applied : i = Len(applied) \/ (applied[i] = i /\ i # length)
      BY <2>1, <3>1 DEF FirstEvents
    <3>3. length # Lost
      BY <2>1
    <3> QED BY <3>1, <3>2, <3>3 DEF FollowedTruly, ReopenedFollows
  <2> QED BY <2>2, <2>3
<1>2. FollowInv /\ [FollowNext]_followVars => FollowInv'
  BY FollowKept
<1> QED BY <1>1, <1>2, FollowBegins, PTL
-----------------------------------------------------------------------------
(* ServiceStatus: types, and what the rows say while they are collected *)

RowStates == {"stopped", "starting", "running", "error", "port-conflict"}
RowType ==
    [name : Instance, state : RowStates, port : StatusPorts \cup {Unprovisioned},
     suggested : StatusPorts \cup {NoPort}]
LookType ==
    [pc : {"idle", "list", "inspect", "probe", "suggest", "done"}, at : Nat,
     pins : [Instance -> StatusPorts \cup {Unprovisioned}],
     seen : [Instance -> Summaries \cup {NoBox}], rows : Seq(RowType), draft : RowStates,
     tried : SUBSET StatusPorts, sure : BOOLEAN, moved : SUBSET Instance, whole : BOOLEAN]

RowsTyped ==
    /\ box \in [Instance -> Containers \cup {NoBox}]
    /\ stranger \in [StatusPorts -> {"none", "loopback", "wildcard", "mute"}]
    /\ pin \in [Instance -> StatusPorts \cup {Unprovisioned}]
    /\ look \in LookType

(* The rows are those of the services before the current one, or the one of a refused port. *)
Working == {"inspect", "probe", "suggest"}
Placed(l) ==
    /\ l.pc \in Working => l.at \in DOMAIN Order
    /\ l.pc \in {"idle", "list"} => l.rows = <<>>
    /\ ~l.whole => l.pc \in {"suggest", "done"}
    /\ l.whole => /\ l.pc \in Working => Len(l.rows) = l.at - 1
                  /\ l.pc = "done" => Len(l.rows) = Len(Order)
                  /\ \A i \in DOMAIN l.rows : l.rows[i].name = Order[i]

SeenTrue(l) ==
    l.whole /\ l.pc \in Working => \A s \in Instance \ l.moved : l.seen[s] = Summary(box[s])

(* A service that is probed does not run, and nothing but its port is left to find out. *)
IdleState(p) == IF Busy(p) THEN "port-conflict" ELSE "stopped"
DraftTrue(l) ==
    LET s == Order[l.at] IN
    /\ l.pc = "probe" => l.draft = "stopped" /\ l.pins[s] # Unprovisioned
    /\ l.pc \in {"probe", "suggest"} /\ s \notin l.moved =>
         /\ ~Runs(s)
         /\ l.whole /\ l.sure =>
              TrueState(s, l.pins[s]) = IF l.pc = "probe" THEN IdleState(l.pins[s]) ELSE "port-conflict"

SuggestionTrue(l, s, p) ==
    /\ p \in PortsFor[s] \ ({l.pins[s], UsualPort[s]} \cup ForeignPins \cup {l.pins[t] : t \in Instance})
    /\ l.moved = {} => stranger[p] \in {"none", "mute"} /\ ~Bound(p)
RowTrue(l, r) ==
    LET s == r.name IN
    /\ r.port = l.pins[s]
    /\ s \notin l.moved =>
         /\ l.whole /\ l.sure => r.state = TrueState(s, r.port)
         /\ Runs(s) => r.state = Running(box[s].health)
         /\ l.whole /\ r.state = "running" => Runs(s)
    /\ r.suggested # NoPort => r.state = "port-conflict" /\ SuggestionTrue(l, s, r.suggested)

LookTrue(l) ==
    /\ Placed(l) /\ SeenTrue(l) /\ DraftTrue(l)
    /\ \A i \in DOMAIN l.rows : RowTrue(l, l.rows[i])
LookInv == RowsTyped /\ LookTrue(look)

LEMMA PortFacts ==
    /\ StatusPorts \subseteq Nat \ {Unprovisioned}
    /\ NoPort \notin StatusPorts
    /\ \A s \in Instance : PortsFor[s] \subseteq StatusPorts
    /\ \A i \in DOMAIN Order : Order[i] \in Instance
  <1>1. \A s \in Instance : PortsFor[s] \subseteq Nat \ {Unprovisioned}
    BY PortsForAssumption
  <1>2. StatusPorts \subseteq Nat \ {Unprovisioned}
    BY <1>1 DEF StatusPorts
  <1>3. \A s \in Instance : PortsFor[s] \subseteq StatusPorts
    BY DEF StatusPorts
  <1>4. \A i \in DOMAIN Order : Order[i] \in Instance
    BY OrderAssumption
  <1> QED
    BY <1>2, <1>3, <1>4 DEF NoPort

(* The probe tells a port busy exactly when something is in the way. *)
LEMMA BusyProbe == ASSUME NEW p \in StatusPorts PROVE Busy(p) <=> ~ProbedFree(p)
  BY PortFacts DEF Busy, ProbedFree, CanBind, Answers

(* What classifyContainer says of a container, whoever it was. *)
LEMMA ClassifyTyped ==
    ASSUME NEW b, b = NoBox \/ b \in Summaries
    PROVE  /\ Classify(b).active \in BOOLEAN
           /\ Classify(b).active => Classify(b).state \in {"running", "starting", "error"}
           /\ ~Classify(b).active => Classify(b).state \in {"stopped", "port-conflict", "error"}
  BY DEF Classify, Running, Summaries, ContainerStates, ContainerHealth

LEMMA SummaryTyped ==
    ASSUME NEW b \in Containers
    PROVE  /\ b # NoBox
           /\ Summary(b) \in Summaries /\ Summary(b) # NoBox
           /\ Details(b) \in Summaries /\ Details(b) # NoBox
           /\ b.state = "running" => Classify(Summary(b)) = [state |-> Running(b.health), active |-> TRUE]
           /\ b.state # "running" =>
                /\ ~(Classify(Summary(b)).active /\ Classify(Summary(b)).state = "running")
                /\ Classify(Summary(b)).state # "running"
  <1>1. b # NoBox /\ \A r \in Summaries : r # NoBox
    BY NoBoxAssumption
  <1>2. Summary(b) \in Summaries
    BY <1>1 DEF Summary, Summaries, Containers, ContainerHealth
  <1>3. Details(b) \in Summaries
    BY <1>1 DEF Details, Summaries, Containers
  <1>4. /\ Summary(b).state = b.state /\ ~Summary(b).bind
        /\ b.state = "running" => Summary(b).health = b.health
    BY <1>1 DEF Summary
  <1>5. b.state = "running" => Classify(Summary(b)) = [state |-> Running(b.health), active |-> TRUE]
    BY <1>1, <1>2, <1>4 DEF Classify
  <1>6. b.state # "running" => Classify(Summary(b)).state # "running"
    BY <1>1, <1>2, <1>4 DEF Classify, Summaries, ContainerStates
  <1> QED
    BY <1>1, <1>2, <1>3, <1>5, <1>6

(* Inspected, a container is told as it is, but for its port. *)
LEMMA DetailsTrue ==
    ASSUME NEW s \in Instance, box[s] \in Containers, NEW p
    PROVE  LET c == Classify(Details(box[s])) IN
           /\ Runs(s) => c.active /\ c.state = Running(box[s].health)
           /\ ~Runs(s) => c.state # "running"
           /\ TrueState(s, p) = IF c.state = "stopped" THEN IdleState(p) ELSE c.state
  <1> DEFINE b == box[s]
             d == Details(b)
  <1>1. b # NoBox /\ d # NoBox
    BY SummaryTyped
  <1>2. d.state = b.state /\ d.code = b.code /\ d.bind = b.bind /\ d.health = b.health
    BY DEF Details
  <1>3. b.state \in ContainerStates /\ b.health \in ContainerHealth /\ b.bind \in BOOLEAN
    BY DEF Containers
  <1>4. CASE b.state = "running"
    <2>1. Classify(d) = [state |-> Running(b.health), active |-> TRUE]
      BY <1>1, <1>2, <1>4 DEF Classify
    <2>2. Runs(s)
      BY <1>1, <1>4 DEF Runs
    <2>3. TrueState(s, p) = Running(b.health) /\ Running(b.health) # "stopped"
      <3>1. CASE b.health = "starting"
        <4>1. Running(b.health) = "starting"
          BY <3>1 DEF Running
        <4>2. TrueState(s, p) = "starting"
          BY <1>4, <2>2, <3>1 DEF TrueState, Runs, Broken
        <4> QED
          BY <4>1, <4>2
      <3>2. CASE b.health = "unhealthy"
        <4>1. Running(b.health) = "error"
          BY <3>2 DEF Running
        <4>2. TrueState(s, p) = "error"
          BY <1>4, <2>2, <3>2 DEF TrueState, Runs, Broken
        <4> QED
          BY <4>1, <4>2
      <3>3. CASE b.health \in {"none", "healthy"}
        <4>1. Running(b.health) = "running"
          BY <3>3 DEF Running
        <4>2. TrueState(s, p) = "running"
          BY <1>4, <2>2, <3>3 DEF TrueState, Runs, Broken
        <4> QED
          BY <4>1, <4>2
      <3> QED
        BY <1>3, <3>1, <3>2, <3>3 DEF ContainerHealth
    <2> QED
      BY <2>1, <2>2, <2>3
  <1>5. CASE b.state # "running" /\ b.bind
    <2>1. Classify(d) = [state |-> "port-conflict", active |-> FALSE]
      BY <1>1, <1>2, <1>5 DEF Classify
    <2>2. ~Runs(s)
      BY <1>5 DEF Runs
    <2>3. TrueState(s, p) = "port-conflict"
      BY <1>1, <1>5, <2>2 DEF TrueState
    <2> QED
      BY <2>1, <2>2, <2>3
  <1>6. CASE b.state # "running" /\ ~b.bind
    <2>1. ~Runs(s)
      BY <1>6 DEF Runs
    <2>2. CASE b.state \in {"created", "restarting"}
      <3>1. Classify(d).state = "starting"
        BY <1>1, <1>2, <1>6, <2>2 DEF Classify
      <3>2. TrueState(s, p) = "starting"
        BY <1>1, <1>6, <2>1, <2>2 DEF TrueState, Broken
      <3> QED
        BY <2>1, <3>1, <3>2
    <2>3. CASE Broken(b)
      <3>1. Classify(d).state = "error"
        BY <1>1, <1>2, <1>6, <2>3 DEF Classify, Broken
      <3>2. TrueState(s, p) = "error"
        BY <1>1, <1>6, <2>1, <2>3 DEF TrueState, Broken
      <3> QED
        BY <2>1, <3>1, <3>2
    <2>4. CASE b.state \notin {"created", "restarting"} /\ ~Broken(b)
      <3>1. Classify(d).state = "stopped"
        BY <1>1, <1>2, <1>6, <2>4 DEF Classify, Broken
      <3>2. TrueState(s, p) = IdleState(p)
        BY <1>6, <2>1, <2>4 DEF TrueState, IdleState
      <3> QED
        BY <2>1, <3>1, <3>2
    <2> QED
      BY <2>2, <2>3, <2>4
  <1> QED
    BY <1>3, <1>4, <1>5, <1>6

LEMMA NobodyTrue ==
    ASSUME NEW s, box[s] = NoBox, NEW p
    PROVE  /\ ~Runs(s) /\ TrueState(s, p) = IdleState(p)
           /\ Classify(NoBox) = [state |-> "stopped", active |-> FALSE]
  BY DEF Runs, TrueState, IdleState, Classify

(* What classifyContainer said of the current service, against what its container is. *)
Verdict(l, s, c) ==
    s \notin l.moved =>
      /\ Runs(s) => c.active /\ c.state = Running(box[s].health)
      /\ ~Runs(s) => c.state # "running"
      /\ l.sure => \A p \in StatusPorts \cup {Unprovisioned} :
                     TrueState(s, p) = IF c.state = "stopped" THEN IdleState(p) ELSE c.state

(* Less is promised once a request has failed. *)
LEMMA UnsureKeeps ==
    ASSUME NEW l \in LookType, LookTrue(l)
    PROVE  [l EXCEPT !.sure = FALSE] \in LookType /\ LookTrue([l EXCEPT !.sure = FALSE])
  <1> DEFINE m == [l EXCEPT !.sure = FALSE]
  <1>1. m \in LookType
    BY DEF LookType
  <1>2. /\ m.pc = l.pc /\ m.at = l.at /\ m.pins = l.pins /\ m.seen = l.seen /\ m.rows = l.rows
        /\ m.draft = l.draft /\ m.moved = l.moved /\ m.whole = l.whole /\ ~m.sure
    BY DEF LookType
  <1> HIDE DEF m
  <1>3. Placed(m) /\ SeenTrue(m) /\ DraftTrue(m)
    BY <1>2 DEF LookTrue, Placed, SeenTrue, DraftTrue
  <1>4. ASSUME NEW r, RowTrue(l, r) PROVE RowTrue(m, r)
    BY <1>2, <1>4 DEF RowTrue, SuggestionTrue
  <1> QED
    BY <1>1, <1>2, <1>3, <1>4 DEF LookTrue, m

(* A row that is true is pushed. *)
LEMMA PushKeeps ==
    ASSUME NEW l \in LookType, LookTrue(l), l.pc \in Working, NEW state \in RowStates,
           NEW suggested \in StatusPorts \cup {NoPort},
           RowTrue(l, [name |-> Order[l.at], state |-> state, port |-> l.pins[Order[l.at]],
                       suggested |-> suggested])
    PROVE  Push(l, state, suggested) \in LookType /\ LookTrue(Push(l, state, suggested))
  <1> DEFINE r == [name |-> Order[l.at], state |-> state, port |-> l.pins[Order[l.at]],
                   suggested |-> suggested]
             m == Push(l, state, suggested)
  <1>1. l.at \in DOMAIN Order /\ Order[l.at] \in Instance /\ Len(Order) \in Nat /\ DOMAIN Order = 1..Len(Order)
    BY PortFacts, OrderAssumption DEF LookTrue, Placed
  <1>2. r \in RowType
    BY <1>1 DEF RowType, LookType
  <1>3. l.rows \in Seq(RowType) /\ l.at \in Nat
    BY DEF LookType
  <1>4. Append(l.rows, r) \in Seq(RowType)
    BY <1>2, <1>3
  <1>5. /\ m.rows = Append(l.rows, r) /\ m.at = l.at + 1
        /\ m.pc = (IF l.at = Len(Order) \/ ~l.whole THEN "done" ELSE "inspect")
        /\ m.pins = l.pins /\ m.seen = l.seen /\ m.sure = l.sure
        /\ m.moved = l.moved /\ m.whole = l.whole
    BY DEF Push, LookType
  <1>6. m \in LookType
    <2> DEFINE next == IF l.at = Len(Order) \/ ~l.whole THEN "done" ELSE "inspect"
    <2>1. m = [l EXCEPT !.rows = Append(l.rows, r), !.at = l.at + 1, !.tried = {}, !.pc = next]
      BY DEF Push, LookType
    <2>2. next \in {"done", "inspect"} /\ l.at + 1 \in Nat
      BY <1>3
    <2> HIDE DEF next, m, r
    <2> QED
      BY <1>4, <2>1, <2>2 DEF LookType
  <1>7. ASSUME NEW q, RowTrue(l, q) PROVE RowTrue(m, q)
    BY <1>5, <1>7 DEF RowTrue, SuggestionTrue
  <1>a. RowTrue(l, r) /\ \A i \in DOMAIN l.rows : RowTrue(l, l.rows[i])
    BY DEF LookTrue
  <1> HIDE DEF r, m
  <1>8. /\ Len(m.rows) = Len(l.rows) + 1 /\ DOMAIN m.rows = 1..(Len(l.rows) + 1)
        /\ DOMAIN l.rows = 1..Len(l.rows) /\ Len(l.rows) \in Nat
        /\ m.rows[Len(l.rows) + 1] = r
        /\ \A i \in DOMAIN l.rows : m.rows[i] = l.rows[i]
    BY <1>2, <1>3, <1>5
  <1>9. \A i \in DOMAIN m.rows : RowTrue(m, m.rows[i])
    <2> SUFFICES ASSUME NEW i \in DOMAIN m.rows PROVE RowTrue(m, m.rows[i])
      OBVIOUS
    <2>1. CASE i \in DOMAIN l.rows
      BY <1>7, <1>8, <1>a, <2>1
    <2>2. CASE i = Len(l.rows) + 1
      BY <1>7, <1>8, <1>a, <2>2
    <2> QED
      BY <1>8, <2>1, <2>2
  <1>10. Placed(m)
    <2>1. l.whole => Len(l.rows) = l.at - 1 /\ \A i \in DOMAIN l.rows : l.rows[i].name = Order[i]
      BY DEF LookTrue, Placed
    <2>2. r.name = Order[l.at]
      BY DEF r
    <2>3. l.whole => /\ Len(m.rows) = l.at
                     /\ \A i \in DOMAIN m.rows : m.rows[i].name = Order[i]
      BY SMTT(30), <1>3, <1>8, <2>1, <2>2
    <2>4. m.pc = "inspect" => l.whole /\ l.at + 1 \in DOMAIN Order
      BY <1>1, <1>5
    <2>5. m.pc \in {"inspect", "done"} /\ (m.pc = "done" /\ l.whole => l.at = Len(Order))
      BY <1>5
    <2> QED
      BY <1>3, <1>5, <2>3, <2>4, <2>5 DEF Placed, Working
  <1>11. SeenTrue(m)
    BY <1>5 DEF LookTrue, SeenTrue
  <1>12. DraftTrue(m)
    BY <1>5 DEF DraftTrue
  <1> QED
    BY <1>6, <1>9, <1>10, <1>11, <1>12 DEF LookTrue, m

(* The verdict becomes a row, or a draft that waits for the probe. *)
LEMMA JudgeKeeps ==
    ASSUME NEW l \in LookType, LookTrue(l), l.pc = "inspect", l.at = look.at, l.pins = look.pins,
           NEW c, c.active \in BOOLEAN,
           c.active => c.state \in {"running", "starting", "error"},
           ~c.active => c.state \in {"stopped", "port-conflict", "error"},
           Verdict(l, Order[l.at], c)
    PROVE  Judge(c, l) \in LookType /\ LookTrue(Judge(c, l))
  <1> DEFINE s == Order[l.at]
             p == l.pins[s]
  <1>1. l.at \in DOMAIN Order /\ s \in Instance /\ l.whole
    BY PortFacts DEF LookTrue, Placed, Working
  <1>2. p \in StatusPorts \cup {Unprovisioned}
    BY <1>1 DEF LookType
  <1>3. c.state \in RowStates
    BY DEF RowStates
  <1>0. Subject = s /\ look.pins[s] = p
    BY DEF Subject
  <1> HIDE DEF s, p
  <1>4. CASE AsksForPort(c, s)
    <2> DEFINE m == [l EXCEPT !.draft = c.state, !.pc = IF c.state = "port-conflict" THEN "suggest" ELSE "probe"]
    <2>1. Judge(c, l) = m
      BY <1>0, <1>4 DEF Judge
    <2>2. m \in LookType
      BY <1>3 DEF LookType
    <2>3. /\ m.pc = (IF c.state = "port-conflict" THEN "suggest" ELSE "probe") /\ m.draft = c.state
          /\ m.at = l.at /\ m.pins = l.pins /\ m.seen = l.seen /\ m.rows = l.rows
          /\ m.sure = l.sure /\ m.moved = l.moved /\ m.whole = l.whole
      BY DEF LookType
    <2>4. ~c.active /\ c.state \in {"stopped", "port-conflict"} /\ p # Unprovisioned
      BY <1>0, <1>4 DEF AsksForPort
    <2> HIDE DEF m
    <2>5. Placed(m) /\ SeenTrue(m)
      BY <2>3 DEF LookTrue, Placed, SeenTrue, Working
    <2>6. DraftTrue(m)
      <3>1. m.pc = "probe" => c.state = "stopped"
        BY <2>3, <2>4
      <3>2. s \notin l.moved => ~Runs(s)
        BY <2>4 DEF Verdict, s
      <3>3. s \notin l.moved /\ l.sure =>
              TrueState(s, p) = IF c.state = "stopped" THEN IdleState(p) ELSE c.state
        BY <1>2 DEF Verdict, s
      <3> QED
        BY <2>3, <2>4, <3>1, <3>2, <3>3 DEF DraftTrue, s, p
    <2>7. ASSUME NEW r, RowTrue(l, r) PROVE RowTrue(m, r)
      BY <2>3, <2>7 DEF RowTrue, SuggestionTrue
    <2> QED
      BY <2>1, <2>2, <2>3, <2>5, <2>6, <2>7 DEF LookTrue
  <1>5. CASE ~AsksForPort(c, s)
    <2>1. Judge(c, l) = Push(l, c.state, NoPort)
      BY <1>0, <1>5 DEF Judge
    <2> DEFINE r == [name |-> s, state |-> c.state, port |-> p, suggested |-> NoPort]
    <2>2. IdleState(Unprovisioned) = "stopped"
      BY DEF IdleState, Busy
    <2>3. c.active \/ c.state = "error" \/ p = Unprovisioned
      BY <1>0, <1>5 DEF AsksForPort
    <2>4. RowTrue(l, r)
      <3> SUFFICES s \notin l.moved =>
                     /\ l.sure => c.state = TrueState(s, p)
                     /\ Runs(s) => c.state = Running(box[s].health)
                     /\ c.state = "running" => Runs(s)
        BY DEF RowTrue, p
      <3>1. s \notin l.moved /\ l.sure =>
              TrueState(s, p) = IF c.state = "stopped" THEN IdleState(p) ELSE c.state
        BY <1>2 DEF Verdict, s
      <3>2. s \notin l.moved /\ l.sure => c.state = TrueState(s, p)
        BY <2>2, <2>3, <3>1
      <3> QED
        BY <3>2 DEF Verdict, s
    <2> QED
      BY <1>3, <2>1, <2>4, PushKeeps DEF Working, s, p
  <1> QED
    BY <1>4, <1>5

(* Nothing of the machine changed. *)
LEMMA SameMachine ==
    ASSUME box' = box, stranger' = stranger, LookTrue(look')
    PROVE  LookTrue(look)'
  <1>1. \A p : Busy(p)' <=> Busy(p)
    BY DEF Busy, Bound, HoldsPort
  <1>2. ASSUME NEW p PROVE IdleState(p)' = IdleState(p)
    BY <1>1 DEF IdleState
  <1>3. ASSUME NEW s, NEW p PROVE TrueState(s, p)' = TrueState(s, p)
    BY <1>1 DEF TrueState, Runs, Broken
  <1>4. SeenTrue(look)' /\ DraftTrue(look)' /\ Placed(look)'
    BY <1>2, <1>3 DEF LookTrue, SeenTrue, DraftTrue, Placed, Runs
  <1>5. ASSUME NEW r, RowTrue(look', r) PROVE RowTrue(look, r)'
    BY <1>3, <1>5 DEF RowTrue, SuggestionTrue, Runs, Bound, HoldsPort
  <1> QED
    BY <1>4, <1>5 DEF LookTrue

LEMMA NoLookTrue == NoLook \in LookType /\ NoLook.rows = <<>> /\ NoLook.whole
  BY DEF NoLook, LookType, RowStates

LEMMA LookBegins == InitStatus => LookInv
  <1> SUFFICES ASSUME InitStatus PROVE LookInv
    OBVIOUS
  <1>1. RowsTyped
    BY NoLookTrue DEF InitStatus, RowsTyped
  <1>2. look.pc = "idle" /\ look.rows = <<>> /\ look.whole
    BY DEF InitStatus, NoLook
  <1>3. Placed(look) /\ SeenTrue(look) /\ DraftTrue(look)
    BY <1>2 DEF Placed, SeenTrue, DraftTrue, Working
  <1> QED
    BY <1>1, <1>2, <1>3 DEF LookInv, LookTrue

(* A look that has no row yet and is at no service says nothing false. *)
LEMMA FreshLook ==
    ASSUME NEW l, l.rows = <<>>, l.pc \in {"idle", "list"}, l.whole
    PROVE  LookTrue(l)
  BY DEF LookTrue, Placed, SeenTrue, DraftTrue, Working

LEMMA ViewKeeps == LookInv /\ ReadView => LookInv'
  <1> SUFFICES ASSUME LookInv, ReadView PROVE LookInv'
    OBVIOUS
  <1>1. look' = [NoLook EXCEPT !.pc = "list", !.pins = pin] /\ UNCHANGED <<box, stranger, pin>>
    BY DEF ReadView
  <1>2. look' \in LookType /\ look'.rows = <<>> /\ look'.pc = "list" /\ look'.whole
    BY <1>1, NoLookTrue DEF LookType, LookInv, RowsTyped
  <1>3. LookTrue(look)'
    BY <1>1, <1>2, FreshLook, SameMachine
  <1> QED
    BY <1>1, <1>2, <1>3 DEF LookInv, RowsTyped

LEMMA ListKeeps == LookInv /\ ListContainers => LookInv'
  <1> SUFFICES ASSUME LookInv, ListContainers PROVE LookInv'
    OBVIOUS
  <1> DEFINE seen == [s \in Instance |-> Summary(box[s])]
             next == IF Order = <<>> THEN "done" ELSE "inspect"
  <1>0. UNCHANGED <<box, stranger, pin>> /\ look \in LookType /\ look.pc = "list" /\ look.rows = <<>>
    BY DEF ListContainers, LookInv, RowsTyped, LookTrue, Placed
  <1>1. seen \in [Instance -> Summaries \cup {NoBox}]
    <2> SUFFICES ASSUME NEW s \in Instance PROVE Summary(box[s]) \in Summaries \cup {NoBox}
      OBVIOUS
    <2>1. CASE box[s] = NoBox
      BY <2>1 DEF Summary
    <2>2. CASE box[s] \in Containers
      BY <2>2, SummaryTyped
    <2> QED
      BY <2>1, <2>2 DEF LookInv, RowsTyped
  <1>2. CASE look' = [look EXCEPT !.pc = next, !.at = 1, !.moved = {}, !.seen = seen]
    <2>1. /\ look'.pc = next /\ look'.at = 1 /\ look'.moved = {} /\ look'.seen = seen
          /\ look'.rows = <<>> /\ look'.whole = look.whole
      BY <1>0, <1>2 DEF LookType
    <2>2. look' \in LookType
      BY <1>0, <1>1, <1>2 DEF LookType
    <2>3. look.whole
      BY <1>0 DEF LookInv, LookTrue, Placed
    <2>4. Order = <<>> \/ (Order # <<>> /\ 1 \in DOMAIN Order)
      BY OrderAssumption
    <2>5. Placed(look')
      BY <2>1, <2>3, <2>4 DEF Placed, Working
    <2>6. SeenTrue(look') /\ DraftTrue(look')
      BY <2>1 DEF SeenTrue, DraftTrue
    <2>7. LookTrue(look')
      BY <2>1, <2>5, <2>6 DEF LookTrue
    <2> QED
      BY <1>0, <2>2, <2>7, SameMachine DEF LookInv, RowsTyped
  <1>3. CASE look' = [look EXCEPT !.pc = "idle"]
    <2>1. look' \in LookType /\ look'.pc = "idle" /\ look'.rows = <<>> /\ look'.whole = look.whole
      BY <1>0, <1>3 DEF LookType
    <2>2. look.whole
      BY <1>0 DEF LookInv, LookTrue, Placed
    <2> QED
      BY <1>0, <2>1, <2>2, FreshLook, SameMachine DEF LookInv, RowsTyped
  <1> QED
    BY <1>2, <1>3 DEF ListContainers

LEMMA InspectKeeps == LookInv /\ InspectNext => LookInv'
  <1> SUFFICES ASSUME LookInv, InspectNext PROVE LookInv'
    OBVIOUS
  <1> DEFINE s == Order[look.at]
             summary == look.seen[s]
             unsure == [look EXCEPT !.sure = FALSE]
  <1>0. /\ UNCHANGED <<box, stranger, pin>>
        /\ look \in LookType /\ look.pc = "inspect" /\ LookTrue(look) /\ RowsTyped
    BY DEF InspectNext, LookInv, RowsTyped
  <1>1. s \in Instance /\ look.whole /\ look.at \in DOMAIN Order
    BY <1>0, PortFacts DEF LookTrue, Placed, Working
  <1>2. Subject = s
    BY DEF Subject
  <1>3. s \notin look.moved => summary = Summary(box[s])
    BY <1>0, <1>1 DEF LookTrue, SeenTrue, Working
  <1>4. summary \in Summaries \cup {NoBox} /\ (box[s] = NoBox \/ box[s] \in Containers)
    BY <1>0, <1>1 DEF LookType, RowsTyped
  <1>5. /\ unsure \in LookType /\ LookTrue(unsure)
        /\ unsure.pc = "inspect" /\ unsure.at = look.at /\ unsure.pins = look.pins
        /\ unsure.moved = look.moved /\ ~unsure.sure
    BY <1>0, UnsureKeeps DEF LookType
  <1> HIDE DEF s, summary, unsure
  <1> SUFFICES look' \in LookType /\ LookTrue(look')
    BY <1>0, SameMachine DEF LookInv, RowsTyped
  <1>6. CASE summary = NoBox
    <2>1. look' = Judge(Classify(NoBox), look)
      BY <1>2, <1>6 DEF InspectNext, summary
    <2>2. s \notin look.moved => box[s] = NoBox
      BY <1>3, <1>4, <1>6, SummaryTyped
    <2>3. Verdict(look, s, Classify(NoBox))
      <3> SUFFICES ASSUME s \notin look.moved
                   PROVE  /\ ~Runs(s) /\ Classify(NoBox).state = "stopped"
                          /\ \A p : TrueState(s, p) = IdleState(p)
        BY DEF Verdict
      <3> QED
        BY <2>2, NobodyTrue
    <2>4. /\ Judge(Classify(NoBox), look) \in LookType
          /\ LookTrue(Judge(Classify(NoBox), look))
      BY <1>0, <2>3, ClassifyTyped, JudgeKeeps DEF s
    <2> QED
      BY <2>1, <2>4
  <1>7. CASE summary # NoBox /\ look' = Judge(Classify(summary), unsure)
    <2>1. Verdict(unsure, s, Classify(summary))
      <3> SUFFICES ASSUME s \notin look.moved
                   PROVE  /\ Runs(s) => /\ Classify(summary).active
                                        /\ Classify(summary).state = Running(box[s].health)
                          /\ ~Runs(s) => Classify(summary).state # "running"
        BY <1>5 DEF Verdict
      <3>1. summary = Summary(box[s]) /\ box[s] \in Containers
        BY <1>3, <1>4, <1>7 DEF Summary
      <3> QED
        BY <3>1, SummaryTyped DEF Runs
    <2>2. summary \in Summaries
      BY <1>4, <1>7
    <2> QED
      BY <1>5, <1>7, <2>1, <2>2, ClassifyTyped, JudgeKeeps DEF s
  <1>8. CASE /\ summary # NoBox /\ Inspected(s) # NoBox
             /\ look' = Judge(Classify(Inspected(s)), look)
    <2>1. box[s] \in Containers /\ Inspected(s) = Details(box[s])
      BY <1>4, <1>8 DEF Inspected
    <2>2. Verdict(look, s, Classify(Details(box[s])))
      BY <1>1, <2>1, DetailsTrue DEF Verdict
    <2>3. Details(box[s]) \in Summaries
      BY <2>1, SummaryTyped
    <2> QED
      BY <1>0, <1>8, <2>1, <2>2, <2>3, ClassifyTyped, JudgeKeeps DEF s
  <1> QED
    BY <1>2, <1>6, <1>7, <1>8 DEF InspectNext, summary, unsure

LEMMA ProbeKeeps == LookInv /\ ProbeOwnPort => LookInv'
  <1> SUFFICES ASSUME LookInv, ProbeOwnPort PROVE LookInv'
    OBVIOUS
  <1> DEFINE s == Order[look.at]
             p == look.pins[s]
             unsure == [look EXCEPT !.sure = FALSE]
  <1>0. /\ UNCHANGED <<box, stranger, pin>>
        /\ look \in LookType /\ look.pc = "probe" /\ LookTrue(look) /\ RowsTyped
    BY DEF ProbeOwnPort, LookInv, RowsTyped
  <1>1. s \in Instance /\ look.whole /\ look.at \in DOMAIN Order
    BY <1>0, PortFacts DEF LookTrue, Placed, Working
  <1>2. Subject = s
    BY DEF Subject
  <1>3. look.draft = "stopped" /\ p \in StatusPorts
    BY <1>0, <1>1 DEF LookTrue, DraftTrue, LookType
  <1>4. s \notin look.moved => ~Runs(s) /\ (look.sure => TrueState(s, p) = IdleState(p))
    BY <1>0, <1>1 DEF LookTrue, DraftTrue
  <1>5. /\ unsure \in LookType /\ LookTrue(unsure)
        /\ unsure.pc = "probe" /\ unsure.at = look.at /\ unsure.pins = look.pins
        /\ unsure.moved = look.moved /\ ~unsure.sure
    BY <1>0, UnsureKeeps DEF LookType
  <1>a. ASSUME NEW l \in LookType, LookTrue(l), l.pc = "probe", l.at = look.at, l.pins = look.pins,
               l.moved = look.moved,
               s \notin l.moved /\ l.sure => look.sure /\ ~Busy(p)
        PROVE  Push(l, "stopped", NoPort) \in LookType /\ LookTrue(Push(l, "stopped", NoPort))
    <2> DEFINE r == [name |-> s, state |-> "stopped", port |-> p, suggested |-> NoPort]
    <2>1. s \notin l.moved /\ l.sure => TrueState(s, p) = "stopped"
      BY <1>4, <1>a DEF IdleState
    <2>2. RowTrue(l, r)
      BY <1>4, <1>a, <2>1 DEF RowTrue
    <2> QED
      BY <1>a, <2>2, PushKeeps DEF Working, RowStates
  <1> HIDE DEF s, p, unsure
  <1> SUFFICES look' \in LookType /\ LookTrue(look')
    BY <1>0, SameMachine DEF LookInv, RowsTyped
  <1>6. CASE ProbedFree(p) /\ look' = Push(look, look.draft, NoPort)
    BY <1>0, <1>3, <1>6, <1>a, BusyProbe
  <1>7. CASE look' = Push(unsure, look.draft, NoPort)
    BY <1>3, <1>5, <1>7, <1>a
  <1>8. CASE ~ProbedFree(p) /\ look' = [look EXCEPT !.pc = "suggest"]
    <2>1. /\ look'.pc = "suggest" /\ look'.at = look.at /\ look'.pins = look.pins /\ look'.seen = look.seen
          /\ look'.rows = look.rows /\ look'.sure = look.sure /\ look'.moved = look.moved
          /\ look'.whole = look.whole /\ look' \in LookType
      BY <1>0, <1>8 DEF LookType
    <2>2. IdleState(p) = "port-conflict"
      BY <1>3, <1>8, BusyProbe DEF IdleState
    <2>3. Placed(look') /\ SeenTrue(look')
      BY <1>0, <2>1 DEF LookTrue, Placed, SeenTrue, Working
    <2>4. DraftTrue(look')
      BY <1>4, <2>1, <2>2 DEF DraftTrue, s, p
    <2>5. ASSUME NEW r, RowTrue(look, r) PROVE RowTrue(look', r)
      BY <2>1, <2>5 DEF RowTrue, SuggestionTrue
    <2> QED
      BY <1>0, <2>1, <2>3, <2>4, <2>5 DEF LookTrue
  <1> QED
    BY <1>2, <1>6, <1>7, <1>8 DEF ProbeOwnPort, p, unsure

LEMMA SuggestKeeps == LookInv /\ ProbeSuggestion => LookInv'
  <1> SUFFICES ASSUME LookInv, ProbeSuggestion PROVE LookInv'
    OBVIOUS
  <1> DEFINE s == Order[look.at]
             port == look.pins[s]
  <1>0. /\ UNCHANGED <<box, stranger, pin>>
        /\ look \in LookType /\ look.pc = "suggest" /\ LookTrue(look) /\ RowsTyped
    BY DEF ProbeSuggestion, LookInv, RowsTyped
  <1>1. s \in Instance /\ look.at \in DOMAIN Order
    BY <1>0, PortFacts DEF LookTrue, Placed, Working
  <1>2. Subject = s
    BY DEF Subject
  <1>3. s \notin look.moved => ~Runs(s) /\ (look.whole /\ look.sure => TrueState(s, port) = "port-conflict")
    BY <1>0, <1>1 DEF LookTrue, DraftTrue
  <1>4. Suggestible(s) \subseteq StatusPorts
    BY <1>1, PortFacts DEF Suggestible
  <1>a. ASSUME NEW g \in StatusPorts \cup {NoPort}, g # NoPort => SuggestionTrue(look, s, g)
        PROVE  Push(look, "port-conflict", g) \in LookType /\ LookTrue(Push(look, "port-conflict", g))
    <2> DEFINE r == [name |-> s, state |-> "port-conflict", port |-> port, suggested |-> g]
    <2>1. RowTrue(look, r)
      BY <1>3, <1>a DEF RowTrue
    <2> QED
      BY <1>0, <2>1, PushKeeps DEF Working, RowStates
  <1> HIDE DEF s, port
  <1> SUFFICES look' \in LookType /\ LookTrue(look')
    BY <1>0, SameMachine DEF LookInv, RowsTyped
  <1>5. CASE look' = Push(look, "port-conflict", NoPort)
    BY <1>5, <1>a
  <1>6. CASE look' # Push(look, "port-conflict", NoPort)
    <2>1. PICK p \in Suggestible(s) :
            \/ ProbedFree(p) /\ look' = Push(look, "port-conflict", p)
            \/ look' = [look EXCEPT !.tried = @ \cup {p}]
      BY <1>2, <1>6 DEF ProbeSuggestion
    <2>2. CASE ProbedFree(p) /\ look' = Push(look, "port-conflict", p)
      <3>1. p \in StatusPorts /\ ~Bound(p) /\ stranger[p] \in {"none", "mute"}
        BY <1>0, <1>4, <2>1, <2>2 DEF ProbedFree, CanBind, Answers, RowsTyped
      <3>2. SuggestionTrue(look, s, p)
        BY <2>1, <3>1 DEF SuggestionTrue, Suggestible
      <3> QED
        BY <1>a, <2>2, <3>1, <3>2
    <2>3. CASE look' = [look EXCEPT !.tried = @ \cup {p}]
      <3>1. /\ look'.pc = look.pc /\ look'.at = look.at /\ look'.pins = look.pins /\ look'.seen = look.seen
            /\ look'.rows = look.rows /\ look'.sure = look.sure /\ look'.moved = look.moved
            /\ look'.whole = look.whole /\ look'.draft = look.draft
        BY <1>0, <2>3 DEF LookType
      <3>2. look' \in LookType
        BY <1>0, <1>4, <2>1, <2>3 DEF LookType
      <3>3. Placed(look') /\ SeenTrue(look') /\ DraftTrue(look')
        BY <1>0, <3>1 DEF LookTrue, Placed, SeenTrue, DraftTrue
      <3>4. ASSUME NEW r, RowTrue(look, r) PROVE RowTrue(look', r)
        BY <3>1, <3>4 DEF RowTrue, SuggestionTrue
      <3> QED
        BY <1>0, <3>1, <3>2, <3>3, <3>4 DEF LookTrue
    <2> QED
      BY <2>1, <2>2, <2>3
  <1> QED
    BY <1>5, <1>6

LEMMA RefusedKeeps == LookInv /\ PortRefused => LookInv'
  <1> SUFFICES ASSUME LookInv, PortRefused PROVE LookInv'
    OBVIOUS
  <1>1. PICK i \in DOMAIN Order :
          /\ ~HoldsPort(box[Order[i]])
          /\ look' = [NoLook EXCEPT !.pc = "suggest", !.pins = pin, !.at = i, !.whole = FALSE]
    BY DEF PortRefused
  <1>2. UNCHANGED <<box, stranger, pin>> /\ RowsTyped
    BY DEF PortRefused, LookInv
  <1>3. i \in Nat
    BY OrderAssumption
  <1>4. look' \in LookType
    BY <1>1, <1>2, <1>3, NoLookTrue DEF LookType, RowsTyped
  <1>5. look'.pc = "suggest" /\ look'.at = i /\ ~look'.whole /\ look'.rows = <<>>
    BY <1>1, NoLookTrue DEF NoLook
  <1>6. ~Runs(Order[i])
    BY <1>1 DEF Runs, HoldsPort
  <1>7. Placed(look') /\ SeenTrue(look') /\ DraftTrue(look')
    BY <1>5, <1>6 DEF Placed, SeenTrue, DraftTrue, Working
  <1>8. LookTrue(look')
    BY <1>5, <1>7 DEF LookTrue
  <1> QED
    BY <1>2, <1>4, <1>8, SameMachine DEF LookInv, RowsTyped

(* Whatever moves, the rows of services that did not move stay true. *)
LEMMA MovesKeep ==
    ASSUME LookInv, NEW M \in SUBSET Instance, look.moved \subseteq M, M # {},
           look' = [look EXCEPT !.moved = M],
           \A s \in Instance \ M :
             /\ box'[s] = box[s]
             /\ look.pins[s] \in StatusPorts =>
                  (Bound(look.pins[s])' <=> Bound(look.pins[s]))
                    /\ stranger'[look.pins[s]] = stranger[look.pins[s]]
    PROVE  look' \in LookType /\ LookTrue(look)'
  <1>0. look \in LookType /\ LookTrue(look)
    BY DEF LookInv, RowsTyped
  <1>1. /\ look'.moved = M /\ look'.pc = look.pc /\ look'.at = look.at /\ look'.pins = look.pins
        /\ look'.seen = look.seen /\ look'.rows = look.rows /\ look'.draft = look.draft
        /\ look'.sure = look.sure /\ look'.whole = look.whole /\ look' \in LookType
    BY <1>0 DEF LookType
  <1>2. ASSUME NEW s \in Instance, s \notin M
        PROVE  /\ s \notin look.moved /\ box'[s] = box[s] /\ (Runs(s)' <=> Runs(s))
               /\ IdleState(look.pins[s])' = IdleState(look.pins[s])
               /\ TrueState(s, look.pins[s])' = TrueState(s, look.pins[s])
    <2> DEFINE p == look.pins[s]
    <2>1. p \in StatusPorts \cup {Unprovisioned}
      BY <1>0 DEF LookType
    <2>2. look'.pins[s] = p
      BY <1>1
    <2>3. box'[s] = box[s] /\ (Runs(s)' <=> Runs(s))
      BY <1>2 DEF Runs
    <2> HIDE DEF p
    <2>4. ASSUME NEW q, q = p PROVE (Busy(q)' <=> Busy(q)) /\ IdleState(q)' = IdleState(q)
      <3>1. CASE q = Unprovisioned
        BY <3>1 DEF Busy, IdleState
      <3>2. CASE q # Unprovisioned
        <4>1. (Bound(q)' <=> Bound(q)) /\ stranger'[q] = stranger[q]
          BY <1>1, <1>2, <2>1, <2>2, <2>4, <3>2 DEF p, Bound
        <4>2. Busy(q)' <=> Busy(q)
          BY <4>1 DEF Busy
        <4> QED
          BY <4>2 DEF IdleState
      <3> QED
        BY <3>1, <3>2
    <2>5. ASSUME NEW q, q = p PROVE TrueState(s, q)' = TrueState(s, q)
      BY <2>3, <2>4, <2>5 DEF TrueState, Broken, IdleState
    <2> QED
      BY <1>2, <2>2, <2>3, <2>4, <2>5 DEF p
  <1>3. Placed(look)'
    BY <1>0, <1>1 DEF LookTrue, Placed
  <1>4. SeenTrue(look)'
    BY <1>0, <1>1, <1>2 DEF LookTrue, SeenTrue
  <1>5. DraftTrue(look)'
    BY <1>0, <1>1, <1>2, PortFacts DEF LookTrue, Placed, DraftTrue, Working
  <1>6. ASSUME NEW i \in DOMAIN look.rows PROVE RowTrue(look, look.rows[i])'
    <2> DEFINE r == look.rows[i]
    <2>1. r \in RowType /\ RowTrue(look, r)
      BY <1>0, <1>6 DEF LookTrue, LookType
    <2>2. look'.rows[i] = r /\ r.name \in Instance /\ r.port = look.pins[r.name]
      BY <1>1, <2>1 DEF RowType, RowTrue
    <2> HIDE DEF r
    <2> QED
      BY <1>1, <1>2, <2>1, <2>2 DEF RowTrue, SuggestionTrue
  <1> QED
    BY <1>1, <1>3, <1>4, <1>5, <1>6 DEF LookTrue

LEMMA BoxKeeps ==
    ASSUME LookInv, NEW s \in Instance, NEW b \in Containers \cup {NoBox}, BoxBecomes(s, b),
           stranger' = stranger, pin' \in [Instance -> StatusPorts \cup {Unprovisioned}]
    PROVE  LookInv'
  <1> DEFINE M == look.moved \cup {s} \cup OnPortOf(box[s]) \cup OnPortOf(b)
  <1>1. box' = [box EXCEPT ![s] = b] /\ look' = [look EXCEPT !.moved = M] /\ RowsTyped
    BY DEF BoxBecomes, LookInv
  <1>2. M \in SUBSET Instance /\ look.moved \subseteq M /\ M # {}
    BY <1>1 DEF RowsTyped, LookType, OnPortOf
  <1>3. box' \in [Instance -> Containers \cup {NoBox}]
    BY <1>1 DEF RowsTyped
  <1>4. ASSUME NEW t \in Instance \ M
        PROVE  /\ box'[t] = box[t]
               /\ Bound(look.pins[t])' <=> Bound(look.pins[t])
    <2>1. t # s /\ t \notin OnPortOf(box[s]) /\ t \notin OnPortOf(b)
      BY <1>4
    <2>2. \A u \in Instance : u # s => box'[u] = box[u]
      BY <1>1 DEF RowsTyped
    <2>3. box'[s] = b
      BY <1>1 DEF RowsTyped
    <2>4. look'.pins = look.pins
      BY <1>1 DEF RowsTyped, LookType
    <2>5. ~(HoldsPort(b) /\ b.port = look.pins[t]) /\ ~(HoldsPort(box[s]) /\ box[s].port = look.pins[t])
      BY <2>1 DEF OnPortOf, HoldsPort
    <2> QED
      BY <2>1, <2>2, <2>3, <2>4, <2>5 DEF Bound, HoldsPort
  <1> HIDE DEF M
  <1>5. look' \in LookType /\ LookTrue(look)'
    BY <1>1, <1>2, <1>4, MovesKeep
  <1> QED
    BY <1>1, <1>3, <1>5 DEF LookInv, RowsTyped

LEMMA UseKeeps == LookInv /\ UsePort => LookInv'
  <1> SUFFICES ASSUME LookInv, UsePort PROVE LookInv'
    OBVIOUS
  <1> DEFINE Made(s, p) == [id |-> IF box[s] = NoBox THEN 1 ELSE box[s].id + 1, state |-> "running",
                            health |-> "none", code |-> 0, bind |-> FALSE, port |-> p]
  <1>1. PICK i \in DOMAIN look.rows :
          LET s == look.rows[i].name
              p == look.rows[i].suggested IN
          /\ "use-port" \in Offered(look.rows[i])
          /\ BoxBecomes(s, Made(s, p))
          /\ pin' = [pin EXCEPT ![s] = p]
    BY DEF UsePort
  <1> DEFINE r == look.rows[i]
             s == r.name
             p == r.suggested
  <1>2. r \in RowType /\ RowsTyped
    BY DEF LookInv, RowsTyped, LookType
  <1>3. s \in Instance /\ p \in StatusPorts
    BY <1>1, <1>2 DEF Offered, RowType
  <1>4. box[s] = NoBox \/ box[s].id \in Nat
    BY <1>2, <1>3 DEF RowsTyped, Containers
  <1>5. Made(s, p) \in Containers
    BY <1>3, <1>4 DEF Containers, ContainerStates, ContainerHealth
  <1>6. pin' \in [Instance -> StatusPorts \cup {Unprovisioned}] /\ stranger' = stranger
    BY <1>1, <1>2, <1>3 DEF RowsTyped, UsePort
  <1>7. BoxBecomes(s, Made(s, p))
    BY <1>1
  <1> HIDE DEF Made, r, s, p
  <1> QED
    BY <1>3, <1>5, <1>6, <1>7, BoxKeeps

LEMMA DockerKeeps == LookInv /\ (BoxStarts \/ BoxTurns \/ BoxGoes) => LookInv'
  <1> SUFFICES ASSUME LookInv, BoxStarts \/ BoxTurns \/ BoxGoes PROVE LookInv'
    OBVIOUS
  <1>1. stranger' = stranger /\ pin' = pin /\ RowsTyped
    BY DEF BoxStarts, BoxTurns, BoxGoes, LookInv
  <1>2. ASSUME NEW s \in Instance, box[s] # NoBox,
               NEW b \in Containers \cup {NoBox}, BoxBecomes(s, b)
        PROVE  LookInv'
    BY <1>1, <1>2, BoxKeeps DEF RowsTyped
  <1>3. ASSUME NEW s \in Instance, box[s] # NoBox
        PROVE  /\ \A bind \in BOOLEAN, state \in {"created", "running"} :
                    [box[s] EXCEPT !.state = state, !.bind = bind] \in Containers
               /\ \A c \in {0, 1, 137} : [box[s] EXCEPT !.state = "exited", !.code = c] \in Containers
               /\ \A h \in {"healthy", "unhealthy"} : [box[s] EXCEPT !.health = h] \in Containers
               /\ [box[s] EXCEPT !.state = "paused"] \in Containers
    <2>1. box[s] \in Containers
      BY <1>1, <1>3 DEF RowsTyped
    <2>2. ASSUME NEW bind \in BOOLEAN, NEW state \in {"created", "running"}
          PROVE  [box[s] EXCEPT !.state = state, !.bind = bind] \in Containers
      BY <2>1 DEF Containers, ContainerStates
    <2>3. ASSUME NEW c \in {0, 1, 137}
          PROVE  [box[s] EXCEPT !.state = "exited", !.code = c] \in Containers
      <3>1. c \in Nat /\ "exited" \in ContainerStates
        BY DEF ContainerStates
      <3> QED
        BY <2>1, <3>1 DEF Containers
    <2>4. ASSUME NEW h \in {"healthy", "unhealthy"}
          PROVE  [box[s] EXCEPT !.health = h] \in Containers
      BY <2>1 DEF Containers, ContainerHealth
    <2>5. [box[s] EXCEPT !.state = "paused"] \in Containers
      BY <2>1 DEF Containers, ContainerStates
    <2> QED
      BY <2>2, <2>3, <2>4, <2>5
  <1>4. CASE BoxStarts
    BY <1>2, <1>3, <1>4 DEF BoxStarts
  <1>5. CASE BoxTurns
    <2>1. PICK s \in Instance :
            /\ box[s] # NoBox
            /\ \/ \E c \in {0, 1, 137} : BoxBecomes(s, [box[s] EXCEPT !.state = "exited", !.code = c])
               \/ \E h \in {"healthy", "unhealthy"} \ {box[s].health} : BoxBecomes(s, [box[s] EXCEPT !.health = h])
               \/ BoxBecomes(s, [box[s] EXCEPT !.state = "paused"])
      BY <1>5 DEF BoxTurns
    <2>2. ASSUME NEW c \in {0, 1, 137}, BoxBecomes(s, [box[s] EXCEPT !.state = "exited", !.code = c])
          PROVE  LookInv'
      <3>1. [box[s] EXCEPT !.state = "exited", !.code = c] \in Containers
        BY <1>3, <2>1
      <3> QED
        BY <1>2, <2>1, <2>2, <3>1
    <2>3. ASSUME NEW h \in {"healthy", "unhealthy"}, BoxBecomes(s, [box[s] EXCEPT !.health = h])
          PROVE  LookInv'
      BY <1>2, <1>3, <2>1, <2>3
    <2>4. CASE BoxBecomes(s, [box[s] EXCEPT !.state = "paused"])
      BY <1>2, <1>3, <2>1, <2>4
    <2> QED
      BY <2>1, <2>2, <2>3, <2>4
  <1>6. CASE BoxGoes
    BY <1>2, <1>6 DEF BoxGoes
  <1> QED
    BY <1>4, <1>5, <1>6

LEMMA StrangerKeeps == LookInv /\ StrangerMoves => LookInv'
  <1> SUFFICES ASSUME LookInv, StrangerMoves PROVE LookInv'
    OBVIOUS
  <1>1. PICK p \in StatusPorts, w \in {"none", "loopback"} : stranger' = [stranger EXCEPT ![p] = w]
    BY DEF StrangerMoves
  <1>2. look' = [look EXCEPT !.moved = Instance] /\ box' = box /\ pin' = pin /\ RowsTyped
    BY DEF StrangerMoves, LookInv
  <1>3. stranger' \in [StatusPorts -> {"none", "loopback", "wildcard", "mute"}]
    BY <1>1, <1>2 DEF RowsTyped
  <1>4. Instance # {} /\ look.moved \subseteq Instance
    BY <1>1, <1>2 DEF StatusPorts, RowsTyped, LookType
  <1>5. look' \in LookType /\ LookTrue(look)'
    BY <1>2, <1>4, MovesKeep
  <1> QED
    BY <1>2, <1>3, <1>5 DEF LookInv, RowsTyped

LEMMA LookKept == LookInv /\ [StatusNext]_statusVars => LookInv'
  <1>1. LookInv /\ UNCHANGED statusVars => LookInv'
    <2> SUFFICES ASSUME LookInv, UNCHANGED statusVars PROVE LookInv'
      OBVIOUS
    <2>1. box' = box /\ stranger' = stranger /\ pin' = pin /\ look' = look
      BY DEF statusVars
    <2> QED
      BY <2>1, SameMachine DEF LookInv, RowsTyped
  <1> QED
    BY <1>1, ViewKeeps, ListKeeps, InspectKeeps, ProbeKeeps, SuggestKeeps, RefusedKeeps, UseKeeps,
       DockerKeeps, StrangerKeeps DEF StatusNext, Collect

(* collectProjectStatus, serviceStatus, suggestFreePort: for any services, ports and number of
   changes, the picture tells every service that did not move as it is; a service that ran all
   along is never told in conflict nor offered a start; an offered port is nobody's. *)
THEOREM StatusIsTold == StatusSpec => []StatusTold
  <1>1. LookInv => StatusTold
    <2> SUFFICES ASSUME LookInv, look.pc = "done" PROVE StatusTold
      BY DEF StatusTold
    <2>0. look \in LookType /\ LookTrue(look) /\ RowsTyped
      BY DEF LookInv, RowsTyped
    <2>1. look.whole => Len(look.rows) = Len(Order)
      BY <2>0 DEF LookTrue, Placed
    <2>2. ASSUME NEW i \in DOMAIN look.rows
          PROVE  LET r == look.rows[i]
                     s == r.name
                     still == s \notin look.moved IN
                 /\ look.whole => s = Order[i]
                 /\ look.whole /\ still /\ look.sure => r.state = TrueState(s, r.port)
                 /\ still /\ Runs(s) => r.state # "port-conflict"
                 /\ still /\ Runs(s) /\ box[s].health # "unhealthy" => "start" \notin Offered(r)
                 /\ r.suggested # NoPort =>
                      /\ r.state = "port-conflict"
                      /\ r.suggested \in PortsFor[s] \ ({r.port, UsualPort[s]} \cup ForeignPins
                                                          \cup {look.pins[t] : t \in Instance})
                      /\ look.moved = {} => stranger[r.suggested] \in {"none", "mute"} /\ ~Bound(r.suggested)
      <3> DEFINE r == look.rows[i]
                 s == r.name
      <3>1. RowTrue(look, r) /\ r \in RowType
        BY <2>0 DEF LookTrue, LookType
      <3>2. look.whole => s = Order[i]
        BY <2>0 DEF LookTrue, Placed
      <3>3. ASSUME s \notin look.moved, Runs(s)
            PROVE  /\ r.state # "port-conflict"
                   /\ box[s].health # "unhealthy" => r.state \in {"running", "starting"}
        BY <3>1, <3>3 DEF RowTrue, Running
      <3>4. r.state \in {"running", "starting"} => "start" \notin Offered(r)
        BY DEF Offered
      <3> HIDE DEF r
      <3> QED
        BY <3>1, <3>2, <3>3, <3>4 DEF RowTrue, SuggestionTrue, r
    <2>3. ASSUME look.moved = {}, look.whole, Card(look.rows) = "running"
          PROVE  \E t \in Instance : HoldsPort(box[t])
      <3>1. PICK i \in DOMAIN look.rows : look.rows[i].state = "running"
        BY <2>3 DEF Card
      <3>2. RowTrue(look, look.rows[i]) /\ look.rows[i] \in RowType
        BY <2>0 DEF LookTrue, LookType
      <3>3. Runs(look.rows[i].name) /\ look.rows[i].name \in Instance
        BY <2>3, <3>1, <3>2 DEF RowTrue, RowType
      <3> QED
        BY <3>3 DEF Runs, HoldsPort
    <2> QED
      BY <2>1, <2>2, <2>3 DEF StatusTold
  <1> QED
    BY <1>1, LookBegins, LookKept, PTL DEF StatusSpec
=============================================================================
