---------------------------- MODULE StatusChannel ----------------------------
(***************************************************************************)
(* The observer's `status:<project>` channel (status.channel.ts) for one   *)
(* project: a watch entry per generation of subscribers, one load at a     *)
(* time with a dirty flag, polling, Docker events with a debounce and a    *)
(* retry, the poke of a settled operation, and snapshots and deltas as the *)
(* subscribers apply them.                                                 *)
(*                                                                         *)
(* A row is the state of one service, 0 when the service is not there; the *)
(* stats copied onto a row are part of its value.                          *)
(***************************************************************************)
EXTENDS Integers, FiniteSets

CONSTANTS
    Listeners,
    Services,
    Rows,          \* values of a row
    Nothing,       \* no status yet
    MaxChanges,    \* bound: changes of the project's containers
    MaxWatches     \* bound: watch entries whose loads overlap

ASSUME BoundsAssumption ==
    /\ MaxChanges \in Nat
    /\ MaxWatches \in Nat \ {0}
    /\ 0 \in Rows

(* `last` is undefined until a load was published. *)
ASSUME NothingAssumption == Nothing \notin [Services -> Rows]

VARIABLES
    rows,        \* what a load would find now
    version,     \* number of changes so far
    current,     \* the watch entry last created: one of 1..MaxWatches
    watched,     \* whether `entries` holds it
    entry,       \* the StatusEntry
    load,        \* per watch, the load in flight or Idle
    events,      \* the Docker events stream: closed, open, or waiting to retry
    notice,      \* an event of this project is on its way
    view,        \* per listener, what it believes, or Nothing
    heard,       \* history: per listener, "new" until it is told something or
                 \* a load ends without telling it ("missed")
    asked,       \* history: version at the newest request to reload
    answered     \* history: version the newest finished load stands for

vars == <<rows, version, current, watched, entry, load, events, notice, view, heard, asked, answered>>

Statuses == [Services -> Rows]
Idle == [phase |-> "idle", at |-> 0, found |-> Nothing]

NewEntry == [listeners |-> {}, fresh |-> {}, last |-> Nothing, failing |-> FALSE,
             refreshing |-> FALSE, dirty |-> FALSE, debounce |-> FALSE]

Init ==
    /\ rows = [s \in Services |-> 0]
    /\ version = 0
    /\ current = 1
    /\ watched = FALSE
    /\ entry = NewEntry
    /\ load = [w \in 1..MaxWatches |-> Idle]
    /\ events = "closed"
    /\ notice = FALSE
    /\ view = [l \in Listeners |-> Nothing]
    /\ heard = [l \in Listeners |-> "new"]
    /\ asked = 0
    /\ answered = 0

-----------------------------------------------------------------------------
(* Messages *)

(* Faulty: services that disappeared are not mentioned. *)
DeltaChanged(previous, next) ==
    [changed |-> [s \in {t \in Services : next[t] # 0 /\ next[t] # previous[t]} |-> next[s]],
     removed |-> {}]

(* diff *)
Delta(previous, next) ==
    [changed |-> [s \in {t \in Services : next[t] # 0 /\ next[t] # previous[t]} |-> next[s]],
     removed |-> {s \in Services : previous[s] # 0 /\ next[s] = 0}]

Apply(status, delta) ==
    [s \in Services |->
        IF s \in delta.removed THEN 0
        ELSE IF s \in DOMAIN delta.changed THEN delta.changed[s] ELSE status[s]]

-----------------------------------------------------------------------------
(* refresh *)

Called == [phase |-> "called", at |-> version, found |-> Nothing]

(* refresh, up to its first await: one load at a time, a request in between is
   remembered. *)
Request(w, e) ==
    /\ watched' = TRUE
    /\ asked' = version
    /\ IF e.refreshing
       THEN entry' = [e EXCEPT !.dirty = TRUE] /\ UNCHANGED load
       ELSE /\ entry' = [e EXCEPT !.refreshing = TRUE]
            /\ load' = [load EXCEPT ![w] = Called]

(* refresh, its finally: load again when a request came in between. *)
Settle(w, e) ==
    IF e.dirty
    THEN /\ entry' = [e EXCEPT !.dirty = FALSE]
         /\ load' = [load EXCEPT ![w] = Called]
    ELSE /\ entry' = [e EXCEPT !.refreshing = FALSE]
         /\ load' = [load EXCEPT ![w] = Idle]

Current(w) == watched /\ w = current

(* The source reads the project's containers at some moment of the load. *)
LoadReads(w) ==
    /\ load[w].phase = "called"
    /\ load' = [load EXCEPT ![w] = [phase |-> "read", at |-> version, found |-> rows]]
    /\ UNCHANGED <<rows, version, current, watched, entry, events, notice, view, heard, asked, answered>>

(* A load that outlives its entry is ignored. *)
LoadIgnored(w) ==
    /\ load[w].phase # "idle"
    /\ ~Current(w)
    /\ load' = [load EXCEPT ![w] = Idle]
    /\ UNCHANGED <<rows, version, current, watched, entry, events, notice, view, heard, asked, answered>>

(* publish: a snapshot for those that wait for one, else what changed. *)
Published(next) ==
    [l \in Listeners |->
        IF l \notin entry.listeners THEN view[l]
        ELSE IF l \in entry.fresh THEN next
        ELSE IF entry.last = Nothing THEN view[l]
        ELSE Apply(view[l], Delta(entry.last, next))]

LoadOk(w) ==
    /\ Current(w)
    /\ load[w].phase = "read"
    /\ view' = Published(load[w].found)
    /\ heard' = [l \in Listeners |-> IF l \in entry.fresh THEN "told" ELSE heard[l]]
    /\ answered' = load[w].at
    /\ Settle(w, [entry EXCEPT !.last = load[w].found, !.fresh = {}, !.failing = FALSE])
    /\ UNCHANGED <<rows, version, current, watched, events, notice, asked>>

(* Faulty: a failed load leaves the channel refreshing. *)
LoadFailsStuck(w) ==
    /\ Current(w)
    /\ load[w].phase # "idle"
    /\ answered' = load[w].at
    /\ entry' = [entry EXCEPT !.failing = TRUE]
    /\ load' = [load EXCEPT ![w] = Idle]
    /\ UNCHANGED <<rows, version, current, watched, events, notice, view, heard, asked>>

(* fail: subscribers are told when the error is new. *)
LoadFails(w) ==
    /\ Current(w)
    /\ load[w].phase # "idle"
    /\ heard' = [l \in Listeners |->
           IF l \notin entry.listeners \/ heard[l] # "new" THEN heard[l]
           ELSE IF entry.failing THEN "missed" ELSE "told"]
    /\ answered' = load[w].at
    /\ Settle(w, [entry EXCEPT !.failing = TRUE])
    /\ UNCHANGED <<rows, version, current, watched, events, notice, view, asked>>

-----------------------------------------------------------------------------
(* Subscribers *)

(* The first subscriber creates the entry, starts polling and the events
   stream; the status is loaded unless one is cached. *)
Subscribe(l, w) ==
    LET e == IF watched THEN entry ELSE NewEntry
        joined == [e EXCEPT !.listeners = @ \cup {l}]
    IN  /\ ~(watched /\ l \in entry.listeners)
        /\ IF watched THEN w = current ELSE load[w] = Idle
        /\ current' = w
        /\ events' = IF events = "closed" THEN "open" ELSE events
        /\ IF e.last = Nothing
           THEN /\ Request(w, [joined EXCEPT !.fresh = @ \cup {l}])
                /\ UNCHANGED <<view, heard>>
           ELSE /\ entry' = joined
                /\ view' = [view EXCEPT ![l] = e.last]
                /\ heard' = [heard EXCEPT ![l] = "told"]
                /\ UNCHANGED <<watched, load, asked>>
        /\ answered' = IF watched THEN answered ELSE version
        /\ UNCHANGED <<rows, version, notice>>

(* detach: the last one ends polling, the debounce and the events stream. *)
Detach(l) ==
    /\ watched
    /\ l \in entry.listeners
    /\ view' = [view EXCEPT ![l] = Nothing]
    /\ heard' = [heard EXCEPT ![l] = "new"]
    /\ IF entry.listeners = {l}
       THEN /\ watched' = FALSE
            /\ entry' = NewEntry
            /\ events' = "closed"
            /\ notice' = FALSE
       ELSE /\ entry' = [entry EXCEPT !.listeners = @ \ {l}, !.fresh = @ \ {l}]
            /\ UNCHANGED <<watched, events, notice>>
    /\ UNCHANGED <<rows, version, current, load, asked, answered>>

-----------------------------------------------------------------------------
(* What asks for a reload *)

Reload(e) ==
    /\ Request(current, e)
    /\ UNCHANGED <<rows, version, current, events, notice, view, heard, answered>>

(* The polling interval, or poke after an operation settled. *)
Poll == watched /\ Reload(entry)

(* A Docker event of the project opens a debounce window. *)
EventArrives ==
    /\ notice
    /\ notice' = FALSE
    /\ entry' = IF watched THEN [entry EXCEPT !.debounce = TRUE] ELSE entry
    /\ UNCHANGED <<rows, version, current, watched, load, events, view, heard, asked, answered>>

DebounceFires ==
    /\ entry.debounce
    /\ Reload([entry EXCEPT !.debounce = FALSE])

(* The events stream ends or fails while the project is watched. *)
EventsBreak ==
    /\ events = "open"
    /\ events' = "retry"
    /\ notice' = FALSE
    /\ UNCHANGED <<rows, version, current, watched, entry, load, view, heard, asked, answered>>

EventsRetry ==
    /\ events = "retry"
    /\ events' = "open"
    /\ UNCHANGED <<rows, version, current, watched, entry, load, notice, view, heard, asked, answered>>

(* Containers start, stop or disappear (external). *)
Change(s, r) ==
    /\ version < MaxChanges
    /\ r # rows[s]
    /\ rows' = [rows EXCEPT ![s] = r]
    /\ version' = version + 1
    /\ notice' = (notice \/ events = "open")
    /\ UNCHANGED <<current, watched, entry, load, events, view, heard, asked,
                   answered>>

Next ==
    \/ \E l \in Listeners : Detach(l) \/ \E w \in 1..MaxWatches : Subscribe(l, w)
    \/ \E w \in 1..MaxWatches : LoadReads(w) \/ LoadIgnored(w) \/ LoadOk(w) \/ LoadFails(w)
    \/ Poll
    \/ EventArrives
    \/ DebounceFires
    \/ EventsBreak
    \/ EventsRetry
    \/ \E s \in Services, r \in Rows : Change(s, r)

Spec == Init /\ [][Next]_vars

(* The interval keeps firing, a load ends, and it does not fail for ever. *)
StatusFairness ==
    /\ WF_vars(Poll)
    /\ WF_vars(\E w \in 1..MaxWatches : LoadIgnored(w))
    /\ SF_vars(\E w \in 1..MaxWatches : Current(w) /\ LoadReads(w))
    /\ SF_vars(\E w \in 1..MaxWatches : LoadOk(w))

FairSpec == Spec /\ StatusFairness

-----------------------------------------------------------------------------
(* Properties *)

(* Polling, the debounce and the events stream live exactly as long as someone
   watches (subscribe, detach, stop). *)
WatchedWhileUsed ==
    /\ watched <=> entry.listeners # {}
    /\ watched <=> events # "closed"
    /\ ~watched => entry = NewEntry
    /\ entry.fresh \subseteq entry.listeners

(* No request to reload is lost: once the channel is at rest, its last load
   found the project as it was at the newest request or later, though the
   request may have met a load that had already read (refreshing, dirty). *)
NoRequestLost ==
    (watched /\ ~entry.refreshing) => (answered >= asked /\ ~entry.dirty)

(* A subscriber that applied its snapshot and every delta since holds exactly
   the status last published, and one that waits has received nothing, through
   joins, leaves and loads that overlap them (subscribe, publish, diff); and
   what is published is as new as the newest request. *)
ViewsInStep ==
    /\ WatchedWhileUsed
    /\ NoRequestLost
    /\ \A l \in entry.listeners :
        view[l] = IF l \in entry.fresh THEN Nothing ELSE entry.last

(* Whoever keeps watching gets to see the project as it is: events may be lost
   while their stream is down, but polling goes on. *)
Converges == \A l \in Listeners : []<>(l \notin entry.listeners \/ view[l] = rows)

(* status.channel.ts, subscribe: a subscriber gets the cached snapshot, or an
   answer after the first load.  A load that fails like the one before tells
   nobody, so a subscriber that joins meanwhile may hear nothing. *)
SubscriberAnswered == \A l \in Listeners : heard[l] # "missed"
=============================================================================
