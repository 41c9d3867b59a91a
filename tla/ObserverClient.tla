---------------------------- MODULE ObserverClient ----------------------------
(***************************************************************************)
(* The dashboard's end of the observer: one shared WebSocket with counted  *)
(* subscriptions (socket.ts), the store the messages are reduced into      *)
(* (observer-state.ts, observer-store.ts), and the hub at the other end    *)
(* (observer.service.ts), which keeps what each socket subscribed to.  A   *)
(* channel here is the status of a project; the channel behind it is the   *)
(* subject of StatusChannel and is reduced to what it sends: a snapshot or *)
(* an error to a newcomer, then what changed.                              *)
(*                                                                         *)
(* A browser delivers no message once close() was called, so only the      *)
(* current connection matters; one that is lost takes with it what is on   *)
(* the way in both directions.                                             *)
(***************************************************************************)
EXTENDS Integers, Sequences, FiniteSets

CONSTANTS
  Watched,       \* projects whose status channel is subscribed
  Row,           \* services of a project
  NoPicture,
  MaxUsers,      \* bound: subscribers of one channel
  MaxSteps,      \* bound: subscriptions made
  MaxDrops,      \* bound: connections lost or refused
  MaxUpdates     \* bound: changes of a project

ASSUME WatchedAssumption == IsFiniteSet(Watched)

VARIABLES
  users,         \* #subs: subscribers of a channel
  socket,        \* #socket: "none", "connecting" or "open"
  retry,         \* #timer: a reconnect is scheduled
  idle,          \* #idleTimer: the close of an unused socket is scheduled
  up, down,      \* messages on the connection, to the server and to the browser
  hub,           \* subscriptions of the socket: "none", "fresh" or "live"
  published,     \* StatusEntry.last of each project
  picture,       \* ObserverData.status
  failed,        \* ObserverData.errors: channels with an error
  steps, drops, updates

clientVars == <<users, socket, retry, idle, picture, failed>>
wireVars == <<up, down, hub>>
observerVars == <<clientVars, wireVars, published, steps, drops, updates>>

Subscribed == {p \in Watched : users[p] > 0}

InitObserver ==
  /\ users = [p \in Watched |-> 0]
  /\ socket = "none" /\ retry = FALSE /\ idle = FALSE
  /\ up = <<>> /\ down = <<>>
  /\ hub = [p \in Watched |-> "none"]
  /\ published = [p \in Watched |-> [r \in Row |-> 0]]
  /\ picture = [p \in Watched |-> NoPicture]
  /\ failed = {}
  /\ steps = 0 /\ drops = 0 /\ updates = 0

-----------------------------------------------------------------------------
(* The store *)

SnapshotMessage(p) == [type |-> "snapshot", channel |-> p, rows |-> published[p]]
DeltaMessage(p, r, value) == [type |-> "delta", channel |-> p, rows |-> [x \in {r} |-> value]]
ErrorMessage(p) == [type |-> "error", channel |-> p, rows |-> NoPicture]

(* mergeServices: rows of a delta replace the ones of their name.          *)
Merge(current, changed) == [r \in Row |-> IF r \in DOMAIN changed THEN changed[r] ELSE current[r]]

(* reduceServerMessage: a delta needs a snapshot to apply to.              *)
ReduceStatus(message) ==
  [picture EXCEPT ![message.channel] =
     CASE message.type = "snapshot" -> message.rows
       [] message.type = "delta" -> IF @ = NoPicture THEN @ ELSE Merge(@, message.rows)
       [] OTHER -> @]

(* forgetChannel *)
Forget(p) ==
  /\ picture' = [picture EXCEPT ![p] = NoPicture]
  /\ failed' = failed \ {p}

-----------------------------------------------------------------------------
(* ObserverSocket *)

(* #send: only on an open socket.                                          *)
SendUp(type, p) ==
  up' = IF socket = "open" THEN Append(up, [type |-> type, channel |-> p]) ELSE up

(* subscribe: the first subscriber of a channel asks for it; any one keeps *)
(* the socket, or has it opened.                                           *)
SubscribeChannel(p) ==
  /\ users[p] < MaxUsers /\ steps < MaxSteps
  /\ users' = [users EXCEPT ![p] = @ + 1]
  /\ IF users[p] = 0 THEN SendUp("subscribe", p) ELSE UNCHANGED up
  /\ idle' = FALSE
  /\ socket' = IF socket = "none" /\ ~retry THEN "connecting" ELSE socket
  /\ steps' = steps + 1
  /\ UNCHANGED <<retry, picture, failed, down, hub, published, drops, updates>>

(* Faulty: the channel is dropped here and not at the server.              *)
ReleaseQuietly(p) ==
  /\ users[p] > 0
  /\ users' = [users EXCEPT ![p] = @ - 1]
  /\ IF users[p] = 1 THEN Forget(p) ELSE UNCHANGED <<picture, failed>>
  /\ idle' = (idle \/ (Subscribed = {p} /\ users[p] = 1))
  /\ UNCHANGED <<socket, retry, wireVars, published, steps, drops, updates>>

(* What subscribe returns: the last subscriber of a channel gives it up,   *)
(* and the last one of all has the socket closed soon.                     *)
ReleaseChannel(p) ==
  /\ users[p] > 0
  /\ users' = [users EXCEPT ![p] = @ - 1]
  /\ IF users[p] = 1
     THEN SendUp("unsubscribe", p) /\ Forget(p)
     ELSE UNCHANGED <<up, picture, failed>>
  /\ idle' = (idle \/ (Subscribed = {p} /\ users[p] = 1))
  /\ UNCHANGED <<socket, retry, down, hub, published, steps, drops, updates>>

Unplugged ==
  /\ up' = <<>> /\ down' = <<>>
  /\ hub' = [p \in Watched |-> "none"]

(* scheduleIdleClose, its timer: no reconnect is left, and the socket is   *)
(* detached before it is closed.                                           *)
IdleClose ==
  /\ idle
  /\ idle' = FALSE
  /\ retry' = FALSE
  /\ socket' = "none"
  /\ Unplugged
  /\ UNCHANGED <<users, picture, failed, published, steps, drops, updates>>

(* Faulty: only the channels subscribed from now on are asked for.         *)
SocketOpensBare ==
  /\ socket = "connecting"
  /\ socket' = "open"
  /\ UNCHANGED <<users, retry, idle, picture, failed, wireVars, published, steps, drops, updates>>

(* onopen: every channel is subscribed again.                              *)
SocketOpens ==
  /\ socket = "connecting"
  /\ socket' = "open"
  /\ \E order \in [1..Cardinality(Subscribed) -> Subscribed] :
       /\ {order[i] : i \in DOMAIN order} = Subscribed
       /\ up' = [i \in DOMAIN order |-> [type |-> "subscribe", channel |-> order[i]]]
  /\ UNCHANGED <<users, retry, idle, picture, failed, down, hub, published, steps, drops, updates>>

(* onclose, or a factory that throws: retried while anything is subscribed. *)
SocketLost ==
  /\ socket # "none"
  /\ drops < MaxDrops
  /\ drops' = drops + 1
  /\ socket' = "none"
  /\ retry' = (Subscribed # {})
  /\ Unplugged
  /\ UNCHANGED <<users, idle, picture, failed, published, steps, updates>>

(* scheduleReconnect, its timer *)
SocketReconnects ==
  /\ retry
  /\ retry' = FALSE
  /\ socket' = "connecting"
  /\ UNCHANGED <<users, idle, picture, failed, wireVars, published, steps, drops, updates>>

(* onmessage *)
BrowserReceives ==
  /\ socket = "open" /\ down # <<>>
  /\ down' = Tail(down)
  /\ picture' = ReduceStatus(Head(down))
  /\ failed' = IF Head(down).type = "error" THEN failed \cup {Head(down).channel} ELSE failed
  /\ UNCHANGED <<users, socket, retry, idle, up, hub, published, steps, drops, updates>>

-----------------------------------------------------------------------------
(* ObserverService *)

(* message: an earlier subscription of the channel ends; a new one gets    *)
(* the cached snapshot at once, or waits for the first load.               *)
HubReceives(cached) ==
  /\ up # <<>>
  /\ up' = Tail(up)
  /\ LET p == Head(up).channel
     IN  IF Head(up).type = "unsubscribe"
         THEN hub' = [hub EXCEPT ![p] = "none"] /\ UNCHANGED down
         ELSE IF cached
         THEN hub' = [hub EXCEPT ![p] = "live"] /\ down' = Append(down, SnapshotMessage(p))
         ELSE hub' = [hub EXCEPT ![p] = "fresh"] /\ UNCHANGED down
  /\ UNCHANGED <<clientVars, published, steps, drops, updates>>

(* onSnapshot: the first load ends.                                        *)
HubAnswers(p) ==
  /\ hub[p] = "fresh"
  /\ hub' = [hub EXCEPT ![p] = "live"]
  /\ down' = Append(down, SnapshotMessage(p))
  /\ UNCHANGED <<clientVars, up, published, steps, drops, updates>>

(* onError: a load fails (told once); the next one may not.                *)
HubFails(p) ==
  /\ hub[p] # "none"
  /\ drops < MaxDrops
  /\ drops' = drops + 1
  /\ down' = Append(down, ErrorMessage(p))
  /\ UNCHANGED <<clientVars, up, hub, published, steps, updates>>

(* onDelta: a load finds a row changed.                                    *)
HubPublishes(p, r) ==
  /\ updates < MaxUpdates
  /\ updates' = updates + 1
  /\ published' = [published EXCEPT ![p][r] = updates']
  /\ down' = IF hub[p] = "live" THEN Append(down, DeltaMessage(p, r, updates')) ELSE down
  /\ UNCHANGED <<clientVars, up, hub, steps, drops>>

ObserverNext ==
  \/ \E p \in Watched :
       \/ SubscribeChannel(p)
       \/ ReleaseChannel(p)
       \/ HubAnswers(p)
       \/ HubFails(p)
       \/ \E r \in Row : HubPublishes(p, r)
  \/ IdleClose
  \/ SocketOpens
  \/ SocketLost
  \/ SocketReconnects
  \/ BrowserReceives
  \/ \E cached \in BOOLEAN : HubReceives(cached)

(* Timers fire, a connection that is not lost opens, messages arrive and   *)
(* loads end.                                                              *)
ObserverFairness ==
  /\ WF_observerVars(IdleClose)
  /\ WF_observerVars(SocketOpens)
  /\ WF_observerVars(SocketReconnects)
  /\ WF_observerVars(BrowserReceives)
  /\ WF_observerVars(\E cached \in BOOLEAN : HubReceives(cached))
  /\ \A p \in Watched : WF_observerVars(HubAnswers(p))

-----------------------------------------------------------------------------
(* Properties *)

(* What the server sends is what the page asked for: once the messages to  *)
(* the hub have arrived, its subscriptions are the channels in use, though *)
(* channels were taken and given up while the socket opened, closed and    *)
(* was lost (subscribe, onopen, message).  And somebody always sees to the *)
(* connection: while a channel is in use there is a socket or a reconnect  *)
(* is scheduled, and a socket nobody uses is about to be closed.           *)
HubAgrees ==
  /\ socket = "open" /\ up = <<>> => {p \in Watched : hub[p] # "none"} = Subscribed
  /\ Subscribed # {} => socket # "none" \/ retry
  /\ Subscribed = {} /\ socket # "none" => idle

(* Whoever keeps a channel ends up with the picture the server has, though *)
(* the connection was lost in between and the deltas of that time with it  *)
(* (onopen, reduceServerMessage).                                          *)
PictureConverges ==
  \A p \in Watched : []<>(users[p] = 0 \/ picture[p] = published[p])
=============================================================================
