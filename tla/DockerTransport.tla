--------------------------- MODULE DockerTransport ---------------------------
(***************************************************************************)
(* UnixSocketTransport (unix-socket-transport.ts): the socket and the API  *)
(* version are found once, kept as promises that all requests share, and   *)
(* forgotten when a connection fails, for the runtime may have been        *)
(* stopped and another one started.                                        *)
(*                                                                         *)
(* A promise is the number of the attempt behind it.  A daemon is its      *)
(* socket; the version negotiated with it is named by that socket.         *)
(***************************************************************************)
EXTENDS Integers

CONSTANTS
  Caller,      \* requests under way at a time
  Daemon,      \* runtimes that may be started
  NoDaemon,
  FetchAttempts,    \* bound: searches and negotiations that are started
  Switches     \* bound: how often the runtime is stopped or started

ASSUME AttemptsAssumption == FetchAttempts \in Nat

VARIABLES
  up,          \* the runtime that runs, or NoDaemon
  switches,
  socketMemo,  \* #socket: the number of a search, 0 for undefined
  located,     \* #located
  versionMemo, \* #version: the number of a negotiation, 0 for undefined
  search,      \* [number -> [done, found]]
  negotiation, \* [number -> [at, search, socket, version]]
  request      \* [Caller -> [at, version, socket]]

transportVars == <<up, switches, socketMemo, located, versionMemo, search, negotiation, request>>

IdleConnection == [at |-> "idle", waits |-> 0, version |-> NoDaemon, socket |-> NoDaemon]
Counts(attempts) == {i \in 1 .. FetchAttempts : attempts[i].at = "new"}
Unused(attempts) == CHOOSE i \in Counts(attempts) : TRUE

InitTransport ==
  /\ up \in Daemon \cup {NoDaemon} /\ switches = 0
  /\ socketMemo = 0 /\ located = NoDaemon /\ versionMemo = 0
  /\ search = [i \in 1 .. FetchAttempts |-> [at |-> "new", found |-> NoDaemon]]
  /\ negotiation = [i \in 1 .. FetchAttempts |-> [at |-> "new", waits |-> 0, socket |-> NoDaemon, version |-> NoDaemon]]
  /\ request = [c \in Caller |-> IdleConnection]

Steady == UNCHANGED <<up, switches>>

(* socketPath(): the kept promise, or a new search.                        *)
Memo == IF socketMemo # 0 THEN socketMemo ELSE Unused(search)
MaySearch == socketMemo # 0 \/ Counts(search) # {}
JoinSearch ==
  /\ socketMemo' = Memo
  /\ search' = IF socketMemo # 0 THEN search ELSE [search EXCEPT ![Memo].at = "locating"]

(* #locate ends: what is found is the runtime that is up.                  *)
EndpointLocated(i) ==
  /\ search[i].at = "locating"
  /\ search' = [search EXCEPT ![i].at = IF up = NoDaemon THEN "failed" ELSE "found", ![i].found = up]
  /\ IF up = NoDaemon THEN socketMemo' = 0 /\ UNCHANGED located
     ELSE located' = up /\ UNCHANGED socketMemo
  /\ UNCHANGED <<versionMemo, negotiation, request>> /\ Steady

(* Faulty: the version stays when the socket is forgotten.                 *)
ForgetSocketOnly(s) ==
  IF located # s THEN UNCHANGED <<located, socketMemo, versionMemo>>
  ELSE located' = NoDaemon /\ socketMemo' = 0 /\ UNCHANGED versionMemo

(* #forgetLocatedSocket *)
Forget(s) ==
  IF located # s THEN UNCHANGED <<located, socketMemo, versionMemo>>
  ELSE located' = NoDaemon /\ socketMemo' = 0 /\ versionMemo' = 0

-----------------------------------------------------------------------------
(* apiVersion(): the kept promise, or a new negotiation, which starts with *)
(* the socket.                                                             *)
Begin(c) ==
  /\ request[c].at = "idle"
  /\ IF versionMemo # 0
     THEN /\ request' = [request EXCEPT ![c] = [IdleConnection EXCEPT !.at = "version", !.waits = versionMemo]]
          /\ UNCHANGED <<socketMemo, search, versionMemo, negotiation>>
     ELSE /\ Counts(negotiation) # {} /\ MaySearch
          /\ LET n == Unused(negotiation)
             IN  /\ versionMemo' = n
                 /\ JoinSearch
                 /\ negotiation' = [negotiation EXCEPT ![n].at = "socket", ![n].waits = Memo]
                 /\ request' = [request EXCEPT ![c] = [IdleConnection EXCEPT !.at = "version", !.waits = n]]
  /\ UNCHANGED located /\ Steady

(* A negotiation that fails forgets the promise, whosever it is by now.    *)
NegotiationFails(n) ==
  /\ negotiation[n].at = "socket" /\ search[negotiation[n].waits].at = "failed"
  /\ negotiation' = [negotiation EXCEPT ![n].at = "failed"]
  /\ versionMemo' = 0
  /\ UNCHANGED <<socketMemo, located, search, request>> /\ Steady

AskVersion(n) ==
  /\ negotiation[n].at = "socket" /\ search[negotiation[n].waits].at = "found"
  /\ negotiation' = [negotiation EXCEPT ![n].at = "asked", ![n].socket = search[negotiation[n].waits].found]
  /\ UNCHANGED <<socketMemo, located, versionMemo, search, request>> /\ Steady

(* #send of GET /version: answered by the daemon of that socket, if it is  *)
(* up.                                                                     *)
VersionAnswered(n) ==
  /\ negotiation[n].at = "asked" /\ negotiation[n].socket = up
  /\ negotiation' = [negotiation EXCEPT ![n].at = "known", ![n].version = up]
  /\ UNCHANGED <<socketMemo, located, versionMemo, search, request>> /\ Steady

VersionRefused(n) ==
  /\ negotiation[n].at = "asked" /\ negotiation[n].socket # up
  /\ negotiation' = [negotiation EXCEPT ![n].at = "refused"]
  /\ Forget(negotiation[n].socket)
  /\ UNCHANGED <<search, request>> /\ Steady

(* The rejection reaches the catch of apiVersion later than #send.         *)
VersionRejected(n) ==
  /\ negotiation[n].at = "refused"
  /\ negotiation' = [negotiation EXCEPT ![n].at = "failed"]
  /\ versionMemo' = 0
  /\ UNCHANGED <<socketMemo, located, search, request>> /\ Steady

(* request(): the version, then the socket, then the request itself.       *)
VersionKnown(c) ==
  /\ request[c].at = "version" /\ negotiation[request[c].waits].at = "known" /\ MaySearch
  /\ JoinSearch
  /\ request' = [request EXCEPT ![c].at = "socket", ![c].waits = Memo,
                   ![c].version = negotiation[request[c].waits].version]
  /\ UNCHANGED <<located, versionMemo, negotiation>> /\ Steady

SocketKnown(c) ==
  /\ request[c].at = "socket" /\ search[request[c].waits].at = "found"
  /\ request' = [request EXCEPT ![c].at = "sent", ![c].socket = search[request[c].waits].found]
  /\ UNCHANGED <<socketMemo, located, versionMemo, search, negotiation>> /\ Steady

(* What it waited for failed: DOCKER_UNREACHABLE.                          *)
RequestFails(c) ==
  /\ \/ request[c].at = "version" /\ negotiation[request[c].waits].at = "failed"
     \/ request[c].at = "socket" /\ search[request[c].waits].at = "failed"
  /\ request' = [request EXCEPT ![c] = IdleConnection]
  /\ UNCHANGED <<socketMemo, located, versionMemo, search, negotiation>> /\ Steady

RequestAnswered(c) ==
  /\ request[c].at = "sent" /\ request[c].socket = up
  /\ request' = [request EXCEPT ![c] = IdleConnection]
  /\ UNCHANGED <<socketMemo, located, versionMemo, search, negotiation>> /\ Steady

ConnectionFails(c) ==
  /\ request[c].at = "sent" /\ request[c].socket # up
  /\ Forget(request[c].socket)
  /\ request' = [request EXCEPT ![c] = IdleConnection]
  /\ UNCHANGED <<search, negotiation>> /\ Steady

(* The user stops a runtime, or starts one (external).                     *)
Switch ==
  /\ switches < Switches
  /\ \E d \in (Daemon \cup {NoDaemon}) \ {up} : up' = d
  /\ switches' = switches + 1
  /\ UNCHANGED <<socketMemo, located, versionMemo, search, negotiation, request>>

TransportNext ==
  \/ \E i \in 1 .. FetchAttempts : EndpointLocated(i) \/ NegotiationFails(i) \/ AskVersion(i)
       \/ VersionAnswered(i) \/ VersionRefused(i) \/ VersionRejected(i)
  \/ \E c \in Caller : Begin(c) \/ VersionKnown(c) \/ SocketKnown(c) \/ RequestFails(c)
       \/ RequestAnswered(c) \/ ConnectionFails(c)
  \/ Switch

-----------------------------------------------------------------------------
(* The kept version is that of the daemon behind the kept socket, in       *)
(* whatever order searches, negotiations and failures of several requests  *)
(* overlap with the runtime being stopped and another one started: only a  *)
(* request that was under way at the change can mix two daemons.           *)
VersionOfSocket ==
  versionMemo # 0 /\ located # NoDaemon /\ negotiation[versionMemo].at = "known" =>
    negotiation[versionMemo].version = located
=============================================================================
