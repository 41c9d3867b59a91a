---------------------------- MODULE DockerProofs ----------------------------
(***************************************************************************)
(* How the program speaks to Docker: the socket and the version that       *)
(* requests share (DockerTransport), for any number of requests, runtimes, *)
(* searches, negotiations and switches; and what the calls of the compose  *)
(* runner and of the volume archiver tell, and do to a volume and its      *)
(* archives (DockerCommands), for any number of calls, lines and faults;   *)
(* and what the clients of a container's log can count of it (LogStream),  *)
(* for any number of sockets and lines.                                    *)
(***************************************************************************)
EXTENDS DockerTransport, DockerCommands, LogStream, SequenceTheorems, WellFoundedInduction, TLAPS

TransportShaped ==
  /\ DOMAIN search = 1 .. FetchAttempts
  /\ \A i \in 1 .. FetchAttempts : DOMAIN search[i] = {"at", "found"}
  /\ DOMAIN negotiation = 1 .. FetchAttempts
  /\ \A n \in 1 .. FetchAttempts : DOMAIN negotiation[n] = {"at", "waits", "socket", "version"}
  /\ DOMAIN request = Caller
  /\ \A c \in Caller : DOMAIN request[c] = {"at", "waits", "version", "socket"}
  /\ socketMemo \in 0 .. FetchAttempts /\ versionMemo \in 0 .. FetchAttempts

(* Whoever waits for a search waits for one that was started, and what it  *)
(* is told is a runtime.                                                   *)
Reached ==
  /\ \A i \in 1 .. FetchAttempts : search[i].at = "found" => search[i].found # NoDaemon
  /\ \A n \in 1 .. FetchAttempts :
       /\ negotiation[n].at \in {"socket", "asked", "known"} =>
            negotiation[n].waits \in 1 .. FetchAttempts /\ search[negotiation[n].waits].at # "new"
       /\ negotiation[n].at \in {"asked", "known"} =>
            negotiation[n].socket = search[negotiation[n].waits].found /\ search[negotiation[n].waits].at = "found"
       /\ negotiation[n].at = "known" => negotiation[n].version = negotiation[n].socket
  /\ \A c \in Caller :
       /\ request[c].at = "socket" => request[c].waits \in 1 .. FetchAttempts
       /\ request[c].at = "sent" => request[c].socket # NoDaemon

(* The kept search is the only one that is under way, and what it found is *)
(* the kept socket.                                                        *)
SocketKept ==
  /\ \A i \in 1 .. FetchAttempts : search[i].at = "locating" => i = socketMemo
  /\ socketMemo = 0 => located = NoDaemon
  /\ socketMemo # 0 =>
       \/ search[socketMemo].at = "locating" /\ located = NoDaemon
       \/ search[socketMemo].at = "found" /\ located = search[socketMemo].found

(* The kept negotiation is with the kept socket, or about to fail.         *)
VersionKept ==
  versionMemo # 0 =>
    LET n == negotiation[versionMemo]
    IN  /\ n.at = "socket" => n.waits = socketMemo \/ search[n.waits].at = "failed"
        /\ n.at \in {"asked", "known"} => n.waits = socketMemo

TransportInv == TransportShaped /\ Reached /\ SocketKept /\ VersionKept

LEMMA Positions == 0 \notin 1 .. FetchAttempts /\ \A i \in 0 .. FetchAttempts : i # 0 => i \in 1 .. FetchAttempts
BY AttemptsAssumption

LEMMA UnusedIsNew == ASSUME NEW attempts, Counts(attempts) # {}
                     PROVE  Unused(attempts) \in 1 .. FetchAttempts /\ attempts[Unused(attempts)].at = "new"
<1>1. Unused(attempts) \in Counts(attempts)
  BY DEF Unused
<1> QED BY <1>1 DEF Counts

LEMMA TransportBegins == InitTransport => TransportInv
<1> SUFFICES ASSUME InitTransport PROVE TransportInv
  OBVIOUS
<1>1. /\ search = [i \in 1 .. FetchAttempts |-> [at |-> "new", found |-> NoDaemon]]
      /\ negotiation = [i \in 1 .. FetchAttempts |-> [at |-> "new", waits |-> 0, socket |-> NoDaemon, version |-> NoDaemon]]
      /\ request = [c \in Caller |-> [at |-> "idle", waits |-> 0, version |-> NoDaemon, socket |-> NoDaemon]]
      /\ socketMemo = 0 /\ located = NoDaemon /\ versionMemo = 0
  BY DEF InitTransport, IdleConnection
<1>2. 0 \in 0 .. FetchAttempts
  BY AttemptsAssumption
<1>3. TransportShaped
  BY <1>1, <1>2 DEF TransportShaped
<1>4. Reached
  BY <1>1 DEF Reached
<1>5. SocketKept /\ VersionKept
  BY <1>1 DEF SocketKept, VersionKept
<1> QED BY <1>3, <1>4, <1>5 DEF TransportInv

(* A search that is joined is under way or has found the kept socket, and  *)
(* searches that were started stay as they are.                            *)
LEMMA SearchJoined ==
  ASSUME TransportInv, MaySearch, JoinSearch, UNCHANGED located
  PROVE  /\ DOMAIN search' = 1 .. FetchAttempts
         /\ \A i \in 1 .. FetchAttempts : DOMAIN search'[i] = {"at", "found"}
         /\ socketMemo' = Memo /\ Memo \in 1 .. FetchAttempts
         /\ search'[Memo].at \in {"locating", "found"}
         /\ \A i \in 1 .. FetchAttempts : search[i].at # "new" => search'[i] = search[i]
         /\ \A i \in 1 .. FetchAttempts : search'[i].at = "found" => search[i].at = "found"
         /\ socketMemo # 0 => Memo = socketMemo
         /\ SocketKept'
<1>1. CASE socketMemo # 0
  <2>1. Memo = socketMemo /\ search' = search /\ socketMemo' = socketMemo
    BY <1>1 DEF Memo, JoinSearch
  <2>2. socketMemo \in 1 .. FetchAttempts
    BY <1>1, Positions DEF TransportInv, TransportShaped
  <2> QED BY <1>1, <2>1, <2>2 DEF TransportInv, TransportShaped, SocketKept
<1>2. CASE socketMemo = 0
  <2>1. Memo = Unused(search) /\ Counts(search) # {}
    BY <1>2 DEF Memo, MaySearch
  <2>2. Memo \in 1 .. FetchAttempts /\ search[Memo].at = "new"
    BY <2>1, UnusedIsNew
  <2>3. socketMemo' = Memo /\ search' = [search EXCEPT ![Memo].at = "locating"]
    BY <1>2 DEF JoinSearch
  <2>4. /\ DOMAIN search' = 1 .. FetchAttempts
        /\ \A i \in 1 .. FetchAttempts : DOMAIN search'[i] = {"at", "found"}
        /\ search'[Memo].at = "locating"
        /\ \A i \in 1 .. FetchAttempts : i # Memo => search'[i] = search[i]
    BY <2>2, <2>3 DEF TransportInv, TransportShaped
  <2>5. Memo # 0
    BY <2>2, Positions
  <2>6. SocketKept'
    BY <1>2, <2>2, <2>3, <2>4, <2>5 DEF TransportInv, SocketKept
  <2> QED BY <1>2, <2>2, <2>3, <2>4, <2>6
<1> QED BY <1>1, <1>2

LEMMA SearchEndsKeeps == ASSUME TransportInv, NEW i \in 1 .. FetchAttempts, EndpointLocated(i) PROVE TransportInv'
<1>1. i = socketMemo /\ search[i].at = "locating" /\ located = NoDaemon
  BY Positions DEF EndpointLocated, TransportInv, SocketKept
<1>2. /\ DOMAIN search' = 1 .. FetchAttempts
      /\ \A j \in 1 .. FetchAttempts : DOMAIN search'[j] = {"at", "found"}
      /\ search'[i].at = (IF up = NoDaemon THEN "failed" ELSE "found") /\ search'[i].found = up
      /\ \A j \in 1 .. FetchAttempts : j # i => search'[j] = search[j]
  BY DEF EndpointLocated, TransportInv, TransportShaped
<1>3. /\ UNCHANGED <<versionMemo, negotiation, request>>
      /\ up = NoDaemon => socketMemo' = 0 /\ located' = located
      /\ up # NoDaemon => socketMemo' = socketMemo /\ located' = up
  BY DEF EndpointLocated
<1>4. TransportShaped'
  <2>1. socketMemo' \in 0 .. FetchAttempts
    BY <1>3, AttemptsAssumption DEF TransportInv, TransportShaped
  <2> QED BY <1>2, <1>3, <2>1 DEF TransportInv, TransportShaped
<1>5. Reached'
  <2>1. \A j \in 1 .. FetchAttempts : search'[j].at = "found" => search'[j].found # NoDaemon
    BY <1>2 DEF TransportInv, Reached
  <2>2. \A j \in 1 .. FetchAttempts : /\ search[j].at # "new" => search'[j].at # "new"
                                      /\ search[j].at = "found" => search'[j] = search[j]
    BY <1>1, <1>2
  <2> QED BY <1>3, <2>1, <2>2 DEF TransportInv, Reached
<1>6. SocketKept'
  BY <1>1, <1>2, <1>3, Positions DEF TransportInv, SocketKept
<1>7. VersionKept'
  <2> SUFFICES ASSUME versionMemo # 0 PROVE VersionKept'
    BY <1>3 DEF VersionKept
  <2> DEFINE n == negotiation[versionMemo]
  <2>1. versionMemo \in 1 .. FetchAttempts
    BY Positions DEF TransportInv, TransportShaped
  <2>2. n.at = "socket" => n.waits = socketMemo \/ search[n.waits].at = "failed"
    BY DEF TransportInv, VersionKept
  <2>3. n.at \in {"asked", "known"} => n.waits = socketMemo /\ search[n.waits].at = "found"
    BY <2>1 DEF TransportInv, VersionKept, Reached
  <2>4. n.at = "socket" => n.waits \in 1 .. FetchAttempts
    BY <2>1 DEF TransportInv, Reached
  <2>5. n.at \notin {"asked", "known"}
    BY <1>1, <2>3
  <2>6. n.at = "socket" => n.waits = socketMemo' \/ search'[n.waits].at = "failed"
    BY <1>1, <1>2, <1>3, <2>2, <2>4
  <2> QED BY <1>3, <2>5, <2>6 DEF VersionKept
<1> QED BY <1>4, <1>5, <1>6, <1>7 DEF TransportInv

LEMMA BeginKeeps == ASSUME TransportInv, NEW c \in Caller, Begin(c) PROVE TransportInv'
<1>1. CASE versionMemo # 0
  <2>1. /\ request' = [request EXCEPT ![c] = [IdleConnection EXCEPT !.at = "version", !.waits = versionMemo]]
        /\ UNCHANGED <<socketMemo, search, versionMemo, negotiation, located>>
    BY <1>1 DEF Begin
  <2>2. /\ DOMAIN request' = Caller
        /\ \A d \in Caller : DOMAIN request'[d] = {"at", "waits", "version", "socket"}
        /\ request'[c].at = "version"
        /\ \A d \in Caller : d # c => request'[d] = request[d]
    BY <2>1 DEF TransportInv, TransportShaped, IdleConnection
  <2>3. TransportShaped'
    BY <2>1, <2>2 DEF TransportInv, TransportShaped
  <2>4. Reached'
    BY <2>1, <2>2 DEF TransportInv, Reached
  <2> QED BY <2>1, <2>3, <2>4 DEF TransportInv, SocketKept, VersionKept
<1>2. CASE versionMemo = 0
  <2> DEFINE n == Unused(negotiation)
  <2>1. Counts(negotiation) # {} /\ MaySearch /\ JoinSearch /\ UNCHANGED located
    BY <1>2 DEF Begin
  <2>2. /\ versionMemo' = n
        /\ negotiation' = [negotiation EXCEPT ![n].at = "socket", ![n].waits = Memo]
        /\ request' = [request EXCEPT ![c] = [IdleConnection EXCEPT !.at = "version", !.waits = n]]
    BY <1>2 DEF Begin
  <2>3. n \in 1 .. FetchAttempts /\ negotiation[n].at = "new"
    BY <2>1, UnusedIsNew
  <2> HIDE DEF n
  <2>4. /\ DOMAIN request' = Caller
        /\ \A d \in Caller : DOMAIN request'[d] = {"at", "waits", "version", "socket"}
        /\ request'[c].at = "version"
        /\ \A d \in Caller : d # c => request'[d] = request[d]
    BY <2>2 DEF TransportInv, TransportShaped, IdleConnection
  <2>5. /\ DOMAIN negotiation' = 1 .. FetchAttempts
        /\ \A m \in 1 .. FetchAttempts : DOMAIN negotiation'[m] = {"at", "waits", "socket", "version"}
        /\ negotiation'[n].at = "socket" /\ negotiation'[n].waits = Memo
        /\ \A m \in 1 .. FetchAttempts : m # n => negotiation'[m] = negotiation[m]
    BY <2>2, <2>3 DEF TransportInv, TransportShaped
  <2>6. /\ DOMAIN search' = 1 .. FetchAttempts
        /\ \A i \in 1 .. FetchAttempts : DOMAIN search'[i] = {"at", "found"}
        /\ socketMemo' = Memo /\ Memo \in 1 .. FetchAttempts
        /\ search'[Memo].at \in {"locating", "found"}
        /\ \A i \in 1 .. FetchAttempts : search[i].at # "new" => search'[i] = search[i]
        /\ \A i \in 1 .. FetchAttempts : search'[i].at = "found" => search[i].at = "found"
        /\ SocketKept'
    BY <2>1, SearchJoined
  <2>7. TransportShaped'
    <3>1. \A i \in 1 .. FetchAttempts : i \in 0 .. FetchAttempts
      BY AttemptsAssumption
    <3>2. socketMemo' \in 0 .. FetchAttempts /\ versionMemo' \in 0 .. FetchAttempts
      BY <2>2, <2>3, <2>6, <3>1
    <3> QED BY <2>4, <2>5, <2>6, <3>2 DEF TransportShaped
  <2>8. Reached'
    <3>1. \A i \in 1 .. FetchAttempts : search'[i].at = "found" => search'[i].found # NoDaemon
      BY <2>6 DEF TransportInv, Reached
    <3>2. ASSUME NEW m \in 1 .. FetchAttempts
          PROVE  /\ negotiation'[m].at \in {"socket", "asked", "known"} =>
                      negotiation'[m].waits \in 1 .. FetchAttempts /\ search'[negotiation'[m].waits].at # "new"
                 /\ negotiation'[m].at \in {"asked", "known"} =>
                      /\ negotiation'[m].socket = search'[negotiation'[m].waits].found
                      /\ search'[negotiation'[m].waits].at = "found"
                 /\ negotiation'[m].at = "known" => negotiation'[m].version = negotiation'[m].socket
      <4>1. CASE m = n
        BY <4>1, <2>5, <2>6
      <4>2. CASE m # n
        BY <4>2, <2>5, <2>6 DEF TransportInv, Reached
      <4> QED BY <4>1, <4>2
    <3>3. \A d \in Caller : /\ request'[d].at = "socket" => request'[d].waits \in 1 .. FetchAttempts
                            /\ request'[d].at = "sent" => request'[d].socket # NoDaemon
      BY <2>4 DEF TransportInv, Reached
    <3> QED BY <3>1, <3>2, <3>3 DEF Reached
  <2>9. VersionKept'
    BY <2>2, <2>5, <2>6 DEF VersionKept
  <2> QED BY <2>6, <2>7, <2>8, <2>9 DEF TransportInv
<1> QED BY <1>1, <1>2

(* Whatever is forgotten, the kept search and the kept negotiation agree.  *)
LEMMA ForgetKeeps ==
  ASSUME TransportInv, NEW s, s # NoDaemon, Forget(s)
  PROVE  /\ socketMemo' \in 0 .. FetchAttempts /\ versionMemo' \in 0 .. FetchAttempts
         /\ search' = search => SocketKept'
         /\ versionMemo' # 0 => versionMemo' = versionMemo /\ socketMemo' = socketMemo
         /\ versionMemo' # 0 => located # s
<1>1. CASE located # s
  BY <1>1 DEF Forget, TransportInv, TransportShaped, SocketKept
<1>2. CASE located = s
  <2>1. located' = NoDaemon /\ socketMemo' = 0 /\ versionMemo' = 0
    BY <1>2 DEF Forget
  <2>2. 0 \in 0 .. FetchAttempts
    BY AttemptsAssumption
  <2>3. \A i \in 1 .. FetchAttempts : search[i].at # "locating"
    BY <1>2 DEF TransportInv, SocketKept
  <2> QED BY <2>1, <2>2, <2>3 DEF SocketKept
<1> QED BY <1>1, <1>2

(* A step of one negotiation that leaves it where it is not kept, or keeps *)
(* what it has found out.                                                  *)
LEMMA NegotiationMoves ==
  ASSUME TransportInv, NEW n \in 1 .. FetchAttempts, UNCHANGED <<search, request>>,
         socketMemo' \in 0 .. FetchAttempts, versionMemo' \in 0 .. FetchAttempts, SocketKept',
         versionMemo' # 0 => versionMemo' = versionMemo /\ socketMemo' = socketMemo,
         DOMAIN negotiation' = 1 .. FetchAttempts,
         DOMAIN negotiation'[n] = {"at", "waits", "socket", "version"},
         \A m \in 1 .. FetchAttempts : m # n => negotiation'[m] = negotiation[m],
         negotiation'[n].waits = negotiation[n].waits,
         \/ negotiation'[n].at \in {"refused", "failed"}
         \/ /\ negotiation[n].at = "socket" /\ negotiation'[n].at = "asked"
            /\ search[negotiation[n].waits].at = "found"
            /\ negotiation'[n].socket = search[negotiation[n].waits].found
         \/ /\ negotiation[n].at = "asked" /\ negotiation'[n].at = "known"
            /\ negotiation'[n].socket = negotiation[n].socket
            /\ negotiation'[n].version = negotiation[n].socket
  PROVE  TransportInv'
<1>1. TransportShaped'
  BY DEF TransportInv, TransportShaped
<1>2. Reached'
  <2>1. ASSUME NEW m \in 1 .. FetchAttempts
        PROVE  /\ negotiation'[m].at \in {"socket", "asked", "known"} =>
                    negotiation'[m].waits \in 1 .. FetchAttempts /\ search[negotiation'[m].waits].at # "new"
               /\ negotiation'[m].at \in {"asked", "known"} =>
                    /\ negotiation'[m].socket = search[negotiation'[m].waits].found
                    /\ search[negotiation'[m].waits].at = "found"
               /\ negotiation'[m].at = "known" => negotiation'[m].version = negotiation'[m].socket
    BY DEF TransportInv, Reached
  <2> QED BY <2>1 DEF TransportInv, Reached
<1>3. VersionKept'
  <2> SUFFICES ASSUME versionMemo' # 0 PROVE VersionKept'
    BY DEF VersionKept
  <2> DEFINE v == versionMemo
  <2>1. v # 0 /\ versionMemo' = v /\ socketMemo' = socketMemo /\ v \in 1 .. FetchAttempts
    BY Positions DEF TransportInv, TransportShaped
  <2>2. /\ negotiation[v].at = "socket" =>
             negotiation[v].waits = socketMemo \/ search[negotiation[v].waits].at = "failed"
        /\ negotiation[v].at \in {"asked", "known"} => negotiation[v].waits = socketMemo
    BY <2>1 DEF TransportInv, VersionKept
  <2>3. CASE v = n
    BY <2>1, <2>2, <2>3 DEF VersionKept
  <2>4. CASE v # n
    BY <2>1, <2>2, <2>4 DEF VersionKept
  <2> QED BY <2>3, <2>4
<1> QED BY <1>1, <1>2, <1>3 DEF TransportInv

LEMMA NegotiationKeeps ==
  ASSUME TransportInv, NEW n \in 1 .. FetchAttempts,
         \/ NegotiationFails(n) \/ AskVersion(n) \/ VersionAnswered(n) \/ VersionRefused(n) \/ VersionRejected(n)
  PROVE  TransportInv'
<1>0. /\ 0 \in 0 .. FetchAttempts
      /\ DOMAIN negotiation = 1 .. FetchAttempts
      /\ DOMAIN negotiation[n] = {"at", "waits", "socket", "version"}
      /\ socketMemo \in 0 .. FetchAttempts /\ versionMemo \in 0 .. FetchAttempts /\ SocketKept
  BY AttemptsAssumption DEF TransportInv, TransportShaped
<1>1. CASE NegotiationFails(n)
  <2>1. /\ negotiation' = [negotiation EXCEPT ![n].at = "failed"] /\ versionMemo' = 0
        /\ UNCHANGED <<socketMemo, located, search, request>>
    BY <1>1 DEF NegotiationFails
  <2>2. SocketKept'
    BY <1>0, <2>1 DEF SocketKept
  <2> QED BY <1>0, <2>1, <2>2, NegotiationMoves
<1>2. CASE AskVersion(n)
  <2>1. /\ negotiation[n].at = "socket" /\ search[negotiation[n].waits].at = "found"
        /\ negotiation' = [negotiation EXCEPT ![n].at = "asked", ![n].socket = search[negotiation[n].waits].found]
        /\ UNCHANGED <<socketMemo, located, versionMemo, search, request>>
    BY <1>2 DEF AskVersion
  <2>2. SocketKept'
    BY <1>0, <2>1 DEF SocketKept
  <2> QED BY <1>0, <2>1, <2>2, NegotiationMoves
<1>3. CASE VersionAnswered(n)
  <2>1. /\ negotiation[n].at = "asked"
        /\ negotiation' = [negotiation EXCEPT ![n].at = "known", ![n].version = negotiation[n].socket]
        /\ UNCHANGED <<socketMemo, located, versionMemo, search, request>>
    BY <1>3 DEF VersionAnswered
  <2>2. SocketKept'
    BY <1>0, <2>1 DEF SocketKept
  <2> QED BY <1>0, <2>1, <2>2, NegotiationMoves
<1>4. CASE VersionRefused(n)
  <2>1. /\ negotiation[n].at = "asked" /\ Forget(negotiation[n].socket)
        /\ negotiation' = [negotiation EXCEPT ![n].at = "refused"]
        /\ UNCHANGED <<search, request>>
    BY <1>4 DEF VersionRefused
  <2>2. negotiation[n].socket # NoDaemon
    BY <2>1 DEF TransportInv, Reached
  <2>3. /\ socketMemo' \in 0 .. FetchAttempts /\ versionMemo' \in 0 .. FetchAttempts /\ SocketKept'
        /\ versionMemo' # 0 => versionMemo' = versionMemo /\ socketMemo' = socketMemo
    BY <2>1, <2>2, ForgetKeeps
  <2> QED BY <1>0, <2>1, <2>3, NegotiationMoves
<1>5. CASE VersionRejected(n)
  <2>1. /\ negotiation' = [negotiation EXCEPT ![n].at = "failed"] /\ versionMemo' = 0
        /\ UNCHANGED <<socketMemo, located, search, request>>
    BY <1>5 DEF VersionRejected
  <2>2. SocketKept'
    BY <1>0, <2>1 DEF SocketKept
  <2> QED BY <1>0, <2>1, <2>2, NegotiationMoves
<1> QED BY <1>1, <1>2, <1>3, <1>4, <1>5

(* A request that waits for the kept search.                               *)
LEMMA VersionKnownKeeps == ASSUME TransportInv, NEW c \in Caller, VersionKnown(c) PROVE TransportInv'
<1>1. /\ MaySearch /\ JoinSearch /\ UNCHANGED <<located, versionMemo, negotiation>>
      /\ request' = [request EXCEPT ![c].at = "socket", ![c].waits = Memo,
                       ![c].version = negotiation[request[c].waits].version]
  BY DEF VersionKnown
<1>2. /\ DOMAIN search' = 1 .. FetchAttempts
      /\ \A i \in 1 .. FetchAttempts : DOMAIN search'[i] = {"at", "found"}
      /\ socketMemo' = Memo /\ Memo \in 1 .. FetchAttempts
      /\ \A i \in 1 .. FetchAttempts : search[i].at # "new" => search'[i] = search[i]
      /\ \A i \in 1 .. FetchAttempts : search'[i].at = "found" => search[i].at = "found"
      /\ socketMemo # 0 => Memo = socketMemo
      /\ SocketKept'
  BY <1>1, SearchJoined
<1>3. /\ DOMAIN request' = Caller
      /\ \A d \in Caller : DOMAIN request'[d] = {"at", "waits", "version", "socket"}
      /\ request'[c].at = "socket" /\ request'[c].waits = Memo
      /\ \A d \in Caller : d # c => request'[d] = request[d]
  BY <1>1 DEF TransportInv, TransportShaped
<1>4. TransportShaped'
  <2>1. Memo \in 0 .. FetchAttempts
    BY <1>2, AttemptsAssumption
  <2> QED BY <1>1, <1>2, <1>3, <2>1 DEF TransportInv, TransportShaped
<1>5. Reached'
  <2>1. \A i \in 1 .. FetchAttempts : search'[i].at = "found" => search'[i].found # NoDaemon
    BY <1>2 DEF TransportInv, Reached
  <2>2. \A d \in Caller : /\ request'[d].at = "socket" => request'[d].waits \in 1 .. FetchAttempts
                          /\ request'[d].at = "sent" => request'[d].socket # NoDaemon
    BY <1>2, <1>3 DEF TransportInv, Reached
  <2>3. ASSUME NEW m \in 1 .. FetchAttempts
        PROVE  /\ negotiation[m].at \in {"socket", "asked", "known"} =>
                    negotiation[m].waits \in 1 .. FetchAttempts /\ search'[negotiation[m].waits].at # "new"
               /\ negotiation[m].at \in {"asked", "known"} =>
                    /\ negotiation[m].socket = search'[negotiation[m].waits].found
                    /\ search'[negotiation[m].waits].at = "found"
               /\ negotiation[m].at = "known" => negotiation[m].version = negotiation[m].socket
    BY <1>2 DEF TransportInv, Reached
  <2> QED BY <1>1, <2>1, <2>2, <2>3 DEF Reached
<1>6. VersionKept'
  <2> SUFFICES ASSUME versionMemo # 0 PROVE VersionKept'
    BY <1>1 DEF VersionKept
  <2> DEFINE n == negotiation[versionMemo]
  <2>1. versionMemo \in 1 .. FetchAttempts
    BY Positions DEF TransportInv, TransportShaped
  <2>2. /\ n.at = "socket" => n.waits = socketMemo \/ search[n.waits].at = "failed"
        /\ n.at \in {"asked", "known"} => n.waits = socketMemo
    BY DEF TransportInv, VersionKept
  <2>3. n.at \in {"socket", "asked", "known"} => n.waits \in 1 .. FetchAttempts
    BY <2>1 DEF TransportInv, Reached
  <2>4. n.at = "socket" => n.waits = socketMemo' \/ search'[n.waits].at = "failed"
    BY <1>2, <2>2, <2>3, Positions
  <2>5. n.at \in {"asked", "known"} => n.waits = socketMemo'
    BY <1>2, <2>2, <2>3, Positions
  <2> QED BY <1>1, <2>4, <2>5 DEF VersionKept
<1> QED BY <1>2, <1>4, <1>5, <1>6 DEF TransportInv

LEMMA RequestKeeps ==
  ASSUME TransportInv, NEW c \in Caller, SocketKnown(c) \/ RequestFails(c) \/ RequestAnswered(c) \/ ConnectionFails(c)
  PROVE  TransportInv'
<1>0. /\ UNCHANGED <<search, negotiation>>
      /\ \/ UNCHANGED <<socketMemo, located, versionMemo>>
         \/ request[c].at = "sent" /\ Forget(request[c].socket)
      /\ \/ /\ request' = [request EXCEPT ![c].at = "sent", ![c].socket = search[request[c].waits].found]
            /\ request[c].at = "socket" /\ search[request[c].waits].at = "found"
         \/ request' = [request EXCEPT ![c] = IdleConnection]
  BY DEF SocketKnown, RequestFails, RequestAnswered, ConnectionFails
<1>1. /\ DOMAIN request' = Caller
      /\ \A d \in Caller : DOMAIN request'[d] = {"at", "waits", "version", "socket"}
      /\ request'[c].at # "socket"
      /\ request'[c].at = "sent" => request'[c].socket # NoDaemon
      /\ \A d \in Caller : d # c => request'[d] = request[d]
  BY <1>0 DEF TransportInv, TransportShaped, Reached, IdleConnection
<1>2. /\ socketMemo' \in 0 .. FetchAttempts /\ versionMemo' \in 0 .. FetchAttempts /\ SocketKept'
      /\ versionMemo' # 0 => versionMemo' = versionMemo /\ socketMemo' = socketMemo
  <2>1. CASE UNCHANGED <<socketMemo, located, versionMemo>>
    BY <1>0, <2>1 DEF TransportInv, TransportShaped, SocketKept
  <2>2. CASE request[c].at = "sent" /\ Forget(request[c].socket)
    <3>1. request[c].socket # NoDaemon
      BY <2>2 DEF TransportInv, Reached
    <3> QED BY <1>0, <2>2, <3>1, ForgetKeeps
  <2> QED BY <1>0, <2>1, <2>2
<1>3. TransportShaped'
  BY <1>0, <1>1, <1>2 DEF TransportInv, TransportShaped
<1>4. Reached'
  BY <1>0, <1>1 DEF TransportInv, Reached
<1>5. VersionKept'
  BY <1>0, <1>2 DEF TransportInv, VersionKept
<1> QED BY <1>2, <1>3, <1>4, <1>5 DEF TransportInv

LEMMA TransportKept == TransportInv /\ [TransportNext]_transportVars => TransportInv'
<1> SUFFICES ASSUME TransportInv, [TransportNext]_transportVars PROVE TransportInv'
  OBVIOUS
<1>1. ASSUME NEW i \in 1 .. FetchAttempts,
             \/ EndpointLocated(i) \/ NegotiationFails(i) \/ AskVersion(i)
             \/ VersionAnswered(i) \/ VersionRefused(i) \/ VersionRejected(i)
      PROVE  TransportInv'
  BY <1>1, SearchEndsKeeps, NegotiationKeeps
<1>2. ASSUME NEW c \in Caller,
             \/ Begin(c) \/ VersionKnown(c) \/ SocketKnown(c) \/ RequestFails(c)
             \/ RequestAnswered(c) \/ ConnectionFails(c)
      PROVE  TransportInv'
  BY <1>2, BeginKeeps, VersionKnownKeeps, RequestKeeps
<1>3. CASE UNCHANGED <<socketMemo, located, versionMemo, search, negotiation, request>>
  BY <1>3 DEF TransportInv, TransportShaped, Reached, SocketKept, VersionKept
<1> QED BY <1>1, <1>2, <1>3 DEF TransportNext, Switch, transportVars

(* VersionOfSocket: the version kept for all requests is that of the       *)
(* daemon behind the socket kept for them, however searches, negotiations  *)
(* and failed connections of any number of requests overlap with runtimes  *)
(* that are stopped and started (UnixSocketTransport).                     *)
THEOREM VersionIsOfSocket == InitTransport /\ [][TransportNext]_transportVars => []VersionOfSocket
<1>1. TransportInv => VersionOfSocket
  <2> SUFFICES ASSUME TransportInv, versionMemo # 0, located # NoDaemon, negotiation[versionMemo].at = "known"
               PROVE  negotiation[versionMemo].version = located
    BY DEF VersionOfSocket
  <2>1. versionMemo \in 1 .. FetchAttempts
    BY Positions DEF TransportInv, TransportShaped
  <2>2. negotiation[versionMemo].waits = socketMemo
    BY DEF TransportInv, VersionKept
  <2>3. negotiation[versionMemo].version = search[socketMemo].found
    BY <2>1, <2>2 DEF TransportInv, Reached
  <2> QED BY <2>3 DEF TransportInv, SocketKept
<1> QED BY <1>1, TransportBegins, TransportKept, PTL

(***************************************************************************)
(* The calls of the docker command line.                                   *)
(***************************************************************************)

Word == {"noise", "down", "port", "other"}
Code == {"INVALID_INPUT", "SNAPSHOT_NOT_FOUND", "COMPOSE_MISSING", "CANCELLED", "IO",
         "DOCKER_UNREACHABLE", "SERVICE_NOT_FOUND", "UNKNOWN", "PORT_CONFLICT"}
ToldEvent == {Line_(w) : w \in Word} \cup {Error_(c) : c \in Code} \cup {Done_}

ChildShape ==
  /\ DOMAIN child = {"cmd", "at", "ok", "printed", "pipe", "kept"}
  /\ DOMAIN child.pipe = {"out", "err"}
  /\ child.pipe["out"] \in Seq(Word) /\ child.pipe["err"] \in Seq(Word)

CallShaped ==
  /\ DOMAIN call = {"k", "req", "cmd", "aborted", "calm"}
  /\ ChildShape
  /\ DOMAIN project = {"box", "data", "net", "guest"}
  /\ told \in Seq(ToldEvent)

(* The commands that a request may come to.                                *)
Phases(op) ==
  CASE op = "archive" -> {"volume inspect", "image inspect", "pull", "run", "rename", "rm -f", "discard", "ended"}
    [] op = "restore" -> {"image inspect", "pull", "run", "rm -f", "discard", "ended"}
    [] op = "up" -> {"up", "ended"}
    [] op = "down" -> {"down", "ended"}
    [] op = "remove" -> {"rm", "volume rm", "network rm", "ended"}
    [] op = "none" -> {"none"}

(* The child carries out the command the call is at.                       *)
ChildOfCall ==
  /\ call.cmd \in Phases(call.req.op)
  /\ call.req.op \in {"archive", "restore", "up", "down", "remove", "none"}
  /\ child.at # "none" => child.cmd = call.cmd /\ call.cmd \notin {"none", "ended", "rename", "discard"}

(* Once the failure of a helper is told, what is left prints nothing.      *)
Over == {"rm -f", "discard", "ended"}
ToldOK ==
  /\ \A i \in 1 .. Len(told) : told[i].kind = "line" \/ (i = Len(told) /\ call.cmd \in Over)
  /\ call.cmd \in Over => Len(told) >= 1 /\ told[Len(told)].kind # "line"
  /\ call.cmd \in {"rm -f", "discard"} => told[Len(told)].kind = "error"

(* What the phases of a removal have achieved.                             *)
Achieved ==
  call.req.op = "remove" /\ call.calm =>
    /\ call.cmd = "rm" /\ child.at = "exited" /\ child.ok => ~project.box
    /\ call.cmd \in {"volume rm", "network rm"} => ~project.box
    /\ call.cmd = "volume rm" /\ child.at = "exited" /\ child.ok => ~project.data
    /\ call.cmd = "network rm" /\ call.req.volumes => ~project.data
    /\ call.cmd = "ended" /\ told[Len(told)].kind = "done" =>
         ~project.box /\ (call.req.volumes => ~project.data)

CallInv == CallShaped /\ ChildOfCall /\ ToldOK /\ Achieved

LEMMA NoChildShape ==
  /\ DOMAIN NoChild = {"cmd", "at", "ok", "printed", "pipe", "kept"} /\ NoChild.at = "none"
  /\ DOMAIN NoChild.pipe = {"out", "err"}
  /\ NoChild.pipe["out"] \in Seq(Word) /\ NoChild.pipe["err"] \in Seq(Word)
BY DEF NoChild

LEMMA ChildGone ==
  ASSUME ChildShape, (child' = child /\ child.at = "none") \/ child' = NoChild
  PROVE  ChildShape' /\ child'.at = "none"
<1>1. CASE child' = NoChild
  BY <1>1, NoChildShape DEF ChildShape
<1>2. CASE child' = child /\ child.at = "none"
  BY <1>2 DEF ChildShape
<1> QED BY <1>1, <1>2

LEMMA EventsTold ==
  /\ Done_ \in ToldEvent /\ Done_.kind = "done"
  /\ \A c \in Code : Error_(c) \in ToldEvent /\ Error_(c).kind = "error"
  /\ \A w \in Word : Line_(w) \in ToldEvent /\ Line_(w).kind = "line"
BY DEF ToldEvent, Done_, Error_, Line_

LEMMA FailureCodes ==
  /\ \A lines : ComposeFailure(lines) \in Code /\ HelperFailure(lines) \in Code
  /\ Failure_ \in Code
BY DEF Code, ComposeFailure, HelperFailure, Failure_

LEMMA ToldAppended ==
  ASSUME told \in Seq(ToldEvent), NEW e \in ToldEvent, told' = Append(told, e)
  PROVE  /\ told' \in Seq(ToldEvent) /\ Len(told) \in Nat /\ Len(told') = Len(told) + 1
         /\ told'[Len(told')] = e
         /\ \A i \in 1 .. Len(told) : told'[i] = told[i]
         /\ Len(told') >= 1
         /\ \A i \in 1 .. Len(told') : i \in 1 .. Len(told) \/ i = Len(told')
<1>1. Len(told) \in Nat
  BY LenProperties
<1>2. /\ told' \in Seq(ToldEvent) /\ Len(told') = Len(told) + 1 /\ told'[Len(told) + 1] = e
  BY AppendProperties
<1>3. \A i \in 1 .. Len(told) : told'[i] = told[i]
  <2>1. \A i \in 1 .. Len(told) : Append(told, e)[i] = told[i]
    BY AppendProperties
  <2> QED BY <2>1, Zenon
<1>4. Len(told') >= 1 /\ \A i \in 1 .. Len(told') : i \in 1 .. Len(told) \/ i = Len(told')
  BY <1>1, <1>2
<1> QED BY <1>1, <1>2, <1>3, <1>4

(* The call is over, or all that is left is to clear up.                   *)
LEMMA TellsEnd ==
  ASSUME CallInv, call.cmd \notin Over, NEW e \in ToldEvent, e.kind # "line", told' = Append(told, e),
         call'.cmd \in Over, call'.cmd \in {"rm -f", "discard"} => e.kind = "error"
  PROVE  ToldOK' /\ told' \in Seq(ToldEvent) /\ told'[Len(told')] = e
<1>1. /\ told' \in Seq(ToldEvent) /\ Len(told) \in Nat /\ Len(told') = Len(told) + 1
      /\ told'[Len(told')] = e
      /\ \A i \in 1 .. Len(told) : told'[i] = told[i]
      /\ Len(told') >= 1
      /\ \A i \in 1 .. Len(told') : i \in 1 .. Len(told) \/ i = Len(told')
  BY ToldAppended DEF CallInv, CallShaped
<1>2. \A i \in 1 .. Len(told) : told[i].kind = "line"
  BY DEF CallInv, ToldOK
<1>3. \A i \in 1 .. Len(told') : told'[i].kind = "line" \/ i = Len(told')
  <2> SUFFICES ASSUME NEW i \in 1 .. Len(told') PROVE told'[i].kind = "line" \/ i = Len(told')
    OBVIOUS
  <2>1. i \in 1 .. Len(told) \/ i = Len(told')
    BY <1>1, Zenon
  <2> QED BY <1>1, <1>2, <2>1
<1>4. Len(told') >= 1 /\ told'[Len(told')].kind = e.kind
  BY <1>1, Zenon
<1>5. ToldOK'
  BY <1>3, <1>4 DEF ToldOK
<1> QED BY <1>1, <1>5

LEMMA TellsLine ==
  ASSUME CallInv, call.cmd \notin Over, NEW e \in ToldEvent, e.kind = "line", told' = Append(told, e), call' = call
  PROVE  ToldOK' /\ told' \in Seq(ToldEvent)
<1>1. /\ told' \in Seq(ToldEvent) /\ Len(told) \in Nat /\ Len(told') = Len(told) + 1
      /\ told'[Len(told')] = e
      /\ \A i \in 1 .. Len(told) : told'[i] = told[i]
  BY ToldAppended DEF CallInv, CallShaped
<1>2. \A i \in 1 .. Len(told) : told[i].kind = "line"
  BY DEF CallInv, ToldOK
<1>3. \A i \in 1 .. Len(told') : told'[i].kind = "line"
  <2> SUFFICES ASSUME NEW i \in 1 .. Len(told') PROVE told'[i].kind = "line"
    OBVIOUS
  <2>1. i \in 1 .. Len(told) \/ i = Len(told')
    BY <1>1
  <2> QED BY <1>1, <1>2, <2>1
<1>4. call.cmd \notin {"rm -f", "discard"}
  BY DEF Over
<1> QED BY <1>1, <1>3, <1>4 DEF ToldOK

LEMMA TellsNothing ==
  ASSUME CallInv, UNCHANGED told, call'.cmd \in Over <=> call.cmd \in Over,
         call'.cmd \in {"rm -f", "discard"} => call.cmd \in {"rm -f", "discard"}
  PROVE  ToldOK'
BY DEF CallInv, ToldOK

LEMMA CommandsBegin == InitCommands => CallInv
<1> SUFFICES ASSUME InitCommands PROVE CallInv
  OBVIOUS
<1>1. /\ call = NoCall /\ child = NoChild /\ told = <<>>
      /\ \E b, g \in BOOLEAN : project = [box |-> b, data |-> b, net |-> b, guest |-> g]
  BY DEF InitCommands
<1>2. CallShaped
  BY <1>1 DEF CallShaped, ChildShape, NoCall, NoChild
<1>3. ChildOfCall
  BY <1>1 DEF ChildOfCall, NoCall, NoChild, NoRequest, Phases
<1>4. ToldOK
  BY <1>1 DEF ToldOK, NoCall, Over
<1>5. Achieved
  BY <1>1 DEF Achieved, NoCall, NoRequest
<1> QED BY <1>2, <1>3, <1>4, <1>5 DEF CallInv

-----------------------------------------------------------------------------
(* One lemma for each kind of step                                         *)

LEMMA RequestsAreOps ==
  ASSUME NEW req \in Requests_
  PROVE  /\ req.op \in {"archive", "restore", "up", "down", "remove"}
         /\ Opens(req) \in Phases(req.op) /\ Opens(req) \notin Over
         /\ "ended" \in Phases(req.op)
         /\ Refusal(req) \in Code \cup {"none"}
<1>1. req.op \in {"archive", "restore", "up", "down", "remove"}
  <2>1. CASE req \in {[NoRequest EXCEPT !.op = "archive", !.valid = v] : v \in BOOLEAN}
    BY <2>1 DEF NoRequest
  <2>2. CASE req \in {[NoRequest EXCEPT !.op = "restore", !.from = j] : j \in 0 .. MaxStreams}
    BY <2>2 DEF NoRequest
  <2>3. CASE req \in {[NoRequest EXCEPT !.op = "up"], [NoRequest EXCEPT !.op = "down", !.volumes = TRUE]}
    BY <2>3 DEF NoRequest
  <2>4. CASE req \in [op : {"remove"}, valid : {TRUE}, services : BOOLEAN, volumes : BOOLEAN,
                      networks : BOOLEAN, from : {0}]
    BY <2>4
  <2> QED BY <2>1, <2>2, <2>3, <2>4 DEF Requests_
<1>2. Opens(req) \in Phases(req.op) /\ Opens(req) \notin Over
  BY <1>1 DEF Opens, Phases, Over
<1>3. "ended" \in Phases(req.op)
  BY <1>1 DEF Phases
<1>4. Refusal(req) \in Code \cup {"none"}
  BY DEF Refusal, Code
<1> QED BY <1>1, <1>2, <1>3, <1>4

LEMMA AskCall == ASSUME CallInv, NEW req \in Requests_, Ask_(req) PROVE CallInv'
<1>1. /\ call' = [NoCall EXCEPT !.k = call.k + 1, !.req = req,
                    !.cmd = IF Refusal(req) = "none" THEN Opens(req) ELSE "ended"]
      /\ told' = IF Refusal(req) = "none" THEN <<>> ELSE <<Error_(Refusal(req))>>
      /\ child' = NoChild /\ project' = project
  BY DEF Ask_
<1>2. /\ DOMAIN call' = {"k", "req", "cmd", "aborted", "calm"} /\ call'.req = req
      /\ call'.cmd = IF Refusal(req) = "none" THEN Opens(req) ELSE "ended"
  BY <1>1 DEF NoCall
<1>3. ChildOfCall'
  BY <1>1, <1>2, RequestsAreOps DEF ChildOfCall, NoChild
<1>4. CASE Refusal(req) = "none"
  <2>1. told' = <<>> /\ call'.cmd = Opens(req) /\ call'.cmd \notin Over
    BY <1>1, <1>2, <1>4, RequestsAreOps
  <2>0. <<>> \in Seq(ToldEvent) /\ Len(<<>>) = 0
    OBVIOUS
  <2>2. ToldOK' /\ told' \in Seq(ToldEvent)
    <3>1. Len(told') = 0 /\ told' \in Seq(ToldEvent)
      BY <2>0, <2>1
    <3>2. 1 .. Len(told') = {}
      BY <3>1
    <3> QED BY <2>1, <3>1, <3>2 DEF ToldOK, Over
  <2>3. req.op = "remove" => call'.cmd = "rm"
    BY <2>1 DEF Opens
  <2>4. Achieved'
    BY <1>1, <1>2, <2>3 DEF Achieved, NoChild
  <2> QED BY <1>1, <1>2, <1>3, <2>2, <2>4 DEF CallInv, CallShaped, ChildShape, NoChild
<1>5. CASE Refusal(req) # "none"
  <2> DEFINE e == Error_(Refusal(req))
  <2>1. told' = <<e>> /\ call'.cmd = "ended"
    BY <1>1, <1>2, <1>5
  <2>2. e \in ToldEvent /\ e.kind = "error"
    BY <1>5, RequestsAreOps, EventsTold
  <2> HIDE DEF e
  <2>3. told' \in Seq(ToldEvent) /\ Len(told') = 1 /\ told'[1] = e
    BY <2>1, <2>2
  <2>4. ToldOK'
    BY <2>1, <2>2, <2>3 DEF ToldOK, Over
  <2>5. Achieved'
    BY <2>1, <2>2, <2>3 DEF Achieved
  <2> QED BY <1>1, <1>2, <1>3, <2>3, <2>4, <2>5 DEF CallInv, CallShaped, ChildShape, NoChild
<1> QED BY <1>4, <1>5

(* A call that is no removal, or one that does not end in success.         *)
LEMMA EndsCall ==
  ASSUME CallInv, NEW e \in ToldEvent, e.kind # "line", call.cmd \notin Over, call.cmd # "none",
         told' = Append(told, e), NEW cmd \in Over,
         cmd \in {"rm -f", "discard"} => e.kind = "error", cmd \in Phases(call.req.op),
         call' = [call EXCEPT !.cmd = cmd], (child' = child /\ child.at = "none") \/ child' = NoChild,
         UNCHANGED project, call.req.op # "remove" \/ e.kind # "done"
  PROVE  CallInv'
<1>1. DOMAIN call' = {"k", "req", "cmd", "aborted", "calm"} /\ call'.cmd = cmd /\ call'.req = call.req
  BY DEF CallInv, CallShaped
<1>2. ToldOK' /\ told' \in Seq(ToldEvent) /\ told'[Len(told')] = e
  BY <1>1, TellsEnd
<1>0. ChildShape' /\ child'.at = "none"
  BY ChildGone DEF CallInv, CallShaped
<1>3. CallShaped'
  BY <1>0, <1>1, <1>2 DEF CallInv, CallShaped
<1>4. ChildOfCall'
  BY <1>0, <1>1 DEF CallInv, ChildOfCall
<1>5. Achieved'
  <2>1. call.req.op = "remove" => cmd = "ended"
    BY DEF Phases, Over
  <2> QED BY <1>1, <1>2, <2>1 DEF Achieved
<1> QED BY <1>2, <1>3, <1>4, <1>5 DEF CallInv

(* The call goes on to its next command.                                   *)
LEMMA GoesCall ==
  ASSUME CallInv, NEW cmd, call' = [call EXCEPT !.cmd = cmd], UNCHANGED told,
         cmd \in Over <=> call.cmd \in Over,
         cmd \in {"rm -f", "discard"} => call.cmd \in {"rm -f", "discard"},
         cmd \in Phases(call.req.op), (child' = child /\ child.at = "none") \/ child' = NoChild, UNCHANGED project,
         call.req.op # "remove"
  PROVE  CallInv'
<1>1. DOMAIN call' = {"k", "req", "cmd", "aborted", "calm"} /\ call'.cmd = cmd /\ call'.req = call.req
  BY DEF CallInv, CallShaped
<1>2. ToldOK'
  BY <1>1, TellsNothing
<1>0. ChildShape' /\ child'.at = "none"
  BY ChildGone DEF CallInv, CallShaped
<1>3. CallShaped'
  BY <1>0, <1>1 DEF CallInv, CallShaped
<1>4. ChildOfCall'
  BY <1>0, <1>1 DEF CallInv, ChildOfCall
<1>5. Achieved'
  BY <1>1 DEF Achieved
<1> QED BY <1>2, <1>3, <1>4, <1>5 DEF CallInv

LEMMA NoCliCall == ASSUME CallInv, NoCliOnPath PROVE CallInv'
<1>1. /\ told' = Append(told, Error_("COMPOSE_MISSING")) /\ call' = [call EXCEPT !.cmd = "ended"]
      /\ child' = child /\ child.at = "none" /\ UNCHANGED project
      /\ call.cmd \notin {"none", "ended", "rm -f", "discard"}
  BY DEF NoCliOnPath, EndsWith, Busy
<1>2. /\ Error_("COMPOSE_MISSING") \in ToldEvent /\ Error_("COMPOSE_MISSING").kind = "error"
      /\ "ended" \in Over /\ call.cmd \notin Over
  BY <1>1, EventsTold DEF Code, Over
<1>3. "ended" \in Phases(call.req.op)
  BY <1>1 DEF CallInv, ChildOfCall, Phases
<1> QED BY <1>1, <1>2, <1>3, EndsCall

LEMMA AbortedBeforeCall == ASSUME CallInv, AbortedBefore PROVE CallInv'
<1> DEFINE cmd == IF call.cmd = "run" THEN "rm -f" ELSE "discard"
<1>1. /\ told' = Append(told, Error_("CANCELLED")) /\ call' = [call EXCEPT !.cmd = cmd]
      /\ child' = child /\ child.at = "none" /\ UNCHANGED project
      /\ call.cmd \in {"pull", "run"}
  BY DEF AbortedBefore
<1>2. /\ Error_("CANCELLED") \in ToldEvent /\ Error_("CANCELLED").kind = "error"
      /\ cmd \in Over /\ call.cmd \notin Over
  BY <1>1, EventsTold DEF Code, Over
<1>3. cmd \in Phases(call.req.op) /\ call.req.op # "remove"
  BY <1>1 DEF CallInv, ChildOfCall, Phases
<1> HIDE DEF cmd
<1> QED BY <1>1, <1>2, <1>3, EndsCall

(* The child prints, exits, or is killed.                                  *)
LEMMA ChildCall ==
  ASSUME CallInv, ChildShape', UNCHANGED <<call, told>>, child'.at # "none", child.at # "none", child'.cmd = child.cmd,
         UNCHANGED project, child'.at = "exited" /\ child'.ok => child.at = "exited" /\ child.ok
  PROVE  CallInv'
BY DEF CallInv, CallShaped, ChildOfCall, ToldOK, Achieved

LEMMA PrintsCall == ASSUME CallInv, NEW s \in {"out", "err"}, Prints(s) PROVE CallInv'
<1>1. /\ child' = [child EXCEPT !.printed = @ + 1, !.pipe[s] = Append(@, "noise")]
      /\ child.at = "running" /\ UNCHANGED <<call, told, project>>
  BY DEF Prints
<1>2. child.pipe[s] \in Seq(Word) /\ "noise" \in Word /\ ChildShape
  BY DEF CallInv, CallShaped, ChildShape, Word
<1>3. Append(child.pipe[s], "noise") \in Seq(Word)
  BY <1>2
<1>4. ChildShape' /\ child'.at = "running" /\ child'.cmd = child.cmd
  BY <1>1, <1>2, <1>3 DEF ChildShape
<1> QED BY <1>1, <1>4, ChildCall

LEMMA ReadLineCall == ASSUME CallInv, NEW s \in {"out", "err"}, ReadLine(s) PROVE CallInv'
<1> DEFINE line == Head(child.pipe[s])
           most == IF ArchiverCall THEN HelperLines ELSE RunnerLines
<1>1. /\ child' = [child EXCEPT !.pipe[s] = Tail(@), !.kept = Kept(Append(@, line), most)]
      /\ told' = Append(told, Line_(line))
      /\ Busy /\ child.at # "none" /\ Streamed /\ child.pipe[s] # <<>>
      /\ UNCHANGED <<call, project>>
  BY DEF ReadLine
<1> HIDE DEF most
<1>2. child.pipe[s] \in Seq(Word) /\ ChildShape
  BY DEF CallInv, CallShaped, ChildShape
<1>3. Tail(child.pipe[s]) \in Seq(Word) /\ line \in Word
  BY <1>1, <1>2, HeadTailProperties
<1> HIDE DEF line
<1>4. ChildShape' /\ child'.at = child.at /\ child'.cmd = child.cmd /\ child'.ok = child.ok
  BY <1>1, <1>2, <1>3 DEF ChildShape
<1>5. call.cmd \notin Over
  BY <1>1 DEF CallInv, ChildOfCall, Over, Streamed
<1>6. ToldOK' /\ told' \in Seq(ToldEvent)
  BY <1>1, <1>3, <1>5, TellsLine, EventsTold
<1> QED BY <1>1, <1>4, <1>5, <1>6 DEF CallInv, CallShaped, ChildOfCall, Achieved, Over

LEMMA ExitShape ==
  ASSUME ChildShape, NEW ok, NEW words \in Seq(Word), Exit(ok, words)
  PROVE  ChildShape' /\ child'.at = "exited" /\ child'.cmd = child.cmd /\ child'.ok = ok
<1>1. child' = [child EXCEPT !.at = "exited", !.ok = ok, !.pipe["err"] = @ \o words]
  BY DEF Exit
<1>2. child.pipe["err"] \o words \in Seq(Word)
  BY DEF ChildShape
<1> QED BY <1>1, <1>2 DEF ChildShape

LEMMA Words == <<>> \in Seq(Word) /\ <<"down">> \in Seq(Word) /\ <<"other">> \in Seq(Word) /\ <<"port">> \in Seq(Word)
<1>1. "down" \in Word /\ "other" \in Word /\ "port" \in Word
  BY DEF Word
<1> HIDE DEF Word
<1> QED BY <1>1

LEMMA ProjectShape ==
  ASSUME CallShaped, NEW box, NEW data, NEW net, project' = Has(box, data, net)
  PROVE  DOMAIN project' = DOMAIN project /\ project'.box = box /\ project'.data = data
BY DEF CallShaped, Has

(* The child exits without a change of the project, or does not carry out  *)
(* a phase of a removal.                                                   *)
LEMMA ExitsCall ==
  ASSUME CallInv, child.at = "running", NEW ok, NEW words \in Seq(Word), Exit(ok, words),
         UNCHANGED <<call, told, project>>,
         ~ok \/ child.cmd \notin {"rm", "volume rm"}
  PROVE  CallInv'
<1>1. ChildShape' /\ child'.at = "exited" /\ child'.cmd = child.cmd /\ child'.ok = ok
  BY ExitShape DEF CallInv, CallShaped
<1> QED BY <1>1 DEF CallInv, CallShaped, ChildOfCall, ToldOK, Achieved

LEMMA DaemonGoneCall == ASSUME CallInv, DaemonGone PROVE CallInv'
<1>1. child.at = "running" /\ Exit(FALSE, <<"down">>) /\ UNCHANGED <<call, told, project>>
  BY DEF DaemonGone
<1> QED BY <1>1, ExitsCall, Words

LEMMA InspectsCall == ASSUME CallInv, Inspects PROVE CallInv'
<1>1. child.at = "running" /\ UNCHANGED <<call, told, project>>
  BY DEF Inspects
<1>2. child.cmd \notin {"rm", "volume rm"}
  BY DEF Inspects
<1>3. \E ok, words : Exit(ok, words) /\ words \in Seq(Word)
  BY Words DEF Inspects
<1> QED BY <1>1, <1>2, <1>3, ExitsCall

(* What a command of compose does to the project.                          *)
LEMMA ComposesCall == ASSUME CallInv, Composes PROVE CallInv'
<1>0. child.at = "running" /\ UNCHANGED <<call, told>> /\ child.cmd = call.cmd
  BY DEF Composes, CallInv, ChildOfCall
<1>1. CASE child.cmd = "up"
  <2>1. call.req.op # "remove"
    BY <1>0, <1>1 DEF CallInv, ChildOfCall, Phases
  <2>2. ChildShape' /\ child'.at # "none" /\ child'.cmd = child.cmd
    <3>1. child' = child \/ \E ok, words : Exit(ok, words) /\ words \in Seq(Word)
      BY <1>1, Words DEF Composes
    <3>2. CASE child' = child
      BY <1>0, <3>2 DEF CallInv, CallShaped, ChildShape
    <3>3. CASE \E ok, words : Exit(ok, words) /\ words \in Seq(Word)
      BY <3>3, ExitShape DEF CallInv, CallShaped
    <3> QED BY <3>1, <3>2, <3>3
  <2>3. DOMAIN project' = DOMAIN project
    BY <1>1, ProjectShape DEF Composes, CallInv
  <2> QED BY <1>0, <2>1, <2>2, <2>3 DEF CallInv, CallShaped, ChildOfCall, ToldOK, Achieved
<1>2. CASE Exit(FALSE, <<"other">>) /\ UNCHANGED project
  BY <1>0, <1>2, ExitsCall, Words
<1>3. CASE child.cmd \in {"down", "rm", "volume rm", "network rm"} /\ ~(Exit(FALSE, <<"other">>) /\ UNCHANGED project)
  <2>1. \/ child.cmd = "down" /\ project' = Has(FALSE, FALSE, project.guest) /\ Exit(~project.guest, <<>>)
        \/ child.cmd = "rm" /\ project' = Has(FALSE, project.data, project.net) /\ Exit(TRUE, <<>>)
        \/ child.cmd = "volume rm" /\ project' = Has(project.box, project.box, project.net) /\ Exit(~project.box, <<>>)
        \/ child.cmd = "network rm" /\ \E busy_ : project' = Has(project.box, project.data, busy_) /\ Exit(~busy_, <<>>)
    BY <1>3 DEF Composes
  <2>2. ChildShape' /\ child'.at = "exited" /\ child'.cmd = child.cmd
    BY <2>1, ExitShape, Words DEF CallInv, CallShaped
  <2>3. DOMAIN project' = DOMAIN project
    BY <2>1, ProjectShape DEF CallInv
  <2>4. Achieved'
    <3> SUFFICES ASSUME call.req.op = "remove", call.calm PROVE Achieved'
      BY <1>0 DEF Achieved
    <3>1. CASE child.cmd = "down"
      BY <1>0, <3>1 DEF CallInv, ChildOfCall, Phases
    <3>2. CASE child.cmd = "rm"
      <4>1. ~project'.box
        BY <2>1, <3>2, ProjectShape DEF CallInv
      <4> QED BY <1>0, <3>2, <4>1 DEF Achieved
    <3>3. CASE child.cmd = "volume rm"
      <4>1. ~project.box
        BY <1>0, <3>3 DEF CallInv, Achieved
      <4>2. ~project'.box /\ ~project'.data
        BY <2>1, <3>3, <4>1, ProjectShape DEF CallInv
      <4> QED BY <1>0, <3>3, <4>2 DEF Achieved
    <3>4. CASE child.cmd = "network rm"
      <4>1. project'.box = project.box /\ project'.data = project.data
        BY <2>1, <3>4, ProjectShape DEF CallInv
      <4> QED BY <1>0, <3>4, <4>1 DEF CallInv, Achieved
    <3> QED BY <1>3, <3>1, <3>2, <3>3, <3>4
  <2> QED BY <1>0, <2>2, <2>3, <2>4 DEF CallInv, CallShaped, ChildOfCall, ToldOK
<1> QED BY <1>1, <1>2, <1>3 DEF Composes

LEMMA SpawnCall == ASSUME CallInv, SpawnDocker PROVE CallInv'
<1>1. /\ child' = [NoChild EXCEPT !.cmd = call.cmd, !.at = "running"]
      /\ call.cmd \notin {"none", "ended", "rename", "discard"}
      /\ UNCHANGED <<call, told, project>>
  BY DEF SpawnDocker, Busy
<1>2. ChildShape' /\ child'.at = "running" /\ child'.cmd = call.cmd
  BY <1>1, NoChildShape DEF ChildShape
<1> QED BY <1>1, <1>2 DEF CallInv, CallShaped, ChildOfCall, ToldOK, Achieved

LEMMA ErrorsEnd ==
  ASSUME NEW c \in Code
  PROVE  Error_(c) \in ToldEvent /\ Error_(c).kind = "error" /\ Error_(c).kind # "line" /\ Error_(c).kind # "done"
BY EventsTold

LEMMA VolumeLookedCall == ASSUME CallInv, VolumeLooked PROVE CallInv'
<1>1. child' = NoChild /\ UNCHANGED project /\ call.cmd = "volume inspect"
  BY DEF VolumeLooked, Read_, Rest
<1>2. call.req.op = "archive" /\ call.cmd \notin Over
  BY <1>1 DEF CallInv, ChildOfCall, Phases, Over
<1>3. {"image inspect", "ended"} \subseteq Phases(call.req.op) /\ "image inspect" \notin Over /\ "ended" \in Over
  BY <1>2 DEF Phases, Over
<1>4. CASE Goes("image inspect")
  BY <1>1, <1>2, <1>3, <1>4, GoesCall DEF Goes
<1>5. CASE \E c \in Code : EndsWith(Error_(c))
  <2>1. PICK c \in Code : told' = Append(told, Error_(c)) /\ call' = [call EXCEPT !.cmd = "ended"]
    BY <1>5 DEF EndsWith
  <2> QED BY <1>1, <1>2, <1>3, <2>1, ErrorsEnd, EndsCall
<1>6. Goes("image inspect") \/ \E c \in Code : EndsWith(Error_(c))
  BY DEF VolumeLooked, Code
<1> QED BY <1>4, <1>5, <1>6

LEMMA ImageLookedCall == ASSUME CallInv, ImageLooked PROVE CallInv'
<1>1. child' = NoChild /\ UNCHANGED project /\ call.cmd = "image inspect"
  BY DEF ImageLooked, Read_, Rest
<1>2. call.req.op \in {"archive", "restore"} /\ call.cmd \notin Over
  BY <1>1 DEF CallInv, ChildOfCall, Phases, Over
<1>3. {"run", "pull"} \subseteq Phases(call.req.op) \ Over
  BY <1>2 DEF Phases, Over
<1>4. \E cmd \in {"run", "pull"} : Goes(cmd)
  BY DEF ImageLooked
<1> QED BY <1>1, <1>2, <1>3, <1>4, GoesCall DEF Goes

LEMMA PulledCall == ASSUME CallInv, Pulled PROVE CallInv'
<1>1. child' = NoChild /\ UNCHANGED project /\ call.cmd = "pull"
  BY DEF Pulled, ReadAll, Read_, Rest
<1>2. call.req.op \in {"archive", "restore"} /\ call.cmd \notin Over
  BY <1>1 DEF CallInv, ChildOfCall, Phases, Over
<1>3. {"run", "discard"} \subseteq Phases(call.req.op) /\ "run" \notin Over /\ "discard" \in Over
  BY <1>2 DEF Phases, Over
<1>4. CASE Goes("run")
  BY <1>1, <1>2, <1>3, <1>4, GoesCall DEF Goes
<1>5. CASE told' = Append(told, Error_(Failure_)) /\ call' = [call EXCEPT !.cmd = "discard"]
  <2>1. Failure_ \in Code
    BY FailureCodes
  <2> QED BY <1>1, <1>2, <1>3, <1>5, <2>1, ErrorsEnd, EndsCall
<1> QED BY <1>4, <1>5 DEF Pulled

LEMMA RanCall == ASSUME CallInv, Ran PROVE CallInv'
<1>1. child' = NoChild /\ UNCHANGED project /\ call.cmd = "run"
  BY DEF Ran, ReadAll, Read_, Rest
<1>2. call.req.op \in {"archive", "restore"} /\ call.cmd \notin Over
  BY <1>1 DEF CallInv, ChildOfCall, Phases, Over
<1>3. {"ended", "rm -f"} \subseteq Phases(call.req.op) \cap Over
  BY <1>2 DEF Phases, Over
<1>4. CASE call.req.op = "archive" /\ Goes("rename")
  <2>1. "rename" \in Phases(call.req.op) /\ "rename" \notin Over
    BY <1>4 DEF Phases, Over
  <2> QED BY <1>1, <1>2, <1>4, <2>1, GoesCall DEF Goes
<1>5. CASE EndsWith(Done_)
  BY <1>1, <1>2, <1>3, <1>5, EventsTold, EndsCall DEF EndsWith
<1>6. CASE told' = Append(told, Error_(Failure_)) /\ call' = [call EXCEPT !.cmd = "rm -f"]
  <2>1. Failure_ \in Code
    BY FailureCodes
  <2> QED BY <1>1, <1>2, <1>3, <1>6, <2>1, ErrorsEnd, EndsCall
<1> QED BY <1>4, <1>5, <1>6 DEF Ran

LEMMA HelperRemovedCall == ASSUME CallInv, HelperRemoved PROVE CallInv'
<1>1. child' = NoChild /\ UNCHANGED project /\ call.cmd = "rm -f" /\ Goes("discard")
  BY DEF HelperRemoved, Read_, Rest
<1>2. call.req.op \in {"archive", "restore"} /\ call.cmd \in Over /\ "discard" \in Over
  BY <1>1 DEF CallInv, ChildOfCall, Phases, Over
<1>3. "discard" \in Phases(call.req.op)
  BY <1>2 DEF Phases
<1> QED BY <1>1, <1>2, <1>3, GoesCall DEF Goes

LEMMA RenamesCall == ASSUME CallInv, Renames PROVE CallInv'
<1>1. child' = child /\ UNCHANGED project /\ call.cmd = "rename"
  BY DEF Renames
<1>2. call.req.op = "archive" /\ call.cmd \notin Over /\ child.at = "none"
  BY <1>1 DEF CallInv, ChildOfCall, Phases, Over
<1>3. {"ended", "discard"} \subseteq Phases(call.req.op) \cap Over
  BY <1>2 DEF Phases, Over
<1>4. CASE EndsWith(Done_)
  BY <1>1, <1>2, <1>3, <1>4, EventsTold, EndsCall DEF EndsWith
<1>5. CASE told' = Append(told, Error_("IO")) /\ call' = [call EXCEPT !.cmd = "discard"]
  <2>1. "IO" \in Code
    BY DEF Code
  <2> QED BY <1>1, <1>2, <1>3, <1>5, <2>1, ErrorsEnd, EndsCall
<1> QED BY <1>4, <1>5 DEF Renames

LEMMA DiscardsCall == ASSUME CallInv, Discards PROVE CallInv'
<1>1. child' = child /\ UNCHANGED project /\ call.cmd = "discard" /\ Goes("ended")
  BY DEF Discards
<1>2. call.req.op \in {"archive", "restore"} /\ call.cmd \in Over /\ "ended" \in Over /\ child.at = "none"
  BY <1>1 DEF CallInv, ChildOfCall, Phases, Over
<1>3. "ended" \in Phases(call.req.op)
  BY <1>2 DEF Phases
<1> QED BY <1>1, <1>2, <1>3, GoesCall DEF Goes

(* A phase of a removal is followed by the next only when it succeeded.    *)
LEMMA ComposedCall == ASSUME CallInv, Composed PROVE CallInv'
<1>1. PICK cmd \in {"up", "down", "rm", "volume rm", "network rm"} :
        /\ child.at = "exited" /\ child.cmd = cmd /\ call.cmd = cmd
        /\ LET next == AfterPhase(child.ok, cmd)
           IN  CASE next = "done" -> EndsWith(Done_)
                 [] next = "failed" -> EndsWith(Error_(ComposeFailure(child.kept)))
                 [] OTHER -> Goes(next)
  BY DEF Composed, ReadAll, Read_
<1>2. child' = NoChild /\ UNCHANGED project
  BY DEF Composed, Rest
<1>3. cmd \notin Over /\ call.req.op \in {"up", "down", "remove"} /\ "ended" \in Over
      /\ "ended" \in Phases(call.req.op)
  BY <1>1 DEF CallInv, ChildOfCall, Phases, Over
<1> DEFINE next == AfterPhase(child.ok, cmd)
<1>4. CASE next = "failed"
  <2>1. /\ told' = Append(told, Error_(ComposeFailure(child.kept))) /\ call' = [call EXCEPT !.cmd = "ended"]
        /\ ComposeFailure(child.kept) \in Code
    BY <1>1, <1>4, FailureCodes DEF EndsWith
  <2> QED BY <1>1, <1>2, <1>3, <2>1, ErrorsEnd, EndsCall
<1>5. CASE next = "done"
  <2>1. told' = Append(told, Done_) /\ call' = [call EXCEPT !.cmd = "ended"]
    BY <1>1, <1>5 DEF EndsWith
  <2>2. CASE call.req.op # "remove"
    BY <1>1, <1>2, <1>3, <2>1, <2>2, EventsTold, EndsCall
  <2>3. CASE call.req.op = "remove"
    <3>1. DOMAIN call' = {"k", "req", "cmd", "aborted", "calm"} /\ call'.cmd = "ended" /\ call'.req = call.req
          /\ call'.calm = call.calm
      BY <2>1 DEF CallInv, CallShaped
    <3>2. ToldOK' /\ told' \in Seq(ToldEvent)
      BY <1>1, <1>3, <2>1, <3>1, EventsTold, TellsEnd
    <3>3. cmd \in {"rm", "volume rm", "network rm"}
      BY <1>1, <2>3 DEF CallInv, ChildOfCall, Phases
    <3>4. call.calm => ~project.box /\ (call.req.volumes => ~project.data)
      <4>1. cmd = "network rm" \/ (child.ok /\ (cmd = "rm" => ~call.req.volumes))
        BY <1>5, <3>3 DEF AfterPhase
      <4> QED BY <1>1, <2>3, <3>3, <4>1 DEF CallInv, Achieved
    <3>5. Achieved'
      BY <1>2, <3>1, <3>4 DEF Achieved
    <3> QED BY <1>2, <1>3, <3>1, <3>2, <3>5, ChildGone DEF CallInv, CallShaped, ChildOfCall
  <2> QED BY <2>2, <2>3
<1>6. CASE next \in {"volume rm", "network rm"}
  <2>1. call' = [call EXCEPT !.cmd = next] /\ UNCHANGED told
    BY <1>1, <1>6 DEF Goes
  <2>2. /\ child.ok /\ cmd \in {"rm", "volume rm"}
        /\ next = "volume rm" => cmd = "rm"
        /\ next = "network rm" /\ cmd = "rm" => ~call.req.volumes
    BY <1>1, <1>6 DEF AfterPhase
  <2>3. call.req.op = "remove"
    BY <1>1, <2>2 DEF CallInv, ChildOfCall, Phases
  <2> HIDE DEF next
  <2>4. /\ DOMAIN call' = {"k", "req", "cmd", "aborted", "calm"} /\ call'.cmd = next /\ call'.req = call.req
        /\ call'.calm = call.calm
    BY <2>1 DEF CallInv, CallShaped
  <2>5. next \notin Over /\ next \in Phases("remove") /\ call.cmd \notin Over /\ next \notin {"rm -f", "discard"}
    BY <1>1, <1>6, <2>2 DEF Over, Phases
  <2>6. ToldOK'
    BY <2>1, <2>4, <2>5, TellsNothing
  <2>7. Achieved'
    BY <1>1, <1>2, <1>6, <2>2, <2>3, <2>4, NoChildShape DEF CallInv, Achieved
  <2> QED BY <1>2, <2>1, <2>3, <2>4, <2>5, <2>6, <2>7, ChildGone DEF CallInv, CallShaped, ChildOfCall
<1>7. next \in {"done", "failed", "volume rm", "network rm"}
  BY <1>1 DEF AfterPhase
<1> QED BY <1>4, <1>5, <1>6, <1>7

LEMMA ChildDiesShape ==
  ASSUME ChildShape, ChildDies
  PROVE  ChildShape' /\ child'.at = "exited" /\ child'.ok = FALSE /\ child'.cmd = child.cmd
BY NoChildShape DEF ChildShape, ChildDies

LEMMA FaultsCall ==
  ASSUME CallInv, Aborts \/ SomebodyKillsChild \/ ProgramDies \/ OtherUp
  PROVE  CallInv'
<1>1. CASE Aborts
  <2>1. /\ call' = [call EXCEPT !.aborted = TRUE] /\ UNCHANGED <<told, project>>
        /\ child' = child \/ (child.at = "running" /\ ChildDies)
    BY <1>1 DEF Aborts
  <2>2. /\ DOMAIN call' = {"k", "req", "cmd", "aborted", "calm"} /\ call'.cmd = call.cmd
        /\ call'.req = call.req /\ call'.calm = call.calm
    BY <2>1 DEF CallInv, CallShaped
  <2>3. ChildShape' /\ child'.cmd = child.cmd /\ (child'.at = "none" <=> child.at = "none")
        /\ (child'.at = "exited" /\ child'.ok => child.at = "exited" /\ child.ok)
    BY <2>1, ChildDiesShape DEF CallInv, CallShaped, ChildShape
  <2> QED BY <2>1, <2>2, <2>3 DEF CallInv, CallShaped, ChildOfCall, ToldOK, Achieved
<1>2. CASE SomebodyKillsChild
  BY <1>2, ChildDiesShape, ChildCall DEF SomebodyKillsChild, CallInv, CallShaped
<1>3. CASE ProgramDies
  <2>1. call' = [NoCall EXCEPT !.k = call.k] /\ child' = NoChild /\ told' = <<>> /\ UNCHANGED project
    BY <1>3 DEF ProgramDies
  <2>2. /\ DOMAIN call' = {"k", "req", "cmd", "aborted", "calm"} /\ call'.cmd = "none" /\ call'.req.op = "none"
    BY <2>1 DEF NoCall, NoRequest
  <2>3. Len(told') = 0 /\ told' \in Seq(ToldEvent)
    BY <2>1
  <2>4. 1 .. Len(told') = {}
    BY <2>3
  <2>5. ToldOK'
    BY <2>2, <2>4 DEF ToldOK, Over
  <2>6. ChildOfCall'
    BY <2>1, <2>2, NoChildShape DEF ChildOfCall, Phases
  <2> QED BY <2>1, <2>2, <2>3, <2>5, <2>6, ChildGone DEF CallInv, CallShaped, Achieved
<1>4. CASE OtherUp
  <2>1. project' = Has(TRUE, TRUE, TRUE) /\ call' = [call EXCEPT !.calm = FALSE] /\ UNCHANGED <<child, told>>
    BY <1>4 DEF OtherUp
  <2>2. /\ DOMAIN call' = {"k", "req", "cmd", "aborted", "calm"} /\ call'.cmd = call.cmd
        /\ call'.req = call.req /\ call'.calm = FALSE
    BY <2>1 DEF CallInv, CallShaped
  <2> QED BY <2>1, <2>2, ProjectShape DEF CallInv, CallShaped, ChildShape, ChildOfCall, ToldOK, Achieved
<1> QED BY <1>1, <1>2, <1>3, <1>4

LEMMA CallKept == CallInv /\ [CommandsNext]_commandVars => CallInv'
<1> SUFFICES ASSUME CallInv, [CommandsNext]_commandVars PROVE CallInv'
  OBVIOUS
<1>1. ASSUME UNCHANGED <<call, child, told, project>> PROVE CallInv'
  BY <1>1 DEF CallInv, CallShaped, ChildShape, ChildOfCall, ToldOK, Achieved
<1>2. CASE \/ \E k \in DOMAIN helpers : HelperSteps(k)
           \/ DockerStops \/ DockerReturns \/ (\E j \in DOMAIN archives : ArchiveDeleted(j))
           \/ UNCHANGED commandVars
  BY <1>1, <1>2 DEF HelperSteps, DockerStops, DockerReturns, ArchiveDeleted, commandVars
<1>3. CASE \E req \in Requests_ : Ask_(req)
  BY <1>3, AskCall
<1>4. CASE \E s \in {"out", "err"} : Prints(s) \/ ReadLine(s)
  BY <1>4, PrintsCall, ReadLineCall
<1>5. CASE \/ NoCliOnPath \/ SpawnDocker \/ AbortedBefore \/ DaemonGone \/ Inspects \/ Composes
           \/ VolumeLooked \/ ImageLooked \/ Pulled \/ Ran \/ HelperRemoved \/ Renames \/ Discards \/ Composed
  BY <1>5, NoCliCall, SpawnCall, AbortedBeforeCall, DaemonGoneCall, InspectsCall, ComposesCall,
     VolumeLookedCall, ImageLookedCall, PulledCall, RanCall, HelperRemovedCall, RenamesCall, DiscardsCall,
     ComposedCall
<1> QED BY <1>2, <1>3, <1>4, <1>5, FaultsCall DEF CommandsNext

(* RemovalTold: a call ends with exactly one event that says so, its last, *)
(* and a removal that is reported as done removed the container, and the   *)
(* volume when that was asked, whatever command fails, is killed or loses  *)
(* the daemon, unless another terminal started the project meanwhile       *)
(* (compose-runner.ts, volume-archiver.ts).                                *)
THEOREM RemovalsAreTold == CommandsSpec => []RemovalTold
<1>1. CallInv => RemovalTold
  <2> SUFFICES ASSUME CallInv PROVE RemovalTold
    OBVIOUS
  <2>1. DOMAIN told = 1 .. Len(told) /\ Len(told) \in Nat
    BY LenProperties DEF CallInv, CallShaped
  <2>2. \A i \in DOMAIN told : i < Len(told) => told[i].kind = "line"
    <3>1. \A i \in DOMAIN told : i < Len(told) => i # Len(told) /\ i \in 1 .. Len(told)
      BY <2>1
    <3> QED BY <3>1 DEF CallInv, ToldOK
  <2>3. Ended_ => told # <<>> /\ ToldEnd.kind # "line"
    <3>1. Len(<<>>) = 0 /\ ~(0 >= 1)
      OBVIOUS
    <3> QED BY <3>1 DEF CallInv, ToldOK, Over, Ended_, ToldEnd
  <2>4. Ended_ /\ call.req.op = "remove" /\ ToldEnd = Done_ /\ call.calm
          => ~project.box /\ (call.req.volumes => ~project.data)
    BY EventsTold DEF CallInv, Achieved, Ended_, ToldEnd
  <2> QED BY <2>2, <2>3, <2>4 DEF RemovalTold
<1> QED BY <1>1, CommandsBegin, CallKept, PTL DEF CommandsSpec

-----------------------------------------------------------------------------
(* The volume and its helpers (DockerCommands)                             *)

Stream == 1 .. MaxStreams

VolumesShaped ==
  /\ DOMAIN helpers = Stream /\ DOMAIN parts = Stream /\ DOMAIN archives = 0 .. MaxStreams
  /\ \A k \in Stream : /\ DOMAIN helpers[k] = {"at", "op", "from", "old", "stuck", "src", "ok", "alone"}
                       /\ DOMAIN parts[k] = {"there", "files", "nested", "whole"}
  /\ DOMAIN vol = {"there", "root", "stage", "by"} /\ DOMAIN vol.stage = {"there", "files"}
  /\ vol.by \in 0 .. MaxStreams /\ call.k \in 0 .. MaxStreams

(* A helper's step is one of its script, and it has been begun before.     *)
ScriptOf(k) ==
  LET h == helpers[k]
  IN  /\ h.at \in {"none", "asked", "tar", "clear", "open", "extract", "wipe", "move", "finish", "exited", "gone"}
      /\ h.at = "none" => h.op = "none"
      /\ h.at = "asked" => h.op \in {"archive", "restore"}
      /\ h.at = "tar" => h.op = "archive"
      /\ Active_(k) /\ h.at # "tar" => h.op = "restore"
      /\ h.ok => h.at \in {"exited", "gone"}
      /\ parts[k].there => h.op = "archive" /\ h.at \notin {"none", "asked"}
Scripted == \A k \in Stream : ScriptOf(k)

(* A helper beside which nobody has begun is the last that has; while the  *)
(* last one that began has nobody beside it, only it is at work.           *)
LastToBegin ==
  /\ vol.by # 0 => helpers[vol.by].at \notin {"none", "asked"}
  /\ \A k \in Stream : Active_(k) /\ helpers[k].alone => k = vol.by
  /\ \A i, k \in Stream : k = vol.by /\ helpers[k].alone /\ Active_(i) => i = k

(* What an archiving helper has put into its archive, and what was made of *)
(* it.                                                                     *)
HoldsAll(archive, h) == archive.there => archive.whole /\ (h.alone => archive.files = h.old)
Archived ==
  \A k \in Stream :
    LET h == helpers[k]
    IN  /\ h.at = "tar" /\ h.alone => h.old = vol.root /\ parts[k].files \subseteq vol.root
        /\ h.ok => HoldsAll(parts[k], h)
        /\ HoldsAll(archives[k], h)
        /\ archives[k].there => h.at \in {"exited", "gone"}

(* What the volume holds at each step of the script that restores it.      *)
AtOf(h, root, stage) ==
  /\ h.at \in {"clear", "open", "extract"} => root = h.old
  /\ h.at = "open" => stage.files = {}
  /\ h.at = "extract" => stage.files \subseteq h.src.files
  /\ h.at = "wipe" => stage.files = h.src.files /\ root \subseteq h.old
  /\ h.at \in {"move", "finish"} =>
       /\ h.src.files \subseteq root \cup stage.files /\ stage.files \subseteq h.src.files
       /\ root \subseteq h.src.files \cup (h.old \cap h.stuck)
  /\ h.old \subseteq root \/ h.src.files \subseteq root \cup stage.files
  /\ h.ok => /\ h.src.files \subseteq root /\ ~stage.there
             /\ root \subseteq h.src.files \cup (h.old \cap h.stuck)
Restored ==
  \A k \in Stream : k = vol.by /\ helpers[k].alone /\ helpers[k].op = "restore"
                      => AtOf(helpers[k], vol.root, vol.stage)

VolumeInv == Scripted /\ LastToBegin /\ Archived /\ Restored

(* How far the helper of the call is when the call goes on.                *)
BeforeHelper ==
  \/ call.cmd \in {"volume inspect", "image inspect", "pull", "up", "down", "rm", "volume rm", "network rm"}
  \/ call.cmd = "run" /\ child.at = "none"
WaitsFor(k) ==
  LET h == helpers[k]
  IN  /\ BeforeHelper => h.at = "none"
      /\ call.cmd # "none" => h.op \in {"none", call.req.op}
      /\ call.cmd = "run" /\ child.at = "exited" =>
           h.at # "asked" /\ (child.ok => h.at = "gone" /\ h.ok)
      /\ call.cmd = "rename" => h.at = "gone" /\ h.ok
      /\ call.cmd = "rm -f" => h.at # "asked" /\ (child.at = "exited" => h.at \in {"none", "gone"})
      /\ call.cmd \in {"discard", "ended"} => h.at \in {"none", "gone"}
      /\ call.cmd = "ended" => ~parts[k].there
      /\ call.cmd = "ended" /\ call.req.op = "restore" /\ told[Len(told)] = Done_ => h.ok
CallWaits ==
  /\ call.cmd # "none" => call.k # 0
  /\ \A k \in Stream : k > call.k => helpers[k].at = "none"
  /\ ~world.daemon => \A k \in Stream : helpers[k].at \in {"none", "asked", "gone"}
  /\ \A k \in Stream : k = call.k => WaitsFor(k)

WorldShaped == DOMAIN world = {"daemon", "cli", "image", "faults"}

HelpersInv == VolumesShaped /\ VolumeInv /\ CallWaits

LEMMA VolumesBegin == InitCommands => HelpersInv
<1> SUFFICES ASSUME InitCommands PROVE HelpersInv
  OBVIOUS
<1>1. /\ call = NoCall /\ child = NoChild
      /\ helpers = [k \in Stream |-> NoHelper]
      /\ vol = [there |-> TRUE, root |-> {"old1", "old2"}, stage |-> NoStage, by |-> 0]
      /\ archives = [k \in 0 .. MaxStreams |->
                   IF k = 0 THEN [there |-> TRUE, files |-> {"new1", "new2"}, nested |-> FALSE, whole |-> TRUE]
                   ELSE NoArchive]
      /\ parts = [k \in Stream |-> NoArchive]
  BY DEF InitCommands, Stream
<1>6. world.daemon
  <2>1. world \in [daemon : {TRUE}, cli : BOOLEAN, image : BOOLEAN, faults : 0 .. MaxFaults]
    BY DEF InitCommands
  <2> QED BY <2>1
<1>0. 0 \in 0 .. MaxStreams /\ (\A k \in Stream : k \in 0 .. MaxStreams /\ k # 0)
  BY StreamsAssumption DEF Stream
<1>2. \A k \in Stream : helpers[k] = NoHelper /\ parts[k] = NoArchive /\ archives[k] = NoArchive
  BY <1>0, <1>1
<1>3. VolumesShaped
  BY <1>0, <1>1, <1>2 DEF VolumesShaped, NoHelper, NoArchive, NoStage, NoCall
<1>4. Scripted /\ LastToBegin /\ Archived /\ Restored
  BY <1>0, <1>1, <1>2 DEF Scripted, ScriptOf, LastToBegin, Archived, Restored, HoldsAll, Active_, NoHelper, NoArchive
<1>5. CallWaits
  BY <1>1, <1>2, <1>6 DEF CallWaits, WaitsFor, BeforeHelper, NoCall, NoHelper
<1> QED BY <1>3, <1>4, <1>5 DEF HelpersInv, VolumeInv

(* A step of a helper that is at work or begins is none that the call      *)
(* waits for.                                                              *)
LEMMA WaitsOn ==
  ASSUME CallWaits, NEW k \in Stream, helpers[k].at \notin {"none", "gone"}, world.daemon,
         UNCHANGED <<call, child, told, world>>,
         \A i \in Stream : i # k => /\ helpers'[i].at = helpers[i].at /\ helpers'[i].op = helpers[i].op
                                    /\ helpers'[i].ok = helpers[i].ok /\ parts'[i] = parts[i],
         helpers'[k].at \notin {"none", "asked"}, helpers'[k].op = helpers[k].op
  PROVE  CallWaits'
<1>1. /\ call' = call /\ child' = child /\ told' = told /\ world' = world
      /\ \A i \in Stream : i # k => /\ helpers'[i].at = helpers[i].at /\ helpers'[i].op = helpers[i].op
                                    /\ helpers'[i].ok = helpers[i].ok /\ parts'[i] = parts[i]
  OBVIOUS
<1>2. (BeforeHelper' <=> BeforeHelper) /\ world'.daemon
  BY <1>1 DEF BeforeHelper
<1>3. k = call.k => /\ ~BeforeHelper
                    /\ ~(call.cmd = "run" /\ child.at = "exited" /\ child.ok)
                    /\ ~(call.cmd = "rm -f" /\ child.at = "exited")
                    /\ call.cmd \notin {"rename", "discard", "ended"}
                    /\ call.cmd # "none" => helpers[k].op \in {"none", call.req.op}
  BY DEF CallWaits, WaitsFor
<1>4. /\ call'.cmd # "none" => call'.k # 0
      /\ \A i \in Stream : i > call'.k => helpers'[i].at = "none"
  BY <1>1 DEF CallWaits
<1>5. ASSUME NEW i \in Stream, i = call.k PROVE WaitsFor(i)'
  <2>1. CASE i = k
    BY <1>1, <1>2, <1>3, <1>5, <2>1 DEF WaitsFor
  <2>2. CASE i # k
    <3>1. WaitsFor(i)
      BY <1>5 DEF CallWaits
    <3> QED BY <1>1, <1>2, <2>2, <3>1 DEF WaitsFor
  <2> QED BY <2>1, <2>2
<1>6. ~world'.daemon => \A i \in Stream : helpers'[i].at \in {"none", "asked", "gone"}
  BY <1>2
<1> QED BY <1>1, <1>4, <1>5, <1>6 DEF CallWaits

(* A helper at work takes a step of its script.                            *)
LEMMA StepKeeps ==
  ASSUME VolumesShaped, VolumeInv, NEW k \in Stream, Active_(k),
         \A i \in Stream : i # k => helpers'[i] = helpers[i] /\ parts'[i] = parts[i],
         helpers'[k].op = helpers[k].op, helpers'[k].alone = helpers[k].alone,
         helpers'[k].at \in {"exited"} \cup (IF helpers[k].op = "archive" THEN {"tar"}
                                             ELSE {"open", "extract", "wipe", "move", "finish"}),
         helpers'[k].ok => helpers'[k].at = "exited",
         vol'.by = vol.by, UNCHANGED archives, parts'[k].there => parts[k].there,
         helpers'[k].at = "tar" /\ helpers[k].alone =>
           helpers'[k].old = vol'.root /\ parts'[k].files \subseteq vol'.root,
         helpers'[k].ok => HoldsAll(parts'[k], helpers'[k]),
         k = vol.by /\ helpers[k].alone /\ helpers[k].op = "restore" => AtOf(helpers'[k], vol'.root, vol'.stage)
  PROVE  VolumeInv'
<1>1. /\ helpers[k].at \notin {"none", "asked", "exited", "gone"}
      /\ helpers[k].op \in {"archive", "restore"}
  BY DEF Active_, VolumeInv, Scripted, ScriptOf
<1>2. Scripted'
  BY <1>1 DEF VolumeInv, Scripted, ScriptOf, Active_
<1>3. \A i \in Stream : Active_(i)' => Active_(i)
  BY <1>1 DEF Active_
<1>4. \A i \in Stream : i # k => ~(i = vol.by /\ helpers[i].alone) /\ ~(Active_(i) /\ helpers[i].alone)
  BY DEF VolumeInv, LastToBegin
<1>5. LastToBegin'
  <2>1. vol'.by # 0 => helpers'[vol'.by].at \notin {"none", "asked"}
    <3>1. vol.by \in Stream \/ vol.by = 0
      BY StreamsAssumption DEF VolumesShaped, Stream
    <3>2. CASE vol.by = k
      BY <3>2
    <3>3. CASE vol.by # k
      BY <3>1, <3>3 DEF VolumeInv, LastToBegin
    <3> QED BY <3>2, <3>3
  <2>2. \A i \in Stream : helpers'[i].alone = helpers[i].alone
    OBVIOUS
  <2> QED BY <1>1, <1>3, <2>1, <2>2 DEF VolumeInv, LastToBegin
<1>6. ~archives[k].there
  BY <1>1 DEF VolumeInv, Archived
<1>7. Archived'
  <2> SUFFICES ASSUME NEW i \in Stream
               PROVE  /\ helpers'[i].at = "tar" /\ helpers'[i].alone =>
                           helpers'[i].old = vol'.root /\ parts'[i].files \subseteq vol'.root
                      /\ helpers'[i].ok => HoldsAll(parts'[i], helpers'[i])
                      /\ HoldsAll(archives'[i], helpers'[i])
                      /\ archives'[i].there => helpers'[i].at \in {"exited", "gone"}
    BY DEF Archived, HoldsAll
  <2>1. CASE i = k
    BY <2>1, <1>6 DEF HoldsAll
  <2>2. CASE i # k
    BY <2>2, <1>4 DEF VolumeInv, Archived, Active_
  <2> QED BY <2>1, <2>2
<1>8. Restored'
  BY <1>4 DEF Restored, AtOf
<1> QED BY <1>2, <1>5, <1>7, <1>8 DEF VolumeInv

LEMMA RestoreStep ==
  ASSUME VolumesShaped, VolumeInv, NEW k \in Stream, helpers[k].at \in {"clear", "open", "extract", "wipe", "move", "finish"},
         \A i \in Stream : i # k => helpers'[i] = helpers[i],
         helpers'[k].op = helpers[k].op, helpers'[k].alone = helpers[k].alone,
         helpers'[k].at \in {"exited", "open", "extract", "wipe", "move", "finish"},
         helpers'[k].ok => helpers'[k].at = "exited",
         vol'.by = vol.by, UNCHANGED <<archives, parts>>,
         k = vol.by /\ helpers[k].alone => AtOf(helpers'[k], vol'.root, vol'.stage)
  PROVE  VolumeInv'
<1>1. helpers[k].op = "restore" /\ Active_(k) /\ ~parts[k].there /\ ~helpers[k].ok
  BY DEF VolumeInv, Scripted, ScriptOf, Active_
<1>2. helpers'[k].ok => HoldsAll(parts'[k], helpers'[k])
  BY <1>1 DEF HoldsAll
<1> QED BY <1>1, <1>2, StepKeeps

(* What Set_ and Exits_ change of a helper.                                *)
HelpersBut(k) ==
  /\ DOMAIN helpers' = Stream
  /\ \A i \in Stream : DOMAIN helpers'[i] = DOMAIN helpers[i]
  /\ \A i \in Stream : i # k => helpers'[i] = helpers[i]
  /\ helpers'[k].op = helpers[k].op /\ helpers'[k].alone = helpers[k].alone /\ helpers'[k].old = helpers[k].old

LEMMA SetStep ==
  ASSUME VolumesShaped, NEW k \in Stream, NEW at, Set_(k, at)
  PROVE  /\ HelpersBut(k)
         /\ helpers'[k].at = at /\ helpers'[k].ok = helpers[k].ok /\ helpers'[k].src = helpers[k].src
         /\ helpers'[k].stuck = helpers[k].stuck
BY DEF VolumesShaped, Set_, HelpersBut

LEMMA ExitsStep ==
  ASSUME VolumesShaped, NEW k \in Stream, NEW ok, Exits_(k, ok)
  PROVE  /\ HelpersBut(k)
         /\ helpers'[k].at = "exited" /\ helpers'[k].ok = ok /\ helpers'[k].src = helpers[k].src
         /\ helpers'[k].stuck = helpers[k].stuck
BY DEF VolumesShaped, Exits_, HelpersBut

(* One step of a script that restores.                                     *)
LEMMA RestoreKeeps ==
  ASSUME VolumesShaped, VolumeInv, NEW k \in Stream,
         helpers[k].at \in {"clear", "open", "extract", "wipe", "move", "finish"},
         HelpersBut(k), UNCHANGED <<archives, parts>>, UNCHANGED call.k,
         helpers'[k].at \in {"exited", "open", "extract", "wipe", "move", "finish"},
         helpers'[k].ok => helpers'[k].at = "exited",
         DOMAIN vol' = DOMAIN vol, DOMAIN vol'.stage = DOMAIN vol.stage, vol'.by = vol.by,
         k = vol.by /\ helpers[k].alone => AtOf(helpers'[k], vol'.root, vol'.stage)
  PROVE  VolumesShaped' /\ VolumeInv'
<1>1. VolumeInv'
  BY RestoreStep DEF HelpersBut
<1>2. VolumesShaped'
  BY DEF VolumesShaped, HelpersBut
<1> QED BY <1>1, <1>2

(* What holds of a helper that is at work by itself.                       *)
LEMMA ByItself ==
  ASSUME VolumeInv, NEW k \in Stream, helpers[k].at \in {"clear", "open", "extract", "wipe", "move", "finish"}
  PROVE  /\ k = vol.by /\ helpers[k].alone => AtOf(helpers[k], vol.root, vol.stage)
         /\ ~helpers[k].ok
BY DEF VolumeInv, Scripted, ScriptOf, Restored, Active_

(* The script ends before it has touched the old files.                    *)
GivesUp(k) == \E left \in {vol.stage, NoStage} : vol' = [vol EXCEPT !.stage = left] /\ Exits_(k, FALSE)

LEMMA GivesUpKeeps ==
  ASSUME VolumesShaped, VolumeInv, NEW k \in Stream, helpers[k].at \in {"clear", "open", "extract"},
         GivesUp(k), UNCHANGED call, UNCHANGED <<archives, parts>>
  PROVE  VolumesShaped' /\ VolumeInv'
<1>1. PICK left \in {vol.stage, NoStage} : vol' = [vol EXCEPT !.stage = left] /\ Exits_(k, FALSE)
  BY DEF GivesUp
<1>2. /\ DOMAIN vol' = DOMAIN vol /\ vol'.by = vol.by /\ vol'.root = vol.root
      /\ DOMAIN vol'.stage = DOMAIN vol.stage
  BY <1>1 DEF VolumesShaped, NoStage
<1>4. /\ HelpersBut(k) /\ helpers'[k].at = "exited" /\ helpers'[k].ok = FALSE
      /\ helpers'[k].src = helpers[k].src
  BY <1>1, ExitsStep
<1>3. k = vol.by /\ helpers[k].alone => AtOf(helpers'[k], vol'.root, vol'.stage)
  BY <1>2, <1>4, ByItself DEF AtOf, HelpersBut
<1> QED BY <1>2, <1>3, <1>4, RestoreKeeps

LEMMA ClearStageKeeps ==
  ASSUME VolumesShaped, VolumeInv, NEW k \in Stream, ClearStage(k), UNCHANGED call
  PROVE  VolumesShaped' /\ VolumeInv'
<1>1. helpers[k].at = "clear" /\ UNCHANGED <<archives, parts>>
  BY DEF ClearStage, AtStep
<1>2. CASE vol' = [vol EXCEPT !.stage = [NoStage EXCEPT !.there = TRUE]] /\ Set_(k, "open")
  <2>1. /\ DOMAIN vol' = DOMAIN vol /\ vol'.by = vol.by /\ vol'.root = vol.root
        /\ DOMAIN vol'.stage = DOMAIN vol.stage /\ vol'.stage.files = {}
    BY <1>2 DEF VolumesShaped, NoStage
  <2>2. HelpersBut(k) /\ helpers'[k].at = "open" /\ helpers'[k].ok = helpers[k].ok /\ helpers'[k].src = helpers[k].src
    BY <1>2, SetStep
  <2>3. k = vol.by /\ helpers[k].alone => AtOf(helpers'[k], vol'.root, vol'.stage)
    BY ZenonT(30), <1>1, <2>1, <2>2, ByItself DEF AtOf, HelpersBut
  <2> QED BY <1>1, <2>1, <2>2, <2>3, ByItself, RestoreKeeps
<1>3. CASE \E left \in {vol.stage, NoStage} : vol' = [vol EXCEPT !.stage = left] /\ Exits_(k, FALSE)
  <2>1. PICK left \in {vol.stage, NoStage} : vol' = [vol EXCEPT !.stage = left] /\ Exits_(k, FALSE)
    BY <1>3
  <2>2. GivesUp(k)
    BY <2>1 DEF GivesUp
  <2> QED BY <1>1, <2>2, GivesUpKeeps
<1> QED BY <1>2, <1>3 DEF ClearStage

LEMMA ExtractFailsKeeps ==
  ASSUME VolumesShaped, VolumeInv, NEW k \in Stream, ExtractFails(k), UNCHANGED call
  PROVE  VolumesShaped' /\ VolumeInv'
<1>1. helpers[k].at \in {"open", "extract"} /\ GivesUp(k) /\ UNCHANGED <<archives, parts>>
  BY DEF ExtractFails, AtStep, GivesUp
<1> QED BY <1>1, GivesUpKeeps

LEMMA OpensArchiveKeeps ==
  ASSUME VolumesShaped, VolumeInv, NEW k \in Stream, OpensArchive(k), UNCHANGED call
  PROVE  VolumesShaped' /\ VolumeInv'
<1>1. /\ helpers' = [helpers EXCEPT ![k].at = "extract", ![k].src = archives[helpers[k].from]]
      /\ helpers[k].at = "open" /\ UNCHANGED <<vol, archives, parts>>
  BY DEF OpensArchive, AtStep
<1>2. HelpersBut(k) /\ helpers'[k].at = "extract" /\ helpers'[k].ok = helpers[k].ok
  BY <1>1 DEF VolumesShaped, HelpersBut
<1>3. k = vol.by /\ helpers[k].alone => AtOf(helpers'[k], vol'.root, vol'.stage)
  BY <1>1, <1>2, ByItself DEF AtOf, HelpersBut
<1> QED BY <1>1, <1>2, <1>3, ByItself, RestoreKeeps

LEMMA ExtractsKeeps ==
  ASSUME VolumesShaped, VolumeInv, NEW k \in Stream, Extracts(k), UNCHANGED call
  PROVE  VolumesShaped' /\ VolumeInv'
<1>1. helpers[k].at = "extract" /\ UNCHANGED <<archives, parts>>
  BY DEF Extracts, AtStep
<1>2. CASE \E f \in helpers[k].src.files \ vol.stage.files :
             vol' = [vol EXCEPT !.stage.files = @ \cup {f}] /\ UNCHANGED helpers
  <2>1. PICK f \in helpers[k].src.files \ vol.stage.files :
          vol' = [vol EXCEPT !.stage.files = @ \cup {f}] /\ UNCHANGED helpers
    BY <1>2
  <2>2. /\ DOMAIN vol' = DOMAIN vol /\ vol'.by = vol.by /\ vol'.root = vol.root
        /\ DOMAIN vol'.stage = DOMAIN vol.stage /\ vol'.stage.files = vol.stage.files \cup {f}
    BY <2>1 DEF VolumesShaped
  <2>3. HelpersBut(k)
    BY <2>1 DEF HelpersBut, VolumesShaped
  <2>4. k = vol.by /\ helpers[k].alone => AtOf(helpers'[k], vol'.root, vol'.stage)
    BY <1>1, <2>1, <2>2, ByItself DEF AtOf
  <2> QED BY <1>1, <2>1, <2>2, <2>3, <2>4, ByItself, RestoreKeeps
<1>3. CASE helpers[k].src.files \ vol.stage.files = {} /\ Set_(k, "wipe") /\ UNCHANGED vol
  <2>1. HelpersBut(k) /\ helpers'[k].at = "wipe" /\ helpers'[k].ok = helpers[k].ok /\ helpers'[k].src = helpers[k].src
    BY <1>3, SetStep
  <2>2. k = vol.by /\ helpers[k].alone => vol.root = helpers[k].old /\ vol.stage.files \subseteq helpers[k].src.files
    BY <1>1, ByItself DEF AtOf
  <2>3. k = vol.by /\ helpers[k].alone => vol.stage.files = helpers[k].src.files
    BY <1>3, <2>2
  <2>4. k = vol.by /\ helpers[k].alone => AtOf(helpers'[k], vol'.root, vol'.stage)
    BY <1>1, <1>3, <2>1, <2>2, <2>3, ByItself DEF AtOf, HelpersBut
  <2> QED BY <1>1, <1>3, <2>1, <2>4, ByItself, RestoreKeeps
<1> QED BY <1>2, <1>3 DEF Extracts

LEMMA WipesKeeps ==
  ASSUME VolumesShaped, VolumeInv, NEW k \in Stream, Wipes(k), UNCHANGED call
  PROVE  VolumesShaped' /\ VolumeInv'
<1>1. helpers[k].at = "wipe" /\ UNCHANGED <<archives, parts>>
  BY DEF Wipes, AtStep
<1>2. CASE \E f \in vol.root : vol' = [vol EXCEPT !.root = @ \ {f}] /\ UNCHANGED helpers
  <2>1. PICK f \in vol.root : vol' = [vol EXCEPT !.root = @ \ {f}] /\ UNCHANGED helpers
    BY <1>2
  <2>2. /\ DOMAIN vol' = DOMAIN vol /\ vol'.by = vol.by /\ vol'.stage = vol.stage
        /\ vol'.root = vol.root \ {f}
    BY <2>1 DEF VolumesShaped
  <2>3. HelpersBut(k)
    BY <2>1 DEF HelpersBut, VolumesShaped
  <2>4. k = vol.by /\ helpers[k].alone => AtOf(helpers'[k], vol'.root, vol'.stage)
    BY <1>1, <2>1, <2>2, ByItself DEF AtOf
  <2> QED BY <1>1, <2>1, <2>2, <2>3, <2>4, ByItself, RestoreKeeps
<1>5. CASE \E f \in vol.root : helpers' = [helpers EXCEPT ![k].stuck = @ \cup {f}] /\ UNCHANGED vol
  <2>1. PICK f \in vol.root : helpers' = [helpers EXCEPT ![k].stuck = @ \cup {f}] /\ UNCHANGED vol
    BY <1>5
  <2>2. HelpersBut(k) /\ helpers'[k].at = "wipe" /\ helpers'[k].ok = helpers[k].ok /\ helpers'[k].src = helpers[k].src
    BY <1>1, <2>1 DEF HelpersBut, VolumesShaped
  <2>3. k = vol.by /\ helpers[k].alone => AtOf(helpers'[k], vol'.root, vol'.stage)
    BY <1>1, <2>1, <2>2, ByItself DEF AtOf, HelpersBut
  <2> QED BY <1>1, <2>1, <2>2, <2>3, ByItself, RestoreKeeps
<1>3. CASE vol.root \subseteq helpers[k].stuck /\ Set_(k, "move") /\ UNCHANGED vol
  <2>1. HelpersBut(k) /\ helpers'[k].at = "move" /\ helpers'[k].ok = helpers[k].ok
        /\ helpers'[k].src = helpers[k].src /\ helpers'[k].stuck = helpers[k].stuck
    BY <1>3, SetStep
  <2>2. k = vol.by /\ helpers[k].alone =>
          vol.stage.files = helpers[k].src.files /\ vol.root \subseteq helpers[k].old /\ ~helpers[k].ok
    BY <1>1, ByItself DEF AtOf
  <2>3. k = vol.by /\ helpers[k].alone => AtOf(helpers'[k], vol'.root, vol'.stage)
    BY <1>3, <2>1, <2>2 DEF AtOf, HelpersBut
  <2> QED BY <1>1, <1>3, <2>1, <2>3, ByItself, RestoreKeeps
<1>4. CASE Exits_(k, FALSE) /\ UNCHANGED vol
  <2>1. HelpersBut(k) /\ helpers'[k].at = "exited" /\ ~helpers'[k].ok /\ helpers'[k].src = helpers[k].src
    BY <1>4, ExitsStep
  <2>2. k = vol.by /\ helpers[k].alone => vol.stage.files = helpers[k].src.files
    BY <1>1, ByItself DEF AtOf
  <2>3. k = vol.by /\ helpers[k].alone => AtOf(helpers'[k], vol'.root, vol'.stage)
    BY <1>4, <2>1, <2>2 DEF AtOf
  <2> QED BY <1>1, <1>4, <2>1, <2>3, RestoreKeeps
<1> QED BY <1>2, <1>3, <1>4, <1>5 DEF Wipes

LEMMA MovesKeeps ==
  ASSUME VolumesShaped, VolumeInv, NEW k \in Stream, Moves(k), UNCHANGED call
  PROVE  VolumesShaped' /\ VolumeInv'
<1>1. helpers[k].at = "move" /\ UNCHANGED <<archives, parts>>
  BY DEF Moves, AtStep
<1>2. CASE \E f \in vol.stage.files :
             vol' = [vol EXCEPT !.root = @ \cup {f}, !.stage.files = @ \ {f}] /\ UNCHANGED helpers
  <2>1. PICK f \in vol.stage.files :
          vol' = [vol EXCEPT !.root = @ \cup {f}, !.stage.files = @ \ {f}] /\ UNCHANGED helpers
    BY <1>2
  <2>2. /\ DOMAIN vol' = DOMAIN vol /\ vol'.by = vol.by /\ vol'.root = vol.root \cup {f}
        /\ DOMAIN vol'.stage = DOMAIN vol.stage /\ vol'.stage.files = vol.stage.files \ {f}
    BY <2>1 DEF VolumesShaped
  <2>3. HelpersBut(k)
    BY <2>1 DEF HelpersBut, VolumesShaped
  <2>5. vol'.root \cup vol'.stage.files = vol.root \cup vol.stage.files
    BY <2>2
  <2>6. k = vol.by /\ helpers[k].alone =>
          /\ helpers[k].src.files \subseteq vol.root \cup vol.stage.files /\ vol.stage.files \subseteq helpers[k].src.files
          /\ vol.root \subseteq helpers[k].src.files \cup (helpers[k].old \cap helpers[k].stuck) /\ ~helpers[k].ok
    BY <1>1, ByItself DEF AtOf
  <2>7. k = vol.by /\ helpers[k].alone =>
          vol'.root \subseteq helpers[k].src.files \cup (helpers[k].old \cap helpers[k].stuck)
    BY <2>2, <2>6
  <2>4. k = vol.by /\ helpers[k].alone => AtOf(helpers'[k], vol'.root, vol'.stage)
    BY <1>1, <2>1, <2>2, <2>5, <2>6, <2>7 DEF AtOf
  <2> QED BY <1>1, <2>1, <2>2, <2>3, <2>4, ByItself, RestoreKeeps
<1>3. CASE vol.stage.there /\ Set_(k, "finish") /\ UNCHANGED vol
  <2>1. k = vol.by /\ helpers[k].alone => AtOf(helpers'[k], vol'.root, vol'.stage)
    BY <1>1, <1>3, SetStep, ByItself DEF AtOf, HelpersBut
  <2> QED BY <1>1, <1>3, <2>1, SetStep, ByItself, RestoreKeeps
<1>4. CASE Exits_(k, FALSE) /\ UNCHANGED vol
  <2>1. k = vol.by /\ helpers[k].alone => AtOf(helpers'[k], vol'.root, vol'.stage)
    BY <1>1, <1>4, ExitsStep, ByItself DEF AtOf, HelpersBut
  <2> QED BY <1>1, <1>4, <2>1, ExitsStep, RestoreKeeps
<1> QED BY <1>2, <1>3, <1>4 DEF Moves

LEMMA FinishesKeeps ==
  ASSUME VolumesShaped, VolumeInv, NEW k \in Stream, Finishes(k), UNCHANGED call
  PROVE  VolumesShaped' /\ VolumeInv'
<1>1. helpers[k].at = "finish" /\ UNCHANGED <<archives, parts>>
  BY DEF Finishes, AtStep
<1>2. CASE vol.stage.files = {} /\ vol' = [vol EXCEPT !.stage = NoStage] /\ Exits_(k, TRUE)
  <2>1. /\ DOMAIN vol' = DOMAIN vol /\ vol'.by = vol.by /\ vol'.root = vol.root /\ vol'.stage = NoStage
        /\ DOMAIN vol'.stage = DOMAIN vol.stage /\ ~vol'.stage.there
    BY <1>2 DEF VolumesShaped, NoStage
  <2>2. HelpersBut(k) /\ helpers'[k].at = "exited" /\ helpers'[k].src = helpers[k].src
        /\ helpers'[k].stuck = helpers[k].stuck
    BY <1>2, ExitsStep
  <2>4. k = vol.by /\ helpers[k].alone =>
          /\ helpers[k].src.files \subseteq vol.root \cup vol.stage.files
          /\ vol.root \subseteq helpers[k].src.files \cup (helpers[k].old \cap helpers[k].stuck)
    BY <1>1, ByItself DEF AtOf
  <2>5. k = vol.by /\ helpers[k].alone => helpers[k].src.files \subseteq vol.root
    BY <1>2, <2>4
  <2>6. helpers'[k].old = helpers[k].old
    BY <2>2 DEF HelpersBut
  <2>3. k = vol.by /\ helpers[k].alone => AtOf(helpers'[k], vol'.root, vol'.stage)
    BY <2>1, <2>2, <2>4, <2>5, <2>6 DEF AtOf
  <2> QED BY <1>1, <1>2, <2>1, <2>2, <2>3, RestoreKeeps
<1>3. CASE Exits_(k, FALSE) /\ UNCHANGED vol
  <2>1. k = vol.by /\ helpers[k].alone => AtOf(helpers'[k], vol'.root, vol'.stage)
    BY <1>1, <1>3, ExitsStep, ByItself DEF AtOf, HelpersBut
  <2> QED BY <1>1, <1>3, <2>1, ExitsStep, RestoreKeeps
<1> QED BY <1>2, <1>3 DEF Finishes

LEMMA TarsKeeps ==
  ASSUME VolumesShaped, VolumeInv, NEW k \in Stream, Tars(k), UNCHANGED call
  PROVE  /\ VolumesShaped' /\ VolumeInv'
         /\ \A i \in Stream : i # k => parts'[i] = parts[i]
         /\ HelpersBut(k) /\ helpers'[k].at \in {"tar", "exited"}
<1>1. helpers[k].at = "tar" /\ vol' = vol /\ archives' = archives
  BY DEF Tars, AtStep
<1>2. helpers[k].op = "archive" /\ Active_(k) /\ ~helpers[k].ok
      /\ (helpers[k].alone => helpers[k].old = vol.root /\ parts[k].files \subseteq vol.root)
  BY <1>1 DEF VolumeInv, Scripted, ScriptOf, Archived, Active_
<1>3. ASSUME HelpersBut(k), DOMAIN parts' = Stream, DOMAIN parts'[k] = DOMAIN parts[k],
             \A i \in Stream : i # k => parts'[i] = parts[i]
      PROVE  VolumesShaped'
  BY <1>1, <1>3 DEF VolumesShaped, HelpersBut
<1>4. CASE \E f \in vol.root \ parts[k].files :
             parts' = [parts EXCEPT ![k].files = @ \cup {f}] /\ UNCHANGED helpers
  <2>1. PICK f \in vol.root \ parts[k].files :
          parts' = [parts EXCEPT ![k].files = @ \cup {f}] /\ UNCHANGED helpers
    BY <1>4
  <2>2. /\ DOMAIN parts' = Stream /\ DOMAIN parts'[k] = DOMAIN parts[k]
        /\ \A i \in Stream : i # k => parts'[i] = parts[i]
        /\ parts'[k].files = parts[k].files \cup {f} /\ parts'[k].there = parts[k].there
    BY <2>1 DEF VolumesShaped
  <2>3. HelpersBut(k)
    BY <2>1 DEF HelpersBut, VolumesShaped
  <2>4. VolumeInv'
    BY <1>1, <1>2, <2>1, <2>2, StepKeeps
  <2> QED BY <1>1, <1>3, <2>1, <2>2, <2>3, <2>4
<1>5. CASE /\ vol.root \subseteq parts[k].files
           /\ parts' = [parts EXCEPT ![k].whole = TRUE, ![k].nested = vol.stage.there]
           /\ Exits_(k, TRUE)
  <2>1. HelpersBut(k) /\ helpers'[k].at = "exited"
    BY <1>5, ExitsStep
  <2>2. /\ DOMAIN parts' = Stream /\ DOMAIN parts'[k] = DOMAIN parts[k]
        /\ \A i \in Stream : i # k => parts'[i] = parts[i]
        /\ parts'[k].files = parts[k].files /\ parts'[k].there = parts[k].there /\ parts'[k].whole
    BY <1>5 DEF VolumesShaped
  <2>3. helpers[k].alone => parts'[k].files = helpers[k].old
    <3>1. ASSUME helpers[k].alone PROVE parts[k].files = vol.root
      <4>1. parts[k].files \subseteq vol.root /\ vol.root \subseteq parts[k].files
        BY <1>2, <1>5, <3>1
      <4> QED BY <4>1
    <3> QED BY <1>2, <2>2, <3>1
  <2>4. HoldsAll(parts'[k], helpers'[k])
    BY <2>1, <2>2, <2>3 DEF HoldsAll, HelpersBut
  <2>5. VolumeInv'
    BY <1>1, <1>2, <2>1, <2>2, <2>4, StepKeeps DEF HelpersBut
  <2> QED BY <1>3, <2>1, <2>2, <2>5
<1>6. CASE Exits_(k, FALSE) /\ UNCHANGED parts
  <2>1. HelpersBut(k) /\ helpers'[k].at = "exited" /\ helpers'[k].ok = FALSE
    BY <1>6, ExitsStep
  <2>2. VolumeInv'
    BY <1>1, <1>2, <1>6, <2>1, StepKeeps DEF HelpersBut
  <2> QED BY <1>3, <1>6, <2>1, <2>2 DEF VolumesShaped
<1> QED BY <1>4, <1>5, <1>6 DEF Tars

LEMMA BeginsKeeps ==
  ASSUME VolumesShaped, VolumeInv, NEW k \in Stream, HelperBegins(k), UNCHANGED call
  PROVE  /\ VolumesShaped' /\ VolumeInv'
         /\ \A i \in Stream : i # k => parts'[i] = parts[i]
         /\ \A i \in Stream : i # k => /\ helpers'[i].at = helpers[i].at /\ helpers'[i].op = helpers[i].op
                                       /\ helpers'[i].ok = helpers[i].ok
         /\ helpers'[k].at \in {"tar", "clear"} /\ helpers'[k].op = helpers[k].op
<1> DEFINE others == {i \in Stream : Active_(i)}
<1>1. /\ helpers[k].at = "asked" /\ helpers[k].op \in {"archive", "restore"} /\ ~helpers[k].ok
      /\ ~parts[k].there /\ ~archives[k].there
  BY DEF HelperBegins, VolumeInv, Scripted, ScriptOf, Archived
<1>2. helpers' = [i \in Stream |->
           IF i = k THEN [helpers[k] EXCEPT !.at = IF helpers[k].op = "archive" THEN "tar" ELSE "clear",
                            !.old = vol.root, !.alone = others = {}]
           ELSE IF i \in others THEN [helpers[i] EXCEPT !.alone = FALSE] ELSE helpers[i]]
  BY DEF HelperBegins, VolumesShaped
<1>3. /\ vol' = [vol EXCEPT !.there = TRUE, !.by = k] /\ archives' = archives
      /\ parts' = IF helpers[k].op = "archive" THEN [parts EXCEPT ![k] = [NoArchive EXCEPT !.there = TRUE]] ELSE parts
  BY DEF HelperBegins
<1>4. /\ DOMAIN vol' = DOMAIN vol /\ vol'.by = k /\ vol'.root = vol.root /\ vol'.stage = vol.stage
  BY <1>3 DEF VolumesShaped
<1>5. /\ DOMAIN parts' = Stream /\ DOMAIN parts'[k] = DOMAIN parts[k]
      /\ \A i \in Stream : i # k => parts'[i] = parts[i]
      /\ helpers[k].op = "archive" => parts'[k].files = {}
      /\ parts'[k].there => helpers[k].op = "archive"
  BY <1>1, <1>3 DEF VolumesShaped, NoArchive
<1>6. /\ helpers'[k].at = IF helpers[k].op = "archive" THEN "tar" ELSE "clear"
      /\ helpers'[k].op = helpers[k].op /\ helpers'[k].ok = helpers[k].ok /\ helpers'[k].old = vol.root
      /\ DOMAIN helpers'[k] = DOMAIN helpers[k]
      /\ helpers'[k].alone <=> others = {}
  BY <1>2 DEF VolumesShaped
<1>7. ASSUME NEW i \in Stream, i # k
      PROVE  /\ helpers'[i].at = helpers[i].at /\ helpers'[i].op = helpers[i].op
             /\ helpers'[i].ok = helpers[i].ok /\ helpers'[i].old = helpers[i].old
             /\ DOMAIN helpers'[i] = DOMAIN helpers[i]
             /\ helpers'[i].alone => helpers[i].alone /\ ~Active_(i)
  <2>1. CASE i \in others
    <3>1. helpers'[i] = [helpers[i] EXCEPT !.alone = FALSE]
      BY <1>2, <1>7, <2>1
    <3> QED BY <3>1 DEF VolumesShaped
  <2>2. CASE i \notin others
    BY <1>2, <1>7, <2>2
  <2> QED BY <2>1, <2>2
<1>8. VolumesShaped'
  <2>1. k \in 0 .. MaxStreams
    BY StreamsAssumption DEF Stream
  <2>2. DOMAIN helpers' = Stream
    BY <1>2
  <2> QED BY <1>3, <1>4, <1>5, <1>6, <1>7, <2>1, <2>2 DEF VolumesShaped
<1>9. Scripted'
  BY <1>1, <1>5, <1>6, <1>7 DEF VolumeInv, Scripted, ScriptOf, Active_
<1>10. LastToBegin'
  <2>1. \A i \in Stream : i # k /\ Active_(i)' => i \in others /\ ~helpers'[i].alone
    BY <1>7 DEF Active_
  <2> QED BY <1>1, <1>4, <1>6, <2>1 DEF LastToBegin
<1>11. Archived'
  <2>1. ASSUME NEW i \in Stream
        PROVE  /\ helpers'[i].at = "tar" /\ helpers'[i].alone =>
                    helpers'[i].old = vol'.root /\ parts'[i].files \subseteq vol'.root
               /\ helpers'[i].ok => HoldsAll(parts'[i], helpers'[i])
               /\ HoldsAll(archives'[i], helpers'[i])
               /\ archives'[i].there => helpers'[i].at \in {"exited", "gone"}
    <3>1. CASE i = k
      BY <1>1, <1>3, <1>4, <1>5, <1>6, <3>1 DEF HoldsAll
    <3>2. CASE i # k
      BY <1>3, <1>4, <1>5, <1>7, <3>2 DEF VolumeInv, Archived, HoldsAll, Active_
    <3> QED BY <3>1, <3>2
  <2> QED BY <2>1 DEF Archived, HoldsAll
<1>12. Restored'
  BY <1>1, <1>4, <1>6 DEF Restored, AtOf
<1> QED BY <1>1, <1>5, <1>6, <1>7, <1>8, <1>9, <1>10, <1>11, <1>12 DEF VolumeInv

LEMMA HelperKeeps ==
  ASSUME HelpersInv, NEW k \in Stream, HelperSteps(k)
  PROVE  HelpersInv'
<1>1. UNCHANGED <<call, child, told, world>>
  BY DEF HelperSteps
<1>2. CASE HelperBegins(k)
  <2>1. helpers[k].at = "asked" /\ world.daemon
    BY <1>2 DEF HelperBegins
  <2> QED BY <1>1, <1>2, <2>1, BeginsKeeps, WaitsOn DEF HelpersInv
<1>3. CASE Tars(k)
  <2>1. helpers[k].at = "tar" /\ world.daemon
    BY <1>3 DEF Tars, AtStep
  <2>2. /\ VolumesShaped' /\ VolumeInv'
        /\ \A i \in Stream : i # k => parts'[i] = parts[i]
        /\ HelpersBut(k) /\ helpers'[k].at \in {"tar", "exited"}
    BY <1>1, <1>3, TarsKeeps DEF HelpersInv
  <2> QED BY <1>1, <2>1, <2>2, WaitsOn DEF HelpersInv, HelpersBut
<1>4. CASE \/ ClearStage(k) \/ OpensArchive(k) \/ ExtractFails(k)
           \/ Extracts(k) \/ Wipes(k) \/ Moves(k) \/ Finishes(k)
  <2>1. VolumesShaped' /\ VolumeInv'
    BY <1>1, <1>4, ClearStageKeeps, OpensArchiveKeeps, ExtractFailsKeeps, ExtractsKeeps, WipesKeeps, MovesKeeps,
       FinishesKeeps DEF HelpersInv
  <2>2. helpers[k].at \in {"clear", "open", "extract", "wipe", "move", "finish"} /\ world.daemon /\ parts' = parts
    BY <1>4 DEF ClearStage, OpensArchive, ExtractFails, Extracts, Wipes, Moves, Finishes, AtStep
  <2>3. HelpersBut(k) /\ helpers'[k].at \in {"clear", "open", "extract", "wipe", "move", "finish", "exited"}
    <3>1. CASE OpensArchive(k)
      BY <3>1 DEF OpensArchive, HelpersBut, HelpersInv, VolumesShaped
    <3>2. CASE UNCHANGED helpers
      BY <2>2, <3>2 DEF HelpersBut, HelpersInv, VolumesShaped
    <3>3. CASE \/ Set_(k, "open") \/ Set_(k, "wipe") \/ Set_(k, "move") \/ Set_(k, "finish")
               \/ Exits_(k, TRUE) \/ Exits_(k, FALSE)
      BY <3>3, SetStep, ExitsStep DEF HelpersInv
    <3>4. CASE \E f : helpers' = [helpers EXCEPT ![k].stuck = @ \cup {f}]
      BY <2>2, <3>4 DEF HelpersBut, HelpersInv, VolumesShaped
    <3> QED BY <1>4, <3>1, <3>2, <3>3, <3>4 DEF ClearStage, ExtractFails, Extracts, Wipes, Moves, Finishes
  <2> QED BY <1>1, <2>1, <2>2, <2>3, WaitsOn DEF HelpersInv, HelpersBut
<1> QED BY <1>2, <1>3, <1>4 DEF HelperSteps

(* Helpers that are stopped or removed are gone, wherever they were.       *)
Stopped ==
  /\ DOMAIN helpers' = Stream
  /\ \A i \in Stream : helpers'[i] = helpers[i] \/ helpers'[i] = [helpers[i] EXCEPT !.at = "gone"]

LEMMA StoppedFields ==
  ASSUME VolumesShaped, Stopped, NEW i \in Stream
  PROVE  /\ helpers'[i].at \in {helpers[i].at, "gone"} /\ helpers'[i].op = helpers[i].op
         /\ helpers'[i].ok = helpers[i].ok /\ helpers'[i].old = helpers[i].old /\ helpers'[i].src = helpers[i].src
         /\ helpers'[i].stuck = helpers[i].stuck
         /\ helpers'[i].alone = helpers[i].alone /\ DOMAIN helpers'[i] = DOMAIN helpers[i]
BY DEF Stopped, VolumesShaped

LEMMA StoppedKeeps ==
  ASSUME VolumesShaped, VolumeInv, Stopped, UNCHANGED <<vol, archives, parts>>, call'.k = call.k
  PROVE  VolumesShaped' /\ VolumeInv'
<1>1. VolumesShaped'
  BY StoppedFields DEF VolumesShaped, Stopped
<1>2. Scripted'
  BY StoppedFields DEF VolumeInv, Scripted, ScriptOf, Active_
<1>3. LastToBegin'
  <2>1. \A i \in Stream : Active_(i)' => Active_(i)
    BY StoppedFields DEF Active_
  <2>2. vol.by \in Stream \/ vol.by = 0
    BY StreamsAssumption DEF VolumesShaped, Stream
  <2>3. vol.by # 0 => helpers'[vol.by].at \notin {"none", "asked"}
    BY <2>2, StoppedFields DEF VolumeInv, LastToBegin
  <2> QED BY <2>1, <2>3, StoppedFields DEF VolumeInv, LastToBegin
<1>4. Archived'
  BY StoppedFields DEF VolumeInv, Archived, HoldsAll
<1>5. Restored'
  <2> SUFFICES ASSUME NEW k \in Stream, k = vol.by, helpers[k].alone, helpers[k].op = "restore"
               PROVE  AtOf(helpers'[k], vol.root, vol.stage)
    BY StoppedFields DEF Restored
  <2>1. AtOf(helpers[k], vol.root, vol.stage)
    BY DEF VolumeInv, Restored
  <2> QED BY <2>1, StoppedFields DEF AtOf
<1> QED BY <1>1, <1>2, <1>3, <1>4, <1>5 DEF VolumeInv

(* Stopping only the helper of the call, or every one.                     *)
GoneOrSame(k) == helpers' = [helpers EXCEPT ![k].at = "gone"] \/ helpers' = helpers

LEMMA StopsOne ==
  ASSUME VolumesShaped, GoneOrSame(call.k)
  PROVE  Stopped /\ \A i \in Stream : i # call.k => helpers'[i] = helpers[i]
BY DEF Stopped, VolumesShaped, GoneOrSame

(* What the call waits for, when its helpers may have been stopped.        *)
LEMMA StoppedWaits ==
  ASSUME VolumesShaped, CallWaits, Stopped, UNCHANGED parts, world'.daemon = world.daemon,
         \A i \in Stream : i # call.k => helpers'[i] = helpers[i],
         call'.k = call.k, call.cmd = "none" => call'.cmd = "none",
         \A i \in Stream : i = call.k => WaitsFor(i)'
  PROVE  CallWaits'
<1>1. call'.cmd # "none" => call'.k # 0
  BY DEF CallWaits
<1>2. \A i \in Stream : i > call'.k => helpers'[i].at = "none"
  <2>1. \A i \in Stream : i > call.k => i # call.k
    BY DEF VolumesShaped, Stream
  <2> QED BY <2>1 DEF CallWaits
<1>3. ~world.daemon => \A i \in Stream : helpers'[i].at \in {"none", "asked", "gone"}
  BY StoppedFields DEF CallWaits
<1> QED BY <1>1, <1>2, <1>3 DEF CallWaits

LEMMA SameVolume ==
  ASSUME VolumesShaped, VolumeInv, UNCHANGED <<helpers, vol, archives, parts>>, call'.k \in 0 .. MaxStreams
  PROVE  VolumesShaped' /\ VolumeInv'
BY DEF VolumesShaped, VolumeInv, Scripted, ScriptOf, LastToBegin, Archived, Restored, Active_

(* A call that goes on without a helper, or ends.                          *)
LEMMA GoesWithout ==
  ASSUME HelpersInv, CallInv, UNCHANGED <<helpers, vol, archives, parts, world>>, call'.k = call.k, call.cmd # "none",
         \A i \in Stream : i = call.k => helpers[i].at = "none",
         child'.at = "none", call'.cmd \notin {"rename"}, call'.req = call.req,
         call'.cmd = "ended" /\ call'.req.op = "restore" => told'[Len(told')] # Done_
  PROVE  HelpersInv'
<1>1. VolumesShaped' /\ VolumeInv'
  BY SameVolume DEF HelpersInv, VolumesShaped
<1>2. ASSUME NEW i \in Stream, i = call.k PROVE WaitsFor(i)'
  BY <1>2 DEF HelpersInv, VolumeInv, Scripted, ScriptOf, CallWaits, WaitsFor
<1>3. CallWaits'
  BY <1>2 DEF HelpersInv, CallWaits
<1> QED BY <1>1, <1>3 DEF HelpersInv

LEMMA AskKeeps == ASSUME HelpersInv, NEW req \in Requests_, Ask_(req) PROVE HelpersInv'
<1>1. /\ call' = [NoCall EXCEPT !.k = call.k + 1, !.req = req,
                    !.cmd = IF Refusal(req) = "none" THEN Opens(req) ELSE "ended"]
      /\ told' = IF Refusal(req) = "none" THEN <<>> ELSE <<Error_(Refusal(req))>>
      /\ child' = NoChild /\ call.k < MaxStreams /\ UNCHANGED <<helpers, vol, archives, parts, world>>
  BY DEF Ask_
<1>2. call'.k = call.k + 1 /\ call'.req = req /\ call'.cmd = IF Refusal(req) = "none" THEN Opens(req) ELSE "ended"
  BY <1>1 DEF NoCall
<1>3. call'.k \in 0 .. MaxStreams /\ call'.k # 0 /\ call.k \in Nat
  BY <1>1, <1>2, StreamsAssumption DEF HelpersInv, VolumesShaped
<1>4. VolumesShaped' /\ VolumeInv'
  BY <1>1, <1>3, SameVolume DEF HelpersInv
<1>5. \A i \in Stream : i > call'.k => helpers'[i].at = "none"
  BY <1>1, <1>2, <1>3 DEF HelpersInv, CallWaits, Stream
<1>6. ASSUME NEW i \in Stream, i = call'.k PROVE WaitsFor(i)'
  <2>1. helpers'[i].at = "none" /\ helpers'[i].op = "none" /\ ~parts'[i].there
    BY <1>1, <1>2, <1>3, <1>6 DEF HelpersInv, CallWaits, VolumeInv, Scripted, ScriptOf, Stream
  <2>2. call'.cmd = "ended" => told'[Len(told')] = Error_(Refusal(req))
    <3>1. call'.cmd = "ended" => Refusal(req) # "none"
      BY <1>2, RequestsAreOps DEF Over
    <3> QED BY <1>1, <3>1
  <2>3. \A c : Error_(c) # Done_
    BY DEF Error_, Done_
  <2>4. call'.cmd \notin {"rename"}
    BY <1>2, RequestsAreOps DEF Opens
  <2> QED BY <1>1, <2>1, <2>2, <2>3, <2>4 DEF WaitsFor, NoChild
<1> QED BY <1>1, <1>3, <1>4, <1>5, <1>6 DEF HelpersInv, CallWaits

LEMMA ErrorIsLast ==
  ASSUME CallInv, NEW c \in Code, told' = Append(told, Error_(c))
  PROVE  told'[Len(told')] # Done_
<1>1. Error_(c) \in ToldEvent /\ Error_(c) # Done_
  BY EventsTold DEF Error_, Done_
<1>2. told'[Len(told')] = Error_(c)
  BY <1>1, ToldAppended DEF CallInv, CallShaped
<1> QED BY <1>1, <1>2

(* The helper is yet to be started, or never will be.                      *)
LEMMA GoesOn ==
  ASSUME HelpersInv, CallInv, UNCHANGED <<helpers, vol, archives, parts, world>>, BeforeHelper,
         child'.at = "none", NEW cmd, call' = [call EXCEPT !.cmd = cmd], cmd # "rename",
         cmd = "ended" /\ call.req.op = "restore" => told'[Len(told')] # Done_
  PROVE  HelpersInv'
<1>1. call.cmd # "none" /\ \A i \in Stream : i = call.k => helpers[i].at = "none"
  BY DEF HelpersInv, CallWaits, WaitsFor, BeforeHelper
<1>2. call'.k = call.k /\ call'.cmd = cmd /\ call'.req = call.req
  BY DEF CallInv, CallShaped
<1> QED BY <1>1, <1>2, GoesWithout

LEMMA NoCliKeeps == ASSUME HelpersInv, CallInv, NoCliOnPath PROVE HelpersInv'
<1>1. /\ UNCHANGED <<helpers, vol, archives, parts, world>> /\ child'.at = "none"
      /\ call.cmd \notin {"none", "ended", "run", "rm -f", "rename", "discard"}
      /\ told' = Append(told, Error_("COMPOSE_MISSING")) /\ call' = [call EXCEPT !.cmd = "ended"]
  BY DEF NoCliOnPath, Busy, EndsWith
<1>2. BeforeHelper
  BY <1>1 DEF CallInv, ChildOfCall, Phases, BeforeHelper
<1>3. "COMPOSE_MISSING" \in Code
  BY DEF Code
<1> QED BY <1>1, <1>2, <1>3, ErrorIsLast, GoesOn

LEMMA AbortedBeforeKeeps == ASSUME HelpersInv, CallInv, AbortedBefore PROVE HelpersInv'
<1>1. /\ UNCHANGED <<helpers, vol, archives, parts, world>> /\ child'.at = "none" /\ BeforeHelper
      /\ call' = [call EXCEPT !.cmd = IF call.cmd = "run" THEN "rm -f" ELSE "discard"]
  BY DEF AbortedBefore, BeforeHelper
<1> QED BY <1>1, GoesOn

LEMMA VolumeLookedKeeps == ASSUME HelpersInv, CallInv, VolumeLooked PROVE HelpersInv'
<1>1. /\ UNCHANGED <<helpers, vol, archives, parts, world>> /\ child'.at = "none" /\ BeforeHelper
  BY DEF VolumeLooked, Read_, Rest, BeforeHelper, NoChild
<1>2. CASE Goes("image inspect")
  BY <1>1, <1>2, GoesOn DEF Goes
<1>3. CASE \E c \in Code : EndsWith(Error_(c))
  BY <1>1, <1>3, ErrorIsLast, GoesOn DEF EndsWith
<1>4. Goes("image inspect") \/ \E c \in Code : EndsWith(Error_(c))
  BY DEF VolumeLooked, Code
<1> QED BY <1>2, <1>3, <1>4

LEMMA ImageLookedKeeps == ASSUME HelpersInv, CallInv, ImageLooked PROVE HelpersInv'
<1>1. /\ UNCHANGED <<helpers, vol, archives, parts, world>> /\ child'.at = "none" /\ BeforeHelper
      /\ call' = [call EXCEPT !.cmd = IF child.ok THEN "run" ELSE "pull"]
  BY DEF ImageLooked, Read_, Rest, BeforeHelper, NoChild, Goes
<1> QED BY <1>1, GoesOn

LEMMA PulledKeeps == ASSUME HelpersInv, CallInv, Pulled PROVE HelpersInv'
<1>1. /\ UNCHANGED <<helpers, vol, archives, parts, world>> /\ child'.at = "none" /\ BeforeHelper
      /\ \E cmd \in {"run", "discard"} : call' = [call EXCEPT !.cmd = cmd]
  BY DEF Pulled, ReadAll, Read_, Rest, BeforeHelper, NoChild, Goes
<1> QED BY <1>1, GoesOn

LEMMA ComposedKeeps == ASSUME HelpersInv, CallInv, Composed PROVE HelpersInv'
<1>1. /\ UNCHANGED <<helpers, vol, archives, parts, world>> /\ child'.at = "none"
  BY DEF Composed, Rest, NoChild
<1>2. PICK cmd \in {"up", "down", "rm", "volume rm", "network rm"} :
        /\ call.cmd = cmd
        /\ LET next == AfterPhase(child.ok, cmd)
           IN  CASE next = "done" -> EndsWith(Done_)
                 [] next = "failed" -> EndsWith(Error_(ComposeFailure(child.kept)))
                 [] OTHER -> Goes(next)
  BY DEF Composed, ReadAll, Read_
<1>3. BeforeHelper /\ call.req.op # "restore"
  BY <1>2 DEF BeforeHelper, CallInv, ChildOfCall, Phases
<1>4. \E c \in {"ended", "volume rm", "network rm"} : call' = [call EXCEPT !.cmd = c]
  BY <1>2 DEF AfterPhase, EndsWith, Goes
<1> QED BY <1>1, <1>3, <1>4, GoesOn

LEMMA SpawnKeeps == ASSUME HelpersInv, CallInv, SpawnDocker PROVE HelpersInv'
<1>1. /\ Busy /\ child.at = "none" /\ call.cmd \notin {"rename", "discard"}
      /\ child' = [NoChild EXCEPT !.cmd = call.cmd, !.at = "running"]
      /\ helpers' = IF call.cmd = "run"
                    THEN [helpers EXCEPT ![call.k] = [NoHelper EXCEPT !.at = "asked", !.op = call.req.op, !.from = call.req.from]]
                    ELSE helpers
      /\ UNCHANGED <<call, told, vol, archives, parts, world>>
  BY DEF SpawnDocker
<1>2. child'.at = "running"
  BY <1>1 DEF NoChild
<1>3. CASE call.cmd # "run"
  <2>1. VolumesShaped' /\ VolumeInv'
    BY <1>1, <1>3, SameVolume DEF HelpersInv, VolumesShaped
  <2>2. BeforeHelper' => BeforeHelper
    BY <1>1, <1>3 DEF BeforeHelper
  <2>3. CallWaits'
    BY <1>1, <1>2, <1>3, <2>2 DEF HelpersInv, CallWaits, WaitsFor
  <2> QED BY <2>1, <2>3 DEF HelpersInv
<1>4. CASE call.cmd = "run"
  <2>1. call.req.op \in {"archive", "restore"}
    BY <1>4 DEF CallInv, ChildOfCall, Phases
  <2>2. call.k \in Stream /\ helpers[call.k].at = "none" /\ ~parts[call.k].there /\ ~archives[call.k].there
    BY <1>1, <1>4, StreamsAssumption DEF HelpersInv, VolumesShaped, VolumeInv, Scripted, ScriptOf, Archived, CallWaits, WaitsFor,
       BeforeHelper, Stream
  <2> DEFINE asked == [NoHelper EXCEPT !.at = "asked", !.op = call.req.op, !.from = call.req.from]
  <2>3. /\ asked.at = "asked" /\ asked.op = call.req.op /\ ~asked.ok
        /\ DOMAIN asked = {"at", "op", "from", "old", "stuck", "src", "ok", "alone"}
    BY DEF NoHelper
  <2>4. /\ DOMAIN helpers' = Stream /\ helpers'[call.k] = asked
        /\ \A i \in Stream : i # call.k => helpers'[i] = helpers[i]
    BY <1>1, <1>4, <2>2 DEF HelpersInv, VolumesShaped
  <2> HIDE DEF asked
  <2>5. VolumesShaped'
    BY <1>1, <2>3, <2>4 DEF HelpersInv, VolumesShaped
  <2>6. Scripted'
    <3>1. \A i \in Stream : Active_(i)' => i # call.k
      BY <2>3, <2>4 DEF Active_
    <3>2. \A i \in Stream : i # call.k => (Active_(i)' <=> Active_(i))
      BY <2>4 DEF Active_
    <3> SUFFICES ASSUME NEW i \in Stream PROVE ScriptOf(i)'
      BY DEF Scripted
    <3>3. CASE i = call.k
      BY <1>1, <2>1, <2>2, <2>3, <2>4, <3>1, <3>3 DEF ScriptOf
    <3>4. CASE i # call.k
      BY <1>1, <2>4, <3>2, <3>4 DEF HelpersInv, VolumeInv, Scripted, ScriptOf
    <3> QED BY <3>3, <3>4
  <2>7. vol.by # call.k /\ vol'.by = vol.by /\ vol.by \in Stream \cup {0}
    BY <1>1, <2>2, StreamsAssumption DEF HelpersInv, VolumesShaped, VolumeInv, LastToBegin, Stream
  <2>8. LastToBegin'
    BY <2>3, <2>4, <2>7 DEF HelpersInv, VolumeInv, LastToBegin, Active_
  <2>9. Archived'
    BY <1>1, <2>2, <2>3, <2>4 DEF HelpersInv, VolumeInv, Archived, HoldsAll
  <2>10. Restored'
    BY <1>1, <2>4, <2>7 DEF HelpersInv, VolumeInv, Restored
  <2>11. WaitsFor(call.k)'
    BY <1>1, <1>2, <1>4, <2>3, <2>4 DEF WaitsFor, BeforeHelper
  <2>12. CallWaits'
    <3>1. \A i \in Stream : helpers'[i].at \in {helpers[i].at, "asked"}
      BY <2>3, <2>4
    <3>2. \A i \in Stream : i > call.k => i # call.k
      BY DEF HelpersInv, VolumesShaped, Stream
    <3> QED BY <1>1, <2>4, <2>11, <3>1, <3>2 DEF HelpersInv, CallWaits
  <2> QED BY <2>5, <2>6, <2>8, <2>9, <2>10, <2>12 DEF HelpersInv, VolumeInv
<1> QED BY <1>3, <1>4

LEMMA RanKeeps == ASSUME HelpersInv, CallInv, Ran PROVE HelpersInv'
<1>1. /\ UNCHANGED <<helpers, vol, archives, parts, world>> /\ child'.at = "none"
      /\ call.cmd = "run" /\ child.at = "exited"
  BY DEF Ran, ReadAll, Read_, Rest, NoChild
<1>2. call.req.op \in {"archive", "restore"} /\ DOMAIN call = {"k", "req", "cmd", "aborted", "calm"}
  BY <1>1 DEF CallInv, ChildOfCall, Phases, CallShaped
<1>3. PICK cmd \in {"rename", "ended", "rm -f"} :
        /\ call' = [call EXCEPT !.cmd = cmd]
        /\ cmd = "rename" => child.ok
        /\ cmd = "ended" => child.ok /\ call.req.op = "restore"
  BY <1>2 DEF Ran, Goes, EndsWith
<1>4. call'.k = call.k /\ call'.req = call.req /\ call'.cmd = cmd
  BY <1>2, <1>3
<1>5. VolumesShaped' /\ VolumeInv'
  BY <1>1, <1>4, SameVolume DEF HelpersInv, VolumesShaped
<1>6. ASSUME NEW i \in Stream, i = call.k PROVE WaitsFor(i)'
  <2>1. /\ WaitsFor(i) /\ (parts[i].there => helpers[i].op = "archive")
    BY <1>6 DEF HelpersInv, CallWaits, VolumeInv, Scripted, ScriptOf
  <2>2. /\ helpers[i].at # "asked" /\ helpers[i].op \in {"none", call.req.op}
        /\ child.ok => helpers[i].at = "gone" /\ helpers[i].ok
    BY <1>1, <2>1 DEF WaitsFor
  <2> QED BY <1>1, <1>3, <1>4, <2>1, <2>2 DEF WaitsFor, BeforeHelper
<1>7. CallWaits'
  BY <1>1, <1>4, <1>6 DEF HelpersInv, CallWaits
<1> QED BY <1>5, <1>7 DEF HelpersInv

LEMMA HelperRemovedKeeps == ASSUME HelpersInv, CallInv, HelperRemoved PROVE HelpersInv'
<1>1. /\ UNCHANGED <<helpers, vol, archives, parts, world>> /\ child'.at = "none"
      /\ call.cmd = "rm -f" /\ child.at = "exited" /\ call' = [call EXCEPT !.cmd = "discard"]
  BY DEF HelperRemoved, Read_, Rest, NoChild, Goes
<1>2. call'.k = call.k /\ call'.req = call.req /\ call'.cmd = "discard"
  BY <1>1 DEF CallInv, CallShaped
<1>3. VolumesShaped' /\ VolumeInv'
  BY <1>1, <1>2, SameVolume DEF HelpersInv, VolumesShaped
<1>4. ASSUME NEW i \in Stream, i = call.k PROVE WaitsFor(i)'
  BY <1>1, <1>2, <1>4 DEF HelpersInv, CallWaits, WaitsFor, BeforeHelper
<1>5. CallWaits'
  BY <1>1, <1>2, <1>4 DEF HelpersInv, CallWaits
<1> QED BY <1>3, <1>5 DEF HelpersInv

LEMMA RenamesKeeps == ASSUME HelpersInv, CallInv, Renames PROVE HelpersInv'
<1>1. UNCHANGED <<child, helpers, vol, project, world>> /\ call.cmd = "rename"
  BY DEF Renames
<1>2. call.k \in Stream /\ WaitsFor(call.k)
  BY <1>1, StreamsAssumption DEF HelpersInv, VolumesShaped, CallWaits, Stream
<1>3. helpers[call.k].at = "gone" /\ helpers[call.k].ok
  BY <1>1, <1>2 DEF WaitsFor
<1>4. CASE /\ archives' = [archives EXCEPT ![call.k] = parts[call.k]]
           /\ parts' = [parts EXCEPT ![call.k] = NoArchive]
           /\ call' = [call EXCEPT !.cmd = "ended"]
  <2>1. call'.k = call.k /\ call'.req = call.req /\ call'.cmd = "ended"
    BY <1>4 DEF CallInv, CallShaped
  <2>2. /\ DOMAIN archives' = DOMAIN archives /\ archives'[call.k] = parts[call.k]
        /\ DOMAIN parts' = Stream /\ parts'[call.k] = NoArchive
        /\ \A i \in Stream : i # call.k => archives'[i] = archives[i] /\ parts'[i] = parts[i]
        /\ ~parts'[call.k].there /\ DOMAIN parts'[call.k] = {"there", "files", "nested", "whole"}
    BY <1>2, <1>4, StreamsAssumption DEF HelpersInv, VolumesShaped, NoArchive, Stream
  <2>3. VolumesShaped'
    BY <1>1, <2>1, <2>2 DEF HelpersInv, VolumesShaped
  <2>4. Scripted' /\ LastToBegin' /\ Restored'
    BY <1>1, <2>2 DEF HelpersInv, VolumeInv, Scripted, ScriptOf, LastToBegin, Restored, Active_
  <2>5. HoldsAll(parts[call.k], helpers[call.k])
    BY <1>2, <1>3 DEF HelpersInv, VolumeInv, Archived
  <2>6. Archived'
    BY <1>1, <1>3, <2>2, <2>5 DEF HelpersInv, VolumeInv, Archived, HoldsAll
  <2>7. WaitsFor(call.k)'
    BY <1>1, <1>2, <1>3, <2>1, <2>2 DEF WaitsFor, BeforeHelper
  <2>8. CallWaits'
    BY <1>1, <2>1, <2>7 DEF HelpersInv, CallWaits
  <2> QED BY <2>3, <2>4, <2>6, <2>8 DEF HelpersInv, VolumeInv
<1>5. CASE call' = [call EXCEPT !.cmd = "discard"] /\ UNCHANGED <<archives, parts>>
  <2>1. call'.k = call.k /\ call'.req = call.req /\ call'.cmd = "discard"
    BY <1>5 DEF CallInv, CallShaped
  <2>2. VolumesShaped' /\ VolumeInv'
    BY <1>1, <1>5, <2>1, SameVolume DEF HelpersInv, VolumesShaped
  <2>3. WaitsFor(call.k)'
    BY <1>1, <1>2, <1>3, <2>1 DEF WaitsFor, BeforeHelper
  <2>4. CallWaits'
    BY <1>1, <2>1, <2>3 DEF HelpersInv, CallWaits
  <2> QED BY <2>2, <2>4 DEF HelpersInv
<1> QED BY <1>4, <1>5 DEF Renames, EndsWith

LEMMA DiscardsKeeps == ASSUME HelpersInv, CallInv, Discards PROVE HelpersInv'
<1>1. /\ UNCHANGED <<child, told, helpers, vol, archives, world>> /\ call.cmd = "discard"
      /\ call' = [call EXCEPT !.cmd = "ended"] /\ parts' = [parts EXCEPT ![call.k] = NoArchive]
  BY DEF Discards, Goes
<1>2. call.k \in Stream /\ WaitsFor(call.k)
  BY <1>1, StreamsAssumption DEF HelpersInv, VolumesShaped, CallWaits, Stream
<1>3. helpers[call.k].at \in {"none", "gone"} /\ told[Len(told)] # Done_
  BY <1>1, <1>2 DEF WaitsFor, CallInv, ToldOK, Done_
<1>4. call'.k = call.k /\ call'.req = call.req /\ call'.cmd = "ended"
  BY <1>1 DEF CallInv, CallShaped
<1>5. /\ DOMAIN parts' = Stream /\ parts'[call.k] = NoArchive
      /\ \A i \in Stream : i # call.k => parts'[i] = parts[i]
      /\ ~parts'[call.k].there /\ DOMAIN parts'[call.k] = {"there", "files", "nested", "whole"}
  BY <1>1, <1>2 DEF HelpersInv, VolumesShaped, NoArchive
<1>6. VolumesShaped'
  BY <1>1, <1>4, <1>5 DEF HelpersInv, VolumesShaped
<1>7. Scripted' /\ LastToBegin' /\ Restored'
  BY <1>1, <1>5 DEF HelpersInv, VolumeInv, Scripted, ScriptOf, LastToBegin, Restored, Active_
<1>8. Archived'
  BY <1>1, <1>3, <1>5 DEF HelpersInv, VolumeInv, Archived, HoldsAll
<1>9. WaitsFor(call.k)'
  BY <1>1, <1>2, <1>3, <1>4, <1>5 DEF WaitsFor, BeforeHelper
<1>10. CallWaits'
  BY <1>1, <1>4, <1>9 DEF HelpersInv, CallWaits
<1> QED BY <1>6, <1>7, <1>8, <1>10 DEF HelpersInv, VolumeInv

(* A child that is none of a helper's, or one that goes on.                *)
LEMMA ChildKeeps ==
  ASSUME HelpersInv, UNCHANGED <<helpers, vol, archives, parts>>, world'.daemon = world.daemon,
         call'.k = call.k, call'.cmd = call.cmd, call'.req = call.req,
         told' = told \/ call.cmd # "ended",
         (child'.at = child.at /\ child'.ok = child.ok) \/ call.cmd \notin {"run", "rm -f"}
  PROVE  HelpersInv'
<1>1. VolumesShaped' /\ VolumeInv'
  BY SameVolume DEF HelpersInv, VolumesShaped
<1>2. ASSUME NEW i \in Stream, i = call.k PROVE WaitsFor(i)'
  BY <1>2 DEF HelpersInv, CallWaits, WaitsFor, BeforeHelper
<1>3. CallWaits'
  BY <1>2 DEF HelpersInv, CallWaits
<1> QED BY <1>1, <1>3 DEF HelpersInv

LEMMA PipesKeep ==
  ASSUME HelpersInv, CallInv, NEW s \in {"out", "err"}, Prints(s) \/ ReadLine(s) PROVE HelpersInv'
<1>1. child'.at = child.at /\ child'.ok = child.ok
  BY DEF Prints, ReadLine, CallInv, CallShaped, ChildShape
<1>2. UNCHANGED <<call, helpers, vol, archives, parts, world>> /\ (told' = told \/ call.cmd # "ended")
  BY DEF Prints, ReadLine, Busy
<1> QED BY <1>1, <1>2, ChildKeeps

LEMMA ComposesKeeps == ASSUME HelpersInv, CallInv, Composes PROVE HelpersInv'
<1>1. UNCHANGED <<call, told, helpers, vol, archives, parts, world>> /\ child.at = "running"
      /\ child.cmd \notin {"run", "rm -f"}
  BY DEF Composes
<1>2. call.cmd \notin {"run", "rm -f"}
  BY <1>1 DEF CallInv, ChildOfCall
<1> QED BY <1>1, <1>2, ChildKeeps

(* The child exits, and the helper of the call may have come to its end.   *)
LEMMA ExitsKeep ==
  ASSUME HelpersInv, CallInv, UNCHANGED <<call, told, vol, archives, parts, world>>,
         NEW ok, NEW words, Exit(ok, words),
         GoneOrSame(call.k),
         call.cmd \in {"run", "rm -f"},
         \A i \in Stream : i = call.k => helpers'[i].at \in {"none", "gone"} /\ (ok => call.cmd = "rm -f" \/ helpers[i].ok),
         \A i \in Stream : i = call.k /\ call.cmd = "run" => helpers'[i].at = "gone"
  PROVE  HelpersInv'
<1>1. child'.at = "exited" /\ child'.ok = ok
  BY DEF Exit, CallInv, CallShaped, ChildShape
<1>6. GoneOrSame(call.k) /\ VolumesShaped
  BY DEF HelpersInv
<1>2. Stopped /\ \A i \in Stream : i # call.k => helpers'[i] = helpers[i]
  BY <1>6, StopsOne
<1>3. VolumesShaped' /\ VolumeInv'
  BY <1>2, StoppedKeeps DEF HelpersInv
<1>4. ASSUME NEW i \in Stream, i = call.k PROVE WaitsFor(i)'
  <2>1. WaitsFor(i)
    BY <1>4 DEF HelpersInv, CallWaits
  <2>2. helpers'[i].op = helpers[i].op /\ helpers'[i].ok = helpers[i].ok
    BY <1>2, StoppedFields DEF HelpersInv
  <2> QED BY <1>1, <1>4, <2>1, <2>2 DEF WaitsFor, BeforeHelper
<1>5. CallWaits'
  BY <1>2, <1>4, StoppedWaits DEF HelpersInv
<1> QED BY <1>3, <1>5 DEF HelpersInv

LEMMA DaemonGoneKeeps == ASSUME HelpersInv, CallInv, DaemonGone PROVE HelpersInv'
<1>1. /\ child.at = "running" /\ ~world.daemon /\ Exit(FALSE, <<"down">>)
      /\ helpers' = IF child.cmd = "run" THEN [helpers EXCEPT ![call.k].at = "gone"] ELSE helpers
      /\ UNCHANGED <<call, told, vol, archives, parts, world>>
  BY DEF DaemonGone
<1>2. child.cmd = call.cmd
  BY <1>1 DEF CallInv, ChildOfCall
<1>3. ASSUME NEW i \in Stream, i = call.k, call.cmd \in {"run", "rm -f"}
      PROVE  helpers'[i].at \in {"none", "gone"} /\ (call.cmd = "run" => helpers'[i].at = "gone")
  <2>1. CASE call.cmd = "run"
    BY <1>1, <1>2, <1>3, <2>1 DEF HelpersInv, VolumesShaped
  <2>2. CASE call.cmd = "rm -f"
    BY <1>1, <1>2, <1>3, <2>2 DEF HelpersInv, CallWaits, WaitsFor
  <2> QED BY <1>3, <2>1, <2>2
<1>4. CASE call.cmd \in {"run", "rm -f"}
  BY <1>1, <1>2, <1>3, <1>4, ExitsKeep DEF GoneOrSame
<1>5. CASE call.cmd \notin {"run", "rm -f"}
  BY <1>1, <1>2, <1>5, ChildKeeps
<1> QED BY <1>4, <1>5

LEMMA InspectsKeeps == ASSUME HelpersInv, CallInv, WorldShaped, Inspects PROVE HelpersInv'
<1>1. child.at = "running" /\ UNCHANGED <<call, told, vol, archives, parts>>
  BY DEF Inspects
<1>2. child.cmd = call.cmd
  BY <1>1 DEF CallInv, ChildOfCall
<1>3. CASE child.cmd \in {"volume inspect", "image inspect", "pull"}
  <2>1. UNCHANGED helpers
    BY <1>3 DEF Inspects
  <2>2. UNCHANGED world \/ world' = [world EXCEPT !.image = TRUE]
    BY <1>3 DEF Inspects
  <2>3. world'.daemon = world.daemon
    BY <2>2 DEF WorldShaped
  <2> QED BY <1>1, <1>2, <1>3, <2>1, <2>3, ChildKeeps
<1>4. CASE /\ child.cmd = "rm -f" /\ Exit(TRUE, <<>>) /\ helpers' = [helpers EXCEPT ![call.k].at = "gone"]
           /\ UNCHANGED world
  <2>1. \A i \in Stream : i = call.k => helpers'[i].at = "gone"
    BY <1>4 DEF HelpersInv, VolumesShaped
  <2> QED BY <1>1, <1>2, <1>4, <2>1, ExitsKeep DEF GoneOrSame
<1>5. CASE /\ child.cmd = "run" /\ Exit(helpers[call.k].ok, <<>>)
           /\ helpers' = [helpers EXCEPT ![call.k].at = "gone"] /\ UNCHANGED world
  <2>1. \A i \in Stream : i = call.k => helpers'[i].at = "gone"
    BY <1>5 DEF HelpersInv, VolumesShaped
  <2> QED BY <1>1, <1>2, <1>5, <2>1, ExitsKeep DEF GoneOrSame
<1> QED BY <1>3, <1>4, <1>5 DEF Inspects

(* Somebody kills the client; a helper that was not started never will be. *)
LEMMA KillsKeep ==
  ASSUME HelpersInv, CallInv, child.at = "running", child.cmd # "rm -f", ChildDies, Unasked,
         UNCHANGED <<told, vol, archives, parts>>, world'.daemon = world.daemon,
         call'.k = call.k, call'.cmd = call.cmd, call'.req = call.req
  PROVE  HelpersInv'
<1>1. child'.at = "exited" /\ child'.ok = FALSE
  BY ChildDiesShape DEF CallInv, CallShaped
<1>2. child.cmd = call.cmd
  BY DEF CallInv, ChildOfCall
<1>3. CASE call.cmd # "run"
  <2>1. UNCHANGED helpers
    BY <1>2, <1>3 DEF Unasked
  <2> QED BY <1>2, <1>3, <2>1, ChildKeeps
<1>4. CASE call.cmd = "run"
  <2>1. GoneOrSame(call.k)
    BY DEF Unasked, GoneOrSame
  <2>2. Stopped /\ \A i \in Stream : i # call.k => helpers'[i] = helpers[i]
    BY <2>1, StopsOne DEF HelpersInv
  <2>3. VolumesShaped' /\ VolumeInv'
    BY <2>2, StoppedKeeps DEF HelpersInv
  <2>4. ASSUME NEW i \in Stream, i = call.k PROVE WaitsFor(i)'
    <3>1. helpers'[i].at # "asked"
      BY <1>2, <1>4, <2>4 DEF Unasked, HelpersInv, VolumesShaped
    <3>2. helpers'[i].op \in {"none", call.req.op}
      BY <1>4, <2>2, <2>4, StoppedFields DEF HelpersInv, CallWaits, WaitsFor
    <3> QED BY <1>1, <1>4, <3>1, <3>2 DEF WaitsFor, BeforeHelper
  <2>5. CallWaits'
    BY <2>2, <2>4, StoppedWaits DEF HelpersInv
  <2> QED BY <2>3, <2>5 DEF HelpersInv
<1> QED BY <1>3, <1>4

LEMMA DockerStopsKeeps == ASSUME HelpersInv, DockerStops PROVE HelpersInv'
<1>1. /\ world' = [world EXCEPT !.daemon = FALSE, !.faults = @ - 1]
      /\ UNCHANGED <<call, child, told, vol, archives, parts>>
  BY DEF DockerStops
<1>2. helpers' = [k \in Stream |->
       IF helpers[k].at \in {"none", "gone"} THEN helpers[k] ELSE [helpers[k] EXCEPT !.at = "gone"]]
  BY DEF DockerStops, HelpersInv, VolumesShaped
<1>3. Stopped
  BY <1>2 DEF Stopped
<1>4. \A i \in Stream : /\ helpers[i].at = "none" => helpers'[i].at = "none"
                        /\ helpers'[i].at \in {"none", "gone"}
                        /\ helpers'[i].op = helpers[i].op /\ helpers'[i].ok = helpers[i].ok
  BY <1>2, <1>3, StoppedFields DEF HelpersInv, VolumesShaped
<1>5. VolumesShaped' /\ VolumeInv'
  BY <1>1, <1>3, StoppedKeeps DEF HelpersInv
<1>6. ASSUME NEW i \in Stream, i = call.k PROVE WaitsFor(i)'
  <2>1. WaitsFor(i)
    BY <1>6 DEF HelpersInv, CallWaits
  <2>2. helpers[i].at = "gone" => helpers'[i].at = "gone"
    BY <1>2
  <2> QED BY <1>1, <1>4, <1>6, <2>1, <2>2 DEF WaitsFor, BeforeHelper
<1>7. CallWaits'
  BY <1>1, <1>4, <1>6 DEF HelpersInv, CallWaits
<1> QED BY <1>5, <1>7 DEF HelpersInv

LEMMA FaultsKeep ==
  ASSUME HelpersInv, CallInv, WorldShaped,
         \/ Aborts \/ SomebodyKillsChild \/ ProgramDies \/ DockerReturns \/ OtherUp
         \/ \E j \in DOMAIN archives : ArchiveDeleted(j)
  PROVE  HelpersInv'
<1>0. Fault_ => world'.daemon = world.daemon
  BY DEF Fault_, WorldShaped
<1>1. CASE Aborts
  <2>1. /\ call' = [call EXCEPT !.aborted = TRUE] /\ Fault_ /\ UNCHANGED <<told, vol, archives, parts>>
        /\ \/ child.at = "running" /\ child.cmd # "rm -f" /\ ChildDies /\ Unasked
           \/ UNCHANGED <<child, helpers>>
    BY <1>1 DEF Aborts
  <2>2. call'.k = call.k /\ call'.cmd = call.cmd /\ call'.req = call.req
    BY <2>1 DEF CallInv, CallShaped
  <2> QED BY <1>0, <2>1, <2>2, KillsKeep, ChildKeeps
<1>2. CASE SomebodyKillsChild
  <2>1. /\ child.at = "running" /\ child.cmd # "rm -f" /\ ChildDies /\ Unasked /\ Fault_
        /\ UNCHANGED <<call, told, vol, archives, parts>>
    BY <1>2 DEF SomebodyKillsChild, Streamed
  <2> QED BY <1>0, <2>1, KillsKeep
<1>3. CASE ProgramDies
  <2>1. /\ call' = [NoCall EXCEPT !.k = call.k] /\ Fault_ /\ UNCHANGED <<helpers, vol, archives, parts>>
    BY <1>3 DEF ProgramDies
  <2>2. call'.k = call.k /\ call'.cmd = "none"
    BY <2>1 DEF NoCall
  <2>3. VolumesShaped' /\ VolumeInv'
    BY <2>1, <2>2, SameVolume DEF HelpersInv, VolumesShaped
  <2>4. CallWaits'
    BY <1>0, <2>1, <2>2 DEF HelpersInv, CallWaits, WaitsFor, BeforeHelper
  <2> QED BY <2>3, <2>4 DEF HelpersInv
<1>4. CASE DockerReturns
  <2>1. /\ world' = [world EXCEPT !.daemon = TRUE] /\ UNCHANGED <<call, child, told, helpers, vol, archives, parts>>
    BY <1>4 DEF DockerReturns
  <2>2. VolumesShaped' /\ VolumeInv'
    BY <2>1, SameVolume DEF HelpersInv, VolumesShaped
  <2>3. ~world'.daemon => ~world.daemon
    BY <2>1 DEF WorldShaped
  <2>4. CallWaits'
    BY <2>1, <2>3 DEF HelpersInv, CallWaits, WaitsFor, BeforeHelper
  <2> QED BY <2>2, <2>4 DEF HelpersInv
<1>5. CASE OtherUp
  <2>1. call' = [call EXCEPT !.calm = FALSE] /\ Fault_ /\ UNCHANGED <<child, told, helpers, vol, archives, parts>>
    BY <1>5 DEF OtherUp
  <2>2. call'.k = call.k /\ call'.cmd = call.cmd /\ call'.req = call.req
    BY <2>1 DEF CallInv, CallShaped
  <2> QED BY <1>0, <2>1, <2>2, ChildKeeps
<1>6. CASE \E j \in DOMAIN archives : ArchiveDeleted(j)
  <2>1. PICK j \in DOMAIN archives : archives' = [archives EXCEPT ![j] = NoArchive]
    BY <1>6 DEF ArchiveDeleted
  <2>2. UNCHANGED <<call, child, told, helpers, vol, parts>> /\ world'.daemon = world.daemon
    BY <1>0, <1>6 DEF ArchiveDeleted
  <2>3. /\ DOMAIN archives' = DOMAIN archives
        /\ \A i \in Stream : archives'[i].there => archives'[i] = archives[i] /\ archives[i].there
    BY <2>1, StreamsAssumption DEF HelpersInv, VolumesShaped, NoArchive, Stream
  <2>4. VolumesShaped'
    BY <2>2, <2>3 DEF HelpersInv, VolumesShaped
  <2>5. Scripted' /\ LastToBegin' /\ Restored'
    BY <2>2 DEF HelpersInv, VolumeInv, Scripted, ScriptOf, LastToBegin, Restored, Active_
  <2>6. Archived'
    BY <2>2, <2>3 DEF HelpersInv, VolumeInv, Archived, HoldsAll
  <2>7. CallWaits'
    BY <2>2 DEF HelpersInv, CallWaits, WaitsFor, BeforeHelper
  <2> QED BY <2>4, <2>5, <2>6, <2>7 DEF HelpersInv, VolumeInv
<1> QED BY <1>1, <1>2, <1>3, <1>4, <1>5, <1>6

LEMMA WorldKept == WorldShaped /\ [CommandsNext]_commandVars => WorldShaped'
<1> SUFFICES ASSUME WorldShaped, [CommandsNext]_commandVars PROVE WorldShaped'
  OBVIOUS
<1>2. CASE Fault_ \/ DockerStops \/ DockerReturns
  BY <1>2 DEF WorldShaped, Fault_, DockerStops, DockerReturns
<1>3. CASE Inspects
  BY <1>3 DEF WorldShaped, Inspects
<1>4. CASE UNCHANGED world
  BY <1>4 DEF WorldShaped
<1>5. CASE (\E k \in DOMAIN helpers : HelperSteps(k)) \/ (\E req \in Requests_ : Ask_(req)) \/ UNCHANGED commandVars
  BY <1>4, <1>5 DEF HelperSteps, Ask_, commandVars
<1>6. CASE \E s \in {"out", "err"} : Prints(s) \/ ReadLine(s)
  BY <1>4, <1>6 DEF Prints, ReadLine
<1>7. CASE NoCliOnPath \/ SpawnDocker \/ AbortedBefore \/ DaemonGone \/ Composes \/ Renames \/ Discards
  BY <1>4, <1>7 DEF NoCliOnPath, SpawnDocker, AbortedBefore, DaemonGone, Composes, Renames, Discards
<1>8. CASE VolumeLooked \/ ImageLooked \/ Pulled \/ Ran \/ HelperRemoved \/ Composed
  BY <1>4, <1>8 DEF VolumeLooked, ImageLooked, Pulled, Ran, HelperRemoved, Composed, Rest
<1>9. CASE Aborts \/ SomebodyKillsChild \/ ProgramDies \/ OtherUp \/ (\E j \in DOMAIN archives : ArchiveDeleted(j))
  BY <1>2, <1>9 DEF Aborts, SomebodyKillsChild, ProgramDies, OtherUp, ArchiveDeleted
<1> QED BY <1>2, <1>3, <1>5, <1>6, <1>7, <1>8, <1>9 DEF CommandsNext

LEMMA VolumesKept == HelpersInv /\ CallInv /\ WorldShaped /\ [CommandsNext]_commandVars => HelpersInv'
<1> SUFFICES ASSUME HelpersInv, CallInv, WorldShaped, [CommandsNext]_commandVars PROVE HelpersInv'
  OBVIOUS
<1>1. CASE UNCHANGED commandVars
  BY <1>1, ChildKeeps DEF commandVars
<1>2. CASE \E req \in Requests_ : Ask_(req)
  BY <1>2, AskKeeps
<1>3. CASE \E s \in {"out", "err"} : Prints(s) \/ ReadLine(s)
  BY <1>3, PipesKeep
<1>4. CASE \E k \in DOMAIN helpers : HelperSteps(k)
  BY <1>4, HelperKeeps DEF HelpersInv, VolumesShaped
<1>5. CASE NoCliOnPath \/ SpawnDocker \/ AbortedBefore \/ DaemonGone \/ Inspects \/ Composes
  BY <1>5, NoCliKeeps, SpawnKeeps, AbortedBeforeKeeps, DaemonGoneKeeps, InspectsKeeps, ComposesKeeps
<1>6. CASE VolumeLooked \/ ImageLooked \/ Pulled \/ Ran \/ HelperRemoved \/ Renames \/ Discards \/ Composed
  BY <1>6, VolumeLookedKeeps, ImageLookedKeeps, PulledKeeps, RanKeeps, HelperRemovedKeeps, RenamesKeeps,
     DiscardsKeeps, ComposedKeeps
<1>7. CASE \/ Aborts \/ SomebodyKillsChild \/ ProgramDies \/ DockerReturns \/ OtherUp
           \/ \E j \in DOMAIN archives : ArchiveDeleted(j)
  BY <1>7, FaultsKeep
<1> QED BY <1>1, <1>2, <1>3, <1>4, <1>5, <1>6, <1>7, DockerStopsKeeps DEF CommandsNext

(* VolumesSafe: an archive that can be restored holds the whole volume as  *)
(* it was; the last restore to begin, unless another helper works beside   *)
(* it, never leaves less than the files it found or the archived ones, and *)
(* one that is reported as done leaves the archived files in place and, of *)
(* the others, only those it found and rm could not delete; and a stream   *)
(* that is over leaves neither its helper nor its partial archive,         *)
(* whatever dies, is aborted, fails or stops (volume-archiver.ts).         *)
THEOREM VolumesStaySafe == CommandsSpec => []VolumesSafe
<1>1. ASSUME HelpersInv PROVE VolumesSafe
  <2>1. ArchivesWhole
    BY <1>1 DEF HelpersInv, VolumesShaped, VolumeInv, Archived, HoldsAll, ArchivesWhole
  <2>2. vol.by \in Stream \/ vol.by = 0
    BY <1>1, StreamsAssumption DEF HelpersInv, VolumesShaped, Stream
  <2>3. RestoresWhole
    <3> SUFFICES ASSUME vol.by # 0, helpers[vol.by].op = "restore", helpers[vol.by].alone
                 PROVE  LET h == helpers[vol.by]
                        IN  /\ h.old \subseteq vol.root \/ h.src.files \subseteq vol.root \cup vol.stage.files
                            /\ vol.by = call.k /\ Ended_ /\ ToldEnd = Done_
                                 => /\ h.src.files \subseteq vol.root /\ ~vol.stage.there
                                    /\ vol.root \subseteq h.src.files \cup (h.old \cap h.stuck)
      BY DEF RestoresWhole
    <3>1. AtOf(helpers[vol.by], vol.root, vol.stage)
      BY <1>1, <2>2 DEF HelpersInv, VolumeInv, Restored
    <3>2. vol.by = call.k /\ Ended_ /\ ToldEnd = Done_ => helpers[vol.by].ok
      BY <1>1, <2>2 DEF HelpersInv, VolumeInv, LastToBegin, CallWaits, WaitsFor, Ended_, ToldEnd
    <3> QED BY <3>1, <3>2 DEF AtOf
  <2>4. NothingOutlives
    <3>1. call.k > 0 => call.k \in Stream
      BY <1>1, StreamsAssumption DEF HelpersInv, VolumesShaped, Stream
    <3> QED BY <1>1, <3>1 DEF HelpersInv, CallWaits, WaitsFor, Ended_, NothingOutlives
  <2> QED BY <2>1, <2>3, <2>4 DEF VolumesSafe
<1>2. InitCommands => WorldShaped
  <2> SUFFICES ASSUME InitCommands PROVE WorldShaped
    OBVIOUS
  <2>1. world \in [daemon : {TRUE}, cli : BOOLEAN, image : BOOLEAN, faults : 0 .. MaxFaults]
    BY DEF InitCommands
  <2> QED BY <2>1 DEF WorldShaped
<1> QED BY <1>1, <1>2, CommandsBegin, CallKept, VolumesBegin, VolumesKept, WorldKept, PTL DEF CommandsSpec

-----------------------------------------------------------------------------
(* The logs channel: what a client was told, counted. *)

Items == [what : {"line", "skip", "end", "error"}, n : Nat]

(* c is the count of what a client was told in the first items. *)
CountsOf(c, items) ==
  /\ c \in [0 .. Len(items) -> Nat]
  /\ c[0] = 0
  /\ \A i \in 1 .. Len(items) : c[i] = c[i - 1] + Weight(items[i])

(* A set of numbers that holds a number holds a least one. *)
LEMMA LeastOf == ASSUME NEW S, S \subseteq Nat, S # {} PROVE \E i \in S : \A j \in S : i <= j
<1> DEFINE R == {ss \in Nat \X Nat : ss[1] < ss[2]}
<1>1. IsWellFoundedOn(R, Nat)
  BY NatLessThanWellFounded, Zenon DEF OpToRel
<1>2. \E i \in S : \A j \in S : ~(<<j, i>> \in R)
  <2> HIDE DEF R
  <2> QED
    BY <1>1, WFMin
<1>3. PICK i \in S : \A j \in S : ~(<<j, i>> \in R)
  BY <1>2
<1>4. \A j \in Nat : j < i => <<j, i>> \in R
  OBVIOUS
<1>5. \A j \in S : ~(j < i)
  <2> HIDE DEF R
  <2> QED
    BY <1>3, <1>4, Zenon
<1> QED
  BY <1>5

(* An item of a message counts for some lines. *)
LEMMA WeightIsNat == ASSUME NEW item \in Items PROVE Weight(item) \in Nat
BY DEF Weight, Items

(* Two counts of the same items agree. *)
LEMMA CountsAgree ==
    ASSUME NEW items \in Seq(Items), NEW c, CountsOf(c, items), NEW d, DOMAIN d = 0 .. Len(items),
           d[0] = 0, \A i \in 1 .. Len(items) : d[i] = d[i - 1] + Weight(items[i])
    PROVE  \A i \in 0 .. Len(items) : d[i] = c[i]
<1> DEFINE S == {i \in 0 .. Len(items) : d[i] # c[i]}
<1>1. SUFFICES ASSUME S # {} PROVE FALSE
  OBVIOUS
<1>2. S \subseteq Nat
  OBVIOUS
<1>3. PICK i \in S : \A j \in S : i <= j
  <2> HIDE DEF S
  <2> QED
    BY <1>1, <1>2, LeastOf
<1>4. i # 0 /\ i \in 1 .. Len(items) /\ i - 1 \in 0 .. Len(items) /\ i - 1 \notin S
  BY <1>3 DEF CountsOf
<1>5. d[i - 1] = c[i - 1]
  BY <1>4
<1> QED
  BY <1>3, <1>4, <1>5 DEF CountsOf

(* What a client was told can be counted. *)
LEMMA Countable == ASSUME NEW items \in Seq(Items) PROVE \E c : CountsOf(c, items)
<1> DEFINE Bad(n) == \E s \in Seq(Items) : Len(s) = n /\ ~\E c : CountsOf(c, s)
           S == {n \in Nat : Bad(n)}
<1>1. SUFFICES ASSUME S # {} PROVE FALSE
  <2>1. S = {} => \E c : CountsOf(c, items)
    BY LenProperties
  <2> QED
    BY <2>1
<1>2. PICK n \in S : \A j \in S : n <= j
  <2> HIDE DEF S
  <2>1. S \subseteq Nat
    BY DEF S
  <2> QED
    BY <1>1, <2>1, LeastOf
<1>3. PICK s \in Seq(Items) : Len(s) = n /\ ~\E c : CountsOf(c, s)
  OBVIOUS
<1>4. n # 0
  <2>1. SUFFICES ASSUME n = 0 PROVE FALSE
    OBVIOUS
  <2>2. CountsOf([i \in 0 .. 0 |-> 0], s)
    BY <1>3, <2>1 DEF CountsOf
  <2> QED
    BY <2>2, <1>3
<1> DEFINE t == SubSeq(s, 1, n - 1)
<1>5. t \in Seq(Items) /\ Len(t) = n - 1 /\ \A i \in 1 .. n - 1 : t[i] = s[i]
  BY <1>3, <1>4, SubSeqProperties
<1>6. PICK c : CountsOf(c, t)
  <2>1. n - 1 \notin S /\ n - 1 \in Nat
    BY <1>2, <1>4
  <2> HIDE DEF t
  <2> QED
    BY <2>1, <1>5
<1> DEFINE e == [i \in 0 .. n |-> IF i = n THEN c[n - 1] + Weight(s[n]) ELSE c[i]]
<1>7. Weight(s[n]) \in Nat /\ n \in 1 .. Len(s)
  <2>1. n \in 1 .. Len(s)
    BY <1>3, <1>4
  <2>2. s[n] \in Items
    BY <2>1, ElementOfSeq
  <2> QED
    BY <2>1, <2>2, WeightIsNat
<1>8. CountsOf(e, s)
  <2> HIDE DEF t
  <2>0. c \in [0 .. n - 1 -> Nat] /\ c[0] = 0 /\ \A i \in 1 .. n - 1 : c[i] = c[i - 1] + Weight(s[i])
    BY <1>5, <1>6 DEF CountsOf
  <2>1. e \in [0 .. Len(s) -> Nat] /\ e[0] = 0
    BY <1>3, <1>4, <1>7, <2>0
  <2>2. ASSUME NEW i \in 1 .. Len(s) PROVE e[i] = e[i - 1] + Weight(s[i])
    <3>1. i - 1 \in 0 .. n - 1 /\ e[i - 1] = c[i - 1]
      BY <1>3, <1>4
    <3>2. CASE i = n
      BY <3>1, <3>2
    <3>3. CASE i # n
      BY <3>1, <3>3, <2>0, <1>3
    <3> QED
      BY <3>2, <3>3
  <2> QED
    BY <2>1, <2>2 DEF CountsOf
<1> QED
  BY <1>8, <1>3

(* The count of a client is the count of what it was told. *)
LEMMA CountIs == ASSUME NEW items \in Seq(Items) PROVE CountsOf(CountUpTo(items), items)
<1> DEFINE f == CHOOSE count : count = [i \in 0 .. Len(items) |-> IF i = 0 THEN 0 ELSE count[i - 1] + Weight(items[i])]
<1>1. CountUpTo(items) = f
  BY DEF CountUpTo
<1>2. PICK c : CountsOf(c, items)
  BY Countable
<1>3. c = [i \in 0 .. Len(items) |-> IF i = 0 THEN 0 ELSE c[i - 1] + Weight(items[i])]
  <2>1. Len(items) \in Nat
    BY LenProperties
  <2> QED
    BY <1>2, <2>1 DEF CountsOf
<1>4. f = [i \in 0 .. Len(items) |-> IF i = 0 THEN 0 ELSE f[i - 1] + Weight(items[i])]
  BY <1>3
<1> HIDE DEF f
<1>5. DOMAIN f = 0 .. Len(items) /\ f[0] = 0 /\ \A i \in 1 .. Len(items) : f[i] = f[i - 1] + Weight(items[i])
  <2>1. Len(items) \in Nat
    BY LenProperties
  <2> DEFINE g == [i \in 0 .. Len(items) |-> IF i = 0 THEN 0 ELSE f[i - 1] + Weight(items[i])]
  <2>2. DOMAIN g = 0 .. Len(items) /\ g[0] = 0 /\ \A i \in 1 .. Len(items) : g[i] = f[i - 1] + Weight(items[i])
    BY <2>1
  <2> HIDE DEF g
  <2>3. f = g
    BY <1>4 DEF g
  <2> QED
    BY <2>2, <2>3
<1>6. \A i \in 0 .. Len(items) : f[i] = c[i]
  BY <1>2, <1>5, CountsAgree
<1>7. CountsOf(f, items)
  <2>1. Len(items) \in Nat
    BY LenProperties
  <2>2. f = [i \in 0 .. Len(items) |-> f[i]]
    BY <1>4
  <2>3. \A i \in 0 .. Len(items) : f[i] \in Nat
    BY <1>2, <1>6 DEF CountsOf
  <2>4. f \in [0 .. Len(items) -> Nat]
    BY <2>2, <2>3
  <2> QED
    BY <2>4, <1>5 DEF CountsOf
<1> QED
  BY <1>1, <1>7

(* Any count of what a client was told is its count. *)
LEMMA CountUnique ==
    ASSUME NEW items \in Seq(Items), NEW c, CountsOf(c, items)
    PROVE  \A i \in 0 .. Len(items) : CountUpTo(items)[i] = c[i]
<1>1. CountsOf(CountUpTo(items), items)
  BY CountIs
<1>2. DOMAIN c = 0 .. Len(items)
  BY DEF CountsOf
<1>3. \A i \in 0 .. Len(items) : c[i] = CountUpTo(items)[i]
  BY SMTT(30), <1>1, <1>2, CountsAgree DEF CountsOf
<1> QED
  BY <1>3

(* Counts are numbers, and start at none. *)
LEMMA CountIsNat ==
    ASSUME NEW items \in Seq(Items)
    PROVE  /\ Counted(items) \in Nat
           /\ CountUpTo(items)[0] = 0
           /\ \A i \in 0 .. Len(items) : CountUpTo(items)[i] \in Nat
<1>1. Len(items) \in Nat /\ CountsOf(CountUpTo(items), items)
  BY CountIs, LenProperties
<1> QED
  BY <1>1 DEF CountsOf, Counted

(* What is told later is counted on top of what was told before. *)
LEMMA CountJoined ==
    ASSUME NEW a \in Seq(Items), NEW b \in Seq(Items)
    PROVE  /\ a \o b \in Seq(Items) /\ Len(a \o b) = Len(a) + Len(b)
           /\ \A i \in 0 .. Len(a) : CountUpTo(a \o b)[i] = CountUpTo(a)[i]
           /\ \A j \in 0 .. Len(b) : CountUpTo(a \o b)[Len(a) + j] = Counted(a) + CountUpTo(b)[j]
           /\ Counted(a \o b) = Counted(a) + Counted(b)
<1> DEFINE ca == CountUpTo(a)
           cb == CountUpTo(b)
           d == [i \in 0 .. Len(a) + Len(b) |-> IF i <= Len(a) THEN ca[i] ELSE ca[Len(a)] + cb[i - Len(a)]]
<1>1. a \o b \in Seq(Items) /\ Len(a \o b) = Len(a) + Len(b) /\ Len(a) \in Nat /\ Len(b) \in Nat
  BY ConcatProperties, LenProperties
<1>2. CountsOf(ca, a) /\ CountsOf(cb, b)
  BY CountIs
<1> HIDE DEF ca, cb
<1>3. CountsOf(d, a \o b)
  <2>1. d \in [0 .. Len(a \o b) -> Nat] /\ d[0] = 0
    <3>1. ASSUME NEW i \in 0 .. Len(a) + Len(b) PROVE d[i] \in Nat
      <4>1. CASE i <= Len(a)
        <5>1. i \in 0 .. Len(a)
          BY <4>1, <1>1
        <5>2. ca[i] \in Nat
          BY <5>1, <1>2 DEF CountsOf
        <5>3. d[i] = ca[i]
          BY <4>1
        <5> QED
          BY <5>2, <5>3
      <4>2. CASE ~(i <= Len(a))
        <5>1. i - Len(a) \in 0 .. Len(b) /\ Len(a) \in 0 .. Len(a)
          BY <4>2, <1>1
        <5>2. ca[Len(a)] \in Nat /\ cb[i - Len(a)] \in Nat
          BY <5>1, <1>2 DEF CountsOf
        <5> QED
          BY <5>2, <4>2
      <4> QED
        BY <4>1, <4>2
    <3> QED
      BY <3>1, <1>1, <1>2 DEF CountsOf
  <2>2. ASSUME NEW i \in 1 .. Len(a \o b) PROVE d[i] = d[i - 1] + Weight((a \o b)[i])
    <3>1. CASE i <= Len(a)
      <4>1. (a \o b)[i] = a[i] /\ i \in 1 .. Len(a)
        BY <3>1, <1>1, ConcatProperties
      <4> QED
        BY <4>1, <3>1, <1>1, <1>2 DEF CountsOf
    <3>2. CASE ~(i <= Len(a))
      <4>1. (a \o b)[i] = b[i - Len(a)] /\ i - Len(a) \in 1 .. Len(b)
        BY <3>2, <1>1, ConcatProperties
      <4> DEFINE j == i - Len(a)
      <4>2. cb[j] = cb[j - 1] + Weight(b[j]) /\ cb[0] = 0 /\ cb[j - 1] \in Nat /\ cb[j] \in Nat /\ ca[Len(a)] \in Nat
        <5>1. j \in 1 .. Len(b) /\ j \in 0 .. Len(b) /\ j - 1 \in 0 .. Len(b) /\ Len(a) \in 0 .. Len(a)
          BY <4>1, <1>1
        <5> QED
          BY <5>1, <1>2 DEF CountsOf
      <4>3. d[i] = ca[Len(a)] + cb[j]
        BY <3>2, <1>1
      <4>4. d[i - 1] = ca[Len(a)] + cb[j - 1]
        <5>1. CASE i - 1 = Len(a)
          <6>1. j - 1 = 0
            BY <5>1, <1>1
          <6> QED
            BY <5>1, <4>2, <6>1, <1>1
        <5>2. CASE i - 1 # Len(a)
          <6>1. (i - 1) - Len(a) = j - 1 /\ ~(i - 1 <= Len(a)) /\ i - 1 \in 0 .. Len(a) + Len(b)
            BY <5>2, <3>2, <1>1
          <6> QED
            BY <6>1
        <5> QED
          BY <5>1, <5>2
      <4>5. Weight(b[j]) \in Nat
        <5>1. b[j] \in Items
          BY <4>1, ElementOfSeq
        <5> QED
          BY <5>1, WeightIsNat
      <4> HIDE DEF d, j
      <4>6. Weight((a \o b)[i]) = Weight(b[j])
        BY <4>1 DEF j
      <4> QED
        BY <4>2, <4>3, <4>4, <4>5, <4>6
    <3> QED
      BY <3>1, <3>2
  <2> HIDE DEF d
  <2> QED
    BY <2>1, <2>2 DEF CountsOf
<1>4. \A i \in 0 .. Len(a) + Len(b) : CountUpTo(a \o b)[i] = d[i]
  BY SMTT(30), <1>1, <1>3, CountUnique
<1>5. \A i \in 0 .. Len(a) : CountUpTo(a \o b)[i] = ca[i]
  BY <1>4, <1>1
<1>6. ASSUME NEW j \in 0 .. Len(b) PROVE CountUpTo(a \o b)[Len(a) + j] = ca[Len(a)] + cb[j]
  <2>1. CASE j = 0
    <3>1. cb[0] = 0 /\ ca[Len(a)] \in Nat
      BY <1>1, <1>2 DEF CountsOf
    <3> QED
      BY <2>1, <3>1, <1>4, <1>1
  <2>2. CASE j # 0
    BY <2>2, <1>4, <1>1
  <2> QED
    BY <2>1, <2>2
<1>7. Counted(a \o b) = ca[Len(a)] + cb[Len(b)]
  BY <1>6, <1>1 DEF Counted
<1> QED
  BY <1>1, <1>5, <1>6, <1>7 DEF Counted, ca, cb

-----------------------------------------------------------------------------
(* Lines that follow one another from a place of the container's log. *)
Consecutive(lines, from) == lines \in Seq(Nat) /\ \A i \in 1 .. Len(lines) : lines[i] = from + i

(* What one message tells, by itself. *)
LEMMA OneItem ==
    ASSUME NEW item \in Items
    PROVE  /\ <<item>> \in Seq(Items) /\ Len(<<item>>) = 1 /\ <<item>>[1] = item
           /\ CountUpTo(<<item>>)[0] = 0 /\ CountUpTo(<<item>>)[1] = Weight(item)
           /\ Counted(<<item>>) = Weight(item)
<1>1. <<item>> \in Seq(Items) /\ Len(<<item>>) = 1 /\ <<item>>[1] = item
  OBVIOUS
<1>2. CountsOf(CountUpTo(<<item>>), <<item>>)
  BY <1>1, CountIs
<1> HIDE DEF CountUpTo
<1>3. Weight(item) \in Nat
  BY WeightIsNat
<1>4. CountUpTo(<<item>>)[0] = 0 /\ CountUpTo(<<item>>)[1] = CountUpTo(<<item>>)[0] + Weight(item)
  <2>1. 1 \in 1 .. 1 /\ 1 - 1 = 0
    OBVIOUS
  <2> QED
    BY <1>1, <1>2, <2>1 DEF CountsOf
<1> QED
  BY <1>1, <1>3, <1>4 DEF Counted

(* Nothing told counts for nothing. *)
LEMMA NoItem == <<>> \in Seq(Items) /\ Len(<<>>) = 0 /\ Counted(<<>>) = 0
<1>1. <<>> \in Seq(Items) /\ Len(<<>>) = 0
  BY EmptySeq
<1> QED
  BY <1>1, CountIsNat DEF Counted

(* Lines told count one each. *)
LEMMA ManyLines ==
    ASSUME NEW lines \in Seq(Nat)
    PROVE  LET sent == [i \in 1 .. Len(lines) |-> Line(lines[i])] IN
           /\ sent \in Seq(Items) /\ Len(sent) = Len(lines)
           /\ \A i \in 1 .. Len(lines) : sent[i] = Line(lines[i]) /\ CountUpTo(sent)[i] = i
           /\ Counted(sent) = Len(lines)
<1> DEFINE sent == [i \in 1 .. Len(lines) |-> Line(lines[i])]
           c == [i \in 0 .. Len(lines) |-> i]
<1>1. Len(lines) \in Nat
  BY LenProperties
<1>2. \A i \in 1 .. Len(lines) : Line(lines[i]) \in Items /\ Weight(Line(lines[i])) = 1
  <2>1. \A i \in 1 .. Len(lines) : lines[i] \in Nat
    BY ElementOfSeq
  <2> QED
    BY <2>1 DEF Line, Items, Weight
<1>3. sent \in Seq(Items) /\ Len(sent) = Len(lines)
  BY <1>1, <1>2, IsASeq
<1>4. CountsOf(c, sent)
  BY <1>1, <1>2, <1>3 DEF CountsOf
<1>5. \A i \in 0 .. Len(lines) : CountUpTo(sent)[i] = c[i]
  <2> HIDE DEF sent, c
  <2> QED
    BY <1>3, <1>4, CountUnique
<1> QED
  BY <1>1, <1>3, <1>5 DEF Counted

(* A message tells its lines in their places and counts what it skips. *)
LEMMA PayloadTold ==
    ASSUME NEW lines \in Seq(Nat), NEW ended \in BOOLEAN, NEW skipped \in Nat, NEW from \in Nat,
           Consecutive(lines, from + skipped)
    PROVE  LET p == Payload(lines, ended, skipped) IN
           /\ p \in Seq(Items)
           /\ Counted(p) = skipped + Len(lines)
           /\ \A i \in 1 .. Len(p) : p[i].what = "line" => p[i].n = from + CountUpTo(p)[i]
           /\ \A i \in 1 .. Len(p) : p[i] = End => ended /\ i = Len(p)
           /\ ended => Len(p) > 0 /\ p[Len(p)] = End
<1> DEFINE a == IF skipped > 0 THEN <<Skip(skipped)>> ELSE <<>>
           b == [i \in 1 .. Len(lines) |-> Line(lines[i])]
           c == IF ended THEN <<End>> ELSE <<>>
<1>1. /\ a \in Seq(Items) /\ Counted(a) = skipped /\ Len(a) \in Nat
      /\ \A i \in 1 .. Len(a) : a[i].what # "line" /\ a[i] # End
  <2>1. CASE skipped > 0
    <3>1. Skip(skipped) \in Items /\ Weight(Skip(skipped)) = skipped /\ Skip(skipped) # End /\ Skip(skipped).what # "line"
      BY DEF Skip, Items, Weight, End
    <3>2. a = <<Skip(skipped)>>
      BY <2>1
    <3> HIDE DEF a
    <3> QED
      BY <3>1, <3>2, OneItem
  <2>2. CASE ~(skipped > 0)
    <3>1. a = <<>>
      BY <2>2
    <3> HIDE DEF a
    <3> QED
      BY <2>2, <3>1, NoItem
  <2> QED
    BY <2>1, <2>2
<1>2. /\ b \in Seq(Items) /\ Len(b) = Len(lines) /\ Counted(b) = Len(lines) /\ Len(lines) \in Nat
      /\ \A i \in 1 .. Len(b) : b[i] = Line(lines[i]) /\ CountUpTo(b)[i] = i
      /\ \A i \in 1 .. Len(b) : b[i].n = from + skipped + i /\ b[i] # End
  <2>1. Len(lines) \in Nat
    BY LenProperties
  <2>2. /\ b \in Seq(Items) /\ Len(b) = Len(lines) /\ Counted(b) = Len(lines)
        /\ \A i \in 1 .. Len(b) : b[i] = Line(lines[i]) /\ CountUpTo(b)[i] = i
    BY ManyLines
  <2>3. \A i \in 1 .. Len(lines) : Line(lines[i]).n = from + skipped + i /\ Line(lines[i]) # End
    BY DEF Line, Consecutive, End
  <2> HIDE DEF b
  <2> QED
    BY <2>1, <2>2, <2>3
<1>3. /\ c \in Seq(Items) /\ Counted(c) = 0 /\ Len(c) \in Nat
      /\ \A i \in 1 .. Len(c) : c[i] = End /\ c[i].what # "line" /\ ended /\ i = Len(c)
      /\ ended => Len(c) = 1
  <2>1. CASE ended
    <3>1. End \in Items /\ Weight(End) = 0 /\ End.what # "line"
      BY DEF Items, Weight, End
    <3>2. c = <<End>>
      BY <2>1
    <3> HIDE DEF c
    <3> QED
      BY <2>1, <3>1, <3>2, OneItem
  <2>2. CASE ~ended
    <3>1. c = <<>>
      BY <2>2
    <3> HIDE DEF c
    <3> QED
      BY <2>2, <3>1, NoItem
  <2> QED
    BY <2>1, <2>2
<1>4. Payload(lines, ended, skipped) = (a \o b) \o c
  BY DEF Payload
<1> HIDE DEF a, b, c
<1> DEFINE ab == a \o b
           p == ab \o c
<1>5. /\ ab \in Seq(Items) /\ Len(ab) = Len(a) + Len(b) /\ Counted(ab) = skipped + Len(lines)
      /\ \A j \in 0 .. Len(b) : CountUpTo(ab)[Len(a) + j] = skipped + CountUpTo(b)[j]
  <2>1. /\ a \o b \in Seq(Items) /\ Len(a \o b) = Len(a) + Len(b)
        /\ \A j \in 0 .. Len(b) : CountUpTo(a \o b)[Len(a) + j] = Counted(a) + CountUpTo(b)[j]
        /\ Counted(a \o b) = Counted(a) + Counted(b)
    BY <1>1, <1>2, CountJoined, Zenon
  <2> QED
    BY <2>1, <1>1, <1>2
<1>6. /\ \A i \in 1 .. Len(a) : ab[i] = a[i]
      /\ \A i \in Len(a) + 1 .. Len(a) + Len(b) : ab[i] = b[i - Len(a)]
  BY <1>1, <1>2, ConcatProperties
<1>7. \A i \in 1 .. Len(ab) : ab[i] # End /\ (ab[i].what = "line" => ab[i].n = from + CountUpTo(ab)[i])
  <2> SUFFICES ASSUME NEW i \in 1 .. Len(ab)
               PROVE  ab[i] # End /\ (ab[i].what = "line" => ab[i].n = from + CountUpTo(ab)[i])
    OBVIOUS
  <2> HIDE DEF ab
  <2>1. CASE i <= Len(a)
    <3>1. i \in 1 .. Len(a)
      BY <2>1, <1>1, <1>2, <1>5
    <3> QED
      BY <3>1, <1>1, <1>6
  <2>2. CASE ~(i <= Len(a))
    <3> DEFINE j == i - Len(a)
    <3>1. j \in 1 .. Len(b) /\ i = Len(a) + j /\ ab[i] = b[j] /\ j \in 0 .. Len(b)
      BY <2>2, <1>1, <1>2, <1>5, <1>6
    <3>2. CountUpTo(ab)[Len(a) + j] = skipped + CountUpTo(b)[j] /\ CountUpTo(b)[j] = j /\ b[j].n = from + skipped + j /\ b[j] # End
      BY <3>1, <1>5, <1>2
    <3> HIDE DEF j
    <3> QED
      BY <3>1, <3>2
  <2> QED
    BY <2>1, <2>2
<1> HIDE DEF ab
<1>8. /\ p \in Seq(Items) /\ Len(p) = Len(ab) + Len(c) /\ Counted(p) = skipped + Len(lines)
      /\ \A i \in 0 .. Len(ab) : CountUpTo(p)[i] = CountUpTo(ab)[i]
  <2>1. Len(c) \in Nat /\ c \in Seq(Items) /\ Counted(c) = 0 /\ ab \in Seq(Items) /\ Counted(ab) = skipped + Len(lines) /\ Len(lines) \in Nat
    BY <1>2, <1>3, <1>5
  <2>2. /\ ab \o c \in Seq(Items) /\ Len(ab \o c) = Len(ab) + Len(c) /\ Counted(ab \o c) = Counted(ab) + Counted(c)
        /\ \A i \in 0 .. Len(ab) : CountUpTo(ab \o c)[i] = CountUpTo(ab)[i]
    BY <2>1, CountJoined, Zenon
  <2> QED
    BY <2>1, <2>2
<1>9. /\ \A i \in 1 .. Len(ab) : p[i] = ab[i]
      /\ \A i \in Len(ab) + 1 .. Len(ab) + Len(c) : p[i] = c[i - Len(ab)]
  BY <1>3, <1>5, ConcatProperties
<1>10. p = Payload(lines, ended, skipped)
  BY <1>4 DEF ab
<1> HIDE DEF p
<1>11. Len(ab) \in Nat
  BY <1>5, <1>1, <1>2
<1>12. ASSUME NEW i \in 1 .. Len(p)
       PROVE  (p[i].what = "line" => p[i].n = from + CountUpTo(p)[i]) /\ (p[i] = End => ended /\ i = Len(p))
  <2>1. CASE i <= Len(ab)
    BY SMTT(30), <2>1, <1>7, <1>8, <1>9, <1>11
  <2>2. CASE ~(i <= Len(ab))
    <3>1. i - Len(ab) \in 1 .. Len(c) /\ p[i] = c[i - Len(ab)]
      BY <2>2, <1>3, <1>8, <1>9, <1>11
    <3> QED
      BY <3>1, <1>3, <1>8, <1>11
  <2> QED
    BY <2>1, <2>2
<1>13. ended => Len(p) > 0 /\ p[Len(p)] = End
  <2>1. SUFFICES ASSUME ended PROVE Len(p) > 0 /\ p[Len(p)] = End
    OBVIOUS
  <2>2. Len(c) = 1 /\ Len(p) = Len(ab) + 1 /\ Len(p) \in Len(ab) + 1 .. Len(ab) + Len(c) /\ Len(p) - Len(ab) = 1
    <3>1. Len(c) = 1
      BY <2>1, <1>3
    <3>2. Len(p) = Len(ab) + Len(c)
      BY <1>8
    <3> QED
      BY <3>1, <3>2, <1>11
  <2>3. p[Len(p)] = c[1] /\ 1 \in 1 .. Len(c)
    BY <2>2, <1>9
  <2> QED
    BY <2>2, <2>3, <1>3, <1>11
<1> QED
  BY <1>8, <1>10, <1>12, <1>13

-----------------------------------------------------------------------------
(* A socket's subscription as the program keeps it: what it was told stands *)
(* in its place, what it holds back has paused it, and whatever paused it   *)
(* is still there or a drain is due.                                        *)
GateFields == {"phase", "paused", "skipped", "pendingEnd", "level", "due", "got", "from"}
GateTyped(sk) ==
  /\ sk = [f \in GateFields |-> sk[f]]
  /\ sk.phase \in {"none", "live", "ended", "failed"}
  /\ sk.paused \in BOOLEAN /\ sk.pendingEnd \in BOOLEAN /\ sk.due \in BOOLEAN
  /\ sk.level \in {"low", "high", "full"}
  /\ sk.skipped \in Nat /\ sk.from \in Nat
  /\ sk.got \in Seq(Items)
InPlace(got, from) == \A i \in 1 .. Len(got) : got[i].what = "line" => got[i].n = from + CountUpTo(got)[i]
EndsAt(got) == \A i \in 1 .. Len(got) : got[i] = End => i = Len(got)
Heard(got) == \E i \in 1 .. Len(got) : got[i] = End
GateOK(sk) ==
  /\ GateTyped(sk)
  /\ InPlace(sk.got, sk.from)
  /\ EndsAt(sk.got)
  /\ Heard(sk.got) => sk.skipped = 0 /\ ~sk.pendingEnd
  /\ sk.skipped > 0 \/ sk.pendingEnd => sk.paused
  /\ sk.paused => sk.level # "low" \/ sk.due

(* What a client can account for, and whether it has or will have the end. *)
Total(sk) == sk.from + Counted(sk.got) + sk.skipped
Closing(sk) == Heard(sk.got) \/ sk.pendingEnd

(* The subscription whose gate moved. *)
SameSocket(r, sk) == r.phase = sk.phase /\ r.from = sk.from /\ r.level = sk.level /\ r.due = sk.due

(* What is told in its place, after what was told in its place, is in its place. *)
LEMMA PlacesJoined ==
    ASSUME NEW a \in Seq(Items), NEW b \in Seq(Items), NEW from \in Nat, InPlace(a, from),
           InPlace(b, from + Counted(a)), ~Heard(a), EndsAt(b)
    PROVE  /\ a \o b \in Seq(Items)
           /\ InPlace(a \o b, from) /\ EndsAt(a \o b)
           /\ Heard(a \o b) <=> Heard(b)
           /\ Counted(a \o b) = Counted(a) + Counted(b)
<1> DEFINE ab == a \o b
<1>1. /\ ab \in Seq(Items) /\ Len(ab) = Len(a) + Len(b) /\ Len(a) \in Nat /\ Len(b) \in Nat
      /\ \A i \in 1 .. Len(a) : ab[i] = a[i]
      /\ \A i \in Len(a) + 1 .. Len(a) + Len(b) : ab[i] = b[i - Len(a)]
  BY ConcatProperties, LenProperties
<1>2. /\ \A i \in 0 .. Len(a) : CountUpTo(ab)[i] = CountUpTo(a)[i]
      /\ \A j \in 0 .. Len(b) : CountUpTo(ab)[Len(a) + j] = Counted(a) + CountUpTo(b)[j]
      /\ Counted(ab) = Counted(a) + Counted(b)
  BY CountJoined, Zenon
<1>3. Counted(a) \in Nat /\ \A j \in 0 .. Len(b) : CountUpTo(b)[j] \in Nat
  BY CountIsNat
<1> HIDE DEF ab
<1>4. ASSUME NEW i \in 1 .. Len(ab)
      PROVE  \/ i \in 1 .. Len(a) /\ ab[i] = a[i] /\ CountUpTo(ab)[i] = CountUpTo(a)[i]
             \/ \E j \in 1 .. Len(b) : i = Len(a) + j /\ ab[i] = b[j] /\ CountUpTo(ab)[i] = Counted(a) + CountUpTo(b)[j] /\ CountUpTo(b)[j] \in Nat
  <2>1. CASE i <= Len(a)
    <3>1. i \in 1 .. Len(a) /\ i \in 0 .. Len(a)
      BY <2>1, <1>1
    <3> QED
      BY <3>1, <1>1, <1>2
  <2>2. CASE ~(i <= Len(a))
    <3> DEFINE j == i - Len(a)
    <3>1. j \in 1 .. Len(b) /\ j \in 0 .. Len(b) /\ i = Len(a) + j /\ ab[i] = b[j]
      <4>1. i \in Len(a) + 1 .. Len(a) + Len(b)
        BY <2>2, <1>1
      <4>2. ab[i] = b[i - Len(a)]
        BY <4>1, <1>1
      <4> QED
        BY <4>1, <4>2, <1>1
    <3> HIDE DEF j
    <3> QED
      BY <3>1, <1>2, <1>3
  <2> QED
    BY <2>1, <2>2
<1>5. InPlace(ab, from)
  <2> SUFFICES ASSUME NEW i \in 1 .. Len(ab), ab[i].what = "line" PROVE ab[i].n = from + CountUpTo(ab)[i]
    BY DEF InPlace
  <2>1. CASE i \in 1 .. Len(a) /\ ab[i] = a[i] /\ CountUpTo(ab)[i] = CountUpTo(a)[i]
    BY <2>1 DEF InPlace
  <2>2. ASSUME NEW j \in 1 .. Len(b), ab[i] = b[j], CountUpTo(ab)[i] = Counted(a) + CountUpTo(b)[j], CountUpTo(b)[j] \in Nat
        PROVE  ab[i].n = from + CountUpTo(ab)[i]
    <3>1. b[j].n = (from + Counted(a)) + CountUpTo(b)[j]
      BY <2>2 DEF InPlace
    <3> QED
      BY <3>1, <2>2, <1>3
  <2> QED
    BY <1>4, <2>1, <2>2
<1>6. EndsAt(ab)
  <2> SUFFICES ASSUME NEW i \in 1 .. Len(ab), ab[i] = End PROVE i = Len(ab)
    BY DEF EndsAt
  <2>1. PICK j \in 1 .. Len(b) : i = Len(a) + j /\ ab[i] = b[j]
    BY <1>4 DEF Heard
  <2>2. j = Len(b)
    BY <2>1 DEF EndsAt
  <2> QED
    BY <2>1, <2>2, <1>1
<1>7. Heard(ab) => Heard(b)
  BY <1>4 DEF Heard
<1>8. Heard(b) => Heard(ab)
  <2> SUFFICES ASSUME NEW j \in 1 .. Len(b), b[j] = End PROVE Heard(ab)
    BY DEF Heard
  <2>1. Len(a) + j \in 1 .. Len(ab) /\ ab[Len(a) + j] = b[j]
    <3>1. Len(a) + j \in Len(a) + 1 .. Len(a) + Len(b) /\ (Len(a) + j) - Len(a) = j /\ Len(a) + j \in 1 .. Len(a) + Len(b)
      BY <1>1
    <3> QED
      BY <3>1, <1>1
  <2> QED
    BY <2>1 DEF Heard
<1> QED
  BY <1>1, <1>2, <1>5, <1>6, <1>7, <1>8 DEF ab

(* write keeps every line accounted for. *)
LEMMA WriteKeeps ==
    ASSUME NEW sk, GateOK(sk), ~Closing(sk), ~sk.paused,
           NEW lines, NEW ended \in BOOLEAN, NEW skipped \in Nat, Consecutive(lines, Total(sk) + skipped)
    PROVE  LET r == Write(sk, lines, ended, skipped) IN
           /\ GateOK(r) /\ SameSocket(r, sk)
           /\ Total(r) = Total(sk) + skipped + Len(lines)
           /\ Closing(r) <=> ended
           /\ r.paused => sk.level # "low"
<1> DEFINE r == Write(sk, lines, ended, skipped)
           p == Payload(lines, ended, skipped)
<1>1. /\ sk = [f \in GateFields |-> sk[f]]
      /\ sk.phase \in {"none", "live", "ended", "failed"}
      /\ sk.due \in BOOLEAN /\ sk.level \in {"low", "high", "full"}
      /\ sk.skipped = 0 /\ sk.from \in Nat /\ sk.got \in Seq(Items)
      /\ sk.pendingEnd = FALSE /\ sk.paused = FALSE
  BY DEF GateOK, GateTyped
<1>2. Counted(sk.got) \in Nat /\ ~Heard(sk.got) /\ InPlace(sk.got, sk.from) /\ EndsAt(sk.got)
  BY <1>1, CountIsNat DEF GateOK, Closing
<1>3. Total(sk) = sk.from + Counted(sk.got) /\ lines \in Seq(Nat) /\ Len(lines) \in Nat
  BY <1>1, <1>2, LenProperties DEF Total, Consecutive
<1>4. CASE sk.level = "full"
  <2>1. /\ r = [f \in GateFields |-> r[f]]
        /\ r.phase = sk.phase /\ r.due = sk.due /\ r.level = sk.level /\ r.from = sk.from /\ r.got = sk.got
        /\ r.paused = TRUE /\ r.skipped = Len(lines) + skipped /\ r.pendingEnd = ended
    <3>1. r = [sk EXCEPT !.paused = TRUE, !.skipped = @ + Len(lines) + skipped, !.pendingEnd = @ \/ ended]
      BY <1>4 DEF Write
    <3> HIDE DEF r
    <3>2. r = [f \in GateFields |-> r[f]]
      BY <3>1, <1>1 DEF GateFields
    <3>3. /\ r.phase = sk.phase /\ r.due = sk.due /\ r.level = sk.level /\ r.from = sk.from /\ r.got = sk.got
          /\ r.paused = TRUE
      BY <3>1, <1>1 DEF GateFields
    <3>4. r.skipped = 0 + Len(lines) + skipped /\ r.pendingEnd = (FALSE \/ ended)
      BY <3>1, <1>1 DEF GateFields
    <3> QED
      BY <3>2, <3>3, <3>4, <1>3
  <2> HIDE DEF r
  <2>2. GateOK(r)
    <3>1. r.skipped \in Nat
      BY <2>1, <1>3
    <3>2. GateTyped(r)
      BY <2>1, <3>1, <1>1 DEF GateTyped
    <3>3. InPlace(r.got, r.from) /\ EndsAt(r.got) /\ ~Heard(r.got)
      BY <2>1, <1>2
    <3> QED
      BY <2>1, <3>2, <3>3, <1>4 DEF GateOK
  <2> QED
    BY <2>1, <2>2, <1>1, <1>2, <1>3, <1>4 DEF SameSocket, Total, Closing, r
<1>5. CASE sk.level # "full"
  <2>1. /\ r = [f \in GateFields |-> r[f]]
        /\ r.phase = sk.phase /\ r.due = sk.due /\ r.level = sk.level /\ r.from = sk.from
        /\ r.got = sk.got \o p
        /\ r.paused = (sk.level # "low") /\ r.skipped = 0 /\ r.pendingEnd = FALSE
    <3> HIDE DEF p
    <3>1. r = [sk EXCEPT !.got = @ \o p, !.paused = sk.level # "low"]
      BY <1>5 DEF Write, p
    <3> HIDE DEF r
    <3> QED
      BY <3>1, <1>1 DEF GateFields
  <2>2. /\ p \in Seq(Items) /\ Counted(p) = skipped + Len(lines)
        /\ InPlace(p, sk.from + Counted(sk.got)) /\ EndsAt(p)
        /\ Heard(p) <=> ended
    <3>1. sk.from + Counted(sk.got) \in Nat /\ Consecutive(lines, (sk.from + Counted(sk.got)) + skipped)
      BY <1>1, <1>2, <1>3
    <3>2. /\ p \in Seq(Items) /\ Counted(p) = skipped + Len(lines)
          /\ \A i \in 1 .. Len(p) : p[i].what = "line" => p[i].n = (sk.from + Counted(sk.got)) + CountUpTo(p)[i]
          /\ \A i \in 1 .. Len(p) : p[i] = End => ended /\ i = Len(p)
          /\ ended => Len(p) > 0 /\ p[Len(p)] = End
      BY <3>1, <1>3, PayloadTold
    <3> HIDE DEF p
    <3>3. Len(p) \in Nat
      BY <3>2, LenProperties
    <3>4. ended => Heard(p)
      BY <3>2, <3>3 DEF Heard
    <3> QED
      BY <3>2, <3>4 DEF InPlace, EndsAt, Heard
  <2> HIDE DEF p, r
  <2>3. /\ r.got \in Seq(Items) /\ InPlace(r.got, sk.from) /\ EndsAt(r.got) /\ (Heard(r.got) <=> ended)
        /\ Counted(r.got) = Counted(sk.got) + skipped + Len(lines)
    <3>1. /\ sk.got \o p \in Seq(Items)
          /\ InPlace(sk.got \o p, sk.from) /\ EndsAt(sk.got \o p)
          /\ Heard(sk.got \o p) <=> Heard(p)
          /\ Counted(sk.got \o p) = Counted(sk.got) + Counted(p)
      BY <2>2, <1>1, <1>2, PlacesJoined
    <3>2. Counted(sk.got) + Counted(p) = Counted(sk.got) + skipped + Len(lines)
      BY <2>2, <1>2, <1>3
    <3> QED
      BY <3>1, <3>2, <2>1, <2>2
  <2>4. GateOK(r)
    BY <2>1, <2>3, <1>1, <1>5 DEF GateOK, GateTyped
  <2> QED
    <3>1. Total(r) = Total(sk) + skipped + Len(lines)
      BY <2>1, <2>3, <1>1, <1>2, <1>3 DEF Total
    <3>2. SameSocket(r, sk) /\ (Closing(r) <=> ended) /\ (r.paused => sk.level # "low")
      BY <2>1, <2>3 DEF SameSocket, Closing
    <3> QED
      BY <2>4, <3>1, <3>2 DEF r
<1> QED
  BY <1>4, <1>5

(* resume keeps every line accounted for, and opens the gate of a low buffer. *)
LEMMA ResumeKeeps ==
    ASSUME NEW sk, GateOK(sk)
    PROVE  LET r == Resume(sk) IN
           /\ GateOK(r) /\ SameSocket(r, sk)
           /\ Total(r) = Total(sk)
           /\ Closing(r) <=> Closing(sk)
           /\ r.paused => sk.paused /\ sk.level # "low"
<1>1. /\ sk = [f \in GateFields |-> sk[f]]
      /\ sk.phase \in {"none", "live", "ended", "failed"}
      /\ sk.due \in BOOLEAN /\ sk.level \in {"low", "high", "full"}
      /\ sk.paused \in BOOLEAN /\ sk.pendingEnd \in BOOLEAN
      /\ sk.skipped \in Nat /\ sk.from \in Nat /\ sk.got \in Seq(Items)
  BY DEF GateOK, GateTyped
<1>2. Counted(sk.got) \in Nat
  BY <1>1, CountIsNat
<1>3. CASE ~sk.paused \/ sk.level \in {"high", "full"}
  <2>1. Resume(sk) = sk
    BY <1>3 DEF Resume
  <2> QED
    BY <2>1, <1>1, <1>3 DEF SameSocket
<1>4. CASE ~(~sk.paused \/ sk.level \in {"high", "full"})
  <2> DEFINE o == [sk EXCEPT !.paused = FALSE, !.skipped = 0, !.pendingEnd = FALSE]
  <2>1. /\ o = [f \in GateFields |-> o[f]]
        /\ o.phase = sk.phase /\ o.due = sk.due /\ o.level = sk.level /\ o.from = sk.from /\ o.got = sk.got
        /\ o.paused = FALSE /\ o.skipped = 0 /\ o.pendingEnd = FALSE
    BY <1>1 DEF GateFields
  <2>4. Resume(sk) = IF sk.skipped > 0 \/ sk.pendingEnd THEN Write(o, <<>>, sk.pendingEnd, sk.skipped) ELSE o
    BY <1>4 DEF Resume
  <2> HIDE DEF o
  <2>2. GateOK(o) /\ SameSocket(o, sk) /\ Total(o) = sk.from + Counted(sk.got)
    <3>1. GateTyped(o)
      <4>1. o.phase \in {"none", "live", "ended", "failed"} /\ o.level \in {"low", "high", "full"}
        BY <2>1, <1>1
      <4>2. o.paused \in BOOLEAN /\ o.pendingEnd \in BOOLEAN /\ o.due \in BOOLEAN
        BY <2>1, <1>1
      <4>3. o.skipped \in Nat /\ o.from \in Nat /\ o.got \in Seq(Items)
        BY <2>1, <1>1
      <4> QED
        BY <4>1, <4>2, <4>3, <2>1 DEF GateTyped
    <3>2. InPlace(o.got, o.from) /\ EndsAt(o.got)
      BY <2>1 DEF GateOK
    <3>3. GateOK(o)
      BY <2>1, <3>1, <3>2 DEF GateOK
    <3> QED
      BY <2>1, <3>3, <1>1, <1>2 DEF SameSocket, Total
  <2>3. sk.level = "low" /\ sk.paused
    BY <1>1, <1>4
  <2>5. CASE sk.skipped > 0 \/ sk.pendingEnd
    <3>1. ~Closing(o) /\ ~Heard(sk.got)
      BY <2>1, <2>5, <1>1 DEF Closing, GateOK
    <3>2. Consecutive(<<>>, Total(o) + sk.skipped) /\ Len(<<>>) = 0
      BY EmptySeq DEF Consecutive
    <3> DEFINE r == Write(o, <<>>, sk.pendingEnd, sk.skipped)
    <3>3. /\ GateOK(r) /\ SameSocket(r, o)
          /\ Total(r) = Total(o) + sk.skipped + Len(<<>>)
          /\ Closing(r) <=> sk.pendingEnd
          /\ r.paused => o.level # "low"
      <4>1. ~o.paused /\ GateOK(o)
        BY <2>1, <2>2
      <4>2. sk.skipped \in Nat /\ sk.pendingEnd \in BOOLEAN
        BY <1>1
      <4> QED
        BY ONLY <4>1, <4>2, <3>1, <3>2, WriteKeeps
    <3>4. Resume(sk) = r
      BY <2>4, <2>5
    <3> HIDE DEF r
    <3> QED
      BY <3>1, <3>2, <3>3, <3>4, <2>1, <2>2, <2>3, <1>1, <1>2 DEF SameSocket, Total, Closing
  <2>6. CASE ~(sk.skipped > 0 \/ sk.pendingEnd)
    <3>1. Resume(sk) = o
      BY <2>4, <2>6
    <3> QED
      BY <3>1, <2>1, <2>2, <2>3, <2>6, <1>1, <1>2 DEF Total, Closing
  <2> QED
    BY <2>5, <2>6
<1> QED
  BY <1>3, <1>4

(* deliver keeps every line accounted for. *)
LEMMA DeliverKeeps ==
    ASSUME NEW sk, GateOK(sk), ~Closing(sk), NEW lines, NEW ended \in BOOLEAN, Consecutive(lines, Total(sk))
    PROVE  LET r == Deliver(sk, lines, ended) IN
           /\ GateOK(r) /\ SameSocket(r, sk)
           /\ Total(r) = Total(sk) + Len(lines)
           /\ Closing(r) <=> ended
<1> DEFINE s == IF sk.paused THEN Resume(sk) ELSE sk
<1>1. /\ GateOK(s) /\ SameSocket(s, sk) /\ Total(s) = Total(sk) /\ ~Closing(s)
  BY ResumeKeeps DEF SameSocket
<1>2. Deliver(sk, lines, ended) =
        IF s.paused THEN [s EXCEPT !.skipped = @ + Len(lines), !.pendingEnd = @ \/ ended] ELSE Write(s, lines, ended, 0)
  BY DEF Deliver
<1> HIDE DEF s
<1>3. /\ s = [f \in GateFields |-> s[f]]
      /\ s.phase \in {"none", "live", "ended", "failed"}
      /\ s.due \in BOOLEAN /\ s.level \in {"low", "high", "full"}
      /\ s.paused \in BOOLEAN /\ s.pendingEnd = FALSE /\ ~Heard(s.got)
      /\ s.skipped \in Nat /\ s.from \in Nat /\ s.got \in Seq(Items)
  BY <1>1 DEF GateOK, GateTyped, Closing
<1>4. Counted(s.got) \in Nat /\ Len(lines) \in Nat /\ Total(s) \in Nat
  BY <1>3, CountIsNat, LenProperties DEF Consecutive, Total
<1>5. CASE s.paused
  <2> DEFINE r == [s EXCEPT !.skipped = @ + Len(lines), !.pendingEnd = @ \/ ended]
  <2>1. /\ r = [f \in GateFields |-> r[f]]
        /\ r.phase = s.phase /\ r.due = s.due /\ r.level = s.level /\ r.from = s.from /\ r.got = s.got
        /\ r.paused = s.paused /\ r.skipped = s.skipped + Len(lines) /\ r.pendingEnd = ended
    BY <1>3 DEF GateFields
  <2>2. Deliver(sk, lines, ended) = r
    BY <1>2, <1>5
  <2> HIDE DEF r
  <2>3. GateOK(r)
    BY SMTT(30), <2>1, <1>1, <1>3, <1>4, <1>5 DEF GateOK, GateTyped
  <2> QED
    BY <2>1, <2>2, <2>3, <1>1, <1>3, <1>4 DEF SameSocket, Total, Closing
<1>6. CASE ~s.paused
  <2>1. Consecutive(lines, Total(s) + 0)
    BY <1>1, <1>4
  <2> DEFINE r == Write(s, lines, ended, 0)
  <2>2. GateOK(r) /\ SameSocket(r, s) /\ Total(r) = Total(s) + 0 + Len(lines) /\ (Closing(r) <=> ended)
    BY <2>1, <1>1, <1>6, WriteKeeps
  <2>3. Deliver(sk, lines, ended) = r
    BY <1>2, <1>6
  <2> HIDE DEF r
  <2> QED
    BY <2>2, <2>3, <1>1, <1>4 DEF SameSocket
<1> QED
  BY <1>5, <1>6

(* The newest lines of a log still end where it ends. *)
LEMMA NewestFollow ==
    ASSUME NEW lines, NEW to \in Nat, NEW n \in Nat, Len(lines) <= to, Consecutive(lines, to - Len(lines))
    PROVE  LET h == Newest(lines, n) IN Len(h) \in Nat /\ Len(h) <= to /\ Consecutive(h, to - Len(h))
<1> DEFINE m == (IF n < Len(lines) THEN Len(lines) - n ELSE 0) + 1
           h == SubSeq(lines, m, Len(lines))
<1>1. lines \in Seq(Nat) /\ Len(lines) \in Nat /\ \A i \in 1 .. Len(lines) : lines[i] = (to - Len(lines)) + i
  BY LenProperties DEF Consecutive
<1>2. m \in 1 .. Len(lines) + 1 /\ m \in Nat
  BY <1>1
<1>3. h = Newest(lines, n)
  BY DEF Newest
<1> HIDE DEF m
<1>4. /\ h \in Seq(Nat) /\ Len(h) = Len(lines) - m + 1
      /\ \A i \in 1 .. Len(lines) - m + 1 : h[i] = lines[m + i - 1]
  BY SMTT(30), <1>1, <1>2, SubSeqProperties
<1> HIDE DEF h
<1>5. Len(h) \in Nat /\ Len(h) <= to /\ Len(h) <= Len(lines)
  BY <1>1, <1>2, <1>4
<1>6. ASSUME NEW i \in 1 .. Len(h) PROVE h[i] = (to - Len(h)) + i
  <2>1. m + i - 1 \in 1 .. Len(lines) /\ h[i] = lines[m + i - 1]
    BY <1>1, <1>2, <1>4
  <2>2. h[i] = (to - Len(lines)) + (m + i - 1)
    BY <2>1, <1>1
  <2> QED
    BY <2>1, <2>2, <1>1, <1>2, <1>4
<1> QED
  BY <1>3, <1>4, <1>5, <1>6 DEF Consecutive

(* A line read follows the lines before it. *)
LEMMA OneMore ==
    ASSUME NEW lines, NEW to \in Nat, Len(lines) <= to, Consecutive(lines, to - Len(lines))
    PROVE  LET more == Append(lines, to + 1) IN
           Len(more) \in Nat /\ Len(more) <= to + 1 /\ Consecutive(more, (to + 1) - Len(more)) /\ more # <<>>
             /\ Len(more) = Len(lines) + 1
<1> DEFINE more == Append(lines, to + 1)
<1>1. lines \in Seq(Nat) /\ Len(lines) \in Nat /\ \A i \in 1 .. Len(lines) : lines[i] = (to - Len(lines)) + i
  BY LenProperties DEF Consecutive
<1>2. /\ more \in Seq(Nat) /\ Len(more) = Len(lines) + 1 /\ more # <<>>
      /\ \A i \in 1 .. Len(lines) : more[i] = lines[i]
      /\ more[Len(lines) + 1] = to + 1
  BY <1>1, AppendProperties
<1> HIDE DEF more
<1>3. \A i \in 1 .. Len(more) : more[i] = ((to + 1) - Len(more)) + i
  <2> SUFFICES ASSUME NEW i \in 1 .. Len(more) PROVE more[i] = ((to + 1) - Len(more)) + i
    OBVIOUS
  <2>1. CASE i = Len(lines) + 1
    BY <2>1, <1>1, <1>2
  <2>2. CASE i # Len(lines) + 1
    <3>1. i \in 1 .. Len(lines)
      BY <2>2, <1>1, <1>2
    <3> QED
      BY <3>1, <1>1, <1>2
  <2> QED
    BY <2>1, <2>2
<1> QED
  BY <1>1, <1>2, <1>3 DEF Consecutive, more

-----------------------------------------------------------------------------
UpstreamFields == {"open", "cursor", "listeners", "buffer", "pending", "timer"}
(* An upstream that is up to some line of a log of so many. *)
UpstreamOK(u, lines) ==
  /\ u = [f \in UpstreamFields |-> u[f]]
  /\ u.cursor \in 0 .. lines
  /\ u.listeners \subseteq Sockets
  /\ Len(u.buffer) \in Nat /\ Len(u.buffer) <= u.cursor /\ Consecutive(u.buffer, u.cursor - Len(u.buffer))
  /\ Len(u.pending) \in Nat /\ Len(u.pending) <= u.cursor /\ Consecutive(u.pending, u.cursor - Len(u.pending))
  /\ u.timer = (u.pending # <<>>)
  /\ u.open = (u.listeners # {})
  /\ u.listeners = {} => u = Closed

(* What a subscription knows of the log. *)
SockOK(sk, u, lines, ends) ==
  /\ GateOK(sk)
  /\ sk.phase \in {"none", "failed"} => ~Closing(sk)
  /\ sk.phase = "none" => ~sk.paused
  /\ sk.phase = "live" => ~Closing(sk) /\ Total(sk) + Len(u.pending) = u.cursor
  /\ sk.phase = "ended" => Closing(sk) /\ Total(sk) = lines /\ ends

LogsInv ==
  /\ written \in Nat
  /\ stopped \in BOOLEAN
  /\ UpstreamOK(upstream, written)
  /\ DOMAIN sock = Sockets /\ sock = [s \in Sockets |-> sock[s]]
  /\ \A s \in Sockets : (s \in upstream.listeners <=> sock[s].phase = "live") /\ SockOK(sock[s], upstream, written, stopped)

(* An upstream that is closed has read nothing and serves nobody. *)
LEMMA ClosedOK == ASSUME NEW lines \in Nat PROVE UpstreamOK(Closed, lines) /\ Closed.listeners = {} /\ Closed.open = FALSE
<1>1. /\ Closed.open = FALSE /\ Closed.cursor = 0 /\ Closed.listeners = {} /\ Closed.buffer = <<>>
      /\ Closed.pending = <<>> /\ Closed.timer = FALSE /\ Closed = [f \in UpstreamFields |-> Closed[f]]
  BY DEF Closed, UpstreamFields
<1>2. Len(<<>>) = 0 /\ Consecutive(<<>>, 0 - 0)
  BY EmptySeq DEF Consecutive
<1> HIDE DEF Closed
<1> QED
  <2>1. Closed.cursor \in 0 .. lines /\ Closed.listeners \subseteq Sockets
    BY <1>1
  <2>2. Len(Closed.buffer) = 0 /\ Len(Closed.pending) = 0 /\ Consecutive(Closed.buffer, 0 - 0) /\ Consecutive(Closed.pending, 0 - 0)
    BY <1>1, <1>2
  <2>3. Closed.timer = (Closed.pending # <<>>) /\ Closed.open = (Closed.listeners # {})
    BY <1>1
  <2> QED
    BY <1>1, <2>1, <2>2, <2>3 DEF UpstreamOK

(* A new gate holds nothing back and was told nothing. *)
LEMMA NewGateOK ==
    ASSUME NEW sk, GateOK(sk), NEW phase \in {"none", "live", "ended", "failed"}, NEW from \in Nat
    PROVE  LET g == NewGate(sk, phase, from) IN
           GateOK(g) /\ ~Closing(g) /\ g.phase = phase /\ Total(g) = from /\ ~g.paused
<1> DEFINE g == NewGate(sk, phase, from)
<1>1. /\ sk = [f \in GateFields |-> sk[f]]
      /\ sk.due \in BOOLEAN /\ sk.level \in {"low", "high", "full"}
  BY DEF GateOK, GateTyped
<1>2. /\ g = [f \in GateFields |-> g[f]]
      /\ g.phase = phase /\ g.due = sk.due /\ g.level = sk.level /\ g.from = from
      /\ g.paused = FALSE /\ g.skipped = 0 /\ g.pendingEnd = FALSE /\ g.got = <<>>
  BY <1>1 DEF NewGate, GateFields
<1>3. <<>> \in Seq(Items) /\ Len(<<>>) = 0 /\ Counted(<<>>) = 0
  BY NoItem
<1> HIDE DEF g
<1>4. InPlace(<<>>, from) /\ EndsAt(<<>>) /\ ~Heard(<<>>)
  BY <1>3 DEF InPlace, EndsAt, Heard
<1>5. GateTyped(g)
  <2>0. g.paused = FALSE /\ g.pendingEnd = FALSE /\ g.due = sk.due /\ g.skipped = 0 /\ g.from = from
    BY <1>2
  <2>1. g.paused \in BOOLEAN /\ g.pendingEnd \in BOOLEAN /\ g.due \in BOOLEAN
    <3>1. sk.due \in BOOLEAN
      BY <1>1
    <3> QED
      BY <2>0, <3>1
  <2>2. g.skipped \in Nat /\ g.from \in Nat
    BY <2>0
  <2> QED
    BY <2>1, <2>2, <1>1, <1>2, <1>3 DEF GateTyped
<1>6. GateOK(g)
  BY <1>2, <1>4, <1>5 DEF GateOK
<1>7. Total(g) = from
  BY <1>2, <1>3 DEF Total
<1> QED
  BY <1>2, <1>4, <1>6, <1>7 DEF Closing, g

(* The observer begins without a subscription. *)
LEMMA LogsBegin == InitLogs => LogsInv
<1> SUFFICES ASSUME InitLogs PROVE LogsInv
  OBVIOUS
<1> USE DEF InitLogs
<1>1. UpstreamOK(upstream, written) /\ upstream.listeners = {}
  BY ClosedOK
<1>2. ASSUME NEW s \in Sockets PROVE sock[s].phase = "none" /\ GateOK(sock[s]) /\ ~Closing(sock[s]) /\ ~sock[s].paused
  <2>1. /\ sock[s] = [f \in GateFields |-> sock[s][f]]
        /\ sock[s].phase = "none" /\ sock[s].due = FALSE /\ sock[s].level = "low" /\ sock[s].from = 0
        /\ sock[s].paused = FALSE /\ sock[s].skipped = 0 /\ sock[s].pendingEnd = FALSE /\ sock[s].got = <<>>
    BY DEF GateFields
  <2>2. <<>> \in Seq(Items) /\ InPlace(<<>>, 0) /\ EndsAt(<<>>) /\ ~Heard(<<>>)
    BY NoItem DEF InPlace, EndsAt, Heard
  <2> QED
    <3> HIDE DEF InitLogs
    <3> DEFINE g == sock[s]
    <3>1. /\ g = [f \in GateFields |-> g[f]]
          /\ g.phase = "none" /\ g.due = FALSE /\ g.level = "low" /\ g.from = 0
          /\ g.paused = FALSE /\ g.skipped = 0 /\ g.pendingEnd = FALSE /\ g.got = <<>>
      BY <2>1
    <3> HIDE DEF g
    <3>2. g.paused \in BOOLEAN /\ g.pendingEnd \in BOOLEAN /\ g.due \in BOOLEAN
      BY <3>1
    <3>3. GateTyped(g)
      <4>1. g.skipped \in Nat /\ g.from \in Nat
        BY <3>1
      <4> QED
        BY <2>2, <3>1, <3>2, <4>1 DEF GateTyped
    <3>4. GateOK(g) /\ ~Closing(g)
      BY <2>2, <3>1, <3>3 DEF GateOK, Closing
    <3> QED
      BY <3>1, <3>4 DEF g
<1> QED
  BY <1>1, <1>2 DEF LogsInv, SockOK

(* A flush tells its listeners everything the upstream has read. *)
LEMMA FlushTells ==
    ASSUME LogsInv, NEW L, L \subseteq upstream.listeners, NEW s \in Sockets
    PROVE  LET f == Flushed(L)[s] IN
           /\ SameSocket(f, sock[s]) /\ GateOK(f) /\ (Closing(f) <=> Closing(sock[s]))
           /\ s \notin L => f = sock[s]
           /\ s \in L => Total(f) = upstream.cursor
<1> DEFINE sk == sock[s]
           f == Flushed(L)[s]
<1>1. f = IF s \in L /\ upstream.pending # <<>> THEN Deliver(sk, upstream.pending, FALSE) ELSE sk
  BY DEF Flushed
<1>2. GateOK(sk) /\ (s \in L => sk.phase = "live" /\ ~Closing(sk) /\ Total(sk) + Len(upstream.pending) = upstream.cursor)
  BY DEF LogsInv, SockOK
<1>3. /\ Len(upstream.pending) \in Nat /\ upstream.cursor \in Nat
      /\ Consecutive(upstream.pending, upstream.cursor - Len(upstream.pending))
  BY DEF LogsInv, UpstreamOK
<1>4. Total(sk) \in Nat
  BY <1>2, CountIsNat DEF GateOK, GateTyped, Total
<1> HIDE DEF sk, f
<1>5. CASE s \in L /\ upstream.pending # <<>>
  <2>1. Consecutive(upstream.pending, Total(sk))
    <3>1. upstream.cursor - Len(upstream.pending) = Total(sk)
      BY <1>2, <1>3, <1>4, <1>5
    <3> QED
      BY <3>1, <1>3
  <2>2. f = Deliver(sk, upstream.pending, FALSE)
    BY <1>1, <1>5
  <2>3. GateOK(f) /\ SameSocket(f, sk) /\ Total(f) = Total(sk) + Len(upstream.pending) /\ ~Closing(f)
    BY <2>1, <2>2, <1>2, <1>5, DeliverKeeps
  <2> QED
    BY <2>3, <1>2, <1>5 DEF sk, f
<1>6. CASE ~(s \in L /\ upstream.pending # <<>>)
  <2>1. f = sk
    BY <1>1, <1>6
  <2>2. s \in L => Total(sk) = upstream.cursor
    <3>1. Len(<<>>) = 0
      BY EmptySeq
    <3> QED
      BY <3>1, <1>2, <1>3, <1>4, <1>6
  <2> QED
    BY <2>1, <2>2, <1>2 DEF SameSocket, sk, f
<1> QED
  BY <1>5, <1>6

(* A step keeps the invariant when it keeps each of its parts. *)
LEMMA LogsHold ==
    ASSUME written' \in Nat, stopped' \in BOOLEAN, UpstreamOK(upstream', written'), NEW f, sock' = [s \in Sockets |-> f[s]],
           \A s \in Sockets : (s \in upstream'.listeners <=> f[s].phase = "live") /\ SockOK(f[s], upstream', written', stopped')
    PROVE  LogsInv'
BY DEF LogsInv, UpstreamOK, SockOK, GateOK, GateTyped, InPlace, EndsAt, Heard, Closing, Total, Consecutive

(* A socket's gate as it stands when nothing it knows of moves. *)
LEMMA SockMoved ==
    ASSUME LogsInv, NEW s \in Sockets, NEW f, GateOK(f), SameSocket(f, sock[s]), Closing(f) <=> Closing(sock[s]),
           NEW u, sock[s].phase = "live" => Total(f) + Len(u.pending) = u.cursor,
           sock[s].phase \in {"none", "ended"} => f = sock[s]
    PROVE  SockOK(f, u, written, stopped)
BY DEF LogsInv, SockOK, SameSocket

-----------------------------------------------------------------------------
(* A socket that leaves takes nothing from the others; the last one closes. *)
LEMMA DetachedOK ==
    ASSUME LogsInv, NEW s \in Sockets
    PROVE  LET u == Detached(s) IN
           /\ UpstreamOK(u, written) /\ u.listeners = upstream.listeners \ {s}
           /\ u.open => u.cursor = upstream.cursor /\ u.pending = upstream.pending /\ u.buffer = upstream.buffer
           /\ u.open = (upstream.listeners \ {s} # {})
<1> DEFINE u == Detached(s)
<1>1. CASE upstream.listeners \subseteq {s}
  <2>1. u = Closed /\ upstream.listeners \ {s} = {}
    BY <1>1 DEF Detached
  <2>2. UpstreamOK(Closed, written) /\ Closed.listeners = {} /\ Closed.open = FALSE
    BY ClosedOK DEF LogsInv
  <2> HIDE DEF u
  <2> QED
    BY <2>1, <2>2 DEF u
<1>2. CASE ~(upstream.listeners \subseteq {s})
  <2>1. u = [upstream EXCEPT !.listeners = @ \ {s}]
    BY <1>2 DEF Detached
  <2>2. upstream = [f \in UpstreamFields |-> upstream[f]] /\ UpstreamOK(upstream, written)
    BY DEF LogsInv, UpstreamOK
  <2> HIDE DEF u
  <2>3. /\ u = [f \in UpstreamFields |-> u[f]] /\ u.listeners = upstream.listeners \ {s}
        /\ u.cursor = upstream.cursor /\ u.pending = upstream.pending /\ u.buffer = upstream.buffer
        /\ u.timer = upstream.timer /\ u.open = upstream.open
    BY <2>1, <2>2 DEF UpstreamFields
  <2>4. u.listeners # {} /\ upstream.listeners # {} /\ u.listeners \subseteq Sockets
    BY <1>2, <2>2, <2>3 DEF UpstreamOK
  <2> QED
    BY <2>2, <2>3, <2>4 DEF UpstreamOK, u
<1> QED
  BY <1>1, <1>2

(* A subscription ends. *)
LEMMA UnsubscribeKeeps == ASSUME LogsInv, NEW s \in Sockets, UnsubscribeLogs(s) PROVE LogsInv'
<1> DEFINE g == NewGate(sock[s], "none", 0)
           f == [sock EXCEPT ![s] = g]
<1>1. sock' = f /\ upstream' = Detached(s) /\ written' = written /\ stopped' = stopped
  BY DEF UnsubscribeLogs
<1>2. GateOK(g) /\ ~Closing(g) /\ g.phase = "none" /\ ~g.paused
  <2>1. GateOK(sock[s]) /\ 0 \in Nat
    BY DEF LogsInv, SockOK
  <2> QED
    BY <2>1, NewGateOK
<1>3. /\ UpstreamOK(upstream', written) /\ upstream'.listeners = upstream.listeners \ {s}
      /\ upstream'.open => upstream'.cursor = upstream.cursor /\ upstream'.pending = upstream.pending
      /\ upstream'.open = (upstream.listeners \ {s} # {})
  BY <1>1, DetachedOK
<1> HIDE DEF g
<1>4. ASSUME NEW t \in Sockets
      PROVE  (t \in upstream'.listeners <=> f[t].phase = "live") /\ SockOK(f[t], upstream', written, stopped)
  <2>1. CASE t = s
    <3>1. f[t] = g
      BY <2>1 DEF LogsInv
    <3> QED
      BY <2>1, <3>1, <1>2, <1>3 DEF SockOK
  <2>2. CASE t # s
    <3>1. f[t] = sock[t] /\ SockOK(sock[t], upstream, written, stopped) /\ (t \in upstream.listeners <=> sock[t].phase = "live")
      BY <2>2 DEF LogsInv
    <3>2. t \in upstream.listeners => upstream'.open
      BY <2>2, <1>3
    <3> QED
      BY <2>2, <3>1, <3>2, <1>3 DEF SockOK
  <2> QED
    BY <2>1, <2>2
<1>5. sock' = [t \in Sockets |-> f[t]]
  BY <1>1 DEF LogsInv
<1> HIDE DEF f
<1> QED
  BY <1>1, <1>3, <1>4, <1>5, LogsHold DEF LogsInv

(* A subscription begins, on an upstream that runs or on one of its own. *)
LEMMA SubscribeKeeps == ASSUME LogsInv, NEW s \in Sockets, NEW tail \in Tails, SubscribeLogs(s, tail) PROVE LogsInv'
<1>0. /\ written' = written /\ stopped' = stopped /\ tail \in Nat /\ written \in Nat
      /\ upstream = [x \in UpstreamFields |-> upstream[x]] /\ upstream.cursor \in 0 .. written
  BY BoundsAssumption DEF SubscribeLogs, LogsInv, UpstreamOK
<1>1. CASE Detached(s).open
  <2> DEFINE history == Newest(upstream.buffer, tail)
             at == upstream.cursor - Len(history)
             g == NewGate(sock[s], "live", at)
             d == Deliver(g, history, FALSE)
             flushed == Flushed(upstream.listeners \ {s})
             f == [flushed EXCEPT ![s] = d]
             u == Detached(s)
  <2>1. /\ upstream' = [u EXCEPT !.pending = <<>>, !.timer = FALSE, !.listeners = @ \cup {s}]
        /\ sock' = f
    BY <1>1 DEF SubscribeLogs, Join
  <2>2. /\ UpstreamOK(u, written) /\ u.listeners = upstream.listeners \ {s}
        /\ u.cursor = upstream.cursor /\ u.pending = upstream.pending /\ u.buffer = upstream.buffer
        /\ u = [x \in UpstreamFields |-> u[x]] /\ u.open = TRUE
    BY <1>1, DetachedOK DEF UpstreamOK
  <2>3. Len(history) \in Nat /\ Len(history) <= upstream.cursor /\ Consecutive(history, upstream.cursor - Len(history))
    BY <1>0, NewestFollow DEF LogsInv, UpstreamOK
  <2> HIDE DEF history
  <2>4. at \in Nat /\ at + Len(history) = upstream.cursor
    BY <2>3, <1>0
  <2>5. GateOK(g) /\ ~Closing(g) /\ g.phase = "live" /\ Total(g) = at
    <3>1. GateOK(sock[s]) /\ at \in Nat /\ "live" \in {"none", "live", "ended", "failed"}
      BY <2>4 DEF LogsInv, SockOK
    <3> HIDE DEF at
    <3> QED
      BY <3>1, NewGateOK
  <2>6. GateOK(d) /\ ~Closing(d) /\ d.phase = "live" /\ Total(d) = upstream.cursor
    <3> HIDE DEF g
    <3> QED
      BY <2>3, <2>4, <2>5, DeliverKeeps DEF SameSocket
  <2> HIDE DEF d, u, flushed
  <2>7. /\ upstream' = [x \in UpstreamFields |-> upstream'[x]]
        /\ upstream'.open = TRUE /\ upstream'.cursor = upstream.cursor /\ upstream'.buffer = upstream.buffer
        /\ upstream'.pending = <<>> /\ upstream'.timer = FALSE /\ upstream'.listeners = upstream.listeners \cup {s}
    BY <2>1, <2>2 DEF UpstreamFields
  <2>8. UpstreamOK(upstream', written)
    <3>1. Len(<<>>) = 0 /\ Consecutive(<<>>, upstream.cursor - 0)
      BY EmptySeq DEF Consecutive
    <3>2. UpstreamOK(upstream, written)
      BY DEF LogsInv
    <3>3. Len(upstream'.pending) = 0 /\ Consecutive(upstream'.pending, upstream'.cursor - Len(upstream'.pending))
      BY <2>7, <3>1
    <3>4. upstream'.timer = (upstream'.pending # <<>>) /\ upstream'.open = (upstream'.listeners # {})
      BY <2>7
    <3>5. 0 \in Nat /\ 0 <= upstream.cursor
      BY <1>0
    <3> QED
      BY <2>7, <3>2, <3>3, <3>4, <3>5 DEF UpstreamOK
  <2>9. ASSUME NEW t \in Sockets
        PROVE  (t \in upstream'.listeners <=> f[t].phase = "live") /\ SockOK(f[t], upstream', written, stopped)
    <3>0. Len(upstream'.pending) = 0 /\ upstream'.cursor = upstream.cursor /\ upstream.cursor \in Nat
      BY <2>7, <1>0, EmptySeq
    <3>1. CASE t = s
      <4>1. f[t] = d
        BY <3>1 DEF Flushed, flushed
      <4> QED
        BY <3>0, <3>1, <4>1, <2>6, <2>7 DEF SockOK
    <3>2. CASE t # s
      <4>1. f[t] = flushed[t]
        BY <3>2 DEF Flushed, flushed
      <4> DEFINE ft == flushed[t]
      <4>2. /\ SameSocket(ft, sock[t]) /\ GateOK(ft) /\ (Closing(ft) <=> Closing(sock[t]))
            /\ t \notin upstream.listeners \ {s} => ft = sock[t]
            /\ t \in upstream.listeners \ {s} => Total(ft) = upstream.cursor
        BY FlushTells DEF flushed
      <4>3. t \in upstream.listeners <=> sock[t].phase = "live"
        BY DEF LogsInv
      <4> HIDE DEF ft
      <4>4. SockOK(ft, upstream', written, stopped)
        <5>1. sock[t].phase = "live" => Total(ft) + Len(upstream'.pending) = upstream'.cursor
          BY <3>0, <3>2, <4>2, <4>3
        <5>2. sock[t].phase \in {"none", "ended"} => ft = sock[t]
          BY <4>2, <4>3
        <5> QED
          BY <4>2, <5>1, <5>2, SockMoved
      <4> QED
        BY <4>1, <4>2, <4>3, <4>4, <2>7, <3>2 DEF SameSocket, ft
    <3> QED
      BY <3>1, <3>2
  <2>10. sock' = [t \in Sockets |-> f[t]]
    BY <2>1 DEF Flushed, flushed
  <2> HIDE DEF f
  <2> QED
    BY <1>0, <2>8, <2>9, <2>10, LogsHold DEF LogsInv
<1>2. CASE ~Detached(s).open
  <2> DEFINE at == IF tail < written THEN written - tail ELSE 0
             g == NewGate(sock[s], "live", at)
             f == [sock EXCEPT ![s] = g]
  <2>1. /\ upstream' = [Closed EXCEPT !.open = TRUE, !.cursor = at, !.listeners = {s}]
        /\ sock' = f
    BY <1>2 DEF SubscribeLogs, OpenUpstream
  <2>2. at \in 0 .. written /\ at \in Nat
    BY <1>0
  <2> HIDE DEF at
  <2>3. GateOK(g) /\ ~Closing(g) /\ g.phase = "live" /\ Total(g) = at
    <3>1. GateOK(sock[s]) /\ at \in Nat /\ "live" \in {"none", "live", "ended", "failed"}
      BY <2>2 DEF LogsInv, SockOK
    <3> HIDE DEF at
    <3> QED
      BY <3>1, NewGateOK
  <2> HIDE DEF g
  <2>4. /\ upstream' = [x \in UpstreamFields |-> upstream'[x]]
        /\ upstream'.open = TRUE /\ upstream'.cursor = at /\ upstream'.buffer = <<>>
        /\ upstream'.pending = <<>> /\ upstream'.timer = FALSE /\ upstream'.listeners = {s}
    BY <2>1 DEF UpstreamFields, Closed
  <2>5. Len(<<>>) = 0 /\ Consecutive(<<>>, at - 0)
    BY EmptySeq DEF Consecutive
  <2>6. UpstreamOK(upstream', written)
    <3>1. upstream'.timer = (upstream'.pending # <<>>) /\ upstream'.open = (upstream'.listeners # {}) /\ upstream'.listeners \subseteq Sockets
      BY <2>4
    <3>2. 0 \in Nat /\ 0 <= at
      BY <2>2
    <3> QED
      BY <2>2, <2>4, <2>5, <3>1, <3>2 DEF UpstreamOK
  <2>7. upstream.listeners \subseteq {s}
    BY <1>2, DetachedOK
  <2>8. ASSUME NEW t \in Sockets
        PROVE  (t \in upstream'.listeners <=> f[t].phase = "live") /\ SockOK(f[t], upstream', written, stopped)
    <3>1. CASE t = s
      <4>1. f[t] = g
        BY <3>1 DEF LogsInv
      <4>2. Total(g) + Len(upstream'.pending) = upstream'.cursor
        BY <2>2, <2>3, <2>4, <2>5
      <4> QED
        BY <3>1, <4>1, <4>2, <2>3, <2>4 DEF SockOK
    <3>2. CASE t # s
      <4>1. f[t] = sock[t] /\ SockOK(sock[t], upstream, written, stopped) /\ sock[t].phase # "live"
        BY <3>2, <2>7 DEF LogsInv
      <4> QED
        BY <3>2, <4>1, <2>4 DEF SockOK
    <3> QED
      BY <3>1, <3>2
  <2>9. sock' = [t \in Sockets |-> f[t]]
    BY <2>1 DEF LogsInv
  <2> HIDE DEF f
  <2> QED
    BY <1>0, <2>6, <2>8, <2>9, LogsHold DEF LogsInv
<1> QED
  BY <1>1, <1>2

(* A step that only moves the gates of sockets, as each socket may move. *)
LEMMA GatesMove ==
    ASSUME LogsInv, NEW f, sock' = [t \in Sockets |-> f[t]], UNCHANGED <<written, stopped, upstream>>,
           \A t \in Sockets : f[t].phase = sock[t].phase /\ SockOK(f[t], upstream, written, stopped)
    PROVE  LogsInv'
<1>1. upstream' = upstream /\ written' = written /\ stopped' = stopped
  OBVIOUS
<1>2. \A t \in Sockets : (t \in upstream.listeners <=> f[t].phase = "live") /\ SockOK(f[t], upstream, written, stopped)
  BY DEF LogsInv
<1> QED
  BY <1>1, <1>2, LogsHold DEF LogsInv

(* The send buffer of a socket fills or empties. *)
LEMMA LevelMoves ==
    ASSUME LogsInv, NEW s \in Sockets, NEW l \in {"low", "high", "full"}, NEW d \in BOOLEAN, l # "low" \/ d,
           sock' = [sock EXCEPT ![s].level = l, ![s].due = d], UNCHANGED <<written, stopped, upstream>>
    PROVE  LogsInv'
<1> DEFINE sk == sock[s]
           g == [sk EXCEPT !.level = l, !.due = d]
           f == [sock EXCEPT ![s] = g]
<1>1. GateOK(sk) /\ sk = [x \in GateFields |-> sk[x]] /\ GateTyped(sk) /\ SockOK(sk, upstream, written, stopped)
  BY DEF LogsInv, SockOK, GateOK, GateTyped
<1>2. sock' = f
  OBVIOUS
<1>3. sock' = [t \in Sockets |-> f[t]] /\ f[s] = g /\ \A t \in Sockets : t # s => f[t] = sock[t]
  BY <1>2 DEF LogsInv
<1> HIDE DEF f, sk
<1>4. /\ g = [x \in GateFields |-> g[x]]
      /\ g.phase = sk.phase /\ g.due = d /\ g.level = l /\ g.from = sk.from
      /\ g.paused = sk.paused /\ g.skipped = sk.skipped /\ g.pendingEnd = sk.pendingEnd /\ g.got = sk.got
  BY <1>1 DEF GateFields
<1> HIDE DEF g
<1>5. GateTyped(g)
  BY <1>1, <1>4 DEF GateTyped
<1>6. GateOK(g) /\ Total(g) = Total(sk) /\ (Closing(g) <=> Closing(sk))
  BY <1>1, <1>4, <1>5 DEF GateOK, Total, Closing
<1>7. SockOK(g, upstream, written, stopped)
  BY <1>1, <1>4, <1>6 DEF SockOK
<1>8. \A t \in Sockets : f[t].phase = sock[t].phase /\ SockOK(f[t], upstream, written, stopped)
  <2> SUFFICES ASSUME NEW t \in Sockets PROVE f[t].phase = sock[t].phase /\ SockOK(f[t], upstream, written, stopped)
    OBVIOUS
  <2>1. CASE t = s
    BY <2>1, <1>3, <1>4, <1>7 DEF sk
  <2>2. CASE t # s
    BY <2>2, <1>3 DEF LogsInv
  <2> QED
    BY <2>1, <2>2
<1> QED
  BY <1>3, <1>8, GatesMove

(* The socket and its drain. *)
LEMMA CongestKeeps == ASSUME LogsInv, NEW s \in Sockets, Congest(s) PROVE LogsInv'
<1>1. PICK l \in {"high", "full"} : sock' = [sock EXCEPT ![s].level = l]
  BY DEF Congest
<1> DEFINE sk == sock[s]
<1>2. GateTyped(sk)
  BY DEF LogsInv, SockOK, GateOK
<1>3. sk.due \in BOOLEAN /\ sk = [x \in GateFields |-> sk[x]]
  BY <1>2 DEF GateTyped
<1>4. [sk EXCEPT !.level = l] = [sk EXCEPT !.level = l, !.due = sk.due]
  <2> HIDE DEF sk
  <2> QED
    BY <1>3 DEF GateFields
<1>5. sock' = [sock EXCEPT ![s].level = l, ![s].due = sk.due]
  <2>1. sock' = [sock EXCEPT ![s] = [sk EXCEPT !.level = l]]
    BY <1>1
  <2>2. sock' = [sock EXCEPT ![s] = [sk EXCEPT !.level = l, !.due = sk.due]]
    BY <2>1, <1>4
  <2> QED
    BY <2>2
<1>6. l \in {"low", "high", "full"} /\ l # "low"
  OBVIOUS
<1> HIDE DEF sk
<1> QED
  BY <1>3, <1>5, <1>6, LevelMoves DEF Congest

LEMMA ShrinkKeeps == ASSUME LogsInv, NEW s \in Sockets, NEW l \in {"low", "high"}, Shrink(s, l) PROVE LogsInv'
<1>1. l \in {"low", "high", "full"} /\ TRUE \in BOOLEAN
  OBVIOUS
<1> QED
  BY <1>1, LevelMoves DEF Shrink

LEMMA OnDrainKeeps == ASSUME LogsInv, NEW s \in Sockets, OnDrain(s) PROVE LogsInv'
<1> DEFINE sk == sock[s]
           r == IF sk.phase = "none" THEN sk ELSE Resume(sk)
           g == [r EXCEPT !.due = FALSE]
           f == [sock EXCEPT ![s] = g]
<1>1. GateOK(sk) /\ SockOK(sk, upstream, written, stopped)
  BY DEF LogsInv, SockOK
<1>2. sock' = f
  BY DEF OnDrain
<1>3. sock' = [t \in Sockets |-> f[t]] /\ f[s] = g /\ \A t \in Sockets : t # s => f[t] = sock[t]
  BY <1>2 DEF LogsInv
<1> HIDE DEF f, sk
<1>4. GateOK(r) /\ SameSocket(r, sk) /\ Total(r) = Total(sk) /\ (Closing(r) <=> Closing(sk)) /\ (r.paused => sk.level # "low" /\ sk.phase # "none")
  <2>1. CASE sk.phase # "none"
    BY <1>1, <2>1, ResumeKeeps
  <2>2. CASE sk.phase = "none"
    BY <1>1, <2>2 DEF SockOK, SameSocket
  <2> QED
    BY <2>1, <2>2
<1> HIDE DEF r
<1>5. r = [x \in GateFields |-> r[x]] /\ GateTyped(r)
  BY <1>4 DEF GateOK, GateTyped
<1>6. /\ g = [x \in GateFields |-> g[x]]
      /\ g.phase = r.phase /\ g.due = FALSE /\ g.level = r.level /\ g.from = r.from
      /\ g.paused = r.paused /\ g.skipped = r.skipped /\ g.pendingEnd = r.pendingEnd /\ g.got = r.got
  BY <1>5 DEF GateFields
<1> HIDE DEF g
<1>7. GateTyped(g)
  BY <1>5, <1>6 DEF GateTyped
<1>8. r.paused => r.level # "low"
  BY <1>4 DEF SameSocket
<1>9. GateOK(g) /\ Total(g) = Total(sk) /\ (Closing(g) <=> Closing(sk)) /\ g.phase = sk.phase
  BY <1>4, <1>6, <1>7, <1>8 DEF GateOK, Total, Closing, SameSocket
<1>10. SockOK(g, upstream, written, stopped)
  BY <1>1, <1>4, <1>6, <1>9 DEF SockOK
<1>11. \A t \in Sockets : f[t].phase = sock[t].phase /\ SockOK(f[t], upstream, written, stopped)
  <2> SUFFICES ASSUME NEW t \in Sockets PROVE f[t].phase = sock[t].phase /\ SockOK(f[t], upstream, written, stopped)
    OBVIOUS
  <2>1. CASE t = s
    BY <2>1, <1>3, <1>9, <1>10 DEF sk
  <2>2. CASE t # s
    BY <2>2, <1>3 DEF LogsInv
  <2> QED
    BY <2>1, <2>2
<1> QED
  BY <1>3, <1>11, GatesMove DEF OnDrain

(* The upstream's own steps: a line read, a batch sent, the end, a failure. *)
LEMMA PumpKeeps == ASSUME LogsInv, Pump PROVE LogsInv'
<1> DEFINE line == upstream.cursor + 1
           pending == Append(upstream.pending, line)
           buffer == Newest(Append(upstream.buffer, line), BufferLines)
<1>1. /\ upstream = [x \in UpstreamFields |-> upstream[x]] /\ upstream.cursor \in 0 .. written /\ written \in Nat
      /\ UpstreamOK(upstream, written) /\ upstream.cursor < written /\ upstream.open
      /\ sock' = sock /\ written' = written /\ stopped' = stopped
  BY DEF LogsInv, UpstreamOK, Pump
<1>2. upstream' = [upstream EXCEPT !.cursor = line, !.buffer = buffer, !.pending = pending, !.timer = TRUE]
  BY DEF Pump
<1>3. Len(pending) \in Nat /\ Len(pending) <= line /\ Consecutive(pending, line - Len(pending)) /\ pending # <<>> /\ Len(pending) = Len(upstream.pending) + 1
  BY <1>1, OneMore DEF UpstreamOK
<1>4. Len(buffer) \in Nat /\ Len(buffer) <= line /\ Consecutive(buffer, line - Len(buffer))
  <2> DEFINE more == Append(upstream.buffer, line)
  <2>1. Len(more) <= line /\ Consecutive(more, line - Len(more))
    BY <1>1, OneMore DEF UpstreamOK
  <2>2. line \in Nat /\ BufferLines \in Nat
    BY <1>1, BoundsAssumption
  <2> HIDE DEF more, line
  <2> QED
    BY <2>1, <2>2, NewestFollow DEF more
<1>5. line \in 0 .. written
  BY <1>1
<1> HIDE DEF pending, buffer, line
<1>6. /\ upstream' = [x \in UpstreamFields |-> upstream'[x]]
      /\ upstream'.open = upstream.open /\ upstream'.cursor = line /\ upstream'.buffer = buffer
      /\ upstream'.pending = pending /\ upstream'.timer = TRUE /\ upstream'.listeners = upstream.listeners
  BY <1>1, <1>2 DEF UpstreamFields
<1>7. UpstreamOK(upstream', written)
  <2>1. upstream.listeners # {} /\ upstream.listeners \subseteq Sockets /\ upstream.open = TRUE
    BY <1>1 DEF UpstreamOK
  <2>2. upstream'.timer = (upstream'.pending # <<>>) /\ upstream'.open = (upstream'.listeners # {})
    BY <2>1, <1>3, <1>6
  <2> QED
    BY <2>1, <2>2, <1>3, <1>4, <1>5, <1>6 DEF UpstreamOK
<1>8. ASSUME NEW t \in Sockets
      PROVE  (t \in upstream'.listeners <=> sock[t].phase = "live") /\ SockOK(sock[t], upstream', written, stopped)
  <2>1. SockOK(sock[t], upstream, written, stopped) /\ (t \in upstream.listeners <=> sock[t].phase = "live")
    BY DEF LogsInv
  <2>2. Total(sock[t]) \in Nat
    BY <2>1, CountIsNat DEF SockOK, GateOK, GateTyped, Total
  <2>3. sock[t].phase = "live" => Total(sock[t]) + Len(upstream'.pending) = upstream'.cursor
    <3>1. Len(upstream.pending) \in Nat
      BY <1>1 DEF UpstreamOK
    <3> QED
      <4>1. sock[t].phase = "live" => Total(sock[t]) + Len(upstream.pending) = upstream.cursor
        BY <2>1 DEF SockOK
      <4>2. Len(upstream'.pending) = Len(upstream.pending) + 1 /\ upstream'.cursor = upstream.cursor + 1 /\ upstream.cursor \in Nat
        BY <1>1, <1>3, <1>6 DEF line
      <4> QED
        BY <2>2, <3>1, <4>1, <4>2
  <2> QED
    BY <2>1, <2>3, <1>6 DEF SockOK
<1>9. sock' = [t \in Sockets |-> sock[t]]
  BY <1>1 DEF LogsInv
<1> QED
  BY <1>1, <1>7, <1>8, <1>9, LogsHold DEF LogsInv

LEMMA FlushTimerKeeps == ASSUME LogsInv, FlushTimer PROVE LogsInv'
<1> DEFINE f == Flushed(upstream.listeners)
<1>1. /\ upstream = [x \in UpstreamFields |-> upstream[x]] /\ upstream.cursor \in 0 .. written /\ written \in Nat
      /\ UpstreamOK(upstream, written)
      /\ sock' = f /\ written' = written /\ stopped' = stopped
  BY DEF LogsInv, UpstreamOK, FlushTimer
<1>2. /\ upstream' = [x \in UpstreamFields |-> upstream'[x]]
      /\ upstream'.open = upstream.open /\ upstream'.cursor = upstream.cursor /\ upstream'.buffer = upstream.buffer
      /\ upstream'.pending = <<>> /\ upstream'.timer = FALSE /\ upstream'.listeners = upstream.listeners
  BY <1>1 DEF UpstreamFields, FlushTimer
<1>3. UpstreamOK(upstream', written)
  <2>1. Len(<<>>) = 0 /\ Consecutive(<<>>, upstream.cursor - 0) /\ 0 \in Nat /\ 0 <= upstream.cursor
    BY <1>1, EmptySeq DEF Consecutive
  <2>2. upstream'.timer = (upstream'.pending # <<>>)
    BY <1>2
  <2>3. upstream.listeners # {}
    <3>1. Closed.timer = FALSE
      BY DEF Closed
    <3> QED
      BY <3>1, <1>1 DEF UpstreamOK, FlushTimer
  <2> QED
    BY <2>1, <2>2, <2>3, <1>1, <1>2 DEF UpstreamOK
<1>4. ASSUME NEW t \in Sockets
      PROVE  (t \in upstream'.listeners <=> f[t].phase = "live") /\ SockOK(f[t], upstream', written, stopped)
  <2> DEFINE ft == f[t]
  <2>1. /\ SameSocket(ft, sock[t]) /\ GateOK(ft) /\ (Closing(ft) <=> Closing(sock[t]))
        /\ t \notin upstream.listeners => ft = sock[t]
        /\ t \in upstream.listeners => Total(ft) = upstream.cursor
    BY FlushTells
  <2>2. t \in upstream.listeners <=> sock[t].phase = "live"
    BY DEF LogsInv
  <2> HIDE DEF f
  <2>3. Len(upstream'.pending) = 0 /\ upstream'.cursor = upstream.cursor /\ upstream.cursor \in Nat
    BY <1>1, <1>2, EmptySeq
  <2>4. sock[t].phase = "live" => Total(ft) + Len(upstream'.pending) = upstream'.cursor
    BY <2>1, <2>2, <2>3
  <2>5. sock[t].phase \in {"none", "ended"} => ft = sock[t]
    BY <2>1, <2>2
  <2>6. SockOK(ft, upstream', written, stopped)
    <3> HIDE DEF ft
    <3> QED
      BY <2>1, <2>4, <2>5, SockMoved
  <2> QED
    BY <2>1, <2>2, <2>6, <1>2 DEF SameSocket
<1>5. sock' = [t \in Sockets |-> f[t]]
  BY <1>1 DEF Flushed
<1> HIDE DEF f
<1> QED
  BY <1>1, <1>3, <1>4, <1>5, LogsHold DEF LogsInv

LEMMA StreamEndsKeeps == ASSUME LogsInv, StreamEnds PROVE LogsInv'
<1> DEFINE d(s) == Deliver(sock[s], upstream.pending, TRUE)
           f == [s \in Sockets |-> IF s \in upstream.listeners THEN [d(s) EXCEPT !.phase = "ended"] ELSE sock[s]]
<1>1. /\ sock' = f /\ upstream' = Closed /\ written' = written /\ stopped' = stopped
      /\ stopped = TRUE /\ upstream.cursor = written /\ written \in Nat
  BY DEF StreamEnds, LogsInv
<1>2. UpstreamOK(upstream', written) /\ upstream'.listeners = {}
  BY <1>1, ClosedOK
<1>3. ASSUME NEW s \in Sockets
      PROVE  (s \in upstream'.listeners <=> f[s].phase = "live") /\ SockOK(f[s], upstream', written, stopped)
  <2> DEFINE sk == sock[s]
  <2>1. SockOK(sk, upstream, written, stopped) /\ (s \in upstream.listeners <=> sk.phase = "live")
    BY DEF LogsInv
  <2>2. CASE s \in upstream.listeners
    <3>1. /\ Len(upstream.pending) \in Nat /\ upstream.cursor \in Nat
          /\ Consecutive(upstream.pending, upstream.cursor - Len(upstream.pending))
      BY DEF LogsInv, UpstreamOK
    <3>2. GateOK(sk) /\ ~Closing(sk) /\ Total(sk) + Len(upstream.pending) = upstream.cursor
      BY <2>1, <2>2 DEF SockOK
    <3>3. Total(sk) \in Nat
      BY <3>2, CountIsNat DEF GateOK, GateTyped, Total
    <3>4. Consecutive(upstream.pending, Total(sk))
      <4>1. upstream.cursor - Len(upstream.pending) = Total(sk)
        BY <3>1, <3>2, <3>3
      <4> QED
        BY <3>1, <4>1
    <3> HIDE DEF sk
    <3> DEFINE r == Deliver(sk, upstream.pending, TRUE)
               e == [r EXCEPT !.phase = "ended"]
    <3>5. GateOK(r) /\ Total(r) = Total(sk) + Len(upstream.pending) /\ Closing(r)
      <4>1. TRUE \in BOOLEAN
        OBVIOUS
      <4> QED
        BY <3>2, <3>4, <4>1, DeliverKeeps
    <3> HIDE DEF r
    <3>6. r = [x \in GateFields |-> r[x]] /\ GateTyped(r)
      BY <3>5 DEF GateOK, GateTyped
    <3>7. /\ e = [x \in GateFields |-> e[x]]
          /\ e.phase = "ended" /\ e.due = r.due /\ e.level = r.level /\ e.from = r.from
          /\ e.paused = r.paused /\ e.skipped = r.skipped /\ e.pendingEnd = r.pendingEnd /\ e.got = r.got
      BY <3>6 DEF GateFields
    <3>8. f[s] = e
      BY <2>2 DEF r, sk
    <3> HIDE DEF e, f
    <3>9. GateTyped(e)
      BY <3>6, <3>7 DEF GateTyped
    <3>10. GateOK(e) /\ Total(e) = Total(r) /\ Closing(e)
      BY <3>5, <3>7, <3>9 DEF GateOK, Total, Closing
    <3>11. Total(e) = written
      BY <3>5, <3>10, <3>2, <1>1
    <3> QED
      BY <3>7, <3>8, <3>10, <3>11, <1>1, <1>2 DEF SockOK
  <2>3. CASE s \notin upstream.listeners
    <3>1. f[s] = sk
      BY <2>3
    <3> HIDE DEF f
    <3> QED
      BY <3>1, <2>1, <2>3, <1>2 DEF SockOK
  <2> QED
    BY <2>2, <2>3
<1>4. sock' = [s \in Sockets |-> f[s]]
  BY <1>1
<1> HIDE DEF f
<1> QED
  BY <1>1, <1>2, <1>3, <1>4, LogsHold DEF LogsInv

(* An error told is told as no line, and as no end. *)
LEMMA FailureTold ==
    ASSUME NEW r, GateOK(r), ~Closing(r), NEW got, got = r.got \/ got = Append(r.got, Failure)
    PROVE  LET e == [r EXCEPT !.phase = "failed", !.got = got] IN
           GateOK(e) /\ ~Closing(e) /\ e.phase = "failed"
<1> DEFINE e == [r EXCEPT !.phase = "failed", !.got = got]
<1>1. r = [x \in GateFields |-> r[x]] /\ GateTyped(r) /\ r.got \in Seq(Items) /\ r.from \in Nat
  BY DEF GateOK, GateTyped
<1>2. /\ e = [x \in GateFields |-> e[x]]
      /\ e.phase = "failed" /\ e.due = r.due /\ e.level = r.level /\ e.from = r.from
      /\ e.paused = r.paused /\ e.skipped = r.skipped /\ e.pendingEnd = r.pendingEnd /\ e.got = got
  BY <1>1 DEF GateFields
<1> HIDE DEF e
<1>3. got \in Seq(Items) /\ InPlace(got, r.from) /\ EndsAt(got) /\ ~Heard(got)
  <2>1. ~Heard(r.got) /\ EndsAt(r.got) /\ InPlace(r.got, r.from)
    BY DEF Closing, GateOK
  <2>2. CASE got = r.got
    BY <2>1, <2>2, <1>1
  <2>3. CASE got = Append(r.got, Failure)
    <3> DEFINE b == <<Failure>>
    <3>1. Failure \in Items /\ Failure.what # "line" /\ Failure # End
      BY DEF Failure, Items, End
    <3>2. b \in Seq(Items) /\ Len(b) = 1 /\ b[1] = Failure
      BY <3>1, OneItem
    <3>3. got = r.got \o b
      BY <2>3, <1>1, AppendIsConcat
    <3> HIDE DEF b
    <3>4. EndsAt(b) /\ ~Heard(b) /\ InPlace(b, r.from + Counted(r.got))
      BY <3>1, <3>2 DEF EndsAt, Heard, InPlace
    <3> QED
      BY <3>2, <3>3, <3>4, <2>1, <1>1, PlacesJoined
  <2> QED
    BY <2>2, <2>3
<1>4. GateTyped(e)
  BY <1>1, <1>2, <1>3 DEF GateTyped
<1>5. GateOK(e) /\ ~Closing(e)
  BY <1>2, <1>3, <1>4 DEF GateOK, Closing
<1> QED
  BY <1>2, <1>5 DEF e

LEMMA StreamFailsKeeps == ASSUME LogsInv, StreamFails PROVE LogsInv'
<1> DEFINE flushed == Flushed(upstream.listeners)
           Told(sk) == IF sk.level = "full" THEN sk.got ELSE Append(sk.got, Failure)
           f == [s \in Sockets |-> IF s \in upstream.listeners
                   THEN [flushed[s] EXCEPT !.phase = "failed", !.got = Told(flushed[s])] ELSE sock[s]]
<1>1. /\ sock' = f /\ upstream' = Closed /\ written' = written /\ stopped' = stopped /\ written \in Nat
  BY DEF StreamFails, LogsInv
<1>2. UpstreamOK(upstream', written) /\ upstream'.listeners = {}
  BY <1>1, ClosedOK
<1>3. ASSUME NEW s \in Sockets
      PROVE  (s \in upstream'.listeners <=> f[s].phase = "live") /\ SockOK(f[s], upstream', written, stopped)
  <2> DEFINE sk == sock[s]
             r == flushed[s]
             got == Told(r)
  <2>1. SockOK(sk, upstream, written, stopped) /\ (s \in upstream.listeners <=> sk.phase = "live")
    BY DEF LogsInv
  <2>2. CASE s \in upstream.listeners
    <3>1. GateOK(r) /\ ~Closing(r)
      BY <2>1, <2>2, FlushTells DEF SockOK
    <3>2. f[s] = [r EXCEPT !.phase = "failed", !.got = got]
      BY <2>2
    <3>3. got = r.got \/ got = Append(r.got, Failure)
      OBVIOUS
    <3> HIDE DEF r, got, f
    <3>4. GateOK(f[s]) /\ ~Closing(f[s]) /\ f[s].phase = "failed"
      <4> DEFINE e == [r EXCEPT !.phase = "failed", !.got = got]
      <4>1. GateOK(e) /\ ~Closing(e) /\ e.phase = "failed"
        BY <3>1, <3>3, FailureTold
      <4> QED
        BY <3>2, <4>1
    <3> QED
      BY <3>4, <1>2 DEF SockOK
  <2>3. CASE s \notin upstream.listeners
    <3>1. f[s] = sk
      BY <2>3
    <3> HIDE DEF f
    <3> QED
      BY <3>1, <2>1, <2>3, <1>2 DEF SockOK
  <2> QED
    BY <2>2, <2>3
<1>4. sock' = [s \in Sockets |-> f[s]]
  BY <1>1
<1> HIDE DEF f
<1> QED
  BY <1>1, <1>2, <1>3, <1>4, LogsHold DEF LogsInv

LEMMA ContainerKeeps == ASSUME LogsInv, ContainerPrints \/ ContainerExits PROVE LogsInv'
<1>1. /\ upstream' = upstream /\ sock' = sock /\ written' \in Nat /\ written \in Nat /\ written <= written'
      /\ stopped' \in BOOLEAN /\ ~stopped
  <2>1. CASE ContainerPrints
    BY <2>1 DEF ContainerPrints, LogsInv
  <2>2. CASE ContainerExits
    BY <2>2 DEF ContainerExits, LogsInv
  <2> QED
    BY <2>1, <2>2
<1>2. UpstreamOK(upstream', written')
  <2>1. UpstreamOK(upstream, written)
    BY DEF LogsInv
  <2>2. upstream.cursor \in 0 .. written'
    BY <2>1, <1>1 DEF UpstreamOK
  <2> QED
    BY <2>1, <2>2, <1>1 DEF UpstreamOK
<1>3. \A t \in Sockets : (t \in upstream'.listeners <=> sock[t].phase = "live") /\ SockOK(sock[t], upstream', written', stopped')
  BY <1>1 DEF LogsInv, SockOK
<1>4. sock' = [t \in Sockets |-> sock[t]]
  BY <1>1 DEF LogsInv
<1> QED
  BY <1>1, <1>2, <1>3, <1>4, LogsHold

(* Every step keeps the invariant. *)
LEMMA LogsKept == LogsInv /\ [LogsNext]_logsVars => LogsInv'
<1> SUFFICES ASSUME LogsInv, [LogsNext]_logsVars PROVE LogsInv'
  OBVIOUS
<1>1. CASE UNCHANGED logsVars
  <2>1. written' = written /\ stopped' = stopped /\ upstream' = upstream /\ sock' = sock
    BY <1>1 DEF logsVars
  <2>2. sock' = [s \in Sockets |-> sock[s]]
    BY <2>1 DEF LogsInv
  <2>3. \A s \in Sockets : sock[s].phase = sock[s].phase /\ SockOK(sock[s], upstream, written, stopped)
    BY DEF LogsInv
  <2> QED
    BY <2>1, <2>2, <2>3, GatesMove
<1>2. ASSUME NEW s \in Sockets, NEW tail \in Tails, SubscribeLogs(s, tail) PROVE LogsInv'
  BY <1>2, SubscribeKeeps
<1>3. ASSUME NEW s \in Sockets, UnsubscribeLogs(s) \/ Congest(s) \/ OnDrain(s) PROVE LogsInv'
  BY <1>3, UnsubscribeKeeps, CongestKeeps, OnDrainKeeps
<1>4. ASSUME NEW s \in Sockets, NEW l \in {"low", "high"}, Shrink(s, l) PROVE LogsInv'
  BY <1>4, ShrinkKeeps
<1>5. CASE Pump \/ FlushTimer \/ StreamEnds \/ StreamFails \/ ContainerPrints \/ ContainerExits
  BY <1>5, PumpKeeps, FlushTimerKeeps, StreamEndsKeeps, StreamFailsKeeps, ContainerKeeps
<1> QED
  BY <1>1, <1>2, <1>3, <1>4, <1>5 DEF LogsNext

(* The invariant accounts for every line. *)
LEMMA LogsTell == LogsInv => EveryLineAccounted
<1> SUFFICES ASSUME LogsInv PROVE EveryLineAccounted
  OBVIOUS
<1>1. UpstreamOK(upstream, written)
  BY DEF LogsInv
<1>2. ASSUME NEW s \in Sockets
      PROVE  /\ s \in upstream.listeners <=> sock[s].phase = "live"
             /\ SockOK(sock[s], upstream, written, stopped) /\ GateOK(sock[s])
             /\ sock[s].from \in Nat /\ sock[s].skipped \in Nat /\ Counted(sock[s].got) \in Nat
  BY CountIsNat DEF LogsInv, SockOK, GateOK, GateTyped
<1>3. UpstreamInUse
  <2>1. upstream.listeners = {s \in Sockets : Live(s)}
    BY <1>1, <1>2 DEF UpstreamOK, Live
  <2>2. (upstream.open <=> upstream.listeners # {}) /\ (upstream.timer <=> upstream.pending # <<>>)
    BY <1>1 DEF UpstreamOK
  <2>3. \A s \in Sockets : sock[s].skipped > 0 \/ sock[s].pendingEnd => sock[s].paused
    BY <1>2 DEF GateOK
  <2> QED
    BY <2>1, <2>2, <2>3 DEF UpstreamInUse
<1>4. LinesCounted
  BY <1>2 DEF LinesCounted, Live, SockOK, GateOK, InPlace, Total
<1>5. EndIsLast
  <2> SUFFICES ASSUME NEW s \in Sockets, NEW i \in 1 .. Len(sock[s].got), sock[s].got[i] = End
               PROVE  i = Len(sock[s].got) /\ stopped /\ sock[s].from + Counted(sock[s].got) = written
    BY DEF EndIsLast
  <2>1. Heard(sock[s].got) /\ Closing(sock[s])
    BY DEF Heard, Closing
  <2>2. i = Len(sock[s].got) /\ sock[s].skipped = 0
    BY <1>2, <2>1 DEF GateOK, EndsAt
  <2>3. sock[s].phase = "ended"
    BY <1>2, <2>1 DEF SockOK, GateOK, GateTyped
  <2> QED
    BY <1>2, <2>2, <2>3 DEF SockOK, Total
<1>6. EndNotStranded
  BY <1>2 DEF EndNotStranded, SockOK, GateOK, Closing, Heard
<1> QED
  BY <1>3, <1>4, <1>5, <1>6 DEF EveryLineAccounted

(* For any number of sockets, tails and lines, whatever is congested when:  *)
(* what a client reads and what it is told it missed are together every     *)
(* line of the container up to where its stream stands, each in its place,  *)
(* and the end comes last and is not stranded (subscribe, pump, flush,      *)
(* deliver, write, resume, drain).                                          *)
THEOREM EveryLineIsAccounted == InitLogs /\ [][LogsNext]_logsVars => []EveryLineAccounted
<1> USE LogsBegin, LogsKept, LogsTell
<1> QED
  BY PTL
=============================================================================
