------------------------------ MODULE MCObserver ------------------------------
(***************************************************************************)
(* The live side of the dashboard, one question at a time: the status of a *)
(* project with its loads and Docker events (StatusChannel), what one load *)
(* collects (ServiceStatus), the stats of a container (StatsChannel), the  *)
(* page's socket and store (ObserverClient), and an operation the page     *)
(* follows (OpFollow).                                                     *)
(* They are joined by messages each of them models on its side, so a       *)
(* behaviour is of one of them.                                            *)
(*                                                                         *)
(* Two subscribers and two generations of the status watch, so that a load *)
(* may outlive its entry; two changes, so that a load may read between     *)
(* them; three upstreams, so that one may end after the next was opened.   *)
(* Two services of one definition with four ports: the default, a pin, one *)
(* that is probed and one that is beyond the probes a search may make.     *)
(***************************************************************************)
EXTENDS StatusChannel, StatsChannel, ObserverClient, OpFollow, ServiceStatus

VARIABLE scenario

allVars == <<vars, statsVars, observerVars, followVars, statusVars, scenario>>

MCOrder == <<"db", "cache">>
MCPortsFor == [s \in {"db", "cache"} |-> 1..4]
MCUsualPort == [s \in {"db", "cache"} |-> 1]

Box(state, health, code, bind, port) ==
  [id |-> 1, state |-> state, health |-> health, code |-> code, bind |-> bind, port |-> port]
Boxes == {NoBox, Box("running", "none", 0, FALSE, 1), Box("running", "starting", 0, FALSE, 1),
          Box("created", "none", 0, FALSE, 1), Box("created", "none", 0, TRUE, 1),
          Box("exited", "none", 1, FALSE, 1), Box("exited", "none", 143, FALSE, 1),
          Box("exited", "none", 128, TRUE, 1)}
Siblings == {NoBox, Box("running", "none", 0, FALSE, 2)}
Restless == {Box("dead", "none", 0, FALSE, 2), Box("restarting", "none", 0, FALSE, 2)}

MCInit ==
  /\ scenario \in {"status", "rows", "stats", "socket", "follow"}
  /\ Init /\ InitStats /\ InitObserver /\ InitFollow
  /\ scenario # "follow" => length = 1
  /\ \E x \in Boxes, y \in Siblings \cup Restless :
       /\ y \in Restless => x = NoBox
       /\ box = [db |-> x, cache |-> y]
  /\ pin \in {[db |-> 1, cache |-> 2], [db |-> 1, cache |-> 0]}
  /\ InitStatus
  /\ stranger[2] \in {"none", "loopback"} /\ stranger[4] = "none"
  /\ \A p \in StatusPorts : stranger[p] # "none" => ~Bound(p)
  /\ scenario # "rows" => /\ box = [s \in Instance |-> NoBox] /\ pin["cache"] = 0
                          /\ stranger = [p \in StatusPorts |-> "none"]

MCNext ==
  /\ \/ scenario = "status" /\ Next /\ UNCHANGED <<statsVars, observerVars, followVars, statusVars>>
     \/ scenario = "rows" /\ StatusNext /\ UNCHANGED <<vars, statsVars, observerVars, followVars>>
     \/ scenario = "stats" /\ StatsNext /\ UNCHANGED <<vars, observerVars, followVars, statusVars>>
     \/ scenario = "socket" /\ ObserverNext /\ UNCHANGED <<vars, statsVars, followVars, statusVars>>
     \/ scenario = "follow" /\ FollowNext /\ UNCHANGED <<vars, statsVars, observerVars, statusVars>>
  /\ UNCHANGED scenario

MCSpec ==
  /\ MCInit /\ [][MCNext]_allVars
  /\ StatusFairness
  /\ ObserverFairness
=============================================================================
