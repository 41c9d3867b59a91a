--------------------------- MODULE ServiceStatus ---------------------------
(***************************************************************************)
(* The status of a project as the dashboard draws it: collectProjectStatus *)
(* lists the containers once, then inspects them one at a time, and for a  *)
(* service that does not hold its port probes the port and looks for one   *)
(* to suggest.  Containers start and stop, ports are taken and left, and   *)
(* pins move between any two of these steps.                               *)
(*                                                                         *)
(* A box is a service's container; bind says that its State.Error is a     *)
(* port it could not bind.  A port is held by a box or by a stranger,      *)
(* which listens on 127.0.0.1 ("loopback"), on every address and accepts   *)
(* ("wildcard"), or on every address and is too slow to accept ("mute").   *)
(***************************************************************************)
EXTENDS Integers, Sequences, FiniteSets, SequencesExt

CONSTANTS
    Order,           \* the services as the stack file orders them
    PortsFor,        \* the port range of each service's definition
    UsualPort,       \* the canonical default of each service's definition
    ForeignPins,     \* ports that other stacks have pinned
    WildcardBlocks,  \* a wildcard listener blocks a bind of 127.0.0.1 (not on macOS)
    MaxProbes,       \* MAX_SUGGESTION_PROBES
    MaxLooks,        \* bound: collections
    MaxEvents,       \* bound: changes made by anyone else
    NoBox

Instance == ToSet(Order)
StatusPorts == UNION {PortsFor[s] : s \in Instance}
Unprovisioned == 0
NoPort == -1

ContainerStates == {"created", "running", "paused", "restarting", "removing", "exited", "dead"}
ContainerHealth == {"none", "starting", "healthy", "unhealthy"}
Summaries ==
    [id : Nat, state : ContainerStates, code : Nat, bind : BOOLEAN, health : ContainerHealth]
Containers ==
    [id : Nat, state : ContainerStates, code : Nat, bind : BOOLEAN, health : ContainerHealth,
     port : StatusPorts]

ASSUME OrderAssumption == Order \in Seq(Instance)
ASSUME PortsForAssumption == PortsFor \in [Instance -> SUBSET (Nat \ {Unprovisioned})]
ASSUME NoBoxAssumption == NoBox \notin Summaries \cup Containers

VARIABLES
    box,       \* [Instance -> container or NoBox]
    stranger,  \* [StatusPorts -> who else listens]
    pin,       \* [Instance -> port of the stack in the state, 0 before the first up]
    look,      \* the collection under way, or the last one
    looks, stirs

statusVars == <<box, stranger, pin, look, looks, stirs>>

-----------------------------------------------------------------------------
(* The machine *)

HoldsPort(b) == b # NoBox /\ b.state \in {"running", "paused"}
Bound(p) == \E s \in Instance : HoldsPort(box[s]) /\ box[s].port = p
Taken(p) == Bound(p) \/ stranger[p] # "none"

(* BindPortProbe: 127.0.0.1 can be bound, and nobody answers there in time. *)
CanBind(p) == /\ ~Bound(p) /\ stranger[p] # "loopback"
              /\ WildcardBlocks => stranger[p] = "none"
Answers(p) == stranger[p] = "wildcard"
ProbedFree(p) == CanBind(p) /\ ~Answers(p)

-----------------------------------------------------------------------------
(* What a row says *)

Running(health) ==
    CASE health = "starting"  -> "starting"
      [] health = "unhealthy" -> "error"
      [] OTHER                -> "running"

(* toContainerSummary: the list knows neither the exit code nor the error,
   and reads the health off the words "Up 2 hours (healthy)". *)
Summary(b) ==
    IF b = NoBox THEN NoBox
    ELSE [id |-> b.id, state |-> b.state, code |-> 0, bind |-> FALSE,
          health |-> IF b.state = "running" THEN b.health ELSE "none"]

(* toContainerDetails *)
Details(b) == [id |-> b.id, state |-> b.state, code |-> b.code, bind |-> b.bind,
               health |-> b.health]

(* classifyContainer *)
Classify(b) ==
    IF b = NoBox THEN [state |-> "stopped", active |-> FALSE]
    ELSE IF b.bind /\ b.state # "running" THEN [state |-> "port-conflict", active |-> FALSE]
    ELSE CASE b.state = "running" -> [state |-> Running(b.health), active |-> TRUE]
           [] b.state \in {"created", "restarting"} -> [state |-> "starting", active |-> TRUE]
           [] b.state = "dead" -> [state |-> "error", active |-> FALSE]
           [] b.state = "exited" /\ b.code \notin {0, 137, 143} ->
                [state |-> "error", active |-> FALSE]
           [] OTHER -> [state |-> "stopped", active |-> FALSE]

(* Faulty: the container that runs is asked about as well. *)
AsksAnyway(c, s) == c.state # "error" /\ look.pins[s] # Unprovisioned

(* A service whose port is worth a probe. *)
AsksForPort(c, s) == ~c.active /\ c.state # "error" /\ look.pins[s] # Unprovisioned

(* suggestFreePort: neither the busy port, the default nor anybody's pin. *)
Suggestible(s) ==
    PortsFor[s] \ ({look.pins[s], UsualPort[s]} \cup ForeignPins
                     \cup {look.pins[t] : t \in Instance} \cup look.tried)

-----------------------------------------------------------------------------
(* The collection *)

Subject == Order[look.at]
NoLook == [pc |-> "idle", at |-> 0, pins |-> [s \in Instance |-> Unprovisioned],
           seen |-> [s \in Instance |-> NoBox], rows |-> <<>>, draft |-> "stopped",
           tried |-> {}, sure |-> TRUE, moved |-> {}, whole |-> TRUE]

InitStatus ==
    /\ box \in [Instance -> Containers \cup {NoBox}]
    /\ pin \in [Instance -> StatusPorts \cup {Unprovisioned}]
    /\ look = NoLook /\ looks = 0 /\ stirs = 0
    /\ stranger \in [StatusPorts -> {"none", "loopback", "wildcard", "mute"}]

(* readProjectView: the pins are read before anything is asked of Docker. *)
ReadView ==
    /\ look.pc \in {"idle", "done"} /\ looks < MaxLooks
    /\ looks' = looks + 1
    /\ look' = [NoLook EXCEPT !.pc = "list", !.pins = pin]
    /\ UNCHANGED <<box, stranger, pin, stirs>>

ListContainers ==
    /\ look.pc = "list"
    /\ \/ look' = [look EXCEPT !.pc = IF Order = <<>> THEN "done" ELSE "inspect", !.at = 1,
                               !.moved = {}, !.seen = [s \in Instance |-> Summary(box[s])]]
       \/ look' = [look EXCEPT !.pc = "idle"]       \* DOCKER_UNREACHABLE
    /\ UNCHANGED <<box, stranger, pin, looks, stirs>>

(* The row of the current service is pushed; the next one is inspected. *)
Push(l, state, suggested) ==
    [l EXCEPT !.rows = Append(@, [name |-> Order[l.at], state |-> state,
                                  port |-> l.pins[Order[l.at]], suggested |-> suggested]),
              !.at = @ + 1, !.tried = {},
              !.pc = IF l.at = Len(Order) \/ ~l.whole THEN "done" ELSE "inspect"]

Judge(c, l) ==
    IF AsksForPort(c, Subject)
    THEN [l EXCEPT !.draft = c.state, !.pc = IF c.state = "port-conflict" THEN "suggest" ELSE "probe"]
    ELSE Push(l, c.state, NoPort)

(* inspect: 404 for a container that was removed or made again. *)
Inspected(s) ==
    IF box[s] # NoBox /\ box[s].id = look.seen[s].id THEN Details(box[s]) ELSE NoBox

(* Without details the summary speaks. *)
InspectNext ==
    /\ look.pc = "inspect"
    /\ LET summary == look.seen[Subject]
           Unsure == Judge(Classify(summary), [look EXCEPT !.sure = FALSE]) IN
       IF summary = NoBox THEN look' = Judge(Classify(NoBox), look)
       ELSE look' \in {IF Inspected(Subject) = NoBox THEN Unsure
                       ELSE Judge(Classify(Inspected(Subject)), look),
                       Unsure}
    /\ UNCHANGED <<box, stranger, pin, looks, stirs>>

ProbeOwnPort ==
    /\ look.pc = "probe"
    /\ look' \in {IF ProbedFree(look.pins[Subject]) THEN Push(look, look.draft, NoPort)
                  ELSE [look EXCEPT !.pc = "suggest"],
                  Push([look EXCEPT !.sure = FALSE], look.draft, NoPort)}   \* the probe fails
    /\ UNCHANGED <<box, stranger, pin, looks, stirs>>

(* The lowest port left, until one is free or enough were probed. *)
ProbeSuggestion ==
    /\ look.pc = "suggest"
    /\ IF Suggestible(Subject) = {} \/ Cardinality(look.tried) = MaxProbes
       THEN look' = Push(look, "port-conflict", NoPort)
       ELSE \E p \in Suggestible(Subject) :
              /\ \A q \in Suggestible(Subject) : p <= q
              /\ look' \in {IF ProbedFree(p) THEN Push(look, "port-conflict", p)
                            ELSE [look EXCEPT !.tried = @ \cup {p}],
                            Push(look, "port-conflict", NoPort)}
    /\ UNCHANGED <<box, stranger, pin, looks, stirs>>

Collect == ReadView \/ ListContainers \/ InspectNext \/ ProbeOwnPort \/ ProbeSuggestion

(* withPortSuggestion: an operation was refused the port of one service. *)
PortRefused ==
    /\ look.pc \in {"idle", "done"} /\ looks < MaxLooks
    /\ \E i \in DOMAIN Order :
         /\ pin[Order[i]] # Unprovisioned /\ Taken(pin[Order[i]]) /\ ~HoldsPort(box[Order[i]])
         /\ look' = [NoLook EXCEPT !.pc = "suggest", !.pins = pin, !.at = i, !.whole = FALSE]
    /\ looks' = looks + 1
    /\ UNCHANGED <<box, stranger, pin, stirs>>

-----------------------------------------------------------------------------
(* The row's buttons *)

Offered(row) ==
    IF row.state = "port-conflict" /\ row.suggested # NoPort THEN {"use-port"}
    ELSE {"copy", "restart", IF row.state \in {"running", "starting"} THEN "stop" ELSE "start"}

(* projectHealth *)
Card(rows) ==
    LET Has(states) == \E i \in DOMAIN rows : rows[i].state \in states IN
    CASE Has({"port-conflict", "error"}) -> "error"
      [] Has({"running"}) -> "running"
      [] OTHER -> "stopped"

(* A box moves, and with it whoever has the port that it had or will have. *)
OnPortOf(b) == {t \in Instance : b # NoBox /\ look.pins[t] = b.port}
BoxBecomes(s, b) ==
    /\ stirs < MaxEvents /\ stirs' = stirs + 1
    /\ box' = [box EXCEPT ![s] = b]
    /\ look' = [look EXCEPT !.moved = @ \cup {s} \cup OnPortOf(box[s]) \cup OnPortOf(b)]

(* "Use port N": the service is moved unless the port was taken meanwhile. *)
UsePort ==
    /\ look.pc = "done"
    /\ \E i \in DOMAIN look.rows :
         LET s == look.rows[i].name
             p == look.rows[i].suggested IN
         /\ "use-port" \in Offered(look.rows[i])
         /\ ~Taken(p) /\ p \notin ForeignPins /\ \A t \in Instance \ {s} : pin[t] # p
         /\ BoxBecomes(s, [id |-> IF box[s] = NoBox THEN 1 ELSE box[s].id + 1, state |-> "running",
                       health |-> "none", code |-> 0, bind |-> FALSE, port |-> p])
         /\ pin' = [pin EXCEPT ![s] = p]
    /\ UNCHANGED <<stranger, looks>>

-----------------------------------------------------------------------------
(* Everybody else *)

(* A container that is started binds its port, or stays as created. *)
BoxStarts ==
    /\ \E s \in Instance :
         /\ box[s] # NoBox /\ box[s].state \in {"created", "exited"}
         /\ BoxBecomes(s, IF Taken(box[s].port) THEN [box[s] EXCEPT !.state = "created", !.bind = TRUE]
                      ELSE [box[s] EXCEPT !.state = "running", !.bind = FALSE])
    /\ UNCHANGED <<stranger, pin, looks>>

BoxTurns ==
    /\ \E s \in Instance :
         /\ box[s] # NoBox /\ box[s].state = "running"
         /\ \/ \E c \in {0, 1, 137} : BoxBecomes(s, [box[s] EXCEPT !.state = "exited", !.code = c])
            \/ \E h \in {"healthy", "unhealthy"} \ {box[s].health} : BoxBecomes(s, [box[s] EXCEPT !.health = h])
            \/ BoxBecomes(s, [box[s] EXCEPT !.state = "paused"])
    /\ UNCHANGED <<stranger, pin, looks>>

BoxGoes ==
    /\ \E s \in Instance : box[s] # NoBox /\ BoxBecomes(s, NoBox)
    /\ UNCHANGED <<stranger, pin, looks>>

StrangerMoves ==
    /\ stirs < MaxEvents /\ stirs' = stirs + 1
    /\ \E p \in StatusPorts, w \in {"none", "loopback"} :
         /\ w # stranger[p] /\ (w = "loopback" => ~Bound(p))
         /\ stranger' = [stranger EXCEPT ![p] = w]
    /\ look' = [look EXCEPT !.moved = Instance]
    /\ UNCHANGED <<box, pin, looks>>

StatusNext ==
    Collect \/ PortRefused \/ UsePort \/ BoxStarts \/ BoxTurns \/ BoxGoes \/ StrangerMoves

-----------------------------------------------------------------------------
StatusSpec == InitStatus /\ [][StatusNext]_statusVars

-----------------------------------------------------------------------------
(* What a row must say of a container nobody touched since it was listed. *)
Runs(s) == box[s] # NoBox /\ box[s].state = "running"
Broken(b) == b.state = "dead" \/ (b.state = "exited" /\ b.code \notin {0, 137, 143})
Busy(p) ==
    /\ p # Unprovisioned
    /\ \/ Bound(p)
       \/ stranger[p] \in {"loopback", "wildcard"}
       \/ WildcardBlocks /\ stranger[p] # "none"
TrueState(s, p) ==
    LET b == box[s] IN
    CASE Runs(s) /\ b.health = "starting" -> "starting"
      [] Runs(s) /\ b.health = "unhealthy" -> "error"
      [] Runs(s) /\ b.health \in {"none", "healthy"} -> "running"
      [] b # NoBox /\ ~Runs(s) /\ b.bind -> "port-conflict"
      [] b # NoBox /\ ~b.bind /\ b.state \in {"created", "restarting"} -> "starting"
      [] b # NoBox /\ ~b.bind /\ Broken(b) -> "error"
      [] OTHER -> IF Busy(p) THEN "port-conflict" ELSE "stopped"

(* A picture is of the project it was taken of: one row per service in the
   order of the file, each as its container and its port are, when nothing
   about that service or its port moved since the list and no request failed
   (a paused container keeps its port, so it is told to be in conflict with
   it).  A container that ran all along is never told to be in conflict with the port it holds, even
   if inspecting it failed, nor offered to be started (unless it is unhealthy); the card is green only
   when something runs; and a port offered for use is nobody's pin, nor the
   default, nor the busy one.  service-status.ts:51-60, ports.ts:12-16. *)
StatusTold ==
    look.pc = "done" =>
      /\ look.whole => Len(look.rows) = Len(Order)
      /\ \A i \in DOMAIN look.rows :
           LET r == look.rows[i]
               s == r.name
               still == s \notin look.moved IN
           /\ look.whole => s = Order[i]
           /\ look.whole /\ still /\ look.sure => r.state = TrueState(s, r.port)
           /\ still /\ Runs(s) => r.state # "port-conflict"
           /\ still /\ Runs(s) /\ box[s].health # "unhealthy" => "start" \notin Offered(r)
           /\ r.suggested # NoPort =>
                /\ r.state = "port-conflict"
                /\ r.suggested \in PortsFor[s] \ ({r.port, UsualPort[s]} \cup ForeignPins
                                                    \cup {look.pins[t] : t \in Instance})
                /\ look.moved = {} => stranger[r.suggested] \in {"none", "mute"} /\ ~Bound(r.suggested)
      /\ look.moved = {} /\ look.whole /\ Card(look.rows) = "running"
           => \E t \in Instance : HoldsPort(box[t])
=============================================================================
