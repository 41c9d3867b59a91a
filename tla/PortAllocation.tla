--------------------------- MODULE PortAllocation ---------------------------
(***************************************************************************)
(* Host ports of the services of a stack (allocator.ts).  The choice is    *)
(* made from a snapshot of the state, with probes of 127.0.0.1 in between, *)
(* and pinned by one transaction that validates it against the state of    *)
(* that moment; a raced allocation starts over.  The store itself refuses  *)
(* a port pinned twice (UNIQUE(port), sqlite-state-store.ts).  Calls run   *)
(* in the server's operations and in CLI processes; a removed service      *)
(* gives its pin up (remove-service.op.ts).                                *)
(*                                                                         *)
(* An action is the code between two awaits: a read, a probe, an update.   *)
(***************************************************************************)
EXTENDS Integers, Sequences, SequencesExt

CONSTANTS
    Allocators,
    PinStacks,
    PortServices,
    Requests,   \* what a stack may ask: a sequence of [service, port], port 0 is auto
    PortRange,  \* definition.port.range: the ports of a service's range
    Canonical,  \* definition.port.default
    MaxAttempts,\* MAX_PORT_ALLOCATION_ATTEMPTS
    MaxRuns,   \* bound: allocations started
    MaxOthers   \* bound: changes of the ports other programs use, and removals

AutoPort == 0
Unpinned == -1
Asked == {r.port : r \in UNION {ToSet(q) : q \in Requests}} \ {AutoPort}
Ports == Asked \cup UNION {PortRange[s] : s \in PortServices}

ASSUME PortAssumption ==
    /\ Requests \subseteq Seq([service : PortServices, port : Nat])
    /\ \A q \in Requests : \A i, j \in 1..Len(q) : q[i].service = q[j].service => i = j
    /\ PortRange \in [PortServices -> SUBSET (Nat \ {0})]
    /\ Canonical \in [PortServices -> Nat]
    /\ MaxAttempts \in Nat \ {0}
    /\ MaxRuns \in Nat
    /\ MaxOthers \in Nat

VARIABLES
    pins,    \* StateFile.stacks[stack].ports, Unpinned where there is none
    busy,    \* ports something else is bound to on 127.0.0.1
    job,     \* the allocation a caller is in
    writes,  \* history: changes of the pins so far
    runs,
    others

portVars == <<pins, busy, job, writes, runs, others>>

NoPins == [s \in PortServices |-> Unpinned]
PinMap == [PortServices -> Ports \cup {Unpinned}]

IdleRun == [pc |-> "idle", stack |-> "none", request |-> << >>, todo |-> {},
            seen |-> << >>, ports |-> NoPins, probed |-> {}, attempt |-> 0, since |-> 0]

Held(m) == {m[s] : s \in PortServices} \ {Unpinned}

(* portsReservedByOtherStacks *)
Reserved(state, st) == UNION {Held(state[t]) : t \in PinStacks \ {st}}

(* samePins: the stack's own pins are the ones that were read. *)
SamePins(state, snapshot, st) == state[st] = snapshot[st]

(* Faulty: the stack's own pins are not looked at again. *)
ValidForOthers(state, snapshot, st, ports) == Held(ports) \cap Reserved(state, st) = {}

IsStillValid(state, snapshot, st, ports) ==
    /\ Held(ports) \cap Reserved(state, st) = {}
    /\ SamePins(state, snapshot, st)

(* UNIQUE(port) *)
NoPortTwice(state) ==
    \A st, t \in PinStacks, a, b \in PortServices :
      state[st][a] # Unpinned /\ state[st][a] = state[t][b] => st = t /\ a = b

(* The pins of auto services that are still theirs to keep, known once the
   fixed ports are claimed. *)
Fixed(r) == r.port # AutoPort
KeptPins(j) ==
    {j.seen[j.stack][r.service] : r \in {q \in ToSet(j.request) : ~Fixed(q)}}
      \ (UNION {{Unpinned}, Reserved(j.seen, j.stack),
                {q.port : q \in {q \in ToSet(j.request) : Fixed(q)}}})

Candidates(j, s) ==
    PortRange[s] \ UNION {{Canonical[s]}, Held(j.ports), KeptPins(j), j.probed,
                      Reserved(j.seen, j.stack)}
Lowest(S) == {p \in S : \A q \in S : p <= q}

(* Whose turn it is: fixed ports come first, each group in plan order. *)
Due(j) ==
    {i \in j.todo : \A k \in j.todo :
       IF Fixed(j.request[i]) = Fixed(j.request[k]) THEN i <= k ELSE Fixed(j.request[i])}

InitPorts ==
    /\ pins = [st \in PinStacks |-> NoPins]
    /\ busy = {}
    /\ job = [c \in Allocators |-> IdleRun]
    /\ writes = 0
    /\ runs = 0
    /\ others = 0

-----------------------------------------------------------------------------
ReturnRun(c) == job' = [job EXCEPT ![c] = IdleRun]
PortsStay == UNCHANGED <<pins, busy, writes, runs, others>>

(* provisionStack: the services of a stack, in the order of the plan. *)
BeginRun(c) ==
    /\ job[c].pc = "idle"
    /\ runs < MaxRuns
    /\ runs' = runs + 1
    /\ \E st \in PinStacks, q \in Requests :
         job' = [job EXCEPT ![c] = [IdleRun EXCEPT !.pc = "read", !.stack = st, !.request = q,
                                               !.attempt = 1, !.since = writes]]
    /\ UNCHANGED <<pins, busy, writes, others>>

ReadState(c) ==
    /\ job[c].pc = "read"
    /\ job' = [job EXCEPT ![c].pc = "choose", ![c].seen = pins, ![c].ports = NoPins,
                          ![c].todo = DOMAIN job[c].request]
    /\ PortsStay

Take(c, i, p) ==
    job' = [job EXCEPT ![c].ports[job[c].request[i].service] = p, ![c].todo = @ \ {i},
                       ![c].probed = {}]

(* A fixed port is refused when this stack or another one has it, and probed
   unless it is this service's pin. *)
TakeFixed(c) ==
    LET j == job[c] IN
    /\ j.pc = "choose"
    /\ \E i \in Due(j) :
         LET r == j.request[i] IN
         /\ Fixed(r)
         /\ IF r.port \in Held(j.ports) \cup Reserved(j.seen, j.stack)
                 \/ (j.seen[j.stack][r.service] # r.port /\ r.port \in busy)
            THEN ReturnRun(c)
            ELSE Take(c, i, r.port)
    /\ PortsStay

KeepPin(c) ==
    LET j == job[c] IN
    /\ j.pc = "choose"
    /\ \E i \in Due(j) :
         LET pin == j.seen[j.stack][j.request[i].service] IN
         /\ ~Fixed(j.request[i])
         /\ pin \in KeptPins(j) \ Held(j.ports)
         /\ Take(c, i, pin)
    /\ PortsStay

(* The lowest free port of the range, one probe at a time. *)
Probe(c) ==
    LET j == job[c] IN
    /\ j.pc = "choose"
    /\ \E i \in Due(j) :
         LET s == j.request[i].service
             left == Candidates(j, s)
         IN
         /\ ~Fixed(j.request[i])
         /\ j.seen[j.stack][s] \notin KeptPins(j) \ Held(j.ports)
         /\ \/ left = {} /\ ReturnRun(c)
            \/ \E p \in Lowest(left) :
                 IF p \in busy THEN job' = [job EXCEPT ![c].probed = @ \cup {p}]
                               ELSE Take(c, i, p)
    /\ PortsStay

(* The update: pin the choice, or start over when the state has moved on.
   The new pins replace the stack's whole map.  PORT_CONFLICT from the store's
   own guard ends the call too: it stays marked with it. *)
Pin(c) ==
    LET j == job[c]
        next == [pins EXCEPT ![j.stack] = j.ports]
    IN
    /\ j.pc = "choose"
    /\ j.todo = {}
    /\ IF ~IsStillValid(pins, j.seen, j.stack, j.ports)
       THEN /\ UNCHANGED <<pins, writes>>
            /\ IF j.attempt = MaxAttempts THEN ReturnRun(c)
               ELSE job' = [job EXCEPT ![c].pc = "read", ![c].attempt = @ + 1,
                                       ![c].probed = {}]
       ELSE IF NoPortTwice(next)
       THEN /\ pins' = next
            /\ writes' = IF next = pins THEN writes ELSE writes + 1
            /\ ReturnRun(c)
       ELSE /\ UNCHANGED <<pins, writes>>
            /\ job' = [job EXCEPT ![c].pc = "conflict"]
    /\ UNCHANGED <<busy, runs, others>>

(* The state cannot be read or written: IO. *)
FailRun(c) == job[c].pc \in {"read", "choose"} /\ ReturnRun(c) /\ PortsStay

(* removeService gives the pin of one service up. *)
Release ==
    /\ others < MaxOthers
    /\ others' = others + 1
    /\ \E st \in PinStacks, s \in PortServices :
         pins[st][s] # Unpinned /\ pins' = [pins EXCEPT ![st][s] = Unpinned]
    /\ writes' = writes + 1
    /\ UNCHANGED <<busy, job, runs>>

(* Other programs bind and free ports, containers of the stacks included. *)
BindOrFree ==
    /\ others < MaxOthers
    /\ others' = others + 1
    /\ \E p \in Ports : busy' = IF p \in busy THEN busy \ {p} ELSE busy \cup {p}
    /\ UNCHANGED <<pins, job, writes, runs>>

Allocate(c) == BeginRun(c) \/ ReadState(c) \/ TakeFixed(c) \/ KeepPin(c) \/ Probe(c)
               \/ Pin(c) \/ FailRun(c)
PortsNext == (\E c \in Allocators : Allocate(c)) \/ Release \/ BindOrFree

PortsSpec == InitPorts /\ [][PortsNext]_portVars

-----------------------------------------------------------------------------
(* Properties *)

Jobs == [pc : {"idle", "read", "choose", "conflict"}, stack : PinStacks \cup {"none"},
         request : Requests \cup {<< >>}, todo : SUBSET Nat,
         seen : [PinStacks -> PinMap] \cup {<< >>}, ports : PinMap, probed : SUBSET Ports,
         attempt : 0..MaxAttempts, since : Nat]

PortsTypeOK ==
    /\ pins \in [PinStacks -> PinMap]
    /\ busy \subseteq Ports
    /\ job \in [Allocators -> Jobs]
    /\ writes \in Nat
    /\ runs \in 0..MaxRuns
    /\ others \in 0..MaxOthers

(* No port is pinned twice on the machine, and it is the allocator that sees to
   it: what passes its validation never meets the store's UNIQUE(port). *)
PinsDistinct ==
    /\ NoPortTwice(pins)
    /\ \A c \in Allocators : job[c].pc # "conflict"

(* An allocation starts over only because the pins really changed under it, so
   it gives up only after as many changes by others as it made attempts. *)
RetriesPaidFor ==
    \A c \in Allocators : job[c].pc # "idle" => job[c].attempt - 1 <= writes - job[c].since

(* Automatic ports are stable: a service that stays in its stack with an
   automatic port keeps the port it has, unless a fixed request of the same
   stack takes it.  Restarting a stack never moves a database elsewhere. *)
PortsStable ==
    [][\A c \in Allocators :
         job[c].pc = "choose" /\ job[c].todo = {} /\ pins' # pins
             /\ job'[c] # job[c] =>
           \A r \in ToSet(job[c].request) :
             LET pin == pins[job[c].stack][r.service] IN
             /\ ~Fixed(r)
             /\ pin # Unpinned
             /\ \A q \in ToSet(job[c].request) : q.port # pin
             => pins'[job[c].stack][r.service] = pin]_portVars

(* What is pinned is pinned once and stays (allocator.ts, sqlite-state-store.ts). *)
PinsHold == []PinsDistinct /\ PortsStable
=============================================================================
