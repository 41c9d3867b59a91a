---------------------------- MODULE ProjectLane ----------------------------
(***************************************************************************)
(* What the server promises about mutating work on one project: jobs run   *)
(* one at a time, in the order they were handed in.  This is the contract  *)
(* `ProjectLane` and `OpStartInput.project` state in op-registry.ts; the   *)
(* registry itself keeps no queue, only the tail of a promise chain, and   *)
(* OpRegistry shows that the chain implements this queue.                  *)
(***************************************************************************)
EXTENDS Naturals, Sequences

CONSTANTS
    Jobs,        \* pieces of work
    Projects     \* projects, one lane each

VARIABLES
    queue,       \* [Projects -> Seq(Jobs)]: jobs not finished, oldest first
    busy         \* projects whose oldest job has begun

laneVars == <<queue, busy>>

Init ==
    /\ queue = [p \in Projects |-> << >>]
    /\ busy = {}

(* A job joins the lane of its project behind every job already there. *)
Join(p, j) ==
    /\ \A q \in Projects : \A i \in 1..Len(queue[q]) : queue[q][i] # j
    /\ queue' = [queue EXCEPT ![p] = Append(@, j)]
    /\ UNCHANGED busy

(* The oldest job of an idle lane begins. *)
Begin(p) ==
    /\ p \notin busy
    /\ queue[p] # << >>
    /\ busy' = busy \cup {p}
    /\ UNCHANGED queue

(* The job that runs leaves, and the next one may begin. *)
End(p) ==
    /\ p \in busy
    /\ busy' = busy \ {p}
    /\ queue' = [queue EXCEPT ![p] = Tail(@)]

Next ==
    \E p \in Projects :
        \/ \E j \in Jobs : Join(p, j)
        \/ Begin(p)
        \/ End(p)

Spec == Init /\ [][Next]_laneVars
=============================================================================
