------------------------------ MODULE FileLock ------------------------------
(***************************************************************************)
(* acquireFileLock (file-lock.ts): an exclusive lock between processes, a  *)
(* file created by a hard link with its owner's pid and token inside.      *)
(* Within a process the callers queue in memory, so that one of them at a  *)
(* time competes for the file.  A lock whose process is gone is taken over:*)
(* renamed aside, looked at again, and linked back when it turns out to be *)
(* somebody else's live lock.                                              *)
(*                                                                         *)
(* An action is one file system call; a process may die between any two.   *)
(***************************************************************************)
EXTENDS Integers, Sequences, FiniteSets

CONSTANTS
    Calls,      \* acquisitions, each with a token of its own
    Procs,      \* processes
    Home,       \* the process that makes a call
    Leftovers,  \* the locks that processes of the past may have left behind
    MaxCrashes  \* bound: processes that die

NoLock == "no lock"
Dead == "dead"   \* the token of a process that is gone before the start

ASSUME LockAssumption ==
    /\ Home \in [Calls -> Procs]
    /\ Leftovers \subseteq {NoLock, Dead}
    /\ NoLock \notin Calls /\ Dead \notin Calls
    /\ MaxCrashes \in Nat

VARIABLES
    lock,     \* whose token lockPath holds
    pc,       \* where a call is
    queue,    \* localQueues: the calls of each process in the order they came
    moved,    \* the file a call renamed aside
    expired,  \* calls whose deadline has passed
    alive     \* processes that run

lockVars == <<lock, pc, queue, moved, expired, alive>>

Tokens == Calls \cup {NoLock, Dead}
Before(c) == {queue[Home[c]][i] : i \in {i \in DOMAIN queue[Home[c]] :
                \E k \in DOMAIN queue[Home[c]] : i < k /\ queue[Home[c]][k] = c}}
Left(c) == pc[c] \in {"done", "failed"}

(* queue.ready: every earlier caller of the process has left. *)
Ready(c) == \A d \in Before(c) : Left(d)

(* isAbandoned: the process named in the file is gone.  No file: not abandoned. *)
Abandoned(token) == token = Dead \/ (token \in Calls /\ Home[token] \notin alive)

LockInit ==
    /\ lock \in Leftovers
    /\ pc = [c \in Calls |-> "idle"]
    /\ queue = [p \in Procs |-> << >>]
    /\ moved = [c \in Calls |-> NoLock]
    /\ expired = {}
    /\ alive = Procs

-----------------------------------------------------------------------------
Runs(c, at) == pc[c] = at /\ Home[c] \in alive
Goto(c, to) == pc' = [pc EXCEPT ![c] = to]

(* joinLocalQueue *)
Join(c) ==
    /\ Runs(c, "idle")
    /\ Goto(c, "wait")
    /\ queue' = [queue EXCEPT ![Home[c]] = Append(@, c)]
    /\ UNCHANGED <<lock, moved, expired, alive>>

(* The turn of the call comes, or its deadline does: it then gives up, and
   those behind it still wait for those before it. *)
Wait(c) ==
    /\ Runs(c, "wait")
    /\ \/ Ready(c) /\ Goto(c, "create")
       \/ c \in expired /\ Goto(c, "failed")
    /\ UNCHANGED <<lock, queue, moved, expired, alive>>

(* tryCreate: link fails when there is a file. *)
Create(c) ==
    /\ Runs(c, "create")
    /\ IF lock = NoLock
       THEN lock' = c /\ Goto(c, "held") /\ expired' = expired \ {c}
       ELSE UNCHANGED <<lock, expired>> /\ Goto(c, "check")
    /\ UNCHANGED <<queue, moved, alive>>

(* Faulty: a caller that meets a live owner is not woken again. *)
CheckOnce(c) ==
    /\ Runs(c, "check")
    /\ Abandoned(lock) /\ Goto(c, "rename")
    /\ UNCHANGED <<lock, queue, moved, expired, alive>>

(* An abandoned lock is taken over; else the call sleeps, until its deadline. *)
Check(c) ==
    /\ Runs(c, "check")
    /\ \/ Abandoned(lock) /\ Goto(c, "rename")
       \/ ~Abandoned(lock) /\ Goto(c, IF c \in expired THEN "failed" ELSE "create")
    /\ UNCHANGED <<lock, queue, moved, expired, alive>>

(* takeOver renames whatever is there by now. *)
Rename(c) ==
    /\ Runs(c, "rename")
    /\ lock' = NoLock
    /\ moved' = [moved EXCEPT ![c] = lock]
    /\ Goto(c, IF lock = NoLock THEN "create" ELSE "judge")
    /\ UNCHANGED <<queue, expired, alive>>

Judge(c) ==
    /\ Runs(c, "judge")
    /\ Goto(c, IF Abandoned(moved[c]) THEN "discard" ELSE "restore")
    /\ UNCHANGED <<lock, queue, moved, expired, alive>>

(* A live lock goes back, unless there is a new one. *)
Restore(c) ==
    /\ Runs(c, "restore")
    /\ lock' = IF lock = NoLock THEN moved[c] ELSE lock
    /\ Goto(c, "discard")
    /\ UNCHANGED <<queue, moved, expired, alive>>

Discard(c) ==
    /\ Runs(c, "discard")
    /\ moved' = [moved EXCEPT ![c] = NoLock]
    /\ Goto(c, "create")
    /\ UNCHANGED <<lock, queue, expired, alive>>

(* releaseIfOwned: read the owner, and remove the file if it is this call. *)
Release(c) ==
    /\ Runs(c, "leaving")
    /\ Goto(c, IF lock = c THEN "remove" ELSE "done")
    /\ UNCHANGED <<lock, queue, moved, expired, alive>>

RemoveOwn(c) ==
    /\ Runs(c, "remove")
    /\ lock' = NoLock
    /\ Goto(c, "done")
    /\ UNCHANGED <<queue, moved, expired, alive>>

(* The deadline of a call passes.  Passing while the call takes a lock over is
   passing before its next attempt. *)
Expire(c) ==
    /\ pc[c] \in {"wait", "create", "check"}
    /\ c \notin expired
    /\ expired' = expired \cup {c}
    /\ UNCHANGED <<lock, pc, queue, moved, alive>>

(* A process dies with everything it was doing. *)
Crash(p) ==
    /\ p \in alive
    /\ Cardinality(Procs \ alive) < MaxCrashes
    /\ alive' = alive \ {p}
    /\ UNCHANGED <<lock, pc, queue, moved, expired>>

LockStep(c) ==
    \/ Join(c) \/ Wait(c) \/ Create(c) \/ Check(c) \/ Rename(c) \/ Judge(c)
    \/ Restore(c) \/ Discard(c) \/ Release(c) \/ RemoveOwn(c)

-----------------------------------------------------------------------------
(* Properties *)

Steps == {"idle", "wait", "create", "check", "rename", "judge", "restore", "discard",
          "held", "update", "leaving", "remove", "done", "failed"}
LockTypeOK ==
    /\ lock \in Tokens
    /\ pc \in [Calls -> Steps]
    /\ queue \in [Procs -> Seq(Calls)]
    /\ moved \in [Calls -> Tokens]
    /\ expired \subseteq Calls
    /\ alive \subseteq Procs

(* What a call does between acquiring the lock and removing it. *)
HoldsLock(c) == pc[c] \in {"held", "update", "leaving", "remove"} /\ Home[c] \in alive

(* At most one call is between acquiring the lock and releasing it. *)
Exclusive == \A c, d \in Calls : HoldsLock(c) /\ HoldsLock(d) => c = d
=============================================================================
