---------------------------- MODULE SecretStore ----------------------------
(***************************************************************************)
(* The secrets file of a stack (secret-store.ts): update reads it, changes *)
(* it and writes it back under the lock of FileLock.  ensureSecrets        *)
(* generates what is missing; rotation, chosen values and a restored       *)
(* snapshot set secrets; a service removed with its volumes is forgotten.  *)
(***************************************************************************)
EXTENDS FileLock

CONSTANTS
    Keys,    \* secrets of the stack
    Wishes   \* what a call may be: [op : {"ensure", "set", "forget"}, keys : SUBSET Keys]

NoValue == "none"

ASSUME SecretAssumption ==
    /\ Wishes \subseteq [op : {"ensure", "set", "forget"}, keys : SUBSET Keys]
    /\ NoValue \notin Calls

VARIABLES
    stored,  \* the file: each secret's value, named after the call that made it
    seen,    \* what a call read
    wish     \* what a call is

vars == <<lockVars, stored, seen, wish>>

Values == Calls \cup {NoValue}
Nothing == [k \in Keys |-> NoValue]

Init ==
    /\ LockInit
    /\ stored = Nothing
    /\ seen = [c \in Calls |-> Nothing]
    /\ wish \in [Calls -> Wishes]

(* Faulty: secrets that the call does not name are dropped. *)
MutatedAlone(c, current) ==
    [k \in Keys |->
       IF k \notin wish[c].keys \/ wish[c].op = "forget" THEN NoValue
       ELSE IF wish[c].op = "ensure" /\ current[k] # NoValue THEN current[k] ELSE c]

(* mutate: what the call makes of the current secrets. *)
Mutated(c, current) ==
    [k \in Keys |->
       IF k \notin wish[c].keys THEN current[k]
       ELSE CASE wish[c].op = "ensure" -> IF current[k] = NoValue THEN c ELSE current[k]
              [] wish[c].op = "set"    -> c
              [] wish[c].op = "forget" -> NoValue]

-----------------------------------------------------------------------------
ReadSecrets(c) ==
    /\ Runs(c, "held")
    /\ Goto(c, "update")
    /\ seen' = [seen EXCEPT ![c] = stored]
    /\ UNCHANGED <<lock, queue, moved, expired, alive, stored, wish>>

(* The file is replaced by one rename; nothing is written when nothing was
   generated, and a failed write leaves it as it was.  The lock is released
   in every case. *)
WriteSecrets(c) ==
    /\ Runs(c, "update")
    /\ stored' \in {stored, Mutated(c, seen[c])}
    /\ seen' = [seen EXCEPT ![c] = Nothing]
    /\ Goto(c, "leaving")
    /\ UNCHANGED <<lock, queue, moved, expired, alive, wish>>

Call(c) ==
    \/ LockStep(c) /\ UNCHANGED <<stored, seen, wish>>
    \/ ReadSecrets(c)
    \/ WriteSecrets(c)

TimePasses(c) == Expire(c) /\ UNCHANGED <<stored, seen, wish>>
ProcessDies(p) == Crash(p) /\ UNCHANGED <<stored, seen, wish>>

(* Every call has settled, or died with its process. *)
Quiet ==
    /\ \A c \in Calls : Left(c) \/ Home[c] \notin alive
    /\ UNCHANGED vars

Next ==
    \/ \E c \in Calls : Call(c) \/ TimePasses(c)
    \/ \E p \in Procs : ProcessDies(p)
    \/ Quiet

(* A call that can go on does, and its deadline comes. *)
Fairness == \A c \in Calls : WF_vars(Call(c)) /\ WF_vars(TimePasses(c))

Spec == Init /\ [][Next]_vars /\ Fairness

-----------------------------------------------------------------------------
(* Properties *)

TypeOK ==
    /\ LockTypeOK
    /\ stored \in [Keys -> Values]
    /\ seen \in [Calls -> [Keys -> Values]]
    /\ wish \in [Calls -> Wishes]

(* A stored secret changes only through a call that means to change it: it is
   never generated a second time and never lost to another call's write. *)
SecretsKept ==
    [][\A k \in Keys :
         stored[k] # NoValue /\ stored'[k] # stored[k] =>
           \E c \in Calls : /\ pc[c] = "update" /\ pc'[c] = "leaving"
                            /\ wish[c].op # "ensure" /\ k \in wish[c].keys]_vars

(* Every update of a process that lives ends, with the secrets or with the
   time-out, whoever died with the lock. *)
EveryCallSettles ==
    \A c \in Calls : <>(Left(c) \/ Home[c] \notin alive)

(* Two calls never hold the lock of the secrets, and so no update overwrites what
   another stored (file-lock.ts, FileSecretStore.update). *)
UpdatesSerial == []Exclusive /\ SecretsKept
=============================================================================
