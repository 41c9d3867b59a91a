--------------------------- MODULE MCSecretStore ---------------------------
EXTENDS SecretStore

(* A server with two updates and a command with one, after a process that died
   with the lock; one of the two may die as well. *)
MCHome == [c \in Calls |-> IF c = "cli" THEN "command" ELSE "server"]
MCWishes == {[op |-> "ensure", keys |-> {"db", "cache"}], [op |-> "set", keys |-> {"db"}],
             [op |-> "forget", keys |-> {"cache"}]}
MCLeftovers == {NoLock, Dead}

(* MCSecretRace.cfg: a server and two commands, after a process that died with the lock. *)
RaceHome == [c \in Calls |-> c]
RaceWishes == {[op |-> "ensure", keys |-> {"db"}]}
RaceLeftovers == {Dead}
=============================================================================
