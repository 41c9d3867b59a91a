---------------------------- MODULE MCOpRegistry ----------------------------
(* Two operations with a reader that comes at any moment, a registry that holds
   one and a buffer of one event; or three jobs and no reader, so that a third
   can join the lane while the second runs and the first one's promise is
   dropped.  Two projects would only run side by side. *)
EXTENDS OpRegistry

Bounded ==
    started = 3 =>
        /\ clock = 0
        /\ \A c \in Clients : client[c].phase = "idle"
        /\ \A j \in Jobs : "step" \notin {pushed[j][i] : i \in DOMAIN pushed[j]}

MCSpec == Init /\ [][Next /\ Bounded']_vars /\ \A j \in Jobs : WF_vars(JobStep(j))
=============================================================================
