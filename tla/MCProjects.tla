------------------------------ MODULE MCProjects ------------------------------
(***************************************************************************)
(* What the projects of one machine share: their names (ProjectRegistry)   *)
(* and their host ports (PortAllocation).  Both are kept by one database   *)
(* and neither reads the other, so a behaviour is of one of them.          *)
(*                                                                         *)
(* Names: two folders, two operations at a time; ls-shop-api-db is the     *)
(* container of service api-db of shop and of service db of shop-api.      *)
(* Ports: two stacks whose services draw from one small range: an          *)
(* automatic service in front of one that may hold a pin, a fixed port,    *)
(* and a single service.                                                   *)
(***************************************************************************)
EXTENDS ProjectRegistry, PortAllocation, TLC

VARIABLE scenario

shop == <<"shop">>
shopApi == <<"shop", "api">>
db == <<"db">>
apiDb == <<"api", "db">>

MCNames == {shop, shopApi}
MCServices == {db, apiDb}
MCTexts == {Missing, Invalid, Stack(shop, {apiDb}), Stack(shopApi, {db})}

a == "a"
b == "b"
MCRange == [s \in {a, b} |-> 1..3]
MCCanonical == [s \in {a, b} |-> IF s = a THEN 2 ELSE 9]
Ask(s, p) == [service |-> s, port |-> p]
MCRequests == {<<Ask(b, AutoPort)>>, <<Ask(a, AutoPort), Ask(b, AutoPort)>>, <<Ask(a, AutoPort), Ask(b, 2)>>}

Symmetry == Permutations(Callers) \cup Permutations(PinStacks)

MCInit ==
  /\ scenario \in {"names", "ports"}
  /\ Init /\ InitPorts
  /\ scenario = "ports" => file = [r \in Roots |-> Missing]

MCNext ==
  /\ \/ scenario = "names" /\ Next /\ UNCHANGED portVars
     \/ scenario = "ports" /\ PortsNext /\ UNCHANGED vars
  /\ UNCHANGED scenario

MCSpec == MCInit /\ [][MCNext]_<<vars, portVars, scenario>>

(* MCRegistryDown.cfg: one operation at a time and no edits: a project is started and
   unregistered, and another folder with the same name runs `down --volumes`. *)
DownNames == {shop}
DownServices == {db}
DownTexts == {Stack(shop, {db})}
DownSpec == (MCInit /\ scenario = "names") /\ [][MCNext]_<<vars, portVars, scenario>>
=============================================================================
