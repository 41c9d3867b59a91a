--------------------------- MODULE ProjectsProofs ---------------------------
(***************************************************************************)
(* What projects must not take from each other: names (ProjectRegistry)    *)
(* and host ports (PortAllocation).                                        *)
(***************************************************************************)
EXTENDS ProjectRegistry, PortAllocation, SequenceTheorems, TLAPS

-----------------------------------------------------------------------------
(***************************************************************************)
(* Who may use a project name, for any number of operations in flight,     *)
(* folders, names and edits.                                               *)
(***************************************************************************)
(* The registry read or written by a caller names a folder, or none. *)
LEMMA OwnerType == \A n : Owner(n) \in Roots \cup {NoRoot}
  BY DEF Owner

LEMMA OwnerRegistered ==
    ASSUME NEW n, Owner(n) # NoRoot
    PROVE  Owner(n) \in Roots /\ Registered(Owner(n), n)
  BY DEF Owner

(* The folder of an entry is the owner of its name. *)
LEMMA OwnerUnique ==
    ASSUME OneFolderPerName, NEW n, NEW r \in Roots, Registered(r, n)
    PROVE  Owner(n) = r
  <1>1. r # NoRoot
    BY RegistryAssumption
  <1>2. \E q \in Roots : Registered(q, n)
    OBVIOUS
  <1>3. Owner(n) \in Roots /\ Registered(Owner(n), n)
    BY <1>2 DEF Owner
  <1> DEFINE e == [name |-> n, root |-> r]
             f == [name |-> n, root |-> Owner(n)]
  <1>4. e \in projects /\ f \in projects /\ e.name = f.name
    BY <1>3 DEF Registered
  <1>5. e.root = f.root
    BY <1>4 DEF OneFolderPerName
  <1> QED BY <1>5

-----------------------------------------------------------------------------
(* Type correctness *)

(* The state of the calls alone. *)
CallOK ==
    /\ call \in [Callers -> Calls]
    /\ \A c \in Callers : Placed(call[c])

LEMMA IdleType == Idle \in Calls
  BY DEF Idle, Calls, Placed

(* A call that returns, or moves to another step with its folder, is well typed. *)
LEMMA ReturnType ==
    ASSUME CallOK, NEW c \in Callers, Return(c)
    PROVE  CallOK'
  BY IdleType DEF CallOK, Return, Idle, Placed

LEMMA MoveType ==
    ASSUME CallOK, NEW c \in Callers, NEW rec \in Calls,
           call' = [call EXCEPT ![c] = rec],
           Placed(rec)
    PROVE  CallOK'
  BY DEF CallOK

PcValues == {"idle", "find", "load", "free", "vacant", "owner", "stale", "others",
             "files", "write", "save", "rollback", "compose"}

LEMMA GotoType ==
    ASSUME CallOK, NEW c \in Callers, NEW to \in PcValues, Goto(c, to),
           call[c].root \in Roots, call[c].name \in Names
    PROVE  CallOK'
  BY DEF CallOK, Goto, Calls, PcValues, Placed

LEMMA GrantedType ==
    ASSUME CallOK, NEW c \in Callers, Granted(c), call[c].root \in Roots,
           call[c].name \in Names
    PROVE  CallOK'
  <1>1. CASE call[c].op = "register"
    BY <1>1, ReturnType DEF Granted
  <1>2. CASE call[c].op # "register"
    <2>1. CASE call[c].op = "create"
      <3>1. Goto(c, "save")
        BY <1>2, <2>1 DEF Granted
      <3> QED BY <3>1, GotoType DEF PcValues
    <2>2. CASE call[c].op # "create"
      <3>1. Goto(c, "compose")
        BY <1>2, <2>2 DEF Granted
      <3> QED BY <3>1, GotoType DEF PcValues
    <2> QED BY <2>1, <2>2
  <1> QED BY <1>1, <1>2

LEMMA CheckOthersType ==
    ASSUME CallOK, NEW c \in Callers, NEW r \in Roots \cup {NoRoot}, CheckOthers(c, r),
           call[c].root \in Roots, call[c].name \in Names
    PROVE  CallOK'
  <1>1. PICK to \in {"write", "others"} :
          call' = [call EXCEPT ![c].stale = r, ![c].pc = to]
    BY DEF CheckOthers
  <1>2. call[c] \in Calls
    BY DEF CallOK
  <1> DEFINE rec == [call[c] EXCEPT !.stale = r, !.pc = to]
  <1>3. rec \in Calls /\ Placed(rec)
    BY <1>2 DEF Calls, Placed
  <1>4. call' = [call EXCEPT ![c] = rec]
    BY <1>1 DEF CallOK
  <1> QED BY <1>3, <1>4, MoveType

LEMMA BeginType ==
    ASSUME CallOK, NEW c \in Callers, Begin(c)
    PROVE  CallOK'
  <1>1. PICK o \in Ops, n \in Names :
         \/ /\ o \in {"up", "down"}
            /\ \E r \in Roots : call' = [call EXCEPT ![c] =
                 [Idle EXCEPT !.op = o, !.pc = "load", !.root = r]]
         \/ /\ o \in {"up", "down"}
            /\ call' = [call EXCEPT ![c] = [Idle EXCEPT !.op = o, !.pc = "find", !.name = n]]
         \/ /\ o \in {"register", "create"}
            /\ \E r \in Roots : call' = [call EXCEPT ![c] =
                 [Idle EXCEPT !.op = o, !.root = r, !.name = n,
                              !.pc = IF o = "create" THEN "free" ELSE "load"]]
         \/ /\ o = "unregister"
            /\ call' = [call EXCEPT ![c] = [Idle EXCEPT !.op = o, !.pc = "write", !.name = n]]
    BY DEF Begin
  <1>2. ASSUME NEW r \in Roots,
               call' = [call EXCEPT ![c] = [Idle EXCEPT !.op = o, !.pc = "load", !.root = r]]
        PROVE  CallOK'
    <2> DEFINE rec == [Idle EXCEPT !.op = o, !.pc = "load", !.root = r]
    <2>1. rec \in Calls /\ Placed(rec)
      BY DEF Idle, Calls, Placed
    <2> QED BY <1>2, <2>1, MoveType
  <1>3. ASSUME call' = [call EXCEPT ![c] = [Idle EXCEPT !.op = o, !.pc = "find", !.name = n]]
        PROVE  CallOK'
    <2> DEFINE rec == [Idle EXCEPT !.op = o, !.pc = "find", !.name = n]
    <2>1. rec \in Calls /\ Placed(rec)
      BY DEF Idle, Calls, Placed
    <2> QED BY <1>3, <2>1, MoveType
  <1>4. ASSUME NEW r \in Roots,
               call' = [call EXCEPT ![c] =
                 [Idle EXCEPT !.op = o, !.root = r, !.name = n,
                              !.pc = IF o = "create" THEN "free" ELSE "load"]]
        PROVE  CallOK'
    <2> DEFINE rec == [Idle EXCEPT !.op = o, !.root = r, !.name = n,
                              !.pc = IF o = "create" THEN "free" ELSE "load"]
    <2>1. rec \in Calls /\ Placed(rec)
      BY DEF Idle, Calls, Placed
    <2> QED BY <1>4, <2>1, MoveType
  <1>5. ASSUME o = "unregister",
               call' = [call EXCEPT ![c] = [Idle EXCEPT !.op = o, !.pc = "write", !.name = n]]
        PROVE  CallOK'
    <2> DEFINE rec == [Idle EXCEPT !.op = o, !.pc = "write", !.name = n]
    <2>1. rec \in Calls /\ Placed(rec)
      BY <1>5 DEF Idle, Calls, Placed
    <2> QED BY <1>5, <2>1, MoveType
  <1> QED BY <1>1, <1>2, <1>3, <1>4, <1>5
(* A file that holds a stack names a project and services. *)
LEMMA StackContents ==
    ASSUME NEW t \in Contents, t.kind = "stack"
    PROVE  t.name \in Names /\ t.services \in SUBSET Services
  <1>1. t \in Stacks
    BY DEF Contents, Missing, Invalid
  <1>2. PICK n \in Names, S \in SUBSET Services : t = Stack(n, S)
    BY <1>1 DEF Stacks
  <1> QED BY <1>2 DEF Stack

(* Every step of a call leaves the calls well typed. *)
LEMMA StepType ==
    ASSUME CallOK, projects \subseteq Entries, file \in [Roots -> Contents],
           NEW c \in Callers, Step(c)
    PROVE  CallOK'
  <1>0. call[c] \in Calls
    BY DEF CallOK
  <1>1. CASE Begin(c)
    BY <1>1, BeginType
  <1>2. CASE FindProject(c)
    <2>1. CASE Owner(call[c].name) = NoRoot
      BY <1>2, <2>1, ReturnType DEF FindProject
    <2>2. CASE Owner(call[c].name) # NoRoot
      <3> DEFINE r == Owner(call[c].name)
                 rec == [call[c] EXCEPT !.pc = "load", !.root = r]
      <3>1. r \in Roots
        BY <2>2, OwnerType
      <3>2. rec \in Calls /\ Placed(rec)
        BY <1>0, <3>1 DEF Calls, Placed
      <3>3. call' = [call EXCEPT ![c].pc = "load", ![c].root = r]
        BY <1>2, <2>2 DEF FindProject
      <3>4. call' = [call EXCEPT ![c] = rec]
        BY <3>3 DEF CallOK
      <3> QED BY <3>2, <3>4, MoveType
    <2> QED BY <2>1, <2>2
  <1>3. CASE LoadStack(c)
    <2> DEFINE f == file[call[c].root]
               rec == [call[c] EXCEPT !.pc = "owner", !.name = f.name, !.services = f.services]
    <2>1. CASE f.kind = "stack" /\ call[c].name \in {<< >>, f.name}
      <3>1. call[c].root \in Roots
        BY <1>3 DEF LoadStack, CallOK, Placed
      <3>2. f \in Contents
        BY <3>1
      <3>3. f.name \in Names /\ f.services \in SUBSET Services
        BY <2>1, <3>2, StackContents
      <3>4. rec \in Calls /\ Placed(rec)
        BY <1>0, <3>1, <3>3 DEF Calls, Placed
      <3>5. call' = [call EXCEPT ![c] = rec]
        BY <1>3, <2>1 DEF LoadStack
      <3> QED BY <3>4, <3>5, MoveType
    <2>2. CASE ~(f.kind = "stack" /\ call[c].name \in {<< >>, f.name})
      BY <1>3, <2>2, ReturnType DEF LoadStack
    <2> QED BY <2>1, <2>2
  <1>4. CASE NameFree(c)
    BY <1>4, ReturnType, GotoType DEF NameFree, PcValues, CallOK, Placed
  <1>5. CASE FolderVacant(c)
    BY <1>5, ReturnType, GotoType DEF FolderVacant, PcValues, CallOK, Placed
  <1>6. CASE ReadOwner(c)
    <2> DEFINE owner == Owner(call[c].name)
    <2>1. call[c].root \in Roots /\ call[c].name \in Names
      BY <1>6 DEF ReadOwner, CallOK, Placed
    <2>2. CASE Granted(c)
      BY <2>1, <2>2, GrantedType
    <2>3. CASE CheckOthers(c, NoRoot)
      BY <2>1, <2>3, CheckOthersType
    <2>4. CASE call' = [call EXCEPT ![c].pc = "stale", ![c].stale = owner]
      <3> DEFINE rec == [call[c] EXCEPT !.pc = "stale", !.stale = owner]
      <3>1. rec \in Calls /\ Placed(rec)
        BY <1>0, <2>1, OwnerType DEF Calls, Placed
      <3>2. call' = [call EXCEPT ![c] = rec]
        BY <2>4 DEF CallOK
      <3> QED BY <3>1, <3>2, MoveType
    <2> QED BY <1>6, <2>2, <2>3, <2>4 DEF ReadOwner
  <1>7. CASE CheckStale(c)
    <2>1. call[c].root \in Roots /\ call[c].name \in Names /\ call[c].stale \in Roots \cup {NoRoot}
      BY <1>0, <1>7 DEF CheckStale, Calls, CallOK, Placed
    <2> QED BY <1>7, <2>1, GrantedType, CheckOthersType, ReturnType DEF CheckStale
  <1>8. CASE ReadOthers(c)
    <2> DEFINE rest == {e \in projects : e.name # call[c].name /\ e.root # call[c].root}
               rec == [call[c] EXCEPT !.todo = rest, !.pc = "files"]
    <2>1. rest \in SUBSET Entries
      OBVIOUS
    <2>2. rec \in Calls /\ Placed(rec)
      BY <1>0, <1>8, <2>1 DEF Calls, CallOK, Placed, ReadOthers
    <2>3. call' = [call EXCEPT ![c].todo = rest, ![c].pc = "files"]
      BY <1>8 DEF ReadOthers
    <2>4. call' = [call EXCEPT ![c] = rec]
      BY <2>3 DEF CallOK
    <2> QED BY <2>2, <2>4, MoveType
  <1>9. CASE ReadOther(c)
    <2>1. CASE Return(c)
      BY <2>1, ReturnType
    <2>2. ASSUME NEW e, call' = [call EXCEPT ![c].todo = @ \ {e}]
          PROVE  CallOK'
      <3> DEFINE rec == [call[c] EXCEPT !.todo = @ \ {e}]
      <3>1. rec \in Calls /\ Placed(rec)
        BY <1>0, <1>9 DEF Calls, CallOK, Placed, ReadOther
      <3>2. call' = [call EXCEPT ![c] = rec]
        BY <2>2 DEF CallOK
      <3> QED BY <3>1, <3>2, MoveType
    <2> QED BY <1>9, <2>1, <2>2 DEF ReadOther
  <1>10. CASE NoClash(c)
    BY <1>10, GotoType DEF NoClash, PcValues, CallOK, Placed
  <1>11. CASE WriteClaim(c)
    BY <1>11, GrantedType, ReturnType DEF WriteClaim, CallOK, Placed
  <1>12. CASE SaveFile(c)
    BY <1>12, ReturnType, GotoType DEF SaveFile, PcValues, CallOK, Placed
  <1>13. CASE Return(c)
    BY <1>13, ReturnType
  <1> QED
    BY <1>1, <1>2, <1>3, <1>4, <1>5, <1>6, <1>7, <1>8, <1>9, <1>10, <1>11, <1>12, <1>13
    DEF Step, Claim, Unregister, Rollback, ComposeUp, ComposeDown, Fail
-----------------------------------------------------------------------------
(* The type invariant *)

LEMMA TypeInit == Init => TypeOK
  <1> SUFFICES ASSUME Init PROVE TypeOK
    OBVIOUS
  <1>1. file \in [Roots -> Contents]
    BY RegistryAssumption DEF Init
  <1>2. call \in [Callers -> Calls] /\ \A c \in Callers : call[c].pc = "idle"
    BY IdleType DEF Init, Idle
  <1> QED BY <1>1, <1>2, RegistryAssumption DEF Init, TypeOK, Placed

LEMMA FileType ==
    ASSUME TypeOK, NEW c \in Callers, SaveFile(c)
    PROVE  file' \in [Roots -> Contents]
  <1>1. call[c].root \in Roots /\ call[c].name \in Names
    BY DEF TypeOK, SaveFile, Placed
  <1> QED BY <1>1 DEF TypeOK, SaveFile, Contents, Stacks, Stack
(* What a step of a call does to the state it shares with the others. *)
LEMMA SharedType ==
    ASSUME TypeOK, NEW c \in Callers, Step(c)
    PROVE  /\ file' \in [Roots -> Contents]
           /\ projects' \subseteq Entries
           /\ data' \in [Names -> Roots \cup {NoRoot}]
           /\ calls' \in 0..MaxCalls
           /\ edits' \in 0..MaxEdits
  <1>0. MaxCalls \in Nat /\ MaxEdits \in Nat
    BY RegistryAssumption
  <1>1. CASE Stays
    BY <1>1 DEF TypeOK, Stays
  <1>2. CASE Begin(c)
    <2>1. calls < MaxCalls /\ calls' = calls + 1 /\ UNCHANGED <<file, projects, data, edits>>
      BY <1>2 DEF Begin
    <2> QED BY <1>0, <2>1 DEF TypeOK
  <1>3. CASE WriteClaim(c)
    <2>1. call[c].root \in Roots /\ call[c].name \in Names
      BY <1>3 DEF TypeOK, Placed, WriteClaim
    <2>2. projects' \subseteq Entries
      BY <1>3, <2>1 DEF WriteClaim, TypeOK, Entries
    <2> QED BY <1>3, <2>2 DEF TypeOK, WriteClaim
  <1>4. CASE Unregister(c) \/ Rollback(c)
    BY <1>4 DEF TypeOK, Unregister, Rollback, DropName
  <1>5. CASE SaveFile(c)
    BY <1>5, FileType DEF TypeOK, SaveFile
  <1>6. CASE ComposeUp(c) \/ ComposeDown(c)
    <2>1. call[c].root \in Roots /\ call[c].name \in Names
      BY <1>6 DEF TypeOK, Placed, ComposeUp, ComposeDown
    <2> QED BY <1>6, <2>1 DEF TypeOK, ComposeUp, ComposeDown
  <1> QED
    BY <1>1, <1>2, <1>3, <1>4, <1>5, <1>6
    DEF Step, Claim, FindProject, LoadStack, NameFree, FolderVacant, ReadOwner, CheckStale,
        ReadOthers, ReadOther, NoClash, Fail

LEMMA RememberType ==
    ASSUME Remember
    PROVE  keeping' \in [Callers -> SUBSET Roots] /\ holding' \in [Callers -> SUBSET Roots]
  BY DEF Remember, Declaring

LEMMA TypeStep ==
    ASSUME TypeOK, [Next]_vars
    PROVE  TypeOK'
  <1>1. CASE UNCHANGED vars
    BY <1>1 DEF TypeOK, vars, history
  <1>2. ASSUME NEW c \in Callers, Step(c), Remember
        PROVE  TypeOK'
    <2>1. CallOK
      BY DEF TypeOK, CallOK
    <2>2. CallOK'
      BY <1>2, <2>1, StepType DEF TypeOK
    <2> QED BY <1>2, <2>2, SharedType, RememberType DEF TypeOK, CallOK
  <1>3. CASE EditFile /\ Remember
    <2>1. file' \in [Roots -> Contents]
      BY <1>3, RegistryAssumption DEF TypeOK, EditFile
    <2>2. edits' \in 0..MaxEdits
      BY <1>3, RegistryAssumption DEF TypeOK, EditFile
    <2> QED BY <1>3, <2>1, <2>2, RememberType DEF TypeOK, EditFile
  <1> QED BY <1>1, <1>2, <1>3 DEF Next

(* Every variable keeps its type: in particular no call past its lookup is
   without a folder or a name. *)
THEOREM RegistryTyped == Spec => []TypeOK
  <1>1. Init => TypeOK
    BY TypeInit
  <1>2. TypeOK /\ [Next]_vars => TypeOK'
    BY TypeStep
  <1> QED BY <1>1, <1>2, PTL DEF Spec

-----------------------------------------------------------------------------
(* One folder per name *)

LEMMA UniqueStep ==
    ASSUME TypeOK, OneFolderPerName, [Next]_vars
    PROVE  OneFolderPerName'
  <1>1. CASE UNCHANGED projects
    BY <1>1 DEF OneFolderPerName
  <1>2. ASSUME NEW c \in Callers, DropName(call[c].name)
        PROVE  OneFolderPerName'
    BY <1>2 DEF OneFolderPerName, DropName
  <1>3. ASSUME NEW c \in Callers, WriteClaim(c), projects' # projects
        PROVE  OneFolderPerName'
    <2> DEFINE name == call[c].name
               root == call[c].root
               new == [name |-> name, root |-> root]
               old == {e \in projects : e.name # name /\ e.root # root}
    <2>1. projects' = old \cup {new}
      BY <1>3 DEF WriteClaim
    <2>2. new.name = name /\ new.root = root
      OBVIOUS
    <2>3. \A e, f \in old : (e.name = f.name) <=> (e.root = f.root)
      BY DEF OneFolderPerName
    <2>4. \A e \in old : e.name # new.name /\ e.root # new.root
      BY <2>2
    <2> HIDE DEF new, old
    <2> QED BY <2>1, <2>3, <2>4 DEF OneFolderPerName
  <1> QED
    BY <1>1, <1>2, <1>3
    DEF Next, vars, Step, Claim, Begin, FindProject, LoadStack, NameFree, FolderVacant,
        ReadOwner, CheckStale, ReadOthers, ReadOther, NoClash, Unregister, SaveFile,
        Rollback, ComposeUp, ComposeDown, Fail, EditFile, Stays

(* However claims, takeovers, removals and rollbacks interleave, the registry
   binds a name to one folder and a folder to one name. *)
THEOREM NamesBoundOnce == Spec => []OneFolderPerName
  <1>1. Init => TypeOK /\ OneFolderPerName
    BY TypeInit DEF Init, OneFolderPerName
  <1>2. TypeOK /\ OneFolderPerName /\ [Next]_vars => TypeOK' /\ OneFolderPerName'
    BY TypeStep, UniqueStep
  <1> QED BY <1>1, <1>2, PTL DEF Spec
-----------------------------------------------------------------------------
(* Holders of a name are left alone *)

(* What a call knows of the folders that have held its name since it began.
   Only its own can have done so once it is past the owner check, or nobody. *)
CallKnows(c) ==
    /\ keeping[c] \subseteq Declaring(c)
    /\ holding[c] \subseteq keeping[c] \cap Owning(c)
    /\ call[c].pc = "stale" => holding[c] \subseteq {call[c].stale}
    /\ call[c].pc \in {"others", "files", "write"} /\ call[c].op # "unregister" =>
         holding[c] \subseteq {call[c].root} /\ call[c].stale \notin keeping[c]
    /\ call[c].pc = "compose" => holding[c] \subseteq {call[c].root}

HoldInv == TypeOK /\ OneFolderPerName /\ \A c \in Callers : CallKnows(c)

(* The history is cut down to what holds after the step, and only grows for a
   call that learns its name. *)
LEMMA Remembered ==
    ASSUME Remember, NEW c \in Callers
    PROVE  /\ keeping'[c] \subseteq Declaring(c)'
           /\ holding'[c] \subseteq Owning(c)'
           /\ call'[c].name = call[c].name =>
                keeping'[c] \subseteq keeping[c] /\ holding'[c] \subseteq holding[c]
  BY DEF Remember, Track

LEMMA RememberedWithin ==
    ASSUME Remember, NEW c \in Callers, holding[c] \subseteq keeping[c]
    PROVE  holding'[c] \subseteq keeping'[c]
  BY DEF Remember, Track

(* A call that does not move knows what it knew, whoever else moves. *)
LEMMA OthersKnow ==
    ASSUME HoldInv, Remember, NEW c \in Callers, call'[c] = call[c]
    PROVE  CallKnows(c)'
  <1>1. CallKnows(c)
    BY DEF HoldInv
  <1>2. /\ keeping'[c] \subseteq Declaring(c)' /\ holding'[c] \subseteq Owning(c)'
        /\ keeping'[c] \subseteq keeping[c] /\ holding'[c] \subseteq holding[c]
    BY Remembered
  <1>3. holding'[c] \subseteq keeping'[c]
    BY <1>1, RememberedWithin DEF CallKnows
  <1> QED BY <1>1, <1>2, <1>3 DEF CallKnows

(* A call that lands on a step with nothing to know of its holders. *)
LEMMA NewcomerKnows ==
    ASSUME HoldInv, Remember, NEW c \in Callers,
           call'[c].pc \notin {"stale", "others", "files", "write", "compose"}
             \/ (call'[c].pc = "write" /\ call'[c].op = "unregister")
    PROVE  CallKnows(c)'
  <1>1. /\ keeping'[c] \subseteq Declaring(c)' /\ holding'[c] \subseteq Owning(c)'
    BY Remembered
  <1>2. holding'[c] \subseteq keeping'[c]
    BY RememberedWithin DEF HoldInv, CallKnows
  <1> QED BY <1>1, <1>2 DEF CallKnows

(* A call that moves on under its name, its holders being its folder alone. *)
LEMMA GrantedKnows ==
    ASSUME HoldInv, Remember, NEW c \in Callers, call'[c].name = call[c].name,
           holding[c] \subseteq {call[c].root}, call'[c].root = call[c].root,
           call'[c].pc # "stale", call'[c].stale \notin keeping[c]
             \/ call'[c].pc \notin {"others", "files", "write"}
    PROVE  CallKnows(c)'
  <1>1. /\ keeping'[c] \subseteq Declaring(c)' /\ holding'[c] \subseteq Owning(c)'
        /\ keeping'[c] \subseteq keeping[c] /\ holding'[c] \subseteq holding[c]
    BY Remembered
  <1>2. holding'[c] \subseteq keeping'[c]
    BY RememberedWithin DEF HoldInv, CallKnows
  <1> QED BY <1>1, <1>2 DEF CallKnows

(* Where Granted and CheckOthers lead. *)
LEMMA GrantedMoves ==
    ASSUME CallOK, NEW c \in Callers, Granted(c)
    PROVE  \/ call'[c] = Idle
           \/ /\ call'[c].pc \in {"save", "compose"}
              /\ call'[c].name = call[c].name /\ call'[c].root = call[c].root
  BY DEF CallOK, Granted, Return, Goto, Calls

LEMMA CheckOthersMoves ==
    ASSUME CallOK, NEW c \in Callers, NEW r, CheckOthers(c, r)
    PROVE  /\ call'[c].pc \in {"write", "others"} /\ call'[c].stale = r
           /\ call'[c].name = call[c].name /\ call'[c].root = call[c].root
  BY DEF CallOK, CheckOthers, Calls

(* A step of one call leaves the others where they are. *)
LEMMA OthersStay ==
    ASSUME TypeOK, NEW c \in Callers, NEW d \in Callers, d # c, Step(c)
    PROVE  call'[d] = call[d]
  BY DEF TypeOK, Step, Claim, Begin, FindProject, LoadStack, NameFree,
         FolderVacant, ReadOwner, CheckStale, ReadOthers, ReadOther, NoClash, WriteClaim,
         Unregister, SaveFile, Rollback, ComposeUp, ComposeDown, Fail, Granted,
         CheckOthers, Goto, Return

(* Steps that leave a call where nothing is to be known of its holders. *)
LEMMA PlainMoves ==
    ASSUME CallOK, NEW c \in Callers,
           Begin(c) \/ FindProject(c) \/ LoadStack(c) \/ NameFree(c) \/ FolderVacant(c)
             \/ SaveFile(c) \/ Return(c)
    PROVE  \/ call'[c].pc \in {"idle", "find", "load", "free", "vacant", "owner", "rollback"}
           \/ call'[c].pc = "write" /\ call'[c].op = "unregister"
  <1>0. call[c] \in Calls
    BY DEF CallOK
  <1>1. CASE Return(c)
    BY <1>1 DEF CallOK, Return, Idle
  <1>2. CASE Begin(c)
    BY ZenonT(40), <1>2 DEF CallOK, Begin, Idle
  <1>3. CASE FindProject(c)
    BY <1>0, <1>1, <1>3 DEF CallOK, FindProject, Calls
  <1>4. CASE LoadStack(c)
    <2> DEFINE f == file[call[c].root]
    <2>1. CASE Return(c)
      BY <1>1, <2>1
    <2>2. CASE call' = [call EXCEPT ![c] =
                 [@ EXCEPT !.pc = "owner", !.name = f.name, !.services = f.services]]
      <3>1. call'[c] = [call[c] EXCEPT !.pc = "owner", !.name = f.name, !.services = f.services]
        BY <2>2 DEF CallOK
      <3> QED BY <1>0, <3>1 DEF Calls
    <2> QED BY <1>4, <2>1, <2>2 DEF LoadStack
  <1>5. CASE NameFree(c) \/ FolderVacant(c) \/ SaveFile(c)
    BY <1>0, <1>1, <1>5 DEF CallOK, NameFree, FolderVacant, SaveFile, Goto, Calls
  <1> QED BY <1>1, <1>2, <1>3, <1>4, <1>5

LEMMA PlainKnows ==
    ASSUME HoldInv, Remember, NEW c \in Callers,
           Begin(c) \/ FindProject(c) \/ LoadStack(c) \/ NameFree(c) \/ FolderVacant(c)
             \/ SaveFile(c) \/ Return(c)
    PROVE  CallKnows(c)'
  <1>1. CallOK
    BY DEF HoldInv, TypeOK, CallOK
  <1> QED BY <1>1, PlainMoves, NewcomerKnows

(* The registry read: the holders of the name are its owner, or nobody. *)
LEMMA ReadOwnerKnows ==
    ASSUME HoldInv, Remember, NEW c \in Callers, ReadOwner(c)
    PROVE  CallKnows(c)'
  <1> DEFINE owner == Owner(call[c].name)
  <1>0. CallOK /\ CallKnows(c) /\ call[c].root \in Roots /\ call[c].name \in Names
    BY DEF HoldInv, TypeOK, CallOK, Placed, ReadOwner
  <1>1. holding[c] \subseteq {owner} \cap Roots
    BY <1>0, OwnerUnique DEF HoldInv, CallKnows, Owning
  <1>2. NoRoot \notin keeping[c] /\ NoRoot \notin Roots
    BY RegistryAssumption DEF HoldInv, TypeOK
  <1>3. CASE owner \in {NoRoot, call[c].root} /\ Granted(c)
    <2>1. holding[c] \subseteq {call[c].root}
      BY <1>1, <1>2, <1>3
    <2>2. CASE call'[c] = Idle
      BY <2>2, NewcomerKnows DEF Idle
    <2>3. CASE call'[c].pc \in {"save", "compose"} /\ call'[c].name = call[c].name
               /\ call'[c].root = call[c].root
      BY <2>1, <2>3, GrantedKnows
    <2> QED BY <1>0, <1>3, <2>2, <2>3, GrantedMoves
  <1>4. CASE owner = NoRoot /\ CheckOthers(c, NoRoot)
    <2>1. holding[c] \subseteq {call[c].root}
      BY <1>1, <1>2, <1>4
    <2> QED BY <1>0, <1>2, <1>4, <2>1, CheckOthersMoves, GrantedKnows
  <1>5. CASE call' = [call EXCEPT ![c].pc = "stale", ![c].stale = owner]
    <2>1. call'[c].pc = "stale" /\ call'[c].stale = owner /\ call'[c].name = call[c].name
      BY <1>0, <1>5 DEF CallOK, Calls
    <2>2. holding'[c] \subseteq holding[c] /\ keeping'[c] \subseteq Declaring(c)'
          /\ holding'[c] \subseteq Owning(c)'
      BY <2>1, Remembered
    <2>3. holding'[c] \subseteq keeping'[c]
      BY <1>0, RememberedWithin DEF CallKnows
    <2> QED BY <1>1, <2>1, <2>2, <2>3 DEF CallKnows
  <1> QED BY <1>3, <1>4, <1>5 DEF ReadOwner

(* A stale owner has lost its claim: nobody holds the name any more. *)
LEMMA CheckStaleKnows ==
    ASSUME HoldInv, Remember, NEW c \in Callers, CheckStale(c)
    PROVE  CallKnows(c)'
  <1> DEFINE owner == call[c].stale
  <1>0. CallOK /\ CallKnows(c)
    BY DEF HoldInv, TypeOK, CallOK
  <1>1. CASE Return(c)
    BY <1>1, PlainKnows
  <1>2. CASE StaleClaim(owner, call[c].name)
    <2>1. owner \notin keeping[c]
      BY <1>0, <1>2 DEF CallKnows, Declaring, StaleClaim, Missing
    <2>2. holding[c] \subseteq {call[c].root}
      BY <1>0, <2>1 DEF CallKnows, CheckStale
    <2>3. CASE CheckOthers(c, owner)
      BY <1>0, <2>1, <2>2, <2>3, CheckOthersMoves, GrantedKnows
    <2>4. CASE Granted(c)
      <3>1. CASE call'[c] = Idle
        BY <3>1, NewcomerKnows DEF Idle
      <3>2. CASE call'[c].pc \in {"save", "compose"} /\ call'[c].name = call[c].name
                 /\ call'[c].root = call[c].root
        BY <2>2, <3>2, GrantedKnows
      <3> QED BY <1>0, <2>4, <3>1, <3>2, GrantedMoves
    <2> QED BY <1>2, <2>3, <2>4 DEF CheckStale
  <1> QED BY <1>1, <1>2 DEF CheckStale

(* The search for clashing containers keeps what the call knows. *)
LEMMA SearchKnows ==
    ASSUME HoldInv, Remember, NEW c \in Callers,
           ReadOthers(c) \/ ReadOther(c) \/ NoClash(c)
    PROVE  CallKnows(c)'
  <1>0. CallOK /\ CallKnows(c)
    BY DEF HoldInv, TypeOK, CallOK
  <1>1. CASE Return(c)
    BY <1>1, PlainKnows
  <1>2. CASE ~Return(c)
    <2>1. /\ call'[c].pc \in {"files", "write"} /\ call'[c].name = call[c].name
          /\ call'[c].root = call[c].root /\ call'[c].stale = call[c].stale
      BY <1>0, <1>2 DEF CallOK, ReadOthers, ReadOther, NoClash, Goto, Calls
    <2>2. CASE call[c].op # "unregister"
      <3>1. holding[c] \subseteq {call[c].root} /\ call[c].stale \notin keeping[c]
        BY <1>0, <2>2 DEF CallKnows, ReadOthers, ReadOther, NoClash
      <3> QED BY <2>1, <3>1, GrantedKnows
    <2>3. CASE call[c].op = "unregister"
      <3>1. call'[c].op = "unregister"
        BY <1>0, <1>2, <2>3 DEF CallOK, ReadOthers, ReadOther, NoClash, Goto, Calls
      <3>2. /\ keeping'[c] \subseteq Declaring(c)' /\ holding'[c] \subseteq Owning(c)'
        BY Remembered
      <3>3. holding'[c] \subseteq keeping'[c]
        BY <1>0, RememberedWithin DEF CallKnows
      <3> QED BY <2>1, <3>1, <3>2, <3>3 DEF CallKnows
    <2> QED BY <2>2, <2>3
  <1> QED BY <1>1, <1>2

LEMMA WriteKnows ==
    ASSUME HoldInv, Remember, NEW c \in Callers, WriteClaim(c)
    PROVE  CallKnows(c)'
  <1>0. CallOK /\ CallKnows(c)
    BY DEF HoldInv, TypeOK, CallOK
  <1>1. CASE Return(c)
    BY <1>1, PlainKnows
  <1>2. CASE Granted(c)
    <2>1. holding[c] \subseteq {call[c].root}
      BY <1>0 DEF CallKnows, WriteClaim
    <2>2. CASE call'[c] = Idle
      BY <2>2, NewcomerKnows DEF Idle
    <2>3. CASE call'[c].pc \in {"save", "compose"} /\ call'[c].name = call[c].name
               /\ call'[c].root = call[c].root
      BY <2>1, <2>3, GrantedKnows
    <2> QED BY <1>0, <1>2, <2>2, <2>3, GrantedMoves
  <1> QED BY <1>1, <1>2 DEF WriteClaim

LEMMA HoldStep ==
    ASSUME HoldInv, [Next]_vars
    PROVE  HoldInv'
  <1>0. TypeOK' /\ OneFolderPerName'
    BY TypeStep, UniqueStep DEF HoldInv
  <1>1. CASE UNCHANGED vars
    <2>1. \A c \in Callers : CallKnows(c)'
      BY <1>1 DEF HoldInv, CallKnows, Declaring, Owning, Registered, vars, history
    <2> QED BY <1>0, <2>1 DEF HoldInv
  <1>2. ASSUME NEW c \in Callers, Step(c), Remember, NEW d \in Callers
        PROVE  CallKnows(d)'
    <2>1. CASE d = c
      BY <1>2, <2>1, PlainKnows, ReadOwnerKnows, CheckStaleKnows, SearchKnows, WriteKnows
      DEF Step, Claim, Unregister, Rollback, ComposeUp, ComposeDown, Fail
    <2>2. CASE d # c
      <3>1. call'[d] = call[d]
        BY <1>2, <2>2, OthersStay DEF HoldInv
      <3> QED BY <1>2, <3>1, OthersKnow
    <2> QED BY <2>1, <2>2
  <1>3. ASSUME EditFile, Remember, NEW d \in Callers
        PROVE  CallKnows(d)'
    BY <1>3, OthersKnow DEF EditFile
  <1> QED BY <1>0, <1>1, <1>2, <1>3 DEF Next, HoldInv

LEMMA HoldInit == Init => HoldInv
  <1> SUFFICES ASSUME Init PROVE HoldInv
    OBVIOUS
  <1>1. TypeOK /\ OneFolderPerName
    BY TypeInit DEF Init, OneFolderPerName
  <1>2. \A c \in Callers : CallKnows(c)
    BY DEF Init, CallKnows, Idle
  <1> QED BY <1>1, <1>2 DEF HoldInv

(* The registry stays one-to-one, and no operation reaches compose up or down
   on a name that another folder has held all along since the operation knew
   the name. *)
THEOREM HoldersUntouched == Spec => []NamesHeld
  <1>1. Init => HoldInv
    BY HoldInit
  <1>2. HoldInv /\ [Next]_vars => HoldInv'
    BY HoldStep
  <1>3. HoldInv => NamesHeld
    BY DEF HoldInv, CallKnows, HolderUntouched, NamesHeld
  <1> QED BY <1>1, <1>2, <1>3, PTL DEF Spec
(* A claim takes a name only from a folder whose file gave it up meanwhile. *)
THEOREM TakeoversJustified == Spec => TakeoverJustified
  <1>1. Init => HoldInv
    BY HoldInit
  <1>2. HoldInv /\ [Next]_vars => HoldInv'
    BY HoldStep
  <1>3. ASSUME HoldInv, [Next]_vars, NEW c \in Callers, NEW r \in keeping[c],
               call[c].pc = "write", call[c].op # "unregister",
               Registered(r, call[c].name), call'[c] # call[c]
        PROVE  [name |-> call[c].name, root |-> r] \in projects'
    <2> DEFINE name == call[c].name
    <2>0. r \in Roots /\ r # NoRoot /\ r # call[c].stale
      BY <1>3, RegistryAssumption DEF HoldInv, TypeOK, CallKnows
    <2>1. Owner(name) = r
      BY <1>3, <2>0, OwnerUnique DEF HoldInv
    <2>2. Step(c)
      <3>1. PICK d \in Callers : Step(d)
        BY <1>3 DEF Next, EditFile, vars
      <3>2. d # c => call'[c] = call[c]
        BY <1>3, <3>1, OthersStay DEF HoldInv
      <3> QED BY <1>3, <3>1, <3>2
    <2>3. WriteClaim(c) \/ Fail(c)
      BY <1>3, <2>2
      DEF Step, Claim, Begin, FindProject, LoadStack, NameFree, FolderVacant, ReadOwner,
          CheckStale, ReadOthers, ReadOther, NoClash, Unregister, SaveFile, Rollback,
          ComposeUp, ComposeDown
    <2>4. UNCHANGED projects
      BY <2>0, <2>1, <2>3 DEF WriteClaim, Fail, Stays
    <2> QED BY <1>3, <2>4 DEF Registered
  <1>4. HoldInv /\ [Next]_vars =>
          [\A c \in Callers : \A r \in keeping[c] :
             call[c].pc = "write" /\ call[c].op # "unregister" /\ Registered(r, call[c].name)
                 /\ call'[c] # call[c]
               => [name |-> call[c].name, root |-> r] \in projects']_vars
    BY <1>3
  <1> QED BY <1>1, <1>2, <1>4, PTL DEF Spec, TakeoverJustified

-----------------------------------------------------------------------------
(***************************************************************************)
(* Host ports, for any number of concurrent allocations, stacks, services, *)
(* requests and ranges.                                                    *)
(***************************************************************************)
(* What an allocation has chosen so far: no port twice, none that another
   stack had in the snapshot, every kept pin where it was, and no kept pin
   given to another service. *)
Chosen(j) ==
    /\ j.seen \in [PinStacks -> PinMap]
    /\ NoPortTwice(j.seen)
    /\ j.todo \subseteq DOMAIN j.request
    /\ \A a, b \in PortServices : j.ports[a] # Unpinned /\ j.ports[a] = j.ports[b] => a = b
    /\ Held(j.ports) \cap Reserved(j.seen, j.stack) = {}
    /\ \A i \in j.todo : j.ports[j.request[i].service] = Unpinned
    /\ \A i \in DOMAIN j.request \ j.todo :
         LET s == j.request[i].service IN
         ~Fixed(j.request[i]) /\ j.seen[j.stack][s] \in KeptPins(j)
           => j.ports[s] = j.seen[j.stack][s]
    /\ \A s \in PortServices : j.ports[s] \in KeptPins(j) => j.ports[s] = j.seen[j.stack][s]

JobOK(j) ==
    /\ j \in Jobs
    /\ j.pc # "conflict"
    /\ j.pc # "idle" => j.stack \in PinStacks /\ j.request \in Requests
    /\ j.pc = "choose" => Chosen(j)

(* Some number of writes w accounts for the attempts, and as long as nothing
   was written since, the snapshot is the state. *)
Paid(j) ==
    j.pc # "idle" =>
      \E w \in Nat :
        /\ w <= writes
        /\ j.attempt - 1 <= w - j.since
        /\ j.pc = "choose" /\ w = writes => j.seen = pins

PinsOK == pins \in [PinStacks -> PinMap] /\ NoPortTwice(pins)
JobsOK == job \in [Allocators -> Jobs] /\ \A c \in Allocators : JobOK(job[c])
CountsOK == /\ busy \subseteq Ports
            /\ writes \in Nat
            /\ runs \in 0..MaxRuns
            /\ others \in 0..MaxOthers

Inv == PinsOK /\ JobsOK /\ CountsOK /\ \A c \in Allocators : Paid(job[c])

-----------------------------------------------------------------------------
(* Values of the right kind *)

(* An entry of a request. *)
LEMMA EntryType ==
    ASSUME NEW q \in Requests
    PROVE  /\ q \in Seq([service : PortServices, port : Nat])
           /\ DOMAIN q = 1..Len(q)
           /\ \A i \in DOMAIN q : q[i] \in [service : PortServices, port : Nat]
           /\ \A i \in DOMAIN q : q[i] \in ToSet(q)
           /\ \A r \in ToSet(q) : \E i \in DOMAIN q : r = q[i]
  <1>1. q \in Seq([service : PortServices, port : Nat])
    BY PortAssumption
  <1>2. DOMAIN q = 1..Len(q)
    BY <1>1
  <1> DEFINE E == [service : PortServices, port : Nat]
  <1>3. \A i \in DOMAIN q : q[i] \in E
    <2>1. q \in Seq(E)
      BY <1>1
    <2> HIDE DEF E
    <2> QED BY <2>1, <1>2, ElementOfSeq
  <1>4. ToSet(q) = {q[i] : i \in DOMAIN q}
    BY Zenon DEF ToSet
  <1> QED BY <1>1, <1>2, <1>3, <1>4

LEMMA PortsNat == Ports \subseteq Nat \ {0} /\ Unpinned \notin Ports
  <1>1. ASSUME NEW p \in Ports PROVE p \in Nat \ {0}
    <2>1. CASE p \in Asked
      <3>1. PICK q \in Requests : \E r \in ToSet(q) : p = r.port
        BY <2>1 DEF Asked
      <3>2. PICK i \in DOMAIN q : p = q[i].port
        BY <3>1, EntryType
      <3>3. p \in Nat
        BY <3>2, EntryType
      <3>4. p # 0
        BY <2>1 DEF Asked, AutoPort
      <3> QED BY <3>3, <3>4
    <2>2. CASE \E s \in PortServices : p \in PortRange[s]
      <3>1. \A s \in PortServices : PortRange[s] \subseteq Nat \ {0}
        BY PortAssumption
      <3> QED BY <3>1, <2>2
    <2> QED BY <2>1, <2>2 DEF Ports
  <1>2. Unpinned = -1
    BY DEF Unpinned
  <1>3. ASSUME Unpinned \in Ports PROVE FALSE
    <2>1. Unpinned \in Nat
      BY <1>1, <1>3
    <2> QED BY <1>2, <2>1
  <1>4. Unpinned \notin Ports
    BY <1>3
  <1>5. Ports \subseteq Nat \ {0}
    BY <1>1
  <1> QED BY <1>4, <1>5

LEMMA RequestType ==
    ASSUME NEW q \in Requests, NEW i \in DOMAIN q
    PROVE  /\ q[i] \in [service : PortServices, port : Nat]
           /\ DOMAIN q \subseteq Nat
           /\ \A k \in DOMAIN q : q[i].service = q[k].service => i = k
           /\ Fixed(q[i]) => q[i].port \in Ports
  <1>1. DOMAIN q = 1..Len(q) /\ q[i] \in [service : PortServices, port : Nat] /\ q[i] \in ToSet(q)
    BY EntryType
  <1>2. DOMAIN q \subseteq Nat
    <2>1. Len(q) \in Nat
      BY EntryType
    <2> QED BY <1>1, <2>1
  <1>3. \A k \in DOMAIN q : q[i].service = q[k].service => i = k
    BY <1>1, PortAssumption
  <1>4. ASSUME Fixed(q[i]) PROVE q[i].port \in Ports
    <2>1. q[i].port \in {r.port : r \in UNION {ToSet(p) : p \in Requests}}
      BY <1>1
    <2>2. q[i].port \in Asked
      BY <2>1, <1>4 DEF Asked, Fixed
    <2> QED BY <2>2 DEF Ports
  <1> QED BY <1>1, <1>2, <1>3, <1>4

LEMMA IdleOK == JobOK(IdleRun)
  <1>1. NoPins \in PinMap
    BY DEF NoPins, PinMap
  <1>2. IdleRun \in Jobs
    BY <1>1, PortAssumption DEF IdleRun, Jobs
  <1> QED BY <1>2 DEF JobOK, IdleRun

(* A step of one caller's allocation. *)
LEMMA JobStep ==
    ASSUME JobsOK, NEW c \in Allocators, NEW rec, JobOK(rec), job' = [job EXCEPT ![c] = rec]
    PROVE  JobsOK' /\ job'[c] = rec /\ \A d \in Allocators \ {c} : job'[d] = job[d]
  <1>1. rec \in Jobs
    BY DEF JobOK
  <1>2. /\ job' \in [Allocators -> Jobs]
        /\ job'[c] = rec
        /\ \A d \in Allocators \ {c} : job'[d] = job[d]
    BY <1>1 DEF JobsOK
  <1>3. \A d \in Allocators : JobOK(job'[d])
    BY <1>2 DEF JobsOK
  <1> QED BY <1>2, <1>3 DEF JobsOK, JobOK

(* One more port, neither taken nor another stack's, and a kept pin only for
   its own service. *)
LEMMA TakeOK ==
    ASSUME JobsOK, NEW c \in Allocators, job[c].pc = "choose",
           NEW i \in job[c].todo, NEW p \in Ports, Take(c, i, p),
           p \notin Held(job[c].ports), p \notin Reserved(job[c].seen, job[c].stack),
           p \in KeptPins(job[c]) => p = job[c].seen[job[c].stack][job[c].request[i].service],
           ~Fixed(job[c].request[i])
             /\ job[c].seen[job[c].stack][job[c].request[i].service] \in KeptPins(job[c])
             => p = job[c].seen[job[c].stack][job[c].request[i].service]
    PROVE  \E rec : /\ JobOK(rec)
                    /\ job' = [job EXCEPT ![c] = rec]
                    /\ rec.pc = "choose" /\ rec.seen = job[c].seen
                    /\ rec.attempt = job[c].attempt /\ rec.since = job[c].since
  <1> DEFINE j == job[c]
             s == j.request[i].service
             rec == [j EXCEPT !.ports[s] = p, !.todo = @ \ {i}, !.probed = {}]
  <1>1. j \in Jobs /\ j.stack \in PinStacks /\ j.request \in Requests /\ Chosen(j) /\ j.pc = "choose"
    BY DEF JobsOK, JobOK
  <1>2. i \in DOMAIN j.request
    BY <1>1 DEF Chosen
  <1>3. s \in PortServices /\ \A k \in DOMAIN j.request : j.request[k].service = s => k = i
    BY <1>1, <1>2, RequestType
  <1>4. j.ports \in PinMap /\ p # Unpinned
    BY <1>1, PortsNat DEF Jobs
  <1> DEFINE m == [j.ports EXCEPT ![s] = p]
  <1>5. m \in PinMap /\ m[s] = p /\ \A t \in PortServices \ {s} : m[t] = j.ports[t]
    BY <1>3, <1>4 DEF PinMap
  <1>6. /\ rec.pc = j.pc /\ rec.stack = j.stack /\ rec.request = j.request
        /\ rec.seen = j.seen /\ rec.ports = m /\ rec.todo = j.todo \ {i} /\ rec.probed = {}
        /\ rec.attempt = j.attempt /\ rec.since = j.since
    BY <1>1 DEF Jobs
  <1>7. rec \in Jobs
    BY <1>1, <1>5 DEF Jobs
  <1>8. KeptPins(rec) = KeptPins(j)
    <2> HIDE DEF rec, m, j
    <2> QED BY <1>6 DEF KeptPins
  <1>9. Chosen(rec)
    <2>1. \A a, b \in PortServices : m[a] # Unpinned /\ m[a] = m[b] => a = b
      <3>1. \A t \in PortServices : j.ports[t] # p
        BY <1>4 DEF Held
      <3>2. \A a, b \in PortServices :
              j.ports[a] # Unpinned /\ j.ports[a] = j.ports[b] => a = b
        BY <1>1 DEF Chosen
      <3> HIDE DEF m
      <3> QED BY <3>1, <3>2, <1>5
    <2>2. Held(m) \cap Reserved(j.seen, j.stack) = {}
      <3>1. Held(m) \subseteq Held(j.ports) \cup {p}
        BY <1>5 DEF Held
      <3> QED BY <3>1, <1>1 DEF Chosen
    <2>3. \A k \in j.todo \ {i} : m[j.request[k].service] = Unpinned
      <3> TAKE k \in j.todo \ {i}
      <3>1. k \in DOMAIN j.request
        BY <1>1 DEF Chosen
      <3>2. j.request[k].service \in PortServices \ {s}
        BY <3>1, <1>1, <1>3, RequestType
      <3> QED BY <3>2, <1>1, <1>5 DEF Chosen
    <2>4. \A k \in DOMAIN j.request \ (j.todo \ {i}) :
            LET t == j.request[k].service IN
            ~Fixed(j.request[k]) /\ j.seen[j.stack][t] \in KeptPins(j)
              => m[t] = j.seen[j.stack][t]
      <3> TAKE k \in DOMAIN j.request \ (j.todo \ {i})
      <3>1. CASE k = i
        BY <3>1, <1>5
      <3>2. CASE k # i
        <4>1. j.request[k].service \in PortServices \ {s}
          BY <3>2, <1>1, <1>3, RequestType
        <4> QED BY <3>2, <4>1, <1>1, <1>5 DEF Chosen
      <3> QED BY <3>1, <3>2
    <2>5. \A t \in PortServices : m[t] \in KeptPins(j) => m[t] = j.seen[j.stack][t]
      BY SMTT(30), <1>1, <1>5 DEF Chosen
    <2>6. j.todo \ {i} \subseteq DOMAIN j.request
      BY <1>1 DEF Chosen
    <2>7. j.seen \in [PinStacks -> PinMap] /\ NoPortTwice(j.seen)
      BY <1>1 DEF Chosen
    <2> HIDE DEF rec, m
    <2>8. rec.seen \in [PinStacks -> PinMap] /\ NoPortTwice(rec.seen) /\ rec.todo \subseteq DOMAIN rec.request
      BY <1>6, <2>6, <2>7
    <2>9. \A a, b \in PortServices : rec.ports[a] # Unpinned /\ rec.ports[a] = rec.ports[b] => a = b
      BY <1>6, <2>1
    <2>10. Held(rec.ports) \cap Reserved(rec.seen, rec.stack) = {}
      BY <1>6, <2>2
    <2>11. \A k \in rec.todo : rec.ports[rec.request[k].service] = Unpinned
      BY <1>6, <2>3
    <2>12. \A k \in DOMAIN rec.request \ rec.todo :
             LET t == rec.request[k].service IN
             ~Fixed(rec.request[k]) /\ rec.seen[rec.stack][t] \in KeptPins(rec)
               => rec.ports[t] = rec.seen[rec.stack][t]
      BY <1>6, <1>8, <2>4
    <2>13. \A t \in PortServices : rec.ports[t] \in KeptPins(rec) => rec.ports[t] = rec.seen[rec.stack][t]
      BY <1>6, <1>8, <2>5
    <2> QED BY <2>8, <2>9, <2>10, <2>11, <2>12, <2>13 DEF Chosen
  <1>10. JobOK(rec)
    <2> HIDE DEF rec
    <2>1. rec.pc = "choose" /\ rec.stack \in PinStacks /\ rec.request \in Requests
      BY <1>1, <1>6
    <2> QED BY <2>1, <1>7, <1>9 DEF JobOK
  <1>11. job' = [job EXCEPT ![c] = rec]
    BY DEF Take
  <1> QED BY <1>1, <1>6, <1>10, <1>11
-----------------------------------------------------------------------------
(* The other variables: what an allocation's own step cannot change. *)

LEMMA JobsKept == ASSUME JobsOK, UNCHANGED job PROVE JobsOK'
  BY DEF JobsOK

(* Attempts stay paid for while the job stands and writes do not go back. *)
LEMMA PaidKept ==
    ASSUME JobsOK, writes \in Nat, NEW d \in Allocators, Paid(job[d]), job'[d] = job[d],
           \/ writes' = writes /\ pins' = pins
           \/ writes' = writes + 1
    PROVE  Paid(job[d])'
  <1>1. CASE job[d].pc = "idle"
    BY <1>1 DEF Paid
  <1>2. CASE job[d].pc # "idle"
    <2>1. PICK w \in Nat : /\ w <= writes
                           /\ job[d].attempt - 1 <= w - job[d].since
                           /\ job[d].pc = "choose" /\ w = writes => job[d].seen = pins
      BY <1>2 DEF Paid
    <2>2. w <= writes' /\ (w = writes' => w = writes /\ pins' = pins)
      BY <2>1
    <2> QED BY <2>1, <2>2 DEF Paid
  <1> QED BY <1>1, <1>2

(* A step that moves one job and leaves the state alone. *)
LEMMA QuietStep ==
    ASSUME Inv, NEW c \in Allocators, NEW rec, JobOK(rec), job' = [job EXCEPT ![c] = rec],
           UNCHANGED <<pins, writes>>, CountsOK', Paid(rec)
    PROVE  Inv'
  <1>1. JobsOK' /\ job'[c] = rec /\ \A d \in Allocators \ {c} : job'[d] = job[d]
    BY JobStep DEF Inv
  <1>2. \A d \in Allocators \ {c} : Paid(job[d])'
    BY <1>1, PaidKept DEF Inv, CountsOK
  <1>3. Paid(job[c])'
    BY <1>1 DEF Paid
  <1>4. PinsOK'
    BY DEF Inv, PinsOK
  <1> QED BY <1>1, <1>2, <1>3, <1>4 DEF Inv

LEMMA IdlePaid == Paid(IdleRun)
  BY DEF Paid, IdleRun

LEMMA ReturnStep ==
    ASSUME Inv, NEW c \in Allocators, ReturnRun(c), UNCHANGED <<pins, writes>>, CountsOK'
    PROVE  Inv'
  BY QuietStep, IdleOK, IdlePaid DEF ReturnRun

LEMMA StaysCounts == ASSUME Inv, PortsStay PROVE CountsOK' /\ UNCHANGED <<pins, writes>>
  BY DEF Inv, PortsStay, CountsOK

(* An allocation that goes on choosing from the same snapshot. *)
LEMMA ChooseStep ==
    ASSUME Inv, NEW c \in Allocators, job[c].pc = "choose", PortsStay,
           NEW rec, JobOK(rec), job' = [job EXCEPT ![c] = rec],
           rec.pc = "choose", rec.seen = job[c].seen,
           rec.attempt = job[c].attempt, rec.since = job[c].since
    PROVE  Inv'
  <1>1. Paid(job[c])
    BY DEF Inv
  <1>2. Paid(rec)
    BY <1>1 DEF Paid
  <1> QED BY <1>2, QuietStep, StaysCounts

(* What was chosen depends on these fields alone. *)
LEMMA ChosenSame ==
    ASSUME NEW j, NEW k, Chosen(j), k.stack = j.stack, k.request = j.request, k.seen = j.seen,
           k.ports = j.ports, k.todo = j.todo
    PROVE  Chosen(k)
  <1>1. KeptPins(k) = KeptPins(j)
    BY DEF KeptPins
  <1>2. /\ k.seen \in [PinStacks -> PinMap] /\ NoPortTwice(k.seen)
        /\ k.todo \subseteq DOMAIN k.request
        /\ \A i \in k.todo : k.ports[k.request[i].service] = Unpinned
    BY DEF Chosen
  <1>3. \A a, b \in PortServices : k.ports[a] # Unpinned /\ k.ports[a] = k.ports[b] => a = b
    BY DEF Chosen
  <1>4. Held(k.ports) \cap Reserved(k.seen, k.stack) = {}
    BY DEF Chosen
  <1>5. \A i \in DOMAIN k.request \ k.todo :
          LET s == k.request[i].service IN
          ~Fixed(k.request[i]) /\ k.seen[k.stack][s] \in KeptPins(k) => k.ports[s] = k.seen[k.stack][s]
    BY <1>1 DEF Chosen
  <1>6. \A s \in PortServices : k.ports[s] \in KeptPins(k) => k.ports[s] = k.seen[k.stack][s]
    BY <1>1 DEF Chosen
  <1> QED BY <1>2, <1>3, <1>4, <1>5, <1>6 DEF Chosen

LEMMA TakeStep ==
    ASSUME Inv, PortsStay, NEW c \in Allocators, job[c].pc = "choose",
           NEW i \in job[c].todo, NEW p \in Ports, Take(c, i, p),
           p \notin Held(job[c].ports), p \notin Reserved(job[c].seen, job[c].stack),
           p \in KeptPins(job[c]) => p = job[c].seen[job[c].stack][job[c].request[i].service],
           ~Fixed(job[c].request[i])
             /\ job[c].seen[job[c].stack][job[c].request[i].service] \in KeptPins(job[c])
             => p = job[c].seen[job[c].stack][job[c].request[i].service]
    PROVE  Inv'
  <1>1. PICK rec : /\ JobOK(rec)
                   /\ job' = [job EXCEPT ![c] = rec]
                   /\ rec.pc = "choose" /\ rec.seen = job[c].seen
                   /\ rec.attempt = job[c].attempt /\ rec.since = job[c].since
    BY TakeOK DEF Inv
  <1> QED BY <1>1, ChooseStep

-----------------------------------------------------------------------------
(* The actions of an allocation *)

LEMMA JobFacts ==
    ASSUME Inv, NEW c \in Allocators
    PROVE  /\ JobOK(job[c]) /\ job[c] \in Jobs
           /\ job[c].pc # "idle" => job[c].stack \in PinStacks /\ job[c].request \in Requests
           /\ job[c].pc = "choose" =>
                /\ Chosen(job[c])
                /\ \A i \in job[c].todo : /\ i \in DOMAIN job[c].request
                                          /\ job[c].request[i].service \in PortServices
  <1>1. JobOK(job[c])
    BY DEF Inv, JobsOK
  <1>2. /\ job[c] \in Jobs
        /\ job[c].pc # "idle" => job[c].stack \in PinStacks /\ job[c].request \in Requests
        /\ job[c].pc = "choose" => Chosen(job[c])
    BY <1>1 DEF JobOK
  <1>3. ASSUME job[c].pc = "choose", NEW i \in job[c].todo
        PROVE  i \in DOMAIN job[c].request /\ job[c].request[i].service \in PortServices
    <2>1. i \in DOMAIN job[c].request
      BY <1>2, <1>3 DEF Chosen
    <2> QED BY <1>2, <1>3, <2>1, RequestType
  <1> QED BY <1>1, <1>2, <1>3

LEMMA BeginStep == ASSUME Inv, NEW c \in Allocators, BeginRun(c) PROVE Inv'
  <1>1. PICK st \in PinStacks, q \in Requests :
          job' = [job EXCEPT ![c] = [IdleRun EXCEPT !.pc = "read", !.stack = st, !.request = q,
                                                !.attempt = 1, !.since = writes]]
    BY DEF BeginRun
  <1> DEFINE rec == [IdleRun EXCEPT !.pc = "read", !.stack = st, !.request = q,
                                 !.attempt = 1, !.since = writes]
  <1>2. writes \in Nat /\ MaxAttempts \in Nat \ {0}
    BY PortAssumption DEF Inv, CountsOK
  <1>3. NoPins \in PinMap
    BY DEF NoPins, PinMap
  <1>4. rec \in Jobs
    <2>1. /\ {} \in SUBSET Nat /\ {} \in SUBSET Ports /\ 1 \in 0..MaxAttempts
          /\ << >> \in [PinStacks -> PinMap] \cup {<< >>}
      BY <1>2
    <2> QED BY <1>2, <1>3, <2>1 DEF IdleRun, Jobs
  <1>5. /\ rec.pc = "read" /\ rec.stack = st /\ rec.request = q
        /\ rec.attempt = 1 /\ rec.since = writes
    BY DEF IdleRun
  <1>6. JobOK(rec)
    <2> HIDE DEF rec
    <2> QED BY <1>4, <1>5 DEF JobOK
  <1>7. Paid(rec)
    <2> HIDE DEF rec
    <2>1. 1 - 1 <= writes - writes /\ writes <= writes
      BY <1>2
    <2> QED BY <1>2, <1>5, <2>1 DEF Paid
  <1>8. CountsOK' /\ UNCHANGED <<pins, writes>>
    BY PortAssumption DEF BeginRun, Inv, CountsOK
  <1>9. job' = [job EXCEPT ![c] = rec]
    BY <1>1
  <1> HIDE DEF rec
  <1> QED BY <1>6, <1>7, <1>8, <1>9, QuietStep

LEMMA ReadStep == ASSUME Inv, NEW c \in Allocators, ReadState(c) PROVE Inv'
  <1> DEFINE j == job[c]
             rec == [j EXCEPT !.pc = "choose", !.seen = pins, !.ports = NoPins,
                              !.todo = DOMAIN j.request]
  <1>1. j \in Jobs /\ j.pc = "read" /\ j.stack \in PinStacks /\ j.request \in Requests
    BY JobFacts DEF ReadState
  <1>2. job' = [job EXCEPT ![c] = rec]
    BY DEF ReadState
  <1>3. NoPins \in PinMap /\ Held(NoPins) = {} /\ \A s \in PortServices : NoPins[s] = Unpinned
    BY DEF NoPins, PinMap, Held
  <1>4. PinsOK /\ writes \in Nat
    BY DEF Inv, CountsOK
  <1>5. DOMAIN j.request \subseteq Nat
    BY <1>1, RequestType
  <1>6. /\ rec.pc = "choose" /\ rec.stack = j.stack /\ rec.request = j.request
        /\ rec.seen = pins /\ rec.ports = NoPins /\ rec.todo = DOMAIN j.request
        /\ rec.attempt = j.attempt /\ rec.since = j.since
    BY <1>1 DEF Jobs
  <1>7. rec \in Jobs
    BY <1>1, <1>3, <1>4, <1>5 DEF Jobs, PinsOK
  <1>8. \A i \in DOMAIN j.request : j.request[i].service \in PortServices
    BY <1>1, RequestType
  <1>9. Unpinned \notin KeptPins(rec)
    BY DEF KeptPins
  <1>10. JobOK(rec)
    <2> HIDE DEF rec
    <2>1. Chosen(rec)
      BY <1>3, <1>4, <1>6, <1>8, <1>9, SMTT(60) DEF Chosen, PinsOK
    <2> QED BY <1>1, <1>6, <1>7, <2>1 DEF JobOK
  <1>11. Paid(rec)
    <2> HIDE DEF rec
    <2>1. PICK w \in Nat : w <= writes /\ j.attempt - 1 <= w - j.since
      BY <1>1 DEF Inv, Paid
    <2>2. writes <= writes /\ j.attempt - 1 <= writes - j.since
      BY <1>1, <1>4, <2>1 DEF Jobs
    <2> QED BY <1>4, <1>6, <2>2 DEF Paid
  <1>12. CountsOK' /\ UNCHANGED <<pins, writes>>
    BY StaysCounts DEF ReadState
  <1> HIDE DEF rec
  <1> QED BY <1>2, <1>10, <1>11, <1>12, QuietStep

LEMMA FixedStep == ASSUME Inv, NEW c \in Allocators, TakeFixed(c) PROVE Inv'
  <1>1. job[c].pc = "choose" /\ PortsStay
    BY DEF TakeFixed
  <1>2. PICK i \in Due(job[c]) :
          LET r == job[c].request[i] IN
          /\ Fixed(r)
          /\ IF r.port \in Held(job[c].ports) \cup Reserved(job[c].seen, job[c].stack)
                  \/ (job[c].seen[job[c].stack][r.service] # r.port /\ r.port \in busy)
             THEN ReturnRun(c)
             ELSE Take(c, i, r.port)
    BY DEF TakeFixed
  <1>3. i \in job[c].todo /\ i \in DOMAIN job[c].request
    BY <1>1, JobFacts DEF Due
  <1>4. CASE ReturnRun(c)
    BY <1>1, <1>4, ReturnStep, StaysCounts
  <1>5. CASE ~ReturnRun(c)
    <2> DEFINE p == job[c].request[i].port
    <2>1. p \notin Held(job[c].ports) /\ p \notin Reserved(job[c].seen, job[c].stack) /\ Take(c, i, p)
      BY <1>2, <1>5
    <2>2. p \in Ports
      BY <1>1, <1>2, <1>3, JobFacts, RequestType
    <2>3. p \notin KeptPins(job[c])
      <3>1. job[c].request[i] \in {q \in ToSet(job[c].request) : Fixed(q)}
        BY <1>1, <1>2, <1>3, JobFacts, EntryType
      <3> QED BY <3>1 DEF KeptPins
    <2> HIDE DEF p
    <2> QED BY <1>1, <1>2, <1>3, <2>1, <2>2, <2>3, TakeStep
  <1> QED BY <1>4, <1>5

LEMMA KeepStep == ASSUME Inv, NEW c \in Allocators, KeepPin(c) PROVE Inv'
  <1>1. job[c].pc = "choose" /\ PortsStay
    BY DEF KeepPin
  <1> DEFINE pin(i) == job[c].seen[job[c].stack][job[c].request[i].service]
  <1>2. PICK i \in Due(job[c]) : /\ ~Fixed(job[c].request[i])
                                 /\ pin(i) \in KeptPins(job[c]) \ Held(job[c].ports)
                                 /\ Take(c, i, pin(i))
    BY DEF KeepPin
  <1>3. i \in job[c].todo /\ job[c].request[i].service \in PortServices
    BY <1>1, JobFacts DEF Due
  <1>4. pin(i) # Unpinned /\ pin(i) \notin Reserved(job[c].seen, job[c].stack)
    BY <1>2 DEF KeptPins
  <1>5. pin(i) \in Ports
    <2>1. job[c].seen \in [PinStacks -> PinMap] /\ job[c].stack \in PinStacks
      BY <1>1, JobFacts DEF Chosen
    <2> QED BY <1>3, <1>4, <2>1 DEF PinMap
  <1> QED BY <1>1, <1>2, <1>3, <1>4, <1>5, TakeStep
LEMMA ProbeStep == ASSUME Inv, NEW c \in Allocators, Probe(c) PROVE Inv'
  <1> DEFINE j == job[c]
  <1>1. j.pc = "choose" /\ PortsStay
    BY DEF Probe
  <1>2. PICK i \in Due(j) :
          LET s == j.request[i].service
              left == Candidates(j, s)
          IN
          /\ ~Fixed(j.request[i])
          /\ j.seen[j.stack][s] \notin KeptPins(j) \ Held(j.ports)
          /\ \/ left = {} /\ ReturnRun(c)
             \/ \E p \in Lowest(left) :
                  IF p \in busy THEN job' = [job EXCEPT ![c].probed = @ \cup {p}]
                                ELSE Take(c, i, p)
    BY DEF Probe
  <1> DEFINE s == j.request[i].service
  <1>3. i \in j.todo /\ s \in PortServices
    BY <1>1, JobFacts DEF Due
  <1>4. Chosen(j) /\ j \in Jobs /\ j.stack \in PinStacks
    BY <1>1, JobFacts
  <1>5. j.seen[j.stack][s] \notin KeptPins(j)
    <2>1. SUFFICES ASSUME j.seen[j.stack][s] \in KeptPins(j) PROVE FALSE
      OBVIOUS
    <2>2. j.seen[j.stack][s] \in Held(j.ports)
      BY <1>2, <2>1
    <2>3. PICK t \in PortServices : j.ports[t] = j.seen[j.stack][s]
      BY <2>2 DEF Held
    <2>4. j.ports[t] = j.seen[j.stack][t]
      BY <1>4, <2>1, <2>3 DEF Chosen
    <2>5. j.ports[t] # Unpinned
      BY <2>1, <2>3 DEF KeptPins
    <2>6. t = s
      BY <1>3, <1>4, <2>3, <2>4, <2>5 DEF Chosen, NoPortTwice
    <2>7. j.ports[s] = Unpinned
      BY <1>3, <1>4 DEF Chosen
    <2> QED BY <2>5, <2>6, <2>7
  <1>6. CASE ReturnRun(c)
    BY <1>1, <1>6, ReturnStep, StaysCounts
  <1>7. CASE ~ReturnRun(c)
    <2>1. PICK p \in Lowest(Candidates(j, s)) :
            IF p \in busy THEN job' = [job EXCEPT ![c].probed = @ \cup {p}]
                          ELSE Take(c, i, p)
      BY <1>2, <1>7
    <2>2. p \in Ports /\ p \notin Held(j.ports) /\ p \notin Reserved(j.seen, j.stack)
          /\ p \notin KeptPins(j)
      BY <1>3 DEF Lowest, Candidates, Ports
    <2>3. CASE p \in busy
      <3> DEFINE rec == [j EXCEPT !.probed = @ \cup {p}]
      <3>1. rec \in Jobs
        BY <1>4, <2>2 DEF Jobs
      <3>2. /\ rec.pc = j.pc /\ rec.stack = j.stack /\ rec.request = j.request
            /\ rec.seen = j.seen /\ rec.ports = j.ports /\ rec.todo = j.todo
            /\ rec.attempt = j.attempt /\ rec.since = j.since
        BY <1>4 DEF Jobs
      <3>3. KeptPins(rec) = KeptPins(j)
        BY <3>2 DEF KeptPins
      <3>4. j.request \in Requests
        BY <1>1, JobFacts
      <3>5. job' = [job EXCEPT ![c] = rec]
        BY <2>1, <2>3
      <3> HIDE DEF rec
      <3>6. Chosen(rec)
        BY <1>4, <3>2, ChosenSame
      <3>7. JobOK(rec)
        BY <1>1, <1>4, <3>1, <3>2, <3>4, <3>6 DEF JobOK
      <3> QED BY <1>1, <3>2, <3>5, <3>7, ChooseStep
    <2>4. CASE p \notin busy
      <3>1. Take(c, i, p)
        BY <2>1, <2>4
      <3> QED BY <1>1, <1>3, <1>5, <2>2, <3>1, TakeStep
    <2> QED BY <2>3, <2>4
  <1> QED BY <1>6, <1>7

(* What passes the validation is no other stack's. *)
LEMMA PinDistinct ==
    ASSUME PinsOK, NEW j, JobOK(j), j.pc = "choose", IsStillValid(pins, j.seen, j.stack, j.ports)
    PROVE  /\ [pins EXCEPT ![j.stack] = j.ports] \in [PinStacks -> PinMap]
           /\ NoPortTwice([pins EXCEPT ![j.stack] = j.ports])
  <1> DEFINE next == [pins EXCEPT ![j.stack] = j.ports]
  <1>1. j.stack \in PinStacks /\ j.ports \in PinMap /\ Chosen(j) /\ pins \in [PinStacks -> PinMap]
    BY DEF PinsOK, JobOK, Jobs
  <1>2. next \in [PinStacks -> PinMap] /\ next[j.stack] = j.ports
        /\ \A t \in PinStacks \ {j.stack} : next[t] = pins[t]
    BY <1>1
  <1>3. ASSUME NEW t \in PinStacks \ {j.stack}, NEW a \in PortServices, NEW b \in PortServices,
               j.ports[a] = pins[t][b], j.ports[a] # Unpinned
        PROVE  FALSE
    <2>1. j.ports[a] \in Held(j.ports) /\ j.ports[a] \in Held(pins[t])
      BY <1>3 DEF Held
    <2>2. j.ports[a] \in Reserved(pins, j.stack)
      BY <2>1 DEF Reserved
    <2> QED BY <2>1, <2>2 DEF IsStillValid
  <1>4. ASSUME NEW st \in PinStacks, NEW t \in PinStacks, NEW a \in PortServices, NEW b \in PortServices,
               next[st][a] # Unpinned, next[st][a] = next[t][b]
        PROVE  st = t /\ a = b
    <2>1. CASE st = j.stack /\ t = j.stack
      BY <1>1, <1>2, <1>4, <2>1 DEF Chosen
    <2>2. CASE st = j.stack /\ t # j.stack
      BY <1>2, <1>3, <1>4, <2>2
    <2>3. CASE st # j.stack /\ t = j.stack
      BY <1>2, <1>3, <1>4, <2>3
    <2>4. CASE st # j.stack /\ t # j.stack
      BY <1>2, <1>4, <2>4 DEF PinsOK, NoPortTwice
    <2> QED BY <2>1, <2>2, <2>3, <2>4
  <1> QED BY <1>2, <1>4 DEF NoPortTwice

(* A choice from the very state it is validated against is valid. *)
LEMMA ValidUnlessMoved ==
    ASSUME NEW j, Chosen(j), j.seen = pins
    PROVE  IsStillValid(pins, j.seen, j.stack, j.ports)
  BY DEF Chosen, IsStillValid, SamePins

LEMMA PinStep == ASSUME Inv, NEW c \in Allocators, Pin(c) PROVE Inv'
  <1> DEFINE j == job[c]
             next == [pins EXCEPT ![j.stack] = j.ports]
  <1>1. j.pc = "choose" /\ CountsOK /\ UNCHANGED <<busy, runs, others>>
    BY DEF Pin, Inv
  <1>2. JobOK(j) /\ j \in Jobs /\ j.stack \in PinStacks /\ j.request \in Requests /\ Chosen(j)
    BY <1>1, JobFacts
  <1>3. CASE ~IsStillValid(pins, j.seen, j.stack, j.ports)
    <2>1. UNCHANGED <<pins, writes>> /\ CountsOK'
      BY <1>1, <1>3 DEF Pin, CountsOK
    <2>2. CASE ReturnRun(c)
      BY <2>1, <2>2, ReturnStep
    <2>3. CASE ~ReturnRun(c)
      <3> DEFINE rec == [j EXCEPT !.pc = "read", !.attempt = @ + 1, !.probed = {}]
      <3>1. j.attempt # MaxAttempts /\ job' = [job EXCEPT ![c] = rec]
        BY <1>3, <2>3 DEF Pin
      <3>2. /\ rec.pc = "read" /\ rec.stack = j.stack /\ rec.request = j.request
            /\ rec.attempt = j.attempt + 1 /\ rec.since = j.since
        BY <1>2 DEF Jobs
      <3>3. j.attempt \in 0..MaxAttempts /\ MaxAttempts \in Nat /\ j.attempt + 1 \in 0..MaxAttempts
        BY <1>2, <3>1, PortAssumption DEF Jobs
      <3>4. rec \in Jobs
        BY <1>2, <3>3 DEF Jobs
      <3>5. PICK w \in Nat : /\ w <= writes /\ j.attempt - 1 <= w - j.since
                             /\ w = writes => j.seen = pins
        BY <1>1 DEF Inv, Paid
      <3>6. w # writes
        BY <1>2, <1>3, <3>5, ValidUnlessMoved
      <3>7. (j.attempt + 1) - 1 <= writes - j.since
        BY <1>1, <1>2, <3>3, <3>5, <3>6 DEF CountsOK, Jobs
      <3> HIDE DEF rec
      <3>8. JobOK(rec)
        BY <1>2, <3>2, <3>4 DEF JobOK
      <3>9. Paid(rec)
        <4>1. writes \in Nat
          BY <1>1 DEF CountsOK
        <4>2. writes <= writes
          BY <4>1
        <4>3. rec.attempt - 1 <= writes - rec.since
          BY <3>2, <3>7
        <4>4. rec.pc # "choose"
          BY <3>2
        <4> QED BY <4>1, <4>2, <4>3, <4>4 DEF Paid
      <3> QED BY <2>1, <3>1, <3>8, <3>9, QuietStep
    <2> QED BY <2>2, <2>3
  <1>4. CASE IsStillValid(pins, j.seen, j.stack, j.ports)
    <2>1. next \in [PinStacks -> PinMap] /\ NoPortTwice(next)
      BY <1>1, <1>2, <1>4, PinDistinct DEF Inv
    <2>2. /\ pins' = next
          /\ writes' = IF next = pins THEN writes ELSE writes + 1
          /\ job' = [job EXCEPT ![c] = IdleRun]
      BY <1>4, <2>1 DEF Pin, ReturnRun
    <2>3. PinsOK' /\ CountsOK'
      BY <1>1, <2>1, <2>2 DEF PinsOK, CountsOK
    <2>4. JobsOK' /\ job'[c] = IdleRun /\ \A d \in Allocators \ {c} : job'[d] = job[d]
      BY <2>2, IdleOK, JobStep DEF Inv
    <2>5. \A d \in Allocators \ {c} : Paid(job[d])'
      BY <1>1, <2>2, <2>4, PaidKept DEF Inv, CountsOK
    <2>6. Paid(job[c])'
      BY <2>4 DEF Paid, IdleRun
    <2> QED BY <2>3, <2>4, <2>5, <2>6 DEF Inv
  <1> QED BY <1>3, <1>4

LEMMA ReleaseStep == ASSUME Inv, Release PROVE Inv'
  <1>1. PICK st \in PinStacks, s \in PortServices : pins' = [pins EXCEPT ![st][s] = Unpinned]
    BY DEF Release
  <1>2. pins \in [PinStacks -> PinMap] /\ NoPortTwice(pins)
    BY DEF Inv, PinsOK
  <1>3. pins' \in [PinStacks -> PinMap]
    BY <1>1, <1>2 DEF PinMap
  <1>4. \A t \in PinStacks, a \in PortServices : pins'[t][a] # Unpinned => pins'[t][a] = pins[t][a]
    BY <1>1, <1>2 DEF PinMap
  <1>5. NoPortTwice(pins')
    BY <1>2, <1>4 DEF NoPortTwice
  <1>6. PinsOK'
    BY <1>3, <1>5 DEF PinsOK
  <1>7. JobsOK'
    BY JobsKept DEF Release, Inv
  <1>8. CountsOK' /\ writes \in Nat /\ writes' = writes + 1
    BY PortAssumption DEF Release, Inv, CountsOK
  <1>9. \A d \in Allocators : Paid(job[d])'
    BY <1>8, PaidKept DEF Release, Inv
  <1> QED BY <1>6, <1>7, <1>8, <1>9 DEF Inv

LEMMA BindStep == ASSUME Inv, BindOrFree PROVE Inv'
  <1>1. UNCHANGED <<pins, job, writes>>
    BY DEF BindOrFree
  <1>2. CountsOK'
    BY PortAssumption DEF BindOrFree, Inv, CountsOK
  <1>3. \A d \in Allocators : Paid(job[d])'
    BY <1>1, PaidKept DEF Inv, CountsOK
  <1> QED BY <1>1, <1>2, <1>3, JobsKept DEF Inv, PinsOK

LEMMA InvInit == InitPorts => Inv
  <1> SUFFICES ASSUME InitPorts PROVE Inv
    OBVIOUS
  <1>1. NoPins \in PinMap /\ \A s \in PortServices : NoPins[s] = Unpinned
    BY DEF NoPins, PinMap
  <1>2. PinsOK
    BY <1>1 DEF InitPorts, PinsOK, NoPortTwice
  <1>3. JobsOK
    BY IdleOK DEF InitPorts, JobsOK, JobOK
  <1>4. CountsOK
    BY PortAssumption DEF InitPorts, CountsOK
  <1>5. \A c \in Allocators : Paid(job[c])
    BY IdlePaid DEF InitPorts
  <1> QED BY <1>2, <1>3, <1>4, <1>5 DEF Inv

LEMMA InvNext == Inv /\ [PortsNext]_portVars => Inv'
  <1> SUFFICES ASSUME Inv, [PortsNext]_portVars PROVE Inv'
    OBVIOUS
  <1>1. CASE \E c \in Allocators : Allocate(c)
    <2>1. PICK c \in Allocators : Allocate(c)
      BY <1>1
    <2>2. CASE FailRun(c)
      BY <2>2, ReturnStep, StaysCounts DEF FailRun
    <2> QED BY <2>1, <2>2, BeginStep, ReadStep, FixedStep, KeepStep, ProbeStep, PinStep DEF Allocate
  <1>2. CASE Release \/ BindOrFree
    BY <1>2, ReleaseStep, BindStep
  <1>3. CASE UNCHANGED portVars
    <2>1. JobsOK'
      BY <1>3, JobsKept DEF portVars, Inv
    <2>2. \A d \in Allocators : Paid(job[d])'
      BY <1>3, PaidKept DEF portVars, Inv, CountsOK
    <2> QED BY <1>3, <2>1, <2>2 DEF portVars, Inv, PinsOK, CountsOK
  <1> QED BY <1>1, <1>2, <1>3 DEF PortsNext

LEMMA InvAlways == PortsSpec => []Inv
  BY InvInit, InvNext, PTL DEF PortsSpec

-----------------------------------------------------------------------------
(* The theorems *)

(* Every variable keeps its type; an allocation makes at most MaxAttempts
   attempts (allocatePorts). *)
THEOREM PortsTyped == PortsSpec => []PortsTypeOK
  <1>1. Inv => PortsTypeOK
    BY DEF Inv, PinsOK, JobsOK, CountsOK, PortsTypeOK
  <1> QED BY <1>1, InvAlways, PTL

(* No host port is pinned twice, and the store's UNIQUE(port) is never what
   prevents it (isStillValid). *)
THEOREM PinsStayDistinct == PortsSpec => []PinsDistinct
  <1>1. Inv => PinsDistinct
    BY DEF Inv, PinsOK, JobsOK, JobOK, PinsDistinct
  <1> QED BY <1>1, InvAlways, PTL

(* An allocation starts over only because pins really changed under it. *)
THEOREM RetriesArePaidFor == PortsSpec => []RetriesPaidFor
  <1>1. ASSUME Inv, NEW c \in Allocators, job[c].pc # "idle"
        PROVE  job[c].attempt - 1 <= writes - job[c].since
    <2>1. PICK w \in Nat : w <= writes /\ job[c].attempt - 1 <= w - job[c].since
      BY <1>1 DEF Inv, Paid
    <2>2. job[c].attempt \in 0..MaxAttempts /\ job[c].since \in Nat /\ writes \in Nat
          /\ MaxAttempts \in Nat
      BY <1>1, JobFacts, PortAssumption DEF Jobs, Inv, CountsOK
    <2> QED BY <2>1, <2>2
  <1>2. Inv => RetriesPaidFor
    BY <1>1 DEF RetriesPaidFor
  <1> QED BY <1>2, InvAlways, PTL

(* What an update of the pins keeps: the pin of each automatic service that no
   fixed request of the stack takes. *)
Stable ==
    \A c \in Allocators :
      job[c].pc = "choose" /\ job[c].todo = {} /\ pins' # pins /\ job'[c] # job[c] =>
        \A r \in ToSet(job[c].request) :
          LET pin == pins[job[c].stack][r.service] IN
          /\ ~Fixed(r)
          /\ pin # Unpinned
          /\ \A q \in ToSet(job[c].request) : q.port # pin
          => pins'[job[c].stack][r.service] = pin

(* Only the caller's own update both changes the pins and moves its job. *)
LEMMA OwnUpdate ==
    ASSUME Inv, PortsNext, NEW c \in Allocators, pins' # pins, job'[c] # job[c]
    PROVE  Pin(c)
  <1>1. ~Release /\ ~BindOrFree
    BY DEF Release, BindOrFree
  <1>2. PICK d \in Allocators : Allocate(d)
    BY <1>1 DEF PortsNext
  <1>3. Pin(d)
    BY <1>2 DEF Allocate, BeginRun, ReadState, TakeFixed, KeepPin, Probe, FailRun, PortsStay
  <1>4. \E rec : job' = [job EXCEPT ![d] = rec]
    BY <1>3 DEF Pin, ReturnRun
  <1>5. d = c
    BY <1>4 DEF Inv, JobsOK
  <1> QED BY <1>3, <1>5

LEMMA StableStep == Inv /\ [PortsNext]_portVars => Stable
  <1> SUFFICES ASSUME Inv, [PortsNext]_portVars, NEW c \in Allocators,
                      job[c].pc = "choose", pins' # pins, job'[c] # job[c], job[c].todo = {},
                      NEW r \in ToSet(job[c].request),
                      ~Fixed(r), pins[job[c].stack][r.service] # Unpinned,
                      \A q \in ToSet(job[c].request) : q.port # pins[job[c].stack][r.service]
               PROVE  pins'[job[c].stack][r.service] = pins[job[c].stack][r.service]
    BY DEF Stable
  <1> DEFINE j == job[c]
             pin == pins[j.stack][r.service]
  <1>1. Pin(c)
    BY OwnUpdate DEF portVars
  <1>2. j.stack \in PinStacks /\ j.request \in Requests /\ Chosen(j)
    BY JobFacts
  <1>3. /\ IsStillValid(pins, j.seen, j.stack, j.ports)
        /\ pins' = [pins EXCEPT ![j.stack] = j.ports]
    BY <1>1 DEF Pin
  <1>4. pins'[j.stack] = j.ports
    BY <1>2, <1>3 DEF Inv, PinsOK
  <1>5. PICK i \in DOMAIN j.request : r = j.request[i]
    BY <1>2, EntryType
  <1>6. r.service \in PortServices
    BY <1>2, <1>5, RequestType
  <1>7. j.seen[j.stack] = pins[j.stack]
    BY <1>3 DEF IsStillValid, SamePins
  <1>8. pin \notin Reserved(j.seen, j.stack)
    <2>1. SUFFICES ASSUME NEW t \in PinStacks \ {j.stack}, pin \in Held(j.seen[t]) PROVE FALSE
      BY DEF Reserved
    <2>2. PICK s \in PortServices : j.seen[t][s] = pin
      BY <2>1 DEF Held
    <2>3. j.seen[j.stack][r.service] = j.seen[t][s] /\ j.seen[j.stack][r.service] # Unpinned
      BY <1>7, <2>2
    <2> QED BY SMTT(30), <1>2, <1>6, <2>3 DEF Chosen, NoPortTwice
  <1>9. pin \in KeptPins(j)
    BY <1>7, <1>8 DEF KeptPins
  <1>10. j.ports[r.service] = pin
    BY <1>2, <1>5, <1>7, <1>9 DEF Chosen
  <1> QED BY <1>4, <1>10

(* An automatic port stays where it is as long as its service is in the stack
   and no fixed port of the stack takes it (allocate's keptPins). *)
THEOREM PortsAreStable == PortsSpec => PortsStable
  <1>1. Inv /\ [PortsNext]_portVars => [Stable]_portVars
    BY StableStep
  <1>2. PortsSpec => [][Stable]_portVars
    BY <1>1, InvAlways, PTL DEF PortsSpec
  <1> QED BY <1>2 DEF PortsStable, Stable

(* No port is pinned twice and no automatic port moves (allocate). *)
THEOREM PinsAlwaysHold == PortsSpec => PinsHold
  BY PinsStayDistinct, PortsAreStable, PTL DEF PinsHold
=============================================================================
