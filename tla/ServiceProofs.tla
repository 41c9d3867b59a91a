--------------------------- MODULE ServiceProofs ---------------------------
(***************************************************************************)
(* Data and password of a service stay together, for any set of secret     *)
(* values and any number of snapshots; the lines of its container's log    *)
(* are whole, for any log and any cut of it into chunks; and a command     *)
(* that runs in the container returns what it wrote, for any command, any  *)
(* caps and any order of steps, and is fed a seed whole, or over a         *)
(* connection that was lost, before the seed is reported as done.          *)
(***************************************************************************)
EXTENDS ServiceData, ContainerStreams, DataTab, SequenceTheorems, TLAPS

Active(a) == op[a].pc # "idle"

(* An operation that is still alone has nobody beside it. *)
NobodyBeside ==
    \A a, b \in Actors : a # b /\ Active(a) /\ op[a].alone => op[b] = Idle

(* Each step belongs to its operation. *)
InPlace(a) ==
    LET o == op[a] IN
    /\ o.pc = "idle" => o = Idle
    /\ o.pc \in {"restore", "putback"} => o.kind = "restore"
    /\ o.pc \in {"import", "write"} => o.kind = "import"
    /\ o.pc = "choose" => o.kind = "add"
    /\ o.pc = "rotate" => o.kind = "rotate"
    /\ o.pc = "forget" => o.kind = "remove"
    /\ o.pc \in {"dropsecret", "dropsnaps"} => o.kind = "remove" /\ o.asked
    /\ o.pc \in {"rm", "rmvolume"} =>
         o.kind = "remove" \/ (o.kind = "rotate" /\ o.asked)
    /\ o.pc = "stop" => o.kind \in {"snapshot", "restore"}
    /\ o.pc \in {"archive", "record"} => o.kind = "snapshot"
    /\ o.pc = "down" => o.kind = "down"
    /\ o.kind = "restore" => Rendered
    /\ o.kind \in {"add", "rotate"} => o.mode # "absent"
    /\ o.kind = "remove" => o.mode = "absent"

(* What a removal with volumes has done by now. *)
RemovedSoFar(a) ==
    LET o == op[a] IN
    o.kind = "remove" /\ o.asked =>
      /\ o.pc # "rm" => container = "absent"
      /\ o.pc \notin {"rm", "rmvolume"} => volume = NoValue
      /\ o.pc \in {"dropsnaps", "provision", "render", "dotenv"} => stored = NoValue

(* What a restore has done by now. *)
RestoredSoFar(a) ==
    LET o == op[a] IN
    o.kind = "restore" /\ o.ok /\ Good(o.snap) =>
      /\ o.pc \in {"stop", "restore"} =>
           IF o.value = NoValue THEN stored = o.snap.saved ELSE o.value = o.snap.saved
      /\ o.pc \in {"putback", "provision", "render", "dotenv", "start"} => volume = o.snap.data
      /\ o.pc = "putback" => o.value = o.snap.saved
      /\ o.pc \in {"provision", "render", "dotenv", "start"} => stored = o.snap.saved

(* What an operation that is alone may rely on. *)
Reliable(a) ==
    LET o == op[a] IN
    /\ o.pc \in {"render", "dotenv"} /\ o.mode # "absent" => o.value = stored
    /\ o.pc = "dotenv" => env.mode = o.mode
    /\ o.pc = "start" /\ o.kind \notin {"restore", "snapshot"} =>
         env.mode # "volume" \/ env.secret = stored
    /\ o.pc = "rotate" /\ o.mode = "volume" => volume = NoValue
    /\ o.pc = "record" => volume # NoValue /\ o.snap.data = volume
    /\ RemovedSoFar(a)
    /\ RestoredSoFar(a)

Inv ==
    /\ TypeOK
    /\ NobodyBeside
    /\ volume # NoValue \/ container # "absent" => Rendered
    /\ \A a \in Actors : InPlace(a) /\ (op[a].alone => Reliable(a))

-----------------------------------------------------------------------------
(* How op changes *)

LEMMA IdleOp == Idle \in Ops
  BY DEF Idle, Ops, Kinds, Steps, Modes, SomeValue, NoSnap, Snapshots

LEMMA BeginsOp ==
    ASSUME TypeOK, NEW a \in Actors, NEW kind \in Kinds, NEW to \in Steps, NEW o \in Ops,
           Begins(a, kind, to, o)
    PROVE  /\ op' \in [Actors -> Ops]
           /\ op[a] = Idle
           /\ op'[a].kind = kind /\ op'[a].pc = to /\ op'[a].mode = o.mode
           /\ op'[a].value = o.value /\ op'[a].asked = o.asked /\ op'[a].snap = o.snap
           /\ op'[a].alone => \A b \in Actors : op[b] = Idle
           /\ \A b \in Actors \ {a} :
                op'[b] = IF op[b] = Idle THEN Idle ELSE [op[b] EXCEPT !.alone = FALSE]
  <1> DEFINE lone == \A c \in Actors : op[c] = Idle
  <1> DEFINE mine == [o EXCEPT !.kind = kind, !.pc = to, !.alone = lone]
  <1>1. /\ op[a] = Idle
        /\ op' = [b \in Actors |-> IF b = a THEN mine
                    ELSE IF op[b] = Idle THEN Idle ELSE [op[b] EXCEPT !.alone = FALSE]]
    BY DEF Begins
  <1>2. lone \in BOOLEAN
    OBVIOUS
  <1>3. /\ mine \in Ops
        /\ mine.kind = kind /\ mine.pc = to /\ mine.mode = o.mode
        /\ mine.value = o.value /\ mine.asked = o.asked /\ mine.snap = o.snap
        /\ mine.alone = lone
    <2> HIDE DEF lone
    <2> QED BY <1>2 DEF Ops
  <1>4. \A b \in Actors : [op[b] EXCEPT !.alone = FALSE] \in Ops
    BY DEF TypeOK, Ops
  <1> HIDE DEF mine
  <1> QED BY <1>1, <1>3, <1>4, IdleOp

LEMMA EndsOp ==
    ASSUME TypeOK, NEW a \in Actors, Ends(a)
    PROVE  op' \in [Actors -> Ops] /\ op'[a] = Idle /\ \A b \in Actors \ {a} : op'[b] = op[b]
  BY IdleOp DEF TypeOK, Ends

LEMMA GotoOp ==
    ASSUME TypeOK, NEW a \in Actors, NEW to \in Steps, Goto(a, to)
    PROVE  /\ op' \in [Actors -> Ops]
           /\ op'[a] = [op[a] EXCEPT !.pc = to]
           /\ \A b \in Actors \ {a} : op'[b] = op[b]
  <1>1. [op[a] EXCEPT !.pc = to] \in Ops
    BY DEF TypeOK, Ops
  <1> QED BY <1>1 DEF TypeOK, Goto

LEMMA UsesOp ==
    ASSUME TypeOK, NEW a \in Actors, NEW to \in Steps, Uses(a, to)
    PROVE  /\ op' \in [Actors -> Ops]
           /\ op'[a] = [op[a] EXCEPT !.pc = to, !.value = NoValue]
           /\ \A b \in Actors \ {a} : op'[b] = op[b]
  <1>1. [op[a] EXCEPT !.pc = to, !.value = NoValue] \in Ops
    BY ZenonT(40) DEF TypeOK, Ops, SomeValue
  <1> QED BY <1>1 DEF TypeOK, Uses

-----------------------------------------------------------------------------
(* What an actor's step leaves to prove: its own record *)

(* a's operation goes on or ends. *)
Onward(a) ==
    /\ Active(a)
    /\ \A b \in Actors \ {a} : op'[b] = op[b]
    /\ op'[a] = Idle \/ op'[a].alone = op[a].alone

(* a begins an operation. *)
Entry(a) ==
    /\ op[a] = Idle
    /\ op'[a].alone => \A b \in Actors : op[b] = Idle
    /\ \A b \in Actors \ {a} :
         op'[b] = IF op[b] = Idle THEN Idle ELSE [op[b] EXCEPT !.alone = FALSE]

LEMMA IdleFine ==
    ASSUME NEW a \in Actors, op[a] = Idle
    PROVE  InPlace(a) /\ Reliable(a) /\ ~Active(a)
  BY DEF InPlace, Reliable, RemovedSoFar, RestoredSoFar, Active, Idle

LEMMA IdleFineNext ==
    ASSUME NEW a \in Actors, op'[a] = Idle
    PROVE  InPlace(a)' /\ Reliable(a)' /\ ~Active(a)'
  BY DEF InPlace, Reliable, RemovedSoFar, RestoredSoFar, Active, Idle, Rendered

LEMMA ActiveNotIdle ==
    ASSUME Inv, NEW a \in Actors
    PROVE  Active(a) <=> op[a] # Idle
  BY IdleFine DEF Inv, InPlace, Active

LEMMA OnwardKept ==
    ASSUME Inv, TypeOK', NEW a \in Actors, Onward(a), Rendered => Rendered',
           volume' # NoValue \/ container' # "absent" => Rendered',
           op'[a] # Idle => InPlace(a)' /\ (op'[a].alone => Reliable(a)')
    PROVE  Inv'
  <1>1. InPlace(a)' /\ (op'[a].alone => Reliable(a)')
    BY IdleFineNext
  <1>2. ASSUME NEW b \in Actors \ {a}
        PROVE  InPlace(b)' /\ (op'[b].alone => Reliable(b)')
    <2>1. op'[b] = op[b]
      BY <1>2 DEF Onward
    <2>2. InPlace(b)'
      BY <1>2, <2>1 DEF Inv, InPlace
    <2>3. CASE op[b] = Idle
      BY <1>2, <2>1, <2>3, IdleFineNext
    <2>4. CASE op[b] # Idle /\ op[b].alone
      BY <1>2, <2>4, ActiveNotIdle DEF Inv, NobodyBeside, Onward
    <2> QED BY <2>1, <2>2, <2>3, <2>4
  <1>3. NobodyBeside'
    <2> SUFFICES ASSUME NEW x \in Actors, NEW y \in Actors, x # y, Active(x)', op'[x].alone
                 PROVE  op'[y] = Idle
      BY DEF NobodyBeside
    <2>1. CASE x = a
      <3>1. op'[a] # Idle
        BY <2>1, IdleFineNext
      <3> QED BY <2>1, <3>1 DEF Inv, NobodyBeside, Onward
    <2>2. CASE x # a
      <3>1. op'[x] = op[x] /\ Active(x) /\ op[x].alone
        BY <2>2 DEF Onward, Active
      <3>2. op[a] = Idle
        BY <2>2, <3>1 DEF Inv, NobodyBeside
      <3> QED BY <3>2, ActiveNotIdle DEF Onward
    <2> QED BY <2>1, <2>2
  <1> QED BY <1>1, <1>2, <1>3 DEF Inv

LEMMA EntryKept ==
    ASSUME Inv, TypeOK', NEW a \in Actors, Entry(a), Rendered => Rendered',
           volume' # NoValue \/ container' # "absent" => Rendered', InPlace(a)', op'[a].alone => Reliable(a)'
    PROVE  Inv'
  <1>1. ASSUME NEW b \in Actors \ {a}, op'[b] # Idle
        PROVE  InPlace(b)' /\ ~op'[b].alone
    <2>1. op'[b] = [op[b] EXCEPT !.alone = FALSE] /\ op[b] \in Ops
      BY <1>1 DEF Entry, Inv, TypeOK
    <2>2. /\ op'[b].pc = op[b].pc /\ op'[b].kind = op[b].kind /\ op'[b].asked = op[b].asked
          /\ op'[b].mode = op[b].mode /\ ~op'[b].alone
      BY <2>1 DEF Ops
    <2>3. op[b].pc # "idle"
      BY <1>1, ActiveNotIdle DEF Entry, Active
    <2>4. InPlace(b)
      BY <1>1 DEF Inv
    <2> QED BY <2>2, <2>3, <2>4 DEF InPlace
  <1>2. \A b \in Actors : InPlace(b)' /\ (op'[b].alone => Reliable(b)')
    BY <1>1, IdleFineNext
  <1>3. NobodyBeside'
    <2> SUFFICES ASSUME NEW x \in Actors, NEW y \in Actors, x # y, Active(x)', op'[x].alone
                 PROVE  op'[y] = Idle
      BY DEF NobodyBeside
    <2>1. x = a
      BY <1>1, IdleFineNext
    <2>2. op[y] = Idle /\ y # a
      BY <2>1 DEF Entry
    <2> QED BY <2>1, <2>2 DEF Entry
  <1> QED BY <1>2, <1>3 DEF Inv

-----------------------------------------------------------------------------
(* The steps of the operations *)

(* What PasswordKept says of a step. *)
Kept ==
    Fits /\ ~Fits' =>
      \E a \in Actors : /\ op'[a] # op[a]
                        /\ \/ ~op[a].alone
                           \/ op[a].kind \in {"restore", "import"}
                           \/ op[a].kind = "snapshot" /\ env.secret # stored
                           \/ op[a].mode = "ephemeral"

DiskOK ==
    /\ registered \in BOOLEAN
    /\ entry \in Modes \cup {"absent"}
    /\ stored \in SomeValue
    /\ env \in [mode : Modes \cup {"absent", "unrendered"}, secret : SomeValue]
    /\ volume \in SomeValue
    /\ container \in Modes \cup {"absent"}
    /\ running \in BOOLEAN
    /\ snaps \subseteq Snapshots

LEMMA TypeParts == TypeOK <=> DiskOK /\ op \in [Actors -> Ops]
  BY DEF TypeOK, DiskOK

(* An operation begins. *)
LEMMA BeginStep ==
    ASSUME Inv, NEW a \in Actors, NEW kind \in Kinds, NEW to \in Steps, NEW o \in Ops,
           Begins(a, kind, to, o), DiskOK', UNCHANGED <<stored, env, volume, container>>,
           to \in {"choose", "provision", "down", "rm", "rotate", "stop", "archive", "import",
                   "write"},
           to \in {"import", "write"} => kind = "import", to = "choose" => kind = "add",
           to = "rotate" => kind = "rotate" /\ o.mode # "volume",
           to = "rm" => kind = "remove" \/ (kind = "rotate" /\ o.asked),
           to = "stop" => kind \in {"snapshot", "restore"},
           to = "archive" => kind = "snapshot", to = "down" => kind = "down",
           kind \in {"add", "rotate"} => o.mode # "absent",
           kind = "remove" => to = "rm" /\ o.mode = "absent",
           kind = "restore" =>
             /\ Rendered
             /\ to = "stop"
             /\ o.value = IF o.snap.saved # stored THEN o.snap.saved ELSE NoValue
    PROVE  Inv' /\ Kept
  <1>1. /\ op' \in [Actors -> Ops]
        /\ Entry(a)
        /\ op'[a].kind = kind /\ op'[a].pc = to /\ op'[a].mode = o.mode
        /\ op'[a].asked = o.asked /\ op'[a].value = o.value /\ op'[a].snap = o.snap
    BY BeginsOp DEF Inv, Entry
  <1>2. TypeOK'
    BY <1>1 DEF TypeOK, DiskOK
  <1>3. Rendered' <=> Rendered
    BY DEF Rendered
  <1>4. InPlace(a)' /\ Reliable(a)'
    BY <1>1, <1>3 DEF InPlace, Reliable, RemovedSoFar, RestoredSoFar, Good
  <1>5. Kept
    BY DEF Kept, Fits
  <1> QED BY <1>1, <1>2, <1>3, <1>4, <1>5, EntryKept DEF Inv

(* An operation goes on. *)
LEMMA OnStep ==
    ASSUME Inv, NEW a \in Actors, Active(a), NEW to \in Steps, Goto(a, to) \/ Uses(a, to),
           DiskOK', Rendered => Rendered', volume' # NoValue \/ container' # "absent" => Rendered',
           InPlace(a)', op[a].alone => Reliable(a)'
    PROVE  Inv'
  <1>1. /\ op' \in [Actors -> Ops] /\ op'[a].alone = op[a].alone
        /\ \A b \in Actors \ {a} : op'[b] = op[b]
    <2>1. op[a] \in Ops
      BY DEF Inv, TypeOK
    <2>2. /\ [op[a] EXCEPT !.pc = to].alone = op[a].alone
          /\ [op[a] EXCEPT !.pc = to, !.value = NoValue].alone = op[a].alone
      BY <2>1 DEF Ops
    <2> QED BY <2>2, GotoOp, UsesOp DEF Inv
  <1>2. TypeOK' /\ Onward(a)
    BY <1>1 DEF TypeOK, DiskOK, Onward
  <1> QED BY <1>1, <1>2, OnwardKept

(* An operation ends. *)
LEMMA EndStep ==
    ASSUME Inv, NEW a \in Actors, Active(a), Ends(a), DiskOK', Rendered => Rendered',
           volume' # NoValue \/ container' # "absent" => Rendered'
    PROVE  Inv'
  <1>1. op' \in [Actors -> Ops] /\ op'[a] = Idle /\ \A b \in Actors \ {a} : op'[b] = op[b]
    BY EndsOp DEF Inv
  <1>2. TypeOK' /\ Onward(a)
    BY <1>1 DEF TypeOK, DiskOK, Onward
  <1> QED BY <1>1, <1>2, OnwardKept

LEMMA SameFits == UNCHANGED <<stored, volume>> => Kept
  BY DEF Kept, Fits

LEMMA SameDisk == Inv /\ UNCHANGED <<disk, container, running>> => DiskOK'
  BY DEF Inv, TypeOK, disk, DiskOK

(* The fields that a Goto or Uses leaves as they were. *)
LEMMA Fields ==
    ASSUME TypeOK, NEW a \in Actors, NEW to \in Steps, Goto(a, to) \/ Uses(a, to)
    PROVE  /\ op'[a].pc = to /\ op'[a].kind = op[a].kind /\ op'[a].mode = op[a].mode
           /\ op'[a].asked = op[a].asked /\ op'[a].alone = op[a].alone
           /\ op'[a].snap = op[a].snap /\ op'[a].ok = op[a].ok
           /\ Goto(a, to) => op'[a].value = op[a].value
  <1>1. op[a] \in Ops
    BY DEF TypeOK
  <1>2. op'[a] = [op[a] EXCEPT !.pc = to] \/ op'[a] = [op[a] EXCEPT !.pc = to, !.value = NoValue]
    BY GotoOp, UsesOp
  <1>3. Goto(a, to) => op'[a] = [op[a] EXCEPT !.pc = to]
    BY GotoOp
  <1> QED BY <1>1, <1>2, <1>3 DEF Ops

LEMMA ProvisionStep ==
    ASSUME Inv, NEW a \in Actors, Provision(a)
    PROVE  Inv' /\ Kept
  <1> USE DEF Inv
  <1>1. /\ At(a, "provision") /\ Active(a) /\ op[a] \in Ops
        /\ UNCHANGED <<registered, entry, env, volume, snaps, container, running>>
    BY DEF Provision, At, Active, TypeOK
  <1>2. PICK v \in SomeValue :
          /\ op' = [op EXCEPT ![a].pc = "render", ![a].value = v]
          /\ stored' \in SomeValue
          /\ op[a].mode # "absent" => v = stored'
          /\ stored' # stored => stored = NoValue
    BY DEF Provision, Fresh, TypeOK, SomeValue
  <1>3. /\ op'[a] = [op[a] EXCEPT !.pc = "render", !.value = v]
        /\ op' \in [Actors -> Ops]
        /\ \A b \in Actors \ {a} : op'[b] = op[b]
    <2>1. [op[a] EXCEPT !.pc = "render", !.value = v] \in Ops
      BY <1>1 DEF Ops, Steps
    <2> QED BY <1>2, <2>1 DEF TypeOK
  <1>4. /\ op'[a].pc = "render" /\ op'[a].kind = op[a].kind /\ op'[a].mode = op[a].mode
        /\ op'[a].alone = op[a].alone /\ op'[a].value = v /\ op'[a].asked = op[a].asked
        /\ op'[a].snap = op[a].snap /\ op'[a].ok = op[a].ok
    BY <1>1, <1>3 DEF Ops
  <1>5. TypeOK'
    BY <1>1, <1>2, <1>3 DEF TypeOK
  <1>6. Rendered' <=> Rendered
    BY <1>1 DEF Rendered
  <1>7. InPlace(a)' /\ (op[a].alone => Reliable(a)')
    <2>1. InPlace(a)'
      BY <1>1, <1>4, <1>6 DEF InPlace, At
    <2>2. op[a].kind = "remove" => stored' = stored
      BY <1>1 DEF InPlace, Provision
    <2>3. op[a].alone => RemovedSoFar(a)'
      BY <1>1, <1>4, <2>2 DEF Reliable, RemovedSoFar, At
    <2>4. op[a].alone => RestoredSoFar(a)'
      BY ZenonT(40), <1>1, <1>2, <1>4 DEF Reliable, RestoredSoFar, At, Good
    <2> QED BY <1>2, <1>4, <2>1, <2>3, <2>4 DEF Reliable
  <1>8. Kept
    BY <1>1, <1>2 DEF Kept, Fits
  <1>9. Onward(a)
    BY <1>1, <1>3, <1>4 DEF Onward
  <1> QED BY <1>1, <1>4, <1>5, <1>6, <1>7, <1>8, <1>9, OnwardKept

LEMMA WriteComposeStep ==
    ASSUME Inv, NEW a \in Actors, WriteCompose(a)
    PROVE  Inv' /\ Kept
  <1>1. /\ op[a].pc = "render" /\ Active(a) /\ op[a] \in Ops
        /\ Goto(a, "dotenv") /\ "dotenv" \in Steps
        /\ env' = [env EXCEPT !.mode = op[a].mode]
        /\ UNCHANGED <<registered, entry, stored, volume, snaps, container, running>>
    BY DEF WriteCompose, At, Active, Inv, TypeOK, Steps
  <1>2. DiskOK' /\ Rendered' /\ env'.mode = op[a].mode
    BY <1>1 DEF Inv, TypeOK, DiskOK, Rendered, Ops, Modes
  <1>3. InPlace(a)'
    BY <1>1, <1>2, Fields DEF Inv, InPlace
  <1>4. ASSUME op[a].alone
        PROVE  Reliable(a)'
    <2>1. Reliable(a)
      BY <1>4 DEF Inv
    <2>2. RemovedSoFar(a)' /\ RestoredSoFar(a)'
      BY <1>1, <2>1, Fields DEF Inv, Reliable, RemovedSoFar, RestoredSoFar
    <2> QED BY <1>1, <1>2, <2>1, <2>2, Fields DEF Inv, Reliable
  <1> QED BY <1>1, <1>2, <1>3, <1>4, OnStep, SameFits

LEMMA WriteEnvStep ==
    ASSUME Inv, NEW a \in Actors, WriteEnv(a)
    PROVE  Inv' /\ Kept
  <1>1. /\ op[a].pc = "dotenv" /\ Active(a) /\ op[a] \in Ops
        /\ env' = [env EXCEPT !.secret = op[a].value]
        /\ UNCHANGED <<registered, entry, stored, volume, snaps, container, running>>
    BY DEF WriteEnv, At, Active, Inv, TypeOK
  <1>2. DiskOK' /\ (Rendered' <=> Rendered) /\ env'.mode = env.mode /\ env'.secret = op[a].value
    BY <1>1 DEF Inv, TypeOK, DiskOK, Rendered, Ops
  <1>3. volume' # NoValue \/ container' # "absent" => Rendered'
    BY <1>1, <1>2 DEF Inv
  <1>4. CASE Ends(a)
    BY <1>1, <1>2, <1>3, <1>4, EndStep, SameFits
  <1>5. CASE op[a].kind # "remove" /\ Uses(a, "start")
    <2>1. "start" \in Steps
      BY DEF Steps
    <2>2. InPlace(a)'
      BY <1>2, <1>5, <2>1, Fields DEF Inv, InPlace
    <2>3. ASSUME op[a].alone
          PROVE  Reliable(a)'
      <3>1. InPlace(a) /\ Reliable(a)
        BY <2>3 DEF Inv
      <3>2. RemovedSoFar(a)' /\ RestoredSoFar(a)'
        BY <1>1, <1>5, <2>1, <3>1, Fields DEF Reliable, RemovedSoFar, RestoredSoFar, Inv
      <3>3. env'.mode = "volume" => env'.secret = stored'
        BY <1>1, <1>2, <3>1 DEF Reliable
      <3> QED BY <1>5, <2>1, <3>2, <3>3, Fields DEF Reliable, Inv
    <2> QED BY <1>1, <1>2, <1>3, <1>5, <2>1, <2>2, <2>3, OnStep, SameFits
  <1> QED BY <1>4, <1>5 DEF WriteEnv

LEMMA StartStep ==
    ASSUME Inv, NEW a \in Actors, Start(a)
    PROVE  Inv' /\ Kept
  <1>1. /\ op[a].pc = "start" /\ Active(a) /\ Ends(a)
        /\ UNCHANGED <<registered, entry, stored, env, snaps>>
    BY DEF Start, At, Active
  <1>2. DiskOK'
    BY <1>1 DEF Start, Inv, TypeOK, DiskOK, Modes
  <1>3. (volume' # NoValue \/ container' # "absent" => Rendered') /\ (Rendered => Rendered')
    BY <1>1 DEF Start, Inv, Rendered, Modes
  <1>4. op'[a] # op[a]
    BY <1>1, EndsOp, ActiveNotIdle DEF Inv
  <1>5. Kept
    <2> SUFFICES ASSUME Fits, ~Fits', op[a].alone, op[a].kind # "restore"
                 PROVE  op[a].kind = "snapshot" /\ env.secret # stored
      BY <1>4 DEF Kept
    <2>1. /\ Reliable(a)
          /\ env.mode = "volume" /\ volume' = env.secret /\ env.secret # stored
      BY <1>1 DEF Inv, Start, Fits
    <2> QED BY <1>1, <2>1 DEF Reliable
  <1> QED BY <1>1, <1>2, <1>3, <1>5, EndStep

LEMMA RemoveContainerStep ==
    ASSUME Inv, NEW a \in Actors, RemoveContainer(a)
    PROVE  Inv' /\ Kept
  <1>1. /\ op[a].pc = "rm" /\ Active(a) /\ UNCHANGED disk
    BY DEF RemoveContainer, At, Active
  <1>2. DiskOK' /\ (Rendered => Rendered') /\ (volume' # NoValue \/ container' # "absent" => Rendered')
    BY DEF RemoveContainer, Inv, TypeOK, DiskOK, disk, Rendered
  <1>3. Kept
    BY <1>1, SameFits DEF disk
  <1>4. PICK to \in {"rmvolume", "forget", "rotate"} :
          /\ Goto(a, to)
          /\ to = "rmvolume" => op[a].asked /\ Rendered
          /\ to = "forget" => op[a].kind = "remove"
          /\ to = "rotate" => op[a].kind # "remove"
          /\ to # "rmvolume" => ~Rendered \/ ~op[a].asked
          /\ Rendered => container' = "absent"
    BY DEF RemoveContainer, AfterRemoval
  <1>5. to \in Steps /\ InPlace(a)
    BY DEF Steps, Inv
  <1>6. InPlace(a)'
    BY <1>1, <1>2, <1>4, <1>5, Fields DEF Inv, InPlace
  <1>7. ASSUME op[a].alone
        PROVE  Reliable(a)'
    <2>1. ~Rendered => volume = NoValue /\ container = "absent" /\ container' = "absent"
      BY DEF Inv, RemoveContainer
    <2>2. RemovedSoFar(a)' /\ RestoredSoFar(a)'
      BY <1>1, <1>4, <1>5, <2>1, Fields DEF InPlace, RemovedSoFar, RestoredSoFar, Inv, disk
    <2> QED BY <1>1, <1>4, <1>5, <2>1, <2>2, Fields DEF InPlace, Reliable, Inv, disk
  <1> QED BY <1>1, <1>2, <1>3, <1>4, <1>5, <1>6, <1>7, OnStep

LEMMA RemoveVolumeStep ==
    ASSUME Inv, NEW a \in Actors, RemoveVolume(a)
    PROVE  Inv' /\ Kept
  <1>1. /\ op[a].pc = "rmvolume" /\ Active(a) /\ volume' = NoValue
        /\ UNCHANGED <<registered, entry, stored, env, snaps, container, running>>
    BY DEF RemoveVolume, At, Active
  <1>2. DiskOK' /\ (Rendered => Rendered') /\ (volume' # NoValue \/ container' # "absent" => Rendered')
    BY <1>1 DEF Inv, TypeOK, DiskOK, SomeValue, Rendered
  <1>3. Kept
    BY <1>1 DEF Kept, Fits
  <1>4. PICK to \in {"forget", "rotate"} :
          Goto(a, to) /\ (to = "forget" <=> op[a].kind = "remove")
    BY DEF RemoveVolume, AfterRemoval
  <1>5. to \in Steps /\ InPlace(a)
    BY DEF Steps, Inv
  <1>6. InPlace(a)'
    BY <1>1, <1>2, <1>4, <1>5, Fields DEF Inv, InPlace
  <1>7. ASSUME op[a].alone
        PROVE  Reliable(a)'
    <2>1. Reliable(a)
      BY <1>7 DEF Inv
    <2>2. RemovedSoFar(a)' /\ RestoredSoFar(a)'
      BY <1>1, <1>4, <1>5, <2>1, Fields DEF InPlace, Reliable, RemovedSoFar, RestoredSoFar, Inv
    <2> QED BY <1>1, <1>4, <1>5, <2>2, Fields DEF Reliable, Inv
  <1> QED BY <1>1, <1>2, <1>3, <1>4, <1>5, <1>6, <1>7, OnStep

LEMMA TakeDownStep ==
    ASSUME Inv, NEW a \in Actors, TakeDown(a)
    PROVE  Inv' /\ Kept
  <1>1. /\ Active(a) /\ Ends(a) /\ container' = "absent" /\ running' = FALSE
        /\ volume' \in {volume, NoValue}
        /\ UNCHANGED <<registered, entry, stored, env, snaps>>
    BY DEF TakeDown, At, Active
  <1>2. DiskOK' /\ (Rendered => Rendered') /\ (volume' # NoValue \/ container' # "absent" => Rendered')
    BY <1>1 DEF Inv, TypeOK, DiskOK, SomeValue, Rendered
  <1>3. Kept
    BY <1>1 DEF Kept, Fits
  <1> QED BY <1>1, <1>2, <1>3, EndStep

LEMMA AbortStep ==
    ASSUME Inv, NEW a \in Actors, Abort(a)
    PROVE  Inv' /\ Kept
  <1>1. Active(a) /\ Ends(a) /\ UNCHANGED <<disk, container, running>>
    BY ActiveNotIdle DEF Abort
  <1>2. DiskOK' /\ (Rendered => Rendered') /\ (volume' # NoValue \/ container' # "absent" => Rendered')
    BY <1>1, SameDisk DEF Inv, disk, Rendered
  <1> QED BY <1>1, <1>2, EndStep, SameFits DEF disk

(* What touches neither the operations nor what they rely on. *)
LEMMA AsideStep ==
    ASSUME Inv, UNCHANGED <<stored, env, volume, container, op>>, DiskOK'
    PROVE  Inv' /\ Kept
  <1>1. TypeOK'
    BY DEF Inv, TypeOK, DiskOK
  <1>2. NobodyBeside' /\ (volume' # NoValue \/ container' # "absent" => Rendered')
    BY DEF Inv, NobodyBeside, Active, Rendered
  <1>3. \A a \in Actors : InPlace(a)' <=> InPlace(a)
    BY DEF InPlace, Rendered
  <1>4. \A a \in Actors : Reliable(a)' <=> Reliable(a)
    BY DEF Reliable, RemovedSoFar, RestoredSoFar
  <1> QED BY <1>1, <1>2, <1>3, <1>4, SameFits DEF Inv

-----------------------------------------------------------------------------
(* The steps that only the server takes *)

(* A step that changes at most the entry, the registration, the snapshots and
   whether the service runs. *)
LEMMA LightStep ==
    ASSUME Inv, NEW to \in Steps, Active("server"), Goto("server", to),
           UNCHANGED <<stored, env, volume, container>>, DiskOK',
           to \in {"dropsecret", "dropsnaps"} => op["server"].kind = "remove" /\ op["server"].asked,
           to \in {"archive", "record"} => op["server"].kind = "snapshot",
           to \in {"restore", "putback"} => op["server"].kind = "restore",
           to \notin {"idle", "import", "write", "choose", "rotate", "forget", "rm", "rmvolume",
                     "stop", "down"},
           op["server"].alone =>
             /\ to \notin {"render", "dotenv", "record"}
             /\ to = "start" => op["server"].kind = "snapshot"
             /\ RemovedSoFar("server")' /\ RestoredSoFar("server")'
    PROVE  Inv' /\ Kept
  <1>1. "server" \in Actors
    BY DEF Actors
  <1>2. /\ Rendered' <=> Rendered
        /\ volume' # NoValue \/ container' # "absent" => Rendered'
    BY DEF Inv, Rendered
  <1>3. InPlace("server")'
    BY <1>1, <1>2, Fields DEF Inv, InPlace
  <1>4. op["server"].alone => Reliable("server")'
    BY <1>1, Fields DEF Inv, Reliable
  <1> QED BY <1>1, <1>2, <1>3, <1>4, OnStep, SameFits

LEMMA ChooseSecretStep == Inv /\ ChooseSecret => Inv' /\ Kept
  <1> SUFFICES ASSUME Inv, ChooseSecret
               PROVE  Inv' /\ Kept
    OBVIOUS
  <1> DEFINE o == op["server"]
  <1>1. /\ "server" \in Actors /\ Active("server") /\ o.pc = "choose" /\ o \in Ops
        /\ "provision" \in Steps /\ Uses("server", "provision")
        /\ UNCHANGED <<registered, entry, env, volume, snaps, container, running>>
    BY DEF ChooseSecret, At, Active, Actors, Steps, Inv, TypeOK
  <1>2. o.kind = "add" /\ o.mode # "absent"
    BY <1>1 DEF Inv, InPlace
  <1>3. stored' \in SomeValue
    BY <1>1 DEF ChooseSecret, Ops, Inv, TypeOK
  <1>4. /\ DiskOK' /\ (Rendered' <=> Rendered)
        /\ volume' # NoValue \/ container' # "absent" => Rendered'
    BY <1>1, <1>3 DEF Inv, TypeOK, DiskOK, Rendered
  <1>5. /\ op'["server"].pc = "provision" /\ op'["server"].kind = "add"
        /\ op'["server"].mode = o.mode
    BY <1>1, <1>2, Fields DEF Inv
  <1>6. InPlace("server")' /\ Reliable("server")'
    BY <1>2, <1>5 DEF InPlace, Reliable, RemovedSoFar, RestoredSoFar
  <1>7. Kept
    <2>1. o.mode \in {"volume", "ephemeral"}
      BY <1>1, <1>2 DEF Ops, Modes
    <2>2. op'["server"] # o
      BY <1>1, <1>5
    <2> QED BY <1>1, <2>1, <2>2 DEF Kept, Fits, ChooseSecret
  <1> QED BY <1>1, <1>4, <1>6, <1>7, OnStep

LEMMA ForgetStep == Inv /\ Forget => Inv' /\ Kept
  <1> SUFFICES ASSUME Inv, Forget
               PROVE  Inv' /\ Kept
    OBVIOUS
  <1>1. /\ "server" \in Actors /\ Active("server") /\ op["server"].pc = "forget"
        /\ UNCHANGED <<registered, stored, env, volume, snaps, container, running>>
    BY DEF Forget, At, Active, Actors
  <1>2. PICK to \in {"dropsecret", "provision"} :
          Goto("server", to) /\ (to = "dropsecret" <=> op["server"].asked)
    BY <1>1 DEF Forget, Inv, TypeOK, Ops
  <1>3. to \in Steps /\ op["server"].kind = "remove" /\ DiskOK'
    BY <1>1 DEF Steps, Inv, InPlace, TypeOK, DiskOK, Forget
  <1>4. op["server"].alone => RemovedSoFar("server")' /\ RestoredSoFar("server")'
    BY <1>1, <1>2, <1>3, Fields DEF Inv, Reliable, RemovedSoFar, RestoredSoFar
  <1> QED BY <1>1, <1>2, <1>3, <1>4, LightStep

LEMMA DropSecretStep == Inv /\ DropSecret => Inv' /\ Kept
  <1> SUFFICES ASSUME Inv, DropSecret
               PROVE  Inv' /\ Kept
    OBVIOUS
  <1>1. /\ "server" \in Actors /\ Active("server") /\ op["server"].pc = "dropsecret"
        /\ "dropsnaps" \in Steps /\ Goto("server", "dropsnaps") /\ stored' = NoValue
        /\ UNCHANGED <<registered, entry, env, volume, snaps, container, running>>
    BY DEF DropSecret, At, Active, Actors, Steps
  <1>2. op["server"].kind = "remove" /\ op["server"].asked
    BY <1>1 DEF Inv, InPlace
  <1>3. /\ DiskOK' /\ (Rendered' <=> Rendered)
        /\ volume' # NoValue \/ container' # "absent" => Rendered'
    BY <1>1 DEF Inv, TypeOK, DiskOK, Rendered, SomeValue
  <1>4. op["server"].alone => volume = NoValue /\ container = "absent"
    BY <1>1, <1>2 DEF Inv, Reliable, RemovedSoFar
  <1>5. /\ op'["server"].pc = "dropsnaps" /\ op'["server"].kind = "remove"
        /\ op'["server"].asked /\ op'["server"].mode = op["server"].mode
    BY <1>1, <1>2, Fields DEF Inv
  <1>6. InPlace("server")' /\ (op["server"].alone => Reliable("server")')
    BY <1>1, <1>4, <1>5 DEF Inv, InPlace, Reliable, RemovedSoFar, RestoredSoFar
  <1>7. Kept
    <2>1. op'["server"] # op["server"]
      BY <1>1, <1>5
    <2> QED BY <1>1, <1>4, <2>1 DEF Kept, Fits
  <1> QED BY <1>1, <1>3, <1>6, <1>7, OnStep

LEMMA DropSnapshotsStep == Inv /\ DropSnapshots => Inv' /\ Kept
  <1> SUFFICES ASSUME Inv, DropSnapshots
               PROVE  Inv' /\ Kept
    OBVIOUS
  <1>1. /\ "server" \in Actors /\ Active("server") /\ op["server"].pc = "dropsnaps"
        /\ "provision" \in Steps /\ Goto("server", "provision")
        /\ UNCHANGED <<registered, entry, stored, env, volume, container, running>>
    BY DEF DropSnapshots, At, Active, Actors, Steps
  <1>2. op["server"].kind = "remove" /\ op["server"].asked /\ DiskOK'
    BY <1>1 DEF Inv, InPlace, TypeOK, DiskOK, DropSnapshots
  <1>3. op["server"].alone => RemovedSoFar("server")' /\ RestoredSoFar("server")'
    BY <1>1, <1>2, Fields DEF Inv, Reliable, RemovedSoFar, RestoredSoFar
  <1> QED BY <1>1, <1>2, <1>3, LightStep

LEMMA StoreRotatedStep == Inv /\ StoreRotated => Inv' /\ Kept
  <1> SUFFICES ASSUME Inv, StoreRotated
               PROVE  Inv' /\ Kept
    OBVIOUS
  <1> DEFINE o == op["server"]
  <1>1. /\ "server" \in Actors /\ Active("server") /\ o.pc = "rotate" /\ o \in Ops
        /\ "provision" \in Steps /\ Goto("server", "provision") /\ stored' \in SomeValue
        /\ UNCHANGED <<registered, entry, env, volume, snaps, container, running>>
    BY DEF StoreRotated, At, Active, Actors, Steps, Inv, TypeOK, Fresh, SomeValue
  <1>2. o.kind = "rotate" /\ o.mode # "absent"
    BY <1>1 DEF Inv, InPlace
  <1>3. /\ DiskOK' /\ (Rendered' <=> Rendered)
        /\ volume' # NoValue \/ container' # "absent" => Rendered'
    BY <1>1 DEF Inv, TypeOK, DiskOK, Rendered
  <1>4. /\ op'["server"].pc = "provision" /\ op'["server"].kind = "rotate"
        /\ op'["server"].mode = o.mode
    BY <1>1, <1>2, Fields DEF Inv
  <1>5. InPlace("server")' /\ Reliable("server")'
    BY <1>2, <1>4 DEF InPlace, Reliable, RemovedSoFar, RestoredSoFar
  <1>6. Kept
    <2>1. o.mode \in {"volume", "ephemeral"}
      BY <1>1, <1>2 DEF Ops, Modes
    <2>2. o.alone /\ o.mode = "volume" => volume = NoValue
      BY <1>1 DEF Inv, Reliable
    <2>3. op'["server"] # o
      BY <1>1, <1>4
    <2> QED BY <1>1, <2>1, <2>2, <2>3 DEF Kept, Fits
  <1> QED BY <1>1, <1>3, <1>5, <1>6, OnStep

LEMMA StopFirstStep == Inv /\ StopFirst => Inv' /\ Kept
  <1> SUFFICES ASSUME Inv, StopFirst
               PROVE  Inv' /\ Kept
    OBVIOUS
  <1>1. /\ "server" \in Actors /\ Active("server") /\ op["server"].pc = "stop"
        /\ UNCHANGED <<registered, entry, stored, env, volume, snaps, container>>
    BY DEF StopFirst, At, Active, Actors, disk
  <1>2. PICK to \in {"archive", "restore"} :
          Goto("server", to) /\ (to = "archive" <=> op["server"].kind = "snapshot")
    BY DEF StopFirst
  <1>3. to \in Steps /\ op["server"].kind \in {"snapshot", "restore"} /\ DiskOK'
    BY <1>1 DEF Steps, Inv, InPlace, TypeOK, DiskOK, StopFirst
  <1>4. op["server"].alone => RemovedSoFar("server")' /\ RestoredSoFar("server")'
    BY <1>1, <1>2, <1>3, Fields DEF Inv, Reliable, RemovedSoFar, RestoredSoFar
  <1> QED BY <1>1, <1>2, <1>3, <1>4, LightStep

LEMMA ArchiveStep == Inv /\ Archive => Inv' /\ Kept
  <1> SUFFICES ASSUME Inv, Archive
               PROVE  Inv' /\ Kept
    OBVIOUS
  <1> DEFINE o == op["server"]
  <1> DEFINE p == [o EXCEPT !.pc = "record", !.snap.data = volume]
  <1>1. /\ "server" \in Actors /\ Active("server") /\ o.pc = "archive" /\ o \in Ops
        /\ volume \in SomeValue /\ volume # NoValue
        /\ op' = [op EXCEPT !["server"].pc = "record", !["server"].snap.data = volume]
        /\ UNCHANGED <<disk, container, running>>
    BY DEF Archive, At, Active, Actors, Inv, TypeOK
  <1>2. o.kind = "snapshot"
    BY <1>1 DEF Inv, InPlace
  <1>3. op'["server"] = p /\ \A b \in Actors \ {"server"} : op'[b] = op[b]
    BY <1>1 DEF Inv, TypeOK
  <1>4. /\ p \in Ops /\ p.pc = "record" /\ p.kind = "snapshot" /\ p.mode = o.mode
        /\ p.alone = o.alone /\ p.snap.data = volume
    BY <1>1, <1>2 DEF Ops, Snapshots, Steps
  <1> HIDE DEF p
  <1>5. TypeOK' /\ Onward("server")
    <2>1. op' \in [Actors -> Ops]
      BY <1>1, <1>3, <1>4 DEF Inv, TypeOK
    <2> QED BY <1>1, <1>3, <1>4, <2>1, SameDisk, TypeParts DEF Onward, TypeOK, DiskOK
  <1>6. (Rendered' <=> Rendered) /\ (volume' # NoValue \/ container' # "absent" => Rendered')
    BY <1>1 DEF Inv, Rendered, disk
  <1>7. InPlace("server")' /\ Reliable("server")'
    BY <1>1, <1>3, <1>4 DEF InPlace, Reliable, RemovedSoFar, RestoredSoFar, disk
  <1> QED BY <1>1, <1>5, <1>6, <1>7, OnwardKept, SameFits DEF disk

LEMMA AfterSnapshotStep ==
    ASSUME Inv, op["server"].kind = "snapshot", op["server"].pc \in {"archive", "record"},
           AfterSnapshot, DiskOK',
           UNCHANGED <<registered, entry, stored, env, volume, container, running>>
    PROVE  Inv' /\ Kept
  <1>1. "server" \in Actors /\ Active("server") /\ "start" \in Steps
    BY DEF Actors, Active, Steps
  <1>2. CASE Goto("server", "start")
    <2>1. RemovedSoFar("server")' /\ RestoredSoFar("server")'
      BY <1>1, <1>2, Fields DEF Inv, RemovedSoFar, RestoredSoFar
    <2> QED BY <1>1, <1>2, <2>1, LightStep
  <1>3. CASE Ends("server")
    <2>1. (Rendered' <=> Rendered) /\ (volume' # NoValue \/ container' # "absent" => Rendered')
      BY DEF Inv, Rendered
    <2> QED BY <1>1, <1>3, <2>1, EndStep, SameFits
  <1> QED BY <1>2, <1>3 DEF AfterSnapshot

LEMMA RecordStep == Inv /\ Record => Inv' /\ Kept
  <1> SUFFICES ASSUME Inv, Record
               PROVE  Inv' /\ Kept
    OBVIOUS
  <1> DEFINE new == [data |-> op["server"].snap.data, saved |-> stored]
  <1>1. op["server"].pc = "record" /\ op["server"].kind = "snapshot" /\ op["server"] \in Ops
    BY DEF Record, At, Actors, Inv, InPlace, TypeOK
  <1>2. new \in Snapshots
    BY <1>1 DEF Ops, Snapshots, Inv, TypeOK
  <1>3. DiskOK'
    BY <1>2 DEF Record, DiskOK, Inv, TypeOK
  <1> QED BY <1>1, <1>3, AfterSnapshotStep DEF Record

LEMMA SnapshotFailsStep == Inv /\ SnapshotFails => Inv' /\ Kept
  BY AfterSnapshotStep, SameDisk DEF SnapshotFails, disk

LEMMA RestoreFailsStep == Inv /\ RestoreFails => Inv' /\ Kept
  <1> SUFFICES ASSUME Inv, RestoreFails
               PROVE  Inv' /\ Kept
    OBVIOUS
  <1> DEFINE o == op["server"]
  <1> DEFINE p == [o EXCEPT !.pc = "start", !.value = NoValue, !.ok = FALSE]
  <1>1. /\ "server" \in Actors /\ Active("server") /\ o.kind = "restore" /\ o \in Ops
        /\ op' = [op EXCEPT !["server"].pc = "start", !["server"].value = NoValue,
                            !["server"].ok = FALSE]
        /\ UNCHANGED <<disk, container, running>>
    BY DEF RestoreFails, Active, Actors, Inv, TypeOK
  <1>2. op'["server"] = p /\ \A b \in Actors \ {"server"} : op'[b] = op[b]
    BY <1>1 DEF Inv, TypeOK
  <1>3. /\ p \in Ops /\ p.pc = "start" /\ p.kind = "restore" /\ p.mode = o.mode
        /\ p.alone = o.alone /\ ~p.ok
    BY <1>1 DEF Ops, SomeValue, Steps
  <1> HIDE DEF p
  <1>4. TypeOK' /\ Onward("server")
    <2>1. op' \in [Actors -> Ops]
      BY <1>1, <1>2, <1>3 DEF Inv, TypeOK
    <2> QED BY <1>1, <1>2, <1>3, <2>1, SameDisk, TypeParts DEF Onward, TypeOK, DiskOK
  <1>5. (Rendered' <=> Rendered) /\ (volume' # NoValue \/ container' # "absent" => Rendered')
    BY <1>1 DEF Inv, Rendered, disk
  <1>6. InPlace("server")' /\ Reliable("server")'
    <2>1. Rendered'
      BY <1>1, <1>5 DEF Inv, InPlace
    <2> QED BY <1>1, <1>2, <1>3, <2>1 DEF InPlace, Reliable, RemovedSoFar, RestoredSoFar
  <1> QED BY <1>1, <1>4, <1>5, <1>6, OnwardKept, SameFits DEF disk

LEMMA RestoreVolumeStep == Inv /\ RestoreVolume => Inv' /\ Kept
  <1> SUFFICES ASSUME Inv, RestoreVolume
               PROVE  Inv' /\ Kept
    OBVIOUS
  <1> DEFINE o == op["server"]
  <1>1. /\ "server" \in Actors /\ Active("server") /\ o.pc = "restore" /\ o \in Ops
        /\ volume' = o.snap.data
        /\ UNCHANGED <<registered, entry, stored, env, snaps, container, running>>
    BY DEF RestoreVolume, At, Active, Actors, Inv, TypeOK
  <1>2. PICK to \in {"start", "putback"} :
          Goto("server", to) /\ (to = "start" <=> o.value = NoValue)
    BY DEF RestoreVolume
  <1>3. to \in Steps /\ o.kind = "restore" /\ Rendered
    BY <1>1 DEF Steps, Inv, InPlace
  <1>4. DiskOK' /\ Rendered'
    BY <1>1, <1>3 DEF Ops, Snapshots, DiskOK, Inv, TypeOK, Rendered
  <1>5. InPlace("server")'
    BY <1>1, <1>2, <1>3, <1>4, Fields DEF Inv, InPlace
  <1>6. ASSUME o.alone
        PROVE  Reliable("server")'
    <2>1. RestoredSoFar("server")
      BY <1>1, <1>6 DEF Inv, Reliable
    <2>2. RestoredSoFar("server")'
      BY <1>1, <1>2, <1>3, <2>1, Fields DEF Inv, RestoredSoFar, Good
    <2> QED BY <1>1, <1>2, <1>3, <2>2, Fields DEF Inv, Reliable, RemovedSoFar
  <1>7. Kept
    <2>1. op'["server"] # o
      BY <1>1, <1>2, <1>3, Fields DEF Inv
    <2> QED BY <1>1, <1>3, <2>1 DEF Kept
  <1> QED BY <1>1, <1>2, <1>3, <1>4, <1>5, <1>6, <1>7, OnStep

LEMMA PutBackStep == Inv /\ PutBackSecrets => Inv' /\ Kept
  <1> SUFFICES ASSUME Inv, PutBackSecrets
               PROVE  Inv' /\ Kept
    OBVIOUS
  <1> DEFINE o == op["server"]
  <1>1. /\ "server" \in Actors /\ Active("server") /\ o.pc = "putback" /\ o \in Ops
        /\ stored' = o.value /\ "provision" \in Steps /\ Uses("server", "provision")
        /\ UNCHANGED <<registered, entry, env, volume, snaps, container, running>>
    BY DEF PutBackSecrets, At, Active, Actors, Steps, Inv, TypeOK
  <1>2. o.kind = "restore" /\ Rendered
    BY <1>1 DEF Inv, InPlace
  <1>3. DiskOK' /\ Rendered'
    BY <1>1, <1>2 DEF Ops, DiskOK, Inv, TypeOK, Rendered
  <1>4. InPlace("server")'
    BY <1>1, <1>2, <1>3, Fields DEF Inv, InPlace
  <1>5. ASSUME o.alone
        PROVE  Reliable("server")'
    <2>1. RestoredSoFar("server")
      BY <1>1, <1>5 DEF Inv, Reliable
    <2>2. RestoredSoFar("server")'
      BY <1>1, <1>2, <2>1, Fields DEF Inv, RestoredSoFar
    <2> QED BY <1>1, <1>2, <2>2, Fields DEF Inv, Reliable, RemovedSoFar
  <1>6. Kept
    <2>1. op'["server"] # o
      BY <1>1, Fields DEF Inv
    <2> QED BY <1>1, <1>2, <2>1 DEF Kept
  <1> QED BY <1>1, <1>3, <1>4, <1>5, <1>6, OnStep

LEMMA StoreImportedStep == Inv /\ StoreImported => Inv' /\ Kept
  <1> SUFFICES ASSUME Inv, StoreImported
               PROVE  Inv' /\ Kept
    OBVIOUS
  <1> DEFINE o == op["server"]
  <1>1. /\ "server" \in Actors /\ Active("server") /\ o.pc = "import" /\ o \in Ops
        /\ stored' = o.value /\ "write" \in Steps /\ Uses("server", "write")
        /\ UNCHANGED <<registered, entry, env, volume, snaps, container, running>>
    BY DEF StoreImported, At, Active, Actors, Steps, Inv, TypeOK
  <1>2. o.kind = "import"
    BY <1>1 DEF Inv, InPlace
  <1>3. /\ DiskOK' /\ (Rendered' <=> Rendered)
        /\ volume' # NoValue \/ container' # "absent" => Rendered'
    BY <1>1 DEF Ops, DiskOK, Inv, TypeOK, Rendered
  <1>4. op'["server"].pc = "write" /\ op'["server"].kind = "import"
    BY <1>1, <1>2, Fields DEF Inv
  <1>5. InPlace("server")' /\ Reliable("server")'
    BY <1>4 DEF InPlace, Reliable, RemovedSoFar, RestoredSoFar
  <1>6. Kept
    <2>1. op'["server"] # o
      BY <1>1, <1>4
    <2> QED BY <1>1, <1>2, <2>1 DEF Kept
  <1> QED BY <1>1, <1>3, <1>5, <1>6, OnStep

LEMMA WriteImportedStep == Inv /\ WriteImported => Inv' /\ Kept
  <1> SUFFICES ASSUME Inv, WriteImported
               PROVE  Inv' /\ Kept
    OBVIOUS
  <1>1. /\ "server" \in Actors /\ Active("server") /\ op["server"].pc = "write"
        /\ "provision" \in Steps /\ entry' = "volume"
        /\ UNCHANGED <<registered, stored, env, volume, snaps, container, running>>
    BY DEF WriteImported, At, Active, Actors, Steps
  <1>2. /\ DiskOK' /\ (Rendered' <=> Rendered)
        /\ volume' # NoValue \/ container' # "absent" => Rendered'
    BY <1>1 DEF DiskOK, Inv, TypeOK, Rendered, Modes
  <1>3. CASE Goto("server", "provision")
    <2>1. op["server"].kind = "import"
      BY <1>1 DEF Inv, InPlace
    <2>2. op["server"].alone => RemovedSoFar("server")' /\ RestoredSoFar("server")'
      BY <1>1, <1>3, <2>1, Fields DEF Inv, RemovedSoFar, RestoredSoFar
    <2> QED BY <1>1, <1>2, <1>3, <2>2, LightStep
  <1>4. CASE Ends("server")
    BY <1>1, <1>2, <1>4, EndStep, SameFits
  <1> QED BY <1>3, <1>4 DEF WriteImported

LEMMA ImportFailsStep == Inv /\ ImportFails => Inv' /\ Kept
  <1> SUFFICES ASSUME Inv, ImportFails
               PROVE  Inv' /\ Kept
    OBVIOUS
  <1>1. /\ "server" \in Actors /\ Active("server") /\ Ends("server") /\ registered' = FALSE
        /\ UNCHANGED <<entry, stored, env, volume, snaps, container, running>>
    BY DEF ImportFails, Active, Actors
  <1>2. /\ DiskOK' /\ (Rendered' <=> Rendered)
        /\ volume' # NoValue \/ container' # "absent" => Rendered'
    BY <1>1 DEF DiskOK, Inv, TypeOK, Rendered
  <1> QED BY <1>1, <1>2, EndStep, SameFits

-----------------------------------------------------------------------------
(* The beginnings of the operations *)

LEMMA AddStep == Inv /\ Adding => Inv' /\ Kept
  <1> SUFFICES ASSUME Inv, NEW m \in Modes, NEW v \in SomeValue, AddService(m, v)
               PROVE  Inv' /\ Kept
    BY DEF Adding
  <1> DEFINE o == [Idle EXCEPT !.mode = m, !.value = v]
  <1>1. o \in Ops /\ o.mode = m
    BY IdleOp DEF Ops, Idle
  <1>2. m # "absent" /\ "add" \in Kinds /\ "server" \in Actors
    BY DEF Modes, Kinds, Actors
  <1>3. DiskOK' /\ UNCHANGED <<stored, env, volume, container>>
    BY DEF AddService, Inv, TypeOK, DiskOK
  <1> HIDE DEF o
  <1>4. PICK to \in {"choose", "provision"} : Begins("server", "add", to, o)
    BY DEF AddService, o
  <1>5. to \in Steps
    BY DEF Steps
  <1> QED BY <1>1, <1>2, <1>3, <1>4, <1>5, BeginStep

LEMMA UpdateStep == Inv /\ Updating => Inv' /\ Kept
  <1> SUFFICES ASSUME Inv, NEW m \in Modes, UpdateService(m)
               PROVE  Inv' /\ Kept
    BY DEF Updating
  <1> DEFINE o == [Idle EXCEPT !.mode = m]
  <1>1. o \in Ops
    BY IdleOp DEF Ops, Idle
  <1>2. "update" \in Kinds /\ "server" \in Actors /\ "provision" \in Steps
    BY DEF Kinds, Actors, Steps
  <1>3. DiskOK' /\ UNCHANGED <<stored, env, volume, container>>
    BY DEF UpdateService, Inv, TypeOK, DiskOK
  <1> HIDE DEF o
  <1>4. Begins("server", "update", "provision", o)
    BY DEF UpdateService, o
  <1> QED BY <1>1, <1>2, <1>3, <1>4, BeginStep

LEMMA UpStep ==
    ASSUME Inv, NEW a \in Actors, Up(a)
    PROVE  Inv' /\ Kept
  <1> DEFINE o == [Idle EXCEPT !.mode = entry]
  <1>1. o \in Ops
    BY IdleOp DEF Ops, Idle, Inv, TypeOK
  <1>2. "up" \in Kinds /\ "provision" \in Steps
    BY DEF Kinds, Steps
  <1>3. DiskOK' /\ UNCHANGED <<stored, env, volume, container>>
    BY DEF Up, Inv, TypeOK, DiskOK
  <1> HIDE DEF o
  <1>4. Begins(a, "up", "provision", o)
    BY DEF Up, o
  <1> QED BY <1>1, <1>2, <1>3, <1>4, BeginStep

LEMMA DownStep ==
    ASSUME Inv, NEW a \in Actors, Downing(a)
    PROVE  Inv' /\ Kept
  <1>1. PICK asked \in BOOLEAN : Down(a, asked)
    BY DEF Downing
  <1> DEFINE o == [Idle EXCEPT !.asked = asked]
  <1>2. o \in Ops
    BY IdleOp DEF Ops, Idle
  <1>3. "down" \in Kinds /\ "down" \in Steps
    BY DEF Kinds, Steps
  <1>4. DiskOK' /\ UNCHANGED <<stored, env, volume, container>>
    BY <1>1, SameDisk DEF Down, disk
  <1> HIDE DEF o
  <1>5. Begins(a, "down", "down", o)
    BY <1>1 DEF Down, o
  <1> QED BY <1>2, <1>3, <1>4, <1>5, BeginStep

LEMMA RemoveStep == Inv /\ Removing => Inv' /\ Kept
  <1> SUFFICES ASSUME Inv, NEW asked \in BOOLEAN, RemoveService(asked)
               PROVE  Inv' /\ Kept
    BY DEF Removing
  <1> DEFINE o == [Idle EXCEPT !.asked = asked]
  <1>1. o \in Ops /\ o.mode = "absent"
    BY IdleOp DEF Ops, Idle
  <1>2. "remove" \in Kinds /\ "server" \in Actors /\ "rm" \in Steps
    BY DEF Kinds, Actors, Steps
  <1>3. DiskOK' /\ UNCHANGED <<stored, env, volume, container>>
    BY SameDisk DEF RemoveService, disk
  <1> HIDE DEF o
  <1>4. Begins("server", "remove", "rm", o)
    BY DEF RemoveService, o
  <1> QED BY <1>1, <1>2, <1>3, <1>4, BeginStep

LEMMA RotateStep == Inv /\ Rotating => Inv' /\ Kept
  <1> SUFFICES ASSUME Inv, NEW wipe \in BOOLEAN, NEW force \in BOOLEAN,
                      RotateSecret(wipe, force)
               PROVE  Inv' /\ Kept
    BY DEF Rotating
  <1> DEFINE o == [Idle EXCEPT !.mode = entry, !.asked = wipe]
  <1>1. o \in Ops /\ o.mode = entry /\ o.asked = wipe
    BY IdleOp DEF Ops, Idle, Inv, TypeOK
  <1>2. "rotate" \in Kinds /\ "server" \in Actors /\ entry # "absent"
    BY DEF Kinds, Actors, RotateSecret, Loaded
  <1>3. DiskOK' /\ UNCHANGED <<stored, env, volume, container>>
    BY SameDisk DEF RotateSecret, disk
  <1> HIDE DEF o
  <1>4. PICK to \in {"rm", "rotate"} :
          /\ Begins("server", "rotate", to, o)
          /\ to = "rm" => wipe
          /\ to = "rotate" => entry # "volume"
    BY DEF RotateSecret, o
  <1>5. to \in Steps
    BY DEF Steps
  <1> QED BY <1>1, <1>2, <1>3, <1>4, <1>5, BeginStep

LEMMA CreateSnapshotStep == Inv /\ CreateSnapshot => Inv' /\ Kept
  <1> SUFFICES ASSUME Inv, CreateSnapshot
               PROVE  Inv' /\ Kept
    OBVIOUS
  <1> DEFINE o == [Idle EXCEPT !.mode = "volume", !.starts = running]
  <1>1. o \in Ops
    BY IdleOp DEF Ops, Idle, Inv, TypeOK, Modes
  <1>2. "snapshot" \in Kinds /\ "server" \in Actors
    BY DEF Kinds, Actors
  <1>3. DiskOK' /\ UNCHANGED <<stored, env, volume, container>>
    BY SameDisk DEF CreateSnapshot, disk
  <1> HIDE DEF o
  <1>4. PICK to \in {"stop", "archive"} : Begins("server", "snapshot", to, o)
    BY DEF CreateSnapshot, o
  <1>5. to \in Steps
    BY DEF Steps
  <1> QED BY <1>1, <1>2, <1>3, <1>4, <1>5, BeginStep

LEMMA RestoreStep == Inv /\ Restoring => Inv' /\ Kept
  <1> SUFFICES ASSUME Inv, NEW s \in snaps, RestoreSnapshot(s)
               PROVE  Inv' /\ Kept
    BY DEF Restoring
  <1> DEFINE back == IF s.saved # stored THEN s.saved ELSE NoValue
  <1> DEFINE o == [Idle EXCEPT !.mode = "volume", !.snap = s, !.value = back]
  <1>1. s \in Snapshots /\ back \in SomeValue
    BY DEF Inv, TypeOK, Snapshots, SomeValue
  <1>2. o \in Ops /\ o.value = back /\ o.snap = s
    BY <1>1, IdleOp DEF Ops, Idle, Modes
  <1>3. "restore" \in Kinds /\ "server" \in Actors /\ "stop" \in Steps /\ Rendered
    BY DEF Kinds, Actors, Steps, RestoreSnapshot, SnapshotTarget
  <1>4. DiskOK' /\ UNCHANGED <<stored, env, volume, container>>
    BY SameDisk DEF RestoreSnapshot, disk
  <1> HIDE DEF o
  <1>5. Begins("server", "restore", "stop", o)
    BY DEF RestoreSnapshot, o
  <1> QED BY <1>2, <1>3, <1>4, <1>5, BeginStep

LEMMA ImportStep == Inv /\ Importing => Inv' /\ Kept
  <1> SUFFICES ASSUME Inv, NEW v \in SomeValue, NEW start \in BOOLEAN, ImportProject(v, start)
               PROVE  Inv' /\ Kept
    BY DEF Importing
  <1> DEFINE o == [Idle EXCEPT !.mode = "volume", !.value = v, !.starts = start]
  <1>1. o \in Ops
    BY IdleOp DEF Ops, Idle, Modes
  <1>2. "import" \in Kinds /\ "server" \in Actors
    BY DEF Kinds, Actors
  <1>3. DiskOK' /\ UNCHANGED <<stored, env, volume, container>>
    BY DEF ImportProject, Inv, TypeOK, DiskOK
  <1> HIDE DEF o
  <1>4. PICK to \in {"import", "write"} : Begins("server", "import", to, o)
    BY DEF ImportProject, o
  <1>5. to \in Steps
    BY DEF Steps
  <1> QED BY <1>1, <1>2, <1>3, <1>4, <1>5, BeginStep

LEMMA AsideSteps ==
    ASSUME Inv, StopService \/ DeleteSnapshot \/ Unregister \/ EditFile \/ UNCHANGED vars
    PROVE  Inv' /\ Kept
  <1>1. UNCHANGED <<stored, env, volume, container, op>>
    BY DEF StopService, DeleteSnapshot, Unregister, EditFile, disk, vars
  <1>2. DiskOK'
    BY <1>1 DEF StopService, DeleteSnapshot, Unregister, EditFile, disk, vars, Inv, TypeOK,
                DiskOK
  <1> QED BY <1>1, <1>2, AsideStep

-----------------------------------------------------------------------------
(* All steps *)

LEMMA InvInit == Init => Inv
  <1> SUFFICES ASSUME Init
               PROVE  Inv
    OBVIOUS
  <1>1. TypeOK
    BY IdleOp DEF Init, TypeOK, SomeValue
  <1>2. \A a \in Actors : op[a] = Idle
    BY DEF Init
  <1> QED BY <1>1, <1>2, IdleFine DEF Inv, NobodyBeside, Init

(* Every step keeps the invariant and what PasswordKept says. *)
LEMMA InvNext == Inv /\ [Next]_vars => Inv' /\ Kept
  <1> SUFFICES ASSUME Inv, [Next]_vars
               PROVE  Inv' /\ Kept
    OBVIOUS
  <1>1. CASE ServerStep
    BY <1>1, AddStep, ChooseSecretStep, UpdateStep, RemoveStep, ForgetStep, DropSecretStep,
       DropSnapshotsStep, RotateStep, StoreRotatedStep, CreateSnapshotStep, StopFirstStep,
       ArchiveStep, RecordStep, SnapshotFailsStep, RestoreStep, RestoreVolumeStep, PutBackStep,
       RestoreFailsStep, ImportStep, StoreImportedStep, WriteImportedStep, ImportFailsStep,
       AsideSteps DEF ServerStep
  <1>2. ASSUME NEW a \in Actors, ActorStep(a)
        PROVE  Inv' /\ Kept
    BY <1>2, UpStep, DownStep, TakeDownStep, ProvisionStep, WriteComposeStep, WriteEnvStep, StartStep,
       RemoveContainerStep, RemoveVolumeStep, AbortStep DEF ActorStep
  <1> QED BY <1>1, <1>2, AsideSteps DEF Next

(* The invariant holds always. *)
LEMMA InvHolds == Spec => []Inv
  <1>1. Inv /\ [Next]_vars => Inv'
    BY InvNext
  <1> QED BY <1>1, InvInit, PTL DEF Spec

-----------------------------------------------------------------------------
(* Theorems *)

(* Every operation stays within its record and every password is one that
   exists, whoever comes between (ops/ as a whole). *)
THEOREM ServiceTyped == Spec => []TypeOK
  <1>1. Inv => TypeOK
    BY DEF Inv
  <1> QED BY <1>1, InvHolds, PTL

(* Adding, updating, rotating, removing and starting a service never part its
   data from its password, whichever step fails: rotateSecret wipes before it
   stores, removeService deletes the volume before the secret, addService keeps
   a baked secret that is stored. *)
THEOREM PasswordStays == Spec => PasswordKept
  <1>1. Inv /\ [Next]_vars => Kept
    BY InvNext
  <1> QED BY <1>1, InvHolds, PTL DEF PasswordKept, Kept, Spec

(* A snapshot of data that the stored password opens keeps that password
   (bakedSecretValues of createSnapshot). *)
THEOREM SnapshotsKeepPassword == Spec => SnapshotsPaired
  <1> DEFINE A == op["server"].alone /\ Fits => \A s \in snaps' \ snaps : Good(s)
  <1>1. ASSUME Inv, Record, op["server"].alone, Fits, NEW s \in snaps' \ snaps
        PROVE  Good(s)
    <2>1. "server" \in Actors /\ op["server"].pc = "record"
      BY <1>1 DEF Record, At, Actors
    <2>2. volume # NoValue /\ op["server"].snap.data = volume
      BY <1>1, <2>1 DEF Inv, Reliable
    <2>3. s = [data |-> volume, saved |-> stored] /\ stored = volume
      BY <1>1, <2>2 DEF Record, Fits
    <2> QED BY <2>2, <2>3 DEF Good
  <1>2. ASSUME [Next]_vars, ~Record
        PROVE  snaps' \subseteq snaps
    <2>1. CASE ServerStep
      BY <1>2, <2>1 DEF ServerStep, Adding, AddService, ChooseSecret, Updating, UpdateService,
         StopService, Removing, RemoveService, Forget, DropSecret, DropSnapshots, Rotating,
         RotateSecret, StoreRotated, CreateSnapshot, StopFirst, Archive, SnapshotFails,
         DeleteSnapshot, Restoring, RestoreSnapshot, RestoreVolume, PutBackSecrets, RestoreFails,
         Importing, ImportProject, StoreImported, WriteImported, ImportFails, disk
    <2>2. ASSUME NEW a \in Actors, ActorStep(a)
          PROVE  snaps' = snaps
      BY <2>2 DEF ActorStep, Up, Downing, Down, TakeDown, Provision, WriteCompose, WriteEnv, Start,
         RemoveContainer, RemoveVolume, Abort, disk
    <2> QED BY <1>2, <2>1, <2>2 DEF Next, Unregister, EditFile, vars, disk
  <1>3. Inv /\ [Next]_vars => A
    BY <1>1, <1>2
  <1> QED BY <1>3, InvHolds, PTL DEF SnapshotsPaired, Spec

(* A restore that nobody disturbs and that succeeds leaves the data of the
   snapshot with their password (changedSecrets and putBackSecrets). *)
THEOREM RestoresAgree == Spec => RestoreAgrees
  <1> DEFINE A == op["server"].kind = "restore" /\ op["server"].alone /\ op["server"].ok
                    /\ Good(op["server"].snap) /\ Start("server") =>
                      volume' = op["server"].snap.data /\ Fits'
  <1>1. ASSUME Inv, op["server"].kind = "restore", op["server"].alone, op["server"].ok,
               Good(op["server"].snap), Start("server")
        PROVE  volume' = op["server"].snap.data /\ Fits'
    <2>1. "server" \in Actors /\ op["server"].pc = "start"
      BY <1>1 DEF Start, At, Actors
    <2>2. RestoredSoFar("server")
      BY <1>1, <2>1 DEF Inv, Reliable
    <2>3. volume = op["server"].snap.data /\ stored = volume /\ volume # NoValue
      BY <1>1, <2>1, <2>2 DEF RestoredSoFar, Good
    <2> QED BY <1>1, <2>3 DEF Start, Fits
  <1>2. Inv /\ [Next]_vars => A
    BY <1>1
  <1> QED BY <1>2, InvHolds, PTL DEF RestoreAgrees, Spec

(* A removal with volumes that nobody disturbs and that succeeds leaves neither
   data nor a password (forget and dropSecrets of removeService). *)
THEOREM RemovalsComplete == Spec => RemovalComplete
  <1> DEFINE A == op["server"].kind = "remove" /\ op["server"].alone /\ op["server"].asked
                    /\ WriteEnv("server") =>
                      volume' = NoValue /\ stored' = NoValue /\ container' = "absent"
  <1>1. ASSUME Inv, op["server"].kind = "remove", op["server"].alone, op["server"].asked,
               WriteEnv("server")
        PROVE  volume' = NoValue /\ stored' = NoValue /\ container' = "absent"
    <2>1. "server" \in Actors /\ op["server"].pc = "dotenv"
      BY <1>1 DEF WriteEnv, At, Actors
    <2>2. RemovedSoFar("server")
      BY <1>1, <2>1 DEF Inv, Reliable
    <2> QED BY <1>1, <2>1, <2>2 DEF RemovedSoFar, WriteEnv
  <1>2. Inv /\ [Next]_vars => A
    BY <1>1
  <1> QED BY <1>2, InvHolds, PTL DEF RemovalComplete, Spec

(* What a snapshot holds, and what a restore gives back, opens with the password
   stored beside it (createSnapshot, restoreSnapshot). *)
THEOREM SnapshotsAreTrue == Spec => SnapshotsTrue
  BY SnapshotsKeepPassword, RestoresAgree, PTL DEF SnapshotsTrue

-----------------------------------------------------------------------------
(* The lines of a container's log.                                         *)

Bytes == Seq(Nat)
Decoded == [text : Bytes, lead : BOOLEAN]

(* Bytes put together are bytes.                                           *)
LEMMA JoinedTyped == ASSUME NEW a \in Bytes, NEW b \in Bytes PROVE a \o b \in Bytes
BY DEF Bytes

(* Put together in either order, they are the same bytes.                  *)
LEMMA JoinedThrice ==
  ASSUME NEW a \in Bytes, NEW b \in Bytes, NEW c \in Bytes
  PROVE  (a \o b) \o c = a \o (b \o c)
<1>1. a \in Seq(Nat) /\ b \in Seq(Nat) /\ c \in Seq(Nat)
  BY DEF Bytes
<1> QED BY ONLY <1>1, ConcatAssociative, SMTT(30)

(* The same, by a name.                                                    *)
Rejoined(a, b, c) == (a \o b) \o c = a \o (b \o c)

(* It is so of bytes.                                                      *)
LEMMA Rejoins == ASSUME NEW a \in Bytes, NEW b \in Bytes, NEW c \in Bytes PROVE Rejoined(a, b, c)
BY JoinedThrice DEF Rejoined

(* A text in front of a decoded one.                                       *)
Behind(t, d) == [text |-> t \o d.text, lead |-> d.lead]

(* Decoding appends to the text it has, and to no other purpose.           *)
LEMMA DecodeByteAppends ==
  ASSUME NEW d \in Decoded, NEW b \in Nat, NEW t \in Bytes
  PROVE  /\ DecodeByte(d, b) \in Decoded
         /\ DecodeByte(Behind(t, d), b) = Behind(t, DecodeByte(d, b))
<1>1. d.text \in Bytes /\ d.lead \in BOOLEAN /\ d = [text |-> d.text, lead |-> d.lead]
  BY DEF Decoded
<1> DEFINE x == IF b # WideRest THEN b ELSE IF d.lead THEN Wide ELSE Replacement
           e == Behind(t, d)
           cut == IF d.lead /\ b # WideRest THEN Append(d.text, Replacement) ELSE d.text
<1>2. e.text = t \o d.text /\ e.lead = d.lead /\ x \in Nat /\ Replacement \in Nat /\ t \o d.text \in Bytes
  BY <1>1 DEF Behind, Decoded, Wide, Replacement, Bytes
<1>3. cut \in Bytes /\ t \o cut = IF d.lead /\ b # WideRest THEN Append(t \o d.text, Replacement) ELSE t \o d.text
  <2>1. t \o Append(d.text, Replacement) = Append(t \o d.text, Replacement) /\ Append(d.text, Replacement) \in Bytes
    BY <1>1, <1>2 DEF Bytes
  <2> QED BY <1>1, <2>1
<1>4. DecodeByte(d, b) = IF b = WideLead THEN [text |-> cut, lead |-> TRUE] ELSE [lead |-> FALSE, text |-> Append(cut, x)]
  BY DEF DecodeByte
<1>5. DecodeByte(e, b) = IF b = WideLead THEN [text |-> t \o cut, lead |-> TRUE] ELSE [lead |-> FALSE, text |-> Append(t \o cut, x)]
  BY <1>2, <1>3 DEF DecodeByte
<1> HIDE DEF cut, x, e
<1>6. Append(t \o cut, x) = t \o Append(cut, x) /\ Append(cut, x) \in Bytes
  <2>1. t \in Seq(Nat) /\ cut \in Seq(Nat) /\ x \in Nat
    BY <1>2, <1>3 DEF Bytes
  <2>2. Append(t \o cut, x) = t \o Append(cut, x) /\ Append(cut, x) \in Seq(Nat)
    BY ONLY <2>1, SMTT(30)
  <2> QED BY <2>2 DEF Bytes
<1>7. DecodeByte(d, b) \in Decoded
  BY <1>3, <1>4, <1>6 DEF Decoded
<1>8. DecodeByte(e, b) = Behind(t, DecodeByte(d, b))
  <2>1. CASE b = WideLead
    BY <1>4, <1>5, <2>1 DEF Behind
  <2>2. CASE b # WideLead
    BY <1>4, <1>5, <1>6, <2>2 DEF Behind
  <2> QED BY <2>1, <2>2
<1> QED BY <1>7, <1>8 DEF e

(* What is decoded is text.                                                *)
LEMMA DecodeTyped ==
  ASSUME NEW l \in BOOLEAN, NEW s \in Bytes
  PROVE  Decode(l, s) \in Decoded
<1>1. [text |-> <<>>, lead |-> l] \in Decoded
  BY DEF Decoded, Bytes
<1>2. \A d \in Decoded, b \in Nat : DecodeByte(d, b) \in Decoded
  <2>1. <<>> \in Bytes
    BY DEF Bytes
  <2> QED BY <2>1, DecodeByteAppends
<1> QED BY <1>1, <1>2, Decoding!AfterKeeps DEF Decode, Bytes

(* Decoding on from a text appends to it.                                  *)
LEMMA DecodeFrom ==
  ASSUME NEW d \in Decoded, NEW s \in Bytes
  PROVE  Decoding!After(d, s) = [text |-> d.text \o Decode(d.lead, s).text, lead |-> Decode(d.lead, s).lead]
<1> DEFINE d0 == [text |-> <<>>, lead |-> d.lead]
           A(u) == Decoding!After(d0, u)
           P == {u \in Seq(Nat) : Decoding!After(d, u) = Behind(d.text, A(u))}
<1>1. d.text \in Bytes /\ d.lead \in BOOLEAN /\ d = [text |-> d.text, lead |-> d.lead]
  BY DEF Decoded
<1>2. \A u \in Seq(Nat) : A(u) \in Decoded
  BY <1>1, DecodeTyped DEF Decode, Bytes
<1>3. <<>> \in P
  <2>1. d.text \o <<>> = d.text
    BY <1>1 DEF Bytes
  <2>2. Decoding!After(d, <<>>) = d /\ A(<<>>) = d0
    BY Decoding!AfterNone
  <2>3. Behind(d.text, d0) = d
    BY <1>1, <2>1 DEF Behind
  <2> QED BY <2>2, <2>3
<1>4. ASSUME NEW u \in Seq(Nat), NEW x \in Nat, u \in P PROVE Append(u, x) \in P
  <2>1. Decoding!After(d, Append(u, x)) = DecodeByte(Decoding!After(d, u), x)
    BY Decoding!AfterMore
  <2>2. A(Append(u, x)) = DecodeByte(A(u), x)
    BY Decoding!AfterMore
  <2>3. DecodeByte(Behind(d.text, A(u)), x) = Behind(d.text, DecodeByte(A(u), x))
    <3> HIDE DEF A
    <3> QED BY <1>1, <1>2, DecodeByteAppends
  <2>4. Append(u, x) \in Seq(Nat)
    OBVIOUS
  <2> HIDE DEF A
  <2> QED BY <1>4, <2>1, <2>2, <2>3, <2>4
<1> HIDE DEF P
<1>5. Seq(Nat) \subseteq P
  BY <1>3, <1>4, Decoding!Lengthening
<1>6. Decoding!After(d, s) = Behind(d.text, A(s))
  BY <1>5 DEF P, Bytes
<1>7. A(s) = Decode(d.lead, s)
  BY DEF Decode
<1> HIDE DEF A
<1> QED BY <1>6, <1>7 DEF Behind

(* A text decoded in two parts is the text decoded at once.                *)
LEMMA DecodeJoined ==
  ASSUME NEW l \in BOOLEAN, NEW s \in Bytes, NEW t \in Bytes
  PROVE  LET d == Decode(l, s)
             e == Decode(d.lead, t)
         IN  Decode(l, s \o t) = [text |-> d.text \o e.text, lead |-> e.lead]
<1> DEFINE d == Decode(l, s)
<1>1. d \in Decoded
  BY DecodeTyped
<1>2. Decode(l, s \o t) = Decoding!After(d, t)
  BY Decoding!AfterJoined DEF Decode, Bytes
<1> HIDE DEF d
<1>3. Decoding!After(d, t) = [text |-> d.text \o Decode(d.lead, t).text, lead |-> Decode(d.lead, t).lead]
  BY <1>1, DecodeFrom
<1> QED BY <1>2, <1>3 DEF d

-----------------------------------------------------------------------------
(* Lines *)
PartsBehind(q, p) == [rest |-> p.rest, parts |-> q \o p.parts]
Split == [rest : Bytes, parts : Seq(Bytes)]

(* One more character leaves the parts there were.                         *)
LEMMA SplitLineAppends ==
  ASSUME NEW p \in Split, NEW c \in Nat, NEW q \in Seq(Bytes)
  PROVE  /\ SplitLine(p, c) \in Split
         /\ SplitLine(PartsBehind(q, p), c) = PartsBehind(q, SplitLine(p, c))
<1>1. p.rest \in Bytes /\ p.parts \in Seq(Bytes) /\ p = [rest |-> p.rest, parts |-> p.parts]
  BY DEF Split
<1> DEFINE e == PartsBehind(q, p)
           more == Append(p.parts, p.rest)
<1>2. e = [rest |-> p.rest, parts |-> q \o p.parts]
  BY <1>1 DEF PartsBehind
<1>3. more \in Seq(Bytes) /\ Append(q \o p.parts, p.rest) = q \o more /\ Append(p.rest, c) \in Bytes /\ <<>> \in Bytes
  <2>1. Append(p.rest, c) \in Bytes /\ <<>> \in Bytes
    BY <1>1 DEF Bytes
  <2> HIDE DEF Bytes
  <2>2. more \in Seq(Bytes) /\ Append(q \o p.parts, p.rest) = q \o more
    BY <1>1, SMTT(30)
  <2> QED BY <2>1, <2>2
<1> HIDE DEF e
<1>4. CASE c = Newline
  <2>1. SplitLine(p, c) = [rest |-> <<>>, parts |-> more] /\ SplitLine(e, c) = [rest |-> <<>>, parts |-> q \o more]
    BY <1>2, <1>3, <1>4 DEF SplitLine
  <2> HIDE DEF more
  <2> QED BY <1>3, <2>1 DEF Split, e, PartsBehind
<1>5. CASE c # Newline
  <2>1. SplitLine(p, c) = [rest |-> Append(p.rest, c), parts |-> p.parts]
    BY <1>1, <1>5 DEF SplitLine
  <2>2. SplitLine(e, c) = [rest |-> Append(p.rest, c), parts |-> q \o p.parts]
    BY <1>2, <1>5 DEF SplitLine
  <2> QED BY <1>1, <1>3, <2>1, <2>2 DEF Split, e, PartsBehind
<1> QED BY <1>4, <1>5

(* What is split are texts.                                                *)
LEMMA PartsTyped ==
  ASSUME NEW r \in Bytes, NEW t \in Bytes
  PROVE  Parts(r, t) \in Split
<1>1. [rest |-> r, parts |-> <<>>] \in Split
  BY DEF Split
<1>2. \A p \in Split, c \in Nat : SplitLine(p, c) \in Split
  <2>1. <<>> \in Seq(Bytes)
    OBVIOUS
  <2> QED BY <2>1, SplitLineAppends
<1> QED BY <1>1, <1>2, Splitting!AfterKeeps DEF Parts, Bytes

(* Splitting on from some parts appends to them.                           *)
LEMMA PartsFrom ==
  ASSUME NEW p \in Split, NEW s \in Bytes
  PROVE  Splitting!After(p, s) = [rest |-> Parts(p.rest, s).rest, parts |-> p.parts \o Parts(p.rest, s).parts]
<1> DEFINE p0 == [rest |-> p.rest, parts |-> <<>>]
           A(u) == Splitting!After(p0, u)
           P == {u \in Seq(Nat) : Splitting!After(p, u) = PartsBehind(p.parts, A(u))}
<1>1. p.rest \in Bytes /\ p.parts \in Seq(Bytes) /\ p = [rest |-> p.rest, parts |-> p.parts]
  BY DEF Split
<1>2. \A u \in Seq(Nat) : A(u) \in Split
  BY <1>1, PartsTyped DEF Parts, Bytes
<1>3. <<>> \in P
  <2>1. p.parts \o <<>> = p.parts
    BY <1>1
  <2>2. Splitting!After(p, <<>>) = p /\ A(<<>>) = p0
    BY Splitting!AfterNone
  <2>3. PartsBehind(p.parts, p0) = p
    BY <1>1, <2>1 DEF PartsBehind
  <2> QED BY <2>2, <2>3
<1>4. ASSUME NEW u \in Seq(Nat), NEW x \in Nat, u \in P PROVE Append(u, x) \in P
  <2>1. Splitting!After(p, Append(u, x)) = SplitLine(Splitting!After(p, u), x)
    BY Splitting!AfterMore
  <2>2. A(Append(u, x)) = SplitLine(A(u), x)
    BY Splitting!AfterMore
  <2>3. SplitLine(PartsBehind(p.parts, A(u)), x) = PartsBehind(p.parts, SplitLine(A(u), x))
    <3> HIDE DEF A
    <3> QED BY <1>1, <1>2, SplitLineAppends
  <2>4. Append(u, x) \in Seq(Nat)
    OBVIOUS
  <2> HIDE DEF A
  <2> QED BY <1>4, <2>1, <2>2, <2>3, <2>4
<1> HIDE DEF P
<1>5. Seq(Nat) \subseteq P
  BY <1>3, <1>4, Splitting!Lengthening
<1>6. Splitting!After(p, s) = PartsBehind(p.parts, A(s))
  BY <1>5 DEF P, Bytes
<1>7. A(s) = Parts(p.rest, s)
  BY DEF Parts
<1> HIDE DEF A
<1> QED BY <1>6, <1>7 DEF PartsBehind

(* A text split in two parts is the text split at once.                    *)
LEMMA PartsJoined ==
  ASSUME NEW r \in Bytes, NEW s \in Bytes, NEW t \in Bytes
  PROVE  LET p == Parts(r, s)
             q == Parts(p.rest, t)
         IN  Parts(r, s \o t) = [rest |-> q.rest, parts |-> p.parts \o q.parts]
<1> DEFINE p == Parts(r, s)
<1>1. p \in Split
  BY PartsTyped
<1>2. Parts(r, s \o t) = Splitting!After(p, t)
  BY Splitting!AfterJoined DEF Parts, Bytes
<1> HIDE DEF p
<1>3. Splitting!After(p, t) = [rest |-> Parts(p.rest, t).rest, parts |-> p.parts \o Parts(p.rest, t).parts]
  BY <1>1, PartsFrom
<1> QED BY <1>2, <1>3 DEF p
-----------------------------------------------------------------------------
(* What a process writes, and what of it the demuxer has taken.            *)
Item == [stream : Stream, text : Bytes]
WriteOf == [stream : Stream, bytes : Bytes]
First(writes, k) == SubSeq(writes, 1, k)

(* One write more of the first k.                                          *)
LEMMA FirstMore ==
  ASSUME NEW S, NEW w \in Seq(S), NEW k \in 0 .. Len(w) - 1
  PROVE  First(w, k) \in Seq(S) /\ w[k + 1] \in S /\ First(w, k + 1) = Append(First(w, k), w[k + 1])
<1>1. k \in Nat /\ k + 1 \in 1 .. Len(w) /\ Len(w) \in Nat /\ (k + 1) - 1 = k
  OBVIOUS
<1>2. \A i \in 1 .. k + 1 : w[i] \in S
  BY <1>1, ElementOfSeq
<1>3. First(w, k) \in Seq(S) /\ First(w, k + 1) \in Seq(S)
  BY <1>1, <1>2, SubSeqProperties DEF First
<1>4. SubSeq(w, 1, k + 1) = SubSeq(w, 1, (k + 1) - 1) \o <<w[k + 1]>>
  BY <1>1, SubSeqRecursiveSecond
<1>5. Append(First(w, k), w[k + 1]) = First(w, k) \o <<w[k + 1]>>
  BY <1>1, <1>2, <1>3, AppendIsConcat
<1> QED BY <1>1, <1>2, <1>3, <1>4, <1>5 DEF First

(* The first k writes, and the others.                                     *)
LEMMA FirstSplit ==
  ASSUME NEW S, NEW w \in Seq(S), NEW k \in 0 .. Len(w)
  PROVE  /\ First(w, k) \in Seq(S) /\ Len(First(w, k)) = k
         /\ SubSeq(w, k + 1, Len(w)) \in Seq(S)
         /\ w = First(w, k) \o SubSeq(w, k + 1, Len(w))
<1>1. \A i \in 1 .. Len(w) : w[i] \in S
  BY ElementOfSeq
<1> DEFINE r == SubSeq(w, k + 1, Len(w))
<1>2. First(w, k) \in Seq(S) /\ Len(First(w, k)) = k /\ r \in Seq(S)
  BY <1>1, SubSeqProperties DEF First
<1>3. First(w, k) \o r = SubSeq(w, 1, Len(w))
  <2>1. 1 \in 1 .. Len(w) + 1 /\ k \in 1 - 1 .. Len(w) /\ Len(w) \in k .. Len(w)
    OBVIOUS
  <2> QED BY <2>1, ConcatAdjacentSubSeq DEF First
<1> QED BY <1>2, <1>3, SubSeqFull

(* The first writes of the first ones.                                     *)
LEMMA FirstOfFirst ==
  ASSUME NEW S, NEW w \in Seq(S), NEW n \in 0 .. Len(w), NEW k \in 0 .. n
  PROVE  First(First(w, n), k) = First(w, k)
BY DEF First

(* What is written to each stream are bytes.                               *)
LEMMA WrittenTyped ==
  ASSUME NEW w \in Seq(WriteOf) PROVE WrittenBytes(w) \in [Stream -> Bytes]
<1>1. [s \in Stream |-> <<>>] \in [Stream -> Bytes]
  BY DEF Bytes
<1>2. \A f \in [Stream -> Bytes], x \in WriteOf : Written(f, x) \in [Stream -> Bytes]
  <2>1. \A a \in Bytes, b \in Bytes : a \o b \in Bytes
    BY DEF Bytes
  <2> QED BY <2>1 DEF Written, WriteOf
<1> HIDE DEF WriteOf
<1> QED BY <1>1, <1>2, Writing!AfterKeeps DEF WrittenBytes

(* One write more is written to its stream.                                *)
LEMMA WrittenMore ==
  ASSUME NEW w \in Seq(WriteOf), NEW k \in 0 .. Len(w) - 1
  PROVE  WrittenBytes(First(w, k + 1)) = Written(WrittenBytes(First(w, k)), w[k + 1])
<1>1. First(w, k) \in Seq(WriteOf) /\ w[k + 1] \in WriteOf /\ First(w, k + 1) = Append(First(w, k), w[k + 1])
  BY FirstMore, Zenon
<1> DEFINE f == [s \in Stream |-> <<>>]
<1>2. Writing!After(f, Append(First(w, k), w[k + 1])) = Written(Writing!After(f, First(w, k)), w[k + 1])
  BY ONLY <1>1, Writing!AfterMore
<1> QED BY <1>1, <1>2, Zenon DEF WrittenBytes

(* What the first writes wrote begins what all of them wrote.              *)
LEMMA WrittenGrows ==
  ASSUME NEW w \in Seq(WriteOf), NEW k \in 0 .. Len(w), NEW s \in Stream
  PROVE  \E u \in Bytes : WrittenBytes(w)[s] = WrittenBytes(First(w, k))[s] \o u
<1>1. PICK r \in Seq(WriteOf) : First(w, k) \in Seq(WriteOf) /\ w = First(w, k) \o r
  <2> DEFINE r == SubSeq(w, k + 1, Len(w))
  <2>1. First(w, k) \in Seq(WriteOf) /\ r \in Seq(WriteOf) /\ w = First(w, k) \o r
    BY FirstSplit
  <2> HIDE DEF r
  <2> QED BY <2>1
<1> DEFINE f == WrittenBytes(First(w, k))
           A == {g \in [Stream -> Bytes] : \E u \in Bytes : g[s] = f[s] \o u}
<1>2. f \in [Stream -> Bytes] /\ f[s] \in Bytes
  BY <1>1, WrittenTyped
<1>3. WrittenBytes(w) = Writing!After(f, r)
  <2> DEFINE e == [x \in Stream |-> <<>>]
  <2>1. Writing!After(e, First(w, k) \o r) = Writing!After(Writing!After(e, First(w, k)), r)
    BY ONLY <1>1, Writing!AfterJoined
  <2> QED BY <1>1, <2>1 DEF WrittenBytes
<1> HIDE DEF f
<1>4. f \in A
  <2>1. f[s] \o <<>> = f[s] /\ <<>> \in Bytes
    BY <1>2 DEF Bytes
  <2> QED BY <1>2, <2>1
<1>5. ASSUME NEW g \in A, NEW x \in WriteOf PROVE Written(g, x) \in A
  <2>1. PICK u \in Bytes : g[s] = f[s] \o u
    BY <1>5
  <2>2. x.stream \in Stream /\ x.bytes \in Bytes /\ g \in [Stream -> Bytes]
    BY <1>5 DEF WriteOf
  <2>3. (f[s] \o u) \o x.bytes = f[s] \o (u \o x.bytes) /\ u \o x.bytes \in Bytes
    <3>1. f[s] \in Bytes /\ u \in Bytes /\ x.bytes \in Bytes
      BY <1>2, <2>2
    <3>2. (f[s] \o u) \o x.bytes = f[s] \o (u \o x.bytes)
      <4>1. Rejoined(f[s], u, x.bytes)
        BY ONLY <3>1, Rejoins, Zenon
      <4> QED BY ONLY <4>1 DEF Rejoined
    <3> QED BY ONLY <3>1, <3>2, JoinedTyped
  <2>4. \A a \in Bytes, b \in Bytes : a \o b \in Bytes
    BY DEF Bytes
  <2>5. Written(g, x) \in [Stream -> Bytes]
    BY <2>2, <2>4 DEF Written
  <2>6. Written(g, x)[s] = IF s = x.stream THEN g[s] \o x.bytes ELSE g[s]
    BY <2>2 DEF Written
  <2> QED BY <2>1, <2>3, <2>5, <2>6
<1> HIDE DEF A
<1>6. Writing!After(f, r) \in A
  BY <1>4, <1>5, Writing!AfterKeeps
<1> QED BY <1>3, <1>6 DEF A, f

(* The frames of what was written.                                         *)
Framed(bytes, write) == bytes \o EncodeFrame(write)
Framing == INSTANCE Scan WITH Step <- Framed
AllFrames(writes) == Framing!After(<<>>, writes)

(* A frame is bytes.                                                       *)
LEMMA EncodeTyped == ASSUME NEW x \in WriteOf PROVE EncodeFrame(x) \in Bytes
<1>1. x.bytes \in Seq(Nat) /\ Len(x.bytes) \in Nat
  BY DEF WriteOf, Bytes
<1> QED BY <1>1 DEF EncodeFrame, Bytes

(* So are all frames.                                                      *)
LEMMA FramesTyped ==
  ASSUME NEW w \in Seq(WriteOf) PROVE AllFrames(w) \in Bytes
<1>1. <<>> \in Bytes
  BY DEF Bytes
<1>2. \A f \in Bytes, x \in WriteOf : Framed(f, x) \in Bytes
  <2>1. \A a \in Bytes, b \in Bytes : a \o b \in Bytes
    BY DEF Bytes
  <2> HIDE DEF WriteOf, Bytes
  <2> QED BY <2>1, EncodeTyped DEF Framed
<1> HIDE DEF WriteOf, Bytes
<1> QED BY <1>1, <1>2, Framing!AfterKeeps DEF AllFrames

(* One write more is one frame more.                                       *)
LEMMA FramesMore ==
  ASSUME NEW w \in Seq(WriteOf), NEW k \in 0 .. Len(w) - 1
  PROVE  AllFrames(First(w, k + 1)) = AllFrames(First(w, k)) \o EncodeFrame(w[k + 1])
<1>1. First(w, k) \in Seq(WriteOf) /\ w[k + 1] \in WriteOf /\ First(w, k + 1) = Append(First(w, k), w[k + 1])
  BY FirstMore, Zenon
<1>2. Framing!After(<<>>, Append(First(w, k), w[k + 1])) = Framed(Framing!After(<<>>, First(w, k)), w[k + 1])
  BY ONLY <1>1, Framing!AfterMore
<1> QED BY <1>1, <1>2, Zenon DEF AllFrames, Framed

(* The frames of the first writes begin those of all.                      *)
LEMMA FramesGrow ==
  ASSUME NEW w \in Seq(WriteOf), NEW k \in 0 .. Len(w)
  PROVE  \E u \in Bytes : AllFrames(w) = AllFrames(First(w, k)) \o u
<1>1. PICK r \in Seq(WriteOf) : First(w, k) \in Seq(WriteOf) /\ w = First(w, k) \o r
  <2> DEFINE r == SubSeq(w, k + 1, Len(w))
  <2>1. First(w, k) \in Seq(WriteOf) /\ r \in Seq(WriteOf) /\ w = First(w, k) \o r
    BY FirstSplit
  <2> HIDE DEF r
  <2> QED BY <2>1
<1> DEFINE f == AllFrames(First(w, k))
           A == {g \in Bytes : \E u \in Bytes : g = f \o u}
<1>2. f \in Bytes
  BY <1>1, FramesTyped
<1>3. AllFrames(w) = Framing!After(f, r)
  <2>1. Framing!After(<<>>, First(w, k) \o r) = Framing!After(Framing!After(<<>>, First(w, k)), r)
    BY ONLY <1>1, Framing!AfterJoined
  <2> QED BY <1>1, <2>1 DEF AllFrames
<1> HIDE DEF f
<1>4. f \in A
  <2>1. f \o <<>> = f /\ <<>> \in Bytes
    BY <1>2 DEF Bytes
  <2> QED BY <1>2, <2>1
<1>5. ASSUME NEW g \in A, NEW x \in WriteOf PROVE Framed(g, x) \in A
  <2>1. PICK u \in Bytes : g = f \o u
    BY <1>5
  <2>2. EncodeFrame(x) \in Bytes
    BY EncodeTyped
  <2>3. (f \o u) \o EncodeFrame(x) = f \o (u \o EncodeFrame(x)) /\ u \o EncodeFrame(x) \in Bytes /\ g \o EncodeFrame(x) \in Bytes
    <3>1. f \in Bytes /\ u \in Bytes /\ EncodeFrame(x) \in Bytes /\ g \in Bytes
      BY <1>2, <1>5, <2>2
    <3>2. (f \o u) \o EncodeFrame(x) = f \o (u \o EncodeFrame(x))
      <4>1. Rejoined(f, u, EncodeFrame(x))
        BY <3>1, Rejoins, Zenon
      <4> QED BY ONLY <4>1 DEF Rejoined
    <3> QED BY ONLY <3>1, <3>2, JoinedTyped
  <2> QED BY <2>1, <2>3 DEF Framed
<1> HIDE DEF A
<1>6. Framing!After(f, r) \in A
  BY <1>4, <1>5, Framing!AfterKeeps
<1> QED BY <1>3, <1>6 DEF A, f

(* What frames tell of each stream.                                        *)
Heard(f, frame) == [f EXCEPT ![frame.stream] = @ \o frame.text]
Hearing == INSTANCE Scan WITH Step <- Heard
Texts(frames) == Hearing!After([s \in Stream |-> <<>>], frames)

(* What frames tell is text.                                               *)
LEMMA TextsTyped ==
  ASSUME NEW f \in Seq(Item) PROVE Texts(f) \in [Stream -> Bytes]
<1>1. [s \in Stream |-> <<>>] \in [Stream -> Bytes]
  BY DEF Bytes
<1>2. \A g \in [Stream -> Bytes], x \in Item : Heard(g, x) \in [Stream -> Bytes]
  <2>1. \A a \in Bytes, b \in Bytes : a \o b \in Bytes
    BY DEF Bytes
  <2> QED BY <2>1 DEF Heard, Item
<1> HIDE DEF Item
<1> QED BY <1>1, <1>2, Hearing!AfterKeeps DEF Texts

(* One frame more tells its stream more.                                   *)
LEMMA TextsMore ==
  ASSUME NEW f \in Seq(Item), NEW s \in Stream, NEW t \in Bytes
  PROVE  /\ f \o Frame(s, t) \in Seq(Item)
         /\ Texts(f \o Frame(s, t)) = [Texts(f) EXCEPT ![s] = @ \o t]
<1>1. Texts(f) \in [Stream -> Bytes]
  BY TextsTyped
<1>2. CASE t = <<>>
  <2>1. Texts(f)[s] \o <<>> = Texts(f)[s]
    BY <1>1 DEF Bytes
  <2>2. f \o <<>> = f
    OBVIOUS
  <2> QED BY <1>1, <1>2, <2>1, <2>2 DEF Frame
<1>3. CASE t # <<>>
  <2> DEFINE x == [stream |-> s, text |-> t]
  <2>1. x \in Item /\ x.stream = s /\ x.text = t
    BY DEF Item
  <2> HIDE DEF x
  <2>2. f \o <<x>> = Append(f, x) /\ Append(f, x) \in Seq(Item)
    <3> HIDE DEF Item
    <3> QED BY <2>1, AppendIsConcat
  <2>3. Frame(s, t) = <<x>>
    BY <1>3 DEF Frame, x
  <2>4. Texts(Append(f, x)) = Heard(Texts(f), x)
    BY <2>1, Hearing!AfterMore DEF Texts
  <2> QED BY <2>1, <2>2, <2>3, <2>4 DEF Heard
<1> QED BY <1>2, <1>3

(* The same, by a name.                                                    *)
FrameMore(f, s, t) ==
  /\ f \o Frame(s, t) \in Seq(Item)
  /\ Texts(f \o Frame(s, t)) = [Texts(f) EXCEPT ![s] = @ \o t]

(* It is so of every frame.                                                *)
LEMMA FrameIsMore ==
  ASSUME NEW f \in Seq(Item), NEW s \in Stream, NEW t \in Bytes
  PROVE  FrameMore(f, s, t)
BY ONLY f \in Seq(Item), s \in Stream, t \in Bytes, TextsMore DEF FrameMore

(* Where the elements of two sequences are when they are joined.           *)
LEMMA JoinedPlaces ==
  ASSUME NEW S, NEW a \in Seq(S), NEW b \in Seq(S)
  PROVE  /\ a \o b \in Seq(S) /\ Len(a \o b) = Len(a) + Len(b)
         /\ \A i \in 1 .. Len(a) : (a \o b)[i] = a[i]
         /\ \A i \in 1 .. Len(b) : (a \o b)[Len(a) + i] = b[i]
<1> DEFINE z == a \o b
<1>1. /\ z \in Seq(S) /\ Len(z) = Len(a) + Len(b)
      /\ \A i \in 1 .. Len(a) + Len(b) : z[i] = IF i <= Len(a) THEN a[i] ELSE b[i - Len(a)]
  BY ConcatProperties
<1>2. Len(a) \in Nat /\ Len(b) \in Nat
  OBVIOUS
<1> HIDE DEF z
<1>3. ASSUME NEW i \in 1 .. Len(a) PROVE z[i] = a[i]
  <2>1. i \in 1 .. Len(a) + Len(b) /\ i <= Len(a)
    BY <1>2
  <2> QED BY <1>1, <2>1
<1>4. ASSUME NEW i \in 1 .. Len(b) PROVE z[Len(a) + i] = b[i]
  <2>1. Len(a) + i \in 1 .. Len(a) + Len(b) /\ ~(Len(a) + i <= Len(a)) /\ (Len(a) + i) - Len(a) = i
    BY <1>2
  <2> QED BY <1>1, <2>1
<1> QED BY <1>1, <1>3, <1>4 DEF z

(* The bytes of a frame, its payload p, and what follows it.               *)
LEMMA FrameBytes ==
  ASSUME NEW c \in Nat, NEW p \in Bytes, NEW y \in Bytes
  PROVE  LET z == (<<c, Len(p)>> \o p) \o y
         IN  /\ Len(z) = 2 + Len(p) + Len(y) /\ z[1] = c /\ z[2] = Len(p)
             /\ \A i \in 1 .. Len(p) : z[2 + i] = p[i]
             /\ \A i \in 1 .. Len(y) : z[2 + Len(p) + i] = y[i]
<1> DEFINE h == <<c, Len(p)>>
<1>1. p \in Seq(Nat) /\ y \in Seq(Nat) /\ Len(p) \in Nat /\ Len(y) \in Nat
  BY DEF Bytes
<1>2. h \in Seq(Nat) /\ Len(h) = 2 /\ h[1] = c /\ h[2] = Len(p)
  BY <1>1
<1> HIDE DEF h
<1> DEFINE q == h \o p
<1>3. q \in Seq(Nat) /\ Len(q) = 2 + Len(p) /\ q[1] = c /\ q[2] = Len(p) /\ \A i \in 1 .. Len(p) : q[2 + i] = p[i]
  <2>1. /\ q \in Seq(Nat) /\ Len(q) = Len(h) + Len(p) /\ (\A i \in 1 .. Len(h) : q[i] = h[i])
        /\ \A i \in 1 .. Len(p) : q[Len(h) + i] = p[i]
    <3>1. h \in Seq(Nat) /\ p \in Seq(Nat)
      BY <1>1, <1>2
    <3> QED BY ONLY <3>1, JoinedPlaces
  <2> HIDE DEF q
  <2> QED BY <1>2, <2>1
<1> HIDE DEF q
<1> DEFINE z == q \o y
<1>4. /\ Len(z) = 2 + Len(p) + Len(y)
      /\ \A i \in 1 .. 2 + Len(p) : z[i] = q[i]
      /\ \A i \in 1 .. Len(y) : z[2 + Len(p) + i] = y[i]
  <2>1. /\ Len(z) = Len(q) + Len(y) /\ (\A i \in 1 .. Len(q) : z[i] = q[i])
        /\ \A i \in 1 .. Len(y) : z[Len(q) + i] = y[i]
    <3>1. q \in Seq(Nat) /\ y \in Seq(Nat)
      BY <1>1, <1>3
    <3> QED BY ONLY <3>1, JoinedPlaces
  <2> HIDE DEF z
  <2> QED BY <1>3, <2>1
<1> HIDE DEF z
<1>5. 1 \in 1 .. 2 + Len(p) /\ 2 \in 1 .. 2 + Len(p) /\ \A i \in 1 .. Len(p) : 2 + i \in 1 .. 2 + Len(p)
  BY <1>1
<1>6. z[1] = c /\ z[2] = Len(p) /\ \A i \in 1 .. Len(p) : z[2 + i] = p[i]
  BY <1>3, <1>4, <1>5
<1> QED BY <1>4, <1>6 DEF z, q, h

IsFrame(b, r, c, p, y) == b \o r = (<<c, Len(p)>> \o p) \o y
FrameTaken(b, r, c, p, y) ==
  /\ Complete(b) => /\ b[1] = c /\ b[2] = Len(p) /\ SubSeq(b, 3, 2 + b[2]) = p
                    /\ SubSeq(b, 3 + b[2], Len(b)) \in Bytes
                    /\ Len(SubSeq(b, 3 + b[2], Len(b))) < Len(b)
                    /\ SubSeq(b, 3 + b[2], Len(b)) \o r = y
  /\ r = <<>> => Complete(b)

(* A buffer that begins with a frame, and holds all of it.                 *)
LEMMA FrameHead ==
  ASSUME NEW c \in Nat, NEW p \in Bytes, NEW y \in Bytes, NEW b \in Bytes, NEW r \in Bytes,
         IsFrame(b, r, c, p, y)
  PROVE  FrameTaken(b, r, c, p, y)
<1> DEFINE z == b \o r
<1>1. p \in Seq(Nat) /\ y \in Seq(Nat) /\ b \in Seq(Nat) /\ r \in Seq(Nat)
  BY DEF Bytes
<1>2. Len(p) \in Nat /\ Len(y) \in Nat /\ Len(b) \in Nat /\ Len(r) \in Nat
  BY <1>1
<1>3. /\ Len(z) = 2 + Len(p) + Len(y) /\ z[1] = c /\ z[2] = Len(p)
      /\ \A i \in 1 .. Len(p) : z[2 + i] = p[i]
      /\ \A i \in 1 .. Len(y) : z[2 + Len(p) + i] = y[i]
  <2> DEFINE x == (<<c, Len(p)>> \o p) \o y
  <2>1. /\ Len(x) = 2 + Len(p) + Len(y) /\ x[1] = c /\ x[2] = Len(p)
        /\ \A i \in 1 .. Len(p) : x[2 + i] = p[i]
        /\ \A i \in 1 .. Len(y) : x[2 + Len(p) + i] = y[i]
    BY FrameBytes
  <2>2. x = z
    BY DEF IsFrame
  <2> HIDE DEF x, z
  <2> QED BY <2>1, <2>2
<1>4. /\ Len(z) = Len(b) + Len(r) /\ \A i \in 1 .. Len(b) : z[i] = b[i]
      /\ \A i \in 1 .. Len(r) : z[Len(b) + i] = r[i]
  BY ONLY <1>1, JoinedPlaces
<1> HIDE DEF z
<1>5. ASSUME Complete(b)
      PROVE  /\ b[1] = c /\ b[2] = Len(p) /\ SubSeq(b, 3, 2 + b[2]) = p
             /\ SubSeq(b, 3 + b[2], Len(b)) \in Bytes
             /\ Len(SubSeq(b, 3 + b[2], Len(b))) < Len(b)
             /\ SubSeq(b, 3 + b[2], Len(b)) \o r = y
  <2>1. Len(b) >= 2 /\ 2 + b[2] <= Len(b)
    BY <1>5 DEF Complete, HeaderBytes
  <2>2. b[1] = c /\ b[2] = Len(p)
    <3>1. 1 \in 1 .. Len(b) /\ 2 \in 1 .. Len(b)
      BY <1>2, <2>1
    <3> QED BY <1>3, <1>4, <3>1
  <2> DEFINE n == Len(p)
             a == SubSeq(b, 3, 2 + n)
             e == SubSeq(b, 3 + n, Len(b))
  <2>3. n \in Nat /\ 2 + n <= Len(b)
    BY <1>2, <2>1, <2>2
  <2>4. \A i \in 3 .. Len(b) : b[i] \in Nat
    BY <1>1, <1>2, ElementOfSeq
  <2>5. a \in Seq(Nat) /\ Len(a) = n /\ \A i \in 1 .. n : a[i] = b[2 + i]
    BY <1>1, <1>2, <2>3
  <2>6. e \in Seq(Nat) /\ Len(e) = Len(b) - (2 + n) /\ \A i \in 1 .. Len(b) - (2 + n) : e[i] = b[2 + n + i]
    BY <1>1, <1>2, <2>3
  <2> HIDE DEF a, e, n
  <2>7. a = p
    <3>1. ASSUME NEW i \in 1 .. n PROVE a[i] = p[i]
      <4>1. 2 + i \in 1 .. Len(b) /\ i \in 1 .. Len(p)
        BY <2>3, <1>2 DEF n
      <4> QED BY <1>3, <1>4, <2>5, <4>1
    <3> QED BY <1>1, <2>5, <3>1, SeqEqual DEF n
  <2>8. e \o r = y
    <3> DEFINE f == e \o r
    <3>1. f \in Seq(Nat) /\ Len(f) = Len(e) + Len(r)
          /\ (\A i \in 1 .. Len(e) : f[i] = e[i]) /\ (\A i \in 1 .. Len(r) : f[Len(e) + i] = r[i])
      <4>1. e \in Seq(Nat) /\ r \in Seq(Nat)
        BY <1>1, <2>6
      <4> QED BY ONLY <4>1, JoinedPlaces
    <3> HIDE DEF f
    <3>2. Len(f) = Len(y)
      <4>1. /\ Len(f) = Len(e) + Len(r) /\ Len(e) = Len(b) - (2 + n) /\ n = Len(p)
            /\ Len(z) = 2 + Len(p) + Len(y) /\ Len(z) = Len(b) + Len(r)
        BY <1>3, <1>4, <2>6, <3>1 DEF n
      <4> QED BY <1>2, <4>1
    <3>3. ASSUME NEW i \in 1 .. Len(y) PROVE f[i] = y[i]
      <4>1. z[2 + n + i] = y[i]
        BY <1>3 DEF n
      <4>2. CASE i <= Len(b) - (2 + n)
        <5>1. 2 + n + i \in 1 .. Len(b) /\ i \in 1 .. Len(b) - (2 + n)
          BY <1>2, <2>3, <4>2
        <5> QED BY <1>4, <2>6, <3>1, <4>1, <5>1
      <4>3. CASE ~(i <= Len(b) - (2 + n))
        <5> DEFINE j == i - (Len(b) - (2 + n))
        <5>1. j \in 1 .. Len(r) /\ Len(b) + j = 2 + n + i /\ Len(e) + j = i
          BY <1>2, <2>3, <2>6, <3>1, <3>2, <4>3
        <5> HIDE DEF j
        <5>2. f[Len(e) + j] = r[j] /\ z[Len(b) + j] = r[j]
          BY <1>4, <3>1, <5>1
        <5> QED BY <4>1, <5>1, <5>2
      <4> QED BY <4>2, <4>3
    <3> QED BY <1>1, <3>1, <3>2, <3>3, SeqEqual DEF f
  <2>9. Len(e) < Len(b) /\ 3 + b[2] = 3 + n /\ 2 + b[2] = 2 + n /\ e \in Bytes
    BY <1>2, <2>2, <2>3, <2>6 DEF n, Bytes
  <2> QED BY <2>2, <2>7, <2>8, <2>9 DEF a, e
<1>6. ASSUME r = <<>> PROVE Complete(b)
  <2>1. Len(r) = 0
    BY <1>6
  <2>2. Len(b) >= 2 /\ 2 + Len(p) <= Len(b)
    BY <1>2, <1>3, <1>4, <2>1
  <2>3. 2 \in 1 .. Len(b)
    BY <1>2, <2>2
  <2>4. b[2] = Len(p)
    BY <1>3, <1>4, <2>3
  <2> QED BY <2>2, <2>4 DEF Complete, HeaderBytes
<1> QED BY <1>5, <1>6 DEF FrameTaken

(* What follows the same bytes is the same.                                *)
LEMMA JoinedCancels == ASSUME NEW a \in Bytes, NEW b \in Bytes, NEW c \in Bytes, a \o b = a \o c PROVE b = c
<1>1. a \in Seq(Nat) /\ b \in Seq(Nat) /\ c \in Seq(Nat)
  BY DEF Bytes
<1> QED BY ONLY <1>1, a \o b = a \o c, ConcatSimplifications

(* What was sent behind the first k frames begins with the next one.       *)
LEMMA FrameNext ==
  ASSUME NEW w \in Seq(WriteOf), NEW n \in 0 .. Len(w), NEW k \in 0 .. n - 1
  PROVE  \E y \in Bytes :
           AllFrames(First(w, n)) = AllFrames(First(w, k)) \o (EncodeFrame(w[k + 1]) \o y)
<1> DEFINE v == First(w, n)
<1>1. v \in Seq(WriteOf) /\ Len(v) = n
  BY FirstSplit
<1>2. k + 1 \in 0 .. n /\ k \in 0 .. Len(w) - 1 /\ Len(w) \in Nat
  OBVIOUS
<1>3. First(v, k + 1) = First(w, k + 1)
  BY <1>2, FirstOfFirst
<1> HIDE DEF v
<1>4. PICK y \in Bytes : AllFrames(v) = AllFrames(First(v, k + 1)) \o y
  <2>1. k + 1 \in 0 .. Len(v)
    BY <1>1, <1>2
  <2> QED BY ONLY <1>1, <2>1, FramesGrow
<1>5. AllFrames(First(w, k + 1)) = AllFrames(First(w, k)) \o EncodeFrame(w[k + 1])
  BY <1>2, FramesMore, Zenon
<1>6. AllFrames(First(w, k)) \in Bytes /\ EncodeFrame(w[k + 1]) \in Bytes
  <2>1. First(w, k) \in Seq(WriteOf) /\ w[k + 1] \in WriteOf
    BY <1>2, FirstMore, Zenon
  <2> QED BY <2>1, FramesTyped, EncodeTyped, Zenon
<1>7. (AllFrames(First(w, k)) \o EncodeFrame(w[k + 1])) \o y = AllFrames(First(w, k)) \o (EncodeFrame(w[k + 1]) \o y)
  <2>1. Rejoined(AllFrames(First(w, k)), EncodeFrame(w[k + 1]), y)
    BY ONLY <1>6, y \in Bytes, Rejoins, Zenon
  <2> QED BY ONLY <2>1 DEF Rejoined
<1> QED BY <1>3, <1>4, <1>5, <1>7 DEF v

(* The first n frames, when k of them are gone, are b and what follows.    *)
Remains(w, n, k, b, r) == AllFrames(First(w, n)) = AllFrames(First(w, k)) \o (b \o r)

Demux == [buffer : Bytes, lead : [Stream -> BOOLEAN], frames : Seq(Item)]

(* The demuxer has taken the first k frames of n sent and told their text, *)
(* told before this chunk or with it; its buffer and the rest hold the     *)
(* others.                                                                 *)
TakenTo(w, n, k, rest, told, d) ==
  /\ Remains(w, n, k, d.buffer, rest)
  /\ \A s \in Stream : Decode(FALSE, WrittenBytes(First(w, k))[s])
                         = [text |-> told[s] \o Texts(d.frames)[s], lead |-> d.lead[s]]

(* The header and payload of a frame that is complete.                     *)
FrameTold(w, n, k, b, r) ==
  /\ Complete(b) =>
       /\ k < n /\ StreamName(b[1]) = w[k + 1].stream /\ SubSeq(b, 3, 2 + b[2]) = w[k + 1].bytes
       /\ SubSeq(b, 3 + b[2], Len(b)) \in Bytes /\ Len(SubSeq(b, 3 + b[2], Len(b))) < Len(b)
       /\ Remains(w, n, k + 1, SubSeq(b, 3 + b[2], Len(b)), r)
  /\ k < n /\ r = <<>> => Complete(b)

(* What the buffer begins with, when k frames are gone: the next one.      *)
LEMMA RoundFrame ==
  ASSUME NEW w \in Seq(WriteOf), NEW n \in 0 .. Len(w), NEW k \in 0 .. n, NEW b \in Bytes, NEW r \in Bytes,
         Remains(w, n, k, b, r)
  PROVE  FrameTold(w, n, k, b, r)
<1>1. AllFrames(First(w, k)) \in Bytes /\ b \o r \in Bytes
  <2>1. k \in 0 .. Len(w)
    OBVIOUS
  <2>2. First(w, k) \in Seq(WriteOf)
    BY <2>1, FirstSplit
  <2>3. AllFrames(First(w, k)) \in Bytes
    BY <2>2, FramesTyped
  <2> QED BY ONLY <2>3, b \in Bytes, r \in Bytes, JoinedTyped
<1>2. CASE k = n
  <2>1. AllFrames(First(w, k)) \o (b \o r) = AllFrames(First(w, k))
    BY <1>2 DEF Remains
  <2>2. AllFrames(First(w, k)) \in Seq(Nat) /\ b \o r \in Seq(Nat) /\ b \in Seq(Nat) /\ r \in Seq(Nat)
    BY <1>1 DEF Bytes
  <2>3. b \o r = <<>>
    BY ONLY <2>1, <2>2, ConcatSimplifications
  <2>4. b = <<>>
    BY ONLY <2>2, <2>3, ConcatEqualIffEmpty
  <2>5. ~Complete(b)
    BY <2>4 DEF Complete, HeaderBytes
  <2> QED BY <1>2, <2>5 DEF FrameTold
<1>3. CASE k # n
  <2>1. k \in 0 .. n - 1 /\ k \in 0 .. Len(w) - 1 /\ k < n
    BY <1>3
  <2>2. PICK y \in Bytes : AllFrames(First(w, n)) = AllFrames(First(w, k)) \o (EncodeFrame(w[k + 1]) \o y)
    BY <2>1, FrameNext
  <2> DEFINE x == w[k + 1]
  <2>3. x \in WriteOf
    BY <2>1, FirstMore, Zenon
  <2>4. EncodeFrame(x) \in Bytes
    BY <2>3, EncodeTyped
  <2>5. EncodeFrame(x) \o y \in Bytes
    BY ONLY <2>4, y \in Bytes, JoinedTyped
  <2>6. b \o r = EncodeFrame(x) \o y
    <3>1. AllFrames(First(w, k)) \o (b \o r) = AllFrames(First(w, k)) \o (EncodeFrame(x) \o y)
      BY <2>2 DEF Remains
    <3> QED BY ONLY <1>1, <2>5, <3>1, JoinedCancels
  <2> DEFINE c == IF x.stream = "stdout" THEN 1 ELSE 2
             p == x.bytes
  <2>7. c \in Nat /\ p \in Bytes /\ EncodeFrame(x) = <<c, Len(p)>> \o p /\ x.stream \in Stream
    BY <2>3 DEF EncodeFrame, WriteOf
  <2> HIDE DEF c, x
  <2>8. StreamName(c) = x.stream
    BY <2>7 DEF StreamName, c, Stream
  <2>9. b \o r = (<<c, Len(p)>> \o p) \o y
    BY <2>6, <2>7
  <2>10. FrameTaken(b, r, c, p, y)
    <3>1. IsFrame(b, r, c, p, y)
      BY <2>9 DEF IsFrame
    <3> QED BY <2>7, <3>1, FrameHead, Zenon
  <2>11. AllFrames(First(w, n)) = AllFrames(First(w, k + 1)) \o y
    <3>1. AllFrames(First(w, k + 1)) = AllFrames(First(w, k)) \o EncodeFrame(x)
      BY <2>1, FramesMore, Zenon DEF x
    <3>2. (AllFrames(First(w, k)) \o EncodeFrame(x)) \o y = AllFrames(First(w, k)) \o (EncodeFrame(x) \o y)
      <4>1. Rejoined(AllFrames(First(w, k)), EncodeFrame(x), y)
        BY <1>1, <2>4, y \in Bytes, Rejoins, Zenon
      <4> QED BY ONLY <4>1 DEF Rejoined
    <3> QED BY <2>2, <3>1, <3>2 DEF x
  <2> HIDE DEF p
  <2>12. ASSUME Complete(b)
         PROVE  /\ StreamName(b[1]) = x.stream /\ SubSeq(b, 3, 2 + b[2]) = p
                /\ Remains(w, n, k + 1, SubSeq(b, 3 + b[2], Len(b)), r)
    <3>1. b[1] = c /\ SubSeq(b, 3, 2 + b[2]) = p /\ SubSeq(b, 3 + b[2], Len(b)) \o r = y
      BY <2>10, <2>12, Zenon DEF FrameTaken
    <3> QED BY <2>8, <2>11, <3>1 DEF Remains
  <2> QED BY <2>1, <2>10, <2>12, Zenon DEF x, p, FrameTaken, FrameTold
<1> QED BY <1>2, <1>3

(* One round takes the next frame, or none.                                *)
LEMMA RoundTakes ==
  ASSUME NEW w \in Seq(WriteOf), NEW n \in 0 .. Len(w), NEW k \in 0 .. n, NEW rest \in Bytes,
         NEW told \in [Stream -> Bytes], NEW d \in Demux, TakenTo(w, n, k, rest, told, d), NEW x
  PROVE  /\ Round(d, x) \in Demux
         /\ \E j \in 0 .. n : TakenTo(w, n, j, rest, told, Round(d, x))
         /\ Complete(d.buffer) => Len(Round(d, x).buffer) < Len(d.buffer)
<1> DEFINE b == d.buffer
           s == StreamName(b[1])
           payload == SubSeq(b, 3, 2 + b[2])
           tail == SubSeq(b, 3 + b[2], Len(b))
           e == Decode(d.lead[s], payload)
           g == Round(d, x)
<1>1. /\ b \in Bytes /\ d.lead \in [Stream -> BOOLEAN] /\ d.frames \in Seq(Item)
      /\ d = [buffer |-> b, lead |-> d.lead, frames |-> d.frames]
  BY DEF Demux
<1>2. CASE ~Complete(b)
  BY <1>2 DEF Round
<1>3. CASE Complete(b)
  <2>1. /\ k < n /\ s = w[k + 1].stream /\ payload = w[k + 1].bytes /\ tail \in Bytes /\ Len(tail) < Len(b)
        /\ Remains(w, n, k + 1, tail, rest)
    <3>1. Remains(w, n, k, b, rest)
      BY DEF TakenTo
    <3> HIDE DEF b
    <3>2. Complete(b) /\ b \in Bytes
      BY <1>1, <1>3
    <3>3. FrameTold(w, n, k, b, rest)
      BY <3>1, <3>2, RoundFrame, Zenon
    <3> QED BY <3>2, <3>3, Zenon DEF FrameTold
  <2>2. k \in 0 .. Len(w) - 1 /\ k + 1 \in 0 .. n
    BY <2>1
  <2>3. w[k + 1] \in WriteOf
    BY <2>2, FirstMore, Zenon
  <2>4. s \in Stream /\ payload \in Bytes
    BY <2>1, <2>3 DEF WriteOf
  <2>5. g = [buffer |-> tail, lead |-> [d.lead EXCEPT ![s] = e.lead], frames |-> d.frames \o Frame(s, e.text)]
    <3>1. HeaderBytes + 1 = 3 /\ HeaderBytes = 2
      BY DEF HeaderBytes
    <3>2. b[2] \in Nat
      <4>1. b \in Seq(Nat) /\ Len(b) >= 2
        BY <1>1, <1>3 DEF Complete, HeaderBytes, Bytes
      <4> QED BY <4>1
    <3>3. (2 + b[2]) + 1 = 3 + b[2]
      BY <3>2
    <3> QED BY <1>1, <1>3, <3>1, <3>3 DEF Round
  <2>6. e \in Decoded
    <3>1. d.lead[s] \in BOOLEAN
      BY <1>1, <2>4
    <3> HIDE DEF payload, s, b
    <3> QED BY <2>4, <3>1, DecodeTyped
  <2>7. d.frames \o Frame(s, e.text) \in Seq(Item) /\ Texts(d.frames \o Frame(s, e.text)) = [Texts(d.frames) EXCEPT ![s] = @ \o e.text]
    <3>1. e.text \in Bytes /\ s \in Stream /\ d.frames \in Seq(Item)
      BY <1>1, <2>4, <2>6 DEF Decoded
    <3> HIDE DEF b, s, payload, tail, e
    <3>2. FrameMore(d.frames, s, e.text)
      BY ONLY <3>1, FrameIsMore, Zenon
    <3> QED BY ONLY <3>2 DEF FrameMore
  <2> HIDE DEF b, s, payload, tail, e, g
  <2>8. g \in Demux
    BY <1>1, <2>1, <2>4, <2>5, <2>6, <2>7 DEF Demux, Decoded
  <2>9. ASSUME NEW q \in Stream
        PROVE  Decode(FALSE, WrittenBytes(First(w, k + 1))[q])
                 = [text |-> told[q] \o Texts(g.frames)[q], lead |-> g.lead[q]]
    <3> DEFINE f == WrittenBytes(First(w, k))
               t == Texts(d.frames)
    <3>1. f \in [Stream -> Bytes] /\ t \in [Stream -> Bytes] /\ f[q] \in Bytes /\ t[q] \in Bytes
      <4>1. First(w, k) \in Seq(WriteOf)
        BY <2>2, FirstMore, Zenon
      <4> QED BY <1>1, <4>1, WrittenTyped, TextsTyped
    <3>2. WrittenBytes(First(w, k + 1)) = [f EXCEPT ![s] = @ \o payload]
      BY <2>1, <2>2, WrittenMore, Zenon DEF Written
    <3>3. Decode(FALSE, f[q]) = [text |-> told[q] \o t[q], lead |-> d.lead[q]]
      BY DEF TakenTo
    <3>4. Texts(g.frames) = [t EXCEPT ![s] = @ \o e.text] /\ g.lead = [d.lead EXCEPT ![s] = e.lead]
      BY <2>5, <2>7
    <3> HIDE DEF f, t
    <3>5. CASE q # s
      BY <1>1, <3>1, <3>2, <3>3, <3>4, <3>5
    <3>6. CASE q = s
      <4>1. WrittenBytes(First(w, k + 1))[q] = f[q] \o payload /\ Texts(g.frames)[q] = t[q] \o e.text /\ g.lead[q] = e.lead
        BY <1>1, <3>1, <3>2, <3>4, <3>6
      <4>2. Decode(FALSE, f[q] \o payload) = [text |-> (told[q] \o t[q]) \o e.text, lead |-> e.lead]
        <5>1. Decode(FALSE, f[q] \o payload) = [text |-> Decode(FALSE, f[q]).text \o Decode(Decode(FALSE, f[q]).lead, payload).text,
                                                 lead |-> Decode(Decode(FALSE, f[q]).lead, payload).lead]
          BY <2>4, <3>1, DecodeJoined
        <5>2. Decode(FALSE, f[q]).text = told[q] \o t[q] /\ Decode(FALSE, f[q]).lead = d.lead[q]
          <6> DEFINE z == Decode(FALSE, f[q])
                     u == told[q] \o t[q]
                     v == d.lead[q]
          <6>1. z = [text |-> u, lead |-> v]
            BY <3>3
          <6> HIDE DEF z, u, v
          <6>2. z.text = u /\ z.lead = v
            BY <6>1
          <6> QED BY <6>2 DEF z, u, v
        <5> QED BY <3>6, <5>1, <5>2 DEF e
      <4>3. (told[q] \o t[q]) \o e.text = told[q] \o (t[q] \o e.text)
        <5>1. told[q] \in Bytes /\ t[q] \in Bytes /\ e.text \in Bytes
          BY <2>6, <3>1 DEF Decoded
        <5>2. Rejoined(told[q], t[q], e.text)
          BY ONLY <5>1, Rejoins, Zenon
        <5> QED BY ONLY <5>2 DEF Rejoined
      <4> QED BY <4>1, <4>2, <4>3
    <3> QED BY <3>5, <3>6
  <2>10. TakenTo(w, n, k + 1, rest, told, g)
    <3>1. g.buffer = tail
      BY <2>5
    <3> QED BY <2>1, <2>9, <3>1 DEF TakenTo
  <2>11. Len(g.buffer) < Len(b)
    BY <2>1, <2>5
  <2> QED BY <2>2, <2>8, <2>10, <2>11 DEF g, b
<1> QED BY <1>2, <1>3

(* A buffer that loses a byte a round is empty before the rounds end.      *)
LEMMA OneShorter ==
  ASSUME NEW p \in Nat, NEW q \in Nat, NEW u \in Nat, NEW t \in Nat, q < p, p + u <= t
  PROVE  q + (u + 1) <= t
OBVIOUS

(* push: the demuxer takes every frame that is complete.                   *)
LEMMA PushTakes ==
  ASSUME NEW w \in Seq(WriteOf), NEW n \in 0 .. Len(w), NEW k \in 0 .. n, NEW chunk \in Bytes, NEW rest \in Bytes,
         NEW told \in [Stream -> Bytes], NEW d \in Demux, Remains(w, n, k, d.buffer, chunk \o rest),
         \A s \in Stream : Decode(FALSE, WrittenBytes(First(w, k))[s]) = [text |-> told[s], lead |-> d.lead[s]]
  PROVE  /\ Push(d, chunk) \in Demux /\ ~Complete(Push(d, chunk).buffer)
         /\ \E j \in 0 .. n : TakenTo(w, n, j, rest, told, Push(d, chunk))
<1> DEFINE b == d.buffer \o chunk
           d0 == [buffer |-> b, lead |-> d.lead, frames |-> <<>>]
           A == {g \in Demux : \E j \in 0 .. n : TakenTo(w, n, j, rest, told, g)}
           G(u) == Rounds!After(d0, u)
           P == {u \in Seq(Nat) : G(u) \in A /\ (Complete(G(u).buffer) => Len(G(u).buffer) + Len(u) <= Len(b))}
<1>1. /\ d.buffer \in Bytes /\ d.lead \in [Stream -> BOOLEAN]
      /\ d = [buffer |-> d.buffer, lead |-> d.lead, frames |-> d.frames]
  BY DEF Demux
<1>2. b \in Bytes /\ b \in Seq(Nat) /\ Len(b) \in Nat
  <2>1. b \in Bytes
    BY ONLY <1>1, chunk \in Bytes, JoinedTyped
  <2> QED BY <2>1 DEF Bytes
<1>3. Remains(w, n, k, b, rest)
  <2>1. (d.buffer \o chunk) \o rest = d.buffer \o (chunk \o rest)
    <3>1. Rejoined(d.buffer, chunk, rest)
      BY ONLY <1>1, chunk \in Bytes, rest \in Bytes, Rejoins, Zenon
    <3> QED BY ONLY <3>1 DEF Rejoined
  <2> QED BY <2>1 DEF Remains
<1> HIDE DEF b
<1>4. d0 = [buffer |-> b, lead |-> d.lead, frames |-> <<>>]
  OBVIOUS
<1>5. d0 \in Demux
  <2> HIDE DEF d0
  <2> QED BY <1>1, <1>2, <1>4 DEF Demux
<1>6. TakenTo(w, n, k, rest, told, d0)
  <2>1. Texts(<<>>) = [s \in Stream |-> <<>>]
    BY Hearing!AfterNone DEF Texts
  <2>2. ASSUME NEW s \in Stream PROVE told[s] \o Texts(<<>>)[s] = told[s]
    <3>1. told[s] \in Seq(Nat) /\ Texts(<<>>)[s] = <<>>
      BY <2>1 DEF Bytes
    <3> QED BY <3>1
  <2>3. d0.buffer = b /\ d0.lead = d.lead /\ d0.frames = <<>>
    BY <1>4
  <2> HIDE DEF d0
  <2> QED BY <1>3, <2>2, <2>3 DEF TakenTo
<1> HIDE DEF d0
<1>7. ASSUME NEW g \in A, NEW x PROVE Round(g, x) \in A /\ (Complete(g.buffer) => Len(Round(g, x).buffer) < Len(g.buffer))
  <2>1. g \in Demux /\ \E j \in 0 .. n : TakenTo(w, n, j, rest, told, g)
    BY <1>7
  <2>2. PICK j \in 0 .. n : TakenTo(w, n, j, rest, told, g)
    BY <2>1
  <2> HIDE DEF A
  <2>3. /\ Round(g, x) \in Demux
        /\ \E i \in 0 .. n : TakenTo(w, n, i, rest, told, Round(g, x))
        /\ Complete(g.buffer) => Len(Round(g, x).buffer) < Len(g.buffer)
    BY <2>1, <2>2, RoundTakes, Zenon
  <2> QED BY <2>3 DEF A
<1>8. d0 \in A
  BY <1>5, <1>6
<1>9. <<>> \in P
  <2>1. G(<<>>) = d0 /\ Len(<<>>) = 0 /\ <<>> \in Seq(Nat) /\ Len(d0.buffer) = Len(b)
    BY <1>4, Rounds!AfterNone DEF d0
  <2> HIDE DEF G, A
  <2> QED BY <1>2, <1>8, <2>1
<1>10. ASSUME NEW u \in Seq(Nat), NEW x \in Nat, u \in P PROVE Append(u, x) \in P
  <2>1. G(Append(u, x)) = Round(G(u), x)
    BY Rounds!AfterMore
  <2>2. Append(u, x) \in Seq(Nat) /\ Len(Append(u, x)) = Len(u) + 1 /\ Len(u) \in Nat
    OBVIOUS
  <2> DEFINE g == G(u)
             h == Round(g, x)
  <2>3. g \in A /\ (Complete(g.buffer) => Len(g.buffer) + Len(u) <= Len(b))
    BY <1>10
  <2>4. h \in A /\ (Complete(g.buffer) => Len(h.buffer) < Len(g.buffer))
    <3> HIDE DEF g, A
    <3> QED BY <1>7, <2>3
  <2>5. ~Complete(g.buffer) => h = g
    BY DEF Round
  <2>6. Len(g.buffer) \in Nat /\ Len(h.buffer) \in Nat
    BY <2>3, <2>4 DEF Demux, Bytes
  <2> HIDE DEF g, h, A, G
  <2>7. Complete(h.buffer) => Len(h.buffer) + (Len(u) + 1) <= Len(b)
    <3>1. CASE Complete(g.buffer)
      <4>1. Len(g.buffer) + Len(u) <= Len(b) /\ Len(h.buffer) < Len(g.buffer)
        BY <2>3, <2>4, <3>1
      <4> QED BY ONLY <1>2, <2>2, <2>6, <4>1, OneShorter
    <3>2. CASE ~Complete(g.buffer)
      BY <2>5, <3>2
    <3> QED BY <3>1, <3>2
  <2>8. G(Append(u, x)) = h
    BY <2>1 DEF g, h
  <2> QED BY <2>2, <2>4, <2>7, <2>8
<1> HIDE DEF P
<1>11. b \in P
  <2>1. Seq(Nat) \subseteq P
    BY <1>9, <1>10, Rounds!Lengthening
  <2> QED BY <1>2, <2>1
<1> DEFINE e == G(b)
<1>12. e \in A /\ (Complete(e.buffer) => Len(e.buffer) + Len(b) <= Len(b))
  BY <1>11 DEF P
<1>13. e = Push(d, chunk)
  BY DEF Push, d0, b
<1> HIDE DEF e, G
<1>14. Len(e.buffer) \in Nat
  BY <1>12 DEF Demux, Bytes
<1>15. ~Complete(e.buffer)
  <2>1. ASSUME Complete(e.buffer) PROVE FALSE
    <3>1. Len(e.buffer) >= 2
      BY <2>1 DEF Complete, HeaderBytes
    <3> HIDE DEF A
    <3> QED BY <1>2, <1>12, <1>14, <2>1, <3>1
  <2> QED BY <2>1
<1> QED BY <1>12, <1>13, <1>15

Assembler == [partial : [Stream -> Bytes], lines : Seq(Item)]
Chomped(parts) == [i \in 1 .. Len(parts) |-> Chomp(parts[i])]

Regrouped(a, b, x) == Append(a \o b, x) = a \o Append(b, x)

(* Appended to the second of two is appended to both.                      *)
LEMMA AppendJoined ==
  ASSUME NEW S, NEW a \in Seq(S), NEW b \in Seq(S), NEW x \in S
  PROVE  Regrouped(a, b, x)
BY DEF Regrouped

(* A line is text.                                                         *)
LEMMA ChompTyped == ASSUME NEW raw \in Bytes PROVE Chomp(raw) \in Bytes
<1>1. raw \in Seq(Nat) /\ Len(raw) \in Nat
  BY DEF Bytes
<1>2. CASE raw = <<>>
  BY <1>2 DEF Chomp
<1>3. CASE raw # <<>>
  <2>1. \A i \in 1 .. Len(raw) - 1 : raw[i] \in Nat
    BY <1>1, ElementOfSeq
  <2>2. SubSeq(raw, 1, Len(raw) - 1) \in Seq(Nat)
    BY <1>1, <2>1
  <2> QED BY <2>2 DEF Chomp, Front, Bytes
<1> QED BY <1>2, <1>3

(* No parts, no lines.                                                     *)
LEMMA ChompedNone == Chomped(<<>>) = <<>> /\ \A s \in Stream : LogLines(s, <<>>) = <<>>
BY DEF Chomped, LogLines

(* One part more is one line more.                                         *)
LEMMA ChompedMore ==
  ASSUME NEW u \in Seq(Bytes), NEW x \in Bytes, NEW s \in Stream, Chomped(u) \in Seq(Bytes), LogLines(s, u) \in Seq(Item)
  PROVE  /\ Chomped(Append(u, x)) = Append(Chomped(u), Chomp(x)) /\ Chomped(Append(u, x)) \in Seq(Bytes)
         /\ LogLines(s, Append(u, x)) = Append(LogLines(s, u), LogLine(s, x)) /\ LogLines(s, Append(u, x)) \in Seq(Item)
         /\ LogLine(s, x) \in Item
<1> DEFINE v == Append(u, x)
           n == Len(u)
           c == Chomped(u)
           d == Append(c, Chomp(x))
           g == LogLines(s, u)
           h == Append(g, LogLine(s, x))
<1>1. n \in Nat /\ Len(v) = n + 1 /\ v[n + 1] = x /\ \A i \in 1 .. n : v[i] = u[i]
  OBVIOUS
<1>2. Chomp(x) \in Bytes
  BY ChompTyped
<1>3. LogLine(s, x) \in Item
  BY <1>2 DEF LogLine, Item
<1>4. c = [i \in 1 .. n |-> Chomp(u[i])] /\ g = [i \in 1 .. n |-> LogLine(s, u[i])]
  BY DEF Chomped, LogLines
<1>5. Chomped(v) = [i \in 1 .. n + 1 |-> Chomp(v[i])] /\ LogLines(s, v) = [i \in 1 .. n + 1 |-> LogLine(s, v[i])]
  BY <1>1 DEF Chomped, LogLines
<1> HIDE DEF v, n
<1>6. Len(c) = n /\ Len(g) = n
  BY <1>1, <1>4
<1>7. /\ d \in Seq(Bytes) /\ Len(d) = n + 1 /\ d[n + 1] = Chomp(x) /\ \A i \in 1 .. n : d[i] = c[i]
  <2>1. c \in Seq(Bytes) /\ Chomp(x) \in Bytes
    BY <1>2
  <2> HIDE DEF c
  <2> QED BY ONLY <1>6, <2>1, AppendProperties
<1>8. /\ h \in Seq(Item) /\ Len(h) = n + 1 /\ h[n + 1] = LogLine(s, x) /\ \A i \in 1 .. n : h[i] = g[i]
  <2>1. g \in Seq(Item) /\ LogLine(s, x) \in Item
    BY <1>3
  <2> HIDE DEF g
  <2> QED BY ONLY <1>6, <2>1, AppendProperties
<1> HIDE DEF c, d, g, h
<1>9. \A i \in 1 .. n + 1 : i \in 1 .. n \/ i = n + 1
  BY <1>1
<1>10. d = [i \in 1 .. n + 1 |-> d[i]] /\ h = [i \in 1 .. n + 1 |-> h[i]]
  BY <1>7, <1>8
<1>11. \A i \in 1 .. n + 1 : Chomp(v[i]) = d[i] /\ LogLine(s, v[i]) = h[i]
  BY <1>1, <1>4, <1>7, <1>8, <1>9
<1>12. Chomped(v) = d /\ LogLines(s, v) = h
  BY <1>5, <1>10, <1>11
<1> QED BY <1>3, <1>7, <1>8, <1>12 DEF v, c, d, g, h

(* Lines by stream.                                                        *)
LEMMA SortedTyped == ASSUME NEW l \in Seq(Item) PROVE ByStream(l) \in [Stream -> Seq(Bytes)]
<1>1. [s \in Stream |-> <<>>] \in [Stream -> Seq(Bytes)]
  OBVIOUS
<1>2. \A g \in [Stream -> Seq(Bytes)], x \in Item : Sorted(g, x) \in [Stream -> Seq(Bytes)]
  <2>1. \A a \in Seq(Bytes), b \in Bytes : Append(a, b) \in Seq(Bytes)
    OBVIOUS
  <2> QED BY <2>1 DEF Sorted, Item
<1> HIDE DEF Item
<1> QED BY <1>1, <1>2, Sorting!AfterKeeps DEF ByStream

(* The parts of a text become lines of its stream.                         *)
LEMMA LinesSorted ==
  ASSUME NEW l \in Seq(Item), NEW s \in Stream, NEW parts \in Seq(Bytes)
  PROVE  /\ Chomped(parts) \in Seq(Bytes) /\ LogLines(s, parts) \in Seq(Item)
         /\ ByStream(l \o LogLines(s, parts)) = [ByStream(l) EXCEPT ![s] = @ \o Chomped(parts)]
<1> DEFINE P == {u \in Seq(Bytes) : /\ Chomped(u) \in Seq(Bytes) /\ LogLines(s, u) \in Seq(Item)
                                    /\ ByStream(l \o LogLines(s, u)) = [ByStream(l) EXCEPT ![s] = @ \o Chomped(u)]}
<1>1. ByStream(l) \in [Stream -> Seq(Bytes)]
  BY SortedTyped
<1>2. <<>> \in P
  <2>1. ByStream(l)[s] \in Seq(Bytes)
    BY <1>1
  <2>2. ByStream(l)[s] \o <<>> = ByStream(l)[s]
    BY <2>1
  <2>3. l \o <<>> = l
    OBVIOUS
  <2>4. [ByStream(l) EXCEPT ![s] = @ \o <<>>] = ByStream(l)
    BY <1>1, <2>2
  <2>5. <<>> \in Seq(Bytes) /\ <<>> \in Seq(Item)
    OBVIOUS
  <2> QED BY <2>3, <2>4, <2>5, ChompedNone
<1>3. ASSUME NEW u \in Seq(Bytes), NEW x \in Bytes, u \in P PROVE Append(u, x) \in P
  <2> DEFINE c == Chomped(u)
             g == LogLines(s, u)
             i == LogLine(s, x)
             f == ByStream(l)
  <2>1. c \in Seq(Bytes) /\ g \in Seq(Item) /\ ByStream(l \o g) = [f EXCEPT ![s] = @ \o c]
    BY <1>3
  <2>2. /\ Chomped(Append(u, x)) = Append(c, Chomp(x)) /\ Chomped(Append(u, x)) \in Seq(Bytes)
        /\ LogLines(s, Append(u, x)) = Append(g, i) /\ LogLines(s, Append(u, x)) \in Seq(Item)
        /\ i \in Item
    BY <2>1, ChompedMore
  <2>3. i.stream = s /\ i.text = Chomp(x) /\ Chomp(x) \in Bytes
    BY ChompTyped DEF LogLine
  <2> HIDE DEF c, g, i, f
  <2>4. l \o Append(g, i) = Append(l \o g, i) /\ l \o g \in Seq(Item)
    <3> HIDE DEF Item
    <3> QED BY <2>1, <2>2
  <2>5. ByStream(Append(l \o g, i)) = Sorted(ByStream(l \o g), i)
    <3> DEFINE e == [q \in Stream |-> <<>>]
    <3>1. l \o g \in Seq(Item) /\ i \in Item
      BY <2>2, <2>4
    <3>2. Sorting!After(e, Append(l \o g, i)) = Sorted(Sorting!After(e, l \o g), i)
      BY ONLY <3>1, Sorting!AfterMore
    <3> QED BY <3>2, Zenon DEF ByStream
  <2>6. f \in [Stream -> Seq(Bytes)] /\ f[s] \in Seq(Bytes)
    BY <1>1 DEF f
  <2>7. Append(f[s] \o c, Chomp(x)) = f[s] \o Append(c, Chomp(x))
    <3>1. f[s] \in Seq(Bytes) /\ c \in Seq(Bytes) /\ Chomp(x) \in Bytes
      BY <2>1, <2>3, <2>6
    <3> DEFINE a == f[s]
               e == Chomp(x)
    <3>2. a \in Seq(Bytes) /\ c \in Seq(Bytes) /\ e \in Bytes
      BY <3>1
    <3> HIDE DEF a, e
    <3>3. Regrouped(a, c, e)
      BY <3>2, AppendJoined, Zenon
    <3> QED BY <3>3 DEF a, e, Regrouped
  <2>8. Sorted([f EXCEPT ![s] = @ \o c], i) = [f EXCEPT ![s] = Append(f[s] \o c, Chomp(x))]
    BY <2>3, <2>6 DEF Sorted
  <2>9. ByStream(l \o Append(g, i)) = [f EXCEPT ![s] = @ \o Append(c, Chomp(x))]
    BY <2>1, <2>4, <2>5, <2>7, <2>8
  <2>10. Append(u, x) \in Seq(Bytes)
    <3> HIDE DEF Bytes
    <3> QED OBVIOUS
  <2> QED BY <2>2, <2>9, <2>10 DEF f
<1> HIDE DEF P
<1>4. Seq(Bytes) \subseteq P
  BY <1>2, <1>3, Sorting!Lengthening
<1>5. parts \in P
  BY <1>4
<1> QED BY <1>5 DEF P

(* Of each stream's text, what is no line yet, and the lines.              *)
Assembled(a, told) ==
  \A s \in Stream : LET p == Parts(<<>>, told[s])
                    IN  a.partial[s] = p.rest /\ ByStream(a.lines)[s] = Chomped(p.parts)

(* The lines of parts that were joined.                                    *)
LEMMA ChompedJoined ==
  ASSUME NEW p \in Seq(Bytes), NEW q \in Seq(Bytes)
  PROVE  Chomped(p \o q) = Chomped(p) \o Chomped(q)
<1> DEFINE r == p \o q
           a == Chomped(p)
           b == Chomped(q)
           c == a \o b
<1>1. /\ r \in Seq(Bytes) /\ Len(r) = Len(p) + Len(q)
      /\ \A i \in 1 .. Len(p) + Len(q) : r[i] = IF i <= Len(p) THEN p[i] ELSE q[i - Len(p)]
  BY ConcatProperties
<1>2. a \in Seq(Bytes) /\ b \in Seq(Bytes) /\ Len(p) \in Nat /\ Len(q) \in Nat
  <2> \E s : s \in Stream
    BY DEF Stream
  <2> QED BY LinesSorted, LenProperties, EmptySeq
<1>3. a = [i \in 1 .. Len(p) |-> Chomp(p[i])] /\ b = [i \in 1 .. Len(q) |-> Chomp(q[i])]
      /\ Chomped(r) = [i \in 1 .. Len(p) + Len(q) |-> Chomp(r[i])]
  BY <1>1 DEF Chomped
<1> HIDE DEF r, a, b
<1>4. Len(a) = Len(p) /\ Len(b) = Len(q)
  BY <1>2, <1>3
<1>5. /\ c \in Seq(Bytes) /\ Len(c) = Len(p) + Len(q)
      /\ \A i \in 1 .. Len(p) + Len(q) : c[i] = IF i <= Len(p) THEN a[i] ELSE b[i - Len(p)]
  <2>1. a \in Seq(Bytes) /\ b \in Seq(Bytes)
    BY <1>2
  <2>2. /\ c \in Seq(Bytes) /\ Len(c) = Len(a) + Len(b)
        /\ \A i \in 1 .. Len(a) + Len(b) : c[i] = IF i <= Len(a) THEN a[i] ELSE b[i - Len(a)]
    BY ONLY <2>1, ConcatProperties
  <2> HIDE DEF c
  <2> QED BY <1>4, <2>2
<1> HIDE DEF c
<1>6. c = [i \in 1 .. Len(p) + Len(q) |-> c[i]]
  BY <1>5
<1>7. ASSUME NEW i \in 1 .. Len(p) + Len(q) PROVE Chomp(r[i]) = c[i]
  <2>1. CASE i <= Len(p)
    <3>1. i \in 1 .. Len(p)
      BY <1>2, <2>1
    <3> QED BY <1>1, <1>3, <1>5, <2>1, <3>1
  <2>2. CASE ~(i <= Len(p))
    <3>1. i - Len(p) \in 1 .. Len(q)
      BY <1>2, <2>2
    <3> QED BY <1>1, <1>3, <1>5, <2>2, <3>1
  <2> QED BY <2>1, <2>2
<1>8. Chomped(r) = c
  BY <1>3, <1>6, <1>7
<1> QED BY <1>8 DEF r, a, b, c

(* A frame assembled: its own stream's text goes on, the other's stays.    *)
LEMMA FrameAssembled ==
  ASSUME NEW a \in Assembler, NEW told \in [Stream -> Bytes], NEW x \in Item, Assembled(a, told)
  PROVE  AssembleFrame(a, x) \in Assembler /\ Assembled(AssembleFrame(a, x), Heard(told, x))
<1> DEFINE s == x.stream
           t == x.text
           q == Parts(a.partial[s], t)
           g == AssembleFrame(a, x)
           h == Heard(told, x)
<1>1. s \in Stream /\ t \in Bytes /\ a.partial \in [Stream -> Bytes] /\ a.lines \in Seq(Item)
      /\ a = [partial |-> a.partial, lines |-> a.lines]
  BY DEF Item, Assembler
<1>2. q \in Split /\ q.rest \in Bytes /\ q.parts \in Seq(Bytes)
  <2>1. q \in Split
    BY <1>1, PartsTyped
  <2> QED BY <2>1 DEF Split
<1>3. g.partial = [a.partial EXCEPT ![s] = q.rest] /\ g.lines = a.lines \o LogLines(s, q.parts) /\ g = [partial |-> g.partial, lines |-> g.lines]
  BY <1>1 DEF AssembleFrame
<1>4. h = [told EXCEPT ![s] = @ \o t]
  BY DEF Heard
<1> HIDE DEF q, g, h, s, t
<1>5. /\ LogLines(s, q.parts) \in Seq(Item)
      /\ ByStream(a.lines \o LogLines(s, q.parts)) = [ByStream(a.lines) EXCEPT ![s] = @ \o Chomped(q.parts)]
  BY <1>1, <1>2, LinesSorted
<1>6. a.lines \o LogLines(s, q.parts) \in Seq(Item)
  <2> DEFINE l == LogLines(s, q.parts)
  <2>1. l \in Seq(Item)
    BY <1>5
  <2> HIDE DEF l
  <2>2. a.lines \o l \in Seq(Item)
    BY ONLY <1>1, <2>1
  <2> QED BY <2>2 DEF l
<1>7. g \in Assembler
  BY <1>1, <1>2, <1>3, <1>6 DEF Assembler
<1>8. ASSUME NEW z \in Stream
      PROVE  g.partial[z] = Parts(<<>>, h[z]).rest /\ ByStream(g.lines)[z] = Chomped(Parts(<<>>, h[z]).parts)
  <2> DEFINE p == Parts(<<>>, told[z])
  <2>1. a.partial[z] = p.rest /\ ByStream(a.lines)[z] = Chomped(p.parts) /\ told[z] \in Bytes /\ <<>> \in Bytes
    BY DEF Assembled, Bytes
  <2>2. ByStream(a.lines) \in [Stream -> Seq(Bytes)]
    BY <1>1, SortedTyped
  <2>3. CASE z # s
    <3>1. h[z] = told[z] /\ g.partial[z] = a.partial[z]
      BY <1>1, <1>3, <1>4, <2>3
    <3>2. ByStream(g.lines)[z] = ByStream(a.lines)[z]
      BY <1>3, <1>5, <2>2, <2>3
    <3> QED BY <2>1, <3>1, <3>2
  <2>4. CASE z = s
    <3>1. h[z] = told[z] \o t /\ g.partial[z] = q.rest
      BY <1>1, <1>3, <1>4, <2>4
    <3>2. ByStream(g.lines)[z] = ByStream(a.lines)[z] \o Chomped(q.parts)
      BY <1>3, <1>5, <2>2, <2>4
    <3>3. q = Parts(p.rest, t)
      BY <2>1, <2>4 DEF q, t, s
    <3>4. Parts(<<>>, told[z] \o t) = [rest |-> q.rest, parts |-> p.parts \o q.parts]
      <4>1. Parts(<<>>, told[z] \o t) = [rest |-> Parts(p.rest, t).rest, parts |-> p.parts \o Parts(p.rest, t).parts]
        BY <1>1, <2>1, PartsJoined
      <4> QED BY <3>3, <4>1
    <3>5. p.parts \in Seq(Bytes)
      BY <2>1, PartsTyped DEF Split
    <3>6. Chomped(p.parts \o q.parts) = Chomped(p.parts) \o Chomped(q.parts)
      BY <1>2, <3>5, ChompedJoined
    <3> HIDE DEF p
    <3> DEFINE e == Parts(<<>>, h[z])
               l == p.parts \o q.parts
    <3>7. e = [rest |-> q.rest, parts |-> l]
      BY <3>1, <3>4
    <3> HIDE DEF e, l
    <3>8. e.rest = q.rest /\ e.parts = l
      BY <3>7
    <3> QED BY <2>1, <3>1, <3>2, <3>6, <3>8 DEF e, l
  <2> QED BY <2>3, <2>4
<1>9. Assembled(g, h)
  BY <1>8 DEF Assembled
<1> QED BY <1>7, <1>9 DEF g, h

ToldMore(told, g) == [s \in Stream |-> told[s] \o g[s]]

(* What was told and one frame more.                                       *)
LEMMA ToldNext ==
  ASSUME NEW told \in [Stream -> Bytes], NEW g \in [Stream -> Bytes], NEW x \in Item
  PROVE  /\ ToldMore(told, g) \in [Stream -> Bytes]
         /\ Heard(ToldMore(told, g), x) = ToldMore(told, Heard(g, x))
<1> DEFINE m == ToldMore(told, g)
           h == Heard(g, x)
<1>1. x.stream \in Stream /\ x.text \in Bytes
  BY DEF Item
<1>2. \A s \in Stream : told[s] \in Bytes /\ g[s] \in Bytes
  OBVIOUS
<1>3. m = [s \in Stream |-> told[s] \o g[s]] /\ m \in [Stream -> Bytes]
  <2>1. \A s \in Stream : told[s] \o g[s] \in Bytes
    BY <1>2, JoinedTyped
  <2> QED BY <2>1 DEF ToldMore
<1>4. h = [g EXCEPT ![x.stream] = @ \o x.text]
  BY DEF Heard
<1>5. ASSUME NEW s \in Stream PROVE Heard(m, x)[s] = told[s] \o h[s]
  <2>1. CASE s # x.stream
    BY <1>1, <1>3, <1>4, <2>1 DEF Heard
  <2>2. CASE s = x.stream
    <3>1. Heard(m, x)[s] = (told[s] \o g[s]) \o x.text /\ h[s] = g[s] \o x.text
      BY <1>1, <1>3, <1>4, <2>2 DEF Heard
    <3>2. told[s] \in Bytes /\ g[s] \in Bytes /\ x.text \in Bytes
      BY <1>1, <1>2
    <3>3. (told[s] \o g[s]) \o x.text = told[s] \o (g[s] \o x.text)
      <4>1. Rejoined(told[s], g[s], x.text)
        BY ONLY <3>2, Rejoins, Zenon
      <4> QED BY ONLY <4>1 DEF Rejoined
    <3> QED BY <3>1, <3>3
  <2> QED BY <2>1, <2>2
<1>6. Heard(m, x) = [s \in Stream |-> Heard(m, x)[s]]
  BY <1>3 DEF Heard
<1>7. ToldMore(told, h) = [s \in Stream |-> told[s] \o h[s]]
  BY DEF ToldMore
<1> HIDE DEF m, h
<1>8. Heard(m, x) = ToldMore(told, h)
  BY <1>5, <1>6, <1>7
<1> QED BY <1>3, <1>8 DEF m, h

(* All frames of a chunk assembled, one after the other.                   *)
LEMMA Assembles ==
  ASSUME NEW a \in Assembler, NEW told \in [Stream -> Bytes], NEW frames \in Seq(Item), Assembled(a, told)
  PROVE  /\ Assemble(a, frames) \in Assembler
         /\ ToldMore(told, Texts(frames)) \in [Stream -> Bytes]
         /\ Assembled(Assemble(a, frames), ToldMore(told, Texts(frames)))
<1> DEFINE A(u) == Assemble(a, u)
           T(u) == Texts(u)
           P == {u \in Seq(Item) : /\ A(u) \in Assembler /\ T(u) \in [Stream -> Bytes]
                                   /\ Assembled(A(u), ToldMore(told, T(u)))}
<1>1. <<>> \in P
  <2>1. A(<<>>) = a
    BY Assembling!AfterNone DEF Assemble
  <2>2. T(<<>>) = [s \in Stream |-> <<>>]
    BY Hearing!AfterNone DEF Texts
  <2>3. ASSUME NEW s \in Stream PROVE told[s] \o <<>> = told[s]
    <3>1. told[s] \in Seq(Nat)
      BY DEF Bytes
    <3> QED BY <3>1
  <2>4. ToldMore(told, T(<<>>)) = told
    <3>1. told = [s \in Stream |-> told[s]]
      OBVIOUS
    <3> QED BY <2>2, <2>3, <3>1 DEF ToldMore
  <2>5. T(<<>>) \in [Stream -> Bytes] /\ <<>> \in Seq(Item)
    <3>1. <<>> \in Bytes /\ <<>> \in Seq(Item)
      BY DEF Bytes
    <3> HIDE DEF T
    <3> QED BY <2>2, <3>1
  <2> HIDE DEF A, T
  <2> QED BY <2>1, <2>4, <2>5
<1>2. ASSUME NEW u \in Seq(Item), NEW x \in Item, u \in P PROVE Append(u, x) \in P
  <2>1. A(Append(u, x)) = AssembleFrame(A(u), x)
    BY Assembling!AfterMore DEF Assemble
  <2>2. T(Append(u, x)) = Heard(T(u), x)
    BY Hearing!AfterMore DEF Texts
  <2>3. Append(u, x) \in Seq(Item)
    OBVIOUS
  <2>4. T(Append(u, x)) \in [Stream -> Bytes]
    BY <2>3, TextsTyped
  <2> HIDE DEF A, T
  <2>5. A(u) \in Assembler /\ T(u) \in [Stream -> Bytes] /\ Assembled(A(u), ToldMore(told, T(u)))
    BY <1>2
  <2>6. /\ ToldMore(told, T(u)) \in [Stream -> Bytes]
        /\ Heard(ToldMore(told, T(u)), x) = ToldMore(told, Heard(T(u), x))
    BY <2>5, ToldNext, Zenon
  <2>7. /\ AssembleFrame(A(u), x) \in Assembler
        /\ Assembled(AssembleFrame(A(u), x), Heard(ToldMore(told, T(u)), x))
    BY <2>5, <2>6, FrameAssembled, Zenon
  <2> QED BY <2>1, <2>2, <2>3, <2>4, <2>6, <2>7
<1> HIDE DEF P
<1>3. Seq(Item) \subseteq P
  BY <1>1, <1>2, Assembling!Lengthening
<1>4. frames \in P
  BY <1>3
<1> HIDE DEF A, T
<1>5. /\ A(frames) \in Assembler /\ T(frames) \in [Stream -> Bytes]
      /\ Assembled(A(frames), ToldMore(told, T(frames)))
  BY <1>4 DEF P
<1>6. ToldMore(told, T(frames)) \in [Stream -> Bytes]
  <2>1. \A s \in Stream : told[s] \in Bytes /\ T(frames)[s] \in Bytes
    BY <1>5
  <2> QED BY <2>1, JoinedTyped DEF ToldMore
<1> QED BY <1>5, <1>6 DEF A, T

-----------------------------------------------------------------------------
(* What a text ends with.                                                  *)
Ending(rest) == IF rest = <<>> THEN <<>> ELSE <<rest>>

(* An ending is at most one part.                                          *)
LEMMA EndingTyped == ASSUME NEW r \in Bytes PROVE Ending(r) \in Seq(Bytes)
BY DEF Ending

(* The lines of a text: its parts, then what is left.                      *)
LEMMA LinesOfIs ==
  ASSUME NEW t \in Bytes
  PROVE  /\ Parts(<<>>, t).rest \in Bytes /\ Parts(<<>>, t).parts \in Seq(Bytes)
         /\ LinesOf(t) = Chomped(Parts(<<>>, t).parts) \o Chomped(Ending(Parts(<<>>, t).rest))
<1> DEFINE p == Parts(<<>>, t)
<1>1. p.rest \in Bytes /\ p.parts \in Seq(Bytes)
  <2>1. <<>> \in Bytes
    BY DEF Bytes
  <2> QED BY <2>1, PartsTyped DEF Split
<1>2. LinesOf(t) = Chomped(p.parts \o Ending(p.rest))
  BY DEF LinesOf, Chomped, Ending
<1> HIDE DEF p
<1>3. Ending(p.rest) \in Seq(Bytes)
  BY <1>1, EndingTyped
<1>4. Chomped(p.parts \o Ending(p.rest)) = Chomped(p.parts) \o Chomped(Ending(p.rest))
  BY <1>1, <1>3, ChompedJoined
<1> QED BY <1>1, <1>2, <1>4 DEF p

(* A sequence begins each that continues it.                               *)
LEMMA PrefixOfJoined ==
  ASSUME NEW S, NEW a \in Seq(S), NEW b \in Seq(S) PROVE IsPrefix(a, a \o b)
<1> DEFINE c == a \o b
<1>1. c \in Seq(S) /\ Len(c) = Len(a) + Len(b) /\ \A i \in 1 .. Len(a) : c[i] = a[i]
  BY ONLY a \in Seq(S), b \in Seq(S), JoinedPlaces
<1>2. Len(a) \in Nat /\ Len(b) \in Nat
  OBVIOUS
<1> HIDE DEF c
<1>3. Len(a) <= Len(c)
  BY <1>1, <1>2
<1>4. SubSeq(a, 1, Len(a)) = SubSeq(c, 1, Len(a))
  <2>1. SubSeq(a, 1, Len(a)) = [i \in 1 .. Len(a) |-> a[i]] /\ SubSeq(c, 1, Len(a)) = [i \in 1 .. Len(a) |-> c[i]]
    BY <1>1, <1>2, <1>3
  <2> QED BY <1>1, <2>1
<1> QED BY <1>3, <1>4 DEF IsPrefix, c

(* The lines of a text so far are the first of the whole text's.           *)
LEMMA LinesGrow ==
  ASSUME NEW t \in Bytes, NEW u \in Bytes
  PROVE  IsPrefix(Chomped(Parts(<<>>, t).parts), LinesOf(t \o u))
<1> DEFINE p == Parts(<<>>, t)
           q == Parts(p.rest, u)
           e == Chomped(Ending(q.rest))
<1>1. <<>> \in Bytes /\ t \o u \in Bytes
  BY JoinedTyped DEF Bytes
<1>2. p.rest \in Bytes /\ p.parts \in Seq(Bytes)
  BY <1>1, PartsTyped DEF Split
<1>3. q.rest \in Bytes /\ q.parts \in Seq(Bytes)
  <2> HIDE DEF p
  <2> QED BY <1>2, PartsTyped DEF Split
<1>4. Parts(<<>>, t \o u).rest = q.rest /\ Parts(<<>>, t \o u).parts = p.parts \o q.parts
  <2> DEFINE z == Parts(<<>>, t \o u)
             l == p.parts \o q.parts
  <2>1. z = [rest |-> q.rest, parts |-> l]
    BY <1>1, PartsJoined
  <2> HIDE DEF z, l
  <2>2. z.rest = q.rest /\ z.parts = l
    BY <2>1
  <2> QED BY <2>2 DEF z, l
<1>5. LinesOf(t \o u) = Chomped(p.parts \o q.parts) \o e
  BY <1>1, <1>4, LinesOfIs
<1> DEFINE a == Chomped(p.parts)
           b == Chomped(q.parts)
<1>6. Chomped(p.parts \o q.parts) = a \o b
  <2> HIDE DEF p, q
  <2> QED BY <1>2, <1>3, ChompedJoined
<1>7. a \in Seq(Bytes) /\ b \in Seq(Bytes) /\ e \in Seq(Bytes)
  <2>1. Ending(q.rest) \in Seq(Bytes)
    <3> HIDE DEF q
    <3> QED BY <1>3, EndingTyped
  <2>2. "stdout" \in Stream
    BY DEF Stream
  <2>3. <<>> \in Seq(Item) /\ p.parts \in Seq(Bytes) /\ q.parts \in Seq(Bytes)
    BY <1>2, <1>3
  <2> HIDE DEF p, q
  <2> QED BY <2>1, <2>2, <2>3, LinesSorted, Zenon
<1> HIDE DEF a, b, e
<1>8. (a \o b) \o e = a \o (b \o e) /\ b \o e \in Seq(Bytes)
  <2>1. b \o e \in Seq(Bytes)
    BY ONLY <1>7
  <2>2. (a \o b) \o e = a \o (b \o e)
    BY ONLY <1>7, ConcatAssociative
  <2> QED BY <2>1, <2>2
<1>9. IsPrefix(a, a \o (b \o e))
  BY <1>7, <1>8, PrefixOfJoined
<1> QED BY <1>5, <1>6, <1>8, <1>9 DEF a

(* At the end: all the lines of the whole text.                            *)
LEMMA LinesEnd ==
  ASSUME NEW a \in Assembler, NEW told \in [Stream -> Bytes], Assembled(a, told), NEW s \in Stream
  PROVE  /\ a.lines \o LastLines(a) \in Seq(Item)
         /\ ByStream(a.lines \o LastLines(a))[s] = LinesOf(told[s])
<1> DEFINE out == Ending(a.partial["stdout"])
           err == Ending(a.partial["stderr"])
           lo == LogLines("stdout", out)
           le == LogLines("stderr", err)
           l == a.lines
<1>1. l \in Seq(Item) /\ a.partial \in [Stream -> Bytes] /\ "stdout" \in Stream /\ "stderr" \in Stream
  BY DEF Assembler, Stream
<1>2. out \in Seq(Bytes) /\ err \in Seq(Bytes)
  BY <1>1, EndingTyped
<1>3. LastLines(a) = lo \o le
  <2>1. ASSUME NEW q, NEW r PROVE LastLine(q, r) = LogLines(q, Ending(r))
    <3>1. CASE r = <<>>
      BY <3>1 DEF LastLine, LogLines, Ending
    <3>2. CASE r # <<>>
      <4>1. LogLines(q, <<r>>) = [i \in 1 .. 1 |-> LogLine(q, <<r>>[i])]
        BY DEF LogLines
      <4>2. [i \in 1 .. 1 |-> LogLine(q, <<r>>[i])] = <<LogLine(q, r)>>
        OBVIOUS
      <4> QED BY <3>2, <4>1, <4>2 DEF LastLine, Ending
    <3> QED BY <3>1, <3>2
  <2> QED BY <2>1 DEF LastLines
<1> HIDE DEF out, err
<1>4. lo \in Seq(Item) /\ le \in Seq(Item) /\ Chomped(out) \in Seq(Bytes) /\ Chomped(err) \in Seq(Bytes)
  BY <1>1, <1>2, LinesSorted
<1>5. ByStream(l \o lo) = [ByStream(l) EXCEPT !["stdout"] = @ \o Chomped(out)]
  <2> HIDE DEF l
  <2> QED BY ONLY <1>1, <1>2, LinesSorted DEF lo
<1> HIDE DEF lo, l
<1>6. l \o lo \in Seq(Item)
  BY ONLY <1>1, <1>4
<1>7. ByStream((l \o lo) \o le) = [ByStream(l \o lo) EXCEPT !["stderr"] = @ \o Chomped(err)]
  <2> DEFINE x == l \o lo
  <2> HIDE DEF x
  <2>1. x \in Seq(Item)
    BY <1>6 DEF x
  <2>2. ByStream(x \o le) = [ByStream(x) EXCEPT !["stderr"] = @ \o Chomped(err)]
    BY ONLY <1>1, <1>2, <2>1, LinesSorted, SMTT(30) DEF le
  <2> QED BY <2>2 DEF x
<1> HIDE DEF le
<1>8. (l \o lo) \o le = l \o (lo \o le) /\ l \o (lo \o le) \in Seq(Item)
  <2>1. (l \o lo) \o le = l \o (lo \o le)
    BY ONLY <1>1, <1>4, ConcatAssociative
  <2>2. lo \o le \in Seq(Item)
    BY ONLY <1>4
  <2>3. l \o (lo \o le) \in Seq(Item)
    BY ONLY <1>1, <2>2
  <2> QED BY <2>1, <2>3
<1> DEFINE f == ByStream(l)
           g == ByStream(l \o LastLines(a))
<1>9. f \in [Stream -> Seq(Bytes)]
  BY <1>1, SortedTyped
<1>10. g = [[f EXCEPT !["stdout"] = @ \o Chomped(out)] EXCEPT !["stderr"] = @ \o Chomped(err)]
  BY <1>3, <1>5, <1>7, <1>8
<1> HIDE DEF f, g
<1>11. g["stdout"] = f["stdout"] \o Chomped(out) /\ g["stderr"] = f["stderr"] \o Chomped(err)
  BY <1>1, <1>9, <1>10
<1>12. ASSUME NEW q \in Stream
       PROVE  LinesOf(told[q]) = f[q] \o Chomped(Ending(a.partial[q]))
  <2>1. told[q] \in Bytes
    OBVIOUS
  <2>2. LinesOf(told[q]) = Chomped(Parts(<<>>, told[q]).parts) \o Chomped(Ending(Parts(<<>>, told[q]).rest))
    BY <2>1, LinesOfIs
  <2>3. a.partial[q] = Parts(<<>>, told[q]).rest /\ f[q] = Chomped(Parts(<<>>, told[q]).parts)
    BY DEF Assembled, f, l
  <2> QED BY <2>2, <2>3
<1>13. g[s] = LinesOf(told[s])
  <2>1. s = "stdout" \/ s = "stderr"
    BY DEF Stream
  <2> QED BY <1>1, <1>11, <1>12, <2>1 DEF out, err
<1> QED BY <1>3, <1>8, <1>13 DEF g, l

(* What half a character at the end becomes.                               *)
EndOf(lead) == IF lead THEN <<Replacement>> ELSE <<>>

(* What half a character becomes is text.                                  *)
LEMMA EndTyped == ASSUME NEW l PROVE EndOf(l) \in Bytes
BY DEF EndOf, Bytes, Replacement

(* What some bytes are as text.                                            *)
AllText(bytes) ==
  LET all == Decode(FALSE, bytes) IN all.text \o IF all.lead THEN <<Replacement>> ELSE <<>>

(* The fields of a decoded text.                                           *)
LEMMA FieldsOf == ASSUME NEW x, NEW y, NEW z, z = [text |-> x, lead |-> y] PROVE z.text = x /\ z.lead = y
OBVIOUS

(* The whole text of some bytes.                                           *)
LEMMA AllTextIs ==
  ASSUME NEW c, NEW t, NEW l, Decode(FALSE, c) = [text |-> t, lead |-> l]
  PROVE  AllText(c) = t \o EndOf(l)
<1> DEFINE z == Decode(FALSE, c)
<1>1. AllText(c) = z.text \o EndOf(z.lead)
  BY DEF AllText, EndOf
<1>2. z = [text |-> t, lead |-> l]
  OBVIOUS
<1> HIDE DEF z
<1>3. z.text = t /\ z.lead = l
  BY <1>2
<1> QED BY <1>1, <1>3

(* Half a character is told, sooner or later.                              *)
LEMMA HalfTold ==
  ASSUME NEW u \in Bytes PROVE Decode(TRUE, u).lead \/ Decode(TRUE, u).text # <<>>
<1> DEFINE A == {e \in Decoded : e.lead \/ e.text # <<>>}
<1>1. [text |-> <<>>, lead |-> TRUE] \in A
  BY DEF Decoded, Bytes
<1>2. ASSUME NEW e \in A, NEW b \in Nat PROVE DecodeByte(e, b) \in A
  <2>1. e \in Decoded /\ (e.lead \/ e.text # <<>>) /\ e.text \in Bytes /\ e.lead \in BOOLEAN
    BY <1>2 DEF Decoded
  <2>2. DecodeByte(e, b) \in Decoded
    <3>1. <<>> \in Bytes
      BY DEF Bytes
    <3> QED BY <2>1, <3>1, DecodeByteAppends
  <2>3. DecodeByte(e, b).lead \/ DecodeByte(e, b).text # <<>>
    <3> DEFINE cut == IF e.lead /\ b # WideRest THEN Append(e.text, Replacement) ELSE e.text
               x == IF b # WideRest THEN b ELSE IF e.lead THEN Wide ELSE Replacement
    <3>1. DecodeByte(e, b) = IF b = WideLead THEN [text |-> cut, lead |-> TRUE] ELSE [lead |-> FALSE, text |-> Append(cut, x)]
      BY DEF DecodeByte
    <3>2. cut \in Seq(Nat) /\ x \in Nat
      BY <2>1 DEF Bytes, Replacement, Wide
    <3> HIDE DEF cut, x
    <3>3. Append(cut, x) # <<>>
      <4>1. Len(Append(cut, x)) = Len(cut) + 1 /\ Len(cut) \in Nat
        BY <3>2
      <4>2. Len(Append(cut, x)) # 0
        BY <4>1
      <4> QED BY <4>2
    <3>4. CASE b = WideLead
      BY <3>1, <3>4
    <3>5. CASE b # WideLead
      BY <3>1, <3>3, <3>5
    <3> QED BY <3>4, <3>5
  <2> QED BY <2>2, <2>3
<1> HIDE DEF A
<1>3. Decode(TRUE, u) \in A
  <2>1. u \in Seq(Nat)
    BY DEF Bytes
  <2> QED BY <1>1, <1>2, <2>1, Decoding!AfterKeeps DEF Decode
<1> QED BY <1>3 DEF A

(* The text so far begins the text of all; when it ends in half a          *)
(* character, there is more.                                               *)
LEMMA TextGrows ==
  ASSUME NEW c \in Bytes, NEW u \in Bytes
  PROVE  \E v \in Bytes : AllText(c \o u) = Decode(FALSE, c).text \o v /\ (Decode(FALSE, c).lead => v # <<>>)
<1> DEFINE d == Decode(FALSE, c)
           e == Decode(d.lead, u)
           end == EndOf(e.lead)
           z == Decode(FALSE, c \o u)
<1>1. d \in Decoded
  BY DecodeTyped
<1>2. d.text \in Bytes /\ d.lead \in BOOLEAN
  BY <1>1 DEF Decoded
<1>3. e \in Decoded
  <2> HIDE DEF d
  <2> QED BY <1>2, DecodeTyped
<1>4. e.text \in Bytes /\ end \in Bytes
  <2> HIDE DEF e
  <2> QED BY <1>3, EndTyped DEF Decoded
<1>5. z = [text |-> d.text \o e.text, lead |-> e.lead]
  BY DecodeJoined
<1>6. z.text = d.text \o e.text /\ z.lead = e.lead
  <2> DEFINE x == d.text \o e.text
  <2>1. z = [text |-> x, lead |-> e.lead]
    BY <1>5
  <2> HIDE DEF z, x, e
  <2>2. z.text = x /\ z.lead = e.lead
    BY <2>1, FieldsOf
  <2> QED BY <2>2 DEF x
<1>7. AllText(c \o u) = (d.text \o e.text) \o end
  <2>1. AllText(c \o u) = z.text \o EndOf(z.lead)
    BY DEF AllText, EndOf
  <2> HIDE DEF z, d, e
  <2> QED BY <1>6, <2>1
<1>8. d.lead => e.lead \/ e.text # <<>>
  <2> HIDE DEF d
  <2>1. CASE d.lead
    <3>1. d.lead = TRUE
      BY <1>2, <2>1
    <3> QED BY <3>1, HalfTold
  <2> QED BY <2>1
<1>9. e.lead => end # <<>>
  <2> HIDE DEF e
  <2> QED BY DEF EndOf
<1> HIDE DEF d, e, end
<1>10. (d.text \o e.text) \o end = d.text \o (e.text \o end)
  <2>1. Rejoined(d.text, e.text, end)
    BY <1>2, <1>4, Rejoins, Zenon
  <2> QED BY ONLY <2>1 DEF Rejoined
<1>11. e.text \o end \in Bytes
  BY ONLY <1>4, JoinedTyped
<1>12. d.lead => e.text \o end # <<>>
  <2> DEFINE a == e.text
  <2>1. a \in Seq(Nat) /\ end \in Seq(Nat)
    BY <1>4 DEF Bytes
  <2>2. d.lead => a # <<>> \/ end # <<>>
    BY <1>8, <1>9
  <2> HIDE DEF a
  <2>3. a \o end = <<>> => a = <<>> /\ end = <<>>
    BY ONLY <2>1, ConcatEqualIffEmpty, SMTT(30)
  <2> QED BY <2>2, <2>3 DEF a
<1> QED BY <1>7, <1>10, <1>11, <1>12 DEF d

(* What a stream's reader is meant to see.                                 *)
LEMMA WrittenToIs == ASSUME NEW w, NEW s PROVE WrittenTo(w, s) = AllText(WrittenBytes(w)[s])
BY DEF WrittenTo, AllText

(* The demuxer has read k of the n frames that were sent, and told their   *)
(* text; it has the others in its buffer and in b, which is to be read.    *)
ReadTo(w, n, d, told, b) ==
  \E k \in 0 .. n :
    /\ Remains(w, n, k, d.buffer, b)
    /\ \A s \in Stream : Decode(FALSE, WrittenBytes(First(w, k))[s]) = [text |-> told[s], lead |-> d.lead[s]]

(* Before anything was sent, nothing was read.                             *)
LEMMA ReadBegins ==
  ASSUME NEW w \in Seq(WriteOf)
  PROVE  /\ ReadTo(w, 0, NewDemuxer, [s \in Stream |-> <<>>], <<>>)
         /\ NewDemuxer \in Demux /\ ~Complete(NewDemuxer.buffer)
<1> DEFINE told == [s \in Stream |-> <<>>]
           d == NewDemuxer
           l == [s \in Stream |-> FALSE]
<1>1. l \in [Stream -> BOOLEAN] /\ d = [buffer |-> <<>>, lead |-> l, frames |-> <<>>]
  BY DEF NewDemuxer
<1>2. First(w, 0) = <<>>
  BY SubSeqEmpty DEF First
<1>3. WrittenBytes(<<>>) = told
  BY Writing!AfterNone DEF WrittenBytes
<1>4. Decode(FALSE, <<>>) = [text |-> <<>>, lead |-> FALSE]
  BY Decoding!AfterNone DEF Decode
<1>5. AllFrames(<<>>) = <<>>
  BY Framing!AfterNone DEF AllFrames
<1>6. d \in Demux
  <2>1. <<>> \in Bytes /\ <<>> \in Seq(Item)
    BY DEF Bytes
  <2> HIDE DEF d, l
  <2> QED BY <1>1, <2>1 DEF Demux
<1>7. d.buffer = <<>> /\ \A s \in Stream : d.lead[s] = FALSE
  BY DEF NewDemuxer
<1> HIDE DEF d
<1>8. Remains(w, 0, 0, d.buffer, <<>>)
  <2>1. <<>> \o (<<>> \o <<>>) = <<>>
    OBVIOUS
  <2> QED BY <1>2, <1>5, <1>7, <2>1 DEF Remains
<1>9. \A s \in Stream : Decode(FALSE, WrittenBytes(First(w, 0))[s]) = [text |-> told[s], lead |-> d.lead[s]]
  BY <1>2, <1>3, <1>4, <1>7
<1>10. 0 \in 0 .. 0
  OBVIOUS
<1>11. ~Complete(d.buffer)
  BY <1>7 DEF Complete, HeaderBytes
<1> HIDE DEF told
<1> QED BY <1>6, <1>8, <1>9, <1>10, <1>11 DEF ReadTo, d, told

(* One frame more is sent: nothing that was read changes.                  *)
LEMMA ReadMoreSent ==
  ASSUME NEW w \in Seq(WriteOf), NEW n \in 0 .. Len(w) - 1, NEW d \in Demux, NEW told, NEW b \in Bytes,
         ReadTo(w, n, d, told, b)
  PROVE  ReadTo(w, n + 1, d, told, b \o EncodeFrame(w[n + 1])) /\ b \o EncodeFrame(w[n + 1]) \in Bytes
<1>1. PICK k \in 0 .. n :
        /\ Remains(w, n, k, d.buffer, b)
        /\ \A s \in Stream : Decode(FALSE, WrittenBytes(First(w, k))[s]) = [text |-> told[s], lead |-> d.lead[s]]
  BY DEF ReadTo
<1> DEFINE x == EncodeFrame(w[n + 1])
           f == AllFrames(First(w, k))
           u == d.buffer
<1>2. AllFrames(First(w, n + 1)) = AllFrames(First(w, n)) \o x
  BY FramesMore, Zenon
<1>3. f \in Bytes /\ x \in Bytes /\ u \in Bytes /\ b \in Bytes
  <2>1. k \in 0 .. Len(w)
    OBVIOUS
  <2>2. First(w, k) \in Seq(WriteOf)
    BY <2>1, FirstSplit
  <2>3. w[n + 1] \in WriteOf
    BY FirstMore, Zenon
  <2> QED BY <2>2, <2>3, FramesTyped, EncodeTyped DEF Demux
<1>4. AllFrames(First(w, n)) = f \o (u \o b)
  BY <1>1 DEF Remains
<1> HIDE DEF x, f, u
<1>5. u \o b \in Bytes /\ b \o x \in Bytes
  BY ONLY <1>3, JoinedTyped
<1>6. (f \o (u \o b)) \o x = f \o ((u \o b) \o x)
  <2> DEFINE v == u \o b
  <2> HIDE DEF v
  <2>1. v \in Bytes
    BY <1>5 DEF v
  <2>2. (f \o v) \o x = f \o (v \o x)
    <3>1. Rejoined(f, v, x)
      BY <1>3, <2>1, Rejoins, Zenon
    <3> QED BY ONLY <3>1 DEF Rejoined
  <2> QED BY <2>2 DEF v
<1>7. (u \o b) \o x = u \o (b \o x)
  <2>1. Rejoined(u, b, x)
    BY ONLY <1>3, Rejoins, Zenon
  <2> QED BY ONLY <2>1 DEF Rejoined
<1>8. AllFrames(First(w, n + 1)) = f \o (u \o (b \o x))
  BY <1>2, <1>4, <1>6, <1>7
<1>9. Remains(w, n + 1, k, d.buffer, b \o x)
  BY <1>8 DEF Remains, f, u
<1>10. k \in 0 .. n + 1
  OBVIOUS
<1>11. ReadTo(w, n + 1, d, told, b \o x)
  <2> DEFINE y == b \o x
  <2>1. Remains(w, n + 1, k, d.buffer, y)
    BY <1>9
  <2> HIDE DEF y
  <2>2. ReadTo(w, n + 1, d, told, y)
    BY <1>1, <1>10, <2>1 DEF ReadTo
  <2> QED BY <2>2 DEF y
<1> QED BY <1>5, <1>11 DEF x

(* A chunk is read, wherever it ends.                                      *)
LEMMA ReadTakes ==
  ASSUME NEW w \in Seq(WriteOf), NEW n \in 0 .. Len(w), NEW d \in Demux, NEW told \in [Stream -> Bytes],
         NEW chunk \in Bytes, NEW rest \in Bytes, ReadTo(w, n, d, told, chunk \o rest)
  PROVE  LET e == Push(d, chunk)
         IN  e \in Demux /\ ~Complete(e.buffer) /\ ReadTo(w, n, e, ToldMore(told, Texts(e.frames)), rest)
<1> DEFINE e == Push(d, chunk)
<1>1. PICK k \in 0 .. n :
        /\ Remains(w, n, k, d.buffer, chunk \o rest)
        /\ \A s \in Stream : Decode(FALSE, WrittenBytes(First(w, k))[s]) = [text |-> told[s], lead |-> d.lead[s]]
  BY DEF ReadTo
<1>2. e \in Demux /\ ~Complete(e.buffer) /\ \E j \in 0 .. n : TakenTo(w, n, j, rest, told, e)
  BY <1>1, PushTakes
<1>3. PICK j \in 0 .. n : TakenTo(w, n, j, rest, told, e)
  BY <1>2
<1> HIDE DEF e
<1> DEFINE m == ToldMore(told, Texts(e.frames))
<1>4. Remains(w, n, j, e.buffer, rest)
  BY <1>3 DEF TakenTo
<1>5. \A s \in Stream : Decode(FALSE, WrittenBytes(First(w, j))[s]) = [text |-> m[s], lead |-> e.lead[s]]
  BY <1>3 DEF TakenTo, ToldMore
<1> HIDE DEF m
<1>6. ReadTo(w, n, e, m, rest)
  BY <1>4, <1>5 DEF ReadTo
<1> QED BY <1>2, <1>6 DEF e, m

(* What was told begins what is written.                                   *)
LEMMA ReadPrefix ==
  ASSUME NEW w \in Seq(WriteOf), NEW n \in 0 .. Len(w), NEW d, NEW told \in [Stream -> Bytes], NEW b,
         ReadTo(w, n, d, told, b), NEW s \in Stream
  PROVE  \E v \in Bytes : WrittenTo(w, s) = told[s] \o v /\ (d.lead[s] => v # <<>>)
<1>1. PICK k \in 0 .. n : Decode(FALSE, WrittenBytes(First(w, k))[s]) = [text |-> told[s], lead |-> d.lead[s]]
  BY DEF ReadTo
<1>2. k \in 0 .. Len(w)
  OBVIOUS
<1> DEFINE c == WrittenBytes(First(w, k))[s]
           z == Decode(FALSE, c)
<1>3. c \in Bytes
  <2>1. First(w, k) \in Seq(WriteOf)
    BY <1>2, FirstSplit
  <2> QED BY <2>1, WrittenTyped
<1>4. PICK u \in Bytes : WrittenBytes(w)[s] = c \o u
  BY <1>2, WrittenGrows
<1> HIDE DEF c
<1>5. PICK v \in Bytes : AllText(c \o u) = z.text \o v /\ (z.lead => v # <<>>)
  BY <1>3, TextGrows
<1>6. z.text = told[s] /\ z.lead = d.lead[s]
  <2> DEFINE t == told[s]
             l == d.lead[s]
  <2>1. z = [text |-> t, lead |-> l]
    BY <1>1 DEF c
  <2> HIDE DEF z, t, l
  <2>2. z.text = t /\ z.lead = l
    BY <2>1, FieldsOf
  <2> QED BY <2>2 DEF t, l
<1> HIDE DEF z
<1> QED BY <1>4, <1>5, <1>6, WrittenToIs

(* When all was sent and read, half a character at most is to be told.     *)
LEMMA ReadAll ==
  ASSUME NEW w \in Seq(WriteOf), NEW d \in Demux, ~Complete(d.buffer), NEW told \in [Stream -> Bytes],
         ReadTo(w, Len(w), d, told, <<>>), NEW s \in Stream
  PROVE  WrittenTo(w, s) = told[s] \o EndOf(d.lead[s])
<1> DEFINE n == Len(w)
<1>1. PICK k \in 0 .. n :
        /\ Remains(w, n, k, d.buffer, <<>>)
        /\ \A x \in Stream : Decode(FALSE, WrittenBytes(First(w, k))[x]) = [text |-> told[x], lead |-> d.lead[x]]
  BY DEF ReadTo
<1>2. n \in Nat /\ n \in 0 .. Len(w)
  OBVIOUS
<1>3. k = n
  <2>1. d.buffer \in Bytes /\ <<>> \in Bytes
    BY DEF Demux, Bytes
  <2>2. FrameTold(w, n, k, d.buffer, <<>>)
    BY <1>1, <1>2, <2>1, RoundFrame, Zenon
  <2>3. ~(k < n)
    BY <2>2, Zenon DEF FrameTold
  <2> QED BY <1>2, <2>3
<1>4. First(w, k) = w
  BY <1>3, SubSeqFull DEF First
<1>5. Decode(FALSE, WrittenBytes(w)[s]) = [text |-> told[s], lead |-> d.lead[s]]
  BY <1>1, <1>4
<1>6. AllText(WrittenBytes(w)[s]) = told[s] \o EndOf(d.lead[s])
  BY <1>5, AllTextIs
<1> QED BY <1>6, WrittenToIs

(* A reader of frames has them told, and assembled into lines.             *)
FramesRead(w, n, d, a, b) ==
  \E told \in [Stream -> Bytes] : ReadTo(w, n, d, told, b) /\ Assembled(a, told)

(* What a reader of a terminal's bytes has: all but b of the n writes.     *)
RawRead(w, n, lead, a, b) ==
  \E c \in Bytes, told \in [Stream -> Bytes] :
    /\ WrittenBytes(First(w, n))["stdout"] = c \o b /\ Assembled(a, told)
    /\ Decode(FALSE, c) = [text |-> told["stdout"], lead |-> lead]

(* The lines of the text so far begin those of all that is written.        *)
LEMMA ToldIsPrefix ==
  ASSUME NEW c \in Bytes, NEW u \in Bytes, NEW t \in Bytes, NEW l, Decode(FALSE, c) = [text |-> t, lead |-> l]
  PROVE  IsPrefix(Chomped(Parts(<<>>, t).parts), LinesOf(AllText(c \o u)))
<1>1. Decode(FALSE, c).text = t
  <2> DEFINE z == Decode(FALSE, c)
  <2>1. z = [text |-> t, lead |-> l]
    OBVIOUS
  <2> HIDE DEF z
  <2>2. z.text = t
    BY <2>1
  <2> QED BY <2>2 DEF z
<1>2. PICK v \in Bytes : AllText(c \o u) = t \o v
  <2>1. \E v \in Bytes : AllText(c \o u) = Decode(FALSE, c).text \o v
    BY TextGrows
  <2> QED BY <1>1, <2>1
<1>3. IsPrefix(Chomped(Parts(<<>>, t).parts), LinesOf(t \o v))
  BY LinesGrow
<1> QED BY <1>2, <1>3

(* A reader of frames has lines that the whole text begins with.           *)
LEMMA FramesPrefix ==
  ASSUME NEW w \in Seq(WriteOf), NEW n \in 0 .. Len(w), NEW d, NEW a, NEW b, FramesRead(w, n, d, a, b), NEW s \in Stream
  PROVE  IsPrefix(ByStream(a.lines)[s], LinesOf(WrittenTo(w, s)))
<1>1. PICK told \in [Stream -> Bytes] : ReadTo(w, n, d, told, b) /\ Assembled(a, told)
  BY DEF FramesRead
<1> DEFINE t == told[s]
<1>2. t \in Bytes
  OBVIOUS
<1>3. PICK v \in Bytes : WrittenTo(w, s) = t \o v
  BY <1>1, ReadPrefix
<1>4. ByStream(a.lines)[s] = Chomped(Parts(<<>>, t).parts)
  BY <1>1 DEF Assembled
<1> HIDE DEF t
<1>5. IsPrefix(Chomped(Parts(<<>>, t).parts), LinesOf(t \o v))
  BY <1>2, LinesGrow
<1> QED BY <1>3, <1>4, <1>5

(* So has the reader of a terminal.                                        *)
LEMMA RawPrefix ==
  ASSUME NEW w \in Seq(WriteOf), NEW n \in 0 .. Len(w), NEW lead, NEW a, NEW b \in Bytes, RawRead(w, n, lead, a, b)
  PROVE  IsPrefix(ByStream(a.lines)["stdout"], LinesOf(WrittenTo(w, "stdout")))
<1> DEFINE s == "stdout"
<1>1. PICK c \in Bytes, told \in [Stream -> Bytes] :
        /\ WrittenBytes(First(w, n))[s] = c \o b /\ Assembled(a, told)
        /\ Decode(FALSE, c) = [text |-> told[s], lead |-> lead]
  BY DEF RawRead
<1>2. s \in Stream
  BY DEF Stream
<1> HIDE DEF s
<1>3. PICK u \in Bytes : WrittenBytes(w)[s] = WrittenBytes(First(w, n))[s] \o u
  BY <1>2, WrittenGrows
<1>4. (c \o b) \o u = c \o (b \o u)
  <2>1. Rejoined(c, b, u)
    BY ONLY c \in Bytes, b \in Bytes, u \in Bytes, Rejoins, Zenon
  <2> QED BY ONLY <2>1 DEF Rejoined
<1>5. b \o u \in Bytes
  BY ONLY b \in Bytes, u \in Bytes, JoinedTyped
<1>6. IsPrefix(Chomped(Parts(<<>>, told[s]).parts), LinesOf(AllText(c \o (b \o u))))
  <2> DEFINE t == told[s]
             v == b \o u
  <2>1. t \in Bytes /\ v \in Bytes /\ Decode(FALSE, c) = [text |-> t, lead |-> lead]
    BY <1>1, <1>2, <1>5
  <2> HIDE DEF t, v
  <2>2. IsPrefix(Chomped(Parts(<<>>, t).parts), LinesOf(AllText(c \o v)))
    BY <2>1, ToldIsPrefix
  <2> QED BY <2>2 DEF t, v
<1>7. ByStream(a.lines)[s] = Chomped(Parts(<<>>, told[s]).parts)
  BY <1>1, <1>2 DEF Assembled
<1> QED BY <1>1, <1>3, <1>4, <1>6, <1>7, WrittenToIs DEF s

(* Docker sends one frame more: nothing that was read changes.             *)
LEMMA FramesMoreSent ==
  ASSUME NEW w \in Seq(WriteOf), NEW n \in 0 .. Len(w) - 1, NEW d \in Demux, NEW a, NEW b \in Bytes,
         FramesRead(w, n, d, a, b)
  PROVE  FramesRead(w, n + 1, d, a, b \o EncodeFrame(w[n + 1])) /\ b \o EncodeFrame(w[n + 1]) \in Bytes
<1>1. PICK told \in [Stream -> Bytes] : ReadTo(w, n, d, told, b) /\ Assembled(a, told)
  BY DEF FramesRead
<1> DEFINE c == b \o EncodeFrame(w[n + 1])
<1>2. ReadTo(w, n + 1, d, told, c) /\ c \in Bytes
  BY <1>1, ReadMoreSent
<1> HIDE DEF c
<1>3. FramesRead(w, n + 1, d, a, c)
  BY <1>1, <1>2 DEF FramesRead
<1> QED BY <1>2, <1>3 DEF c

(* A terminal writes more: nothing that was read changes.                  *)
LEMMA RawMoreSent ==
  ASSUME NEW w \in Seq(WriteOf), NEW n \in 0 .. Len(w) - 1, NEW lead, NEW a, NEW b \in Bytes,
         RawRead(w, n, lead, a, b), w[n + 1].stream = "stdout"
  PROVE  RawRead(w, n + 1, lead, a, b \o w[n + 1].bytes) /\ b \o w[n + 1].bytes \in Bytes
<1> DEFINE s == "stdout"
           x == w[n + 1].bytes
           f == WrittenBytes(First(w, n))
<1>1. PICK c \in Bytes, told \in [Stream -> Bytes] :
        /\ f[s] = c \o b /\ Assembled(a, told)
        /\ Decode(FALSE, c) = [text |-> told[s], lead |-> lead]
  BY DEF RawRead
<1>2. s \in Stream /\ x \in Bytes /\ f \in [Stream -> Bytes]
  <2>1. n \in 0 .. Len(w)
    OBVIOUS
  <2>2. w[n + 1] \in WriteOf
    BY FirstMore, Zenon
  <2>3. First(w, n) \in Seq(WriteOf)
    BY <2>1, FirstSplit
  <2> QED BY <2>2, <2>3, WrittenTyped DEF Stream, WriteOf
<1>3. WrittenBytes(First(w, n + 1)) = [f EXCEPT ![s] = @ \o x]
  BY WrittenMore, Zenon DEF Written
<1> HIDE DEF f, x, s
<1>4. WrittenBytes(First(w, n + 1))[s] = f[s] \o x
  BY <1>2, <1>3
<1>5. (c \o b) \o x = c \o (b \o x)
  <2>1. Rejoined(c, b, x)
    BY ONLY c \in Bytes, b \in Bytes, <1>2, Rejoins, Zenon
  <2> QED BY ONLY <2>1 DEF Rejoined
<1>6. b \o x \in Bytes
  BY ONLY b \in Bytes, <1>2, JoinedTyped
<1>7. RawRead(w, n + 1, lead, a, b \o x)
  <2> DEFINE y == b \o x
  <2>1. WrittenBytes(First(w, n + 1))[s] = c \o y
    BY <1>1, <1>4, <1>5
  <2> HIDE DEF y
  <2>2. RawRead(w, n + 1, lead, a, y)
    BY <1>1, <2>1 DEF RawRead, s
  <2> QED BY <2>2 DEF y
<1> QED BY <1>6, <1>7 DEF x

(* A reader of frames takes a chunk, wherever it ends.                     *)
LEMMA FramesTake ==
  ASSUME NEW w \in Seq(WriteOf), NEW n \in 0 .. Len(w), NEW d \in Demux, NEW a \in Assembler,
         NEW chunk \in Bytes, NEW rest \in Bytes, FramesRead(w, n, d, a, chunk \o rest)
  PROVE  /\ Push(d, chunk) \in Demux /\ ~Complete(Push(d, chunk).buffer)
         /\ Assemble(a, Push(d, chunk).frames) \in Assembler
         /\ FramesRead(w, n, Push(d, chunk), Assemble(a, Push(d, chunk).frames), rest)
<1> DEFINE e == Push(d, chunk)
           c == Assemble(a, e.frames)
<1>1. PICK told \in [Stream -> Bytes] : ReadTo(w, n, d, told, chunk \o rest) /\ Assembled(a, told)
  BY DEF FramesRead
<1> DEFINE m == ToldMore(told, Texts(e.frames))
<1>2. e \in Demux /\ ~Complete(e.buffer) /\ ReadTo(w, n, e, m, rest)
  BY <1>1, ReadTakes
<1> HIDE DEF e
<1>3. e.frames \in Seq(Item)
  BY <1>2 DEF Demux
<1>4. c \in Assembler /\ m \in [Stream -> Bytes] /\ Assembled(c, m)
  BY <1>1, <1>3, Assembles
<1> HIDE DEF m, c
<1>5. FramesRead(w, n, e, c, rest)
  BY <1>2, <1>4 DEF FramesRead
<1> QED BY <1>2, <1>4, <1>5 DEF e, c

(* What one frame tells.                                                   *)
LEMMA TextsOfFrame ==
  ASSUME NEW s \in Stream, NEW t \in Bytes
  PROVE  Frame(s, t) \in Seq(Item) /\ \A q \in Stream : Texts(Frame(s, t))[q] = IF q = s THEN t ELSE <<>>
<1>1. <<>> \in Seq(Item) /\ Texts(<<>>) = [q \in Stream |-> <<>>]
  BY Hearing!AfterNone DEF Texts
<1>2. CASE t = <<>>
  BY <1>1, <1>2 DEF Frame
<1>3. CASE t # <<>>
  <2> DEFINE x == [stream |-> s, text |-> t]
  <2>1. x \in Item /\ x.stream = s /\ x.text = t /\ Frame(s, t) = <<x>>
    BY <1>3 DEF Item, Frame
  <2> HIDE DEF x
  <2>2. <<x>> = Append(<<>>, x) /\ <<x>> \in Seq(Item)
    BY <2>1
  <2>3. Texts(Append(<<>>, x)) = Heard(Texts(<<>>), x)
    <3> DEFINE o == <<>>
               e == [q \in Stream |-> <<>>]
    <3>1. o \in Seq(Item) /\ x \in Item
      BY <1>1, <2>1
    <3> HIDE DEF o
    <3>2. Hearing!After(e, Append(o, x)) = Heard(Hearing!After(e, o), x)
      BY ONLY <3>1, Hearing!AfterMore
    <3> QED BY <3>2, Zenon DEF Texts, o
  <2>4. <<>> \o t = t
    BY DEF Bytes
  <2>5. Texts(<<x>>) = [Texts(<<>>) EXCEPT ![s] = @ \o t]
    BY <2>1, <2>2, <2>3 DEF Heard
  <2> QED BY <1>1, <2>1, <2>2, <2>4, <2>5
<1> QED BY <1>2, <1>3

(* A reader of a terminal takes a chunk, wherever it ends.                 *)
LEMMA RawTakes ==
  ASSUME NEW w \in Seq(WriteOf), NEW n \in 0 .. Len(w), NEW lead \in BOOLEAN, NEW a \in Assembler,
         NEW chunk \in Bytes, NEW rest \in Bytes, RawRead(w, n, lead, a, chunk \o rest)
  PROVE  LET raw == Decode(lead, chunk)
             g == Assemble(a, Frame("stdout", raw.text))
         IN  raw.lead \in BOOLEAN /\ g \in Assembler /\ RawRead(w, n, raw.lead, g, rest)
<1> DEFINE s == "stdout"
           raw == Decode(lead, chunk)
           v == raw.text
           frames == Frame(s, v)
           g == Assemble(a, frames)
<1>1. PICK c \in Bytes, told \in [Stream -> Bytes] :
        /\ WrittenBytes(First(w, n))[s] = c \o (chunk \o rest) /\ Assembled(a, told)
        /\ Decode(FALSE, c) = [text |-> told[s], lead |-> lead]
  BY DEF RawRead
<1>2. raw \in Decoded /\ raw.text \in Bytes /\ raw.lead \in BOOLEAN /\ s \in Stream
  <2>1. raw \in Decoded
    BY DecodeTyped
  <2> QED BY <2>1 DEF Decoded, Stream
<1>3. frames \in Seq(Item) /\ Texts(frames)[s] = v
  <2> HIDE DEF raw, s
  <2> QED BY <1>2, TextsOfFrame
<1> DEFINE m == ToldMore(told, Texts(frames))
<1>4. g \in Assembler /\ m \in [Stream -> Bytes] /\ Assembled(g, m)
  <2> HIDE DEF frames
  <2> QED BY <1>1, <1>3, Assembles
<1>5. m[s] = told[s] \o v
  <2> HIDE DEF frames, s
  <2> QED BY <1>2, <1>3 DEF ToldMore
<1>6. Decode(FALSE, c \o chunk) = [text |-> m[s], lead |-> raw.lead]
  <2> DEFINE z == Decode(FALSE, c)
  <2>1. z.text = told[s] /\ z.lead = lead
    <3> DEFINE t == told[s]
    <3>1. z = [text |-> t, lead |-> lead]
      BY <1>1
    <3> HIDE DEF z, t
    <3>2. z.text = t /\ z.lead = lead
      BY <3>1
    <3> QED BY <3>2 DEF t
  <2>2. Decode(FALSE, c \o chunk) = [text |-> z.text \o Decode(z.lead, chunk).text, lead |-> Decode(z.lead, chunk).lead]
    BY DecodeJoined
  <2> HIDE DEF z
  <2> QED BY <1>5, <2>1, <2>2
<1>7. c \o chunk \in Bytes /\ c \o (chunk \o rest) = (c \o chunk) \o rest
  <2>1. c \o chunk \in Bytes
    BY ONLY c \in Bytes, chunk \in Bytes, JoinedTyped
  <2>2. (c \o chunk) \o rest = c \o (chunk \o rest)
    <3>1. Rejoined(c, chunk, rest)
      BY ONLY c \in Bytes, chunk \in Bytes, rest \in Bytes, Rejoins, Zenon
    <3> QED BY ONLY <3>1 DEF Rejoined
  <2> QED BY <2>1, <2>2
<1>8. RawRead(w, n, raw.lead, g, rest)
  <2> DEFINE e == c \o chunk
  <2>1. e \in Bytes /\ WrittenBytes(First(w, n))[s] = e \o rest /\ Decode(FALSE, e) = [text |-> m[s], lead |-> raw.lead]
    BY <1>1, <1>6, <1>7
  <2> HIDE DEF e, m, g, raw
  <2> QED BY <1>4, <2>1 DEF RawRead, s
<1> QED BY <1>2, <1>4, <1>8 DEF g, raw, s

(* What the decoders hold at the end belongs to their streams.             *)
LEMMA FlushedTexts ==
  ASSUME NEW d \in Demux
  PROVE  FlushedFrames(d) \in Seq(Item) /\ \A s \in Stream : Texts(FlushedFrames(d))[s] = EndOf(d.lead[s])
<1> DEFINE t == EndOf(d.lead["stdout"])
           u == EndOf(d.lead["stderr"])
           f == Frame("stdout", t)
           g == FlushedFrames(d)
<1>1. "stdout" \in Stream /\ "stderr" \in Stream /\ \A s \in Stream : s = "stdout" \/ s = "stderr"
  BY DEF Stream
<1>2. t \in Bytes /\ u \in Bytes
  BY EndTyped
<1>3. g = f \o Frame("stderr", u)
  BY DEF FlushedFrames, Remainder, EndOf
<1> HIDE DEF t, u, g
<1>4. f \in Seq(Item) /\ \A q \in Stream : Texts(f)[q] = IF q = "stdout" THEN t ELSE <<>>
  BY <1>1, <1>2, TextsOfFrame
<1> HIDE DEF f
<1>5. Texts(f) \in [Stream -> Bytes]
  BY <1>4, TextsTyped
<1>6. f \o Frame("stderr", u) \in Seq(Item) /\ Texts(f \o Frame("stderr", u)) = [Texts(f) EXCEPT !["stderr"] = @ \o u]
  <2>1. FrameMore(f, "stderr", u)
    BY ONLY <1>1, <1>2, <1>4, FrameIsMore, Zenon
  <2> QED BY ONLY <2>1 DEF FrameMore
<1>7. <<>> \o u = u
  BY <1>2 DEF Bytes
<1>8. Texts(g)["stdout"] = t /\ Texts(g)["stderr"] = u
  BY <1>1, <1>3, <1>4, <1>5, <1>6, <1>7
<1> QED BY <1>1, <1>3, <1>6, <1>8 DEF t, u, g

FinalLines(a) == a.lines \o LastLines(a)

(* When all frames are read, the lines are those of the whole text.        *)
LEMMA FramesEnd ==
  ASSUME NEW w \in Seq(WriteOf), NEW d \in Demux, NEW a \in Assembler, ~Complete(d.buffer),
         FramesRead(w, Len(w), d, a, <<>>)
  PROVE  LET g == Assemble(a, FlushedFrames(d))
         IN  /\ FinalLines(g) \in Seq(Item)
             /\ \A s \in Stream : ByStream(FinalLines(g))[s] = LinesOf(WrittenTo(w, s))
<1> DEFINE g == Assemble(a, FlushedFrames(d))
           n == Len(w)
<1>1. PICK told \in [Stream -> Bytes] : ReadTo(w, n, d, told, <<>>) /\ Assembled(a, told)
  BY DEF FramesRead
<1>2. FlushedFrames(d) \in Seq(Item) /\ \A s \in Stream : Texts(FlushedFrames(d))[s] = EndOf(d.lead[s])
  BY FlushedTexts
<1> DEFINE m == ToldMore(told, Texts(FlushedFrames(d)))
<1>3. g \in Assembler /\ m \in [Stream -> Bytes] /\ Assembled(g, m)
  BY <1>1, <1>2, Assembles
<1>4. ASSUME NEW s \in Stream PROVE m[s] = WrittenTo(w, s)
  <2>1. m[s] = told[s] \o EndOf(d.lead[s])
    BY <1>2 DEF ToldMore
  <2>2. WrittenTo(w, s) = told[s] \o EndOf(d.lead[s])
    BY <1>1, ReadAll
  <2> QED BY <2>1, <2>2
<1> HIDE DEF g, m
<1>5. ASSUME NEW s \in Stream PROVE FinalLines(g) \in Seq(Item) /\ ByStream(FinalLines(g))[s] = LinesOf(m[s])
  BY <1>3, LinesEnd DEF FinalLines
<1>6. FinalLines(g) \in Seq(Item)
  <2>1. "stdout" \in Stream
    BY DEF Stream
  <2> QED BY <1>5, <2>1
<1> QED BY <1>4, <1>5, <1>6 DEF g

(* When a terminal's bytes are all read, so they are.                      *)
LEMMA RawEnd ==
  ASSUME NEW w \in Seq(WriteOf), NEW lead \in BOOLEAN, NEW a \in Assembler, RawRead(w, Len(w), lead, a, <<>>)
  PROVE  LET g == Assemble(a, Remainder(lead, "stdout"))
         IN  /\ FinalLines(g) \in Seq(Item)
             /\ ByStream(FinalLines(g))["stdout"] = LinesOf(WrittenTo(w, "stdout"))
<1> DEFINE s == "stdout"
           f == Remainder(lead, s)
           g == Assemble(a, f)
<1>1. PICK c \in Bytes, told \in [Stream -> Bytes] :
        /\ WrittenBytes(First(w, Len(w)))[s] = c \o <<>> /\ Assembled(a, told)
        /\ Decode(FALSE, c) = [text |-> told[s], lead |-> lead]
  BY DEF RawRead
<1>2. s \in Stream
  BY DEF Stream
<1>3. f \in Seq(Item) /\ Texts(f)[s] = EndOf(lead)
  <2>1. f = Frame(s, EndOf(lead))
    BY DEF Remainder, EndOf
  <2> HIDE DEF s, f
  <2> QED BY <1>2, <2>1, EndTyped, TextsOfFrame
<1>4. WrittenBytes(w)[s] = c
  <2>1. First(w, Len(w)) = w
    BY SubSeqFull DEF First
  <2>2. c \o <<>> = c
    BY DEF Bytes
  <2> QED BY <1>1, <2>1, <2>2
<1> DEFINE m == ToldMore(told, Texts(f))
<1>5. g \in Assembler /\ m \in [Stream -> Bytes] /\ Assembled(g, m)
  <2> HIDE DEF f
  <2> QED BY <1>1, <1>3, Assembles
<1>6. m[s] = WrittenTo(w, s)
  <2>1. m[s] = told[s] \o EndOf(lead)
    <3> HIDE DEF f, s
    <3> QED BY <1>2, <1>3 DEF ToldMore
  <2>2. AllText(c) = told[s] \o EndOf(lead)
    BY <1>1, AllTextIs
  <2> HIDE DEF m, s
  <2> QED BY <1>4, <2>1, <2>2, WrittenToIs
<1> HIDE DEF g, m, s, f
<1>7. FinalLines(g) \in Seq(Item) /\ ByStream(FinalLines(g))[s] = LinesOf(m[s])
  BY <1>2, <1>5, LinesEnd DEF FinalLines
<1> QED BY <1>6, <1>7 DEF g, s, f

Reader ==
  [at : {"requested", "open", "ended", "aborted", "failed"}, mode : {"unknown", "raw", "frames"},
   demux : Demux, lead : BOOLEAN, assembler : Assembler]

(* Between two steps of a stream that is not over: nothing that was sent   *)
(* is lost between the body, the demuxer, the decoders and the assembler.  *)
InStep ==
  /\ ~log.tty /\ reader.mode # "raw" =>
       /\ FramesRead(log.writes, sent, reader.demux, reader.assembler, body)
       /\ ~Complete(reader.demux.buffer)
  /\ log.tty /\ reader.mode # "frames" => RawRead(log.writes, sent, reader.lead, reader.assembler, body)

StreamInv ==
  /\ log \in Logs /\ sent \in 0 .. Len(log.writes) /\ body \in Bytes
  /\ LinesWhole
  /\ ~Over => reader \in Reader /\ InStep

(* What a log is.                                                          *)
LEMMA LogTyped ==
  ASSUME log \in Logs
  PROVE  /\ log.writes \in Seq(WriteOf) /\ log.tty \in BOOLEAN /\ Len(log.writes) \in Nat
         /\ log.tty => \A i \in 1 .. Len(log.writes) : log.writes[i].stream = "stdout"
<1>1. log.writes \in Seq([stream : Stream, bytes : Seq(Nat)]) /\ log.tty \in BOOLEAN
      /\ (log.tty => \A i \in 1 .. Len(log.writes) : log.writes[i].stream = "stdout")
  BY LogsAssumption
<1>2. log.writes \in Seq(WriteOf)
  BY <1>1 DEF WriteOf, Bytes
<1> QED BY <1>1, <1>2

(* Lines are whole while nothing that was sent is lost.                    *)
LEMMA InStepWhole ==
  ASSUME log \in Logs, sent \in 0 .. Len(log.writes), body \in Bytes, reader \in Reader, ~Over, InStep
  PROVE  LinesWhole
<1> DEFINE w == log.writes
<1>1. w \in Seq(WriteOf) /\ log.tty \in BOOLEAN
  BY LogTyped
<1>2. reader.at # "ended"
  BY DEF Over
<1>3. ASSUME log.tty, FormatKnown
      PROVE  IsPrefix(ByStream(reader.assembler.lines)["stdout"], LinesOf(WrittenTo(w, "stdout")))
  <2>1. RawRead(w, sent, reader.lead, reader.assembler, body)
    BY <1>3 DEF InStep, FormatKnown
  <2> HIDE DEF w
  <2>2. sent \in 0 .. Len(w)
    BY DEF w
  <2> QED BY <1>1, <2>1, <2>2, RawPrefix
<1>4. ASSUME ~log.tty, FormatKnown, NEW s \in Stream
      PROVE  IsPrefix(ByStream(reader.assembler.lines)[s], LinesOf(WrittenTo(w, s)))
  <2>1. FramesRead(w, sent, reader.demux, reader.assembler, body)
    BY <1>4 DEF InStep, FormatKnown
  <2> HIDE DEF w
  <2>2. sent \in 0 .. Len(w)
    BY DEF w
  <2> QED BY <1>1, <2>1, <2>2, FramesPrefix
<1> QED BY <1>1, <1>2, <1>3, <1>4 DEF LinesWhole

(* At first nothing was sent.                                              *)
LEMMA NewStreamInStep ==
  ASSUME InitStream PROVE reader \in Reader /\ InStep
<1> DEFINE told == [s \in Stream |-> <<>>]
           w == log.writes
           a == NewAssembler
           d == NewDemuxer
<1>1. /\ reader = NewStream /\ sent = 0 /\ body = <<>> /\ log \in Logs
      /\ reader.demux = d /\ reader.assembler = a /\ reader.lead = FALSE
  BY DEF InitStream, NewStream
<1>2. <<>> \in Bytes /\ told \in [Stream -> Bytes] /\ <<>> \in Seq(Item) /\ told \in [Stream -> Seq(Bytes)]
  BY DEF Bytes
<1>3. w \in Seq(WriteOf) /\ Len(w) \in Nat
  BY <1>1, LogTyped
<1>4. ReadTo(w, 0, d, told, <<>>) /\ d \in Demux /\ ~Complete(d.buffer)
  BY <1>3, ReadBegins
<1>5. a \in Assembler
  <2>1. a = [partial |-> told, lines |-> <<>>]
    BY DEF NewAssembler
  <2> HIDE DEF a, told
  <2> QED BY <1>2, <2>1 DEF Assembler
<1>6. reader \in Reader
  <2> HIDE DEF a, d
  <2>1. reader = [at |-> "requested", mode |-> "unknown", demux |-> d, lead |-> FALSE, assembler |-> a]
    BY <1>1 DEF NewStream, a, d
  <2> QED BY <1>4, <1>5, <2>1 DEF Reader
<1>7. Assembled(a, told)
  <2>1. Parts(<<>>, <<>>) = [rest |-> <<>>, parts |-> <<>>]
    BY Splitting!AfterNone DEF Parts
  <2>2. ByStream(<<>>) = told /\ Chomped(<<>>) = <<>>
    BY Sorting!AfterNone, ChompedNone DEF ByStream
  <2>3. a.partial = told /\ a.lines = <<>>
    BY DEF NewAssembler
  <2>4. Parts(<<>>, <<>>).rest = <<>> /\ Parts(<<>>, <<>>).parts = <<>>
    BY <2>1
  <2> HIDE DEF a
  <2> QED BY <2>2, <2>3, <2>4 DEF Assembled
<1>8. First(w, 0) = <<>>
  BY <1>3, SubSeqEmpty DEF First
<1>9. WrittenBytes(<<>>) = told
  BY Writing!AfterNone DEF WrittenBytes
<1>10. Decode(FALSE, <<>>) = [text |-> <<>>, lead |-> FALSE]
  BY Decoding!AfterNone DEF Decode
<1> HIDE DEF a, d
<1>11. FramesRead(w, 0, d, a, <<>>)
  <2> HIDE DEF told, w
  <2> QED BY <1>2, <1>4, <1>7 DEF FramesRead
<1>12. RawRead(w, 0, FALSE, a, <<>>)
  <2>1. "stdout" \in Stream /\ told["stdout"] = <<>>
    BY DEF Stream
  <2>2. WrittenBytes(First(w, 0))["stdout"] = <<>> \o <<>>
    <3>1. <<>> \o <<>> = <<>>
      OBVIOUS
    <3> QED BY <1>8, <1>9, <2>1, <3>1
  <2> HIDE DEF told, w
  <2> QED BY <1>2, <1>7, <1>10, <2>1, <2>2 DEF RawRead
<1> QED BY <1>1, <1>4, <1>6, <1>11, <1>12 DEF InStep

(* A body is the chunk that is read and the rest.                          *)
LEMMA BytesCut ==
  ASSUME NEW b \in Bytes, NEW n \in 0 .. Len(b)
  PROVE  /\ SubSeq(b, 1, n) \in Bytes /\ SubSeq(b, n + 1, Len(b)) \in Bytes
         /\ b = SubSeq(b, 1, n) \o SubSeq(b, n + 1, Len(b))
<1>1. b \in Seq(Nat)
  BY DEF Bytes
<1>2. /\ First(b, n) \in Seq(Nat) /\ SubSeq(b, n + 1, Len(b)) \in Seq(Nat)
      /\ b = First(b, n) \o SubSeq(b, n + 1, Len(b))
  BY <1>1, FirstSplit
<1> QED BY <1>2 DEF First, Bytes

(* A step that leaves what was read alone.                                 *)
LEMMA WritesKeep ==
  ASSUME StreamInv, ContainerWrites PROVE StreamInv'
<1> DEFINE w == log.writes
           x == w[sent + 1]
<1>1. /\ w \in Seq(WriteOf) /\ log.tty \in BOOLEAN /\ Len(w) \in Nat /\ log \in Logs
      /\ log.tty => \A i \in 1 .. Len(w) : w[i].stream = "stdout"
  BY LogTyped DEF StreamInv
<1>2. sent \in 0 .. Len(w) - 1 /\ sent + 1 \in 1 .. Len(w) /\ sent' = sent + 1 /\ log' = log /\ reader' = reader
      /\ sent + 1 \in 0 .. Len(w)
      /\ body' = body \o IF log.tty THEN x.bytes ELSE EncodeFrame(x)
  BY <1>1 DEF StreamInv, ContainerWrites
<1>3. body \in Bytes /\ x \in WriteOf
  <2>1. x \in WriteOf
    BY <1>1, <1>2, FirstMore, Zenon
  <2> QED BY <2>1 DEF StreamInv
<1>4. body' \in Bytes
  <2>1. x.bytes \in Bytes /\ EncodeFrame(x) \in Bytes
    BY <1>3, EncodeTyped DEF WriteOf
  <2> DEFINE y == IF log.tty THEN x.bytes ELSE EncodeFrame(x)
  <2>2. y \in Bytes
    BY <2>1
  <2> HIDE DEF y
  <2>3. body \o y \in Bytes
    BY ONLY <1>3, <2>2, JoinedTyped
  <2> QED BY <1>2, <2>3 DEF y
<1>5. LinesWhole' /\ (Over' <=> Over)
  BY <1>2 DEF StreamInv, LinesWhole, FormatKnown, Over
<1>6. ASSUME ~Over PROVE (reader \in Reader)' /\ InStep'
  <2>1. reader \in Reader /\ InStep
    BY <1>6 DEF StreamInv
  <2> DEFINE d == reader.demux
             a == reader.assembler
             lead == reader.lead
  <2>2. d \in Demux
    BY <2>1 DEF Reader
  <2>3. ASSUME ~log.tty, reader.mode # "raw"
        PROVE  FramesRead(w, sent + 1, d, a, body') /\ ~Complete(d.buffer)
    <3>1. FramesRead(w, sent, d, a, body) /\ ~Complete(d.buffer)
      BY <2>1, <2>3 DEF InStep
    <3> HIDE DEF d, a, w
    <3>2. FramesRead(w, sent + 1, d, a, body \o EncodeFrame(w[sent + 1]))
      BY ONLY <1>1, <1>2, <1>3, <2>2, <3>1, FramesMoreSent
    <3>3. body' = body \o EncodeFrame(w[sent + 1])
      BY <1>2, <2>3
    <3> QED BY <3>1, <3>2, <3>3
  <2>4. ASSUME log.tty, reader.mode # "frames" PROVE RawRead(w, sent + 1, lead, a, body')
    <3>1. RawRead(w, sent, lead, a, body) /\ w[sent + 1].stream = "stdout"
      BY <1>1, <1>2, <2>1, <2>4 DEF InStep
    <3> HIDE DEF lead, a, w
    <3>2. RawRead(w, sent + 1, lead, a, body \o w[sent + 1].bytes)
      BY ONLY <1>1, <1>2, <1>3, <3>1, RawMoreSent
    <3>3. body' = body \o w[sent + 1].bytes
      BY <1>2, <2>4
    <3> QED BY <3>2, <3>3
  <2> QED BY <1>2, <2>1, <2>3, <2>4 DEF InStep
<1> QED BY <1>1, <1>2, <1>4, <1>5, <1>6 DEF StreamInv

(* An answer, an abort and a failure change no line.                       *)
LEMMA EndsEarly ==
  ASSUME StreamInv, StreamAnswered \/ AbortLogs \/ BodyFails PROVE StreamInv'
<1>1. /\ ~Over /\ log' = log /\ sent' = sent /\ body' = body
      /\ \E at \in {"open", "failed", "aborted"} : reader' = [reader EXCEPT !.at = at]
  BY DEF StreamAnswered, AbortLogs, BodyFails, Over
<1>2. reader \in Reader /\ InStep /\ LinesWhole
  BY <1>1 DEF StreamInv
<1>3. /\ reader'.mode = reader.mode /\ reader'.demux = reader.demux /\ reader'.lead = reader.lead
      /\ reader'.assembler = reader.assembler /\ reader' \in Reader /\ reader'.at \in {"open", "failed", "aborted"}
  BY <1>1, <1>2 DEF Reader
<1>4. InStep'
  BY <1>1, <1>2, <1>3 DEF InStep
<1>5. LinesWhole'
  <2>1. reader'.at # "ended"
    BY <1>3
  <2> QED BY <1>1, <1>2, <1>3, <2>1 DEF LinesWhole, FormatKnown
<1> QED BY <1>1, <1>3, <1>4, <1>5 DEF StreamInv

(* A demuxer stays one, whatever the bytes are.                            *)
LEMMA RoundTyped == ASSUME NEW d \in Demux, NEW x PROVE Round(d, x) \in Demux
<1> DEFINE b == d.buffer
           s == StreamName(b[1])
           payload == SubSeq(b, 3, 2 + b[2])
           tail == SubSeq(b, 3 + b[2], Len(b))
           e == Decode(d.lead[s], payload)
           g == Round(d, x)
<1>1. /\ b \in Bytes /\ b \in Seq(Nat) /\ Len(b) \in Nat /\ d.lead \in [Stream -> BOOLEAN] /\ d.frames \in Seq(Item)
      /\ d = [buffer |-> b, lead |-> d.lead, frames |-> d.frames]
  BY DEF Demux, Bytes
<1>2. CASE ~Complete(b)
  BY <1>2 DEF Round
<1>3. CASE Complete(b)
  <2>1. b[2] \in Nat /\ 2 + b[2] <= Len(b) /\ Len(b) >= 2
    BY <1>1, <1>3 DEF Complete, HeaderBytes
  <2>2. payload \in Bytes /\ tail \in Bytes
    <3> DEFINE k == b[2]
    <3>1. k \in Nat /\ 2 + k <= Len(b)
      BY <2>1
    <3> HIDE DEF k, b
    <3>2. SubSeq(b, 3, 2 + k) \in Seq(Nat) /\ SubSeq(b, 3 + k, Len(b)) \in Seq(Nat)
      <4>1. (\A i \in 3 .. 2 + k : b[i] \in Nat) /\ \A i \in 3 + k .. Len(b) : b[i] \in Nat
        <5>1. (\A i \in 3 .. 2 + k : i \in 1 .. Len(b)) /\ \A i \in 3 + k .. Len(b) : i \in 1 .. Len(b)
          BY <1>1, <3>1, SMTT(30)
        <5>2. \A i \in 1 .. Len(b) : b[i] \in Nat
          BY <1>1, ElementOfSeq
        <5> QED BY <5>1, <5>2
      <4> QED BY <1>1, <3>1, <4>1, SubSeqProperties, SMTT(30)
    <3> QED BY <3>2 DEF k, Bytes
  <2>3. s \in Stream
    BY DEF StreamName, Stream
  <2>4. g = [buffer |-> tail, lead |-> [d.lead EXCEPT ![s] = e.lead], frames |-> d.frames \o Frame(s, e.text)]
    <3>1. HeaderBytes + 1 = 3 /\ HeaderBytes = 2 /\ (2 + b[2]) + 1 = 3 + b[2]
      BY <2>1 DEF HeaderBytes
    <3> QED BY <1>1, <1>3, <3>1 DEF Round
  <2>5. e \in Decoded
    <3>1. d.lead[s] \in BOOLEAN
      BY <1>1, <2>3
    <3> HIDE DEF payload, s, b
    <3> QED BY <2>2, <3>1, DecodeTyped
  <2>6. d.frames \o Frame(s, e.text) \in Seq(Item)
    <3>1. e.text \in Bytes /\ s \in Stream /\ d.frames \in Seq(Item)
      BY <1>1, <2>3, <2>5 DEF Decoded
    <3> HIDE DEF b, s, payload, tail, e
    <3>2. FrameMore(d.frames, s, e.text)
      BY ONLY <3>1, FrameIsMore, Zenon
    <3> QED BY ONLY <3>2 DEF FrameMore
  <2> HIDE DEF b, s, payload, tail, e, g
  <2>7. g \in Demux
    BY <1>1, <2>2, <2>3, <2>4, <2>5, <2>6 DEF Demux, Decoded
  <2> QED BY <2>7 DEF g
<1> QED BY <1>2, <1>3

(* So it does for a whole chunk.                                           *)
LEMMA PushTyped == ASSUME NEW d \in Demux, NEW chunk \in Bytes PROVE Push(d, chunk) \in Demux
<1> DEFINE b == d.buffer \o chunk
           d0 == [buffer |-> b, lead |-> d.lead, frames |-> <<>>]
<1>1. b \in Bytes
  <2>1. d.buffer \in Bytes
    BY DEF Demux
  <2> QED BY ONLY <2>1, chunk \in Bytes, JoinedTyped
<1>2. Push(d, chunk) = Rounds!After(d0, b)
  BY DEF Push
<1> HIDE DEF b
<1>3. d0 \in Demux /\ b \in Seq(Nat)
  <2>1. <<>> \in Seq(Item) /\ d.lead \in [Stream -> BOOLEAN]
    BY DEF Demux
  <2> QED BY <1>1, <2>1 DEF Demux, Bytes
<1> HIDE DEF d0
<1> QED BY <1>2, <1>3, RoundTyped, Rounds!AfterKeeps

(* An assembler stays one.                                                 *)
LEMMA AssembleTyped ==
  ASSUME NEW a \in Assembler, NEW frames \in Seq(Item) PROVE Assemble(a, frames) \in Assembler
<1>1. ASSUME NEW c \in Assembler, NEW x \in Item PROVE AssembleFrame(c, x) \in Assembler
  <2> DEFINE s == x.stream
             q == Parts(c.partial[s], x.text)
             l == LogLines(s, q.parts)
  <2>1. s \in Stream /\ x.text \in Bytes /\ c.partial \in [Stream -> Bytes] /\ c.lines \in Seq(Item)
    BY DEF Item, Assembler
  <2>2. q.rest \in Bytes /\ q.parts \in Seq(Bytes)
    <3>1. q \in Split
      BY <2>1, PartsTyped
    <3> QED BY <3>1 DEF Split
  <2>3. AssembleFrame(c, x) = [partial |-> [c.partial EXCEPT ![s] = q.rest], lines |-> c.lines \o l]
    BY DEF AssembleFrame
  <2> HIDE DEF q, s
  <2>4. l \in Seq(Item)
    BY <2>1, <2>2, LinesSorted
  <2> HIDE DEF l
  <2>5. c.lines \o l \in Seq(Item)
    BY ONLY <2>1, <2>4
  <2> QED BY <2>1, <2>2, <2>3, <2>5 DEF Assembler
<1> QED BY <1>1, Assembling!AfterKeeps DEF Assemble

(* A chunk is read: by frames, or raw.                                     *)
LEMMA ChunkKeeps ==
  ASSUME StreamInv, NEW n \in 1 .. Len(body), ReadChunk(n) PROVE StreamInv'
<1> DEFINE w == log.writes
           c == SubSeq(body, 1, n)
           r == SubSeq(body, n + 1, Len(body))
           d == reader.demux
           a == reader.assembler
           lead == reader.lead
           mode == IF reader.mode # "unknown" THEN reader.mode
                   ELSE IF IsMultiplexed(log.contentType, c) THEN "frames" ELSE "raw"
           e == Push(d, c)
           raw == Decode(lead, c)
           af == Assemble(a, e.frames)
           ar == Assemble(a, Frame("stdout", raw.text))
<1>1. /\ w \in Seq(WriteOf) /\ log.tty \in BOOLEAN /\ log \in Logs /\ sent \in 0 .. Len(w) /\ body \in Bytes
  BY LogTyped DEF StreamInv
<1>2. reader.at = "open" /\ ~Over /\ log' = log /\ sent' = sent /\ body' = r /\ reader' = Took(reader, c)
  BY DEF ReadChunk, Over
<1>3. reader \in Reader /\ InStep
  BY <1>2 DEF StreamInv
<1>4. c \in Bytes /\ r \in Bytes /\ body = c \o r
  <2>1. n \in 0 .. Len(body)
    OBVIOUS
  <2> QED BY <1>1, <2>1, BytesCut
<1>5. d \in Demux /\ a \in Assembler /\ lead \in BOOLEAN /\ mode \in {"frames", "raw"}
      /\ (reader.mode # "unknown" => mode = reader.mode)
  BY <1>3 DEF Reader
<1>6. reader' = IF mode = "frames" THEN [reader EXCEPT !.mode = mode, !.demux = e, !.assembler = af]
                ELSE [reader EXCEPT !.mode = mode, !.lead = raw.lead, !.assembler = ar]
  BY <1>2 DEF Took
<1>7. ASSUME mode = "frames", ~log.tty
      PROVE  /\ e \in Demux /\ ~Complete(e.buffer) /\ af \in Assembler /\ FramesRead(w, sent, e, af, r)
  <2>1. FramesRead(w, sent, d, a, body)
    BY <1>3, <1>5, <1>7 DEF InStep
  <2> HIDE DEF mode, c, r, d, a, w
  <2>2. FramesRead(w, sent, d, a, c \o r)
    BY <1>4, <2>1
  <2> QED BY <1>1, <1>4, <1>5, <2>2, FramesTake
<1>8. ASSUME mode = "raw", log.tty
      PROVE  raw.lead \in BOOLEAN /\ ar \in Assembler /\ RawRead(w, sent, raw.lead, ar, r)
  <2>1. RawRead(w, sent, lead, a, body)
    BY <1>3, <1>5, <1>8 DEF InStep
  <2> HIDE DEF mode, c, r, lead, a, w
  <2>2. RawRead(w, sent, lead, a, c \o r)
    BY <1>4, <2>1
  <2> QED BY <1>1, <1>4, <1>5, <2>2, RawTakes
<1>9. e \in Demux /\ af \in Assembler
  <2>1. e \in Demux
    <3> HIDE DEF c, d
    <3> QED BY <1>4, <1>5, PushTyped
  <2>2. e.frames \in Seq(Item)
    BY <2>1 DEF Demux
  <2> HIDE DEF e, a
  <2> QED BY <1>5, <2>1, <2>2, AssembleTyped
<1>10. raw.lead \in BOOLEAN /\ ar \in Assembler
  <2>1. raw \in Decoded
    <3> HIDE DEF c, lead
    <3> QED BY <1>4, <1>5, DecodeTyped
  <2>2. raw.text \in Bytes /\ raw.lead \in BOOLEAN
    BY <2>1 DEF Decoded
  <2>3. Frame("stdout", raw.text) \in Seq(Item)
    <3>1. "stdout" \in Stream
      BY DEF Stream
    <3> HIDE DEF raw
    <3> QED BY <2>2, <3>1, TextsOfFrame
  <2> HIDE DEF raw, a
  <2> QED BY <1>5, <2>2, <2>3, AssembleTyped
<1> HIDE DEF c, r, d, a, lead, mode, e, raw, af, ar
<1>11. ASSUME mode = "frames" PROVE (reader \in Reader)' /\ InStep' /\ ~Over'
  <2>1. reader' = [reader EXCEPT !.mode = mode, !.demux = e, !.assembler = af]
    BY <1>6, <1>11
  <2>2. /\ reader' \in Reader /\ reader'.at = "open" /\ reader'.mode = "frames" /\ reader'.demux = e
        /\ reader'.assembler = af
    <3> DEFINE z == [reader EXCEPT !.mode = mode, !.demux = e, !.assembler = af]
    <3>1. reader \in Reader /\ mode \in {"unknown", "raw", "frames"} /\ e \in Demux /\ af \in Assembler
      BY <1>3, <1>5, <1>9
    <3>2. z \in Reader /\ z.at = reader.at /\ z.mode = mode /\ z.demux = e /\ z.assembler = af
      BY ONLY <3>1 DEF Reader
    <3> HIDE DEF z
    <3> QED BY <1>2, <1>11, <2>1, <3>2 DEF z
  <2>3. InStep'
    <3>1. ~log.tty => FramesRead(w, sent, e, af, r) /\ ~Complete(e.buffer)
      BY <1>7, <1>11
    <3> QED BY <1>2, <2>2, <3>1 DEF InStep, w
  <2>4. ~Over'
    BY <2>2 DEF Over
  <2> QED BY <2>2, <2>3, <2>4
<1>12. ASSUME mode = "raw" PROVE (reader \in Reader)' /\ InStep' /\ ~Over'
  <2>1. reader' = [reader EXCEPT !.mode = mode, !.lead = raw.lead, !.assembler = ar]
    BY <1>6, <1>12
  <2>2. /\ reader' \in Reader /\ reader'.at = "open" /\ reader'.mode = "raw" /\ reader'.lead = raw.lead
        /\ reader'.assembler = ar
    <3> DEFINE z == [reader EXCEPT !.mode = mode, !.lead = raw.lead, !.assembler = ar]
    <3>1. reader \in Reader /\ mode \in {"unknown", "raw", "frames"} /\ raw.lead \in BOOLEAN /\ ar \in Assembler
      BY <1>3, <1>5, <1>10
    <3>2. z \in Reader /\ z.at = reader.at /\ z.mode = mode /\ z.lead = raw.lead /\ z.assembler = ar
      BY ONLY <3>1 DEF Reader
    <3> HIDE DEF z
    <3> QED BY <1>2, <1>12, <2>1, <3>2 DEF z
  <2>3. InStep'
    <3>1. log.tty => RawRead(w, sent, raw.lead, ar, r)
      BY <1>8, <1>12
    <3> QED BY <1>2, <2>2, <3>1 DEF InStep, w
  <2>4. ~Over'
    BY <2>2 DEF Over
  <2> QED BY <2>2, <2>3, <2>4
<1>13. (reader \in Reader)' /\ InStep' /\ ~Over'
  BY <1>5, <1>11, <1>12
<1>14. (log \in Logs)' /\ (sent \in 0 .. Len(log.writes))' /\ (body \in Bytes)'
  BY <1>1, <1>2, <1>4 DEF w
<1>15. LinesWhole'
  BY <1>13, <1>14, InStepWhole, PTL
<1> QED BY <1>13, <1>14, <1>15 DEF StreamInv

(* The body ends, and the last lines with it.                              *)
LEMMA EndKeeps == ASSUME StreamInv, BodyEnds PROVE StreamInv'
<1> DEFINE w == log.writes
           g == LastOfStream(reader)
           d == reader.demux
           a == reader.assembler
           f == Assemble(a, FlushedFrames(d))
           r == Assemble(a, Remainder(reader.lead, "stdout"))
<1>1. /\ w \in Seq(WriteOf) /\ log.tty \in BOOLEAN /\ log \in Logs /\ sent \in 0 .. Len(w)
  BY LogTyped DEF StreamInv
<1>2. /\ ~Over /\ body = <<>> /\ sent = Len(w) /\ log' = log /\ sent' = sent /\ body' = body
      /\ reader' = [reader EXCEPT !.at = "ended", !.assembler = g]
  BY DEF BodyEnds, Over
<1>3. reader \in Reader /\ InStep /\ body \in Bytes
  BY <1>2 DEF StreamInv
<1>4. reader'.at = "ended" /\ reader'.mode = reader.mode /\ reader'.assembler = g
  <2> HIDE DEF g
  <2> QED BY <1>2, <1>3 DEF Reader
<1>5. g.lines = IF reader.mode = "frames" THEN FinalLines(f) ELSE FinalLines(r)
  BY DEF LastOfStream, FinalLines
<1>6. d \in Demux /\ a \in Assembler /\ reader.lead \in BOOLEAN
  BY <1>3 DEF Reader
<1>7. ASSUME reader.mode = "frames", ~log.tty, NEW s \in Stream
      PROVE  FinalLines(f) \in Seq(Item) /\ ByStream(FinalLines(f))[s] = LinesOf(WrittenTo(w, s))
  <2>1. FramesRead(w, Len(w), d, a, <<>>) /\ ~Complete(d.buffer)
    BY <1>2, <1>3, <1>7 DEF InStep
  <2> HIDE DEF w, d, a
  <2> QED BY <1>1, <1>6, <2>1, FramesEnd
<1>8. ASSUME reader.mode = "raw", log.tty
      PROVE  FinalLines(r) \in Seq(Item) /\ ByStream(FinalLines(r))["stdout"] = LinesOf(WrittenTo(w, "stdout"))
  <2> DEFINE lead == reader.lead
  <2>1. RawRead(w, Len(w), lead, a, <<>>) /\ lead \in BOOLEAN
    BY <1>2, <1>3, <1>6, <1>8 DEF InStep
  <2> HIDE DEF w, a, lead
  <2>2. LET q == Assemble(a, Remainder(lead, "stdout"))
        IN  FinalLines(q) \in Seq(Item) /\ ByStream(FinalLines(q))["stdout"] = LinesOf(WrittenTo(w, "stdout"))
    BY <1>1, <1>6, <2>1, RawEnd
  <2> QED BY <2>2 DEF lead
<1>9. ASSUME FormatKnown, NEW s \in IF log.tty THEN {"stdout"} ELSE Stream
      PROVE  g.lines \in Seq(Item) /\ ByStream(g.lines)[s] = LinesOf(WrittenTo(w, s))
  <2> HIDE DEF w, d, a, f, r, g
  <2>1. CASE log.tty
    <3>1. s = "stdout" /\ reader.mode = "raw"
      BY <1>9, <2>1 DEF FormatKnown
    <3> QED BY <1>5, <1>8, <2>1, <3>1
  <2>2. CASE ~log.tty
    <3>1. s \in Stream /\ reader.mode = "frames"
      BY <1>9, <2>2 DEF FormatKnown
    <3> QED BY <1>5, <1>7, <2>2, <3>1
  <2> QED BY <2>1, <2>2
<1> HIDE DEF g
<1>10. ASSUME FormatKnown, NEW s \in IF log.tty THEN {"stdout"} ELSE Stream
       PROVE  LET got == ByStream(g.lines)[s] IN IsPrefix(got, LinesOf(WrittenTo(w, s))) /\ got = LinesOf(WrittenTo(w, s))
  <2> DEFINE got == ByStream(g.lines)[s]
  <2>1. g.lines \in Seq(Item) /\ got = LinesOf(WrittenTo(w, s))
    BY <1>9, <1>10
  <2>2. got \in Seq(Bytes)
    <3>1. s \in Stream
      BY <1>10 DEF Stream
    <3> QED BY <2>1, <3>1, SortedTyped
  <2> HIDE DEF got
  <2>3. IsPrefix(got, got)
    <3>1. Len(got) \in Nat
      BY <2>2
    <3> QED BY <3>1 DEF IsPrefix
  <2>4. IsPrefix(got, LinesOf(WrittenTo(w, s))) /\ got = LinesOf(WrittenTo(w, s))
    BY <2>1, <2>3
  <2> QED BY <2>4 DEF got
<1>11. FormatKnown' => FormatKnown
  BY <1>2, <1>4 DEF FormatKnown
<1>12. LinesWhole'
  BY <1>2, <1>4, <1>10, <1>11 DEF LinesWhole
<1>13. Over'
  BY <1>4 DEF Over
<1> QED BY <1>1, <1>2, <1>3, <1>12, <1>13 DEF StreamInv

(* However the log of a container was cut into frames and chunks, the      *)
(* lines of each stream are whole, in order, and all there at the end.     *)
THEOREM LinesAreWhole == InitStream /\ [][StreamNext]_logVars => []LinesWhole
<1>1. InitStream => StreamInv
  <2> SUFFICES ASSUME InitStream PROVE StreamInv
    OBVIOUS
  <2>1. reader \in Reader /\ InStep
    BY NewStreamInStep
  <2>2. log \in Logs /\ sent = 0 /\ body = <<>> /\ reader.at = "requested"
    BY DEF InitStream, NewStream
  <2>3. sent \in 0 .. Len(log.writes) /\ body \in Bytes
    BY <2>2, LogTyped DEF Bytes
  <2>4. ~Over
    BY <2>2 DEF Over
  <2> QED BY <2>1, <2>2, <2>3, <2>4, InStepWhole DEF StreamInv
<1>2. StreamInv /\ [StreamNext]_logVars => StreamInv'
  <2> SUFFICES ASSUME StreamInv, [StreamNext]_logVars PROVE StreamInv'
    OBVIOUS
  <2>1. CASE ContainerWrites
    BY <2>1, WritesKeep
  <2>2. CASE StreamAnswered \/ AbortLogs \/ BodyFails
    BY <2>2, EndsEarly
  <2>3. CASE BodyEnds
    BY <2>3, EndKeeps
  <2>4. ASSUME NEW n \in 1 .. Len(body), ReadChunk(n) PROVE StreamInv'
    BY <2>4, ChunkKeeps
  <2>5. CASE UNCHANGED logVars
    BY <2>5 DEF logVars, StreamInv, LinesWhole, FormatKnown, Over, InStep
  <2> QED BY <2>1, <2>2, <2>3, <2>4, <2>5 DEF StreamNext
<1>3. StreamInv => LinesWhole
  BY DEF StreamInv
<1> QED BY <1>1, <1>2, <1>3, PTL

-----------------------------------------------------------------------------
(* The output of a command.                                                *)

(* The bytes of one more character.                                        *)
LEMMA WidthTyped == \A c : Width(c) \in Nat
BY DEF Width

(* The bytes of a text.                                                    *)
LEMMA ByteLengthTyped == ASSUME NEW t \in Bytes PROVE ByteLength(t) \in Nat
<1>1. \A n \in Nat, c \in Nat : AddWidth(n, c) \in Nat
  BY WidthTyped DEF AddWidth
<1>2. 0 \in Nat /\ t \in Seq(Nat)
  BY DEF Bytes
<1> QED BY <1>1, <1>2, Measuring!AfterKeeps DEF ByteLength

(* Measuring on from n adds to it.                                         *)
LEMMA MeasureFrom ==
  ASSUME NEW n \in Nat, NEW t \in Bytes PROVE Measuring!After(n, t) = n + ByteLength(t)
<1> DEFINE P == {u \in Seq(Nat) : Measuring!After(n, u) = n + Measuring!After(0, u)}
<1>1. <<>> \in P
  <2>1. Measuring!After(n, <<>>) = n /\ Measuring!After(0, <<>>) = 0
    BY Measuring!AfterNone
  <2> QED BY <2>1
<1>2. ASSUME NEW u \in Seq(Nat), NEW x \in Nat, u \in P PROVE Append(u, x) \in P
  <2>1. Measuring!After(n, Append(u, x)) = Measuring!After(n, u) + Width(x)
    BY Measuring!AfterMore DEF AddWidth
  <2>2. Measuring!After(0, Append(u, x)) = Measuring!After(0, u) + Width(x)
    BY Measuring!AfterMore DEF AddWidth
  <2>3. Measuring!After(0, u) \in Nat /\ Width(x) \in Nat
    BY ByteLengthTyped, WidthTyped DEF ByteLength, Bytes
  <2>4. Measuring!After(n, u) = n + Measuring!After(0, u)
    BY <1>2
  <2>5. Measuring!After(n, Append(u, x)) = n + Measuring!After(0, Append(u, x))
    BY <2>1, <2>2, <2>3, <2>4
  <2>6. Append(u, x) \in Seq(Nat)
    OBVIOUS
  <2> QED BY <2>5, <2>6
<1> HIDE DEF P
<1>3. Seq(Nat) \subseteq P
  BY <1>1, <1>2, Measuring!Lengthening
<1> QED BY <1>3 DEF P, Bytes, ByteLength

(* Texts put together have their bytes together.                           *)
LEMMA ByteLengthJoined ==
  ASSUME NEW s \in Bytes, NEW t \in Bytes PROVE ByteLength(s \o t) = ByteLength(s) + ByteLength(t)
<1>1. ByteLength(s \o t) = Measuring!After(ByteLength(s), t)
  <2>1. s \in Seq(Nat) /\ t \in Seq(Nat)
    BY DEF Bytes
  <2>2. Measuring!After(0, s \o t) = Measuring!After(Measuring!After(0, s), t)
    BY ONLY <2>1, Measuring!AfterJoined
  <2> QED BY <2>2 DEF ByteLength
<1>2. ByteLength(s) \in Nat
  BY ByteLengthTyped
<1> QED BY <1>1, <1>2, MeasureFrom

(* A set of numbers up to n has a largest.                                 *)
LEMMA LargestExists ==
  ASSUME NEW n \in Nat, NEW T \in SUBSET (0 .. n), 0 \in T
  PROVE  Max(T) \in T
<1> DEFINE P == {k \in Nat : \A U \in SUBSET (0 .. k) : 0 \in U => \E x \in U : \A y \in U : x >= y}
<1>1. 0 \in P
  OBVIOUS
<1>2. ASSUME NEW k \in Nat, k \in P PROVE k + 1 \in P
  <2>1. ASSUME NEW U \in SUBSET (0 .. k + 1), 0 \in U PROVE \E x \in U : \A y \in U : x >= y
    <3>1. CASE k + 1 \in U
      BY <3>1
    <3>2. CASE k + 1 \notin U
      <4>1. U \in SUBSET (0 .. k)
        BY <3>2
      <4> QED BY <1>2, <2>1, <4>1
    <3> QED BY <3>1, <3>2
  <2> QED BY <2>1
<1> HIDE DEF P
<1>3. Nat \subseteq P
  BY <1>1, <1>2, Measuring!Counting
<1>4. \E x \in T : \A y \in T : x >= y
  BY <1>3 DEF P
<1> QED BY <1>4 DEF Max

(* clip keeps a beginning of the text that fits.                           *)
LEMMA ClipKeeps ==
  ASSUME NEW t \in Bytes, NEW budget \in Int
  PROVE  \E n \in 0 .. Len(t) : Clip(t, budget) = SubSeq(t, 1, n) /\ (n = 0 \/ ByteLength(SubSeq(t, 1, n)) <= budget)
<1> DEFINE fits == {n \in 0 .. Len(t) : n = 0 \/ ByteLength(SubSeq(t, 1, n)) <= budget}
<1>1. Len(t) \in Nat
  BY DEF Bytes
<1>2. fits \in SUBSET (0 .. Len(t)) /\ 0 \in fits
  BY <1>1
<1>3. Max(fits) \in fits
  <2> HIDE DEF fits
  <2> QED BY <1>1, <1>2, LargestExists
<1>4. Clip(t, budget) = SubSeq(t, 1, Max(fits))
  BY DEF Clip
<1> DEFINE n == Max(fits)
<1>5. n \in 0 .. Len(t) /\ (n = 0 \/ ByteLength(SubSeq(t, 1, n)) <= budget)
  <2> HIDE DEF n
  <2> QED BY <1>3 DEF n
<1> HIDE DEF n, fits
<1> QED BY <1>4, <1>5 DEF n

Output == [stdout : Bytes, stderr : Bytes, truncated : BOOLEAN, maxStdout : Nat, maxStderr : Nat]

(* What is kept of a text that was told: all of it, or a beginning of it   *)
(* that says so.                                                           *)
KeptOf(o, told) ==
  /\ ByteLength(o.stdout) <= o.maxStdout
  /\ ~o.truncated => told = o.stdout
  /\ o.truncated => \E v \in Bytes : v # <<>> /\ told = o.stdout \o v

(* One frame adds to the stdout that was collected.                        *)
Adds(o, p) == p \in Output /\ p.maxStdout = o.maxStdout /\ \E u \in Bytes : p.stdout = o.stdout \o u

(* A frame of stderr changes nothing of stdout.                            *)
LEMMA ErrAdds ==
  ASSUME NEW o \in Output, NEW x \in Item, x.stream = "stderr"
  PROVE  /\ Adds(o, AddItem(o, x)) /\ AddItem(o, x).stdout = o.stdout /\ AddItem(o, x).truncated = o.truncated
<1>1. /\ o.stdout \in Bytes /\ o.stderr \in Bytes /\ o.truncated \in BOOLEAN /\ o.maxStdout \in Nat /\ o.maxStderr \in Nat
      /\ x.text \in Bytes
      /\ o = [stdout |-> o.stdout, stderr |-> o.stderr, truncated |-> o.truncated,
              maxStdout |-> o.maxStdout, maxStderr |-> o.maxStderr]
  BY DEF Output, Item
<1> DEFINE b == o.maxStderr - ByteLength(o.stderr)
           e == o.stderr \o Clip(x.text, b)
<1>2. b \in Int
  <2>1. ByteLength(o.stderr) \in Nat
    BY <1>1, ByteLengthTyped
  <2> QED BY <1>1, <2>1
<1>3. e \in Bytes
  <2> HIDE DEF b
  <2> DEFINE t == x.text
  <2>1. t \in Bytes /\ t \in Seq(Nat)
    BY <1>1 DEF Bytes
  <2> HIDE DEF t
  <2>2. PICK n \in 0 .. Len(t) : Clip(t, b) = SubSeq(t, 1, n)
    BY <1>2, <2>1, ClipKeeps
  <2>3. SubSeq(t, 1, n) \in Bytes
    BY <2>1, BytesCut
  <2> QED BY ONLY <1>1, <2>2, <2>3, JoinedTyped DEF t
<1>4. AddItem(o, x) = [stdout |-> o.stdout, stderr |-> e, truncated |-> o.truncated,
                       maxStdout |-> o.maxStdout, maxStderr |-> o.maxStderr]
  BY <1>1 DEF AddItem
<1> HIDE DEF e
<1>5. o.stdout = o.stdout \o <<>> /\ <<>> \in Bytes
  BY <1>1 DEF Bytes
<1> DEFINE p == AddItem(o, x)
<1> HIDE DEF p
<1>6. p \in Output /\ p.stdout = o.stdout /\ p.truncated = o.truncated /\ p.maxStdout = o.maxStdout
  BY <1>1, <1>3, <1>4 DEF Output, p
<1>7. \E u \in Bytes : p.stdout = o.stdout \o u
  BY <1>5, <1>6
<1>8. Adds(o, p)
  BY <1>6, <1>7 DEF Adds
<1> QED BY <1>6, <1>8 DEF p

(* A text is what is clipped of it, and the rest.                          *)
LEMMA Clipped ==
  ASSUME NEW o \in Output, NEW t \in Bytes
  PROVE  LET kept == Clip(t, o.maxStdout - ByteLength(o.stdout))
         IN  /\ kept \in Bytes
             /\ ByteLength(o.stdout) <= o.maxStdout => ByteLength(o.stdout \o kept) <= o.maxStdout
             /\ ~(Len(kept) < Len(t)) => t = kept
             /\ Len(kept) < Len(t) => \E r \in Bytes : r # <<>> /\ t = kept \o r
<1> DEFINE b == o.maxStdout - ByteLength(o.stdout)
<1>1. o.stdout \in Bytes /\ o.maxStdout \in Nat /\ ByteLength(o.stdout) \in Nat
  BY ByteLengthTyped DEF Output
<1>2. b \in Int
  BY <1>1
<1> DEFINE kept == Clip(t, b)
<1>3. PICK n \in 0 .. Len(t) : kept = SubSeq(t, 1, n) /\ (n = 0 \/ ByteLength(SubSeq(t, 1, n)) <= b)
  <2> HIDE DEF b
  <2> QED BY <1>2, ClipKeeps
<1> HIDE DEF kept
<1> DEFINE r == SubSeq(t, n + 1, Len(t))
<1>4. kept \in Bytes /\ r \in Bytes /\ t = kept \o r
  BY <1>3, BytesCut
<1>5. Len(t) \in Nat /\ t \in Seq(Nat)
  BY DEF Bytes
<1>6. Len(kept) = n /\ Len(r) = Len(t) - n
  BY <1>3, <1>5
<1>7. ByteLength(kept) \in Nat /\ ByteLength(o.stdout \o kept) = ByteLength(o.stdout) + ByteLength(kept)
  BY <1>1, <1>4, ByteLengthTyped, ByteLengthJoined
<1>8. ASSUME ByteLength(o.stdout) <= o.maxStdout PROVE ByteLength(o.stdout \o kept) <= o.maxStdout
  <2>1. CASE n = 0
    <3>1. kept = <<>>
      BY <1>3, <2>1
    <3>2. ByteLength(<<>>) = 0
      BY Measuring!AfterNone DEF ByteLength
    <3> QED BY <1>1, <1>7, <1>8, <3>1, <3>2
  <2>2. CASE n # 0
    <3>1. ByteLength(kept) <= b
      BY <1>3, <2>2
    <3> QED BY <1>1, <1>7, <3>1
  <2> QED BY <2>1, <2>2
<1>9. ASSUME ~(Len(kept) < Len(t)) PROVE t = kept
  <2>1. n = Len(t)
    BY <1>5, <1>6, <1>9
  <2> QED BY <1>3, <1>5, <2>1, SubSeqFull
<1>10. ASSUME Len(kept) < Len(t) PROVE r # <<>>
  <2>1. Len(r) # 0
    BY <1>5, <1>6, <1>10
  <2> HIDE DEF r
  <2> QED BY <2>1, EmptySeq
<1> HIDE DEF r
<1> QED BY <1>4, <1>8, <1>9, <1>10 DEF kept

(* One frame more is kept of, or not.                                      *)
LEMMA FrameKept ==
  ASSUME NEW o \in Output, NEW told \in [Stream -> Bytes], NEW x \in Item, KeptOf(o, told["stdout"])
  PROVE  Adds(o, AddItem(o, x)) /\ KeptOf(AddItem(o, x), Heard(told, x)["stdout"])
<1> DEFINE s == "stdout"
           t == x.text
           p == AddItem(o, x)
           h == Heard(told, x)[s]
<1>1. /\ o.stdout \in Bytes /\ o.stderr \in Bytes /\ o.truncated \in BOOLEAN /\ o.maxStdout \in Nat /\ o.maxStderr \in Nat
      /\ t \in Bytes /\ x.stream \in Stream /\ s \in Stream /\ told[s] \in Bytes
      /\ o = [stdout |-> o.stdout, stderr |-> o.stderr, truncated |-> o.truncated,
              maxStdout |-> o.maxStdout, maxStderr |-> o.maxStderr]
  BY DEF Output, Item, Stream
<1>2. CASE x.stream = "stderr"
  <2>1. h = told[s]
    BY <1>1, <1>2 DEF Heard
  <2>2. Adds(o, p) /\ p.stdout = o.stdout /\ p.truncated = o.truncated
    BY <1>2, ErrAdds
  <2>3. p.maxStdout = o.maxStdout
    BY <2>2 DEF Adds
  <2> HIDE DEF p, h
  <2> QED BY <2>1, <2>2, <2>3 DEF KeptOf, p, h
<1>3. CASE x.stream = s
  <2>1. h = told[s] \o t
    BY <1>1, <1>3 DEF Heard
  <2>2. CASE o.truncated
    <3>1. p = o
      BY <1>3, <2>2 DEF AddItem
    <3>2. o.stdout = o.stdout \o <<>> /\ <<>> \in Bytes
      BY <1>1 DEF Bytes
    <3>3. Adds(o, o)
      BY <3>2 DEF Adds
    <3>4. PICK v \in Bytes : v # <<>> /\ told[s] = o.stdout \o v
      BY <2>2 DEF KeptOf
    <3>5. h = o.stdout \o (v \o t) /\ v \o t \in Bytes
      <4>1. Rejoined(o.stdout, v, t)
        BY <1>1, Rejoins, Zenon
      <4>2. (o.stdout \o v) \o t = o.stdout \o (v \o t)
        BY ONLY <4>1 DEF Rejoined
      <4>3. v \o t \in Bytes
        BY ONLY <1>1, v \in Bytes, JoinedTyped
      <4> QED BY <2>1, <3>4, <4>2, <4>3
    <3>6. v \o t # <<>>
      <4>1. v \in Seq(Nat) /\ t \in Seq(Nat)
        BY <1>1 DEF Bytes
      <4> QED BY ONLY <4>1, <3>4, ConcatEqualIffEmpty, SMTT(30)
    <3> HIDE DEF h, p
    <3>7. KeptOf(o, h)
      BY <2>2, <3>5, <3>6 DEF KeptOf
    <3> QED BY <3>1, <3>3, <3>7 DEF p, h
  <2>3. CASE ~o.truncated
    <3> DEFINE kept == Clip(t, o.maxStdout - ByteLength(o.stdout))
               z == o.stdout \o kept
               cut == Len(kept) < Len(t)
    <3>1. p = [stdout |-> z, stderr |-> o.stderr, truncated |-> cut, maxStdout |-> o.maxStdout, maxStderr |-> o.maxStderr]
      <4>1. x.stream # "stderr"
        BY <1>3
      <4> HIDE DEF kept
      <4>2. p = [o EXCEPT !.stdout = z, !.truncated = cut]
        BY <2>3, <4>1 DEF AddItem, kept
      <4> HIDE DEF p, z, cut
      <4> QED BY <1>1, <4>2
    <3>2. /\ kept \in Bytes /\ ByteLength(z) <= o.maxStdout /\ (~cut => t = kept)
          /\ cut => \E r \in Bytes : r # <<>> /\ t = kept \o r
      <4>1. ByteLength(o.stdout) <= o.maxStdout
        BY DEF KeptOf
      <4> QED BY <1>1, <4>1, Clipped
    <3>3. told[s] = o.stdout
      BY <2>3 DEF KeptOf
    <3> HIDE DEF kept, cut
    <3>4. z \in Bytes
      BY ONLY <1>1, <3>2, JoinedTyped
    <3>5. cut \in BOOLEAN
      BY DEF cut
    <3>6. ~cut => h = z
      BY <2>1, <3>2, <3>3
    <3>7. ASSUME cut PROVE \E v \in Bytes : v # <<>> /\ h = z \o v
      <4>1. PICK r \in Bytes : r # <<>> /\ t = kept \o r
        BY <3>2, <3>7
      <4>2. Rejoined(o.stdout, kept, r)
        BY <1>1, <3>2, Rejoins, Zenon
      <4>3. (o.stdout \o kept) \o r = o.stdout \o (kept \o r)
        BY ONLY <4>2 DEF Rejoined
      <4> QED BY <2>1, <3>3, <4>1, <4>3
    <3>8. \E u \in Bytes : z = o.stdout \o u
      BY <3>2
    <3> HIDE DEF z, h, p
    <3>9. p \in Output /\ p.stdout = z /\ p.truncated = cut /\ p.maxStdout = o.maxStdout
      BY <1>1, <3>1, <3>4, <3>5 DEF Output
    <3>10. Adds(o, p)
      BY <3>8, <3>9 DEF Adds
    <3>11. KeptOf(p, h)
      BY <3>2, <3>6, <3>7, <3>9 DEF KeptOf
    <3> QED BY <3>10, <3>11 DEF p, h
  <2> QED BY <2>2, <2>3
<1> QED BY <1>1, <1>2, <1>3 DEF Stream

(* What is added to and then added to.                                     *)
LEMMA AddsMore ==
  ASSUME NEW o \in Output, NEW p, NEW q, Adds(o, p), Adds(p, q) PROVE Adds(o, q)
<1>1. PICK u \in Bytes : p.stdout = o.stdout \o u
  BY DEF Adds
<1>2. PICK v \in Bytes : q.stdout = p.stdout \o v
  BY DEF Adds
<1>3. o.stdout \in Bytes
  BY DEF Output
<1>4. Rejoined(o.stdout, u, v)
  BY <1>3, Rejoins, Zenon
<1>5. q.stdout = o.stdout \o (u \o v)
  BY <1>1, <1>2, <1>4 DEF Rejoined
<1>6. u \o v \in Bytes
  BY ONLY u \in Bytes, v \in Bytes, JoinedTyped
<1> QED BY <1>5, <1>6 DEF Adds

(* Collecting frames keeps what they tell, within the cap.                 *)
LEMMA Collects ==
  ASSUME NEW o \in Output, NEW told \in [Stream -> Bytes], NEW frames \in Seq(Item), KeptOf(o, told["stdout"])
  PROVE  /\ Adds(o, Collect(o, frames)) /\ ToldMore(told, Texts(frames)) \in [Stream -> Bytes]
         /\ KeptOf(Collect(o, frames), ToldMore(told, Texts(frames))["stdout"])
<1> DEFINE A(u) == Collect(o, u)
           T(u) == Texts(u)
           P == {u \in Seq(Item) : /\ Adds(o, A(u)) /\ T(u) \in [Stream -> Bytes]
                                   /\ KeptOf(A(u), ToldMore(told, T(u))["stdout"])}
<1>1. <<>> \in P
  <2>1. A(<<>>) = o
    BY Collecting!AfterNone DEF Collect
  <2>2. T(<<>>) = [s \in Stream |-> <<>>]
    BY Hearing!AfterNone DEF Texts
  <2>3. ASSUME NEW s \in Stream PROVE told[s] \o <<>> = told[s]
    <3>1. told[s] \in Seq(Nat)
      BY DEF Bytes
    <3> QED BY <3>1
  <2>4. ToldMore(told, T(<<>>)) = told
    <3>1. told = [s \in Stream |-> told[s]]
      OBVIOUS
    <3> QED BY <2>2, <2>3, <3>1 DEF ToldMore
  <2>5. T(<<>>) \in [Stream -> Bytes] /\ <<>> \in Seq(Item)
    <3>1. <<>> \in Bytes /\ <<>> \in Seq(Item)
      BY DEF Bytes
    <3> HIDE DEF T
    <3> QED BY <2>2, <3>1
  <2>6. Adds(o, o)
    <3>1. o.stdout = o.stdout \o <<>> /\ <<>> \in Bytes
      BY DEF Output, Bytes
    <3> QED BY <3>1 DEF Adds
  <2> HIDE DEF A, T
  <2> QED BY <2>1, <2>4, <2>5, <2>6
<1>2. ASSUME NEW u \in Seq(Item), NEW x \in Item, u \in P PROVE Append(u, x) \in P
  <2>1. A(Append(u, x)) = AddItem(A(u), x)
    BY Collecting!AfterMore DEF Collect
  <2>2. T(Append(u, x)) = Heard(T(u), x)
    BY Hearing!AfterMore DEF Texts
  <2>3. Append(u, x) \in Seq(Item)
    OBVIOUS
  <2>4. T(Append(u, x)) \in [Stream -> Bytes]
    BY <2>3, TextsTyped
  <2> HIDE DEF A, T
  <2>5. Adds(o, A(u)) /\ A(u) \in Output /\ T(u) \in [Stream -> Bytes] /\ KeptOf(A(u), ToldMore(told, T(u))["stdout"])
    BY <1>2 DEF Adds
  <2>6. /\ ToldMore(told, T(u)) \in [Stream -> Bytes]
        /\ Heard(ToldMore(told, T(u)), x) = ToldMore(told, Heard(T(u), x))
    BY <2>5, ToldNext, Zenon
  <2>7. /\ Adds(A(u), AddItem(A(u), x))
        /\ KeptOf(AddItem(A(u), x), Heard(ToldMore(told, T(u)), x)["stdout"])
    BY <2>5, <2>6, FrameKept, Zenon
  <2>8. Adds(o, AddItem(A(u), x))
    BY <2>5, <2>7, AddsMore
  <2> QED BY <2>1, <2>2, <2>3, <2>4, <2>6, <2>7, <2>8
<1> HIDE DEF P
<1>3. Seq(Item) \subseteq P
  BY <1>1, <1>2, Collecting!Lengthening
<1>4. frames \in P
  BY <1>3
<1> HIDE DEF A, T
<1>5. /\ Adds(o, A(frames)) /\ T(frames) \in [Stream -> Bytes] /\ KeptOf(A(frames), ToldMore(told, T(frames))["stdout"])
  BY <1>4 DEF P
<1>6. ToldMore(told, T(frames)) \in [Stream -> Bytes]
  <2>1. \A s \in Stream : told[s] \in Bytes /\ T(frames)[s] \in Bytes
    BY <1>5
  <2> QED BY <2>1, JoinedTyped DEF ToldMore
<1> QED BY <1>5, <1>6 DEF A, T

(* The output o, collected from what the demuxer d has read.               *)
Followed(w, n, d, o, b) ==
  \E told \in [Stream -> Bytes] : ReadTo(w, n, d, told, b) /\ KeptOf(o, told["stdout"])

(* The output is a beginning of what was written, and cut if it says so.   *)
FitsIn(o, w) ==
  LET all == WrittenTo(w, "stdout")
  IN  /\ IsPrefix(o.stdout, all) /\ ByteLength(o.stdout) <= o.maxStdout
      /\ o.truncated => Len(o.stdout) < Len(all)

(* A part is shorter than the whole.                                       *)
LEMMA PartShorter ==
  ASSUME NEW a \in Bytes, NEW v \in Bytes, v # <<>> PROVE Len(a) < Len(a \o v)
<1>1. a \in Seq(Nat) /\ v \in Seq(Nat)
  BY DEF Bytes
<1>2. Len(a \o v) = Len(a) + Len(v) /\ Len(a) \in Nat /\ Len(v) \in Nat
  BY <1>1
<1>3. Len(v) # 0
  BY <1>1, EmptySeq
<1> QED BY <1>2, <1>3

(* While the output is read it fits.                                       *)
LEMMA FollowedFits ==
  ASSUME NEW w \in Seq(WriteOf), NEW n \in 0 .. Len(w), NEW d, NEW o \in Output, NEW b, Followed(w, n, d, o, b)
  PROVE  FitsIn(o, w)
<1> DEFINE s == "stdout"
           all == WrittenTo(w, s)
<1>1. PICK told \in [Stream -> Bytes] : ReadTo(w, n, d, told, b) /\ KeptOf(o, told[s])
  BY DEF Followed
<1>2. s \in Stream /\ told[s] \in Bytes /\ o.stdout \in Bytes
  BY DEF Stream, Output
<1>3. PICK v \in Bytes : all = told[s] \o v
  <2> HIDE DEF s
  <2> QED BY <1>1, <1>2, ReadPrefix
<1>4. PICK u \in Bytes : told[s] = o.stdout \o u /\ (o.truncated => u # <<>>)
  <2>1. CASE o.truncated
    BY <1>1, <2>1 DEF KeptOf
  <2>2. CASE ~o.truncated
    <3>1. told[s] = o.stdout /\ o.stdout = o.stdout \o <<>> /\ <<>> \in Bytes
      BY <1>1, <1>2, <2>2 DEF KeptOf, Bytes
    <3> QED BY <2>2, <3>1
  <2> QED BY <2>1, <2>2
<1> DEFINE x == u \o v
           a == o.stdout
<1>5. all = a \o x
  <2>1. Rejoined(a, u, v)
    BY <1>2, Rejoins, Zenon
  <2>2. (a \o u) \o v = a \o (u \o v)
    BY ONLY <2>1 DEF Rejoined
  <2> QED BY <1>3, <1>4, <2>2
<1>6. x \in Bytes
  BY ONLY u \in Bytes, v \in Bytes, JoinedTyped
<1>7. o.truncated => x # <<>>
  <2>1. u \in Seq(Nat) /\ v \in Seq(Nat)
    BY DEF Bytes
  <2>2. u # <<>> => u \o v # <<>>
    BY ONLY <2>1, ConcatEqualIffEmpty, SMTT(30)
  <2> QED BY <1>4, <2>2
<1>8. a \in Bytes
  BY <1>2
<1> HIDE DEF x, a, all
<1>9. o.truncated => Len(a) < Len(all)
  BY <1>5, <1>6, <1>7, <1>8, PartShorter
<1>10. IsPrefix(a, all)
  <2>1. a \in Seq(Nat) /\ x \in Seq(Nat)
    BY <1>6, <1>8 DEF Bytes
  <2>2. IsPrefix(a, a \o x)
    BY ONLY <2>1, PrefixOfJoined
  <2> QED BY <1>5, <2>2
<1>11. ByteLength(o.stdout) <= o.maxStdout
  BY <1>1 DEF KeptOf
<1> QED BY <1>9, <1>10, <1>11 DEF FitsIn, a, all

(* A chunk is read and collected.                                          *)
LEMMA FollowedTakes ==
  ASSUME NEW w \in Seq(WriteOf), NEW n \in 0 .. Len(w), NEW d \in Demux, NEW o \in Output,
         NEW chunk \in Bytes, NEW rest \in Bytes, Followed(w, n, d, o, chunk \o rest)
  PROVE  LET e == Push(d, chunk)
             p == Collect(o, e.frames)
         IN  e \in Demux /\ ~Complete(e.buffer) /\ p \in Output /\ p.maxStdout = o.maxStdout /\ Followed(w, n, e, p, rest)
<1> DEFINE e == Push(d, chunk)
           p == Collect(o, e.frames)
<1>1. PICK told \in [Stream -> Bytes] : ReadTo(w, n, d, told, chunk \o rest) /\ KeptOf(o, told["stdout"])
  BY DEF Followed
<1> DEFINE m == ToldMore(told, Texts(e.frames))
<1>2. e \in Demux /\ ~Complete(e.buffer) /\ ReadTo(w, n, e, m, rest)
  BY <1>1, ReadTakes
<1> HIDE DEF e
<1>3. e.frames \in Seq(Item)
  BY <1>2 DEF Demux
<1>4. Adds(o, p) /\ m \in [Stream -> Bytes] /\ KeptOf(p, m["stdout"])
  BY <1>1, <1>3, Collects
<1> HIDE DEF m, p
<1>5. Followed(w, n, e, p, rest)
  BY <1>2, <1>4 DEF Followed
<1>6. p \in Output /\ p.maxStdout = o.maxStdout
  BY <1>4 DEF Adds
<1> QED BY <1>2, <1>5, <1>6 DEF e, p

(* What the decoders hold at the end is collected, or the cap cuts it off. *)
LEMMA FlushKept ==
  ASSUME NEW d \in Demux, NEW told \in [Stream -> Bytes], NEW o \in Output, KeptOf(o, told["stdout"]), ~o.truncated
  PROVE  LET p == Collect(o, FlushedFrames(d))
             t == told["stdout"]
             end == EndOf(d.lead["stdout"])
         IN  /\ p \in Output /\ p.maxStdout = o.maxStdout /\ ByteLength(p.stdout) <= p.maxStdout
             /\ ~p.truncated => p.stdout = t \o end
             /\ p.truncated => p.stdout = t /\ d.lead["stdout"] /\ t \o end = Append(p.stdout, Replacement)
<1> DEFINE s == "stdout"
           f == FlushedFrames(d)
           p == Collect(o, f)
           t == told[s]
           end == EndOf(d.lead[s])
           m == ToldMore(told, Texts(f))
<1>1. s \in Stream /\ t \in Bytes /\ end \in Bytes /\ o.stdout = t /\ d.lead[s] \in BOOLEAN
  BY EndTyped DEF Stream, KeptOf, Demux
<1>2. f \in Seq(Item) /\ Texts(f)[s] = end
  BY <1>1, FlushedTexts
<1> HIDE DEF f
<1>3. Adds(o, p) /\ KeptOf(p, m[s])
  BY <1>2, Collects
<1>4. m[s] = t \o end
  BY <1>1, <1>2 DEF ToldMore
<1> HIDE DEF p, m
<1>5. p \in Output /\ p.maxStdout = o.maxStdout /\ ByteLength(p.stdout) <= p.maxStdout
  BY <1>3 DEF Adds, KeptOf
<1>6. ~p.truncated => p.stdout = t \o end
  BY <1>3, <1>4 DEF KeptOf
<1>7. ASSUME p.truncated PROVE p.stdout = t /\ d.lead[s] /\ t \o end = Append(p.stdout, Replacement)
  <2>1. PICK u \in Bytes : p.stdout = t \o u
    BY <1>1, <1>3 DEF Adds
  <2>2. PICK v \in Bytes : v # <<>> /\ m[s] = p.stdout \o v
    BY <1>3, <1>7 DEF KeptOf
  <2> HIDE DEF t, end
  <2>3. t \o (u \o v) = t \o end
    <3>1. Rejoined(t, u, v)
      BY <1>1, Rejoins, Zenon
    <3>2. (t \o u) \o v = t \o (u \o v)
      BY ONLY <3>1 DEF Rejoined
    <3> QED BY <1>4, <2>1, <2>2, <3>2
  <2>4. u \o v \in Bytes
    BY ONLY u \in Bytes, v \in Bytes, JoinedTyped
  <2>5. u \o v = end
    BY ONLY <1>1, <2>3, <2>4, JoinedCancels
  <2>6. u \in Seq(Nat) /\ v \in Seq(Nat) /\ t \in Seq(Nat)
    BY <1>1 DEF Bytes
  <2>7. Len(u) + Len(v) = Len(end) /\ Len(u) \in Nat /\ Len(v) \in Nat /\ Len(v) # 0
    <3>1. Len(u \o v) = Len(u) + Len(v) /\ Len(u) \in Nat /\ Len(v) \in Nat
      BY <2>6
    <3>2. Len(v) # 0
      BY <2>2, <2>6, EmptySeq
    <3> QED BY <2>5, <3>1, <3>2
  <2>8. d.lead[s] /\ end = <<Replacement>> /\ Len(end) = 1
    <3>1. CASE d.lead[s]
      BY <3>1 DEF EndOf, end
    <3>2. CASE ~d.lead[s]
      <4>1. Len(end) = 0
        BY <3>2 DEF EndOf, end
      <4> QED BY <2>7, <4>1
    <3> QED BY <1>1, <3>1, <3>2
  <2>9. Len(u) = 0
    BY <2>7, <2>8
  <2>10. u = <<>>
    BY <2>6, <2>9, EmptySeq
  <2>11. p.stdout = t
    BY <2>1, <2>6, <2>10
  <2>12. t \o <<Replacement>> = Append(t, Replacement)
    BY <2>6, AppendIsConcat DEF Replacement
  <2> QED BY <2>8, <2>11, <2>12
<1> QED BY <1>5, <1>6, <1>7 DEF p, f

(* The output is whole, but for the mark that the cap has no room for.     *)
Whole(o, w) ==
  LET all == WrittenTo(w, "stdout")
  IN  o.stdout = all \/ (o.truncated /\ all = Append(o.stdout, Replacement))

(* A text is a beginning of another, or one with the mark behind it.       *)
StartsLike(t, all) ==
  IsPrefix(t, all) \/ \E n \in 0 .. Len(all) : t = Append(SubSeq(all, 1, n), Replacement)

(* A part at the beginning, as a cut of the whole.                         *)
LEMMA CutOfJoined ==
  ASSUME NEW a \in Bytes, NEW b \in Bytes PROVE Len(a) \in 0 .. Len(a \o b) /\ a = SubSeq(a \o b, 1, Len(a))
<1> DEFINE c == a \o b
<1>1. a \in Seq(Nat) /\ b \in Seq(Nat)
  BY DEF Bytes
<1>2. c \in Seq(Nat) /\ Len(c) = Len(a) + Len(b) /\ \A i \in 1 .. Len(a) : c[i] = a[i]
  BY ONLY <1>1, JoinedPlaces
<1>3. Len(a) \in Nat /\ Len(b) \in Nat
  BY <1>1
<1> HIDE DEF c
<1> DEFINE e == SubSeq(c, 1, Len(a))
<1>4. Len(a) \in 0 .. Len(c)
  BY <1>2, <1>3
<1>5. e \in Seq(Nat) /\ Len(e) = Len(a) /\ \A i \in 1 .. Len(a) : e[i] = a[i]
  BY ONLY <1>1, <1>2, <1>3, <1>4, SMTT(30)
<1> HIDE DEF e
<1>6. e = a
  BY ONLY <1>1, <1>5, SeqEqual
<1> QED BY <1>4, <1>6 DEF c, e

(* The output ends: all of it when everything was sent and read.           *)
LEMMA FollowedEnds ==
  ASSUME NEW w \in Seq(WriteOf), NEW n \in 0 .. Len(w), NEW d \in Demux, NEW o \in Output, NEW b,
         Followed(w, n, d, o, b), ~o.truncated, ~Complete(d.buffer)
  PROVE  LET p == Collect(o, FlushedFrames(d))
             all == WrittenTo(w, "stdout")
         IN  /\ p \in Output /\ p.maxStdout = o.maxStdout /\ ByteLength(p.stdout) <= p.maxStdout
             /\ p.truncated => Len(p.stdout) < Len(all)
             /\ StartsLike(p.stdout, all)
             /\ n = Len(w) /\ b = <<>> => IsPrefix(p.stdout, all) /\ Whole(p, w)
<1> DEFINE s == "stdout"
           all == WrittenTo(w, s)
           p == Collect(o, FlushedFrames(d))
<1>1. PICK told \in [Stream -> Bytes] : ReadTo(w, n, d, told, b) /\ KeptOf(o, told[s])
  BY DEF Followed
<1> DEFINE t == told[s]
           end == EndOf(d.lead[s])
<1>2. /\ p \in Output /\ p.maxStdout = o.maxStdout /\ ByteLength(p.stdout) <= p.maxStdout
      /\ ~p.truncated => p.stdout = t \o end
      /\ p.truncated => p.stdout = t /\ d.lead[s] /\ t \o end = Append(p.stdout, Replacement)
  BY <1>1, FlushKept
<1> HIDE DEF p
<1>3. s \in Stream /\ t \in Bytes /\ end \in Bytes /\ p.stdout \in Bytes
  BY <1>2, EndTyped DEF Stream, Output
<1>4. PICK v \in Bytes : all = t \o v /\ (d.lead[s] => v # <<>>)
  <2> HIDE DEF s
  <2>1. ReadTo(w, n, d, told, b) /\ s \in Stream
    BY <1>1, <1>3
  <2>2. \E v \in Bytes : WrittenTo(w, s) = told[s] \o v /\ (d.lead[s] => v # <<>>)
    BY <2>1, ReadPrefix
  <2> QED BY <2>2
<1> HIDE DEF t, end
<1>5. p.truncated => Len(p.stdout) < Len(all)
  <2>1. ASSUME p.truncated PROVE Len(p.stdout) < Len(all)
    <3>1. v # <<>>
      BY <1>2, <1>4, <2>1
    <3>2. Len(t) < Len(t \o v)
      BY <1>3, <3>1, PartShorter
    <3> QED BY <1>2, <1>4, <2>1, <3>2
  <2> QED BY <2>1
<1>6. ASSUME n = Len(w), b = <<>> PROVE IsPrefix(p.stdout, all) /\ Whole(p, w)
  <2>1. all = t \o end
    <3> HIDE DEF s
    <3>1. ReadTo(w, Len(w), d, told, <<>>)
      BY <1>1, <1>6
    <3> QED BY <1>3, <3>1, ReadAll DEF t, end
  <2>2. Whole(p, w)
    <3>1. p.truncated \in BOOLEAN
      BY <1>2 DEF Output
    <3> QED BY <1>2, <2>1, <3>1 DEF Whole
  <2>3. \E x \in Bytes : all = p.stdout \o x
    <3>1. CASE p.truncated
      BY <1>2, <1>3, <2>1, <3>1
    <3>2. CASE ~p.truncated
      <4>1. p.stdout = p.stdout \o <<>> /\ <<>> \in Bytes
        BY <1>3 DEF Bytes
      <4> QED BY <1>2, <2>1, <3>2, <4>1
    <3> QED BY <3>1, <3>2
  <2>4. PICK x \in Bytes : all = p.stdout \o x
    BY <2>3
  <2> HIDE DEF all
  <2> DEFINE a == p.stdout
  <2>5. a \in Seq(Nat) /\ x \in Seq(Nat)
    BY <1>3 DEF Bytes
  <2> HIDE DEF a
  <2>6. IsPrefix(a, a \o x)
    BY ONLY <2>5, PrefixOfJoined
  <2> QED BY <2>2, <2>4, <2>6 DEF a
<1>7. StartsLike(p.stdout, all)
  <2>1. t \in Seq(Nat) /\ v \in Seq(Nat)
    BY <1>3 DEF Bytes
  <2> HIDE DEF all
  <2>2. IsPrefix(t, all)
    <3>1. IsPrefix(t, t \o v)
      BY ONLY <2>1, PrefixOfJoined
    <3> QED BY <1>4, <3>1
  <2>3. Len(t) \in 0 .. Len(all) /\ t = SubSeq(all, 1, Len(t))
    <3>1. Len(t) \in 0 .. Len(t \o v) /\ t = SubSeq(t \o v, 1, Len(t))
      BY <1>3, CutOfJoined
    <3> QED BY <1>4, <3>1
  <2>4. end = <<>> \/ end = <<Replacement>>
    BY DEF end, EndOf
  <2>5. p.stdout = t \/ p.stdout = t \o end
    BY <1>2 DEF Output
  <2>6. t \o <<>> = t /\ t \o <<Replacement>> = Append(t, Replacement)
    BY <2>1, AppendIsConcat DEF Replacement
  <2>7. p.stdout = t \/ p.stdout = Append(t, Replacement)
    BY <2>4, <2>5, <2>6
  <2> QED BY <2>2, <2>3, <2>7 DEF StartsLike
<1> QED BY <1>2, <1>5, <1>6, <1>7 DEF p

(* How many writes the process has made; the first step of one with stdin  *)
(* is to read that.                                                        *)
Made == IF HasStdin /\ exec.written # 0 THEN exec.written - 1 ELSE exec.written

LinkShape ==
  /\ link.phase \in {"none", "connecting", "open", "closed", "lost", "broken"}
  /\ link = [phase |-> link.phase, pending |-> link.pending, received |-> link.received, queued |-> link.queued,
             eof |-> link.eof, answer |-> link.answer, wire |-> link.wire, ended |-> link.ended]
ExecShape == exec = [state |-> exec.state, written |-> exec.written, stdin |-> exec.stdin, code |-> exec.code]
ClientShape ==
  client = [at |-> client.at, reason |-> client.reason, started |-> client.started, demux |-> client.demux,
            output |-> client.output, result |-> client.result]

(* The process and its connection: nothing starts before the request is    *)
(* there, and the end of the output follows the last write.                *)
ProcessInv ==
  /\ job \in Jobs /\ LinkShape /\ ExecShape
  /\ exec.written \in Nat /\ Made \in 0 .. Len(job.writes)
  /\ exec.state \in {"absent", "created"} => exec.written = 0
  /\ exec.state \in {"ending", "exited"} => Made = Len(job.writes)
  /\ exec.state = "exited" => exec.code = job.exit
  /\ exec.state = "killed" => exec.code = 137
  /\ link.phase \in {"none", "connecting"} => link.received = <<>> /\ exec.state \in {"absent", "created"}
  /\ link.ended => link.phase \notin {"none", "connecting"} /\ exec.state \in {"ending", "exited", "killed"}

Early == client.at \in {"idle", "checkSeed", "readSeed", "locate", "create", "start"}
Reading == Early \/ client.at \in {"opening", "read"}

Gone == link.phase \in {"lost", "broken"}

(* Until the loop ends, all that was written is in the output, the demuxer *)
(* or on the way; or lost with the connection, from somewhere on.          *)
InTouch ==
  /\ link.phase # "closed" /\ link.wire \in Bytes
  /\ client.demux \in Demux /\ ~Complete(client.demux.buffer)
  /\ client.output \in Output /\ client.output.maxStdout = job.cap /\ ~client.output.truncated
  /\ \E n \in 0 .. Made, x \in Bytes :
       /\ Followed(job.writes, n, client.demux, client.output, link.wire \o x)
       /\ Gone \/ (n = Made /\ x = <<>>)

(* An output that may be returned.                                         *)
Sound(o) ==
  LET all == WrittenTo(job.writes, "stdout")
  IN  /\ IsPrefix(o.stdout, all) \/ ((exec.state = "killed" \/ link.phase = "lost") /\ StartsLike(o.stdout, all))
      /\ ByteLength(o.stdout) <= job.cap
      /\ o.truncated => Len(o.stdout) < Len(all)

(* One that may be returned with an exit code.                             *)
Final(o) == Sound(o) /\ (exec.state # "killed" /\ link.phase # "lost" => Whole(o, job.writes))

ResultSound(r) ==
  r.kind = "result" =>
    /\ Sound(r.output)
    /\ r.exit = 0 => exec.state = "exited" /\ job.exit = 0
    /\ r.exit >= 0 =>
         /\ exec.state \in {"exited", "killed"}
         /\ exec.state = "exited" /\ link.phase # "lost" => Whole(r.output, job.writes)

ClientInv ==
  /\ ClientShape
  /\ Early => link = NewLink
  /\ Reading => InTouch
  /\ client.at = "read" => link.phase = "open" \/ Gone
  /\ client.at = "code" => (link.ended \/ link.phase = "lost") /\ Final(client.output)
  /\ client.at # "opening" => link.phase # "connecting"
  /\ ResultSound(client.result)

ExecInv == ProcessInv /\ ClientInv

(* What a command is.                                                      *)
LEMMA JobTyped ==
  ASSUME job \in Jobs
  PROVE  job.writes \in Seq(WriteOf) /\ Len(job.writes) \in Nat /\ job.exit \in Nat /\ job.cap \in Nat /\ StderrCap \in Nat
<1>1. job.writes \in Seq([stream : Stream, bytes : Seq(Nat)]) /\ job.exit \in Nat /\ job.cap \in Nat /\ StderrCap \in Nat
  BY JobsAssumption
<1>2. job.writes \in Seq(WriteOf)
  BY <1>1 DEF WriteOf, Bytes
<1> QED BY <1>1, <1>2

(* A step of the client's connection, while the process does nothing.      *)
LinkMoves ==
  /\ job' = job /\ exec' = exec /\ LinkShape' /\ link'.ended = link.ended
  /\ link'.phase \in {"none", "connecting"} => link.phase \in {"none", "connecting"} /\ link'.received = link.received

(* Such a step keeps the process as it is.                                 *)
LEMMA MovesKeep == ASSUME ProcessInv, LinkMoves PROVE ProcessInv'
BY DEF ProcessInv, LinkMoves, ExecShape, Made, HasStdin

(* Such is the step that does not touch the connection.                    *)
LEMMA SameMoves == ASSUME ProcessInv, job' = job, exec' = exec, link' = link PROVE LinkMoves
BY DEF ProcessInv, LinkMoves, LinkShape

(* A process that is over stays so, and so does a lost connection.         *)
Lasts ==
  /\ job' = job
  /\ link.phase = "lost" => link'.phase = "lost"
  /\ exec.state = "killed" => exec'.state = "killed"
  /\ exec.state = "exited" => exec'.state = "exited"

(* An output that may be returned still may be later.                      *)
LEMMA SoundLasts ==
  ASSUME Lasts, NEW o PROVE (Sound(o) => Sound(o)') /\ (Final(o) => Final(o)')
BY DEF Lasts, Sound, Final

(* So may a result.                                                        *)
LEMMA ResultLasts ==
  ASSUME Lasts, NEW r, ResultSound(r) PROVE ResultSound(r)'
<1>1. r.kind = "result" => Sound(r.output)'
  BY SoundLasts DEF ResultSound
<1> QED BY <1>1 DEF ResultSound, Lasts

(* A step that leaves alone what was read.                                 *)
ReadsNothing ==
  /\ Lasts /\ ClientShape'
  /\ client'.demux = client.demux /\ client'.output = client.output /\ client'.result = client.result
  /\ Early' => Early /\ link' = link
  /\ Reading' => /\ Reading /\ link'.phase # "closed" /\ link'.wire = link.wire /\ Made' = Made
                 /\ Gone => Gone'
  /\ client'.at = "read" => link'.phase = "open" \/ Gone'
  /\ client'.at = "code" => client.at = "code" /\ (link.ended => link'.ended)
  /\ client'.at # "opening" => link'.phase # "connecting"

(* It keeps what is known of it.                                           *)
LEMMA NothingKeeps == ASSUME ClientInv, ReadsNothing PROVE ClientInv'
<1>1. Lasts /\ job' = job /\ ClientShape' /\ client'.demux = client.demux /\ client'.output = client.output
      /\ client'.result = client.result
  BY DEF ReadsNothing, Lasts
<1>2. Early' => (link = NewLink)'
  BY DEF ReadsNothing, ClientInv, NewLink
<1>3. ASSUME Reading' PROVE InTouch'
  <2>1. InTouch /\ link'.phase # "closed" /\ link'.wire = link.wire /\ Made' = Made
        /\ (Gone => Gone')
    BY <1>3 DEF ReadsNothing, ClientInv
  <2> QED BY <1>1, <2>1 DEF InTouch
<1>4. client'.at = "code" => (link'.ended \/ link'.phase = "lost") /\ Final(client.output)'
  BY <1>1, SoundLasts DEF ReadsNothing, ClientInv, Lasts
<1>5. ResultSound(client.result)'
  BY <1>1, ResultLasts DEF ClientInv
<1>6. (client'.at = "read" => link'.phase = "open" \/ Gone') /\ (client'.at # "opening" => link'.phase # "connecting")
  BY DEF ReadsNothing
<1> QED BY <1>1, <1>2, <1>3, <1>4, <1>5, <1>6 DEF ClientInv

(* What was collected so far may be returned.                              *)
LEMMA OutputSound ==
  ASSUME ProcessInv, ClientInv, Reading PROVE Sound(client.output)
<1> DEFINE w == job.writes
           o == client.output
           d == client.demux
<1>1. w \in Seq(WriteOf) /\ Len(w) \in Nat /\ Made \in 0 .. Len(w)
  BY JobTyped DEF ProcessInv
<1>2. InTouch
  BY DEF ClientInv
<1>3. o \in Output /\ o.maxStdout = job.cap /\ \E n \in 0 .. Made, x \in Bytes : Followed(w, n, d, o, link.wire \o x)
  BY <1>2 DEF InTouch
<1> HIDE DEF w, o, d
<1>4. PICK n \in 0 .. Len(w), x \in Bytes : Followed(w, n, d, o, link.wire \o x)
  BY <1>1, <1>3
<1>5. FitsIn(o, w)
  BY <1>1, <1>3, <1>4, FollowedFits
<1> QED BY <1>3, <1>5 DEF FitsIn, Sound, o, w

(* A run that returns.                                                     *)
LEMMA ReturnKeeps ==
  ASSUME ClientShape', client'.at \in {"kill", "done"}, ResultSound(client.result)', link'.phase # "connecting"
  PROVE  ClientInv'
BY DEF ClientInv, Reading, Early

(* The `finally` keeps what is known, if its result is sound.              *)
LEMMA FinishKeeps ==
  ASSUME ExecInv, NEW r, ResultSound(r), Finish(r), job' = job, exec' = exec, link.phase # "connecting" PROVE ExecInv'
<1>1. ClientShape /\ LinkShape /\ ProcessInv /\ ClientInv
  BY DEF ExecInv, ClientInv, ProcessInv
<1> DEFINE at == IF ExecEnded /\ client.started THEN "kill" ELSE "done"
           phase == IF link.phase = "open" THEN "closed" ELSE link.phase
<1>2. at \in {"kill", "done"}
  OBVIOUS
<1>3. client' = [client EXCEPT !.result = r, !.at = at]
  BY DEF Finish
<1>4. link' = [link EXCEPT !.phase = phase]
  <2>1. link' = [link EXCEPT !.phase = IF @ = "open" THEN "closed" ELSE @]
    BY DEF Finish
  <2> QED BY <1>1, <2>1 DEF LinkShape
<1> HIDE DEF at
<1>5. ClientShape' /\ client'.at = at /\ client'.result = r
  BY <1>1, <1>3 DEF ClientShape
<1>6. LinkMoves
  <2>1. LinkShape' /\ link'.ended = link.ended /\ link'.received = link.received /\ link'.phase = phase
    <3>1. phase \in {"none", "connecting", "open", "closed", "lost", "broken"}
      BY <1>1 DEF LinkShape
    <3> HIDE DEF phase
    <3> QED BY <1>1, <1>4, <3>1 DEF LinkShape
  <2>2. link'.phase \in {"none", "connecting"} => link.phase \in {"none", "connecting"}
    BY <2>1
  <2> QED BY <2>1, <2>2 DEF LinkMoves
<1>7. ProcessInv'
  BY <1>1, <1>6, MovesKeep
<1>8. link'.phase = phase
  <2> HIDE DEF phase
  <2> QED BY <1>1, <1>4 DEF LinkShape
<1>9. ResultSound(client.result)'
  <2>1. Lasts
    BY <1>8 DEF Lasts
  <2> QED BY <1>5, <2>1, ResultLasts
<1>10. ClientInv'
  BY <1>2, <1>5, <1>8, <1>9, ReturnKeeps
<1> QED BY <1>7, <1>10 DEF ExecInv

(* So it does when the run is stopped while it reads.                      *)
LEMMA KilledKeeps ==
  ASSUME ExecInv, Reading, Finish(Killed), job' = job, exec' = exec, link.phase # "connecting" PROVE ExecInv'
<1>1. Sound(client.output)
  BY OutputSound DEF ExecInv
<1>2. ResultSound(Killed)
  BY <1>1 DEF ResultSound, Killed
<1> QED BY <1>2, FinishKeeps

(* And when it throws.                                                     *)
LEMMA ThrownKeeps ==
  ASSUME ExecInv, NEW c, Finish(Thrown(c)), job' = job, exec' = exec, link.phase # "connecting" PROVE ExecInv'
<1>1. ResultSound(Thrown(c))
  BY DEF ResultSound, Thrown
<1> QED BY <1>1, FinishKeeps

(* The steps that end a run without an exit code.                          *)
Stops == CreateStopped \/ StartStopped \/ OpenStopped \/ ReadStopped \/ (Located /\ ExecEnded)
Throws == \/ LocateFails \/ CreateRefused \/ CreateFails \/ StartRefused \/ OpenFails \/ ReadFails \/ ExitUnknown

(* Each is one that is stopped or one that throws, with no connection in   *)
(* the making.                                                             *)
LEMMA EndsAre ==
  ASSUME Stops \/ Throws
  PROVE  /\ job' = job /\ exec' = exec /\ (client.at = "opening" => link.phase # "connecting")
         /\ Stops => client.at \in {"locate", "create", "start", "opening", "read"} /\ Finish(Killed)
         /\ Throws => \E c : Finish(Thrown(c))
<1>1. CASE Stops
  BY <1>1 DEF Stops, Throws, CreateStopped, StartStopped, OpenStopped, ReadStopped, Located,
       LocateFails, CreateRefused, CreateFails, StartRefused, OpenFails, ReadFails, ExitUnknown
<1>2. CASE Throws
  BY <1>2 DEF Stops, Throws, CreateStopped, StartStopped, OpenStopped, ReadStopped, Located,
       LocateFails, CreateRefused, CreateFails, StartRefused, OpenFails, ReadFails, ExitUnknown
<1> QED BY <1>1, <1>2

LEMMA EndsKeep == ASSUME ExecInv, Stops \/ Throws PROVE ExecInv'
<1>1. job' = job /\ exec' = exec /\ link.phase # "connecting"
  BY EndsAre DEF ExecInv, ClientInv
<1>2. CASE Stops
  <2>1. Reading /\ Finish(Killed)
    BY <1>2, EndsAre DEF Reading, Early
  <2> QED BY <1>1, <2>1, KilledKeeps
<1>3. CASE Throws
  <2>1. PICK c : Finish(Thrown(c))
    BY <1>3, EndsAre
  <2> QED BY <1>1, <2>1, ThrownKeeps
<1> QED BY <1>2, <1>3

(* The exit code, when the process has ended.                              *)
LEMMA CodeKeeps == ASSUME ExecInv, ExitCode PROVE ExecInv'
<1> DEFINE r == [kind |-> "result", output |-> client.output, timedOut |-> FALSE,
                 exit |-> IF exec.state \in {"exited", "killed"} THEN exec.code ELSE -1]
<1>1. client.at = "code" /\ Finish(r) /\ job' = job /\ exec' = exec
  BY DEF ExitCode
<1>2. link.phase # "connecting"
  BY <1>1 DEF ExecInv, ClientInv
<1>3. ResultSound(r)
  <2>1. /\ Final(client.output) /\ job.exit \in Nat
        /\ exec.state = "exited" => exec.code = job.exit
        /\ exec.state = "killed" => exec.code = 137
    BY <1>1, JobTyped DEF ExecInv, ClientInv, ProcessInv
  <2>2. r.output = client.output /\ r.exit = IF exec.state \in {"exited", "killed"} THEN exec.code ELSE -1
    OBVIOUS
  <2> HIDE DEF r
  <2>3. r.exit = 0 => exec.state = "exited" /\ job.exit = 0
    BY <2>1, <2>2
  <2>4. r.exit >= 0 => exec.state \in {"exited", "killed"}
    BY <2>2
  <2>5. Sound(r.output) /\ (exec.state = "exited" /\ link.phase # "lost" => Whole(r.output, job.writes))
    BY <2>1, <2>2 DEF Final
  <2> QED BY <2>3, <2>4, <2>5 DEF ResultSound
<1> HIDE DEF r
<1> QED BY <1>1, <1>2, <1>3, FinishKeeps

(* A step that reads nothing, over a connection that moves or not.         *)
LEMMA QuietKeeps == ASSUME ExecInv, LinkMoves, ReadsNothing PROVE ExecInv'
BY MovesKeep, NothingKeeps DEF ExecInv

(* The client goes on: its connection is left alone.                       *)
LEMMA ClientSteps ==
  ASSUME ExecInv, job' = job, link' = link, exec' = exec, ClientShape',
         client'.demux = client.demux, client'.output = client.output, client'.result = client.result,
         \/ client'.at = client.at
         \/ client.at # "opening" /\ client'.at \in {"kill", "done", "told"}
         \/ Early /\ client'.at \in {"checkSeed", "readSeed", "locate", "create", "start"}
  PROVE  ExecInv'
<1>1. ProcessInv /\ ClientInv
  BY DEF ExecInv
<1>2. LinkMoves
  BY <1>1, SameMoves
<1>3. Lasts
  BY DEF Lasts
<1>4. (Early' => Early) /\ (Reading' => Reading /\ link.phase # "closed") /\ Made' = Made
  BY <1>1 DEF Early, Reading, ClientInv, InTouch, Made, HasStdin
<1>5. (client'.at = "read" => client.at = "read" /\ (link.phase = "open" \/ Gone)) /\ (client'.at = "code" => client.at = "code")
  BY <1>1 DEF ClientInv
<1>6. (client'.at # "opening" => link.phase # "connecting") /\ (Gone' <=> Gone)
  BY <1>1 DEF ClientInv, Gone, Early
<1>7. ReadsNothing
  BY <1>3, <1>4, <1>5, <1>6 DEF ReadsNothing
<1> QED BY <1>2, <1>7, QuietKeeps

(* The steps of the client alone.                                          *)
LEMMA ClientKeeps ==
  ASSUME ExecInv,
         \/ Load \/ CheckSeedFile \/ ReadSeedFile \/ SeedFileChanges \/ Answer
         \/ Created \/ (Located /\ ~ExecEnded) \/ \E why : Interrupt(why)
  PROVE  ExecInv'
<1>1. ClientShape
  BY DEF ExecInv, ClientInv
<1>2. CASE Interrupt(client'.reason) \/ (\E why : Interrupt(why))
  <2>1. job' = job /\ link' = link /\ exec' = exec /\ \E why : client' = [client EXCEPT !.reason = why]
    BY <1>2 DEF Interrupt
  <2>2. PICK why : client' = [client EXCEPT !.reason = why]
    BY <2>1
  <2>3. ClientShape' /\ client'.demux = client.demux /\ client'.output = client.output
        /\ client'.result = client.result /\ client'.at = client.at
    BY <1>1, <2>2 DEF ClientShape
  <2> QED BY <2>1, <2>3, ClientSteps
<1>3. CASE SeedFileChanges
  <2>1. job' = job /\ link' = link /\ exec' = exec /\ client' = client
    BY <1>3 DEF SeedFileChanges, execVars
  <2>2. ClientShape'
    BY <1>1, <2>1 DEF ClientShape
  <2> QED BY <2>1, <2>2, ClientSteps
<1>4. CASE Created
  <2>1. job' = job /\ link' = link /\ exec' = exec /\ client.at = "create"
        /\ client' = [client EXCEPT !.at = "start", !.started = TRUE]
    BY <1>4 DEF Created
  <2>2. ClientShape' /\ client'.demux = client.demux /\ client'.output = client.output
        /\ client'.result = client.result /\ client'.at = "start"
    BY <1>1, <2>1 DEF ClientShape
  <2> QED BY <2>1, <2>2, ClientSteps DEF Early
<1>5. CASE Load \/ CheckSeedFile \/ ReadSeedFile \/ Answer \/ (Located /\ ~ExecEnded)
  <2>1. /\ job' = job /\ link' = link /\ exec' = exec
        /\ \E at : /\ client' = [client EXCEPT !.at = at]
                   /\ (at = "told" /\ client.at # "opening") \/ (Early /\ at \in {"checkSeed", "readSeed", "locate", "create", "start"})
    <3>1. CASE Load
      BY <3>1 DEF Load, Tell, Early
    <3>2. CASE CheckSeedFile
      BY <3>2 DEF CheckSeedFile, Tell, Early
    <3>3. CASE ReadSeedFile
      BY <3>3 DEF ReadSeedFile, Tell, Early
    <3>4. CASE Answer
      BY <3>4 DEF Answer, Tell
    <3>5. CASE Located /\ ~ExecEnded
      BY <3>5 DEF Located, Early
    <3> QED BY <1>5, <3>1, <3>2, <3>3, <3>4, <3>5
  <2>2. PICK at : /\ client' = [client EXCEPT !.at = at]
                  /\ (at = "told" /\ client.at # "opening") \/ (Early /\ at \in {"checkSeed", "readSeed", "locate", "create", "start"})
    BY <2>1
  <2>3. ClientShape' /\ client'.demux = client.demux /\ client'.output = client.output
        /\ client'.result = client.result /\ client'.at = at
    BY <1>1, <2>2 DEF ClientShape
  <2> QED BY <2>1, <2>2, <2>3, ClientSteps
<1> QED BY <1>2, <1>3, <1>4, <1>5

(* The connection alone moves, and what is on the wire does not: flushed   *)
(* requests, and the end of stdin.                                         *)
LEMMA LinkOnly ==
  ASSUME ExecInv, LinkMoves, client' = client, link'.wire = link.wire, ~Early,
         link.phase = "open", link'.phase = "open"
  PROVE  ExecInv'
<1>1. ClientInv
  BY DEF ExecInv
<1>2. ClientShape' /\ Lasts /\ Made' = Made /\ link'.ended = link.ended
  BY <1>1 DEF ClientInv, ClientShape, Lasts, LinkMoves, Made, HasStdin
<1>3. ~Early'
  BY DEF Early
<1>4. Reading' => Reading
  BY DEF Reading, Early
<1>5. ReadsNothing
  BY <1>2, <1>3, <1>4 DEF ReadsNothing, Gone
<1> QED BY <1>5, QuietKeeps

LEMMA LinkKeeps ==
  ASSUME ExecInv, Shutdown \/ (\E n \in 1 .. Len(link.pending) : Flush(n)) PROVE ExecInv'
<1>1. LinkShape /\ ProcessInv /\ ClientInv
  BY DEF ExecInv, ProcessInv
<1>2. ~Early
  <2>1. NewLink.phase = "none"
    BY DEF NewLink
  <2>2. link.phase # "none"
    BY DEF Shutdown, Flush
  <2> QED BY <1>1, <2>1, <2>2 DEF ClientInv
<1>3. CASE Shutdown
  <2>1. link.phase = "open" /\ client' = client /\ job' = job /\ exec' = exec /\ link' = [link EXCEPT !.eof = TRUE]
    BY <1>3 DEF Shutdown
  <2>2. LinkShape' /\ link'.ended = link.ended /\ link'.wire = link.wire /\ link'.phase = "open"
    BY <1>1, <2>1 DEF LinkShape
  <2>3. LinkMoves
    BY <2>1, <2>2 DEF LinkMoves
  <2> QED BY <1>2, <2>1, <2>2, <2>3, LinkOnly
<1>4. CASE \E n \in 1 .. Len(link.pending) : Flush(n)
  <2>1. PICK n \in 1 .. Len(link.pending) : Flush(n)
    BY <1>4
  <2> DEFINE r == link.received \o SubSeq(link.pending, 1, n)
             p == SubSeq(link.pending, n + 1, Len(link.pending))
  <2>2. link.phase = "open" /\ client' = client /\ job' = job /\ exec' = exec
        /\ link' = [link EXCEPT !.received = r, !.pending = p]
    BY <2>1 DEF Flush
  <2> HIDE DEF r, p
  <2>3. LinkShape' /\ link'.ended = link.ended /\ link'.wire = link.wire /\ link'.phase = "open"
    BY <1>1, <2>2 DEF LinkShape
  <2>4. LinkMoves
    BY <2>2, <2>3 DEF LinkMoves
  <2> QED BY <1>2, <2>2, <2>3, <2>4, LinkOnly
<1> QED BY <1>3, <1>4

(* The connection ends early: what was on the way is lost from somewhere   *)
(* on.                                                                     *)
LEMMA LostKeeps == ASSUME ExecInv, LinkLost PROVE ExecInv'
<1> DEFINE b == link.wire
<1>1. LinkShape /\ ProcessInv /\ ClientInv /\ ClientShape /\ link.phase = "open"
  BY DEF ExecInv, ProcessInv, ClientInv, LinkLost
<1>2. PICK phase \in {"lost", "broken"}, n \in 0 .. Len(b) : link' = [link EXCEPT !.phase = phase, !.wire = SubSeq(b, 1, n)]
  BY <1>1 DEF LinkLost, LinkShape
<1>3. client' = client /\ job' = job /\ exec' = exec
  BY DEF LinkLost
<1> DEFINE c == SubSeq(b, 1, n)
           y == SubSeq(b, n + 1, Len(b))
<1>4. LinkShape' /\ link'.ended = link.ended /\ link'.wire = c /\ link'.phase = phase /\ Gone'
  <2> HIDE DEF c
  <2> QED BY <1>1, <1>2 DEF LinkShape, Gone, c
<1>5. LinkMoves /\ Lasts /\ ClientShape' /\ Made' = Made
  BY <1>1, <1>3, <1>4 DEF LinkMoves, Lasts, ClientShape, Made, HasStdin
<1>6. ~Early /\ ~Early' /\ (Reading' <=> Reading)
  BY <1>1, <1>3 DEF ClientInv, NewLink, Early, Reading
<1>7. ASSUME Reading PROVE InTouch'
  <2>1. InTouch
    BY <1>1, <1>7 DEF ClientInv
  <2>2. PICK k \in 0 .. Made, x \in Bytes : Followed(job.writes, k, client.demux, client.output, b \o x)
    BY <2>1 DEF InTouch
  <2>3. b \in Bytes
    BY <2>1 DEF InTouch
  <2>4. c \in Bytes /\ y \in Bytes /\ b = c \o y
    BY ONLY <2>3, n \in 0 .. Len(b), BytesCut
  <2> HIDE DEF b, c, y
  <2>5. b \o x = c \o (y \o x) /\ y \o x \in Bytes
    <3>1. Rejoined(c, y, x)
      BY <2>4, Rejoins, Zenon
    <3>2. (c \o y) \o x = c \o (y \o x)
      BY ONLY <3>1 DEF Rejoined
    <3>3. y \o x \in Bytes
      BY ONLY <2>4, x \in Bytes, JoinedTyped
    <3> QED BY <2>4, <3>2, <3>3
  <2> DEFINE z == y \o x
  <2>6. z \in Bytes /\ Followed(job.writes, k, client.demux, client.output, c \o z)
    BY <2>2, <2>5
  <2> HIDE DEF z
  <2>7. link'.phase # "closed"
    BY <1>4
  <2> QED BY <1>3, <1>4, <1>5, <2>1, <2>4, <2>6, <2>7 DEF InTouch
<1>8. ResultSound(client.result)'
  BY <1>1, <1>3, <1>5, ResultLasts DEF ClientInv
<1>9. client'.at = "code" => (link'.ended \/ link'.phase = "lost") /\ Final(client.output)'
  BY <1>1, <1>3, <1>4, <1>5, SoundLasts DEF ClientInv
<1>10. link'.phase # "connecting"
  BY <1>4
<1>11. ClientInv'
  BY <1>4, <1>5, <1>6, <1>7, <1>8, <1>9, <1>10 DEF ClientInv
<1> QED BY <1>1, <1>5, <1>11, MovesKeep DEF ExecInv

(* The request is made: over a connection, or one that is to be made.      *)
LEMMA StartKeeps == ASSUME ExecInv, StartExec PROVE ExecInv'
<1>1. LinkShape /\ ClientShape /\ ClientInv /\ client.at = "start" /\ Early
  BY DEF ExecInv, ProcessInv, ClientInv, StartExec, Early
<1>2. link.phase = "none" /\ link.ended = FALSE
  <2>1. link = NewLink
    BY <1>1 DEF ClientInv
  <2> QED BY <2>1 DEF NewLink
<1>3. client' = [client EXCEPT !.at = "opening"] /\ job' = job /\ exec' = exec
  BY DEF StartExec
<1>4. LinkShape' /\ link'.ended = link.ended /\ link'.wire = link.wire /\ link'.received = link.received
      /\ link'.phase \in {"open", "connecting"}
  <2>1. CASE HasStdin
    <3>1. link' = [link EXCEPT !.phase = "connecting"]
      BY <2>1 DEF StartExec
    <3> QED BY <1>1, <3>1 DEF LinkShape
  <2>2. CASE ~HasStdin
    <3>1. link' = [link EXCEPT !.phase = "open", !.pending = Request]
      BY <2>2 DEF StartExec
    <3> QED BY <1>1, <3>1 DEF LinkShape
  <2> QED BY <2>1, <2>2
<1>5. ClientShape' /\ client'.demux = client.demux /\ client'.output = client.output
      /\ client'.result = client.result /\ client'.at = "opening"
  BY <1>1, <1>3 DEF ClientShape
<1>6. LinkMoves
  BY <1>2, <1>3, <1>4 DEF LinkMoves
<1>7. Lasts /\ Made' = Made /\ ~Early' /\ Reading /\ ~Gone
  BY <1>1, <1>2, <1>3, <1>5 DEF Lasts, Made, HasStdin, Early, Reading, Gone
<1>8. ReadsNothing
  BY <1>2, <1>4, <1>5, <1>7 DEF ReadsNothing
<1> QED BY <1>6, <1>8, QuietKeeps

(* The daemon has answered: the client reads.                              *)
LEMMA UpgradeKeeps == ASSUME ExecInv, Upgraded PROVE ExecInv'
<1>1. LinkShape /\ ClientShape /\ ClientInv /\ link.phase = "open"
  BY DEF ExecInv, ProcessInv, ClientInv, Upgraded
<1> DEFINE p == IF HasStdin THEN link.pending \o job.stdin ELSE link.pending
           at == IF client.at = "opening" THEN "read" ELSE client.at
<1>2. link' = [link EXCEPT !.queued = TRUE, !.pending = p]
  BY <1>1 DEF Upgraded, LinkShape
<1>3. client' = [client EXCEPT !.at = at] /\ job' = job /\ exec' = exec
  BY <1>1 DEF Upgraded, ClientShape
<1>4. ~Early
  <2>1. NewLink.phase = "none"
    BY DEF NewLink
  <2> QED BY <1>1, <2>1 DEF ClientInv
<1>5. at = client.at \/ (client.at = "opening" /\ at = "read")
  OBVIOUS
<1> HIDE DEF p, at
<1>6. LinkShape' /\ link'.ended = link.ended /\ link'.wire = link.wire /\ link'.phase = "open"
  BY <1>1, <1>2 DEF LinkShape
<1>7. ClientShape' /\ client'.demux = client.demux /\ client'.output = client.output
      /\ client'.result = client.result /\ client'.at = at
  BY <1>1, <1>3 DEF ClientShape
<1>8. LinkMoves
  BY <1>3, <1>6 DEF LinkMoves
<1>9. Lasts /\ Made' = Made /\ ~Gone
  BY <1>1, <1>3 DEF Lasts, Made, HasStdin, Gone
<1>10. ~Early' /\ (Reading' => Reading) /\ (client'.at = "code" => client.at = "code")
  BY <1>4, <1>5, <1>7 DEF Early, Reading
<1>11. ReadsNothing
  BY <1>1, <1>6, <1>7, <1>9, <1>10 DEF ReadsNothing
<1> QED BY <1>8, <1>11, QuietKeeps

(* The connection is made, or cannot be; a run that was stopped meanwhile  *)
(* returns, and one that has no connection throws.                         *)
LEMMA ConnectKeeps == ASSUME ExecInv, Connected \/ ConnectFails PROVE ExecInv'
<1>1. /\ LinkShape /\ ClientShape /\ ClientInv /\ ProcessInv /\ link.phase = "connecting"
      /\ job' = job /\ exec' = exec
  BY DEF ExecInv, ProcessInv, ClientInv, Connected, ConnectFails
<1>2. client.at = "opening" /\ ~Early /\ Reading
  BY <1>1 DEF ClientInv, Early, Reading
<1>3. \/ link' = [link EXCEPT !.phase = "open", !.pending = Request]
      \/ link' = [link EXCEPT !.phase = "closed"]
  BY DEF Connected, ConnectFails
<1>4. LinkShape' /\ link'.ended = link.ended /\ link'.wire = link.wire /\ link'.phase \in {"open", "closed"}
  BY <1>1, <1>3 DEF LinkShape
<1>5. LinkMoves /\ Lasts
  BY <1>1, <1>4 DEF LinkMoves, Lasts
<1>6. ASSUME NEW r, NEW at \in {"kill", "done"}, ResultSound(r), client' = [client EXCEPT !.result = r, !.at = at]
      PROVE  ExecInv'
  <2>1. ClientShape' /\ client'.at = at /\ client'.result = r
    BY <1>1, <1>6 DEF ClientShape
  <2>2. ResultSound(client.result)' /\ link'.phase # "connecting"
    BY <1>4, <1>5, <1>6, <2>1, ResultLasts
  <2> QED BY <1>1, <1>5, <2>1, <2>2, ReturnKeeps, MovesKeep DEF ExecInv
<1>7. CASE ConnectFails
  <2> DEFINE at == IF ExecEnded THEN "kill" ELSE "done"
             r == Thrown("DOCKER_UNREACHABLE")
  <2>1. client' = [client EXCEPT !.result = r, !.at = at] /\ at \in {"kill", "done"}
    BY <1>7 DEF ConnectFails
  <2>2. ResultSound(r)
    BY DEF ResultSound, Thrown
  <2> HIDE DEF at, r
  <2> QED BY <1>6, <2>1, <2>2
<1>8. CASE Connected /\ ExecEnded
  <2> DEFINE at == "kill"
  <2>1. client' = [client EXCEPT !.result = Killed, !.at = at]
    BY <1>8 DEF Connected
  <2>2. Sound(client.output)
    BY <1>1, <1>2, OutputSound
  <2>3. ResultSound(Killed) /\ at \in {"kill", "done"}
    BY <2>2 DEF ResultSound, Killed
  <2> HIDE DEF at
  <2> QED BY <1>6, <2>1, <2>3
<1>9. CASE Connected /\ ~ExecEnded
  <2>1. client' = client /\ link' = [link EXCEPT !.phase = "open", !.pending = Request]
    BY <1>9 DEF Connected
  <2>2. link'.phase = "open"
    BY <1>1, <2>1 DEF LinkShape
  <2>3. ClientShape' /\ Made' = Made /\ ~Early' /\ ~Gone
    BY <1>1, <1>2, <2>1 DEF ClientShape, Made, HasStdin, Early, Gone
  <2>4. ReadsNothing
    BY <1>2, <1>4, <1>5, <2>1, <2>2, <2>3 DEF ReadsNothing
  <2> QED BY <1>5, <2>4, QuietKeeps
<1> QED BY <1>7, <1>8, <1>9

(* The daemon or the process moves, and the client does not.               *)
LEMMA ProcessOnly ==
  ASSUME ExecInv, ProcessInv', Lasts, client' = client, link'.wire = link.wire, link'.phase = link.phase,
         link.ended => link'.ended, Early => link' = link, Made' = Made
  PROVE  ExecInv'
<1>1. ClientInv
  BY DEF ExecInv
<1>2. ClientShape' /\ (Early' <=> Early) /\ (Reading' => Reading /\ link.phase # "closed")
  BY <1>1 DEF ClientInv, ClientShape, Early, Reading, InTouch
<1>3. /\ client.at = "read" => link.phase = "open" \/ Gone
      /\ client.at # "opening" => link.phase # "connecting"
      /\ Gone' <=> Gone
  BY <1>1 DEF ClientInv, Gone
<1>4. ReadsNothing
  BY <1>2, <1>3 DEF ReadsNothing
<1> QED BY <1>1, <1>4, NothingKeeps DEF ExecInv

(* A process runs only behind its request.                                 *)
LEMMA RunsLate ==
  ASSUME ExecInv, exec.state \notin {"absent", "created"} PROVE ~Early /\ link.phase \notin {"none", "connecting"}
<1>1. link.phase \notin {"none", "connecting"}
  BY DEF ExecInv, ProcessInv
<1> QED BY <1>1 DEF ExecInv, ClientInv, NewLink

(* Steps of the daemon, and of the process but for its writes.             *)
LEMMA ProcessKeeps ==
  ASSUME ExecInv, DaemonCreates \/ DaemonStarts \/ StdinEnds \/ OutputEnds \/ ProcessExits \/ ContainerStops
  PROVE  ExecInv'
<1>1. ProcessInv /\ LinkShape /\ ExecShape /\ exec.written \in Nat
  BY DEF ExecInv, ProcessInv
<1>2. client' = client /\ job' = job
  BY DEF DaemonCreates, DaemonStarts, StdinEnds, OutputEnds, ProcessExits, ContainerStops
<1>3. CASE DaemonCreates
  <2>1. exec.state = "absent" /\ exec' = [exec EXCEPT !.state = "created"] /\ link' = link
    BY <1>3 DEF DaemonCreates
  <2>2. exec' = [state |-> "created", written |-> exec.written, stdin |-> exec.stdin, code |-> exec.code]
    BY <1>1, <2>1 DEF ExecShape
  <2>3. ExecShape' /\ exec'.state = "created" /\ exec'.written = exec.written
    BY <2>2 DEF ExecShape
  <2>4. Lasts /\ Made' = Made
    BY <1>2, <2>1, <2>3 DEF Lasts, Made, HasStdin
  <2>5. ProcessInv'
    BY <1>1, <1>2, <2>1, <2>3, <2>4 DEF ProcessInv, LinkShape
  <2> QED BY <1>2, <2>1, <2>4, <2>5, ProcessOnly
<1>4. CASE DaemonStarts
  <2>1. exec.state = "created" /\ link.received # <<>>
    BY <1>4 DEF DaemonStarts
  <2>2. link.phase \notin {"none", "connecting"} /\ ~link.ended
    BY <1>1, <2>1 DEF ProcessInv
  <2>3. ~Early
    <3>1. NewLink.received = <<>>
      BY DEF NewLink
    <3> QED BY <2>1, <3>1 DEF ExecInv, ClientInv
  <2>4. /\ ExecShape' /\ exec'.state \in {"created", "running"} /\ exec'.written = exec.written
        /\ LinkShape' /\ link'.phase = link.phase /\ link'.wire = link.wire /\ link'.ended = link.ended
    <3>1. CASE alive
      <4>1. exec' = [exec EXCEPT !.state = "running"] /\ link' = [link EXCEPT !.answer = "upgraded"]
        BY <1>4, <3>1 DEF DaemonStarts
      <4>2. ExecShape' /\ exec'.state = "running" /\ exec'.written = exec.written
        BY <1>1, <4>1 DEF ExecShape
      <4>3. LinkShape' /\ link'.phase = link.phase /\ link'.wire = link.wire /\ link'.ended = link.ended
        BY <1>1, <4>1 DEF LinkShape
      <4> QED BY <4>2, <4>3
    <3>2. CASE ~alive
      <4>1. exec' = exec /\ link' = [link EXCEPT !.answer = "refused"]
        BY <1>4, <3>2 DEF DaemonStarts
      <4>2. LinkShape' /\ link'.phase = link.phase /\ link'.wire = link.wire /\ link'.ended = link.ended
        BY <1>1, <4>1 DEF LinkShape
      <4> QED BY <1>1, <2>1, <4>1, <4>2 DEF ExecShape
    <3> QED BY <3>1, <3>2
  <2>5. Lasts /\ Made' = Made
    BY <1>2, <2>1, <2>4 DEF Lasts, Made, HasStdin
  <2>6. ProcessInv'
    BY <1>1, <1>2, <2>1, <2>2, <2>4, <2>5 DEF ProcessInv
  <2> QED BY <1>2, <2>3, <2>4, <2>5, <2>6, ProcessOnly
<1>5. CASE StdinEnds
  <2>1. exec.state = "running" /\ HasStdin /\ exec.written = 0 /\ link' = link
        /\ exec' = [exec EXCEPT !.stdin = Tail(link.received), !.written = 1]
    BY <1>5 DEF StdinEnds
  <2>2. ExecShape' /\ exec'.state = "running" /\ exec'.written = 1
    BY <1>1, <2>1 DEF ExecShape
  <2>3. Lasts /\ Made' = Made
    BY <1>2, <2>1, <2>2 DEF Lasts, Made, HasStdin
  <2>4. ProcessInv'
    BY <1>1, <1>2, <2>1, <2>2, <2>3 DEF ProcessInv, LinkShape
  <2> QED BY <1>2, <2>1, <2>3, <2>4, ProcessOnly
<1>6. CASE OutputEnds
  <2> DEFINE ended == link.ended \/ link.phase = "open"
  <2>1. exec.state = "running" /\ Writes = Len(job.writes) /\ exec' = [exec EXCEPT !.state = "ending"]
        /\ link' = [link EXCEPT !.ended = ended]
    BY <1>1, <1>6 DEF OutputEnds, LinkShape
  <2>2. ~Early /\ link.phase \notin {"none", "connecting"} /\ Len(job.writes) \in Nat
    BY <1>1, <2>1, RunsLate, JobTyped DEF ProcessInv
  <2>3. Made = Len(job.writes)
    BY <1>1, <2>1, <2>2 DEF Made, Writes
  <2>4. ExecShape' /\ exec'.state = "ending" /\ exec'.written = exec.written
    BY <1>1, <2>1 DEF ExecShape
  <2>5. LinkShape' /\ link'.phase = link.phase /\ link'.wire = link.wire /\ link'.ended = ended
    <3> HIDE DEF ended
    <3> QED BY <1>1, <2>1 DEF LinkShape
  <2>6. (link.ended => link'.ended) /\ (link'.ended => link.phase \notin {"none", "connecting"})
    BY <1>1, <2>5 DEF ProcessInv
  <2>7. Lasts /\ Made' = Made
    BY <1>2, <2>1, <2>4 DEF Lasts, Made, HasStdin
  <2> HIDE DEF ended
  <2>8. ProcessInv'
    BY <1>1, <1>2, <2>2, <2>3, <2>4, <2>5, <2>6, <2>7 DEF ProcessInv
  <2> QED BY <1>2, <2>2, <2>5, <2>6, <2>7, <2>8, ProcessOnly
<1>7. CASE ProcessExits
  <2>1. exec.state = "ending" /\ exec' = [exec EXCEPT !.state = "exited", !.code = job.exit] /\ link' = link
    BY <1>7 DEF ProcessExits
  <2>2. ExecShape' /\ exec'.state = "exited" /\ exec'.written = exec.written /\ exec'.code = job.exit
    BY <1>1, <2>1 DEF ExecShape
  <2>3. Lasts /\ Made' = Made
    BY <1>2, <2>1, <2>2 DEF Lasts, Made, HasStdin
  <2>4. ProcessInv'
    BY <1>1, <1>2, <2>1, <2>2, <2>3 DEF ProcessInv, LinkShape
  <2> QED BY <1>2, <2>1, <2>3, <2>4, ProcessOnly
<1>8. CASE ContainerStops
  <2>1. CASE exec.state \in {"running", "ending"}
    <3> DEFINE ended == link.ended \/ link.phase = "open"
    <3>1. exec' = [exec EXCEPT !.state = "killed", !.code = 137] /\ link' = [link EXCEPT !.ended = ended]
      BY <1>1, <1>8, <2>1 DEF ContainerStops, LinkShape
    <3>2. ~Early /\ link.phase \notin {"none", "connecting"}
      BY <2>1, RunsLate
    <3>3. ExecShape' /\ exec'.state = "killed" /\ exec'.written = exec.written /\ exec'.code = 137
      BY <1>1, <3>1 DEF ExecShape
    <3>4. LinkShape' /\ link'.phase = link.phase /\ link'.wire = link.wire /\ link'.ended = ended
      <4> HIDE DEF ended
      <4> QED BY <1>1, <3>1 DEF LinkShape
    <3>5. (link.ended => link'.ended) /\ (link'.ended => link.phase \notin {"none", "connecting"})
      BY <1>1, <3>4 DEF ProcessInv
    <3>6. Lasts /\ Made' = Made
      BY <1>2, <2>1, <3>3, <3>4 DEF Lasts, Made, HasStdin
    <3> HIDE DEF ended
    <3>7. ProcessInv'
      BY <1>1, <1>2, <3>2, <3>3, <3>4, <3>5, <3>6 DEF ProcessInv
    <3> QED BY <1>2, <3>2, <3>4, <3>5, <3>6, <3>7, ProcessOnly
  <2>2. CASE exec.state \notin {"running", "ending"}
    <3>1. exec' = exec /\ link' = link
      BY <1>8, <2>2 DEF ContainerStops
    <3>2. LinkMoves /\ Lasts /\ Made' = Made
      BY <1>1, <1>2, <3>1, SameMoves DEF Lasts, Made, HasStdin
    <3> QED BY <1>1, <1>2, <3>1, <3>2, MovesKeep, ProcessOnly
  <2> QED BY <2>1, <2>2
<1> QED BY <1>3, <1>4, <1>5, <1>6, <1>7, <1>8

(* The kill of what was started, after the result is there.                *)
LEMMA KillKeeps == ASSUME ExecInv, KillExec PROVE ExecInv'
<1>1. ProcessInv /\ LinkShape /\ ExecShape /\ ClientShape /\ ClientInv
  BY DEF ExecInv, ProcessInv, ClientInv
<1>2. client' = [client EXCEPT !.at = "done"] /\ job' = job /\ link' = link
  BY DEF KillExec
<1>3. ClientShape' /\ client'.at = "done" /\ client'.result = client.result
  BY <1>1, <1>2 DEF ClientShape
<1>4. Lasts /\ ProcessInv'
  <2>1. CASE exec' = exec
    <3>1. LinkMoves
      BY <1>1, <1>2, <2>1, SameMoves
    <3> QED BY <1>1, <1>2, <2>1, <3>1, MovesKeep DEF Lasts
  <2>2. CASE exec.state \in {"running", "ending"} /\ exec' = [exec EXCEPT !.state = "killed", !.code = 137]
    <3>1. ExecShape' /\ exec'.state = "killed" /\ exec'.written = exec.written /\ exec'.code = 137
      BY <1>1, <2>2 DEF ExecShape
    <3>2. link.phase \notin {"none", "connecting"}
      BY <2>2, RunsLate
    <3>3. Lasts /\ Made' = Made
      BY <1>2, <2>2, <3>1 DEF Lasts, Made, HasStdin
    <3> QED BY <1>1, <1>2, <3>1, <3>2, <3>3 DEF ProcessInv, LinkShape
  <2> QED BY <2>1, <2>2 DEF KillExec
<1>5. ResultSound(client.result)'
  BY <1>1, <1>3, <1>4, ResultLasts DEF ClientInv
<1>6. link'.phase # "connecting"
  BY <1>1, <1>2 DEF ClientInv, KillExec
<1> QED BY <1>3, <1>4, <1>5, <1>6, ReturnKeeps DEF ExecInv

(* One frame more is on the way.                                           *)
LEMMA FollowedMore ==
  ASSUME NEW w \in Seq(WriteOf), NEW n \in 0 .. Len(w) - 1, NEW d \in Demux, NEW o, NEW b \in Bytes,
         Followed(w, n, d, o, b)
  PROVE  Followed(w, n + 1, d, o, b \o EncodeFrame(w[n + 1])) /\ b \o EncodeFrame(w[n + 1]) \in Bytes
<1>1. PICK told \in [Stream -> Bytes] : ReadTo(w, n, d, told, b) /\ KeptOf(o, told["stdout"])
  BY DEF Followed
<1> DEFINE c == b \o EncodeFrame(w[n + 1])
<1>2. ReadTo(w, n + 1, d, told, c) /\ c \in Bytes
  BY <1>1, ReadMoreSent
<1> HIDE DEF c
<1>3. Followed(w, n + 1, d, o, c)
  BY <1>1, <1>2 DEF Followed
<1> QED BY <1>2, <1>3 DEF c

(* The process writes: a frame, when somebody is there to get it.          *)
LEMMA ProcessWritesKeep == ASSUME ExecInv, ProcessWrites PROVE ExecInv'
<1> DEFINE w == job.writes
           m == Made
           d == client.demux
           o == client.output
           b == link.wire
           c == b \o EncodeFrame(w[m + 1])
<1>1. ProcessInv /\ ClientInv /\ LinkShape /\ ExecShape /\ exec.written \in Nat
  BY DEF ExecInv, ProcessInv
<1>2. exec.state = "running" /\ client' = client /\ job' = job /\ exec' = [exec EXCEPT !.written = @ + 1]
  BY DEF ProcessWrites
<1>3. w \in Seq(WriteOf) /\ Len(w) \in Nat
  BY <1>1, JobTyped DEF ProcessInv
<1>4. m = Writes /\ m \in 0 .. Len(w) - 1
  <2>1. Writes \in 0 .. Len(w) - 1
    BY DEF ProcessWrites
  <2>2. Made = Writes
    BY <1>1, <1>3, <2>1 DEF Made, Writes
  <2> QED BY <2>1, <2>2
<1>5. ExecShape' /\ exec'.state = "running" /\ exec'.written = exec.written + 1
  BY <1>1, <1>2 DEF ExecShape
<1>6. Made' = m + 1
  BY <1>1, <1>2, <1>4, <1>5 DEF Made, HasStdin, Writes
<1>7. ~Early /\ link.phase \notin {"none", "connecting"}
  BY <1>2, RunsLate
<1>8. LinkShape' /\ link'.phase = link.phase /\ link'.ended = link.ended /\ link'.received = link.received
      /\ link'.wire = IF link.phase = "open" THEN c ELSE b
  <2>1. CASE link.phase = "open"
    <3>1. link' = [link EXCEPT !.wire = c]
      BY <1>1, <1>4, <2>1 DEF ProcessWrites, LinkShape
    <3> HIDE DEF c
    <3> QED BY <1>1, <2>1, <3>1 DEF LinkShape
  <2>2. CASE link.phase # "open"
    <3>1. link' = link
      BY <2>2 DEF ProcessWrites
    <3> QED BY <1>1, <2>2, <3>1 DEF LinkShape
  <2> QED BY <2>1, <2>2
<1>9. ProcessInv'
  <2>1. m + 1 \in 0 .. Len(w) /\ exec'.written \in Nat
    BY <1>1, <1>3, <1>4, <1>5
  <2> QED BY <1>1, <1>2, <1>5, <1>6, <1>7, <1>8, <2>1 DEF ProcessInv
<1>10. Lasts /\ ClientShape'
  BY <1>1, <1>2, <1>5, <1>8 DEF Lasts, ClientInv, ClientShape
<1>11. ASSUME Reading PROVE InTouch'
  <2>1. InTouch
    BY <1>1, <1>11 DEF ClientInv
  <2>2. b \in Bytes /\ d \in Demux /\ ~Complete(d.buffer) /\ o \in Output /\ o.maxStdout = job.cap /\ ~o.truncated
        /\ (link.phase = "open" \/ Gone)
    BY <1>1, <1>7, <2>1 DEF InTouch, LinkShape, Gone
  <2>3. PICK n \in 0 .. m, x \in Bytes : Followed(w, n, d, o, b \o x) /\ (Gone \/ (n = m /\ x = <<>>))
    BY <2>1 DEF InTouch
  <2>4. Gone' <=> Gone
    BY <1>8 DEF Gone
  <2> HIDE DEF w, m, d, o, b
  <2>5. /\ link'.wire \in Bytes
        /\ \E k \in 0 .. m + 1, y \in Bytes : Followed(w, k, d, o, link'.wire \o y) /\ (Gone \/ (k = m + 1 /\ y = <<>>))
    <3>1. CASE link.phase = "open"
      <4>1. n = m /\ x = <<>>
        BY <2>3, <3>1 DEF Gone
      <4>2. b \o <<>> = b
        BY <2>2 DEF Bytes
      <4>3. Followed(w, m + 1, d, o, c) /\ c \in Bytes
        <5>1. Followed(w, m, d, o, b)
          BY <2>3, <4>1, <4>2
        <5> QED BY <1>3, <1>4, <2>2, <5>1, FollowedMore
      <4> HIDE DEF c
      <4>4. c \o <<>> = c
        BY <4>3 DEF Bytes
      <4>5. link'.wire = c /\ m + 1 \in 0 .. m + 1
        BY <1>3, <1>4, <1>8, <3>1 DEF c, b
      <4>6. Followed(w, m + 1, d, o, link'.wire \o <<>>) /\ link'.wire \in Bytes
        BY <4>3, <4>4, <4>5
      <4>7. <<>> \in Bytes
        BY <4>1
      <4> QED BY <4>5, <4>6, <4>7
    <3>2. CASE link.phase # "open"
      <4>1. n \in 0 .. m + 1
        BY <1>3, <1>4
      <4> QED BY <1>8, <2>2, <2>3, <3>2, <4>1
    <3> QED BY <3>1, <3>2
  <2> HIDE DEF c
  <2>6. link'.phase # "closed"
    BY <1>8, <2>2 DEF Gone
  <2> QED BY <1>2, <1>6, <2>2, <2>4, <2>5, <2>6 DEF InTouch, w, d, o
<1>12. ClientInv'
  <2>1. (Reading' <=> Reading) /\ ~Early'
    BY <1>2, <1>7 DEF Reading, Early
  <2>2. ResultSound(client.result)'
    BY <1>1, <1>2, <1>10, ResultLasts DEF ClientInv
  <2>3. client'.at = "read" => link'.phase = "open" \/ Gone'
    BY <1>1, <1>2, <1>8 DEF ClientInv, Gone
  <2>4. client'.at = "code" => (link'.ended \/ link'.phase = "lost") /\ Final(client.output)'
    BY <1>1, <1>2, <1>8, <1>10, SoundLasts DEF ClientInv
  <2>5. link'.phase # "connecting"
    BY <1>7, <1>8
  <2> QED BY <1>10, <1>11, <2>1, <2>2, <2>3, <2>4, <2>5 DEF ClientInv
<1> QED BY <1>9, <1>12 DEF ExecInv

(* What was collected from what was read may be returned.                  *)
LEMMA FollowedSound ==
  ASSUME NEW n \in 0 .. Len(job.writes), NEW d, NEW o \in Output, NEW b, job \in Jobs,
         Followed(job.writes, n, d, o, b), o.maxStdout = job.cap
  PROVE  Sound(o)
<1> DEFINE w == job.writes
<1>1. w \in Seq(WriteOf)
  BY JobTyped
<1> HIDE DEF w
<1>2. FitsIn(o, w)
  BY <1>1, FollowedFits DEF w
<1> QED BY <1>2 DEF FitsIn, Sound, w

(* A chunk is read; one that fills the cap, or comes after a stop, ends    *)
(* the run.                                                                *)
LEMMA ReadKeeps == ASSUME ExecInv, NEW n \in 1 .. Len(link.wire), Read(n) PROVE ExecInv'
<1> DEFINE w == job.writes
           b == link.wire
           chunk == SubSeq(b, 1, n)
           rest == SubSeq(b, n + 1, Len(b))
           e == Push(client.demux, chunk)
           p == Collect(client.output, e.frames)
           why == IF p.truncated /\ ~ExecEnded THEN "cap" ELSE client.reason
           read == [client EXCEPT !.demux = e, !.output = p, !.reason = why]
           r == [Killed EXCEPT !.output = p, !.timedOut = why # "cap"]
<1>1. ProcessInv /\ ClientInv /\ LinkShape /\ ClientShape /\ client.at = "read" /\ Reading /\ job \in Jobs
  BY DEF ExecInv, ProcessInv, ClientInv, Read, Reading
<1>2. job' = job /\ exec' = exec /\ client' = IF why = "none" THEN read ELSE [read EXCEPT !.at = "kill", !.result = r]
  BY DEF Read
<1>3. link' = [link EXCEPT !.wire = rest, !.phase = IF why # "none" /\ link.phase = "open" THEN "closed" ELSE link.phase]
  BY <1>1 DEF Read, LinkShape
<1>4. w \in Seq(WriteOf) /\ Len(w) \in Nat /\ Made \in 0 .. Len(w)
  BY <1>1, JobTyped DEF ProcessInv
<1>5. InTouch /\ (link.phase = "open" \/ Gone)
  BY <1>1 DEF ClientInv
<1>6. b \in Bytes /\ client.demux \in Demux /\ client.output \in Output /\ client.output.maxStdout = job.cap
  BY <1>5 DEF InTouch
<1>7. PICK k \in 0 .. Made, x \in Bytes : Followed(w, k, client.demux, client.output, b \o x) /\ (Gone \/ (k = Made /\ x = <<>>))
  BY <1>5 DEF InTouch
<1>8. k \in 0 .. Len(w)
  BY <1>4
<1>9. chunk \in Bytes /\ rest \in Bytes /\ b = chunk \o rest
  <2> HIDE DEF b
  <2>1. n \in 0 .. Len(b)
    BY DEF b
  <2> QED BY <1>6, <2>1, BytesCut
<1>10. e \in Demux /\ ~Complete(e.buffer) /\ p \in Output /\ p.maxStdout = job.cap /\ Followed(w, k, e, p, rest \o x)
  <2> HIDE DEF w, b, chunk, rest
  <2> DEFINE z == rest \o x
  <2>1. b \o x = chunk \o z /\ z \in Bytes
    <3>1. Rejoined(chunk, rest, x)
      BY <1>9, Rejoins, Zenon
    <3>2. (chunk \o rest) \o x = chunk \o (rest \o x)
      BY ONLY <3>1 DEF Rejoined
    <3>3. rest \o x \in Bytes
      BY ONLY <1>9, x \in Bytes, JoinedTyped
    <3> QED BY <1>9, <3>2, <3>3
  <2>2. Followed(w, k, client.demux, client.output, chunk \o z)
    BY <1>7, <2>1
  <2> HIDE DEF z
  <2>3. Followed(w, k, e, p, z) /\ e \in Demux /\ ~Complete(e.buffer) /\ p \in Output /\ p.maxStdout = job.cap
    BY <1>4, <1>6, <1>8, <1>9, <2>1, <2>2, FollowedTakes
  <2> QED BY <2>3 DEF z
<1> HIDE DEF b, chunk, rest, e, p
<1>11. LinkShape' /\ link'.wire = rest /\ link'.ended = link.ended /\ link'.received = link.received
       /\ link'.phase = IF why # "none" /\ link.phase = "open" THEN "closed" ELSE link.phase
  <2> DEFINE phase == IF why # "none" /\ link.phase = "open" THEN "closed" ELSE link.phase
  <2>1. phase \in {"none", "connecting", "open", "closed", "lost", "broken"}
    BY <1>1 DEF LinkShape
  <2> HIDE DEF phase
  <2>2. link' = [link EXCEPT !.wire = rest, !.phase = phase]
    BY <1>3 DEF phase
  <2>3. LinkShape' /\ link'.wire = rest /\ link'.ended = link.ended /\ link'.received = link.received /\ link'.phase = phase
    BY <1>1, <2>1, <2>2 DEF LinkShape
  <2> QED BY <2>3 DEF phase
<1>12. LinkMoves
  <2>1. link'.phase \notin {"none", "connecting"}
    BY <1>5, <1>11 DEF Gone
  <2> QED BY <1>2, <1>11, <2>1 DEF LinkMoves
<1>13. ProcessInv' /\ Lasts /\ Made' = Made /\ link'.phase # "connecting"
  BY <1>1, <1>2, <1>5, <1>11, <1>12, MovesKeep DEF Lasts, Made, HasStdin, Gone
<1>14. CASE why = "none"
  <2>1. ~p.truncated
    BY <1>14 DEF ExecEnded
  <2>2. client' = [client EXCEPT !.demux = e, !.output = p, !.reason = why]
    BY <1>2, <1>14
  <2> HIDE DEF why
  <2>3. ClientShape' /\ client'.demux = e /\ client'.output = p /\ client'.result = client.result /\ client'.at = "read"
    BY <1>1, <2>2 DEF ClientShape
  <2>4. InTouch'
    <3>1. link'.phase = link.phase /\ link'.phase # "closed" /\ (Gone' <=> Gone)
      BY <1>5, <1>11, <1>14 DEF Gone
    <3>2. \E j \in 0 .. Made, y \in Bytes : Followed(w, j, e, p, rest \o y) /\ (Gone \/ (j = Made /\ y = <<>>))
      BY <1>7, <1>10
    <3> QED BY <1>2, <1>9, <1>10, <1>11, <1>13, <2>1, <2>3, <3>1, <3>2 DEF InTouch
  <2>5. ResultSound(client.result)'
    BY <1>1, <1>13, <2>3, ResultLasts DEF ClientInv
  <2>6. link'.phase = "open" \/ Gone'
    BY <1>5, <1>11, <1>14 DEF Gone
  <2>7. ClientInv'
    BY <1>13, <2>3, <2>4, <2>5, <2>6 DEF ClientInv, Reading, Early
  <2> QED BY <1>13, <2>7 DEF ExecInv
<1>15. CASE why # "none"
  <2>1. Sound(p)
    BY <1>1, <1>8, <1>10, FollowedSound
  <2>2. r.kind = "result" /\ r.exit = -1 /\ r.output = p
    BY DEF Killed
  <2>3. client' = [read EXCEPT !.at = "kill", !.result = r]
    BY <1>2, <1>15
  <2> HIDE DEF why, r
  <2>4. ClientShape' /\ client'.at = "kill" /\ client'.result = r
    BY <1>1, <2>3 DEF ClientShape
  <2>5. ResultSound(r)
    BY <2>1, <2>2 DEF ResultSound
  <2>6. ResultSound(client.result)'
    BY <1>13, <2>4, <2>5, ResultLasts
  <2>7. ClientInv'
    BY <1>13, <2>4, <2>6, ReturnKeeps
  <2> QED BY <1>13, <2>7 DEF ExecInv
<1> QED BY <1>14, <1>15

(* The output has ended and was read to its end.                           *)
LEMMA ReadEndKeeps == ASSUME ExecInv, ReadEnd PROVE ExecInv'
<1> DEFINE w == job.writes
           d == client.demux
           o == client.output
           p == Collect(o, FlushedFrames(d))
           phase == IF link.phase = "open" THEN "closed" ELSE link.phase
<1>1. ProcessInv /\ ClientInv /\ LinkShape /\ ClientShape /\ client.at = "read" /\ Reading /\ job \in Jobs
      /\ link.wire = <<>> /\ link.phase # "broken" /\ (link.ended \/ link.phase = "lost")
  BY DEF ExecInv, ProcessInv, ClientInv, ReadEnd, Reading
<1>2. job' = job /\ exec' = exec /\ client' = [client EXCEPT !.at = "code", !.output = p]
      /\ link' = [link EXCEPT !.phase = phase]
  BY <1>1 DEF ReadEnd, ClientShape, LinkShape
<1>3. w \in Seq(WriteOf) /\ Len(w) \in Nat /\ Made \in 0 .. Len(w)
  BY <1>1, JobTyped DEF ProcessInv
<1>4. InTouch /\ link.phase \in {"open", "lost"} /\ (link.ended => exec.state \in {"ending", "exited", "killed"})
  BY <1>1 DEF ClientInv, ProcessInv, Gone
<1>5. d \in Demux /\ ~Complete(d.buffer) /\ o \in Output /\ o.maxStdout = job.cap /\ ~o.truncated
  BY <1>4 DEF InTouch
<1>6. PICK k \in 0 .. Made, x \in Bytes : Followed(w, k, d, o, <<>> \o x) /\ (link.phase = "lost" \/ (k = Made /\ x = <<>>))
  BY <1>1, <1>4 DEF InTouch, Gone
<1>7. k \in 0 .. Len(w) /\ Followed(w, k, d, o, x)
  <2>1. <<>> \o x = x
    BY DEF Bytes
  <2> QED BY <1>3, <1>6, <2>1
<1> HIDE DEF w, d, o
<1>8. /\ p \in Output /\ p.maxStdout = job.cap /\ ByteLength(p.stdout) <= p.maxStdout
      /\ p.truncated => Len(p.stdout) < Len(WrittenTo(w, "stdout"))
      /\ StartsLike(p.stdout, WrittenTo(w, "stdout"))
      /\ k = Len(w) /\ x = <<>> => IsPrefix(p.stdout, WrittenTo(w, "stdout")) /\ Whole(p, w)
  BY <1>3, <1>5, <1>7, FollowedEnds
<1> HIDE DEF p
<1>9. exec.state # "killed" /\ link.phase # "lost" => k = Len(w) /\ x = <<>>
  BY <1>1, <1>4, <1>6 DEF ProcessInv, w
<1>10. Final(p)
  <2>1. Sound(p)
    BY <1>8, <1>9 DEF Sound, w
  <2> QED BY <1>8, <1>9, <2>1 DEF Final, w
<1>11. ClientShape' /\ client'.at = "code" /\ client'.output = p /\ client'.result = client.result
  BY <1>1, <1>2 DEF ClientShape
<1>12. LinkShape' /\ link'.phase = phase /\ link'.ended = link.ended /\ phase \in {"closed", "lost"}
  <2>1. phase \in {"closed", "lost"}
    BY <1>4
  <2> HIDE DEF phase
  <2> QED BY <1>1, <1>2, <2>1 DEF LinkShape
<1>13. LinkMoves /\ Lasts
  BY <1>2, <1>12 DEF LinkMoves, Lasts
<1>14. Final(client.output)' /\ (link'.ended \/ link'.phase = "lost")
  <2>1. Final(client.output)'
    BY <1>10, <1>11, <1>13, SoundLasts
  <2> QED BY <1>1, <1>12, <2>1
<1>15. ResultSound(client.result)'
  BY <1>1, <1>11, <1>13, ResultLasts DEF ClientInv
<1>16. ClientInv'
  BY <1>11, <1>12, <1>14, <1>15 DEF ClientInv, Reading, Early
<1> QED BY <1>1, <1>13, <1>16, MovesKeep DEF ExecInv

(* Nothing was asked yet.                                                  *)
LEMMA DataBegins == ASSUME InitData PROVE ExecInv
<1>1. job \in Jobs /\ client = NewClient /\ link = NewLink /\ exec = NewExec
  BY DEF InitData, InitExec
<1>2. job.writes \in Seq(WriteOf) /\ Len(job.writes) \in Nat /\ job.cap \in Nat /\ StderrCap \in Nat
  BY <1>1, JobTyped
<1>3. LinkShape /\ link.phase = "none" /\ link.received = <<>> /\ link.wire = <<>> /\ ~link.ended
  BY <1>1 DEF NewLink, LinkShape
<1>4. ExecShape /\ exec.state = "absent" /\ exec.written = 0 /\ Made = 0
  BY <1>1 DEF NewExec, ExecShape, Made
<1>5. ClientShape /\ client.at = "idle" /\ client.demux = NewDemuxer /\ client.output = NewOutput(job.cap, StderrCap)
      /\ client.result = [kind |-> "none"]
  BY <1>1 DEF NewClient, ClientShape
<1>6. ProcessInv
  <2>1. Made \in 0 .. Len(job.writes) /\ exec.written \in Nat
    BY <1>2, <1>4
  <2> QED BY <1>1, <1>3, <1>4, <2>1 DEF ProcessInv
<1>7. InTouch
  <2> DEFINE o == NewOutput(job.cap, StderrCap)
             told == [s \in Stream |-> <<>>]
             d == NewDemuxer
             b == <<>>
             w == job.writes
  <2>1. b \in Bytes
    BY DEF Bytes
  <2>2. o \in Output /\ o.maxStdout = job.cap /\ ~o.truncated /\ o.stdout = <<>>
    BY <1>2, <2>1 DEF NewOutput, Output, Bytes
  <2>3. ReadTo(w, 0, d, told, b) /\ d \in Demux /\ ~Complete(d.buffer)
    BY <1>2, ReadBegins
  <2>4. told \in [Stream -> Bytes] /\ told["stdout"] = <<>>
    BY <2>1 DEF Stream
  <2>5. ByteLength(<<>>) = 0
    BY Measuring!AfterNone DEF ByteLength
  <2>6. KeptOf(o, told["stdout"])
    <3> HIDE DEF o, told
    <3>1. ByteLength(o.stdout) <= o.maxStdout
      BY <1>2, <2>2, <2>5
    <3> QED BY <2>2, <2>4, <3>1 DEF KeptOf
  <2> HIDE DEF o, told, d, b, w
  <2>7. Followed(w, 0, d, o, b)
    BY <2>3, <2>4, <2>6 DEF Followed
  <2>8. link.wire = b /\ client.demux = d /\ client.output = o
    BY <1>3, <1>5 DEF b, d, o
  <2>9. \E n \in 0 .. Made, x \in Bytes :
          Followed(w, n, client.demux, client.output, link.wire \o x) /\ (Gone \/ (n = Made /\ x = <<>>))
    <3>1. b \o b = b
      BY DEF b
    <3> QED BY <1>4, <2>1, <2>7, <2>8, <3>1 DEF b
  <2> QED BY <1>3, <2>1, <2>2, <2>3, <2>8, <2>9 DEF InTouch, w
<1>8. ResultSound(client.result)
  BY <1>5 DEF ResultSound
<1>9. ClientInv
  BY <1>1, <1>3, <1>5, <1>7, <1>8 DEF ClientInv
<1> QED BY <1>6, <1>9 DEF ExecInv

(* Every step of a run keeps what is known of it.                          *)
LEMMA RunStepKeeps == ASSUME ExecInv, ExecNext PROVE ExecInv'
<1>1. CASE Created \/ (Located /\ ~ExecEnded) \/ \E why : Interrupt(why)
  BY <1>1, ClientKeeps
<1>2. CASE Stops \/ Throws
  BY <1>2, EndsKeep
<1>3. CASE StartExec \/ Upgraded \/ Connected \/ ConnectFails
  BY <1>3, StartKeeps, UpgradeKeeps, ConnectKeeps
<1>4. CASE Shutdown \/ LinkLost \/ \E n \in 1 .. Len(link.pending) : Flush(n)
  BY <1>4, LinkKeeps, LostKeeps
<1>5. CASE \E n \in 1 .. Len(link.wire) : Read(n)
  BY <1>5, ReadKeeps
<1>6. CASE ReadEnd \/ ExitCode \/ KillExec \/ ProcessWrites
  BY <1>6, ReadEndKeeps, CodeKeeps, KillKeeps, ProcessWritesKeep
<1>7. CASE DaemonCreates \/ DaemonStarts \/ StdinEnds \/ OutputEnds \/ ProcessExits \/ ContainerStops
  BY <1>7, ProcessKeeps
<1> QED BY <1>1, <1>2, <1>3, <1>4, <1>5, <1>6, <1>7 DEF ExecNext, Stops, Throws

(* Whatever the daemon, the process and the connection do, and however the *)
(* output is cut into frames and chunks: run returns a beginning of what   *)
(* the process wrote to stdout, within the cap, with at most the mark of   *)
(* half a character behind it when the process was killed or the           *)
(* connection lost; with an exit code of the process, over a connection    *)
(* that was not lost, it is all of it, but for such a mark that the cap    *)
(* has no room for.                                                        *)
THEOREM ResultsAgree == InitData /\ [][DataNext]_dataVars => []ResultAgrees
<1>1. InitData => ExecInv
  BY DataBegins
<1>2. ExecInv /\ [DataNext]_dataVars => ExecInv'
  <2> SUFFICES ASSUME ExecInv, [DataNext]_dataVars PROVE ExecInv'
    OBVIOUS
  <2>1. CASE Load \/ CheckSeedFile \/ ReadSeedFile \/ SeedFileChanges \/ Answer
    BY <2>1, ClientKeeps
  <2>2. CASE ExecNext
    BY <2>2, RunStepKeeps
  <2>3. CASE UNCHANGED dataVars
    <3>1. job' = job /\ link' = link /\ exec' = exec /\ client' = client
      BY <2>3 DEF dataVars, execVars
    <3>2. ClientShape'
      BY <3>1 DEF ExecInv, ClientInv, ClientShape
    <3> QED BY <3>1, <3>2, ClientSteps
  <2> QED BY <2>1, <2>2, <2>3 DEF DataNext
<1>3. ExecInv => ResultAgrees
  <2> SUFFICES ASSUME ExecInv, Returned PROVE ResultAgrees
    BY DEF ResultAgrees
  <2>1. ResultSound(client.result) /\ client.result.kind = "result"
    BY DEF ExecInv, ClientInv, Returned
  <2> QED BY <2>1 DEF ResultSound, Sound, StartsLike, Whole, ResultAgrees, Stdout
<1> QED BY <1>1, <1>2, <1>3, PTL

-----------------------------------------------------------------------------
(* A seed is fed whole, or the connection was lost.                        *)

(* What was sent of the request and of stdin behind it.                    *)
Sending ==
  /\ link.pending \in Bytes /\ link.received \in Bytes
  /\ link.phase \in {"none", "connecting"} =>
       link.received = <<>> /\ link.pending = <<>> /\ ~link.queued /\ ~link.eof
  /\ link.phase = "open" \/ link.received # <<>> =>
       link.received \o link.pending = IF link.queued THEN Request \o job.stdin ELSE Request
  /\ link.eof => link.queued /\ link.pending = <<>>

(* A process that went on behind the end of stdin has read a beginning of  *)
(* it, and all of it when its end was sent, as it was over a connection    *)
(* that was open then.                                                     *)
Fed ==
  /\ exec.state \notin {"absent", "created"} => link.received # <<>>
  /\ exec.state \in {"ending", "exited"} => exec.written # 0
  /\ exec.written # 0 /\ (link.phase = "open" \/ link.ended) => link.eof
  /\ exec.written # 0 => IsPrefix(exec.stdin, job.stdin) /\ (link.eof => exec.stdin = job.stdin)

Succeeded ==
  /\ exec.state = "exited" /\ exec.code = 0 /\ IsPrefix(exec.stdin, job.stdin)
  /\ exec.stdin = job.stdin \/ (link.phase = "lost" /\ ~link.eof)
SaysSuccess(r) == r.kind = "result" /\ r.exit = 0

SeedInv ==
  /\ ExecInv
  /\ job.op = "seed" =>
       Sending /\ Fed /\ (SaysSuccess(client.result) => Succeeded) /\ (answer.ok => Succeeded)

(* The client closes the connection, or loses it, or leaves it alone.      *)
LinkStays ==
  /\ link'.pending = link.pending /\ link'.received = link.received
  /\ link'.queued = link.queued /\ link'.eof = link.eof
  /\ link'.phase = link.phase \/ (link'.phase \in {"closed", "lost", "broken"} /\ link.phase # "lost")

(* Then what was sent stays.                                               *)
LEMMA StaysSent == ASSUME Sending, LinkStays, job' = job PROVE Sending'
BY DEF Sending, LinkStays

(* And what was fed, when the process does nothing.                        *)
LEMMA StaysFed ==
  ASSUME Fed, LinkStays, job' = job, exec' = exec, link'.ended = link.ended PROVE Fed'
BY DEF Fed, LinkStays

(* A result that says nothing new.                                         *)
SaysNothingNew == SaysSuccess(client.result)' => SaysSuccess(client.result) \/ Succeeded

(* A step that neither feeds nor writes.                                   *)
LEMMA StillSeeds ==
  ASSUME SeedInv, ExecInv', LinkStays, job' = job, exec' = exec, link'.ended = link.ended,
         SaysNothingNew, answer' = answer
  PROVE  SeedInv'
<1>1. job.op = "seed" => Sending' /\ Fed'
  BY StaysSent, StaysFed DEF SeedInv
<1> QED BY <1>1 DEF SeedInv, SaysNothingNew, Succeeded, LinkStays

(* The client goes on.                                                     *)
LEMMA SameLink == ASSUME link' = link PROVE LinkStays /\ link'.ended = link.ended
BY DEF LinkStays

(* The `finally` of a run.                                                 *)
LEMMA FinishSeeds ==
  ASSUME SeedInv, ExecInv', NEW r, Finish(r), SaysSuccess(r) /\ job.op = "seed" => Succeeded,
         job' = job, exec' = exec, answer' = answer
  PROVE  SeedInv'
<1>1. ClientShape /\ LinkShape
  BY DEF SeedInv, ExecInv, ClientInv, ProcessInv
<1>2. client'.result = r
  <2> DEFINE at == IF ExecEnded /\ client.started THEN "kill" ELSE "done"
  <2>1. client' = [client EXCEPT !.result = r, !.at = at]
    BY DEF Finish
  <2> HIDE DEF at
  <2> QED BY <1>1, <2>1 DEF ClientShape
<1>3. LinkStays /\ link'.ended = link.ended
  <2> DEFINE phase == IF link.phase = "open" THEN "closed" ELSE link.phase
  <2>1. link' = [link EXCEPT !.phase = phase]
    BY <1>1 DEF Finish, LinkShape
  <2>2. phase = link.phase \/ (phase = "closed" /\ link.phase # "lost")
    OBVIOUS
  <2> HIDE DEF phase
  <2>3. link'.phase = phase /\ link'.pending = link.pending /\ link'.received = link.received
        /\ link'.queued = link.queued /\ link'.eof = link.eof /\ link'.ended = link.ended
    BY <1>1, <2>1 DEF LinkShape
  <2> QED BY <2>2, <2>3 DEF LinkStays
<1>4. job.op = "seed" => Sending' /\ Fed'
  BY <1>3, StaysSent, StaysFed DEF SeedInv
<1> QED BY <1>2, <1>3, <1>4 DEF SeedInv, Succeeded, LinkStays

(* Steps of the client alone, but for the answer.                          *)
LEMMA ClientSeeds ==
  ASSUME SeedInv, answer' = answer \/ ~answer'.ok,
         \/ Load \/ CheckSeedFile \/ ReadSeedFile \/ SeedFileChanges
         \/ Created \/ (Located /\ ~ExecEnded) \/ \E why : Interrupt(why)
  PROVE  SeedInv'
<1>1. ExecInv' /\ ClientShape
  BY ClientKeeps DEF SeedInv, ExecInv, ClientInv
<1>2. job' = job /\ link' = link /\ exec' = exec
  BY DEF Load, CheckSeedFile, ReadSeedFile, SeedFileChanges, Created, Located, Interrupt, execVars
<1>3. client'.result = client.result
  <2>1. CASE \E why : Interrupt(why)
    BY <1>1, <2>1 DEF Interrupt, ClientShape
  <2>2. CASE Created
    BY <1>1, <2>2 DEF Created, ClientShape
  <2>3. CASE SeedFileChanges
    BY <2>3 DEF SeedFileChanges, execVars
  <2>4. CASE Load \/ CheckSeedFile \/ ReadSeedFile \/ (Located /\ ~ExecEnded)
    <3>1. \E at : client' = [client EXCEPT !.at = at]
      BY <2>4 DEF Load, CheckSeedFile, ReadSeedFile, Located, Tell
    <3> QED BY <1>1, <3>1 DEF ClientShape
  <2> QED BY <2>1, <2>2, <2>3, <2>4
<1>4. LinkStays /\ link'.ended = link.ended
  BY <1>2, SameLink
<1>5. job.op = "seed" => Sending' /\ Fed'
  BY <1>2, <1>4, StaysSent, StaysFed DEF SeedInv
<1> QED BY <1>1, <1>2, <1>3, <1>5 DEF SeedInv, Succeeded

(* A process has begun only behind an open connection.                     *)
LEMMA FedLate ==
  ASSUME SeedInv, exec.written # 0 \/ exec.state \notin {"absent", "created"}
  PROVE  link.phase \notin {"none", "connecting"}
BY DEF SeedInv, ExecInv, ProcessInv

(* The connection sends, while the client and the process wait.            *)
LEMMA SendSeeds ==
  ASSUME SeedInv, ExecInv', job' = job, exec' = exec, answer' = answer, link.phase # "lost",
         SaysSuccess(client.result)' => SaysSuccess(client.result), job.op = "seed" => Sending' /\ Fed'
  PROVE  SeedInv'
BY DEF SeedInv, Succeeded

(* The request goes out.                                                   *)
LEMMA RequestSeeds == ASSUME SeedInv, StartExec \/ Connected, answer' = answer PROVE SeedInv'
<1>1. LinkShape /\ ClientShape /\ ProcessInv
  BY DEF SeedInv, ExecInv, ClientInv, ProcessInv
<1>2. ExecInv'
  BY StartKeeps, ConnectKeeps DEF SeedInv
<1>3. link.phase \in {"none", "connecting"} /\ job' = job /\ exec' = exec
  <2>1. CASE StartExec
    <3>1. Early
      BY <2>1 DEF StartExec, Early
    <3>2. link = NewLink
      BY <3>1 DEF SeedInv, ExecInv, ClientInv
    <3> QED BY <2>1, <3>2 DEF StartExec, NewLink
  <2>2. CASE Connected
    BY <2>2 DEF Connected
  <2> QED BY <2>1, <2>2
<1>4. \/ link' = [link EXCEPT !.phase = "connecting"]
      \/ link' = [link EXCEPT !.phase = "open", !.pending = Request]
  BY DEF StartExec, Connected
<1>5. SaysSuccess(client.result)' => SaysSuccess(client.result)
  <2>1. \/ client' = client
        \/ client' = [client EXCEPT !.at = "opening"]
        \/ client' = [client EXCEPT !.result = Killed, !.at = "kill"]
    BY DEF StartExec, Connected
  <2>2. Killed.exit = -1
    BY DEF Killed
  <2>3. client'.result = client.result \/ client'.result = Killed
    BY <1>1, <2>1 DEF ClientShape
  <2> QED BY <2>2, <2>3 DEF SaysSuccess
<1>6. /\ link'.received = link.received /\ link'.queued = link.queued /\ link'.eof = link.eof /\ link'.ended = link.ended
      /\ \/ link'.phase = "connecting" /\ link'.pending = link.pending
         \/ link'.phase = "open" /\ link'.pending = Request
  BY <1>1, <1>4 DEF LinkShape
<1>7. exec.written = 0 /\ exec.state \in {"absent", "created"} /\ link.phase # "lost"
  BY <1>3, FedLate
<1>8. ASSUME job.op = "seed" PROVE Sending' /\ Fed'
  <2>1. Sending /\ Fed
    BY <1>8 DEF SeedInv
  <2>2. link.received = <<>> /\ link.pending = <<>> /\ ~link.queued /\ ~link.eof
    BY <1>3, <2>1 DEF Sending
  <2>3. Request \in Bytes /\ <<>> \in Bytes /\ <<>> \o Request = Request
    BY DEF Request, Bytes
  <2>4. Sending'
    BY <1>6, <2>2, <2>3 DEF Sending
  <2>5. Fed'
    BY <1>3, <1>7, <2>1 DEF Fed
  <2> QED BY <2>4, <2>5
<1> QED BY <1>2, <1>3, <1>5, <1>7, <1>8, SendSeeds

(* The socket takes some of what is pending.                               *)
LEMMA FlushSeeds ==
  ASSUME SeedInv, NEW n \in 1 .. Len(link.pending), Flush(n), answer' = answer PROVE SeedInv'
<1> DEFINE p == link.pending
           a == SubSeq(p, 1, n)
           b == SubSeq(p, n + 1, Len(p))
           r == link.received
<1>1. LinkShape
  BY DEF SeedInv, ExecInv, ProcessInv
<1>2. ExecInv'
  BY LinkKeeps DEF SeedInv
<1>3. link.phase = "open" /\ ~link.eof /\ job' = job /\ exec' = exec /\ client' = client
      /\ link' = [link EXCEPT !.received = r \o a, !.pending = b]
  BY <1>1 DEF Flush, LinkShape
<1>4. ASSUME job.op = "seed" PROVE Sending' /\ Fed'
  <2>1. Sending /\ Fed
    BY <1>4 DEF SeedInv
  <2>2. p \in Bytes /\ r \in Bytes /\ r \o p = IF link.queued THEN Request \o job.stdin ELSE Request
    BY <1>3, <2>1 DEF Sending
  <2>3. a \in Bytes /\ b \in Bytes /\ p = a \o b
    <3> HIDE DEF p
    <3>1. n \in 0 .. Len(p)
      BY DEF p
    <3> QED BY <2>2, <3>1, BytesCut
  <2> HIDE DEF p, a, b, r
  <2>4. (r \o a) \o b = r \o p /\ r \o a \in Bytes
    <3>1. Rejoined(r, a, b)
      BY <2>2, <2>3, Rejoins, Zenon
    <3>2. (r \o a) \o b = r \o (a \o b)
      BY ONLY <3>1 DEF Rejoined
    <3>3. r \o a \in Bytes
      BY ONLY <2>2, <2>3, JoinedTyped
    <3> QED BY <2>3, <3>2, <3>3
  <2> DEFINE c == r \o a
  <2>5. c \o b = r \o p /\ c \in Bytes /\ link' = [link EXCEPT !.received = c, !.pending = b]
    BY <1>3, <2>4
  <2> HIDE DEF c
  <2>6. link'.phase = "open" /\ link'.received = c /\ link'.pending = b /\ link'.queued = link.queued /\ link'.eof = link.eof
        /\ link'.ended = link.ended
    BY <1>1, <1>3, <2>5 DEF LinkShape
  <2>7. Sending'
    BY <1>3, <2>2, <2>3, <2>5, <2>6 DEF Sending
  <2>8. link.received # <<>> => c # <<>>
    <3>1. r \in Seq(Nat) /\ a \in Seq(Nat)
      BY <2>2, <2>3 DEF Bytes
    <3>2. r # <<>> => r \o a # <<>>
      BY ONLY <3>1, ConcatEqualIffEmpty, SMTT(30)
    <3> QED BY <3>2 DEF c, r
  <2>9. Fed'
    BY <1>3, <2>1, <2>6, <2>8 DEF Fed
  <2> QED BY <2>7, <2>9
<1>5. link.phase # "lost"
  BY <1>3
<1> QED BY <1>2, <1>3, <1>4, <1>5, SendSeeds

(* The write side is closed when everything was taken.                     *)
LEMMA ShutdownSeeds == ASSUME SeedInv, Shutdown, answer' = answer PROVE SeedInv'
<1>1. LinkShape
  BY DEF SeedInv, ExecInv, ProcessInv
<1>2. ExecInv'
  BY LinkKeeps DEF SeedInv
<1>3. link.phase = "open" /\ link.queued /\ ~link.eof /\ link.pending = <<>> /\ job' = job /\ exec' = exec /\ client' = client
      /\ link' = [link EXCEPT !.eof = TRUE]
  BY DEF Shutdown
<1>4. link'.phase = "open" /\ link'.received = link.received /\ link'.pending = link.pending
      /\ link'.queued = link.queued /\ link'.eof = TRUE /\ link'.ended = link.ended
  BY <1>1, <1>3 DEF LinkShape
<1>5. ASSUME job.op = "seed" PROVE Sending' /\ Fed'
  <2>1. Sending /\ Fed
    BY <1>5 DEF SeedInv
  <2>2. Sending'
    BY <1>3, <1>4, <2>1 DEF Sending
  <2>3. Fed'
    BY <1>3, <1>4, <2>1 DEF Fed
  <2> QED BY <2>2, <2>3
<1> QED BY <1>2, <1>3, <1>5, SendSeeds

(* stdin is queued behind the request.                                     *)
LEMMA UpgradeSeeds == ASSUME SeedInv, Upgraded, answer' = answer PROVE SeedInv'
<1> DEFINE p == link.pending
           r == link.received
           q == IF HasStdin THEN p \o job.stdin ELSE p
<1>1. LinkShape /\ ClientShape /\ job \in Jobs
  BY DEF SeedInv, ExecInv, ClientInv, ProcessInv
<1>2. ExecInv'
  BY UpgradeKeeps DEF SeedInv
<1>3. link.phase = "open" /\ ~link.queued /\ job' = job /\ exec' = exec
      /\ link' = [link EXCEPT !.queued = TRUE, !.pending = q]
  BY <1>1 DEF Upgraded, LinkShape
<1>4. client'.result = client.result
  <2> DEFINE at == IF client.at = "opening" THEN "read" ELSE client.at
  <2>1. client' = [client EXCEPT !.at = at]
    BY <1>1 DEF Upgraded, ClientShape
  <2> HIDE DEF at
  <2> QED BY <1>1, <2>1 DEF ClientShape
<1>5. ASSUME job.op = "seed" PROVE Sending' /\ Fed'
  <2>1. Sending /\ Fed
    BY <1>5 DEF SeedInv
  <2>2. HasStdin /\ job.stdin \in Bytes
    BY <1>1, <1>5, SeedsAssumption DEF HasStdin, Bytes
  <2>3. p \in Bytes /\ r \in Bytes /\ r \o p = Request /\ ~link.eof
    BY <1>3, <2>1 DEF Sending
  <2> DEFINE s == job.stdin
             c == p \o s
  <2>4. q = c
    BY <2>2
  <2> HIDE DEF q, p, r, s
  <2>5. r \o c = Request \o s /\ c \in Bytes
    <3>1. s \in Bytes
      BY <2>2 DEF s
    <3>2. Rejoined(r, p, s)
      BY <2>3, <3>1, Rejoins, Zenon
    <3>3. (r \o p) \o s = r \o (p \o s)
      BY ONLY <3>2 DEF Rejoined
    <3>4. p \o s \in Bytes
      BY ONLY <2>3, <3>1, JoinedTyped
    <3> QED BY <2>3, <3>3, <3>4
  <2> HIDE DEF c
  <2>6. link'.phase = "open" /\ link'.received = r /\ link'.pending = c /\ link'.queued = TRUE /\ link'.eof = link.eof
        /\ link'.ended = link.ended
    BY <1>1, <1>3, <2>4 DEF LinkShape, r
  <2>7. Sending'
    BY <1>3, <2>3, <2>5, <2>6 DEF Sending, s
  <2>8. Fed'
    BY <1>3, <2>1, <2>3, <2>6 DEF Fed
  <2> QED BY <2>7, <2>8
<1> QED BY <1>2, <1>3, <1>4, <1>5, SendSeeds

(* The steps that end a run without an exit code.                          *)
LEMMA EndSeeds == ASSUME SeedInv, answer' = answer, Stops \/ Throws PROVE SeedInv'
<1>1. ExecInv' /\ job' = job /\ exec' = exec
  BY EndsKeep, EndsAre DEF SeedInv
<1>2. ~SaysSuccess(Killed) /\ \A code : ~SaysSuccess(Thrown(code))
  BY DEF SaysSuccess, Killed, Thrown
<1>3. CASE Stops
  <2>1. Finish(Killed)
    BY <1>3, EndsAre
  <2> QED BY <1>1, <1>2, <2>1, FinishSeeds
<1>4. CASE Throws
  <2>1. PICK code : Finish(Thrown(code))
    BY <1>4, EndsAre
  <2> QED BY <1>1, <1>2, <2>1, FinishSeeds
<1> QED BY <1>3, <1>4

(* Code 0 is the code of a process that exited, and had read all of stdin  *)
(* but for what a lost connection did not carry.                           *)
LEMMA CodeSeeds == ASSUME SeedInv, ExitCode, answer' = answer PROVE SeedInv'
<1> DEFINE r == [kind |-> "result", output |-> client.output, timedOut |-> FALSE,
                 exit |-> IF exec.state \in {"exited", "killed"} THEN exec.code ELSE -1]
<1>1. ExecInv'
  BY CodeKeeps DEF SeedInv
<1>2. Finish(r) /\ job' = job /\ exec' = exec
  BY DEF ExitCode
<1>3. ASSUME SaysSuccess(r), job.op = "seed" PROVE Succeeded
  <2>1. (link.ended \/ link.phase = "lost") /\ (exec.state = "killed" => exec.code = 137)
    BY DEF SeedInv, ExecInv, ClientInv, ProcessInv, ExitCode
  <2>2. exec.state \in {"exited", "killed"} /\ exec.code = 0
    BY <1>3 DEF SaysSuccess
  <2>3. exec.state = "exited"
    BY <2>1, <2>2
  <2> QED BY <1>3, <2>1, <2>2, <2>3 DEF SeedInv, Fed, Succeeded
<1> HIDE DEF r
<1> QED BY <1>1, <1>2, <1>3, FinishSeeds

(* The connection fails.                                                   *)
LEMMA LostSeeds == ASSUME SeedInv, ConnectFails \/ LinkLost, answer' = answer PROVE SeedInv'
<1>1. LinkShape /\ ClientShape
  BY DEF SeedInv, ExecInv, ClientInv, ProcessInv
<1>2. ExecInv' /\ job' = job /\ exec' = exec
  BY ConnectKeeps, LostKeeps DEF SeedInv, ConnectFails, LinkLost
<1>3. /\ link.phase \in {"connecting", "open"}
      /\ \/ link' = [link EXCEPT !.phase = "closed"]
         \/ \E phase \in {"lost", "broken"} : \E b : link' = [link EXCEPT !.phase = phase, !.wire = b]
  <2>1. CASE ConnectFails
    BY <2>1 DEF ConnectFails
  <2>2. CASE LinkLost
    BY <1>1, <2>2 DEF LinkLost, LinkShape
  <2> QED BY <2>1, <2>2
<1>4. LinkStays /\ link'.ended = link.ended
  BY <1>1, <1>3 DEF LinkShape, LinkStays
<1>5. SaysNothingNew
  <2>1. CASE client' = client
    BY <2>1 DEF SaysNothingNew
  <2>2. CASE client' # client
    <3> DEFINE at == IF ExecEnded THEN "kill" ELSE "done"
    <3>1. client' = [client EXCEPT !.result = Thrown("DOCKER_UNREACHABLE"), !.at = at]
      BY <2>2 DEF ConnectFails, LinkLost
    <3> HIDE DEF at
    <3>2. client'.result = Thrown("DOCKER_UNREACHABLE")
      BY <1>1, <3>1 DEF ClientShape
    <3> QED BY <3>2 DEF SaysNothingNew, SaysSuccess, Thrown
  <2> QED BY <2>1, <2>2
<1> QED BY <1>2, <1>4, <1>5, StillSeeds

(* Output is read.                                                         *)
LEMMA ReadSeeds ==
  ASSUME SeedInv, ReadEnd \/ \E n \in 1 .. Len(link.wire) : Read(n), answer' = answer PROVE SeedInv'
<1>1. LinkShape /\ ClientShape
  BY DEF SeedInv, ExecInv, ClientInv, ProcessInv
<1>2. ExecInv'
  BY ReadEndKeeps, ReadKeeps DEF SeedInv
<1>3. CASE ReadEnd
  <2> DEFINE phase == IF link.phase = "open" THEN "closed" ELSE link.phase
  <2>1. /\ link' = [link EXCEPT !.phase = phase] /\ job' = job /\ exec' = exec
        /\ \E o : client' = [client EXCEPT !.at = "code", !.output = o]
    BY <1>1, <1>3 DEF ReadEnd, ClientShape, LinkShape
  <2>4. phase = link.phase \/ (phase = "closed" /\ link.phase # "lost")
    OBVIOUS
  <2> HIDE DEF phase
  <2>5. LinkStays /\ link'.ended = link.ended
    BY <1>1, <2>1, <2>4 DEF LinkShape, LinkStays
  <2>2. client'.result = client.result
    BY <1>1, <2>1 DEF ClientShape
  <2>3. SaysNothingNew
    BY <2>2 DEF SaysNothingNew
  <2> QED BY <1>2, <2>1, <2>3, <2>5, StillSeeds
<1>4. CASE \E n \in 1 .. Len(link.wire) : Read(n)
  <2>1. PICK n \in 1 .. Len(link.wire) : Read(n)
    BY <1>4
  <2> DEFINE rest == SubSeq(link.wire, n + 1, Len(link.wire))
             e == Push(client.demux, SubSeq(link.wire, 1, n))
             p == Collect(client.output, e.frames)
             why == IF p.truncated /\ ~ExecEnded THEN "cap" ELSE client.reason
             read == [client EXCEPT !.demux = e, !.output = p, !.reason = why]
             r == [Killed EXCEPT !.output = p, !.timedOut = why # "cap"]
             phase == IF why # "none" /\ link.phase = "open" THEN "closed" ELSE link.phase
  <2>2. job' = job /\ exec' = exec /\ client' = IF why = "none" THEN read ELSE [read EXCEPT !.at = "kill", !.result = r]
    BY <2>1 DEF Read
  <2>3. link' = [link EXCEPT !.wire = rest, !.phase = phase]
    BY <1>1, <2>1 DEF Read, LinkShape
  <2>4. phase = link.phase \/ (phase = "closed" /\ link.phase # "lost")
    OBVIOUS
  <2>5. r.exit = -1
    BY DEF Killed
  <2> HIDE DEF rest, e, p, why, r, phase
  <2>6. LinkStays /\ link'.ended = link.ended
    BY <1>1, <2>3, <2>4 DEF LinkShape, LinkStays
  <2>7. client'.result = client.result \/ client'.result = r
    BY <1>1, <2>2 DEF ClientShape
  <2>8. SaysNothingNew
    BY <2>5, <2>7 DEF SaysNothingNew, SaysSuccess
  <2> QED BY <1>2, <2>2, <2>6, <2>8, StillSeeds
<1> QED BY <1>3, <1>4

(* What is behind the request, when all of it was received.                *)
LEMMA BehindRequest ==
  ASSUME NEW r \in Bytes, NEW s \in Bytes, r = Request \o s PROVE Tail(r) = s
BY DEF Request, Bytes

(* What is behind it, when some was received.                              *)
LEMMA PartBehindRequest ==
  ASSUME NEW r \in Bytes, NEW q \in Bytes, NEW s \in Bytes, r # <<>>, r \o q = Request \o s \/ r \o q = Request
  PROVE  IsPrefix(Tail(r), s)
<1> DEFINE h == <<Head(r)>>
           t == Tail(r)
           u == IF r \o q = Request \o s THEN s ELSE <<>>
<1>1. r \in Seq(Nat) /\ q \in Seq(Nat) /\ s \in Seq(Nat) /\ Request \in Seq(Nat)
  BY DEF Bytes, Request
<1>2. t \in Seq(Nat) /\ h \in Seq(Nat) /\ r = h \o t
  BY <1>1
<1>3. u \in Seq(Nat) /\ r \o q = Request \o u
  <2>1. Request \o <<>> = Request /\ <<>> \in Seq(Nat)
    BY DEF Request
  <2>2. CASE r \o q = Request \o s
    BY <1>1, <2>2
  <2>3. CASE r \o q # Request \o s
    <3>1. u = <<>> /\ r \o q = Request
      BY <2>3
    <3> QED BY <2>1, <3>1
  <2> QED BY <2>2, <2>3
<1>4. t \in Bytes /\ h \in Bytes /\ u \in Bytes /\ q \in Bytes
  BY <1>2, <1>3 DEF Bytes
<1> HIDE DEF h, t, u
<1>5. r \o q = h \o (t \o q)
  <2>1. Rejoined(h, t, q)
    BY <1>4, Rejoins, Zenon
  <2>2. (h \o t) \o q = h \o (t \o q)
    BY ONLY <2>1 DEF Rejoined
  <2> QED BY <1>2, <2>2
<1>6. t \o q \in Bytes
  BY ONLY <1>4, JoinedTyped
<1> DEFINE v == t \o q
<1>7. <<Head(r)>> \o v = <<0>> \o u /\ v \in Bytes
  BY <1>3, <1>5, <1>6 DEF h, Request
<1> HIDE DEF v
<1>8. v = u
  <2>1. Tail(<<Head(r)>> \o v) = v /\ Tail(<<0>> \o u) = u
    <3>1. Head(r) \in Nat
      BY <1>1
    <3>2. v \in Seq(Nat) /\ u \in Seq(Nat)
      BY <1>4, <1>7 DEF Bytes
    <3> QED BY <3>1, <3>2
  <2> QED BY <1>7, <2>1
<1>9. IsPrefix(t, u)
  <2>1. t \in Seq(Nat)
    BY <1>4 DEF Bytes
  <2>2. IsPrefix(t, t \o q)
    BY ONLY <1>1, <2>1, PrefixOfJoined
  <2> QED BY <1>8, <2>2 DEF v
<1>10. CASE r \o q = Request \o s
  BY <1>9, <1>10 DEF u, t
<1>11. CASE r \o q # Request \o s
  <2>1. u = <<>>
    BY <1>11 DEF u
  <2>2. t = <<>>
    <3>1. t \in Seq(Nat)
      BY <1>4 DEF Bytes
    <3>2. t \o q = <<>> => t = <<>>
      BY ONLY <1>1, <3>1, ConcatEqualIffEmpty, SMTT(30)
    <3> QED BY <1>8, <2>1, <3>2 DEF v
  <2>3. IsPrefix(<<>>, s)
    <3>1. <<>> \in Seq(Nat) /\ <<>> \o s = s
      BY <1>1
    <3>2. IsPrefix(<<>>, <<>> \o s)
      BY ONLY <1>1, <3>1, PrefixOfJoined
    <3> QED BY <3>1, <3>2
  <2> QED BY <2>2, <2>3 DEF t
<1> QED BY <1>10, <1>11

(* The connection is the client's, but for its wire, its end and the       *)
(* daemon's answer.                                                        *)
SameSent ==
  /\ link'.pending = link.pending /\ link'.received = link.received
  /\ link'.queued = link.queued /\ link'.eof = link.eof /\ link'.phase = link.phase

(* A step of the daemon or of the process.                                 *)
LEMMA RunSeeds ==
  ASSUME SeedInv, ExecInv', job' = job, client'.result = client.result, answer' = answer, SameSent,
         job.op = "seed" => Fed', Succeeded => exec' = exec
  PROVE  SeedInv'
<1>1. job.op = "seed" => Sending'
  BY DEF SeedInv, Sending, SameSent
<1> QED BY <1>1 DEF SeedInv, Succeeded, SameSent

(* A seed has stdin, which is bytes.                                       *)
LEMMA SeedHasStdin == ASSUME SeedInv, job.op = "seed" PROVE HasStdin /\ job.stdin \in Bytes
BY SeedsAssumption DEF SeedInv, ExecInv, ProcessInv, HasStdin, Bytes

(* stdin ends: the process has read what was received behind the request,  *)
(* which is all of it when its end was sent.                               *)
LEMMA StdinSeeds == ASSUME SeedInv, StdinEnds, answer' = answer PROVE SeedInv'
<1>1. ExecInv' /\ ExecShape
  BY ProcessKeeps DEF SeedInv, ExecInv, ProcessInv
<1>2. job' = job /\ client' = client /\ link' = link
      /\ exec' = [exec EXCEPT !.stdin = Tail(link.received), !.written = 1]
  BY DEF StdinEnds
<1>3. exec.state = "running" /\ (link.phase = "open" => link.eof)
  BY DEF StdinEnds
<1>4. exec'.state = "running" /\ exec'.stdin = Tail(link.received) /\ exec'.written = 1
  BY <1>1, <1>2, <1>3 DEF ExecShape
<1>5. ~link.ended
  BY <1>3 DEF SeedInv, ExecInv, ProcessInv
<1>6. ASSUME job.op = "seed" PROVE Fed'
  <2> DEFINE r == link.received
             q == link.pending
             z == job.stdin
  <2>1. Sending /\ Fed /\ z \in Bytes
    BY <1>6, SeedHasStdin DEF SeedInv
  <2>2. r # <<>> /\ r \in Bytes /\ q \in Bytes /\ r \o q = IF link.queued THEN Request \o z ELSE Request
    BY <1>3, <2>1 DEF Sending, Fed
  <2>3. link.eof => link.queued /\ q = <<>>
    BY <2>1 DEF Sending
  <2> HIDE DEF r, q, z
  <2>4. IsPrefix(Tail(r), z)
    BY <2>1, <2>2, PartBehindRequest
  <2>5. link.eof => Tail(r) = z
    <3>1. r \o <<>> = r
      BY <2>2 DEF Bytes
    <3> QED BY <2>1, <2>2, <2>3, <3>1, BehindRequest
  <2> QED BY <1>2, <1>3, <1>4, <1>5, <2>2, <2>4, <2>5 DEF Fed, r, z
<1>7. ~Succeeded
  BY <1>3 DEF Succeeded
<1> QED BY <1>1, <1>2, <1>6, <1>7, RunSeeds DEF SameSent

(* The other steps of the process, which it takes with what it has read.   *)
LEMMA ProcessSeeds ==
  ASSUME SeedInv, answer' = answer,
         \/ DaemonCreates \/ DaemonStarts \/ ProcessWrites \/ OutputEnds \/ ProcessExits \/ ContainerStops \/ KillExec
  PROVE  SeedInv'
<1>1. ProcessInv /\ LinkShape /\ ExecShape /\ ClientShape
  BY DEF SeedInv, ExecInv, ProcessInv, ClientInv
<1>2. ExecInv'
  BY ProcessKeeps, ProcessWritesKeep, KillKeeps DEF SeedInv
<1>3. job' = job /\ client'.result = client.result
  <2>1. job' = job /\ (client' = client \/ client' = [client EXCEPT !.at = "done"])
    BY DEF DaemonCreates, DaemonStarts, ProcessWrites, OutputEnds, ProcessExits, ContainerStops, KillExec
  <2> QED BY <1>1, <2>1 DEF ClientShape
<1>4. job.op = "seed" => exec.written \in Nat /\ Writes = exec.written - 1
  BY <1>1, SeedHasStdin DEF ProcessInv, Writes
<1>5. CASE DaemonCreates \/ DaemonStarts
  <2>1. /\ link' = link \/ \E a : link' = [link EXCEPT !.answer = a]
        /\ exec.state \in {"absent", "created"}
        /\ \/ exec' = exec \/ exec' = [exec EXCEPT !.state = "created"]
           \/ exec' = [exec EXCEPT !.state = "running"] /\ link.received # <<>>
    BY <1>5 DEF DaemonCreates, DaemonStarts
  <2>2. SameSent /\ link'.ended = link.ended
    BY <1>1, <2>1 DEF SameSent, LinkShape
  <2>3. /\ exec'.written = exec.written /\ exec'.stdin = exec.stdin
        /\ exec'.state \in {"absent", "created"} \/ (exec'.state = "running" /\ link.received # <<>>)
    BY <1>1, <2>1 DEF ExecShape
  <2>4. job.op = "seed" => Fed'
    BY <1>3, <2>2, <2>3 DEF SeedInv, Fed, SameSent
  <2> QED BY <1>2, <1>3, <2>1, <2>2, <2>4, RunSeeds DEF Succeeded
<1>6. CASE ProcessWrites
  <2>1. exec.state = "running" /\ Writes \in 0 .. Len(job.writes) - 1 /\ exec' = [exec EXCEPT !.written = exec.written + 1]
        /\ (link' = link \/ \E b : link' = [link EXCEPT !.wire = b])
    BY <1>1, <1>6 DEF ProcessWrites, ExecShape, LinkShape
  <2>2. SameSent /\ link'.ended = link.ended
    BY <1>1, <2>1 DEF SameSent, LinkShape
  <2>3. exec'.written = exec.written + 1 /\ exec'.stdin = exec.stdin /\ exec'.state = "running"
    BY <1>1, <2>1 DEF ExecShape
  <2>4. job.op = "seed" => exec.written # 0
    BY <1>4, <2>1
  <2>5. job.op = "seed" => Fed'
    BY <1>3, <2>1, <2>2, <2>3, <2>4 DEF SeedInv, Fed, SameSent
  <2> QED BY <1>2, <1>3, <2>1, <2>2, <2>5, RunSeeds DEF Succeeded
<1>7. CASE OutputEnds
  <2>1. /\ exec.state = "running" /\ Writes = Len(job.writes) /\ exec' = [exec EXCEPT !.state = "ending"]
        /\ link' = [link EXCEPT !.ended = link.ended \/ link.phase = "open"]
    BY <1>1, <1>7 DEF OutputEnds, LinkShape
  <2>2. SameSent /\ (link'.ended => link.ended \/ link.phase = "open")
    BY <1>1, <2>1 DEF SameSent, LinkShape
  <2>3. exec'.written = exec.written /\ exec'.stdin = exec.stdin /\ exec'.state = "ending"
    BY <1>1, <2>1 DEF ExecShape
  <2>4. job.op = "seed" => exec.written # 0
    <3>1. Len(job.writes) \in Nat
      BY <1>1, JobTyped DEF ProcessInv
    <3> QED BY <1>4, <2>1, <3>1
  <2>5. job.op = "seed" => Fed'
    BY <1>3, <2>1, <2>2, <2>3, <2>4 DEF SeedInv, Fed, SameSent
  <2> QED BY <1>2, <1>3, <2>1, <2>2, <2>5, RunSeeds DEF Succeeded
<1>8. CASE ProcessExits
  <2>1. exec.state = "ending" /\ exec' = [exec EXCEPT !.state = "exited", !.code = job.exit] /\ link' = link
    BY <1>8 DEF ProcessExits
  <2>2. SameSent /\ link'.ended = link.ended
    BY <2>1 DEF SameSent
  <2>3. exec'.written = exec.written /\ exec'.stdin = exec.stdin
    BY <1>1, <2>1 DEF ExecShape
  <2>4. job.op = "seed" => Fed'
    BY <1>3, <2>1, <2>2, <2>3 DEF SeedInv, Fed, SameSent
  <2> QED BY <1>2, <1>3, <2>1, <2>2, <2>4, RunSeeds DEF Succeeded
<1>9. CASE ContainerStops \/ KillExec
  <2>1. /\ link' = link \/ link' = [link EXCEPT !.ended = link.ended \/ link.phase = "open"]
        /\ \/ exec' = exec
           \/ exec.state \in {"running", "ending"} /\ exec' = [exec EXCEPT !.state = "killed", !.code = 137]
    BY <1>1, <1>9 DEF ContainerStops, KillExec, LinkShape
  <2>2. SameSent /\ (link'.ended => link.ended \/ link.phase = "open")
    BY <1>1, <2>1 DEF SameSent, LinkShape
  <2>3. \/ exec' = exec
        \/ /\ exec'.written = exec.written /\ exec'.stdin = exec.stdin /\ exec'.state = "killed"
           /\ exec.state \in {"running", "ending"}
    BY <1>1, <2>1 DEF ExecShape
  <2>4. job.op = "seed" => Fed'
    BY <1>3, <2>2, <2>3 DEF SeedInv, Fed, SameSent
  <2> QED BY <1>2, <1>3, <2>1, <2>2, <2>4, RunSeeds DEF Succeeded
<1> QED BY <1>5, <1>6, <1>7, <1>8, <1>9

(* A run that has returned has a result or an error.                       *)
Settled == client.at \in {"kill", "done"} => client.result.kind \in {"result", "error"}

LEMMA FinishSettles ==
  ASSUME ClientShape, NEW r, Finish(r), r.kind \in {"result", "error"} PROVE Settled'
<1> DEFINE at == IF ExecEnded /\ client.started THEN "kill" ELSE "done"
<1>1. client' = [client EXCEPT !.result = r, !.at = at]
  BY DEF Finish
<1> HIDE DEF at
<1>2. client'.result = r
  BY <1>1 DEF ClientShape
<1> QED BY <1>2 DEF Settled

LEMMA StepSettles == ASSUME ClientShape, Settled, DataNext PROVE Settled'
<1>1. Killed.kind = "result" /\ \A code : Thrown(code).kind = "error"
  BY DEF Killed, Thrown
<1>2. CASE Stops \/ Throws \/ ExitCode
  <2>1. \E r : Finish(r) /\ r.kind \in {"result", "error"}
    <3>1. CASE Stops \/ Throws
      BY <1>1, <3>1, EndsAre
    <3>2. CASE ExitCode
      <4> DEFINE r == [kind |-> "result", output |-> client.output, timedOut |-> FALSE,
                       exit |-> IF exec.state \in {"exited", "killed"} THEN exec.code ELSE -1]
      <4>1. Finish(r) /\ r.kind = "result"
        BY <3>2 DEF ExitCode
      <4> HIDE DEF r
      <4> QED BY <4>1
    <3> QED BY <1>2, <3>1, <3>2
  <2>2. PICK r : Finish(r) /\ r.kind \in {"result", "error"}
    BY <2>1
  <2> QED BY <2>2, FinishSettles
<1>3. CASE Connected \/ ConnectFails
  <2>1. CASE client' = client
    BY <2>1 DEF Settled
  <2>2. CASE client' # client
    <3> DEFINE at == IF ExecEnded THEN "kill" ELSE "done"
    <3>1. \/ client' = [client EXCEPT !.result = Killed, !.at = "kill"]
          \/ client' = [client EXCEPT !.result = Thrown("DOCKER_UNREACHABLE"), !.at = at]
      BY <1>3, <2>2 DEF Connected, ConnectFails
    <3> HIDE DEF at
    <3>2. client'.result \in {Killed, Thrown("DOCKER_UNREACHABLE")}
      BY <3>1 DEF ClientShape
    <3> QED BY <1>1, <3>2 DEF Settled
  <2> QED BY <2>1, <2>2
<1>4. CASE \E n \in 1 .. Len(link.wire) : Read(n)
  <2>1. PICK n \in 1 .. Len(link.wire) : Read(n)
    BY <1>4
  <2> DEFINE e == Push(client.demux, SubSeq(link.wire, 1, n))
             p == Collect(client.output, e.frames)
             why == IF p.truncated /\ ~ExecEnded THEN "cap" ELSE client.reason
             read == [client EXCEPT !.demux = e, !.output = p, !.reason = why]
             r == [Killed EXCEPT !.output = p, !.timedOut = why # "cap"]
  <2>2. client.at = "read" /\ client' = IF why = "none" THEN read ELSE [read EXCEPT !.at = "kill", !.result = r]
    BY <2>1 DEF Read
  <2>3. r.kind = "result"
    BY DEF Killed
  <2> HIDE DEF e, p, why, r
  <2>4. client'.at = "read" \/ client'.result = r
    BY <2>2 DEF ClientShape
  <2> QED BY <2>3, <2>4 DEF Settled
<1>5. CASE KillExec \/ DaemonCreates \/ DaemonStarts \/ StdinEnds \/ ProcessWrites \/ OutputEnds \/ ProcessExits
           \/ ContainerStops \/ Shutdown \/ LinkLost \/ SeedFileChanges
           \/ \E n \in 1 .. Len(link.pending) : Flush(n)
  <2>1. client' = client \/ (client.at = "kill" /\ client' = [client EXCEPT !.at = "done"])
    BY <1>5 DEF KillExec, DaemonCreates, DaemonStarts, StdinEnds, ProcessWrites, OutputEnds, ProcessExits,
         ContainerStops, Shutdown, LinkLost, Flush, SeedFileChanges, execVars
  <2> QED BY <2>1 DEF Settled, ClientShape
<1>6. CASE Load \/ CheckSeedFile \/ ReadSeedFile \/ Answer \/ (Located /\ ~ExecEnded) \/ Created \/ StartExec \/ ReadEnd
  <2>1. client'.at \notin {"kill", "done"}
    BY <1>6 DEF Load, CheckSeedFile, ReadSeedFile, Answer, Tell, Located, Created, StartExec, ReadEnd, ClientShape
  <2> QED BY <2>1 DEF Settled
<1>7. CASE Upgraded \/ \E why \in {"timeout", "abort"} : Interrupt(why)
  <2>1. \/ client' = [client EXCEPT !.at = IF client.at = "opening" THEN "read" ELSE client.at]
        \/ \E why : client' = [client EXCEPT !.reason = why]
    BY <1>7 DEF Upgraded, Interrupt, ClientShape
  <2>2. client'.result = client.result /\ client'.at \in {client.at, "read"}
    BY <2>1 DEF ClientShape
  <2> QED BY <2>2 DEF Settled
<1> QED BY <1>2, <1>3, <1>4, <1>5, <1>6, <1>7 DEF DataNext, ExecNext, Stops, Throws

(* The caller is told of a seed what the result of the run says.           *)
LEMMA AnswerSeeds == ASSUME SeedInv, Settled, Answer PROVE SeedInv'
<1> DEFINE r == client.result
           a == IF r.kind = "error" THEN Refused(r.code) ELSE Served(Interpreted(r))
<1>1. ExecInv' /\ ClientShape
  BY ClientKeeps DEF SeedInv, ExecInv, ClientInv
<1>2. job' = job /\ link' = link /\ exec' = exec /\ answer' = a /\ client' = [client EXCEPT !.at = "told"]
  BY DEF Answer, Tell
<1>3. r.kind \in {"result", "error"}
  BY DEF Answer, Settled
<1>4. ASSUME job.op = "seed", a.ok PROVE SaysSuccess(r)
  <2>1. r.kind = "result" /\ Served(Interpreted(r)).ok
    BY <1>3, <1>4 DEF Refused
  <2>2. Interpreted(r).ok
    BY <2>1 DEF Served
  <2>3. r.exit = 0
    BY <1>4, <2>2 DEF Interpreted, Refused
  <2> QED BY <2>1, <2>3 DEF SaysSuccess
<1>5. client'.result = r
  BY <1>1, <1>2 DEF ClientShape
<1>6. job.op = "seed" => Sending' /\ Fed'
  <2>1. LinkStays /\ link'.ended = link.ended
    BY <1>2, SameLink
  <2> QED BY <1>2, <2>1, StaysSent, StaysFed DEF SeedInv
<1> HIDE DEF r, a
<1> QED BY <1>1, <1>2, <1>4, <1>5, <1>6 DEF SeedInv, Succeeded, r

(* A seed is reported as done only when its process exited with 0 and had  *)
(* read the file to the last byte, however the connection took the bytes   *)
(* and whenever the run was stopped; or a beginning of the file, when the  *)
(* connection ended, without an error, before the end of stdin was sent.   *)
THEOREM SeedsAreTrue == InitData /\ [][DataNext]_dataVars => []SeedTrue
<1>1. InitData => SeedInv /\ Settled
  <2> SUFFICES ASSUME InitData PROVE SeedInv /\ Settled
    OBVIOUS
  <2>1. ExecInv
    BY DataBegins
  <2>2. client = NewClient /\ link = NewLink /\ exec = NewExec /\ ~answer.ok
    BY DEF InitData, InitExec, Pending, Refused
  <2>3. client.at = "idle" /\ client.result = [kind |-> "none"] /\ exec.state = "absent" /\ exec.written = 0
    BY <2>2 DEF NewClient, NewExec
  <2>4. Sending /\ Fed
    <3>1. <<>> \in Bytes
      BY DEF Bytes
    <3> QED BY <2>2, <2>3, <3>1 DEF NewLink, Sending, Fed
  <2> QED BY <2>1, <2>2, <2>3, <2>4 DEF SeedInv, Settled, SaysSuccess
<1>2. SeedInv /\ Settled /\ [DataNext]_dataVars => (SeedInv /\ Settled)'
  <2> SUFFICES ASSUME SeedInv, Settled, [DataNext]_dataVars PROVE SeedInv' /\ Settled'
    OBVIOUS
  <2>1. ClientShape
    BY DEF SeedInv, ExecInv, ClientInv
  <2>2. CASE UNCHANGED dataVars
    <3>1. job' = job /\ link' = link /\ exec' = exec /\ client' = client /\ answer' = answer
      BY <2>2 DEF dataVars, execVars
    <3>2. ExecInv'
      <4>1. ClientShape'
        BY <2>1, <3>1 DEF ClientShape
      <4> QED BY <3>1, <4>1, ClientSteps DEF SeedInv
    <3> QED BY <3>1, <3>2, SameLink, StillSeeds DEF SaysNothingNew, Settled
  <2>3. CASE DataNext
    <3>1. Settled'
      BY <2>1, <2>3, StepSettles
    <3> SUFFICES SeedInv'
      BY <3>1
    <3>2. CASE Answer
      BY <3>2, AnswerSeeds
    <3>3. CASE Load \/ CheckSeedFile \/ ReadSeedFile \/ SeedFileChanges
      <4>1. answer' = answer \/ ~answer'.ok
        BY <3>3 DEF Load, CheckSeedFile, ReadSeedFile, SeedFileChanges, Tell, Refused
      <4> QED BY <3>3, <4>1, ClientSeeds
    <3>4. CASE ExecNext /\ UNCHANGED <<argv, answer, seedFile>>
      <4>1. answer' = answer
        BY <3>4
      <4>2. CASE Created \/ (Located /\ ~ExecEnded) \/ \E why \in {"timeout", "abort"} : Interrupt(why)
        BY <4>1, <4>2, ClientSeeds
      <4>3. CASE Stops \/ Throws
        BY <4>1, <4>3, EndSeeds
      <4>4. CASE StartExec \/ Connected \/ Shutdown \/ Upgraded \/ \E n \in 1 .. Len(link.pending) : Flush(n)
        BY <4>1, <4>4, RequestSeeds, ShutdownSeeds, UpgradeSeeds, FlushSeeds
      <4>5. CASE ConnectFails \/ LinkLost \/ ReadEnd \/ \E n \in 1 .. Len(link.wire) : Read(n)
        BY <4>1, <4>5, LostSeeds, ReadSeeds
      <4>6. CASE ExitCode \/ StdinEnds
        BY <4>1, <4>6, CodeSeeds, StdinSeeds
      <4>7. CASE \/ DaemonCreates \/ DaemonStarts \/ ProcessWrites \/ OutputEnds \/ ProcessExits \/ ContainerStops
                 \/ KillExec
        BY <4>1, <4>7, ProcessSeeds
      <4> QED BY <3>4, <4>2, <4>3, <4>4, <4>5, <4>6, <4>7 DEF ExecNext, Stops, Throws
    <3> QED BY <2>3, <3>2, <3>3, <3>4 DEF DataNext
  <2> QED BY <2>2, <2>3
<1>3. SeedInv => SeedTrue
  BY DEF SeedInv, Succeeded, SeedTrue
<1> QED BY <1>1, <1>2, <1>3, PTL
============================================================================
