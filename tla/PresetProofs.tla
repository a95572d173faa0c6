------------------------------ MODULE PresetProofs -----------------------------
(***************************************************************************)
(* Proofs about the presets in OnvifServer: IInv is inductive, the types   *)
(* and the names of presets follow from it, and the four steps of          *)
(* SetPreset implement the one step of PresetStore.                        *)
(***************************************************************************)
EXTENDS OnvifServerProofs, FiniteSetTheorems, SequenceTheorems

LEMMA InitIInv == Init => IInv
<1> SUFFICES ASSUME Init PROVE IInv
  OBVIOUS
<1>1. /\ device \in DOMAIN Devices /\ store \in Devices[device].presets
      /\ \A p \in Procs : proc[p] = Idle
      /\ DOMAIN proc = Procs
  BY DEF Init
<1>2. /\ store \subseteq Numbers \X Names /\ IsFiniteSet(store) /\ Cardinality(store) <= MaxPresets
      /\ \A a, b \in store : a[1] = b[1] \/ a[2] = b[2] => a = b
  BY <1>1, DevicesAssumption
<1>3. ~Adds(NoRequest) /\ ~Changes(NoRequest) /\ NoRequest.service = ""
  BY DEF Adds, Changes, NoRequest
<1>4. TypeOK /\ Shape
  BY <1>1, <1>2, Parts DEF TypeOK, Shape, Pcs, Sync, Now
<1>5. Single /\ Named /\ OneAtATime
  BY <1>1, <1>3, Parts DEF Single, Follows, Named, OneAtATime
<1>6. PresetNamesUnique /\ Checked /\ Stored
  BY <1>1, <1>2, <1>3, Parts DEF PresetNamesUnique, Checked, Stored
<1> QED
  BY <1>2, <1>4, <1>5, <1>6 DEF IInv

-----------------------------------------------------------------------------
(* Steps that leave the presets alone. *)

\* A process stays where it is, or ends, or goes on to a command that does not
\* change presets.
Stays(q) ==
  \/ proc'[q] = Idle
  \/ /\ proc[q] # Idle
     /\ proc'[q].pc = proc[q].pc /\ proc'[q].req = proc[q].req /\ proc'[q].total = proc[q].total
     /\ \/ proc'[q].todo = proc[q].todo /\ proc'[q].ran = proc[q].ran
        \/ ~Adds(proc[q].req) /\ (proc'[q].todo # <<>>) = (proc[q].todo # <<>>)
     /\ proc'[q].sync \in Sync

LEMMA IdleParts ==
  /\ ~Adds(Idle.req) /\ ~Changes(Idle.req) /\ Idle.req.service # "ptz_service"
  /\ Idle.pc = "idle" /\ Idle.todo = <<>> /\ Idle.ran = <<>> /\ Idle.sync = "none"
  BY DEF Idle, NoRequest, Adds, Changes

LEMMA Stay ==
  ASSUME IInv, Shape', Single', store' = store, conf' = conf, device' = device, \A q \in Procs : Stays(q)
  PROVE  IInv'
<1>1. TypeOK'
  <2>1. \A p \in Procs :
          /\ proc'[p].pc \in Pcs /\ proc'[p].sync \in Sync
          /\ (proc'[p].pc \in {"run", "reset"}) = (proc'[p].todo # <<>>)
          /\ p \notin Devices[device].clients => proc'[p] = Idle
    <3> SUFFICES ASSUME NEW p \in Procs
                 PROVE  /\ proc'[p].pc \in Pcs /\ proc'[p].sync \in Sync
                        /\ (proc'[p].pc \in {"run", "reset"}) = (proc'[p].todo # <<>>)
                        /\ p \notin Devices[device].clients => proc'[p] = Idle
      OBVIOUS
    <3>1. CASE proc'[p] = Idle
      BY <3>1, IdleParts DEF Pcs, Sync
    <3>2. CASE proc'[p] # Idle
      BY <3>2 DEF IInv, TypeOK, Stays, Now
    <3> QED
      BY <3>1, <3>2
  <2> QED
    BY <2>1 DEF IInv, TypeOK, Now
<1>2. \A p \in Procs : Adds(proc'[p].req) \/ proc'[p].pc = "relist" =>
        /\ proc'[p].pc = proc[p].pc /\ proc'[p].req = proc[p].req /\ proc'[p].total = proc[p].total
        /\ SetCommand(p)' = SetCommand(p) /\ SetName(p)' = SetName(p)
  <2>1. \A p \in Procs : proc[p].pc = "relist" => Adds(proc[p].req)
    BY DEF IInv, Named
  <2>2. \A p \in Procs : Adds(proc'[p].req) \/ proc'[p].pc = "relist" =>
          /\ proc'[p].pc = proc[p].pc /\ proc'[p].req = proc[p].req /\ proc'[p].total = proc[p].total
          /\ proc'[p].todo = proc[p].todo /\ proc'[p].ran = proc[p].ran
    BY <2>1, IdleParts DEF Stays
  <2> QED
    BY <2>2 DEF SetCommand, SetName
<1>4. Named'
  BY <1>2 DEF IInv, Named
<1>5. OneAtATime'
  BY IdleParts DEF IInv, OneAtATime, Stays
<1>6. Orderly' = Orderly
  BY DEF Orderly
<1>7. PresetNamesUnique'
  BY <1>6 DEF IInv, PresetNamesUnique
<1>8. \A p \in Procs : Adds(proc'[p].req) \/ proc'[p].pc = "relist" =>
        Called(p)' = Called(p) /\ Meant(p)' = Meant(p)
  BY <1>2 DEF Called, Meant
<1>9. Checked'
  BY <1>2, <1>6, <1>8 DEF IInv, Checked
<1>10. Stored'
  BY <1>2, <1>6, <1>8 DEF IInv, Stored
<1> QED
  BY <1>1, <1>4, <1>5, <1>7, <1>9, <1>10 DEF IInv

\* Steps of which Stay tells everything.
LEMMA StepStays ==
  ASSUME IInv, NEW p \in Procs,
         \/ CommandFails(p) \/ AnswerSetPreset(p) \/ SetSystemFactoryDefault(p)
         \/ CreateHelper(p) \/ CallSync(p) \/ Expire(p) \/ SyncReturns(p)
         \/ Reboot(p) \/ RebootFails(p)
  PROVE  IInv'
<1>s. Shape
  BY DEF IInv
<1>1. Shape'
  BY <1>s, StepGoesOn DEF Step
<1>2. store' = store /\ conf' = conf /\ device' = device
  BY DEF CommandFails, AnswerSetPreset, SetSystemFactoryDefault, CreateHelper, CallSync, Expire, SyncReturns,
         Restart, Reboot, RebootFails
<1>3. \A q \in Procs : proc[q].sync \in Sync
  BY DEF IInv, TypeOK
<1>4. \A q \in Procs :
        \/ proc'[q] = Idle
        \/ /\ proc[q] # Idle
           /\ proc'[q].pc = proc[q].pc /\ proc'[q].req = proc[q].req /\ proc'[q].total = proc[q].total
           /\ proc'[q].todo = proc[q].todo /\ proc'[q].ran = proc[q].ran
           /\ proc'[q].sync \in Sync
  <2>1. CASE CommandFails(p) \/ AnswerSetPreset(p) \/ SetSystemFactoryDefault(p) \/ RebootFails(p) \/ Reboot(p)
    BY <1>s, <1>3, <2>1 DEF CommandFails, AnswerSetPreset, SetSystemFactoryDefault, RebootFails, Reboot, End, Shape
  <2>2. CASE CreateHelper(p) \/ CallSync(p) \/ Expire(p) \/ SyncReturns(p)
    BY <1>s, <1>3, <2>2, Parts
    DEF CreateHelper, CallSync, Expire, SyncReturns, Restart, Shape, Sync
  <2> QED
    BY <2>1, <2>2
<1>5. Single'
  <2>1. \A q \in Procs : proc'[q] = Idle => Follows(proc'[q])
    BY IdleParts DEF Follows
  <2>2. \A x, y : Follows(x) /\ x.pc = y.pc /\ x.req = y.req /\ x.todo = y.todo /\ x.ran = y.ran => Follows(y)
    BY DEF Follows
  <2>3. \A q \in Procs : proc'[q] # Idle => Follows(proc'[q])
    BY <1>4, <2>2 DEF IInv, Single
  <2> QED
    BY <2>1, <2>3 DEF Single
<1>6. \A q \in Procs : Stays(q)
  BY <1>4 DEF Stays
<1> QED
  BY <1>1, <1>2, <1>5, <1>6, Stay

-----------------------------------------------------------------------------
(* Commands. *)

\* The rest of the commands.
LEMMA RestOfItems ==
  ASSUME NEW todo, todo \in Seq(Items(todo)), todo # <<>>, \A i \in DOMAIN todo : todo[i].name \notin PresetChanges
  PROVE  /\ Tail(todo) \in Seq(Items(Tail(todo)))
         /\ \A i \in DOMAIN Tail(todo) : Tail(todo)[i].name \notin PresetChanges
<1> DEFINE rest == Tail(todo)
<1>1. /\ rest \in Seq(Items(todo)) /\ Len(rest) = Len(todo) - 1
      /\ \A i \in 1..Len(rest) : rest[i] = todo[i + 1]
  BY HeadTailProperties
<1>2. Len(todo) \in Nat /\ DOMAIN todo = 1..Len(todo) /\ Len(rest) \in Nat /\ DOMAIN rest = 1..Len(rest)
  BY <1>1
<1>3. \A i \in 1..Len(rest) : i + 1 \in DOMAIN todo
  BY <1>1, <1>2
<1> HIDE DEF rest
<1>4. PICK n \in Nat : rest \in [1..n -> Items(todo)]
  <2> DEFINE S == Items(todo)
  <2> HIDE DEF S
  <2>1. rest \in Seq(S)
    BY <1>1 DEF S
  <2>2. rest \in UNION {[1..n -> S] : n \in Nat}
    BY <2>1, SeqDef
  <2> QED
    BY <2>2 DEF S
<1>5. rest \in [1..Len(rest) -> Items(rest)]
  BY <1>2, <1>4 DEF Items
<1>6. rest \in Seq(Items(rest))
  BY <1>2, <1>5, SeqDef
<1> QED
  BY <1>1, <1>2, <1>3, <1>6 DEF rest

\* A request that changes no presets goes on to its next command.
LEMMA OtherCommand ==
  ASSUME IInv, NEW p \in Procs, CommandSucceeds(p), ~Changes(proc[p].req)
  PROVE  IInv'
<1> DEFINE todo == proc[p].todo
<1>s. Shape /\ Shape'
  BY StepGoesOn DEF IInv, Step
<1>1. /\ todo \in Seq(Items(todo)) /\ todo # <<>>
      /\ \A i \in DOMAIN todo : todo[i].name \notin PresetChanges
  BY DEF CommandSucceeds, IInv, Single, Follows, TypeOK, Items
<1>2. Head(todo).name \notin PresetChanges
  BY <1>1
<1>3. store' = store /\ conf' = conf /\ device' = device
  BY <1>2 DEF CommandSucceeds, Effects, PresetChanges
<1>4. ~Adds(proc[p].req) /\ proc[p].pc = "run"
  BY DEF Adds, Changes, CommandSucceeds
<1>5. /\ \A q \in Procs \ {p} : proc'[q] = proc[q]
      /\ \/ proc'[p] = Idle
         \/ /\ proc'[p].pc = "run" /\ proc'[p].req = proc[p].req /\ proc'[p].total = proc[p].total
            /\ proc'[p].todo = Tail(todo) /\ Tail(todo) # <<>> /\ proc'[p].sync = proc[p].sync
  BY <1>s, <1>4, Parts DEF CommandSucceeds, End, Shape
<1>6. Tail(todo) \in Seq(Items(Tail(todo))) /\ \A i \in DOMAIN Tail(todo) : Tail(todo)[i].name \notin PresetChanges
  BY <1>1, RestOfItems
<1>7. Single'
  <2>1. Follows(proc'[p])
    BY <1>4, <1>5, <1>6, IdleParts DEF Follows, Items, Changes
  <2>2. \A q \in Procs \ {p} : Follows(proc'[q])
    BY <1>5 DEF IInv, Single
  <2> QED
    BY <2>1, <2>2 DEF Single
<1>8. \A q \in Procs : Stays(q)
  BY <1>1, <1>4, <1>5, IdleParts DEF Stays, IInv, TypeOK
<1> QED
  BY <1>s, <1>3, <1>7, <1>8, Stay

\* What a command leaves of the presets is within their types and their room.
LEMMA Removed ==
  ASSUME NEW S, IsFiniteSet(S), NEW T \in SUBSET S
  PROVE  IsFiniteSet(T) /\ Cardinality(T) <= Cardinality(S)
  BY FS_Subset

Renames(S, number, name) == {IF preset[1] = number THEN <<number, name>> ELSE preset : preset \in S}

LEMMA Renamed ==
  ASSUME NEW S, IsFiniteSet(S), NEW number, NEW name
  PROVE  IsFiniteSet(Renames(S, number, name)) /\ Cardinality(Renames(S, number, name)) <= Cardinality(S)
<1> DEFINE f == [preset \in S |-> IF preset[1] = number THEN <<number, name>> ELSE preset]
           T == Renames(S, number, name)
<1>1. f \in Surjection(S, T)
  BY DEF Surjection, Renames
<1> HIDE DEF T, f
<1>2. IsFiniteSet(T) /\ Cardinality(T) <= Cardinality(S)
  BY <1>1, FS_Surjection
<1> QED
  BY <1>2 DEF T

LEMMA Added ==
  ASSUME IInv, NEW name, NEW S \in AfterAdding(name)
  PROVE  /\ IsFiniteSet(S) /\ Cardinality(S) <= MaxPresets
         /\ \/ S = store
            \/ \E n \in Numbers \ {preset[1] : preset \in store} :
                 S = store \union {<<n, name>>} /\ Cardinality(S) = Cardinality(store) + 1
<1>1. IsFiniteSet(store) /\ Cardinality(store) <= MaxPresets /\ Cardinality(store) \in Nat /\ MaxPresets \in Nat
  BY FS_CardinalityType, PresetsAssumption DEF IInv, TypeOK
<1>2. CASE S = store
  BY <1>1, <1>2
<1>3. CASE S # store
  <2>1. Cardinality(store) # MaxPresets
    BY <1>3 DEF AfterAdding
  <2>2. PICK n \in Numbers \ {preset[1] : preset \in store} : S = store \union {<<n, name>>}
    BY <1>3, <2>1 DEF AfterAdding
  <2>3. <<n, name>> \notin store
    BY <2>2
  <2>4. IsFiniteSet(S) /\ Cardinality(S) = Cardinality(store) + 1
    BY <1>1, <2>2, <2>3, FS_AddElement
  <2> QED
    BY <1>1, <2>1, <2>2, <2>4
<1> QED
  BY <1>2, <1>3

LEMMA LastItem == \A item : Tail(<<item>>) = <<>> /\ Append(<<>>, item) = <<item>>
<1> SUFFICES ASSUME NEW item PROVE Tail(<<item>>) = <<>> /\ Append(<<>>, item) = <<item>>
  OBVIOUS
<1>1. <<item>> \in Seq({item}) /\ <<item>> # <<>> /\ Len(<<item>>) = 1
  OBVIOUS
<1>2. Tail(<<item>>) \in Seq({item}) /\ Len(Tail(<<item>>)) = 0
  BY <1>1, HeadTailProperties
<1>3. Tail(<<item>>) = <<>>
  BY <1>2, EmptySeq
<1> QED
  BY <1>3

\* The command of RemovePreset, after which the process ends.
LEMMA RemoveCommand ==
  ASSUME IInv, NEW p \in Procs, CommandSucceeds(p), Changes(proc[p].req), ~Adds(proc[p].req)
  PROVE  /\ store' = {preset \in store : preset[1] # Given(Head(proc[p].todo), "PresetToken")}
         /\ proc' = [proc EXCEPT ![p] = Idle] /\ UNCHANGED <<device, conf>>
<1>1. Follows(proc[p]) /\ proc[p].pc = "run"
  BY DEF IInv, Single, CommandSucceeds
<1>2. proc[p].todo = <<Head(proc[p].todo)>> /\ Head(proc[p].todo).name = "remove_preset"
  BY <1>1 DEF Follows
<1>3. Tail(proc[p].todo) = <<>>
  BY <1>2, LastItem
<1>4. store' \in Effects(Head(proc[p].todo))
  BY DEF CommandSucceeds
<1>5. store' = {preset \in store : preset[1] # Given(Head(proc[p].todo), "PresetToken")}
  BY <1>2, <1>4 DEF Effects
<1> QED
  BY <1>3, <1>5 DEF CommandSucceeds, End

\* That of SetPreset, after which the presets are listed again.
LEMMA AddCommand ==
  ASSUME IInv, NEW p \in Procs, CommandSucceeds(p), Adds(proc[p].req)
  PROVE  LET command == Head(proc[p].todo)
             number == Given(command, "PresetToken")
             name == Given(command, "name")
         IN /\ proc[p].pc = "run" /\ SetCommand(p) = command /\ SetName(p) = name
            /\ \/ number = "-1" /\ store' \in AfterAdding(name)
               \/ number # "-1" /\ store' = Renames(store, number, name)
            /\ proc' = [proc EXCEPT ![p].todo = <<>>, ![p].ran = <<command>>, ![p].pc = "relist"]
            /\ SetCommand(p)' = command /\ SetName(p)' = name
            /\ last' = Nothing /\ UNCHANGED <<device, conf>>
<1>1. Follows(proc[p]) /\ proc[p].pc = "run" /\ Shape
  BY DEF IInv, Single, CommandSucceeds
<1>2. /\ proc[p].todo = <<Head(proc[p].todo)>> /\ Head(proc[p].todo).name = "set_preset"
      /\ proc[p].ran = <<>>
  BY <1>1 DEF Follows, Adds, Changes
<1> DEFINE command == Head(proc[p].todo)
           number == Given(command, "PresetToken")
           name == Given(command, "name")
<1>3. Tail(proc[p].todo) = <<>> /\ Append(proc[p].ran, command) = <<command>>
  <2>1. Tail(<<command>>) = <<>> /\ Append(<<>>, command) = <<command>>
    BY LastItem
  <2> QED
    BY <1>2, <2>1
<1>4. store' \in Effects(command)
  BY DEF CommandSucceeds
<1>5. \/ number = "-1" /\ store' \in AfterAdding(name)
      \/ number # "-1" /\ store' \in AfterRenaming(number, name)
  BY <1>2, <1>4 DEF Effects
<1>6. AfterRenaming(number, name) = {Renames(store, number, name)}
  BY DEF AfterRenaming, Renames
<1>7. /\ proc' = [proc EXCEPT ![p].todo = <<>>, ![p].ran = <<command>>, ![p].pc = "relist"]
      /\ last' = Nothing /\ UNCHANGED <<device, conf>>
  BY <1>3 DEF CommandSucceeds
<1>8. proc'[p].pc = "relist" /\ proc'[p].ran = <<command>>
  BY <1>1, <1>7, Parts DEF Shape
<1>9. SetCommand(p) = command /\ SetCommand(p)' = command
  BY <1>1, <1>8 DEF SetCommand
<1>10. SetName(p) = name /\ SetName(p)' = name
  BY <1>9 DEF SetName
<1> QED
  BY <1>1, <1>5, <1>6, <1>7, <1>9, <1>10

\* Only one client of a serial device changes presets.
LEMMA OneChanges ==
  ASSUME IInv, NEW p \in Procs, Changes(proc[p].req)
  PROVE  Orderly => \A q \in Procs \ {p} : ~Adds(proc[q].req) /\ proc[q].pc # "relist"
<1>1. Orderly => \A q \in Procs \ {p} : proc[q].req.service # "ptz_service"
  BY DEF IInv, OneAtATime, Orderly, Changes
<1>2. \A q \in Procs : proc[q].pc = "relist" => Adds(proc[q].req)
  BY DEF IInv, Named
<1> QED
  BY <1>1, <1>2 DEF Adds

LEMMA KeptByRemove ==
  ASSUME IInv, NEW p \in Procs, CommandSucceeds(p), Changes(proc[p].req), ~Adds(proc[p].req)
  PROVE  IInv'
<1>1. /\ store' \subseteq store /\ proc' = [proc EXCEPT ![p] = Idle] /\ UNCHANGED <<device, conf>>
  BY RemoveCommand
<1>2. Shape /\ Shape' /\ IsFiniteSet(store)
  BY StepGoesOn DEF IInv, Step
<1>3. \A q \in Procs : proc'[q] = IF q = p THEN Idle ELSE proc[q]
  BY <1>1, <1>2 DEF Shape
<1>4. IsFiniteSet(store') /\ Cardinality(store') <= MaxPresets
  <2>1. IsFiniteSet(store') /\ Cardinality(store') <= Cardinality(store) /\ Cardinality(store) <= MaxPresets
    BY <1>1, <1>2, Removed DEF IInv, TypeOK
  <2> QED
    BY <1>2, <2>1, FS_CardinalityType, PresetsAssumption
<1>5. TypeOK'
  BY <1>1, <1>3, <1>4, IdleParts DEF IInv, TypeOK, Now, Pcs, Sync
<1>6. Single'
  BY <1>3, IdleParts DEF IInv, Single, Follows
<1>7. Named'
  BY <1>3, IdleParts DEF IInv, Named, SetName, SetCommand
<1>8. OneAtATime'
  BY <1>1, <1>3, IdleParts DEF IInv, OneAtATime
<1>9. Orderly' = Orderly
  BY <1>1 DEF Orderly
<1>10. PresetNamesUnique'
  BY <1>1, <1>9 DEF IInv, PresetNamesUnique
<1>11. Orderly => \A q \in Procs : ~Adds(proc'[q].req) /\ proc'[q].pc # "relist"
  BY <1>3, OneChanges, IdleParts
<1>12. Checked' /\ Stored'
  BY <1>9, <1>11 DEF Checked, Stored
<1> QED
  BY <1>2, <1>4, <1>5, <1>6, <1>7, <1>8, <1>10, <1>12 DEF IInv

LEMMA KeptByAdd ==
  ASSUME IInv, NEW p \in Procs, CommandSucceeds(p), Adds(proc[p].req)
  PROVE  IInv'
<1> DEFINE command == Head(proc[p].todo)
           number == Given(command, "PresetToken")
           name == Given(command, "name")
           updates == Has(proc[p].req, "PresetToken")
           wanted == Arg(proc[p].req, "PresetToken")
<1>1. /\ proc[p].pc = "run" /\ SetCommand(p) = command /\ SetName(p) = name
      /\ \/ number = "-1" /\ store' \in AfterAdding(name)
         \/ number # "-1" /\ store' = Renames(store, number, name)
      /\ proc' = [proc EXCEPT ![p].todo = <<>>, ![p].ran = <<command>>, ![p].pc = "relist"]
      /\ SetCommand(p)' = command /\ SetName(p)' = name
      /\ UNCHANGED <<device, conf>>
  BY AddCommand
<1>2. Shape /\ Shape' /\ IsFiniteSet(store) /\ Cardinality(store) \in Nat
  BY StepGoesOn, FS_CardinalityType DEF IInv, Step
<1>3. /\ \A q \in Procs \ {p} : proc'[q] = proc[q]
      /\ proc'[p].pc = "relist" /\ proc'[p].req = proc[p].req /\ proc'[p].todo = <<>>
      /\ proc'[p].total = proc[p].total /\ proc'[p].sync = proc[p].sync
  BY <1>1, <1>2, Parts DEF Shape
<1>4. /\ name \in Names
      /\ number = IF updates THEN wanted[2] ELSE "-1"
  BY <1>1 DEF IInv, Named
<1> HIDE DEF command, number, name
<1>5. \/ store' = store
      \/ /\ number = "-1"
         /\ \E n \in Numbers \ {preset[1] : preset \in store} :
              store' = store \union {<<n, name>>} /\ Cardinality(store') = Cardinality(store) + 1
      \/ number # "-1" /\ store' = Renames(store, number, name)
  BY <1>1, Added
<1>6. IsFiniteSet(store') /\ Cardinality(store') <= MaxPresets
  <2>1. CASE store' \in AfterAdding(name)
    BY <2>1, Added
  <2>2. CASE store' = Renames(store, number, name)
    <3>1. IsFiniteSet(store') /\ Cardinality(store') <= Cardinality(store)
      BY <1>2, <2>2, Renamed
    <3> QED
      BY <1>2, <3>1, FS_CardinalityType, PresetsAssumption DEF IInv, TypeOK
  <2> QED
    BY <1>1, <2>1, <2>2
<1>7. store' \subseteq Numbers \X Names
  BY <1>4, <1>5 DEF IInv, TypeOK, Renames
<1>8. TypeOK'
  <2>1. \A q \in Procs :
          /\ proc'[q].pc \in Pcs /\ proc'[q].sync \in Sync
          /\ (proc'[q].pc \in {"run", "reset"}) = (proc'[q].todo # <<>>)
          /\ q \notin Devices[device].clients => proc'[q] = Idle
    <3>1. proc[p].sync \in Sync /\ p \in Devices[device].clients
      BY <1>1, IdleParts DEF IInv, TypeOK, Now
    <3>2. \A q \in Procs \ {p} :
            /\ proc'[q].pc \in Pcs /\ proc'[q].sync \in Sync
            /\ (proc'[q].pc \in {"run", "reset"}) = (proc'[q].todo # <<>>)
            /\ q \notin Devices[device].clients => proc'[q] = Idle
      BY <1>3 DEF IInv, TypeOK, Now
    <3> QED
      BY <1>3, <3>1, <3>2 DEF Pcs
  <2>2. device' = device /\ device \in DOMAIN Devices
    BY <1>1 DEF IInv, TypeOK
  <2> QED
    BY <1>6, <1>7, <2>1, <2>2 DEF TypeOK, Now
<1>9. Single'
  <2>1. Follows(proc'[p])
    BY <1>3 DEF Follows
  <2>2. \A q \in Procs \ {p} : Follows(proc'[q])
    BY <1>3 DEF IInv, Single
  <2> QED
    BY <2>1, <2>2 DEF Single
<1>10. Named'
  <2>1. ASSUME NEW q \in Procs \ {p}
        PROVE  SetName(q)' = SetName(q) /\ SetCommand(q)' = SetCommand(q) /\ proc'[q] = proc[q]
    BY <1>3 DEF SetName, SetCommand
  <2>2. /\ Adds(proc'[p].req) /\ proc'[p].pc = "relist" /\ SetName(p)' \in Names
        /\ Given(SetCommand(p)', "PresetToken") = IF updates THEN wanted[2] ELSE "-1"
    BY <1>1, <1>3, <1>4 DEF number
  <2> QED
    BY <1>3, <2>1, <2>2 DEF IInv, Named
<1>11. OneAtATime'
  <2>1. device' = device /\ \A q \in Procs : proc'[q].req = proc[q].req
    BY <1>1, <1>3
  <2> QED
    BY <2>1 DEF IInv, OneAtATime
<1>12. Orderly' = Orderly
  BY <1>1 DEF Orderly
<1>o. ASSUME Orderly
      PROVE  /\ \A a, b \in store' : a[1] = b[1] \/ a[2] = b[2] => a = b
             /\ LET called == {preset \in store' : preset[2] = name}
                    meant == {preset \in store' : PresetToken(preset) = wanted}
                IN IF updates THEN meant # {} /\ called = meant
                   ELSE \/ called = {} /\ proc[p].total = Cardinality(store')
                        \/ \E preset \in store' :
                             called = {preset} /\ Cardinality(store') = proc[p].total + 1
  <2>1. \A a, b \in store : a[1] = b[1] \/ a[2] = b[2] => a = b
    BY <1>o DEF IInv, PresetNamesUnique
  <2> DEFINE called == {preset \in store : preset[2] = name}
             meant == {preset \in store : PresetToken(preset) = wanted}
  <2>2. IF updates THEN meant # {} /\ called \subseteq meant
        ELSE called = {} /\ proc[p].total = Cardinality(store)
    BY <1>1, <1>o DEF IInv, Checked, Called, Meant
  <2>3. CASE ~updates
    BY <1>4, <1>5, <2>1, <2>2, <2>3
  <2>4. CASE updates
    <3>1. PICK old \in store : PresetToken(old) = wanted
      BY <2>2, <2>4
    <3>2. wanted = <<"PresetToken", old[1]>> /\ number = old[1] /\ old[1] \in Numbers
      BY <1>4, <2>4, <3>1 DEF PresetToken, IInv, TypeOK
    <3>3. store' = Renames(store, number, name)
      BY <1>1, <3>2, PresetsAssumption
    <3>4. \A preset \in store : preset # old => preset[1] # number /\ preset[2] # name
      BY <2>1, <2>2, <2>4, <3>2 DEF PresetToken
    <3>5. store' = (store \ {old}) \union {<<number, name>>}
      BY <3>2, <3>3, <3>4 DEF Renames
    <3>6. \A a, b \in store' : a[1] = b[1] \/ a[2] = b[2] => a = b
      BY <2>1, <3>2, <3>4, <3>5
    <3>7. {preset \in store' : preset[2] = name} = {<<number, name>>}
      BY <3>4, <3>5
    <3>8. {preset \in store' : PresetToken(preset) = wanted} = {<<number, name>>}
      BY <3>2, <3>4, <3>5 DEF PresetToken
    <3> QED
      BY <2>4, <3>6, <3>7, <3>8
  <2> QED
    BY <2>3, <2>4
<1>13. PresetNamesUnique'
  BY <1>12, <1>o DEF PresetNamesUnique
<1>14. Orderly => \A q \in Procs \ {p} : ~Adds(proc'[q].req) /\ proc'[q].pc # "relist"
  BY <1>3, OneChanges DEF Adds, Changes
<1>15. Checked'
  BY <1>3, <1>12, <1>14 DEF Checked
<1>16. Stored'
  <2>1. Called(p)' = {preset \in store' : preset[2] = name}
    BY <1>1 DEF Called, name
  <2>2. Meant(p)' = {preset \in store' : PresetToken(preset) = wanted}
    BY <1>3 DEF Meant
  <2> QED
    BY <1>3, <1>12, <1>14, <1>o, <2>1, <2>2 DEF Stored
<1> QED
  BY <1>2, <1>6, <1>8, <1>9, <1>10, <1>11, <1>13, <1>15, <1>16 DEF IInv

-----------------------------------------------------------------------------
(* Requests. *)

\* The number and the name in the command of SetPreset, when the request has
\* passed its tests.
LEMMA SetPresetSays ==
  ASSUME IInv, NEW r \in Now.asked, NEW list \in SUBSET store, NEW uuid \in Uuids, Passes(r, list, uuid)
  PROVE  LET command == SetPresetCommand(r, list, uuid) IN
           /\ Given(command, "name") = NewName(r, list, uuid)
           /\ NewName(r, list, uuid) \in Names
           /\ Given(command, "PresetToken") =
                IF Has(r, "PresetToken") THEN Arg(r, "PresetToken")[2] ELSE "-1"
<1> DEFINE name == NewName(r, list, uuid)
           which == WhichPreset(r)
<1>1. which[1] = "PresetToken"
  <2>1. CASE Has(r, "PresetToken")
    <3>1. PICK preset \in list : PresetToken(preset) = Arg(r, "PresetToken")
      BY <2>1 DEF Passes, Numbered
    <3> QED
      BY <2>1, <3>1 DEF WhichPreset, PresetToken
  <2>2. CASE ~Has(r, "PresetToken")
    BY <2>2 DEF WhichPreset
  <2> QED
    BY <2>1, <2>2
<1>2. which[2] = IF Has(r, "PresetToken") THEN Arg(r, "PresetToken")[2] ELSE "-1"
  BY DEF WhichPreset
<1>3. name \in Names
  <2>1. CASE Has(r, "PresetName")
    <3>1. Arg(r, "PresetName") \in Names \union {Unsafe} /\ Arg(r, "PresetName") # Unsafe
      BY <2>1, DevicesAssumption DEF IInv, TypeOK, Now, Passes
    <3> QED
      BY <2>1, <3>1 DEF NewName
  <2>2. CASE ~Has(r, "PresetName") /\ Has(r, "PresetToken")
    <3>1. /\ Numbered(list, Arg(r, "PresetToken")) # {}
          /\ Numbered(list, Arg(r, "PresetToken")) \subseteq store
          /\ store \subseteq Numbers \X Names
      BY <2>2 DEF Passes, Numbered, IInv, TypeOK
    <3>2. name = (CHOOSE preset \in Numbered(list, Arg(r, "PresetToken")) : TRUE)[2]
      BY <2>2 DEF NewName
    <3> QED
      BY <3>1, <3>2
  <2>3. CASE ~Has(r, "PresetName") /\ ~Has(r, "PresetToken")
    BY <2>3, PresetsAssumption DEF NewName
  <2> QED
    BY <2>1, <2>2, <2>3
<1> HIDE DEF name, which
<1>4. SetPresetCommand(r, list, uuid).with = {which, <<"name", name>>}
  BY Commands DEF SetPresetCommand, name, which
<1> DEFINE command == SetPresetCommand(r, list, uuid)
<1> HIDE DEF command
<1>5. /\ (CHOOSE v \in command.with : v[1] = "name") = <<"name", name>>
      /\ (CHOOSE v \in command.with : v[1] = "PresetToken") = which
  <2>1. \A v : v \in command.with <=> v = which \/ v = <<"name", name>>
    BY <1>4 DEF command
  <2> QED
    BY <1>1, <2>1
<1>6. Given(command, "name") = name /\ Given(command, "PresetToken") = which[2]
  <2>1. Given(command, "name") = <<"name", name>>[2]
    BY <1>5 DEF Given
  <2>2. Given(command, "PresetToken") = which[2]
    BY <1>5 DEF Given
  <2> QED
    BY <2>1, <2>2
<1> QED
  BY <1>2, <1>3, <1>6 DEF name, command

\* What SetPreset sees of the presets.
LEMMA SeenPresets ==
  ASSUME IInv, NEW r, Adds(r), NEW w \in Worlds(r)
  PROVE  /\ init_presets(conf, w.list) \in SUBSET store /\ w.uuid \in Uuids
         /\ w.uuid \notin {preset[2] : preset \in store}
         /\ Orderly => init_presets(conf, w.list) = store /\ w.list = store
<1>1. Worlds(r) = [list : Lists, uuid : Uuids \ {preset[2] : preset \in store},
                    position : {FALSE}, moving : {FALSE}]
  BY DEF Worlds, Adds
<1>2. w.list \in Lists /\ w.uuid \in Uuids /\ w.uuid \notin {preset[2] : preset \in store}
  BY <1>1
<1>3. Lists \subseteq SUBSET store /\ (device \in Prompt => Lists = {store})
  BY DEF Lists
<1> QED
  BY <1>2, <1>3 DEF init_presets, Orderly

\* What a process begins with, when it begins with something.
LEMMA BeginsWith ==
  ASSUME IInv, NEW p \in Procs, NEW r \in Now.asked, NEW w \in Worlds(r), TakesUp(p, r, w), proc' # proc
  PROVE  LET x == Begun(r, w, Dispatch(conf, r, w)) IN
           /\ Follows(x)
           /\ (x.pc \in {"run", "reset"}) = (x.todo # <<>>)
           /\ Adds(r) =>
                LET list == init_presets(conf, w.list)
                    command == SetPresetCommand(r, list, w.uuid)
                IN x.pc = "run" /\ x.todo = <<command>> /\ Passes(r, list, w.uuid)
<1> DEFINE plan == Dispatch(conf, r, w)
           x == Begun(r, w, plan)
           list == init_presets(conf, w.list)
           command == SetPresetCommand(r, list, w.uuid)
<1>1. plan.run # <<>> \/ (Restarts(r) /\ plan.answer = Empty)
  BY DEF TakesUp
<1>2. \/ plan.run = <<>> /\ (Adds(r) => plan.answer.kind # "ok" /\ plan.answer.code # "TooManyPresets")
      \/ Steady(plan) /\ ~Changes(r) /\ ~Restarts(r)
      \/ Adds(r) /\ plan = ptz_set_preset(conf, r, list, w.uuid)
      \/ Changes(r) /\ ~Adds(r) /\ plan = ptz_remove_preset(conf, r)
  BY PlanOfRequest
<1> HIDE DEF plan
<1>3. /\ x.req = r /\ x.todo = plan.run /\ x.ran = <<>>
      /\ x.pc = IF Restarts(r) THEN "restart" ELSE IF Resets(r) THEN "reset" ELSE "run"
  BY Parts
<1> HIDE DEF x
<1>4. Changes(r) => ~Restarts(r) /\ ~Resets(r)
  BY DEF Changes, Restarts, Resets
<1>5. Adds(r) => Changes(r)
  BY DEF Adds, Changes
<1>6. CASE plan.run = <<>>
  BY <1>1, <1>3, <1>4, <1>5, <1>6 DEF Follows, plan, x
<1>7. CASE plan.run # <<>> /\ Steady(plan) /\ ~Changes(r) /\ ~Restarts(r)
  <2>1. Follows(x)
    BY <1>3, <1>7 DEF Follows, Steady, Items
  <2> QED
    BY <1>3, <1>5, <1>7, <2>1 DEF x, plan
<1>8. CASE plan.run # <<>> /\ Adds(r) /\ plan = ptz_set_preset(conf, r, list, w.uuid)
  <2>1. plan = Plan(<<command>>, Ok({})) /\ Passes(r, list, w.uuid)
    BY <1>8, PlanOfSetPreset
  <2>2. plan.run = <<command>> /\ command.name = "set_preset"
    BY <2>1, Commands DEF SetPresetCommand
  <2>3. x.pc = "run" /\ x.todo = <<command>> /\ Head(x.todo) = command
    BY <1>3, <1>4, <1>5, <1>8, <2>2
  <2>4. Follows(x)
    BY <1>3, <1>5, <1>8, <2>2, <2>3 DEF Follows
  <2>5. <<command>> # <<>>
    OBVIOUS
  <2> QED
    BY <2>1, <2>3, <2>4, <2>5 DEF x, plan
<1>9. CASE plan.run # <<>> /\ Changes(r) /\ ~Adds(r) /\ plan = ptz_remove_preset(conf, r)
  <2> DEFINE remove == Command("remove_preset", {Arg(r, "PresetToken")})
  <2>1. plan = Plan(<<remove>>, Ok({}))
    BY <1>9, PlanOfRemovePreset
  <2>2. plan.run = <<remove>> /\ remove.name = "remove_preset"
    BY <2>1, Commands
  <2> HIDE DEF remove
  <2>3. x.pc = "run" /\ x.todo = <<remove>> /\ Head(x.todo) = remove
    BY <1>3, <1>4, <1>9, <2>2
  <2>4. Follows(x)
    BY <1>3, <1>9, <2>2, <2>3 DEF Follows
  <2>5. <<remove>> # <<>>
    OBVIOUS
  <2> QED
    BY <1>9, <2>3, <2>4, <2>5 DEF x, plan
<1> QED
  BY <1>1, <1>2, <1>6, <1>7, <1>8, <1>9

LEMMA Unchanged ==
  ASSUME IInv, store' = store, conf' = conf, device' = device, proc' = proc
  PROVE  IInv'
<1>1. Orderly' = Orderly /\ \A p \in Procs : /\ SetCommand(p)' = SetCommand(p) /\ SetName(p)' = SetName(p)
                                           /\ Called(p)' = Called(p) /\ Meant(p)' = Meant(p)
  BY DEF Orderly, SetCommand, SetName, Called, Meant
<1>2. TypeOK' /\ IsFiniteSet(store)' /\ Shape' /\ Single' /\ OneAtATime'
  BY DEF IInv, TypeOK, Now, Shape, Single, OneAtATime
<1>3. Named' /\ PresetNamesUnique' /\ Checked' /\ Stored'
  BY <1>1 DEF IInv, Named, PresetNamesUnique, Checked, Stored
<1> QED
  BY <1>2, <1>3 DEF IInv

LEMMA KeptByReceive ==
  ASSUME IInv, NEW p \in Procs, Receive(p)
  PROVE  IInv'
<1>0. PICK r \in Now.asked : \E w \in Worlds(r) : TakesUp(p, r, w)
  BY StepTakesUp
<1>1. PICK w \in Worlds(r) : TakesUp(p, r, w)
  BY <1>0
<1> DEFINE x == Begun(r, w, Dispatch(conf, r, w))
           list == init_presets(conf, w.list)
           command == SetPresetCommand(r, list, w.uuid)
           name == NewName(r, list, w.uuid)
           updates == Has(r, "PresetToken")
           wanted == Arg(r, "PresetToken")
<1>2. /\ conf' = conf /\ device' = device /\ store' = store /\ ~Waits(r)
      /\ proc' = proc \/ proc' = [proc EXCEPT ![p] = x]
      /\ p \in Now.clients
  BY <1>1, StepTakesUp DEF TakesUp
<1>3. CASE proc' = proc
  BY <1>2, <1>3, Unchanged
<1>4. CASE proc' # proc
  <2>1. /\ Follows(x) /\ (x.pc \in {"run", "reset"}) = (x.todo # <<>>)
        /\ Adds(r) => x.pc = "run" /\ x.todo = <<command>> /\ Passes(r, list, w.uuid)
    BY <1>1, <1>4, BeginsWith
  <2>2. /\ x.req = r /\ x.sync = "none" /\ x.pc \in {"run", "reset", "restart"} /\ DOMAIN x = DOMAIN Idle
        /\ x.total = IF Adds(r) THEN Cardinality(w.list) ELSE 0
    BY Parts
  <2> HIDE DEF x
  <2>3. Shape /\ \A q \in Procs : proc'[q] = IF q = p THEN x ELSE proc[q]
    BY <1>2, <1>4 DEF IInv, Shape
  <2>4. Shape'
    BY <1>2, <1>4, <2>2, <2>3 DEF Shape
  <2>5. TypeOK'
    <3>1. \A q \in Procs :
            /\ proc'[q].pc \in Pcs /\ proc'[q].sync \in Sync
            /\ (proc'[q].pc \in {"run", "reset"}) = (proc'[q].todo # <<>>)
            /\ q \notin Devices[device].clients => proc'[q] = Idle
      BY <1>2, <2>1, <2>2, <2>3 DEF IInv, TypeOK, Now, Pcs, Sync
    <3> QED
      BY <1>2, <3>1 DEF IInv, TypeOK, Now
  <2>6. Single'
    BY <2>1, <2>3 DEF IInv, Single
  <2>7. OneAtATime'
    BY <1>2, <2>2, <2>3 DEF IInv, OneAtATime, Waits
  <2>8. \A q \in Procs \ {p} : SetCommand(q)' = SetCommand(q) /\ SetName(q)' = SetName(q)
    BY <2>3 DEF SetCommand, SetName
  <2>9. Adds(r) => /\ SetCommand(p)' = command /\ SetName(p)' = name
                   /\ name \in Names
                   /\ Given(command, "PresetToken") = IF updates THEN wanted[2] ELSE "-1"
    <3> SUFFICES ASSUME Adds(r) PROVE /\ SetCommand(p)' = command /\ SetName(p)' = name
                   /\ name \in Names
                   /\ Given(command, "PresetToken") = IF updates THEN wanted[2] ELSE "-1"
      OBVIOUS
    <3>1. list \in SUBSET store /\ w.uuid \in Uuids
      BY SeenPresets
    <3>2. /\ Given(command, "name") = name /\ name \in Names
          /\ Given(command, "PresetToken") = IF updates THEN wanted[2] ELSE "-1"
      BY <2>1, <3>1, SetPresetSays
    <3> HIDE DEF command, name
    <3>3. Head(<<command>>) = command
      OBVIOUS
    <3>4. SetCommand(p)' = command
      BY <2>1, <2>3, <3>3 DEF SetCommand
    <3> QED
      BY <3>2, <3>4 DEF SetName
  <2>10. Named'
    BY <2>1, <2>2, <2>3, <2>8, <2>9 DEF IInv, Named
  <2>11. Orderly' = Orderly
    BY <1>2 DEF Orderly
  <2>12. PresetNamesUnique'
    BY <1>2, <2>11 DEF IInv, PresetNamesUnique
  <2>13. \A q \in Procs \ {p} : Called(q)' = Called(q) /\ Meant(q)' = Meant(q)
    BY <1>2, <2>3, <2>8 DEF Called, Meant
  <2>14. Orderly /\ Adds(r) =>
           LET called == {preset \in store : preset[2] = name}
               meant == {preset \in store : PresetToken(preset) = wanted}
           IN IF updates THEN meant # {} /\ called \subseteq meant
              ELSE called = {} /\ x.total = Cardinality(store)
    <3> SUFFICES ASSUME Orderly, Adds(r)
                 PROVE LET called == {preset \in store : preset[2] = name}
                           meant == {preset \in store : PresetToken(preset) = wanted}
                       IN IF updates THEN meant # {} /\ called \subseteq meant
                          ELSE called = {} /\ x.total = Cardinality(store)
      OBVIOUS
    <3>1. list = store /\ w.list = store
      BY SeenPresets
    <3>2. /\ updates => Numbered(store, wanted) # {}
          /\ ~Clashes(r, store, name)
      BY <2>1, <3>1 DEF Passes
    <3> HIDE DEF name
    <3> QED
      BY <2>2, <3>1, <3>2 DEF Numbered, Clashes
  <2>15. Adds(r) => Called(p)' = {preset \in store : preset[2] = name}
    BY <1>2, <2>9 DEF Called
  <2>16. Meant(p)' = {preset \in store : PresetToken(preset) = wanted}
    BY <1>2, <2>2, <2>3 DEF Meant
  <2>17. Checked'
    BY <1>2, <2>2, <2>3, <2>11, <2>13, <2>14, <2>15, <2>16 DEF IInv, Checked
  <2>18. Stored'
    BY <1>2, <2>2, <2>3, <2>11, <2>13 DEF IInv, Stored
  <2> QED
    BY <1>2, <2>4, <2>5, <2>6, <2>7, <2>10, <2>12, <2>17, <2>18 DEF IInv
<1> QED
  BY <1>3, <1>4

LEMMA StepIInv == IInv /\ [Next]_vars => IInv'
<1> SUFFICES ASSUME IInv, [Next]_vars PROVE IInv'
  OBVIOUS
<1>1. CASE UNCHANGED vars \/ PutAway
  BY <1>1, Unchanged DEF vars, PutAway
<1>2. ASSUME NEW p \in Procs, Receive(p) PROVE IInv'
  BY <1>2, KeptByReceive
<1>3. ASSUME NEW p \in Procs, Step(p) \/ SyncReturns(p) PROVE IInv'
  <2>1. CASE CommandSucceeds(p)
    BY <2>1, OtherCommand, KeptByRemove, KeptByAdd
  <2>2. CASE ~CommandSucceeds(p)
    BY <1>3, <2>2, StepStays DEF Step
  <2> QED
    BY <2>1, <2>2
<1> QED
  BY <1>1, <1>2, <1>3, Steps

\* The parts of IInv hold in every state that the server reaches, on every
\* device with any clients.
THEOREM Invariance == Spec => []IInv
  BY InitIInv, StepIInv, PTL DEF Spec

\* Processes have their types and run a command exactly when they have one, and
\* the device never keeps more presets than it has room for.
THEOREM TypeCorrect == Spec => []TypeOK
<1>1. IInv => TypeOK
  BY DEF IInv
<1> QED
  BY Invariance, <1>1, PTL

\* On a device whose clients wait for one another presets have different names
\* and numbers, although SetPreset looks for the name in one step and the command
\* stores it in another.
THEOREM NamesAreUnique == Spec => []PresetNamesUnique
<1>1. IInv => PresetNamesUnique
  BY DEF IInv
<1> QED
  BY Invariance, <1>1, PTL

-----------------------------------------------------------------------------
(* PresetStore. *)

LEMMA NothingIsTold == ~Adds(last.req) => Told = None
  BY DEF Told

\* What became of the one request that waits.
LEMMA OutcomeOfOne ==
  /\ \A p : Orderly /\ Waiting = {p} => Outcome = OutcomeOf(p)
  /\ Waiting = {} => Outcome = None
<1>1. \A p : (CHOOSE q \in {p} : TRUE) = p
  OBVIOUS
<1> QED
  BY <1>1 DEF Outcome

\* Steps that tell nothing and leave the one who waits alone, or end it.
LEMMA Forgets ==
  ASSUME store' = store, Orderly' = Orderly, Told' = None,
         \/ Waiting' = {}
         \/ Waiting' = Waiting /\ \A p \in Waiting : proc'[p].req = proc[p].req /\ proc'[p].ran = proc[p].ran
  PROVE  PS!Next
<1>1. CASE Waiting' = {}
  <2>1. Outcome' = None
    BY <1>1 DEF Outcome
  <2> QED
    BY <2>1 DEF PS!Next, PS!Forget
<1>2. CASE Waiting' = Waiting /\ \A p \in Waiting : proc'[p].req = proc[p].req /\ proc'[p].ran = proc[p].ran
  <2>1. CASE Waiting = {}
    <3>1. Outcome' = None
      BY <1>2, <2>1 DEF Outcome
    <3> QED
      BY <3>1 DEF PS!Next, PS!Forget
  <2>2. CASE Waiting # {}
    <3>0. PICK p : p = CHOOSE q \in Waiting : TRUE
      OBVIOUS
    <3>1. p \in Waiting /\ p \in Waiting'
      BY <1>2, <2>2, <3>0
    <3>2. Outcome = (IF Orderly THEN OutcomeOf(p) ELSE None)
      BY <2>2, <3>0 DEF Outcome
    <3>3. Outcome' = (IF Orderly THEN OutcomeOf(p)' ELSE None)
      BY <1>2, <2>2, <3>0 DEF Outcome
    <3>4. /\ proc'[p].req = proc[p].req /\ proc'[p].ran = proc[p].ran
          /\ proc[p].pc = "relist" /\ proc'[p].pc = "relist"
      BY <1>2, <3>1 DEF Waiting
    <3>5. SetName(p)' = SetName(p)
      BY <3>4 DEF SetName, SetCommand
    <3>6. OutcomeOf(p)' = OutcomeOf(p)
      BY <3>4, <3>5 DEF OutcomeOf, Called
    <3> QED
      BY <3>2, <3>3, <3>6 DEF PS!Next, PS!Forget
  <2> QED
    BY <2>1, <2>2
<1> QED
  BY <1>1, <1>2

\* Requests are taken up, or answered without the one step.
LEMMA ReceiveMaps ==
  ASSUME IInv, NEW p \in Procs, Receive(p)
  PROVE  PS!Next
<1>1. PICK r, w : TakesUp(p, r, w)
  BY StepTakesUp
<1> DEFINE plan == Dispatch(conf, r, w)
<1>2. plan.run = <<>> /\ Adds(r) => plan.answer.kind # "ok" /\ plan.answer.code # "TooManyPresets"
  <2>1. \A name, with : <<Command(name, with)>> # <<>>
    OBVIOUS
  <2>2. CASE plan.run = <<>> /\ Adds(r) /\ plan = ptz_set_preset(conf, r, init_presets(conf, w.list), w.uuid)
    <3>1. \A answer : Plan(<<SetPresetCommand(r, init_presets(conf, w.list), w.uuid)>>, answer).run # <<>>
      BY <2>1, Commands DEF SetPresetCommand
    <3> QED
      BY <2>2, <3>1, PlanOfSetPreset
  <2> QED
    BY <2>2, PlanOfRequest DEF Adds, Changes
<1> HIDE DEF plan
<1>3. /\ store' = store /\ conf' = conf /\ device' = device
      /\ last' = IF plan.run = <<>> \/ Resets(r) THEN Answered(r, plan.answer, <<>>) ELSE Nothing
  BY <1>1 DEF TakesUp, plan
<1>4. Orderly' = Orderly
  BY <1>3 DEF Orderly
<1>5. Told' = None
  <2>1. CASE last' = Nothing
    BY <2>1, IdleParts, Parts DEF Told, Nothing
  <2>2. CASE last' = Answered(r, plan.answer, <<>>)
    <3>1. Adds(r) => plan.run = <<>>
      BY <1>3, <2>2, IdleParts, Parts DEF Resets, Adds, Answered, Nothing
    <3> QED
      BY <1>2, <2>2, <3>1 DEF Told, Answered
  <2> QED
    BY <1>3, <2>1, <2>2
<1>6. \A q \in Procs : proc'[q] = proc[q] \/ (q = p /\ proc[q].pc = "idle" /\ proc'[q].pc # "relist")
  BY <1>1, Parts DEF TakesUp, IInv, Shape
<1>7. Waiting' = Waiting /\ \A q \in Waiting : proc'[q] = proc[q]
  BY <1>6 DEF Waiting
<1> QED
  BY <1>3, <1>4, <1>5, <1>7, Forgets

\* Steps that do not change presets.
LEMMA StayMaps ==
  ASSUME IInv, NEW p \in Procs,
         \/ CommandFails(p) \/ SetSystemFactoryDefault(p)
         \/ CreateHelper(p) \/ CallSync(p) \/ Expire(p) \/ SyncReturns(p)
         \/ Reboot(p) \/ RebootFails(p)
  PROVE  PS!Next
<1>1. store' = store /\ conf' = conf /\ device' = device
  BY DEF CommandFails, SetSystemFactoryDefault, CreateHelper, CallSync, Expire, SyncReturns, Restart,
         Reboot, RebootFails
<1>2. Orderly' = Orderly
  BY <1>1 DEF Orderly
<1>3. Told' = None
  <2>1. last' = Nothing \/ last'.answer = ActionFailed
    BY DEF CommandFails, SetSystemFactoryDefault, CreateHelper, CallSync, Expire, SyncReturns, Restart,
           Reboot, RebootFails, End, Answered
  <2>2. ActionFailed.kind # "ok" /\ ActionFailed.code # "TooManyPresets"
    BY DEF ActionFailed, Fault
  <2>3. ~Adds(Nothing.req)
    BY IdleParts, Parts DEF Nothing
  <2> QED
    BY <2>1, <2>2, <2>3 DEF Told
<1>4. CASE Reboot(p)
  <2>1. Waiting' = {}
    BY <1>4, IdleParts DEF Reboot, Waiting
  <2> QED
    BY <1>1, <1>2, <1>3, <2>1, Forgets
<1>5. CASE ~Reboot(p)
  <2>1. \A q \in Procs : \/ proc'[q] = proc[q]
                         \/ q = p /\ proc[p].pc # "relist" /\ proc'[p].pc # "relist"
    <3>1. CASE CommandFails(p) \/ SetSystemFactoryDefault(p) \/ RebootFails(p)
      BY <3>1, IdleParts DEF CommandFails, SetSystemFactoryDefault, RebootFails, End, IInv, Shape
    <3>2. CASE CreateHelper(p) \/ CallSync(p) \/ Expire(p) \/ SyncReturns(p)
      BY <3>2, Parts DEF CreateHelper, CallSync, Expire, SyncReturns, Restart, IInv, Shape
    <3> QED
      BY <1>5, <3>1, <3>2
  <2>2. Waiting' = Waiting /\ \A q \in Waiting : proc'[q] = proc[q]
    BY <2>1 DEF Waiting
  <2> QED
    BY <1>1, <1>2, <1>3, <2>2, Forgets
<1> QED
  BY <1>4, <1>5

\* A command of another request.
LEMMA OtherMaps ==
  ASSUME IInv, NEW p \in Procs, CommandSucceeds(p), ~Changes(proc[p].req)
  PROVE  PS!Next
<1>1. proc[p].todo # <<>> /\ proc[p].todo \in Seq(Items(proc[p].todo)) /\ proc[p].pc = "run"
      /\ \A i \in DOMAIN proc[p].todo : proc[p].todo[i].name \notin PresetChanges
  BY DEF CommandSucceeds, IInv, Single, Follows, TypeOK, Items
<1>2. Head(proc[p].todo).name \notin PresetChanges
  BY <1>1
<1>3. store' = store /\ conf' = conf /\ device' = device
  BY <1>2 DEF CommandSucceeds, Effects, PresetChanges
<1>4. Orderly' = Orderly /\ ~Adds(proc[p].req)
  BY <1>3 DEF Orderly, Adds, Changes
<1>5. Told' = None
  <2>1. last' = Nothing \/ last'.req = proc[p].req
    BY DEF CommandSucceeds, End, Answered
  <2>2. ~Adds(Nothing.req)
    BY IdleParts, Parts DEF Nothing
  <2> QED
    BY <1>4, <2>1, <2>2 DEF Told
<1>6. \A q \in Procs : proc'[q] = proc[q] \/ (q = p /\ proc'[p].pc # "relist")
  BY <1>4, Parts DEF CommandSucceeds, End, IInv, Shape
<1>7. Waiting' = Waiting /\ \A q \in Waiting : proc'[q] = proc[q]
  BY <1>1, <1>6 DEF Waiting
<1> QED
  BY <1>3, <1>4, <1>5, <1>7, Forgets

\* RemovePreset removes a preset, or there was none.
LEMMA RemoveMaps ==
  ASSUME IInv, Orderly, NEW p \in Procs, CommandSucceeds(p), Changes(proc[p].req), ~Adds(proc[p].req)
  PROVE  PS!Next
<1> DEFINE number == Given(Head(proc[p].todo), "PresetToken")
<1>1. /\ store' = {preset \in store : preset[1] # number}
      /\ proc' = [proc EXCEPT ![p] = Idle] /\ UNCHANGED <<device, conf>>
  BY RemoveCommand
<1>2. Orderly'
  BY <1>1 DEF Orderly
<1>3. Waiting = {}
  BY OneChanges DEF Waiting, CommandSucceeds
<1>4. Waiting' = {}
  BY <1>1, <1>3, IdleParts DEF Waiting, IInv, Shape
<1>5. Told' = None
  <2>1. last' = Nothing \/ last'.req = proc[p].req
    BY DEF CommandSucceeds, End, Answered
  <2>2. ~Adds(Nothing.req)
    BY IdleParts, Parts DEF Nothing
  <2> QED
    BY <2>1, <2>2 DEF Told
<1>6. Outcome = None /\ Outcome' = None
  BY <1>3, <1>4 DEF Outcome
<1>7. CASE \A preset \in store : preset[1] # number
  <2>1. store' = store
    BY <1>1, <1>7
  <2> QED
    BY <1>2, <1>5, <1>6, <2>1 DEF PS!Next, PS!Forget
<1>8. CASE \E preset \in store : preset[1] = number
  <2>1. PICK preset \in store : preset[1] = number
    BY <1>8
  <2>2. \A other \in store : other[1] = number => other = preset
    BY <2>1 DEF IInv, PresetNamesUnique
  <2>3. store' = store \ {preset}
    BY <1>1, <2>1, <2>2
  <2>4. PS!Remove
    BY <1>2, <1>5, <1>6, <2>3 DEF PS!Remove
  <2> QED
    BY <2>4 DEF PS!Next
<1> QED
  BY <1>7, <1>8

\* SetPreset adds a preset, or there is no room, or it renames one.
LEMMA AddMaps ==
  ASSUME IInv, IInv', Orderly, NEW p \in Procs, CommandSucceeds(p), Adds(proc[p].req)
  PROVE  PS!Next
<1> DEFINE command == Head(proc[p].todo)
           number == Given(command, "PresetToken")
           name == Given(command, "name")
           updates == Has(proc[p].req, "PresetToken")
           wanted == Arg(proc[p].req, "PresetToken")
<1>1. /\ proc[p].pc = "run" /\ SetCommand(p) = command /\ SetName(p) = name
      /\ \/ number = "-1" /\ store' \in AfterAdding(name)
         \/ number # "-1" /\ store' = Renames(store, number, name)
      /\ proc' = [proc EXCEPT ![p].todo = <<>>, ![p].ran = <<command>>, ![p].pc = "relist"]
      /\ SetName(p)' = name /\ last' = Nothing
      /\ UNCHANGED <<device, conf>>
  BY AddCommand
<1>2. name \in Names /\ number = IF updates THEN wanted[2] ELSE "-1"
  BY <1>1 DEF IInv, Named
<1>n. PICK called : called = name
  OBVIOUS
<1> HIDE DEF command, number, name
<1>3. /\ \A q \in Procs \ {p} : proc'[q] = proc[q]
      /\ proc'[p].pc = "relist" /\ proc'[p].req = proc[p].req
  BY <1>1, Parts DEF IInv, Shape
<1>4. \A q \in Procs \ {p} : proc[q].pc # "relist"
  BY OneChanges DEF Adds, Changes
<1>5. Waiting = {} /\ Waiting' = {p}
  BY <1>1, <1>3, <1>4 DEF Waiting
<1>6. Orderly'
  BY <1>1 DEF Orderly
<1>7. Told' = None
  <2>1. ~Adds(Nothing.req)
    BY IdleParts, Parts DEF Nothing
  <2> QED
    BY <1>1, <2>1 DEF Told
<1>8. Outcome = None
  BY <1>5 DEF Outcome
<1>9. Outcome' = OutcomeOf(p)'
  <2>1. (CHOOSE q \in {p} : TRUE) = p
    OBVIOUS
  <2> QED
    BY <1>5, <1>6, <2>1 DEF Outcome
<1>10. Called(p)' = {preset \in store' : preset[2] = called}
  BY <1>1, <1>n DEF Called
<1>11. IF updates THEN Meant(p) # {} /\ Called(p) \subseteq Meant(p) ELSE Called(p) = {}
  BY <1>1 DEF IInv, Checked
<1>12. Called(p) = {preset \in store : preset[2] = called}
  BY <1>1, <1>n DEF Called
<1>13. CASE ~updates
  <2>1. CASE store' = store
    <3>1. Called(p)' = {}
      BY <1>10, <1>11, <1>12, <1>13, <2>1
    <3>2. Outcome' = <<"full", "">>
      BY <1>3, <1>9, <1>13, <3>1 DEF OutcomeOf
    <3>3. PS!Refuse
      BY <1>6, <1>7, <1>8, <2>1, <3>2 DEF PS!Refuse, PS!Full
    <3> QED
      BY <3>3 DEF PS!Next
  <2>2. CASE store' # store
    <3>1. number = "-1" /\ store' \in AfterAdding(called)
      BY <1>1, <1>2, <1>13, <1>n
    <3>2. PICK n \in Numbers \ {preset[1] : preset \in store} : store' = store \union {<<n, called>>}
      BY <2>2, <3>1, Added
    <3>3. Called(p)' = {<<n, called>>}
      BY <1>10, <1>11, <1>12, <1>13, <3>2
    <3>4. PICK named : named = CHOOSE preset \in Called(p)' : TRUE
      OBVIOUS
    <3>5. Outcome' = <<"added", n>>
      <4>1. named = <<n, called>>
        BY <3>3, <3>4
      <4>2. OutcomeOf(p)' = <<"added", named[1]>>
        BY <1>3, <1>13, <3>3, <3>4 DEF OutcomeOf
      <4> QED
        BY <1>9, <4>1, <4>2
    <3>6. called \in Names \ {preset[2] : preset \in store}
      BY <1>2, <1>11, <1>12, <1>13, <1>n
    <3>7. PS!Add
      BY <1>6, <1>7, <1>8, <3>2, <3>5, <3>6 DEF PS!Add, PS!Added, PS!Used, PS!Taken
    <3> QED
      BY <3>7 DEF PS!Next
  <2> QED
    BY <2>1, <2>2
<1>14. CASE updates
  <2>1. PICK old \in store : PresetToken(old) = wanted
    BY <1>11, <1>14 DEF Meant
  <2>2. wanted = <<"PresetToken", old[1]>> /\ number = old[1] /\ old[1] \in Numbers
    BY <1>2, <1>14, <2>1 DEF PresetToken, IInv, TypeOK
  <2>3. store' = Renames(store, number, called)
    BY <1>1, <1>n, <2>2, PresetsAssumption
  <2>4. \A preset \in store : preset # old => preset[1] # number /\ preset[2] # called
    BY <1>11, <1>12, <1>14, <2>1, <2>2 DEF PresetToken, Meant, IInv, PresetNamesUnique
  <2>5. store' = (store \ {old}) \union {<<old[1], called>>}
    BY <2>2, <2>3, <2>4 DEF Renames
  <2>6. Outcome' = <<"added", old[1]>>
    BY <1>3, <1>9, <1>14, <2>2 DEF OutcomeOf
  <2>7. called \in Names /\ called \notin {preset[2] : preset \in store} \ {old[2]}
    BY <1>2, <1>n, <2>4
  <2>8. PS!Update
    BY <1>6, <1>7, <1>8, <2>5, <2>6, <2>7 DEF PS!Update, PS!Added, PS!Taken
  <2> QED
    BY <2>8 DEF PS!Next
<1> QED
  BY <1>13, <1>14

\* The answers of SetPreset: that there is no room, or the token of a preset with
\* the name.
Tells(r, name, total, list, answer) ==
  \/ /\ ~Has(r, "PresetToken") /\ Cardinality(list) = total
     /\ answer.code = "TooManyPresets"
  \/ /\ Has(r, "PresetToken") \/ Cardinality(list) # total
     /\ \/ {preset \in list : preset[2] = name} = {}
        \/ \E preset \in list : /\ preset[2] = name
                               /\ answer.claims = {<<"PresetToken", preset[1], name>>}
                               /\ answer.kind = "ok" /\ answer.code = ""

LEMMA TokenAnswered ==
  ASSUME NEW r, NEW name, NEW total, NEW list, NEW answer \in SetPresetAnswer(r, name, total, list)
  PROVE  Tells(r, name, total, list, answer)
<1> DEFINE named == {preset \in list : preset[2] = name}
<1>1. CASE ~Has(r, "PresetToken") /\ Cardinality(list) = total
  <2>1. answer = Fault("TooManyPresets")
    BY <1>1 DEF SetPresetAnswer
  <2>2. Fault("TooManyPresets").code = "TooManyPresets"
    BY DEF Fault
  <2> QED
    BY <1>1, <2>1, <2>2 DEF Tells
<1>2. CASE ~(~Has(r, "PresetToken") /\ Cardinality(list) = total) /\ named # {}
  <2>1. answer \in {Ok({<<"PresetToken", preset[1], name>>}) : preset \in named}
    BY <1>2 DEF SetPresetAnswer
  <2>2. PICK preset \in named : answer = Ok({<<"PresetToken", preset[1], name>>})
    BY <2>1
  <2> QED
    BY <1>2, <2>2 DEF Ok, Tells
<1> QED
  BY <1>1, <1>2 DEF Tells

\* The client is told the outcome.
LEMMA AnswerMaps ==
  ASSUME IInv, Orderly, NEW p \in Procs, AnswerSetPreset(p)
  PROVE  PS!Next
<1> DEFINE updates == Has(proc[p].req, "PresetToken")
           wanted == Arg(proc[p].req, "PresetToken")
<1>1. proc[p].pc = "relist" /\ Adds(proc[p].req) /\ UNCHANGED <<device, conf, store>>
  BY DEF AnswerSetPreset, IInv, Named
<1>2. Orderly'
  BY <1>1 DEF Orderly
<1>3. Waiting = {p}
  BY <1>1, OneChanges DEF Waiting, Adds, Changes
<1>4. Waiting' = {}
  BY <1>3, IdleParts DEF Waiting, AnswerSetPreset, End, IInv, Shape
<1>5. Outcome' = None /\ Outcome = OutcomeOf(p)
  BY <1>2, <1>3, <1>4, OutcomeOfOne DEF Outcome
<1>6. PICK list \in Lists :
        \E answer \in SetPresetAnswer(proc[p].req, Given(proc[p].ran[1], "name"),
                                      proc[p].total, init_presets(conf, list)) :
          last' = Answered(proc[p].req, answer, proc[p].ran)
  BY DEF AnswerSetPreset, End
<1>7. init_presets(conf, list) = store
  BY DEF Lists, init_presets, Orderly
<1>8. SetName(p) = Given(proc[p].ran[1], "name")
  BY <1>1 DEF SetName, SetCommand
<1>9. PICK answer \in SetPresetAnswer(proc[p].req, SetName(p), proc[p].total, store) :
        last' = Answered(proc[p].req, answer, proc[p].ran)
  BY <1>6, <1>7, <1>8
<1>10. last'.req = proc[p].req /\ last'.answer = answer
  BY <1>9 DEF Answered
<1>11. Called(p) = {preset \in store : preset[2] = SetName(p)}
  BY DEF Called
<1>12. IF updates THEN Meant(p) # {} /\ Called(p) = Meant(p)
       ELSE \/ Called(p) = {} /\ proc[p].total = Cardinality(store)
            \/ \E preset \in store : Called(p) = {preset} /\ Cardinality(store) = proc[p].total + 1
  BY <1>1 DEF IInv, Stored
<1>13. Cardinality(store) \in Nat
  BY FS_CardinalityType DEF IInv
<1>t. \/ /\ ~updates /\ Cardinality(store) = proc[p].total
         /\ answer.code = "TooManyPresets"
      \/ /\ updates \/ Cardinality(store) # proc[p].total
         /\ \/ Called(p) = {}
            \/ \E preset \in store : /\ preset[2] = SetName(p)
                                    /\ answer.claims = {<<"PresetToken", preset[1], SetName(p)>>}
                                    /\ answer.kind = "ok" /\ answer.code = ""
  <2>1. Tells(proc[p].req, SetName(p), proc[p].total, store, answer)
    BY TokenAnswered
  <2> QED
    BY <1>11, <2>1 DEF Tells
<1>n. \A x : <<"full", "">> # None /\ <<"added", x>> # None
  BY DEF None
<1>14. /\ OutcomeOf(p) # None
       /\ Told' = OutcomeOf(p)
  <2>1. CASE answer.code = "TooManyPresets"
    <3>1. ~updates /\ Cardinality(store) = proc[p].total
      BY <1>12, <1>t, <2>1
    <3>2. Called(p) = {}
      BY <1>12, <1>13, <3>1
    <3>3. OutcomeOf(p) = <<"full", "">>
      BY <3>1, <3>2 DEF OutcomeOf
    <3>4. Told' = <<"full", "">>
      BY <1>1, <1>2, <1>10, <2>1 DEF Told
    <3> QED
      BY <3>3, <3>4, <1>n
  <2>2. CASE answer.code # "TooManyPresets"
    <3>1. Called(p) # {}
      BY <1>12, <1>13, <1>t, <2>2
    <3>2. PICK preset \in store : /\ preset[2] = SetName(p)
                                /\ answer.claims = {<<"PresetToken", preset[1], SetName(p)>>}
                                /\ answer.kind = "ok"
      BY <1>t, <2>2, <3>1
    <3>3. PICK claim : claim = CHOOSE c \in answer.claims : TRUE
      OBVIOUS
    <3>4. claim = <<"PresetToken", preset[1], SetName(p)>>
      BY <3>2, <3>3
    <3>5. Told' = <<"added", claim[2]>>
      BY <1>1, <1>2, <1>10, <2>2, <3>2, <3>3 DEF Told
    <3>6. Told' = <<"added", preset[1]>>
      BY <3>4, <3>5
    <3>7. CASE updates
      <4>1. PresetToken(preset) = wanted
        BY <1>11, <1>12, <3>2, <3>7 DEF Meant
      <4>2. OutcomeOf(p) = <<"added", preset[1]>>
        BY <3>7, <4>1 DEF OutcomeOf, PresetToken
      <4> QED
        BY <3>6, <4>2, <1>n
    <3>8. CASE ~updates
      <4>1. Called(p) = {preset}
        BY <1>11, <1>12, <3>1, <3>2, <3>8
      <4>2. PICK named : named = CHOOSE other \in Called(p) : TRUE
        OBVIOUS
      <4>3. named = preset
        BY <4>1, <4>2
      <4>4. OutcomeOf(p) = <<"added", named[1]>>
        BY <3>1, <3>8, <4>2 DEF OutcomeOf
      <4> QED
        BY <3>6, <4>3, <4>4, <1>n
    <3> QED
      BY <3>7, <3>8
  <2> QED
    BY <2>1, <2>2
<1>15. PS!Tell
  BY <1>1, <1>2, <1>5, <1>14 DEF PS!Tell
<1> QED
  BY <1>15 DEF PS!Next

LEMMA InitMaps == Init => PS!Init
<1> SUFFICES ASSUME Init PROVE PS!Init
  OBVIOUS
<1>1. IInv
  BY InitIInv
<1>2. Waiting = {} /\ ~Adds(last.req)
  BY IdleParts, Parts DEF Init, Waiting, Nothing
<1>3. Outcome = None /\ Told = None
  BY <1>2, NothingIsTold DEF Outcome
<1> QED
  BY <1>1, <1>3 DEF PS!Init, IInv, TypeOK, PresetNamesUnique

\* Without such clients nothing is to be seen in PresetStore.
LEMMA NotOrderly ==
  ASSUME ~Orderly, [Next]_vars
  PROVE  UNCHANGED PS!vars
<1>1. conf' = conf /\ device' = device
  BY DEF Next, vars, PutAway, Receive, Step, CommandSucceeds, CommandFails, AnswerSetPreset,
         SetSystemFactoryDefault, CreateHelper, CallSync, Expire, SyncReturns, Restart, Reboot, RebootFails
<1>2. ~Orderly'
  BY <1>1 DEF Orderly
<1> QED
  BY <1>2 DEF PS!vars, Outcome, Told

LEMMA StepMaps == IInv /\ IInv' /\ [Next]_vars => [PS!Next]_PS!vars
<1> SUFFICES ASSUME IInv, IInv', [Next]_vars PROVE [PS!Next]_PS!vars
  OBVIOUS
<1>1. CASE ~Orderly
  BY <1>1, NotOrderly
<1>2. CASE Orderly
  <2>1. CASE UNCHANGED vars
    <3>1. store' = store /\ Orderly' = Orderly /\ proc' = proc /\ last' = last
      BY <2>1 DEF vars, Orderly
    <3>2. Told' = Told /\ Waiting' = Waiting
      BY <3>1 DEF Told, Waiting
    <3>3. \A p : OutcomeOf(p)' = OutcomeOf(p)
      BY <3>1 DEF OutcomeOf, Called, SetName, SetCommand
    <3>4. Outcome' = Outcome
      BY <3>1, <3>2, <3>3 DEF Outcome
    <3> QED
      BY <3>1, <3>2, <3>4 DEF PS!vars
  <2>2. CASE PutAway
    <3>1. store' = store /\ Orderly' = Orderly /\ proc' = proc /\ last' = Nothing
      BY <2>2 DEF PutAway, Orderly
    <3>2. Told' = None
      BY <3>1, IdleParts, Parts DEF Told, Nothing
    <3>3. Waiting' = Waiting
      BY <3>1 DEF Waiting
    <3> QED
      BY <3>1, <3>2, <3>3, Forgets
  <2>3. ASSUME NEW p \in Procs, Receive(p) PROVE PS!Next
    BY <2>3, ReceiveMaps
  <2>4. ASSUME NEW p \in Procs, Step(p) \/ SyncReturns(p) PROVE PS!Next
    <3>1. CASE CommandSucceeds(p)
      BY <1>2, <3>1, OtherMaps, RemoveMaps, AddMaps
    <3>2. CASE AnswerSetPreset(p)
      BY <1>2, <3>2, AnswerMaps
    <3>3. CASE ~CommandSucceeds(p) /\ ~AnswerSetPreset(p)
      BY <2>4, <3>3, StayMaps DEF Step
    <3> QED
      BY <3>1, <3>2, <3>3
  <2> QED
    BY <2>1, <2>2, <2>3, <2>4, Steps
<1> QED
  BY <1>1, <1>2

\* SetPreset reads the presets, runs a command, reads them again and compares.
\* To clients that wait for one another this is one step that adds a preset,
\* renames one or finds no room, after which the client is told which of them.
THEOREM Refinement == Spec => ImplementsPresetStore
<1>1. Init => PS!Init
  BY InitMaps
<1>2. IInv /\ IInv' /\ [Next]_vars => [PS!Next]_PS!vars
  BY StepMaps
<1> QED
  BY Invariance, <1>1, <1>2, PTL DEF Spec, ImplementsPresetStore, PS!Spec

================================================================================
