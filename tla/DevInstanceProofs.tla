------------------------- MODULE DevInstanceProofs --------------------------
(***************************************************************************)
(* DevInstance proved for any number of changes, days and snapshots: what  *)
(* was changed on a restored machine or on the data disk survives every    *)
(* order of scripts, failed commands, startup scripts and nights.          *)
(***************************************************************************)
EXTENDS DevInstance, TLAPS

Disk == [kind : {"none", "raw", "ext4"}, work : SUBSET Nat, has : SUBSET Installed]

Command == {"shell", "attach", "format", "stop", "snapshot", "delete", "recreate"}

TypeInv ==
  /\ pc \in Command
  /\ vm \in {"none", "running", "stopped"}
  /\ boot \in {Created, Restored}
  /\ disks \in [Name -> Disk]
  /\ snapshots \in Seq([name : Nat, disk : Disk])
  /\ done \in Nat
  /\ day \in Nat

\* When snapshot-and-delete.sh comes to its last command, the disk that it took by
\* name is in a snapshot.  It is not touched between the two: the machine is down.
RestoredIsSaved ==
  /\ pc \in {"snapshot", "delete"} => vm = "stopped"
  /\ pc = "delete" =>
       \A w \in disks[Restored].work : \E i \in 1..Len(snapshots) : w \in Saved(i)

\* The data disk is empty until it is formatted.
UnformattedIsEmpty == disks[Data].kind # "ext4" => disks[Data].work = {}

IInv == TypeInv /\ RestoredIsSaved /\ UnformattedIsEmpty

-----------------------------------------------------------------------------
LEMMA Names ==
  /\ Name = {Created, Restored, Data}
  /\ Created # Restored /\ Created # Data /\ Restored # Data
  /\ boot \in {Created, Restored} => boot \in Name /\ boot # Data
BY DEF Name, Created, Restored, Data

LEMMA NewDisks ==
  /\ NoDisk \in Disk /\ NoDisk.kind = "none" /\ NoDisk.work = {}
  /\ Raw \in Disk /\ Raw.kind = "raw" /\ Raw.work = {}
  /\ Fresh \in Disk /\ Fresh.kind = "ext4" /\ Fresh.work = {}
BY DEF NoDisk, Raw, Fresh, Disk

\* The startup script changes what is installed on the boot disk, and no work.
LEMMA Installs ==
  ASSUME TypeInv, Startup
  PROVE  /\ disks' \in [Name -> Disk]
         /\ \A n \in Name : disks'[n].kind = disks[n].kind /\ disks'[n].work = disks[n].work
         /\ vm = "running"
         /\ UNCHANGED <<pc, vm, boot, snapshots, done, day>>
<1>1. /\ disks \in [Name -> Disk] /\ boot \in Name
      /\ vm = "running" /\ UNCHANGED <<pc, vm, boot, snapshots, done, day>>
  BY Names DEF TypeInv, Startup, InstallDriver, InstallDocker, ArmShutdown, StartupFails, ArmFails,
     Booting
<1>2. Leaves["driver"] \in Installed /\ Leaves["docker"] \in Installed /\ Leaves["arm"] \in Installed
  BY DEF Installed, Leaves
<1>3. DOMAIN Leaves = {"driver", "docker", "arm"}
  BY DEF Leaves
<1>4. \/ UNCHANGED disks
      \/ \E S \in SUBSET Installed : disks' = [disks EXCEPT ![boot].has = S]
  <2>1. disks[boot].has \in SUBSET Installed
    BY <1>1 DEF Disk
  <2>2. ASSUME NEW item \in Installed, Install(item)
        PROVE  \E S \in SUBSET Installed : disks' = [disks EXCEPT ![boot].has = S]
    <3>1. disks' = [disks EXCEPT ![boot].has = disks[boot].has \cup {item}]
      BY <2>2 DEF Install
    <3>2. disks[boot].has \cup {item} \in SUBSET Installed
      BY <2>1
    <3> QED
      BY <3>1, <3>2
  <2>3. CASE InstallDriver \/ InstallDocker \/ ArmShutdown \/ StartupFails
    BY <1>2, <1>3, <2>2, <2>3 DEF InstallDriver, InstallDocker, ArmShutdown, StartupFails
  <2>4. CASE ArmFails
    <3>1. \/ UNCHANGED disks
          \/ disks' = [disks EXCEPT ![boot].has = disks[boot].has \ {"auto-shutdown"}]
      BY <2>4 DEF ArmFails
    <3>2. disks[boot].has \ {"auto-shutdown"} \in SUBSET Installed
      BY <2>1
    <3> QED
      BY <3>1, <3>2
  <2> QED
    BY <2>3, <2>4 DEF Startup
<1> QED
  BY <1>1, <1>4 DEF Disk

\* A change is made on one disk, on the data disk only when it is formatted.
LEMMA Changes ==
  ASSUME TypeInv, NEW n \in Name, Work(n)
  PROVE  /\ disks' \in [Name -> Disk]
         /\ \A m \in Name : disks'[m].kind = disks[m].kind /\ disks[m].work \subseteq disks'[m].work
         /\ disks[Data].kind # "ext4" => disks'[Data] = disks[Data]
         /\ vm = "running" /\ done' \in Nat
         /\ UNCHANGED <<pc, vm, boot, snapshots, day>>
<1>1. /\ disks \in [Name -> Disk] /\ boot # Data /\ Data \in Name
      /\ vm = "running" /\ done' \in Nat
      /\ UNCHANGED <<pc, vm, boot, snapshots, day>>
      /\ n = boot \/ disks[Data].kind = "ext4"
      /\ disks' = [disks EXCEPT ![n].work = @ \cup {done'}]
  BY Names DEF TypeInv, Work, vmVars
<1> QED
  BY <1>1 DEF Disk

-----------------------------------------------------------------------------
LEMMA InitInv == Init => IInv
<1> SUFFICES ASSUME Init PROVE IInv
  OBVIOUS
<1>1. disks \in [Name -> Disk] /\ disks[Data].work = {}
  BY Names, NewDisks DEF Init
<1>2. snapshots \in Seq([name : Nat, disk : Disk])
  BY DEF Init
<1> QED
  BY <1>1, <1>2 DEF Init, IInv, TypeInv, RestoredIsSaved, UnformattedIsEmpty, Command

\* Starting and stopping, a night, a failure and the reading of a status leave the
\* disks alone.
LEMMA QuietStep ==
  ASSUME IInv,
         \/ Fails \/ AttachData \/ StartVm \/ StopDev \/ BeginSnapshot \/ StopForSnapshot
         \/ RecreateVm \/ Night
  PROVE  IInv'
<1>1. UNCHANGED <<disks, snapshots, done>>
  BY DEF Fails, AttachData, StartVm, StopDev, StopVm, BeginSnapshot, StopForSnapshot, RecreateVm,
     Night
<1>2. day' \in Nat
  BY DEF IInv, TypeInv, Fails, AttachData, StartVm, StopDev, StopVm, BeginSnapshot,
     StopForSnapshot, RecreateVm, Night
<1>3. /\ pc' \in Command /\ boot' \in {Created, Restored}
      /\ vm' \in {"none", "running", "stopped"}
      /\ pc' \in {"snapshot", "delete"} => vm' = "stopped"
      /\ pc' = "delete" => pc = "delete"
  BY DEF IInv, TypeInv, RestoredIsSaved, Command, Fails, AttachData, StartVm, StopDev, StopVm,
     BeginSnapshot, StopForSnapshot, RecreateVm, Night, Goto, Boots, Halt, vmVars
<1> QED
  BY <1>1, <1>2, <1>3 DEF IInv, TypeInv, RestoredIsSaved, UnformattedIsEmpty, Saved

LEMMA StartupStep ==
  ASSUME IInv, Startup
  PROVE  IInv'
<1>1. TypeInv
  BY DEF IInv
<1> QED
  BY <1>1, Installs, Names DEF IInv, TypeInv, RestoredIsSaved, UnformattedIsEmpty

LEMMA WorkStep ==
  ASSUME IInv, NEW n \in Name, Work(n)
  PROVE  IInv'
<1>1. TypeInv
  BY DEF IInv
<1> QED
  BY <1>1, Changes, Names DEF IInv, TypeInv, RestoredIsSaved, UnformattedIsEmpty

\* New disks: they are empty.
LEMMA NewDiskStep ==
  ASSUME IInv, CreateInstance \/ CreateData \/ FormatData
  PROVE  IInv'
<1>1. /\ disks' \in [Name -> Disk]
      /\ disks'[Data].kind # "ext4" => disks'[Data].work = {}
  BY Names, NewDisks
  DEF IInv, TypeInv, UnformattedIsEmpty, CreateInstance, CreateData, FormatData
<1>2. /\ UNCHANGED <<snapshots, done, day>>
      /\ pc' \in {"shell", "attach"}
      /\ boot' \in {Created, Restored}
      /\ vm' \in {"none", "running", "stopped"}
  BY DEF IInv, TypeInv, CreateInstance, CreateData, FormatData, Goto, Boots, vmVars
<1> QED
  BY <1>1, <1>2 DEF IInv, TypeInv, RestoredIsSaved, UnformattedIsEmpty, Command

\* The disk that is taken by name is the one that is saved.
LEMMA SnapshotStep ==
  ASSUME IInv, Snapshot
  PROVE  IInv'
<1>1. /\ pc = "snapshot" /\ pc' = "delete"
      /\ snapshots' = Append(snapshots, [name |-> day, disk |-> disks[Restored]])
      /\ UNCHANGED <<vm, boot, disks, done, day>>
  BY DEF Snapshot, Goto, vmVars
<1>2. [name |-> day, disk |-> disks[Restored]] \in [name : Nat, disk : Disk]
  BY Names DEF IInv, TypeInv
<1>3. /\ snapshots' \in Seq([name : Nat, disk : Disk])
      /\ Len(snapshots') \in 1..Len(snapshots')
      /\ snapshots'[Len(snapshots')].disk = disks[Restored]
  BY <1>1, <1>2 DEF IInv, TypeInv
<1> QED
  BY <1>1, <1>3 DEF IInv, TypeInv, RestoredIsSaved, UnformattedIsEmpty, Command, Saved

\* The machine goes, with its boot disk, and is saved by hand before, perhaps.
LEMMA DeleteStep ==
  ASSUME IInv, DeleteVm \/ ByHand
  PROVE  IInv'
<1>1. /\ vm' = "none" /\ pc' = "shell" /\ UNCHANGED <<boot, done, day>>
      /\ disks' = [disks EXCEPT ![boot] = NoDisk]
  BY DEF DeleteVm, ByHand, Delete, Goto
<1>2. snapshots' \in Seq([name : Nat, disk : Disk])
  <2>1. CASE DeleteVm
    BY <2>1 DEF DeleteVm, IInv, TypeInv
  <2>2. CASE ByHand
    <3>1. [name |-> 0, disk |-> disks[boot]] \in [name : Nat, disk : Disk]
      BY Names DEF IInv, TypeInv
    <3> QED
      BY <2>2, <3>1 DEF ByHand
  <2> QED
    BY <2>1, <2>2
<1>3. disks' \in [Name -> Disk] /\ disks'[Data] = disks[Data]
  BY <1>1, Names, NewDisks DEF IInv, TypeInv
<1> QED
  BY <1>1, <1>2, <1>3 DEF IInv, TypeInv, RestoredIsSaved, UnformattedIsEmpty, Command

\* A disk is made of a snapshot.
LEMMA RestoreStep ==
  ASSUME IInv, NEW i \in 1..Len(snapshots), RestoreDisk(i)
  PROVE  IInv'
<1>1. snapshots[i].disk \in Disk
  <2> DEFINE Taken == [name : Nat, disk : Disk]
  <2>1. snapshots \in Seq(Taken)
    BY DEF IInv, TypeInv
  <2> HIDE DEF Taken
  <2>2. snapshots[i] \in Taken
    BY <2>1
  <2> QED
    BY <2>2 DEF Taken
<1>2. /\ disks' \in [Name -> Disk] /\ disks'[Data] = disks[Data]
      /\ pc' = "recreate" /\ UNCHANGED <<vm, boot, snapshots, done, day>>
  BY <1>1, Names DEF RestoreDisk, Goto, vmVars, IInv, TypeInv
<1> QED
  BY <1>2 DEF IInv, TypeInv, RestoredIsSaved, UnformattedIsEmpty, Command

LEMMA StepInv == IInv /\ [Next]_vars => IInv'
<1> SUFFICES ASSUME IInv, [Next]_vars PROVE IInv'
  OBVIOUS
<1>1. CASE Script
  BY <1>1, QuietStep, NewDiskStep, SnapshotStep, DeleteStep, RestoreStep DEF Script
<1>2. CASE UNCHANGED vars
  BY <1>2 DEF vars, vmVars, IInv, TypeInv, RestoredIsSaved, UnformattedIsEmpty, Saved
<1> QED
  BY <1>1, <1>2, StartupStep, WorkStep, QuietStep DEF Next

\* The inductive invariant behind the theorem that follows.
LEMMA Invariance == Spec => []IInv
BY InitInv, StepInv, PTL DEF Spec

\* The work done on a restored machine or on the data disk survives every order of
\* scripts, however they fail.
THEOREM WorkSurvives == Spec => RestoredWorkIsKept
<1>1. IInv /\ [Next]_vars =>
        [\A n \in {Restored, Data} : \A w \in disks[n].work :
           w \in disks'[n].work \/ \E i \in 1..Len(snapshots') : w \in Saved(i)']_vars
  <2> SUFFICES ASSUME IInv, Next, NEW n \in {Restored, Data}, NEW w \in disks[n].work
               PROVE  w \in disks'[n].work \/ \E i \in 1..Len(snapshots') : w \in Saved(i)'
    OBVIOUS
  <2>0. TypeInv /\ disks \in [Name -> Disk] /\ n \in Name /\ boot # Data
    BY Names DEF IInv, TypeInv
  <2>1. CASE UNCHANGED disks
    BY <2>1
  <2>2. CASE Startup
    BY <2>0, <2>2, Installs
  <2>3. ASSUME NEW m \in Name, Work(m)
        PROVE  w \in disks'[n].work
    BY <2>0, <2>3, Changes
  <2>4. CASE CreateInstance \/ CreateData \/ FormatData
    <3>1. n = Data => disks[Data].kind = "ext4"
      BY DEF IInv, UnformattedIsEmpty
    <3>2. disks'[n] = disks[n]
      BY <2>0, <2>4, <3>1, Names, NewDisks DEF CreateInstance, CreateData, FormatData
    <3> QED
      BY <3>2
  <2>5. CASE DeleteVm \/ ByHand
    <3>1. n # boot => disks'[n] = disks[n]
      BY <2>0, <2>5 DEF DeleteVm, ByHand, Delete
    <3>2. CASE n = boot
      <4>1. DeleteVm /\ n = Restored
        BY <2>0, <2>5, <3>2, Names DEF ByHand
      <4>2. pc = "delete" /\ snapshots' = snapshots
        BY <4>1 DEF DeleteVm, Goto
      <4> QED
        BY <4>1, <4>2 DEF IInv, RestoredIsSaved, Saved
    <3> QED
      BY <3>1, <3>2
  <2>6. ASSUME NEW i \in 1..Len(snapshots), RestoreDisk(i)
        PROVE  w \in disks'[n].work
    BY <2>0, <2>6, Names, NewDisks DEF RestoreDisk
  <2> QED
    BY <2>1, <2>2, <2>3, <2>4, <2>5, <2>6
    DEF Next, Script, StartVm, StopDev, StopVm, AttachData, BeginSnapshot, StopForSnapshot,
        Snapshot, RecreateVm, Night, Fails
<1> QED
  BY <1>1, Invariance, PTL DEF Spec, RestoredWorkIsKept
=============================================================================
