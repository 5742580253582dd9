---------------------------- MODULE DevInstance -----------------------------
(***************************************************************************)
(* The cloud machine of infra/scripts: create-instance.sh, start-dev.sh,   *)
(* stop-dev.sh, add-data-disk.sh, snapshot-and-delete.sh and restore-from- *)
(* snapshot.sh, run by one developer, while the machine's startup script   *)
(* and its 2am shutdown run by themselves.                                 *)
(*                                                                         *)
(* Each gcloud command that changes something is a step, and may fail      *)
(* (quota, no GPU left in the zone, no connection): set -e then ends the   *)
(* script.  A command that fails first in its script changes nothing.      *)
(* What is done on the machine, by bootstrap-instance.sh too, is a change  *)
(* of a disk.  The dev container is left out: it keeps nothing that        *)
(* another step looks at.                                                  *)
(***************************************************************************)
EXTENDS Naturals, Sequences

CONSTANTS
  MaxWork,       \* bound on the changes made on the machine
  MaxDays,       \* bound on the days
  MaxSnapshots   \* bound on the snapshots

ASSUME InstanceAssumption == {MaxWork, MaxDays, MaxSnapshots} \subseteq Nat

VARIABLES
  pc,        \* the command that the script in hand comes to, or "shell"
  vm,        \* "none", "running" or "stopped"
  boot,      \* the name of the machine's boot disk
  startup,   \* where the startup script is, in this boot
  attached,  \* the data disk is attached to the machine
  disks,     \* the disks of the project, by name
  snapshots, \* the snapshots, newest last
  done,      \* the number of changes made so far
  day

vmVars == <<vm, boot, startup, attached>>
vars == <<pc, vmVars, disks, snapshots, done, day>>

\* The names that gcloud gives to the boot disk of create-instance.sh, and the
\* scripts to the other two.  The startup script of a machine is that of the
\* script that made its boot disk.
Created  == "aa-zklora-dev"
Restored == "aa-zklora-dev-disk"
Data     == "aa-zklora-dev-data"
Name     == {Created, Restored, Data}

\* What the steps of create-instance.sh's startup script leave on the boot disk.
Leaves == [driver |-> "nvidia-smi", docker |-> "docker", arm |-> "auto-shutdown"]
Installed == {Leaves[step] : step \in DOMAIN Leaves}

\* What is on a disk: the changes made there, and what has been installed.
NoDisk == [kind |-> "none", work |-> {}, has |-> {}]
Raw    == [NoDisk EXCEPT !.kind = "raw"]
Fresh  == [NoDisk EXCEPT !.kind = "ext4"]

Has(item) == item \in disks[boot].has
Install(item) == disks' = [disks EXCEPT ![boot].has = @ \cup {item}]

Init ==
  /\ pc = "shell"
  /\ vm = "none"
  /\ boot = Created
  /\ startup = "off"
  /\ attached = FALSE
  /\ disks = [n \in Name |-> NoDisk]
  /\ snapshots = <<>>
  /\ done = 0
  /\ day = 1

Goto(from, to) == pc = from /\ pc' = to

\* A command fails: the script ends.
Fails == pc # "shell" /\ pc' = "shell" /\ UNCHANGED <<vmVars, disks, snapshots, done, day>>

-----------------------------------------------------------------------------
(* The machine.                                                            *)

\* The startup script of create-instance.sh skips everything when nvidia-smi and
\* docker are there; that of restore-from-snapshot.sh only sets the shutdown.
FirstStep(disk, has) ==
  IF disk = Restored THEN "arm"
  ELSE IF {"nvidia-smi", "docker"} \subseteq has THEN "complete" ELSE "driver"

Boots(disk) ==
  /\ vm' = "running"
  /\ boot' = disk
  /\ startup' = FirstStep(disk, disks'[disk].has)

\* A machine that stops cuts a startup script short.
Halt == vm' = "stopped" /\ startup' = "off"

Booting(from, to) ==
  /\ vm = "running"
  /\ startup = from /\ startup' = to
  /\ UNCHANGED <<pc, vm, boot, attached, snapshots, done, day>>

\* A step ends when its program is there; what is still to be set up for it
\* belongs to the next one.
InstallDriver == Booting("driver", "docker") /\ Install(Leaves["driver"])

InstallDocker == Booting("docker", "arm") /\ Install(Leaves["docker"])

\* The cron file of the 2am shutdown, then /tmp/startup-done, in both scripts.
ArmShutdown == Booting("arm", "complete") /\ Install(Leaves["arm"])

\* create-instance.sh: set -e ends the startup script at a command that fails,
\* before or after the step has left its mark on the disk.
StartupFails ==
  /\ boot = Created
  /\ \E at \in DOMAIN Leaves :
       Booting(at, "off") /\ (UNCHANGED disks \/ Install(Leaves[at]))

\* restore-from-snapshot.sh: there is no set -e.  The cron file stays as it was, or
\* is truncated and not written, and startup-done is reported all the same.
ArmFails ==
  /\ boot = Restored
  /\ Booting("arm", "complete")
  /\ \/ UNCHANGED disks
     \/ disks' = [disks EXCEPT ![boot].has = @ \ {"auto-shutdown"}]

\* Something is changed on the boot disk, or on the data disk once it is mounted.
Work(n) ==
  /\ vm = "running"
  /\ n = boot \/ (n = Data /\ attached /\ disks[Data].kind = "ext4")
  /\ done < MaxWork
  /\ done' = done + 1
  /\ disks' = [disks EXCEPT ![n].work = @ \cup {done'}]
  /\ UNCHANGED <<pc, vmVars, snapshots, day>>

\* 2am: a machine with the cron file shuts down.
Night ==
  /\ day < MaxDays
  /\ day' = day + 1
  /\ IF vm = "running" /\ Has("auto-shutdown") THEN Halt ELSE UNCHANGED <<vm, startup>>
  /\ UNCHANGED <<pc, boot, attached, disks, snapshots, done>>

-----------------------------------------------------------------------------
(* create-instance.sh, start-dev.sh, stop-dev.sh.                          *)

\* --boot-disk-device-name is what the guest calls the boot disk; the disk
\* itself gets the name of the machine.
CreateInstance ==
  /\ pc = "shell"
  /\ vm = "none"
  /\ disks[Created] = NoDisk
  /\ disks' = [disks EXCEPT ![Created] = Fresh]
  /\ Boots(Created)
  /\ UNCHANGED <<pc, attached, snapshots, done, day>>

\* start-dev.sh, which does nothing of the kind to a machine that is running.
StartVm ==
  /\ pc = "shell"
  /\ vm = "stopped"
  /\ UNCHANGED disks
  /\ Boots(boot)
  /\ UNCHANGED <<pc, attached, snapshots, done, day>>

StopVm(from, to) ==
  /\ vm # "none"
  /\ Goto(from, to)
  /\ Halt
  /\ UNCHANGED <<boot, attached, disks, snapshots, done, day>>

\* stop-dev.sh leaves a machine alone that does not run.
StopDev == vm = "running" /\ StopVm("shell", "shell")

-----------------------------------------------------------------------------
(* add-data-disk.sh: each step is skipped when it was done before.         *)

CreateData ==
  /\ Goto("shell", "attach")
  /\ disks' = IF disks[Data] = NoDisk THEN [disks EXCEPT ![Data] = Raw] ELSE disks
  /\ UNCHANGED <<vmVars, snapshots, done, day>>

AttachData ==
  /\ vm # "none"
  /\ Goto("attach", "format")
  /\ attached' = TRUE
  /\ UNCHANGED <<vm, boot, startup, disks, snapshots, done, day>>

\* Mutant of FormatData: the disk is formatted whatever is on it.
FormatAlways ==
  /\ vm = "running"
  /\ Goto("format", "shell")
  /\ disks' = [disks EXCEPT ![Data] = Fresh]
  /\ UNCHANGED <<vmVars, snapshots, done, day>>

FormatData ==
  /\ vm = "running"
  /\ Goto("format", "shell")
  /\ disks' = IF disks[Data].kind = "raw" THEN [disks EXCEPT ![Data] = Fresh] ELSE disks
  /\ UNCHANGED <<vmVars, snapshots, done, day>>

-----------------------------------------------------------------------------
(* snapshot-and-delete.sh and restore-from-snapshot.sh.                    *)

\* The script acts on the status it reads at its beginning.
BeginSnapshot ==
  /\ \/ vm = "running" /\ Goto("shell", "stop")
     \/ vm = "stopped" /\ Goto("shell", "snapshot")
  /\ UNCHANGED <<vmVars, disks, snapshots, done, day>>

StopForSnapshot == StopVm("stop", "snapshot")

\* The disk is taken by its name, and so is the snapshot: one a day.
Snapshot ==
  /\ disks[Restored] # NoDisk
  /\ Len(snapshots) < MaxSnapshots
  /\ \A i \in 1..Len(snapshots) : snapshots[i].name # day
  /\ Goto("snapshot", "delete")
  /\ snapshots' = Append(snapshots, [name |-> day, disk |-> disks[Restored]])
  /\ UNCHANGED <<vmVars, disks, done, day>>

\* The machine goes, and its boot disk with it.
Delete ==
  /\ vm' = "none" /\ startup' = "off" /\ attached' = FALSE
  /\ disks' = [disks EXCEPT ![boot] = NoDisk]
  /\ UNCHANGED <<boot, done, day>>

DeleteVm ==
  /\ vm # "none"
  /\ Goto("delete", "shell")
  /\ Delete
  /\ UNCHANGED snapshots

\* The developer does in the console what snapshot-and-delete.sh cannot do to a
\* machine of create-instance.sh: the disk that Snapshot names is not that one's.
\* restore-from-snapshot.sh takes the name as --snapshot.  Once is enough.
ByHand ==
  /\ pc = "shell"
  /\ vm = "stopped" /\ boot = Created
  /\ snapshots = <<>>
  /\ snapshots' = <<[name |-> 0, disk |-> disks[boot]]>>
  /\ Delete
  /\ UNCHANGED pc

\* The newest snapshot, or the one that --snapshot names.
RestoreDisk(i) ==
  /\ disks[Restored] = NoDisk
  /\ Goto("shell", "recreate")
  /\ disks' = [disks EXCEPT ![Restored] = snapshots[i].disk]
  /\ UNCHANGED <<vmVars, snapshots, done, day>>

RecreateVm ==
  /\ vm = "none"
  /\ Goto("recreate", "shell")
  /\ UNCHANGED disks
  /\ Boots(Restored)
  /\ UNCHANGED <<attached, snapshots, done, day>>

Script ==
  \/ CreateInstance \/ StartVm \/ StopDev \/ CreateData \/ AttachData \/ FormatData
  \/ BeginSnapshot \/ StopForSnapshot \/ Snapshot \/ DeleteVm \/ ByHand
  \/ \E i \in 1..Len(snapshots) : RestoreDisk(i)
  \/ RecreateVm \/ Fails

Startup == InstallDriver \/ InstallDocker \/ ArmShutdown \/ StartupFails \/ ArmFails

Next == Script \/ Startup \/ (\E n \in Name : Work(n)) \/ Night

Spec == Init /\ [][Next]_vars

-----------------------------------------------------------------------------
(* Properties.                                                             *)

Saved(i) == snapshots[i].disk.work

\* What was changed on a restored machine, or on the data disk, is still on
\* its disk or in a snapshot, whichever scripts are run, and fail, in whatever
\* order.
RestoredWorkIsKept ==
  [][\A n \in {Restored, Data} : \A w \in disks[n].work :
       w \in disks'[n].work \/ \E i \in 1..Len(snapshots') : w \in Saved(i)']_vars

\* create-instance.sh:21 and its message at line 235: "Auto-shutdown at 2am daily".
\* A machine of create-instance.sh that has reported startup-complete does not run
\* through the night.
NightlyShutdown ==
  [][day' # day /\ vm = "running" /\ boot = Created /\ startup = "complete"
       => vm' = "stopped"]_vars
=============================================================================
