------------------------------ MODULE FileSys ------------------------------
(***************************************************************************)
(* File systems: src/os/shared/src/osapi-filesys.c over                    *)
(* src/os/posix/src/os-impl-filesys.c.  Tasks make, mount, unmount, check  *)
(* and remove volumes while others translate virtual paths.                *)
(*                                                                         *)
(* The volume table keeps the promises of ObjTable.  Its lock is a         *)
(* variable of its own: OS_LOCK_MODE_GLOBAL transactions keep it from the  *)
(* search to the release, and a search that meets a RESERVED entry returns *)
(* an error with the table locked (run search of IdMap).  Paths are        *)
(* sequences of characters, of which "/" is one.  Calls that fail before   *)
(* they change anything are not shown.                                     *)
(***************************************************************************)
EXTENDS ObjTable, SequencesExt

CONSTANTS
  Tasks,
  NOBODY,       \* the table is not locked
  Disks,        \* [dev, vol, ram]: arguments of OS_mkfs and OS_initfs
  Maps,         \* [phys, virt]: arguments of OS_FileSysAddFixedMap
  MountPoints,  \* arguments of OS_mount
  Paths,        \* arguments of the calls that search a mounted volume
  MaxLocalLen   \* OS_MAX_LOCAL_PATH_LEN

ASSUME FileSysAssumption ==
  /\ MaxId \in Nat \ {0} /\ Ids \subseteq Nat /\ NOBODY \notin Tasks
  /\ MaxLocalLen \in Nat \ {0}
  /\ \A p \in MountPoints \cup {m.virt : m \in Maps} : p # <<>>

VARIABLES
  last_id,     \* the id issued last
  name_entry,  \* slot -> the field that holds the name, "null" before it is set
  filesys,     \* slot -> OS_filesys_table[]
  lock,        \* who holds the lock of the volume table
  call,        \* task -> arguments and locals of its call
  LocalPath,   \* task -> result of OS_TranslatePath
  pc

table == <<obj, last_id, name_entry, filesys>>
vars == <<table, lock, call, LocalPath, pc>>

MOUNTED == {"mounted_system", "mounted_virtual"}
NoVolume == [device_name |-> <<>>, system_mountpt |-> <<>>, virtual_mountpt |-> <<>>,
             flags |-> {}, fstype |-> "unknown"]
NoCall == [new |-> [dev |-> <<>>, vol |-> <<>>, ram |-> FALSE], slot |-> NONE,
           path |-> <<>>, mountpoint |-> <<>>, begin |-> 0]
Names == {d.dev : d \in Disks} \cup {m.virt : m \in Maps} \cup MountPoints
Where(d) == <<"/", "t", ":">> \o d.vol     \* the directory of a RAM disk
Directories == {Where(d) : d \in {x \in Disks : x.ram}} \cup {m.phys : m \in Maps}

(* The fields keep their types; a volume is mounted on both sides or on    *)
(* none, whatever OS_mount, OS_unmount and OS_FileSysAddFixedMap do.       *)
TypeOK ==
  /\ TypeOfObj
  /\ last_id \in Ids \cup {NONE}
  /\ name_entry \in [Slots -> {"null", "device_name", "virtual_mountpt"}]
  /\ \A s \in Slots :
       /\ filesys[s].device_name \in {d.dev : d \in Disks} \cup {<<>>}
       /\ filesys[s].system_mountpt \in Directories \cup {<<>>}
       /\ filesys[s].virtual_mountpt \in MountPoints \cup {m.virt : m \in Maps} \cup {<<>>}
       /\ filesys[s].fstype \in {"unknown", "volatile", "fs_based"}
       /\ filesys[s].flags \ {"fixed"} \in {{}, {"ready"}, {"ready"} \cup MOUNTED}
  /\ lock \in Tasks \cup {NOBODY}
  /\ \A t \in Tasks : call[t].slot \in Slots \cup {NONE}
  /\ DOMAIN LocalPath = Tasks
  /\ pc \in [Tasks -> {"run", "init", "start", "map", "finish", "fail", "mount",
                       "unmount", "copy", "append", "translated", "stat", "check", "wait",
                       "stop"}]

Init ==
  /\ InitObj /\ last_id = NONE
  /\ name_entry = [s \in Slots |-> "null"] /\ filesys = [s \in Slots |-> NoVolume]
  /\ lock = NOBODY /\ call = [t \in Tasks |-> NoCall]
  /\ LocalPath = [t \in Tasks |-> <<>>]
  /\ pc = [t \in Tasks |-> "run"]

Goto(t, from, to) == pc[t] = from /\ pc' = [pc EXCEPT ![t] = to]
Return(t) == call' = [call EXCEPT ![t] = NoCall]
Slot(t) == call[t].slot
Vol(t) == filesys[Slot(t)]

\* OS_ObjectNameMatch: name_entry points into the record.
Name(s) ==
  CASE name_entry[s] = "null" -> <<>>
    [] name_entry[s] = "device_name" -> filesys[s].device_name
    [] name_entry[s] = "virtual_mountpt" -> filesys[s].virtual_mountpt

Defined == {s \in Slots : obj[s].st # "free"}
Named(n) == {s \in Defined : Name(s) = n}

(* Mutant: the match may end in the middle of a name.                      *)
FindVirtMountPoint_AnyPrefix(target) ==
  {s \in Defined : /\ "mounted_virtual" \in filesys[s].flags
                   /\ IsPrefix(filesys[s].virtual_mountpt, target)}

\* OS_FileSys_FindVirtMountPoint
FindVirtMountPoint(target) ==
  {s \in Defined :
     LET mp == filesys[s].virtual_mountpt IN
     /\ "mounted_virtual" \in filesys[s].flags
     /\ IsPrefix(mp, target)
     /\ Len(mp) = Len(target) \/ target[Len(mp) + 1] = "/"}

-----------------------------------------------------------------------------
(* OS_mkfs, OS_initfs and OS_FileSysAddFixedMap.                           *)

NextIds == {i \in Ids : i > last_id /\ i <= last_id + MaxId
                        /\ obj[SlotOf(i)].st = "free"}

\* OS_ObjectIdAllocateNew: no object has the name.
AllocateNew(t, volume, name) ==
  /\ Goto(t, "run", "init")
  /\ lock = NOBODY /\ Named(name) = {} /\ NextIds # {}
  /\ LET i == Min(NextIds) IN
     /\ Allocate(i) /\ last_id' = i
     /\ name_entry' = [name_entry EXCEPT ![SlotOf(i)] = "null"]
     /\ call' = [call EXCEPT ![t].slot = SlotOf(i), ![t].new = volume]
  /\ UNCHANGED <<filesys, lock, LocalPath>>

Initialize(t) == \E d \in Disks : AllocateNew(t, d, d.dev)
AddFixedMap(t) == \E m \in Maps : AllocateNew(t, m, m.virt)

IsMap(t) == call[t].new \in Maps

(* Mutant: the record of the slot's last volume is not reset.              *)
InitRecord_KeepsFlags(t) ==
  LET new == call[t].new IN
  /\ Goto(t, "init", "start")
  /\ filesys' = [filesys EXCEPT ![Slot(t)] =
       IF IsMap(t)
       THEN [@ EXCEPT !.virtual_mountpt = new.virt, !.system_mountpt = new.phys,
                      !.flags = {"fixed"}, !.fstype = "fs_based"]
       ELSE [@ EXCEPT !.device_name = new.dev,
                      !.fstype = IF new.ram THEN "volatile" ELSE "unknown"]]
  /\ name_entry' = [name_entry EXCEPT ![Slot(t)] =
                      IF IsMap(t) THEN "virtual_mountpt" ELSE "device_name"]
  /\ UNCHANGED <<obj, last_id, lock, call, LocalPath>>

\* OS_OBJECT_INIT and what the caller supplied, with the table unlocked.
InitRecord(t) ==
  LET new == call[t].new IN
  /\ Goto(t, "init", "start")
  /\ filesys' = [filesys EXCEPT ![Slot(t)] =
       IF IsMap(t)
       THEN [NoVolume EXCEPT !.virtual_mountpt = new.virt, !.system_mountpt = new.phys,
                             !.flags = {"fixed"}, !.fstype = "fs_based"]
       ELSE [NoVolume EXCEPT !.device_name = new.dev,
                             !.fstype = IF new.ram THEN "volatile" ELSE "unknown"]]
  /\ name_entry' = [name_entry EXCEPT ![Slot(t)] =
                      IF IsMap(t) THEN "virtual_mountpt" ELSE "device_name"]
  /\ UNCHANGED <<obj, last_id, lock, call, LocalPath>>

\* OS_FileSysStartVolume_Impl and OS_FileSysFormatVolume_Impl; the directory
\* of a RAM disk is chosen here.
StartVolume(t) ==
  /\ Goto(t, "start", IF IsMap(t) THEN "map" ELSE "finish")
  /\ filesys' = [filesys EXCEPT
       ![Slot(t)].flags = @ \cup {"ready"},
       ![Slot(t)].system_mountpt = IF Vol(t).fstype = "volatile" THEN Where(call[t].new)
                                   ELSE @]
  /\ UNCHANGED <<obj, last_id, name_entry, lock, call, LocalPath>>

\* No place for volatile volumes.
StartVolumeFails(t) ==
  /\ Goto(t, "start", "fail") /\ Vol(t).fstype = "volatile"
  /\ UNCHANGED <<table, lock, call, LocalPath>>

MapMounted(t) ==
  /\ Goto(t, "map", "finish")
  /\ filesys' = [filesys EXCEPT ![Slot(t)].flags = @ \cup MOUNTED]
  /\ UNCHANGED <<obj, last_id, name_entry, lock, call, LocalPath>>

\* OS_FileSysMountVolume_Impl cannot make the directory.
MapFails(t) == Goto(t, "map", "fail") /\ UNCHANGED <<table, lock, call, LocalPath>>

(* Mutant: the entry of a volume that cannot be started is not freed.      *)
FinalizeNew_FailLeaks(t) ==
  /\ \/ Goto(t, "finish", "run") /\ Created(Slot(t))
     \/ Goto(t, "fail", "run") /\ UNCHANGED obj
  /\ lock = NOBODY /\ Return(t)
  /\ UNCHANGED <<last_id, name_entry, filesys, lock, LocalPath>>

\* OS_ObjectIdFinalizeNew
FinalizeNew(t) ==
  /\ \/ Goto(t, "finish", "run") /\ Created(Slot(t))
     \/ Goto(t, "fail", "run") /\ NotCreated(Slot(t))
  /\ lock = NOBODY /\ Return(t)
  /\ UNCHANGED <<last_id, name_entry, filesys, lock, LocalPath>>

-----------------------------------------------------------------------------
(* OS_ObjectIdGetBySearch.  The first match decides.                       *)

(* Mutant: the search keeps no lock, as with OS_LOCK_MODE_NONE.            *)
SearchGlobal_Unlocked(t, found, to, args) ==
  /\ Goto(t, "run", to)
  /\ lock = NOBODY /\ found # {}
  /\ obj[Min(found)].st = "valid"
  /\ call' = [call EXCEPT ![t] = [args EXCEPT !.slot = Min(found)]]
  /\ UNCHANGED <<table, lock, LocalPath>>

\* OS_LOCK_MODE_GLOBAL
SearchGlobal(t, found, to, args) ==
  /\ Goto(t, "run", to)
  /\ lock = NOBODY /\ found # {}
  /\ obj[Min(found)].st = "valid"
  /\ lock' = t
  /\ call' = [call EXCEPT ![t] = [args EXCEPT !.slot = Min(found)]]
  /\ UNCHANGED <<table, LocalPath>>

\* In every mode: the match is RESERVED, and the table stays locked.
SearchReserved(t, found) ==
  /\ pc[t] = "run" /\ lock = NOBODY /\ found # {}
  /\ obj[Min(found)].st # "valid"
  /\ lock' = t
  /\ UNCHANGED <<table, call, LocalPath, pc>>

SearchFails(t) ==
  \/ \E n \in Names : SearchReserved(t, Named(n))
  \/ \E p \in Paths : SearchReserved(t, FindVirtMountPoint(p))

Unlock(t) == lock' = IF lock = t THEN NOBODY ELSE lock

-----------------------------------------------------------------------------
(* OS_mount and OS_unmount.                                                *)

Mount(t) ==
  \E n \in Names, mp \in MountPoints :
    SearchGlobal(t, Named(n), "mount", [NoCall EXCEPT !.mountpoint = mp])

Mountable(t) ==
  /\ Vol(t).flags \ {"fixed"} = {"ready"}
  /\ Vol(t).system_mountpt # <<>>
  /\ Vol(t).fstype \in {"volatile", "fs_based"}

\* OS_FileSysMountVolume_Impl may also fail.
MountApply(t) ==
  /\ Goto(t, "mount", "run")
  /\ \/ /\ Mountable(t)
        /\ filesys' = [filesys EXCEPT ![Slot(t)].flags = @ \cup MOUNTED,
                                      ![Slot(t)].virtual_mountpt = call[t].mountpoint]
     \/ UNCHANGED filesys
  /\ Unlock(t) /\ Return(t)
  /\ UNCHANGED <<obj, last_id, name_entry, LocalPath>>

Unmount(t) ==
  \E p \in Paths : SearchGlobal(t, FindVirtMountPoint(p), "unmount", [NoCall EXCEPT !.path = p])

\* OS_FileSysUnmountVolume_Impl always succeeds.
UnmountApply(t) ==
  /\ Goto(t, "unmount", "run")
  /\ filesys' = IF Vol(t).flags \ {"fixed"} = {"ready"} \cup MOUNTED
                THEN [filesys EXCEPT ![Slot(t)].flags = @ \ MOUNTED]
                ELSE filesys
  /\ Unlock(t) /\ Return(t)
  /\ UNCHANGED <<obj, last_id, name_entry, LocalPath>>

-----------------------------------------------------------------------------
(* OS_TranslatePath.                                                       *)

\* It starts with "/" and does not lead out of the volume.
PathValid(p) ==
  p # <<>> /\ p[1] = "/" /\ \A k \in 1 .. Len(p) - 1 : ~(p[k] = "." /\ p[k + 1] = ".")

TranslatePath(t) ==
  \E p \in Paths :
    /\ PathValid(p)
    /\ SearchGlobal(t, FindVirtMountPoint(p), "copy", [NoCall EXCEPT !.path = p])

\* The directory of the volume is copied with the table locked.
CopySystem(t) ==
  /\ Goto(t, "copy", "append")
  /\ "mounted_system" \in Vol(t).flags
  /\ LocalPath' = [LocalPath EXCEPT ![t] = Vol(t).system_mountpt]
  /\ call' = [call EXCEPT ![t].begin = Len(Vol(t).virtual_mountpt)]
  /\ Unlock(t) /\ UNCHANGED table

\* What is below the mount point is appended afterwards, if there is room.
AppendRest(t) ==
  LET rest == SubSeq(call[t].path, call[t].begin + 1, Len(call[t].path)) IN
  /\ Goto(t, "append", "translated")
  /\ LocalPath' = [LocalPath EXCEPT ![t] =
                     IF Len(@) + Len(rest) < MaxLocalLen THEN @ \o rest ELSE <<>>]
  /\ UNCHANGED <<table, lock, call>>

\* The caller has used the result.
Translated(t) ==
  /\ Goto(t, "translated", "run")
  /\ LocalPath' = [LocalPath EXCEPT ![t] = <<>>] /\ Return(t)
  /\ UNCHANGED <<table, lock>>

-----------------------------------------------------------------------------
(* OS_FileSysStatVolume, OS_FS_GetPhysDriveName; OS_chkfs; OS_rmfs.        *)

Stat(t) ==
  \E p \in Paths : SearchGlobal(t, FindVirtMountPoint(p), "stat", [NoCall EXCEPT !.path = p])

StatEnd(t) ==
  /\ Goto(t, "stat", "run")
  /\ Unlock(t) /\ Return(t)
  /\ UNCHANGED <<table, LocalPath>>

\* OS_LOCK_MODE_REFCOUNT: the table is not locked during the check.
Check(t) ==
  \E p \in Paths :
    LET found == FindVirtMountPoint(p) IN
    /\ Goto(t, "run", "check") /\ lock = NOBODY /\ found # {}
    /\ Enter(obj[Min(found)].id)
    /\ call' = [call EXCEPT ![t].slot = Min(found)]
    /\ UNCHANGED <<last_id, name_entry, filesys, lock, LocalPath>>

CheckEnd(t) ==
  /\ Goto(t, "check", "run") /\ lock = NOBODY
  /\ Leave(Slot(t)) /\ Return(t)
  /\ UNCHANGED <<last_id, name_entry, filesys, lock, LocalPath>>

\* OS_LOCK_MODE_EXCLUSIVE, which may have to wait for the end of a check.
Rmfs(t) ==
  \E n \in Names :
    LET found == Named(n) IN
    /\ pc[t] = "run" /\ lock = NOBODY /\ found # {}
    /\ Reserve(obj[Min(found)].id)
    /\ pc' = [pc EXCEPT ![t] = IF obj[Min(found)].users = 0 THEN "stop" ELSE "wait"]
    /\ call' = [call EXCEPT ![t].slot = Min(found)]
    /\ UNCHANGED <<last_id, name_entry, filesys, lock, LocalPath>>

RmfsGranted(t) ==
  /\ Goto(t, "wait", "stop") /\ lock = NOBODY
  /\ Granted(Slot(t))
  /\ UNCHANGED <<last_id, name_entry, filesys, lock, call, LocalPath>>

\* After five rounds; this is again an error with the table locked.
RmfsGivesUp(t) ==
  /\ Goto(t, "wait", "run") /\ lock = NOBODY
  /\ GiveUp(Slot(t)) /\ lock' = t /\ Return(t)
  /\ UNCHANGED <<last_id, name_entry, filesys, LocalPath>>

\* OS_FileSysStopVolume_Impl does nothing; OS_ObjectIdFinalizeDelete.  The
\* record keeps its contents, mounted or not.
RmfsEnd(t) ==
  /\ Goto(t, "stop", "run") /\ lock = NOBODY
  /\ Deleted(Slot(t)) /\ Return(t)
  /\ UNCHANGED <<last_id, name_entry, filesys, lock, LocalPath>>

-----------------------------------------------------------------------------
Step(t) ==
  \/ InitRecord(t) \/ StartVolume(t) \/ StartVolumeFails(t)
  \/ MapMounted(t) \/ MapFails(t) \/ FinalizeNew(t)
  \/ MountApply(t) \/ UnmountApply(t) \/ CopySystem(t) \/ AppendRest(t) \/ Translated(t)
  \/ StatEnd(t) \/ CheckEnd(t) \/ RmfsGranted(t) \/ RmfsGivesUp(t) \/ RmfsEnd(t)

Next ==
  \E t \in Tasks :
    \/ Initialize(t) \/ AddFixedMap(t) \/ Mount(t) \/ Unmount(t) \/ TranslatePath(t)
    \/ Stat(t) \/ Check(t) \/ Rmfs(t) \/ SearchFails(t) \/ Step(t)

Spec == Init /\ [][Next]_vars

\* Tasks that are in a call go on: the host's calls return, and the host does
\* not pass by for ever a task that waits for the lock.
FairSpec == Spec /\ \A t \in Tasks : SF_vars(Step(t))

-----------------------------------------------------------------------------
\* The volume is mounted on both sides, at a directory above p, or at p.
MountedAt(s, p) ==
  LET mp == filesys[s].virtual_mountpt IN
  /\ MOUNTED \subseteq filesys[s].flags
  /\ \E k \in 1 .. Len(p) : mp = SubSeq(p, 1, k) /\ (k = Len(p) \/ p[k + 1] = "/")

(* What OS_TranslatePath, OS_FS_GetPhysDriveName, OS_FileSysStatVolume and *)
(* OS_unmount found is still a volume mounted above their path when they   *)
(* use its record: nobody unmounts, removes or replaces it in between, and *)
(* "/ab" is not found below "/a".                                          *)
FoundIsMounted ==
  \A t \in Tasks : pc[t] \in {"unmount", "copy", "stat"} =>
    obj[Slot(t)].st = "valid" /\ MountedAt(Slot(t), call[t].path)

(* A disk that was made is not mounted, whatever was mounted in its slot   *)
(* before: OS_rmfs removes volumes that are mounted (the comment there).   *)
NewDiskUnmounted ==
  [][\A s \in Slots : obj[s].st = "new" /\ obj'[s].st = "valid"
       /\ "fixed" \notin filesys'[s].flags => filesys'[s].flags \cap MOUNTED = {}]_vars

(* OS_TranslatePath gives the directory of a volume and, after it, the     *)
(* part of the path below a mount point, nothing or from a "/" on; it fits *)
(* the buffer although it is put together after the lock is released.      *)
TranslationExact ==
  \A t \in Tasks : pc[t] = "translated" /\ LocalPath[t] # <<>> =>
    /\ Len(LocalPath[t]) < MaxLocalLen
    /\ \E k \in 0 .. Len(call[t].path), dir \in Directories :
         LET rest == SubSeq(call[t].path, k + 1, Len(call[t].path)) IN
         /\ SubSeq(call[t].path, 1, k) \in MountPoints \cup {m.virt : m \in Maps}
         /\ rest = <<>> \/ rest[1] = "/"
         /\ LocalPath[t] = dir \o rest

\* A search has failed with the table locked: nobody can use it any more.
TableLost == lock # NOBODY /\ pc[lock] = "run"

(* A slot that is reserved, by a volume that is made, waited for or        *)
(* removed, is free or holds a volume again, also when the host refuses;   *)
(* unless a search has lost the table before that.                         *)
ReservationEnds ==
  \A s \in Slots :
    obj[s].st \notin {"free", "valid"} ~> obj[s].st \in {"free", "valid"} \/ TableLost
=============================================================================
