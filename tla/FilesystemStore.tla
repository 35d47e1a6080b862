-------------------------- MODULE FilesystemStore --------------------------
(***************************************************************************)
(* The directory behind a content-addressed store                          *)
(* (rex/src/storage/filesystem.rs).  A file's name is the hash of what it   *)
(* should hold; hashes do not collide, so the model names a file by the     *)
(* object itself.  Any number of writers, in one process or in several, put *)
(* objects at the same time, and the power may fail between any two system  *)
(* calls.                                                                   *)
(***************************************************************************)
EXTENDS Naturals, Sequences

CONSTANTS Writers,        \* the tasks that may be inside `put`
          Objects,        \* the byte strings they store
          MaxPowerLosses  \* bound on power failures

ASSUME PowerAssumption == MaxPowerLosses \in Nat

VARIABLES
  disk,    \* the named files, oldest rename first: [name, data]
  puts,    \* per writer: the object being put and how far the put is
  losses   \* power failures so far

fsVars == <<disk, puts, losses>>

NoPut == [stage |-> "none"]

Stages == {"written", "synced", "stored", "failed"}

\* What a named file holds: all of its object, safely or only in the cache of
\* the operating system, or a part of it.
DataStates == {"synced", "cached", "torn"}

Named == {disk[i].name : i \in DOMAIN disk}

\* What `get` can read: the file is there and hashes to its name.
Readable == {disk[i].name : i \in {k \in DOMAIN disk : disk[k].data # "torn"}}

PutType == {NoPut} \cup [stage : Stages, object : Objects]

FsTypeOK ==
  /\ disk \in Seq([name : Objects, data : DataStates])
  /\ puts \in [Writers -> PutType]
  /\ losses \in 0..MaxPowerLosses

FsInit ==
  /\ disk = <<>>
  /\ puts = [w \in Writers |-> NoPut]
  /\ losses = 0

-----------------------------------------------------------------------------
(* put: a temporary file is written, synced and renamed to its name unless   *)
(* the name is taken.                                                        *)

BeginPut(w, o) ==
  /\ puts[w] = NoPut
  /\ puts' = [puts EXCEPT ![w] = [stage |-> "written", object |-> o]]
  /\ UNCHANGED <<disk, losses>>

SyncPut(w) ==
  /\ puts[w].stage = "written"
  /\ puts' = [puts EXCEPT ![w] = [stage |-> "synced", object |-> puts[w].object]]
  /\ UNCHANGED <<disk, losses>>

\* persist_noclobber; AlreadyExists is success.
PersistEarly(w) ==
  /\ puts[w].stage = "written"
  /\ disk' = IF puts[w].object \in Named THEN disk
             ELSE Append(disk, [name |-> puts[w].object, data |-> "cached"])
  /\ puts' = [puts EXCEPT ![w] = [stage |-> "stored", object |-> puts[w].object]]
  /\ UNCHANGED losses

PersistPut(w) ==
  /\ puts[w].stage = "synced"
  /\ disk' = IF puts[w].object \in Named THEN disk
             ELSE Append(disk, [name |-> puts[w].object, data |-> "synced"])
  /\ puts' = [puts EXCEPT ![w] = [stage |-> "stored", object |-> puts[w].object]]
  /\ UNCHANGED losses

\* Creating, writing, syncing or renaming the temporary file fails; its guard
\* deletes it.
FailPut(w) ==
  /\ puts[w].stage \in {"written", "synced"}
  /\ puts' = [puts EXCEPT ![w] = [stage |-> "failed", object |-> puts[w].object]]
  /\ UNCHANGED <<disk, losses>>

\* The caller takes the answer of a put, or drops the future.
LeavePut(w) ==
  /\ puts[w] # NoPut
  /\ puts' = [puts EXCEPT ![w] = NoPut]
  /\ UNCHANGED <<disk, losses>>

\* Renames reach the disk in order, and some of the last ones may not have; of
\* a file that was not synced, any part may be missing.  All writers are gone.
PowerLoss ==
  /\ losses < MaxPowerLosses
  /\ losses' = losses + 1
  /\ puts' = [w \in Writers |-> NoPut]
  /\ \E n \in 0..Len(disk) :
       disk' = [i \in 1..n |->
                  [name |-> disk[i].name,
                   data |-> IF disk[i].data = "cached" THEN "torn"
                            ELSE disk[i].data]]

FsNext ==
  \/ \E w \in Writers :
       \/ \E o \in Objects : BeginPut(w, o)
       \/ SyncPut(w) \/ PersistPut(w) \/ FailPut(w) \/ LeavePut(w)
  \/ PowerLoss

FsSpec == FsInit /\ [][FsNext]_fsVars

-----------------------------------------------------------------------------
\* A name is only ever given to a complete file.  It matters because nothing
\* repairs a torn one: every later put of the object finds the name taken and
\* answers that the object is stored.
NeverTorn == \A i \in DOMAIN disk : disk[i].data = "synced"

\* One file for each name, however many writers put the object at once.
NamesUnique ==
  \A i, k \in DOMAIN disk : disk[i].name = disk[k].name => i = k
=============================================================================
