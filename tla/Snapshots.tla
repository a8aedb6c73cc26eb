----------------------------- MODULE Snapshots -----------------------------
(***************************************************************************)
(* The mirror of the data directory in object storage (services/           *)
(* snapshots.py).  A host of the free tier may lose its disk at every      *)
(* restart: each write marks the data dirty, a daemon thread (and a flush  *)
(* at shutdown) uploads the whole directory as one object, and a boot      *)
(* that finds the disk empty or half wiped restores it from there, file    *)
(* by file.                                                                *)
(*                                                                         *)
(* A file's content is the number of the write that produced it, 0 when    *)
(* the file does not exist; a fingerprint is the content of the whole      *)
(* directory.                                                              *)
(***************************************************************************)
EXTENDS Integers, FiniteSets

CONSTANTS
  Accounts,    \* accounts.json
  UserFile,    \* the files under users/
  Rank,        \* the order of the paths in an archive
  Uploader,    \* threads that call _upload_now: the worker and a flush
  Worker,      \* the daemon thread among them
  Private,     \* PLUTO_AUTH_MODE is "private"
  MaxWrites,   \* bound on the writes
  MaxFaults    \* bound on crashes, failed transfers and full disks

File == {Accounts} \cup UserFile

ASSUME UploaderAssumption == Worker \in Uploader
ASSUME FileAssumption == Accounts \notin UserFile
ASSUME RankAssumption == Rank \in [File -> Nat] /\ \A f, g \in File : f # g => Rank[f] # Rank[g]
ASSUME BoundsAssumption == Private \in BOOLEAN /\ MaxWrites \in Nat /\ MaxFaults \in Nat

VARIABLES
  disk,      \* the data directory
  remote,    \* the object in storage, or Absent
  proc,      \* the server process: "down", "restoring" or "up"
  todo,      \* the members of the archive still to extract
  dirty,     \* _dirty
  unnotified,\* files written whose writer has not called notify() yet
  lastFp,    \* _last_fingerprint, or Unknown
  up,        \* each uploader: where it is, its scan and its archive
  writes, faults,
  slipped,   \* ghost: the dirty mark was lost with a change still unsaved
  botched,   \* ghost: a restore did not bring back everything
  overlapped \* ghost: an upload began while another one was under way

procVars == <<dirty, unnotified, lastFp, up>>
snapshotVars == <<disk, remote, proc, todo, dirty, unnotified, lastFp, up, writes, faults,
                  slipped, botched, overlapped>>

Empty == [f \in File |-> 0]
\* An empty directory is never uploaded, nor fingerprinted for an upload: it
\* stands for a bucket without the object, and for a fingerprint of None.
Absent == Empty
Unknown == Empty
Resting == [at |-> "idle", fp |-> Empty, archive |-> Empty]

Contents == [File -> 0..MaxWrites]

\* _local_data_present, _local_data_partial
Present(d) == d # Empty
Partial(d) ==
  IF d[Accounts] = 0
  THEN Private /\ \E f \in UserFile : d[f] # 0
  ELSE \A f \in UserFile : d[f] = 0
Fit(d) == Present(d) /\ ~Partial(d)

SnapshotsInit ==
  /\ disk = Empty /\ remote = Absent
  /\ proc = "up" /\ todo = {}
  /\ dirty = FALSE /\ unnotified = {} /\ lastFp = Unknown
  /\ up = [u \in Uploader |-> Resting]
  /\ writes = 0 /\ faults = 0
  /\ slipped = FALSE /\ botched = FALSE /\ overlapped = FALSE

----------------------------------------------------------------------------
(* Writers *)

\* An atomic replace of a file, and the notify() that follows it.
Write(f) ==
  /\ proc = "up" /\ writes < MaxWrites
  /\ writes' = writes + 1
  /\ disk' = [disk EXCEPT ![f] = writes + 1]
  /\ unnotified' = unnotified \cup {f}
  /\ UNCHANGED <<remote, proc, todo, dirty, lastFp, up, faults, slipped, botched, overlapped>>

Notify(f) ==
  /\ f \in unnotified
  /\ unnotified' = unnotified \ {f}
  /\ dirty' = TRUE
  /\ UNCHANGED <<disk, remote, proc, todo, lastFp, up, writes, faults, slipped, botched, overlapped>>

----------------------------------------------------------------------------
(* _upload_now, on the worker or in a flush *)

Moves(u, where) == up' = [up EXCEPT ![u].at = where]
Rests(u) == up' = [up EXCEPT ![u] = Resting]
unmoved == <<disk, proc, todo, unnotified, writes>>

\* The dirty mark is dropped when the writes that were notified are in d; the
\* ghost records whether one of them is not.
Misses(d) == \E f \in File \ unnotified : disk[f] # d[f]

\* The worker wakes up, or the shutdown flushes, with the mark set.
Start(u) ==
  /\ proc = "up" /\ up[u].at = "idle" /\ dirty
  /\ IF Fit(disk) THEN up' = [up EXCEPT ![u] = [Resting EXCEPT !.at = "scanned", !.fp = disk]]
                  ELSE Moves(u, "unfit")
  /\ overlapped' = (overlapped \/ \E v \in Uploader : up[v].at # "idle")
  /\ UNCHANGED <<unmoved, remote, dirty, lastFp, faults, slipped, botched>>

\* An empty or half-wiped disk is not uploaded, and is dirty no more.
SkipUnfit(u) ==
  /\ up[u].at = "unfit"
  /\ dirty' = FALSE
  /\ slipped' = (slipped \/ Fit(disk))
  /\ Rests(u)
  /\ UNCHANGED <<unmoved, remote, lastFp, faults, botched, overlapped>>

SkipUnchanged(u) ==
  /\ up[u].at = "scanned" /\ up[u].fp = lastFp
  /\ dirty' = FALSE
  /\ slipped' = (slipped \/ Misses(lastFp))
  /\ Rests(u)
  /\ UNCHANGED <<unmoved, remote, lastFp, faults, botched, overlapped>>

\* The scanned files are archived with the content they have by now.
Build(u) ==
  /\ up[u].at = "scanned" /\ up[u].fp # lastFp
  /\ up' = [up EXCEPT ![u].at = "built",
                      ![u].archive = [f \in File |-> IF up[u].fp[f] = 0 THEN 0 ELSE disk[f]]]
  /\ UNCHANGED <<unmoved, remote, dirty, lastFp, faults, slipped, botched, overlapped>>

Put(u) ==
  /\ up[u].at = "built"
  /\ remote' = up[u].archive
  /\ Moves(u, "put")
  /\ UNCHANGED <<unmoved, dirty, lastFp, faults, slipped, botched, overlapped>>

Commit(u) ==
  /\ up[u].at = "put"
  /\ dirty' = FALSE
  /\ slipped' = Misses(remote)
  /\ lastFp' = up[u].fp
  /\ Rests(u)
  /\ UNCHANGED <<unmoved, remote, faults, botched, overlapped>>

\* Seeded fault: the mark is dropped whether or not the upload succeeded.
FaultyUploadFails(u) ==
  /\ up[u].at \in {"scanned", "built"} /\ up[u].fp # lastFp
  /\ faults < MaxFaults /\ faults' = faults + 1
  /\ Rests(u)
  /\ dirty' = FALSE
  /\ UNCHANGED <<unmoved, remote, lastFp, slipped, botched, overlapped>>

\* No room for the archive, or the transfer failed: the mark stays.
UploadFails(u) ==
  /\ up[u].at \in {"scanned", "built"} /\ up[u].fp # lastFp
  /\ faults < MaxFaults /\ faults' = faults + 1
  /\ Rests(u)
  /\ UNCHANGED <<unmoved, remote, dirty, lastFp, slipped, botched, overlapped>>

----------------------------------------------------------------------------
(* Restarts *)

\* The process dies; the host keeps the disk, wipes it, or loses users/.
Crash ==
  /\ proc # "down" /\ faults < MaxFaults /\ faults' = faults + 1
  /\ \E keep \in {File, {Accounts}, {}} :
       disk' = [f \in File |-> IF f \in keep THEN disk[f] ELSE 0]
  /\ proc' = "down" /\ todo' = {}
  /\ dirty' = FALSE /\ unnotified' = {} /\ lastFp' = Unknown
  /\ up' = [u \in Uploader |-> Resting]
  /\ slipped' = (slipped \/ disk' # remote)
  /\ botched' = (botched \/ proc = "restoring")
  /\ UNCHANGED <<remote, writes, overlapped>>

\* Seeded fault: any local data wins, half wiped or not.
FaultyBoot ==
  /\ proc = "down" /\ (Present(disk) \/ remote = Absent)
  /\ proc' = "up"
  /\ UNCHANGED <<disk, remote, todo, procVars, writes, faults, slipped, botched, overlapped>>

\* Full local data wins, and so does an empty bucket.
BootWithoutRestore ==
  /\ proc = "down" /\ (Fit(disk) \/ remote = Absent)
  /\ proc' = "up"
  /\ UNCHANGED <<disk, remote, todo, procVars, writes, faults, slipped, botched, overlapped>>

Download ==
  /\ proc = "down" /\ ~Fit(disk) /\ remote # Absent
  /\ proc' = "restoring" /\ todo' = {f \in File : remote[f] # 0}
  /\ UNCHANGED <<disk, remote, procVars, writes, faults, slipped, botched, overlapped>>

\* The members are written in place, in the order of their paths.
Extract ==
  /\ proc = "restoring" /\ todo # {}
  /\ \E f \in todo :
       /\ \A g \in todo : Rank[f] <= Rank[g]
       /\ disk' = [disk EXCEPT ![f] = remote[f]]
       /\ todo' = todo \ {f}
  /\ UNCHANGED <<remote, proc, procVars, writes, faults, slipped, botched, overlapped>>

Restored ==
  /\ proc = "restoring" /\ todo = {}
  /\ proc' = "up" /\ lastFp' = disk
  /\ slipped' = (disk # remote) /\ botched' = FALSE
  /\ UNCHANGED <<disk, remote, todo, dirty, unnotified, up, writes, faults, overlapped>>

\* The download or the extraction fails; the server starts all the same.
RestoreFails ==
  /\ \/ proc = "restoring"
     \/ proc = "down" /\ ~Fit(disk) /\ remote # Absent
  /\ faults < MaxFaults /\ faults' = faults + 1
  /\ proc' = "up" /\ todo' = {}
  /\ botched' = TRUE
  /\ UNCHANGED <<disk, remote, procVars, writes, slipped, overlapped>>

UploadStep(u) == \/ Start(u) \/ SkipUnfit(u) \/ SkipUnchanged(u) \/ Build(u) \/ Put(u)
                 \/ Commit(u)

SnapshotsNext ==
  \/ \E f \in File : Write(f) \/ Notify(f)
  \/ \E u \in Uploader : UploadStep(u) \/ UploadFails(u)
  \/ Crash \/ BootWithoutRestore \/ Download \/ Extract \/ Restored \/ RestoreFails

SnapshotsSpec == SnapshotsInit /\ [][SnapshotsNext]_snapshotVars

----------------------------------------------------------------------------
(* Properties *)

\* Every variable keeps its shape, and the process state of a dead process is
\* empty.
SnapshotsTypeOK ==
  /\ disk \in Contents
  /\ remote \in Contents
  /\ proc \in {"down", "restoring", "up"} /\ todo \in SUBSET File
  /\ dirty \in BOOLEAN /\ unnotified \in SUBSET File
  /\ lastFp \in Contents
  /\ up \in [Uploader -> [at : {"idle", "unfit", "scanned", "built", "put"},
                          fp : Contents, archive : Contents]]
  /\ writes \in 0..MaxWrites /\ faults \in 0..MaxFaults
  /\ slipped \in BOOLEAN /\ botched \in BOOLEAN /\ overlapped \in BOOLEAN
  /\ proc # "up" => up = [u \in Uploader |-> Resting] /\ ~dirty

Quiet == proc = "up" /\ ~dirty /\ unnotified = {} /\ \A u \in Uploader : up[u].at = "idle"

\* flush() has nothing to do when the data is not dirty: every notified write
\* is then in storage.
CleanMeansMirrored == Quiet /\ Fit(disk) => remote = disk

\* The same, unless the mark was dropped over a write that landed during the
\* upload, a restart forgot it, or two uploads overlapped.
CleanMeansMirroredUnlessSlipped ==
  Quiet /\ Fit(disk) /\ ~slipped /\ ~overlapped => remote = disk

\* The same promise over several restarts: a file that reached storage stays
\* there (this model deletes no file), when every restore since has brought back
\* everything and uploads did not overlap.
RemoteKeepsFilesUnlessBotched ==
  [][(\E f \in File : remote[f] # 0 /\ remote'[f] = 0) => botched \/ overlapped]_remote

\* When writes and faults end, the mirror catches up, unless the mark slipped
\* or the directory is one that is never uploaded.
EventuallyMirrored == <>[](slipped \/ overlapped \/ ~Fit(disk) \/ remote = disk)
=============================================================================
