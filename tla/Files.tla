------------------------------- MODULE Files -------------------------------
(***************************************************************************)
(* A user's vault of uploads and generated outputs (services/files.py),    *)
(* and the hygiene job that prunes it (services/scheduler.py).  A file is  *)
(* bytes in a directory and a record in the registry beside it,            *)
(* uploads.json or outputs.json; the two are written one after the other,  *)
(* without a lock that spans both.  The job drops old outputs, old         *)
(* uploads that no chat cites, and old bytes that no record names.         *)
(***************************************************************************)
EXTENDS Integers, FiniteSets, FiniteSetsExt

CONSTANTS
  Uploads,      \* ids of uploads that are ever stored
  Outputs,      \* ids of generated files
  Size,         \* the bytes of each file
  MaxFiles,     \* MAX_UPLOADS_PER_USER, the same number for both registries
  MaxBytes,     \* MAX_USER_BYTES
  MaxFaults     \* bound on crashes, failed calls and unreadable files

Stored == Uploads \cup Outputs

ASSUME StoredAssumption == Uploads \cap Outputs = {} /\ Size \in [Stored -> Nat \ {0}]
ASSUME CapsAssumption == MaxFiles \in Nat /\ MaxBytes \in Nat /\ MaxFaults \in Nat

VARIABLES
  reg,       \* the ids with a record
  torn,      \* uploads.json cannot be parsed
  doomed,    \* a reader that found it so is about to put the file aside
  disk,      \* the ids with their bytes in place
  tmp,       \* the ids with a temporary file beside them
  old,       \* files older than their retention
  cited,     \* uploads some stored chat cites
  save,      \* where the call that stores each file is
  doing,     \* deletions whose bytes are gone and whose record is not
  sweep,     \* the hygiene job
  filesFaults,
  excused    \* ghost: files lost for a reason the code cannot see

filesVars == <<reg, torn, doomed, disk, tmp, old, cited, save, doing, sweep, filesFaults, excused>>

\* The job's phase, what is left of it, the references it read, whether it read
\* them from a history it could not open, and (ghost) what was cited since.
Asleep == [at |-> "idle", todo |-> {}, refs |-> {}, blind |-> FALSE, late |-> {}]

\* The files that share a registry and its caps with f.
Beside(f) == IF f \in Uploads THEN Uploads ELSE Outputs
Bytes(S) == MapThenSumSet(LAMBDA f : Size[f], S)
Fits(f, S) == Cardinality(S) < MaxFiles /\ Bytes(S) + Size[f] <= MaxBytes

\* What a reader of a registry sees: an unparseable file counts as empty.
Known(S) == IF torn /\ S = Uploads THEN {} ELSE reg \cap S
MarkDoomed(S) == doomed' = (doomed \/ (torn /\ S = Uploads))

\* _update_registry: a corrupt registry is put aside and replaced under the lock.
Rewrite(S, new) ==
  /\ reg' = (reg \ S) \cup new
  /\ torn' = (torn /\ S # Uploads)

FilesInit ==
  /\ reg = {} /\ torn = FALSE /\ doomed = FALSE
  /\ disk = {} /\ tmp = {} /\ old = {} /\ cited = {}
  /\ save = [f \in Stored |-> "new"] /\ doing = {}
  /\ sweep = Asleep /\ filesFaults = 0 /\ excused = {}

Fault == filesFaults < MaxFaults /\ filesFaults' = filesFaults + 1

----------------------------------------------------------------------------
(* Storing: save_upload and register_output.                               *)

\* The caps are looked at without the lock, so that a full vault costs no disk.
\* Where the registry cannot be read an upload goes on, a generated file does not.
PreCheck(f) ==
  /\ save[f] = "new"
  /\ \/ /\ save' = [save EXCEPT ![f] = IF Fits(f, Known(Beside(f))) THEN "checked" ELSE "refused"]
        /\ MarkDoomed(Beside(f)) /\ UNCHANGED filesFaults
     \/ /\ Fault /\ UNCHANGED doomed
        /\ save' = [save EXCEPT ![f] = IF f \in Uploads THEN "checked" ELSE "refused"]
  /\ UNCHANGED <<reg, torn, disk, tmp, old, cited, doing, sweep, excused>>

\* _atomic_write_bytes: a temporary file, then a rename; a failure removes it.
WriteTmp(f) ==
  /\ save[f] = "checked"
  /\ save' = [save EXCEPT ![f] = "writing"] /\ tmp' = tmp \cup {f}
  /\ UNCHANGED <<reg, torn, doomed, disk, old, cited, doing, sweep, filesFaults, excused>>

Place(f) ==
  /\ save[f] = "writing"
  /\ save' = [save EXCEPT ![f] = "placed"] /\ tmp' = tmp \ {f} /\ disk' = disk \cup {f}
  /\ UNCHANGED <<reg, torn, doomed, old, cited, doing, sweep, filesFaults, excused>>

UploadWriteFails(f) ==
  /\ save[f] \in {"checked", "writing"} /\ Fault
  /\ save' = [save EXCEPT ![f] = "refused"] /\ tmp' = tmp \ {f}
  /\ UNCHANGED <<reg, torn, doomed, disk, old, cited, doing, sweep, excused>>

\* The second look, and the record, in one hold of the registry's lock.
Register(f) ==
  /\ save[f] = "placed" /\ Fits(f, Known(Beside(f)))
  /\ Rewrite(Beside(f), Known(Beside(f)) \cup {f})
  /\ save' = [save EXCEPT ![f] = "kept"]
  /\ UNCHANGED <<doomed, disk, tmp, old, cited, doing, sweep, filesFaults, excused>>

\* The caps filled meanwhile, or the registry cannot be written: the bytes go, if
\* they can be unlinked.
RegisterFails(f) ==
  /\ save[f] = "placed"
  /\ \/ ~Fits(f, Known(Beside(f))) /\ disk' = disk \ {f} /\ UNCHANGED filesFaults
     \/ Fault /\ disk' \in {disk, disk \ {f}}
  /\ save' = [save EXCEPT ![f] = "refused"]
  /\ UNCHANGED <<reg, torn, doomed, tmp, old, cited, doing, sweep, excused>>

----------------------------------------------------------------------------
(* Deleting: delete_upload and delete_output.  The bytes go first, then the  *)
(* record; the second step may fail or never come.                          *)

DeleteBytes(f) ==
  /\ save[f] = "kept" /\ f \in Known(Beside(f)) /\ f \notin doing
  /\ disk' = disk \ {f} /\ doing' = doing \cup {f}
  /\ excused' = excused \cup {f}
  /\ UNCHANGED <<reg, torn, doomed, tmp, old, cited, save, sweep, filesFaults>>

DeleteRecord(f) ==
  /\ f \in doing
  /\ doing' = doing \ {f}
  /\ \/ /\ Rewrite(Beside(f), Known(Beside(f)) \ {f})
        /\ save' = [save EXCEPT ![f] = "gone"] /\ UNCHANGED filesFaults
     \/ Fault /\ UNCHANGED <<reg, torn, save>>
  /\ UNCHANGED <<doomed, disk, tmp, old, cited, sweep, excused>>

----------------------------------------------------------------------------
(* The hygiene job of one user: _run_all_users_hygiene.                     *)

\* prune_stale_outputs lists the outputs that are past their retention.
SweepStarts ==
  /\ sweep.at = "idle"
  /\ sweep' = [Asleep EXCEPT !.at = "outputs", !.todo = Known(Outputs) \cap old]
  /\ UNCHANGED <<reg, torn, doomed, disk, tmp, old, cited, save, doing, filesFaults, excused>>

PruneOutput(f) ==
  /\ sweep.at = "outputs" /\ f \in sweep.todo
  /\ sweep' = [sweep EXCEPT !.todo = @ \ {f}]
  /\ \/ /\ f \in Known(Outputs)
        /\ disk' = disk \ {f} /\ Rewrite(Outputs, Known(Outputs) \ {f})
        /\ save' = [save EXCEPT ![f] = "gone"] /\ UNCHANGED filesFaults
     \/ f \notin Known(Outputs) /\ UNCHANGED <<disk, reg, torn, save, filesFaults>>
     \/ Fault /\ disk' \in {disk, disk \ {f}} /\ UNCHANGED <<reg, torn, save>>
  /\ UNCHANGED <<doomed, tmp, old, cited, doing, excused>>

\* _referenced_upload_ids.  A chat history that cannot be read loads as empty:
\* load_chats keeps the failure to itself, so the None that would stop the prune
\* never comes, and the job believes that nothing is cited.
\* Seeded fault: the references are not passed to the prune.
FaultyReadReferences ==
  /\ sweep.at = "outputs" /\ sweep.todo = {}
  /\ sweep' = [sweep EXCEPT !.at = "listing"]
  /\ UNCHANGED <<reg, torn, doomed, disk, tmp, old, cited, save, doing, filesFaults, excused>>
ReadReferences ==
  /\ sweep.at = "outputs" /\ sweep.todo = {}
  /\ \/ /\ sweep' = [sweep EXCEPT !.at = "listing", !.refs = cited]
        /\ UNCHANGED filesFaults
     \/ Fault /\ sweep' = [sweep EXCEPT !.at = "listing", !.blind = TRUE]
  /\ UNCHANGED <<reg, torn, doomed, disk, tmp, old, cited, save, doing, excused>>

\* prune_stale_uploads lists the uploads that are old and not among the references.
ListStale ==
  /\ sweep.at = "listing"
  /\ sweep' = [sweep EXCEPT !.at = "uploads", !.todo = (Known(Uploads) \cap old) \ sweep.refs]
  /\ MarkDoomed(Uploads)
  /\ UNCHANGED <<reg, torn, disk, tmp, old, cited, save, doing, filesFaults, excused>>

\* The bytes go, then the record; one that cannot be unlinked, or a registry that
\* cannot be written, is left for the next pass.
PruneUpload(u) ==
  /\ sweep.at = "uploads" /\ u \in sweep.todo
  /\ sweep' = [sweep EXCEPT !.todo = @ \ {u}]
  /\ \/ /\ disk' = disk \ {u} /\ Rewrite(Uploads, Known(Uploads) \ {u})
        /\ save' = [save EXCEPT ![u] = "gone"] /\ UNCHANGED filesFaults
     \/ Fault /\ disk' \in {disk, disk \ {u}} /\ UNCHANGED <<reg, torn, save>>
  /\ excused' = IF sweep.blind \/ u \in sweep.late THEN excused \cup {u} ELSE excused
  /\ UNCHANGED <<doomed, tmp, old, cited, doing>>

\* prune_orphan_files takes one directory after the other; a file without a
\* record goes once it is old, a temporary file too.
OrphanPhase(S) == IF S = Uploads THEN "orphan_uploads" ELSE "orphan_outputs"
Before(S) == IF S = Uploads THEN "uploads" ELSE "orphan_uploads"

\* Seeded fault: temporary files are never taken for orphans.
FaultyListOrphans(S) ==
  /\ sweep.at = Before(S) /\ sweep.todo = {}
  /\ sweep' = [sweep EXCEPT !.at = OrphanPhase(S),
                            !.todo = (disk \cap S \cap old) \ Known(S)]
  /\ MarkDoomed(S)
  /\ UNCHANGED <<reg, torn, disk, tmp, old, cited, save, doing, filesFaults, excused>>
ListOrphans(S) ==
  /\ sweep.at = Before(S) /\ sweep.todo = {}
  /\ sweep' = [sweep EXCEPT !.at = OrphanPhase(S),
                            !.todo = ((disk \cup tmp) \cap S \cap old) \ Known(S)]
  /\ MarkDoomed(S)
  /\ UNCHANGED <<reg, torn, disk, tmp, old, cited, save, doing, filesFaults, excused>>

PruneOrphan(f) ==
  /\ sweep.at = OrphanPhase(Beside(f)) /\ f \in sweep.todo
  /\ sweep' = [sweep EXCEPT !.todo = @ \ {f}]
  /\ \/ disk' = disk \ {f} /\ tmp' = tmp \ {f} /\ UNCHANGED filesFaults
     \/ Fault /\ UNCHANGED <<disk, tmp>>
  /\ UNCHANGED <<reg, torn, doomed, old, cited, save, doing, excused>>

SweepEnds ==
  /\ sweep.at = "orphan_outputs" /\ sweep.todo = {}
  /\ sweep' = Asleep
  /\ UNCHANGED <<reg, torn, doomed, disk, tmp, old, cited, save, doing, filesFaults, excused>>

\* A registry that cannot be read ends the pass of this user.
SweepFails ==
  /\ sweep.at \notin {"idle", "outputs"} /\ Fault
  /\ sweep' = Asleep
  /\ UNCHANGED <<reg, torn, doomed, disk, tmp, old, cited, save, doing, excused>>

----------------------------------------------------------------------------
(* What happens around the vault.                                          *)

InFlight(f) == save[f] \in {"checked", "writing", "placed"}

\* A stored message cites an upload that resolves (resolve_upload).
Cite(u) ==
  /\ u \in (Known(Uploads) \cap disk) \ cited
  /\ cited' = cited \cup {u}
  /\ sweep' = IF sweep.at \in {"listing", "uploads"}
              THEN [sweep EXCEPT !.late = @ \cup {u}] ELSE sweep
  /\ UNCHANGED <<reg, torn, doomed, disk, tmp, old, save, doing, filesFaults, excused>>

\* Retention is days, a call is seconds: a file ages once its call is over.
Age(f) ==
  /\ f \in (disk \cup tmp) \ old /\ ~InFlight(f)
  /\ old' = old \cup {f}
  /\ UNCHANGED <<reg, torn, doomed, disk, tmp, cited, save, doing, sweep, filesFaults, excused>>

\* The process dies: calls stop where they are, bytes and temporary files stay.
Die ==
  /\ Fault
  /\ save' = [f \in Stored |-> IF InFlight(f) THEN "refused" ELSE save[f]]
  /\ doing' = {} /\ sweep' = Asleep /\ doomed' = FALSE
  /\ UNCHANGED <<reg, torn, disk, tmp, old, cited, excused>>

\* The disk spoils uploads.json.
Spoil ==
  /\ Fault /\ ~torn /\ reg \cap Uploads # {}
  /\ torn' = TRUE /\ excused' = excused \cup (reg \cap Uploads)
  /\ UNCHANGED <<reg, doomed, disk, tmp, old, cited, save, doing, sweep>>

\* A reader puts aside the file it could not parse: whatever has that name by
\* now, for it let go of the lock in between.
PutAside ==
  /\ doomed
  /\ doomed' = FALSE /\ torn' = FALSE /\ reg' = reg \ Uploads
  /\ excused' = excused \cup (reg \cap Uploads)
  /\ UNCHANGED <<disk, tmp, old, cited, save, doing, sweep, filesFaults>>

FilesNext ==
  \/ \E f \in Stored :
       \/ PreCheck(f) \/ WriteTmp(f) \/ Place(f) \/ UploadWriteFails(f)
       \/ Register(f) \/ RegisterFails(f) \/ DeleteBytes(f) \/ DeleteRecord(f)
       \/ PruneOrphan(f) \/ Age(f)
  \/ \E f \in Outputs : PruneOutput(f)
  \/ \E u \in Uploads : PruneUpload(u) \/ Cite(u)
  \/ SweepStarts \/ ReadReferences \/ ListStale \/ SweepEnds \/ SweepFails
  \/ \E S \in {Uploads, Outputs} : ListOrphans(S)
  \/ Die \/ Spoil \/ PutAside

\* The scheduler starts the job at every interval and nothing in it waits; time
\* passes; a reader that found a corrupt file does not stop there.
SweepStep ==
  \/ \E f \in Stored : PruneOrphan(f)
  \/ \E f \in Outputs : PruneOutput(f)
  \/ \E u \in Uploads : PruneUpload(u)
  \/ SweepStarts \/ ReadReferences \/ ListStale \/ SweepEnds
  \/ \E S \in {Uploads, Outputs} : ListOrphans(S)
FilesFairness ==
  /\ WF_filesVars(SweepStep)
  /\ WF_filesVars(PutAside)
  /\ \A f \in Stored : WF_filesVars(Age(f))

FilesSpec == FilesInit /\ [][FilesNext]_filesVars /\ FilesFairness

----------------------------------------------------------------------------
(* Properties.                                                             *)

\* An upload that a chat cites keeps its record and its bytes through every pass
\* of the hygiene job, unless its owner deleted it, the job could not read the
\* chats or read them before the citation, or the registry was spoiled.
CitedSurvivesUnlessExcused == cited \ excused \subseteq reg \cap disk

\* Bytes that no record names, left by a crash, a failed write or a registry that
\* was put aside, do not stay for ever.
Leftover(f) == f \in (disk \cup tmp) \ reg /\ ~InFlight(f)
LeftoversGo == \A f \in Stored : []<>~Leftover(f)
=============================================================================
