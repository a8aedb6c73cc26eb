------------------------------- MODULE Vault -------------------------------
(***************************************************************************)
(* The lock around every read-modify-write of a user's JSON file           *)
(* (services/storage/io.py, path_lock; services/storage/store.py).         *)
(* Threads of one process share a lock object from a bounded table;        *)
(* processes share a directory beside the file, best effort: five seconds  *)
(* of waiting, and a directory of more than thirty seconds is taken for a  *)
(* dead process's.                                                         *)
(*                                                                         *)
(* The file holds the changes that were made to it.                        *)
(***************************************************************************)
EXTENDS Integers, FiniteSets

CONSTANTS
  Writers,     \* threads that each change the file once
  Home,        \* the process of each writer
  MaxMishaps   \* bound on evictions, long waits, deaths and failed writes

ASSUME HomeAssumption == Home \in [Writers -> Nat]
ASSUME MishapsAssumption == MaxMishaps \in Nat

VARIABLES
  content,   \* the changes in the file
  generation,\* how often each process's table dropped the file's lock object
  pc,        \* each writer: where it is, its lock object, its lock directory, what it read
  lockdir,   \* the lock directory: who made it, or Free
  mishaps,
  slipped    \* ghost: two writers may be inside at once

vaultVars == <<content, generation, pc, lockdir, mishaps, slipped>>

Free == "free"
Left == "left behind"   \* made by a process that died
ASSUME WritersAssumption == Free \notin Writers /\ Left \notin Writers
Processes == {Home[w] : w \in Writers}
Outside == [at |-> "new", lock |-> -1, made |-> FALSE, read |-> {}]

VaultInit ==
  /\ content = {} /\ generation = [p \in Processes |-> 0]
  /\ pc = [w \in Writers |-> Outside] /\ lockdir = Free
  /\ mishaps = 0 /\ slipped = FALSE

Mishap == mishaps < MaxMishaps /\ mishaps' = mishaps + 1

\* Inside the thread lock.
Holding(w) == pc[w].at \in {"held", "inside", "read", "written"}

\* The lock object is looked up in the table, then waited for.
LookUp(w) ==
  /\ pc[w].at = "new"
  /\ pc' = [pc EXCEPT ![w] = [Outside EXCEPT !.at = "waiting", !.lock = generation[Home[w]]]]
  /\ UNCHANGED <<content, generation, lockdir, mishaps, slipped>>

\* At its bound the table drops its oldest entry, whoever holds or awaits it.
Evict(p) ==
  /\ Mishap
  /\ generation' = [generation EXCEPT ![p] = @ + 1]
  /\ UNCHANGED <<content, pc, lockdir, slipped>>

Take(w) ==
  /\ pc[w].at = "waiting"
  /\ \A v \in Writers : Holding(v) => Home[v] # Home[w] \/ pc[v].lock # pc[w].lock
  /\ pc' = [pc EXCEPT ![w].at = "held"]
  /\ UNCHANGED <<content, generation, lockdir, mishaps, slipped>>

\* _acquire_interprocess.
\* Seeded fault: a directory that exists already is as good (exist_ok).
FaultyMakeDir(w) ==
  /\ pc[w].at = "held"
  /\ lockdir' = w /\ pc' = [pc EXCEPT ![w].at = "inside", ![w].made = TRUE]
  /\ UNCHANGED <<content, generation, mishaps, slipped>>
MakeDir(w) ==
  /\ pc[w].at = "held" /\ lockdir = Free
  /\ lockdir' = w /\ pc' = [pc EXCEPT ![w].at = "inside", ![w].made = TRUE]
  /\ UNCHANGED <<content, generation, mishaps, slipped>>

\* A directory older than thirty seconds goes: its maker died, or is slow.
BreakStale(w) ==
  /\ pc[w].at = "held" /\ lockdir # Free
  /\ IF lockdir = Left THEN UNCHANGED <<mishaps, slipped>> ELSE Mishap /\ slipped' = TRUE
  /\ lockdir' = Free
  /\ UNCHANGED <<content, generation, pc>>

\* After five seconds the writer goes on without it, and the next one may make it.
TimeOut(w) ==
  /\ pc[w].at = "held" /\ lockdir # Free /\ Mishap
  /\ pc' = [pc EXCEPT ![w].at = "inside"]
  /\ slipped' = TRUE
  /\ UNCHANGED <<content, generation, lockdir>>

\* _mutate_chats and its likes: the file is read, changed and replaced whole.
ReadFile(w) ==
  /\ pc[w].at = "inside"
  /\ pc' = [pc EXCEPT ![w].at = "read", ![w].read = content]
  /\ UNCHANGED <<content, generation, lockdir, mishaps, slipped>>
WriteFile(w) ==
  /\ pc[w].at = "read"
  /\ content' = pc[w].read \cup {w}
  /\ pc' = [pc EXCEPT ![w].at = "written"]
  /\ UNCHANGED <<generation, lockdir, mishaps, slipped>>

\* The directory goes, whoever made the one that is there by now.
Release(w, end) ==
  /\ lockdir' = IF pc[w].made THEN Free ELSE lockdir
  /\ slipped' = (slipped \/ (pc[w].made /\ lockdir \notin {w, Free}))
  /\ pc' = [pc EXCEPT ![w] = [Outside EXCEPT !.at = end]]
Leave(w) ==
  /\ pc[w].at = "written" /\ Release(w, "done")
  /\ UNCHANGED <<content, generation, mishaps>>
\* Seeded fault: a failed write leaves the locks taken.
FaultyWriteFails(w) ==
  /\ pc[w].at = "read" /\ Mishap
  /\ pc' = [pc EXCEPT ![w].at = "stuck"]
  /\ UNCHANGED <<content, generation, lockdir, slipped>>
WriteFails(w) ==
  /\ pc[w].at = "read" /\ Mishap /\ Release(w, "failed")
  /\ UNCHANGED <<content, generation>>

\* A process dies and comes back: its locks are forgotten, its directory stays.
Dies(p) ==
  /\ Mishap
  /\ pc' = [w \in Writers |-> IF Home[w] = p /\ (Holding(w) \/ pc[w].at = "waiting")
                             THEN [Outside EXCEPT !.at = IF pc[w].at = "written" THEN "done" ELSE "failed"]
                             ELSE pc[w]]
  /\ lockdir' = IF \E w \in Writers : lockdir = w /\ Home[w] = p THEN Left ELSE lockdir
  /\ UNCHANGED <<content, generation, slipped>>

WriterStep(w) ==
  \/ LookUp(w) \/ Take(w) \/ MakeDir(w) \/ ReadFile(w) \/ WriteFile(w) \/ Leave(w)
  \/ lockdir = Left /\ BreakStale(w)

VaultNext ==
  \/ \E w \in Writers :
       \/ LookUp(w) \/ Take(w) \/ MakeDir(w) \/ BreakStale(w) \/ TimeOut(w)
       \/ ReadFile(w) \/ WriteFile(w) \/ WriteFails(w) \/ Leave(w)
  \/ \E p \in Processes : Evict(p) \/ Dies(p)

\* Threads run on; whoever waits for a directory left behind looks at its age.
VaultFairness == \A w \in Writers : WF_vaultVars(WriterStep(w))
VaultSpec == VaultInit /\ [][VaultNext]_vaultVars /\ VaultFairness

----------------------------------------------------------------------------
\* A change that was acknowledged is still in the file, unless a wait timed out
\* or a slow holder's directory was broken.  An eviction of a lock object in use
\* is no excuse: the directory keeps the threads of one process apart too.
ChangesKeptUnlessSlipped ==
  \A w \in Writers : pc[w].at = "done" => w \in content \/ slipped

\* Every change that begins comes to an end: neither a process that died inside nor a write that
\* failed keeps the others out for ever.
EveryWriterLeaves == \A w \in Writers : []<>(pc[w].at \in {"new", "done", "failed"})
=============================================================================
