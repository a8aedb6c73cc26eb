----------------------------- MODULE Workspace ------------------------------
(***************************************************************************)
(* A user's code workspace (services/workspace.py) and the programs that   *)
(* run in it (services/coderun.py).  Tool calls of one user overlap: the   *)
(* rounds of two turns, or of one, write, delete and run files at the      *)
(* same time.  A write holds the lock of its destination alone while it    *)
(* measures the whole workspace and while it writes; a compiled program    *)
(* goes by the name of its source, without the directory.                  *)
(***************************************************************************)
EXTENDS Integers, FiniteSets, FiniteSetsExt, Functions

CONSTANTS
  Jobs,        \* tool calls
  Sources,     \* relative paths, without those no call may name (clean_relpath)
  Folder,      \* a path's directory, or Top
  Top,
  Compiled,    \* sources in C, C++ or Rust
  Binary,      \* a source's stem: the name of its binary in .run/
  Sizes,
  Unused,
  MaxFiles,    \* MAX_WORKSPACE_FILES
  MaxBytes,    \* MAX_WORKSPACE_BYTES
  MaxSlips     \* bound on failed writes and timed-out compilers

ASSUME WorkspaceBounds == Sizes \subseteq Nat \ {0} /\ MaxFiles \in Nat /\ MaxBytes \in Nat /\ MaxSlips \in Nat

VARIABLES
  tree,      \* the files: what each holds, and how much of it
  folders,   \* directories that exist
  binaries,  \* .run/: what each binary was compiled from
  job,       \* where each call is, what it is about
  holder,    \* who holds the lock of each path
  mishaps,
  held,      \* ghost: what each running call's file has held since the call began
  executed        \* ghost: what each call has executed

workspaceVars == <<tree, folders, binaries, job, holder, mishaps, held, executed>>

NoJob == [does |-> "nothing", path |-> Unused, size |-> 0, partial |-> FALSE]
Nothing == [text |-> Unused, size |-> 0]
PutFile(t, p, what) == [q \in DOMAIN t \cup {p} |-> IF q = p THEN what ELSE t[q]]

WorkspaceInit ==
  /\ tree = [p \in {} |-> Nothing] /\ folders = {Top} /\ binaries = [b \in {} |-> Unused]
  /\ job = [j \in Jobs |-> NoJob] /\ holder = [p \in Sources |-> Unused]
  /\ mishaps = 0 /\ held = [j \in Jobs |-> {}] /\ executed = [j \in Jobs |-> Unused]

Move(j, does) == job' = [job EXCEPT ![j].does = does]
EndJob(j) == job' = [job EXCEPT ![j] = NoJob]
EndCall(j) == EndJob(j) /\ held' = [held EXCEPT ![j] = {}]
FreeLock(j) == holder' = [p \in Sources |-> IF holder[p] = j THEN Unused ELSE holder[p]]
Mishap == mishaps < MaxSlips /\ mishaps' = mishaps + 1

\* _workspace_usage: every file below the root, the half-written ones of others and the
\* binaries too (whose bytes are not counted here).
Partials == {j \in Jobs : job[j].partial}
FileCount == Cardinality(DOMAIN tree) + Cardinality(Partials) + Cardinality(DOMAIN binaries)
ByteCount == MapThenSumSet(LAMBDA p : tree[p].size, DOMAIN tree) + MapThenSumSet(LAMBDA j : job[j].size, Partials)

\* Only a new file counts against the number, and what it replaces is given back.
HasRoom(p, size) ==
  /\ p \notin DOMAIN tree => FileCount < MaxFiles
  /\ ByteCount - (IF p \in DOMAIN tree THEN tree[p].size ELSE 0) + size <= MaxBytes

\* ---- write_workspace_file ----------------------------------------------
BeginWrite(j, p, size) ==
  /\ job[j] = NoJob
  /\ job' = [job EXCEPT ![j] = [does |-> "measure", path |-> p, size |-> size, partial |-> FALSE]]
  /\ folders' = folders \cup {Folder[p]}
  /\ UNCHANGED <<tree, binaries, holder, mishaps, held, executed>>
\* Under the destination's lock; a full workspace refuses.
Measure(j) ==
  /\ job[j].does = "measure" /\ holder[job[j].path] = Unused
  /\ IF HasRoom(job[j].path, job[j].size)
     THEN Move(j, "write") /\ holder' = [holder EXCEPT ![job[j].path] = j]
     ELSE EndJob(j) /\ UNCHANGED holder
  /\ UNCHANGED <<tree, folders, binaries, mishaps, held, executed>>
\* The temporary file lies beside the destination: its directory may be gone again.
WritePartial(j) ==
  /\ job[j].does = "write"
  /\ IF Folder[job[j].path] \in folders
     THEN job' = [job EXCEPT ![j].does = "replace", ![j].partial = TRUE] /\ UNCHANGED holder
     ELSE EndJob(j) /\ FreeLock(j)
  /\ UNCHANGED <<tree, folders, binaries, mishaps, held, executed>>
Replace(j) ==
  /\ job[j].does = "replace"
  /\ tree' = PutFile(tree, job[j].path, [text |-> j, size |-> job[j].size])
  /\ held' = [r \in Jobs |-> IF held[r] # {} /\ job[r].path = job[j].path THEN held[r] \cup {j} ELSE held[r]]
  /\ EndJob(j) /\ FreeLock(j)
  /\ UNCHANGED <<folders, binaries, mishaps, executed>>
\* The disk fails: the temporary file is taken away.
FailWrite(j) ==
  /\ job[j].does = "replace" /\ Mishap
  /\ EndJob(j) /\ FreeLock(j)
  /\ UNCHANGED <<tree, folders, binaries, held, executed>>

\* ---- delete_workspace_file ---------------------------------------------
BeginDelete(j, p) ==
  /\ job[j] = NoJob /\ p \in DOMAIN tree
  /\ job' = [job EXCEPT ![j] = [NoJob EXCEPT !.does = "delete", !.path = p]]
  /\ UNCHANGED <<tree, folders, binaries, holder, mishaps, held, executed>>
\* The directory goes with its last file; it stays while a temporary file is in it.
Unlink(j) ==
  LET p == job[j].path
      rest == DOMAIN tree \ {p}
  IN  /\ job[j].does = "delete" /\ holder[p] = Unused
      /\ tree' = Restrict(tree, rest)
      /\ folders' = IF \/ Folder[p] = Top \/ p \notin DOMAIN tree
                       \/ \E q \in rest : Folder[q] = Folder[p]
                       \/ \E k \in Partials : Folder[job[k].path] = Folder[p]
                    THEN folders ELSE folders \ {Folder[p]}
      /\ EndJob(j)
      /\ UNCHANGED <<binaries, holder, mishaps, held, executed>>

\* ---- execute_file ------------------------------------------------------
BeginRun(j, p) ==
  /\ job[j] = NoJob /\ p \in DOMAIN tree
  /\ job' = [job EXCEPT ![j] = [NoJob EXCEPT !.does = IF p \in Compiled THEN "compile" ELSE "run", !.path = p]]
  /\ held' = [held EXCEPT ![j] = {tree[p].text}]
  /\ UNCHANGED <<tree, folders, binaries, holder, mishaps, executed>>
\* A plausible bug: one binary for every program.
FaultyBinaryOf(p) == Top
BinaryOf(p) == Binary[p]
Compile(j) ==
  LET p == job[j].path
  IN  /\ job[j].does = "compile"
      /\ IF p \in DOMAIN tree
         THEN binaries' = PutFile(binaries, BinaryOf(p), tree[p].text) /\ Move(j, "launch") /\ UNCHANGED held
         ELSE EndCall(j) /\ UNCHANGED binaries
      /\ UNCHANGED <<tree, folders, holder, mishaps, executed>>
\* The compiler fails or runs out of time; an older binary stays.
FailCompile(j) ==
  /\ job[j].does = "compile" /\ Mishap
  /\ EndCall(j)
  /\ UNCHANGED <<tree, folders, binaries, holder, executed>>
Launch(j) ==
  /\ job[j].does = "launch"
  /\ executed' = [executed EXCEPT ![j] = binaries[BinaryOf(job[j].path)]]
  /\ Move(j, "running")
  /\ UNCHANGED <<tree, folders, binaries, holder, mishaps, held>>
Interpret(j) ==
  /\ job[j].does = "run"
  /\ IF job[j].path \in DOMAIN tree
     THEN executed' = [executed EXCEPT ![j] = tree[job[j].path].text] /\ Move(j, "running") /\ UNCHANGED held
     ELSE EndCall(j) /\ UNCHANGED executed
  /\ UNCHANGED <<tree, folders, binaries, holder, mishaps>>
\* The program ends, or its time does.
EndRun(j) ==
  /\ job[j].does = "running" /\ EndCall(j)
  /\ executed' = [executed EXCEPT ![j] = Unused]
  /\ UNCHANGED <<tree, folders, binaries, holder, mishaps>>

JobStep(j) ==
  \/ Measure(j) \/ WritePartial(j) \/ Replace(j) \/ FailWrite(j) \/ Unlink(j)
  \/ Compile(j) \/ FailCompile(j) \/ Launch(j) \/ Interpret(j) \/ EndRun(j)
WorkspaceNext ==
  \E j \in Jobs : \/ JobStep(j)
                  \/ \E p \in Sources : BeginDelete(j, p) \/ BeginRun(j, p) \/ \E n \in Sizes : BeginWrite(j, p, n)
WorkspaceSpec == WorkspaceInit /\ [][WorkspaceNext]_workspaceVars

\* ---- properties --------------------------------------------------------
SourceBytes == MapThenSumSet(LAMBDA p : tree[p].size, DOMAIN tree)

\* What a call executes is what its file held at some moment of the call, whatever was
\* written and compiled meanwhile; except that files of one stem share a binary.
RunsItsOwnUnlessTwins ==
  \A j \in Jobs : executed[j] # Unused =>
    \/ executed[j] \in held[j]
    \/ \E p \in Compiled : p # job[j].path /\ Binary[p] = Binary[job[j].path]

=============================================================================
