---------------------------- MODULE StorageProofs ----------------------------
(* Theorems about the stores on disk, for any number of each: the path locks, *)
(* uploads and outputs, the knowledge base, and generated files.              *)
EXTENDS Vault, Files, Knowledge, Desk, WellFoundedInduction, TLAPS

----------------------------------------------------------------------------
(* The path locks *)

Places == {"new", "waiting", "held", "inside", "read", "written", "done", "failed", "stuck"}
Writer == [at : Places, lock : Int, made : BOOLEAN, read : SUBSET Writers]
VaultTypeOK ==
  /\ content \in SUBSET Writers /\ slipped \in BOOLEAN
  /\ pc \in [Writers -> Writer]
  /\ generation \in [Processes -> Nat] /\ Home \in [Writers -> Nat]

Inside(w) == pc[w].at \in {"inside", "read", "written"}

\* Who is inside has made the directory that is there: so nobody else is, and
\* what a writer has read is what the file still holds.
Exclusion ==
  /\ \A w \in Writers : Inside(w) => lockdir = w /\ pc[w].made
  /\ \A w \in Writers : pc[w].at = "read" => pc[w].read = content
  /\ \A w \in Writers : pc[w].at \in {"written", "done"} => w \in content

VaultInv == VaultTypeOK /\ (slipped \/ Exclusion)

LEMMA OutsideType == Outside \in Writer
BY DEF Outside, Writer, Places

LEMMA WriterType ==
  ASSUME NEW c \in Writer
  PROVE  /\ c.at \in Places /\ c.lock \in Int /\ c.made \in BOOLEAN /\ c.read \in SUBSET Writers
         /\ \A at \in Places : [c EXCEPT !.at = at] \in Writer
         /\ \A at \in Places, b \in BOOLEAN : [c EXCEPT !.at = at, !.made = b] \in Writer
         /\ \A at \in Places, lock \in Int : [c EXCEPT !.at = at, !.lock = lock] \in Writer
         /\ \A at \in Places, read \in SUBSET Writers : [c EXCEPT !.at = at, !.read = read] \in Writer
BY DEF Writer

LEMMA VaultInitially == VaultInit => VaultInv
<1> SUFFICES ASSUME VaultInit PROVE VaultInv
  OBVIOUS
<1>1. VaultTypeOK
  BY HomeAssumption, OutsideType DEF VaultInit, VaultTypeOK
<1>2. Exclusion
  BY DEF VaultInit, Exclusion, Inside, Outside
<1>3. QED BY <1>1, <1>2 DEF VaultInv

LEMMA ReleaseKeeps ==
  ASSUME VaultInv, NEW w \in Writers, Inside(w), NEW end \in {"done", "failed"}, Release(w, end),
         content' = content, generation' = generation, end = "done" => pc[w].at = "written"
  PROVE  VaultInv'
<1>1. VaultTypeOK
  BY DEF VaultInv
<1>2. \A v \in Writers : v # w => pc'[v] = pc[v]
  BY <1>1 DEF VaultTypeOK, Release
<1>3. pc'[w].at = end
  BY <1>1 DEF VaultTypeOK, Release, Outside
<1>4. VaultTypeOK'
  <2>1. [Outside EXCEPT !.at = end] \in Writer
    BY OutsideType, WriterType DEF Places
  <2>2. QED BY <1>1, <2>1 DEF VaultTypeOK, Release
<1>5. ASSUME ~slipped' PROVE Exclusion'
  <2>1. Exclusion /\ ~slipped
    BY <1>5 DEF VaultInv, Release
  <2>2. \A v \in Writers : v # w => ~Inside(v)
    BY <2>1 DEF Exclusion
  <2>3. \A v \in Writers : ~Inside(v)'
    BY <1>2, <1>3, <2>2 DEF Inside
  <2>4. \A v \in Writers : pc'[v].at # "read"
    BY <2>3 DEF Inside
  <2>5. \A v \in Writers : pc'[v].at \in {"written", "done"} => v \in content
    BY <1>2, <1>3, <2>1 DEF Exclusion
  <2>6. QED BY <2>3, <2>4, <2>5 DEF Exclusion
<1>6. QED BY <1>4, <1>5 DEF VaultInv

\* A step of one writer that leaves the file and the directory alone.
LEMMA WriterMoves ==
  ASSUME VaultInv, NEW w \in Writers, UNCHANGED <<content, generation, lockdir, slipped>>,
         \A v \in Writers : v # w => pc'[v] = pc[v], VaultTypeOK',
         pc'[w].at \in {"waiting", "held"} \/ (pc'[w].at = "read" /\ pc'[w].read = content /\ pc[w].at = "inside" /\ pc'[w].made = pc[w].made)
  PROVE  VaultInv'
<1>1. ASSUME ~slipped PROVE Exclusion'
  <2>1. Exclusion
    BY <1>1 DEF VaultInv
  <2>2. Inside(w)' => Inside(w) /\ pc'[w].made = pc[w].made
    BY DEF Inside
  <2>3. \A v \in Writers : Inside(v)' => lockdir' = v /\ pc'[v].made
    BY <2>1, <2>2 DEF Exclusion, Inside
  <2>4. \A v \in Writers : pc'[v].at = "read" => pc'[v].read = content'
    BY <2>1 DEF Exclusion
  <2>5. \A v \in Writers : pc'[v].at \in {"written", "done"} => v \in content'
    BY <2>1 DEF Exclusion
  <2>6. QED BY <2>3, <2>4, <2>5 DEF Exclusion
<1>2. QED BY <1>1 DEF VaultInv

LEMMA VaultStep ==
  ASSUME VaultInv, [VaultNext]_vaultVars
  PROVE  VaultInv'
<1>1. VaultTypeOK /\ Processes = {Home[w] : w \in Writers}
  BY DEF VaultInv, Processes
<1>2. ASSUME NEW w \in Writers, LookUp(w) PROVE VaultInv'
  <2>1. generation[Home[w]] \in Int
    BY <1>1 DEF VaultTypeOK
  <2>2. VaultTypeOK'
    BY <1>1, <1>2, <2>1, OutsideType, WriterType DEF VaultTypeOK, LookUp, Places
  <2>3. pc'[w].at = "waiting" /\ \A v \in Writers : v # w => pc'[v] = pc[v]
    BY <1>1, <1>2 DEF VaultTypeOK, LookUp, Outside
  <2>4. QED BY <1>2, <2>2, <2>3, WriterMoves DEF LookUp
<1>3. ASSUME NEW w \in Writers, Take(w) PROVE VaultInv'
  <2>1. VaultTypeOK'
    BY <1>1, <1>3, WriterType DEF VaultTypeOK, Take, Places
  <2>2. pc'[w].at = "held" /\ \A v \in Writers : v # w => pc'[v] = pc[v]
    BY <1>1, <1>3 DEF VaultTypeOK, Take
  <2>3. QED BY <1>3, <2>1, <2>2, WriterMoves DEF Take
<1>4. ASSUME NEW w \in Writers, MakeDir(w) PROVE VaultInv'
  <2>1. VaultTypeOK'
    <3>1. pc[w] \in Writer
      BY <1>1 DEF VaultTypeOK
    <3>2. [pc[w] EXCEPT !.at = "inside", !.made = TRUE] \in Writer
      BY <3>1, WriterType DEF Places
    <3>3. pc' = [pc EXCEPT ![w] = [pc[w] EXCEPT !.at = "inside", !.made = TRUE]]
      BY <1>1, <1>4 DEF VaultTypeOK, MakeDir, Writer
    <3>4. QED BY <1>1, <1>4, <3>2, <3>3 DEF VaultTypeOK, MakeDir
  <2>2. /\ pc'[w].at = "inside" /\ pc'[w].made /\ lockdir' = w
        /\ \A v \in Writers : v # w => pc'[v] = pc[v]
    BY <1>1, <1>4 DEF VaultTypeOK, MakeDir
  <2>3. ASSUME ~slipped PROVE Exclusion'
    <3>1. Exclusion /\ content' = content
      BY <1>4, <2>3 DEF VaultInv, MakeDir
    <3>2. \A v \in Writers : ~Inside(v)
      BY <1>4, <3>1, WritersAssumption DEF Exclusion, MakeDir
    <3>3. \A v \in Writers : Inside(v)' => v = w
      BY <2>2, <3>2 DEF Inside
    <3>4. \A v \in Writers : pc'[v].at # "read"
      BY <2>2, <3>2 DEF Inside
    <3>5. \A v \in Writers : pc'[v].at \in {"written", "done"} => v \in content'
      BY <2>2, <3>1 DEF Exclusion
    <3>6. QED BY <2>2, <3>3, <3>4, <3>5 DEF Exclusion
  <2>4. QED BY <1>4, <2>1, <2>3 DEF VaultInv, MakeDir
<1>5. ASSUME NEW w \in Writers, BreakStale(w) PROVE VaultInv'
  <2>1. VaultTypeOK'
    BY <1>1, <1>5 DEF VaultTypeOK, BreakStale
  <2>2. ASSUME ~slipped' PROVE Exclusion'
    <3>1. ~slipped /\ lockdir = Left /\ UNCHANGED <<content, pc>>
      BY <1>5, <2>2 DEF BreakStale
    <3>2. Exclusion
      BY <3>1 DEF VaultInv
    <3>3. \A v \in Writers : ~Inside(v)
      BY <3>1, <3>2, WritersAssumption DEF Exclusion
    <3>4. QED BY <3>1, <3>2, <3>3 DEF Exclusion, Inside
  <2>3. QED BY <2>1, <2>2 DEF VaultInv
<1>6. ASSUME NEW w \in Writers, TimeOut(w) PROVE VaultInv'
  <2>1. VaultTypeOK' /\ slipped'
    BY <1>1, <1>6, WriterType DEF VaultTypeOK, TimeOut, Places
  <2>2. QED BY <2>1 DEF VaultInv
<1>7. ASSUME NEW w \in Writers, ReadFile(w) PROVE VaultInv'
  <2>1. VaultTypeOK'
    <3>1. pc[w] \in Writer
      BY <1>1 DEF VaultTypeOK
    <3>2. [pc[w] EXCEPT !.at = "read", !.read = content] \in Writer
      BY <1>1, <3>1, WriterType DEF Places, VaultTypeOK
    <3>3. pc' = [pc EXCEPT ![w] = [pc[w] EXCEPT !.at = "read", !.read = content]]
      BY <1>1, <1>7 DEF VaultTypeOK, ReadFile, Writer
    <3>4. QED BY <1>1, <1>7, <3>2, <3>3 DEF VaultTypeOK, ReadFile
  <2>2. /\ pc'[w].at = "read" /\ pc'[w].read = content /\ pc'[w].made = pc[w].made
        /\ pc[w].at = "inside" /\ \A v \in Writers : v # w => pc'[v] = pc[v]
    BY <1>1, <1>7 DEF VaultTypeOK, ReadFile
  <2>3. QED BY <1>7, <2>1, <2>2, WriterMoves DEF ReadFile
<1>8. ASSUME NEW w \in Writers, WriteFile(w) PROVE VaultInv'
  <2>1. VaultTypeOK'
    BY <1>1, <1>8, WriterType DEF VaultTypeOK, WriteFile, Places
  <2>2. /\ pc'[w].at = "written" /\ pc'[w].made = pc[w].made /\ pc[w].at = "read"
        /\ content' = pc[w].read \cup {w}
        /\ \A v \in Writers : v # w => pc'[v] = pc[v]
    BY <1>1, <1>8 DEF VaultTypeOK, WriteFile
  <2>3. ASSUME ~slipped PROVE Exclusion'
    <3>1. Exclusion /\ lockdir' = lockdir
      BY <1>8, <2>3 DEF VaultInv, WriteFile
    <3>2. lockdir = w /\ pc[w].made /\ pc[w].read = content
      BY <2>2, <3>1 DEF Exclusion, Inside
    <3>3. \A v \in Writers : v # w => ~Inside(v)
      BY <3>1, <3>2 DEF Exclusion
    <3>4. \A v \in Writers : Inside(v)' => v = w
      BY <2>2, <3>3 DEF Inside
    <3>5. \A v \in Writers : pc'[v].at # "read"
      BY <2>2, <3>3 DEF Inside
    <3>6. \A v \in Writers : pc'[v].at \in {"written", "done"} => v \in content'
      BY <2>2, <3>1, <3>2 DEF Exclusion
    <3>7. QED BY <2>2, <3>1, <3>2, <3>4, <3>5, <3>6 DEF Exclusion
  <2>4. QED BY <1>8, <2>1, <2>3 DEF VaultInv, WriteFile
<1>9. ASSUME NEW w \in Writers, Leave(w) PROVE VaultInv'
  BY <1>9, ReleaseKeeps DEF Leave, Inside
<1>10. ASSUME NEW w \in Writers, WriteFails(w) PROVE VaultInv'
  BY <1>10, ReleaseKeeps DEF WriteFails, Inside
<1>11. ASSUME NEW p \in Processes, Evict(p) PROVE VaultInv'
  <2>1. VaultTypeOK'
    BY <1>1, <1>11 DEF VaultTypeOK, Evict
  <2>2. UNCHANGED <<content, pc, lockdir, slipped>>
    BY <1>11 DEF Evict
  <2>3. QED BY <2>1, <2>2 DEF VaultInv, Exclusion, Inside
<1>12. ASSUME NEW p \in Processes, Dies(p) PROVE VaultInv'
  <2> DEFINE hit(w) == Home[w] = p /\ (Holding(w) \/ pc[w].at = "waiting")
             end(w) == IF pc[w].at = "written" THEN "done" ELSE "failed"
  <2>1. \A w \in Writers : pc'[w] = IF hit(w) THEN [Outside EXCEPT !.at = end(w)] ELSE pc[w]
    BY <1>12 DEF Dies
  <2>2. \A w \in Writers : hit(w) => pc'[w].at = end(w)
    BY <2>1 DEF Outside
  <2>3. VaultTypeOK'
    <3>1. \A w \in Writers : [Outside EXCEPT !.at = end(w)] \in Writer
      BY OutsideType, WriterType DEF Places
    <3>2. pc' = [w \in Writers |-> IF hit(w) THEN [Outside EXCEPT !.at = end(w)] ELSE pc[w]]
      BY <1>12 DEF Dies
    <3> HIDE DEF hit, end
    <3>3. QED BY <1>1, <1>12, <3>1, <3>2 DEF VaultTypeOK, Dies
  <2>4. ASSUME ~slipped PROVE Exclusion'
    <3>1. Exclusion /\ content' = content
      BY <1>12, <2>4 DEF VaultInv, Dies
    <3>2. ASSUME NEW w \in Writers, Inside(w)' PROVE ~hit(w) /\ pc'[w] = pc[w] /\ Inside(w)
      BY <2>1, <2>2, <3>2 DEF Inside
    <3>3. ASSUME NEW w \in Writers, Inside(w)' PROVE lockdir' = w /\ pc'[w].made
      <4>1. lockdir = w /\ pc[w].made /\ Home[w] # p
        BY <3>1, <3>2, <3>3 DEF Exclusion, Inside, Holding
      <4>2. QED BY <1>12, <3>2, <3>3, <4>1 DEF Dies
    <3>4. \A w \in Writers : pc'[w].at = "read" => pc'[w].read = content'
      BY <3>1, <3>2 DEF Inside, Exclusion
    <3>5. ASSUME NEW w \in Writers, pc'[w].at \in {"written", "done"} PROVE w \in content'
      BY <2>1, <2>2, <3>1, <3>5 DEF Exclusion
    <3>6. QED BY <3>3, <3>4, <3>5 DEF Exclusion
  <2>5. QED BY <1>12, <2>3, <2>4 DEF VaultInv, Dies
<1>13. CASE UNCHANGED vaultVars
  BY <1>13 DEF vaultVars, VaultInv, VaultTypeOK, Exclusion, Inside
<1>14. QED
  BY <1>2, <1>3, <1>4, <1>5, <1>6, <1>7, <1>8, <1>9, <1>10, <1>11, <1>12, <1>13 DEF VaultNext

\* A change that was acknowledged is still in the file, unless a wait timed
\* out or a slow holder's directory was broken: for any number of threads and
\* processes, deaths, failed writes and evicted lock objects.
THEOREM ChangesKeptTheorem == VaultSpec => []ChangesKeptUnlessSlipped
<1>1. VaultInv => ChangesKeptUnlessSlipped
  BY DEF VaultInv, Exclusion, ChangesKeptUnlessSlipped
<1>2. QED BY <1>1, VaultInitially, VaultStep, PTL DEF VaultSpec

----------------------------------------------------------------------------
(* Uploads and outputs *)

SaveStates == {"new", "checked", "writing", "placed", "kept", "refused", "gone"}
SweepPhases == {"idle", "outputs", "listing", "uploads", "orphan_uploads", "orphan_outputs"}
Sweep == [at : SweepPhases, todo : SUBSET Stored, refs : SUBSET Uploads, blind : BOOLEAN,
          late : SUBSET Uploads]
FilesTypeOK ==
  /\ reg \in SUBSET Stored /\ disk \in SUBSET Stored /\ tmp \in SUBSET Stored /\ old \in SUBSET Stored
  /\ cited \in SUBSET Uploads /\ torn \in BOOLEAN /\ doing \in SUBSET Stored
  /\ save \in [Stored -> SaveStates]
  /\ sweep \in Sweep

\* A record belongs to a call that succeeded, bytes to one that began, and what
\* is old to none that is under way.
CallsMatch ==
  /\ \A f \in reg : save[f] = "kept"
  /\ \A f \in disk \cup tmp : save[f] # "new"
  /\ \A f \in old : save[f] \in {"kept", "refused", "gone"}

\* The job knows what was cited when it listed the uploads, or it was late or
\* blind; what it takes for an orphan will never have a record.
SweepSound ==
  /\ sweep.at \in {"listing", "uploads"} => sweep.blind \/ cited \subseteq sweep.refs \cup sweep.late
  /\ sweep.at = "uploads" => sweep.todo \cap sweep.refs = {}
  /\ sweep.at = "orphan_uploads" => \A f \in sweep.todo : f \in old /\ (f \notin reg \/ f \in excused)

CitedSafe ==
  /\ cited \ excused \subseteq reg \cap disk
  /\ doing \subseteq excused
  /\ torn => reg \cap Uploads \subseteq excused

FilesInv == FilesTypeOK /\ CallsMatch /\ SweepSound /\ CitedSafe

LEMMA AsleepType == Asleep \in Sweep
BY DEF Asleep, Sweep, SweepPhases

LEMMA SweepType ==
  ASSUME NEW s \in Sweep
  PROVE  /\ s.at \in SweepPhases /\ s.todo \in SUBSET Stored /\ s.refs \in SUBSET Uploads
         /\ s.blind \in BOOLEAN /\ s.late \in SUBSET Uploads
         /\ \A todo \in SUBSET Stored : [s EXCEPT !.todo = todo] \in Sweep
         /\ \A at \in SweepPhases : [s EXCEPT !.at = at] \in Sweep
         /\ \A at \in SweepPhases, todo \in SUBSET Stored : [s EXCEPT !.at = at, !.todo = todo] \in Sweep
         /\ \A at \in SweepPhases, refs \in SUBSET Uploads : [s EXCEPT !.at = at, !.refs = refs] \in Sweep
         /\ \A at \in SweepPhases : [s EXCEPT !.at = at, !.blind = TRUE] \in Sweep
         /\ \A late \in SUBSET Uploads : [s EXCEPT !.late = late] \in Sweep
BY DEF Sweep

LEMMA FilesInitially == FilesInit => FilesInv
<1> SUFFICES ASSUME FilesInit PROVE FilesInv
  OBVIOUS
<1>1. FilesTypeOK
  BY AsleepType DEF FilesInit, FilesTypeOK, SaveStates
<1>2. CallsMatch /\ SweepSound /\ CitedSafe
  BY DEF FilesInit, CallsMatch, SweepSound, CitedSafe, Asleep
<1>3. QED BY <1>1, <1>2 DEF FilesInv

LEMMA BesideCases ==
  ASSUME NEW f \in Stored
  PROVE  \/ f \in Uploads /\ Beside(f) = Uploads
         \/ f \notin Uploads /\ f \in Outputs /\ Beside(f) = Outputs
BY DEF Beside, Stored

\* A record replaced, or removed, in the registry of one directory.
LEMMA RewriteKeeps ==
  ASSUME FilesTypeOK, NEW S \in {Uploads, Outputs}, NEW new \in SUBSET Stored, Rewrite(S, new)
  PROVE  reg' \in SUBSET Stored /\ torn' \in BOOLEAN
BY DEF FilesTypeOK, Rewrite, Stored

\* A step of a call that leaves the registry and the deletions alone.
LEMMA CallMoves ==
  ASSUME FilesInv, NEW f \in Stored, NEW to \in SaveStates \ {"new"},
         save' = [save EXCEPT ![f] = to],
         save[f] \in {"new", "checked", "writing", "placed"},
         to = "kept" => FALSE,
         UNCHANGED <<reg, torn, old, cited, doing, sweep, excused>>,
         tmp' \in SUBSET Stored, disk' \in SUBSET Stored,
         tmp' \subseteq tmp \cup {f}, disk' \subseteq disk \cup {f}, disk \ {f} \subseteq disk'
  PROVE  FilesInv'
<1>1. FilesTypeOK'
  BY DEF FilesInv, FilesTypeOK
<1>2. f \notin reg /\ f \notin old
  BY DEF FilesInv, FilesTypeOK, CallsMatch
<1>3. CallsMatch'
  BY <1>2 DEF FilesInv, FilesTypeOK, CallsMatch
<1>4. SweepSound' /\ CitedSafe'
  BY <1>2 DEF FilesInv, SweepSound, CitedSafe
<1>5. QED BY <1>1, <1>3, <1>4 DEF FilesInv

LEMMA StoreSteps ==
  ASSUME FilesInv, NEW f \in Stored,
         PreCheck(f) \/ WriteTmp(f) \/ Place(f) \/ UploadWriteFails(f) \/ RegisterFails(f)
  PROVE  FilesInv'
<1>1. FilesTypeOK
  BY DEF FilesInv
<1>2. CASE PreCheck(f)
  <2>1. PICK to \in {"checked", "refused"} : save' = [save EXCEPT ![f] = to]
    BY <1>2 DEF PreCheck
  <2>2. QED BY <1>1, <1>2, <2>1, CallMoves DEF PreCheck, FilesTypeOK, SaveStates
<1>3. CASE WriteTmp(f)
  BY <1>1, <1>3, CallMoves DEF WriteTmp, FilesTypeOK, SaveStates
<1>4. CASE Place(f)
  BY <1>1, <1>4, CallMoves DEF Place, FilesTypeOK, SaveStates
<1>5. CASE UploadWriteFails(f)
  BY <1>1, <1>5, CallMoves DEF UploadWriteFails, FilesTypeOK, SaveStates
<1>6. CASE RegisterFails(f)
  BY <1>1, <1>6, CallMoves DEF RegisterFails, FilesTypeOK, SaveStates
<1>7. QED BY <1>2, <1>3, <1>4, <1>5, <1>6

LEMMA RegisterStep ==
  ASSUME FilesInv, NEW f \in Stored, Register(f)
  PROVE  FilesInv'
<1>1. FilesTypeOK /\ CallsMatch /\ SweepSound /\ CitedSafe
  BY DEF FilesInv
<1>2. /\ save[f] = "placed" /\ save' = [save EXCEPT ![f] = "kept"]
      /\ UNCHANGED <<disk, tmp, old, cited, doing, sweep, excused>>
  BY DEF Register
<1>3. f \notin old /\ f \notin reg
  BY <1>1, <1>2 DEF FilesTypeOK, CallsMatch
<1>4. /\ reg' \subseteq reg \cup {f} /\ reg' \in SUBSET Stored /\ torn' \in BOOLEAN
      /\ cited \ excused \subseteq reg'
      /\ torn' => reg' \cap Uploads \subseteq excused
  <2>1. CASE f \in Uploads /\ Beside(f) = Uploads
    <3>1. reg' = (reg \ Uploads) \cup Known(Uploads) \cup {f} /\ torn' = FALSE
      BY <1>1, <2>1 DEF Register, Rewrite, FilesTypeOK
    <3>2. Known(Uploads) = IF torn THEN {} ELSE reg \cap Uploads
      BY DEF Known
    <3>3. QED BY <1>1, <2>1, <3>1, <3>2 DEF CitedSafe, FilesTypeOK, Stored
  <2>2. CASE f \notin Uploads /\ f \in Outputs /\ Beside(f) = Outputs
    <3>1. Outputs # Uploads
      BY <2>2
    <3>2. reg' = (reg \ Outputs) \cup (reg \cap Outputs) \cup {f} /\ torn' = torn
      BY <1>1, <2>2, <3>1 DEF Register, Rewrite, Known, FilesTypeOK
    <3>3. QED BY <1>1, <2>2, <3>2 DEF CitedSafe, FilesTypeOK
  <2>3. QED BY <2>1, <2>2, BesideCases
<1>5. FilesTypeOK'
  BY <1>1, <1>2, <1>4 DEF FilesTypeOK, SaveStates
<1>6. CallsMatch'
  BY <1>1, <1>2, <1>3, <1>4 DEF FilesTypeOK, CallsMatch
<1>7. SweepSound'
  BY <1>1, <1>2, <1>3, <1>4 DEF SweepSound
<1>8. CitedSafe'
  BY <1>1, <1>2, <1>4 DEF CitedSafe
<1>9. QED BY <1>5, <1>6, <1>7, <1>8 DEF FilesInv

\* A file leaves its directory and its registry.
LEMMA RecordGoes ==
  ASSUME FilesInv, NEW f \in Stored, NEW S \in {Uploads, Outputs}, f \in S,
         Rewrite(S, Known(S) \ {f}), save' = [save EXCEPT ![f] = "gone"],
         f \in cited => f \in excused', excused \subseteq excused',
         disk \ {f} \subseteq disk', disk' \subseteq disk, UNCHANGED <<tmp, old, cited>>,
         doing' \subseteq doing, sweep' \in Sweep,
         sweep'.at = sweep.at /\ sweep'.refs = sweep.refs /\ sweep'.late = sweep.late,
         sweep'.blind = sweep.blind /\ sweep'.todo \subseteq sweep.todo
  PROVE  FilesInv'
<1>1. FilesTypeOK /\ CallsMatch /\ SweepSound /\ CitedSafe
  BY DEF FilesInv
<1>2. /\ reg' \subseteq reg \ {f} /\ reg' \in SUBSET Stored /\ torn' \in BOOLEAN
      /\ cited \ (excused \cup {f}) \subseteq reg'
      /\ torn' => reg' \cap Uploads \subseteq excused
  <2>1. CASE S = Uploads
    <3>1. reg' = (reg \ Uploads) \cup (Known(Uploads) \ {f}) /\ torn' = FALSE
      BY <1>1, <2>1 DEF Rewrite, FilesTypeOK
    <3>2. Known(Uploads) = IF torn THEN {} ELSE reg \cap Uploads
      BY DEF Known
    <3>3. QED BY <1>1, <2>1, <3>1, <3>2 DEF CitedSafe, FilesTypeOK
  <2>2. CASE S = Outputs /\ S # Uploads
    <3>1. reg' = (reg \ Outputs) \cup ((reg \cap Outputs) \ {f}) /\ torn' = torn
      BY <1>1, <2>2 DEF Rewrite, Known, FilesTypeOK
    <3>2. QED BY <1>1, <2>2, <3>1 DEF CitedSafe, FilesTypeOK
  <2>3. QED BY <2>1, <2>2
<1>3. FilesTypeOK'
  BY <1>1, <1>2 DEF FilesTypeOK, SaveStates
<1>4. CallsMatch'
  BY <1>1, <1>2 DEF FilesTypeOK, CallsMatch
<1>5. SweepSound'
  BY <1>1, <1>2 DEF SweepSound
<1>6. CitedSafe'
  BY <1>1, <1>2 DEF CitedSafe
<1>7. QED BY <1>3, <1>4, <1>5, <1>6 DEF FilesInv

\* Only bytes go, or nothing does.
LEMMA BytesGo ==
  ASSUME FilesInv, NEW f \in Stored,
         UNCHANGED <<reg, torn, save, old, cited>>,
         f \in cited => f \in excused', excused \subseteq excused', doing' \in SUBSET Stored, doing' \subseteq excused',
         disk \ {f} \subseteq disk', disk' \subseteq disk, tmp' \subseteq tmp, sweep' \in Sweep,
         sweep'.at = sweep.at /\ sweep'.refs = sweep.refs /\ sweep'.late = sweep.late,
         sweep'.blind = sweep.blind /\ sweep'.todo \subseteq sweep.todo
  PROVE  FilesInv'
<1>1. FilesTypeOK'
  BY DEF FilesInv, FilesTypeOK
<1>2. CallsMatch'
  BY DEF FilesInv, CallsMatch
<1>3. SweepSound' /\ CitedSafe'
  BY DEF FilesInv, SweepSound, CitedSafe
<1>4. QED BY <1>1, <1>2, <1>3 DEF FilesInv

LEMMA LessToDo ==
  ASSUME FilesTypeOK, NEW f, sweep' = [sweep EXCEPT !.todo = @ \ {f}]
  PROVE  /\ sweep' \in Sweep
         /\ sweep'.at = sweep.at /\ sweep'.refs = sweep.refs /\ sweep'.late = sweep.late
         /\ sweep'.blind = sweep.blind /\ sweep'.todo \subseteq sweep.todo
<1>1. sweep \in Sweep /\ sweep.todo \ {f} \in SUBSET Stored
  BY SweepType DEF FilesTypeOK
<1>2. QED BY <1>1, SweepType DEF Sweep

LEMMA DeleteSteps ==
  ASSUME FilesInv, NEW f \in Stored, DeleteBytes(f) \/ DeleteRecord(f)
  PROVE  FilesInv'
<1>1. FilesTypeOK /\ CitedSafe
  BY DEF FilesInv
<1>2. CASE DeleteBytes(f)
  BY <1>1, <1>2, BytesGo DEF DeleteBytes, FilesTypeOK, CitedSafe
<1>3. CASE DeleteRecord(f)
  <2>1. f \in excused /\ doing' \subseteq doing /\ UNCHANGED <<disk, tmp, old, cited, sweep, excused>>
    BY <1>1, <1>3 DEF DeleteRecord, CitedSafe
  <2>2. CASE Rewrite(Beside(f), Known(Beside(f)) \ {f}) /\ save' = [save EXCEPT ![f] = "gone"]
    BY <1>1, <2>1, <2>2, BesideCases, RecordGoes DEF FilesTypeOK
  <2>3. CASE UNCHANGED <<reg, torn, save>>
    BY <1>1, <2>1, <2>3, BytesGo DEF FilesTypeOK, CitedSafe
  <2>4. QED BY <1>3, <2>2, <2>3 DEF DeleteRecord
<1>4. QED BY <1>2, <1>3

LEMMA PruneSteps ==
  ASSUME FilesInv,
         \/ \E f \in Outputs : PruneOutput(f)
         \/ \E u \in Uploads : PruneUpload(u)
         \/ \E f \in Stored : PruneOrphan(f)
  PROVE  FilesInv'
<1>1. FilesTypeOK /\ CallsMatch /\ SweepSound /\ CitedSafe
  BY DEF FilesInv
<1>2. ASSUME NEW f \in Outputs, PruneOutput(f) PROVE FilesInv'
  <2>1. f \in Stored /\ f \notin cited /\ doing' \subseteq doing /\ UNCHANGED <<tmp, old, cited, doing, excused>>
    BY <1>1, <1>2, StoredAssumption DEF PruneOutput, FilesTypeOK, Stored
  <2>2. /\ sweep' \in Sweep
        /\ sweep'.at = sweep.at /\ sweep'.refs = sweep.refs /\ sweep'.late = sweep.late
        /\ sweep'.blind = sweep.blind /\ sweep'.todo \subseteq sweep.todo
    BY <1>1, <1>2, LessToDo DEF PruneOutput
  <2>3. CASE Rewrite(Outputs, Known(Outputs) \ {f}) /\ save' = [save EXCEPT ![f] = "gone"] /\ disk' = disk \ {f}
    BY <2>1, <2>2, <2>3, RecordGoes
  <2>4. CASE UNCHANGED <<reg, torn, save>> /\ disk' \in {disk, disk \ {f}}
    BY <1>1, <2>1, <2>2, <2>4, BytesGo DEF CitedSafe, FilesTypeOK
  <2>5. QED BY <1>2, <2>3, <2>4 DEF PruneOutput
<1>3. ASSUME NEW u \in Uploads, PruneUpload(u) PROVE FilesInv'
  <2>1. u \in Stored /\ doing' \subseteq doing /\ UNCHANGED <<tmp, old, cited, doing>>
    BY <1>3 DEF PruneUpload, Stored
  <2>2. /\ sweep' \in Sweep
        /\ sweep'.at = sweep.at /\ sweep'.refs = sweep.refs /\ sweep'.late = sweep.late
        /\ sweep'.blind = sweep.blind /\ sweep'.todo \subseteq sweep.todo
    BY <1>1, <1>3, LessToDo DEF PruneUpload
  <2>3. sweep.at = "uploads" /\ u \in sweep.todo
        /\ excused' = IF sweep.blind \/ u \in sweep.late THEN excused \cup {u} ELSE excused
    BY <1>3 DEF PruneUpload
  <2>4. excused \subseteq excused' /\ (u \in cited => u \in excused')
    BY <1>1, <2>3 DEF SweepSound
  <2>5. CASE Rewrite(Uploads, Known(Uploads) \ {u}) /\ save' = [save EXCEPT ![u] = "gone"] /\ disk' = disk \ {u}
    BY <2>1, <2>2, <2>4, <2>5, RecordGoes
  <2>6. CASE UNCHANGED <<reg, torn, save>> /\ disk' \in {disk, disk \ {u}}
    BY <1>1, <2>1, <2>2, <2>4, <2>6, BytesGo DEF CitedSafe, FilesTypeOK
  <2>7. QED BY <1>3, <2>5, <2>6 DEF PruneUpload
<1>4. ASSUME NEW f \in Stored, PruneOrphan(f) PROVE FilesInv'
  <2>1. /\ disk' \in {disk, disk \ {f}} /\ tmp' \subseteq tmp
        /\ UNCHANGED <<reg, torn, save, old, cited, doing, excused>>
    BY <1>4 DEF PruneOrphan
  <2>2. /\ sweep' \in Sweep
        /\ sweep'.at = sweep.at /\ sweep'.refs = sweep.refs /\ sweep'.late = sweep.late
        /\ sweep'.blind = sweep.blind /\ sweep'.todo \subseteq sweep.todo
    BY <1>1, <1>4, LessToDo DEF PruneOrphan
  <2>3. f \in cited => f \in excused
    <3>1. CASE f \in Uploads /\ Beside(f) = Uploads
      <4>1. sweep.at = "orphan_uploads" /\ f \in sweep.todo
        BY <1>4, <3>1 DEF PruneOrphan, OrphanPhase
      <4>2. QED BY <1>1, <4>1 DEF SweepSound, CitedSafe
    <3>2. CASE f \notin Uploads
      BY <1>1, <3>2 DEF FilesTypeOK
    <3>3. QED BY <3>1, <3>2, BesideCases
  <2>4. QED BY <1>1, <2>1, <2>2, <2>3, BytesGo DEF CitedSafe, FilesTypeOK
<1>5. QED BY <1>2, <1>3, <1>4

\* The job goes on to its next phase, or stops.
LEMMA SweepMoves ==
  ASSUME FilesInv, UNCHANGED <<reg, torn, disk, tmp, old, cited, save, doing, excused>>,
         sweep' \in Sweep, SweepSound'
  PROVE  FilesInv'
BY DEF FilesInv, FilesTypeOK, CallsMatch, CitedSafe

LEMMA SweepSteps ==
  ASSUME FilesInv,
         \/ SweepStarts \/ ReadReferences \/ ListStale \/ SweepEnds \/ SweepFails
         \/ \E S \in {Uploads, Outputs} : ListOrphans(S)
  PROVE  FilesInv'
<1>1. FilesTypeOK /\ SweepSound /\ CitedSafe /\ sweep \in Sweep
  BY DEF FilesInv, FilesTypeOK
<1>2. CASE SweepStarts
  <2>1. Known(Outputs) \cap old \in SUBSET Stored /\ "outputs" \in SweepPhases
    BY <1>1 DEF FilesTypeOK, SweepPhases
  <2>2. sweep' \in Sweep
    BY <1>2, <2>1, AsleepType, SweepType DEF SweepStarts
  <2>3. sweep'.at = "outputs"
    BY <1>2 DEF SweepStarts, Asleep
  <2>4. SweepSound'
    BY <2>3 DEF SweepSound
  <2>5. QED BY <1>2, <2>2, <2>4, SweepMoves DEF SweepStarts
<1>3. CASE ReadReferences
  <2>1. /\ sweep'.at = "listing" /\ (sweep'.blind \/ sweep'.refs = cited)
        /\ UNCHANGED <<reg, torn, disk, tmp, old, cited, save, doing, excused>>
    BY <1>1, <1>3 DEF ReadReferences, Sweep
  <2>2. sweep' \in Sweep
    <3>1. "listing" \in SweepPhases /\ cited \in SUBSET Uploads
      BY <1>1 DEF FilesTypeOK, SweepPhases
    <3>2. [sweep EXCEPT !.at = "listing", !.refs = cited] \in Sweep
      BY <1>1, <3>1, SweepType
    <3>3. [sweep EXCEPT !.at = "listing", !.blind = TRUE] \in Sweep
      BY <1>1, <3>1, SweepType
    <3>4. QED BY <1>3, <3>2, <3>3 DEF ReadReferences
  <2>3. SweepSound'
    BY <2>1 DEF SweepSound
  <2>4. QED BY <2>1, <2>2, <2>3, SweepMoves
<1>4. CASE ListStale
  <2>1. (Known(Uploads) \cap old) \ sweep.refs \in SUBSET Stored /\ "uploads" \in SweepPhases
    BY <1>1 DEF FilesTypeOK, SweepPhases
  <2>2. sweep' \in Sweep
    BY <1>1, <1>4, <2>1, SweepType DEF ListStale
  <2>3. /\ sweep.at = "listing" /\ sweep'.at = "uploads" /\ sweep'.todo = (Known(Uploads) \cap old) \ sweep.refs
        /\ sweep'.refs = sweep.refs /\ sweep'.late = sweep.late /\ sweep'.blind = sweep.blind
        /\ UNCHANGED <<reg, torn, disk, tmp, old, cited, save, doing, excused>>
    BY <1>1, <1>4 DEF ListStale, Sweep
  <2>4. SweepSound'
    BY <1>1, <2>3 DEF SweepSound
  <2>5. QED BY <2>2, <2>3, <2>4, SweepMoves
<1>5. CASE SweepEnds \/ SweepFails
  <2>1. sweep' = Asleep /\ UNCHANGED <<reg, torn, disk, tmp, old, cited, save, doing, excused>>
    BY <1>5 DEF SweepEnds, SweepFails
  <2>2. SweepSound'
    BY <2>1 DEF SweepSound, Asleep
  <2>3. QED BY <2>1, <2>2, AsleepType, SweepMoves
<1>6. ASSUME NEW S \in {Uploads, Outputs}, ListOrphans(S) PROVE FilesInv'
  <2> DEFINE lost == ((disk \cup tmp) \cap S \cap old) \ Known(S)
  <2>1. /\ sweep' = [sweep EXCEPT !.at = OrphanPhase(S), !.todo = lost]
        /\ UNCHANGED <<reg, torn, disk, tmp, old, cited, save, doing, excused>>
    BY <1>6 DEF ListOrphans
  <2>2. lost \in SUBSET Stored /\ OrphanPhase(S) \in SweepPhases
    BY <1>1 DEF FilesTypeOK, OrphanPhase, SweepPhases
  <2>3. sweep' \in Sweep /\ sweep'.at = OrphanPhase(S) /\ sweep'.todo = lost
    <3> HIDE DEF lost
    <3>1. QED BY <1>1, <2>1, <2>2, SweepType DEF Sweep
  <2>4. CASE S = Uploads
    <3>1. sweep'.at = "orphan_uploads" /\ \A f \in lost : f \in old /\ (f \notin reg \/ f \in excused)
      BY <1>1, <2>3, <2>4 DEF OrphanPhase, CitedSafe, FilesTypeOK, Known
    <3>2. SweepSound'
      BY <2>1, <2>3, <3>1 DEF SweepSound
    <3>3. QED BY <2>1, <2>3, <3>2, SweepMoves
  <2>5. CASE S # Uploads
    <3>1. sweep'.at = "orphan_outputs"
      BY <2>3, <2>5 DEF OrphanPhase
    <3>2. SweepSound'
      BY <3>1 DEF SweepSound
    <3>3. QED BY <2>1, <2>3, <3>2, SweepMoves
  <2>6. QED BY <2>4, <2>5
<1>7. QED BY <1>2, <1>3, <1>4, <1>5, <1>6

LEMMA AroundSteps ==
  ASSUME FilesInv,
         \/ \E u \in Uploads : Cite(u)
         \/ \E f \in Stored : Age(f)
         \/ Die \/ Spoil \/ PutAside
  PROVE  FilesInv'
<1>1. FilesTypeOK /\ CallsMatch /\ SweepSound /\ CitedSafe /\ sweep \in Sweep
  BY DEF FilesInv, FilesTypeOK
<1>2. ASSUME NEW u \in Uploads, Cite(u) PROVE FilesInv'
  <2>1. /\ u \in reg \cap disk /\ cited' = cited \cup {u}
        /\ UNCHANGED <<reg, torn, disk, tmp, old, save, doing, excused>>
    BY <1>2 DEF Cite, Known
  <2>2. /\ sweep' \in Sweep
        /\ sweep'.at = sweep.at /\ sweep'.refs = sweep.refs /\ sweep'.blind = sweep.blind
        /\ sweep'.todo = sweep.todo /\ sweep.late \subseteq sweep'.late
        /\ sweep.at \in {"listing", "uploads"} => u \in sweep'.late
    <3>1. CASE sweep.at \in {"listing", "uploads"}
      <4>1. sweep' = [sweep EXCEPT !.late = sweep.late \cup {u}]
        BY <1>2, <3>1 DEF Cite
      <4>2. sweep.late \cup {u} \in SUBSET Uploads
        BY <1>1, SweepType
      <4>3. QED BY <1>1, <4>1, <4>2, SweepType DEF Sweep
    <3>2. CASE sweep.at \notin {"listing", "uploads"}
      BY <1>1, <1>2, <3>2 DEF Cite
    <3>3. QED BY <3>1, <3>2
  <2>3. FilesTypeOK'
    BY <1>1, <2>1, <2>2 DEF FilesTypeOK
  <2>4. SweepSound'
    BY <1>1, <2>1, <2>2 DEF SweepSound
  <2>5. CallsMatch' /\ CitedSafe'
    BY <1>1, <2>1 DEF CallsMatch, CitedSafe
  <2>6. QED BY <2>3, <2>4, <2>5 DEF FilesInv
<1>3. ASSUME NEW f \in Stored, Age(f) PROVE FilesInv'
  <2>1. /\ f \in disk \cup tmp /\ save[f] \notin {"checked", "writing", "placed"} /\ old' = old \cup {f}
        /\ UNCHANGED <<reg, torn, disk, tmp, cited, save, doing, sweep, excused>>
    BY <1>3 DEF Age, InFlight
  <2>2. save[f] \in {"kept", "refused", "gone"}
    BY <1>1, <2>1 DEF FilesTypeOK, CallsMatch, SaveStates
  <2>3. FilesTypeOK' /\ CallsMatch'
    BY <1>1, <2>1, <2>2 DEF FilesTypeOK, CallsMatch
  <2>4. SweepSound' /\ CitedSafe'
    BY <1>1, <2>1 DEF SweepSound, CitedSafe
  <2>5. QED BY <2>3, <2>4 DEF FilesInv
<1>4. CASE Die
  <2>1. /\ save' = [f \in Stored |-> IF InFlight(f) THEN "refused" ELSE save[f]]
        /\ doing' = {} /\ sweep' = Asleep
        /\ UNCHANGED <<reg, torn, disk, tmp, old, cited, excused>>
    BY <1>4 DEF Die
  <2>2. FilesTypeOK'
    BY <1>1, <2>1, AsleepType DEF FilesTypeOK, SaveStates
  <2>3. CallsMatch'
    BY <1>1, <2>1 DEF FilesTypeOK, CallsMatch, InFlight
  <2>4. SweepSound'
    BY <2>1 DEF SweepSound, Asleep
  <2>5. CitedSafe'
    BY <1>1, <2>1 DEF CitedSafe
  <2>6. QED BY <2>2, <2>3, <2>4, <2>5 DEF FilesInv
<1>5. CASE Spoil
  BY <1>1, <1>5 DEF Spoil, FilesInv, FilesTypeOK, CallsMatch, SweepSound, CitedSafe
<1>6. CASE PutAside
  BY <1>1, <1>6 DEF PutAside, FilesInv, FilesTypeOK, CallsMatch, SweepSound, CitedSafe
<1>7. QED BY <1>2, <1>3, <1>4, <1>5, <1>6

LEMMA FilesStep ==
  ASSUME FilesInv, [FilesNext]_filesVars
  PROVE  FilesInv'
<1>1. CASE UNCHANGED filesVars
  BY <1>1 DEF filesVars, FilesInv, FilesTypeOK, CallsMatch, SweepSound, CitedSafe
<1>2. CASE FilesNext
  BY <1>2, StoreSteps, RegisterStep, DeleteSteps, PruneSteps, SweepSteps, AroundSteps DEF FilesNext
<1>3. QED BY <1>1, <1>2

\* An upload that a chat cites keeps its record and its bytes through every
\* pass of the hygiene job, for any number of files and passes, whatever calls,
\* deletions and crashes come in between, unless its owner deleted it, the job
\* could not read the chats or read them too early, or the registry was spoiled.
THEOREM CitedSurvivesTheorem == FilesSpec => []CitedSurvivesUnlessExcused
<1>1. FilesInv => CitedSurvivesUnlessExcused
  BY DEF FilesInv, CitedSafe, CitedSurvivesUnlessExcused
<1>2. QED BY <1>1, FilesInitially, FilesStep, PTL DEF FilesSpec

----------------------------------------------------------------------------
(* The knowledge base *)

JobStates == {"none", "rereading", "begun", "embedding", "storing", "indexing", "over"}
Working == {"begun", "embedding", "storing", "indexing"}
KbTypeOK ==
  /\ uploads \in SUBSET Uploaded /\ job \in [Uploaded -> JobStates]
  /\ dropping \in [Docs -> {"no", "dropping", "unindexing", "done"}]
  /\ kb \in SUBSET Docs /\ Loaded \in SUBSET Docs

\* A document whose upload is there, or that a deletion is about to drop, or that
\* may outlive its upload.
Accounted(d) == d \in uploads \/ d \in astray \/ dropping[d] = "dropping"

\* The file and the shared object hold accounted documents alone, and differ in
\* stray ones alone; an ingestion that asks no more for its upload has one.
Reckoned ==
  /\ \A d \in kb \cup Loaded : Accounted(d)
  /\ \A d \in Docs \ astray : d \in kb <=> d \in Loaded
  /\ \A d \in Docs : job[d] \in Working => d \in uploads \/ d \in astray
  /\ \A d \in uploads \cap Docs : dropping[d] = "no"

KbInv == KbTypeOK /\ Reckoned

LEMMA KbInitially == KnowledgeInit => KbInv
<1> SUFFICES ASSUME KnowledgeInit PROVE KbInv
  OBVIOUS
<1>1. KbTypeOK
  BY DEF KnowledgeInit, KbTypeOK, JobStates, Loaded
<1>2. Reckoned
  BY DEF KnowledgeInit, Reckoned, Accounted, Loaded, Working, Uploaded
<1>3. QED BY <1>1, <1>2 DEF KbInv

\* What a caller of load_kb leaves behind is what it found.
LEMMA LoadKeeps ==
  ASSUME kb' = kb, mem' = mem \/ mem' = Loaded
  PROVE  Loaded' = Loaded
BY DEF Loaded

\* A step that stores and deletes nothing.
LEMMA KbRests ==
  ASSUME KbInv, UNCHANGED <<uploads, dropping, kb, astray>>, mem' = mem \/ mem' = Loaded,
         job' \in [Uploaded -> JobStates],
         \A d \in Docs : job'[d] \in Working => job[d] \in Working \/ d \in uploads
  PROVE  KbInv'
<1>1. Loaded' = Loaded
  BY LoadKeeps
<1>2. KbTypeOK'
  BY <1>1 DEF KbInv, KbTypeOK
<1>3. Reckoned'
  BY <1>1 DEF KbInv, Reckoned, Accounted
<1>4. QED BY <1>2, <1>3 DEF KbInv

LEMMA SettleEnds ==
  ASSUME KbTypeOK, NEW d, NEW how, Settle(d, how)
  PROVE  /\ job' \in [Uploaded -> JobStates]
         /\ \A e \in Docs : job'[e] \in Working => job[e] \in Working
BY DEF KbTypeOK, Settle, Over, JobStates, Working, Uploaded

LEMMA UploadStep ==
  ASSUME KbInv, NEW d \in Uploaded, Upload(d)
  PROVE  KbInv'
<1>1. KbTypeOK /\ Reckoned
  BY DEF KbInv
<1>2. /\ uploads' = uploads \cup {d} /\ (d \in Docs => dropping[d] = "no")
      /\ UNCHANGED <<dropping, kb, mem, astray>>
  BY DEF Upload
<1>3. job' \in [Uploaded -> JobStates] /\ \A e \in Uploaded : e # d => job'[e] = job[e]
  BY <1>1 DEF Upload, Schedule, KbTypeOK, JobStates
<1>4. Loaded' = Loaded
  BY <1>2, LoadKeeps
<1>5. KbTypeOK'
  BY <1>1, <1>2, <1>3, <1>4 DEF KbTypeOK
<1>6. Reckoned'
  BY <1>1, <1>2, <1>3, <1>4 DEF Reckoned, Accounted, Uploaded
<1>7. QED BY <1>5, <1>6 DEF KbInv

LEMMA IngestionSteps ==
  ASSUME KbInv,
         \/ Drain
         \/ \E d \in Uploaded : Reread(d) \/ IngestElsewhere(d)
         \/ \E d \in Docs : Prepare(d) \/ Embed(d) \/ Index(d)
  PROVE  KbInv'
<1>1. KbTypeOK
  BY DEF KbInv
<1>2. CASE Drain
  <2>1. job' \in [Uploaded -> JobStates] /\ \A e \in Docs : job'[e] \in Working => job[e] \in Working
    BY <1>1, <1>2 DEF Drain, KbTypeOK, JobStates, Working, Uploaded
  <2>2. QED BY <1>2, <2>1, KbRests DEF Drain
<1>3. ASSUME NEW d \in Uploaded, Reread(d) PROVE KbInv'
  <2>1. CASE d \in uploads
    <3>1. job' \in [Uploaded -> JobStates] /\ \A e \in Docs : job'[e] \in Working => job[e] \in Working \/ e \in uploads
      BY <1>1, <1>3, <2>1 DEF Reread, KbTypeOK, JobStates, Working, Uploaded
    <3>2. QED BY <1>3, <3>1, KbRests DEF Reread
  <2>2. CASE d \notin uploads
    BY <1>1, <1>3, <2>2, SettleEnds, KbRests DEF Reread
  <2>3. QED BY <2>1, <2>2
<1>4. ASSUME NEW d \in Uploaded, IngestElsewhere(d) PROVE KbInv'
  BY <1>1, <1>4, SettleEnds, KbRests DEF IngestElsewhere
<1>5. ASSUME NEW d \in Docs, Prepare(d) PROVE KbInv'
  <2>1. mem' = Loaded /\ UNCHANGED <<uploads, dropping, kb, astray>>
    BY <1>5 DEF Prepare
  <2>2. CASE job[d] = "begun" /\ job' = [job EXCEPT ![d] = "embedding"]
    <3>1. job' \in [Uploaded -> JobStates] /\ \A e \in Docs : job'[e] \in Working => job[e] \in Working
      BY <1>1, <2>2 DEF KbTypeOK, JobStates, Working, Uploaded
    <3>2. QED BY <2>1, <3>1, KbRests
  <2>3. CASE Settle(d, "refused")
    BY <1>1, <2>1, <2>3, SettleEnds, KbRests
  <2>4. QED BY <1>5, <2>2, <2>3 DEF Prepare
<1>6. ASSUME NEW d \in Docs, Embed(d) PROVE KbInv'
  <2>1. UNCHANGED <<mem, uploads, dropping, kb, astray>>
    BY <1>6 DEF Embed
  <2>2. CASE job[d] = "embedding" /\ job' = [job EXCEPT ![d] = "storing"]
    <3>1. job' \in [Uploaded -> JobStates] /\ \A e \in Docs : job'[e] \in Working => job[e] \in Working
      BY <1>1, <2>2 DEF KbTypeOK, JobStates, Working, Uploaded
    <3>2. QED BY <2>1, <3>1, KbRests
  <2>3. CASE Settle(d, "refused")
    BY <1>1, <2>1, <2>3, SettleEnds, KbRests
  <2>4. QED BY <1>6, <2>2, <2>3 DEF Embed
<1>7. ASSUME NEW d \in Docs, Index(d) PROVE KbInv'
  <2>1. (mem' = mem \/ mem' = Loaded) /\ UNCHANGED <<uploads, dropping, kb, astray>> /\ Settle(d, "ingested")
    BY <1>7 DEF Index
  <2>2. QED BY <1>1, <2>1, SettleEnds, KbRests
<1>8. QED BY <1>2, <1>3, <1>4, <1>5, <1>6, <1>7

LEMMA StoreStep ==
  ASSUME KbInv, NEW d \in Docs, Store(d)
  PROVE  KbInv'
<1>1. KbTypeOK /\ Reckoned
  BY DEF KbInv
<1>2. job[d] \in Working /\ UNCHANGED <<uploads, dropping>>
  BY DEF Store, Working
<1>3. d \in uploads \/ d \in astray
  BY <1>1, <1>2 DEF Reckoned
<1>4. CASE kb' = Loaded \cup {d} /\ mem' = Unread /\ job' = [job EXCEPT ![d] = "indexing"] /\ astray' = astray
  <2>1. Loaded' = kb'
    BY <1>4 DEF Loaded
  <2>2. job' \in [Uploaded -> JobStates] /\ \A e \in Docs : job'[e] \in Working => job[e] \in Working
    BY <1>1, <1>2, <1>4 DEF KbTypeOK, JobStates, Working, Uploaded
  <2>3. KbTypeOK'
    BY <1>1, <1>2, <1>4, <2>1, <2>2 DEF KbTypeOK
  <2>4. Reckoned'
    BY <1>1, <1>2, <1>3, <1>4, <2>1, <2>2 DEF Reckoned, Accounted
  <2>5. QED BY <2>3, <2>4 DEF KbInv
<1>5. CASE mem' = Loaded \cup {d} /\ astray' = astray \cup {d} /\ Settle(d, "refused") /\ kb' = kb
  <2>1. job' \in [Uploaded -> JobStates] /\ \A e \in Docs : job'[e] \in Working => job[e] \in Working
    BY <1>1, <1>5, SettleEnds
  <2>2. Loaded' = kb \/ Loaded' = Loaded \cup {d}
    BY <1>5 DEF Loaded
  <2>3. KbTypeOK'
    BY <1>1, <1>2, <1>5, <2>1, <2>2 DEF KbTypeOK
  <2>4. Reckoned'
    BY <1>1, <1>2, <1>5, <2>1, <2>2 DEF Reckoned, Accounted
  <2>5. QED BY <2>3, <2>4 DEF KbInv
<1>6. CASE mem' = Loaded /\ Settle(d, "refused") /\ UNCHANGED <<kb, astray>>
  BY <1>1, <1>2, <1>6, SettleEnds, KbRests
<1>7. QED BY <1>4, <1>5, <1>6 DEF Store

LEMMA GoSteps ==
  ASSUME KbInv, NEW d \in Removable, Delete(d) \/ Prune(d)
  PROVE  KbInv'
<1>1. KbTypeOK /\ Reckoned /\ d \in Docs
  BY DocsAssumption DEF KbInv
<1>2. /\ uploads' = uploads \ {d} /\ UNCHANGED <<job, kb, mem>>
      /\ dropping' \in [Docs -> {"no", "dropping", "unindexing", "done"}]
      /\ \A e \in Docs : e # d => dropping'[e] = dropping[e]
  BY <1>1 DEF Delete, Prune, KbTypeOK
<1>3. /\ d \in astray' \/ dropping'[d] = "dropping"
      /\ job[d] \in Working => d \in astray'
  BY <1>1 DEF Delete, Prune, KbTypeOK, InProgress, Working
<1>4. astray \subseteq astray'
  BY DEF Delete, Prune
<1>5. Loaded' = Loaded
  BY <1>2, LoadKeeps
<1>6. KbTypeOK'
  BY <1>1, <1>2, <1>5 DEF KbTypeOK
<1>7. Reckoned'
  BY <1>1, <1>2, <1>3, <1>4, <1>5 DEF Reckoned, Accounted, KbTypeOK
<1>8. QED BY <1>6, <1>7 DEF KbInv

LEMMA DropSteps ==
  ASSUME KbInv, NEW d \in Docs, Drop(d) \/ Unindex(d)
  PROVE  KbInv'
<1>1. KbTypeOK /\ Reckoned
  BY DEF KbInv
<1>2. /\ UNCHANGED <<uploads, job>> /\ dropping[d] # "no"
      /\ dropping' \in [Docs -> {"no", "dropping", "unindexing", "done"}]
      /\ \A e \in Docs : e # d => dropping'[e] = dropping[e]
  BY <1>1 DEF Drop, Unindex, KbTypeOK
<1>3. d \notin uploads
  BY <1>1, <1>2 DEF Reckoned
<1>4. CASE UNCHANGED <<kb, astray>> /\ (d \notin Loaded \/ dropping[d] = "unindexing") /\ (mem' = mem \/ mem' = Loaded)
  <2>1. Loaded' = Loaded
    BY <1>4, LoadKeeps
  <2>2. KbTypeOK'
    BY <1>1, <1>2, <1>4, <2>1 DEF KbTypeOK
  <2>3. d \in kb \cup Loaded => d \in astray
    BY <1>1, <1>3, <1>4 DEF Reckoned, Accounted
  <2>4. Reckoned'
    BY <1>1, <1>2, <1>3, <1>4, <2>1, <2>3 DEF Reckoned, Accounted, KbTypeOK
  <2>5. QED BY <2>2, <2>4 DEF KbInv
<1>5. CASE kb' = Loaded \ {d} /\ mem' = Unread /\ astray' = astray
  <2>1. Loaded' = kb'
    BY <1>5 DEF Loaded
  <2>2. KbTypeOK'
    BY <1>1, <1>2, <1>5, <2>1 DEF KbTypeOK
  <2>3. Reckoned'
    BY <1>1, <1>2, <1>3, <1>5, <2>1 DEF Reckoned, Accounted, KbTypeOK
  <2>4. QED BY <2>2, <2>3 DEF KbInv
<1>6. CASE mem' = Loaded \ {d} /\ astray' = astray \cup {d} /\ kb' = kb
  <2>1. Loaded' = kb \/ Loaded' = Loaded \ {d}
    BY <1>6 DEF Loaded
  <2>2. KbTypeOK'
    BY <1>1, <1>2, <1>6, <2>1 DEF KbTypeOK
  <2>3. Reckoned'
    BY <1>1, <1>2, <1>3, <1>6, <2>1 DEF Reckoned, Accounted, KbTypeOK
  <2>4. QED BY <2>2, <2>3 DEF KbInv
<1>7. QED BY <1>4, <1>5, <1>6 DEF Drop, Unindex

LEMMA FailStep ==
  ASSUME KbInv, Fail
  PROVE  KbInv'
<1>1. KbTypeOK /\ Reckoned
  BY DEF KbInv
<1>2. /\ job' = Over({d \in Uploaded : job[d] # "none"}) /\ mem' = Unread /\ UNCHANGED <<uploads, kb>>
      /\ astray' = astray \cup {d \in Docs : dropping[d] = "dropping"}
      /\ dropping' = [d \in Docs |-> IF dropping[d] = "no" THEN "no" ELSE "done"]
  BY DEF Fail
<1>3. Loaded' = kb
  BY <1>2 DEF Loaded
<1>4. job' \in [Uploaded -> JobStates] /\ \A d \in Docs : job'[d] \notin Working
  BY <1>1, <1>2 DEF Over, KbTypeOK, JobStates, Working, Uploaded
<1>5. KbTypeOK'
  BY <1>1, <1>2, <1>3, <1>4 DEF KbTypeOK
<1>6. Reckoned'
  BY <1>1, <1>2, <1>3, <1>4 DEF Reckoned, Accounted, KbTypeOK
<1>7. QED BY <1>5, <1>6 DEF KbInv

LEMMA KbInvStep ==
  ASSUME KbInv, [KnowledgeNext]_kbVars
  PROVE  KbInv'
<1>1. KbTypeOK
  BY DEF KbInv
<1>2. CASE UNCHANGED <<uploads, dropping, kb, astray, job>> /\ (mem' = mem \/ mem' = Loaded)
  BY <1>1, <1>2, KbRests DEF KbTypeOK
<1>3. CASE Ask \/ SearchStep \/ SpoilIndex \/ \E who \in Docs \cup {Search} : BuildStep(who)
  <2>1. UNCHANGED <<uploads, dropping, kb, astray, job>> /\ (mem' = mem \/ mem' = Loaded)
    BY <1>3 DEF Ask, SearchStep, LoadForSearch, Answer, SpoilIndex, BuildStep, TakeCacheLock, Build
  <2>2. QED BY <1>2, <2>1
<1>4. CASE UNCHANGED kbVars
  BY <1>2, <1>4 DEF kbVars
<1>5. QED
  BY <1>3, <1>4, UploadStep, IngestionSteps, StoreStep, GoSteps, DropSteps, FailStep DEF KnowledgeNext, KbStep

\* The vectors of a deleted document go with it, for any number of documents,
\* threads, slots and failures, unless its ingestion was under way, its removal
\* failed or the hygiene job deleted it.
THEOREM NoZombieTheorem == KnowledgeSpec => []NoZombieUnlessAstray
<1>1. KbInv => NoZombieUnlessAstray
  BY DEF KbInv, Reckoned, Accounted, NoZombieUnlessAstray
<1>2. QED BY <1>1, KbInitially, KbInvStep, PTL DEF KnowledgeSpec

----------------------------------------------------------------------------
(* What a search cites *)

Searches == [at : {"idle", "loading", "indexing"}, valid : SUBSET Uploaded, docs : SUBSET Docs, wrong : SUBSET Docs]
CitesTheLiving == asked \in Searches /\ asked.wrong = {}

LEMMA NoSearchType == NoSearch \in Searches /\ NoSearch.wrong = {}
BY DEF NoSearch, Searches

LEMMA CitesStep ==
  ASSUME KbInv, CitesTheLiving, [KnowledgeNext]_kbVars
  PROVE  CitesTheLiving'
<1>1. uploads \in SUBSET Uploaded /\ Loaded \in SUBSET Docs
  BY DEF KbInv, KbTypeOK
<1>2. CASE Ask
  BY <1>1, <1>2 DEF Ask, CitesTheLiving, NoSearch, Searches
<1>3. CASE LoadForSearch
  BY <1>1, <1>3 DEF LoadForSearch, CitesTheLiving, Searches
<1>4. CASE Answer
  <2>1. PICK hits \in Findings : asked' = [NoSearch EXCEPT !.wrong = hits \ asked.valid]
    BY <1>4 DEF Answer
  <2>2. hits \ asked.valid = {}
    BY <2>1 DEF Findings
  <2>3. QED BY <2>1, <2>2, NoSearchType DEF CitesTheLiving, NoSearch
<1>5. CASE Fail
  BY <1>5, NoSearchType DEF Fail, CitesTheLiving
<1>6. CASE asked' = asked
  BY <1>6 DEF CitesTheLiving
<1>7. ASSUME NEW d \in Uploaded, Upload(d) \/ Reread(d) \/ IngestElsewhere(d) PROVE asked' = asked
  BY <1>7 DEF Upload, Reread, IngestElsewhere
<1>8. ASSUME NEW d \in Removable, Delete(d) \/ Prune(d) PROVE asked' = asked
  BY <1>8 DEF Delete, Prune
<1>9. ASSUME NEW d \in Docs, KbStep(d) PROVE asked' = asked
  BY <1>9 DEF KbStep, Prepare, Embed, Store, Index, Drop, Unindex
<1>10. ASSUME NEW who \in Docs \cup {Search}, BuildStep(who) PROVE asked' = asked
  BY <1>10 DEF BuildStep, TakeCacheLock, Build
<1>11. CASE Drain \/ SpoilIndex \/ UNCHANGED kbVars
  BY <1>6, <1>11 DEF Drain, SpoilIndex, kbVars
<1>12. QED
  BY <1>2, <1>3, <1>4, <1>5, <1>6, <1>7, <1>8, <1>9, <1>10, <1>11 DEF KnowledgeNext, SearchStep

\* A search never cites a document that was deleted before the search began,
\* whatever the index and the vectors still hold of it.
THEOREM NeverCitesTheorem == KnowledgeSpec => []NeverCitesTheDeleted
<1>1. KnowledgeInit => CitesTheLiving
  BY NoSearchType DEF KnowledgeInit, CitesTheLiving
<1>2. CitesTheLiving => NeverCitesTheDeleted
  BY DEF CitesTheLiving, NeverCitesTheDeleted
<1>3. QED BY <1>1, <1>2, KbInitially, KbInvStep, CitesStep, PTL DEF KnowledgeSpec

----------------------------------------------------------------------------
(* Generated files *)

Clerk == [at : {"idle", "make", "list", "said"}, before : SUBSET Nat, said : Nat,
          alone : BOOLEAN, blind : BOOLEAN]
Output == [id : Nat, by : Clerks \cup {NoClerk}]
DeskTypeOK ==
  /\ made \in Nat /\ outputs \in SUBSET Output
  /\ \A o \in outputs : o.id <= made
  /\ clerk \in [Clerks -> Clerk]

\* Who was alone from its first list on knows all the files but its own.
Sees(c) ==
  /\ clerk[c].at = "make" => \A o \in outputs : o.id \in clerk[c].before
  /\ clerk[c].at = "list" => \A o \in outputs : o.id \in clerk[c].before \/ o.by = c
  /\ clerk[c].at = "said" => clerk[c].said <= made /\ \A o \in outputs : o.id = clerk[c].said => o.by = c
DeskInv == DeskTypeOK /\ \A c \in Clerks : clerk[c].alone /\ ~clerk[c].blind => Sees(c)

\* A bounded set of numbers has a greatest.
LEMMA GreatestThere ==
  ASSUME NEW S \in SUBSET Nat, S # {}, NEW n \in Nat, \A x \in S : x <= n
  PROVE  Max(S) \in S
<1> DEFINE T == {n - x : x \in S}
<1>1. T \subseteq Nat /\ T # {}
  <2>1. \A x \in S : n - x \in Nat
    OBVIOUS
  <2>2. PICK x \in S : TRUE
    OBVIOUS
  <2>3. n - x \in T
    BY <2>2
  <2>4. QED BY <2>1, <2>3
<1>2. PICK t \in T : \A u \in T : ~(<<u, t>> \in OpToRel(<, Nat))
  <2> HIDE DEF T
  <2>1. QED BY <1>1, NatLessThanWellFounded, WFMin
<1>3. \A u \in T : ~(u < t)
  BY <1>1, <1>2 DEF OpToRel
<1>4. PICK x \in S : t = n - x
  BY <1>2
<1>5. \A y \in S : x >= y
  <2> SUFFICES ASSUME NEW y \in S PROVE x >= y
    OBVIOUS
  <2>1. n - y \in T
    OBVIOUS
  <2> HIDE DEF T
  <2>2. ~(n - y < n - x)
    BY <1>3, <1>4, <2>1
  <2>3. \A a, b, c \in Int : ~(c - b < c - a) => a >= b
    OBVIOUS
  <2>4. x \in Int /\ y \in Int /\ n \in Int
    OBVIOUS
  <2>5. QED BY <2>2, <2>3, <2>4
<1>6. QED BY <1>5 DEF Max

LEMMA IdleType == Idle \in Clerk /\ Idle.at = "idle"
BY DEF Idle, Clerk

LEMMA ClerkType ==
  ASSUME NEW k \in Clerk
  PROVE  /\ k.at \in {"idle", "make", "list", "said"} /\ k.before \in SUBSET Nat /\ k.said \in Nat
         /\ k.alone \in BOOLEAN /\ k.blind \in BOOLEAN
         /\ [k EXCEPT !.alone = FALSE] \in Clerk
         /\ [k EXCEPT !.at = "list"] \in Clerk
         /\ \A before \in SUBSET Nat, alone \in BOOLEAN :
              [k EXCEPT !.at = "make", !.before = before, !.alone = alone] \in Clerk
         /\ \A n \in Nat : [k EXCEPT !.at = "said", !.said = n] \in Clerk
BY DEF Clerk

LEMMA DeskInitially == DeskInit => DeskInv
<1> SUFFICES ASSUME DeskInit PROVE DeskInv
  OBVIOUS
<1>1. DeskTypeOK
  BY IdleType DEF DeskInit, DeskTypeOK
<1>2. \A c \in Clerks : Sees(c)
  BY IdleType DEF DeskInit, Sees
<1>3. QED BY <1>1, <1>2 DEF DeskInv

LEMMA CrowdType ==
  ASSUME DeskTypeOK, NEW c
  PROVE  /\ Crowd(c) \in [Clerks -> Clerk]
         /\ \A d \in Clerks : d # c /\ clerk[d].at \in {"make", "list"} => Crowd(c)[d].alone = FALSE
         /\ \A d \in Clerks : d = c \/ clerk[d].at \notin {"make", "list"} => Crowd(c)[d] = clerk[d]
<1>1. \A d \in Clerks : clerk[d] \in Clerk /\ [clerk[d] EXCEPT !.alone = FALSE] \in Clerk
                        /\ [clerk[d] EXCEPT !.alone = FALSE].alone = FALSE
  <2> SUFFICES ASSUME NEW d \in Clerks
               PROVE  clerk[d] \in Clerk /\ [clerk[d] EXCEPT !.alone = FALSE] \in Clerk
                      /\ [clerk[d] EXCEPT !.alone = FALSE].alone = FALSE
    OBVIOUS
  <2>1. clerk[d] \in Clerk
    BY DEF DeskTypeOK
  <2>2. [clerk[d] EXCEPT !.alone = FALSE].alone = FALSE
    BY <2>1 DEF Clerk
  <2>3. QED BY <2>1, <2>2, ClerkType
<1>2. QED BY <1>1 DEF Crowd

\* One clerk goes on, and at most files go.
LEMMA ClerkMoves ==
  ASSUME DeskInv, NEW c \in Clerks, NEW state \in Clerk, Become(c, state),
         made' = made, outputs' \subseteq outputs, state.alone /\ ~state.blind => Sees(c)'
  PROVE  DeskInv'
<1>1. DeskTypeOK'
  BY DEF DeskInv, DeskTypeOK, Become
<1>2. clerk'[c] = state /\ \A d \in Clerks : d # c => clerk'[d] = clerk[d]
  BY DEF DeskInv, DeskTypeOK, Become
<1>3. ASSUME NEW d \in Clerks, d # c, Sees(d) PROVE Sees(d)'
  BY <1>2, <1>3 DEF Sees
<1>4. QED BY <1>1, <1>2, <1>3 DEF DeskInv

\* Another file appears; whoever was between its lists is alone no more.
LEMMA FileAppears ==
  ASSUME DeskInv, NEW c \in Clerks \cup {NoClerk}, made' = made + 1,
         outputs' = outputs \cup {[id |-> made + 1, by |-> c]},
         clerk' \in [Clerks -> Clerk],
         \A d \in Clerks : d # c => clerk'[d] = Crowd(c)[d],
         c \in Clerks => clerk[c].at = "make" /\ clerk'[c] = [clerk[c] EXCEPT !.at = "list"]
  PROVE  DeskInv'
<1>1. DeskTypeOK
  BY DEF DeskInv
<1>2. DeskTypeOK'
  <2>1. [id |-> made + 1, by |-> c] \in Output
    BY <1>1 DEF DeskTypeOK, Output
  <2>2. \A o \in outputs : o.id \in Nat
    BY <1>1 DEF DeskTypeOK, Output
  <2>3. QED BY <1>1, <2>1, <2>2 DEF DeskTypeOK
<1>3. ASSUME NEW d \in Clerks, d # c, clerk'[d].alone, ~clerk'[d].blind PROVE Sees(d)'
  <2>1. clerk'[d] = clerk[d] /\ clerk[d].at \notin {"make", "list"}
    BY <1>1, <1>3, CrowdType
  <2>2. Sees(d)
    BY <1>3, <2>1 DEF DeskInv
  <2>3. clerk[d].said \in Nat
    BY <1>1, ClerkType DEF DeskTypeOK
  <2>4. QED BY <1>1, <2>1, <2>2, <2>3 DEF Sees, DeskTypeOK
<1>4. ASSUME c \in Clerks, clerk'[c].alone, ~clerk'[c].blind PROVE Sees(c)'
  <2>1. clerk[c] \in Clerk
    BY <1>1, <1>4 DEF DeskTypeOK
  <2>2. /\ clerk'[c].at = "list" /\ clerk'[c].before = clerk[c].before
        /\ clerk'[c].alone = clerk[c].alone /\ clerk'[c].blind = clerk[c].blind
    BY <1>4, <2>1 DEF Clerk
  <2>3. \A o \in outputs : o.id \in clerk[c].before
    BY <1>4, <2>2 DEF DeskInv, Sees
  <2>4. QED BY <2>2, <2>3 DEF Sees
<1>5. QED BY <1>2, <1>3, <1>4 DEF DeskInv

LEMMA ListBeforeStep ==
  ASSUME DeskInv, NEW c \in Clerks, ListBefore(c)
  PROVE  DeskInv'
<1>1. DeskTypeOK /\ Listed \in SUBSET Nat
  BY DEF DeskInv, DeskTypeOK, Listed, Output
<1>2. made' = made /\ outputs' = outputs
  BY DEF ListBefore
<1>3. ASSUME NEW alone \in BOOLEAN, Become(c, [Idle EXCEPT !.at = "make", !.before = Listed, !.alone = alone])
      PROVE  DeskInv'
  <2> DEFINE state == [Idle EXCEPT !.at = "make", !.before = Listed, !.alone = alone]
  <2>1. state \in Clerk
    BY <1>1, IdleType, ClerkType
  <2>2. state.at = "make" /\ state.before = Listed
    BY DEF Idle
  <2> HIDE DEF state
  <2>3. clerk'[c] = state
    BY <1>1, <1>3 DEF Become, DeskTypeOK, state
  <2>4. \A o \in outputs : o.id \in Listed
    BY DEF Listed
  <2>5. Sees(c)'
    BY <1>2, <2>2, <2>3, <2>4 DEF Sees
  <2>6. QED BY <1>2, <1>3, <2>1, <2>5, ClerkMoves DEF state
<1>4. CASE Become(c, [Idle EXCEPT !.at = "make", !.blind = TRUE])
  <2> DEFINE state == [Idle EXCEPT !.at = "make", !.blind = TRUE]
  <2>1. state \in Clerk /\ state.blind
    BY DEF Clerk, Idle
  <2> HIDE DEF state
  <2>2. QED BY <1>2, <1>4, <2>1, ClerkMoves DEF state
<1>5. QED
  <2> DEFINE alone == \A d \in Clerks : clerk[d].at \notin {"make", "list"}
  <2>1. alone \in BOOLEAN
    OBVIOUS
  <2>2. \/ Become(c, [Idle EXCEPT !.at = "make", !.before = Listed, !.alone = alone])
        \/ Become(c, [Idle EXCEPT !.at = "make", !.blind = TRUE])
    BY DEF ListBefore
  <2> HIDE DEF alone
  <2>3. QED BY <1>3, <1>4, <2>1, <2>2

LEMMA MakeStep ==
  ASSUME DeskInv, NEW c \in Clerks, Make(c)
  PROVE  DeskInv'
<1>1. DeskTypeOK
  BY DEF DeskInv
<1>2. CASE Become(c, Idle) /\ UNCHANGED <<outputs, made>>
  <2>1. clerk'[c] = Idle
    BY <1>1, <1>2 DEF Become, DeskTypeOK
  <2>2. Sees(c)'
    BY <2>1, IdleType DEF Sees
  <2>3. QED BY <1>2, <2>2, IdleType, ClerkMoves
<1>3. CASE /\ made' = made + 1 /\ outputs' = outputs \cup {[id |-> made + 1, by |-> c]}
           /\ clerk' = [Crowd(c) EXCEPT ![c].at = "list"]
  <2>1. Crowd(c) \in [Clerks -> Clerk] /\ Crowd(c)[c] = clerk[c]
    BY <1>1, CrowdType
  <2>2. clerk[c] \in Clerk /\ clerk[c].at = "make"
    BY <1>1 DEF DeskTypeOK, Make
  <2>3. clerk' = [Crowd(c) EXCEPT ![c] = [clerk[c] EXCEPT !.at = "list"]]
    BY <1>3, <2>1
  <2>4. clerk' \in [Clerks -> Clerk] /\ clerk'[c] = [clerk[c] EXCEPT !.at = "list"]
        /\ \A d \in Clerks : d # c => clerk'[d] = Crowd(c)[d]
    BY <2>1, <2>2, <2>3, ClerkType
  <2>5. QED BY <1>3, <2>2, <2>4, FileAppears
<1>4. QED BY <1>2, <1>3 DEF Make

LEMMA AnswerFileStep ==
  ASSUME DeskInv, NEW c \in Clerks, AnswerFile(c)
  PROVE  DeskInv'
<1>1. DeskTypeOK /\ clerk[c] \in Clerk
  BY DEF DeskInv, DeskTypeOK
<1>2. clerk[c].at = "list" /\ made' = made /\ outputs' = outputs
  BY DEF AnswerFile
<1>3. CASE Become(c, Idle)
  <2>1. clerk'[c] = Idle
    BY <1>1, <1>3 DEF Become, DeskTypeOK
  <2>2. Sees(c)'
    BY <2>1, IdleType DEF Sees
  <2>3. QED BY <1>2, <1>3, <2>2, IdleType, ClerkMoves
<1>4. CASE FreshOutputs(c) # {} /\ Become(c, [clerk[c] EXCEPT !.at = "said", !.said = Max(FreshOutputs(c))])
  <2> DEFINE n == Max(FreshOutputs(c))
             state == [clerk[c] EXCEPT !.at = "said", !.said = n]
  <2>1. FreshOutputs(c) \in SUBSET Nat /\ \A x \in FreshOutputs(c) : x <= made
    BY <1>1 DEF FreshOutputs, Listed, DeskTypeOK, Output
  <2>2. n \in FreshOutputs(c)
    BY <1>1, <1>4, <2>1, GreatestThere DEF DeskTypeOK
  <2>3. n \in Nat /\ n <= made /\ n \notin clerk[c].before
    BY <2>1, <2>2 DEF FreshOutputs
  <2> HIDE DEF n
  <2>4. state \in Clerk
    BY <1>1, <2>3, ClerkType
  <2>5. state.at = "said" /\ state.said = n /\ state.alone = clerk[c].alone /\ state.blind = clerk[c].blind
    BY <1>1 DEF Clerk
  <2>6. Become(c, state)
    BY <1>4 DEF n
  <2> HIDE DEF state
  <2>7. clerk'[c] = state
    BY <1>1, <2>6 DEF Become, DeskTypeOK
  <2>8. ASSUME state.alone, ~state.blind PROVE Sees(c)'
    <3>1. \A o \in outputs : o.id \in clerk[c].before \/ o.by = c
      BY <1>2, <2>5, <2>8 DEF DeskInv, Sees
    <3>2. QED BY <1>2, <2>3, <2>5, <2>7, <3>1 DEF Sees
  <2>9. QED BY <1>2, <2>4, <2>6, <2>8, ClerkMoves
<1>5. QED BY <1>3, <1>4 DEF AnswerFile

LEMMA DeskStep ==
  ASSUME DeskInv, [DeskNext]_deskVars
  PROVE  DeskInv'
<1>1. DeskTypeOK
  BY DEF DeskInv
<1>2. ASSUME clerk' = clerk, made' = made, outputs' \subseteq outputs PROVE DeskInv'
  BY <1>2 DEF DeskInv, DeskTypeOK, Sees
<1>3. CASE UNCHANGED deskVars \/ UNCHANGED deskFiles
  BY <1>2, <1>3 DEF deskVars, deskFiles
<1>4. CASE DeleteOutputs \/ \E o \in outputs : DeleteOutput(o)
  BY <1>2, <1>4 DEF DeleteOutputs, DeleteOutput
<1>5. ASSUME NEW c \in Clerks, ClerkDone(c) PROVE DeskInv'
  <2>1. Become(c, Idle) /\ made' = made /\ outputs' = outputs
    BY <1>5 DEF ClerkDone
  <2>2. clerk'[c] = Idle
    BY <1>1, <2>1 DEF Become, DeskTypeOK
  <2>3. Sees(c)'
    BY <2>2, IdleType DEF Sees
  <2>4. QED BY <2>1, <2>3, IdleType, ClerkMoves
<1>6. CASE TurnMakes
  <2>1. clerk' = Crowd(NoClerk)
    BY <1>6 DEF TurnMakes
  <2>2. clerk' \in [Clerks -> Clerk]
    BY <1>1, <2>1, CrowdType
  <2>3. NoClerk \notin Clerks
    BY DeskBounds
  <2>4. QED BY <1>6, <2>1, <2>2, <2>3, FileAppears DEF TurnMakes
<1>7. CASE \/ \E b \in BOOLEAN : Converse(b)
           \/ OpenOther \/ FileBrief
           \/ \E p \in Folders : CreateFolder(p) \/ ArchiveFolder(p)
           \/ \E i \in DOMAIN messages, p \in Folders \cup {Personal} : CheckBrief(i, p)
           \/ \E k \in DOMAIN briefs : DeleteBrief(k)
  <2>1. UNCHANGED deskFiles
    BY <1>7 DEF Converse, OpenOther, FileBrief, CreateFolder, ArchiveFolder, CheckBrief, DeleteBrief
  <2>2. QED BY <1>3, <2>1
<1>8. QED BY <1>3, <1>4, <1>5, <1>6, <1>7, ListBeforeStep, MakeStep, AnswerFileStep DEF DeskNext

\* A request that asked for a file answers with the file it made, for any number
\* of requests, files, turns and deletions, unless another file was made between
\* its two lists or it could not read the first one.
THEOREM AnswersWithItsOwnTheorem == DeskSpec => []AnswersWithItsOwnUnlessBeside
<1>1. DeskInv => AnswersWithItsOwnUnlessBeside
  BY DEF DeskInv, Sees, AnswersWithItsOwnUnlessBeside
<1>2. QED BY <1>1, DeskInitially, DeskStep, PTL DEF DeskSpec
=============================================================================
