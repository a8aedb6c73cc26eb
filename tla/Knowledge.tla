----------------------------- MODULE Knowledge -----------------------------
(***************************************************************************)
(* A user's knowledge base: the ingestion of uploads                       *)
(* (services/kb_ingest.py, routers/uploads.py), the vectors in kb.json     *)
(* (services/kb.py) and the index built beside them                        *)
(* (services/kb_index.py).  Large files are ingested by threads that each  *)
(* hold one of a few slots; what finds no slot waits in a short backlog    *)
(* that the scheduler drains.                                              *)
(*                                                                         *)
(* Two locks meet here: that of kb.json and that of the cache of indexes.  *)
(***************************************************************************)
EXTENDS Integers, Sequences, FiniteSets

CONSTANTS
  Docs,        \* one user's uploads with text to index
  Others,      \* uploads of other users: they share the slots and the backlog
  Large,       \* those of more than 512 KB
  Removable,   \* those that may be deleted or pruned (bounds the model)
  Slots,       \* _KB_INGEST_SLOTS
  BacklogMax,  \* _KB_BACKLOG_MAX
  KbMaxDocs,   \* KB_MAX_DOCS_PER_USER
  MaxSlips     \* bound on failures, crashes and spoiled index files

Uploaded == Docs \cup Others

ASSUME DocsAssumption == Docs \cap Others = {} /\ Large \subseteq Uploaded /\ Removable \subseteq Docs
ASSUME KbBoundsAssumption ==
  Slots \in Nat \ {0} /\ BacklogMax \in Nat \ {0} /\ KbMaxDocs \in Nat /\ MaxSlips \in Nat

Nobody == "nobody"
Search == "search"
Unread == {"unread"}     \* stands for a cache entry, or an index object, that is not there
Bad == {"bad"}           \* an index file that cannot be read, or has another dimension

VARIABLES
  uploads,   \* the uploads that exist
  job,       \* each document's ingestion
  slotted,   \* the ingestions that hold a slot
  backlog,   \* the ingestions that found none
  outcome,   \* how each document's ingestion ended, "open" while it has not
  dropping,  \* where each deletion is
  kb,        \* the documents in kb.json
  mem,       \* the parsed kb.json that load_kb shares with its callers
  kbLock,    \* who holds the lock of kb.json between two steps
  idxFile,   \* the documents in the index file
  idx,       \* the documents in the cached index
  cacheLock, \* who holds _cache_lock between two steps
  asked,     \* the search under way
  slips,
  astray     \* ghost: documents that may outlive their upload

kbVars == <<uploads, job, slotted, backlog, outcome, dropping, kb, mem, kbLock, idxFile, idx,
            cacheLock, asked, slips, astray>>

\* wrong is a ghost: what the last search cited although it was gone before.
NoSearch == [at |-> "idle", valid |-> {}, docs |-> {}, wrong |-> {}]

KnowledgeInit ==
  /\ uploads = {} /\ job = [d \in Uploaded |-> "none"] /\ slotted = {} /\ backlog = <<>>
  /\ outcome = [d \in Docs |-> "open"] /\ dropping = [d \in Docs |-> "no"]
  /\ kb = {} /\ mem = Unread /\ kbLock = Nobody
  /\ idxFile = Unread /\ idx = Unread /\ cacheLock = Nobody
  /\ asked = NoSearch /\ slips = 0 /\ astray = {}

Slip == slips < MaxSlips /\ slips' = slips + 1
Members(q) == {q[i] : i \in DOMAIN q}

\* load_kb: the cached object when kb.json has not changed, else the file, which
\* takes the file's lock.  The callers change the object they get in place.
CanLoad == mem # Unread \/ kbLock = Nobody
Loaded == IF mem = Unread THEN kb ELSE mem

\* How the ingestions of some documents ended; those of other users are forgotten.
Ended(S, how) == [d \in Docs |-> IF d \in S THEN how ELSE outcome[d]]
Over(S) == [d \in Uploaded |-> IF d \in S THEN IF d \in Docs THEN "over" ELSE "none" ELSE job[d]]

\* The thread's last act, whatever happened: its slot comes back.
Settle(d, how) ==
  /\ job' = Over({d}) /\ slotted' = slotted \ {d} /\ outcome' = Ended({d}, how)

----------------------------------------------------------------------------
(* Ingestion.                                                              *)

\* schedule_kb_ingest and _enqueue_backlog: a slot, or the end of the backlog,
\* from which the oldest entry falls when it is full.
Schedule(d) ==
  IF Cardinality(slotted) < Slots
  THEN /\ job' = [job EXCEPT ![d] = "begun"] /\ slotted' = slotted \cup {d}
       /\ UNCHANGED <<backlog, outcome>>
  ELSE /\ IF Len(backlog) >= BacklogMax
          THEN backlog' = Append(Tail(backlog), d) /\ outcome' = Ended({Head(backlog)}, "dropped")
          ELSE backlog' = Append(backlog, d) /\ UNCHANGED outcome
       /\ UNCHANGED <<job, slotted>>

\* upload: a small file is ingested by the request itself, without a slot.
Upload(d) ==
  /\ d \notin uploads /\ (d \in Docs => dropping[d] = "no")
  /\ uploads' = uploads \cup {d}
  /\ IF d \in Large THEN Schedule(d)
     ELSE job' = [job EXCEPT ![d] = "begun"] /\ UNCHANGED <<slotted, backlog, outcome>>
  /\ UNCHANGED <<dropping, kb, mem, kbLock, idxFile, idx, cacheLock, asked, slips, astray>>

\* Seeded fault: an entry that finds no slot is not put back.
FaultyDrain ==
  /\ backlog # <<>>
  /\ backlog' = Tail(backlog)
  /\ IF Cardinality(slotted) < Slots
     THEN /\ job' = [job EXCEPT ![Head(backlog)] = "rereading"]
          /\ slotted' = slotted \cup {Head(backlog)}
     ELSE UNCHANGED <<job, slotted>>
  /\ UNCHANGED <<uploads, outcome, dropping, kb, mem, kbLock, idxFile, idx, cacheLock, asked, slips, astray>>
\* drain_backlog: the oldest entry is taken out and, without a slot, put back.
Drain ==
  /\ backlog # <<>> /\ Cardinality(slotted) < Slots
  /\ backlog' = Tail(backlog)
  /\ job' = [job EXCEPT ![Head(backlog)] = "rereading"]
  /\ slotted' = slotted \cup {Head(backlog)}
  /\ UNCHANGED <<uploads, outcome, dropping, kb, mem, kbLock, idxFile, idx, cacheLock, asked, slips, astray>>

\* _reingest_worker reads the bytes again; an upload that is gone is skipped.
Reread(d) ==
  /\ job[d] = "rereading"
  /\ IF d \in uploads
     THEN job' = [job EXCEPT ![d] = "begun"] /\ UNCHANGED <<slotted, outcome>>
     ELSE Settle(d, "skipped")
  /\ UNCHANGED <<uploads, backlog, dropping, kb, mem, kbLock, idxFile, idx, cacheLock, asked, slips, astray>>

\* Another user's ingestion touches that user's knowledge base only.
IngestElsewhere(d) ==
  /\ d \in Others /\ job[d] = "begun"
  /\ Settle(d, "ingested")
  /\ UNCHANGED <<uploads, backlog, dropping, kb, mem, kbLock, idxFile, idx, cacheLock, asked, slips, astray>>

\* Room for d, an old version of it not counted.
HasRoom(d, docs) == d \in docs \/ Cardinality(docs) < KbMaxDocs

\* ingest_document up to the embedding: extraction, and the caps, looked at before
\* the embedding quota is spent.
Prepare(d) ==
  /\ job[d] = "begun" /\ kbLock = Nobody
  /\ mem' = Loaded
  /\ \/ HasRoom(d, Loaded) /\ job' = [job EXCEPT ![d] = "embedding"] /\ UNCHANGED <<slotted, outcome, slips>>
     \/ ~HasRoom(d, Loaded) /\ Settle(d, "refused") /\ UNCHANGED slips
     \/ Slip /\ Settle(d, "refused")
  /\ UNCHANGED <<uploads, backlog, dropping, kb, kbLock, idxFile, idx, cacheLock, asked, astray>>

Embed(d) ==
  /\ job[d] = "embedding"
  /\ \/ job' = [job EXCEPT ![d] = "storing"] /\ UNCHANGED <<slotted, outcome, slips>>
     \/ Slip /\ Settle(d, "refused")
  /\ UNCHANGED <<uploads, backlog, dropping, kb, mem, kbLock, idxFile, idx, cacheLock, asked, astray>>

\* The vectors are stored in the shared object and saved, and the lock is kept
\* for the index.  A save that fails leaves the document in the object.  Nobody
\* asks whether the upload still exists.
Store(d) ==
  /\ job[d] = "storing" /\ kbLock = Nobody
  /\ \/ /\ HasRoom(d, Loaded)
        /\ kb' = Loaded \cup {d} /\ mem' = Unread
        /\ kbLock' = d /\ job' = [job EXCEPT ![d] = "indexing"]
        /\ UNCHANGED <<slotted, outcome, slips, astray>>
     \/ /\ HasRoom(d, Loaded) /\ Slip
        /\ mem' = Loaded \cup {d} /\ astray' = astray \cup {d}
        /\ Settle(d, "refused") /\ UNCHANGED <<kb, kbLock>>
     \/ /\ ~HasRoom(d, Loaded)
        /\ mem' = Loaded /\ Settle(d, "refused") /\ UNCHANGED <<kb, kbLock, slips, astray>>
  /\ UNCHANGED <<uploads, backlog, dropping, idxFile, idx, cacheLock, asked>>

\* KBIndex: the index file's content, or, when it cannot be read, what kb.json
\* holds; without a file, nothing.
Built == IF idxFile = Bad THEN Loaded ELSE IF idxFile = Unread THEN {} ELSE idxFile
Current == IF idx = Unread THEN Built ELSE idx

\* get_index and add_chunks, with the lock of kb.json still held (a rebuild reads
\* kb.json under it).  The library may refuse to add: the file then stays as it was.
Index(d) ==
  /\ job[d] = "indexing" /\ cacheLock = Nobody
  /\ kbLock' = Nobody
  /\ \/ idx' = Current \cup {d} /\ idxFile' = Current \cup {d}
     \/ idx' = Current /\ idxFile' = IF idx = Unread /\ idxFile = Bad THEN Built ELSE idxFile
  /\ mem' = IF idx = Unread /\ idxFile = Bad THEN Loaded ELSE mem
  /\ Settle(d, "ingested")
  /\ UNCHANGED <<uploads, backlog, dropping, kb, cacheLock, asked, slips, astray>>

----------------------------------------------------------------------------
(* Deletion: the upload, then drop_document.                                *)

InProgress(d) == job[d] \in {"rereading", "begun", "embedding", "storing", "indexing"}
Pending(d) == InProgress(d) \/ d \in Members(backlog)

Delete(d) ==
  /\ d \in uploads
  /\ uploads' = uploads \ {d} /\ dropping' = [dropping EXCEPT ![d] = "dropping"]
  /\ astray' = IF InProgress(d) THEN astray \cup {d} ELSE astray
  /\ UNCHANGED <<job, slotted, backlog, outcome, kb, mem, kbLock, idxFile, idx, cacheLock, asked, slips>>

\* The hygiene job deletes an old upload; its vectors stay.
Prune(d) ==
  /\ d \in uploads /\ outcome[d] # "open"
  /\ uploads' = uploads \ {d} /\ dropping' = [dropping EXCEPT ![d] = "done"]
  /\ astray' = astray \cup {d}
  /\ UNCHANGED <<job, slotted, backlog, outcome, kb, mem, kbLock, idxFile, idx, cacheLock, asked, slips>>

\* Seeded fault: a document is looked for in the index alone.
FaultyDrop(d) ==
  /\ dropping[d] = "dropping"
  /\ dropping' = [dropping EXCEPT ![d] = "unindexing"]
  /\ UNCHANGED <<uploads, job, slotted, backlog, outcome, kb, mem, kbLock, idxFile, idx, cacheLock, asked, slips, astray>>
Drop(d) ==
  /\ dropping[d] = "dropping" /\ kbLock = Nobody
  /\ \/ /\ d \notin Loaded
        /\ mem' = Loaded /\ dropping' = [dropping EXCEPT ![d] = "done"]
        /\ UNCHANGED <<kb, slips, astray>>
     \/ /\ d \in Loaded
        /\ kb' = Loaded \ {d} /\ mem' = Unread /\ dropping' = [dropping EXCEPT ![d] = "unindexing"]
        /\ UNCHANGED <<slips, astray>>
     \/ /\ d \in Loaded /\ Slip
        /\ mem' = Loaded \ {d} /\ dropping' = [dropping EXCEPT ![d] = "done"]
        /\ astray' = astray \cup {d} /\ UNCHANGED kb
  /\ UNCHANGED <<uploads, job, slotted, backlog, outcome, kbLock, idxFile, idx, cacheLock, asked>>

\* remove_document: from the cached index, and from the file when it was there.
Unindex(d) ==
  /\ dropping[d] = "unindexing" /\ idx # Unread /\ cacheLock = Nobody
  /\ idx' = idx \ {d} /\ idxFile' = IF d \in idx THEN idx \ {d} ELSE idxFile
  /\ dropping' = [dropping EXCEPT ![d] = "done"]
  /\ UNCHANGED <<uploads, job, slotted, backlog, outcome, kb, mem, kbLock, cacheLock, asked, slips, astray>>

----------------------------------------------------------------------------
(* Search: kb_search_tool and kb.search.                                    *)

\* The uploads that exist are listed before the search.
Ask ==
  /\ asked.at = "idle"
  /\ asked' = [NoSearch EXCEPT !.at = "loading", !.valid = uploads \cap Docs]
  /\ UNCHANGED <<uploads, job, slotted, backlog, outcome, dropping, kb, mem, kbLock, idxFile, idx, cacheLock, slips, astray>>

LoadForSearch ==
  /\ asked.at = "loading" /\ CanLoad
  /\ mem' = Loaded /\ asked' = [asked EXCEPT !.at = "indexing", !.docs = Loaded]
  /\ UNCHANGED <<uploads, job, slotted, backlog, outcome, dropping, kb, kbLock, idxFile, idx, cacheLock, slips, astray>>

\* The vectors of the documents that still exist, from the index as far as it has
\* any, else from the object that was loaded; without an embedding of the query,
\* the words, from that object.
\* Seeded fault: what the index finds is not compared with the uploads.
FaultyFindings == {(idx \cap asked.docs)} \cup {asked.docs \cap asked.valid}
Findings ==
  LET known == idx \cap asked.valid
  IN {asked.docs \cap asked.valid} \cup
     IF idx = Unread \/ known = {} THEN {} ELSE {R \cap asked.docs : R \in SUBSET known \ {{}}}

Answer ==
  /\ asked.at = "indexing" /\ idx # Unread /\ cacheLock = Nobody
  /\ \E hits \in Findings : asked' = [NoSearch EXCEPT !.wrong = hits \ asked.valid]
  /\ UNCHANGED <<uploads, job, slotted, backlog, outcome, dropping, kb, mem, kbLock, idxFile, idx, cacheLock, slips, astray>>

\* get_index without a cached index: the cache's lock is taken, and held while the
\* index is built, which may have to read kb.json under that file's lock.
Wants(who) ==
  \/ who = Search /\ asked.at = "indexing"
  \/ who \in Docs /\ dropping[who] = "unindexing"
TakeCacheLock(who) ==
  /\ Wants(who) /\ idx = Unread /\ cacheLock = Nobody
  /\ cacheLock' = who
  /\ UNCHANGED <<uploads, job, slotted, backlog, outcome, dropping, kb, mem, kbLock, idxFile, idx, asked, slips, astray>>
Build(who) ==
  /\ cacheLock = who /\ who # Nobody
  /\ idxFile = Bad => CanLoad
  /\ cacheLock' = Nobody /\ idx' = Built
  /\ IF idxFile = Bad THEN idxFile' = Built /\ mem' = Loaded ELSE UNCHANGED <<idxFile, mem>>
  /\ UNCHANGED <<uploads, job, slotted, backlog, outcome, dropping, kb, kbLock, asked, slips, astray>>

----------------------------------------------------------------------------
\* The index file of another dimension, or a spoiled one; a cached index may have
\* left the cache for another user's.
SpoilIndex ==
  /\ Slip /\ idxFile \notin {Unread, Bad} /\ cacheLock = Nobody
  /\ idxFile' = Bad /\ idx' = Unread
  /\ UNCHANGED <<uploads, job, slotted, backlog, outcome, dropping, kb, mem, kbLock, cacheLock, asked, astray>>

\* The process dies, and with it the backlog and every thread.
Fail ==
  /\ Slip
  /\ outcome' = Ended({d \in Uploaded : Pending(d)}, "lost")
  /\ job' = Over({d \in Uploaded : job[d] # "none"})
  /\ slotted' = {} /\ backlog' = <<>> /\ mem' = Unread /\ idx' = Unread
  /\ kbLock' = Nobody /\ cacheLock' = Nobody /\ asked' = NoSearch
  /\ astray' = astray \cup {d \in Docs : dropping[d] = "dropping"}
  /\ dropping' = [d \in Docs |-> IF dropping[d] = "no" THEN "no" ELSE "done"]
  /\ UNCHANGED <<uploads, kb, idxFile>>

KbStep(d) ==
  \/ Prepare(d) \/ Embed(d) \/ Store(d) \/ Index(d) \/ Drop(d) \/ Unindex(d)
SearchStep == LoadForSearch \/ Answer
BuildStep(who) == TakeCacheLock(who) \/ Build(who)

KnowledgeNext ==
  \/ \E d \in Uploaded : Upload(d) \/ Reread(d) \/ IngestElsewhere(d)
  \/ \E d \in Removable : Delete(d) \/ Prune(d)
  \/ \E d \in Docs : KbStep(d)
  \/ Drain \/ Ask \/ SearchStep
  \/ \E who \in Docs \cup {Search} : BuildStep(who)
  \/ SpoilIndex \/ Fail

\* Threads run on, and the scheduler drains the backlog every minute.
KnowledgeFairness ==
  /\ \A d \in Docs : WF_kbVars(KbStep(d))
  /\ \A d \in Uploaded : WF_kbVars(Reread(d) \/ IngestElsewhere(d))
  /\ WF_kbVars(Drain) /\ WF_kbVars(SearchStep)
  /\ \A who \in Docs \cup {Search} : WF_kbVars(BuildStep(who))

KnowledgeSpec == KnowledgeInit /\ [][KnowledgeNext]_kbVars /\ KnowledgeFairness

----------------------------------------------------------------------------
(* Properties.                                                             *)

\* The vectors of a deleted document go with it, unless its ingestion was under
\* way, its removal failed or the hygiene job deleted it.
NoZombieUnlessAstray ==
  \A d \in kb : d \in uploads \/ d \in astray \/ dropping[d] = "dropping"

\* A search never cites a document that was deleted before the search began, even
\* when its vectors are still there: kb_search_tool lists the uploads first.
NeverCitesTheDeleted == asked.wrong = {}

\* Two threads wait for each other: an ingestion holds the lock of kb.json and wants
\* the cache of indexes, whose lock is held by one that wants to read kb.json.
Jammed ==
  /\ kbLock # Nobody /\ cacheLock # Nobody /\ idxFile = Bad /\ mem = Unread

\* Every upload's ingestion comes to an end: ingested, refused, skipped, dropped
\* from the backlog or lost in a crash.
Settled(d) == ~Pending(d) /\ (d \in uploads \cap Docs => outcome[d] # "open")
IngestSettlesUnlessJammed == \A d \in Uploaded : []<>(Settled(d) \/ Jammed)

\* kb_ingest.py:55 of _run_owned: "always releases, never raises".
SlotsAlwaysReleased == \A d \in Uploaded : []<>(d \notin slotted)
=============================================================================
