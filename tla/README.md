# POKA in TLA+

POKA ("pluto" in the code) is a chat server: a FastAPI process whose requests run on threads, one
vault of JSON files per user, a cascade of remote model tiers, tools, and a mirror of the data
directory in object storage because its free hosts lose their disks. This directory holds
specifications of the parts where threads, crashes and time decide whether it is right, the TLC
configurations that check them, and proofs for TLAPS.

`PROJECT.json` lists components, runs, findings, hazards with their source lines, the definitions'
source lines (`map`), theorems, and for every property one mutant: a plausible bug in one mapped
definition (an operator named `Faulty...`) under which TLC finds that property violated.

    tlc -workers 2 -config Talk.cfg MCTalk          # any row of the table of runs
    tlapm TurnsProofs.tla                           # likewise the other *Proofs modules

## The system

| component | state it keeps | operations | what is hard |
|---|---|---|---|
| chat turns (`backend/flow/turns.py`) | `chats.json` of the open conversation, the table of double taps in flight | `run_chat`, `regenerate_chat` | minutes of unlocked work between a read and a write; restarts; a claim that expires |
| answers without a model (`backend/flow/stages.py`, `turns.py`, `agent/attachment_gate.py`, `backend/attachments.py`) | the repeat cache | resolve files, ask back, greet, serve a repeated answer | an answer stored for one state of memory and served in another |
| history endpoints (`backend/routers/chats.py`) | the archive in the same file | new, open, rename, delete, clear, truncate | load, edit, save without a lock |
| request in the agent (`agent/runtime.py`, `toolrun.py`, `planning.py`, ...) | budget, results, provenance of one request | classify, plan, tool rounds, synthesis, critique, citation check | nested fallbacks; exceptions for "our limits" against "the tier's failure" |
| provider cascade (`agent/cascade.py`) | cooldown table of the process, its file | walk over the tiers, success, failure, reset | one table for all threads, saved outside its lock, loaded once |
| bounded calls and stream (`agent/executor.py`, `backend/routers/chat.py`) | pool queue, event queue, last token | submit, time out, stream, stop | calls that outlive their caller |
| code execution (`services/workspace.py`, `coderun.py`) | files of a workspace, compiled binaries | write, delete, compile, run | locks per file, binaries per stem |
| approvals (`services/approvals.py`) | pending approvals with single-use tokens | stage, list, approve, reject | double clicks, restarts, expiry, eviction |
| accounts (`services/accounts.py`) | users, sessions, lockout counters | sign up, log in, verify, log out, change password | a verification that saves without the lock |
| admission and login (`backend/main.py`, `routers/auth.py`, `deps.py`, `frontend/src/auth*.js`) | cookie jar, local storage, tokens in memory | start-up checks, identity, CSRF, login, logout, reload | cookies of another site, two tabs, lost answers |
| snapshot mirror (`services/snapshots.py`) | dirty mark, last fingerprint, remote object | notify, upload, flush, restore | writes during an upload; half-wiped disks; crash while restoring |
| vault I/O (`services/storage/io.py`) | lock table, lock directories | locked read-modify-write | lock eviction, stale lock directories, dead processes |
| files and hygiene (`services/files.py`, `backend/deps.py`, `services/scheduler.py`) | uploads, outputs, two registries | upload, delete, prune | deletion decided by an earlier read of another file |
| knowledge base (`services/kb*.py`) | vectors per upload, index pair | ingest, drop, search, reap | seconds of unlocked embedding; two locks; two files per save |
| research, briefs, artifacts (`services/research.py`, `routers/briefs.py`, `artifacts.py`) | briefs, project folders, outputs | file a brief, make and remake a document | "the newest file" decided by a list taken earlier |
| rate limits (`services/ratelimit*.py`) | windows per user and action | check | several processes; add first, take back later |
| experience (`services/experience.py`) | log of episodes, lessons | record, mine, switch off | background writer beside the user's panel |
| memory (`services/memory.py`) | facts, names, digests | extract, merge, forget | a model call between load and save |
| teaching (`backend/flow/teaching.py`, `backend/teach.py`) | pointer into a document, in the messages | start, continue, recall, change pace | state that is derived from text |
| saved workflows (`services/workflows.py`, `agent/workflows.py`) | registry of step sequences | save, run | whose budget a run gets |
| browser client (`frontend/src`) | composer, column, editor, calls in flight | send, stop, switch, edit, regenerate | replies in any order, lost replies |
| router, prompts, context budget, vision, tools, remote clients, export, metrics | none, or outside the process | pure decisions and I/O | outside the models |

A turn claims its double-tap key, reads the conversation under a short lock, and hands over to the
agent. The agent places its model calls through the cascade into the pool; what they write streams
to the browser. A tool that cannot be undone stages an approval, which the user consumes in a later
request. The turn then appends its two messages in one locked write. Every write calls
`snapshots.notify()`, and the mirror uploads the directory some seconds later. Any step may be the
last one of the process.

The parts without a module are listed under `components` with the reason.

## Modules

Each module is one component. State that exists only to tell a property what has happened is
marked *ghost* or *history* where it is declared and is read by no guard of a modelled step.
Messages, actions, files and tiers are model values; text is kept only as far as a decision depends
on it. Every bound on time or counters is a named CONSTANT in a guard.

**Turns.** `Claim`/`Duplicate` is `_claim_inflight`, `Refuse` a rate limit or a lost attachment, `Snapshot` the locked read, `Complete`, `Fail` and
`Abandon` the three ways out of the work, each with the whole append that goes with it, `Release`
the pop of the claim. Regenerates take the index of the message first and replace or append later,
with no lock in between. `Restart` clears the table and kills requests; the file stays. **Chats**
extends Turns with the archive: each endpoint is a load and a save, and the archive's order, dedupe
by content and cap are in the save.

**Answers** has what a turn does before a model is asked: the files of the message, the decision
which file is meant, the stages that need no model, the repeat cache with its caps and lifetime,
and changes of uploads and names between messages.

**AgentTurn** follows one request through the code's nesting: attempt, plan, search, rounds, tool
batches, synthesis, critique, citation check, escape tables. Every model call is charged to the
budget or ends the request by `BudgetExhausted`; `TurnCancelled` is raised where the code polls.
`blame` records which of *our* exceptions were put down to a tier.

**Cascade** has the one-time load (flag first, read later), the choice and its outcome per tier,
`Build`/`Write`/`Leave` of a save, and the operator's reset. The choice is any usable tier in order;
latency ordering and daily counts only permute the list and are left open. **Stream** has the pool
with its bounded queue, callers that give up, orphans that go on, the `TokenStream` with its reset
events, the event queue and the handler.

**Workspace** has each tool call on a file as its measured and its locked step, compiling and
launching apart, since another call may compile in between. **Pipelines** has the registry of
saved workflows and a run with its budget.

**Approvals** has each call as its steps outside the vault's lock: the clock, the peek at the
arguments, the consumption, the execution. **OneShot** is what they promise: staged, granted, done
or void, and done once. `Promise` in Approvals is the refinement mapping.

**Accounts** has each locked operation as one step, and `verify_session` as two, since it saves
without the lock. **Door** has a deployment (private, public, pinned user, split origin, blocked
cookies, workers) that either refuses to start or serves tabs: each call of a tab is sent with the
credentials of that moment, served, and its answer taken or lost. **RateLimit** has both limiters.

**Snapshots.** A file's content is the number of its last write. An upload is scan, build, put,
commit; a restore extracts member by member in the archive's order, and may stop at each. `Crash`
keeps, empties or half-empties the disk, as the hosts do.

**Vault** has the two layers of a path's lock (object from a bounded table, directory beside the
file) around a read and a write. **Files** has bytes and records apart, the two looks at the caps,
and the sweep with what it read at each step. **Knowledge** has the jobs with their slots and
backlog, the file, the shared index object, the index files, both locks, a deletion and a search.
**Desk** has briefs, folders and the outputs that requests take for their own.

**Memory**, **Teaching** and **Lessons** have each read and each save as a step, and the mining,
merging and windowing in between as operators.

**Client** is one tab: a click is an action, a call is answered by the server and the reply taken,
each a step, in any order; a send has its upload, stream, refresh and the ways they fail.

`MC*` modules give values and records to the configurations. Components that share nothing share a
run: there a variable `part` chooses at the start which of them moves, so the state spaces add up
instead of multiplying.

## Runs

| run | components | shows |
|---|---|---|
| `talk` | Turns, Snapshots, Memory, Answers | a turn is stored whole and once or not at all, no live answer is overwritten through a stale index, no live duplicate unless a claim was poached, claims are let go; storage catches up and loses no file; forgotten facts stay so; a name is given only while one is known |
| `history` | Chats, Teaching, Client | open and new lose no message the request had loaded; no slide is skipped; a tab keeps what was typed, and shows the truth when nothing is under way |
| `access` | Accounts, Door, Approvals, RateLimit, Lessons, Cascade | revoked tokens stay dead, live sessions open, guesses bounded; a page acts for whom it shows; what runs is what was clicked, once, and never after a rejection that came first; limits are exact; a lesson switched off stays off; cooldowns reach the file |
| `storage` | Vault, Files, Knowledge, Desk | no acknowledged change is lost; cited files stay; deleted documents leave nothing behind and are not cited; a document is answered with its own file; writers leave, leftovers go, ingestions settle |
| `agent` | AgentTurn, Stream, Workspace | a request ends; what ran is on record; the writer is credited; nothing is done for a client known to be gone; a draft is not lost; the client is told the truth and gets a reset between texts; a call runs its own program |
| `turns_duplicate`, `chats_clobber`, `snapshots_lost_mark`, `agent_turn_blame`, `knowledge_jam`, `pipelines_budget`, `door_split` (violations) | one each | the findings below |

**Bounds.** Each instance has at least the actors a race needs and one more value than the limit it
tests.
*Turns*: two sends and a TTL that passes once let a claim be poached (the violation run adds the
third send that profits); three messages make the cap cut a stored turn below a regenerate.
*Chats*: two endpoints, since a race is between a load and one other save; archive of two, so that
the third goes. *Snapshots*: two faults, a crash during the repair of the first; three writes, one
before, one during and one after an upload. *Memory*: two conversations, two names, a fact and its
contradiction, one deletion, one failure. *Answers*: one sender after the other over two rounds and
four messages, since stages share nothing within a round. *Teaching*: three files, one unreadable,
four turns, one message off the course. *Client*: two conversations, two texts, two calls at once;
the clicks that may set off a call are three, losses count with them (`FewClicksAndLosses`),
since a loss takes the place of a click in every mishap.
*Accounts*: time up to three lets two lockout windows meet. *Approvals*: three ids over a vault of
two make one be evicted. *RateLimit*: four calls, two processes, a limit of two: one too many, twice.
*Lessons*: a threshold of two episodes, met and unmet. *Cascade*: a failed tier and its replacement,
two callers and an operator. *Door*: two tabs, one user and the visitor, five deployments: hosted,
split with and without cookies, an open demo, one that must not start. *Vault*: three writers in two
processes. *Files*: two uploads, one over the cap with the other, one output. *Knowledge*: a
large removable document, a small one, an upload that is none, one slot, a backlog of one.
*Desk*: two clerks, two outputs. *AgentTurn*: two tiers, a reader and a mutator, three model
calls, two tool calls. *Stream*: a pool of one thread with two places is full after three orphans,
so the fourth call is refused. *Workspace*: a script and two programs of different stems.
Clocks end after the last moment at which a comparison can change.

`access` has `CONSTRAINT StillAsked`: behaviours end where a table was spoiled or a stale copy saved,
because those ghosts never recover and the two properties that read them claim nothing any more. It
cuts no other component, as `spoiled` and `stale` change only in their own part.

**Names ending in `Unless...`.** Where the code breaks a promise in one known way, the passing run
checks the promise with a ghost that records exactly that way. So it shows that there is no second
way, while a violation run, or the comment at the ghost, shows the first one.

| ghost | the way out |
|---|---|
| `poached` (Turns) | a send outlives the TTL and another takes its claim |
| `slipped` (Snapshots), `overlapped`, `botched` | the mark is dropped after a later write; worker and flush upload at once; a restore did not bring everything |
| `strayed` (Memory) | a copy is saved over what it did not see, the panel points into a list that has changed, a read or a save fails, or the digests exceed their cap |
| `stale` (Lessons), `clobbered` (Accounts), `spoiled` (Cascade) | a copy is saved over what it did not see |
| `drifted` (Teaching) | an answer's header names a place its window did not have |
| `late` (Approvals) | the rejected approval had been consumed before |
| `slipped` (Vault) | a wait of five seconds passed, or a slow holder's directory was broken |
| `excused` (Files), `astray` (Knowledge) | the sweep could not read the chats or read them before the citation; a delete gave up waiting |
| `alone`, `blind` (Desk), `Twins` (Workspace) | two requests make files at once; two sources compile to one binary |
| `slips` (AgentTurn), `orphans` (Stream) | a batch is cut by an exception, links are checked with no budget, a synthesis is swapped; a call that was given up on goes on writing |
| `upset` (Door) | a session ended, an answer was lost, or another page changed jar or storage |
| `mislaid`, `behind` (Client) | the ways listed at the operators that set them |

**Deadlock** is not checked: in every module the actors finish their bounded work, or a bound of
the model stops them. That nothing gets stuck is what the liveness properties say.

**Fairness.** Turns: weak fairness of each send's steps after its claim, since the thread runs and
the code's `finally` blocks release; nothing forces a send to come. Snapshots (in MCTalk): the
daemon's loop (`_worker_loop`), an upload that has begun, the `notify()` that follows every write in
the same function, and the boot. Writes, crashes and failed transfers are not fair. They are
bounded, which reads "when writes and faults end". AgentTurn: the request's own thread (`Step`);
neither the deadline nor the leaving client is fair. Its calls end because the executor gives each
a timeout, which Stream models. Vault: a writer's own steps, whose waits all have a timeout. Files:
the job, which the scheduler starts at every interval, a reader that has found a corrupt registry,
and the age of what is stored. Knowledge: the threads of
ingestions and searches, a rebuild, the scheduler's drain, and that a lost slot is retried.

## Findings

Each is a violation run and quotes its line in `PROJECT.json`.

1. `turns.py:93`. `_release_inflight` pops a claim whoever made it. A turn that outlives the TTL
   removes its successor's, and a third identical send generates beside it.
2. `store.py:107`. `save_chats` ignores what it reads under the lock and writes the copy its caller
   loaded earlier: a turn stored in between is gone, though the comment promises the contrary.
3. `snapshots.py:498`. The upload drops the dirty mark without looking whether a notify came since
   its scan; that write stays out of storage until a later one.
4. `planning.py:208`. The `except Exception` around the planned execution catches `BudgetExhausted`
   and `TurnCancelled`, marks the tier as failed and runs the loop again.
5. `kb.py:863`. An ingestion takes the cache of indexes with the lock of `kb.json` held; a rebuild
   takes them in the other order, and the slot that "always releases" never does.
6. `agent/workflows.py:107`. The budget of a saved workflow is "sized to cover every step" by the
   docstring and that of a message by the code, so longer workflows stop half-way.
7. `routers/auth.py:164`. A split-origin page that lives on its cookie after a reload gets a CSRF
   cookie it cannot read, and the documented "1" is refused because that cookie is present.

The models carry more departures from a comment that have no run, each noted where it is modelled
or here: an exam is offered before all files are taught (`flow/teaching.py:282`); a file named by the
user loses to the live pointer (`flow/teaching.py:206`); the workspace quota is measured under the lock
of one path (`workspace.py:254`); the repeat cache serves answers that used files of an earlier
moment (`turns.py:672`); `_run_storage_hygiene` and `reconcile` are never called; `signOutEverywhere`
goes on after any answer but a network error, and a sign-out that was refused leaves session and cookie.
The client clears the composer after the upload's await, an unrelated draft with the resend of an
edit, and an open editor with every new rendering (`send.js:189`, `210`, `render.js:376`).

## Proofs

Eight modules hold theorems. All hold for any number of requests, keys, tokens, users, files, tabs
and bounds, under the named `ASSUME`s of the modules, which TLC evaluates in every run. Each
invariant is shown by the three facts *Init implies it*, *every action keeps it*, *it implies the
property*; TLC checked most of the inductive invariants on the run's instance before they were proved.

| module | theorem | property | inductive invariant |
|---|---|---|---|
| TurnsProofs | `NoDuplicateTheorem` | `NoLiveDuplicateUnlessPoached` | `IInv` |
| | `PersistedTheorem`, `LiveAnswersTheorem` | `PersistedOnceOrNotAtAll`, `LiveAnswersKept` | `HistInv` |
| | `MirroredTheorem` | `CleanMeansMirroredUnlessSlipped` | `MirrorInv` |
| | `RemoteKeepsTheorem` | `RemoteKeepsFilesUnlessBotched` | `KeepInv` |
| | `NamedTheorem` | `NamedOnlyWhileKnown` | itself, with the cache's types |
| | `BrowsingTheorem` | `BrowsingKeepsMessages` | `ChatsInv`, on top of `IInv` |
| ApprovalsProofs | `AtMostOnce`, `OneShotTheorem` | `ImplementsOneShot` | `IInv` |
| | `ClickedTheorem`, `RejectedTheorem` | `RunsWhatWasClicked`, `RejectedNeverRunsUnlessLate` | `ClickInv`, and on top of `IInv` |
| AccountsProofs | `RevocationTheorem`, `LiveSessionsTheorem` | `RevokedStaysRevoked...`, `LiveSessionsKept...` | `IInv` |
| | `GuessesTheorem` | `GuessesBounded` | `GuessInv` |
| AccessProofs | `LimitTheorem` | `LimitIsExact` | `RateInv` |
| | `DisabledTheorem` | `DisabledStaysUnlessStale` | `LessonsInv` |
| | `CooldownTheorem` | `CooldownSurvivesUnlessSpoiled` | `CooldownInv` |
| | `ActsAsShownTheorem` | `ActsAsShownUnlessUpset` | `DoorInv` |
| StorageProofs | `ChangesKeptTheorem` | `ChangesKeptUnlessSlipped` | `VaultInv` |
| | `CitedSurvivesTheorem` | `CitedSurvivesUnlessExcused` | `FilesInv` |
| | `NoZombieTheorem`, `NeverCitesTheorem` | `NoZombieUnlessAstray`, `NeverCitesTheDeleted` | `KbInv` |
| | `AnswersWithItsOwnTheorem` | `AnswersWithItsOwnUnlessBeside` | `DeskInv` |
| AgentTurnProofs | `BlamelessTheorem`, `NothingForTheGoneTheorem`, `ProvenanceTheorem`, `CreditTheorem`, `DraftKeptTheorem` | `OurLimitsBlame...`, `NothingForTheGone`, `ProvenanceComplete...`, `CreditTruthful...`, `DraftKept...` | `Types`, `Placed`, `Blameless`, `Departing`, `Noted`, `DraftCredited` |
| | `OwnProgramTheorem` | `RunsItsOwnUnlessTwins` | `WorkspaceInv` |
| StreamProofs | `ToldTheTruthTheorem`, `ResetTheorem` | `ToldTheTruth`, `ResetBetweenCallsUnlessOrphaned` | `Informed`; `Tracked`, `Alone`, `InOrder` |
| | `MemoryInvariant`, `ForgottenStaysForgotten` | `ForgottenStaysForgottenUnlessStrayed` | `MemoryInv` |
| ClientProofs | `QuietTheorem` | `QuietTabIsTrue` | `ViewInv` |
| | `TypedTheorem` | `TypedKeptUnlessMislaid` | `KeepInv` |
| | `TeachingInvariant`, `NothingSkipped` | `NothingSkippedUnlessDrifted` | `TeachingInv` |

Five of them also have a `TypeCorrect` of their own; in the others the types are the first conjunct
of the inductive invariant.

**Why the invariants are needed.** *Turns.* "No live duplicate" says nothing of the table, so `ClaimHeld`
adds that on an unpoached key a young generating send owns the claim and its time is the
claim's. That a turn is stored once and whole needs `Whole` of the list that is stored and of what
the requests were told together: every question stands once, is by a send that was told so and has an
answer below it, and every send that was told so has its question there unless the cap has cut the
list. `LastN` and an append keep it because the cut takes a prefix (`StaysOrIsCut`).

*Chats.* Opening a conversation puts the open one on top and drops whatever shared its id. `ChatsInv`
says that the ids of a list, stored or still loaded by some request, are distinct and were all made by
saves done by now (`Listed`); so a fresh id drops nothing, and the id of an origin drops exactly the
one record whose messages the open conversation begins with. That the longest origin exists, and the
first one of that length, is the least number of a set (`LeastOf`).

*Snapshots.* `OneAtATime` (without an overlap one upload is under way and the mark stays set),
`ScansTruthful` (contents never return, so a directory equal to the scan was not written
since), `Mirrored` for the clean state. For lost files, archives cover what storage has
(`ArchivesCover`), the directory is recoverable, and a restore still has to do what it has not done
(`Extracting`).

*Approvals.* `AtMostOnce` needs `GrantedOnce` (a granted entry is not pending any more, has not
run, and is granted to one caller), `RunIsFinal` (what has run has run once and is not pending) and
`Allotted` (ids beyond the counter are unused). The refinement is then step by step: `Phase` maps every action of
the code to `Stage`, `Void`, `Grant`, `Run` or `Forget` of OneShot, or to a stutter.

*Accounts.* A revoked token could return only through a copy: each pending copy holds sessions
that were minted, and minted tokens are distinct and below the counter, so that a new session
never reuses a dead token. `GuessInv` splits the wrong passwords into those of the window that the
counter is counting and those of the window before, and bounds each by the limit less one; a span no
longer than the window meets two windows at most.

*RateLimit.* An admitted call of the last window has an entry (`AdmittedCounted`), and an entry is a
call's (`EntriesTrue`), so the count that admits is at least the number admitted. *Lessons.* Whoever
is about to save holds a copy in which nothing banned is switched on again (`SaversRespect`).
*Cascade.* `FileCovers` while nobody saves, `WriterCovers` for the copy that is about to be written.

*Door.* `Truthful` (a page shows whom its calls act for), `Loyal` (a reload would act for the same) and
what each call under way means to the page that waits (`Steady`). The proof refuted the first
statement: in private mode with a pinned user and a cookie that does not stick, a page whose token
is in memory alone acts for the pinned user after a reload, as in open mode. `Loyal` names that lapse.

*Vault.* The directory alone excludes: the proof uses no fact about the lock objects, so that the
eviction of an object from the table is no excuse for a lost change. *Files.* What the sweep will
delete was uncited when it was listed (`SweepSound`), and what it takes for an orphan never gets a
record (`CallsMatch`). *Knowledge.* `Reckoned`: what is in the file or in the loaded index has its upload,
is about to be dropped, or is astray, and an ingestion past its last look has one. *Desk.*
`Sees`: who was alone from its list on knows all files but its own.

*AgentTurn.* `Blameless`: only a planned loop is guarded by the handler that swallows our
exceptions. `Departing`: a tier is blamed for a client's departure only on the way
back to the loop, whose next poll sees it again. `Noted`: a tool is on record from the step that
ran it. `DraftCredited`: the draft carries its writer's name from its first version on.
*Workspace.* `Traced`: a call has noted every text its file held since it began, and the binary it
will launch was compiled from one of those, or by a twin.

*Stream.* `Informed`: an end event in the queue, or a handler past it, means that the outcome is
there. The reset needs three layers. `Tracked`: a call is at one place of the pool at a time and its
Future says at which. `Alone`: a turn that gave up on no call has at most the call it waits for
alive. `InOrder`: between the screen and the newest event the call never changes without a reset, and
the last text is of the latest call.

*Client.* `ViewInv`: the tab shows what the server has, or a call or reply is due that will tell it
(`Due`), or the ghost `behind` is set; a reply nothing has overtaken holds what the server has. `KeepInv`
adds that the editor stands at a message that is shown (`EditorOK`), that a cut is alone and
meets the message it was meant for unless calls have crossed (`AloneOK`), and that only a send that
waits for its refresh has one under way (`SentOK`), which is what makes the texts of a stored turn be on the
server (`StoredOK`).

*Memory.* Every turn reads the whole chat again, and only the digests keep a forgotten fact from being
mined anew. So what a turn has answered is recorded (`AllRecorded`), for the chat's turn that rests and, up
to the message before, for the one at work, in its file and in the stored one; a mined copy holds no
fact that is neither in the file of its load nor said in the message (`Follows`); and a panel's copy is the
file of its load less one fact (`Shortened`). `strayed` compares the file with the one that was loaded, and
a file could in principle change and come back. `Since` excludes it: one that changed since a load has
more digests, or the same digests and fewer facts, or it is the same and nothing that was said in the
message has been forgotten meanwhile.

*Teaching.* The place of a lesson is read from text three ways: the pointer on the message, the flag and
the header. `FlagsAgree` ties flags to headers, `PointerIsLast` the live pointer to the last header, and
`AllReached` says that up to every place in the history each slide has been before the model. The proof
refuted the first statement of the property: files of one stem share their cursor, since flag and
header name a stem, so a second file of that stem starts where the first one stood. A slide counts
as covered when a lesson was given on it in *some* file of the stem, or on a later one of a file that
has no such slide. It also showed that `drifted` has to be set
from the start by an old chat in which a header without a flag follows a flag. Assumed of the constants: `Uploads` holds
the files of `Course`, slides are numbered from one, and in chats from before pointers a flag, where there is
one, is that of its header; of Memory's, that what a sentence names is one of `Words`.

**Recursion.** `Without` (Chats) and the operators of Memory that mine, merge and filter are recursive
functions over positions; Teaching only asks for the greatest of a set. The library's induction theorems take an operator,
which no installed prover can instantiate. `Climbs` replaces them: a set of numbers that has 0 and the
successor of each of its members has every number, shown from `WFMin` by the least one it lacks.
`Iterates` gives the existence of the function, so that the CHOOSE behind a recursive definition
has a value; what is proved of the operator (`WithoutFacts`, `KeptFacts`, ...) is then one set to climb.

**Only model-checked.** Liveness, which the prover does not reach: `ClaimsReleased`,
`EventuallyMirrored`, `EveryWriterLeaves`, `LeftoversGo`, `IngestSettlesUnlessJammed`, `TurnEnds`.
Every other property of a passing run is stated by a theorem. The violation runs are statements that
fail, so there is nothing to prove.

## Not modelled

Wording, logs, metrics, hashing, wire formats and rendering, which no property is about. In the
modelled components: the operator's `--force` commands of the mirror; the plain (unstreamed) send
endpoint and the tools' pool, which is the same code as the models' pool; the image paths, search
sub-budget and tool selection of a request; disk space, names and types of files; ranking of facts
and lessons for the prompt; approvals, projects and panels in the client's column. The components
without a module are listed in `PROJECT.json`, each with its reason.

## Plan

1. The refinement of an atomic register by Vault, beside its invariant.
2. The router and the context budget as pure operators against reference definitions.
