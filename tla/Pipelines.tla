----------------------------- MODULE Pipelines ------------------------------
(***************************************************************************)
(* Saved workflows: fixed sequences of tool calls whose arguments may      *)
(* quote the run's input and the outputs of earlier steps                  *)
(* (services/workflows.py, the registry in services/storage/store.py,      *)
(* agent/workflows.py, backend/routers/workflows.py).                      *)
(*                                                                         *)
(* A step is [tool, quotes: the steps that its free arguments quote,       *)
(* sink: the steps that its static arguments (code, SQL, identifiers,      *)
(* routing) quote].  Steps count from 1.                                   *)
(***************************************************************************)
EXTENDS Integers, Sequences, FiniteSets

CONSTANTS
  Pipes,        \* workflow ids
  PipeJobs,     \* runs
  PipeTools,    \* tool names
  WebSearch,    \* the tool that counts against the search budget
  Drafts,       \* the step sequences owners submit
  NoSteps,      \* what no record holds
  MaxPipes,     \* MAX_WORKFLOWS_PER_USER
  MaxSteps,     \* MAX_WORKFLOW_STEPS
  ToolCalls,    \* MAX_TOOL_CALLS_PER_REQUEST
  SearchCalls,  \* MAX_SEARCH_CALLS_PER_REQUEST
  MaxPipeRuns   \* bound on runs

VARIABLES
  pipelines,  \* workflows.json: what each id holds
  offered,    \* TOOL_MAP: the tools this process offers
  jobs,       \* runs of this process
  pipeRuns    \* runs so far

pipeVars == <<pipelines, offered, jobs, pipeRuns>>

NoRun == [steps |-> NoSteps, outputs |-> <<>>, status |-> "none", why |-> ""]
\* What a call may report.  An output with "{{" in it, or one that makes the argument it is
\* quoted in too long, reads well but cannot be rendered into a later step.
Outcomes == {"fine", "unquotable", "not ok"}

\* _validate_step for every step, and the cap on steps: a later output cannot be quoted, and
\* none at all in an argument that is code, SQL, an identifier or a route.
Valid(steps) ==
  /\ Len(steps) \in 1..MaxSteps
  /\ \A i \in DOMAIN steps :
       /\ steps[i].tool \in offered
       /\ \A q \in steps[i].quotes \cup steps[i].sink : q < i
       /\ steps[i].sink = {}

Saved == {w \in Pipes : pipelines[w] # NoSteps}
PipesInit ==
  /\ pipelines = [w \in Pipes |-> NoSteps] /\ offered = PipeTools
  /\ jobs = [j \in PipeJobs |-> NoRun] /\ pipeRuns = 0

\* create_workflow: the cap is looked at under the lock.
Create(w, steps) ==
  /\ w \notin Saved /\ Valid(steps) /\ Cardinality(Saved) < MaxPipes
  /\ pipelines' = [pipelines EXCEPT ![w] = steps] /\ UNCHANGED <<offered, jobs, pipeRuns>>
\* update_workflow replaces the whole record; the id must be there.
Update(w, steps) ==
  /\ w \in Saved /\ Valid(steps)
  /\ pipelines' = [pipelines EXCEPT ![w] = steps] /\ UNCHANGED <<offered, jobs, pipeRuns>>
Delete(w) ==
  /\ w \in Saved
  /\ pipelines' = [pipelines EXCEPT ![w] = NoSteps] /\ UNCHANGED <<offered, jobs, pipeRuns>>
\* A new release offers fewer tools, or offers them again; the runs of the old process end.
Redeploy(tools) ==
  /\ tools # offered /\ offered' = tools
  /\ jobs' = [j \in PipeJobs |-> NoRun] /\ UNCHANGED <<pipelines, pipeRuns>>

\* POST .../run: the record is loaded once, and all its tools must be known before one runs.
StartRun(j, w) ==
  /\ jobs[j].status # "running" /\ w \in Saved /\ pipeRuns < MaxPipeRuns
  /\ LET known == \A i \in DOMAIN pipelines[w] : pipelines[w][i].tool \in offered
     IN  jobs' = [jobs EXCEPT ![j] = [steps |-> pipelines[w], outputs |-> <<>>,
                                      status |-> IF known THEN "running" ELSE "failed",
                                      why |-> IF known THEN "" ELSE "unknown tool"]]
  /\ pipeRuns' = pipeRuns + 1 /\ UNCHANGED <<pipelines, offered>>
\* The rate limit refuses the run.
Refused(j, w) ==
  /\ jobs[j].status # "running" /\ w \in Saved /\ pipeRuns < MaxPipeRuns
  /\ jobs' = [jobs EXCEPT ![j] = [steps |-> pipelines[w], outputs |-> <<>>, status |-> "failed", why |-> "rate"]]
  /\ pipeRuns' = pipeRuns + 1 /\ UNCHANGED <<pipelines, offered>>

AtStep(j) == Len(jobs[j].outputs) + 1
Conclude(j, status, why) == jobs' = [jobs EXCEPT ![j].status = status, ![j].why = why]
\* render_args: every quoted output must still be text without a template and short enough.
Renders(j) == LET step == jobs[j].steps[AtStep(j)]
              IN  \A q \in step.quotes \cup step.sink : jobs[j].outputs[q] = "fine"
\* The router gives no budget, so a run gets the budget of one message.
SearchesOf(j) == Cardinality({i \in 1..Len(jobs[j].outputs) : jobs[j].steps[i].tool = WebSearch})
Affords(j) ==
  /\ Len(jobs[j].outputs) < ToolCalls
  /\ jobs[j].steps[AtStep(j)].tool = WebSearch => SearchesOf(j) < SearchCalls

\* One turn of the loop: time, rendering, budget, the call, and what it reported.
PipeStep(j) ==
  /\ jobs[j].status = "running" /\ AtStep(j) <= Len(jobs[j].steps)
  /\ \/ Conclude(j, "partial", "time")
     \/ ~Renders(j) /\ Conclude(j, "failed", "render")
     \/ Renders(j) /\ ~Affords(j) /\ Conclude(j, "partial", "budget")
     \/ /\ Renders(j) /\ Affords(j)
        /\ \E o \in Outcomes :
             jobs' = [jobs EXCEPT ![j].outputs = Append(@, o),
                                  ![j].status = IF o = "not ok" THEN "failed" ELSE "running",
                                  ![j].why = IF o = "not ok" THEN "step" ELSE ""]
  /\ UNCHANGED <<pipelines, offered, pipeRuns>>
PipeDone(j) ==
  /\ jobs[j].status = "running" /\ AtStep(j) > Len(jobs[j].steps)
  /\ Conclude(j, "ok", "") /\ UNCHANGED <<pipelines, offered, pipeRuns>>

PipesNext ==
  \/ \E w \in Pipes, steps \in Drafts : Create(w, steps) \/ Update(w, steps)
  \/ \E w \in Pipes : Delete(w)
  \/ \E j \in PipeJobs, w \in Pipes : StartRun(j, w) \/ Refused(j, w)
  \/ \E j \in PipeJobs : PipeStep(j) \/ PipeDone(j)
  \/ \E tools \in SUBSET PipeTools : Redeploy(tools)
PipesSpec == PipesInit /\ [][PipesNext]_pipeVars

\* ---- properties --------------------------------------------------------
\* agent/workflows.py: the budget of a run without one is "sized to cover every step".
BudgetCoversEveryStep == \A j \in PipeJobs : jobs[j].why # "budget"
=============================================================================
