------------------------------ MODULE CleanRun ------------------------------
(***************************************************************************)
(* The run engine of the cleaning page (src/src/index.html, 2711-3147):    *)
(* runSelected, runSingleTool and runBatScript start work, processQueue    *)
(* runs the queued tools one after another through the backend command     *)
(* run_with_wait, and the end of a queue reports to the user in a dialog.  *)
(*                                                                         *)
(* The page's script is single-threaded and every function runs to its     *)
(* next await without interruption, so an action is the code between two   *)
(* awaits.  What happens between them is the concurrency: the user's       *)
(* clicks, replies of backend commands (run on a thread pool, so in any    *)
(* order), and timers.  An activation a \in Caller is one call of one of   *)
(* the three functions with everything it awaits.                          *)
(*                                                                         *)
(* The model starts when initApp has set window._appPath.                  *)
(***************************************************************************)
EXTENDS Dialog, Sequences, FiniteSets, Functions

CONSTANTS
    ToolCount,   \* the length of the array tools; a tool is its index there
    ScriptTool,  \* the index of clean_user_paths, whose card runs the script
    Null,        \* null
    Late         \* a reading of C: taken after the run had begun to clean

Tool == 1 .. ToolCount

ASSUME ToolAssumption == ToolCount \in Nat \ {0} /\ ScriptTool \in Tool

ASSUME NullAssumption == Null \notin Tool \cup Caller \cup {Late}

VARIABLES
    isRunning,         \* the flag every start checks
    runQueue,          \* tools still to be started
    queueTotal,        \* window._queueTotal
    queueCompleted,    \* window._queueCompleted
    queueSucceeded,    \* window._queueSucceeded
    queueFailed,       \* window._queueFailed
    job,               \* the queue as it was when the run started
    started,           \* the "running: ..." lines logged since
    summary,           \* the last "all tasks done" line logged
    barRunning,        \* the action bar has class 'running': buttons disabled
    mark,              \* the class of each card's run button
    resetTimers,       \* pending setTimeout(resetAllToolButtons, 1500)
    startSnapshot,     \* window._cleanupStartSnapshot
    snapshotCalls,     \* runSelected's get_c_drive_usage calls in flight
    before,            \* processQueue's beforeSnapshot
    pc,                \* where each activation is suspended
    tool               \* processQueue's toolId

queueVars == <<isRunning, runQueue, queueTotal, queueCompleted,
               queueSucceeded, queueFailed, job, started, summary>>
viewVars  == <<barRunning, mark, resetTimers>>
usageVars == <<startSnapshot, snapshotCalls, before>>
taskVars  == <<pc, tool>>
vars == <<queueVars, viewVars, usageVars, taskVars, dialogVars>>

\* A reading of C: is known by the run before whose cleaning it was taken.
Snapshot == Caller \cup {Null, Late}
Mark     == {"idle", "running", "done", "error"}
Place    == {"free", "tool", "after", "usage", "result", "write", "script", "ended"}
Summary  == [total : Nat, ok : Nat, bad : Nat]

TypeOK ==
    /\ isRunning \in BOOLEAN
    /\ runQueue \in Seq(Tool)
    /\ queueTotal \in Nat
    /\ queueCompleted \in Nat
    /\ queueSucceeded \in Nat
    /\ queueFailed \in Nat
    /\ job \in Seq(Tool)
    /\ started \in Seq(Tool)
    /\ summary \in Summary
    /\ barRunning \in BOOLEAN
    /\ mark \in [Tool -> Mark]
    /\ resetTimers \in Nat
    /\ startSnapshot \in Snapshot
    /\ snapshotCalls \in SUBSET Caller
    /\ before \in [Caller -> Snapshot]
    /\ pc \in [Caller -> Place]
    /\ tool \in [Caller -> Tool \cup {Null}]
    /\ DialogTypeOK

Init ==
    /\ isRunning = FALSE
    /\ runQueue = <<>>
    /\ queueTotal = 0
    /\ queueCompleted = 0
    /\ queueSucceeded = 0
    /\ queueFailed = 0
    /\ job = <<>>
    /\ started = <<>>
    /\ summary = [total |-> 0, ok |-> 0, bad |-> 0]
    /\ barRunning = FALSE
    /\ mark = [t \in Tool |-> "idle"]
    /\ resetTimers = 0
    /\ startSnapshot = Null
    /\ snapshotCalls = {}
    /\ before = [a \in Caller |-> Null]
    /\ pc = [a \in Caller |-> "free"]
    /\ tool = [a \in Caller |-> Null]
    /\ DialogInit

-----------------------------------------------------------------------------
\* getSelectedIds: the ticked tools in the order of the array, at least one.
Selections ==
    {ids \in UNION {[1 .. n -> Tool] : n \in 1 .. ToolCount} :
        \A i, j \in DOMAIN ids : i < j => ids[i] < ids[j]}

\* The counters of a new run.
FailedNotReset(ids) ==
    /\ queueTotal' = Len(ids)
    /\ queueCompleted' = 0
    /\ queueSucceeded' = 0
    /\ UNCHANGED queueFailed

ResetCounters(ids) ==
    /\ queueTotal' = Len(ids)
    /\ queueCompleted' = 0
    /\ queueSucceeded' = 0
    /\ queueFailed' = 0

\* What runSelected and runSingleTool share, past their guard, with the first,
\* nonempty step of processQueue: the first tool leaves the queue, its button is
\* marked and its run_with_wait is sent.
BeginQueue(a, ids) ==
    /\ pc[a] = "free"
    /\ isRunning' = TRUE
    /\ runQueue' = Tail(ids)
    /\ ResetCounters(ids)
    /\ job' = ids
    /\ started' = <<Head(ids)>>
    /\ mark' = [mark EXCEPT ![Head(ids)] = "running"]
    /\ pc' = [pc EXCEPT ![a] = "tool"]
    /\ tool' = [tool EXCEPT ![a] = Head(ids)]
    /\ UNCHANGED <<summary, resetTimers, before, dialogVars>>

QueueNotGuarded(a, ids) == BeginQueue(a, ids)

StartQueue(a, ids) == ~isRunning /\ BeginQueue(a, ids)

\* setRunBarRunning.
SetRunBarNeverOff(running) == barRunning' = (running \/ barRunning)

setRunBarRunning(running) == barRunning' = running

\* runSelected.  Its button can be pressed from the keyboard whatever covers
\* it; the reading of C: it asks for is not awaited.
runSelected(a) ==
    \E ids \in Selections :
        /\ StartQueue(a, ids)
        /\ setRunBarRunning(TRUE)
        /\ startSnapshot' = Null
        /\ snapshotCalls' = snapshotCalls \cup {a}

\* runSingleTool, from a card's run button: a <div>, so the pointer only, which
\* the overlay takes and a button marked 'running' ignores.
runSingleTool(a, t) ==
    /\ t # ScriptTool
    /\ ~overlayShown
    /\ mark[t] # "running"
    /\ StartQueue(a, <<t>>)
    /\ UNCHANGED <<barRunning, startSnapshot, snapshotCalls>>

\* runBatScript up to the write of the temporary script.
BeginScript(a) ==
    /\ pc[a] = "free"
    /\ isRunning' = TRUE
    /\ pc' = [pc EXCEPT ![a] = "write"]
    /\ UNCHANGED <<runQueue, queueTotal, queueCompleted, queueSucceeded, queueFailed,
                   job, started, summary, viewVars, usageVars, tool, dialogVars>>

ScriptNotGuarded(a) == BeginScript(a)

runBatScript(a) == ~isRunning /\ BeginScript(a)

\* The write is over, done or failed (its error is swallowed): the script runs.
ScriptWritten(a) ==
    /\ pc[a] = "write"
    /\ pc' = [pc EXCEPT ![a] = "script"]
    /\ UNCHANGED <<queueVars, viewVars, usageVars, tool, dialogVars>>

\* run_with_wait has answered for the script.
ScriptLeavesFlag(a) ==
    /\ pc[a] = "script"
    /\ pc' = [pc EXCEPT ![a] = "ended"]
    /\ UNCHANGED <<queueVars, viewVars, usageVars, tool, dialogVars>>

ScriptEnds(a) ==
    /\ pc[a] = "script"
    /\ isRunning' = FALSE
    /\ pc' = [pc EXCEPT ![a] = "ended"]
    /\ UNCHANGED <<runQueue, queueTotal, queueCompleted, queueSucceeded, queueFailed,
                   job, started, summary, viewVars, usageVars, tool, dialogVars>>

-----------------------------------------------------------------------------
\* run_with_wait has answered, with an output parseOutput calls success or not;
\* a rejected command is parsed like an output.
ToolAnswered(a, ok) ==
    /\ pc[a] = "tool"
    /\ queueCompleted' = queueCompleted + 1
    /\ queueSucceeded' = queueSucceeded + One(ok)
    /\ queueFailed' = queueFailed + One(~ok)

Outcome(ok) == IF ok THEN "done" ELSE "error"

\* runQueue.shift().
HeadStays == runQueue

RestOfQueue == Tail(runQueue)

\* processQueue goes on with the next tool of the queue.
NextTool(a, ok) ==
    /\ runQueue # <<>>
    /\ ToolAnswered(a, ok)
    /\ runQueue' = RestOfQueue
    /\ tool' = [tool EXCEPT ![a] = Head(runQueue)]
    /\ started' = Append(started, Head(runQueue))
    /\ mark' = [mark EXCEPT ![tool[a]] = Outcome(ok), ![Head(runQueue)] = "running"]
    /\ UNCHANGED <<isRunning, queueTotal, job, summary, barRunning, resetTimers,
                   usageVars, pc, dialogVars>>

\* processQueue finds the queue empty: the run is over for the page, the line
\* with the totals is logged, the buttons' reset is armed and the activation
\* asks for the drive's reading for its report.
QueueDone(a, ok) ==
    /\ runQueue = <<>>
    /\ ToolAnswered(a, ok)
    /\ isRunning' = FALSE
    /\ setRunBarRunning(FALSE)
    /\ mark' = [mark EXCEPT ![tool[a]] = Outcome(ok)]
    /\ summary' = [total |-> queueTotal, ok |-> queueSucceeded', bad |-> queueFailed']
    /\ resetTimers' = resetTimers + 1
    /\ pc' = [pc EXCEPT ![a] = "after"]
    /\ tool' = [tool EXCEPT ![a] = Null]
    /\ UNCHANGED <<runQueue, queueTotal, job, started, usageVars, dialogVars>>

\* setTimeout(resetAllToolButtons, 1500), whatever runs by then.
ResetTimerFires ==
    /\ resetTimers > 0
    /\ resetTimers' = resetTimers - 1
    /\ mark' = [t \in Tool |-> "idle"]
    /\ UNCHANGED <<queueVars, barRunning, usageVars, taskVars, dialogVars>>

-----------------------------------------------------------------------------
\* What runSelected's reading may show when its answer comes: it is started and
\* not awaited, and the first tool is started right after it, so the backend may
\* have measured the drive before anything was deleted or when the run's first
\* tool was already deleting.
Readings(a) == {a, Late}

\* runSelected's then and catch: the answer becomes the start snapshot, of
\* whatever run is in progress or reporting when it comes.
SnapshotArrives(a) ==
    /\ a \in snapshotCalls
    /\ snapshotCalls' = snapshotCalls \ {a}
    /\ startSnapshot' \in Readings(a) \cup {Null}
    /\ UNCHANGED <<queueVars, viewVars, before, taskVars, dialogVars>>

\* Without the catch branch a failed reading would end the activation.
ReadingNotCaught(a) ==
    /\ pc[a] = "after"
    /\ \/ before' = [before EXCEPT ![a] = startSnapshot] /\ pc' = [pc EXCEPT ![a] = "usage"]
       \/ UNCHANGED before /\ pc' = [pc EXCEPT ![a] = "ended"]
    /\ UNCHANGED <<queueVars, viewVars, startSnapshot, snapshotCalls, tool, dialogVars>>

\* processQueue has the reading for its report, and only now reads the start
\* snapshot; in the catch branch the report has no figures.
ReadingArrives(a) ==
    /\ pc[a] = "after"
    /\ \E figures \in {startSnapshot, Null} : before' = [before EXCEPT ![a] = figures]
    /\ pc' = [pc EXCEPT ![a] = "usage"]
    /\ UNCHANGED <<queueVars, viewVars, startSnapshot, snapshotCalls, tool, dialogVars>>

\* loadCDriveUsage has answered (it swallows its errors): the report opens.
ShowReport(a) ==
    /\ pc[a] = "usage"
    /\ showDialog(a, "alert")
    /\ pc' = [pc EXCEPT ![a] = "result"]
    /\ UNCHANGED <<queueVars, viewVars, usageVars, tool>>

\* A click or a key calls closeDialog: the activation in the slot, if there is
\* one, returns from its alertDialog and ends.
CloseReport ==
    /\ closeTimers < MaxCloseTimers
    /\ closeDialog
    /\ pc' = [a \in Caller |-> IF a = dialogResolve THEN "ended" ELSE pc[a]]
    /\ before' = [a \in Caller |-> IF a = dialogResolve THEN Null ELSE before[a]]
    /\ UNCHANGED <<queueVars, viewVars, startSnapshot, snapshotCalls, tool>>

DialogTimer ==
    /\ CloseTimerFires
    /\ UNCHANGED <<queueVars, viewVars, usageVars, taskVars>>

-----------------------------------------------------------------------------
Click(a) ==
    \/ runSelected(a)
    \/ \E t \in Tool : runSingleTool(a, t)
    \/ runBatScript(a)

ToolReply(a) == \E ok \in BOOLEAN : NextTool(a, ok) \/ QueueDone(a, ok)

Reply(a) ==
    \/ ToolReply(a)
    \/ ScriptWritten(a)
    \/ ScriptEnds(a)
    \/ ReadingArrives(a)
    \/ ShowReport(a)

Next ==
    \/ \E a \in Caller : Click(a) \/ Reply(a) \/ SnapshotArrives(a)
    \/ ResetTimerFires
    \/ CloseReport
    \/ DialogTimer

Spec == Init /\ [][Next]_vars

\* The backend answers every command: run_with_wait waits for the program it
\* started without a time limit, so the assumption is that every tool and
\* script ends.  The user owes nothing.
FairSpec == Spec /\ \A a \in Caller : WF_vars(Reply(a))

-----------------------------------------------------------------------------
(* Safety. *)

\* The activations that have work in the backend.
Busy == {a \in Caller : pc[a] \in {"tool", "write", "script"}}

\* Two cleaning programs never run at once, whatever the user clicks, and the
\* flag that prevents it is up exactly while one runs: it is never left up
\* (no run could start any more) and never lowered early.
OneRunAtATime ==
    /\ isRunning <=> Busy # {}
    /\ \A a, b \in Busy : a = b

\* Every tool a run was started with is started exactly once, in order: what
\* was started and what is queued make up the job, until the next job.
EachToolOnce == started \o runQueue = job

\* The counters of a run are its own, and the line logged at its end adds up:
\* the shared window._queue* counters are not disturbed by the activations
\* that are still reporting, nor by scripts.
TotalsAgree ==
    /\ queueTotal = Len(job)
    /\ queueCompleted = queueSucceeded + queueFailed
    /\ (\E a \in Caller : pc[a] = "tool") => queueCompleted + 1 = Len(started)
    /\ (\A a \in Caller : pc[a] # "tool") => queueCompleted = queueTotal /\ runQueue = <<>>
    /\ summary.ok + summary.bad = summary.total

\* Nothing is left disabled: a card marked 'running' (its button ignores the
\* pointer) belongs to the tool that is running, and the action bar is disabled
\* only during a queue.
NothingLeftDisabled ==
    /\ \A t \in Tool : mark[t] = "running" =>
          \E a \in Caller : pc[a] = "tool" /\ tool[a] = t
    /\ barRunning => \E a \in Caller : pc[a] = "tool"

\* What the report says (index.html:2958, "space freed this time"): when it
\* shows figures, they start from the reading taken before this run.
FreedThisTime ==
    \A a \in Caller : pc[a] = "result" => before[a] \in {Null, a}

-----------------------------------------------------------------------------
(* Liveness, under FairSpec. *)

\* A run that started ends: the page accepts the next one.
RunEnds == isRunning ~> ~isRunning

\* A finished queue reports to the user, whatever else was started meanwhile.
QueueReports == \A a \in Caller : pc[a] = "after" ~> pc[a] = "result"

-----------------------------------------------------------------------------
(* Refinement: the engine implements the abstract JobRunner. *)

QueueRunning == \E a \in Caller : pc[a] = "tool"

Jobs == INSTANCE JobRunner WITH
    kind   <- IF QueueRunning THEN "queue" ELSE IF isRunning THEN "script" ELSE "none",
    left   <- Range(runQueue) \cup {tool[a] : a \in {b \in Caller : pc[b] = "tool"}},
    ok     <- IF QueueRunning THEN queueSucceeded ELSE 0,
    bad    <- IF QueueRunning THEN queueFailed ELSE 0,
    report <- summary

\* The run engine does what JobRunner promises.
ImplementsJobRunner == Jobs!Spec

=============================================================================
