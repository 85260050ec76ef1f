--------------------------- MODULE CleanRun_proofs ---------------------------
(***************************************************************************)
(* Proofs about the run engine, for any number of tools and activations.   *)
(***************************************************************************)
EXTENDS CleanRun, Dialog_proofs, SequenceTheorems

-----------------------------------------------------------------------------
(* Sequences: the queue and the log of what was started. *)

\* getSelectedIds returns a nonempty sequence of tools.
LEMMA SelectionsAreQueues ==
    ASSUME NEW ids \in Selections
    PROVE  ids \in Seq(Tool) /\ ids # <<>>
<1>1. PICK n \in 1 .. ToolCount : ids \in [1 .. n -> Tool]
  BY DEF Selections
<1>2. n \in Nat /\ n > 0
  BY <1>1, ToolAssumption
<1>3. ids \in Seq(Tool) /\ Len(ids) = n
  BY <1>1, <1>2, SeqDef, LenProperties
<1> QED BY <1>2, <1>3, EmptySeq

\* Shifting the head of a nonempty queue to the end of the log keeps their
\* concatenation.
LEMMA ShiftKeepsConcat ==
    ASSUME NEW s \in Seq(Tool), NEW q \in Seq(Tool), q # <<>>
    PROVE  /\ Append(s, Head(q)) \o Tail(q) = s \o q
           /\ <<Head(q)>> \o Tail(q) = q
           /\ Head(q) \in Tool
           /\ Tail(q) \in Seq(Tool)
           /\ Len(Tail(q)) = Len(q) - 1
           /\ Len(q) > 0
<1>1. Head(q) \in Tool /\ Tail(q) \in Seq(Tool) /\ Len(Tail(q)) = Len(q) - 1 /\ Len(q) > 0
  BY HeadTailProperties, EmptySeq, LenProperties
<1>2. <<Head(q)>> \o Tail(q) = q
  BY <1>1
<1>3. <<Head(q)>> \in Seq(Tool)
  BY <1>1
<1>4. Append(s, Head(q)) = s \o <<Head(q)>>
  BY <1>1, AppendIsConcat
<1>5. (s \o <<Head(q)>>) \o Tail(q) = s \o (<<Head(q)>> \o Tail(q))
  BY <1>1, <1>3, ConcatAssociative
<1> QED BY <1>1, <1>2, <1>4, <1>5

-----------------------------------------------------------------------------
(* Types.  The dialog's counters stay natural because of DialogInv. *)

TypeInv == TypeOK /\ DialogInv

\* An answered tool adds one to the completed and one to one of the outcomes.
LEMMA ToolAnsweredCounts ==
    ASSUME TypeOK, NEW a \in Caller, NEW ok \in BOOLEAN, ToolAnswered(a, ok)
    PROVE  /\ queueCompleted' \in Nat /\ queueSucceeded' \in Nat /\ queueFailed' \in Nat
           /\ queueCompleted' = queueCompleted + 1
           /\ queueSucceeded' + queueFailed' = queueSucceeded + queueFailed + 1
<1>1. CASE ok
  BY <1>1 DEF TypeOK, ToolAnswered, One
<1>2. CASE ~ok
  BY <1>2 DEF TypeOK, ToolAnswered, One
<1> QED BY <1>1, <1>2

\* The actions that touch the dialog keep its invariant, the others leave it.
LEMMA DialogPart ==
    ASSUME TypeInv, [Next]_vars
    PROVE  DialogInv'
<1>1. CASE UNCHANGED dialogVars
  BY <1>1, DialogUnchangedInv DEF TypeInv
<1>2. ASSUME NEW a \in Caller, ShowReport(a) PROVE DialogInv'
  BY <1>2, ShowDialogInv DEF TypeInv, ShowReport, Mode
<1>3. CASE CloseReport
  BY <1>3, CloseDialogInv DEF TypeInv, CloseReport
<1>4. CASE DialogTimer
  BY <1>4, CloseTimerInv DEF TypeInv, DialogTimer
<1>5. ASSUME NEW a \in Caller, Click(a) \/ SnapshotArrives(a) \/ ToolReply(a)
                               \/ ScriptWritten(a) \/ ScriptEnds(a) \/ ReadingArrives(a)
      PROVE  UNCHANGED dialogVars
  BY <1>5 DEF Click, SnapshotArrives, ToolReply, ScriptWritten, ScriptEnds, ReadingArrives,
              runSelected, runSingleTool, runBatScript, BeginScript, StartQueue, BeginQueue,
              NextTool, QueueDone
<1>6. ResetTimerFires => UNCHANGED dialogVars
  BY DEF ResetTimerFires
<1>7. UNCHANGED vars => UNCHANGED dialogVars
  BY DEF vars
<1> QED BY <1>1, <1>2, <1>3, <1>4, <1>5, <1>6, <1>7 DEF Next, Reply

\* Starting a queue with a nonempty sequence of tools keeps the types.
LEMMA StartQueueType ==
    ASSUME TypeOK, NEW a \in Caller, NEW ids \in Seq(Tool), ids # <<>>,
           StartQueue(a, ids), DialogTypeOK',
           barRunning' \in BOOLEAN, startSnapshot' \in Snapshot,
           snapshotCalls' \in SUBSET Caller
    PROVE  TypeOK'
<1>1. Head(ids) \in Tool /\ Tail(ids) \in Seq(Tool) /\ Len(ids) \in Nat
  BY HeadTailProperties, LenProperties
<1>2. /\ isRunning' \in BOOLEAN
      /\ runQueue' \in Seq(Tool) /\ job' \in Seq(Tool) /\ started' \in Seq(Tool)
      /\ queueTotal' \in Nat /\ queueCompleted' \in Nat
      /\ queueSucceeded' \in Nat /\ queueFailed' \in Nat
  BY <1>1 DEF StartQueue, BeginQueue, ResetCounters
<1>3. /\ mark' \in [Tool -> Mark]
      /\ pc' \in [Caller -> Place]
      /\ tool' \in [Caller -> Tool \cup {Null}]
  BY <1>1 DEF StartQueue, BeginQueue, ResetCounters, TypeOK, Mark, Place
<1>4. summary' \in Summary /\ resetTimers' \in Nat /\ before' \in [Caller -> Snapshot]
  BY DEF StartQueue, BeginQueue, ResetCounters, TypeOK
<1> QED BY <1>2, <1>3, <1>4 DEF TypeOK

\* Every step keeps the types.
LEMMA TypeStep ==
    ASSUME TypeInv, [Next]_vars
    PROVE  TypeInv'
<1>0. DialogInv' /\ DialogTypeOK'
  BY DialogPart DEF DialogInv
<1> SUFFICES TypeOK'
  BY <1>0 DEF TypeInv
<1> TypeOK
  BY DEF TypeInv
<1>1. ASSUME NEW a \in Caller, runSelected(a) PROVE TypeOK'
  <2>1. PICK ids \in Selections : /\ StartQueue(a, ids)
                                  /\ barRunning' = TRUE
                                  /\ startSnapshot' = Null
                                  /\ snapshotCalls' = snapshotCalls \cup {a}
    BY <1>1 DEF setRunBarRunning, runSelected
  <2>2. snapshotCalls' \in SUBSET Caller /\ startSnapshot' \in Snapshot
    BY <2>1 DEF TypeOK, Snapshot
  <2> QED BY <1>0, <2>1, <2>2, SelectionsAreQueues, StartQueueType
<1>2. ASSUME NEW a \in Caller, NEW t \in Tool, runSingleTool(a, t) PROVE TypeOK'
  <2>1. <<t>> \in Seq(Tool) /\ <<t>> # <<>>
    OBVIOUS
  <2>2. barRunning' \in BOOLEAN /\ snapshotCalls' \in SUBSET Caller /\ startSnapshot' \in Snapshot
    BY <1>2 DEF TypeOK, runSingleTool
  <2> QED BY <1>0, <1>2, <2>1, <2>2, StartQueueType DEF runSingleTool
<1>3. ASSUME NEW a \in Caller, runBatScript(a) PROVE TypeOK'
  BY <1>0, <1>3 DEF TypeOK, runBatScript, BeginScript, Place, viewVars, usageVars
<1>4. ASSUME NEW a \in Caller, ScriptWritten(a) PROVE TypeOK'
  BY <1>0, <1>4 DEF TypeOK, ScriptWritten, Place, queueVars, viewVars, usageVars
<1>5. ASSUME NEW a \in Caller, ScriptEnds(a) PROVE TypeOK'
  BY <1>0, <1>5 DEF TypeOK, ScriptEnds, Place, viewVars, usageVars
<1>6. ASSUME NEW a \in Caller, NEW ok \in BOOLEAN, NextTool(a, ok) PROVE TypeOK'
  <2>1. Head(runQueue) \in Tool /\ Tail(runQueue) \in Seq(Tool)
    BY <1>6, HeadTailProperties DEF RestOfQueue, NextTool, TypeOK
  <2>2. queueCompleted' \in Nat /\ queueSucceeded' \in Nat /\ queueFailed' \in Nat
    BY <1>6, ToolAnsweredCounts DEF RestOfQueue, NextTool
  <2>3. runQueue' \in Seq(Tool) /\ started' \in Seq(Tool)
    BY <1>6, <2>1, AppendProperties DEF RestOfQueue, NextTool, TypeOK
  <2>4. tool' \in [Caller -> Tool \cup {Null}] /\ mark' \in [Tool -> Mark]
    BY <1>6, <2>1 DEF RestOfQueue, NextTool, TypeOK, Outcome, Mark
  <2> QED BY <1>0, <1>6, <2>2, <2>3, <2>4 DEF RestOfQueue, NextTool, TypeOK, usageVars
<1>7. ASSUME NEW a \in Caller, NEW ok \in BOOLEAN, QueueDone(a, ok) PROVE TypeOK'
  <2>1. queueCompleted' \in Nat /\ queueSucceeded' \in Nat /\ queueFailed' \in Nat
    BY <1>7, ToolAnsweredCounts DEF setRunBarRunning, QueueDone
  <2>2. summary' \in Summary
    BY <1>7, <2>1 DEF setRunBarRunning, QueueDone, TypeOK, Summary
  <2>3. tool' \in [Caller -> Tool \cup {Null}] /\ mark' \in [Tool -> Mark]
    BY <1>7 DEF setRunBarRunning, QueueDone, TypeOK, Outcome, Mark
  <2>4. pc' \in [Caller -> Place]
    BY <1>7 DEF setRunBarRunning, QueueDone, TypeOK, Place
  <2>5. isRunning' = FALSE /\ barRunning' = FALSE /\ resetTimers' = resetTimers + 1
    BY <1>7, Zenon DEF setRunBarRunning, QueueDone
  <2>6. resetTimers' \in Nat
    BY <2>5 DEF TypeOK
  <2> QED BY <1>0, <1>7, <2>1, <2>2, <2>3, <2>4, <2>5, <2>6 DEF setRunBarRunning, QueueDone, TypeOK, usageVars
<1>8. CASE ResetTimerFires
  BY <1>0, <1>8 DEF TypeOK, ResetTimerFires, Mark, queueVars, usageVars, taskVars
<1>9. ASSUME NEW a \in Caller, SnapshotArrives(a) PROVE TypeOK'
  <2>1. startSnapshot' \in Snapshot
    BY <1>9 DEF SnapshotArrives, Readings, Snapshot
  <2> QED BY <1>0, <1>9, <2>1 DEF TypeOK, SnapshotArrives, queueVars, viewVars, taskVars
<1>10. ASSUME NEW a \in Caller, ReadingArrives(a) PROVE TypeOK'
  <2>1. before' \in [Caller -> Snapshot]
    BY <1>10 DEF ReadingArrives, TypeOK, Snapshot
  <2> QED BY <1>0, <1>10, <2>1 DEF TypeOK, ReadingArrives, Place, queueVars, viewVars
<1>11. ASSUME NEW a \in Caller, ShowReport(a) PROVE TypeOK'
  BY <1>0, <1>11 DEF TypeOK, ShowReport, Place, queueVars, viewVars, usageVars
<1>12. CASE CloseReport
  BY <1>0, <1>12 DEF TypeOK, CloseReport, Place, Snapshot, queueVars, viewVars
<1>13. CASE DialogTimer
  BY <1>0, <1>13 DEF TypeOK, DialogTimer, queueVars, viewVars, usageVars, taskVars
<1>14. CASE UNCHANGED vars
  BY <1>0, <1>14 DEF TypeOK, vars, queueVars, viewVars, usageVars, taskVars
<1> QED
  BY <1>1, <1>2, <1>3, <1>4, <1>5, <1>6, <1>7, <1>8, <1>9, <1>10, <1>11, <1>12, <1>13, <1>14
     DEF Next, Click, Reply, ToolReply

\* The types hold of a page just loaded.
LEMMA TypeInit == Init => TypeInv
<1> SUFFICES ASSUME Init PROVE TypeInv
  OBVIOUS
<1>1. DialogInv
  BY DialogInitInv DEF Init
<1>2. /\ mark \in [Tool -> Mark] /\ pc \in [Caller -> Place]
      /\ before \in [Caller -> Snapshot] /\ tool \in [Caller -> Tool \cup {Null}]
      /\ startSnapshot \in Snapshot /\ summary \in Summary
  BY DEF Init, Mark, Place, Snapshot, Summary
<1>3. runQueue \in Seq(Tool) /\ job \in Seq(Tool) /\ started \in Seq(Tool)
  BY DEF Init
<1>4. /\ isRunning = FALSE /\ barRunning = FALSE /\ snapshotCalls = {} /\ resetTimers = 0
      /\ queueTotal = 0 /\ queueCompleted = 0 /\ queueSucceeded = 0 /\ queueFailed = 0
  BY DEF Init
<1>5. TypeOK
  BY <1>1, <1>2, <1>3, <1>4 DEF TypeOK, DialogInv
<1> QED BY <1>1, <1>5 DEF TypeInv

\* Every variable of the run engine and of its dialog keeps its type: no
\* counter of listeners or timers ever goes negative, no queue holds anything
\* but tools, whatever the clicks, replies and timers.
THEOREM TypeCorrect == Spec => []TypeOK
<1>1. Spec => []TypeInv
  BY TypeInit, TypeStep, PTL DEF Spec
<1> QED BY <1>1, PTL DEF TypeInv

-----------------------------------------------------------------------------
(* Safety.  The four invariants are inductive together: that only one       *)
(* activation is busy is what lets the shared queue, counters and marks be  *)
(* read as those of one run.                                                *)

RunInv == OneRunAtATime /\ EachToolOnce /\ TotalsAgree /\ NothingLeftDisabled

\* Only activations that are showing their report await the dialog, so that an
\* answer never ends one that has work in the backend.
WaitersReport == \A a \in waiting : pc[a] = "result"

SafeInv == RunInv /\ WaitersReport

\* While nothing runs no activation is busy.
LEMMA IdleMeansFree ==
    ASSUME OneRunAtATime, ~isRunning, NEW a \in Caller
    PROVE  pc[a] \notin {"tool", "write", "script"}
BY DEF OneRunAtATime, Busy

\* While a tool runs, its activation is the only busy one.
LEMMA OnlyBusy ==
    ASSUME OneRunAtATime, NEW a \in Caller, pc[a] \in {"tool", "write", "script"}
    PROVE  /\ isRunning
           /\ \A b \in Caller : pc[b] \in {"tool", "write", "script"} => b = a
BY DEF OneRunAtATime, Busy

\* A started queue is a fresh run: nothing of the run before is left in it.
LEMMA StartQueueSafe ==
    ASSUME TypeOK, RunInv, NEW a \in Caller, NEW ids \in Seq(Tool), ids # <<>>,
           StartQueue(a, ids)
    PROVE  RunInv'
<1> USE DEF RunInv
<1>1. \A b \in Caller : pc[b] \notin {"tool", "write", "script"}
  BY IdleMeansFree DEF StartQueue, BeginQueue, ResetCounters
<1>2. /\ pc'[a] = "tool" /\ tool'[a] = Head(ids) /\ isRunning' = TRUE
      /\ \A b \in Caller \ {a} : pc'[b] = pc[b]
  BY DEF StartQueue, BeginQueue, ResetCounters, TypeOK
<1>3. OneRunAtATime'
  BY <1>1, <1>2 DEF OneRunAtATime, Busy
<1>4. EachToolOnce'
  BY ShiftKeepsConcat, EmptySeq DEF EachToolOnce, StartQueue, BeginQueue, ResetCounters
<1>5. TotalsAgree'
  <2>1. /\ queueTotal' = Len(job') /\ queueCompleted' = 0
        /\ queueSucceeded' = 0 /\ queueFailed' = 0 /\ summary' = summary
    BY DEF StartQueue, BeginQueue, ResetCounters
  <2>2. Len(started') = 1
    BY DEF StartQueue, BeginQueue, ResetCounters
  <2> QED BY <1>2, <2>1, <2>2 DEF TotalsAgree
<1>6. NothingLeftDisabled'
  <2>1. \A t \in Tool : mark'[t] = "running" => t = Head(ids)
    BY <1>1 DEF NothingLeftDisabled, StartQueue, BeginQueue, ResetCounters, TypeOK
  <2> QED BY <1>2, <2>1 DEF NothingLeftDisabled
<1> QED BY <1>3, <1>4, <1>5, <1>6

\* A step that changes neither the queue nor its counters, and moves no
\* activation into or out of running a tool, keeps the run's bookkeeping.
LEMMA BookkeepingUnchanged ==
    ASSUME EachToolOnce, TotalsAgree,
           UNCHANGED <<runQueue, queueTotal, queueCompleted, queueSucceeded, queueFailed,
                       job, started, summary>>,
           \A a \in Caller : pc'[a] = "tool" <=> pc[a] = "tool"
    PROVE  EachToolOnce' /\ TotalsAgree'
<1>1. EachToolOnce'
  BY DEF EachToolOnce
<1>2. TotalsAgree'
  BY DEF TotalsAgree
<1> QED BY <1>1, <1>2

\* The same for what is shown as disabled.
LEMMA ViewUnchanged ==
    ASSUME NothingLeftDisabled, UNCHANGED <<mark, barRunning, tool>>,
           \A a \in Caller : pc'[a] = "tool" <=> pc[a] = "tool"
    PROVE  NothingLeftDisabled'
BY DEF NothingLeftDisabled

\* And for the busy activations, when no activation becomes or ceases to be busy.
LEMMA BusyUnchanged ==
    ASSUME OneRunAtATime, UNCHANGED isRunning,
           \A a \in Caller : pc'[a] \in {"tool", "write", "script"}
                               <=> pc[a] \in {"tool", "write", "script"}
    PROVE  OneRunAtATime'
<1>1. Busy' = Busy
  BY DEF Busy
<1> QED BY <1>1 DEF OneRunAtATime

\* processQueue takes the next tool from the queue.
LEMMA NextToolSafe ==
    ASSUME TypeOK, RunInv, NEW a \in Caller, NEW ok \in BOOLEAN, NextTool(a, ok)
    PROVE  RunInv'
<1> USE DEF RunInv
<1>1. pc[a] = "tool" /\ pc' = pc /\ isRunning' = isRunning /\ barRunning' = barRunning
  BY DEF RestOfQueue, NextTool, ToolAnswered
<1>2. OneRunAtATime'
  BY <1>1, BusyUnchanged
<1>3. runQueue \in Seq(Tool) /\ runQueue # <<>> /\ started \in Seq(Tool)
  BY DEF RestOfQueue, NextTool, TypeOK
<1>4. EachToolOnce'
  BY <1>3, ShiftKeepsConcat DEF EachToolOnce, NextTool, RestOfQueue
<1>5. TotalsAgree'
  <2>1. /\ queueCompleted' = queueCompleted + 1
        /\ queueSucceeded' + queueFailed' = queueSucceeded + queueFailed + 1
    BY ToolAnsweredCounts DEF RestOfQueue, NextTool
  <2>2. Len(started') = Len(started) + 1
    BY <1>3, ShiftKeepsConcat, AppendProperties DEF RestOfQueue, NextTool
  <2>3. queueTotal' = queueTotal /\ job' = job /\ summary' = summary
    BY DEF RestOfQueue, NextTool
  <2>4. queueCompleted + 1 = Len(started)
    BY <1>1 DEF TotalsAgree
  <2>5. queueCompleted' = queueSucceeded' + queueFailed'
    BY <2>1 DEF TotalsAgree, TypeOK
  <2> QED BY <1>1, <2>1, <2>2, <2>3, <2>4, <2>5 DEF TotalsAgree
<1>6. NothingLeftDisabled'
  <2>1. tool'[a] = Head(runQueue)
    BY DEF RestOfQueue, NextTool, TypeOK
  <2>2. \A t \in Tool : mark'[t] = "running" => t = Head(runQueue)
    <3>1. SUFFICES ASSUME NEW t \in Tool, mark'[t] = "running", t # Head(runQueue) PROVE FALSE
      OBVIOUS
    <3>2. t # tool[a] /\ mark[t] = "running"
      BY <3>1 DEF RestOfQueue, NextTool, TypeOK, Outcome
    <3>3. PICK b \in Caller : pc[b] = "tool" /\ tool[b] = t
      BY <3>2 DEF NothingLeftDisabled
    <3>4. b = a
      BY <1>1, <3>3, OnlyBusy
    <3> QED BY <3>2, <3>3, <3>4
  <2> QED BY <1>1, <2>1, <2>2 DEF NothingLeftDisabled
<1> QED BY <1>2, <1>4, <1>5, <1>6

\* processQueue finds the queue empty and reports.
LEMMA QueueDoneSafe ==
    ASSUME TypeOK, RunInv, NEW a \in Caller, NEW ok \in BOOLEAN, QueueDone(a, ok)
    PROVE  RunInv'
<1> USE DEF RunInv
<1>1. /\ pc[a] = "tool" /\ runQueue = <<>> /\ runQueue' = <<>>
      /\ isRunning' = FALSE /\ barRunning' = FALSE
  BY Zenon DEF setRunBarRunning, QueueDone, ToolAnswered
<1>2. \A b \in Caller : pc'[b] \notin {"tool", "write", "script"}
  BY <1>1, OnlyBusy DEF setRunBarRunning, QueueDone, TypeOK
<1>3. OneRunAtATime'
  BY <1>1, <1>2 DEF OneRunAtATime, Busy
<1>4. job' = job /\ started' = started /\ queueTotal' = queueTotal
  BY DEF setRunBarRunning, QueueDone
<1>5. EachToolOnce'
  BY <1>1, <1>4 DEF EachToolOnce
<1>6. TotalsAgree'
  <2>1. /\ queueCompleted' = queueCompleted + 1
        /\ queueSucceeded' + queueFailed' = queueSucceeded + queueFailed + 1
    BY ToolAnsweredCounts DEF setRunBarRunning, QueueDone
  <2>2. started = job
    BY <1>1, ConcatEmptySeq DEF EachToolOnce, TypeOK
  <2>3. queueCompleted' = queueTotal
    BY <1>1, <2>1, <2>2 DEF TotalsAgree
  <2>4. queueCompleted' = queueSucceeded' + queueFailed'
    BY <2>1 DEF TotalsAgree, TypeOK
  <2>5. summary'.total = queueTotal /\ summary'.ok = queueSucceeded' /\ summary'.bad = queueFailed'
    BY DEF setRunBarRunning, QueueDone
  <2> QED BY <1>1, <1>2, <1>4, <2>3, <2>4, <2>5 DEF TotalsAgree
<1>7. NothingLeftDisabled'
  <2>1. SUFFICES ASSUME NEW t \in Tool, mark'[t] = "running" PROVE FALSE
    BY <1>1 DEF NothingLeftDisabled
  <2>2. t # tool[a] /\ mark[t] = "running"
    BY <2>1 DEF setRunBarRunning, QueueDone, TypeOK, Outcome
  <2>3. PICK b \in Caller : pc[b] = "tool" /\ tool[b] = t
    BY <2>2 DEF NothingLeftDisabled
  <2> QED BY <1>1, <2>2, <2>3, OnlyBusy
<1> QED BY <1>3, <1>5, <1>6, <1>7

\* Every step keeps the run's bookkeeping, its view and the busy activations.
LEMMA RunStep ==
    ASSUME TypeInv, SafeInv, [Next]_vars
    PROVE  RunInv'
<1> TypeOK /\ RunInv /\ OneRunAtATime /\ EachToolOnce /\ TotalsAgree /\ NothingLeftDisabled
  BY DEF TypeInv, SafeInv, RunInv
<1>1. ASSUME NEW a \in Caller, runSelected(a) PROVE RunInv'
  BY <1>1, SelectionsAreQueues, StartQueueSafe DEF setRunBarRunning, runSelected
<1>2. ASSUME NEW a \in Caller, NEW t \in Tool, runSingleTool(a, t) PROVE RunInv'
  <2>1. <<t>> \in Seq(Tool) /\ <<t>> # <<>>
    OBVIOUS
  <2> QED BY <1>2, <2>1, StartQueueSafe DEF runSingleTool
<1>3. ASSUME NEW a \in Caller, runBatScript(a) PROVE RunInv'
  <2>1. isRunning' = TRUE /\ pc'[a] = "write" /\ \A b \in Caller \ {a} : pc'[b] = pc[b]
    BY <1>3 DEF runBatScript, BeginScript, TypeOK
  <2>2. \A b \in Caller : pc[b] \notin {"tool", "write", "script"}
    BY <1>3, IdleMeansFree DEF runBatScript, BeginScript
  <2>3. OneRunAtATime'
    BY <2>1, <2>2 DEF OneRunAtATime, Busy
  <2>4. EachToolOnce' /\ TotalsAgree'
    BY <1>3, <2>1, <2>2, BookkeepingUnchanged DEF runBatScript, BeginScript
  <2>5. NothingLeftDisabled'
    BY <1>3, <2>1, <2>2, ViewUnchanged DEF runBatScript, BeginScript, viewVars
  <2> QED BY <2>3, <2>4, <2>5 DEF RunInv
<1>4. ASSUME NEW a \in Caller, ScriptWritten(a) PROVE RunInv'
  <2>1. pc[a] = "write" /\ pc'[a] = "script" /\ \A b \in Caller \ {a} : pc'[b] = pc[b]
    BY <1>4 DEF ScriptWritten, TypeOK
  <2>2. OneRunAtATime'
    BY <1>4, <2>1, BusyUnchanged DEF ScriptWritten, queueVars
  <2>3. EachToolOnce' /\ TotalsAgree'
    BY <1>4, <2>1, BookkeepingUnchanged DEF ScriptWritten, queueVars
  <2>4. NothingLeftDisabled'
    BY <1>4, <2>1, ViewUnchanged DEF ScriptWritten, viewVars
  <2> QED BY <2>2, <2>3, <2>4 DEF RunInv
<1>5. ASSUME NEW a \in Caller, ScriptEnds(a) PROVE RunInv'
  <2>1. /\ pc[a] = "script" /\ pc'[a] = "ended" /\ isRunning' = FALSE
        /\ \A b \in Caller \ {a} : pc'[b] = pc[b]
    BY <1>5 DEF ScriptEnds, TypeOK
  <2>2. OneRunAtATime'
    BY <2>1, OnlyBusy DEF OneRunAtATime, Busy
  <2>3. EachToolOnce' /\ TotalsAgree'
    BY <1>5, <2>1, BookkeepingUnchanged DEF ScriptEnds
  <2>4. NothingLeftDisabled'
    BY <1>5, <2>1, ViewUnchanged DEF ScriptEnds, viewVars
  <2> QED BY <2>2, <2>3, <2>4 DEF RunInv
<1>6. ASSUME NEW a \in Caller, NEW ok \in BOOLEAN, NextTool(a, ok) PROVE RunInv'
  BY <1>6, NextToolSafe
<1>7. ASSUME NEW a \in Caller, NEW ok \in BOOLEAN, QueueDone(a, ok) PROVE RunInv'
  BY <1>7, QueueDoneSafe
<1>8. CASE ResetTimerFires
  <2>1. OneRunAtATime'
    BY <1>8, BusyUnchanged DEF ResetTimerFires, queueVars, taskVars
  <2>2. EachToolOnce' /\ TotalsAgree'
    BY <1>8, BookkeepingUnchanged DEF ResetTimerFires, queueVars, taskVars
  <2>3. NothingLeftDisabled'
    BY <1>8 DEF ResetTimerFires, taskVars, NothingLeftDisabled
  <2> QED BY <2>1, <2>2, <2>3 DEF RunInv
<1>9. ASSUME NEW a \in Caller,
             \/ ReadingArrives(a) /\ pc'[a] = "usage"
             \/ ShowReport(a) /\ pc'[a] = "result"
      PROVE RunInv'
  <2>1. pc[a] \in {"after", "usage"} /\ \A b \in Caller \ {a} : pc'[b] = pc[b]
    BY <1>9 DEF ReadingArrives, ShowReport, TypeOK
  <2>2. OneRunAtATime'
    BY <1>9, <2>1, BusyUnchanged DEF ReadingArrives, ShowReport, queueVars
  <2>3. EachToolOnce' /\ TotalsAgree'
    BY <1>9, <2>1, BookkeepingUnchanged DEF ReadingArrives, ShowReport, queueVars
  <2>4. NothingLeftDisabled'
    BY <1>9, <2>1, ViewUnchanged DEF ReadingArrives, ShowReport, viewVars
  <2> QED BY <2>2, <2>3, <2>4 DEF RunInv
<1>10. CASE CloseReport
  <2>1. \A b \in Caller : pc'[b] # pc[b] => pc[b] = "result" /\ pc'[b] = "ended"
    <3>1. dialogResolve # NoCaller => dialogResolve \in waiting
      BY Zenon DEF TypeInv, DialogInv, SlotMatchesDialog
    <3>2. \A b \in Caller : b = dialogResolve => pc[b] = "result"
      BY <3>1, NoCallerAssumption DEF SafeInv, WaitersReport
    <3>3. pc' = [b \in Caller |-> IF b = dialogResolve THEN "ended" ELSE pc[b]]
      BY <1>10 DEF CloseReport
    <3> QED BY <3>2, <3>3
  <2>2. OneRunAtATime'
    BY <1>10, <2>1, BusyUnchanged DEF CloseReport, queueVars
  <2>3. EachToolOnce' /\ TotalsAgree'
    BY <1>10, <2>1, BookkeepingUnchanged DEF CloseReport, queueVars
  <2>4. NothingLeftDisabled'
    BY <1>10, <2>1, ViewUnchanged DEF CloseReport, viewVars
  <2> QED BY <2>2, <2>3, <2>4 DEF RunInv
<1>11. ASSUME UNCHANGED <<queueVars, viewVars, taskVars>> PROVE RunInv'
  <2>1. OneRunAtATime'
    BY <1>11, BusyUnchanged DEF queueVars, taskVars
  <2>2. EachToolOnce' /\ TotalsAgree'
    BY <1>11, BookkeepingUnchanged DEF queueVars, taskVars
  <2>3. NothingLeftDisabled'
    BY <1>11, ViewUnchanged DEF viewVars, taskVars
  <2> QED BY <2>1, <2>2, <2>3 DEF RunInv
<1>12. ASSUME NEW a \in Caller, SnapshotArrives(a) PROVE RunInv'
  BY <1>11, <1>12 DEF SnapshotArrives
<1>13. CASE DialogTimer
  BY <1>11, <1>13 DEF DialogTimer
<1>14. CASE UNCHANGED vars
  BY <1>11, <1>14 DEF vars
<1>15. ASSUME NEW a \in Caller, ReadingArrives(a) \/ ShowReport(a) PROVE RunInv'
  BY <1>9, <1>15 DEF ReadingArrives, ShowReport, TypeOK
<1> QED
  BY <1>1, <1>2, <1>3, <1>4, <1>5, <1>6, <1>7, <1>8, <1>10, <1>12, <1>13, <1>14, <1>15
     DEF Next, Click, Reply, ToolReply

\* Awaiting the dialog begins with the report and ends with its answer.
LEMMA WaitersStep ==
    ASSUME TypeInv, SafeInv, [Next]_vars
    PROVE  WaitersReport'
<1> USE DEF WaitersReport
<1> TypeOK /\ RunInv /\ WaitersReport /\ waiting \subseteq Caller
  BY DEF TypeInv, SafeInv, TypeOK, DialogTypeOK
<1>1. ASSUME waiting' = waiting, \A b \in Caller : pc'[b] # pc[b] => pc[b] # "result"
      PROVE  WaitersReport'
  BY <1>1
<1>2. ASSUME NEW a \in Caller, NEW ids, StartQueue(a, ids) PROVE WaitersReport'
  BY <1>1, <1>2 DEF StartQueue, BeginQueue, ResetCounters, TypeOK, dialogVars
<1>3. ASSUME NEW a \in Caller, Click(a) PROVE WaitersReport'
  <2>1. CASE runBatScript(a)
    BY <1>1, <2>1 DEF runBatScript, BeginScript, TypeOK, dialogVars
  <2> QED BY <1>2, <1>3, <2>1 DEF Click, runSelected, runSingleTool
<1>4. ASSUME NEW a \in Caller, ToolReply(a) \/ ScriptWritten(a) \/ ScriptEnds(a) \/ ReadingArrives(a)
      PROVE WaitersReport'
  BY <1>1, <1>4 DEF ToolReply, NextTool, QueueDone, ToolAnswered, ScriptWritten, ScriptEnds,
                    ReadingArrives, TypeOK, dialogVars
<1>5. ASSUME NEW a \in Caller, ShowReport(a) PROVE WaitersReport'
  BY <1>5 DEF ShowReport, showDialog, TypeOK
<1>6. CASE CloseReport
  BY <1>6 DEF CloseReport, closeDialog, ResolveSlot
<1>7. ASSUME pc' = pc, waiting' = waiting PROVE WaitersReport'
  BY <1>7
<1>8. (\E a \in Caller : SnapshotArrives(a)) \/ ResetTimerFires \/ DialogTimer \/ UNCHANGED vars
        => pc' = pc /\ waiting' = waiting
  BY DEF SnapshotArrives, ResetTimerFires, DialogTimer, CloseTimerFires, vars, taskVars, dialogVars
<1> QED BY <1>3, <1>4, <1>5, <1>6, <1>7, <1>8 DEF Next, Reply

\* The whole invariant holds of a page just loaded.
LEMMA SafeInit == Init => SafeInv
<1> SUFFICES ASSUME Init PROVE SafeInv
  OBVIOUS
<1>1. OneRunAtATime /\ NothingLeftDisabled
  BY DEF Init, OneRunAtATime, NothingLeftDisabled, Busy
<1>2. EachToolOnce
  BY ConcatEmptySeq, EmptySeq DEF Init, EachToolOnce
<1>3. TotalsAgree
  BY EmptySeq DEF Init, TotalsAgree
<1>4. WaitersReport
  BY DEF Init, DialogInit, WaitersReport
<1> QED BY <1>1, <1>2, <1>3, <1>4 DEF SafeInv, RunInv

\* However the clicks, the replies of the backend and the timers interleave:
\* one program runs at a time and the isRunning flag says so; a run starts each
\* of its tools once, in order; its counters and the line it logs are its own;
\* and nothing stays disabled after it.
THEOREM RunSafety ==
    Spec => [](OneRunAtATime /\ EachToolOnce /\ TotalsAgree /\ NothingLeftDisabled)
<1>1. Init => TypeInv /\ SafeInv
  BY TypeInit, SafeInit
<1>2. TypeInv /\ SafeInv /\ [Next]_vars => TypeInv' /\ SafeInv'
  BY TypeStep, RunStep, WaitersStep DEF SafeInv
<1>3. Spec => [](TypeInv /\ SafeInv)
  BY <1>1, <1>2, PTL DEF Spec
<1> QED BY <1>3, PTL DEF SafeInv, RunInv

-----------------------------------------------------------------------------
(* Refinement: the engine implements JobRunner.  What is asked of it beyond *)
(* the invariants above is that no tool is queued twice: then the tool that *)
(* answers leaves the set of those that have not.                           *)

QueueDistinct ==
    /\ \A i, j \in 1 .. Len(runQueue) : i # j => runQueue[i] # runQueue[j]
    /\ \A a \in Caller : pc[a] = "tool" =>
          /\ tool[a] \in Tool
          /\ \A i \in 1 .. Len(runQueue) : runQueue[i] # tool[a]

\* The ticked tools are different ones.
LEMMA SelectionsDistinct ==
    ASSUME NEW ids \in Selections
    PROVE  \A i, j \in 1 .. Len(ids) : i # j => ids[i] # ids[j]
<1>1. PICK n \in 1 .. ToolCount : ids \in [1 .. n -> Tool]
  BY DEF Selections
<1>2. \A i, j \in DOMAIN ids : i < j => ids[i] < ids[j]
  BY DEF Selections
<1>3. ids \in Seq(Tool) /\ DOMAIN ids = 1 .. Len(ids)
  BY SelectionsAreQueues, LenProperties
<1>4. \A i \in 1 .. Len(ids) : ids[i] \in Tool
  BY <1>3, ElementOfSeq
<1>5. \A i \in 1 .. Len(ids) : ids[i] \in Int
  BY <1>4, ToolAssumption DEF Tool
<1>6. Len(ids) \in Nat
  BY <1>3, LenProperties
<1> QED BY <1>2, <1>3, <1>5, <1>6

\* What is left of a queue without its head, by index and by range.
LEMMA QueueWithoutHead ==
    ASSUME NEW q \in Seq(Tool), q # <<>>
    PROVE  /\ \A i \in 1 .. Len(Tail(q)) : i + 1 \in 1 .. Len(q) /\ Tail(q)[i] = q[i + 1]
           /\ Head(q) = q[1] /\ 1 \in 1 .. Len(q)
           /\ Range(Tail(q)) \cup {Head(q)} = Range(q)
           /\ Range(q) \subseteq Tool
<1>1. /\ Tail(q) \in Seq(Tool) /\ Len(Tail(q)) = Len(q) - 1 /\ Len(q) \in Nat \ {0}
      /\ \A i \in 1 .. Len(Tail(q)) : Tail(q)[i] = q[i + 1]
      /\ Head(q) \in Tool
  BY HeadTailProperties, EmptySeq
<1>2. Head(q) = q[1]
  OBVIOUS
<1>3. DOMAIN q = 1 .. Len(q) /\ DOMAIN Tail(q) = 1 .. Len(Tail(q))
  BY <1>1, LenProperties
<1>4. \A i \in 1 .. Len(q) : i = 1 \/ i - 1 \in 1 .. Len(Tail(q))
  BY <1>1
<1>5. Range(Tail(q)) \cup {Head(q)} = Range(q)
  <2>1. Range(q) = {q[i] : i \in 1 .. Len(q)}
    BY <1>3 DEF Range
  <2>2. Range(Tail(q)) = {Tail(q)[i] : i \in 1 .. Len(Tail(q))}
    BY <1>3 DEF Range
  <2>3. \A i \in 1 .. Len(Tail(q)) : i + 1 \in 1 .. Len(q)
    BY <1>1
  <2>4. ASSUME NEW x \in Range(q) PROVE x \in Range(Tail(q)) \cup {Head(q)}
    <3>1. PICK i \in 1 .. Len(q) : x = q[i]
      BY <2>1
    <3>2. CASE i - 1 \in 1 .. Len(Tail(q))
      <4>1. Tail(q)[i - 1] = q[(i - 1) + 1] /\ (i - 1) + 1 = i
        BY <1>1, <3>2
      <4> QED BY <2>2, <3>1, <3>2, <4>1
    <3> QED BY <1>2, <1>4, <3>1, <3>2
  <2>5. ASSUME NEW x \in Range(Tail(q)) PROVE x \in Range(q)
    BY <1>1, <2>1, <2>2, <2>3, <2>5
  <2>6. Head(q) \in Range(q)
    BY <1>1, <1>2, <2>1
  <2> QED BY <2>4, <2>5, <2>6
<1>6. Range(q) \subseteq Tool
  BY <1>3, ElementOfSeq DEF Range
<1> QED BY <1>1, <1>2, <1>5, <1>6

\* A queue just started has no tool twice, and its first tool is not in the rest.
LEMMA StartQueueDistinct ==
    ASSUME TypeOK, OneRunAtATime, NEW a \in Caller, NEW ids \in Seq(Tool), ids # <<>>,
           \A i, j \in 1 .. Len(ids) : i # j => ids[i] # ids[j], StartQueue(a, ids)
    PROVE  QueueDistinct'
<1>1. runQueue' = Tail(ids) /\ tool'[a] = Head(ids) /\ pc' = [pc EXCEPT ![a] = "tool"]
  BY DEF StartQueue, BeginQueue, TypeOK
<1>2. \A b \in Caller : b # a => pc'[b] # "tool"
  BY <1>1, IdleMeansFree DEF StartQueue, TypeOK
<1>3. /\ \A i \in 1 .. Len(Tail(ids)) : i + 1 \in 1 .. Len(ids) /\ Tail(ids)[i] = ids[i + 1]
      /\ Head(ids) = ids[1] /\ 1 \in 1 .. Len(ids)
  BY QueueWithoutHead
<1>4. \A i \in 1 .. Len(Tail(ids)) : i \in Nat /\ i + 1 # 1
  BY ShiftKeepsConcat, EmptySeq
<1>5. \A i, j \in 1 .. Len(Tail(ids)) : i # j => Tail(ids)[i] # Tail(ids)[j]
  BY <1>3, <1>4
<1>6. \A i \in 1 .. Len(Tail(ids)) : Tail(ids)[i] # Head(ids)
  BY <1>3, <1>4
<1>7. Head(ids) \in Tool
  BY ShiftKeepsConcat
<1> QED BY <1>1, <1>2, <1>5, <1>6, <1>7 DEF QueueDistinct

\* The tool that was first in the queue runs now; the others are still distinct.
LEMMA NextToolDistinct ==
    ASSUME TypeOK, OneRunAtATime, QueueDistinct, NEW a \in Caller, NEW ok, NextTool(a, ok)
    PROVE  QueueDistinct'
<1>1. /\ runQueue \in Seq(Tool) /\ runQueue # <<>> /\ runQueue' = Tail(runQueue)
      /\ tool' = [tool EXCEPT ![a] = Head(runQueue)] /\ pc' = pc /\ pc[a] = "tool"
  BY DEF NextTool, ToolAnswered, RestOfQueue, TypeOK
<1>2. \A b \in Caller : pc[b] = "tool" => b = a
  BY <1>1, OnlyBusy DEF TypeOK
<1>3. /\ \A i \in 1 .. Len(Tail(runQueue)) :
             i + 1 \in 1 .. Len(runQueue) /\ Tail(runQueue)[i] = runQueue[i + 1]
      /\ Head(runQueue) = runQueue[1] /\ 1 \in 1 .. Len(runQueue)
  BY <1>1, QueueWithoutHead
<1>4. Tail(runQueue) \in Seq(Tool) /\ Head(runQueue) \in Tool
  BY <1>1, ShiftKeepsConcat
<1>5. \A i \in 1 .. Len(Tail(runQueue)) : i \in Nat /\ i + 1 # 1
  BY <1>4, EmptySeq
<1>6. \A i, j \in 1 .. Len(Tail(runQueue)) : i # j => Tail(runQueue)[i] # Tail(runQueue)[j]
  BY <1>3, <1>5 DEF QueueDistinct
<1>7. \A i \in 1 .. Len(Tail(runQueue)) : Tail(runQueue)[i] # Head(runQueue)
  BY <1>3, <1>5 DEF QueueDistinct
<1>8. tool'[a] = Head(runQueue)
  BY <1>1 DEF TypeOK
<1> QED BY <1>1, <1>2, <1>4, <1>6, <1>7, <1>8 DEF QueueDistinct

\* A step that leaves the queue and the running tool alone.
LEMMA DistinctUnchanged ==
    ASSUME TypeOK, QueueDistinct, runQueue' = runQueue,
           \A a \in Caller : pc'[a] = "tool" => pc[a] = "tool" /\ tool'[a] = tool[a]
    PROVE  QueueDistinct'
  BY DEF QueueDistinct

\* No step ever queues a tool twice.
LEMMA DistinctStep ==
    ASSUME TypeInv, SafeInv, QueueDistinct, [Next]_vars
    PROVE  QueueDistinct'
<1> TypeOK /\ OneRunAtATime
  BY DEF TypeInv, SafeInv, RunInv
<1>1. ASSUME NEW a \in Caller, runSelected(a) PROVE QueueDistinct'
  BY <1>1, SelectionsAreQueues, SelectionsDistinct, StartQueueDistinct DEF runSelected
<1>2. ASSUME NEW a \in Caller, NEW t \in Tool, runSingleTool(a, t) PROVE QueueDistinct'
  <2>1. /\ <<t>> \in Seq(Tool) /\ <<t>> # <<>>
        /\ \A i, j \in 1 .. Len(<<t>>) : i # j => <<t>>[i] # <<t>>[j]
    OBVIOUS
  <2> QED BY <1>2, <2>1, StartQueueDistinct DEF runSingleTool
<1>3. ASSUME NEW a \in Caller, NEW ok \in BOOLEAN, NextTool(a, ok) PROVE QueueDistinct'
  BY <1>3, NextToolDistinct
<1>4. ASSUME NEW a \in Caller, NEW ok \in BOOLEAN, QueueDone(a, ok) PROVE QueueDistinct'
  <2>1. \A b \in Caller : pc'[b] = "tool" => b # a /\ pc[b] = "tool"
    BY <1>4 DEF QueueDone, ToolAnswered, TypeOK
  <2> QED BY <1>4, <2>1, DistinctUnchanged DEF QueueDone, TypeOK
<1>5. ASSUME NEW a \in Caller,
             runBatScript(a) \/ ScriptWritten(a) \/ ScriptEnds(a) \/ ReadingArrives(a)
                \/ ShowReport(a) \/ SnapshotArrives(a)
      PROVE QueueDistinct'
  BY <1>5, DistinctUnchanged
     DEF runBatScript, BeginScript, ScriptWritten, ScriptEnds, ReadingArrives, ShowReport,
         SnapshotArrives, queueVars, taskVars, TypeOK
<1>6. CASE ResetTimerFires \/ CloseReport \/ DialogTimer \/ UNCHANGED vars
  BY <1>6, DistinctUnchanged
     DEF ResetTimerFires, CloseReport, DialogTimer, vars, queueVars, taskVars, TypeOK
<1> QED BY <1>1, <1>2, <1>3, <1>4, <1>5, <1>6 DEF Next, Click, Reply, ToolReply

\* The job runner's variables, as CleanRun's instance Jobs maps them.
JobKind == IF QueueRunning THEN "queue" ELSE IF isRunning THEN "script" ELSE "none"
JobLeft == Range(runQueue) \cup {tool[a] : a \in {b \in Caller : pc[b] = "tool"}}
JobOk == IF QueueRunning THEN queueSucceeded ELSE 0
JobBad == IF QueueRunning THEN queueFailed ELSE 0
JobVars == <<JobKind, JobLeft, JobOk, JobBad, summary>>

\* While an activation runs a tool, the job is a queue, and the tools left are
\* those in the queue and this one; while none does, nothing is left and nothing
\* counted.
JobMapped ==
    /\ \A a \in Caller : pc[a] = "tool" =>
          /\ JobKind = "queue"
          /\ JobLeft = Range(runQueue) \cup {tool[a]}
          /\ JobOk = queueSucceeded /\ JobBad = queueFailed
    /\ (\A a \in Caller : pc[a] # "tool") =>
          /\ JobKind = IF isRunning THEN "script" ELSE "none"
          /\ JobLeft = {} /\ JobOk = 0 /\ JobBad = 0

\* The engine's invariants make the mapping what it should be.
LEMMA MappingHolds == SafeInv => JobMapped
<1> SUFFICES ASSUME SafeInv PROVE JobMapped
  OBVIOUS
<1>1. ASSUME NEW a \in Caller, pc[a] = "tool"
      PROVE  /\ JobKind = "queue"
             /\ JobLeft = Range(runQueue) \cup {tool[a]}
             /\ JobOk = queueSucceeded /\ JobBad = queueFailed
  <2>1. QueueRunning
    BY <1>1 DEF QueueRunning
  <2>2. {b \in Caller : pc[b] = "tool"} = {a}
    BY <1>1, OnlyBusy DEF SafeInv, RunInv
  <2> QED BY <2>1, <2>2 DEF JobKind, JobLeft, JobOk, JobBad
<1>2. ASSUME \A a \in Caller : pc[a] # "tool"
      PROVE  /\ JobKind = IF isRunning THEN "script" ELSE "none"
             /\ JobLeft = {} /\ JobOk = 0 /\ JobBad = 0
  <2>1. ~QueueRunning
    BY <1>2 DEF QueueRunning
  <2>2. runQueue = <<>>
    BY <1>2 DEF SafeInv, RunInv, TotalsAgree
  <2>3. Range(runQueue) = {}
    BY <2>2 DEF Range
  <2> QED BY <1>2, <2>1, <2>3 DEF JobKind, JobLeft, JobOk, JobBad
<1> QED BY <1>1, <1>2 DEF JobMapped

\* What a step of the refinement may use.
RefineInv == TypeInv /\ SafeInv /\ QueueDistinct /\ JobMapped

\* A queue begins: the job runner starts one with the same tools.
LEMMA StartQueueRefines ==
    ASSUME RefineInv, RefineInv', NEW a \in Caller, NEW ids \in Seq(Tool), ids # <<>>,
           StartQueue(a, ids)
    PROVE  Jobs!StartQueue
<1>1. /\ ~isRunning /\ pc'[a] = "tool" /\ tool'[a] = Head(ids) /\ runQueue' = Tail(ids)
      /\ queueSucceeded' = 0 /\ queueFailed' = 0 /\ summary' = summary
  BY DEF StartQueue, BeginQueue, ResetCounters, RefineInv, TypeInv, TypeOK
<1>2. \A b \in Caller : pc[b] # "tool"
  BY <1>1, IdleMeansFree DEF RefineInv, SafeInv, RunInv
<1>3. JobKind = "none" /\ JobOk = 0 /\ JobBad = 0
  BY <1>1, <1>2 DEF RefineInv, JobMapped
<1>4. JobKind' = "queue" /\ JobOk' = 0 /\ JobBad' = 0 /\ JobLeft' = Range(Tail(ids)) \cup {Head(ids)}
  BY <1>1 DEF RefineInv, JobMapped
<1>5. JobLeft' \in (SUBSET Tool) \ {{}}
  BY <1>4, QueueWithoutHead
<1> QED BY <1>1, <1>3, <1>4, <1>5 DEF Jobs!StartQueue, JobKind, JobLeft, JobOk, JobBad

\* A tool answers and another is started: an answer of the job runner.
LEMMA NextToolRefines ==
    ASSUME RefineInv, RefineInv', NEW a \in Caller, NEW ok \in BOOLEAN, NextTool(a, ok)
    PROVE  Jobs!Answer(tool[a], ok)
<1>1. /\ pc[a] = "tool" /\ pc'[a] = "tool" /\ tool'[a] = Head(runQueue)
      /\ runQueue \in Seq(Tool) /\ runQueue # <<>> /\ runQueue' = Tail(runQueue)
      /\ summary' = summary
      /\ queueSucceeded' = queueSucceeded + One(ok) /\ queueFailed' = queueFailed + One(~ok)
      /\ queueSucceeded \in Nat /\ queueFailed \in Nat
  BY DEF NextTool, ToolAnswered, RestOfQueue, RefineInv, TypeInv, TypeOK
<1>2. /\ JobKind = "queue" /\ JobLeft = Range(runQueue) \cup {tool[a]}
      /\ JobOk = queueSucceeded /\ JobBad = queueFailed
  BY <1>1 DEF RefineInv, JobMapped
<1>3. /\ JobKind' = "queue" /\ JobLeft' = Range(Tail(runQueue)) \cup {Head(runQueue)}
      /\ JobOk' = queueSucceeded' /\ JobBad' = queueFailed'
  BY <1>1 DEF RefineInv, JobMapped
<1>4. Range(Tail(runQueue)) \cup {Head(runQueue)} = Range(runQueue)
  BY <1>1, QueueWithoutHead
<1>5. tool[a] \notin Range(runQueue)
  <2>1. Range(runQueue) = {runQueue[i] : i \in 1 .. Len(runQueue)}
    BY <1>1, LenProperties DEF Range
  <2> QED BY <1>1, <2>1 DEF RefineInv, QueueDistinct
<1>6. JobLeft' = JobLeft \ {tool[a]} /\ JobLeft # {tool[a]} /\ tool[a] \in JobLeft
  BY <1>2, <1>3, <1>4, <1>5
<1>7. IF ok THEN JobOk' = JobOk + 1 /\ JobBad' = JobBad ELSE JobBad' = JobBad + 1 /\ JobOk' = JobOk
  BY <1>1, <1>2, <1>3 DEF One
<1> QED BY <1>1, <1>2, <1>3, <1>6, <1>7 DEF Jobs!Answer, JobKind, JobLeft, JobOk, JobBad

\* The last tool answers: the job runner's last answer, with its report.
LEMMA QueueDoneRefines ==
    ASSUME RefineInv, RefineInv', NEW a \in Caller, NEW ok \in BOOLEAN, QueueDone(a, ok)
    PROVE  Jobs!LastAnswer(tool[a], ok)
<1>1. /\ pc[a] = "tool" /\ runQueue = <<>> /\ isRunning' = FALSE
      /\ summary' = [total |-> queueTotal, ok |-> queueSucceeded', bad |-> queueFailed']
      /\ queueSucceeded' = queueSucceeded + One(ok) /\ queueFailed' = queueFailed + One(~ok)
      /\ queueSucceeded \in Nat /\ queueFailed \in Nat /\ queueCompleted \in Nat
  BY DEF QueueDone, ToolAnswered, RefineInv, TypeInv, TypeOK
<1>2. /\ JobKind = "queue" /\ JobLeft = Range(runQueue) \cup {tool[a]}
      /\ JobOk = queueSucceeded /\ JobBad = queueFailed
  BY <1>1 DEF RefineInv, JobMapped
<1>3. JobLeft = {tool[a]}
  BY <1>1, <1>2 DEF Range
<1>4. \A b \in Caller : pc'[b] # "tool"
  <2>1. \A b \in Caller : pc[b] = "tool" => b = a
    BY <1>1, OnlyBusy DEF RefineInv, SafeInv, RunInv
  <2> QED BY <2>1 DEF QueueDone, RefineInv, TypeInv, TypeOK
<1>5. JobKind' = "none" /\ JobLeft' = {} /\ JobOk' = 0 /\ JobBad' = 0
  BY <1>1, <1>4 DEF RefineInv, JobMapped
<1>6. queueTotal = queueSucceeded + queueFailed + 1
  <2>1. started \o <<>> = job /\ started \in Seq(Tool)
    BY <1>1 DEF RefineInv, SafeInv, RunInv, EachToolOnce, TypeInv, TypeOK
  <2>2. started = job
    BY <2>1, ConcatEmptySeq
  <2> QED BY <1>1, <2>2 DEF RefineInv, SafeInv, RunInv, TotalsAgree
<1>7. summary' = [total |-> JobOk + JobBad + 1,
                  ok    |-> IF ok THEN JobOk + 1 ELSE JobOk,
                  bad   |-> IF ok THEN JobBad ELSE JobBad + 1]
  BY <1>1, <1>2, <1>6 DEF One
<1> QED BY <1>2, <1>3, <1>5, <1>7 DEF Jobs!LastAnswer, JobKind, JobLeft, JobOk, JobBad

\* A step that moves no activation into or out of running a tool, and leaves the
\* queue and its counters alone, is at most the start or the end of a script.
LEMMA ElsewhereRefines ==
    ASSUME RefineInv, RefineInv',
           \A b \in Caller : (pc'[b] = "tool") <=> (pc[b] = "tool"),
           UNCHANGED <<runQueue, tool, queueSucceeded, queueFailed, summary>>
    PROVE  /\ isRunning' = isRunning => UNCHANGED JobVars
           /\ (\A b \in Caller : pc[b] # "tool") /\ isRunning' # isRunning
                => Jobs!StartScript \/ Jobs!EndScript
<1>1. CASE \A b \in Caller : pc[b] # "tool"
  <2>1. \A b \in Caller : pc'[b] # "tool"
    BY <1>1
  <2>2. /\ JobKind = IF isRunning THEN "script" ELSE "none"
        /\ JobLeft = {} /\ JobOk = 0 /\ JobBad = 0
    BY <1>1 DEF RefineInv, JobMapped
  <2>3. /\ JobKind' = IF isRunning' THEN "script" ELSE "none"
        /\ JobLeft' = {} /\ JobOk' = 0 /\ JobBad' = 0
    BY <2>1 DEF RefineInv, JobMapped
  <2>4. isRunning' = isRunning => UNCHANGED JobVars
    BY <2>2, <2>3 DEF JobVars
  <2>5. isRunning \in BOOLEAN /\ isRunning' \in BOOLEAN
    BY DEF RefineInv, TypeInv, TypeOK
  <2>6. ASSUME isRunning' # isRunning PROVE Jobs!StartScript \/ Jobs!EndScript
    <3>1. UNCHANGED <<JobLeft, JobOk, JobBad, summary>>
      BY <2>2, <2>3
    <3>2. \/ (JobKind = "none" /\ JobKind' = "script")
         \/ (JobKind = "script" /\ JobKind' = "none")
      BY <2>2, <2>3, <2>5, <2>6
    <3> QED BY <3>1, <3>2 DEF Jobs!StartScript, Jobs!EndScript, JobKind, JobLeft, JobOk, JobBad
  <2> QED BY <2>4, <2>6
<1>2. CASE \E b \in Caller : pc[b] = "tool"
  <2>1. PICK b \in Caller : pc[b] = "tool"
    BY <1>2
  <2>2. pc'[b] = "tool"
    BY <2>1
  <2>3. /\ JobKind = "queue" /\ JobLeft = Range(runQueue) \cup {tool[b]}
        /\ JobOk = queueSucceeded /\ JobBad = queueFailed
    BY <2>1 DEF RefineInv, JobMapped
  <2>4. /\ JobKind' = "queue" /\ JobLeft' = Range(runQueue') \cup {tool'[b]}
        /\ JobOk' = queueSucceeded' /\ JobBad' = queueFailed'
    BY <2>2 DEF RefineInv, JobMapped
  <2> QED BY <1>2, <2>3, <2>4 DEF JobVars
<1> QED BY <1>1, <1>2

\* Every step of the engine is a step of the job runner or none.
LEMMA JobStep ==
    ASSUME RefineInv, RefineInv', [Next]_vars
    PROVE  Jobs!Next \/ UNCHANGED JobVars
<1> TypeOK
  BY DEF RefineInv, TypeInv
<1>1. ASSUME NEW a \in Caller, runSelected(a) PROVE Jobs!Next
  BY <1>1, SelectionsAreQueues, StartQueueRefines DEF runSelected, Jobs!Next
<1>2. ASSUME NEW a \in Caller, NEW t \in Tool, runSingleTool(a, t) PROVE Jobs!Next
  <2>1. <<t>> \in Seq(Tool) /\ <<t>> # <<>>
    OBVIOUS
  <2> QED BY <1>2, <2>1, StartQueueRefines DEF runSingleTool, Jobs!Next
<1>3. ASSUME NEW a \in Caller, NEW ok \in BOOLEAN, NextTool(a, ok) PROVE Jobs!Next
  <2>1. tool[a] \in Tool
    BY <1>3 DEF NextTool, ToolAnswered, RefineInv, QueueDistinct
  <2> QED BY <1>3, <2>1, NextToolRefines DEF Jobs!Next
<1>4. ASSUME NEW a \in Caller, NEW ok \in BOOLEAN, QueueDone(a, ok) PROVE Jobs!Next
  <2>1. tool[a] \in Tool
    BY <1>4 DEF QueueDone, ToolAnswered, RefineInv, QueueDistinct
  <2> QED BY <1>4, <2>1, QueueDoneRefines DEF Jobs!Next
<1>5. ASSUME NEW a \in Caller, runBatScript(a) \/ ScriptEnds(a) PROVE Jobs!Next
  <2>1. \A b \in Caller : pc[b] # "tool"
    BY <1>5, IdleMeansFree, OnlyBusy
       DEF runBatScript, BeginScript, ScriptEnds, RefineInv, SafeInv, RunInv
  <2>2. isRunning' # isRunning
    BY <1>5, OnlyBusy DEF runBatScript, BeginScript, ScriptEnds, RefineInv, SafeInv, RunInv
  <2>3. /\ UNCHANGED <<runQueue, tool, queueSucceeded, queueFailed, summary>>
        /\ \A b \in Caller : pc'[b] # "tool"
    BY <1>5, <2>1 DEF runBatScript, BeginScript, ScriptEnds, TypeOK
  <2> QED BY <2>1, <2>2, <2>3, ElsewhereRefines DEF Jobs!Next
<1>6. ASSUME NEW a \in Caller,
             ScriptWritten(a) \/ ReadingArrives(a) \/ ShowReport(a) \/ SnapshotArrives(a)
      PROVE  UNCHANGED JobVars
  <2>1. /\ \A b \in Caller : (pc'[b] = "tool") <=> (pc[b] = "tool")
        /\ UNCHANGED <<runQueue, tool, queueSucceeded, queueFailed, summary, isRunning>>
    BY <1>6 DEF ScriptWritten, ReadingArrives, ShowReport, SnapshotArrives, queueVars, taskVars,
                TypeOK
  <2> QED BY <2>1, ElsewhereRefines
<1>7. CASE ResetTimerFires \/ DialogTimer \/ UNCHANGED vars
  <2>1. UNCHANGED <<pc, runQueue, tool, queueSucceeded, queueFailed, summary, isRunning>>
    BY <1>7 DEF ResetTimerFires, DialogTimer, vars, queueVars, taskVars
  <2> QED BY <2>1, ElsewhereRefines
<1>8. CASE CloseReport
  <2>1. \A b \in Caller : pc[b] = "tool" => b # dialogResolve
    BY NoCallerAssumption DEF RefineInv, SafeInv, WaitersReport, TypeInv, DialogInv, SlotMatchesDialog
  <2>2. /\ \A b \in Caller : (pc'[b] = "tool") <=> (pc[b] = "tool")
        /\ UNCHANGED <<runQueue, tool, queueSucceeded, queueFailed, summary, isRunning>>
    BY <1>8, <2>1 DEF CloseReport, queueVars, TypeOK
  <2> QED BY <2>2, ElsewhereRefines
<1> QED BY <1>1, <1>2, <1>3, <1>4, <1>5, <1>6, <1>7, <1>8 DEF Next, Click, Reply, ToolReply

\* The run engine of the page (runSelected, runSingleTool, runBatScript and
\* processQueue) does what JobRunner promises, for any number of tools and
\* activations: one job at a time, one answer for each of its tools, and at its
\* end a report that counts the answers of this job and of no other.
THEOREM EngineImplementsJobRunner == Spec => ImplementsJobRunner
<1>1. Init => TypeInv /\ SafeInv /\ QueueDistinct
  <2>1. Init => QueueDistinct
    BY EmptySeq DEF Init, QueueDistinct
  <2> QED BY <2>1, TypeInit, SafeInit
<1>2. TypeInv /\ SafeInv /\ QueueDistinct /\ [Next]_vars
        => TypeInv' /\ SafeInv' /\ QueueDistinct'
  BY TypeStep, RunStep, WaitersStep, DistinctStep DEF SafeInv
<1>3. Spec => []RefineInv
  BY <1>1, <1>2, MappingHolds, PTL DEF Spec, RefineInv
<1>4. Init => Jobs!Init
  <2> SUFFICES ASSUME Init PROVE Jobs!Init
    OBVIOUS
  <2>1. JobMapped
    BY SafeInit, MappingHolds
  <2>2. (\A a \in Caller : pc[a] # "tool") /\ ~isRunning /\ summary = [total |-> 0, ok |-> 0, bad |-> 0]
    BY DEF Init
  <2>3. JobKind = "none" /\ JobLeft = {} /\ JobOk = 0 /\ JobBad = 0
    BY <2>1, <2>2 DEF JobMapped
  <2> QED BY <2>2, <2>3 DEF Jobs!Init, JobKind, JobLeft, JobOk, JobBad
<1>5. RefineInv /\ RefineInv' /\ [Next]_vars => [Jobs!Next]_(Jobs!vars)
  BY JobStep DEF JobVars, Jobs!vars, JobKind, JobLeft, JobOk, JobBad
<1> QED BY <1>3, <1>4, <1>5, PTL DEF Spec, ImplementsJobRunner, Jobs!Spec

=============================================================================
