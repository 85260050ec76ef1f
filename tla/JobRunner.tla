------------------------------ MODULE JobRunner ------------------------------
(***************************************************************************)
(* What the run engine promises its user, without queues, activations,     *)
(* snapshots or dialogs: work is done one job at a time; a job is a set of *)
(* tools, each of which gets exactly one answer, or one script; and when   *)
(* the last tool has answered, a report counts the answers of this job and *)
(* of no other.                                                            *)
(***************************************************************************)
EXTENDS Naturals

CONSTANT Tool

VARIABLES
    kind,      \* "none", "queue" or "script": the job in progress
    left,      \* the tools of the job that have not answered
    ok,        \* how many answered with success
    bad,       \* how many did not
    report     \* the last report given

vars == <<kind, left, ok, bad, report>>

Init ==
    /\ kind = "none"
    /\ left = {}
    /\ ok = 0
    /\ bad = 0
    /\ report = [total |-> 0, ok |-> 0, bad |-> 0]

StartQueue ==
    /\ kind = "none"
    /\ kind' = "queue"
    /\ left' \in (SUBSET Tool) \ {{}}
    /\ UNCHANGED <<ok, bad, report>>

StartScript ==
    /\ kind = "none"
    /\ kind' = "script"
    /\ UNCHANGED <<left, ok, bad, report>>

EndScript ==
    /\ kind = "script"
    /\ kind' = "none"
    /\ UNCHANGED <<left, ok, bad, report>>

\* A tool answers, and others have not.
Answer(t, good) ==
    /\ kind = "queue"
    /\ t \in left
    /\ left # {t}
    /\ left' = left \ {t}
    /\ IF good THEN ok' = ok + 1 /\ bad' = bad
               ELSE bad' = bad + 1 /\ ok' = ok
    /\ UNCHANGED <<kind, report>>

\* The last tool answers: the job is over and reported, its counts are dropped.
LastAnswer(t, good) ==
    /\ kind = "queue"
    /\ left = {t}
    /\ kind' = "none"
    /\ left' = {}
    /\ ok' = 0
    /\ bad' = 0
    /\ report' = [total |-> ok + bad + 1,
                  ok    |-> IF good THEN ok + 1 ELSE ok,
                  bad   |-> IF good THEN bad ELSE bad + 1]

Next ==
    \/ StartQueue
    \/ StartScript
    \/ EndScript
    \/ \E t \in Tool, good \in BOOLEAN : Answer(t, good) \/ LastAnswer(t, good)

Spec == Init /\ [][Next]_vars

=============================================================================
