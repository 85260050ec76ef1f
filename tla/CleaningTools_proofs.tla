------------------------ MODULE CleaningTools_proofs ------------------------
(***************************************************************************)
(* Theorems about module CleaningTools, for any folders, any tree and any  *)
(* server.                                                                 *)
(***************************************************************************)
EXTENDS CleaningTools, FolderWalk_proofs

\* A line says failure.
Fails == out \cap FailureLine # {}

\* Between exit code and lines of a tool that has ended.
Honest ==
    \/ exit = Killed
    \/ /\ Fails => exit # 0
       /\ ~Fails => exit = 0 \/ out \cap SilentFailure # {}

\* While folders are cleaned, the lines and the flag failed say the same, except
\* that clean_nvidia prints its line at the end.
FoldersHonest ==
    /\ tool \in FolderTool
    /\ failed \in BOOLEAN
    /\ Fails => failed
    /\ failed => Fails \/ tool = "clean_nvidia"

\* What a tool has printed so far, at each stage, is true to how it will end.
VerdictInv ==
    /\ pc \notin {"idle", "folder", "walk", "ended"} => out = {} /\ failed = FALSE
    /\ pc \in {"folder", "walk"} => FoldersHonest
    /\ pc = "ended" => Honest
    /\ verdict # "none" => pc = "idle" /\ Honest /\ verdict = parseOutput(out)

-----------------------------------------------------------------------------
(* Lines.                                                                  *)

\* One line that says failure is enough.
LEMMA FailsByLine ==
    ASSUME NEW line \in FailureLine, NEW lines, line \in lines, out' = out \cup lines
    PROVE  Fails'
  BY DEF Fails

\* Other lines change nothing of that.
LEMMA FailsNotByLines ==
    ASSUME NEW lines, lines \cap FailureLine = {}, out' = out \cup lines
    PROVE  Fails' <=> Fails
  BY DEF Fails

-----------------------------------------------------------------------------
(* The ends of a tool.                                                     *)

\* With a code other than 0 and a line that says so, or one of the silent.
LEMMA ExitSaying ==
    ASSUME NEW code, code # 0, NEW line \in FailureLine \cup SilentFailure, Exit(code, {line})
    PROVE  Honest'
  <1>1. exit' = code /\ out' = out \cup {line}
    BY DEF Exit
  <1>2. line \in FailureLine => Fails'
    BY <1>1 DEF Fails
  <1>3. line \in SilentFailure => out' \cap SilentFailure # {}
    BY <1>1
  <1> QED  BY <1>1, <1>2, <1>3 DEF Honest

\* With code 0, nothing having failed.
LEMMA ExitWell ==
    ASSUME ~Fails, NEW lines, lines \cap FailureLine = {}, exit' = 0, out' = out \cup lines
    PROVE  Honest'
  BY FailsNotByLines DEF Honest

\* An end that is honest is what the invariant asks.
LEMMA EndedInv ==
    ASSUME VerdictInv, pc # "idle", pc' = "ended", Honest', verdict' = verdict
    PROVE  VerdictInv'
  BY DEF VerdictInv

\* A tool that has printed nothing goes on without printing.
LEMMA SilentStepInv ==
    ASSUME VerdictInv, pc \notin {"idle", "folder", "walk", "ended"},
           pc' \notin {"idle", "folder", "walk", "ended"},
           UNCHANGED <<out, failed, verdict>>
    PROVE  VerdictInv'
  BY DEF VerdictInv

\* A step of a folder tool.
LEMMA FolderStepInv ==
    ASSUME VerdictInv, pc # "idle", pc' \in {"folder", "walk"}, FoldersHonest', verdict' = verdict
    PROVE  VerdictInv'
  BY DEF VerdictInv

\* A step that leaves the tool alone.
LEMMA ElsewhereInv ==
    ASSUME VerdictInv, UNCHANGED <<tool, pc, failed, out, exit, verdict>>
    PROVE  VerdictInv'
  <1>1. Fails' <=> Fails
    BY DEF Fails
  <1>2. Honest' <=> Honest
    BY <1>1 DEF Honest
  <1>3. FoldersHonest => FoldersHonest'
    BY <1>1 DEF FoldersHonest
  <1>4. parseOutput(out)' = parseOutput(out)
    BY DEF parseOutput
  <1> QED  BY <1>2, <1>3, <1>4 DEF VerdictInv

\* A tool that has just started has printed nothing and failed at nothing.
LEMMA Fresh ==
    ASSUME VerdictInv, pc \notin {"idle", "folder", "walk", "ended"}
    PROVE  out = {} /\ failed = FALSE /\ ~Fails
  BY DEF VerdictInv, Fails

-----------------------------------------------------------------------------
(* The actions.                                                            *)

\* The ends of tools that could not even begin.
LEMMA NotBegunInv ==
    ASSUME VerdictInv, RunError \/ NotElevated \/ MissingFirst
    PROVE  VerdictInv'
  <1>1. 1 # 0 /\ -2 # 0
    OBVIOUS
  <1>2. CASE RunError
    <2>1. Exit(-2, {"run error"}) /\ pc = "start" /\ verdict' = verdict
      BY <1>2 DEF RunError, NotRun
    <2>2. "run error" \in FailureLine
      BY DEF FailureLine
    <2>3. Honest'
      BY <1>1, <2>1, <2>2, ExitSaying, Zenon
    <2> QED  BY <2>1, <2>3, EndedInv DEF Exit
  <1>3. CASE NotElevated
    <2>1. Exit(1, {"administrator required"}) /\ pc = "start" /\ verdict' = verdict
      BY <1>3 DEF NotElevated
    <2>2. "administrator required" \in FailureLine
      BY DEF FailureLine
    <2>3. Honest'
      BY <1>1, <2>1, <2>2, ExitSaying, Zenon
    <2> QED  BY <2>1, <2>3, EndedInv DEF Exit
  <1>4. CASE MissingFirst
    <2>1. PICK line \in {"no environment", "not detected"} : Exit(1, {line})
      BY <1>4 DEF MissingFirst
    <2>2. line \in FailureLine \cup SilentFailure
      BY DEF FailureLine, SilentFailure
    <2>3. Honest'
      BY <1>1, <2>1, <2>2, ExitSaying, Zenon
    <2> QED  BY <1>4, <2>1, <2>3, EndedInv DEF MissingFirst, Exit
  <1> QED  BY <1>2, <1>3, <1>4

\* A folder tool prints its first line.
LEMMA BeginFoldersInv ==
    ASSUME VerdictInv, BeginFolders
    PROVE  VerdictInv'
  <1>1. out = {} /\ failed = FALSE /\ ~Fails
    BY Fresh DEF BeginFolders
  <1>2. PICK line \in {"detected", "scanning", "cleaning"} : out' = out \cup {line}
    BY DEF BeginFolders
  <1>3. ~Fails'
    BY <1>1, <1>2, FailsNotByLines DEF FailureLine
  <1>4. FoldersHonest'
    BY <1>1, <1>3 DEF BeginFolders, FoldersHonest
  <1> QED  BY <1>4, FolderStepInv DEF BeginFolders

\* The steps between two folders.
LEMMA FolderInv ==
    ASSUME VerdictInv, CleanFolderRefuses \/ SkipFolder \/ CleanFolder
    PROVE  VerdictInv'
  <1>1. FoldersHonest
    BY DEF VerdictInv, CleanFolderRefuses, SkipFolder, CleanFolder
  <1>2. CASE CleanFolderRefuses
    <2>1. PICK line \in {"path does not exist", "administrator required"} : out' = out \cup {line}
      BY <1>2 DEF CleanFolderRefuses
    <2>2. Fails'
      BY <2>1, FailsByLine DEF FailureLine
    <2>3. FoldersHonest'
      BY <1>1, <1>2, <2>2 DEF CleanFolderRefuses, FoldersHonest
    <2> QED  BY <1>2, <2>3, FolderStepInv DEF CleanFolderRefuses
  <1>3. CASE SkipFolder \/ CleanFolder
    <2>1. UNCHANGED <<tool, failed, out, verdict>> /\ pc' \in {"folder", "walk"} /\ pc # "idle"
      BY <1>3 DEF SkipFolder, CleanFolder
    <2>2. FoldersHonest'
      BY <1>1, <2>1 DEF FoldersHonest, Fails
    <2> QED  BY <2>1, <2>2, FolderStepInv
  <1> QED  BY <1>2, <1>3

\* The steps of a walk, and its end.
LEMMA WalkVerdictInv ==
    ASSUME VerdictInv, Walk \/ FolderDone
    PROVE  VerdictInv'
  <1>1. FoldersHonest
    BY DEF VerdictInv, Walk, FolderDone
  <1>2. CASE Walk
    <2>1. PICK lines \in {{}, {"deleted file"}} : out' = out \cup lines
      BY <1>2 DEF Walk
    <2>2. Fails' <=> Fails
      BY <2>1, FailsNotByLines DEF FailureLine
    <2>3. FoldersHonest'
      BY <1>1, <1>2, <2>2 DEF Walk, FoldersHonest
    <2> QED  BY <1>2, <2>3, FolderStepInv DEF Walk
  <1>3. CASE FolderDone
    <2>1. /\ tool' = tool /\ verdict' = verdict /\ pc = "walk" /\ pc' = "folder"
          /\ failed' = (failed \/ errorCount > 0)
          /\ out' = out \cup (IF tool = "clean_nvidia" THEN {} ELSE {DeletedLine(errorCount > 0)})
      BY <1>3 DEF FolderDone, Overall
    <2>2. FoldersHonest'
      <3>1. CASE errorCount > 0 /\ tool # "clean_nvidia"
        <4>1. out' = out \cup {"deleted, with errors"}
          BY <2>1, <3>1 DEF DeletedLine
        <4>2. Fails'
          BY <4>1, FailsByLine DEF FailureLine
        <4> QED  BY <1>1, <2>1, <3>1, <4>2 DEF FoldersHonest
      <3>2. CASE ~(errorCount > 0 /\ tool # "clean_nvidia")
        <4>1. PICK lines \in {{}, {"deleted, no errors"}} : out' = out \cup lines
          BY <2>1, <3>2 DEF DeletedLine
        <4>2. Fails' <=> Fails
          BY <4>1, FailsNotByLines DEF FailureLine
        <4> QED  BY <1>1, <2>1, <3>2, <4>2 DEF FoldersHonest
      <3> QED  BY <3>1, <3>2
    <2> QED  BY <2>1, <2>2, FolderStepInv
  <1> QED  BY <1>2, <1>3

\* The end of the folders: an error of any of them is in the lines by then.
LEMMA FoldersDoneInv ==
    ASSUME VerdictInv, FoldersDone
    PROVE  VerdictInv'
  <1>1. FoldersHonest
    BY DEF VerdictInv, FoldersDone
  <1>2. /\ Exit(IF failed THEN 1 ELSE 0, IF tool = "clean_nvidia" THEN {DeletedLine(failed)} ELSE {})
        /\ pc = "folder" /\ verdict' = verdict
    BY DEF FoldersDone
  <1>3. Honest'
    <2>1. CASE failed
      <3>1. exit' = 1 /\ 1 # 0
        BY <1>2, <2>1 DEF Exit
      <3>2. CASE tool = "clean_nvidia"
        <4>1. out' = out \cup {"deleted, with errors"}
          BY <1>2, <2>1, <3>2 DEF Exit, DeletedLine
        <4>2. Fails'
          BY <4>1, FailsByLine DEF FailureLine
        <4> QED  BY <3>1, <4>2 DEF Honest
      <3>3. CASE tool # "clean_nvidia"
        <4>1. out' = out /\ Fails
          BY <1>1, <1>2, <2>1, <3>3 DEF Exit, FoldersHonest
        <4>2. Fails'
          BY <4>1 DEF Fails
        <4> QED  BY <3>1, <4>2 DEF Honest
      <3> QED  BY <3>2, <3>3
    <2>2. CASE ~failed
      <3>1. PICK lines \in {{}, {"deleted, no errors"}} : exit' = 0 /\ out' = out \cup lines
        BY <1>2, <2>2 DEF Exit, DeletedLine
      <3>2. ~Fails
        BY <1>1, <2>2 DEF FoldersHonest
      <3>3. ~Fails'
        BY <3>1, <3>2, FailsNotByLines DEF FailureLine
      <3> QED  BY <3>1, <3>3 DEF Honest
    <2> QED  BY <2>1, <2>2
  <1> QED  BY <1>2, <1>3, EndedInv DEF Exit

\* The tools that run another program.
LEMMA OtherProgramInv ==
    ASSUME VerdictInv, DeleteShadows \/ ReduceMemory
    PROVE  VerdictInv'
  <1>1. pc = "start" /\ pc' = "ended" /\ verdict' = verdict
    BY DEF DeleteShadows, ReduceMemory, Exit
  <1>2. ~Fails
    BY <1>1, Fresh
  <1>3. 1 # 0
    OBVIOUS
  <1>4. Honest'
    <2>1. CASE \E lines \in {{"cleaning", "shadows deleted"}, {}, {"memory released"}} : Exit(0, lines)
      <3>1. PICK lines \in {{"cleaning", "shadows deleted"}, {}, {"memory released"}} : Exit(0, lines)
        BY <2>1
      <3>2. lines \cap FailureLine = {}
        BY DEF FailureLine
      <3> QED  BY <1>2, <3>1, <3>2, ExitWell DEF Exit
    <2>2. CASE Exit(1, {"cleaning", "shadows not deleted"})
      <3>1. exit' = 1 /\ out' = out \cup {"cleaning", "shadows not deleted"}
        BY <2>2 DEF Exit
      <3>2. Fails'
        BY <3>1, FailsByLine DEF FailureLine
      <3> QED  BY <1>3, <3>1, <3>2 DEF Honest
    <2>3. CASE \E line \in {"memreduct not found", "no pipe", "memreduct not launched"} : Exit(1, {line})
      <3>1. PICK line \in {"memreduct not found", "no pipe", "memreduct not launched"} : Exit(1, {line})
        BY <2>3
      <3>2. line \in FailureLine \cup SilentFailure
        BY DEF FailureLine, SilentFailure
      <3> QED  BY <1>3, <3>1, <3>2, ExitSaying, Zenon
    <2>4. SUBSET {"memory released"} = {{}, {"memory released"}}
      OBVIOUS
    <2> QED  BY <2>1, <2>2, <2>3, <2>4 DEF DeleteShadows, ReduceMemory
  <1> QED  BY <1>1, <1>4, EndedInv

\* The extension, up to the judgement.
LEMMA SessionStepInv ==
    ASSUME VerdictInv, Connect \/ SendLogin \/ LoginEcho
    PROVE  VerdictInv'
  <1>1. CASE pc' \in {"connected", "logging in", "logged in"}
    <2>1. /\ pc \in {"start", "connected", "logging in"}
          /\ failed' = failed /\ verdict' = verdict
          /\ out' = out
      BY <1>1 DEF Connect, SendLogin, LoginEcho, Exit
    <2> QED  BY <1>1, <2>1, SilentStepInv
  <1>2. CASE pc' \notin {"connected", "logging in", "logged in"}
    <2>1. Exit(1, {"no server"}) /\ pc = "start" /\ verdict' = verdict
      BY <1>2 DEF Connect, SendLogin, LoginEcho
    <2>2. "no server" \in SilentFailure
      BY DEF SilentFailure
    <2>3. 1 # 0
      OBVIOUS
    <2>4. Honest'
      BY <2>1, <2>2, <2>3, ExitSaying, Zenon
    <2> QED  BY <2>1, <2>4, EndedInv DEF Exit
  <1> QED  BY <1>1, <1>2

\* The judgement of an echo.
LEMMA JudgeHonest ==
    ASSUME ~Fails, NEW echo, Judge(echo)
    PROVE  Honest' /\ pc' = "ended"
  <1>1. CASE Exit(0, {})
    BY <1>1, ExitWell DEF Exit
  <1>2. CASE Exit(2, {"not synced"})
    <2>1. "not synced" \in SilentFailure
      BY DEF SilentFailure
    <2>2. 2 # 0
      OBVIOUS
    <2>3. Honest'
      BY <1>2, <2>1, <2>2, ExitSaying, Zenon
    <2> QED  BY <1>2, <2>3 DEF Exit
  <1> QED  BY <1>1, <1>2 DEF Judge

\* The second request, and its echo.
LEMMA SyncInv ==
    ASSUME VerdictInv, SendSync \/ SyncEcho
    PROVE  VerdictInv'
  <1>1. pc \in {"logged in", "syncing"} /\ verdict' = verdict
    BY DEF SendSync, SyncEcho
  <1>2. ~Fails
    BY <1>1, Fresh
  <1>3. CASE \E echo : Judge(echo)
    BY <1>1, <1>2, <1>3, JudgeHonest, EndedInv
  <1>4. CASE pc' = "syncing" /\ UNCHANGED <<out, failed>>
    BY <1>1, <1>4, SilentStepInv
  <1> QED  BY <1>3, <1>4 DEF SendSync, SyncEcho

\* The beginning of a run, its end and its report.
LEMMA RunInv ==
    ASSUME VerdictInv, (\E t \in ToolName : RunWithWait(t)) \/ Kill \/ Report
    PROVE  VerdictInv'
  <1>1. ASSUME NEW t \in ToolName, RunWithWait(t)
        PROVE  VerdictInv'
    BY <1>1 DEF RunWithWait, VerdictInv
  <1>2. CASE Kill
    <2>1. Honest' /\ pc' = "ended" /\ pc # "idle" /\ verdict' = verdict
      BY <1>2 DEF Kill, Honest
    <2> QED  BY <2>1, EndedInv
  <1>3. CASE Report
    <2>1. /\ pc = "ended" /\ pc' = "idle" /\ verdict' = parseOutput(out)
          /\ exit' = exit /\ out' = out
      BY <1>3 DEF Report
    <2>2. Honest
      BY <2>1 DEF VerdictInv
    <2>3. Honest'
      BY <2>1, <2>2 DEF Honest, Fails
    <2>4. verdict' = parseOutput(out')
      BY <2>1
    <2> QED  BY <2>1, <2>3, <2>4 DEF VerdictInv
  <1> QED  BY <1>1, <1>2, <1>3

-----------------------------------------------------------------------------
(* The verdict that parseOutput (src/src/index.html, 3150-3238) reads from   *)
(* the lines of a tool is the tool's exit code, which run_with_wait          *)
(* (src/src-tauri/src/lib.rs, 61-93) has dropped: no success is given to a   *)
(* tool that failed, but for the lines in SilentFailure, and no failure to   *)
(* one that returned 0; whatever the tree holds, whatever others do to it    *)
(* and whatever the server answers.                                          *)
THEOREM VerdictIsExit == Spec => []VerdictMatchesExit
  <1>1. Init => VerdictInv
    BY DEF Init, VerdictInv
  <1>2. ASSUME VerdictInv, [Next]_vars
        PROVE  VerdictInv'
    <2>1. CASE (\E t \in ToolName : RunWithWait(t)) \/ Kill \/ Report
      BY <1>2, <2>1, RunInv
    <2>2. CASE RunError \/ NotElevated \/ MissingFirst
      BY <1>2, <2>2, NotBegunInv
    <2>3. CASE BeginFolders
      BY <1>2, <2>3, BeginFoldersInv
    <2>4. CASE CleanFolderRefuses \/ SkipFolder \/ CleanFolder
      BY <1>2, <2>4, FolderInv
    <2>5. CASE Walk \/ FolderDone
      BY <1>2, <2>5, WalkVerdictInv
    <2>6. CASE FoldersDone
      BY <1>2, <2>6, FoldersDoneInv
    <2>7. CASE DeleteShadows \/ ReduceMemory
      BY <1>2, <2>7, OtherProgramInv
    <2>8. CASE Connect \/ SendLogin \/ LoginEcho
      BY <1>2, <2>8, SessionStepInv
    <2>9. CASE SendSync \/ SyncEcho
      BY <1>2, <2>9, SyncInv
    <2>10. CASE Answer \/ Arrive \/ Lose \/ OthersAct
      BY <1>2, <2>10, ElsewhereInv DEF Answer, Arrive, Lose, OthersAct, toolVars
    <2>11. CASE UNCHANGED vars
      BY <1>2, <2>11, ElsewhereInv DEF vars, toolVars
    <2> QED  BY <1>2, <2>1, <2>2, <2>3, <2>4, <2>5, <2>6, <2>7, <2>8, <2>9, <2>10, <2>11
             DEF Next, ToolStep
  <1>3. VerdictInv => VerdictMatchesExit
    <2> SUFFICES ASSUME VerdictInv PROVE VerdictMatchesExit
      OBVIOUS
    <2>1. ASSUME verdict = "error" PROVE exit # 0
      <3>1. Honest /\ Fails
        BY <2>1 DEF VerdictInv, parseOutput, Fails
      <3> QED  BY <3>1 DEF Honest, Killed
    <2>2. ASSUME verdict = "done" PROVE exit \in {0, Killed} \/ out \cap SilentFailure # {}
      <3>1. Honest /\ ~Fails
        BY <2>2 DEF VerdictInv, parseOutput, Fails
      <3> QED  BY <3>1 DEF Honest
    <2> QED  BY <2>1, <2>2 DEF VerdictMatchesExit
  <1> QED  BY <1>1, <1>2, <1>3, PTL DEF Spec

-----------------------------------------------------------------------------
(* The extension's exit code and the server's answer.                      *)

Quiet == asked = <<>> /\ wire = <<>> /\ inbox = <<>>

\* A whole reply to request r, true to what happened at the server.
WholeReply(s, r) ==
    /\ s.of = r
    /\ s.looks \in {"error", "value"}
    /\ r = "login" => server = "silent"
    /\ r = "sync var" => server = (IF s.looks = "error" THEN "refused" ELSE "accepted")

\* Request r is at the server, or its reply is under way, or it is there; and
\* nothing else is.
OneOutstanding(r) ==
    \/ asked = <<r>> /\ wire = <<>> /\ inbox = <<>> /\ server = "silent"
    \/ \E s \in Segment :
         /\ asked = <<>>
         /\ WholeReply(s, r)
         /\ \/ wire = <<s>> /\ inbox = <<>>
            \/ wire = <<>> /\ inbox = <<s>>

\* The conversation so far, if no reply was cut or lost.
Conversation ==
    /\ pc \in {"connected", "logging in", "logged in", "syncing"} => up
    /\ pc \in {"connected", "logged in"} => Quiet /\ server = "silent"
    /\ pc = "logging in" => OneOutstanding("login")
    /\ pc = "syncing" => OneOutstanding("sync var")

\* An exit code of the extension, and why no answer comes after it.
Answered ==
    tool = "niccent_extension" /\ pc \in {"ended", "idle"} /\ exit \in {0, 2} =>
        /\ asked = <<>>
        /\ server = (IF exit = 2 THEN "refused" ELSE "accepted")

SyncReportInv ==
    /\ pc \in {"idle", "start"} => SessionClosed
    /\ pc \in {"folder", "walk"} => tool \in FolderTool
    /\ pc = "start" => server = "silent"
    /\ server # "trouble" => Conversation /\ Answered

\* A whole reply is read as a whole.
LEMMA ReadingTheOnly ==
    ASSUME NEW s, inbox = <<s>>, NEW echo, ReadSome(echo)
    PROVE  echo = s.looks /\ inbox' = <<>>
  <1>1. Len(inbox) = 1 /\ inbox[1] = s
    OBVIOUS
  <1>2. PICK n \in 1 .. Len(inbox) : echo = Reading(n) /\ inbox' = SubSeq(inbox, n + 1, Len(inbox))
    BY DEF ReadSome
  <1>3. n = 1
    BY <1>1, <1>2
  <1>4. inbox' = SubSeq(inbox, 2, 1)
    BY <1>1, <1>2, <1>3
  <1>5. SubSeq(inbox, 2, 1) = <<>>
    OBVIOUS
  <1> QED  BY <1>1, <1>2, <1>3, <1>4, <1>5 DEF Reading

\* An empty inbox cannot be read.
LEMMA NothingToRead ==
    ASSUME inbox = <<>>, NEW echo, ReadSome(echo)
    PROVE  FALSE
  <1>1. Len(inbox) = 0
    OBVIOUS
  <1>2. \E n \in 1 .. Len(inbox) : TRUE
    BY DEF ReadSome
  <1> QED  BY <1>1, <1>2

\* A step that leaves the session and what is said of it alone.
LEMMA SessionElsewhere ==
    ASSUME SyncReportInv, UNCHANGED <<sessionVars, server, tool, pc, exit>>
    PROVE  SyncReportInv'
  <1> USE DEF SyncReportInv, sessionVars
  <1>1. SessionClosed' <=> SessionClosed
    BY DEF SessionClosed
  <1>2. Conversation' <=> Conversation
    BY DEF Conversation, OneOutstanding, WholeReply, Quiet
  <1>3. Answered' <=> Answered
    BY DEF Answered
  <1> QED  BY <1>1, <1>2, <1>3

\* A step of the other tools, or an end of the extension that says nothing of
\* the server.
LEMMA SessionUntouched ==
    ASSUME SyncReportInv, UNCHANGED <<sessionVars, server, tool>>,
           pc' \in {"folder", "walk", "ended"},
           pc' # "ended" => tool \in FolderTool,
           pc' = "ended" => tool # "niccent_extension" \/ exit' \notin {0, 2}
    PROVE  SyncReportInv'
  <1>1. Conversation'
    BY DEF Conversation
  <1>2. Answered'
    BY DEF Answered, FolderTool
  <1> QED  BY <1>1, <1>2 DEF SyncReportInv

\* 0 and 2 are codes of the server's answer; those of a tool that failed are not.
LEMMA NoAnswerCodes == {NotRun, Killed, 1} \cap {0, 2} = {}
  BY DEF NotRun, Killed

\* A step of another tool says nothing of the synchronisation, and an extension that
\* ends before its request has neither code.
LEMMA OtherToolsReport ==
    ASSUME SyncReportInv,
           \/ RunError \/ NotElevated \/ MissingFirst \/ BeginFolders
           \/ CleanFolderRefuses \/ SkipFolder \/ CleanFolder
           \/ Walk \/ FolderDone \/ FoldersDone
           \/ DeleteShadows \/ ReduceMemory \/ Kill
    PROVE  SyncReportInv'
  <1>1. CASE RunError \/ NotElevated \/ MissingFirst \/ Kill
    <2>1. pc' = "ended" /\ UNCHANGED <<sessionVars, server, tool>> /\ exit' \in {NotRun, Killed, 1}
      BY <1>1 DEF RunError, NotElevated, MissingFirst, Kill, Exit
    <2> QED  BY <2>1, NoAnswerCodes, SessionUntouched
  <1>2. CASE BeginFolders \/ CleanFolderRefuses \/ SkipFolder \/ CleanFolder \/ Walk \/ FolderDone
    <2>1. pc' \in {"folder", "walk"} /\ UNCHANGED <<sessionVars, server, tool>>
      BY <1>2 DEF BeginFolders, CleanFolderRefuses, SkipFolder, CleanFolder, Walk, FolderDone
    <2>2. tool \in FolderTool
      BY <1>2 DEF SyncReportInv, BeginFolders, CleanFolderRefuses, SkipFolder, CleanFolder, Walk, FolderDone
    <2> QED  BY <2>1, <2>2, SessionUntouched
  <1>3. CASE FoldersDone \/ DeleteShadows \/ ReduceMemory
    <2>1. pc' = "ended" /\ UNCHANGED <<sessionVars, server, tool>>
      BY <1>3 DEF FoldersDone, DeleteShadows, ReduceMemory, Exit
    <2>2. tool # "niccent_extension"
      BY <1>3 DEF SyncReportInv, FoldersDone, DeleteShadows, ReduceMemory, FolderTool
    <2> QED  BY <2>1, <2>2, SessionUntouched
  <1> QED  BY <1>1, <1>2, <1>3

\* The first run, the next and the report of the last.
LEMMA SessionRuns ==
    ASSUME SyncReportInv, (\E t \in ToolName : RunWithWait(t)) \/ Report
    PROVE  SyncReportInv'
  <1>1. CASE \E t \in ToolName : RunWithWait(t)
    <2>1. pc = "idle" /\ pc' = "start" /\ server' = "silent" /\ UNCHANGED <<up, asked, wire, inbox>>
      BY <1>1 DEF RunWithWait, sessionVars
    <2> QED  BY <2>1 DEF SyncReportInv, SessionClosed, Conversation, Answered
  <1>2. CASE Report
    <2>1. /\ pc = "ended" /\ pc' = "idle" /\ UNCHANGED <<tool, exit, server>>
          /\ up' = FALSE /\ asked' = <<>> /\ wire' = <<>> /\ inbox' = <<>>
      BY <1>2 DEF Report, Disconnected
    <2> QED  BY <2>1 DEF SyncReportInv, SessionClosed, Conversation, Answered
  <1> QED  BY <1>1, <1>2

\* The first of a queue.
LEMMA AppendToNone ==
    ASSUME NEW r
    PROVE  Append(<<>>, r) = <<r>>
  OBVIOUS

\* Up to the request that counts.
LEMMA SessionBegins ==
    ASSUME SyncReportInv, Connect \/ SendLogin \/ LoginEcho
    PROVE  SyncReportInv'
  <1>1. CASE Connect
    <2>1. CASE pc' = "connected"
      <3>1. /\ pc = "start" /\ server' = server /\ up' = TRUE /\ tool' = tool
            /\ UNCHANGED <<asked, wire, inbox>>
        BY <1>1, <2>1 DEF Connect, Connected, Exit
      <3>2. Conversation'
        BY <2>1, <3>1 DEF SyncReportInv, SessionClosed, Conversation, Quiet
      <3>3. Answered'
        BY <2>1 DEF Answered
      <3> QED  BY <2>1, <3>2, <3>3 DEF SyncReportInv
    <2>2. CASE pc' # "connected"
      <3>1. pc' = "ended" /\ exit' = 1 /\ UNCHANGED <<sessionVars, server, tool>>
        BY <1>1, <2>2 DEF Connect, Exit
      <3> QED  BY <3>1, NoAnswerCodes, SessionUntouched
    <2> QED  BY <2>1, <2>2
  <1>2. CASE SendLogin
    <2>1. /\ pc = "connected" /\ pc' \in {"logging in", "logged in"} /\ server' = server
          /\ tool' = tool
      BY <1>2 DEF SendLogin
    <2>2. ASSUME server # "trouble" PROVE Conversation'
      <3>1. up /\ Quiet /\ server = "silent"
        BY <2>1, <2>2 DEF SyncReportInv, Conversation
      <3>2. WriteRequest("login") /\ pc' = "logging in"
        BY <1>2, <3>1 DEF SendLogin, SendFails
      <3>3. asked' = Append(asked, "login") /\ UNCHANGED <<up, wire, inbox>>
        BY <3>2 DEF WriteRequest
      <3>4. asked' = <<"login">>
        BY <3>1, <3>3, AppendToNone DEF Quiet
      <3>5. OneOutstanding("login")'
        BY <2>1, <3>1, <3>3, <3>4 DEF Quiet, OneOutstanding
      <3> QED  BY <3>1, <3>2, <3>3, <3>5 DEF Conversation
    <2>3. Answered'
      BY <2>1 DEF Answered
    <2> QED  BY <2>1, <2>2, <2>3 DEF SyncReportInv
  <1>3. CASE LoginEcho
    <2>1. /\ pc = "logging in" /\ pc' = "logged in" /\ server' = server /\ tool' = tool
      BY <1>3 DEF LoginEcho
    <2>2. ASSUME server # "trouble" PROVE Conversation'
      <3>1. up /\ OneOutstanding("login")
        BY <2>1, <2>2 DEF SyncReportInv, Conversation
      <3>2. PICK echo \in Echo : ReadSome(echo)
        BY <1>3, <3>1 DEF LoginEcho, SendFails
      <3>3. UNCHANGED <<up, asked, wire>>
        BY <3>2 DEF ReadSome
      <3>4. inbox # <<>>
        BY <3>2, NothingToRead
      <3>5. PICK s \in Segment : asked = <<>> /\ WholeReply(s, "login") /\ wire = <<>> /\ inbox = <<s>>
        BY <3>1, <3>4 DEF OneOutstanding
      <3>6. inbox' = <<>>
        BY <3>2, <3>5, ReadingTheOnly
      <3> QED  BY <2>1, <3>1, <3>3, <3>5, <3>6 DEF Conversation, Quiet, WholeReply
    <2>3. Answered'
      BY <2>1 DEF Answered
    <2> QED  BY <2>1, <2>2, <2>3 DEF SyncReportInv
  <1> QED  BY <1>1, <1>2, <1>3

\* The request that counts, and the judgement of its echo.
LEMMA SessionJudged ==
    ASSUME SyncReportInv, SendSync \/ SyncEcho
    PROVE  SyncReportInv'
  <1>1. CASE SendSync
    <2>1. /\ pc = "logged in" /\ pc' \in {"syncing", "ended"} /\ server' = server /\ tool' = tool
      BY <1>1 DEF SendSync, Judge, Exit
    <2>2. ASSUME server # "trouble" PROVE Conversation' /\ Answered'
      <3>1. up /\ Quiet /\ server = "silent"
        BY <2>1, <2>2 DEF SyncReportInv, Conversation
      <3>2. WriteRequest("sync var") /\ pc' = "syncing"
        BY <1>1, <3>1 DEF SendSync, SendFails
      <3>3. asked' = Append(asked, "sync var") /\ UNCHANGED <<up, wire, inbox>>
        BY <3>2 DEF WriteRequest
      <3>4. asked' = <<"sync var">>
        BY <3>1, <3>3, AppendToNone DEF Quiet
      <3>5. OneOutstanding("sync var")'
        BY <2>1, <3>1, <3>3, <3>4 DEF Quiet, OneOutstanding
      <3> QED  BY <3>1, <3>2, <3>3, <3>5 DEF Conversation, Answered
    <2> QED  BY <2>1, <2>2 DEF SyncReportInv
  <1>2. CASE SyncEcho
    <2>1. /\ pc = "syncing" /\ pc' = "ended" /\ server' = server /\ tool' = tool
      BY <1>2 DEF SyncEcho, Judge, Exit
    <2>2. ASSUME server # "trouble" PROVE Answered'
      <3>1. up /\ OneOutstanding("sync var")
        BY <2>1, <2>2 DEF SyncReportInv, Conversation
      <3>2. PICK echo \in Echo : ReadSome(echo) /\ Judge(echo)
        BY <1>2, <3>1 DEF SyncEcho, SendFails
      <3>3. UNCHANGED <<up, asked, wire>>
        BY <3>2 DEF ReadSome
      <3>4. inbox # <<>>
        BY <3>2, NothingToRead
      <3>5. PICK s \in Segment : asked = <<>> /\ WholeReply(s, "sync var") /\ wire = <<>> /\ inbox = <<s>>
        BY <3>1, <3>4 DEF OneOutstanding
      <3>6. echo = s.looks
        BY <3>2, <3>5, ReadingTheOnly
      <3>7. exit' = (IF s.looks = "error" THEN 2 ELSE 0)
        BY <3>2, <3>6 DEF Judge, Exit
      <3>8. server = (IF s.looks = "error" THEN "refused" ELSE "accepted")
        BY <3>5 DEF WholeReply
      <3>9. (exit' = 2) <=> s.looks = "error"
        BY <3>7
      <3>10. asked' = <<>> /\ server' = (IF exit' = 2 THEN "refused" ELSE "accepted")
        BY <2>1, <3>3, <3>5, <3>8, <3>9
      <3> QED  BY <3>10 DEF Answered
    <2>3. Conversation'
      BY <2>1 DEF Conversation
    <2> QED  BY <2>1, <2>2, <2>3 DEF SyncReportInv
  <1> QED  BY <1>1, <1>2

\* What an answer makes of server.
LEMMA AnswerTells ==
    ASSUME Answer, server' # "trouble"
    PROVE  /\ server # "trouble"
           /\ \E kind \in {"value", "error"} :
                /\ ServerAnswers(kind)
                /\ ~(Len(wire') > Len(wire) + 1)
                /\ server' = (IF Head(asked) = "login" THEN server
                              ELSE IF kind = "value" THEN "accepted" ELSE "refused")
  BY DEF Answer

\* A request that is outstanding is so after its answer, unless that was cut.
LEMMA AnswerToTheOnly ==
    ASSUME NEW r \in Request, OneOutstanding(r), Answer, server' # "trouble"
    PROVE  OneOutstanding(r)'
  <1>1. PICK kind \in {"value", "error"} :
          /\ ServerAnswers(kind)
          /\ ~(Len(wire') > Len(wire) + 1)
          /\ server' = (IF Head(asked) = "login" THEN server
                        ELSE IF kind = "value" THEN "accepted" ELSE "refused")
    BY AnswerTells
  <1>2. asked # <<>>
    BY <1>1 DEF ServerAnswers
  <1>3. asked = <<r>> /\ wire = <<>> /\ inbox = <<>> /\ server = "silent"
    BY <1>2 DEF OneOutstanding
  <1>4. Head(asked) = r /\ Tail(asked) = <<>>
    BY <1>3
  <1>5. PICK segments \in Replies(r, kind) : wire' = wire \o segments
    BY <1>1, <1>4 DEF ServerAnswers
  <1>6. asked' = <<>> /\ inbox' = <<>>
    BY <1>1, <1>3, <1>4 DEF ServerAnswers
  <1> DEFINE whole == [of |-> r, looks |-> kind]
  <1>7. whole \in Segment
    BY <1>1 DEF Segment
  <1>8. segments = <<whole>>
    <2>1. ASSUME NEW a, NEW b, segments = <<a, b>> PROVE FALSE
      <3>1. Len(wire) = 0 /\ Len(wire \o segments) = 2
        BY <1>3, <2>1
      <3> QED  BY <1>1, <1>5, <3>1
    <2> QED  BY <1>5, <2>1 DEF Replies
  <1>9. wire' = <<whole>>
    BY <1>3, <1>5, <1>8
  <1>10. whole.of = r /\ whole.looks = kind
    OBVIOUS
  <1> HIDE DEF whole
  <1>11. WholeReply(whole, r)'
    <2>1. r = "login" => server' = "silent"
      BY <1>1, <1>3, <1>4
    <2>2. r = "sync var" => server' = (IF kind = "error" THEN "refused" ELSE "accepted")
      BY <1>1, <1>4
    <2> QED  BY <1>10, <2>1, <2>2 DEF WholeReply
  <1> QED  BY <1>6, <1>7, <1>9, <1>11 DEF OneOutstanding

\* It is so when the reply arrives.
LEMMA ArrivalOfTheOnly ==
    ASSUME NEW r, OneOutstanding(r), SegmentArrives, UNCHANGED server
    PROVE  OneOutstanding(r)'
  <1>1. PICK s \in Segment : asked = <<>> /\ WholeReply(s, r) /\ wire = <<s>> /\ inbox = <<>>
    BY DEF OneOutstanding, SegmentArrives
  <1>2. Head(wire) = s /\ Tail(wire) = <<>>
    BY <1>1
  <1>3. asked' = <<>> /\ wire' = <<>> /\ inbox' = Append(inbox, s)
    BY <1>1, <1>2 DEF SegmentArrives
  <1>4. inbox' = <<s>>
    BY <1>1, <1>3, AppendToNone
  <1>5. WholeReply(s, r)'
    BY <1>1 DEF WholeReply
  <1> QED  BY <1>3, <1>4, <1>5 DEF OneOutstanding

\* The server and the network: an answer is on its way, arrives, or there is trouble.
LEMMA ServerSide ==
    ASSUME SyncReportInv, Answer \/ Arrive \/ Lose
    PROVE  SyncReportInv'
  <1>1. UNCHANGED <<tool, pc, exit>> /\ up
    BY DEF Answer, Arrive, Lose, toolVars, ServerAnswers, SegmentArrives, ConnectionLost
  <1>2. pc \notin {"idle", "start"}
    BY <1>1 DEF SyncReportInv, SessionClosed
  <1>3. CASE Answer
    <2>1. up' = up /\ asked # <<>>
      BY <1>3 DEF Answer, ServerAnswers
    <2>2. ASSUME server' # "trouble" PROVE Conversation' /\ Answered'
      <3>1. Conversation /\ Answered
        BY <1>3, <2>2, AnswerTells DEF SyncReportInv
      <3>2. Answered'
        BY <1>1, <2>1, <3>1 DEF Answered
      <3>3. pc = "logging in" => OneOutstanding("login")'
        BY <1>3, <2>2, <3>1, AnswerToTheOnly, RequestAssumption DEF Conversation
      <3>4. pc = "syncing" => OneOutstanding("sync var")'
        BY <1>3, <2>2, <3>1, AnswerToTheOnly, RequestAssumption DEF Conversation
      <3>5. pc \notin {"connected", "logged in"}
        BY <2>1, <3>1 DEF Conversation, Quiet
      <3> QED  BY <1>1, <2>1, <3>1, <3>2, <3>3, <3>4, <3>5 DEF Conversation
    <2> QED  BY <1>1, <1>2, <2>2 DEF SyncReportInv
  <1>4. CASE Arrive
    <2>1. up' = up /\ asked' = asked /\ wire # <<>> /\ server' = server
      BY <1>4 DEF Arrive, SegmentArrives, toolVars
    <2>2. ASSUME server # "trouble" PROVE Conversation' /\ Answered'
      <3>1. Conversation /\ Answered
        BY <2>2 DEF SyncReportInv
      <3>2. Answered'
        BY <1>1, <2>1, <3>1 DEF Answered
      <3>3. pc = "logging in" => OneOutstanding("login")'
        BY <1>4, <2>1, <3>1, ArrivalOfTheOnly DEF Conversation, Arrive
      <3>4. pc = "syncing" => OneOutstanding("sync var")'
        BY <1>4, <2>1, <3>1, ArrivalOfTheOnly DEF Conversation, Arrive
      <3>5. pc \notin {"connected", "logged in"}
        BY <2>1, <3>1 DEF Conversation, Quiet
      <3> QED  BY <1>1, <2>1, <3>1, <3>2, <3>3, <3>4, <3>5 DEF Conversation
    <2> QED  BY <1>1, <1>2, <2>1, <2>2 DEF SyncReportInv
  <1>5. CASE Lose
    <2>1. server' = "trouble"
      BY <1>5 DEF Lose
    <2> QED  BY <1>1, <1>2, <2>1 DEF SyncReportInv
  <1> QED  BY <1>3, <1>4, <1>5

(* The extension's exit code is the server's answer to its one request:      *)
(* niccent_extension.cpp (main, 18-23) judges the echo that send_message     *)
(* (VariableSyncService.hpp, 40-54) returned, and that is the reply to this  *)
(* request and to no other, since the echo of the login has been read, as    *)
(* long as no reply is cut in two and the connection stands; whatever the    *)
(* server answers and when.                                                  *)
THEOREM SyncReportedAlways == Spec => []SyncReported
  <1>1. Init => SyncReportInv
    BY DEF Init, SyncReportInv, SessionClosed, Conversation, Answered, NotYet
  <1>2. ASSUME SyncReportInv, [Next]_vars
        PROVE  SyncReportInv'
    <2>1. CASE (\E t \in ToolName : RunWithWait(t)) \/ Report
      BY <1>2, <2>1, SessionRuns
    <2>2. CASE \/ RunError \/ NotElevated \/ MissingFirst \/ BeginFolders
               \/ CleanFolderRefuses \/ SkipFolder \/ CleanFolder
               \/ Walk \/ FolderDone \/ FoldersDone
               \/ DeleteShadows \/ ReduceMemory \/ Kill
      BY <1>2, <2>2, OtherToolsReport
    <2>3. CASE Connect \/ SendLogin \/ LoginEcho
      BY <1>2, <2>3, SessionBegins
    <2>4. CASE SendSync \/ SyncEcho
      BY <1>2, <2>4, SessionJudged
    <2>5. CASE Answer \/ Arrive \/ Lose
      BY <1>2, <2>5, ServerSide
    <2>6. CASE OthersAct \/ UNCHANGED vars
      BY <1>2, <2>6, SessionElsewhere DEF OthersAct, vars, toolVars
    <2> QED  BY <1>2, <2>1, <2>2, <2>3, <2>4, <2>5, <2>6 DEF Next, ToolStep
  <1>3. SyncReportInv => SyncReported
    <2>1. 2 # 0
      OBVIOUS
    <2> QED  BY <2>1 DEF SyncReportInv, Answered, SyncReported
  <1> QED  BY <1>1, <1>2, <1>3, PTL DEF Spec

-----------------------------------------------------------------------------
(* The walks.                                                              *)

CountersSmall == {fileCount, dirCount, errorCount} \subseteq 0 .. Cardinality(Entry)

\* Of a walk, its invariant; of the tree, in between, what it is at least; of the
\* counters, that they stay what the walk made of them.
FoldersInv ==
    /\ TreeInv
    /\ todo \in Seq(Root)
    /\ pc = "walk" => todo # <<>> /\ WalkInv(Head(todo))
    /\ pc # "walk" => CountersSmall

\* At any moment of a walk the counters are within the number of entries.
LEMMA CountersBounded ==
    ASSUME FoldersInv
    PROVE  CountersSmall
  <1> SUFFICES ASSUME pc = "walk" PROVE CountersSmall
    BY DEF FoldersInv
  <1>0. TreeInv /\ CountInv
    BY DEF FoldersInv, WalkInv
  <1>1. fileCount + dirCount + errorCount <= Cardinality(Known)
    BY <1>0, CountedOnce
  <1>2. Known \in SUBSET Entry /\ Entry \in SUBSET Entry /\ IsFiniteSet(Entry)
    BY <1>0, Countable DEF TreeInv, Known
  <1>3. /\ Cardinality(Known) <= Cardinality(Entry)
        /\ Cardinality(Known) \in Nat /\ Cardinality(Entry) \in Nat
    BY <1>2, FS_Subset, Countable
  <1>4. fileCount \in Nat /\ dirCount \in Nat /\ errorCount \in Nat
    BY <1>0 DEF TreeInv
  <1> QED  BY <1>1, <1>3, <1>4 DEF CountersSmall

\* A step that leaves the folders alone.
LEMMA FoldersElsewhere ==
    ASSUME FoldersInv, UNCHANGED folderVars, todo' \in Seq(Root),
           pc' = "walk" => pc = "walk" /\ todo' = todo
    PROVE  FoldersInv'
  <1>1. /\ UNCHANGED <<roots, present, inUse, unlistable, mode, stack>>
        /\ UNCHANGED <<fileCount, dirCount, errorCount, before, created, vanished>>
    BY DEF folderVars, treeVars, walkVars, ghostVars
  <1>2. TreeInv'
    BY <1>1 DEF FoldersInv, TreeInv, Grounded
  <1>3. pc' = "walk" => todo' # <<>> /\ WalkInv(Head(todo))'
    <2> SUFFICES ASSUME pc' = "walk" PROVE todo' # <<>> /\ WalkInv(Head(todo))'
      OBVIOUS
    <2>1. pc = "walk" /\ todo' = todo /\ todo # <<>> /\ WalkInv(Head(todo))
      BY DEF FoldersInv
    <2>2. Dirs' = Dirs /\ Todos' = Todos /\ Known' = Known /\ Gone' = Gone
      BY <1>1 DEF Dirs, Todos, Known, Gone
    <2>3. Ahead' = Ahead
      BY <2>2 DEF Ahead, Waiting
    <2>4. StackInv' /\ KnownInv' /\ CountInv'
      BY <1>1, <2>1, <2>2, <2>3 DEF WalkInv, StackInv, KnownInv, CountInv, Grounded
    <2>5. ListedInv(Head(todo))'
      BY <1>1, <2>1, <2>2 DEF WalkInv, ListedInv, Found
    <2> QED  BY <2>1, <2>4, <2>5 DEF WalkInv
  <1>4. CountersSmall'
    BY <1>1, CountersBounded DEF CountersSmall
  <1> QED  BY <1>2, <1>3, <1>4 DEF FoldersInv

\* A step of a walk, by the tool or by others.
LEMMA FoldersWalk ==
    ASSUME FoldersInv, Walk \/ OthersAct
    PROVE  FoldersInv'
  <1>1. pc = "walk" /\ pc' = "walk" /\ todo' = todo /\ (WalkStep \/ Others)
    BY DEF Walk, OthersAct, toolVars
  <1>2. PICK d : d = Head(todo)
    OBVIOUS
  <1>3. TreeInv /\ WalkInv(d) /\ todo # <<>> /\ todo \in Seq(Root)
    BY <1>1, <1>2 DEF FoldersInv
  <1>4. TreeInv' /\ WalkInv(d)'
    BY <1>1, <1>3, WalkStepInv, OthersInv
  <1>5. d = Head(todo')
    BY <1>1, <1>2
  <1>6. WalkInv(Head(todo))'
    BY <1>4, <1>5 DEF WalkInv, ListedInv
  <1> QED  BY <1>1, <1>3, <1>4, <1>6 DEF FoldersInv
\* The tools' steps, and where each leaves folders and list.
LEMMA FoldersNextInv ==
    ASSUME FoldersInv, [Next]_vars
    PROVE  FoldersInv'
  <1>0. todo \in Seq(Root) /\ TreeInv
    BY DEF FoldersInv
  <1>1. CASE \/ (\E t \in ToolName : RunWithWait(t)) \/ RunError \/ NotElevated \/ MissingFirst
             \/ BeginFolders \/ CleanFolderRefuses \/ SkipFolder \/ FoldersDone
             \/ DeleteShadows \/ ReduceMemory
             \/ Connect \/ SendLogin \/ LoginEcho \/ SendSync \/ SyncEcho \/ Kill
    <2>1. UNCHANGED folderVars /\ pc' # "walk"
      BY <1>1 DEF RunWithWait, RunError, NotElevated, MissingFirst, BeginFolders,
                  CleanFolderRefuses, SkipFolder, FoldersDone, DeleteShadows, ReduceMemory,
                  Connect, SendLogin, LoginEcho, SendSync, SyncEcho, Kill, Exit, Judge
    <2>2. \/ todo' = todo
          \/ todo # <<>> /\ todo' = Tail(todo)
          \/ \E t \in ToolName : todo' = (IF t \in FolderTool THEN Folders[t] ELSE <<>>)
      BY <1>1 DEF RunWithWait, RunError, NotElevated, MissingFirst, BeginFolders,
                  CleanFolderRefuses, SkipFolder, FoldersDone, DeleteShadows, ReduceMemory,
                  Connect, SendLogin, LoginEcho, SendSync, SyncEcho, Kill
    <2>3. todo' \in Seq(Root)
      <3>1. todo # <<>> => Tail(todo) \in Seq(Root)
        BY <1>0
      <3>2. \A t \in FolderTool : Folders[t] \in Seq(Root)
        BY FoldersAssumption
      <3>3. <<>> \in Seq(Root)
        OBVIOUS
      <3> QED  BY <1>0, <2>2, <3>1, <3>2, <3>3
    <2> QED  BY <2>1, <2>3, FoldersElsewhere
  <1>2. CASE CleanFolder
    <2>1. /\ todo # <<>> /\ Exists(Head(todo)) /\ todo' = todo /\ pc' = "walk"
          /\ \E m \in {"contents", "targets"} : StartWalk(Head(todo), m)
      BY <1>2 DEF CleanFolder
    <2>2. PICK d \in Root : d = Head(todo)
      BY <1>0, <2>1
    <2>3. TreeInv' /\ WalkInv(d)'
      BY <1>0, <2>1, <2>2, StartWalkInv
    <2>4. d = Head(todo')
      BY <2>1, <2>2
    <2>5. WalkInv(Head(todo))'
      BY <2>3, <2>4 DEF WalkInv, ListedInv
    <2> QED  BY <1>0, <2>1, <2>3, <2>5 DEF FoldersInv
  <1>3. CASE Walk \/ OthersAct
    BY <1>3, FoldersWalk
  <1>4. CASE FolderDone
    <2>1. /\ pc' = "folder" /\ todo' = Tail(todo) /\ pc = "walk"
          /\ UNCHANGED <<present, inUse, unlistable, walkVars, ghostVars>>
          /\ roots' = roots \/ (Children(Head(todo)) = {} /\ roots' = roots \ {Head(todo)})
      BY <1>4 DEF FolderDone
    <2>2. todo' \in Seq(Root)
      BY <1>0, <2>1 DEF FoldersInv
    <2>3. TreeInv'
      <3>1. CASE roots' = roots
        BY <1>0, <2>1, <3>1 DEF TreeInv, walkVars, ghostVars, Grounded
      <3>2. CASE Children(Head(todo)) = {} /\ roots' = roots \ {Head(todo)}
        <4>1. PICK d : d = Head(todo)
          OBVIOUS
        <4>2. Children(d) = {} /\ roots' = roots \ {d}
          BY <3>2, <4>1 DEF Children
        <4> QED  BY <1>0, <2>1, <4>2, RootRemoved
      <3> QED  BY <2>1, <3>1, <3>2
    <2>4. CountersSmall'
      BY <2>1, CountersBounded DEF CountersSmall, walkVars
    <2> QED  BY <2>1, <2>2, <2>3, <2>4 DEF FoldersInv
  <1>5. CASE Report
    <2>1. pc' = "idle" /\ todo' = <<>> /\ ForgetWalk
      BY <1>5 DEF Report
    <2>2. TreeInv'
      BY <1>0, <2>1, ForgetWalkInv
    <2>3. CountersSmall'
      <3>1. Cardinality(Entry) \in Nat
        BY Countable
      <3> QED  BY <2>1, <3>1 DEF ForgetWalk, CountersSmall
    <2> QED  BY <2>1, <2>2, <2>3 DEF FoldersInv
  <1>6. CASE Answer \/ Arrive \/ Lose \/ UNCHANGED vars
    <2>1. UNCHANGED folderVars /\ UNCHANGED <<pc, todo>>
      BY <1>6 DEF Answer, Arrive, Lose, vars, toolVars
    <2> QED  BY <1>0, <2>1, FoldersElsewhere
  <1> QED  BY <1>1, <1>2, <1>3, <1>4, <1>5, <1>6 DEF Next, ToolStep

\* Before the first tool nothing is walked.
LEMMA FoldersInvInit == Init => FoldersInv
  <1> SUFFICES ASSUME Init PROVE FoldersInv
    OBVIOUS
  <1>1. Cardinality(Entry) \in Nat
    BY Countable
  <1>2. TreeInv
    <2>1. /\ roots \in SUBSET Root
          /\ present \in SUBSET Entry /\ Grounded(present, roots)
          /\ inUse = {} /\ unlistable \in SUBSET (Root \cup Dir)
          /\ mode = "contents" /\ stack = <<>>
          /\ fileCount = 0 /\ dirCount = 0 /\ errorCount = 0
          /\ before = {} /\ created = {} /\ vanished = {}
      BY DEF Init, FolderInit
    <2> QED  BY <2>1 DEF TreeInv
  <1>3. CountersSmall
    BY <1>1 DEF Init, FolderInit, CountersSmall
  <1> QED  BY <1>2, <1>3 DEF Init, FoldersInv

\* It holds at every moment.
LEMMA FoldersInvariance == Spec => []FoldersInv
  BY FoldersInvInit, FoldersNextInv, PTL DEF Spec

(* After DeleteDirectoryContents (src/src-tauri/Tools/common.h, 29-70) has   *)
(* gone through a folder that it could list, and counted no error, nothing   *)
(* is left in the folder of what was in it before: for any tree, any depth,  *)
(* and whatever other processes create, delete or hold open meanwhile.       *)
THEOREM CleanIsCleanAlways == Spec => []CleanIsClean
  <1>1. FoldersInv => CleanIsClean
    <2> SUFFICES ASSUME FoldersInv, pc = "walk", ~Walking, mode = "contents", errorCount = 0,
                        Head(todo) \notin unlistable
                 PROVE  \A e \in before \cap present : ~Under(e, Head(todo))
      BY DEF CleanIsClean
    <2>1. PICK d : d = Head(todo)
      OBVIOUS
    <2>2. ListedInv(d)
      BY <2>1 DEF FoldersInv, WalkInv
    <2> QED  BY <2>1, <2>2, NothingLeft
  <1> QED  BY <1>1, FoldersInvariance, PTL

(* The global counters of common.h (g_fileCount, g_dirCount, g_errorCount)   *)
(* balance at every moment of both walks: every entry that has gone, and     *)
(* that no other process took, was counted once, and an entry counted as an  *)
(* error is none of these and was counted once too.                          *)
THEOREM LedgerBalancesAlways == Spec => []LedgerBalances
  <1>1. FoldersInv => LedgerBalances
    <2> SUFFICES ASSUME FoldersInv, pc = "walk"
                 PROVE  /\ fileCount + dirCount = Cardinality((before \cup created) \ (vanished \cup present))
                        /\ fileCount + dirCount + errorCount <= Cardinality(before \cup created)
      BY DEF LedgerBalances
    <2> QED  BY CountedOnce DEF FoldersInv, WalkInv, Gone, Known
  <1> QED  BY <1>1, FoldersInvariance, PTL
-----------------------------------------------------------------------------
(* Types.                                                                  *)

\* The parts of ToolsTypeOK that the others do not imply, and that only the
\* extension asks anything of a server.
ToolTypes ==
    /\ SessionTypeOK
    /\ admin \in BOOLEAN
    /\ tool \in ToolName
    /\ pc \in {"idle", "start", "folder", "walk", "connected", "logging in",
              "logged in", "syncing", "ended"}
    /\ failed \in BOOLEAN
    /\ out \subseteq FailureLine \cup OtherLine
    /\ exit \in -3..2
    /\ exit = 2 => tool = "niccent_extension"
    /\ verdict \in {"none", "done", "error"}
    /\ server \in {"silent", "accepted", "refused", "trouble"}
    /\ pc \in {"connected", "logging in", "logged in", "syncing"} => tool = "niccent_extension"

\* What is read leaves the rest.
LEMMA ReadTypes ==
    ASSUME SessionTypeOK, NEW echo, ReadSome(echo)
    PROVE  SessionTypeOK'
  <1>1. PICK n \in 1 .. Len(inbox) : inbox' = SubSeq(inbox, n + 1, Len(inbox))
    BY DEF ReadSome
  <1>2. inbox \in Seq(Segment) /\ Len(inbox) \in Nat
    BY DEF SessionTypeOK
  <1>3. \A i \in (n + 1) .. Len(inbox) : inbox[i] \in Segment
    BY <1>1, <1>2
  <1>4. inbox' \in Seq(Segment)
    BY <1>1, <1>2, <1>3, SubSeqProperties
  <1> QED  BY <1>4 DEF SessionTypeOK, ReadSome

\* Replies are of one segment or two.
LEMMA OneOrTwo ==
    ASSUME NEW S, NEW a \in S, NEW b \in S
    PROVE  <<a>> \in Seq(S) /\ <<a, b>> \in Seq(S)
  OBVIOUS

\* Every other step of the session and of the network.
LEMMA SessionTypes ==
    ASSUME SessionTypeOK,
           \/ UNCHANGED sessionVars \/ Connected \/ Disconnected \/ ConnectionLost
           \/ (\E r \in Request : WriteRequest(r)) \/ (\E echo : SendFails(echo))
           \/ (\E kind \in {"value", "error"} : ServerAnswers(kind)) \/ SegmentArrives
    PROVE  SessionTypeOK'
  <1>1. CASE UNCHANGED sessionVars \/ \E echo : SendFails(echo)
    BY <1>1 DEF SessionTypeOK, sessionVars, SendFails
  <1>2. CASE Connected \/ Disconnected \/ ConnectionLost
    <2>1. up' \in {TRUE, FALSE}
      BY <1>2, Zenon DEF Connected, Disconnected, ConnectionLost
    <2>2. asked' \in {asked, <<>>} /\ wire' \in {wire, <<>>} /\ inbox' \in {inbox, <<>>}
      BY <1>2, Zenon DEF Connected, Disconnected, ConnectionLost
    <2>3. asked \in Seq(Request) /\ wire \in Seq(Segment) /\ inbox \in Seq(Segment)
      BY DEF SessionTypeOK
    <2>4. \A S : <<>> \in Seq(S)
      OBVIOUS
    <2>5. asked' \in Seq(Request) /\ wire' \in Seq(Segment) /\ inbox' \in Seq(Segment)
      BY <2>2, <2>3, <2>4, Zenon
    <2> QED  BY <2>1, <2>5 DEF SessionTypeOK
  <1>3. CASE \E r \in Request : WriteRequest(r)
    BY <1>3 DEF SessionTypeOK, WriteRequest
  <1>4. CASE \E kind \in {"value", "error"} : ServerAnswers(kind)
    <2>1. PICK kind \in {"value", "error"} : ServerAnswers(kind)
      BY <1>4
    <2>2. asked # <<>> /\ asked \in Seq(Request) /\ wire \in Seq(Segment)
      BY <2>1 DEF ServerAnswers, SessionTypeOK
    <2>3. Head(asked) \in Request /\ asked' \in Seq(Request)
      BY <2>1, <2>2 DEF ServerAnswers
    <2>4. PICK segments \in Replies(Head(asked), kind) : wire' = wire \o segments
      BY <2>1 DEF ServerAnswers
    <2> DEFINE seg(l) == [of |-> Head(asked), looks |-> l]
    <2>5. seg("error") \in Segment /\ seg("value") \in Segment /\ seg("part") \in Segment
      BY <2>3 DEF Segment
    <2>6. \/ segments = <<seg(kind)>>
          \/ segments = <<seg("part"), seg("part")>>
          \/ segments = <<seg("error"), seg("part")>>
      BY <2>4 DEF Replies
    <2>7. seg(kind) \in Segment
      BY <2>1, <2>5
    <2> HIDE DEF seg
    <2>8. segments \in Seq(Segment)
      BY <2>5, <2>6, <2>7, OneOrTwo, Zenon
    <2>9. wire' \in Seq(Segment)
      BY <2>2, <2>4, <2>8
    <2> QED  BY <2>1, <2>3, <2>9 DEF SessionTypeOK, ServerAnswers
  <1>5. CASE SegmentArrives
    <2>1. wire # <<>> /\ wire \in Seq(Segment) /\ inbox \in Seq(Segment)
      BY <1>5 DEF SegmentArrives, SessionTypeOK
    <2>2. Head(wire) \in Segment /\ Tail(wire) \in Seq(Segment)
      BY <2>1
    <2>3. Append(inbox, Head(wire)) \in Seq(Segment)
      BY <2>1, <2>2
    <2> QED  BY <1>5, <2>2, <2>3 DEF SegmentArrives, SessionTypeOK
  <1> QED  BY <1>1, <1>2, <1>3, <1>4, <1>5
\* An end of a tool, with a code of its own and lines that the parser knows or
\* does not.
LEMMA ExitTypes ==
    ASSUME ToolTypes, SessionTypeOK', UNCHANGED <<admin, tool, failed, verdict, server>>,
           NEW code \in -3..2, code = 2 => tool = "niccent_extension",
           NEW lines \in SUBSET (FailureLine \cup OtherLine), Exit(code, lines)
    PROVE  ToolTypes'
  <1>1. pc' = "ended" /\ exit' = code /\ out' = out \cup lines
    BY DEF Exit
  <1> QED  BY <1>1 DEF ToolTypes

\* Every step keeps the types of what the folders do not touch.
LEMMA ToolTypesNext ==
    ASSUME ToolTypes, [Next]_vars
    PROVE  ToolTypes'
  <1> DEFINE Steady == SessionTypeOK' /\ UNCHANGED <<admin, tool, failed, verdict, server>>
  <1>0. /\ -3 \in -3..2 /\ -2 \in -3..2 /\ -1 \in -3..2 /\ 0 \in -3..2 /\ 1 \in -3..2 /\ 2 \in -3..2
        /\ -3 # 2 /\ -2 # 2 /\ -1 # 2 /\ 0 # 2 /\ 1 # 2
    OBVIOUS
  <1>00. SessionTypeOK
    BY DEF ToolTypes
  <1>1. CASE \E t \in ToolName : RunWithWait(t)
    <2>1. PICK t \in ToolName : RunWithWait(t)
      BY <1>1
    <2>2. SessionTypeOK'
      BY <1>00, <2>1, SessionTypes DEF RunWithWait
    <2>3. /\ pc' = "start" /\ tool' = t /\ failed' = FALSE /\ out' = {} /\ exit' = -1
          /\ verdict' = "none" /\ server' = "silent" /\ admin' = admin
      BY <2>1 DEF RunWithWait, NotYet
    <2> QED  BY <1>0, <2>2, <2>3 DEF ToolTypes
  <1>2. CASE RunError
    <2>1. Steady /\ Exit(-2, {"run error"})
      BY <1>2, <1>00, SessionTypes DEF RunError, NotRun
    <2> HIDE DEF Steady
    <2>2. {"run error"} \in SUBSET (FailureLine \cup OtherLine)
      BY DEF FailureLine
    <2> QED  BY <1>0, <2>1, <2>2, ExitTypes DEF Steady
  <1>3. CASE NotElevated
    <2>1. Steady /\ Exit(1, {"administrator required"})
      BY <1>3, <1>00, SessionTypes DEF NotElevated
    <2>2. {"administrator required"} \in SUBSET (FailureLine \cup OtherLine)
      BY DEF FailureLine
    <2> QED  BY <1>0, <2>1, <2>2, ExitTypes
  <1>4. CASE MissingFirst
    <2>1. Steady /\ \E line \in {"no environment", "not detected"} : Exit(1, {line})
      BY <1>4, <1>00, SessionTypes DEF MissingFirst
    <2>2. PICK line \in {"no environment", "not detected"} : Exit(1, {line})
      BY <2>1
    <2>3. {line} \in SUBSET (FailureLine \cup OtherLine)
      BY DEF FailureLine, OtherLine
    <2> QED  BY <1>0, <2>1, <2>2, <2>3, ExitTypes
  <1>5. CASE BeginFolders
    <2>1. /\ SessionTypeOK' /\ UNCHANGED <<admin, tool, failed, exit, verdict, server>> /\ pc' = "folder"
      BY <1>5, <1>00, SessionTypes DEF BeginFolders
    <2>2. PICK line \in {"detected", "scanning", "cleaning"} : out' = out \cup {line}
      BY <1>5 DEF BeginFolders
    <2>3. line \in OtherLine
      BY DEF OtherLine
    <2> QED  BY <2>1, <2>2, <2>3 DEF ToolTypes
  <1>6. CASE CleanFolderRefuses
    <2>1. /\ SessionTypeOK' /\ UNCHANGED <<admin, tool, pc, exit, verdict, server>> /\ failed' = TRUE
      BY <1>6, <1>00, SessionTypes DEF CleanFolderRefuses
    <2>2. PICK line \in {"path does not exist", "administrator required"} : out' = out \cup {line}
      BY <1>6 DEF CleanFolderRefuses
    <2>3. line \in FailureLine
      BY DEF FailureLine
    <2> QED  BY <2>1, <2>2, <2>3 DEF ToolTypes
  <1>7. CASE SkipFolder \/ CleanFolder \/ Arrive \/ OthersAct \/ UNCHANGED vars
    <2>1. SessionTypeOK'
      BY <1>7, <1>00, SessionTypes DEF SkipFolder, CleanFolder, Arrive, OthersAct, vars
    <2>2. /\ UNCHANGED <<admin, tool, failed, out, exit, verdict, server>>
          /\ pc' = pc \/ pc' = "walk"
      BY <1>7 DEF SkipFolder, CleanFolder, Arrive, OthersAct, vars, toolVars
    <2> QED  BY <2>1, <2>2 DEF ToolTypes
  <1>8. CASE Walk
    <2>1. SessionTypeOK' /\ UNCHANGED <<admin, tool, pc, failed, exit, verdict, server>>
      BY <1>8, <1>00, SessionTypes DEF Walk
    <2>2. PICK lines \in {{}, {"deleted file"}} : out' = out \cup lines
      BY <1>8 DEF Walk
    <2>3. lines \subseteq OtherLine
      BY DEF OtherLine
    <2> QED  BY <2>1, <2>2, <2>3 DEF ToolTypes
  <1>9. CASE FolderDone
    <2>1. SessionTypeOK' /\ UNCHANGED <<admin, tool, exit, verdict, server>> /\ pc' = "folder"
      BY <1>9, <1>00, SessionTypes DEF FolderDone
    <2>2. failed' \in BOOLEAN
      BY <1>9 DEF FolderDone, Overall
    <2>3. PICK lines \in {{}, {"deleted, no errors"}, {"deleted, with errors"}} : out' = out \cup lines
      BY <1>9 DEF FolderDone, DeletedLine
    <2>4. lines \subseteq FailureLine \cup OtherLine
      BY DEF FailureLine, OtherLine
    <2> QED  BY <2>1, <2>2, <2>3, <2>4 DEF ToolTypes
  <1>10. CASE FoldersDone
    <2>1. Steady
      BY <1>10, <1>00, SessionTypes DEF FoldersDone
    <2>2. PICK code \in {0, 1}, lines \in {{}, {"deleted, no errors"}, {"deleted, with errors"}} :
            Exit(code, lines)
      BY <1>10 DEF FoldersDone, DeletedLine
    <2>3. lines \in SUBSET (FailureLine \cup OtherLine)
      BY DEF FailureLine, OtherLine
    <2> QED  BY <1>0, <2>1, <2>2, <2>3, ExitTypes
  <1>11. CASE DeleteShadows \/ ReduceMemory
    <2>1. Steady
      BY <1>11, <1>00, SessionTypes DEF DeleteShadows, ReduceMemory
    <2>2. PICK code \in {0, 1},
               lines \in {{"cleaning", "shadows deleted"}, {"cleaning", "shadows not deleted"},
                          {"memreduct not found"}, {"no pipe"}, {"memreduct not launched"},
                          {}, {"memory released"}} :
            Exit(code, lines)
      <3>1. SUBSET {"memory released"} = {{}, {"memory released"}}
        OBVIOUS
      <3> QED  BY <1>11, <3>1 DEF DeleteShadows, ReduceMemory
    <2>3. lines \in SUBSET (FailureLine \cup OtherLine)
      BY DEF FailureLine, OtherLine
    <2> QED  BY <1>0, <2>1, <2>2, <2>3, ExitTypes
  <1>12. CASE Connect
    <2>1. Steady /\ tool = "niccent_extension"
      BY <1>12, <1>00, SessionTypes DEF Connect
    <2>2. CASE pc' = "connected" /\ UNCHANGED <<out, exit>>
      BY <2>1, <2>2 DEF ToolTypes
    <2>3. CASE Exit(1, {"no server"})
      <3>1. {"no server"} \in SUBSET (FailureLine \cup OtherLine)
        BY DEF OtherLine
      <3> QED  BY <1>0, <2>1, <2>3, <3>1, ExitTypes
    <2> QED  BY <1>12, <2>2, <2>3 DEF Connect
  <1>13. CASE SendLogin \/ LoginEcho
    <2>1. SessionTypeOK'
      BY <1>13, <1>00, SessionTypes, ReadTypes, RequestAssumption DEF SendLogin, LoginEcho
    <2>2. /\ pc \in {"connected", "logging in"} /\ pc' \in {"logging in", "logged in"}
          /\ UNCHANGED <<admin, tool, failed, out, exit, verdict, server>>
      BY <1>13 DEF SendLogin, LoginEcho
    <2> QED  BY <2>1, <2>2 DEF ToolTypes
  <1>14. CASE SendSync \/ SyncEcho
    <2>1. Steady
      BY <1>14, <1>00, SessionTypes, ReadTypes, RequestAssumption DEF SendSync, SyncEcho
    <2>2. tool = "niccent_extension"
      BY <1>14 DEF ToolTypes, SendSync, SyncEcho
    <2>3. CASE pc' = "syncing" /\ UNCHANGED <<out, exit>>
      BY <2>1, <2>2, <2>3 DEF ToolTypes
    <2>4. CASE \E echo : Judge(echo)
      <3>1. PICK code \in {0, 2}, lines \in {{}, {"not synced"}} : Exit(code, lines)
        BY <2>4 DEF Judge
      <3>2. lines \in SUBSET (FailureLine \cup OtherLine)
        BY DEF OtherLine
      <3> QED  BY <1>0, <2>1, <2>2, <3>1, <3>2, ExitTypes
    <2> QED  BY <1>14, <2>3, <2>4 DEF SendSync, SyncEcho
  <1>15. CASE Answer \/ Lose
    <2>1. SessionTypeOK'
      BY <1>15, <1>00, SessionTypes DEF Answer, Lose
    <2>2. /\ UNCHANGED <<admin, tool, pc, failed, out, exit, verdict>>
          /\ server' \in {"silent", "accepted", "refused", "trouble"}
      BY <1>15 DEF Answer, Lose, ToolTypes
    <2> QED  BY <2>1, <2>2 DEF ToolTypes
  <1>16. CASE Kill
    <2>1. SessionTypeOK' /\ UNCHANGED <<admin, tool, failed, verdict, server>>
      BY <1>16, <1>00, SessionTypes DEF Kill
    <2>2. pc' = "ended" /\ exit' = -3 /\ out' \subseteq out
      BY <1>16 DEF Kill, Killed
    <2> QED  BY <1>0, <2>1, <2>2 DEF ToolTypes
  <1>17. CASE Report
    <2>1. SessionTypeOK'
      BY <1>17, <1>00, SessionTypes DEF Report
    <2>2. /\ pc' = "idle" /\ UNCHANGED <<admin, tool, out, exit, server>> /\ failed' = FALSE
          /\ verdict' \in {"done", "error"}
      BY <1>17 DEF Report, parseOutput
    <2> QED  BY <2>1, <2>2 DEF ToolTypes
  <1> QED  BY <1>1, <1>2, <1>3, <1>4, <1>5, <1>6, <1>7, <1>8, <1>9, <1>10, <1>11, <1>12,
              <1>13, <1>14, <1>15, <1>16, <1>17 DEF Next, ToolStep

\* Before the first run they are right.
LEMMA ToolTypesInit == Init => ToolTypes
  <1> SUFFICES ASSUME Init PROVE ToolTypes
    OBVIOUS
  <1>1. SessionTypeOK
    <2>1. up \in {TRUE, FALSE}
      BY Zenon DEF Init, SessionClosed
    <2>2. asked = <<>> /\ wire = <<>> /\ inbox = <<>>
      BY DEF Init, SessionClosed
    <2>3. \A S : <<>> \in Seq(S)
      OBVIOUS
    <2> QED  BY <2>1, <2>2, <2>3, Zenon DEF SessionTypeOK
  <1>2. -1 \in -3..2 /\ -1 # 2
    OBVIOUS
  <1> QED  BY <1>1, <1>2 DEF Init, ToolTypes, ToolName, FolderTool, NotYet

(* The types, and with them that the counters of common.h are bounded by the *)
(* number of entries, which is why they cannot wrap, and that no tool but    *)
(* the extension returns 2.                                                  *)
THEOREM ToolsTypeCorrect == Spec => []ToolsTypeOK
  <1>1. Init => ToolTypes
    BY ToolTypesInit
  <1>2. ToolTypes /\ [Next]_vars => ToolTypes'
    BY ToolTypesNext
  <1>3. ToolTypes /\ FoldersInv => ToolsTypeOK
    <2> SUFFICES ASSUME ToolTypes, FoldersInv PROVE ToolsTypeOK
      OBVIOUS
    <2>1. FolderTypeOK
      BY CountersBounded DEF FoldersInv, TreeInv, FolderTypeOK, CountersSmall
    <2> QED  BY <2>1 DEF ToolTypes, FoldersInv, ToolsTypeOK
  <1> QED  BY <1>1, <1>2, <1>3, FoldersInvariance, PTL DEF Spec
-----------------------------------------------------------------------------
(* What the folder tools promise.                                          *)

\* The walk is in the folder at the head of the list and is the tool's own; at its
\* start a tool has its whole list before it.
PromiseInv ==
    /\ pc \in {"folder", "walk"} => tool \in FolderTool
    /\ pc = "start" /\ tool \in FolderTool => todo = Folders[tool]
    /\ pc = "walk" => /\ PlaceInv(Head(todo))
                      /\ mode = "targets" <=> tool = "clean_tmp_files"

\* All that is known of the tools.
FullInv == FoldersInv /\ ToolTypes /\ PromiseInv

\* A walk goes on in its folder, and as it began.
LEMMA WalkStaysInPlace ==
    ASSUME FoldersInv, PromiseInv, Walk \/ OthersAct
    PROVE  PromiseInv'
  <1>1. /\ pc = "walk" /\ pc' = "walk" /\ todo' = todo /\ tool' = tool
        /\ WalkStep \/ Others
    BY DEF Walk, OthersAct, toolVars
  <1>2. PICK d \in Root : d = Head(todo)
    BY <1>1 DEF FoldersInv
  <1>3. TreeInv /\ WalkInv(d) /\ PlaceInv(d) /\ (mode = "targets" <=> tool = "clean_tmp_files")
    BY <1>1, <1>2 DEF FoldersInv, PromiseInv
  <1>4. PlaceInv(d)'
    BY <1>1, <1>3, WalkStepPlace, OthersPlace
  <1>5. mode' = mode
    <2>1. CASE WalkStep
      BY <1>3, <2>1, WalkDeletes DEF Delete
    <2>2. CASE Others
      BY <2>2 DEF Others, Use, Release, Create, Vanish, walkVars
    <2> QED  BY <1>1, <2>1, <2>2
  <1>6. d = Head(todo')
    BY <1>1, <1>2
  <1>7. PlaceInv(Head(todo))'
    BY <1>4, <1>6 DEF PlaceInv, Under
  <1> QED  BY <1>1, <1>3, <1>5, <1>7 DEF PromiseInv

\* Every step keeps the walk in place.
LEMMA PromiseNextInv ==
    ASSUME FullInv, [Next]_vars
    PROVE  PromiseInv'
  <1>0. FoldersInv /\ ToolTypes /\ PromiseInv
    BY DEF FullInv
  <1>1. CASE \E t \in ToolName : RunWithWait(t)
    BY <1>1 DEF RunWithWait, PromiseInv
  <1>2. CASE BeginFolders
    BY <1>2 DEF BeginFolders, PromiseInv
  <1>3. CASE CleanFolderRefuses \/ SkipFolder \/ FolderDone
    <2>1. pc \in {"folder", "walk"} /\ pc' = "folder" /\ tool' = tool
      BY <1>3 DEF CleanFolderRefuses, SkipFolder, FolderDone
    <2> QED  BY <1>0, <2>1 DEF PromiseInv
  <1>4. CASE CleanFolder
    <2>1. /\ pc = "folder" /\ pc' = "walk" /\ todo' = todo /\ tool' = tool
          /\ StartWalk(Head(todo), IF tool = "clean_tmp_files" THEN "targets" ELSE "contents")
      BY <1>4 DEF CleanFolder
    <2>2. PICK d, m : d = Head(todo) /\ m = (IF tool = "clean_tmp_files" THEN "targets" ELSE "contents")
      OBVIOUS
    <2>3. StartWalk(d, m)
      BY <2>1, <2>2
    <2>4. PlaceInv(d)' /\ mode' = m
      BY <1>0, <2>3, PlaceStart DEF FoldersInv, StartWalk
    <2>5. d = Head(todo')
      BY <2>1, <2>2
    <2>6. PlaceInv(Head(todo))'
      BY <2>4, <2>5 DEF PlaceInv, Under
    <2> QED  BY <1>0, <2>1, <2>2, <2>4, <2>6 DEF PromiseInv
  <1>5. CASE Walk \/ OthersAct
    BY <1>0, <1>5, WalkStaysInPlace
  <1>6. CASE \/ RunError \/ NotElevated \/ MissingFirst \/ FoldersDone
             \/ DeleteShadows \/ ReduceMemory \/ Kill \/ Report
    <2>1. pc' \in {"ended", "idle"}
      BY <1>6 DEF RunError, NotElevated, MissingFirst, FoldersDone, DeleteShadows,
                  ReduceMemory, Kill, Report, Exit
    <2> QED  BY <2>1 DEF PromiseInv
  <1>7. CASE Connect \/ SendLogin \/ LoginEcho \/ SendSync \/ SyncEcho
    <2>1. pc' \in {"connected", "logging in", "logged in", "syncing", "ended"}
      BY <1>7 DEF Connect, SendLogin, LoginEcho, SendSync, SyncEcho, Exit, Judge
    <2> QED  BY <2>1 DEF PromiseInv
  <1>8. CASE Answer \/ Arrive \/ Lose \/ UNCHANGED vars
    <2>1. UNCHANGED <<pc, tool, todo, mode, stack>>
      BY <1>8 DEF Answer, Arrive, Lose, vars, toolVars, folderVars, walkVars
    <2>2. pc = "walk" => PlaceInv(Head(todo))'
      BY <1>0, <2>1 DEF PromiseInv, PlaceInv, Dirs, Todos, Under
    <2> QED  BY <1>0, <2>1, <2>2 DEF PromiseInv
  <1> QED  BY <1>1, <1>2, <1>3, <1>4, <1>5, <1>6, <1>7, <1>8 DEF Next, ToolStep

\* What Cleaner sees of a folder tool that is not at work, is between two folders,
\* is in one, or has ended.
NotCounting == DueHere = {} /\ DeletedHere = 0 /\ TakenHere = {} /\ ErrorsHere = 0

SeenIdle ==
    /\ ToolAtWork = "none" /\ Progress = "idle" /\ FoldersLeft = <<>> /\ FailedBefore = FALSE
    /\ NotCounting

SeenBetween ==
    /\ ToolAtWork = tool /\ Progress = "between folders" /\ FoldersLeft = todo
    /\ FailedBefore = failed
    /\ NotCounting

SeenInside ==
    /\ ToolAtWork = tool /\ Progress = "in a folder" /\ FoldersLeft = todo /\ FailedBefore = failed
    /\ DeletedHere = fileCount + dirCount /\ TakenHere = vanished /\ ErrorsHere = errorCount
    /\ DueHere = (IF mode = "contents" /\ Head(todo) \notin unlistable
                    THEN before \cap present \cap Within[Head(todo)] ELSE {})

SeenEnded ==
    /\ ToolAtWork = tool /\ Progress = Ending /\ FoldersLeft = todo /\ FailedBefore = failed
    /\ NotCounting

SeenRight ==
    /\ ~Busy => SeenIdle
    /\ Busy /\ pc \notin {"walk", "ended"} => SeenBetween
    /\ InFolder => SeenInside
    /\ Busy /\ pc = "ended" => SeenEnded

\* That is so before a step and after it.
LEMMA Seen == SeenRight /\ SeenRight'
  <1>1. SeenRight
    <2>1. ~Busy => SeenIdle
      BY DEF SeenIdle, NotCounting, ToolAtWork, Progress, FoldersLeft, FailedBefore, DueHere,
             DeletedHere, TakenHere, ErrorsHere, InFolder
    <2>2. Busy /\ pc \notin {"walk", "ended"} => SeenBetween
      BY DEF SeenBetween, NotCounting, ToolAtWork, Progress, FoldersLeft, FailedBefore, DueHere,
             DeletedHere, TakenHere, ErrorsHere, InFolder
    <2>3. InFolder => SeenInside
      BY DEF SeenInside, ToolAtWork, Progress, FoldersLeft, FailedBefore, DueHere,
             DeletedHere, TakenHere, ErrorsHere, InFolder
    <2>4. Busy /\ pc = "ended" => SeenEnded
      BY DEF SeenEnded, NotCounting, ToolAtWork, Progress, FoldersLeft, FailedBefore, DueHere,
             DeletedHere, TakenHere, ErrorsHere, InFolder
    <2> QED  BY <2>1, <2>2, <2>3, <2>4 DEF SeenRight
  <1>2. SeenRight'
    BY <1>1, PTL
  <1> QED  BY <1>1, <1>2

\* Nothing that Cleaner knows of changes.
LEMMA PromiseSame ==
    ASSUME UNCHANGED <<roots, present, unlistable>>, UNCHANGED <<DueHere, DeletedHere, TakenHere, ErrorsHere>>,
           UNCHANGED <<ToolAtWork, Progress, FoldersLeft, FailedBefore>>
    PROVE  UNCHANGED Promise!vars
  BY DEF Promise!vars

\* No folder tool is at work.
LEMMA NoFolderTool ==
    ASSUME ~Busy, ~Busy', UNCHANGED <<roots, present, unlistable>>
    PROVE  UNCHANGED Promise!vars
  <1>1. SeenIdle /\ SeenIdle'
    BY Seen DEF SeenRight
  <1> QED  BY <1>1, PromiseSame DEF SeenIdle, NotCounting

\* A step of something else.
LEMMA FoldersAlone ==
    ASSUME UNCHANGED folderVars, UNCHANGED <<tool, pc, todo, failed, exit>>
    PROVE  UNCHANGED Promise!vars
  <1>1. /\ UNCHANGED <<roots, present, unlistable, mode>>
        /\ UNCHANGED <<fileCount, dirCount, errorCount, before, vanished>>
    BY DEF folderVars, treeVars, walkVars, ghostVars
  <1> QED  BY <1>1, PromiseSame
           DEF ToolAtWork, Progress, Ending, FoldersLeft, FailedBefore, DueHere, DeletedHere,
               TakenHere, ErrorsHere, InFolder, Busy

\* A run begins.
LEMMA PromiseStart ==
    ASSUME NEW t \in ToolName, RunWithWait(t)
    PROVE  Promise!Next \/ UNCHANGED Promise!vars
  <1>1. /\ pc = "idle" /\ tool' = t /\ pc' = "start" /\ failed' = FALSE
        /\ todo' = (IF t \in FolderTool THEN Folders[t] ELSE <<>>)
        /\ UNCHANGED <<roots, present, unlistable>>
    BY DEF RunWithWait, folderVars, treeVars
  <1>2. ~Busy
    BY <1>1 DEF Busy
  <1>3. CASE t \in FolderTool
    <2>1. Busy' /\ SeenIdle /\ SeenBetween'
      BY <1>1, <1>2, <1>3, Seen DEF SeenRight, Busy
    <2>2. Promise!Start(t)
      BY <1>1, <1>3, <2>1 DEF Promise!Start, Promise!folderVars, SeenIdle, SeenBetween, NotCounting
    <2> QED  BY <1>3, <2>2 DEF Promise!Next
  <1>4. CASE t \notin FolderTool
    <2>1. ~Busy'
      BY <1>1, <1>4 DEF Busy
    <2> QED  BY <1>1, <1>2, <2>1, NoFolderTool
  <1> QED  BY <1>3, <1>4

\* A run ends before the first folder.
LEMMA PromiseRefuse ==
    ASSUME FullInv, RunError \/ NotElevated \/ MissingFirst
    PROVE  Promise!Next \/ UNCHANGED Promise!vars
  <1>1. /\ pc = "start" /\ pc' = "ended" /\ tool' = tool /\ todo' = todo /\ failed' = failed
        /\ exit' \in {-2, 1}
        /\ UNCHANGED <<roots, present, unlistable>>
    BY DEF RunError, NotElevated, MissingFirst, Exit, NotRun, folderVars, treeVars
  <1>2. CASE tool \in FolderTool
    <2>1. SeenBetween /\ SeenEnded' /\ todo = Folders[tool]
      BY <1>1, <1>2, Seen DEF SeenRight, Busy, FullInv, PromiseInv
    <2>2. Ending' = "badly"
      BY <1>1 DEF Ending, Killed
    <2>3. Promise!Refuse
      BY <1>1, <2>1, <2>2
         DEF Promise!Refuse, Promise!folderVars, SeenBetween, SeenEnded, NotCounting
    <2> QED  BY <2>3 DEF Promise!Next
  <1>3. CASE tool \notin FolderTool
    BY <1>1, <1>3, NoFolderTool DEF Busy
  <1> QED  BY <1>2, <1>3

\* The first line is printed.
LEMMA PromiseBegin ==
    ASSUME BeginFolders
    PROVE  UNCHANGED Promise!vars
  <1>1. /\ pc = "start" /\ pc' = "folder" /\ tool \in FolderTool
        /\ UNCHANGED <<tool, todo, failed, roots, present, unlistable>>
    BY DEF BeginFolders, folderVars, treeVars
  <1>2. SeenBetween /\ SeenBetween'
    BY <1>1, Seen DEF SeenRight, Busy
  <1> QED  BY <1>1, <1>2, PromiseSame DEF SeenBetween, NotCounting

\* A folder is passed over.
LEMMA PromisePassOver ==
    ASSUME FullInv, CleanFolderRefuses \/ SkipFolder
    PROVE  Promise!Next
  <1>1. /\ pc = "folder" /\ pc' = "folder" /\ tool' = tool /\ todo # <<>> /\ todo' = Tail(todo)
        /\ \/ failed' = TRUE
           \/ tool = "clean_nvidia" /\ Head(todo) \notin roots /\ failed' = failed
        /\ UNCHANGED <<roots, present, unlistable>>
    BY DEF CleanFolderRefuses, SkipFolder, Exists, folderVars, treeVars
  <1>2. Busy /\ Busy'
    BY <1>1 DEF FullInv, PromiseInv, Busy
  <1>3. SeenBetween /\ SeenBetween'
    BY <1>1, <1>2, Seen DEF SeenRight
  <1>4. Promise!PassOver
    BY <1>1, <1>3 DEF Promise!PassOver, Promise!folderVars, SeenBetween, NotCounting
  <1> QED  BY <1>4 DEF Promise!Next

\* A folder is entered.
LEMMA PromiseEnter ==
    ASSUME FullInv, CleanFolder
    PROVE  Promise!Next
  <1>1. /\ pc = "folder" /\ pc' = "walk" /\ todo # <<>> /\ Exists(Head(todo))
        /\ UNCHANGED <<tool, todo, failed>>
        /\ StartWalk(Head(todo), IF tool = "clean_tmp_files" THEN "targets" ELSE "contents")
    BY DEF CleanFolder
  <1>2. /\ UNCHANGED <<roots, present, unlistable>>
        /\ fileCount' = 0 /\ dirCount' = 0 /\ errorCount' = 0
        /\ mode' = (IF tool = "clean_tmp_files" THEN "targets" ELSE "contents")
        /\ before' = present /\ vanished' = {}
    BY <1>1 DEF StartWalk, treeVars
  <1>3. PICK d \in Root : d = Head(todo)
    BY <1>1 DEF FullInv, FoldersInv
  <1>4. d \in roots /\ Head(todo') = d
    BY <1>1, <1>3, TreeAssumption DEF Exists, FullInv, FoldersInv, TreeInv, Entry
  <1>5. Busy /\ Busy'
    BY <1>1 DEF FullInv, PromiseInv, Busy
  <1>6. SeenBetween /\ SeenInside'
    BY <1>1, <1>5, Seen DEF SeenRight, InFolder
  <1>7. DueHere' = (IF tool \in {"clean_tmp_files"} \/ d \in unlistable \cap Root
                      THEN {} ELSE Within[d] \cap present)
    <2>1. DueHere' = (IF mode' = "contents" /\ d \notin unlistable
                        THEN present \cap present \cap Within[d] ELSE {})
      BY <1>2, <1>4, <1>6 DEF SeenInside, Within, Under
    <2> QED  BY <1>2, <1>3, <2>1
  <1>8. UNCHANGED <<DeletedHere, TakenHere, ErrorsHere>>
    <2>1. DeletedHere' = 0
      <3>1. DeletedHere' = fileCount' + dirCount'
        BY <1>6 DEF SeenInside
      <3>2. fileCount' = 0 /\ dirCount' = 0
        BY <1>2
      <3> QED  BY <3>1, <3>2
    <2>2. TakenHere' = {} /\ ErrorsHere' = 0
      BY <1>2, <1>6 DEF SeenInside
    <2> QED  BY <1>6, <2>1, <2>2 DEF SeenBetween, NotCounting
  <1>9. UNCHANGED <<ToolAtWork, FoldersLeft, FailedBefore>> /\ ToolAtWork = tool
    BY <1>1, <1>6 DEF SeenBetween, SeenInside
  <1>10. /\ Progress = "between folders" /\ Progress' = "in a folder"
         /\ FoldersLeft # <<>> /\ Head(FoldersLeft) = d
    BY <1>1, <1>3, <1>6 DEF SeenBetween, SeenInside
  <1>11. DueHere' = Promise!Due(d)
    BY <1>7, <1>9 DEF Promise!Due
  <1>12. Promise!Enter
    BY <1>2, <1>4, <1>8, <1>9, <1>10, <1>11 DEF Promise!Enter
  <1> QED  BY <1>12 DEF Promise!Next

\* In a folder, before and after a step of its walk or of others.
LEMMA StaysInside ==
    ASSUME FullInv, Walk \/ OthersAct
    PROVE  /\ SeenInside /\ SeenInside'
           /\ \E d \in Root : /\ d = Head(todo) /\ d = Head(todo')
                              /\ TreeInv /\ WalkInv(d) /\ PlaceInv(d)
                              /\ mode = "targets" <=> tool = "clean_tmp_files"
           /\ UNCHANGED <<tool, todo, failed>>
  <1>1. pc = "walk" /\ pc' = "walk" /\ UNCHANGED <<tool, todo, failed>>
    BY DEF Walk, OthersAct, toolVars
  <1>2. InFolder /\ InFolder'
    BY <1>1 DEF FullInv, PromiseInv, InFolder, Busy
  <1>3. SeenInside /\ SeenInside'
    BY <1>2, Seen DEF SeenRight
  <1>4. PICK d \in Root : d = Head(todo)
    BY <1>1 DEF FullInv, FoldersInv
  <1>5. d = Head(todo')
    BY <1>1, <1>4
  <1>6. /\ TreeInv /\ WalkInv(d) /\ PlaceInv(d)
        /\ mode = "targets" <=> tool = "clean_tmp_files"
    BY <1>1, <1>4 DEF FullInv, FoldersInv, PromiseInv
  <1> QED  BY <1>1, <1>3, <1>4, <1>5, <1>6

\* What is due, in folder d.
LEMMA DueIs ==
    ASSUME NEW d \in Root, d = Head(todo), d = Head(todo'), SeenInside, SeenInside'
    PROVE  /\ DueHere = (IF mode = "contents" /\ d \notin unlistable
                           THEN before \cap present \cap Within[d] ELSE {})
           /\ DueHere' = (IF mode' = "contents" /\ d \notin unlistable'
                            THEN before' \cap present' \cap Within[d] ELSE {})
  BY DEF SeenInside, Within, Under

\* A step of the walk deletes an entry, counts an error or does neither.
LEMMA PromiseWalk ==
    ASSUME FullInv, Walk
    PROVE  Promise!Next \/ UNCHANGED Promise!vars
  <1>1. WalkStep /\ SeenInside /\ SeenInside' /\ UNCHANGED <<tool, todo, failed>>
    BY StaysInside DEF Walk
  <1>2. PICK d \in Root : /\ d = Head(todo) /\ d = Head(todo')
                          /\ TreeInv /\ WalkInv(d) /\ PlaceInv(d)
                          /\ mode = "targets" <=> tool = "clean_tmp_files"
    BY StaysInside
  <1>3. /\ DueHere = (IF mode = "contents" /\ d \notin unlistable
                        THEN before \cap present \cap Within[d] ELSE {})
        /\ DueHere' = (IF mode' = "contents" /\ d \notin unlistable'
                         THEN before' \cap present' \cap Within[d] ELSE {})
    BY <1>1, <1>2, DueIs
  <1>4. /\ Progress = "in a folder" /\ Progress' = "in a folder"
        /\ UNCHANGED <<ToolAtWork, FoldersLeft, FailedBefore>>
        /\ ToolAtWork = tool /\ Head(FoldersLeft) = d
    BY <1>1, <1>2 DEF SeenInside
  <1>5. /\ DeletedHere = fileCount + dirCount /\ DeletedHere' = fileCount' + dirCount'
        /\ TakenHere = vanished /\ TakenHere' = vanished'
        /\ ErrorsHere = errorCount /\ ErrorsHere' = errorCount'
    BY <1>1 DEF SeenInside
  <1>6. fileCount \in Nat /\ dirCount \in Nat /\ errorCount \in Nat /\ mode \in {"contents", "targets"}
    BY <1>2 DEF TreeInv
  <1>7. CASE \E e \in Entry : Under(e, d) /\ (mode # "contents" => e \in Target) /\ Delete(e)
    <2>1. PICK e \in Entry : Under(e, d) /\ (mode # "contents" => e \in Target) /\ Delete(e)
      BY <1>7
    <2>2. UNCHANGED <<roots, unlistable, mode, before, vanished>>
      BY <2>1 DEF Delete, ghostVars
    <2>3. CASE Deletable(e)
      <3>1. /\ e \in present /\ present' = present \ {e} /\ errorCount' = errorCount
            /\ fileCount' = fileCount + (IF e \in File THEN 1 ELSE 0)
            /\ dirCount' = dirCount + (IF e \in Dir THEN 1 ELSE 0)
        BY <2>1, <2>3 DEF Delete, Deletable
      <3>2. DeletedHere' = DeletedHere + 1
        BY <1>5, <1>6, <3>1, TreeAssumption DEF Entry
      <3>3. e \in Promise!Scope(d)
        BY <1>2, <1>4, <1>6, <2>1 DEF Promise!Scope, Within
      <3>4. DueHere' = DueHere \ {e}
        BY <1>3, <2>2, <3>1
      <3>5. Promise!Delete(e)
        BY <1>4, <1>5, <2>2, <3>1, <3>2, <3>3, <3>4 DEF Promise!Delete
      <3> QED  BY <3>5 DEF Promise!Next
    <2>4. CASE ~Deletable(e)
      <3>1. errorCount' = errorCount + 1 /\ UNCHANGED <<present, fileCount, dirCount>>
        BY <2>1, <2>4 DEF Delete
      <3>2. UNCHANGED <<DueHere, DeletedHere, TakenHere>>
        BY <1>3, <1>5, <2>2, <3>1
      <3>3. Promise!CountError
        BY <1>4, <1>5, <2>2, <3>1, <3>2 DEF Promise!CountError
      <3> QED  BY <3>3 DEF Promise!Next
    <2> QED  BY <2>3, <2>4
  <1>8. CASE UNCHANGED <<treeVars, mode, fileCount, dirCount, errorCount, ghostVars>>
    <2>1. UNCHANGED <<roots, present, unlistable, mode, fileCount, dirCount, errorCount, before, vanished>>
      BY <1>8 DEF treeVars, ghostVars
    <2>2. UNCHANGED <<DueHere, DeletedHere, TakenHere, ErrorsHere>>
      BY <1>3, <1>5, <2>1
    <2> QED  BY <1>4, <2>1, <2>2, PromiseSame
  <1> QED  BY <1>1, <1>2, <1>7, <1>8, WalkDeletes

\* Others create and delete.
LEMMA PromiseOthers ==
    ASSUME FullInv, OthersAct
    PROVE  Promise!Next \/ UNCHANGED Promise!vars
  <1>1. Others /\ SeenInside /\ SeenInside' /\ UNCHANGED <<tool, todo, failed>>
    BY StaysInside DEF OthersAct
  <1>2. PICK d \in Root : d = Head(todo) /\ d = Head(todo')
    BY StaysInside
  <1>3. /\ DueHere = (IF mode = "contents" /\ d \notin unlistable
                        THEN before \cap present \cap Within[d] ELSE {})
        /\ DueHere' = (IF mode' = "contents" /\ d \notin unlistable'
                         THEN before' \cap present' \cap Within[d] ELSE {})
    BY <1>1, <1>2, DueIs
  <1>4. /\ Progress = "in a folder" /\ Progress' = "in a folder"
        /\ UNCHANGED <<ToolAtWork, FoldersLeft, FailedBefore>>
        /\ DeletedHere = fileCount + dirCount /\ DeletedHere' = fileCount' + dirCount'
        /\ TakenHere = vanished /\ TakenHere' = vanished'
        /\ ErrorsHere = errorCount /\ ErrorsHere' = errorCount'
    BY <1>1 DEF SeenInside
  <1>5. UNCHANGED <<roots, unlistable, mode, fileCount, dirCount, errorCount, before>>
    BY <1>1 DEF Others, Use, Release, Create, Vanish, walkVars, ghostVars
  <1>6. UNCHANGED <<DeletedHere, ErrorsHere>>
    BY <1>4, <1>5
  <1>7. PICK e \in Entry : Use(e) \/ Release(e) \/ Create(e) \/ Vanish(e)
    BY <1>1 DEF Others
  <1>8. CASE Use(e) \/ Release(e)
    <2>1. present' = present /\ vanished' = vanished
      BY <1>8 DEF Use, Release, ghostVars
    <2>2. UNCHANGED <<DueHere, TakenHere>>
      BY <1>3, <1>4, <1>5, <2>1
    <2> QED  BY <1>4, <1>5, <1>6, <2>1, <2>2, PromiseSame
  <1>9. CASE Create(e)
    <2>1. e \notin present /\ e \notin before /\ present' = present \cup {e} /\ vanished' = vanished
      BY <1>9 DEF Create
    <2>2. UNCHANGED <<DueHere, TakenHere>>
      BY <1>3, <1>4, <1>5, <2>1
    <2>3. Promise!Appear(e)
      BY <1>4, <1>5, <1>6, <2>1, <2>2 DEF Promise!Appear, Promise!folderVars
    <2> QED  BY <2>3 DEF Promise!Next
  <1>10. CASE Vanish(e)
    <2>1. e \in present /\ present' = present \ {e} /\ vanished' = vanished \cup {e}
      BY <1>10 DEF Vanish
    <2>2. DueHere' = DueHere \ {e}
      BY <1>3, <1>5, <2>1
    <2>3. Promise!Vanish(e)
      BY <1>4, <1>5, <1>6, <2>1, <2>2 DEF Promise!Vanish
    <2> QED  BY <2>3 DEF Promise!Next
  <1> QED  BY <1>7, <1>8, <1>9, <1>10

\* A folder is left: without an error with nothing in it that was due.
LEMMA PromiseFinish ==
    ASSUME FullInv, FolderDone
    PROVE  Promise!Next
  <1>1. /\ pc = "walk" /\ ~Walking /\ pc' = "folder" /\ tool' = tool /\ todo' = Tail(todo)
        /\ failed' = (failed \/ errorCount > 0)
        /\ UNCHANGED <<present, unlistable>>
        /\ \/ UNCHANGED roots
           \/ /\ tool = "clean_nvidia"
              /\ Children(Head(todo)) = {}
              /\ roots' = roots \ {Head(todo)}
    BY DEF FolderDone, Overall
  <1>2. InFolder /\ Busy'
    BY <1>1 DEF FullInv, PromiseInv, InFolder, Busy
  <1>3. SeenInside /\ SeenBetween'
    BY <1>1, <1>2, Seen DEF SeenRight
  <1>4. PICK d \in Root : d = Head(todo)
    BY <1>1 DEF FullInv, FoldersInv
  <1>5. TreeInv /\ WalkInv(d)
    BY <1>1, <1>4 DEF FullInv, FoldersInv
  <1>6. DueHere = (IF mode = "contents" /\ d \notin unlistable
                     THEN before \cap present \cap Within[d] ELSE {})
    BY <1>3, <1>4 DEF SeenInside, Within, Under
  <1>7. errorCount = 0 => DueHere = {}
    <2> SUFFICES ASSUME errorCount = 0, mode = "contents", d \notin unlistable
                 PROVE  before \cap present \cap Within[d] = {}
      BY <1>6
    <2>1. \A e \in before \cap present : ~Under(e, d)
      BY <1>1, <1>5, NothingLeft DEF WalkInv
    <2> QED  BY <2>1 DEF Within
  <1>8. Children(d) = {} => Within[d] \cap present = {}
    <2>1. \A e \in present : Under(e, d) => \E c \in Children(d) : e = c \/ Under(e, c)
      BY <1>5, UnderByChild DEF TreeInv
    <2> QED  BY <2>1 DEF Within
  <1>9. \/ UNCHANGED roots
        \/ tool \in {"clean_nvidia"} /\ Within[d] \cap present = {} /\ roots' = roots \ {d}
    BY <1>1, <1>4, <1>8 DEF Children
  <1>10. /\ Progress = "in a folder" /\ Progress' = "between folders"
         /\ ToolAtWork = tool /\ ToolAtWork' = tool
         /\ FoldersLeft = todo /\ FoldersLeft' = Tail(todo) /\ Head(FoldersLeft) = d
         /\ FailedBefore' = (FailedBefore \/ ErrorsHere > 0)
         /\ ErrorsHere = errorCount
         /\ DueHere' = {} /\ DeletedHere' = 0 /\ TakenHere' = {} /\ ErrorsHere' = 0
    BY <1>1, <1>3, <1>4 DEF SeenInside, SeenBetween, NotCounting
  <1>11. Promise!Finish
    BY <1>1, <1>7, <1>9, <1>10 DEF Promise!Finish
  <1> QED  BY <1>11 DEF Promise!Next

\* The list is done.
LEMMA PromiseEnd ==
    ASSUME FullInv, FoldersDone
    PROVE  Promise!Next
  <1>1. /\ pc = "folder" /\ todo = <<>> /\ pc' = "ended"
        /\ UNCHANGED <<tool, todo, failed, roots, present, unlistable>>
        /\ exit' = (IF failed THEN 1 ELSE 0)
    BY DEF FoldersDone, Exit, folderVars, treeVars
  <1>2. Busy /\ Busy'
    BY <1>1 DEF FullInv, PromiseInv, Busy
  <1>3. SeenBetween /\ SeenEnded'
    BY <1>1, <1>2, Seen DEF SeenRight
  <1>4. Ending' = (IF failed THEN "badly" ELSE "well")
    <2>1. 1 # 0 /\ 1 # -3
      OBVIOUS
    <2> QED  BY <1>1, <2>1 DEF Ending, Killed
  <1>5. Promise!End
    BY <1>1, <1>3, <1>4 DEF Promise!End, Promise!folderVars, SeenBetween, SeenEnded, NotCounting
  <1> QED  BY <1>5 DEF Promise!Next

\* The tool is killed.
LEMMA PromiseKill ==
    ASSUME Kill
    PROVE  Promise!Next \/ UNCHANGED Promise!vars
  <1>1. /\ pc \notin {"idle", "ended"} /\ pc' = "ended" /\ exit' = -3
        /\ UNCHANGED <<tool, todo, failed, roots, present, unlistable>>
    BY DEF Kill, Killed, folderVars, treeVars
  <1>2. CASE tool \in FolderTool
    <2>1. Busy /\ Busy' /\ SeenEnded'
      BY <1>1, <1>2, Seen DEF SeenRight, Busy
    <2>2. Ending' = "killed"
      <3>1. -3 # 0
        OBVIOUS
      <3> QED  BY <1>1, <3>1 DEF Ending, Killed
    <2>3. /\ Progress \in {"in a folder", "between folders"}
          /\ ToolAtWork = tool /\ FoldersLeft = todo /\ FailedBefore = failed
      BY <1>1, <2>1, Seen DEF SeenRight, SeenInside, SeenBetween, InFolder
    <2>4. Promise!Kill
      BY <1>1, <2>1, <2>2, <2>3 DEF Promise!Kill, Promise!Ended, SeenEnded, NotCounting
    <2> QED  BY <2>4 DEF Promise!Next
  <1>3. CASE tool \notin FolderTool
    BY <1>1, <1>3, NoFolderTool DEF Busy
  <1> QED  BY <1>2, <1>3

\* The run is reported.
LEMMA PromiseDismiss ==
    ASSUME Report
    PROVE  Promise!Next \/ UNCHANGED Promise!vars
  <1>1. pc = "ended" /\ pc' = "idle" /\ UNCHANGED <<tool, roots, present, unlistable>>
    BY DEF Report, ForgetWalk, treeVars
  <1>2. ~Busy'
    BY <1>1 DEF Busy
  <1>3. CASE tool \in FolderTool
    <2>1. SeenEnded /\ SeenIdle'
      BY <1>1, <1>2, <1>3, Seen DEF SeenRight, Busy
    <2>2. Ending \in {"well", "badly", "killed"}
      BY DEF Ending
    <2>3. Promise!Dismiss
      BY <1>1, <2>1, <2>2
         DEF Promise!Dismiss, Promise!NoTool, Promise!Ended, Promise!folderVars, SeenEnded,
             SeenIdle, NotCounting
    <2> QED  BY <2>3 DEF Promise!Next
  <1>4. CASE tool \notin FolderTool
    BY <1>1, <1>2, <1>4, NoFolderTool DEF Busy
  <1> QED  BY <1>3, <1>4

\* The other tools.
LEMMA PromiseOtherTools ==
    ASSUME FullInv,
           \/ DeleteShadows \/ ReduceMemory
           \/ Connect \/ SendLogin \/ LoginEcho \/ SendSync \/ SyncEcho
    PROVE  UNCHANGED Promise!vars
  <1>1. /\ tool' = tool /\ UNCHANGED <<roots, present, unlistable>>
        /\ \/ pc \in {"connected", "logging in", "logged in", "syncing"}
           \/ tool \in {"clean_restore_points", "clean_memory", "niccent_extension"}
    BY DEF DeleteShadows, ReduceMemory, Connect, SendLogin, LoginEcho, SendSync, SyncEcho,
           folderVars, treeVars
  <1>2. tool \in {"clean_restore_points", "clean_memory", "niccent_extension"}
    BY <1>1 DEF FullInv, ToolTypes
  <1>3. tool \notin FolderTool
    BY <1>2 DEF FolderTool
  <1> QED  BY <1>1, <1>3, NoFolderTool DEF Busy

\* Every step is a step of Cleaner or none.
LEMMA PromiseStep ==
    ASSUME FullInv, [Next]_vars
    PROVE  Promise!Next \/ UNCHANGED Promise!vars
  <1>1. CASE \E t \in ToolName : RunWithWait(t)
    BY <1>1, PromiseStart
  <1>2. CASE RunError \/ NotElevated \/ MissingFirst
    BY <1>2, PromiseRefuse
  <1>3. CASE BeginFolders \/ CleanFolderRefuses \/ SkipFolder \/ CleanFolder
    BY <1>3, PromiseBegin, PromisePassOver, PromiseEnter
  <1>4. CASE Walk \/ OthersAct \/ FolderDone \/ FoldersDone
    BY <1>4, PromiseWalk, PromiseOthers, PromiseFinish, PromiseEnd
  <1>5. CASE \/ DeleteShadows \/ ReduceMemory
             \/ Connect \/ SendLogin \/ LoginEcho \/ SendSync \/ SyncEcho
    BY <1>5, PromiseOtherTools
  <1>6. CASE Kill \/ Report
    BY <1>6, PromiseKill, PromiseDismiss
  <1>7. CASE Answer \/ Arrive \/ Lose \/ UNCHANGED vars
    <2>1. UNCHANGED folderVars /\ UNCHANGED <<tool, pc, todo, failed, exit>>
      BY <1>7 DEF Answer, Arrive, Lose, vars, toolVars
    <2> QED  BY <2>1, FoldersAlone
  <1> QED  BY <1>1, <1>2, <1>3, <1>4, <1>5, <1>6, <1>7 DEF Next, ToolStep

\* Before the first run.
LEMMA PromiseInit == Init => Promise!Init
  <1> SUFFICES ASSUME Init PROVE Promise!Init
    OBVIOUS
  <1>1. SeenIdle
    BY Seen DEF SeenRight, Busy, Init
  <1>2. roots \in SUBSET Root /\ unlistable \cap Root \in SUBSET Root /\ present \in SUBSET Entry
    BY DEF Init, FolderInit
  <1> QED  BY <1>1, <1>2 DEF Promise!Init, Promise!NoTool, SeenIdle, NotCounting

(* The folder tools do what Cleaner promises, for any folders, any tree and  *)
(* whatever others do to it meanwhile: DeleteDirectoryContents (common.h)    *)
(* and WalkAndDelete (clean_tmp_files.cpp) delete only in the folder they    *)
(* were called with, clean_tmp_files only what IsTargetFile lets through,    *)
(* and main returns 0 only if each folder of its list that was there was     *)
(* cleaned, without an error and with nothing left that was due.             *)
THEOREM ToolsImplementCleaner == Spec => ImplementsCleaner
  <1>1. Init => ToolTypes /\ PromiseInv
    BY ToolTypesInit DEF Init, PromiseInv
  <1>2. FullInv /\ [Next]_vars => ToolTypes' /\ PromiseInv'
    BY ToolTypesNext, PromiseNextInv DEF FullInv
  <1>3. Spec => []FullInv
    BY <1>1, <1>2, FoldersInvariance, PTL DEF FullInv, Spec
  <1>4. FullInv /\ [Next]_vars => [Promise!Next]_(Promise!vars)
    BY PromiseStep
  <1> QED  BY <1>3, <1>4, PromiseInit, PTL DEF Spec, ImplementsCleaner, Promise!Spec

=============================================================================
