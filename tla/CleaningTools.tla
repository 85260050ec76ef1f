---------------------------- MODULE CleaningTools ----------------------------
(***************************************************************************)
(* One tool of src/src-tauri/Tools after the other, from run_with_wait     *)
(* (src/src-tauri/src/lib.rs) to the verdict of parseOutput                *)
(* (src/src/index.html): the folder tools by module FolderWalk, the        *)
(* NiCCent extension by module SyncSession, the others by what they print. *)
(*                                                                         *)
(* run_with_wait hands over what was printed and not the exit code, so the *)
(* verdict is a reading of the text.  A line is known by its meaning, and  *)
(* the order of the lines makes no difference to the verdict.              *)
(***************************************************************************)
EXTENDS FolderWalk, SyncSession

CONSTANTS CDrive,       \* the root clean_tmp_files scans
          Folders       \* the folders each folder tool cleans, in order

VARIABLES
    admin,      \* IsAdmin(), for the tools
    tool,       \* the tool that runs, or ran last
    pc,         \* where it is
    todo,       \* the folders it has yet to clean
    failed,     \* overallResult # 0, or totalErrors > 0
    out,        \* the lines it has printed
    exit,       \* its exit code
    verdict,    \* what parseOutput makes of them
    server      \* what happened at the server: "silent", "accepted" or "refused"
                \* the sync request, "trouble" if a reply was cut or lost

ASSUME CDriveAssumption == CDrive \in Root

ASSUME RequestAssumption == Request = {"login", "sync var"}

toolVars == <<admin, tool, pc, todo, failed, out, exit, verdict, server>>
vars == <<folderVars, sessionVars, toolVars>>

\* One for all that only call CleanFolder: prefetch, system_logs, windows_temp,
\* windows_update_cache.
FolderTool == {"clean_folder", "clean_browser_cache", "clean_nvidia", "clean_tmp_files"}

ASSUME FoldersAssumption == Folders \in [FolderTool -> Seq(Root)]

ToolName == FolderTool \cup {"clean_memory", "clean_restore_points", "niccent_extension"}

\* The lines parseOutput takes for a failure, and the others.
FailureLine == {"run error", "administrator required", "no environment",
                "path does not exist", "deleted, with errors", "shadows not deleted",
                "memreduct not launched"}
OtherLine == {"cleaning", "scanning", "detected", "deleted, no errors", "deleted file",
              "shadows deleted", "memory released", "memreduct not found", "no pipe",
              "not detected", "no server", "not synced"}

\* Of the latter, what is printed by a tool that then returns 1 or 2.
SilentFailure == {"memreduct not found", "no pipe", "not detected", "no server", "not synced"}

\* What stands for an exit code while there is none, and of a process that was
\* not started or was killed.
NotYet == -1
NotRun == -2
Killed == -3

Echo == {"error", "value", "part", NoEcho}

ToolsTypeOK ==
    /\ FolderTypeOK
    /\ SessionTypeOK
    /\ admin \in BOOLEAN
    /\ tool \in ToolName
    /\ pc \in {"idle", "start", "folder", "walk", "connected", "logging in",
              "logged in", "syncing", "ended"}
    /\ todo \in Seq(Root)
    /\ failed \in BOOLEAN
    /\ out \subseteq FailureLine \cup OtherLine
    /\ exit \in -3..2
    /\ exit = 2 => tool = "niccent_extension"
    /\ verdict \in {"none", "done", "error"}
    /\ server \in {"silent", "accepted", "refused", "trouble"}

Init ==
    /\ FolderInit
    /\ CDrive \in roots
    /\ SessionClosed
    /\ admin \in BOOLEAN
    /\ tool = "clean_folder"
    /\ pc = "idle"
    /\ todo = <<>>
    /\ failed = FALSE
    /\ out = {}
    /\ exit = NotYet
    /\ verdict = "none"
    /\ server = "silent"

-----------------------------------------------------------------------------
\* The process ends, having printed lines.
Exit(code, lines) ==
    /\ pc' = "ended"
    /\ exit' = code
    /\ out' = out \cup lines

\* run_with_wait(path).
RunWithWait(t) ==
    /\ pc = "idle"
    /\ tool' = t
    /\ pc' = "start"
    /\ todo' = IF t \in FolderTool THEN Folders[t] ELSE <<>>
    /\ failed' = FALSE
    /\ out' = {}
    /\ exit' = NotYet
    /\ verdict' = "none"
    /\ server' = "silent"
    /\ UNCHANGED <<folderVars, sessionVars, admin>>

\* The program is not there or may not be started: run_with_wait is rejected.
RunError ==
    /\ pc = "start"
    /\ Exit(NotRun, {"run error"})
    /\ UNCHANGED <<folderVars, sessionVars, admin, tool, todo, failed, verdict, server>>

\* The tools that look for elevation first and find none.  CleanFolder looks
\* too, for the others.
NotElevated ==
    /\ pc = "start"
    /\ ~admin
    /\ tool \notin {"clean_folder", "clean_browser_cache", "niccent_extension"}
    /\ Exit(1, {"administrator required"})
    /\ UNCHANGED <<folderVars, sessionVars, admin, tool, todo, failed, verdict, server>>

-----------------------------------------------------------------------------
(* The folder tools.                                                       *)

\* What is found missing before the first folder: LOCALAPPDATA, NVIDIA's App.
MissingFirst ==
    /\ pc = "start"
    /\ \/ tool = "clean_browser_cache" /\ Exit(1, {"no environment"})
       \/ tool = "clean_nvidia" /\ admin /\ Exit(1, {"not detected"})
    /\ UNCHANGED <<folderVars, sessionVars, admin, tool, todo, failed, verdict, server>>

BeginFolders ==
    /\ pc = "start"
    /\ tool \in FolderTool
    /\ admin \/ tool \in {"clean_folder", "clean_browser_cache"}
    /\ pc' = "folder"
    /\ out' = out \cup {CASE tool = "clean_nvidia" -> "detected"
                          [] tool = "clean_tmp_files" -> "scanning"
                          [] OTHER -> "cleaning"}
    /\ UNCHANGED <<folderVars, sessionVars, admin, tool, todo, failed, exit, verdict, server>>

\* CleanFolder returns 1 at once: not elevated, or no such folder.
CleanFolderRefuses ==
    /\ pc = "folder"
    /\ todo # <<>>
    /\ tool \in {"clean_folder", "clean_browser_cache"}
    /\ ~admin \/ ~Exists(Head(todo))
    /\ out' = out \cup {IF admin THEN "path does not exist" ELSE "administrator required"}
    /\ failed' = TRUE
    /\ todo' = Tail(todo)
    /\ UNCHANGED <<folderVars, sessionVars, admin, tool, pc, exit, verdict, server>>

\* clean_nvidia passes over the folders there are not.
SkipFolder ==
    /\ pc = "folder"
    /\ todo # <<>>
    /\ tool = "clean_nvidia"
    /\ ~Exists(Head(todo))
    /\ todo' = Tail(todo)
    /\ UNCHANGED <<folderVars, sessionVars, admin, tool, pc, failed, out, exit, verdict, server>>

CleanFolder ==
    /\ pc = "folder"
    /\ todo # <<>>
    /\ admin
    /\ Exists(Head(todo))
    /\ StartWalk(Head(todo), IF tool = "clean_tmp_files" THEN "targets" ELSE "contents")
    /\ pc' = "walk"
    /\ UNCHANGED <<sessionVars, admin, tool, todo, failed, out, exit, verdict, server>>

\* A step of the walk; clean_tmp_files prints each file it deletes.
Walk ==
    /\ pc = "walk"
    /\ WalkStep
    /\ out' = out \cup (IF tool = "clean_tmp_files" /\ fileCount' > fileCount
                          THEN {"deleted file"} ELSE {})
    /\ UNCHANGED <<sessionVars, admin, tool, pc, todo, failed, exit, verdict, server>>

DeletedLine(errors) == IF errors THEN "deleted, with errors" ELSE "deleted, no errors"

\* overallResult = 1, and totalErrors += g_errorCount.
OverallLast == failed' = (errorCount > 0)
Overall == failed' = (failed \/ errorCount > 0)

\* The walk is over: the counters are printed and cleared by what comes next,
\* or added up by clean_nvidia, which then removes the folder itself, counting
\* neither that nor its failure.
FolderDone ==
    /\ pc = "walk"
    /\ ~Walking
    /\ Overall
    /\ out' = out \cup (IF tool = "clean_nvidia" THEN {} ELSE {DeletedLine(errorCount > 0)})
    /\ \/ UNCHANGED roots
       \/ /\ tool = "clean_nvidia"
          /\ Children(Head(todo)) = {}
          /\ roots' = roots \ {Head(todo)}
    /\ todo' = Tail(todo)
    /\ pc' = "folder"
    /\ UNCHANGED <<present, inUse, unlistable, walkVars, ghostVars>>
    /\ UNCHANGED <<sessionVars, admin, tool, exit, verdict, server>>

\* The number of errors is returned.
FoldersDoneErrors ==
    /\ pc = "folder"
    /\ todo = <<>>
    /\ Exit(errorCount, IF tool = "clean_nvidia" THEN {DeletedLine(failed)} ELSE {})
    /\ UNCHANGED <<folderVars, sessionVars, admin, tool, todo, failed, verdict, server>>

FoldersDone ==
    /\ pc = "folder"
    /\ todo = <<>>
    /\ Exit(IF failed THEN 1 ELSE 0,
            IF tool = "clean_nvidia" THEN {DeletedLine(failed)} ELSE {})
    /\ UNCHANGED <<folderVars, sessionVars, admin, tool, todo, failed, verdict, server>>

-----------------------------------------------------------------------------
(* The tools that run another program.                                     *)

\* clean_restore_points: vssadmin's result.
DeleteShadows ==
    /\ pc = "start"
    /\ tool = "clean_restore_points"
    /\ admin
    /\ \/ Exit(0, {"cleaning", "shadows deleted"})
       \/ Exit(1, {"cleaning", "shadows not deleted"})
    /\ UNCHANGED <<folderVars, sessionVars, admin, tool, todo, failed, verdict, server>>

\* clean_memory: memreduct-cli.exe is missing, the pipe or the process cannot be
\* made, or it runs, and then whatever it prints is passed on and 0 returned.
ReduceMemory ==
    /\ pc = "start"
    /\ tool = "clean_memory"
    /\ admin
    /\ \/ \E line \in {"memreduct not found", "no pipe", "memreduct not launched"} : Exit(1, {line})
       \/ \E lines \in SUBSET {"memory released"} : Exit(0, lines)
    /\ UNCHANGED <<folderVars, sessionVars, admin, tool, todo, failed, verdict, server>>

-----------------------------------------------------------------------------
(* niccent_extension.                                                      *)

Connect ==
    /\ pc = "start"
    /\ tool = "niccent_extension"
    /\ \/ /\ Connected
          /\ pc' = "connected"
          /\ UNCHANGED <<out, exit>>
       \/ /\ Exit(1, {"no server"})
          /\ UNCHANGED sessionVars
    /\ UNCHANGED <<folderVars, admin, tool, todo, failed, verdict, server>>

\* The echo of the login is not waited for.
LoginNotAwaited ==
    /\ pc = "connected"
    /\ \/ WriteRequest("login")
       \/ SendFails(NoEcho)
    /\ pc' = "logged in"
    /\ UNCHANGED <<folderVars, admin, tool, todo, failed, out, exit, verdict, server>>

\* Whatever echo the login gets is dropped, the empty string of a failure too.
SendLogin ==
    /\ pc = "connected"
    /\ \/ WriteRequest("login") /\ pc' = "logging in"
       \/ SendFails(NoEcho) /\ pc' = "logged in"
    /\ UNCHANGED <<folderVars, admin, tool, todo, failed, out, exit, verdict, server>>

LoginEcho ==
    /\ pc = "logging in"
    /\ \E echo \in Echo : ReadSome(echo) \/ SendFails(echo)
    /\ pc' = "logged in"
    /\ UNCHANGED <<folderVars, admin, tool, todo, failed, out, exit, verdict, server>>

\* main's last lines: only an echo that begins with [ERROR] is a failure.
Judge(echo) ==
    IF echo = "error" THEN Exit(2, {"not synced"}) ELSE Exit(0, {})

SendSync ==
    /\ pc = "logged in"
    /\ \/ /\ WriteRequest("sync var")
          /\ pc' = "syncing"
          /\ UNCHANGED <<out, exit>>
       \/ /\ SendFails(NoEcho)
          /\ Judge(NoEcho)
    /\ UNCHANGED <<folderVars, admin, tool, todo, failed, verdict, server>>

\* A lost connection is not noticed.
SyncEchoWaits ==
    /\ pc = "syncing"
    /\ \E echo \in Echo : ReadSome(echo) /\ Judge(echo)
    /\ UNCHANGED <<folderVars, admin, tool, todo, failed, verdict, server>>

SyncEcho ==
    /\ pc = "syncing"
    /\ \E echo \in Echo : (ReadSome(echo) \/ SendFails(echo)) /\ Judge(echo)
    /\ UNCHANGED <<folderVars, admin, tool, todo, failed, verdict, server>>

\* The server answers the oldest request, for or against it.
Answer ==
    /\ \E kind \in {"value", "error"} :
         /\ ServerAnswers(kind)
         /\ server' = IF server = "trouble" \/ Len(wire') > Len(wire) + 1 THEN "trouble"
                       ELSE IF Head(asked) = "login" THEN server
                       ELSE IF kind = "value" THEN "accepted"
                       ELSE "refused"
    /\ UNCHANGED <<folderVars, admin, tool, pc, todo, failed, out, exit, verdict>>

Arrive ==
    /\ SegmentArrives
    /\ UNCHANGED <<folderVars, toolVars>>

Lose ==
    /\ ConnectionLost
    /\ server' = "trouble"
    /\ UNCHANGED <<folderVars, admin, tool, pc, todo, failed, out, exit, verdict>>

-----------------------------------------------------------------------------
(* The end of a run.                                                       *)

\* Killed from outside: the lines not yet flushed are lost.
Kill ==
    /\ pc \notin {"idle", "ended"}
    /\ pc' = "ended"
    /\ exit' = Killed
    /\ out' \in SUBSET out
    /\ UNCHANGED <<folderVars, sessionVars, admin, tool, todo, failed, verdict, server>>

\* parseOutput: success unless a line says otherwise.
parseOutput(lines) == IF lines \cap FailureLine = {} THEN "done" ELSE "error"

\* The process has ended and its socket is closed; run_with_wait returns the
\* text, or is rejected, and processQueue has it parsed.
Report ==
    /\ pc = "ended"
    /\ pc' = "idle"
    /\ verdict' = parseOutput(out)
    /\ todo' = <<>>
    /\ failed' = FALSE
    /\ ForgetWalk
    /\ Disconnected
    /\ UNCHANGED <<admin, tool, out, exit, server>>

ToolStep ==
    \/ RunError \/ NotElevated
    \/ MissingFirst \/ BeginFolders \/ CleanFolderRefuses \/ SkipFolder
    \/ CleanFolder \/ Walk \/ FolderDone \/ FoldersDone
    \/ DeleteShadows \/ ReduceMemory
    \/ Connect \/ SendLogin \/ LoginEcho \/ SendSync \/ SyncEcho
    \/ Report

\* Other processes count while a folder is walked: before that, what they do
\* leads to a tree that is an initial state.
OthersAct ==
    /\ pc = "walk"
    /\ Others
    /\ UNCHANGED <<sessionVars, toolVars>>

Next ==
    \/ \E t \in ToolName : RunWithWait(t)
    \/ ToolStep
    \/ Kill
    \/ Answer \/ Arrive \/ Lose
    \/ OthersAct

(* A process that can go on does, and a server that was asked answers: there *)
(* is no timeout in send_message, so nothing but the answer or a lost        *)
(* connection ends the wait for it.                                          *)
Fairness ==
    /\ WF_vars(ToolStep)
    /\ WF_vars(Answer)
    /\ WF_vars(Arrive)

Spec == Init /\ [][Next]_vars /\ Fairness

-----------------------------------------------------------------------------
(* Properties.                                                             *)

(* A folder that could be listed and was cleaned without an error holds      *)
(* nothing it held before: an entry that could not be deleted, was deleted   *)
(* by another just before or hid in a directory that cannot be listed is     *)
(* counted somewhere on the way up (DeleteDirectoryContents says nothing of  *)
(* a listing that fails).                                                    *)
CleanIsClean ==
    pc = "walk" /\ ~Walking /\ mode = "contents" /\ errorCount = 0
        /\ Head(todo) \notin unlistable
    => \A e \in before \cap present : ~Under(e, Head(todo))

(* The counters balance at every moment of a walk: what was there or came,   *)
(* less what others took and what is left, is what was counted as deleted;   *)
(* and no entry is counted twice, as deleted and as an error, or as two.     *)
LedgerBalances ==
    pc = "walk" =>
        /\ fileCount + dirCount = Cardinality((before \cup created) \ (vanished \cup present))
        /\ fileCount + dirCount + errorCount <= Cardinality(before \cup created)

(* The verdict read from the text is the exit code's, unless the tool was    *)
(* killed or its only word of failure is one the parser does not know; and   *)
(* no verdict of failure is given to a tool that returned 0.                 *)
VerdictMatchesExit ==
    /\ verdict = "error" => exit # 0
    /\ verdict = "done" => \/ exit \in {0, Killed}
                           \/ out \cap SilentFailure # {}

(* The extension's exit code is the server's answer: 2 only if the request   *)
(* was refused, and 0 only if it was accepted, as long as no reply is cut in *)
(* two and the connection stands.                                            *)
SyncReported ==
    tool = "niccent_extension" /\ pc \in {"ended", "idle"} =>
        /\ exit = 2 => server \in {"refused", "trouble"}
        /\ exit = 0 => server \in {"accepted", "trouble"}

\* A folder tool at work, from run_with_wait to the report, and what module
\* Cleaner sees of it.
Busy == tool \in FolderTool /\ pc # "idle"

InFolder == Busy /\ pc = "walk"

Within == [r \in Root |-> {e \in Entry : Under(e, r)}]

Ending == IF exit = 0 THEN "well" ELSE IF exit = Killed THEN "killed" ELSE "badly"

Progress ==
    IF ~Busy THEN "idle"
    ELSE IF pc = "walk" THEN "in a folder"
    ELSE IF pc = "ended" THEN Ending
    ELSE "between folders"

ToolAtWork == IF Busy THEN tool ELSE "none"
FoldersLeft == IF Busy THEN todo ELSE <<>>
FailedBefore == IF Busy THEN failed ELSE FALSE
DeletedHere == IF InFolder THEN fileCount + dirCount ELSE 0
TakenHere == IF InFolder THEN vanished ELSE {}
ErrorsHere == IF InFolder THEN errorCount ELSE 0
DueHere ==
    IF InFolder /\ mode = "contents" /\ Head(todo) \notin unlistable
      THEN before \cap present \cap Within[Head(todo)]
      ELSE {}

Promise == INSTANCE Cleaner WITH
    Within <- Within,
    Tool <- FolderTool,
    Selective <- {"clean_tmp_files"},
    Lenient <- {"clean_nvidia"},
    Thorough <- {"clean_nvidia"},
    List <- Folders,
    sealed <- unlistable \cap Root,
    entries <- present,
    tool <- ToolAtWork,
    state <- Progress,
    left <- FoldersLeft,
    due <- DueHere,
    deleted <- DeletedHere,
    taken <- TakenHere,
    errors <- ErrorsHere,
    failed <- FailedBefore

(* The folder tools, with their searches, their counters and everybody else  *)
(* in the tree, do what module Cleaner promises: they delete only in the     *)
(* folder they have come to, clean_tmp_files only its targets, and return 0  *)
(* only if each folder there was on their list has been cleaned.             *)
ImplementsCleaner == Promise!Spec

(* Every run is reported, whatever other processes do to the tree, if the    *)
(* server answers.                                                           *)
RunsAreReported == pc # "idle" ~> pc = "idle"

(* The page's log counts as succeeded only tools that succeeded.             *)
FailureSeen == verdict = "done" => exit \in {0, Killed}

=============================================================================
