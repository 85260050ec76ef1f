-------------------------------- MODULE Pump --------------------------------
(***************************************************************************)
(* StartProcess of src/src-tauri/Tools/Coly.hpp as built for Windows: a    *)
(* process started without waiting, and the detached thread that prints    *)
(* what the process writes into a pipe.  The process, and what it starts   *)
(* itself, are external.  Bytes are counted, not told apart.               *)
(***************************************************************************)
EXTENDS Integers

CONSTANTS
    Buffer,     \* sizeof(buffer) - 1
    MaxWritten  \* a bound on what is written

ASSUME PumpAssumption == Buffer \in Nat \ {0} /\ MaxWritten \in Nat

VARIABLES
    process,    \* "none", "alive", or how it ended: "exited", or "exited 259"
                \* with the code that is also STILL_ACTIVE
    heir,       \* a process it has started holds the pipe's write end too
    written,    \* the bytes written
    taken,      \* the bytes read and printed
    pump        \* where the thread is: "none", "peek", "check", "ended"

pumpVars == <<process, heir, written, taken, pump>>

PumpTypeOK ==
    /\ process \in {"none", "alive", "exited", "exited 259"}
    /\ heir \in BOOLEAN
    /\ written \in 0..MaxWritten
    /\ taken \in 0..written
    /\ pump \in {"none", "peek", "check", "ended"}

PumpInit ==
    /\ process = "none"
    /\ heir = FALSE
    /\ written = 0 /\ taken = 0
    /\ pump = "none"

Exited == process \in {"exited", "exited 259"}

\* StartProcess: without a pipe or a process it returns, and nobody is told.
StartProcess ==
    \/ /\ process' = "alive"
       /\ heir' = FALSE
       /\ written' = 0 /\ taken' = 0
       /\ pump' = "peek"
    \/ UNCHANGED pumpVars

\* The thread's process ends, and the thread with it.
PumpKilled ==
    /\ pump' = "none"
    /\ UNCHANGED <<process, heir, written, taken>>

-----------------------------------------------------------------------------
(* The process.                                                            *)

Writes ==
    /\ process = "alive" \/ heir
    /\ written < MaxWritten
    /\ written' = written + 1
    /\ UNCHANGED <<process, heir, taken, pump>>

Inherits ==
    /\ process = "alive" /\ ~heir
    /\ heir' = TRUE
    /\ UNCHANGED <<process, written, taken, pump>>

HeirEnds ==
    /\ heir
    /\ heir' = FALSE
    /\ UNCHANGED <<process, written, taken, pump>>

Exits ==
    /\ process = "alive"
    /\ process' \in {"exited", "exited 259"}
    /\ UNCHANGED <<heir, written, taken, pump>>

-----------------------------------------------------------------------------
(* The thread's loop.                                                      *)

\* PeekNamedPipe, and ReadFile of no more than the buffer holds.
PeekRead ==
    /\ pump = "peek"
    /\ written > taken
    /\ taken' = IF written - taken <= Buffer THEN written ELSE taken + Buffer
    /\ pump' = "check"
    /\ UNCHANGED <<process, heir, written>>

\* Nothing is there: with no write end open the peek fails, and the loop is left.
PeekWaits ==
    /\ pump = "peek"
    /\ written = taken
    /\ pump' = "check"
    /\ UNCHANGED <<process, heir, written, taken>>

PeekNothing ==
    /\ pump = "peek"
    /\ written = taken
    /\ pump' = IF Exited /\ ~heir THEN "ended" ELSE "check"
    /\ UNCHANGED <<process, heir, written, taken>>

\* GetExitCodeProcess: whatever is in the pipe by now stays there.
CheckExit ==
    /\ pump = "check"
    /\ pump' = IF process = "exited" THEN "ended" ELSE "peek"
    /\ UNCHANGED <<process, heir, written, taken>>

PumpStep == PeekRead \/ PeekNothing \/ CheckExit

ProcessStep == Writes \/ Inherits \/ HeirEnds \/ Exits

(* The thread ends after its process, whichever code it exits with, unless   *)
(* that code is taken for STILL_ACTIVE while another holds the pipe open.    *)
PumpEnds == Exited /\ (process = "exited" \/ ~heir) ~> pump \in {"none", "ended"}

=============================================================================
