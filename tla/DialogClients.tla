---------------------------- MODULE DialogClients ----------------------------
(***************************************************************************)
(* The dialog of module Dialog under arbitrary clients: any activation     *)
(* that is not already waiting for an answer may open any kind of dialog   *)
(* at any time, as the page's handlers (src/src/index.html) do after their *)
(* awaits.  This is the environment in which the dialog has to work.       *)
(***************************************************************************)
EXTENDS Dialog, FiniteSets

dvars == dialogVars

DInit == DialogInit

\* An asynchronous function reaches its promptDialog, confirmDialog or
\* alertDialog; a function suspended in one does not call another.
Open(c, mode) ==
    /\ c \notin waiting
    /\ showDialog(c, mode)

\* A click or a key calls closeDialog: it ends the dialog in the slot, if any.
Close ==
    /\ closeTimers < MaxCloseTimers
    /\ closeDialog

DNext ==
    \/ \E c \in Caller, mode \in Mode : Open(c, mode)
    \/ Close
    \/ CloseTimerFires

\* Timers fire; nobody is obliged to open or to answer a dialog.
DSpec == DInit /\ [][DNext]_dvars /\ WF_dvars(CloseTimerFires)

-----------------------------------------------------------------------------
\* The callers whose dialog was replaced before it was answered: their promise
\* can no longer be resolved by anybody, their function never resumes.
Abandoned == waiting \ {dialogResolve}

\* Every Enter listener left behind was left by an abandoned dialog: as long as
\* nobody overlaps, the listeners attached are those of the open dialog, and a
\* leak is never larger than the number of dialogs lost.
ListenersLeakOnlyByOverlap ==
    windowListeners + inputListeners <=
        One(windowKeyHandler) + One(keyHandler) + Cardinality(Abandoned)

\* A prompt or a confirmation offers Cancel, unless an unanswered alert was
\* replaced by it (the alert hides the button, input mode does not restore it).
CancelOffered ==
    dialogResolve # NoCaller /\ dialogMode # "alert" /\ Abandoned = {}
        => cancelShown

\* Once closed, the overlay stops covering the page (or the next dialog opens):
\* the pointer comes back.
PointerComesBack ==
    (overlayShown /\ dialogResolve = NoCaller)
        ~> (~overlayShown \/ dialogResolve # NoCaller)

=============================================================================
