------------------------------- MODULE Dialog -------------------------------
(***************************************************************************)
(* The one modal dialog of the page (src/src/index.html, 1602-1713).       *)
(* showDialog returns a promise and keeps its resolve function in ONE      *)
(* global slot, window._dialogResolve; closeDialog resolves whatever the   *)
(* slot holds and hides the overlay 180 ms later.  Any asynchronous        *)
(* function of the page may call showDialog at any time, so a second call  *)
(* may find the slot taken, or a hide timer of the dialog before pending.  *)
(*                                                                         *)
(* This module holds the state and the two functions; DialogClients,       *)
(* CleanRun and Presets compose them with the functions that call them.    *)
(***************************************************************************)
EXTENDS Naturals

CONSTANTS
    Caller,     \* the asynchronous activations that may await a dialog
    NoCaller,   \* dialogResolve = null
    MaxCloseTimers   \* bound: closings within one 180 ms window

ASSUME NoCallerAssumption == NoCaller \notin Caller

VARIABLES
    dialogResolve,     \* window._dialogResolve: whose promise the slot resolves
    dialogMode,        \* window._dialogMode, "alert" = confirm with okOnly
    dialogClosing,     \* window._dialogClosing
    overlayShown,      \* the overlay has class 'show': visible, takes the pointer
    cancelShown,       \* the Cancel button is displayed
    closeTimers,       \* pending 180 ms timers of closeDialog
    windowKeyHandler,  \* window._dialogWindowKeyHandler is not null
    windowListeners,   \* Enter listeners attached to window
    keyHandler,        \* window._dialogKeyHandler is not null
    inputListeners,    \* Enter listeners attached to the dialog's input
    waiting            \* the callers whose showDialog promise is pending

dialogVars == <<dialogResolve, dialogMode, dialogClosing, overlayShown,
                cancelShown, closeTimers, windowKeyHandler, windowListeners,
                keyHandler, inputListeners, waiting>>

Mode == {"alert", "confirm", "input"}

DialogTypeOK ==
    /\ dialogResolve \in Caller \cup {NoCaller}
    /\ dialogMode \in Mode
    /\ dialogClosing \in BOOLEAN
    /\ overlayShown \in BOOLEAN
    /\ cancelShown \in BOOLEAN
    /\ closeTimers \in Nat
    /\ windowKeyHandler \in BOOLEAN
    /\ windowListeners \in Nat
    /\ keyHandler \in BOOLEAN
    /\ inputListeners \in Nat
    /\ waiting \in SUBSET Caller

DialogInit ==
    /\ dialogResolve = NoCaller
    /\ dialogMode = "confirm"
    /\ dialogClosing = FALSE
    /\ overlayShown = FALSE
    /\ cancelShown = TRUE
    /\ closeTimers = 0
    /\ windowKeyHandler = FALSE
    /\ windowListeners = 0
    /\ keyHandler = FALSE
    /\ inputListeners = 0
    /\ waiting = {}

\* A restarted page: the timers and listeners are gone with the old one.
DialogReset ==
    /\ dialogResolve' = NoCaller
    /\ dialogMode' = "confirm"
    /\ dialogClosing' = FALSE
    /\ overlayShown' = FALSE
    /\ cancelShown' = TRUE
    /\ closeTimers' = 0
    /\ windowKeyHandler' = FALSE
    /\ windowListeners' = 0
    /\ keyHandler' = FALSE
    /\ inputListeners' = 0
    /\ waiting' = {}

One(b) == IF b THEN 1 ELSE 0

-----------------------------------------------------------------------------
\* showDialog(options), called by c.  The slots are overwritten whatever they
\* held: a listener of an unanswered dialog stays attached, its caller stays
\* in waiting.  Input mode does not touch the Cancel button's display.
showDialog(c, mode) ==
    /\ dialogResolve' = c
    /\ dialogMode' = mode
    /\ dialogClosing' = FALSE
    /\ overlayShown' = TRUE
    /\ cancelShown' = (mode = "confirm" \/ (mode = "input" /\ cancelShown))
    /\ windowKeyHandler' = (mode = "alert")
    /\ windowListeners' = windowListeners + One(mode = "alert")
    /\ keyHandler' = (mode = "input")
    /\ inputListeners' = inputListeners + One(mode = "input")
    /\ waiting' = waiting \cup {c}
    /\ UNCHANGED closeTimers

\* closeDialog(result), its parts: the Cancel button is displayed again; the
\* listeners the slots hold are detached and the slots emptied; the hide timer is
\* armed unless one is armed for this closing; the promise in the slot is
\* resolved.  (What the answer makes its caller do is in the caller's module.)
CancelNotRestored == UNCHANGED cancelShown

RestoreCancel == cancelShown' = TRUE

DetachUnconditional ==
    /\ windowKeyHandler' = FALSE
    /\ windowListeners' = windowListeners - 1
    /\ keyHandler' = FALSE
    /\ inputListeners' = inputListeners - 1

DetachNothing ==
    /\ windowKeyHandler' = FALSE
    /\ keyHandler' = FALSE
    /\ UNCHANGED <<windowListeners, inputListeners>>

DetachKeepsSlots ==
    /\ windowListeners' = windowListeners - One(windowKeyHandler)
    /\ inputListeners' = inputListeners - One(keyHandler)
    /\ UNCHANGED <<windowKeyHandler, keyHandler>>

DetachListeners ==
    /\ windowKeyHandler' = FALSE
    /\ windowListeners' = windowListeners - One(windowKeyHandler)
    /\ keyHandler' = FALSE
    /\ inputListeners' = inputListeners - One(keyHandler)

ArmOnlyIfResolving ==
    /\ dialogClosing' = TRUE
    /\ closeTimers' = closeTimers + One(~dialogClosing /\ dialogResolve # NoCaller)

ArmCloseTimer ==
    /\ dialogClosing' = TRUE
    /\ closeTimers' = closeTimers + One(~dialogClosing)

ResolveSlot ==
    /\ dialogResolve' = NoCaller
    /\ waiting' = waiting \ {dialogResolve}

\* It may be called at any time: by a click while the overlay is shown, by Enter
\* in whatever listeners are attached, and with the keyboard by the OK and Cancel
\* buttons, which a hidden overlay (opacity 0) leaves focusable.
closeDialog ==
    /\ RestoreCancel
    /\ DetachListeners
    /\ ArmCloseTimer
    /\ ResolveSlot
    /\ UNCHANGED <<dialogMode, overlayShown>>

\* The 180 ms timer: finishDialogClose, whichever dialog is on screen by then.
ClosingClassOnly == UNCHANGED overlayShown

finishDialogClose == overlayShown' = FALSE

CloseTimerFires ==
    /\ closeTimers > 0
    /\ closeTimers' = closeTimers - 1
    /\ finishDialogClose
    /\ dialogClosing' = FALSE
    /\ UNCHANGED <<dialogResolve, dialogMode, cancelShown, windowKeyHandler,
                   windowListeners, keyHandler, inputListeners, waiting>>

-----------------------------------------------------------------------------
(* What the dialog's state satisfies under every use of it. *)

\* The slot's owner is waiting, and the key-handler slots are those of its
\* dialog and of nothing else: an unanswered alert or prompt always hears Enter,
\* whether the overlay shows it or not, and a closed dialog has no handler.
SlotMatchesDialog ==
    /\ dialogResolve # NoCaller => dialogResolve \in waiting
    /\ windowKeyHandler <=> (dialogResolve # NoCaller /\ dialogMode = "alert")
    /\ keyHandler <=> (dialogResolve # NoCaller /\ dialogMode = "input")
    /\ windowKeyHandler => windowListeners > 0
    /\ keyHandler => inputListeners > 0

\* The overlay covers the whole page and takes every click: when nobody's
\* dialog is open, a shown overlay has a timer pending that will hide it, and
\* _dialogClosing never stays true without one (it would disarm every later
\* close).
OverlayWillClear ==
    /\ (overlayShown /\ dialogResolve = NoCaller) => closeTimers > 0
    /\ dialogClosing => closeTimers > 0

=============================================================================
