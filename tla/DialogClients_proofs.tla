------------------------ MODULE DialogClients_proofs ------------------------
(***************************************************************************)
(* The dialog under arbitrary clients: the invariants of Dialog_proofs as  *)
(* theorems of DSpec.                                                      *)
(***************************************************************************)
EXTENDS DialogClients, Dialog_proofs, FiniteSetTheorems

\* Every step of the clients keeps the dialog's invariant.
LEMMA DialogStepInv == DialogInv /\ [DNext]_dvars => DialogInv'
<1> SUFFICES ASSUME DialogInv, [DNext]_dvars PROVE DialogInv'
  OBVIOUS
<1>1. ASSUME NEW c \in Caller, NEW mode \in Mode, Open(c, mode) PROVE DialogInv'
  BY <1>1, ShowDialogInv DEF Open
<1>2. CASE Close
  BY <1>2, CloseDialogInv DEF Close
<1>3. CASE CloseTimerFires
  BY <1>3, CloseTimerInv
<1>4. CASE UNCHANGED dvars
  BY <1>4, DialogUnchangedInv DEF dvars
<1> QED BY <1>1, <1>2, <1>3, <1>4 DEF DNext

\* The state of the dialog keeps its type, the slots keep describing the open
\* dialog, and the overlay never covers the page without a timer to clear it,
\* however many functions open dialogs in whatever order.
THEOREM DialogInvariance == DSpec => [](DialogTypeOK /\ SlotMatchesDialog /\ OverlayWillClear)
<1>1. DInit => DialogInv
  BY DialogInitInv DEF DInit
<1> QED BY <1>1, DialogStepInv, PTL DEF DSpec, DialogInv

-----------------------------------------------------------------------------
(* Leaks and the Cancel button.  Both speak of the dialogs that were lost, *)
(* so they rest on what a client is: it opens no dialog while it waits.    *)

\* Only the kind of dialog in the slot has a handler, so at most one is set, and
\* none while the slot is empty.
LEMMA OneHandler ==
    ASSUME DialogInv
    PROVE  /\ One(windowKeyHandler) + One(keyHandler) \in {0, 1}
           /\ dialogResolve = NoCaller => One(windowKeyHandler) + One(keyHandler) = 0
  BY DEF DialogInv, SlotMatchesDialog, DialogTypeOK, One

\* The callers whose dialog is lost, or is about to be when another opens one.
LEMMA AbandonedCount ==
    ASSUME DialogInv, IsFiniteSet(waiting)
    PROVE  /\ Cardinality(waiting) \in Nat
           /\ IsFiniteSet(Abandoned)
           /\ Cardinality(Abandoned) =
                IF dialogResolve = NoCaller THEN Cardinality(waiting) ELSE Cardinality(waiting) - 1
<1>1. dialogResolve \in waiting <=> dialogResolve # NoCaller
  BY NoCallerAssumption DEF DialogInv, SlotMatchesDialog, DialogTypeOK
<1> QED BY <1>1, FS_RemoveElement, FS_CardinalityType DEF Abandoned

\* What is needed beside DialogInv: the callers waiting can be counted, and a
\* closed dialog has its Cancel button back.
LostInv ==
    /\ IsFiniteSet(waiting)
    /\ ListenersLeakOnlyByOverlap
    /\ dialogResolve = NoCaller => cancelShown
    /\ CancelOffered

\* A dialog is opened: whoever was in the slot is abandoned, with its listener.
LEMMA OpenLost ==
    ASSUME DialogInv, LostInv, NEW c \in Caller, NEW mode \in Mode, Open(c, mode)
    PROVE  LostInv'
<1>1. dialogResolve' = c /\ waiting' = waiting \cup {c} /\ c \notin waiting /\ c # NoCaller
  BY NoCallerAssumption DEF Open, showDialog
<1>2. Abandoned' = waiting
  BY <1>1 DEF Abandoned
<1>3. IsFiniteSet(waiting')
  BY <1>1, FS_AddElement DEF LostInv
<1>4. ListenersLeakOnlyByOverlap'
  <2>1. windowListeners + inputListeners <= Cardinality(waiting)
    BY OneHandler, AbandonedCount DEF LostInv, ListenersLeakOnlyByOverlap, DialogInv, DialogTypeOK
  <2>2. /\ windowListeners' = windowListeners + One(mode = "alert")
        /\ inputListeners' = inputListeners + One(mode = "input")
        /\ windowKeyHandler' = (mode = "alert")
        /\ keyHandler' = (mode = "input")
    BY DEF Open, showDialog
  <2>3. One(mode = "alert") \in Nat /\ One(mode = "input") \in Nat
    BY DEF One
  <2> QED BY <1>2, <2>1, <2>2, <2>3, AbandonedCount
          DEF LostInv, ListenersLeakOnlyByOverlap, DialogInv, DialogTypeOK
<1>5. CancelOffered'
  <2> SUFFICES ASSUME mode # "alert", waiting = {} PROVE cancelShown'
    BY <1>2 DEF CancelOffered, Open, showDialog
  <2>1. cancelShown
    BY DEF DialogInv, SlotMatchesDialog, LostInv
  <2> QED BY <2>1 DEF Open, showDialog, Mode
<1> QED BY <1>1, <1>3, <1>4, <1>5 DEF LostInv

\* A dialog is closed: its listener goes with it, and Cancel is shown again.
LEMMA CloseLost ==
    ASSUME DialogInv, LostInv, Close
    PROVE  LostInv'
<1>1. dialogResolve' = NoCaller /\ waiting' = waiting \ {dialogResolve} /\ cancelShown'
  BY Zenon DEF Close, closeDialog, ResolveSlot, RestoreCancel
<1>2. Abandoned' = Abandoned
  BY <1>1, NoCallerAssumption DEF Abandoned, DialogInv, DialogTypeOK
<1>3. ListenersLeakOnlyByOverlap'
  <2>1. /\ windowListeners' = windowListeners - One(windowKeyHandler)
        /\ inputListeners' = inputListeners - One(keyHandler)
        /\ ~windowKeyHandler' /\ ~keyHandler'
    BY DEF Close, closeDialog, DetachListeners
  <2>2. One(windowKeyHandler') = 0 /\ One(keyHandler') = 0
    BY <2>1 DEF One
  <2>3. One(windowKeyHandler) \in Nat /\ One(keyHandler) \in Nat
    BY DEF One
  <2> QED BY <1>2, <2>1, <2>2, <2>3, AbandonedCount
          DEF LostInv, ListenersLeakOnlyByOverlap, DialogInv, DialogTypeOK
<1> QED BY <1>1, <1>3, FS_RemoveElement DEF LostInv, CancelOffered

\* The hide timer touches neither the callers nor the listeners.
LEMMA LostUnchanged ==
    ASSUME LostInv, CloseTimerFires \/ UNCHANGED dvars
    PROVE  LostInv'
<1>1. UNCHANGED <<dialogResolve, dialogMode, cancelShown, windowKeyHandler,
                  windowListeners, keyHandler, inputListeners, waiting>>
  BY DEF CloseTimerFires, dvars, dialogVars
<1> QED BY <1>1 DEF LostInv, ListenersLeakOnlyByOverlap, CancelOffered, Abandoned

\* The invariant of this part, together with the dialog's.
LEMMA LostInvariance == DSpec => [](DialogInv /\ LostInv)
<1>1. DInit => DialogInv /\ LostInv
  <2> SUFFICES ASSUME DInit PROVE LostInv
    BY DialogInitInv DEF DInit
  <2>1. waiting = {} /\ Abandoned = {}
    BY DEF DInit, DialogInit, Abandoned
  <2>2. ListenersLeakOnlyByOverlap
    BY <2>1, FS_EmptySet DEF DInit, DialogInit, ListenersLeakOnlyByOverlap, One
  <2> QED BY <2>1, <2>2, FS_EmptySet DEF LostInv, CancelOffered, DInit, DialogInit
<1>2. DialogInv /\ LostInv /\ [DNext]_dvars => LostInv'
  BY OpenLost, CloseLost, LostUnchanged DEF DNext
<1> QED BY <1>1, <1>2, DialogStepInv, PTL DEF DSpec

\* closeDialog and showDialog leave no listener behind but those of dialogs that
\* were replaced before they were answered: never more than one for each.
THEOREM LeaksOnlyByOverlap == DSpec => []ListenersLeakOnlyByOverlap
<1> QED BY LostInvariance, PTL DEF LostInv

\* A prompt or a confirmation can be cancelled with the pointer, unless it took
\* the place of a dialog nobody had answered.
THEOREM CancelAlwaysOffered == DSpec => []CancelOffered
<1> QED BY LostInvariance, PTL DEF LostInv

=============================================================================
