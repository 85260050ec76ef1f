---------------------------- MODULE Dialog_proofs ----------------------------
(***************************************************************************)
(* Proofs about the dialog, for any set of callers and any way they use    *)
(* it.  DialogInv is inductive: it is stated once per function of the      *)
(* dialog (lemmas ShowDialogInv, CloseDialogInv, CloseTimerInv), so that   *)
(* every module that composes the dialog can cite it.                      *)
(***************************************************************************)
EXTENDS Dialog, TLAPS

\* The key-handler slots make closeDialog's counters natural, and the slot's
\* matching with the dialog tells which handlers they hold.
DialogInv == DialogTypeOK /\ SlotMatchesDialog /\ OverlayWillClear

\* The initial state satisfies it.
LEMMA DialogInitInv == DialogInit => DialogInv
<1> SUFFICES ASSUME DialogInit PROVE DialogInv
  OBVIOUS
<1>1. DialogTypeOK
  BY DEF DialogInit, DialogTypeOK, Mode
<1>2. SlotMatchesDialog
  BY Zenon DEF DialogInit, SlotMatchesDialog
<1>3. OverlayWillClear
  BY Zenon DEF DialogInit, OverlayWillClear
<1> QED BY <1>1, <1>2, <1>3 DEF DialogInv

\* Opening a dialog, over an open one or not, keeps it.
LEMMA ShowDialogInv ==
    ASSUME DialogInv, NEW c \in Caller, NEW mode \in Mode, showDialog(c, mode)
    PROVE  DialogInv'
<1> USE DEF DialogInv
<1>1. One(mode = "alert") \in {0, 1} /\ (mode = "alert" => One(mode = "alert") = 1)
  BY DEF One
<1>2. One(mode = "input") \in {0, 1} /\ (mode = "input" => One(mode = "input") = 1)
  BY DEF One
<1>3. windowKeyHandler' = (mode = "alert") /\ keyHandler' = (mode = "input")
  BY DEF showDialog
<1>4. windowListeners' \in Nat /\ inputListeners' \in Nat
  BY <1>1, <1>2 DEF DialogTypeOK, showDialog
<1>5. cancelShown' \in BOOLEAN
  BY Zenon DEF showDialog
<1>6. DialogTypeOK'
  BY <1>3, <1>4, <1>5 DEF DialogTypeOK, showDialog
<1>7. SlotMatchesDialog'
  <2>1. dialogResolve' \in waiting' /\ dialogResolve' # NoCaller /\ dialogMode' = mode
    BY NoCallerAssumption DEF showDialog
  <2>2. mode = "alert" => windowListeners' > 0
    BY <1>1 DEF DialogTypeOK, showDialog
  <2>3. mode = "input" => inputListeners' > 0
    BY <1>2 DEF DialogTypeOK, showDialog
  <2> QED BY <2>1, <2>2, <2>3, <1>3, Zenon DEF SlotMatchesDialog
<1>8. OverlayWillClear'
  BY NoCallerAssumption DEF OverlayWillClear, showDialog
<1> QED BY <1>6, <1>7, <1>8

\* Closing keeps it: the handlers that are detached are attached, and the timer
\* is armed or is already.
LEMMA CloseDialogInv ==
    ASSUME DialogInv, closeDialog
    PROVE  DialogInv'
<1> USE DEF DialogInv
<1>1. One(windowKeyHandler) \in {0, 1} /\ (~windowKeyHandler => One(windowKeyHandler) = 0)
  BY DEF One
<1>2. One(keyHandler) \in {0, 1} /\ (~keyHandler => One(keyHandler) = 0)
  BY DEF One
<1>3. One(~dialogClosing) \in {0, 1} /\ (~dialogClosing => One(~dialogClosing) = 1)
  BY DEF One
<1>4. windowListeners' \in Nat /\ inputListeners' \in Nat
  BY <1>1, <1>2 DEF DialogTypeOK, SlotMatchesDialog, closeDialog, DetachListeners
<1>5. closeTimers' \in Nat /\ closeTimers' > 0
  BY <1>3 DEF DialogTypeOK, OverlayWillClear, closeDialog, ArmCloseTimer
<1>6. DialogTypeOK'
  BY <1>4, <1>5 DEF DialogTypeOK, closeDialog, RestoreCancel, DetachListeners, ArmCloseTimer,
                    ResolveSlot
<1>7. SlotMatchesDialog'
  BY DEF SlotMatchesDialog, closeDialog, DetachListeners, ResolveSlot
<1>8. OverlayWillClear'
  BY <1>5 DEF OverlayWillClear
<1> QED BY <1>6, <1>7, <1>8

\* The timer keeps it, whichever dialog it hides.
LEMMA CloseTimerInv ==
    ASSUME DialogInv, CloseTimerFires
    PROVE  DialogInv'
<1> USE DEF DialogInv
<1>1. closeTimers' \in Nat
  BY DEF DialogTypeOK, CloseTimerFires
<1>2. DialogTypeOK'
  BY <1>1, Zenon DEF DialogTypeOK, CloseTimerFires, finishDialogClose
<1>3. SlotMatchesDialog'
  BY Zenon DEF SlotMatchesDialog, CloseTimerFires
<1>4. OverlayWillClear'
  BY Zenon DEF OverlayWillClear, CloseTimerFires, finishDialogClose
<1> QED BY <1>2, <1>3, <1>4

\* So does a step that leaves the dialog alone.
LEMMA DialogUnchangedInv ==
    ASSUME DialogInv, UNCHANGED dialogVars
    PROVE  DialogInv'
BY DEF DialogInv, DialogTypeOK, SlotMatchesDialog, OverlayWillClear, dialogVars

=============================================================================
