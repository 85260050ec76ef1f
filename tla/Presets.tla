------------------------------- MODULE Presets -------------------------------
(***************************************************************************)
(* The cleaning presets (src/src/index.html, 1927-2248): named selections  *)
(* of tools kept in appSettings, the active one, the tick boxes, and the   *)
(* dialogs in which presets are saved, renamed and deleted, composed with  *)
(* module Dialog.  The model begins when initApp has loaded the settings   *)
(* and built the cards, and restarts there.                                *)
(*                                                                         *)
(* saveAppSettings sends the whole of appSettings as it is at that moment  *)
(* and goes on; write_file_content is a synchronous command, run on the    *)
(* backend's main thread in the order sent (pending), and may fail.  That  *)
(* the path it writes to may not be known is in module Settings.           *)
(*                                                                         *)
(* When closeDialog resolves a promise, the function that awaits it goes   *)
(* on before any other event is handled (a microtask): while resuming is   *)
(* set, its step is the only one possible.                                 *)
(***************************************************************************)
EXTENDS Dialog, Sequences

CONSTANTS
    Tool,           \* the cards' tools
    Nvidia,         \* clean_nvidia
    Browser,        \* clean_browser_cache
    Name,           \* names of presets
    Recommended,    \* the name of the recommended preset, whatever the language
    RecommendedEn,  \* what the English pack calls it
    Lang,           \* the languages there are, of "zh" and "en"
    Typed,          \* the names the user types
    Null,           \* null, no settings file or one that does not parse, and a
                    \* prompt that was cancelled or left blank
    Absent,         \* no such key
    MaxPending      \* a bound: nothing more happens on the page while this
                    \* many writes are under way

ASSUME NameAssumption == {Recommended, RecommendedEn} \cup Typed \subseteq Name

ASSUME LangAssumption == "zh" \in Lang /\ Lang \subseteq {"zh", "en"}

ASSUME AbsentAssumption ==
    /\ Null # Absent
    /\ Null \notin Name
    /\ \A s \in SUBSET Tool : s # Null /\ s # Absent

VARIABLES
    presets,     \* appSettings.cleaningPresets
    active,      \* appSettings.activeCleaningPreset
    lang,        \* appSettings.language and its pack
    ticked,      \* the tick boxes
    nvidia,      \* window._nvidiaInstalled
    stage,       \* what initApp awaits: detectNvidia, loadCDriveUsage, nothing
    file,        \* settings.json, as far as it concerns presets
    pending,     \* the writes the backend has yet to do
    fault,       \* the page and the file may differ for a reason the code does
                 \* not handle: the last write sent has failed, or the reading
                 \* of the file has and no write was sent since
    pc,          \* the dialog each activation awaits
    arg,         \* oldName of renamePreset, name of deletePreset
    resuming,    \* the activation whose promise has just been resolved
    reply        \* what it was resolved with

settingsVars == <<presets, active, lang>>
pageVars == <<ticked, nvidia, stage>>
fileVars == <<file, pending, fault>>
editVars == <<pc, arg, resuming, reply>>
vars == <<settingsVars, pageVars, fileVars, editVars, dialogVars>>

State == SUBSET Tool

Settings == [presets : [Name -> {Null, Absent} \cup State], active : Name, lang : Lang]

ASSUME FileAssumption == Null \notin Settings

PresetsTypeOK ==
    /\ [presets |-> presets, active |-> active, lang |-> lang] \in Settings
    /\ ticked \in State
    /\ nvidia \in BOOLEAN
    /\ stage \in {"detect", "usage", "ready"}
    /\ file \in Settings \cup {Null}
    /\ pending \in Seq(Settings)
    /\ fault \in BOOLEAN
    /\ pc \in [Caller -> {"free", "save", "rename", "delete", "same"}]
    /\ arg \in [Caller -> Name \cup {Null}]
    /\ resuming \in Caller \cup {NoCaller}
    /\ reply \in BOOLEAN \cup Typed \cup {Null}
    /\ DialogTypeOK

\* appSettings as the page declares it.
DefaultSettings ==
    [presets |-> [n \in Name |-> IF n = Recommended THEN Null ELSE Absent],
     active  |-> Recommended,
     lang    |-> "zh"]

Init ==
    /\ presets = DefaultSettings.presets
    /\ active = DefaultSettings.active
    /\ lang = DefaultSettings.lang
    /\ ticked = {}
    /\ nvidia = FALSE
    /\ stage = "detect"
    /\ file = Null
    /\ pending = <<>>
    /\ fault = FALSE
    /\ pc = [c \in Caller |-> "free"]
    /\ arg = [c \in Caller |-> Null]
    /\ resuming = NoCaller
    /\ reply = Null
    /\ DialogInit

-----------------------------------------------------------------------------
\* There is a preset of that name (the code asks whether the value is truthy).
Exists(p, name) == p[name] \notin {Null, Absent}

Current == [presets |-> presets, active |-> active, lang |-> lang]

\* saveAppSettings: a write is sent, and nobody waits for it.
Send(text) ==
    /\ pending' = Append(pending, text)
    /\ fault' = FALSE
    /\ UNCHANGED file

SavedTooEarly == Send(Current)

saveAppSettings == Send(Current')

\* t('clean.recommendedPreset').
translatedName == IF lang = "zh" THEN Recommended ELSE RecommendedEn

getDefaultRecommendedPresetState ==
    (Tool \ {Browser}) \ (IF nvidia THEN {} ELSE {Nvidia})

\* ensurePresetExists(name), on the presets p: a preset that is missing or null
\* is created, recommended under the name the current language gives it and
\* empty under any other.
EnsureResets(p, name) ==
    [p EXCEPT ![name] =
        IF name = translatedName THEN getDefaultRecommendedPresetState ELSE {}]

ensurePresetExists(p, name) ==
    IF Exists(p, name) THEN p ELSE EnsureResets(p, name)

\* applyPresetByName(name, ...) on the presets p, up to its save.
applyPreset(p, name) ==
    /\ presets' = ensurePresetExists(p, name)
    /\ active' = name
    /\ ticked' = presets'[name]

\* No continuation is due: events and timers are handled.
EventLoop == resuming = NoCaller /\ Len(pending) < MaxPending

-----------------------------------------------------------------------------
\* A tick box, selectAll and deselectAll.
Tick(ids) ==
    /\ EventLoop
    /\ ticked' = ids
    /\ UNCHANGED <<settingsVars, nvidia, stage, fileVars, editVars, dialogVars>>

\* applyPresetByName(name, true): an item of the menu (the keys of the presets),
\* the main button (the active preset), or selectRecommended.
applyPresetByName(name) ==
    /\ EventLoop
    /\ presets[name] # Absent \/ name \in {active, Recommended}
    /\ applyPreset(presets, name)
    /\ UNCHANGED lang
    /\ saveAppSettings
    /\ UNCHANGED <<nvidia, stage, editVars, dialogVars>>

\* setManagedPresetName(name), an item of the manage menu.
setManagedPresetName(name) ==
    /\ EventLoop
    /\ presets[name] # Absent
    /\ active' = name
    /\ UNCHANGED <<presets, lang, pageVars, fileVars, editVars, dialogVars>>

\* applyLanguage(l, true) once its pack is there.
applyLanguage(l) ==
    /\ EventLoop
    /\ lang' = l
    /\ UNCHANGED <<presets, active>>
    /\ saveAppSettings
    /\ UNCHANGED <<pageVars, editVars, dialogVars>>

\* Any other setting is changed: the presets are saved with it.
SaveOther ==
    /\ EventLoop
    /\ UNCHANGED settingsVars
    /\ saveAppSettings
    /\ UNCHANGED <<pageVars, editVars, dialogVars>>

-----------------------------------------------------------------------------
\* An activation begins to await a dialog.
Ask(c, place, name, mode) ==
    /\ EventLoop
    /\ pc[c] = "free"
    /\ pc' = [pc EXCEPT ![c] = place]
    /\ arg' = [arg EXCEPT ![c] = name]
    /\ showDialog(c, mode)
    /\ UNCHANGED <<settingsVars, pageVars, fileVars, resuming, reply>>

saveCurrentSelectionAsPreset(c) == Ask(c, "save", Null, "input")

renamePreset(c) == active # Recommended /\ Ask(c, "rename", active, "input")

deletePreset(c) == active # Recommended /\ Ask(c, "delete", active, "confirm")

\* closeDialog by a click or a key, with what it resolves the promise to.
Close ==
    /\ EventLoop
    /\ closeTimers < MaxCloseTimers
    /\ closeDialog
    /\ resuming' = dialogResolve
    /\ reply' \in IF dialogResolve = NoCaller THEN {Null}
                  ELSE IF dialogMode = "input" THEN Typed \cup {Null} ELSE BOOLEAN
    /\ UNCHANGED <<settingsVars, pageVars, fileVars, pc, arg>>

DialogTimer ==
    /\ EventLoop
    /\ CloseTimerFires
    /\ UNCHANGED <<settingsVars, pageVars, fileVars, editVars>>

\* The resumed activation returns.
Return(c) ==
    /\ pc' = [pc EXCEPT ![c] = "free"]
    /\ arg' = [arg EXCEPT ![c] = Null]
    /\ resuming' = NoCaller
    /\ reply' = Null

\* saveCurrentSelectionAsPreset has a name: what is ticked now is stored under it.
SaveUnder(c) ==
    /\ pc[c] = "save"
    /\ reply # Null
    /\ presets' = [presets EXCEPT ![reply] = ticked]
    /\ active' = reply
    /\ UNCHANGED lang
    /\ saveAppSettings
    /\ Return(c)
    /\ UNCHANGED <<pageVars, dialogVars>>

\* renamePreset has a new name, and no preset has it.
Renamed(p, old, new) == [p EXCEPT ![new] = p[old], ![old] = Absent]

RenameOverwrites(c) ==
    /\ pc[c] = "rename"
    /\ reply \notin {Null, arg[c]}
    /\ presets' = Renamed(presets, arg[c], reply)
    /\ active' = IF active = arg[c] THEN reply ELSE active
    /\ UNCHANGED lang
    /\ saveAppSettings
    /\ Return(c)
    /\ UNCHANGED <<pageVars, dialogVars>>

RenameTo(c) == reply \in Typed /\ ~Exists(presets, reply) /\ RenameOverwrites(c)

\* Some preset has it: the alert is opened at once, the prompt's timer pending.
RenameSame(c) ==
    /\ pc[c] = "rename"
    /\ reply \notin {Null, arg[c]}
    /\ Exists(presets, reply)
    /\ showDialog(c, "alert")
    /\ pc' = [pc EXCEPT ![c] = "same"]
    /\ resuming' = NoCaller
    /\ reply' = Null
    /\ UNCHANGED <<settingsVars, pageVars, fileVars, arg>>

\* deletePreset is confirmed.  Of the active preset, it falls back to the
\* recommended one.
ActiveStays(p) == presets' = p /\ UNCHANGED <<active, ticked>>

FallBack(p) == applyPreset(p, Recommended)

DeleteConfirmed(c) ==
    /\ pc[c] = "delete"
    /\ reply = TRUE
    /\ LET rest == [presets EXCEPT ![arg[c]] = Absent] IN
         \/ active = arg[c] /\ FallBack(rest)
         \/ active # arg[c] /\ ActiveStays(rest)
    /\ UNCHANGED lang
    /\ saveAppSettings
    /\ Return(c)
    /\ UNCHANGED <<nvidia, stage, dialogVars>>

\* The answer changes nothing: cancelled, blank, the same name, or the alert's.
GiveUp(c) ==
    /\ \/ pc[c] = "same"
       \/ pc[c] = "delete" /\ reply = FALSE
       \/ pc[c] \in {"save", "rename"} /\ reply = Null
       \/ pc[c] = "rename" /\ reply = arg[c]
    /\ Return(c)
    /\ UNCHANGED <<settingsVars, pageVars, fileVars, dialogVars>>

Resume(c) ==
    /\ resuming = c
    /\ SaveUnder(c) \/ RenameTo(c) \/ RenameSame(c) \/ DeleteConfirmed(c) \/ GiveUp(c)

-----------------------------------------------------------------------------
\* detectNvidia has its answer, FALSE when the command fails; it is told apart
\* only where there is a tool it matters to.
Detected ==
    /\ EventLoop
    /\ stage = "detect"
    /\ stage' = "usage"
    /\ nvidia' \in IF Nvidia \in Tool THEN BOOLEAN ELSE {FALSE}
    /\ UNCHANGED <<settingsVars, ticked, fileVars, editVars, dialogVars>>

\* loadCDriveUsage has: initApp makes sure of the recommended preset and of the
\* active one, and ticks the latter's tools, whatever was ticked meanwhile.
Ready ==
    /\ EventLoop
    /\ stage = "usage"
    /\ stage' = "ready"
    /\ LET p == ensurePresetExists(presets, Recommended) IN
         applyPreset(p, IF Exists(p, active) THEN active ELSE Recommended)
    /\ UNCHANGED <<lang, nvidia, fileVars, editVars, dialogVars>>

\* fs::write, which may fail before or after it has truncated the file; the
\* error is caught and dropped.
WriteFile ==
    /\ pending # <<>>
    /\ pending' = Tail(pending)
    /\ \/ file' = Head(pending) /\ UNCHANGED fault
       \/ file' \in {file, Null} /\ fault' = (pending' = <<>>)
    /\ UNCHANGED <<settingsVars, pageVars, editVars, dialogVars>>

\* What loadAppSettings makes of the file: without a text that parses the
\* defaults stay.
Loaded == IF file = Null THEN DefaultSettings ELSE file

Opened(with) ==
    /\ presets' = with.presets
    /\ active' = with.active
    /\ lang' = with.lang
    /\ ticked' = {}
    /\ nvidia' = FALSE
    /\ stage' = "detect"
    /\ pc' = [c \in Caller |-> "free"]
    /\ arg' = [c \in Caller |-> Null]
    /\ resuming' = NoCaller
    /\ reply' = Null
    /\ DialogReset

\* The application is closed, the writes not done lost and the one under way
\* perhaps torn, and started again on a file that can be read or not.
Restart ==
    /\ pending' = <<>>
    /\ file' \in {file} \cup (IF pending = <<>> THEN {} ELSE {Null})
    /\ \/ Opened(Loaded') /\ fault' = FALSE
       \/ file' # Null /\ Opened(DefaultSettings) /\ fault' = TRUE

Next ==
    \/ \E ids \in State : Tick(ids)
    \/ \E name \in Name : applyPresetByName(name) \/ setManagedPresetName(name)
    \/ \E l \in Lang : applyLanguage(l)
    \/ SaveOther
    \/ \E c \in Caller :
         \/ saveCurrentSelectionAsPreset(c) \/ renamePreset(c) \/ deletePreset(c)
         \/ Resume(c)
    \/ Close \/ DialogTimer
    \/ Detected \/ Ready
    \/ WriteFile \/ Restart

Spec == Init /\ [][Next]_vars

-----------------------------------------------------------------------------
\* Once the page is ready the active preset exists: using it never ticks an
\* empty selection invented by ensurePresetExists, whatever was renamed or
\* deleted, by edits that overlapped, in this session or before it.
ActiveUsable == stage = "ready" => Exists(presets, active)

\* What the file holds once the writes under way are done.
Stored == IF pending = <<>> THEN Loaded ELSE pending[Len(pending)]

\* No edit of the user's own presets is left unsaved: the last write under way
\* has all of them, and when none is so has the file, unless there was a fault.
EditsAreKept ==
    ~fault =>
        \A n \in Name \ {Recommended} : presets[n] = Stored.presets[n]

\* The book behind the presets: null and a missing key are both no preset.
Book(p) == [n \in Name |-> IF Exists(p, n) THEN p[n] ELSE Absent]

Edition(s) == [book |-> Book(s.presets), current |-> s.active]

Editions(q) == [i \in DOMAIN q |-> Edition(q[i])]

Presets == INSTANCE PresetBook WITH
    Selection <- State,
    book      <- Book(presets),
    current   <- active,
    sent      <- Editions(pending),
    kept      <- Edition(Loaded)

\* However dialogs overlap, saves fail and the page restarts, every step is one
\* edit of the book or none, and what a start finds is the book as it was at one
\* of the moments it was saved, or nothing.
ImplementsPresetBook == Presets!Spec

-----------------------------------------------------------------------------
(* What the code's texts say and the code does not do. *)

\* README.md:80, cleaning of NVIDIA's files is recommended only where its
\* software was detected.  (For runs in which the user types other names.)
NvidiaOnlyIfDetected ==
    stage = "ready" /\ Exists(presets, Recommended) /\ Nvidia \in presets[Recommended]
        => nvidia

\* en-US.json:115, "Apply recommended clean": it selects something to clean.
RecommendedNotBlank == presets[Recommended] # {}

\* The alert "a preset with the same name already exists" is on the screen
\* while renamePreset awaits its answer (index.html:1537, aria-modal).
AlertSeen == dialogResolve # NoCaller /\ dialogMode = "alert" => overlayShown

=============================================================================
