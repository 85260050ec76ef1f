--------------------------- MODULE Presets_proofs ---------------------------
(***************************************************************************)
(* Theorems about module Presets, for any tools, names and number of       *)
(* activations.  What the four properties rest on is that the one dialog   *)
(* that can be answered is the last one opened: an activation that is      *)
(* resumed finds the preset it asked about still there, because nobody     *)
(* else can have removed it since.                                         *)
(***************************************************************************)
EXTENDS Presets, Dialog_proofs, TLAPS

PresetMap == [Name -> {Null, Absent} \cup State]

\* The dialog on the screen is the one its activation awaits, and the answer
\* being given is of that dialog's kind.
AwaitInv ==
    /\ dialogResolve # NoCaller =>
         \/ (pc[dialogResolve] \in {"save", "rename"} /\ dialogMode = "input")
         \/ (pc[dialogResolve] = "delete" /\ dialogMode = "confirm")
         \/ (pc[dialogResolve] = "same" /\ dialogMode = "alert")
    /\ resuming # NoCaller =>
         /\ dialogResolve = NoCaller
         /\ \/ (pc[resuming] \in {"save", "rename"} /\ reply \in Typed \cup {Null})
            \/ (pc[resuming] \in {"delete", "same"} /\ reply \in BOOLEAN)

\* The activation whose dialog can be answered, or is being answered.
Turn(c) == c = dialogResolve \/ c = resuming

\* The preset it asks about is one of the user's, and is there.
EditInv ==
    \A c \in Caller :
        Turn(c) /\ pc[c] \in {"rename", "delete"} =>
            /\ arg[c] \in Name \ {Recommended}
            /\ Exists(presets, arg[c])

\* Only the recommended preset may be null, and only it may be in use and missing.
WellKept(p, a) ==
    /\ \A n \in Name \ {Recommended} : p[n] # Null
    /\ a # Recommended => Exists(p, a)

BookInv ==
    /\ WellKept(presets, active)
    /\ stage = "ready" => Exists(presets, Recommended)

\* What is saved and what is being saved is well kept too; while a write is under
\* way no fault is final.
FileInv ==
    /\ WellKept(Loaded.presets, Loaded.active)
    /\ \A i \in DOMAIN pending : WellKept(pending[i].presets, pending[i].active)
    /\ pending # <<>> => ~fault

\* Together with the types, and with what the dialog keeps by itself.
PresetsInv == PresetsTypeOK /\ SlotMatchesDialog /\ OverlayWillClear /\ AwaitInv /\ EditInv /\ BookInv /\ FileInv

-----------------------------------------------------------------------------
(* Presets and their changes.                                              *)

\* A selection is neither null nor missing.
LEMMA Selections == \A s \in State : s # Null /\ s # Absent
  BY AbsentAssumption DEF State

\* ensurePresetExists: the preset is there afterwards, and was added or is as it
\* was; every other preset is as it was.
LEMMA EnsureExists ==
    ASSUME NEW p \in PresetMap, NEW name \in Name
    PROVE  LET q == ensurePresetExists(p, name) IN
             /\ q \in PresetMap
             /\ Exists(q, name)
             /\ Exists(p, name) => q = p
             /\ \A n \in Name : n # name => q[n] = p[n]
             /\ \A n \in Name : Exists(p, n) => Exists(q, n)
             /\ ~Exists(p, name) => \E s \in State : q = [p EXCEPT ![name] = s]
  <1> DEFINE s == IF name = translatedName THEN getDefaultRecommendedPresetState ELSE {}
  <1>1. s \in State
    BY DEF State, getDefaultRecommendedPresetState
  <1>2. ensurePresetExists(p, name) = IF Exists(p, name) THEN p ELSE [p EXCEPT ![name] = s]
    BY DEF ensurePresetExists, EnsureResets
  <1> HIDE DEF s
  <1>3. s # Null /\ s # Absent
    BY <1>1, Selections
  <1>4. CASE Exists(p, name)
    BY <1>2, <1>4
  <1>5. CASE ~Exists(p, name)
    BY <1>1, <1>2, <1>3, <1>5 DEF PresetMap, Exists
  <1> QED  BY <1>4, <1>5

\* What the next start finds is settings.
LEMMA LoadedType ==
    ASSUME file \in Settings \cup {Null}
    PROVE  Loaded \in Settings
  <1>1. DefaultSettings \in Settings
    BY NameAssumption, LangAssumption DEF DefaultSettings, Settings, State
  <1> QED  BY <1>1 DEF Loaded

-----------------------------------------------------------------------------
(* Types.                                                                  *)

\* The part of the types that is not the dialog's.
BookTypeOK ==
    /\ presets \in PresetMap
    /\ active \in Name
    /\ lang \in Lang
    /\ ticked \in State
    /\ nvidia \in BOOLEAN
    /\ stage \in {"detect", "usage", "ready"}

FileTypeOK ==
    /\ file \in Settings \cup {Null}
    /\ pending \in Seq(Settings)
    /\ fault \in BOOLEAN

EditTypeOK ==
    /\ pc \in [Caller -> {"free", "save", "rename", "delete", "same"}]
    /\ arg \in [Caller -> Name \cup {Null}]
    /\ resuming \in Caller \cup {NoCaller}
    /\ reply \in BOOLEAN \cup Typed \cup {Null}

\* The types, in the parts that steps change together.
LEMMA TypeParts == PresetsTypeOK <=> BookTypeOK /\ FileTypeOK /\ EditTypeOK /\ DialogTypeOK
  BY DEF PresetsTypeOK, BookTypeOK, FileTypeOK, EditTypeOK, PresetMap, Settings

\* What a page step does to the file: nothing, or it sends a write.
FileStep == UNCHANGED fileVars \/ saveAppSettings

\* applyPresetByName up to its save: the preset is there, in use, and what is ticked.
LEMMA ApplyPreset ==
    ASSUME NEW p \in PresetMap, NEW name \in Name, applyPreset(p, name)
    PROVE  /\ presets' \in PresetMap /\ active' = name /\ ticked' \in State
           /\ Exists(presets', name)
           /\ \A n \in Name : n # name => presets'[n] = p[n]
           /\ \A n \in Name : Exists(p, n) => Exists(presets', n)
           /\ (\A n \in Name \ {Recommended} : p[n] # Null) => WellKept(presets', active')
  <1>1. /\ presets' \in PresetMap /\ active' = name
        /\ Exists(presets', name)
        /\ \A n \in Name : n # name => presets'[n] = p[n]
        /\ \A n \in Name : Exists(p, n) => Exists(presets', n)
    BY EnsureExists DEF applyPreset
  <1>2. ticked' \in State
    BY <1>1 DEF applyPreset, PresetMap, Exists
  <1>3. ASSUME \A n \in Name \ {Recommended} : p[n] # Null PROVE WellKept(presets', active')
    BY <1>1, <1>3 DEF WellKept, Exists
  <1> QED  BY <1>1, <1>2, <1>3

\* The controls of the page, and the end of the startup: they keep the types, they
\* remove no preset, and what they leave in use is there.
PageStep ==
    \/ \E ids \in State : Tick(ids)
    \/ \E name \in Name : applyPresetByName(name) \/ setManagedPresetName(name)
    \/ \E l \in Lang : applyLanguage(l)
    \/ SaveOther \/ Detected \/ Ready

\* The page keeps the book usable: it removes no entry, and is saved if it changes one.
LEMMA PageBook ==
    ASSUME PresetsInv, PageStep
    PROVE  /\ BookTypeOK' /\ WellKept(presets', active')
           /\ \A n \in Name : Exists(presets, n) => Exists(presets', n)
           /\ stage' = "ready" => Exists(presets', Recommended)
           /\ UNCHANGED <<editVars, dialogVars>>
           /\ FileStep
  <1> USE DEF BookTypeOK
  <1>0. BookTypeOK /\ WellKept(presets, active) /\ (stage = "ready" => Exists(presets, Recommended))
    BY TypeParts DEF PresetsInv, BookInv
  <1>1. ASSUME NEW ids \in State, Tick(ids)
        PROVE  /\ BookTypeOK' /\ presets' = presets /\ active' = active /\ stage' = stage
               /\ UNCHANGED <<editVars, dialogVars>> /\ UNCHANGED fileVars
    BY <1>0, <1>1 DEF Tick, settingsVars
  <1>2. ASSUME NEW name \in Name, applyPresetByName(name)
        PROVE  /\ BookTypeOK' /\ WellKept(presets', active')
               /\ \A n \in Name : Exists(presets, n) => Exists(presets', n)
               /\ UNCHANGED <<stage, editVars, dialogVars>> /\ saveAppSettings
    <2>1. /\ presets' \in PresetMap /\ active' = name /\ ticked' \in State
          /\ WellKept(presets', active')
          /\ \A n \in Name : Exists(presets, n) => Exists(presets', n)
      BY <1>0, <1>2, ApplyPreset DEF applyPresetByName, WellKept
    <2> QED  BY <1>0, <1>2, <2>1 DEF applyPresetByName
  <1>3. ASSUME NEW name \in Name, setManagedPresetName(name)
        PROVE  /\ BookTypeOK' /\ WellKept(presets', active')
               /\ presets' = presets /\ stage' = stage
               /\ UNCHANGED <<editVars, dialogVars>> /\ UNCHANGED fileVars
    <2>1. presets' = presets /\ active' = name /\ presets[name] # Absent
      BY <1>3 DEF setManagedPresetName
    <2>2. WellKept(presets', active')
      BY <1>0, <2>1 DEF WellKept, Exists
    <2> QED  BY <1>0, <1>3, <2>1, <2>2 DEF setManagedPresetName, pageVars
  <1>4. ASSUME \/ \E l \in Lang : applyLanguage(l)
               \/ SaveOther
        PROVE  /\ BookTypeOK' /\ presets' = presets /\ active' = active /\ stage' = stage
               /\ UNCHANGED <<editVars, dialogVars>> /\ saveAppSettings
    <2>1. presets' = presets /\ active' = active /\ lang' \in Lang /\ saveAppSettings
      BY <1>0, <1>4 DEF applyLanguage, SaveOther, settingsVars
    <2> QED  BY <1>0, <1>4, <2>1 DEF applyLanguage, SaveOther, pageVars
  <1>5. ASSUME Detected
        PROVE  /\ BookTypeOK' /\ presets' = presets /\ active' = active /\ stage' # "ready"
               /\ UNCHANGED <<editVars, dialogVars>> /\ UNCHANGED fileVars
    BY <1>0, <1>5 DEF Detected, settingsVars
  <1>6. ASSUME Ready
        PROVE  /\ BookTypeOK' /\ WellKept(presets', active')
               /\ \A n \in Name : Exists(presets, n) => Exists(presets', n)
               /\ Exists(presets', Recommended)
               /\ UNCHANGED <<editVars, dialogVars>> /\ UNCHANGED fileVars
    <2> DEFINE p == ensurePresetExists(presets, Recommended)
    <2>1. /\ p \in PresetMap /\ Exists(p, Recommended)
          /\ \A n \in Name : n # Recommended => p[n] = presets[n]
          /\ \A n \in Name : Exists(presets, n) => Exists(p, n)
      BY <1>0, EnsureExists, NameAssumption
    <2>2. applyPreset(p, IF Exists(p, active) THEN active ELSE Recommended)
      BY <1>6 DEF Ready
    <2> HIDE DEF p
    <2>3. PICK name \in Name : applyPreset(p, name)
      BY <1>0, <2>2, NameAssumption
    <2>4. \A n \in Name \ {Recommended} : p[n] # Null
      BY <1>0, <2>1 DEF WellKept
    <2>5. /\ presets' \in PresetMap /\ active' = name /\ ticked' \in State
          /\ WellKept(presets', active')
          /\ \A n \in Name : Exists(p, n) => Exists(presets', n)
      BY <2>1, <2>3, <2>4, ApplyPreset
    <2> QED  BY <1>0, <1>6, <2>1, <2>5, NameAssumption DEF Ready
  <1> HIDE DEF BookTypeOK
  <1>7. ASSUME presets' = presets, active' = active, stage' = stage \/ stage' # "ready"
        PROVE  /\ WellKept(presets', active')
               /\ \A n \in Name : Exists(presets, n) => Exists(presets', n)
               /\ stage' = "ready" => Exists(presets', Recommended)
    BY <1>0, <1>7
  <1>8. CASE (\E ids \in State : Tick(ids)) \/ Detected
    BY <1>1, <1>5, <1>7, <1>8 DEF FileStep
  <1>9. CASE (\E l \in Lang : applyLanguage(l)) \/ SaveOther
    BY <1>4, <1>7, <1>9 DEF FileStep
  <1>10. CASE \E name \in Name : applyPresetByName(name)
    BY <1>0, <1>2, <1>10, NameAssumption DEF FileStep
  <1>11. CASE \E name \in Name : setManagedPresetName(name)
    BY <1>0, <1>3, <1>11 DEF FileStep
  <1> QED  BY <1>6, <1>8, <1>9, <1>10, <1>11 DEF PageStep, FileStep

\* A save is the last write under way, and those before it stay.
LEMMA SaveSent ==
    ASSUME FileTypeOK, BookTypeOK', saveAppSettings
    PROVE  /\ FileTypeOK' /\ file' = file /\ ~fault'
           /\ Current' \in Settings /\ pending' = Append(pending, Current')
           /\ pending' # <<>> /\ Len(pending') = Len(pending) + 1
           /\ pending'[Len(pending')] = Current'
           /\ \A i \in DOMAIN pending : pending'[i] = pending[i]
           /\ DOMAIN pending' = DOMAIN pending \cup {Len(pending')}
  <1>1. Current' \in Settings
    BY DEF BookTypeOK, Current, Settings, PresetMap
  <1>2. /\ pending \in Seq(Settings) /\ file' = file /\ ~fault'
        /\ pending' = Append(pending, Current')
    BY DEF FileTypeOK, saveAppSettings, Send
  <1> DEFINE e == Current'
  <1> HIDE DEF e
  <1>3. pending' = Append(pending, e) /\ e \in Settings
    BY <1>1, <1>2 DEF e
  <1>4. /\ pending' \in Seq(Settings) /\ Len(pending') = Len(pending) + 1
        /\ pending'[Len(pending')] = e
        /\ \A i \in DOMAIN pending : pending'[i] = pending[i]
        /\ DOMAIN pending' = DOMAIN pending \cup {Len(pending')}
    BY <1>2, <1>3
  <1>5. FileTypeOK'
    BY <1>2, <1>4 DEF FileTypeOK, saveAppSettings, Send
  <1> QED  BY <1>1, <1>2, <1>3, <1>4, <1>5 DEF e

\* What is saved stays well kept.
LEMMA FileKept ==
    ASSUME FileTypeOK, FileInv, BookTypeOK', WellKept(presets', active'), FileStep
    PROVE  FileTypeOK' /\ FileInv'
  <1>1. CASE UNCHANGED fileVars
    BY <1>1 DEF fileVars, FileTypeOK, FileInv, Loaded
  <1>2. CASE saveAppSettings
    <2>1. Loaded' = Loaded
      BY <1>2, SaveSent DEF Loaded, DefaultSettings
    <2>2. Current'.presets = presets' /\ Current'.active = active'
      BY DEF Current
    <2>3. \A i \in DOMAIN pending' : WellKept(pending'[i].presets, pending'[i].active)
      BY <1>2, <2>2, SaveSent DEF FileInv
    <2> QED  BY <1>2, <2>1, <2>3, SaveSent DEF FileInv
  <1> QED  BY <1>1, <1>2 DEF FileStep

\* An answer is given to the activation whose turn it is.
LEMMA AnswerType ==
    ASSUME PresetsInv, NEW c \in Caller, resuming = c
    PROVE  /\ dialogResolve = NoCaller
           /\ pc[c] \in {"save", "rename"} => reply \in Name \cup {Null} /\ reply \in Typed \cup {Null}
           /\ pc[c] \in {"rename", "delete"} =>
                arg[c] \in Name \ {Recommended} /\ Exists(presets, arg[c])
           /\ BookTypeOK /\ FileTypeOK /\ EditTypeOK /\ BookInv
  BY NoCallerAssumption, NameAssumption, TypeParts DEF PresetsInv, AwaitInv, EditInv, Turn

\* A preset that is renamed: the old name is free, the new one has what it had.
LEMMA RenamedIs ==
    ASSUME NEW p \in PresetMap, NEW old \in Name, NEW new \in Name, old # new, Exists(p, old)
    PROVE  /\ Renamed(p, old, new) \in PresetMap
           /\ Exists(Renamed(p, old, new), new)
           /\ \A n \in Name \ {old, new} : Renamed(p, old, new)[n] = p[n]
           /\ Renamed(p, old, new)[old] = Absent
  BY DEF Renamed, PresetMap, Exists

\* The continuations that change the book.
LEMMA ResumeBook ==
    ASSUME PresetsInv, NEW c \in Caller, resuming = c,
           SaveUnder(c) \/ RenameTo(c) \/ DeleteConfirmed(c)
    PROVE  /\ BookTypeOK' /\ WellKept(presets', active')
           /\ stage' = "ready" => Exists(presets', Recommended)
           /\ saveAppSettings
  <1>0. BookTypeOK /\ BookInv /\ WellKept(presets, active) /\ stage' = stage
    BY AnswerType DEF BookInv, SaveUnder, RenameTo, RenameOverwrites, DeleteConfirmed, pageVars
  <1>1. CASE SaveUnder(c)
    <2>1. reply \in Name /\ ticked \in State /\ presets \in PresetMap
      BY <1>0, <1>1, AnswerType DEF SaveUnder, BookTypeOK
    <2>2. presets' = [presets EXCEPT ![reply] = ticked] /\ active' = reply
      BY <1>1 DEF SaveUnder
    <2>3. presets' \in PresetMap /\ Exists(presets', reply)
      BY <2>1, <2>2, Selections DEF PresetMap, Exists
    <2>4. \A n \in Name : n # reply => presets'[n] = presets[n]
      BY <2>1, <2>2 DEF PresetMap
    <2>5. \A n \in Name : Exists(presets, n) => Exists(presets', n)
      BY <2>3, <2>4 DEF Exists
    <2>6. WellKept(presets', active')
      BY <1>0, <2>1, <2>2, <2>3, <2>4, Selections DEF WellKept, Exists
    <2> QED  BY <1>0, <1>1, <2>1, <2>2, <2>3, <2>5, <2>6, NameAssumption
             DEF BookInv, SaveUnder, BookTypeOK, pageVars
  <1>2. CASE RenameTo(c)
    <2> DEFINE old == arg[c]
               new == reply
    <2>1. /\ old \in Name /\ old # Recommended /\ Exists(presets, old)
          /\ new \in Name /\ new # old /\ ~Exists(presets, new)
          /\ presets' = Renamed(presets, old, new)
          /\ active' = (IF active = old THEN new ELSE active)
      BY <1>2, AnswerType DEF RenameTo, RenameOverwrites
    <2> HIDE DEF old, new
    <2>2. presets \in PresetMap /\ active \in Name
      BY <1>0 DEF BookTypeOK
    <2>3. /\ presets' \in PresetMap /\ Exists(presets', new) /\ presets'[old] = Absent
          /\ \A n \in Name \ {old, new} : presets'[n] = presets[n]
      BY <2>1, <2>2, RenamedIs
    <2>4. active' \in Name
      BY <2>1, <2>2
    <2>5. \A n \in Name \ {Recommended} : presets'[n] # Null
      BY <1>0, <2>3, AbsentAssumption DEF WellKept, Exists
    <2>6. active' # Recommended => Exists(presets', active')
      <3>1. CASE active = old
        BY <2>1, <2>3, <3>1
      <3>2. CASE active # old /\ active # Recommended
        BY <1>0, <2>1, <2>2, <2>3, <3>2 DEF WellKept, Exists
      <3> QED  BY <2>1, <3>1, <3>2
    <2>7. stage' = "ready" => Exists(presets', Recommended)
      BY <1>0, <2>1, <2>3, NameAssumption DEF BookInv, Exists
    <2> QED  BY <1>0, <1>2, <2>3, <2>4, <2>5, <2>6, <2>7
             DEF RenameTo, RenameOverwrites, BookTypeOK, WellKept, pageVars
  <1>3. CASE DeleteConfirmed(c)
    <2> DEFINE old == arg[c]
               rest == [presets EXCEPT ![old] = Absent]
    <2>1. old \in Name /\ old # Recommended
      BY <1>3, AnswerType DEF DeleteConfirmed
    <2>2. presets \in PresetMap /\ active \in Name /\ ticked \in State
      BY <1>0 DEF BookTypeOK
    <2>3. \/ (active = old /\ applyPreset(rest, Recommended))
          \/ (active # old /\ presets' = rest /\ active' = active /\ ticked' = ticked)
      BY <1>3 DEF DeleteConfirmed, FallBack, ActiveStays
    <2>4. /\ rest \in PresetMap /\ rest[old] = Absent
          /\ \A n \in Name : n # old => rest[n] = presets[n]
      BY <2>1, <2>2 DEF PresetMap
    <2> HIDE DEF old, rest
    <2>5. \A n \in Name \ {Recommended} : rest[n] # Null
      BY <1>0, <2>4, AbsentAssumption DEF WellKept
    <2>6. /\ presets' \in PresetMap /\ active' \in Name /\ ticked' \in State
          /\ WellKept(presets', active')
          /\ Exists(presets, Recommended) => Exists(presets', Recommended)
      <3>1. CASE active = old /\ applyPreset(rest, Recommended)
        <4>1. /\ presets' \in PresetMap /\ active' = Recommended /\ ticked' \in State
              /\ Exists(presets', Recommended) /\ WellKept(presets', active')
          BY <2>4, <2>5, <3>1, ApplyPreset, NameAssumption
        <4> QED  BY <4>1, NameAssumption
      <3>2. CASE active # old /\ presets' = rest /\ active' = active /\ ticked' = ticked
        BY <1>0, <2>1, <2>2, <2>4, <2>5, <3>2, NameAssumption DEF WellKept, Exists
      <3> QED  BY <2>3, <3>1, <3>2
    <2> QED  BY <1>0, <1>3, <2>6 DEF DeleteConfirmed, BookTypeOK, BookInv
  <1> QED  BY <1>1, <1>2, <1>3

\* A queue without its first write.
LEMMA Tails ==
    ASSUME NEW q \in Seq(Settings), q # <<>>
    PROVE  /\ Len(q) \in Nat /\ Len(q) > 0 /\ DOMAIN q = 1 .. Len(q)
           /\ Tail(q) \in Seq(Settings) /\ Len(Tail(q)) = Len(q) - 1
           /\ DOMAIN Tail(q) = 1 .. Len(q) - 1
           /\ \A i \in 1 .. Len(q) - 1 : Tail(q)[i] = q[i + 1]
           /\ Head(q) = q[1] /\ q[1] \in Settings
           /\ Tail(q) = <<>> <=> Len(q) = 1
  <1>1. Len(q) \in Nat /\ Len(q) > 0 /\ DOMAIN q = 1 .. Len(q)
    OBVIOUS
  <1>2. /\ Tail(q) \in Seq(Settings) /\ Len(Tail(q)) = Len(q) - 1
        /\ \A i \in 1 .. Len(q) - 1 : Tail(q)[i] = q[i + 1]
    BY <1>1
  <1>3. DOMAIN Tail(q) = 1 .. Len(q) - 1
    BY <1>2
  <1>4. Head(q) = q[1] /\ q[1] \in Settings
    BY <1>1
  <1>5. Tail(q) = <<>> <=> Len(Tail(q)) = 0
    BY <1>2
  <1> QED  BY <1>1, <1>2, <1>3, <1>4, <1>5

\* The backend writes: what was sent first is what the next start finds, or
\* what it found, or nothing.
LEMMA WriteFileInv ==
    ASSUME FileTypeOK, FileInv, WriteFile
    PROVE  FileTypeOK' /\ FileInv'
  <1>1. pending # <<>> /\ pending' = Tail(pending) /\ pending \in Seq(Settings)
    BY DEF WriteFile, FileTypeOK
  <1>2. /\ pending' \in Seq(Settings)
        /\ \A i \in DOMAIN pending' : i + 1 \in DOMAIN pending /\ pending'[i] = pending[i + 1]
        /\ 1 \in DOMAIN pending /\ Head(pending) = pending[1] /\ Head(pending) \in Settings
    <2>1. \A i \in 1 .. Len(pending) - 1 : i + 1 \in 1 .. Len(pending)
      BY <1>1, Tails
    <2>2. pending' = Tail(pending) /\ 1 \in 1 .. Len(pending)
      BY <1>1, Tails
    <2>3. pending' \in Seq(Settings) /\ Head(pending) = pending[1] /\ Head(pending) \in Settings
      BY <1>1, Tails
    <2>4. /\ DOMAIN pending' = 1 .. Len(pending) - 1 /\ DOMAIN pending = 1 .. Len(pending)
          /\ \A i \in 1 .. Len(pending) - 1 : pending'[i] = pending[i + 1]
      BY <1>1, Tails
    <2>5. \A i \in DOMAIN pending' : i + 1 \in DOMAIN pending /\ pending'[i] = pending[i + 1]
      BY <2>1, <2>4, Zenon
    <2>6. 1 \in DOMAIN pending
      BY <2>2, <2>4, Zenon
    <2> QED  BY <2>3, <2>5, <2>6, Zenon
  <1>3. file' \in {Head(pending), file, Null} /\ fault' \in BOOLEAN /\ (pending' # <<>> => ~fault')
    <2>1. CASE file' = Head(pending) /\ fault' = fault
      BY <1>1, <2>1 DEF FileInv, FileTypeOK
    <2>2. CASE file' \in {file, Null} /\ fault' = (pending' = <<>>)
      <3>1. fault' \in BOOLEAN
        BY <2>2, Zenon
      <3>2. pending' # <<>> => ~fault'
        BY <2>2, Zenon
      <3> QED  BY <2>2, <3>1, <3>2
    <2> QED  BY <2>1, <2>2 DEF WriteFile
  <1>4. WellKept(DefaultSettings.presets, DefaultSettings.active)
    BY AbsentAssumption, NameAssumption DEF WellKept, DefaultSettings
  <1>5. WellKept(Loaded'.presets, Loaded'.active)
    BY <1>2, <1>3, <1>4 DEF Loaded, FileInv, DefaultSettings
  <1>6. \A i \in DOMAIN pending' : WellKept(pending'[i].presets, pending'[i].active)
    BY <1>2 DEF FileInv
  <1> QED  BY <1>2, <1>3, <1>5, <1>6 DEF FileTypeOK, FileInv

\* The next start: the book is what the file holds, or new.
LEMMA RestartBook ==
    ASSUME PresetsInv, Restart
    PROVE  /\ BookTypeOK' /\ WellKept(presets', active') /\ stage' # "ready"
           /\ FileTypeOK' /\ FileInv'
  <1>1. FileInv /\ FileTypeOK
    BY TypeParts DEF PresetsInv
  <1>2. file' \in Settings \cup {Null} /\ (file' = file \/ file' = Null) /\ pending' = <<>> /\ fault' \in BOOLEAN
    BY <1>1 DEF Restart, FileTypeOK
  <1>3. DefaultSettings \in Settings /\ WellKept(DefaultSettings.presets, DefaultSettings.active)
    BY AbsentAssumption, NameAssumption, LangAssumption DEF WellKept, DefaultSettings, Settings, State
  <1>4. Loaded' \in Settings /\ WellKept(Loaded'.presets, Loaded'.active)
    BY <1>1, <1>2, <1>3 DEF Loaded, DefaultSettings, FileInv
  <1>5. PICK with \in Settings : Opened(with) /\ WellKept(with.presets, with.active)
    BY <1>3, <1>4 DEF Restart
  <1>6. with.presets \in PresetMap /\ with.active \in Name /\ with.lang \in Lang
    BY DEF Settings, PresetMap
  <1>7. FileTypeOK' /\ FileInv'
    BY <1>2, <1>4 DEF FileTypeOK, FileInv
  <1> QED  BY <1>5, <1>6, <1>7 DEF Opened, BookTypeOK, State

-----------------------------------------------------------------------------
(* The dialogs and the activations that await them.                        *)

\* A preset that is asked about stays, as long as no preset goes.
LEMMA EditsStay ==
    ASSUME AwaitInv, EditInv, UNCHANGED <<editVars, dialogVars>>,
           \A n \in Name : Exists(presets, n) => Exists(presets', n)
    PROVE  AwaitInv' /\ EditInv'
  <1>1. UNCHANGED <<pc, arg, resuming, reply, dialogResolve, dialogMode>>
    BY DEF editVars, dialogVars
  <1>2. \A c \in Caller : Turn(c)' <=> Turn(c)
    BY <1>1 DEF Turn
  <1>3. AwaitInv'
    BY <1>1 DEF AwaitInv
  <1>4. EditInv'
    BY <1>1, <1>2 DEF EditInv
  <1> QED  BY <1>3, <1>4

\* A dialog is opened.
LEMMA AskInv ==
    ASSUME PresetsInv, NEW c \in Caller,
           \/ saveCurrentSelectionAsPreset(c)
           \/ renamePreset(c) \/ deletePreset(c)
    PROVE  DialogInv' /\ EditTypeOK' /\ AwaitInv' /\ EditInv'
  <1>0. DialogInv /\ EditTypeOK /\ BookTypeOK /\ WellKept(presets, active)
    BY TypeParts DEF PresetsInv, DialogInv, BookInv
  <1>1. PICK place \in {"save", "rename", "delete"}, name \in Name \cup {Null}, mode \in {"input", "confirm"} :
            /\ Ask(c, place, name, mode)
            /\ place = "delete" <=> mode = "confirm"
            /\ place # "save" => name = active /\ active # Recommended
    BY <1>0 DEF saveCurrentSelectionAsPreset, renamePreset, deletePreset, BookTypeOK
  <1>2. /\ pc' = [pc EXCEPT ![c] = place] /\ arg' = [arg EXCEPT ![c] = name]
        /\ resuming = NoCaller /\ resuming' = NoCaller /\ reply' = reply /\ presets' = presets
        /\ showDialog(c, mode)
    BY <1>1 DEF Ask, EventLoop, settingsVars
  <1>3. dialogResolve' = c /\ dialogMode' = mode
    BY <1>2 DEF showDialog
  <1>4. DialogInv'
    BY <1>0, <1>2, ShowDialogInv DEF Mode
  <1>5. EditTypeOK' /\ pc'[c] = place /\ arg'[c] = name
    BY <1>0, <1>2 DEF EditTypeOK
  <1>6. AwaitInv'
    BY <1>1, <1>2, <1>3, <1>5 DEF AwaitInv
  <1>7. \A d \in Caller : Turn(d)' => d = c
    BY <1>2, <1>3, NoCallerAssumption DEF Turn
  <1>8. place # "save" => name \in Name \ {Recommended} /\ Exists(presets', name)
    BY <1>0, <1>1, <1>2 DEF WellKept, BookTypeOK
  <1>9. EditInv'
    BY <1>5, <1>7, <1>8 DEF EditInv
  <1> QED  BY <1>4, <1>5, <1>6, <1>9

\* It is closed, and its answer is what its kind of dialog gives.
LEMMA CloseInv ==
    ASSUME PresetsInv, Close
    PROVE  DialogInv' /\ EditTypeOK' /\ AwaitInv' /\ EditInv'
  <1>0. DialogInv /\ EditTypeOK /\ DialogTypeOK
    BY TypeParts DEF PresetsInv, DialogInv
  <1>1. /\ closeDialog /\ resuming' = dialogResolve /\ pc' = pc /\ arg' = arg /\ presets' = presets
        /\ reply' \in IF dialogResolve = NoCaller THEN {Null}
                      ELSE IF dialogMode = "input" THEN Typed \cup {Null} ELSE BOOLEAN
    BY DEF Close, settingsVars
  <1>2. dialogResolve' = NoCaller
    BY <1>1 DEF closeDialog, ResolveSlot
  <1>3. DialogInv'
    BY <1>0, <1>1, CloseDialogInv
  <1>4. EditTypeOK'
    BY <1>0, <1>1 DEF EditTypeOK, DialogTypeOK
  <1>5. AwaitInv'
    BY <1>1, <1>2 DEF PresetsInv, AwaitInv
  <1>6. \A d \in Caller : Turn(d)' => Turn(d)
    BY <1>1, <1>2, NoCallerAssumption DEF Turn
  <1>7. EditInv'
    BY <1>1, <1>6 DEF PresetsInv, EditInv
  <1> QED  BY <1>3, <1>4, <1>5, <1>7

\* Its timer.
LEMMA TimerInv ==
    ASSUME PresetsInv, DialogTimer
    PROVE  DialogInv' /\ EditTypeOK' /\ AwaitInv' /\ EditInv'
  <1>0. DialogInv /\ EditTypeOK
    BY TypeParts DEF PresetsInv, DialogInv
  <1>1. UNCHANGED <<pc, arg, resuming, reply, presets, dialogResolve, dialogMode>>
    BY DEF DialogTimer, CloseTimerFires, settingsVars, editVars
  <1>2. DialogInv'
    BY <1>0, CloseTimerInv DEF DialogTimer
  <1>3. EditTypeOK'
    BY <1>0, <1>1 DEF EditTypeOK
  <1>4. AwaitInv'
    BY <1>1 DEF PresetsInv, AwaitInv
  <1>5. \A c \in Caller : Turn(c)' <=> Turn(c)
    BY <1>1 DEF Turn
  <1>6. EditInv'
    BY <1>1, <1>5 DEF PresetsInv, EditInv
  <1> QED  BY <1>2, <1>3, <1>4, <1>6

\* The resumed activation returns: nobody is awaiting an answer.
LEMMA ReturnInv ==
    ASSUME PresetsInv, NEW c \in Caller, resuming = c, Return(c), UNCHANGED dialogVars
    PROVE  DialogInv' /\ EditTypeOK' /\ AwaitInv' /\ EditInv'
  <1>0. DialogInv /\ EditTypeOK /\ dialogResolve = NoCaller
    BY AnswerType, TypeParts DEF PresetsInv, DialogInv
  <1>1. dialogResolve' = NoCaller /\ resuming' = NoCaller
    BY <1>0 DEF Return, dialogVars
  <1>2. DialogInv'
    BY <1>0, DialogUnchangedInv
  <1>3. EditTypeOK'
    BY <1>0 DEF EditTypeOK, Return
  <1>4. AwaitInv' /\ EditInv'
    BY <1>1, NoCallerAssumption DEF AwaitInv, EditInv, Turn
  <1> QED  BY <1>2, <1>3, <1>4

\* Or it opens the alert that the name is taken.
LEMMA SameInv ==
    ASSUME PresetsInv, NEW c \in Caller, resuming = c, RenameSame(c)
    PROVE  DialogInv' /\ EditTypeOK' /\ AwaitInv' /\ EditInv'
  <1>0. DialogInv /\ EditTypeOK
    BY AnswerType, TypeParts DEF PresetsInv, DialogInv
  <1>1. /\ pc' = [pc EXCEPT ![c] = "same"] /\ arg' = arg
        /\ resuming' = NoCaller /\ reply' = Null /\ showDialog(c, "alert")
    BY DEF RenameSame
  <1>2. dialogResolve' = c /\ dialogMode' = "alert"
    BY <1>1 DEF showDialog
  <1>3. DialogInv'
    BY <1>0, <1>1, ShowDialogInv DEF Mode
  <1>4. EditTypeOK' /\ pc'[c] = "same"
    BY <1>0, <1>1 DEF EditTypeOK
  <1>5. AwaitInv'
    BY <1>1, <1>2, <1>4 DEF AwaitInv
  <1>6. \A d \in Caller : Turn(d)' => d = c
    BY <1>1, <1>2, NoCallerAssumption DEF Turn
  <1>7. EditInv'
    BY <1>4, <1>6 DEF EditInv
  <1> QED  BY <1>3, <1>4, <1>5, <1>7

\* A restarted page has no dialog and nobody awaits one.
LEMMA RestartDialog ==
    ASSUME Restart
    PROVE  DialogInv' /\ EditTypeOK' /\ AwaitInv' /\ EditInv'
  <1>1. DialogReset
    BY DEF Restart, Opened
  <1>2. DialogTypeOK'
    BY <1>1 DEF DialogReset, DialogTypeOK, Mode
  <1>3. SlotMatchesDialog'
    BY <1>1, Zenon DEF DialogReset, SlotMatchesDialog
  <1>4. OverlayWillClear'
    BY <1>1, Zenon DEF DialogReset, OverlayWillClear
  <1>5. EditTypeOK'
    BY DEF Restart, Opened, EditTypeOK
  <1>6. AwaitInv' /\ EditInv'
    BY <1>1, NoCallerAssumption DEF Restart, Opened, DialogReset, AwaitInv, EditInv, Turn
  <1> QED  BY <1>2, <1>3, <1>4, <1>5, <1>6 DEF DialogInv

-----------------------------------------------------------------------------
(* The invariant.                                                          *)

\* It is the one of its parts.
LEMMA Parts ==
    ASSUME BookTypeOK', EditTypeOK', DialogInv', AwaitInv', EditInv', FileTypeOK', FileInv',
           WellKept(presets', active'), stage' = "ready" => Exists(presets', Recommended)
    PROVE  PresetsInv'
  <1>1. PresetsTypeOK'
    BY TypeParts DEF DialogInv, PresetsTypeOK, BookTypeOK, FileTypeOK, EditTypeOK, PresetMap, Settings
  <1>2. BookInv'
    BY DEF BookInv
  <1> QED  BY <1>1, <1>2 DEF PresetsInv, DialogInv

\* A step that leaves the presets alone.
LEMMA SameBook ==
    ASSUME PresetsInv, UNCHANGED <<settingsVars, pageVars, fileVars>>
    PROVE  /\ BookTypeOK' /\ WellKept(presets', active') /\ FileTypeOK' /\ FileInv'
           /\ stage' = "ready" => Exists(presets', Recommended)
  <1>1. BookTypeOK /\ FileTypeOK /\ BookInv /\ FileInv
    BY TypeParts DEF PresetsInv
  <1>2. /\ BookTypeOK' /\ WellKept(presets', active')
        /\ stage' = "ready" => Exists(presets', Recommended)
    BY <1>1 DEF BookTypeOK, BookInv, settingsVars, pageVars
  <1> QED  BY <1>1, <1>2, FileKept DEF FileStep

\* The first state.
LEMMA PresetsStart == Init => PresetsInv
  <1> SUFFICES ASSUME Init PROVE PresetsInv
    OBVIOUS
  <1>1. DialogInv
    BY DialogInitInv DEF Init
  <1>2. BookTypeOK
    BY NameAssumption, LangAssumption DEF Init, DefaultSettings, BookTypeOK, PresetMap, State
  <1>3. EditTypeOK
    BY DEF Init, EditTypeOK
  <1>4. AwaitInv /\ EditInv
    BY NoCallerAssumption DEF Init, DialogInit, AwaitInv, EditInv, Turn
  <1>5. BookInv /\ FileInv /\ FileTypeOK
    <2>1. WellKept(DefaultSettings.presets, DefaultSettings.active)
      BY AbsentAssumption, NameAssumption DEF WellKept, DefaultSettings
    <2>2. Loaded = DefaultSettings /\ stage # "ready" /\ pending = <<>> /\ fault = FALSE /\ file = Null
      BY DEF Init, Loaded
    <2>3. presets = DefaultSettings.presets /\ active = DefaultSettings.active
      BY DEF Init
    <2>4. BookInv
      BY <2>1, <2>2, <2>3 DEF BookInv
    <2>5. FileInv
      <3>1. DOMAIN pending = {}
        BY <2>2
      <3> QED  BY <2>1, <2>2, <3>1 DEF FileInv
    <2>6. FileTypeOK
      <3>1. <<>> \in Seq(Settings)
        OBVIOUS
      <3> QED  BY <2>2, <3>1 DEF FileTypeOK
    <2> QED  BY <2>4, <2>5, <2>6
  <1> QED  BY <1>1, <1>2, <1>3, <1>4, <1>5, TypeParts DEF PresetsInv, DialogInv

\* Every step keeps it.
LEMMA PresetsStep == PresetsInv /\ [Next]_vars => PresetsInv'
  <1> SUFFICES ASSUME PresetsInv, [Next]_vars PROVE PresetsInv'
    OBVIOUS
  <1>0. BookInv /\ FileInv /\ FileTypeOK /\ EditTypeOK /\ AwaitInv /\ EditInv /\ DialogInv
    BY TypeParts DEF PresetsInv, DialogInv
  <1>1. CASE PageStep
    <2>1. /\ BookTypeOK' /\ WellKept(presets', active')
          /\ \A n \in Name : Exists(presets, n) => Exists(presets', n)
          /\ stage' = "ready" => Exists(presets', Recommended)
          /\ UNCHANGED <<editVars, dialogVars>>
          /\ FileStep
      BY <1>1, PageBook
    <2>2. AwaitInv' /\ EditInv'
      BY <1>0, <2>1, EditsStay
    <2>3. DialogInv' /\ EditTypeOK'
      BY <1>0, <2>1, DialogUnchangedInv DEF EditTypeOK, editVars
    <2>4. FileTypeOK' /\ FileInv'
      BY <1>0, <2>1, FileKept
    <2> QED  BY <2>1, <2>2, <2>3, <2>4, Parts
  <1>2. ASSUME NEW c \in Caller,
               \/ saveCurrentSelectionAsPreset(c)
               \/ renamePreset(c) \/ deletePreset(c)
        PROVE  PresetsInv'
    <2>1. UNCHANGED <<settingsVars, pageVars, fileVars>>
      BY <1>2 DEF saveCurrentSelectionAsPreset, renamePreset, deletePreset, Ask
    <2>2. DialogInv' /\ EditTypeOK' /\ AwaitInv' /\ EditInv'
      BY <1>2, AskInv
    <2> QED  BY <1>0, <2>1, <2>2, SameBook, Parts
  <1>3. CASE Close \/ DialogTimer
    <2>1. UNCHANGED <<settingsVars, pageVars, fileVars>>
      BY <1>3 DEF Close, DialogTimer
    <2>2. DialogInv' /\ EditTypeOK' /\ AwaitInv' /\ EditInv'
      BY <1>3, CloseInv, TimerInv
    <2> QED  BY <1>0, <2>1, <2>2, SameBook, Parts
  <1>4. ASSUME NEW c \in Caller, Resume(c) PROVE PresetsInv'
    <2>0. resuming = c
      BY <1>4 DEF Resume
    <2>1. CASE SaveUnder(c) \/ RenameTo(c) \/ DeleteConfirmed(c)
      <3>1. /\ BookTypeOK' /\ WellKept(presets', active')
            /\ stage' = "ready" => Exists(presets', Recommended)
            /\ saveAppSettings
        BY <2>0, <2>1, ResumeBook
      <3>2. Return(c) /\ UNCHANGED dialogVars
        BY <2>1 DEF SaveUnder, RenameTo, RenameOverwrites, DeleteConfirmed
      <3>3. DialogInv' /\ EditTypeOK' /\ AwaitInv' /\ EditInv'
        BY <2>0, <3>2, ReturnInv
      <3>4. FileTypeOK' /\ FileInv'
        BY <1>0, <3>1, FileKept DEF FileStep
      <3> QED  BY <3>1, <3>3, <3>4, Parts
    <2>2. CASE GiveUp(c)
      <3>1. UNCHANGED <<settingsVars, pageVars, fileVars>> /\ Return(c) /\ UNCHANGED dialogVars
        BY <2>2 DEF GiveUp
      <3>2. DialogInv' /\ EditTypeOK' /\ AwaitInv' /\ EditInv'
        BY <2>0, <3>1, ReturnInv
      <3> QED  BY <1>0, <3>1, <3>2, SameBook, Parts
    <2>3. CASE RenameSame(c)
      <3>1. UNCHANGED <<settingsVars, pageVars, fileVars>>
        BY <2>3 DEF RenameSame
      <3>2. DialogInv' /\ EditTypeOK' /\ AwaitInv' /\ EditInv'
        BY <2>0, <2>3, SameInv
      <3> QED  BY <1>0, <3>1, <3>2, SameBook, Parts
    <2> QED  BY <1>4, <2>1, <2>2, <2>3 DEF Resume
  <1>5. CASE Restart
    BY <1>0, <1>5, RestartBook, RestartDialog, Parts
  <1>6. CASE UNCHANGED vars
    <2>1. UNCHANGED <<editVars, dialogVars>> /\ UNCHANGED <<settingsVars, pageVars, fileVars>>
      BY <1>6 DEF vars
    <2>2. \A n \in Name : Exists(presets, n) => Exists(presets', n)
      BY <2>1 DEF settingsVars
    <2>3. AwaitInv' /\ EditInv'
      BY <1>0, <2>1, <2>2, EditsStay
    <2>4. DialogInv' /\ EditTypeOK'
      BY <1>0, <2>1, DialogUnchangedInv DEF EditTypeOK, editVars
    <2> QED  BY <1>0, <2>1, <2>3, <2>4, SameBook, Parts
  <1>7. CASE WriteFile
    <2>1. UNCHANGED <<settingsVars, pageVars, editVars, dialogVars>>
      BY <1>7 DEF WriteFile
    <2>2. AwaitInv' /\ EditInv'
      BY <1>0, <2>1, EditsStay DEF settingsVars
    <2>3. DialogInv' /\ EditTypeOK'
      BY <1>0, <2>1, DialogUnchangedInv DEF EditTypeOK, editVars
    <2>4. /\ BookTypeOK' /\ WellKept(presets', active')
          /\ stage' = "ready" => Exists(presets', Recommended)
      BY <1>0, <2>1, TypeParts DEF PresetsInv, BookTypeOK, BookInv, settingsVars, pageVars
    <2> QED  BY <1>0, <1>7, <2>2, <2>3, <2>4, WriteFileInv, Parts
  <1> QED  BY <1>1, <1>2, <1>3, <1>4, <1>5, <1>6, <1>7 DEF Next, PageStep

\* The presets, the page, the file and the activations keep their types, however
\* dialogs overlap and whatever is answered.
THEOREM PresetsTypeCorrect == Spec => []PresetsTypeOK
  <1>1. PresetsInv => PresetsTypeOK
    BY DEF PresetsInv
  <1> QED  BY PresetsStart, PresetsStep, <1>1, PTL DEF Spec

\* On a page set up the preset in use exists, whatever was renamed, deleted or
\* chosen by activations whose dialogs overlapped, in this session or an earlier
\* one.
THEOREM ActiveUsableAlways == Spec => []ActiveUsable
  <1>1. PresetsInv => ActiveUsable
    BY DEF PresetsInv, BookInv, WellKept, ActiveUsable
  <1> QED  BY PresetsStart, PresetsStep, <1>1, PTL DEF Spec

-----------------------------------------------------------------------------
(* What the next start finds.                                              *)

\* The end of the startup supplies the recommended preset at most, and changes
\* nothing that is in use.
LEMMA ReadySupplies ==
    ASSUME PresetsInv, Ready
    PROVE  presets' = ensurePresetExists(presets, Recommended) /\ active' = active
  <1> DEFINE p == ensurePresetExists(presets, Recommended)
  <1>0. presets \in PresetMap /\ active \in Name /\ WellKept(presets, active)
    BY TypeParts DEF PresetsInv, BookTypeOK, BookInv
  <1>1. /\ p \in PresetMap /\ Exists(p, Recommended)
        /\ \A n \in Name : Exists(presets, n) => Exists(p, n)
    BY <1>0, EnsureExists, NameAssumption
  <1>2. Exists(p, active)
    BY <1>0, <1>1 DEF WellKept
  <1>3. applyPreset(p, active)
    BY <1>2 DEF Ready
  <1>4. presets' = ensurePresetExists(p, active) /\ active' = active
    BY <1>3 DEF applyPreset
  <1>5. presets' = p
    BY <1>2, <1>4 DEF ensurePresetExists
  <1> QED  BY <1>4, <1>5

\* The last write under way is at last what the file holds.
LEMMA StoredStays ==
    ASSUME PresetsInv, WriteFile
    PROVE  fault' \/ Stored' = Stored
  <1>1. /\ pending # <<>> /\ pending' = Tail(pending) /\ pending \in Seq(Settings)
        /\ Stored = pending[Len(pending)]
    BY TypeParts DEF PresetsInv, WriteFile, FileTypeOK, Stored
  <1>2. CASE Len(pending) = 1
    <2>1. pending' = <<>> /\ Head(pending) = pending[1] /\ pending[1] \in Settings
      BY <1>1, <1>2, Tails
    <2>2. fault' \/ file' = pending[1]
      BY <2>1 DEF WriteFile
    <2>3. Stored' = Loaded'
      BY <2>1 DEF Stored
    <2>4. file' = pending[1] => Loaded' = pending[1]
      BY <2>1, FileAssumption DEF Loaded
    <2> QED  BY <1>1, <1>2, <2>2, <2>3, <2>4
  <1>3. CASE Len(pending) # 1
    <2>1. /\ pending' # <<>> /\ Len(pending) \in Nat /\ Len(pending) > 1
          /\ Len(pending') = Len(pending) - 1
          /\ \A i \in 1 .. Len(pending) - 1 : pending'[i] = pending[i + 1]
      BY <1>1, <1>3, Tails
    <2>2. pending'[Len(pending')] = pending[Len(pending)]
      BY <2>1
    <2> QED  BY <1>1, <2>1, <2>2 DEF Stored
  <1> QED  BY <1>2, <1>3

\* Every step that changes a preset of the user saves it.
LEMMA KeptStep ==
    ASSUME PresetsInv, PresetsInv', EditsAreKept, [Next]_vars
    PROVE  EditsAreKept'
  <1>1. CASE saveAppSettings
    <2>1. Stored' = Current'
      BY <1>1, SaveSent, TypeParts DEF PresetsInv, Stored, PresetsTypeOK, BookTypeOK, PresetMap, Settings
    <2> QED  BY <2>1 DEF EditsAreKept, Current
  <1>2. CASE presets' = presets /\ UNCHANGED fileVars
    BY <1>2 DEF EditsAreKept, Stored, Loaded, fileVars
  <1>3. CASE Ready
    <2>1. presets' = ensurePresetExists(presets, Recommended) /\ UNCHANGED fileVars
      BY <1>3, ReadySupplies DEF Ready
    <2>2. \A n \in Name \ {Recommended} : presets'[n] = presets[n]
      BY <2>1, EnsureExists, NameAssumption, TypeParts DEF PresetsInv, BookTypeOK
    <2> QED  BY <2>1, <2>2 DEF EditsAreKept, Stored, Loaded, fileVars
  <1>4. CASE Restart
    <2>1. fault' \/ (pending' = <<>> /\ presets' = Loaded'.presets)
      BY <1>4 DEF Restart, Opened
    <2> QED  BY <2>1 DEF EditsAreKept, Stored
  <1>5. CASE \E name \in Name : applyPresetByName(name) \/ setManagedPresetName(name)
    BY <1>1, <1>2, <1>5 DEF applyPresetByName, setManagedPresetName
  <1>6. CASE \/ \E ids \in State : Tick(ids)
             \/ \E l \in Lang : applyLanguage(l)
             \/ SaveOther \/ Detected \/ Close \/ DialogTimer
    BY <1>1, <1>2, <1>6 DEF Tick, applyLanguage, SaveOther, Detected, Close, DialogTimer, settingsVars
  <1>7. CASE \E c \in Caller : \/ saveCurrentSelectionAsPreset(c)
                               \/ renamePreset(c) \/ deletePreset(c) \/ Resume(c)
    BY <1>1, <1>2, <1>7
       DEF saveCurrentSelectionAsPreset, renamePreset, deletePreset, Ask, Resume, SaveUnder,
           RenameTo, RenameOverwrites, RenameSame, DeleteConfirmed, GiveUp, settingsVars
  <1>8. CASE UNCHANGED vars
    BY <1>2, <1>8 DEF vars, settingsVars
  <1>9. CASE WriteFile
    <2>1. presets' = presets /\ (pending # <<>> => ~fault) /\ pending # <<>>
      BY <1>9 DEF WriteFile, settingsVars, PresetsInv, FileInv
    <2> QED  BY <1>9, <2>1, StoredStays DEF EditsAreKept
  <1> QED  BY <1>3, <1>4, <1>5, <1>6, <1>7, <1>8, <1>9 DEF Next

\* The last write under way, or the file when none is, has the user's own presets
\* as they are, unless that write or the reading of the file has failed.
THEOREM EditsAreKeptAlways == Spec => []EditsAreKept
  <1>1. Init => EditsAreKept
    BY DEF Init, EditsAreKept, Stored, Loaded, DefaultSettings
  <1> QED  BY PresetsStart, PresetsStep, KeptStep, <1>1, PTL DEF Spec

-----------------------------------------------------------------------------
(* The book.                                                               *)

\* What the book has under a name.
LEMMA BookHas ==
    ASSUME NEW p \in PresetMap
    PROVE  /\ Book(p) \in [Name -> State \cup {Absent}]
           /\ \A n \in Name : Book(p)[n] # Absent <=> Exists(p, n)
           /\ \A n \in Name : Exists(p, n) => Book(p)[n] = p[n] /\ p[n] \in State
  BY Selections DEF Book, PresetMap, Exists

\* The same with one entry changed.
LEMMA BookExcept ==
    ASSUME NEW p \in PresetMap, NEW n \in Name, NEW s \in State \cup {Absent}
    PROVE  /\ [p EXCEPT ![n] = s] \in PresetMap
           /\ Book([p EXCEPT ![n] = s]) = [Book(p) EXCEPT ![n] = s]
  BY Selections DEF Book, PresetMap, Exists

\* ensurePresetExists of the recommended preset supplies the book with it.
LEMMA BookSupplied ==
    ASSUME NEW p \in PresetMap
    PROVE  Book(ensurePresetExists(p, Recommended)) \in Presets!Supplied(Book(p))
  <1>1. Recommended \in Name
    BY NameAssumption
  <1>2. CASE Exists(p, Recommended)
    BY <1>1, <1>2, EnsureExists, BookHas DEF Presets!Supplied
  <1>3. CASE ~Exists(p, Recommended)
    <2>1. PICK s \in State : ensurePresetExists(p, Recommended) = [p EXCEPT ![Recommended] = s]
      BY <1>1, <1>3, EnsureExists
    <2>2. Book(ensurePresetExists(p, Recommended)) = [Book(p) EXCEPT ![Recommended] = s]
      <3>1. s \in State \cup {Absent}
        OBVIOUS
      <3>2. Book([p EXCEPT ![Recommended] = s]) = [Book(p) EXCEPT ![Recommended] = s]
        BY <1>1, <3>1, BookExcept
      <3> QED  BY <2>1, <3>2
    <2>3. Book(p)[Recommended] = Absent
      BY <1>1, <1>3, BookHas
    <2> QED  BY <2>2, <2>3 DEF Presets!Supplied
  <1> QED  BY <1>2, <1>3

\* The editions under way, with one more and with the first one gone.
LEMMA EditionsSent ==
    ASSUME NEW q \in Seq(Settings), NEW e \in Settings
    PROVE  Editions(Append(q, e)) = Append(Editions(q), Edition(e))
  <1> DEFINE m == Append(q, e)
  <1>1. /\ m \in Seq(Settings) /\ Len(m) = Len(q) + 1 /\ m[Len(q) + 1] = e
        /\ DOMAIN m = 1 .. Len(q) + 1 /\ DOMAIN q = 1 .. Len(q)
        /\ \A i \in 1 .. Len(q) : m[i] = q[i]
    OBVIOUS
  <1> HIDE DEF m
  <1>2. Editions(m) = [i \in 1 .. Len(q) + 1 |-> Edition(m[i])] /\ Editions(q) = [i \in 1 .. Len(q) |-> Edition(q[i])]
    BY <1>1 DEF Editions
  <1> DEFINE E == {Edition(s) : s \in Settings}
             f == [i \in 1 .. Len(q) |-> Edition(q[i])]
             g == [i \in 1 .. Len(q) + 1 |-> Edition(m[i])]
  <1>3. f \in Seq(E) /\ Len(f) = Len(q) /\ Edition(e) \in E
    <2>1. \A i \in 1 .. Len(q) : Edition(q[i]) \in E
      OBVIOUS
    <2>2. f \in [1 .. Len(q) -> E]
      BY <2>1
    <2> QED  BY <2>2
  <1>4. g \in Seq(E) /\ Len(g) = Len(q) + 1
    <2>1. \A i \in 1 .. Len(q) + 1 : Edition(m[i]) \in E
      BY <1>1
    <2>2. g \in [1 .. Len(q) + 1 -> E]
      BY <2>1
    <2> QED  BY <2>2
  <1>5. /\ \A i \in 1 .. Len(q) : g[i] = f[i]
        /\ g[Len(q) + 1] = Edition(e)
    BY <1>1
  <1> HIDE DEF E, f, g
  <1>6. Append(f, Edition(e)) = g
    BY <1>3, <1>4, <1>5
  <1> QED  BY <1>2, <1>6 DEF f, g, m

LEMMA EditionsTail ==
    ASSUME NEW q \in Seq(Settings), q # <<>>
    PROVE  /\ Editions(q) # <<>>
           /\ Editions(Tail(q)) = Tail(Editions(q))
           /\ Head(Editions(q)) = Edition(Head(q))
  <1> DEFINE m == Tail(q)
             n == Len(q)
  <1>1. /\ m \in Seq(Settings) /\ n \in Nat /\ n > 0 /\ Head(q) = q[1]
        /\ DOMAIN m = 1 .. n - 1 /\ DOMAIN q = 1 .. n
        /\ \A i \in 1 .. n - 1 : m[i] = q[i + 1]
    OBVIOUS
  <1> HIDE DEF m
  <1> DEFINE E == {Edition(s) : s \in Settings}
             f == [i \in 1 .. n |-> Edition(q[i])]
             g == [i \in 1 .. n - 1 |-> Edition(m[i])]
  <1>2. Editions(m) = g /\ Editions(q) = f
    BY <1>1 DEF Editions
  <1>3. f \in Seq(E) /\ Len(f) = n
    <2>1. \A i \in 1 .. n : Edition(q[i]) \in E
      BY <1>1
    <2>2. f \in [1 .. n -> E]
      BY <2>1
    <2> QED  BY <1>1, <2>2
  <1>4. g \in Seq(E) /\ Len(g) = n - 1
    <2>1. \A i \in 1 .. n - 1 : Edition(m[i]) \in E
      BY <1>1
    <2>2. g \in [1 .. n - 1 -> E]
      BY <2>1
    <2> QED  BY <1>1, <2>2
  <1>5. (\A i \in 1 .. n - 1 : g[i] = f[i + 1]) /\ f[1] = Edition(q[1])
    BY <1>1
  <1> HIDE DEF E, f, g, n
  <1>6. Tail(f) = g /\ Head(f) = f[1] /\ f # <<>>
    BY <1>1, <1>3, <1>4, <1>5
  <1> QED  BY <1>1, <1>2, <1>5, <1>6 DEF m

\* A save is the book's keeping.
LEMMA SaveKeeps ==
    ASSUME PresetsTypeOK, PresetsTypeOK', saveAppSettings
    PROVE  Presets!Keep
  <1>1. /\ Current' \in Settings /\ pending' = Append(pending, Current') /\ file' = file
        /\ pending \in Seq(Settings)
    <2>1. FileTypeOK /\ BookTypeOK'
      BY TypeParts DEF PresetsTypeOK, BookTypeOK, PresetMap, Settings
    <2> QED  BY <2>1, SaveSent DEF FileTypeOK
  <1>2. Edition(Current') = [book |-> Book(presets'), current |-> active']
    BY DEF Edition, Current
  <1>3. Editions(pending') = Append(Editions(pending), Edition(Current'))
    BY <1>1, EditionsSent
  <1>4. Edition(Loaded') = Edition(Loaded)
    BY <1>1 DEF Loaded, DefaultSettings
  <1> QED  BY <1>2, <1>3, <1>4 DEF Presets!Keep

\* The book is not touched, or kept again.
LEMMA BookSame ==
    ASSUME presets' = presets, active' = active, UNCHANGED fileVars
    PROVE  UNCHANGED Presets!vars
  BY DEF Presets!vars, Loaded, fileVars

\* A save of a book that did not change is a step that keeps all of it.
LEMMA BookKeptAll ==
    ASSUME PresetsTypeOK, PresetsTypeOK', presets' = presets, active' = active, saveAppSettings
    PROVE  Presets!Next
  <1>1. Presets!Keep
    BY SaveKeeps
  <1>2. Book(presets') = Book(presets)
    OBVIOUS
  <1>3. Presets!KeepAll
    BY <1>1, <1>2 DEF Presets!KeepAll
  <1> QED  BY <1>3 DEF Presets!Next

\* A preset is applied: its name is used.
LEMMA BookUse ==
    ASSUME PresetsInv, PresetsInv', NEW name \in Name, applyPresetByName(name)
    PROVE  Presets!Next
  <1>0. presets \in PresetMap /\ WellKept(presets, active)
    BY TypeParts DEF PresetsInv, BookTypeOK, BookInv
  <1>1. /\ presets[name] # Absent \/ name \in {active, Recommended}
        /\ presets' = ensurePresetExists(presets, name) /\ active' = name /\ saveAppSettings
    BY DEF applyPresetByName, applyPreset
  <1>2. Presets!Keep
    BY <1>1, SaveKeeps DEF PresetsInv
  <1>3. Presets!Use(name)
    <2>1. CASE name = Recommended
      BY <1>0, <1>1, <1>2, <2>1, BookSupplied DEF Presets!Use, Presets!Known
    <2>2. CASE name # Recommended
      <3>1. Exists(presets, name)
        BY <1>0, <1>1, <2>2 DEF WellKept, Exists
      <3>2. presets' = presets
        BY <1>0, <1>1, <3>1, EnsureExists
      <3>3. Book(presets)[name] # Absent /\ Book(presets') = Book(presets)
        BY <1>0, <3>1, <3>2, BookHas
      <3> QED  BY <1>1, <1>2, <2>2, <3>3 DEF Presets!Use, Presets!Known
    <2> QED  BY <2>1, <2>2
  <1> QED  BY <1>3 DEF Presets!Next

\* A name is chosen in the manage menu.
LEMMA BookChoose ==
    ASSUME PresetsInv, NEW name \in Name, setManagedPresetName(name)
    PROVE  Presets!Next
  <1>0. presets \in PresetMap /\ WellKept(presets, active)
    BY TypeParts DEF PresetsInv, BookTypeOK, BookInv
  <1>1. presets' = presets /\ active' = name /\ UNCHANGED fileVars /\ presets[name] # Absent
    BY DEF setManagedPresetName
  <1>2. name = Recommended \/ Book(presets)[name] # Absent
    BY <1>0, <1>1, BookHas DEF WellKept, Exists
  <1>3. Presets!Choose(name)
    BY <1>1, <1>2 DEF Presets!Choose, Presets!Known, Loaded, fileVars
  <1> QED  BY <1>3 DEF Presets!Next

\* What is ticked is stored under a name.
LEMMA BookPut ==
    ASSUME PresetsInv, PresetsInv', NEW c \in Caller, resuming = c, SaveUnder(c)
    PROVE  Presets!Next
  <1>0. presets \in PresetMap /\ ticked \in State
    BY TypeParts DEF PresetsInv, BookTypeOK
  <1>1. /\ reply \in Name /\ presets' = [presets EXCEPT ![reply] = ticked]
        /\ active' = reply /\ saveAppSettings
    BY AnswerType DEF SaveUnder
  <1>2. Presets!Keep
    BY <1>1, SaveKeeps DEF PresetsInv
  <1>3. ticked \in State \cup {Absent}
    BY <1>0
  <1>4. Book(presets') = [Book(presets) EXCEPT ![reply] = ticked]
    BY <1>0, <1>1, <1>3, BookExcept
  <1>5. Presets!Put(reply, ticked)
    BY <1>1, <1>2, <1>4 DEF Presets!Put
  <1> QED  BY <1>0, <1>1, <1>5 DEF Presets!Next

\* A preset is renamed: it is still there, and the name is still free.
LEMMA BookRename ==
    ASSUME PresetsInv, PresetsInv', NEW c \in Caller, resuming = c, RenameTo(c)
    PROVE  Presets!Next
  <1> DEFINE old == arg[c]
             new == reply
  <1>0. presets \in PresetMap
    BY TypeParts DEF PresetsInv, BookTypeOK
  <1>1. /\ old \in Name /\ old # Recommended /\ Exists(presets, old)
        /\ new \in Name /\ new # old /\ ~Exists(presets, new)
        /\ presets' = [presets EXCEPT ![new] = presets[old], ![old] = Absent]
        /\ active' = (IF active = old THEN new ELSE active)
        /\ saveAppSettings
    BY AnswerType DEF RenameTo, RenameOverwrites, Renamed
  <1> HIDE DEF old, new
  <1>2. Presets!Keep
    BY <1>1, SaveKeeps DEF PresetsInv
  <1>3. Book(presets)[old] = presets[old] /\ presets[old] \in State
    BY <1>0, <1>1, BookHas
  <1>4. Book(presets') = [Book(presets) EXCEPT ![new] = Book(presets)[old], ![old] = Absent]
    <2> DEFINE p == [presets EXCEPT ![new] = presets[old]]
    <2>1. presets[old] \in State \cup {Absent} /\ Absent \in State \cup {Absent}
      BY <1>3
    <2>2. p \in PresetMap /\ Book(p) = [Book(presets) EXCEPT ![new] = presets[old]]
      BY <1>0, <1>1, <2>1, BookExcept
    <2>3. presets' = [p EXCEPT ![old] = Absent]
      BY <1>1
    <2> HIDE DEF p
    <2>4. Book(presets') = [Book(p) EXCEPT ![old] = Absent]
      <3>1. old \in Name /\ Absent \in State \cup {Absent} /\ p \in PresetMap
        BY <1>1, <2>2
      <3>2. Book([p EXCEPT ![old] = Absent]) = [Book(p) EXCEPT ![old] = Absent]
        BY <3>1, BookExcept
      <3> QED  BY <2>3, <3>2
    <2> QED  BY <1>3, <2>2, <2>4
  <1>5. Book(presets)[old] # Absent /\ Book(presets)[new] = Absent
    BY <1>0, <1>1, BookHas
  <1>6. Presets!Rename(old, new)
    BY <1>1, <1>2, <1>4, <1>5 DEF Presets!Rename
  <1> QED  BY <1>1, <1>6 DEF Presets!Next

\* A preset is deleted: it is still there.
LEMMA BookDelete ==
    ASSUME PresetsInv, PresetsInv', NEW c \in Caller, resuming = c, DeleteConfirmed(c)
    PROVE  Presets!Next
  <1> DEFINE old == arg[c]
             rest == [presets EXCEPT ![old] = Absent]
  <1>0. presets \in PresetMap
    BY TypeParts DEF PresetsInv, BookTypeOK
  <1>1. old \in Name /\ old # Recommended /\ Exists(presets, old) /\ saveAppSettings
    BY AnswerType DEF DeleteConfirmed
  <1>2. \/ (active = old /\ active' = Recommended /\ presets' = ensurePresetExists(rest, Recommended))
        \/ (active # old /\ active' = active /\ presets' = rest)
    BY DEF DeleteConfirmed, FallBack, ActiveStays, applyPreset
  <1>3. Absent \in State \cup {Absent}
    OBVIOUS
  <1> HIDE DEF old
  <1>4. rest \in PresetMap /\ Book(rest) = [Book(presets) EXCEPT ![old] = Absent]
    BY <1>0, <1>1, <1>3, BookExcept
  <1> HIDE DEF rest
  <1>5. Presets!Keep
    BY <1>1, SaveKeeps DEF PresetsInv
  <1>6. Book(presets)[old] # Absent
    BY <1>0, <1>1, BookHas
  <1>7. IF active = old THEN active' = Recommended /\ Book(presets') \in Presets!Supplied(Book(rest))
                        ELSE active' = active /\ Book(presets') = Book(rest)
    BY <1>2, <1>4, BookSupplied
  <1>8. Presets!Delete(old)
    BY <1>1, <1>4, <1>5, <1>6, <1>7 DEF Presets!Delete
  <1> QED  BY <1>1, <1>8 DEF Presets!Next

\* The program supplies the recommended preset.
LEMMA BookSupply ==
    ASSUME PresetsInv, Ready
    PROVE  Presets!Next
  <1>0. presets \in PresetMap
    BY TypeParts DEF PresetsInv, BookTypeOK
  <1>1. presets' = ensurePresetExists(presets, Recommended) /\ active' = active /\ UNCHANGED fileVars
    BY ReadySupplies DEF Ready
  <1>2. Book(presets') \in Presets!Supplied(Book(presets))
    BY <1>0, <1>1, BookSupplied
  <1>3. Presets!Supply
    BY <1>1, <1>2 DEF Presets!Supply, Loaded, fileVars
  <1> QED  BY <1>3 DEF Presets!Next

\* The settings the page declares are the blank book's.
LEMMA DefaultBlank == Edition(DefaultSettings) = Presets!BlankEdition
  <1>1. Book(DefaultSettings.presets) = [n \in Name |-> Absent]
    BY DEF Book, Exists, DefaultSettings
  <1>2. DefaultSettings.active = Recommended
    BY DEF DefaultSettings
  <1> QED  BY <1>1, <1>2 DEF Edition, Presets!BlankEdition, Presets!Blank

\* A write is done, or fails.
LEMMA BookReplace ==
    ASSUME PresetsInv, WriteFile
    PROVE  Presets!Next
  <1>1. /\ pending # <<>> /\ pending' = Tail(pending) /\ pending \in Seq(Settings)
        /\ presets' = presets /\ active' = active
        /\ file' \in {Head(pending), file, Null}
    BY TypeParts DEF PresetsInv, WriteFile, FileTypeOK, settingsVars
  <1>2. Head(pending) \in Settings
    BY <1>1
  <1>3. Loaded' \in {Head(pending), Loaded, DefaultSettings}
    BY <1>1, <1>2, FileAssumption DEF Loaded, DefaultSettings
  <1>4. Edition(Loaded') \in {Head(Editions(pending)), Edition(Loaded), Presets!BlankEdition}
    BY <1>1, <1>3, EditionsTail, DefaultBlank
  <1>5. Presets!Replace
    BY <1>1, <1>4, EditionsTail DEF Presets!Replace
  <1> QED  BY <1>5 DEF Presets!Next

\* The page is opened again.
LEMMA BookReopen ==
    ASSUME PresetsInv, Restart
    PROVE  Presets!Next
  <1>1. pending' = <<>> /\ pending \in Seq(Settings) /\ file' \in {file} \cup (IF pending = <<>> THEN {} ELSE {Null})
    BY TypeParts DEF PresetsInv, FileTypeOK, Restart
  <1>2. Editions(pending') = <<>>
    BY <1>1 DEF Editions
  <1>3. Editions(pending) # <<>> \/ pending = <<>>
    BY <1>1, EditionsTail
  <1>4. Loaded' = Loaded \/ (pending # <<>> /\ Loaded' = DefaultSettings)
    BY <1>1 DEF Loaded, DefaultSettings
  <1>5. Edition(Loaded') = Edition(Loaded)
        \/ (Editions(pending) # <<>> /\ Edition(Loaded') = Presets!BlankEdition)
    BY <1>3, <1>4, DefaultBlank
  <1>6. \/ presets' = Loaded'.presets /\ active' = Loaded'.active
        \/ presets' = DefaultSettings.presets /\ active' = DefaultSettings.active
    BY DEF Restart, Opened
  <1>7. \E found \in {Edition(Loaded'), Presets!BlankEdition} :
            Book(presets') = found.book /\ active' = found.current
    BY <1>6, DefaultBlank DEF Edition
  <1>8. Presets!Reopen
    BY <1>2, <1>5, <1>7 DEF Presets!Reopen
  <1> QED  BY <1>8 DEF Presets!Next

\* Every step is one edit of the book or none.
LEMMA BookStep ==
    ASSUME PresetsInv, PresetsInv', [Next]_vars
    PROVE  Presets!Next \/ UNCHANGED Presets!vars
  <1>1. CASE \E name \in Name : applyPresetByName(name) \/ setManagedPresetName(name)
    BY <1>1, BookUse, BookChoose
  <1>2. CASE (\E l \in Lang : applyLanguage(l)) \/ SaveOther
    <2>1. presets' = presets /\ active' = active /\ saveAppSettings
      BY <1>2 DEF applyLanguage, SaveOther, settingsVars
    <2> QED  BY <2>1, BookKeptAll DEF PresetsInv
  <1>3. CASE (\E ids \in State : Tick(ids)) \/ Detected \/ Close \/ DialogTimer
    BY <1>3, BookSame DEF Tick, Detected, Close, DialogTimer, settingsVars
  <1>4. CASE \E c \in Caller : \/ saveCurrentSelectionAsPreset(c)
                               \/ renamePreset(c) \/ deletePreset(c)
    BY <1>4, BookSame DEF saveCurrentSelectionAsPreset, renamePreset, deletePreset, Ask, settingsVars
  <1>5. ASSUME NEW c \in Caller, Resume(c) PROVE Presets!Next \/ UNCHANGED Presets!vars
    <2>1. resuming = c
      BY <1>5 DEF Resume
    <2>2. CASE SaveUnder(c) \/ RenameTo(c) \/ DeleteConfirmed(c)
      BY <2>1, <2>2, BookPut, BookRename, BookDelete
    <2>3. CASE RenameSame(c) \/ GiveUp(c)
      BY <2>3, BookSame DEF RenameSame, GiveUp, settingsVars
    <2> QED  BY <1>5, <2>2, <2>3 DEF Resume
  <1>6. CASE Ready \/ WriteFile \/ Restart
    BY <1>6, BookSupply, BookReplace, BookReopen
  <1>7. CASE UNCHANGED vars
    BY <1>7, BookSame DEF vars, settingsVars
  <1> QED  BY <1>1, <1>2, <1>3, <1>4, <1>5, <1>6, <1>7 DEF Next

\* The first start finds an empty book.
LEMMA BookStart == Init => Presets!Init
  <1> SUFFICES ASSUME Init PROVE Presets!Init
    OBVIOUS
  <1>1. /\ presets = DefaultSettings.presets /\ active = Recommended
        /\ Loaded = DefaultSettings /\ pending = <<>>
    BY DEF Init, DefaultSettings, Loaded
  <1>2. Editions(pending) = <<>>
    BY <1>1 DEF Editions
  <1>3. Book(presets) = Presets!Blank
    BY <1>1, DefaultBlank DEF Edition, Presets!BlankEdition
  <1> QED  BY <1>1, <1>2, <1>3, DefaultBlank DEF Presets!Init

\* The presets implement the book: however dialogs overlap, whichever writes fail
\* and whenever the page restarts, every step is one edit of it, on its way to
\* the file, or changes nothing in it, and the file holds an edition or none.
THEOREM PresetsImplementBook == Spec => ImplementsPresetBook
  <1>1. PresetsInv /\ PresetsInv' /\ [Next]_vars => [Presets!Next]_(Presets!vars)
    BY BookStep
  <1> QED  BY PresetsStart, PresetsStep, BookStart, <1>1, PTL DEF Spec, ImplementsPresetBook, Presets!Spec

=============================================================================
