------------------------------ MODULE Settings ------------------------------
(***************************************************************************)
(* The settings from the start of the page on (src/src/index.html,         *)
(* 2250-2287 and 3426-3463): loaded by initApp, changed by the controls    *)
(* of modules Accent and Languages, and saved to a file that may be        *)
(* unreadable, written in part or not at all, on a page that may be closed *)
(* at any moment.                                                          *)
(*                                                                         *)
(* get_settings_path, read_file_content and write_file_content are         *)
(* synchronous commands: the backend runs them one at a time in the order  *)
(* sent (queue).  fs::write truncates the file and writes it anew.         *)
(***************************************************************************)
EXTENDS Accent, Languages

CONSTANTS
    NoFile, Torn,   \* no settings file, one that does not parse
    MaxPending      \* a bound: nobody does anything more while this many
                    \* requests are under way

VARIABLES
    stage,      \* what initApp awaits: the application's path, the settings'
                \* path, their text, the language pack; then "ready", or "dead"
    pathKnown,  \* window._settingsPath
    queue,      \* the commands the backend has yet to run
    file,       \* settings.json
    fault       \* the page and the file may differ for a reason the code does
                \* not handle: a read or a write has failed since the last write
                \* that did not, or a save was asked for before the settings
                \* were there

fileVars == <<pathKnown, queue, file, fault>>
vars == <<accentVars, languageVars, stage, fileVars>>

Saved == [accent : Color, follow : BOOLEAN, sys : Color, lang : Lang]

Current == [accent |-> accent, follow |-> follow, sys |-> sys, lang |-> lang]

Default ==
    [accent |-> DefaultColor, follow |-> FALSE, sys |-> DefaultColor, lang |-> DefaultLang]

\* A command by its name; what a write writes, and whether that was made before
\* the settings were there.
Command ==
    [cmd : {"app path", "settings path", "path to save", "read"}] \cup
    [cmd : {"write"}, data : Saved, early : BOOLEAN]

NoFileYet == {NoFile, Torn}

ASSUME FileAssumption == NoFileYet \cap Saved = {}

SettingsTypeOK ==
    /\ AccentTypeOK
    /\ LanguageTypeOK
    /\ stage \in {"app path", "settings path", "read", "language", "ready", "dead"}
    /\ pathKnown \in BOOLEAN
    /\ queue \in Seq(Command)
    /\ file \in NoFileYet \cup Saved
    /\ fault \in BOOLEAN

Init ==
    /\ AccentInit
    /\ LanguageInit
    /\ stage = "app path"
    /\ pathKnown = FALSE
    /\ queue = <<[cmd |-> "app path"]>>
    /\ file = NoFile
    /\ fault = FALSE

Loaded == stage \in {"language", "ready", "dead"}

-----------------------------------------------------------------------------
(* saveAppSettings: the text is made when the write is sent, and a write is *)
(* sent at once if the path is known.                                       *)

Write(now) == [cmd |-> "write", data |-> now, early |-> ~Loaded]

SavedAsItWas ==
    /\ queue' = Append(queue, IF pathKnown THEN Write(Current) ELSE [cmd |-> "path to save"])
    /\ fault' = (fault \/ ~Loaded)
    /\ UNCHANGED <<pathKnown, file>>

saveAppSettings ==
    /\ queue' = Append(queue, IF pathKnown THEN Write(Current') ELSE [cmd |-> "path to save"])
    /\ fault' = (fault \/ ~Loaded)
    /\ UNCHANGED <<pathKnown, file>>

-----------------------------------------------------------------------------
(* The backend, with the page's continuation of each answer.               *)

Pop(more) == queue' = Tail(queue) \o more

\* The first answers of initApp: the application's path (the read of
\* Configs.NCc that follows only sets the title), the settings'
\* path, or none: then the defaults stay.
AppPath ==
    /\ Head(queue).cmd = "app path"
    /\ Pop(<<[cmd |-> "settings path"]>>)
    /\ stage' = "settings path"
    /\ UNCHANGED <<accentVars, languageVars, pathKnown, file, fault>>

SettingsPath ==
    /\ Head(queue).cmd = "settings path"
    /\ \/ /\ Pop(<<[cmd |-> "read"]>>)
          /\ stage' = "read"
          /\ pathKnown' = TRUE
          /\ UNCHANGED fault
       \/ /\ Pop(<<>>)
          /\ stage' = "language"
          /\ fault' = (fault \/ file \notin NoFileYet)
          /\ UNCHANGED pathKnown
    /\ UNCHANGED <<accentVars, languageVars, file>>

\* loadAppSettings has the text, or has not: then the defaults stay, and initApp
\* goes on to the language either way.
TakeSettings(text) ==
    IF text \in NoFileYet
      THEN UNCHANGED <<accent, follow, sys, lang>>
      ELSE /\ accent' = text.accent
           /\ follow' = text.follow
           /\ sys' = text.sys
           /\ lang' = text.lang

\* The same with a text that does not parse rejecting loadAppSettings.
ParseNotCaught ==
    /\ Head(queue).cmd = "read"
    /\ Pop(<<>>)
    /\ TakeSettings(file)
    /\ stage' = IF file = Torn THEN stage ELSE "language"
    /\ UNCHANGED <<css, asks, polls>>
    /\ UNCHANGED <<cache, loads, listing, fetching, label, chosen, hasty>>
    /\ UNCHANGED <<pathKnown, file, fault>>

ReadSettings ==
    /\ Head(queue).cmd = "read"
    /\ Pop(<<>>)
    /\ stage' = "language"
    /\ \/ TakeSettings(file) /\ UNCHANGED fault
       \/ /\ file \notin NoFileYet
          /\ TakeSettings(NoFile)
          /\ fault' = TRUE
    /\ UNCHANGED <<css, asks, polls>>
    /\ UNCHANGED <<cache, loads, listing, fetching, label, chosen, hasty>>
    /\ UNCHANGED <<pathKnown, file>>

\* The path a save has waited for, if it comes.
PathToSave ==
    /\ Head(queue).cmd = "path to save"
    /\ \/ pathKnown' = TRUE /\ Pop(<<Write(Current)>>) /\ UNCHANGED fault
       \/ UNCHANGED pathKnown /\ Pop(<<>>) /\ fault' = TRUE
    /\ UNCHANGED <<accentVars, languageVars, stage, file>>

\* fs::write, which may fail before or after it has truncated the file; the
\* error is caught and dropped.
WriteSettings ==
    /\ Head(queue).cmd = "write"
    /\ Pop(<<>>)
    /\ \/ /\ file' = Head(queue).data
          /\ fault' = Head(queue).early
       \/ file' \in {file, Torn} /\ fault' = TRUE
    /\ UNCHANGED <<accentVars, languageVars, stage, pathKnown>>

Backend ==
    /\ queue # <<>>
    /\ AppPath \/ SettingsPath \/ ReadSettings \/ PathToSave \/ WriteSettings

-----------------------------------------------------------------------------
(* initApp after the settings.                                             *)

\* The language pack is there: buildUI and setupSettingsControls, which calls
\* syncAccentColor itself and through applyThemeMode, and leaves accentColor in
\* the colour input until an answer replaces it.
SetUp ==
    /\ stage = "language"
    /\ FirstPack
    /\ stage' = "ready"
    /\ syncAccentColor(follow, accent, 2)
    /\ UNCHANGED <<accentSettings, polls, fileVars>>

\* It is not, and initApp ends there.
NoLanguage ==
    /\ stage = "language"
    /\ stage' = "dead"
    /\ UNCHANGED <<accentVars, languageVars, fileVars>>

-----------------------------------------------------------------------------
(* The user, on a page set up; the preset buttons and the system's theme    *)
(* change on any.                                                           *)

Ready == stage = "ready"

Room ==
    asks + polls + Len(queue) + Len(listing) + Cardinality(loads \cup fetching) < MaxPending

SetColor(color) ==
    /\ Ready /\ Room
    /\ applyAccentColor(color)
    /\ UNCHANGED <<languageVars, stage>>
    /\ saveAppSettings

SetFollow ==
    /\ Ready /\ Room
    /\ ToggleFollow
    /\ UNCHANGED <<languageVars, stage>>
    /\ saveAppSettings

\* applyThemeMode(mode, true).
SetTheme ==
    /\ Ready /\ Room
    /\ ThemeApplied(1)
    /\ UNCHANGED <<languageVars, stage>>
    /\ saveAppSettings

\* prefers-color-scheme changes under a theme that follows the system: the
\* listeners for dark and for light both hear of it.
SystemTheme ==
    /\ Room
    /\ ThemeApplied(2)
    /\ UNCHANGED <<languageVars, stage, fileVars>>

\* A preset's button: what it changes is module Presets', its save is not.
SavePreset ==
    /\ Room
    /\ UNCHANGED <<accentVars, languageVars, stage>>
    /\ saveAppSettings

ChooseLanguage(l) ==
    /\ Room
    /\ UNCHANGED <<accentVars, stage>>
    /\ \/ ChooseCached(l) /\ saveAppSettings
       \/ ChooseUncached(l) /\ UNCHANGED fileVars

LanguageArrives(l) ==
    /\ UNCHANGED <<accentVars, stage>>
    /\ \/ ChosenArrives(l) /\ saveAppSettings
       \/ ChosenFails(l) /\ UNCHANGED fileVars

Refreshed ==
    /\ Listed \/ \E l \in Lang : PackArrives(l) \/ Fetched(l)
    /\ UNCHANGED <<accentVars, stage, fileVars>>

AccentEvents ==
    /\ AccentAnswers \/ (Ready /\ Room /\ Poll)
    /\ UNCHANGED <<languageVars, stage, fileVars>>

\* The page is closed and the program started again; a write under way may have
\* truncated the file.
Restart ==
    /\ file' \in IF queue # <<>> /\ Head(queue).cmd = "write" THEN {file, Torn} ELSE {file}
    /\ AccentPage
    /\ LanguagePage
    /\ stage' = "app path"
    /\ pathKnown' = FALSE
    /\ queue' = <<[cmd |-> "app path"]>>
    /\ fault' = FALSE

Next ==
    \/ Backend
    \/ SetUp \/ NoLanguage
    \/ \E color \in Color : SetColor(color)
    \/ SetFollow \/ SetTheme \/ SystemTheme \/ SavePreset
    \/ \E l \in Lang : ChooseLanguage(l) \/ LanguageArrives(l)
    \/ Refreshed
    \/ AccentEvents
    \/ Restart

Fairness ==
    /\ WF_vars(Backend)
    /\ WF_vars(SetUp \/ NoLanguage)

Spec == Init /\ [][Next]_vars /\ Fairness

-----------------------------------------------------------------------------
(* Properties.                                                             *)

(* A page set up whose saves have all been done agrees with the file on what *)
(* the user chose, unless there was a fault: nothing is changed without a    *)
(* save, and no save is overtaken by another.                                *)
FileAgrees ==
    Ready /\ queue = <<>> /\ ~fault =>
        IF file \in NoFileYet
          THEN [Current EXCEPT !.sys = DefaultColor] = Default
          ELSE [Current EXCEPT !.sys = file.sys] = file

(* A page set up that follows the system's colour ends up drawn in it.       *)
AccentShown == Ready => FollowedShown

(* Unless it is closed again, the program that was started gets as far as    *)
(* the pack of its language, whatever the state of the settings file.        *)
StartupEnds == []<><<Restart>>_vars \/ []<>(stage \in {"ready", "dead"})

=============================================================================
