# WindowsCleanerNext: a TLA+ model of the application

WindowsCleanerNext-Tauri is a Windows cleaning application: one web page
(`src/src/index.html`, 3473 lines, all of the program's logic on the client
side), a thin Rust backend of commands (`src/src-tauri/src/lib.rs`), and small
C++ programs, one per cleaning task (`src/src-tauri/Tools`). The repository has
no tests. This directory models its logic in TLA+, checks it with TLC on small
instances and proves the main invariants with TLAPS for all instances.

Line numbers below are of `src/src/index.html` unless another file is named.

## The system

Everything on the page runs in one thread. A function runs without interruption
to its next `await`; in between, anything else may run: clicks and keys, timers,
and answers of backend commands. Commands that may take long are `async` in Rust
and run on a thread pool, the others on the main thread, and the page mostly
does not wait for one before it sends the next, so answers come in any order.
That interleaving at the `await`s is the concurrency of the program, and most of
its state is global (`window._...`, `appSettings`), shared by all of it.

| component | state | operations | interacts with |
| --- | --- | --- | --- |
| modal dialog, 1602-1713 | `_dialogResolve`, `_dialogMode`, `_dialogClosing`, the two Enter handlers, the overlay's class | `showDialog` (by `promptDialog`, `confirmDialog`, `alertDialog`), `closeDialog`, the 180 ms hide timer | awaited by run engine and presets; ONE slot for all callers |
| run engine, 2711-3147 | `isRunning`, `runQueue`, `_queue*` counters, `_cleanupStartSnapshot`, the marks of the cards, the action bar | `runSelected`, `runSingleTool`, `runBatScript`, `processQueue`, `resetAllToolButtons` | backend `run_with_wait`, `get_c_drive_usage`; dialog; script configuration |
| presets, 1927-2248 | `cleaningPresets`, `activeCleaningPreset`, the tick boxes | apply, save, rename, delete, manage | dialog (edits resume after an answer), settings file, language (names are translated) |
| settings, 1715-1727, 2250-2287 | `appSettings`, `settings.json` | `loadAppSettings`, `saveAppSettings` | every setter saves without waiting |
| languages, 1747-1925 | `languagePack`, `languageCache`, the menu | `applyLanguage`, `loadLanguagePack`, `refreshLanguageSelect` | settings, preset names |
| theme and accent, 2358-2599 | colours, `accentFollowSystem` | `syncAccentColor`, `pollSystemAccentColor` (10 s) | backend `get_windows_accent_color` |
| script configuration, 2833-2855 | `Config/Configs.NCc` | load, read-modify-write | run engine, startup, `read_program_name` |
| startup, 3372-3463 | `_appPath`, `_nvidiaInstalled` | `initApp`, `detectNvidia` | all of the above, in sequence |
| output parser, 3150-3238 | none | `parseOutput` | verdict on what the tools print |
| update check, 3309-3354 | none | `_cmpVer` | network |
| hibernation, virtual memory, links | text fields | one command each | backend |
| backend, `lib.rs` | none (files, processes) | 15 commands, window and tray | file system, tools |
| cleaning tools, `Tools/*.cpp`, `common.h` | counters of one process | directory walks, exit codes | parser |
| NiCCent extension, `niccent_extension.cpp`, `VariableSyncService.hpp` | a socket | login, sync | external server |
| Coly interpreter, `Coly.hpp` | maps of names, a definition in progress (static), started processes | `useCly`, `addressline`, `judgedefine`, `usedefine`, `StartProcess` | sync server, a thread per process started without waiting |
| `NCint.hpp`, `GXPass.hpp` | digits of a number | arithmetic; `getPermutationAfterN` | header libraries |

What is hard here and makes each component correct:

- **dialog**: overlapping dialogs, timers that cannot be cancelled, `closeDialog`
  running with no dialog open. Correct if the slot, the listeners, the Cancel
  button and the overlay always belong together and the overlay clears.
- **run engine**: the next run starts while the one before still reports, in the
  same globals. Correct if one program runs at a time, each queued tool exactly
  once, the totals are the run's own, the page always becomes ready again, and
  the report speaks of this run.
- **presets, settings**: names read before a dialog and used after it; two edits
  at once; writes nobody waits for, that fail or tear; a restart in between. Correct if
  no edit overwrites another preset, the active one exists, every edit is in the last
  save sent, and a start finds one of the saves, or nothing.
- **languages, accent**: answers out of order. Correct if what is shown is what
  was chosen last.
- **tools, parser**: partial failure, and other processes that go on using the
  files. Correct if the verdict and the counts say what happened to the files.
- **extension**: one read taken for one reply. Correct if its exit code is the
  server's answer.
- **Coly**: state that survives the line, the file and the call it was meant for.
  Correct if what runs and what the server knows is what the program wrote.
- **NCint**: lengths, carries, borrows and signs. Correct if it agrees with the
  integers.

## Modules

| module | models |
| --- | --- |
| `Dialog` | the dialog's state; `showDialog`, `closeDialog` with its parts (`RestoreCancel`, `DetachListeners`, `ArmCloseTimer`, `ResolveSlot`), `CloseTimerFires` |
| `DialogClients` | the dialog under arbitrary callers: `Open`, `Close`, the timer |
| `CleanRun` | the run engine composed with the dialog |
| `JobRunner` | abstract specification: what the run engine promises |
| `Presets` | presets, tick boxes and their dialogs composed with `Dialog`; the settings file, the end of the startup, restarts |
| `PresetBook` | abstract specification: what the presets promise |
| `Languages`, `Accent` | the language with its packs and menu; the accent colour and its requests |
| `Settings` | both composed with the settings file, the backend's queue, the startup and restarts |
| `FolderWalk` | the two directory walks over a file system others use |
| `SyncSession` | the client of the sync service, with network and server |
| `CleaningTools` | every tool, composed of the two, from `run_with_wait` to `parseOutput`'s verdict |
| `Cleaner` | abstract specification: what a tool that cleans folders promises |
| `Pump` | `StartProcess` with its process and the thread that prints its output |
| `Coly` | the interpreter composed with `Pump` |
| `NCint`, `GXPass` | the integers digit by digit; `getPermutationAfterN` on any number computed with them |
| `MCPresets`, `MCSettings`, `MCTools`, `MCColy`, `MCGXPass` | the TLC instances; the other runs use their module directly |
| `Dialog_proofs`, `DialogClients_proofs`, `CleanRun_proofs`, `Settings_proofs`, `Presets_proofs`, `FolderWalk_proofs`, `CleaningTools_proofs`, `Coly_proofs` | the theorems and their lemmas: see [Proofs](#proofs) |

### How state and actions correspond to the code

`Dialog`: `dialogResolve` is the caller whose `resolve` is in the slot, and
`waiting` the set of callers whose promise is pending; a caller in `waiting`
that is not in the slot can never be answered. Handlers are counted twice: the
slot (`windowKeyHandler`, `keyHandler`) and how many listeners are attached to
the DOM (`windowListeners`, `inputListeners`), because the code forgets a
handler by overwriting the slot. `closeTimers` counts pending hide timers.
`closeDialog` has no guard: when hidden, the overlay has opacity 0 and ignores
the pointer, but its buttons can still be focused and pressed with the keyboard.

`CleanRun`: an activation `a \in Caller` is one call of `runSelected`,
`runSingleTool` or `runBatScript` together with everything it awaits; `pc[a]`
is the `await` at which it is suspended:

| `pc[a]` | the code awaits |
| --- | --- |
| `tool` | `run_with_wait` of `tool[a]` in `processQueue` (3127) |
| `after` | `getCDriveUsageSnapshot` (3107) |
| `usage` | `loadCDriveUsage` (3109, 3112) |
| `result` | `alertDialog` of the report |
| `write`, `script` | the two commands of `runBatScript` |

`processQueue` calls itself at its end, so the answer of a tool and the start of
the next, or the end of the queue, are one step (`NextTool`, `QueueDone`).
`isRunning`, `runQueue` and the counters have their names. `job`, `started` and
`summary` are what the log on the page shows: the selection, the "running: ..."
lines and the "all tasks done" line. A reading of the drive is abstracted to the
run before whose cleaning it was taken, or `Late`. Buttons are guarded as on the
page: cards' run buttons are `<div>`s and need the pointer, so the overlay and the
mark 'running' block them; the others can be pressed with the keyboard at any
time. The model starts when `initApp` has stored the application's path.

`JobRunner` knows a job (`kind`, `left`), its counts and the last report. The
refinement mapping in `CleanRun` takes `left` to the queue together with the
running tool, the counts to the shared counters while a queue runs and to 0
otherwise, and the report to the last totals logged: so the code's counters may
hold anything between runs, but each run must start and end with its own.

`Presets`: the object `cleaningPresets` is a function on all names, with `Absent`
for a key that is not there and `Null` for the `null` the recommended preset starts
as; `Exists` is the code's test for a truthy value. A preset is the set of its
ticked tools (`getCurrentSelectionState` writes every tool, so a set loses
nothing). `pc` says which dialog of which edit an activation awaits, and `arg` keeps the
name it was called with. A promise resolved by `closeDialog` is continued in a
microtask, before any other event: `Close` sets `resuming` and `reply`, and only
`Resume` is enabled then. `stage` is where `initApp` is suspended, at
`detectNvidia`, then `loadCDriveUsage`; the page is in use meanwhile. A save (2277-2287)
sends the whole of `appSettings` and goes on: `pending` are the writes the backend has
yet to do, in the order sent, since `write_file_content` is a synchronous command.
`WriteFile` does one; it may fail before or after `fs::write` (`lib.rs:126`) has truncated
`file`, and the page never knows (2286). `Restart` may happen at any moment: the pending
writes are lost, the one under way may be torn, and the page begins again from `file`, or
from the defaults if the file is empty or cannot be read. `fault` remembers that page and
file differ for such a failure, until the next save is sent.

`PresetBook` has a book of named selections, a current name, the editions `sent` to be
kept and the one that is `kept`. An edit sends the edition it has made; editions replace
the one kept in the order sent, or are lost, and a start opens what was kept, or a blank
book. The program may supply the recommended entry when it is missing; choosing a name
without applying it (`setManagedPresetName`) sends nothing by itself. In the mapping `null`
and a missing key are both no entry, so the refinement says that no overlap of dialogs lets
a rename overwrite an entry or bring back one that is gone, lets a deletion remove another
entry than the one asked about, or sends an edition without the edit, and that no failure
lets a start find a mixture of two.

`Accent` counts the requests for the system's colour under way, since all are alike:
`asks` by `syncAccentColor`, whose answer is applied whatever the setting is by then,
`polls` by `pollSystemAccentColor`. `css` is what the page is drawn in. In `Languages`,
`cache` and `lang` have their code names; `loads` are packs chosen and not yet there;
`listing` and `fetching` are the calls of `refreshLanguageSelect` suspended at their two
awaits, by the language each captured. A pack in the cache is there before the next
event, so choosing it is one step.

`Settings` has `initApp` up to its controls (`stage`), then the controls. Its `queue`
holds the synchronous commands in the order sent. A `write` is one step of the backend
that may fail before or after `fs::write` has truncated the file (`Torn`), and a restart
may tear the write at the head of the queue. `fault` remembers that page and file may
differ for a reason the code does not handle: a read or write failed, or a save was sent
before the settings were there.

`FolderWalk` unfolds the recursion of `DeleteDirectoryContents` (`common.h`) and
`WalkAndDelete` (`clean_tmp_files.cpp`) into a `stack` of open searches, one call of the
file system per step: `VisitFile`, `VisitDir` (opens the search of a subdirectory),
`VisitUnlistable`, `CloseSearch` (removes the directory it has emptied). `Others` acts
between any two of them: opening, closing, creating, deleting. `before`, `created`
and `vanished` are not in the code; they are the ledger its counters are held against.
`CleaningTools` gives every tool its checks, folders, counters, lines and exit code; a
line is known by its meaning, and `FailureLine` are those whose translation
`parseOutput` (3150-3238) takes for a failure. `Kill` loses lines not yet flushed.

`Cleaner` is a folder tool without searches, recursion, elevation and printed lines: a list
of folders, the one it is in, what may be deleted there (`Scope`) and what has to go from it
(`due`), and counts. It deletes only in the folder it has come to, only targets if it is
selective, counts each deletion, keeps what others have `taken` apart, leaves a folder
without an error only if nothing is due, and ends `"well"` only if it has failed at no
folder. The mapping in `CleaningTools` (`Busy` to `DueHere`) shows it a folder tool from
`run_with_wait` to the report, and nothing of the other tools. What the code's globals hold
between two folders is not seen, so each folder must be cleaned on counters of its own. Each
attempt to delete is a step of `Cleaner`, a deletion or an error; opening a search and
closing that of a root are none.

`SyncSession` has `send_message` in its two halves, the write and the one `read_some`,
with the answer travelling in one segment or two between them; `ReadSome` takes as many
of the segments that have arrived as there are.

`Pump`: `written` and `taken` count bytes in and out of the pipe; the thread alternates
`PeekRead` or `PeekNothing` with `CheckExit` as the loop in `StartProcess` does.

`Coly`: one step is one line of the program, `Operation` inside `addressline`; it returns
a set of results because the server's replies and the outcome of running a command are
open. `mem` holds the maps and static variables, `frames` the calls of `useCly` (an
import is a call from inside a line). `synced`, `binary` and `ran` are what the server
was last told, what each file was compiled from, and what ran last. `Reading` is
`getSyntaxValue` on the names a line reads: `getvalue` (285) writes the server's value into
the map in which codes have their lines, and that value is what the server was told or what
another client has put there (`Foreign`); the reply of a lost connection does not parse, and
the exception ends the process (`Aborted`). `Commit` may fail unnoticed, since its reply is
only looked at for an error. `Leftover` are the compiled files of earlier sessions in
`TempPATH`. Three parts of `mem` are history that the code does not keep, and that its
mistakes are told by: `taken`, the names whose lines the server's have replaced; `untold`,
those the server did not take when last sent; `foreign`, the files not compiled from lines of
this program.

`NCint` has each operator as the loops have it: a number is its signed length and its
digits, and the vector may be longer than the length. `GXPass` computes with it, any
operation in any order, beside the integer that should come out (`exact`), and then
takes the permutation the number stands for.

## Runs

| run | instance | checks |
| --- | --- | --- |
| `dialog` | 4 callers, at most 3 hide timers pending | `DialogTypeOK`, `SlotMatchesDialog`, `OverlayWillClear`, `ListenersLeakOnlyByOverlap`, `CancelOffered`; liveness `PointerComesBack` |
| `cleanrun` | 2 activations, 2 tools | `TypeOK`, `OneRunAtATime`, `EachToolOnce`, `TotalsAgree`, `NothingLeftDisabled`; liveness `RunEnds`, `QueueReports`; refinement `ImplementsJobRunner` |
| `freed_this_time` | 3 activations, without symmetry | `FreedThisTime`, violated |
| `presets` | 2 activations, 1 tool, 2 names, 1 language, at most 2 writes pending, up to permutation of activations | `PresetsTypeOK`, `ActiveUsable`, `EditsAreKept`; refinement `ImplementsPresetBook` |
| `nvidia_recommended` | 1 activation, NVIDIA's tool, 3 names | `NvidiaOnlyIfDetected`, violated |
| `recommended_blank` | 1 activation, 1 tool, 3 names | `RecommendedNotBlank`, violated |
| `alert_hidden` | 1 activation, 1 tool, 3 names | `AlertSeen`, violated |
| `settings` | 2 colours, 2 languages | `SettingsTypeOK`, `FileAgrees`, `AccentShown`, `LanguageSettles`; liveness `StartupEnds` |
| `tools` | 2 folders; in one a directory with a target in it and a file that is none, in the other a file | `ToolsTypeOK`, `CleanIsClean`, `LedgerBalances`, `VerdictMatchesExit`, `SyncReported`; liveness `RunsAreReported`; refinement `ImplementsCleaner` |
| `failure_seen` | the same | `FailureSeen`, violated |
| `coly` | 980 programs of 7 lines, 3 codes, 1 variable, 1 position, 1 library, 1 binary of an earlier session | `ColyTypeOK`, `WholeCode`, `SyncedAgrees`, `RunsWhatWasWritten`; action property `JumpsLand`; liveness `PumpEnds` |
| `permutation` | 5 literals, values up to 1100, 5 characters | `GXPassTypeOK`, `ValueAgrees`, `PermutationRanked` |

**Bounds.** Two activations are a run in progress and one that reports; a third,
whose dialog was overtaken, is in `freed_this_time`, and the theorem `RunSafety` has the
four safety properties for any number. Two tools give queues with and without a
successor, and a card for the script. Each activation is used once, which bounds the
listeners. `MaxCloseTimers` bounds how many closings fall into one 180 ms window:
3 in `dialog`, 2 in `cleanrun` and `freed_this_time`, 1 in the presets' runs, where
the timer matters only by hiding the dialog that comes next. In `presets` two
activations are two edits whose dialogs overlap (an edit may be repeated, so
sequences of edits have no bound), one tool gives two selections, and with `MaxPending` = 2
nothing more happens on the page while two writes are under way: one that fails may have
another behind it, and one that is done another before it (1 in the violated runs). What language and NVIDIA's tool
do is left to the runs that are about them, and to the theorems, which are for any.

In `settings`, `MaxPending` is 2: nobody does anything more while two requests of any
kind are under way. Two are enough for an answer to be overtaken by another of its kind
or of another, and `initApp`'s own requests come on top of them. Two languages make a
pack cached or not, the button right or wrong; two colours tell an old answer from a
new one. In `tools`, `MaxInUse` is 1 entry open at a time (it may be released and another
taken at any step), and a name that was there is not created again during a walk; the
tree has a file below a directory, so that a failure inside surfaces outside, a target and
other files, so that a selective walk has something to spare, two folders in one list, so that
the counters of the first could be taken for the second's, and each entry may be missing first
and appear later. Other processes act while a walk is under
way: before it, what they do leads to another initial state. In `coly`, every program
begins with a position, a code of a compiled language, a line of it and a comment, and goes
on with any two of 14 statements and one of 5: enough for a loop, a redefinition, two codes
that share a file, an inline code, a code read as a variable, a variable without a value
that takes the lines behind it, an import inside a definition. The file of the first code
holds a binary of an earlier session. One process at a time is started without
waiting, and writes at most `MaxWritten` = 2 into a pipe read by `Buffer` = 1, so that
one reading may be too few. In `permutation`, `MaxValue` bounds the absolute value of
what is computed: 1100 has four digits, the literals (-12, 0, 1, 7, 99) carry and borrow
through all of them, and 5 characters have 120 permutations.

Deadlock is not an error: when all activations have ended, or while nobody answers a dialog,
nothing has to happen.

**Fairness.** `DSpec` assumes that timers fire. `FairSpec` assumes that every
backend command is answered: `run_with_wait` has no time limit, so this says that
the tools and the user's script end by themselves. Nothing is assumed of the
user, who may leave a dialog unanswered for ever: a queue *reports* (its dialog is
opened), which is all that is claimed. `Settings` assumes that the backend runs the
commands it has and that the language pack, or its failure, arrives; nothing of the
answers of PowerShell. `CleaningTools` assumes that a process that can go on does, and that
the server answers what it was asked or the connection is lost: `send_message` has no
time limit, so without this the tool, and the queue with it, may wait for ever. `Coly`
assumes that the pump's thread is scheduled, and neither that programs end nor that
started processes do. Liveness is checked without symmetry.

**What the properties except.** Each exception is a state in which the code does
go wrong, and is named in the model.

- `FileAgrees`: a page with `fault`. A save before the settings are there
  (only `savePreset` looks at `_appPath`) writes defaults over the user's file; a failed
  save is dropped, and only the next mends it.
- `EditsAreKept`: a page with `fault`, whose last save has failed, or whose file could not
  be read and which has saved nothing since. And what it says of saves that are under way
  is that they have every edit, not that they arrive: an edit whose write is not done when
  the application is closed is lost, and a torn file loses all presets.
- `AccentShown` says nothing of a page that does not follow the system: the answer to a
  request sent before following was switched off still redraws it.
- `LanguageSettles`: a `hasty` choice, made before every pack was there or while the menu
  was being refreshed. Then the pack that arrives last decides, and is saved.
- `CleanIsClean`, `ImplementsCleaner`: a folder whose own listing is refused, which counts no
  error. Nothing is due from it. A listing that breaks off half way is taken for complete
  (`common.h:72`) and not in the model.
- `VerdictMatchesExit`: the lines in `SilentFailure`, which `failure_seen` is about.
- `SyncReported`: `trouble`. The rest of a reply cut in two is taken for the reply to the
  next request, and a lost connection makes `send_message` return "", which is not an
  `[ERROR]`: exit code 0 without having synchronised.
- `WholeCode`, `SyncedAgrees`, `RunsWhatWasWritten`: a code that was read as a variable
  (`print $c`) and got other lines from the server (`taken`), which it then runs: those of
  another client, or those synced before a redefinition was complete.
- `WholeCode`, `JumpsLand`, `RunsWhatWasWritten`: names given to two kinds of thing, a code and
  a variable or a position: `definedvar` and `definedline` do not tell them apart.
- `WholeCode`, `JumpsLand`: names that an imported file also defines, or that are defined behind
  `do`, whose line number is -1. `definedline` is one map for all files, so a jump to a
  name the importing file defines goes to that line number in the imported file.
- `SyncedAgrees`: a code directly followed by another definition, whose start replaces
  the static `info` before the end of the same line commits it; and a name that the server
  refused, or was not reached for, when it was last sent (`untold`): nobody sends it again.
- `RunsWhatWasWritten`: also a file with several definitions. A compiled code that is redefined
  runs as it was first compiled, since `compiledcode` is never cleared. And a file that was
  marked as compiled (564) by a use whose command was refused or failed: the next use runs
  the binary an earlier session has left (`~ours`).
- `PumpEnds`: an exit code of 259 while another process holds the pipe. That the
  thread ends does not say that it printed everything: what was written between the last
  peek and the exit stays in the pipe.
- `ValueAgrees`: what is computed by adding to a zero of several digits. `12 - 12` keeps
  length 2 (`LengthWithin` finds no digit and leaves the length), compares greater than 5,
  and `12 - 12 - 5` is 95, with a borrow written behind the vector's end. Dividing by such a zero never ends.

**What the violated runs show.** `freed_this_time`: the report says "space freed this time"
(`index.html:2958`). The reading it subtracts from may be missing the beginning of
the run (it is started, not awaited, at 3016), may be of an earlier run
(`runSingleTool` takes none and does not reset the variable) or of a later one
(the variable is read after an `await`, 3108).

`nvidia_recommended`: `README.md:80` of the repository says the NVIDIA cleaning is
recommended only where its software is detected. The recommended preset is made
once, with what was detected that day, and stored (`index.html:1932`, 1958).

`recommended_blank`: the recommended preset is called '推荐清理' in every language,
but `ensurePresetExists` (1958) knows it by its name in the current one. Chosen
before the preset exists, English makes it an empty one for good.

`alert_hidden`: `renamePreset` opens the alert about an existing name (2216) when its
prompt has just been answered; the prompt's timer (1681) hides the overlay 180 ms
later, with the alert on it.

`failure_seen`: the log counts the tasks that succeeded and failed (3098). `run_with_wait`
drops the exit code, and the lines of `clean_memory`, `clean_nvidia` and
`niccent_extension` about their failures have none of the words `parseOutput` looks
for (3204), so these failures are counted as successes.

Each property is also run against a mutation of the code's model that it must
catch (`PROJECT.json`, "mutants"); the mutated operators stand beside the
originals (`DetachKeepsSlots` beside `DetachListeners`, and so on).

## Proofs

| theorem | says |
| --- | --- |
| `DialogInvariance` | `DSpec => []` of `DialogTypeOK`, `SlotMatchesDialog`, `OverlayWillClear`, for any set of callers |
| `LeaksOnlyByOverlap`, `CancelAlwaysOffered` | `DSpec => []` of `ListenersLeakOnlyByOverlap` and of `CancelOffered` |
| `TypeCorrect` | `Spec => []TypeOK`, for any number of tools and activations |
| `RunSafety` | `Spec => []` of `OneRunAtATime`, `EachToolOnce`, `TotalsAgree`, `NothingLeftDisabled` |
| `EngineImplementsJobRunner` | `Spec => ImplementsJobRunner`: every step of the engine is one of `JobRunner` or none |
| `SettingsTypeCorrect`, `AccentShownAlways`, `LanguageSettlesAlways`, `FileAgreesAlways` | `Spec => []` of `SettingsTypeOK`, `AccentShown`, `LanguageSettles`, `FileAgrees`, for any colours, languages and bounds |
| `PresetsTypeCorrect`, `ActiveUsableAlways`, `EditsAreKeptAlways` | `Spec => []` of `PresetsTypeOK`, `ActiveUsable`, `EditsAreKept`, for any names, tools, languages and callers, and any number of writes under way |
| `PresetsImplementBook` | `Spec => ImplementsPresetBook`: every step of the presets, failing writes and restarts included, is one of `PresetBook` or none |
| `ToolsTypeCorrect`, `VerdictIsExit`, `SyncReportedAlways` | `Spec => []` of `ToolsTypeOK`, `VerdictMatchesExit`, `SyncReported`, for any folders, tree and server |
| `CleanIsCleanAlways`, `LedgerBalancesAlways` | `Spec => []` of `CleanIsClean` and `LedgerBalances`, for any folders and any finite tree of any depth |
| `ToolsImplementCleaner` | `Spec => ImplementsCleaner`: every step of the folder tools, and of others meanwhile, is one of `Cleaner` or none, for any folders and any finite tree |
| `ColyTypeCorrect`, `CodeIsWhole`, `RunsWhatIsWritten`, `SyncedAlwaysAgrees` | `ColySpec => []` of `ColyTypeOK`, `WholeCode`, `RunsWhatWasWritten`, `SyncedAgrees`, for any programs of any length, any library, names, leftover binaries and values of other clients |
| `JumpsAlwaysLand` | `ColySpec => JumpsLand`, a property of the steps |

### Assumptions

Null values are none of what they stand beside: `NoCallerAssumption`, `NullAssumption`,
`AbsentAssumption`, `FileAssumption` (a missing or unreadable file is no settings),
`NoLang` in `LangAssumption`. Fixed values are of their sets: `ToolAssumption` (the
script's card is a tool), `NameAssumption` (what is typed is a name), `ColorAssumption`,
`LangAssumption`, `CDriveAssumption`. `RequestAssumption` names the two requests the
extension makes. `FoldersAssumption` says that a tool's folders are roots of the tree.
`TreeAssumption` says that every entry has one parent, a root or a directory, and that
there are finitely many; it need not say that there is no cycle, since none is reached from
a root. `ProgramAssumption` says that a program and the library are sequences of statements,
that every code has a file and that there is a variable for a function's parameter; `ForeignAssumption` and
`LeftoverAssumption`, that what others have given a name, and what an earlier session has
left in a file, are lines;
`PumpAssumption`, that the pipe's buffer holds at least a byte. TLC evaluates all of them.

### The dialog and the run engine

The dialog's types are not inductive: `windowListeners` is decremented, and stays
natural only because a non-empty slot means an attached listener. So `DialogInv`
joins types with `SlotMatchesDialog` and `OverlayWillClear`, and its preservation
is stated once per action (`ShowDialogInv`, `CloseDialogInv`, `CloseTimerInv`) so
that every module that composes the dialog can cite it; `CleanRun_proofs` and
`Presets_proofs` do. `LostInv` adds what the leak and the Cancel button need: the callers
waiting are finitely many, so that each one more abandoned counts for one, and a closed
dialog has its Cancel button back.

The four safety properties of the run engine are inductive only together. That at
most one activation is busy (`OneRunAtATime`) lets the shared counters and marks
be read as those of one run; that in turn needs `WaitersReport`, that only
activations showing their report are in the dialog, since closing a dialog ends
the activation in its slot and must not end a busy one. `EachToolOnce` is the
statement that what was started followed by what is queued is the job;
`ShiftKeepsConcat` is the fact about sequences under it.

For the refinement the tools that `JobRunner` has left are a set, and the queue is a
sequence: `RefineInv` adds that the running tool and the queue have no tool twice
(`QueueDistinct`), so that taking the head of the queue takes one element from the set.
Each action has a lemma that names the step of `JobRunner` it is, or that it is none.

### The settings

`AccentShown` needs beside itself that `asks`, the requests under way, is a number
(`AccentInv`): then the answer that takes it to zero is the last, and the colour and
the record of it are those of one answer. A page that restarts or still starts is not
`Ready`, and `SetUp` asks before it is.

The other properties rest on the order of the backend's queue. `Moved` says what any step
does to it, one command fewer in front, one more behind, or neither, and every fact about
the queue is carried over with it. `QueueInv`: of the answers `initApp` awaits at most one
is in the queue, the one its stage names. `MenuInv`: the refresh of the menu that will come
last has captured the page's language, and as long as no choice was hasty so have all of
them. `AgreeInv`: the user's choices are in the file, or in the last write asked for, or a
save that has yet to take them is behind it; `EarlyInv`: a write made before the settings
were read is ahead of every other, and is a recorded fault.

### The presets

`ActiveUsable` says nothing of the two stages before the page is ready, nor of the file, and
a restart takes the file as it is, which may be any of the saves or nothing. So the page
(`BookInv`), the file and every write on its way to it (`FileInv`) are such that
only the recommended preset may be null, and only it may be in use and missing
(`WellKept`). `FileInv` also says that no fault is final while a write is under way; with
it `EditsAreKept` is inductive: an edit sends what it has made, and a write that is done or
fails leaves the last one sent what will be in the file, or a fault (`StoredStays`).
`EditInv`: while a dialog about a preset can still be answered, the preset is
there; this is where overlapping renames and deletions would break it, and where the code's
checks before and after the `await` are needed. `AwaitInv` and `DialogInv` connect a dialog with the
activation that awaits it and the kind of its answer. The refinement goes by actions:
each one's effect on the page's book and on the editions is stated (`PageBook`, and the lemmas on
`ensurePresetExists` and `saveAppSettings`), then matched with a step of `PresetBook`. A write
is `Replace` and a restart `Reopen` (`BookReplace`, `BookReopen`); that a torn or missing file reads as the
blank edition is `DefaultBlank`.

### The cleaning tools

`VerdictMatchesExit` speaks of a tool that has ended; `VerdictInv` says what leads
there. Before the first folder a tool has printed nothing and failed at nothing. From
then on a line of failure means `failed`, and `failed` means such a line, but for
`clean_nvidia`, which prints its line at the end (`FoldersHonest`). At the end a line of
failure means a code other than 0, and without one the code is 0 or the line is one that
`parseOutput` does not know (`Honest`); a killed tool is excepted, since its code says
nothing.

`SyncReported` needs the state of the conversation at every moment of the session
(`Conversation`): as long as nothing was cut and the connection stood there is at
most one reply between server and client (`OneOutstanding`), the login's is gone before the
other request is sent, and what comes then is the server's answer to it.

The walk over a folder is proved apart (`FolderWalk_proofs`). `StackInv`: the open searches
are a path of different directories that ends at a root, and each has yet to return only
entries of its own directory, none of them on the path. `Ahead` is what the walk may still
come upon: what is still to be returned, what others may yet create, what is under either,
and the directories on the path. `CountInv`: the counters for files and directories are the
size of `Gone`, what the walk itself has deleted; nothing in `Gone` is `Ahead`, so that
nothing is deleted twice; and each error is of an entry neither `Gone` nor `Ahead`, so that
none is counted twice. This is also what bounds the counters in `ToolsTypeOK`.
`ListedInv`: with no error so far, whatever is left of what the folder held will be come upon.
When the walk is over nothing is on the path, which gives `CleanIsClean`. There is a lemma
for each call of the file system, since `Others` may act between any two; `FoldersInv`
carries the four through the tools' other steps.

For the refinement the walk must also be where it belongs. `PlaceInv`: the open searches, and
all they have yet to return, are in the folder, at any depth; what a search returns is in the
search's own directory, so this follows from `StackInv` as long as a search is opened only in
what another has returned (`Placed`). `WalkDeletes` sums up a step of either walk: it tries
to delete one entry of the folder, a target if only targets are deleted, or it touches
neither tree nor counters. `PromiseInv` adds which walk a tool makes, and that a tool that
has not begun has its whole list before it. `Seen` says once what `Cleaner` sees of a tool
that is idle, between folders, in one or at its end, and each action then has a lemma that
names the step it is: that `FolderDone` without an error is a `Finish` with nothing due is
`NothingLeft`, the lemma behind `CleanIsClean`; that `clean_nvidia` removes only an empty
folder is `UnderByChild`, since its call sees only that nothing is directly in it.

### The interpreter

The interpreter's types need to know where line numbers come from: the outermost call of
`useCly` has the program's lines and all others the library's (`FramesOK`), and the line
of a name is one that a file has, or the -1 of a line behind `do` (`MemoryOK`).

`WholeCode`, `RunsWhatWasWritten` and `JumpsLand` are inductive only together with what is
true of an unfinished definition. `Sound` is about the maps: a position or a code that only the
program defines stands on the line its entry names (`PlacesOK`), a finished code is the block
behind it or the text on it (`CodesOK`), and what was compiled and what ran is what the file's
definition says (`RunsOK`). `CodesOK` leaves out the codes in `taken`, and `RunsOK` the files in
`foreign`: what ran is the program's (`ours`) only if it came from neither. Reading names changes
lines of names in `taken` and nothing else (`Reread`), so all of it survives a reading
(`SoundReread`). `OpenOK` is about the definition being read, a code's or that of a
variable without a value: line `i` of the program opened it, everything since was a line of it
or a comment, and it has exactly the lines read so far (`Partial`). It is in the program
unless the library opens one of its name (`Opens`). So it is whole at the first line that is
neither, and that line flushes it before it reads a name or does anything else; a jump or an
import can only come after the flush.

`SyncedAgrees` needs `SyncInv`: what the line that completes a code has to sync at its own
end it still has in its hands, and every other complete code is what the server was told,
unless it is in `taken` or `untold` (`SyncOK`). A reading adds to the one, a commit that fails
to the other. An import leaves its line unfinished for as long as the
imported file runs, so what it owes (`Owing`) is in its frame until that file's end; the
static `info` must not be replaced meanwhile, which is what definitions being apart (`LineApart`)
and a library without definitions are for.

Each operation has its effect stated once: it leaves maps and `info` alone (`Quiet`) or defines
one name (`Defined`). These are carried through the commit and through `do` and `if`, each
of which commits again (`Pending`, `Settled`), up to one statement of what a line does (`LineGives`),
from which the lemmas for each action of `ColyNext` follow. The pump's steps touch none of this,
and its types are proved beside it.

### What is only model-checked

Liveness, `PumpEnds` included (under fairness, out of the prover's reach), and all of `GXPass`.
What `DigitsOf`, `jiecheng` and the folds of `NCint` compute for every input needs induction
over data, which stays with TLC.

## Plan

The parts that have logic of their own are modelled, and what the checks and proofs need of
them is there. Left, in this order:

1. The digits of `NCint`, should induction over data come within the prover's reach: first that
   `IntOf` undoes `FromInt`, then `Add` and `Sub`, `Mul`, `Div`, and with them `ValueAgrees`.
2. The script configuration, if its saves should come to overlap.

An abstract specification of the settings, beside those of runs, presets and folder tools, was
considered and left out: which of the choices made a restart finds depends on the order of the
writes, so it would have to contain the backend's queue, which is most of `Settings`;
`FileAgrees` says what a user can rely on.

## Not modelled

- Layout, styling, menus, texts and translations, except where a property is about them;
  theme and background colours, which are settings like the accent colour.
- The script configuration (`saveScriptToConfig`, `loadScriptFromConfig`): its commands are
  run in the order sent and no two saves overlap; what can be lost is a program name in a
  configuration that cannot be read.
- Hibernation, virtual memory, links, and the update check: one request each, no state.
- Window and tray: callbacks into Tauri without state of their own.
- In `FolderWalk`: links to directories, which its tree does not have, and a listing that breaks
  off half way (`FindNextFileW` failing, `common.h:72`), which the code takes for its end:
  `CleanIsClean` and `ImplementsCleaner` speak of listings that are complete. `clean_nvidia`
  without a LOCALAPPDATA (`clean_nvidia.cpp:56`) does what it does when its folders are missing.
- `memreduct-cli.exe`, `vssadmin`, PowerShell and the sync server, which are external.
- In `Coly.hpp`: what is printed, what variables hold beside lines, private definitions (which
  the server never sees), `NoReg` and a language's name read from a variable, functions with
  several parameters, how `readCly` (820-849) finds a file and its headers (the library
  stands for what comes of it), what commands print and return, the POSIX branch. In `GXPass.hpp`: digests and ciphers, which nothing calls.
- `asio` and `json.hpp`, the vendored libraries in `src-tauri/Tools`: nearly all of the
  repository's C++ lines, and none of its logic.

`PROJECT.json` lists every component with its status, and every hazard with the line
where it bites.
