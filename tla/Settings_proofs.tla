-------------------------- MODULE Settings_proofs --------------------------
(***************************************************************************)
(* Theorems about module Settings, for any colours, languages and bounds.  *)
(***************************************************************************)
EXTENDS Settings, SequenceTheorems, TLAPS

\* AccentShown by itself is not inductive: asks must be a number, so that the
\* answer that takes it to zero is the last.
AccentInv == asks \in Nat /\ AccentShown

-----------------------------------------------------------------------------
(* The operators of module Accent, on a page that stays in its stage.      *)

\* A request of syncAccentColor, or one colour, leaves the page as it should be.
LEMMA SyncKeepsShown ==
    ASSUME NEW f, NEW a, NEW n \in Nat \ {0}, asks \in Nat,
           syncAccentColor(f, a, n), follow' = f
    PROVE  asks' \in Nat /\ FollowedShown'
  BY DEF syncAccentColor, FollowedShown

\* A colour is chosen on a page that does not follow the system.
LEMMA ApplyKeepsShown ==
    ASSUME NEW color, asks \in Nat, applyAccentColor(color)
    PROVE  asks' \in Nat /\ FollowedShown'
  BY DEF applyAccentColor, FollowedShown

\* An answer, or a failure, of either kind of request, or a new poll.
LEMMA AnswersKeepShown ==
    ASSUME asks \in Nat, AccentAnswers \/ Poll
    PROVE  /\ asks' \in Nat
           /\ FollowedShown => FollowedShown'
  <1>1. ASSUME NEW color \in Color, AccentAnswered(color)
        PROVE  asks' \in Nat /\ FollowedShown'
    BY <1>1 DEF AccentAnswered, FollowedShown
  <1>2. ASSUME NEW color \in Color, PollAnswered(color)
        PROVE  asks' \in Nat /\ (FollowedShown => FollowedShown')
    BY <1>2 DEF PollAnswered, FollowedShown
  <1>3. ASSUME AccentFailed
        PROVE  asks' \in Nat /\ FollowedShown'
    BY <1>3 DEF AccentFailed, FollowedShown, accentSettings
  <1>4. ASSUME PollFailed \/ Poll
        PROVE  asks' \in Nat /\ (FollowedShown => FollowedShown')
    BY <1>4 DEF PollFailed, Poll, FollowedShown, accentSettings
  <1> QED  BY <1>1, <1>2, <1>3, <1>4 DEF AccentAnswers

-----------------------------------------------------------------------------
(* The actions.                                                            *)

\* The accent's part of a step on a page that is not set up after it.
LEMMA NotReadyKeepsInv ==
    ASSUME AccentInv, asks' \in Nat, stage' # "ready"
    PROVE  AccentInv'
  BY DEF AccentInv, AccentShown, Ready

\* A step that leaves the accent and the stage alone.
LEMMA ElsewhereInv ==
    ASSUME AccentInv, UNCHANGED <<accentVars, stage>>
    PROVE  AccentInv'
  BY DEF AccentInv, AccentShown, FollowedShown, Ready, accentVars, accentSettings

\* The commands of loadAppSettings and saveAppSettings.
LEMMA BackendInv ==
    ASSUME AccentInv, Backend
    PROVE  AccentInv'
  <1>1. CASE AppPath \/ SettingsPath
    BY <1>1, NotReadyKeepsInv DEF AccentInv, AppPath, SettingsPath, accentVars
  <1>2. CASE ReadSettings
    BY <1>2, NotReadyKeepsInv DEF AccentInv, ReadSettings
  <1>3. CASE PathToSave \/ WriteSettings
    BY <1>3, ElsewhereInv DEF PathToSave, WriteSettings
  <1> QED  BY <1>1, <1>2, <1>3 DEF Backend

\* The end of the startup, which asks for the accent if the settings follow it.
LEMMA SetUpInv ==
    ASSUME AccentInv, SetUp \/ NoLanguage
    PROVE  AccentInv'
  <1>1. CASE SetUp
    BY <1>1, SyncKeepsShown DEF AccentInv, AccentShown, SetUp, accentSettings
  <1>2. CASE NoLanguage
    BY <1>2, NotReadyKeepsInv DEF AccentInv, NoLanguage, accentVars
  <1> QED  BY <1>1, <1>2

\* The controls of the colour, of following the system and of the theme.
LEMMA ControlsInv ==
    ASSUME AccentInv,
           (\E color \in Color : SetColor(color)) \/ SetFollow \/ SetTheme \/ SystemTheme
    PROVE  AccentInv'
  <1>1. ASSUME NEW color \in Color, SetColor(color)
        PROVE  AccentInv'
    BY <1>1, ApplyKeepsShown DEF AccentInv, AccentShown, SetColor
  <1>2. CASE SetFollow
    BY <1>2, SyncKeepsShown DEF AccentInv, AccentShown, SetFollow, ToggleFollow
  <1>3. CASE SetTheme \/ SystemTheme
    BY <1>3, SyncKeepsShown
       DEF AccentInv, AccentShown, SetTheme, SystemTheme, ThemeApplied, accentSettings
  <1> QED  BY <1>1, <1>2, <1>3

\* Answers to the requests for the accent, in any order, and polls.
LEMMA AccentEventsInv ==
    ASSUME AccentInv, AccentEvents
    PROVE  AccentInv'
  <1>1. (AccentAnswers \/ Poll) /\ stage' = stage
    BY DEF AccentEvents
  <1> QED  BY <1>1, AnswersKeepShown DEF AccentInv, AccentShown, Ready

\* The page is closed and opened again.
LEMMA RestartInv ==
    ASSUME AccentInv, Restart
    PROVE  AccentInv'
  BY NotReadyKeepsInv DEF Restart, AccentPage

(* A page that follows the system's accent colour is drawn in it when no       *)
(* request of syncAccentColor is under way: whatever order the answers come    *)
(* in, whatever the file held, and however often the page is closed.           *)
THEOREM AccentShownAlways == Spec => []AccentShown
  <1>1. Init => AccentInv
    <2> SUFFICES ASSUME Init PROVE AccentInv
      OBVIOUS
    <2>1. asks = 0 /\ ~Ready
      BY DEF Init, AccentInit, Ready
    <2> QED  BY <2>1 DEF AccentInv, AccentShown
  <1>2. ASSUME AccentInv, [Next]_vars
        PROVE  AccentInv'
    <2>1. CASE Backend
      BY <1>2, <2>1, BackendInv
    <2>2. CASE SetUp \/ NoLanguage
      BY <1>2, <2>2, SetUpInv
    <2>3. CASE (\E color \in Color : SetColor(color)) \/ SetFollow \/ SetTheme \/ SystemTheme
      BY <1>2, <2>3, ControlsInv
    <2>4. CASE SavePreset \/ (\E l \in Lang : ChooseLanguage(l) \/ LanguageArrives(l)) \/ Refreshed
      BY <1>2, <2>4, ElsewhereInv DEF SavePreset, ChooseLanguage, LanguageArrives, Refreshed
    <2>5. CASE AccentEvents
      BY <1>2, <2>5, AccentEventsInv
    <2>6. CASE Restart
      BY <1>2, <2>6, RestartInv
    <2>7. CASE UNCHANGED vars
      BY <1>2, <2>7, ElsewhereInv DEF vars
    <2> QED  BY <1>2, <2>1, <2>2, <2>3, <2>4, <2>5, <2>6, <2>7 DEF Next
  <1>3. AccentInv => AccentShown
    BY DEF AccentInv
  <1> QED  BY <1>1, <1>2, <1>3, PTL DEF Spec

-----------------------------------------------------------------------------
(* Types.                                                                  *)

\* The commands of the page, and what a save would write.
LEMMA Commands ==
    /\ \A s \in {"app path", "settings path", "path to save", "read"} : [cmd |-> s] \in Command
    /\ \A now \in Saved : Write(now) \in Command
  BY DEF Command, Write

\* A queue with one command, and one that a command is appended to or taken from.
LEMMA QueueType ==
    ASSUME NEW q \in Seq(Command), NEW c \in Command
    PROVE  /\ <<c>> \in Seq(Command)
           /\ Append(q, c) \in Seq(Command)
           /\ q # <<>> => Head(q) \in Command /\ Tail(q) \in Seq(Command)
           /\ q # <<>> => Tail(q) \o <<>> \in Seq(Command)
           /\ q # <<>> => Tail(q) \o <<c>> \in Seq(Command)
  <1>1. q # <<>> => Head(q) \in Command /\ Tail(q) \in Seq(Command)
    BY HeadTailProperties
  <1>2. <<>> \in Seq(Command) /\ <<c>> \in Seq(Command)
    BY EmptySeq
  <1> QED  BY <1>1, <1>2, AppendProperties, ConcatProperties

\* The page before anything has happened.
LEMMA TypeInit == Init => SettingsTypeOK
  <1> SUFFICES ASSUME Init PROVE SettingsTypeOK
    OBVIOUS
  <1>1. AccentTypeOK
    BY ColorAssumption DEF Init, AccentInit, AccentTypeOK
  <1>2. LanguageTypeOK
    BY LangAssumption, EmptySeq DEF Init, LanguageInit, LanguageTypeOK
  <1>3. <<[cmd |-> "app path"]>> \in Seq(Command)
    BY Commands, QueueType, EmptySeq
  <1> QED  BY <1>1, <1>2, <1>3 DEF Init, SettingsTypeOK, NoFileYet

\* What is read from a settings file, or kept when there is none, is of its type.
LEMMA TakeSettingsType ==
    ASSUME SettingsTypeOK, NEW text \in NoFileYet \cup Saved, TakeSettings(text),
           UNCHANGED <<css, asks, polls>>,
           UNCHANGED <<cache, loads, listing, fetching, label, chosen, hasty>>
    PROVE  AccentTypeOK' /\ LanguageTypeOK'
  <1>1. accent' \in Color /\ follow' \in BOOLEAN /\ sys' \in Color /\ lang' \in Lang
    BY DEF TakeSettings, Saved, SettingsTypeOK, AccentTypeOK, LanguageTypeOK
  <1> QED  BY <1>1 DEF SettingsTypeOK, AccentTypeOK, LanguageTypeOK

\* A save keeps the types of the file and of the queue.
LEMMA SaveType ==
    ASSUME SettingsTypeOK, AccentTypeOK', LanguageTypeOK', stage' = stage, saveAppSettings
    PROVE  SettingsTypeOK'
  <1>1. Current' \in Saved
    BY DEF AccentTypeOK, LanguageTypeOK, Current, Saved
  <1>2. (IF pathKnown THEN Write(Current') ELSE [cmd |-> "path to save"]) \in Command
    BY <1>1, Commands
  <1>3. queue' \in Seq(Command)
    BY <1>2, QueueType DEF saveAppSettings, SettingsTypeOK
  <1>4. fault' \in BOOLEAN
    BY Zenon DEF saveAppSettings, Loaded
  <1> QED  BY <1>3, <1>4 DEF saveAppSettings, SettingsTypeOK

\* The backend's answers keep the types.
LEMMA BackendType ==
    ASSUME SettingsTypeOK, Backend
    PROVE  SettingsTypeOK'
  <1>1. queue \in Seq(Command) /\ queue # <<>> /\ Head(queue) \in Command /\ file \in NoFileYet \cup Saved
    BY HeadTailProperties DEF Backend, SettingsTypeOK
  <1>2. Tail(queue) \o <<>> \in Seq(Command)
    BY <1>1, QueueType
  <1>3. ASSUME UNCHANGED <<accentVars, languageVars>> PROVE AccentTypeOK' /\ LanguageTypeOK'
    BY <1>3 DEF SettingsTypeOK, AccentTypeOK, LanguageTypeOK, accentVars, accentSettings, languageVars
  <1>4. CASE AppPath
    <2>1. queue' \in Seq(Command)
      BY <1>1, <1>4, QueueType, Commands DEF AppPath, Pop
    <2> QED  BY <1>3, <1>4, <2>1 DEF AppPath, SettingsTypeOK
  <1>5. CASE SettingsPath
    <2>1. queue' \in Seq(Command)
      BY <1>1, <1>2, <1>5, QueueType, Commands DEF SettingsPath, Pop
    <2>2. fault' \in BOOLEAN /\ pathKnown' \in BOOLEAN
      BY <1>5, Zenon DEF SettingsPath, SettingsTypeOK
    <2> QED  BY <1>3, <1>5, <2>1, <2>2 DEF SettingsPath, SettingsTypeOK
  <1>6. CASE ReadSettings
    <2>1. AccentTypeOK' /\ LanguageTypeOK'
      BY <1>1, <1>6, TakeSettingsType DEF ReadSettings, NoFileYet
    <2> QED  BY <1>2, <1>6, <2>1 DEF ReadSettings, Pop, SettingsTypeOK
  <1>7. CASE PathToSave
    <2>1. Current \in Saved
      BY DEF SettingsTypeOK, AccentTypeOK, LanguageTypeOK, Current, Saved
    <2>2. queue' \in Seq(Command)
      BY <1>1, <1>2, <1>7, <2>1, QueueType, Commands DEF PathToSave, Pop
    <2> QED  BY <1>3, <1>7, <2>2 DEF PathToSave, SettingsTypeOK
  <1>8. CASE WriteSettings
    <2>1. Head(queue).data \in Saved /\ Head(queue).early \in BOOLEAN
      BY <1>1, <1>8 DEF WriteSettings, Command
    <2>2. queue' \in Seq(Command) /\ file' \in NoFileYet \cup Saved /\ fault' \in BOOLEAN
      BY <1>1, <1>2, <1>8, <2>1 DEF WriteSettings, Pop, NoFileYet
    <2> QED  BY <1>3, <1>8, <2>2 DEF WriteSettings, SettingsTypeOK
  <1> QED  BY <1>4, <1>5, <1>6, <1>7, <1>8 DEF Backend

\* The operators of module Accent keep its types.
LEMMA AccentType ==
    ASSUME AccentTypeOK,
           \/ \E color \in Color : applyAccentColor(color)
           \/ ToggleFollow \/ Poll \/ AccentAnswers
           \/ \E n \in {1, 2} : ThemeApplied(n)
           \/ UNCHANGED accentVars
           \/ AccentPage
    PROVE  AccentTypeOK'
  <1> USE DEF AccentTypeOK
  <1>1. ASSUME NEW color \in Color, applyAccentColor(color) PROVE AccentTypeOK'
    BY <1>1 DEF applyAccentColor
  <1>2. CASE ToggleFollow
    BY <1>2 DEF ToggleFollow, syncAccentColor
  <1>3. ASSUME NEW n \in {1, 2}, ThemeApplied(n) PROVE AccentTypeOK'
    BY <1>3 DEF ThemeApplied, syncAccentColor, accentSettings
  <1>4. CASE Poll \/ PollFailed \/ AccentFailed
    BY <1>4 DEF Poll, PollFailed, AccentFailed, accentSettings
  <1>5. ASSUME NEW color \in Color, AccentAnswered(color) \/ PollAnswered(color)
        PROVE  AccentTypeOK'
    BY <1>5 DEF AccentAnswered, PollAnswered
  <1>6. CASE UNCHANGED accentVars
    BY <1>6 DEF accentVars, accentSettings
  <1>7. CASE AccentPage
    BY <1>7, ColorAssumption DEF AccentPage
  <1> QED  BY <1>1, <1>2, <1>3, <1>4, <1>5, <1>6, <1>7 DEF AccentAnswers

\* The refreshes that follow a language's pack.
LEMMA AppliedType ==
    ASSUME LanguageTypeOK, NEW l \in Lang, NEW n \in Nat, Applied(l, n)
    PROVE  /\ listing' \in Seq(Lang) /\ lang' = l
           /\ [i \in 1 .. (n + 1) |-> l] \in Seq(Lang)
           /\ Len([i \in 1 .. (n + 1) |-> l]) = n + 1
  <1>1. [i \in 1 .. (n + 1) |-> l] \in Seq(Lang) /\ Len([i \in 1 .. (n + 1) |-> l]) = n + 1
    OBVIOUS
  <1> QED  BY <1>1, ConcatProperties DEF Applied, LanguageTypeOK

\* The operators of module Languages keep its types.
LEMMA LanguageType ==
    ASSUME LanguageTypeOK,
           \/ \E l \in Lang : ChooseCached(l) \/ ChooseUncached(l) \/ ChosenArrives(l)
                                 \/ ChosenFails(l) \/ PackArrives(l) \/ Fetched(l)
           \/ FirstPack \/ Listed \/ LanguagePage
           \/ UNCHANGED languageVars
    PROVE  LanguageTypeOK'
  <1> USE DEF LanguageTypeOK
  <1>1. ASSUME NEW l \in Lang, ChooseCached(l) PROVE LanguageTypeOK'
    <2>1. hasty' \in BOOLEAN
      BY <1>1, Zenon DEF ChooseCached
    <2> QED  BY <1>1, <2>1, AppliedType DEF ChooseCached
  <1>2. ASSUME NEW l \in Lang, ChooseUncached(l) \/ ChosenFails(l) \/ PackArrives(l) \/ Fetched(l)
        PROVE  LanguageTypeOK'
    BY <1>2 DEF ChooseUncached, ChosenFails, PackArrives, Fetched
  <1>3. ASSUME NEW l \in Lang, ChosenArrives(l) PROVE LanguageTypeOK'
    BY <1>3, AppliedType DEF ChosenArrives
  <1>4. CASE FirstPack
    BY <1>4, AppliedType DEF FirstPack
  <1>5. CASE Listed
    BY <1>5, HeadTailProperties DEF Listed
  <1>6. CASE LanguagePage \/ UNCHANGED languageVars
    BY <1>6, LangAssumption, EmptySeq DEF LanguagePage, languageVars
  <1> QED  BY <1>1, <1>2, <1>3, <1>4, <1>5, <1>6

\* Every step keeps the types.
LEMMA TypeStep == SettingsTypeOK /\ [Next]_vars => SettingsTypeOK'
  <1> SUFFICES ASSUME SettingsTypeOK, [Next]_vars PROVE SettingsTypeOK'
    OBVIOUS
  <1> AccentTypeOK /\ LanguageTypeOK
    BY DEF SettingsTypeOK
  <1>1. CASE Backend
    BY <1>1, BackendType
  <1>2. CASE SetUp \/ NoLanguage
    <2>1. AccentTypeOK'
      <3>1. CASE SetUp
        BY <3>1 DEF SetUp, syncAccentColor, accentSettings, AccentTypeOK
      <3>2. CASE NoLanguage
        BY <3>2, AccentType DEF NoLanguage
      <3> QED  BY <1>2, <3>1, <3>2
    <2>2. LanguageTypeOK'
      BY <1>2, LanguageType DEF SetUp, NoLanguage
    <2> QED  BY <1>2, <2>1, <2>2 DEF SetUp, NoLanguage, fileVars, SettingsTypeOK
  <1>3. CASE (\E color \in Color : SetColor(color)) \/ SetFollow \/ SetTheme \/ SavePreset
    <2>1. AccentTypeOK'
      BY <1>3, AccentType DEF SetColor, SetFollow, SetTheme, SavePreset
    <2>2. LanguageTypeOK'
      BY <1>3, LanguageType DEF SetColor, SetFollow, SetTheme, SavePreset
    <2> QED  BY <1>3, <2>1, <2>2, SaveType DEF SetColor, SetFollow, SetTheme, SavePreset
  <1>4. CASE SystemTheme \/ AccentEvents
    <2>1. AccentTypeOK' /\ LanguageTypeOK'
      BY <1>4, AccentType, LanguageType DEF SystemTheme, AccentEvents
    <2> QED  BY <1>4, <2>1 DEF SystemTheme, AccentEvents, fileVars, SettingsTypeOK
  <1>5. ASSUME NEW l \in Lang, ChooseLanguage(l) \/ LanguageArrives(l) PROVE SettingsTypeOK'
    <2>1. AccentTypeOK' /\ LanguageTypeOK' /\ stage' = stage
      BY <1>5, AccentType, LanguageType DEF ChooseLanguage, LanguageArrives
    <2> QED  BY <1>5, <2>1, SaveType DEF ChooseLanguage, LanguageArrives, fileVars, SettingsTypeOK
  <1>6. CASE Refreshed
    <2>1. AccentTypeOK' /\ LanguageTypeOK'
      BY <1>6, AccentType, LanguageType DEF Refreshed
    <2> QED  BY <1>6, <2>1 DEF Refreshed, fileVars, SettingsTypeOK
  <1>7. CASE Restart
    <2>1. AccentTypeOK' /\ LanguageTypeOK'
      BY <1>7, AccentType, LanguageType DEF Restart
    <2>2. queue' \in Seq(Command)
      BY <1>7, Commands, QueueType DEF Restart, SettingsTypeOK
    <2>3. file' \in NoFileYet \cup Saved
      BY <1>7 DEF Restart, SettingsTypeOK, NoFileYet
    <2> QED  BY <1>7, <2>1, <2>2, <2>3 DEF Restart, SettingsTypeOK
  <1>8. CASE UNCHANGED vars
    <2>1. AccentTypeOK' /\ LanguageTypeOK'
      BY <1>8, AccentType, LanguageType DEF vars
    <2> QED  BY <1>8, <2>1 DEF vars, fileVars, SettingsTypeOK
  <1> QED  BY <1>1, <1>2, <1>3, <1>4, <1>5, <1>6, <1>7, <1>8 DEF Next

\* The settings, the language menu, the file and the queue of commands keep their
\* types, whatever is read, chosen, answered or closed.
THEOREM SettingsTypeCorrect == Spec => []SettingsTypeOK
  <1> QED  BY TypeInit, TypeStep, PTL DEF Spec

-----------------------------------------------------------------------------
(* The queue of commands: a step takes at most its head off and puts at     *)
(* most one command at its end.                                            *)

Startup == {"app path", "settings path", "read"}

\* The first d commands are gone, and one of New, if there are any, is the last.
Moved(d, New) ==
    /\ Len(queue') \in Nat /\ Len(queue') >= Len(queue) - d
    /\ \A i \in 1 .. Len(queue') :
          \/ (i + d \in 1 .. Len(queue) /\ queue'[i] = queue[i + d])
          \/ (i = Len(queue') /\ i + d = Len(queue) + 1 /\ queue'[i] \in New)
    /\ New # {} => Len(queue') > 0 /\ queue'[Len(queue')] \in New

\* initApp awaits at most one answer, and it is the one its stage says.
QueueInv ==
    /\ \A i \in 1 .. Len(queue) : queue[i].cmd \in Startup => queue[i].cmd = stage
    /\ \A i, j \in 1 .. Len(queue) :
          queue[i].cmd \in Startup /\ queue[j].cmd \in Startup => i = j

\* A command put at the end.
LEMMA MovedByAppend ==
    ASSUME queue \in Seq(Command), NEW c \in Command, queue' = Append(queue, c)
    PROVE  Moved(0, {c})
  BY AppendProperties DEF Moved

\* The head taken off.
LEMMA MovedByTail ==
    ASSUME queue \in Seq(Command), queue # <<>>, Pop(<<>>)
    PROVE  Moved(1, {})
  <1>1. Tail(queue) \in Seq(Command) /\ Len(Tail(queue)) = Len(queue) - 1
    BY HeadTailProperties
  <1>2. \A i \in 1 .. Len(Tail(queue)) : Tail(queue)[i] = queue[i + 1]
    BY HeadTailProperties
  <1>3. queue' = Tail(queue)
    BY <1>1, ConcatEmptySeq DEF Pop
  <1> QED  BY <1>1, <1>2, <1>3, LenProperties DEF Moved

\* One element joined to a sequence.
LEMMA JoinOne ==
    ASSUME NEW S, NEW t \in Seq(S), NEW c \in S
    PROVE  /\ Len(t) \in Nat /\ Len(t \o <<c>>) = Len(t) + 1
           /\ \A i \in 1 .. Len(t) : (t \o <<c>>)[i] = t[i]
           /\ (t \o <<c>>)[Len(t) + 1] = c
  <1>1. <<c>> \in Seq(S) /\ Len(<<c>>) = 1 /\ <<c>>[1] = c
    OBVIOUS
  <1>2. Len(t) \in Nat
    BY LenProperties
  <1>3. /\ Len(t \o <<c>>) = Len(t) + Len(<<c>>)
        /\ \A i \in 1 .. Len(t) + Len(<<c>>) :
              (t \o <<c>>)[i] = IF i <= Len(t) THEN t[i] ELSE <<c>>[i - Len(t)]
    BY <1>1, ConcatProperties
  <1>4. \A i \in 1 .. Len(t) + 1 : (t \o <<c>>)[i] = IF i <= Len(t) THEN t[i] ELSE <<c>>[i - Len(t)]
    BY <1>1, <1>3
  <1>5. (t \o <<c>>)[Len(t) + 1] = <<c>>[Len(t) + 1 - Len(t)]
    BY <1>2, <1>4
  <1> QED  BY <1>1, <1>2, <1>3, <1>4, <1>5

\* The head taken off, and a command put at the end.
LEMMA MovedByBoth ==
    ASSUME queue \in Seq(Command), queue # <<>>, NEW c \in Command, Pop(<<c>>)
    PROVE  Moved(1, {c})
  <1>1. Tail(queue) \in Seq(Command) /\ Len(Tail(queue)) = Len(queue) - 1
    BY HeadTailProperties
  <1>2. \A i \in 1 .. Len(Tail(queue)) : Tail(queue)[i] = queue[i + 1]
    BY HeadTailProperties
  <1>3. /\ Len(queue') = Len(Tail(queue)) + 1
        /\ \A i \in 1 .. Len(Tail(queue)) : queue'[i] = Tail(queue)[i]
        /\ queue'[Len(Tail(queue)) + 1] = c
    BY <1>1, JoinOne DEF Pop
  <1>4. Len(queue) \in Nat /\ Len(queue) > 0
    BY LenProperties, EmptySeq
  <1>5. Len(queue') = Len(queue) /\ queue'[Len(queue)] = c
    BY <1>1, <1>3, <1>4
  <1>6. \A i \in 1 .. Len(queue) - 1 : queue'[i] = queue[i + 1]
    BY <1>1, <1>2, <1>3
  <1>7. \A i \in 1 .. Len(queue') : i \in 1 .. Len(queue) - 1 \/ i = Len(queue)
    BY <1>4, <1>5
  <1> QED  BY <1>4, <1>5, <1>6, <1>7 DEF Moved

\* initApp gets the answer it awaits, and asks at most its next question.
LEMMA QueueAnswered ==
    ASSUME queue \in Seq(Command), QueueInv, queue # <<>>, queue[1].cmd \in Startup,
           NEW New, Moved(1, New), \A c \in New : c.cmd = stage'
    PROVE  QueueInv'
  <1>1. Len(queue) \in Nat /\ Len(queue) > 0
    BY LenProperties, EmptySeq
  <1>2. \A i \in 2 .. Len(queue) : queue[i].cmd \notin Startup
    BY <1>1 DEF QueueInv
  <1>3. \A i \in 1 .. Len(queue') :
          queue'[i].cmd \in Startup => i = Len(queue') /\ queue'[i] \in New
    BY <1>1, <1>2 DEF Moved
  <1> QED  BY <1>3 DEF QueueInv

\* Everything else that happens to the queue.
LEMMA QueueKept ==
    ASSUME queue \in Seq(Command), QueueInv, stage' = stage,
           NEW d \in {0, 1}, NEW New, Moved(d, New), \A c \in New : c.cmd \notin Startup
    PROVE  QueueInv'
  <1>1. Len(queue) \in Nat
    BY LenProperties
  <1>2. \A i \in 1 .. Len(queue') :
          queue'[i].cmd \in Startup => i + d \in 1 .. Len(queue) /\ queue'[i] = queue[i + d]
    BY <1>1 DEF Moved
  <1>3. \A i \in 1 .. Len(queue') : queue'[i].cmd \in Startup => queue'[i].cmd = stage'
    BY <1>2 DEF QueueInv
  <1>4. ASSUME NEW i \in 1 .. Len(queue'), NEW j \in 1 .. Len(queue'),
               queue'[i].cmd \in Startup, queue'[j].cmd \in Startup
        PROVE  i = j
    <2>1. i + d = j + d
      BY <1>2, <1>4 DEF QueueInv
    <2>2. i \in Int /\ j \in Int
      BY DEF Moved
    <2> QED  BY <2>1, <2>2
  <1> QED  BY <1>3, <1>4 DEF QueueInv

\* The command a save sends, when the settings are as they are after the step.
SaveCommand == IF pathKnown THEN Write(Current') ELSE [cmd |-> "path to save"]

\* A save puts one command behind the others: the write, or the question for its path.
LEMMA SaveMoves ==
    ASSUME SettingsTypeOK, SettingsTypeOK', saveAppSettings
    PROVE  Moved(0, {SaveCommand}) /\ SaveCommand.cmd \in {"write", "path to save"}
  <1>1. Current' \in Saved
    BY DEF SettingsTypeOK, AccentTypeOK, LanguageTypeOK, Current, Saved
  <1>2. SaveCommand \in Command
    BY <1>1, Commands DEF SaveCommand
  <1>3. SaveCommand.cmd \in {"write", "path to save"}
    BY DEF SaveCommand, Write
  <1> QED  BY <1>2, <1>3, MovedByAppend DEF saveAppSettings, SaveCommand, SettingsTypeOK

\* The backend's part of the invariant of the queue.
LEMMA QueueBackend ==
    ASSUME SettingsTypeOK, QueueInv, Backend
    PROVE  QueueInv'
  <1>0. queue \in Seq(Command) /\ queue # <<>>
    BY DEF SettingsTypeOK, Backend
  <1>1. queue \in Seq(Command) /\ queue # <<>> /\ Head(queue) = queue[1]
    BY <1>0
  <1>2. CASE AppPath
    <2> DEFINE ask == [cmd |-> "settings path"]
    <2>1. queue[1].cmd \in Startup
      BY <1>1, <1>2 DEF AppPath, Startup
    <2>2. ask.cmd = stage' /\ ask \in Command /\ Pop(<<ask>>)
      BY <1>2, Commands DEF AppPath
    <2> HIDE DEF ask
    <2>3. Moved(1, {ask})
      BY <1>1, <2>2, MovedByBoth
    <2> QED  BY <1>1, <2>1, <2>2, <2>3, QueueAnswered
  <1>3. CASE SettingsPath
    <2>1. queue[1].cmd \in Startup
      BY <1>1, <1>3 DEF SettingsPath, Startup
    <2>2. CASE Pop(<<[cmd |-> "read"]>>) /\ stage' = "read"
      <3>1. \A c \in {[cmd |-> "read"]} : c.cmd = stage'
        BY <2>2
      <3>2. Moved(1, {[cmd |-> "read"]})
        BY <1>1, <2>2, MovedByBoth, Commands
      <3> QED  BY <1>1, <2>1, <3>1, <3>2, QueueAnswered
    <2>3. CASE Pop(<<>>)
      <3>1. Moved(1, {})
        BY <1>1, <2>3, MovedByTail
      <3> QED  BY <1>1, <2>1, <3>1, QueueAnswered
    <2> QED  BY <1>3, <2>2, <2>3 DEF SettingsPath
  <1>4. CASE ReadSettings
    <2>1. queue[1].cmd \in Startup
      BY <1>1, <1>4 DEF ReadSettings, Startup
    <2>2. Moved(1, {})
      BY <1>1, <1>4, MovedByTail DEF ReadSettings
    <2> QED  BY <1>1, <2>1, <2>2, QueueAnswered
  <1>5. CASE PathToSave
    <2>0. stage' = stage /\ 1 \in {0, 1}
      BY <1>5 DEF PathToSave
    <2>1. CASE Pop(<<Write(Current)>>)
      <3>1. Write(Current) \in Command /\ Write(Current).cmd = "write"
        BY Commands DEF SettingsTypeOK, AccentTypeOK, LanguageTypeOK, Current, Saved, Write
      <3>2. Moved(1, {Write(Current)})
        BY <1>1, <2>1, <3>1, MovedByBoth
      <3>3. \A c \in {Write(Current)} : c.cmd \notin Startup
        BY <3>1 DEF Startup
      <3> QED  BY <1>1, <2>0, <3>2, <3>3, QueueKept
    <2>2. CASE Pop(<<>>)
      <3>1. Moved(1, {})
        BY <1>1, <2>2, MovedByTail
      <3> QED  BY <1>1, <2>0, <3>1, QueueKept
    <2> QED  BY <1>5, <2>1, <2>2 DEF PathToSave
  <1>6. CASE WriteSettings
    <2>1. Moved(1, {})
      BY <1>1, <1>6, MovedByTail DEF WriteSettings
    <2>2. stage' = stage /\ 1 \in {0, 1}
      BY <1>6 DEF WriteSettings
    <2> QED  BY <1>1, <2>1, <2>2, QueueKept
  <1> QED  BY <1>2, <1>3, <1>4, <1>5, <1>6 DEF Backend

\* Every step leaves initApp with the one answer it awaits.
LEMMA QueueStep ==
    ASSUME SettingsTypeOK, SettingsTypeOK', QueueInv, [Next]_vars
    PROVE  QueueInv'
  <1>1. queue \in Seq(Command)
    BY DEF SettingsTypeOK
  <1>2. CASE saveAppSettings /\ stage' = stage
    <2>1. Moved(0, {SaveCommand}) /\ 0 \in {0, 1}
      BY <1>2, SaveMoves
    <2>2. \A c \in {SaveCommand} : c.cmd \notin Startup
      BY <1>2, SaveMoves DEF Startup
    <2> QED  BY <1>1, <1>2, <2>1, <2>2, QueueKept
  <1>3. CASE UNCHANGED <<queue, stage>>
    BY <1>3 DEF QueueInv
  <1>4. CASE SetUp \/ NoLanguage
    <2>1. queue' = queue /\ stage = "language"
      BY <1>4 DEF SetUp, NoLanguage, fileVars
    <2> QED  BY <2>1 DEF QueueInv, Startup
  <1>5. CASE Restart
    <2>1. queue' = <<[cmd |-> "app path"]>> /\ stage' = "app path"
      BY <1>5 DEF Restart
    <2>2. Len(queue') = 1 /\ queue'[1].cmd = stage'
      BY <2>1
    <2> QED  BY <2>2 DEF QueueInv
  <1>6. CASE \/ \E color \in Color : SetColor(color)
             \/ SetFollow \/ SetTheme \/ SavePreset
    BY <1>2, <1>6 DEF SetColor, SetFollow, SetTheme, SavePreset
  <1>7. CASE \E l \in Lang : ChooseLanguage(l) \/ LanguageArrives(l)
    BY <1>2, <1>3, <1>7 DEF ChooseLanguage, LanguageArrives, fileVars
  <1>8. CASE SystemTheme \/ Refreshed \/ AccentEvents
    BY <1>3, <1>8 DEF SystemTheme, Refreshed, AccentEvents, fileVars
  <1>9. CASE UNCHANGED vars
    BY <1>3, <1>9 DEF vars, fileVars
  <1> QED  BY <1>4, <1>5, <1>6, <1>7, <1>8, <1>9, QueueBackend DEF Next

-----------------------------------------------------------------------------
(* The language.                                                           *)

\* Before the page is set up its menu is not there.
Untouched ==
    /\ loads = {} /\ fetching = {} /\ listing = <<>>
    /\ label = NoLang /\ chosen = NoLang /\ hasty = FALSE

\* What LanguageSettles rests on: the refresh that will come last has captured
\* the language of the page, and, as long as no choice was hasty, so have all of
\* them until there is a choice, and a choice finds nothing to be fetched.
MenuInv ==
    /\ listing # <<>> => listing[Len(listing)] = lang
    /\ hasty = FALSE =>
         /\ loads = {}
         /\ chosen = NoLang => /\ fetching \subseteq {lang}
                               /\ \A i \in 1 .. Len(listing) : listing[i] = lang
         /\ chosen # NoLang => chosen = lang /\ cache = Lang /\ fetching = {}
         /\ listing = <<>> /\ fetching = {} /\ label # NoLang => label = lang

LanguageInv == (~Ready => Untouched) /\ MenuInv

\* n refreshes more, all of the language there is now.
LEMMA AppliedListing ==
    ASSUME listing \in Seq(Lang), NEW l \in Lang, NEW n \in Nat, Applied(l, n)
    PROVE  /\ listing' # <<>> /\ listing'[Len(listing')] = l
           /\ \A i \in 1 .. Len(listing') :
                 listing'[i] = l \/ (i \in 1 .. Len(listing) /\ listing'[i] = listing[i])
  <1> DEFINE more == [i \in 1 .. (n + 1) |-> l]
  <1>1. more \in Seq(Lang) /\ Len(more) = n + 1 /\ \A i \in 1 .. (n + 1) : more[i] = l
    OBVIOUS
  <1>2. Len(listing) \in Nat
    BY LenProperties
  <1> HIDE DEF more
  <1>3. /\ Len(listing \o more) = Len(listing) + Len(more)
        /\ \A i \in 1 .. Len(listing) + Len(more) :
              (listing \o more)[i] = IF i <= Len(listing) THEN listing[i] ELSE more[i - Len(listing)]
    BY <1>1, ConcatProperties
  <1>4. listing' = listing \o more
    BY DEF Applied, more
  <1>5. \A i \in 1 .. Len(listing') :
            listing'[i] = l \/ (i \in 1 .. Len(listing) /\ listing'[i] = listing[i])
    <2> TAKE i \in 1 .. Len(listing')
    <2>1. CASE i <= Len(listing)
      BY <1>1, <1>2, <1>3, <1>4, <2>1
    <2>2. CASE ~(i <= Len(listing))
      <3>1. i - Len(listing) \in 1 .. (n + 1)
        BY <1>1, <1>2, <1>3, <1>4, <2>2
      <3> QED  BY <1>1, <1>2, <1>3, <1>4, <2>2, <3>1
    <2> QED  BY <2>1, <2>2
  <1>6. Len(listing') = Len(listing) + n + 1
    BY <1>1, <1>2, <1>3, <1>4
  <1>7. listing'[Len(listing')] = l
    <2>1. Len(listing') \in 1 .. Len(listing') /\ Len(listing') \notin 1 .. Len(listing)
      BY <1>2, <1>6
    <2> QED  BY <1>5, <2>1
  <1>8. listing' # <<>>
    BY <1>2, <1>6, EmptySeq
  <1> QED  BY <1>5, <1>7, <1>8

\* An item of the menu.
LEMMA ChooseMenu ==
    ASSUME LanguageTypeOK, MenuInv, NEW l \in Lang, ChooseCached(l) \/ ChooseUncached(l)
    PROVE  MenuInv'
  <1>1. l # NoLang
    BY LangAssumption
  <1>2. CASE ChooseCached(l)
    <2>1. listing \in Seq(Lang)
      BY DEF LanguageTypeOK
    <2>2. lang' = l /\ listing' # <<>> /\ listing'[Len(listing')] = l
      BY <1>2, <2>1, AppliedListing DEF ChooseCached, Applied
    <2>3. ASSUME hasty' = FALSE PROVE hasty = FALSE /\ fetching = {} /\ cache = Lang
      <3>1. hasty \in BOOLEAN
        BY DEF LanguageTypeOK
      <3>2. ~(hasty \/ fetching # {} \/ cache # Lang)
        BY <1>2, <2>3, Zenon DEF ChooseCached
      <3> QED  BY <3>1, <3>2
    <2> QED  BY <1>1, <1>2, <2>2, <2>3 DEF ChooseCached, MenuInv
  <1>3. CASE ChooseUncached(l)
    BY <1>3 DEF ChooseUncached, MenuInv
  <1> QED  BY <1>2, <1>3

\* Its pack arrives, or does not; and a pack that a refresh was missing does.
LEMMA ArrivesMenu ==
    ASSUME LanguageTypeOK, MenuInv, NEW l \in Lang,
           ChosenArrives(l) \/ ChosenFails(l) \/ PackArrives(l)
    PROVE  MenuInv'
  <1>1. CASE ChosenArrives(l)
    <2>1. listing \in Seq(Lang)
      BY DEF LanguageTypeOK
    <2>2. lang' = l /\ listing' # <<>> /\ listing'[Len(listing')] = l
      BY <1>1, <2>1, AppliedListing DEF ChosenArrives, Applied
    <2>3. hasty # FALSE /\ hasty' = hasty
      BY <1>1 DEF ChosenArrives, MenuInv
    <2> QED  BY <2>2, <2>3 DEF MenuInv
  <1>2. CASE ChosenFails(l)
    BY <1>2 DEF ChosenFails, MenuInv
  <1>3. CASE PackArrives(l)
    BY <1>3 DEF PackArrives, MenuInv, LanguageTypeOK
  <1> QED  BY <1>1, <1>2, <1>3

\* The refreshes of the menu.
LEMMA RefreshMenu ==
    ASSUME LanguageTypeOK, MenuInv, Listed \/ \E l \in Lang : Fetched(l)
    PROVE  MenuInv'
  <1>1. CASE Listed
    <2>1. listing \in Seq(Lang) /\ listing # <<>> /\ listing' = Tail(listing)
      BY <1>1 DEF Listed, LanguageTypeOK
    <2>2. Len(listing) \in Nat \ {0} /\ Head(listing) = listing[1]
      BY <2>1, EmptySeq
    <2>3. Len(listing') = Len(listing) - 1 /\ \A i \in 1 .. Len(listing') : listing'[i] = listing[i + 1]
      BY <2>1, HeadTailProperties
    <2>4. listing' \in Seq(Lang)
      BY <2>1, HeadTailProperties
    <2>5. CASE listing' = <<>>
      <3>1. Len(listing) = 1
        BY <2>2, <2>3, <2>5, EmptySeq
      <3>2. Head(listing) = lang
        BY <2>1, <2>2, <3>1 DEF MenuInv
      <3>3. lang' = lang /\ loads' = loads /\ cache' = cache /\ chosen' = chosen /\ hasty' = hasty
        BY <1>1 DEF Listed
      <3>4. CASE cache = Lang
        BY <1>1, <2>5, <3>2, <3>3, <3>4 DEF Listed, MenuInv
      <3>5. CASE cache # Lang
        <4>1. fetching' = fetching \cup {lang} /\ label' = label
          BY <1>1, <3>2, <3>5 DEF Listed
        <4> QED  BY <2>5, <3>3, <3>5, <4>1, EmptySeq DEF MenuInv
      <3> QED  BY <3>4, <3>5
    <2>6. CASE listing' # <<>>
      <3>1. Len(listing') \in 1 .. Len(listing') /\ Len(listing') + 1 = Len(listing)
        BY <2>2, <2>3, <2>4, <2>6, EmptySeq
      <3>2. listing'[Len(listing')] = lang'
        BY <1>1, <2>1, <2>3, <3>1 DEF Listed, MenuInv
      <3>3. ASSUME hasty = FALSE, chosen = NoLang
            PROVE  /\ \A i \in 1 .. Len(listing') : listing'[i] = lang
                   /\ Head(listing) = lang
        <4>1. \A i \in 1 .. Len(listing) : listing[i] = lang
          BY <3>3 DEF MenuInv
        <4>2. \A i \in 1 .. Len(listing') : i + 1 \in 1 .. Len(listing)
          BY <2>2, <2>3
        <4> QED  BY <2>2, <2>3, <4>1, <4>2
      <3> QED  BY <1>1, <2>6, <3>2, <3>3 DEF Listed, MenuInv
    <2> QED  BY <2>5, <2>6
  <1>2. ASSUME NEW l \in Lang, Fetched(l) PROVE MenuInv'
    BY <1>2 DEF Fetched, MenuInv
  <1> QED  BY <1>1, <1>2

\* The first pack, and the three refreshes after it.
LEMMA FirstMenu ==
    ASSUME LanguageTypeOK, Untouched, FirstPack
    PROVE  MenuInv'
  <1>1. listing \in Seq(Lang) /\ lang \in Lang /\ Applied(lang, 2)
    BY DEF LanguageTypeOK, FirstPack
  <1>2. /\ listing' # <<>> /\ listing'[Len(listing')] = lang
        /\ \A i \in 1 .. Len(listing') :
              listing'[i] = lang \/ (i \in 1 .. Len(listing) /\ listing'[i] = listing[i])
    BY <1>1, AppliedListing
  <1>3. \A i \in 1 .. Len(listing') : listing'[i] = lang
    BY <1>2 DEF Untouched
  <1> QED  BY <1>1, <1>2, <1>3 DEF Untouched, FirstPack, Applied, MenuInv

\* A page that is not set up, and one whose language nothing happens to.
LEMMA UntouchedMenu ==
    ASSUME Untouched'
    PROVE  LanguageInv'
  BY DEF Untouched, LanguageInv, MenuInv

\* A step that leaves the language and the stage alone.
LEMMA SameMenu ==
    ASSUME LanguageInv, UNCHANGED languageVars, stage' = stage
    PROVE  LanguageInv'
  BY DEF Untouched, LanguageInv, MenuInv, languageVars, Ready

\* Every step keeps the invariant of the language.
LEMMA LanguageStep ==
    ASSUME SettingsTypeOK, QueueInv, LanguageInv, [Next]_vars
    PROVE  LanguageInv'
  <1> LanguageTypeOK
    BY DEF SettingsTypeOK
  <1>1. CASE Backend
    <2>1. CASE PathToSave \/ WriteSettings
      BY <2>1, SameMenu DEF PathToSave, WriteSettings
    <2>2. CASE AppPath \/ SettingsPath \/ ReadSettings
      <3>1. queue \in Seq(Command) /\ queue # <<>>
        BY <1>1 DEF Backend, SettingsTypeOK
      <3>2. Head(queue) = queue[1] /\ 1 \in 1 .. Len(queue)
        BY <3>1, EmptySeq
      <3>3. queue[1].cmd \in Startup
        BY <2>2, <3>2 DEF AppPath, SettingsPath, ReadSettings, Startup
      <3>4. ~Ready
        BY <3>2, <3>3 DEF QueueInv, Ready, Startup
      <3>5. Untouched'
        BY <2>2, <3>4 DEF LanguageInv, Untouched, AppPath, SettingsPath, ReadSettings, languageVars
      <3> QED  BY <3>5, UntouchedMenu
    <2> QED  BY <1>1, <2>1, <2>2 DEF Backend
  <1>2. CASE SetUp
    BY <1>2, FirstMenu DEF SetUp, LanguageInv, Ready
  <1>3. CASE NoLanguage
    <2>1. Untouched'
      BY <1>3 DEF NoLanguage, LanguageInv, Ready, Untouched, languageVars
    <2> QED  BY <2>1, UntouchedMenu
  <1>4. CASE \/ \E color \in Color : SetColor(color)
             \/ SetFollow \/ SetTheme \/ SystemTheme \/ SavePreset \/ AccentEvents
    BY <1>4, SameMenu DEF SetColor, SetFollow, SetTheme, SystemTheme, SavePreset, AccentEvents
  <1>5. ASSUME NEW l \in Lang, ChooseLanguage(l) \/ LanguageArrives(l) PROVE LanguageInv'
    <2>1. MenuInv'
      BY <1>5, ChooseMenu, ArrivesMenu DEF ChooseLanguage, LanguageArrives, LanguageInv
    <2>2. Ready'
      BY <1>5 DEF ChooseLanguage, LanguageArrives, LanguageInv, Untouched, Ready,
                  ChooseCached, ChooseUncached, ChosenArrives, ChosenFails
    <2> QED  BY <2>1, <2>2 DEF LanguageInv
  <1>6. CASE Refreshed
    <2>1. MenuInv'
      BY <1>6, RefreshMenu, ArrivesMenu DEF Refreshed, LanguageInv
    <2>2. Ready'
      BY <1>6 DEF Refreshed, LanguageInv, Untouched, Ready, Listed, PackArrives, Fetched
    <2> QED  BY <2>1, <2>2 DEF LanguageInv
  <1>7. CASE Restart
    <2>1. Untouched'
      BY <1>7 DEF Restart, LanguagePage, Untouched
    <2> QED  BY <2>1, UntouchedMenu
  <1>8. CASE UNCHANGED vars
    BY <1>8, SameMenu DEF vars
  <1> QED  BY <1>1, <1>2, <1>3, <1>4, <1>5, <1>6, <1>7, <1>8 DEF Next

\* The first state.
LEMMA SettingsStart == Init => SettingsTypeOK /\ QueueInv /\ LanguageInv
  <1> SUFFICES ASSUME Init PROVE QueueInv /\ LanguageInv
    BY TypeInit
  <1>1. Len(queue) = 1 /\ queue[1].cmd = stage
    BY DEF Init
  <1>2. Untouched
    BY DEF Init, LanguageInit, Untouched
  <1> QED  BY <1>1, <1>2 DEF QueueInv, LanguageInv, Untouched, MenuInv

\* When nothing is under way any more, the language is the one chosen last and the
\* menu's button says so, unless a choice was made before every pack had been
\* fetched: whatever order the packs and the refreshes come in.
THEOREM LanguageSettlesAlways == Spec => []LanguageSettles
  <1> DEFINE Inv == SettingsTypeOK /\ QueueInv /\ LanguageInv
  <1>1. Inv /\ [Next]_vars => Inv'
    BY TypeStep, QueueStep, LanguageStep
  <1>2. Inv => LanguageSettles
    <2> SUFFICES ASSUME Inv PROVE LanguageSettles
      OBVIOUS
    <2> QED  BY DEF LanguageInv, MenuInv, LanguageSettles
  <1> QED  BY SettingsStart, <1>1, <1>2, PTL DEF Spec

-----------------------------------------------------------------------------
(* The file.                                                               *)

Saves == {"write", "path to save"}

\* No save is asked for behind the ith command.
After(i) == \A j \in 1 .. Len(queue) : j > i => queue[j].cmd \notin Saves

\* The same choices of the user; the system's colour is not one.
SameChoices(a, b) == a.accent = b.accent /\ a.follow = b.follow /\ a.lang = b.lang

\* A write made before the settings were there comes before all that were not,
\* and the fault it is has been recorded.
EarlyInv ==
    /\ \A i \in 1 .. Len(queue) : queue[i].cmd = "write" /\ ~Loaded => queue[i].early = TRUE
    /\ \A i, j \in 1 .. Len(queue) :
          i < j /\ queue[i].cmd = "write" /\ queue[j].cmd = "write" /\ queue[j].early = TRUE
            => queue[i].early = TRUE
    /\ \A i \in 1 .. Len(queue) :
          /\ queue[i].cmd = "write" /\ queue[i].early = TRUE => fault = TRUE
          /\ queue[i].cmd = "path to save" /\ ~Loaded => fault = TRUE

\* The choices are in the file, or in the last write asked for, or a save that
\* has yet to take them is behind it.
AgreeInv ==
    /\ ~Loaded => SameChoices(Current, Default)
    /\ Loaded /\ fault = FALSE /\ After(0) =>
         SameChoices(Current, IF file \in NoFileYet THEN Default ELSE file)
    /\ \A i \in 1 .. Len(queue) :
          Loaded /\ queue[i].cmd = "write" /\ queue[i].early = FALSE /\ After(i)
            => SameChoices(Current, queue[i].data)

\* What is behind a command is behind it after the step.
LEMMA AfterMoved ==
    ASSUME queue \in Seq(Command), NEW d \in {0, 1}, NEW New, Moved(d, New),
           NEW i \in Nat, After(i)'
    PROVE  After(i + d)
  <1>1. Len(queue) \in Nat /\ Len(queue') \in Nat /\ Len(queue') >= Len(queue) - d
    BY LenProperties DEF Moved
  <1> SUFFICES ASSUME NEW j \in 1 .. Len(queue), j > i + d
               PROVE  queue[j].cmd \notin Saves
    BY DEF After
  <1>2. j - d \in 1 .. Len(queue') /\ j - d > i
    BY <1>1
  <1>3. queue'[j - d] = queue[j]
    <2>1. ~((j - d) + d = Len(queue) + 1) /\ (j - d) + d = j
      BY <1>1
    <2> QED  BY <1>2, <2>1 DEF Moved
  <1> QED  BY <1>2, <1>3 DEF After, Saves

\* A save at the end is behind everything.
LEMMA SaveBehind ==
    ASSUME NEW d, NEW New, Moved(d, New), New # {}, \A c \in New : c.cmd \in Saves,
           NEW i \in Nat, After(i)'
    PROVE  i >= Len(queue')
  <1>1. Len(queue') \in 1 .. Len(queue') /\ queue'[Len(queue')] \in New
    BY DEF Moved
  <1>2. queue'[Len(queue')].cmd \in Saves
    BY <1>1
  <1>3. ~(Len(queue') > i)
    BY <1>1, <1>2 DEF After, Saves
  <1> QED  BY <1>1, <1>3

\* A command that a step may put at the end: a write is early when the settings
\* are not there, and what has to be a fault has been recorded as one.
Harmless(c) ==
    /\ c.cmd = "write" => (c.early = TRUE <=> ~Loaded) /\ (Loaded' => Loaded)
    /\ c.cmd = "write" /\ c.early = TRUE => fault' = TRUE
    /\ c.cmd = "path to save" /\ ~Loaded' => fault' = TRUE

\* A step that takes no fault back.
MovedSafely(d, New) ==
    /\ Moved(d, New)
    /\ Loaded => Loaded'
    /\ fault = TRUE => fault' = TRUE
    /\ \A c \in New : Harmless(c)

\* Two places in a queue, and where they were.
LEMMA Places ==
    ASSUME NEW m \in Nat, NEW d \in {0, 1}
    PROVE  \A i, j \in 1 .. m : i < j => i # m /\ i + d < j + d
  OBVIOUS

\* The steps that do not take a fault back.
LEMMA EarlyMoved ==
    ASSUME queue \in Seq(Command), EarlyInv, NEW d \in {0, 1}, NEW New, MovedSafely(d, New)
    PROVE  EarlyInv'
  <1> Moved(d, New)
    BY DEF MovedSafely
  <1>1. Len(queue) \in Nat /\ Len(queue') \in Nat
    BY LenProperties DEF Moved
  <1>2. \A i \in 1 .. Len(queue') :
          \/ (i + d \in 1 .. Len(queue) /\ queue'[i] = queue[i + d])
          \/ (i = Len(queue') /\ queue'[i] \in New)
    BY DEF Moved
  <1>3. ASSUME NEW i \in 1 .. Len(queue'), queue'[i].cmd = "write", ~Loaded'
        PROVE  queue'[i].early = TRUE
    BY <1>2, <1>3 DEF EarlyInv, MovedSafely, Harmless
  <1>4. ASSUME NEW i \in 1 .. Len(queue'), NEW j \in 1 .. Len(queue'), i < j,
               queue'[i].cmd = "write", queue'[j].cmd = "write", queue'[j].early = TRUE
        PROVE  queue'[i].early = TRUE
    <2>0. i # Len(queue') /\ i + d < j + d
      BY <1>1, <1>4, Places
    <2>1. i + d \in 1 .. Len(queue) /\ queue'[i] = queue[i + d]
      BY <1>2, <2>0
    <2>2. CASE j + d \in 1 .. Len(queue) /\ queue'[j] = queue[j + d]
      BY <1>4, <2>0, <2>1, <2>2 DEF EarlyInv
    <2>3. CASE queue'[j] \in New
      BY <1>4, <2>1, <2>3 DEF EarlyInv, MovedSafely, Harmless
    <2> QED  BY <1>2, <2>2, <2>3
  <1>5. ASSUME NEW i \in 1 .. Len(queue'),
               \/ (queue'[i].cmd = "write" /\ queue'[i].early = TRUE)
               \/ (queue'[i].cmd = "path to save" /\ ~Loaded')
        PROVE  fault' = TRUE
    BY <1>2, <1>5 DEF EarlyInv, MovedSafely, Harmless
  <1> QED  BY <1>3, <1>4, <1>5 DEF EarlyInv

\* What a write is depends on whether the settings are there.
LEMMA WriteEarly ==
    ASSUME NEW now
    PROVE  /\ Write(now).cmd = "write" /\ Write(now).data = now
           /\ Write(now).early = TRUE <=> ~Loaded
           /\ Write(now).early = FALSE <=> Loaded
  <1>1. Loaded \in BOOLEAN
    BY DEF Loaded
  <1> HIDE DEF Loaded
  <1> QED  BY <1>1 DEF Write

\* A save.
LEMMA FileSave ==
    ASSUME SettingsTypeOK, SettingsTypeOK', EarlyInv, AgreeInv, saveAppSettings, stage' = stage,
           ~Loaded => SameChoices(Current', Current)
    PROVE  EarlyInv' /\ AgreeInv'
  <1> DEFINE c == SaveCommand
  <1>1. queue \in Seq(Command) /\ Len(queue) \in Nat
    BY LenProperties DEF SettingsTypeOK
  <1>2. Moved(0, {c}) /\ c.cmd \in Saves
    BY SaveMoves DEF Saves
  <1>3. Loaded' <=> Loaded
    BY DEF Loaded
  <1>4. fault = TRUE \/ ~Loaded => fault' = TRUE
    BY DEF saveAppSettings
  <1>5. c.cmd = "write" => /\ c.early = TRUE <=> ~Loaded
                           /\ c.data = Current'
    <2>1. CASE pathKnown
      BY <2>1, WriteEarly DEF SaveCommand
    <2>2. CASE ~pathKnown
      BY <2>2 DEF SaveCommand
    <2> QED  BY <2>1, <2>2
  <1> HIDE DEF c
  <1>6. EarlyInv'
    <2>1. Harmless(c)
      BY <1>3, <1>4, <1>5 DEF Harmless
    <2>2. 0 \in {0, 1} /\ MovedSafely(0, {c})
      BY <1>2, <1>3, <1>4, <2>1 DEF MovedSafely
    <2> QED  BY <1>1, <2>2, EarlyMoved
  <1>7. AgreeInv'
    <2>1. ~Loaded' => SameChoices(Current', Default)
      BY <1>3 DEF AgreeInv, SameChoices
    <2>2. \A i \in Nat : After(i)' => i >= Len(queue')
      BY <1>2, SaveBehind
    <2>3. Len(queue') \in Nat /\ Len(queue') > 0 /\ queue'[Len(queue')] = c
      BY <1>2 DEF Moved
    <2>4. ~After(0)'
      BY <2>2, <2>3
    <2>5. \A i \in 1 .. Len(queue') : After(i)' => queue'[i] = c
      BY <2>2, <2>3
    <2>6. \A i \in 1 .. Len(queue') :
              queue'[i].cmd = "write" /\ After(i)' => SameChoices(Current', queue'[i].data)
      BY <1>5, <2>5 DEF SameChoices
    <2> QED  BY <2>1, <2>4, <2>6 DEF AgreeInv
  <1> QED  BY <1>6, <1>7

\* A step that leaves the file and the queue alone.
LEMMA FileSame ==
    ASSUME EarlyInv, AgreeInv, UNCHANGED <<queue, file, fault>>,
           Loaded' <=> Loaded, SameChoices(Current', Current)
    PROVE  EarlyInv' /\ AgreeInv'
  <1>1. \A i \in Nat : After(i)' <=> After(i)
    BY DEF After
  <1>2. EarlyInv'
    BY DEF EarlyInv
  <1>3. AgreeInv'
    BY <1>1 DEF AgreeInv, SameChoices
  <1> QED  BY <1>2, <1>3

\* The head is gone, and no choice has changed on a page whose settings are there.
LEMMA AgreeMoved ==
    ASSUME queue \in Seq(Command), AgreeInv, Moved(1, {}), Loaded, Loaded',
           SameChoices(Current', Current),
           fault' = FALSE /\ After(1) =>
               SameChoices(Current', IF file' \in NoFileYet THEN Default ELSE file')
    PROVE  AgreeInv'
  <1>1. 0 \in Nat /\ 1 \in {0, 1}
    OBVIOUS
  <1>2. After(0)' => After(1)
    BY <1>1, AfterMoved
  <1>3. ASSUME NEW i \in 1 .. Len(queue'), queue'[i].cmd = "write", queue'[i].early = FALSE,
               After(i)'
        PROVE  SameChoices(Current', queue'[i].data)
    <2>1. i \in Nat
      BY DEF Moved
    <2>2. After(i + 1) /\ i + 1 \in 1 .. Len(queue) /\ queue'[i] = queue[i + 1]
      BY <1>1, <1>3, <2>1, AfterMoved DEF Moved
    <2> QED  BY <1>3, <2>2 DEF AgreeInv, SameChoices
  <1> QED  BY <1>2, <1>3 DEF AgreeInv

\* The backend's part of the invariant of the file.
LEMMA FileBackend ==
    ASSUME SettingsTypeOK, QueueInv, EarlyInv, AgreeInv, Backend
    PROVE  EarlyInv' /\ AgreeInv'
  <1>0. queue \in Seq(Command) /\ queue # <<>>
    BY DEF SettingsTypeOK, Backend
  <1>1. Head(queue) = queue[1] /\ 1 \in 1 .. Len(queue) /\ queue[1] \in Command
    BY <1>0, EmptySeq, HeadTailProperties
  <1>2. 0 \in {0, 1} /\ 1 \in {0, 1}
    OBVIOUS
  <1>3. queue[1].cmd \in Startup => ~Loaded /\ SameChoices(Current, Default)
    BY <1>1 DEF QueueInv, AgreeInv, Loaded, Startup
  <1>4. ASSUME AppPath \/ (SettingsPath /\ stage' = "read") PROVE EarlyInv' /\ AgreeInv'
    <2>1. ~Loaded' /\ Current' = Current /\ fault' = fault /\ queue[1].cmd \in Startup
      BY <1>1, <1>4 DEF AppPath, SettingsPath, Loaded, Startup, Current,
                        accentVars, accentSettings, languageVars
    <2>2. PICK c \in Command : c.cmd \in Startup /\ Pop(<<c>>)
      BY <1>4, Commands DEF AppPath, SettingsPath, Startup
    <2>3. Moved(1, {c}) /\ Harmless(c)
      BY <1>0, <2>2, MovedByBoth DEF Harmless, Startup
    <2>4. ~Loaded
      BY <1>3, <2>1
    <2>5. EarlyInv'
      <3>1. MovedSafely(1, {c})
        BY <2>1, <2>3, <2>4 DEF MovedSafely
      <3> QED  BY <1>0, <1>2, <3>1, EarlyMoved
    <2>6. AgreeInv'
      BY <1>3, <2>1 DEF AgreeInv
    <2> QED  BY <2>5, <2>6
  <1>5. ASSUME (SettingsPath /\ stage' = "language") \/ ReadSettings PROVE EarlyInv' /\ AgreeInv'
    <2>1. ~Loaded /\ SameChoices(Current, Default) /\ Loaded' /\ Pop(<<>>) /\ file' = file
      BY <1>1, <1>3, <1>5 DEF SettingsPath, ReadSettings, Loaded, Startup
    <2>2. Moved(1, {})
      BY <1>0, <2>1, MovedByTail
    <2>3. fault = TRUE => fault' = TRUE
      BY <1>5, Zenon DEF SettingsPath, ReadSettings
    <2>4. EarlyInv'
      <3>1. MovedSafely(1, {})
        BY <2>1, <2>2, <2>3 DEF MovedSafely
      <3> QED  BY <1>0, <1>2, <3>1, EarlyMoved
    <2>5. ASSUME fault' = FALSE
          PROVE  SameChoices(Current', IF file \in NoFileYet THEN Default ELSE file)
      <3>1. CASE SettingsPath
        <4>1. Current' = Current
          BY <3>1 DEF SettingsPath, Current, accentVars, accentSettings, languageVars
        <4>2. file \in NoFileYet
          BY <1>5, <2>5, <3>1, <2>1, Zenon DEF SettingsPath, ReadSettings, Loaded
        <4> QED  BY <2>1, <4>1, <4>2
      <3>2. CASE ReadSettings
        <4>1. TakeSettings(file)
          BY <2>5, <3>2 DEF ReadSettings
        <4> QED  BY <2>1, <4>1 DEF TakeSettings, SameChoices, Current
      <3> QED  BY <1>5, <3>1, <3>2
    <2>6. \A i \in 1 .. Len(queue') : queue'[i].cmd = "write" => queue'[i].early = TRUE
      BY <2>1, <2>2 DEF Moved, EarlyInv
    <2>7. AgreeInv'
      BY <2>1, <2>5, <2>6 DEF AgreeInv
    <2> QED  BY <2>4, <2>7
  <1>6. ASSUME PathToSave PROVE EarlyInv' /\ AgreeInv'
    <2>1. Current' = Current /\ file' = file /\ stage' = stage /\ (Loaded' <=> Loaded)
      BY <1>6 DEF PathToSave, Current, Loaded, accentVars, accentSettings, languageVars
    <2>2. CASE Pop(<<Write(Current)>>) /\ fault' = fault
      <3> DEFINE c == Write(Current)
      <3>1. c \in Command /\ c.cmd = "write" /\ (c.early = TRUE <=> ~Loaded) /\ c.data = Current
        BY Commands, WriteEarly DEF SettingsTypeOK, AccentTypeOK, LanguageTypeOK, Current, Saved
      <3> HIDE DEF c
      <3>2. Moved(1, {c})
        BY <1>0, <2>2, <3>1, MovedByBoth DEF c
      <3>3. ~Loaded => fault = TRUE
        BY <1>1, <1>6 DEF PathToSave, EarlyInv
      <3>4. Harmless(c)
        BY <2>1, <2>2, <3>1, <3>3 DEF Harmless
      <3>5. EarlyInv'
        <4>1. MovedSafely(1, {c})
          BY <2>1, <2>2, <3>2, <3>4 DEF MovedSafely
        <4> QED  BY <1>0, <1>2, <4>1, EarlyMoved
      <3>6. \A i \in Nat : After(i)' => i >= Len(queue')
        BY <3>1, <3>2, SaveBehind DEF Saves
      <3>7. Len(queue') \in Nat /\ Len(queue') > 0 /\ queue'[Len(queue')] = c
        BY <3>2 DEF Moved
      <3>8. ~After(0)'
        BY <3>6, <3>7
      <3>9. \A i \in 1 .. Len(queue') : After(i)' => queue'[i] = c
        BY <3>6, <3>7
      <3>10. AgreeInv'
        BY <2>1, <3>1, <3>8, <3>9 DEF AgreeInv, SameChoices
      <3> QED  BY <3>5, <3>10
    <2>3. CASE Pop(<<>>) /\ fault' = TRUE
      <3>1. Moved(1, {})
        BY <1>0, <2>3, MovedByTail
      <3>2. EarlyInv'
        <4>1. MovedSafely(1, {})
          BY <2>1, <2>3, <3>1 DEF MovedSafely
        <4> QED  BY <1>0, <1>2, <4>1, EarlyMoved
      <3>3. CASE Loaded
        <4>1. SameChoices(Current', Current)
          BY <2>1 DEF SameChoices
        <4> QED  BY <1>0, <2>1, <2>3, <3>1, <3>2, <3>3, <4>1, AgreeMoved
      <3>4. CASE ~Loaded
        BY <2>1, <3>2, <3>4 DEF AgreeInv
      <3> QED  BY <3>3, <3>4
    <2> QED  BY <1>6, <2>2, <2>3 DEF PathToSave
  <1>7. ASSUME WriteSettings PROVE EarlyInv' /\ AgreeInv'
    <2>1. /\ Current' = Current /\ stage' = stage /\ (Loaded' <=> Loaded)
          /\ queue[1].cmd = "write" /\ Pop(<<>>)
      BY <1>1, <1>7 DEF WriteSettings, Current, Loaded, accentVars, accentSettings, languageVars
    <2>2. Moved(1, {}) /\ SameChoices(Current', Current)
      BY <1>0, <2>1, MovedByTail DEF SameChoices
    <2>3. queue[1].data \in Saved /\ queue[1].early \in BOOLEAN
      BY <1>1, <2>1 DEF Command
    <2>4. CASE fault' = TRUE
      <3>1. EarlyInv'
        <4>1. MovedSafely(1, {})
          BY <2>1, <2>2, <2>4 DEF MovedSafely
        <4> QED  BY <1>0, <1>2, <4>1, EarlyMoved
      <3>2. CASE Loaded
        BY <1>0, <2>1, <2>2, <2>4, <3>1, <3>2, AgreeMoved
      <3>3. CASE ~Loaded
        BY <2>1, <3>1, <3>3 DEF AgreeInv
      <3> QED  BY <3>1, <3>2, <3>3
    <2>5. CASE fault' # TRUE
      <3>1. file' = queue[1].data /\ queue[1].early = FALSE /\ fault' = FALSE
        BY <1>1, <1>7, <2>3, <2>5 DEF WriteSettings
      <3>2. Loaded
        BY <1>1, <2>1, <3>1 DEF EarlyInv
      <3>3. \A i \in 1 .. Len(queue) : i > 1 /\ queue[i].cmd = "write" => queue[i].early # TRUE
        BY <1>1, <2>1, <3>1 DEF EarlyInv
      <3>4. \A i \in 1 .. Len(queue') : queue'[i].cmd = "write" => queue'[i].early # TRUE
        <4>1. \A i \in 1 .. Len(queue') :
                  i + 1 \in 1 .. Len(queue) /\ i + 1 > 1 /\ queue'[i] = queue[i + 1]
          BY <2>2 DEF Moved
        <4> QED  BY <3>3, <4>1
      <3>5. EarlyInv'
        BY <2>1, <3>2, <3>4 DEF EarlyInv
      <3>6. file' \notin NoFileYet
        BY <2>3, <3>1, FileAssumption
      <3>7. After(1) => SameChoices(Current', file')
        BY <1>1, <2>1, <3>1, <3>2 DEF AgreeInv
      <3>8. AgreeInv'
        BY <1>0, <2>1, <2>2, <3>2, <3>6, <3>7, AgreeMoved
      <3> QED  BY <3>5, <3>8
    <2> QED  BY <2>4, <2>5
  <1> QED  BY <1>4, <1>5, <1>6, <1>7 DEF Backend, SettingsPath

\* The places in a queue of one command.
LEMMA OnePlace == 1 .. 1 = {1} /\ \A i, j \in {1} : ~(i < j)
  OBVIOUS

\* Every step keeps the invariant of the file.
LEMMA FileStep ==
    ASSUME SettingsTypeOK, SettingsTypeOK', QueueInv, LanguageInv, EarlyInv, AgreeInv, [Next]_vars
    PROVE  EarlyInv' /\ AgreeInv'
  <1>1. CASE Backend
    BY <1>1, FileBackend
  <1>2. CASE \/ SetUp \/ NoLanguage \/ UNCHANGED vars
             \/ SystemTheme \/ Refreshed \/ AccentEvents
    <2>1. UNCHANGED <<queue, file, fault>>
      BY <1>2 DEF SetUp, NoLanguage, SystemTheme, Refreshed, AccentEvents, vars, fileVars
    <2>2. Loaded' <=> Loaded
      BY <1>2 DEF Loaded, SetUp, NoLanguage, SystemTheme, Refreshed, AccentEvents, vars
    <2>3. accent' = accent /\ follow' = follow
      <3>1. CASE SetUp \/ SystemTheme \/ Refreshed
        BY <3>1 DEF SetUp, SystemTheme, ThemeApplied, Refreshed, accentVars, accentSettings
      <3>2. CASE NoLanguage \/ UNCHANGED vars
        BY <3>2 DEF NoLanguage, vars, accentVars, accentSettings
      <3>3. CASE AccentEvents
        BY <3>3 DEF AccentEvents, AccentAnswers, AccentAnswered, AccentFailed,
                    PollAnswered, PollFailed, Poll, accentSettings
      <3> QED  BY <1>2, <3>1, <3>2, <3>3
    <2>4. lang' = lang
      BY <1>2 DEF SetUp, FirstPack, Applied, NoLanguage, SystemTheme, Refreshed, Listed,
                  PackArrives, Fetched, AccentEvents, vars, languageVars
    <2>5. SameChoices(Current', Current)
      BY <2>3, <2>4 DEF SameChoices, Current
    <2> QED  BY <2>1, <2>2, <2>5, FileSame
  <1>3. CASE SavePreset
    <2>1. SameChoices(Current', Current)
      BY <1>3 DEF SavePreset, SameChoices, Current, accentVars, accentSettings, languageVars
    <2> QED  BY <1>3, <2>1, FileSave DEF SavePreset
  <1>4. CASE (\E color \in Color : SetColor(color)) \/ SetFollow \/ SetTheme
    <2>1. saveAppSettings /\ stage' = stage /\ Loaded
      BY <1>4 DEF SetColor, SetFollow, SetTheme, Ready, Loaded
    <2> QED  BY <2>1, FileSave
  <1>5. ASSUME NEW l \in Lang, ChooseLanguage(l) \/ LanguageArrives(l)
        PROVE  EarlyInv' /\ AgreeInv'
    <2>1. Ready /\ stage' = stage
      BY <1>5 DEF ChooseLanguage, LanguageArrives, LanguageInv, Untouched,
                  ChooseCached, ChooseUncached, ChosenArrives, ChosenFails
    <2>2. Loaded /\ Loaded'
      BY <2>1 DEF Ready, Loaded
    <2>3. CASE saveAppSettings
      BY <2>1, <2>2, <2>3, FileSave
    <2>4. CASE ~saveAppSettings
      <3>1. UNCHANGED <<queue, file, fault>>
        BY <1>5, <2>4 DEF ChooseLanguage, LanguageArrives, fileVars
      <3>2. SameChoices(Current', Current)
        BY <1>5, <2>4 DEF ChooseLanguage, LanguageArrives, ChooseUncached, ChosenFails,
                          SameChoices, Current, accentVars, accentSettings
      <3> QED  BY <2>2, <3>1, <3>2, FileSame
    <2> QED  BY <2>3, <2>4
  <1>6. CASE Restart
    <2>1. queue' = <<[cmd |-> "app path"]>> /\ ~Loaded'
      BY <1>6 DEF Restart, Loaded
    <2>2. Len(queue') = 1 /\ queue'[1].cmd = "app path"
      BY <2>1
    <2>3. SameChoices(Current', Default)
      BY <1>6 DEF Restart, AccentPage, LanguagePage, SameChoices, Current, Default
    <2>4. 1 .. Len(queue') = {1} /\ \A i, j \in 1 .. Len(queue') : ~(i < j)
      BY <2>2, OnePlace, Zenon
    <2>5. \A i \in 1 .. Len(queue') : queue'[i].cmd = "app path"
      BY <2>2, <2>4
    <2> QED  BY <2>1, <2>3, <2>4, <2>5 DEF EarlyInv, AgreeInv
  <1> QED  BY <1>1, <1>2, <1>3, <1>4, <1>5, <1>6 DEF Next

\* The first state has no save, and the choices nobody has made.
LEMMA FileStart == Init => EarlyInv /\ AgreeInv
  <1> SUFFICES ASSUME Init PROVE EarlyInv /\ AgreeInv
    OBVIOUS
  <1>1. Len(queue) = 1 /\ queue[1].cmd = "app path" /\ ~Loaded
    BY DEF Init, Loaded
  <1>2. SameChoices(Current, Default)
    BY DEF Init, AccentInit, LanguageInit, SameChoices, Current, Default
  <1>3. 1 .. Len(queue) = {1} /\ \A i, j \in 1 .. Len(queue) : ~(i < j)
    BY <1>1, OnePlace, Zenon
  <1>4. \A i \in 1 .. Len(queue) : queue[i].cmd = "app path"
    BY <1>1, <1>3
  <1> QED  BY <1>1, <1>2, <1>3, <1>4 DEF EarlyInv, AgreeInv

\* A page whose saves have all been done agrees with the settings file on what the
\* user chose, unless a command failed or a save came before the settings: whatever
\* the user changes, however often the path of the file is asked for, and whichever
\* page the file was written by.
THEOREM FileAgreesAlways == Spec => []FileAgrees
  <1> DEFINE Inv == SettingsTypeOK /\ QueueInv /\ LanguageInv /\ EarlyInv /\ AgreeInv
  <1>1. Inv /\ [Next]_vars => Inv'
    BY TypeStep, QueueStep, LanguageStep, FileStep
  <1>2. Inv => FileAgrees
    <2> SUFFICES ASSUME Inv, Ready, queue = <<>>, ~fault PROVE
            IF file \in NoFileYet
              THEN [Current EXCEPT !.sys = DefaultColor] = Default
              ELSE [Current EXCEPT !.sys = file.sys] = file
      BY DEF FileAgrees
    <2>1. fault = FALSE /\ Loaded /\ After(0)
      BY EmptySeq DEF SettingsTypeOK, Ready, Loaded, After
    <2>2. SameChoices(Current, IF file \in NoFileYet THEN Default ELSE file)
      BY <2>1 DEF AgreeInv
    <2>3. CASE file \in NoFileYet
      <3>1. \A x : [Current EXCEPT !.sys = x] =
                      [accent |-> accent, follow |-> follow, sys |-> x, lang |-> lang]
        BY DEF Current
      <3>2. accent = DefaultColor /\ follow = FALSE /\ lang = DefaultLang
        BY <2>2, <2>3 DEF SameChoices, Current, Default
      <3> QED  BY <2>3, <3>1, <3>2 DEF Default
    <2>4. CASE file \notin NoFileYet
      <3>1. file \in Saved
        BY <2>4 DEF SettingsTypeOK
      <3>2. file = [accent |-> file.accent, follow |-> file.follow, sys |-> file.sys, lang |-> file.lang]
        BY <3>1 DEF Saved
      <3>3. accent = file.accent /\ follow = file.follow /\ lang = file.lang
        BY <2>2, <2>4 DEF SameChoices, Current
      <3> QED  BY <2>4, <3>2, <3>3 DEF Current
    <2> QED  BY <2>3, <2>4
  <1> QED  BY SettingsStart, FileStart, <1>1, <1>2, PTL DEF Spec

=============================================================================
