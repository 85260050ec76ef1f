------------------------------- MODULE Accent -------------------------------
(***************************************************************************)
(* The accent colour (src/src/index.html, 2361-2423 and 2543-2585): chosen *)
(* by the user or taken from Windows.  get_windows_accent_color            *)
(* (src-tauri/src/lib.rs) starts a PowerShell for each request, off the    *)
(* main thread: answers come in any order, or fail.                        *)
(***************************************************************************)
EXTENDS Integers

CONSTANTS
    Color,          \* the colours
    DefaultColor    \* #2563eb

ASSUME ColorAssumption == DefaultColor \in Color

VARIABLES
    accent, follow, sys,    \* appSettings' accentColor, accentFollowSystem,
                            \* systemAccentColor
    css,        \* --accent-color, what the page is drawn in
    asks,       \* requests of syncAccentColor under way
    polls       \* requests of pollSystemAccentColor under way

accentSettings == <<accent, follow, sys>>
accentVars == <<accentSettings, css, asks, polls>>

AccentTypeOK ==
    /\ {accent, sys, css} \subseteq Color
    /\ follow \in BOOLEAN
    /\ asks \in Nat
    /\ polls \in Nat

\* The page, loaded anew.
AccentPage ==
    /\ accent' = DefaultColor /\ follow' = FALSE /\ sys' = DefaultColor
    /\ css' = DefaultColor
    /\ asks' = 0
    /\ polls' = 0

AccentInit ==
    /\ accent = DefaultColor /\ follow = FALSE /\ sys = DefaultColor
    /\ css = DefaultColor
    /\ asks = 0 /\ polls = 0

\* The operators below are called when the setting is what f and a say.
\* syncAccentColor: with n of them in a row, n requests or one colour.
syncAccentColor(f, a, n) ==
    IF f THEN asks' = asks + n /\ UNCHANGED css
         ELSE css' = a /\ UNCHANGED asks

\* The handler of the colour input, applyAccentColor(color, true) up to its
\* save; the input is disabled while the system's colour is followed.
applyAccentColor(color) ==
    /\ ~follow
    /\ accent' = color
    /\ css' = color
    /\ UNCHANGED <<follow, sys, asks, polls>>

\* The box is ticked or cleared, up to the save.
ToggleFollow ==
    /\ follow' = ~follow
    /\ syncAccentColor(follow', accent, 1)
    /\ UNCHANGED <<accent, sys, polls>>

\* setLightMode and setDarkMode, n times in a row.
ThemeApplied(n) ==
    /\ syncAccentColor(follow, accent, n)
    /\ UNCHANGED <<accentSettings, polls>>

\* The answer to syncAccentColor, applied whatever the setting is by now, and
\* its failure.
AccentAnswered(color) ==
    /\ asks > 0
    /\ asks' = asks - 1
    /\ sys' = color
    /\ css' = color
    /\ UNCHANGED <<accent, follow, polls>>

\* A failure reported besides the answer.
FailedBesides ==
    /\ asks' = asks - 1
    /\ css' = sys
    /\ UNCHANGED <<accentSettings, polls>>

AccentFailed ==
    /\ asks > 0
    /\ asks' = asks - 1
    /\ css' = sys
    /\ UNCHANGED <<accentSettings, polls>>

\* pollSystemAccentColor, every 10 s, and its answer.
Poll ==
    /\ follow
    /\ polls' = polls + 1
    /\ UNCHANGED <<accentSettings, css, asks>>

\* The colour is remembered but not drawn.
PollRemembered(color) ==
    /\ polls > 0
    /\ polls' = polls - 1
    /\ sys' = color
    /\ UNCHANGED <<accent, follow, css, asks>>

PollAnswered(color) ==
    /\ polls > 0
    /\ polls' = polls - 1
    /\ IF color = sys
         THEN UNCHANGED <<sys, css>>
         ELSE /\ sys' = color
              /\ css' = color
    /\ UNCHANGED <<accent, follow, asks>>

PollFailed ==
    /\ polls > 0
    /\ polls' = polls - 1
    /\ UNCHANGED <<accentSettings, css, asks>>

AccentAnswers ==
    \/ \E color \in Color : AccentAnswered(color) \/ PollAnswered(color)
    \/ AccentFailed
    \/ PollFailed

(* Once nothing is under way, a page that follows the system is drawn in the *)
(* colour last heard from it.                                                *)
FollowedShown == follow /\ asks = 0 => css = sys

=============================================================================
