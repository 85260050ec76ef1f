------------------------------ MODULE Languages ------------------------------
(***************************************************************************)
(* The language of the page (src/src/index.html, 1756-1925): the pack in   *)
(* use, the cache of packs, and the language menu, which is built by       *)
(* refreshLanguageSelect after it has tried to load every pack.            *)
(*                                                                         *)
(* list_language_files is a synchronous command: its answers come in the   *)
(* order asked.  A pack not in the cache is fetched, and fetches end in    *)
(* any order or fail; the same pack may be fetched several times at once.  *)
(* A pack in the cache is there before the next event.                     *)
(***************************************************************************)
EXTENDS Sequences, FiniteSets, SequencesExt

CONSTANTS
    Lang,           \* the languages listed
    DefaultLang,    \* zh-CN
    NoLang          \* no language

ASSUME LangAssumption == DefaultLang \in Lang /\ NoLang \notin Lang

VARIABLES
    lang,       \* appSettings.language; once there is a languagePack, also its
                \* language
    cache,      \* languageCache
    loads,      \* the languages applyLanguage(lang, true) fetches packs of
    listing,    \* what the refreshes that await the list captured, in order
    fetching,   \* the same of those that fetch packs
    label,      \* the language button's text, given with the menu's items
    chosen,     \* the last language chosen from it, NoLang if none was
    hasty       \* a choice was made before every pack was there, or while a
                \* refresh was fetching packs

languageVars == <<lang, cache, loads, listing, fetching, label, chosen, hasty>>

LanguageTypeOK ==
    /\ lang \in Lang
    /\ cache \subseteq Lang
    /\ loads \subseteq Lang
    /\ listing \in Seq(Lang)
    /\ fetching \subseteq Lang
    /\ label \in Lang \cup {NoLang}
    /\ chosen \in Lang \cup {NoLang}
    /\ hasty \in BOOLEAN

LanguageInit ==
    /\ lang = DefaultLang
    /\ cache = {} /\ loads = {} /\ fetching = {}
    /\ listing = <<>>
    /\ label = NoLang
    /\ chosen = NoLang
    /\ hasty = FALSE

\* The page, loaded anew.
LanguagePage ==
    /\ lang' = DefaultLang
    /\ cache' = {} /\ loads' = {} /\ fetching' = {}
    /\ listing' = <<>>
    /\ label' = NoLang
    /\ chosen' = NoLang
    /\ hasty' = FALSE

\* What applyLanguage does when pack l is there, its save left to the caller;
\* n more refreshes follow at once.
Applied(l, n) ==
    /\ lang' = l
    /\ listing' = listing \o [i \in 1..(n + 1) |-> l]

\* initApp's applyLanguage(lang, false), and the two refreshes of
\* setupSettingsControls that follow it.
FirstPack ==
    /\ cache' = cache \cup {lang}
    /\ Applied(lang, 2)
    /\ UNCHANGED <<loads, fetching, label, chosen, hasty>>

\* An item of the menu: applyLanguage(l, true) that fetches pack l though it is
\* in the cache.
LoadAgain(l) ==
    /\ label # NoLang
    /\ l \in cache
    /\ loads' = loads \cup {l}
    /\ chosen' = l
    /\ hasty' = (hasty \/ fetching # {} \/ cache # Lang)
    /\ UNCHANGED <<lang, cache, listing, fetching, label>>

\* An item of the menu: applyLanguage(l, true) with its pack in the cache.
ChooseCached(l) ==
    /\ label # NoLang
    /\ l \in cache
    /\ Applied(l, 0)
    /\ chosen' = l
    /\ hasty' = (hasty \/ fetching # {} \/ cache # Lang)
    /\ UNCHANGED <<cache, loads, fetching, label>>

\* The same with a pack that has to be fetched first.
ChooseUncached(l) ==
    /\ label # NoLang
    /\ l \notin cache
    /\ loads' = loads \cup {l}
    /\ chosen' = l
    /\ hasty' = TRUE
    /\ UNCHANGED <<lang, cache, listing, fetching, label>>

\* That pack arrives, or does not: then applyLanguage is rejected and the
\* language stays.
ChosenArrives(l) ==
    /\ l \in loads
    /\ loads' = loads \ {l}
    /\ cache' = cache \cup {l}
    /\ Applied(l, 0)
    /\ UNCHANGED <<fetching, label, chosen, hasty>>

ChosenFails(l) ==
    /\ l \in loads
    /\ loads' = loads \ {l}
    /\ UNCHANGED <<lang, cache, listing, fetching, label, chosen, hasty>>

\* refreshLanguageSelect has the list: with every pack in the cache it goes
\* through to its end, otherwise it begins to fetch.
Listed ==
    /\ listing # <<>>
    /\ listing' = Tail(listing)
    /\ IF cache = Lang
         THEN label' = Head(listing) /\ UNCHANGED fetching
         ELSE fetching' = fetching \cup {Head(listing)} /\ UNCHANGED label
    /\ UNCHANGED <<lang, cache, loads, chosen, hasty>>

\* A pack it was missing arrives.
PackArrives(l) ==
    /\ fetching # {}
    /\ l \notin cache
    /\ cache' = cache \cup {l}
    /\ UNCHANGED <<lang, loads, listing, fetching, label, chosen, hasty>>

\* It has got, or failed to get, the packs that were missing, and builds the
\* menu; the button shows the language captured at its beginning.
Fetched(current) ==
    /\ current \in fetching
    /\ fetching' \in {fetching, fetching \ {current}}
    /\ label' = current
    /\ UNCHANGED <<lang, cache, loads, listing, chosen, hasty>>

(* When nothing is under way the language is the one chosen last, and the    *)
(* button says so, unless a choice was made before every pack had been       *)
(* fetched: then the last answer decides.                                    *)
LanguageSettles ==
    loads = {} /\ listing = <<>> /\ fetching = {} /\ label # NoLang /\ ~hasty =>
        /\ label = lang
        /\ chosen \in {lang, NoLang}

=============================================================================
