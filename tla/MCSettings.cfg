SPECIFICATION Spec
CONSTANTS
    Color = {Blue, Other}
    DefaultColor = Blue
    Lang = {zh, en}
    DefaultLang = zh
    NoLang = NoLang
    NoFile = NoFile
    Torn = Torn
    MaxPending = 2
INVARIANTS
    SettingsTypeOK
    FileAgrees
    AccentShown
    LanguageSettles
PROPERTIES
    StartupEnds
CHECK_DEADLOCK FALSE
