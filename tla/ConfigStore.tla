------------------------------ MODULE ConfigStore ------------------------------
(***************************************************************************)
(* config.json (crates/voxshift-storage/src/config.rs): load(), which the  *)
(* program starts with and which backs up a file it cannot read and writes *)
(* back what it has read, and save(), which the language setting calls     *)
(* after another load (crates/voxshift-app/src/application.rs).            *)
(*                                                                         *)
(* Each call of the file system is a step: it may fail, and the program    *)
(* may stop between any two.  The user may edit the file.  All of this     *)
(* runs on the UI thread, so no two loads or saves overlap.                *)
(***************************************************************************)
EXTENDS Integers

CONSTANTS
    Languages, DefaultLanguage,
    Others, DefaultOthers,      \* values of all the other settings together
    MaxEdits,                   \* bound: edits of the file by the user
    Worlds                      \* the surroundings a run starts in

\* faults: whether calls of the file system may fail; races: whether the user edits
\* the file even while the program loads or saves it.
World == [ faults : BOOLEAN, races : BOOLEAN ]

ASSUME ConfigAssumption ==
    /\ DefaultLanguage \in Languages /\ DefaultOthers \in Others
    /\ MaxEdits \in Nat
    /\ Worlds \subseteq World

\* AppConfig, and AppConfig::default().
Settings == [language : Languages, others : Others]
Defaults == [language |-> DefaultLanguage, others |-> DefaultOthers]

\* What a file holds.  Torn is a write cut short; Corrupt is what the user left there
\* that is no configuration or too large, known by the edit it is from.
Absent          == [kind |-> "Absent", settings |-> Defaults, edit |-> 0]
Torn            == [kind |-> "Torn", settings |-> Defaults, edit |-> 0]
Corrupt(edit)   == [kind |-> "Corrupt", settings |-> Defaults, edit |-> edit]
Holds(settings) == [kind |-> "Settings", settings |-> settings, edit |-> 0]

File == {Absent, Torn} \union {Corrupt(n) : n \in 0 .. MaxEdits}
                       \union {Holds(s) : s \in Settings}

VARIABLES
    world,          \* one of Worlds
    config, tmp, bak,   \* config.json, config.json.tmp, config.json.bak
    edits,          \* the user's edits so far
    step,           \* the next call of the file system; Off, or Idle, when there is none
    purpose,        \* "Start" or "Language", and "Save" after the load of the latter
    fallback,       \* load_from has failed, and load() saves the defaults
    value,          \* the configuration in hand
    chosen,         \* the language last chosen in the window
    wanted,         \* what the user wrote last, or set since
    hurt            \* since then a load has met a failing call; or it was written
                    \* during a load or a save

fileVars == <<config, tmp, bak>>
userVars == <<edits, wanted>>
codeVars == <<step, purpose, fallback, value, chosen>>
vars == <<world, fileVars, userVars, codeVars, hurt>>

Steps == {"Off", "Idle", "Read", "Backup", "Create", "Write", "Replace"}

TypeOK ==
    /\ world \in Worlds
    /\ config \in File /\ tmp \in File /\ bak \in File
    /\ edits \in 0 .. MaxEdits
    /\ step \in Steps /\ purpose \in {"Start", "Language", "Save"}
    /\ fallback \in BOOLEAN /\ value \in Settings /\ chosen \in Languages
    /\ hurt \in BOOLEAN /\ wanted \in File /\ wanted.kind # "Torn"

\* Installed, or run before with some settings.
Init ==
    /\ world \in Worlds
    /\ config \in {Absent} \union {Holds(s) : s \in Settings}
    /\ tmp = Absent /\ bak = Absent /\ edits = 0
    /\ step = "Off" /\ purpose = "Start" /\ fallback = FALSE
    /\ value = Defaults /\ chosen = DefaultLanguage
    /\ hurt = FALSE /\ wanted = config

-----------------------------------------------------------------------------
(* Where load() and save() go from a call of the file system.              *)

Saves(settings) == step' = "Create" /\ value' = settings

DefaultsInThatLanguage == [Defaults EXCEPT !.language = chosen]

\* What set_language saves: what it has just loaded, in that language.
InThatLanguage == [value EXCEPT !.language = chosen]

\* load() returns: at the start the program runs with it, and set_language goes
\* on to save().
LoadReturns ==
    \/ /\ purpose = "Start"
       /\ step' = "Idle" /\ fallback' = FALSE
       /\ UNCHANGED <<purpose, value>>
    \/ /\ purpose = "Language"
       /\ purpose' = "Save" /\ fallback' = FALSE
       /\ Saves(InThatLanguage)

CallFailsAndIsRetried ==
    /\ world.faults
    /\ hurt' = (hurt \/ purpose # "Save")
    /\ fallback' = TRUE /\ Saves(Defaults)
    /\ UNCHANGED purpose

\* A call fails.  load() falls back on the defaults once and saves those; there, and in
\* save(), the failure is only logged.
CallFails ==
    /\ world.faults
    /\ hurt' = (hurt \/ purpose # "Save")
    /\ \/ /\ purpose # "Save" /\ ~fallback
          /\ fallback' = TRUE /\ Saves(Defaults)
          /\ UNCHANGED purpose
       \/ /\ purpose # "Save" /\ fallback
          /\ LoadReturns
       \/ /\ purpose = "Save"
          /\ step' = "Idle"
          /\ UNCHANGED <<purpose, fallback, value>>

\* exists() and metadata() and read(), none of which changes anything.  When exists()
\* fails it says no.
Read ==
    /\ step = "Read"
    /\ \/ /\ config = Absent
          /\ Saves(Defaults)
          /\ UNCHANGED <<fallback, purpose, hurt>>
       \/ /\ config.kind \in {"Corrupt", "Torn"}
          /\ step' = "Backup"
          /\ UNCHANGED <<fallback, purpose, value, hurt>>
       \/ /\ config.kind = "Settings"
          /\ Saves(config.settings)
          /\ UNCHANGED <<fallback, purpose, hurt>>
       \/ /\ world.faults /\ config # Absent
          /\ Saves(Defaults) /\ hurt' = TRUE
          /\ UNCHANGED <<fallback, purpose>>
       \/ config # Absent /\ CallFails
    /\ UNCHANGED <<world, fileVars, userVars, chosen>>

KeepsNoBackup == bak' = bak

KeepsBackup == bak' = config

\* backup_corrupt.
Backup ==
    /\ step = "Backup"
    /\ \/ /\ KeepsBackup /\ config' = Absent
          /\ Saves(Defaults)
          /\ UNCHANGED <<fallback, purpose, hurt>>
       \/ CallFails /\ UNCHANGED <<config, bak>>
    /\ UNCHANGED <<world, tmp, userVars, chosen>>

OpensConfig == config' = Torn /\ UNCHANGED tmp

\* The file that save_to truncates.
OpensTmp == tmp' = Torn /\ UNCHANGED config

Create ==
    /\ step = "Create"
    /\ \/ /\ OpensTmp
          /\ step' = "Write"
          /\ UNCHANGED <<fallback, purpose, value, hurt>>
       \/ CallFails /\ UNCHANGED <<config, tmp>>
    /\ UNCHANGED <<world, bak, userVars, chosen>>

\* write_all and sync_all: before the second has returned, nothing may be on disk.
Write ==
    /\ step = "Write"
    /\ \/ /\ tmp' = Holds(value)
          /\ step' = "Replace"
          /\ UNCHANGED <<fallback, purpose, value, hurt>>
       \/ CallFails /\ UNCHANGED tmp
    /\ UNCHANGED <<world, config, bak, userVars, chosen>>

\* All that the user has set by choosing a language.
WantedInThatLanguage ==
    CASE wanted.kind = "Settings" -> [wanted EXCEPT !.settings.language = chosen]
      [] wanted.kind = "Absent"   -> Holds(DefaultsInThatLanguage)
      [] wanted.kind = "Corrupt"  -> wanted

\* rename() puts the new file in the place of the old in one.
Replace ==
    /\ step = "Replace"
    /\ \/ /\ config' = tmp /\ tmp' = Absent
          /\ \/ /\ purpose = "Save"
                /\ step' = "Idle" /\ wanted' = WantedInThatLanguage
                /\ UNCHANGED <<fallback, purpose, value>>
             \/ /\ purpose # "Save"
                /\ LoadReturns
                /\ UNCHANGED wanted
          /\ UNCHANGED hurt
       \/ CallFails /\ UNCHANGED <<config, tmp, wanted>>
    /\ UNCHANGED <<world, bak, edits, chosen>>

-----------------------------------------------------------------------------
(* The user and the machine.                                               *)

Calls(why) == step' = "Read" /\ purpose' = why /\ fallback' = FALSE

Start ==
    /\ step = "Off"
    /\ Calls("Start")
    /\ UNCHANGED <<world, fileVars, userVars, value, chosen, hurt>>

\* on_set_language.
SetLanguage ==
    /\ step = "Idle"
    /\ \E language \in Languages : chosen' = language
    /\ Calls("Language")
    /\ UNCHANGED <<world, fileVars, userVars, value, hurt>>

\* The program ends, or the machine does, wherever it is.
Stop ==
    /\ step # "Off"
    /\ step' = "Off"
    /\ UNCHANGED <<world, fileVars, userVars, purpose, fallback, value, chosen, hurt>>

\* An editor replaces the file; what it writes may be anything, and it may be removed.
UserEdits ==
    /\ edits < MaxEdits
    /\ world.races \/ step \in {"Off", "Idle"}
    /\ edits' = edits + 1
    /\ config' \in {Absent, Corrupt(edits + 1)} \union {Holds(s) : s \in Settings}
    /\ wanted' = config'
    /\ hurt' = (step \notin {"Off", "Idle"})
    /\ UNCHANGED <<world, tmp, bak, codeVars>>

Calling == Read \/ Backup \/ Create \/ Write \/ Replace

Next == Calling \/ Start \/ SetLanguage \/ Stop \/ UserEdits

\* Calls of the file system return.
Spec     == Init /\ [][Next]_vars
FairSpec == Spec /\ WF_vars(Calling)

-----------------------------------------------------------------------------
\* Whatever fails and wherever the program stops, config.json is never half written
\* (design 14).
NeverHalfWritten == config # Torn

\* What the user had set, and nothing else, is in config.json after any starts, stops,
\* changes of the language and failed saves; only a load that fails, or an edit at the
\* same moment, can change that.
SettingsKept == ~hurt /\ wanted.kind = "Settings" => config = wanted

\* A file that is no configuration is still there, or is the backup, wherever the
\* program was stopped.
CorruptKept == ~hurt /\ wanted.kind = "Corrupt" => wanted \in {config, bak}

\* A bad configuration never keeps the program from starting (config.rs:164), even
\* when no call of the file system succeeds.
StartsAnyway == step = "Read" ~> step \in {"Idle", "Off"}
=============================================================================
