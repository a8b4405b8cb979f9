----------------------------- MODULE ConfigProofs -----------------------------
(* config.json keeps what the user put there, for any languages and settings, *)
(* any number of starts, stops and edits, and failures anywhere.              *)
EXTENDS ConfigStore, TLAPS

Saving == {"Create", "Write", "Replace"}

\* What the file that the user wants stands for.
WantedSettings == IF wanted.kind = "Settings" THEN wanted.settings ELSE Defaults

\* While nothing has gone wrong since the user's last edit, what load() and save()
\* have in hand is what the user wants, and a backup is made before the file is replaced.
OnTrack ==
    /\ step \notin {"Off", "Idle"} => ~fallback
    /\ step = "Backup" => config.kind = "Corrupt"
    /\ wanted.kind = "Settings" => config = wanted
    /\ wanted.kind = "Absent" => config \in {Absent, Holds(Defaults)}
    /\ wanted.kind = "Corrupt" =>
          IF step \in Saving THEN bak = wanted ELSE wanted \in {config, bak}
    /\ step \in Saving /\ wanted.kind # "Corrupt" =>
          value = IF purpose = "Save" THEN [WantedSettings EXCEPT !.language = chosen]
                                      ELSE WantedSettings

IInv ==
    /\ TypeOK
    /\ step = "Replace" => tmp = Holds(value)
    /\ step \in {"Read", "Backup"} => purpose # "Save"
    /\ config.kind = "Corrupt" => config = wanted
    /\ config.kind # "Torn"
    /\ ~hurt => OnTrack

USE ConfigAssumption

\* What a file may hold.
LEMMA Files ==
  /\ Defaults \in Settings
  /\ Absent \in File /\ Torn \in File
  /\ \A s \in Settings : Holds(s) \in File
  /\ \A n \in 0 .. MaxEdits : Corrupt(n) \in File
  /\ \A s \in Settings, l \in Languages : [s EXCEPT !.language = l] \in Settings
BY DEF Defaults, Settings, File, Absent, Torn, Holds, Corrupt

LEMMA Kinds ==
  /\ Absent.kind = "Absent" /\ Torn.kind = "Torn"
  /\ Absent.settings = Defaults
  /\ \A s : Holds(s).kind = "Settings" /\ Holds(s).settings = s
  /\ \A n : Corrupt(n).kind = "Corrupt"
  /\ \A file \in File : /\ file.kind \in {"Absent", "Torn", "Corrupt", "Settings"}
                        /\ file.settings \in Settings
                        /\ file.kind = "Absent" => file = Absent
                        /\ file.kind = "Settings" => file = Holds(file.settings)
BY Files DEF Absent, Torn, Holds, Corrupt, File

LEMMA InitInv == Init => IInv
<1> SUFFICES ASSUME Init PROVE IInv
  OBVIOUS
<1>1. config \in File /\ config.kind \in {"Absent", "Settings"}
  BY Files, Kinds DEF Init
<1>2. TypeOK
  <2>1. wanted \in File /\ wanted.kind # "Torn"
    BY <1>1 DEF Init
  <2>2. edits \in 0 .. MaxEdits
    BY DEF Init
  <2> QED BY <1>1, <2>1, <2>2, Files DEF Init, TypeOK, Steps
<1>3. wanted.kind = "Absent" => config = Absent
  BY Kinds DEF Init
<1> QED BY <1>1, <1>2, <1>3 DEF Init, IInv, OnTrack, Saving

\* The settings that the invariant compares are of their type.
LEMMA InHand ==
  ASSUME TypeOK
  PROVE  /\ WantedSettings \in Settings
         /\ InThatLanguage \in Settings
         /\ DefaultsInThatLanguage \in Settings
         /\ wanted.settings \in Settings /\ config.settings \in Settings
BY Files, Kinds DEF TypeOK, WantedSettings, InThatLanguage, DefaultsInThatLanguage

\* A load whose calls fail leaves the track for good: OnTrack is not claimed of it.
LEMMA FailStep ==
  ASSUME IInv, CallFails, step \in {"Read", "Backup"} \union Saving,
         UNCHANGED <<world, config, tmp, bak, edits, wanted, chosen>>
  PROVE  IInv'
<1>0. TypeOK /\ (~hurt => OnTrack)
  BY DEF IInv
<1>1. CASE purpose = "Save"
  <2>1. hurt' = hurt /\ step' = "Idle" /\ UNCHANGED <<purpose, fallback, value>>
    BY <1>0, <1>1 DEF CallFails, TypeOK
  <2>2. TypeOK'
    BY <2>1, <1>0 DEF TypeOK, Steps
  <2>3. ~hurt => OnTrack'
    BY <2>1, <1>0 DEF OnTrack, Saving
  <2> QED BY <2>1, <2>2, <2>3 DEF IInv
<1>2. CASE purpose # "Save"
  <2>1. hurt' = TRUE
    BY <1>2 DEF CallFails
  <2>2. \/ step' = "Create" /\ value' = Defaults /\ fallback' = TRUE /\ UNCHANGED purpose
        \/ LoadReturns
    BY <1>2 DEF CallFails, Saves
  <2>3. CASE step' = "Create" /\ value' = Defaults /\ fallback' = TRUE /\ UNCHANGED purpose
    <3>1. TypeOK'
      BY <2>1, <2>3, <1>0, Files DEF TypeOK, Steps
    <3> QED BY <2>1, <2>3, <3>1 DEF IInv
  <2>4. CASE LoadReturns
    <3>1. TypeOK' /\ step' \notin {"Replace", "Read", "Backup"}
      BY <2>1, <2>4, <1>0, InHand DEF TypeOK, Steps, LoadReturns, Saves
    <3> QED BY <2>1, <3>1 DEF IInv
  <2> QED BY <2>2, <2>3, <2>4
<1> QED BY <1>1, <1>2

LEMMA ReadStep == IInv /\ Read => IInv'
<1> SUFFICES ASSUME IInv, Read PROVE IInv'
  OBVIOUS
<1>0. TypeOK /\ (~hurt => OnTrack) /\ step = "Read" /\ purpose # "Save" /\ config.kind # "Torn"
      /\ (config.kind = "Corrupt" => config = wanted)
  BY DEF IInv, Read
<1>1. UNCHANGED <<world, config, tmp, bak, edits, wanted, chosen>>
  BY DEF Read, fileVars, userVars
<1>2. CASE config = Absent /\ Saves(Defaults) /\ UNCHANGED <<fallback, purpose, hurt>>
  <2>1. step' = "Create" /\ value' = Defaults /\ UNCHANGED <<fallback, purpose, hurt>>
    BY <1>2 DEF Saves
  <2>2. TypeOK'
    BY <2>1, <1>0, <1>1, Files DEF TypeOK, Steps
  <2>3. ~hurt => OnTrack'
    BY <2>1, <1>0, <1>1, <1>2, Kinds DEF OnTrack, Saving, WantedSettings
  <2> QED BY <2>1, <2>2, <2>3, <1>0, <1>1 DEF IInv
<1>3. CASE /\ config.kind \in {"Corrupt", "Torn"} /\ step' = "Backup"
           /\ UNCHANGED <<fallback, purpose, value, hurt>>
  <2>1. TypeOK'
    BY <1>0, <1>1, <1>3 DEF TypeOK, Steps
  <2>2. ~hurt => OnTrack'
    BY <1>0, <1>1, <1>3 DEF OnTrack, Saving
  <2> QED BY <2>1, <2>2, <1>0, <1>1, <1>3 DEF IInv
<1>4. CASE /\ config.kind = "Settings" /\ Saves(config.settings)
           /\ UNCHANGED <<fallback, purpose, hurt>>
  <2>1. step' = "Create" /\ value' = config.settings /\ UNCHANGED <<fallback, purpose, hurt>>
    BY <1>4 DEF Saves
  <2>2. TypeOK'
    BY <2>1, <1>0, <1>1, InHand DEF TypeOK, Steps
  <2>3. ~hurt => OnTrack'
    BY <2>1, <1>0, <1>1, <1>4, Kinds DEF OnTrack, Saving, WantedSettings, TypeOK
  <2> QED BY <2>1, <2>2, <2>3, <1>0, <1>1 DEF IInv
<1>5. CASE Saves(Defaults) /\ hurt' = TRUE /\ UNCHANGED <<fallback, purpose>>
  <2>1. TypeOK' /\ step' = "Create"
    BY <1>0, <1>1, <1>5, Files DEF TypeOK, Steps, Saves
  <2> QED BY <2>1, <1>0, <1>1, <1>5 DEF IInv
<1>6. CASE CallFails
  BY <1>0, <1>1, <1>6, FailStep
<1> QED BY <1>2, <1>3, <1>4, <1>5, <1>6 DEF Read

\* The backup takes the place of the file before anything is written.
LEMMA BackupStep == IInv /\ Backup => IInv'
<1> SUFFICES ASSUME IInv, Backup PROVE IInv'
  OBVIOUS
<1>0. TypeOK /\ (~hurt => OnTrack) /\ step = "Backup" /\ purpose # "Save" /\ config.kind # "Torn"
      /\ (config.kind = "Corrupt" => config = wanted)
  BY DEF IInv, Backup
<1>1. UNCHANGED <<world, tmp, edits, wanted, chosen>>
  BY DEF Backup, userVars
<1>2. CASE /\ KeepsBackup /\ config' = Absent /\ Saves(Defaults)
           /\ UNCHANGED <<fallback, purpose, hurt>>
  <2>1. /\ bak' = config /\ config' = Absent /\ step' = "Create" /\ value' = Defaults
        /\ UNCHANGED <<fallback, purpose, hurt>>
    BY <1>2 DEF Saves, KeepsBackup
  <2>2. TypeOK'
    BY <2>1, <1>0, <1>1, Files DEF TypeOK, Steps
  <2>3. ~hurt => OnTrack'
    BY <2>1, <1>0, <1>1, Kinds DEF OnTrack, Saving
  <2> QED BY <2>1, <2>2, <2>3, <1>1, Kinds DEF IInv
<1>3. CASE CallFails /\ UNCHANGED <<config, bak>>
  BY <1>0, <1>1, <1>3, FailStep
<1> QED BY <1>2, <1>3 DEF Backup

LEMMA CreateStep == IInv /\ Create => IInv'
<1> SUFFICES ASSUME IInv, Create PROVE IInv'
  OBVIOUS
<1>0. TypeOK /\ (~hurt => OnTrack) /\ step = "Create" /\ config.kind # "Torn"
      /\ (config.kind = "Corrupt" => config = wanted)
  BY DEF IInv, Create
<1>1. UNCHANGED <<world, bak, edits, wanted, chosen>>
  BY DEF Create, userVars
<1>2. CASE OpensTmp /\ step' = "Write" /\ UNCHANGED <<fallback, purpose, value, hurt>>
  <2>1. tmp' = Torn /\ UNCHANGED config
    BY <1>2 DEF OpensTmp
  <2>2. TypeOK'
    BY <2>1, <1>0, <1>1, <1>2, Files DEF TypeOK, Steps
  <2>3. ~hurt => OnTrack'
    BY <2>1, <1>0, <1>1, <1>2 DEF OnTrack, Saving, WantedSettings
  <2> QED BY <2>1, <2>2, <2>3, <1>0, <1>1, <1>2 DEF IInv
<1>3. CASE CallFails /\ UNCHANGED <<config, tmp>>
  <2>1. step \in {"Read", "Backup"} \union Saving
    BY <1>0 DEF Saving
  <2> QED BY <2>1, <1>1, <1>3, FailStep
<1> QED BY <1>2, <1>3 DEF Create

LEMMA WriteStep == IInv /\ Write => IInv'
<1> SUFFICES ASSUME IInv, Write PROVE IInv'
  OBVIOUS
<1>0. TypeOK /\ (~hurt => OnTrack) /\ step = "Write" /\ config.kind # "Torn"
      /\ (config.kind = "Corrupt" => config = wanted)
  BY DEF IInv, Write
<1>1. UNCHANGED <<world, config, bak, edits, wanted, chosen>>
  BY DEF Write, userVars
<1>2. CASE tmp' = Holds(value) /\ step' = "Replace" /\ UNCHANGED <<fallback, purpose, value, hurt>>
  <2>1. TypeOK'
    BY <1>0, <1>1, <1>2, Files DEF TypeOK, Steps
  <2>2. ~hurt => OnTrack'
    BY <1>0, <1>1, <1>2 DEF OnTrack, Saving, WantedSettings
  <2> QED BY <2>1, <2>2, <1>0, <1>1, <1>2 DEF IInv
<1>3. CASE CallFails /\ UNCHANGED tmp
  <2>1. step \in {"Read", "Backup"} \union Saving
    BY <1>0 DEF Saving
  <2> QED BY <2>1, <1>1, <1>3, FailStep
<1> QED BY <1>2, <1>3 DEF Write

\* The file becomes what was in hand, which is what the user wants; after the load of
\* set_language that goes into another save, in the language chosen.
LEMMA ReplaceStep == IInv /\ Replace => IInv'
<1> SUFFICES ASSUME IInv, Replace PROVE IInv'
  OBVIOUS
<1>0. TypeOK /\ (~hurt => OnTrack) /\ step = "Replace" /\ tmp = Holds(value)
      /\ config.kind # "Torn" /\ (config.kind = "Corrupt" => config = wanted)
  BY DEF IInv, Replace
<1>1. UNCHANGED <<world, bak, edits, chosen>>
  BY DEF Replace
<1>a. value \in Settings /\ Holds(value) \in File /\ wanted \in File /\ wanted.kind # "Torn"
  BY <1>0, Files DEF TypeOK
<1>2. CASE /\ config' = tmp /\ tmp' = Absent /\ UNCHANGED hurt
           /\ purpose = "Save" /\ step' = "Idle" /\ wanted' = WantedInThatLanguage
           /\ UNCHANGED <<fallback, purpose, value>>
  <2>1. /\ wanted' \in File /\ wanted'.kind # "Torn"
        /\ wanted.kind = "Corrupt" => wanted' = wanted
        /\ wanted.kind # "Corrupt" =>
              /\ wanted'.kind = "Settings"
              /\ wanted' = Holds([WantedSettings EXCEPT !.language = chosen])
    <3>1. CASE wanted.kind = "Settings"
      <4>1. wanted' = [wanted EXCEPT !.settings.language = chosen]
        BY <1>2, <3>1 DEF WantedInThatLanguage
      <4>2. wanted = [kind |-> "Settings", settings |-> wanted.settings, edit |-> 0]
        BY <3>1, <1>a, Kinds DEF Holds
      <4>3. wanted' = Holds([wanted.settings EXCEPT !.language = chosen])
        BY <4>1, <4>2 DEF Holds
      <4> QED BY <4>3, <3>1, <1>0, InHand, Files, Kinds DEF TypeOK, WantedSettings
    <3>2. CASE wanted.kind = "Absent"
      <4>1. wanted' = Holds(DefaultsInThatLanguage)
        BY <1>2, <3>2 DEF WantedInThatLanguage
      <4> QED BY <4>1, <3>2, <1>0, InHand, Files, Kinds
              DEF WantedSettings, DefaultsInThatLanguage
    <3>3. CASE wanted.kind = "Corrupt"
      <4>1. wanted' = wanted
        BY <1>2, <3>3 DEF WantedInThatLanguage
      <4> QED BY <4>1, <3>3, <1>a
    <3> QED BY <3>1, <3>2, <3>3, <1>a, Kinds
  <2>2. TypeOK'
    BY <2>1, <1>0, <1>1, <1>2, <1>a, Files DEF TypeOK, Steps
  <2>3. config'.kind = "Settings"
    BY <1>0, <1>2, Kinds
  <2>4. ~hurt => OnTrack'
    <3> SUFFICES ASSUME ~hurt PROVE OnTrack'
      OBVIOUS
    <3>1. wanted.kind # "Corrupt" => config' = wanted'
      BY <2>1, <1>0, <1>2 DEF OnTrack, Saving
    <3>2. wanted.kind = "Corrupt" => wanted' \in {config', bak'}
      BY <2>1, <1>0, <1>1, <1>2 DEF OnTrack, Saving
    <3> QED BY <3>1, <3>2, <2>1, <1>2 DEF OnTrack, Saving
  <2> QED BY <2>2, <2>3, <2>4, <1>2 DEF IInv
<1>3. CASE /\ config' = tmp /\ tmp' = Absent /\ UNCHANGED <<hurt, wanted>>
           /\ purpose # "Save" /\ LoadReturns
  <2>1. \/ step' = "Idle" /\ fallback' = FALSE /\ UNCHANGED <<purpose, value>>
        \/ /\ purpose = "Language" /\ purpose' = "Save" /\ fallback' = FALSE
           /\ step' = "Create" /\ value' = InThatLanguage
    BY <1>3 DEF LoadReturns, Saves
  <2>2. TypeOK'
    BY <2>1, <1>0, <1>1, <1>3, <1>a, InHand, Files DEF TypeOK, Steps
  <2>3. config'.kind = "Settings"
    BY <1>0, <1>3, Kinds
  <2>4. ~hurt => OnTrack'
    <3> SUFFICES ASSUME ~hurt PROVE OnTrack'
      OBVIOUS
    <3>1. wanted.kind # "Corrupt" => value = WantedSettings /\ config' = Holds(WantedSettings)
      BY <1>0, <1>3 DEF OnTrack, Saving
    <3>2. wanted.kind = "Settings" => config' = wanted
      <4>1. wanted.kind = "Settings" => config = wanted
        BY <1>0 DEF OnTrack
      <4> QED BY <3>1, <4>1, <1>a, Kinds DEF WantedSettings
    <3>3. wanted.kind = "Absent" => config' = Holds(Defaults)
      BY <3>1 DEF WantedSettings
    <3>4. wanted.kind = "Corrupt" => bak = wanted
      BY <1>0 DEF OnTrack, Saving
    <3> QED BY <2>1, <3>1, <3>2, <3>3, <3>4, <1>1, <1>3
            DEF OnTrack, Saving, WantedSettings, InThatLanguage
  <2> QED BY <2>1, <2>2, <2>3, <2>4, <1>3 DEF IInv
<1>4. CASE CallFails /\ UNCHANGED <<config, tmp, wanted>>
  <2>1. step \in {"Read", "Backup"} \union Saving
    BY <1>0 DEF Saving
  <2> QED BY <2>1, <1>1, <1>4, FailStep
<1> QED BY <1>2, <1>3, <1>4 DEF Replace

-----------------------------------------------------------------------------
\* Wherever the program is stopped, starting again finds the files on the track.
LEMMA OtherSteps == IInv /\ (Start \/ SetLanguage \/ Stop) => IInv'
<1> SUFFICES ASSUME IInv, Start \/ SetLanguage \/ Stop PROVE IInv'
  OBVIOUS
<1>0. TypeOK /\ (~hurt => OnTrack) /\ config.kind # "Torn"
      /\ (config.kind = "Corrupt" => config = wanted)
  BY DEF IInv
<1>1. CASE Start
  <2>1. TypeOK'
    BY <1>0, <1>1 DEF Start, Calls, TypeOK, Steps, fileVars, userVars
  <2>2. ~hurt => OnTrack'
    BY <1>0, <1>1 DEF Start, Calls, OnTrack, Saving, fileVars, userVars
  <2> QED BY <2>1, <2>2, <1>0, <1>1 DEF Start, Calls, IInv, fileVars, userVars
<1>2. CASE SetLanguage
  <2>1. TypeOK'
    BY <1>0, <1>2 DEF SetLanguage, Calls, TypeOK, Steps, fileVars, userVars
  <2>2. ~hurt => OnTrack'
    BY <1>0, <1>2 DEF SetLanguage, Calls, OnTrack, Saving, fileVars, userVars
  <2> QED BY <2>1, <2>2, <1>0, <1>2 DEF SetLanguage, Calls, IInv, fileVars, userVars
<1>3. CASE Stop
  <2>1. TypeOK'
    BY <1>0, <1>3 DEF Stop, TypeOK, Steps, fileVars, userVars
  <2>2. ~hurt => OnTrack'
    BY <1>0, <1>3 DEF Stop, OnTrack, Saving, fileVars, userVars
  <2> QED BY <2>1, <2>2, <1>0, <1>3 DEF Stop, IInv, fileVars, userVars
<1> QED BY <1>1, <1>2, <1>3

LEMMA EditStep == IInv /\ UserEdits => IInv'
<1> SUFFICES ASSUME IInv, UserEdits PROVE IInv'
  OBVIOUS
<1>0. TypeOK /\ edits < MaxEdits /\ edits' = edits + 1 /\ wanted' = config'
      /\ (step = "Replace" => tmp = Holds(value))
      /\ (step \in {"Read", "Backup"} => purpose # "Save")
      /\ hurt' = (step \notin {"Off", "Idle"})
      /\ UNCHANGED <<world, tmp, bak, step, purpose, fallback, value, chosen>>
  BY DEF IInv, UserEdits, codeVars
<1>1. edits' \in 0 .. MaxEdits
  BY <1>0 DEF TypeOK
<1>2. config' \in {Absent, Corrupt(edits')} \union {Holds(s) : s \in Settings}
  BY <1>0 DEF UserEdits
<1>3. config' \in File /\ config'.kind # "Torn"
  BY <1>1, <1>2, Files, Kinds
<1>4. TypeOK'
  BY <1>0, <1>1, <1>3 DEF TypeOK
<1>5. ~hurt' => OnTrack'
  BY <1>0, <1>3, Kinds DEF OnTrack, Saving
<1> QED BY <1>0, <1>3, <1>4, <1>5 DEF IInv

LEMMA NextStep == IInv /\ [Next]_vars => IInv'
<1>1. IInv /\ UNCHANGED vars => IInv'
  BY DEF vars, fileVars, userVars, codeVars, IInv, TypeOK, OnTrack, WantedSettings
<1> QED BY <1>1, ReadStep, BackupStep, CreateStep, WriteStep, ReplaceStep, OtherSteps, EditStep
        DEF Next, Calling

\* The whole of it holds in every state the files can be in.
THEOREM Invariance == Spec => []IInv
<1> QED BY InitInv, NextStep, PTL DEF Spec

\* The files and the variables of load() and save() keep their types.
THEOREM TypeCorrect == Spec => []TypeOK
<1>1. IInv => TypeOK
  BY DEF IInv
<1> QED BY <1>1, Invariance, PTL

\* A crash or a failing call never leaves config.json half written (save_to writes
\* another file and renames it).
THEOREM Atomicity == Spec => []NeverHalfWritten
<1>1. IInv => NeverHalfWritten
  BY Kinds DEF IInv, NeverHalfWritten
<1> QED BY <1>1, Invariance, PTL

\* Starting, stopping and setting the language lose no setting of the user's.
THEOREM KeepsSettings == Spec => []SettingsKept
<1>1. IInv => SettingsKept
  BY DEF IInv, OnTrack, SettingsKept
<1> QED BY <1>1, Invariance, PTL

\* A file that cannot be read is kept as the backup before it is replaced.
THEOREM KeepsCorrupt == Spec => []CorruptKept
<1>1. IInv => CorruptKept
  BY DEF IInv, OnTrack, CorruptKept
<1> QED BY <1>1, Invariance, PTL
===============================================================================
