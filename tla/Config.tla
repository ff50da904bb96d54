------------------------------- MODULE Config -------------------------------
(***************************************************************************)
(* The configuration of a simulation and its file, over starts and ends of *)
(* the program (Config.cpp, SimulationSetPath, Update of the simulation    *)
(* module).  The program only reads its settings; the user changes them in *)
(* the file while it does not run.                                         *)
(*                                                                         *)
(* Opening the file to write makes it empty; a file that is empty or cut   *)
(* is no JSON and gives no settings.  A setting that was written and read  *)
(* may have another form (whole numbers become floating).                  *)
(***************************************************************************)
CONSTANTS
    Setting,        \* the names in the dictionary
    Choice,         \* their values
    AsRead,         \* what parse_string makes of a value that was written
    ConfigDefaults  \* GetConfigDefaults

ASSUME ConfigAssumption ==
    /\ AsRead \in [Choice -> Choice]
    /\ \A c \in Choice : AsRead[AsRead[c]] = AsRead[c]
    /\ DOMAIN ConfigDefaults \subseteq Setting
    /\ \A k \in DOMAIN ConfigDefaults : ConfigDefaults[k] \in Choice

VARIABLES
    at,         \* where the program is in saving; "down": it does not run
    values,     \* config.values
    text,       \* the file: absent, cut or whole, and what it says
    chosen      \* what the user has written since the settings were last lost

configVars == <<at, values, text, chosen>>

NoSettings == [k \in {} |-> 0]

(* Two dictionaries, the first has precedence. *)
Over(f, g) == [k \in DOMAIN f \union DOMAIN g |-> IF k \in DOMAIN f THEN f[k] ELSE g[k]]

WholeText(settings) == [is |-> "whole", says |-> settings]
CutText == [is |-> "cut", says |-> NoSettings]

(* JSON::parse_string.                                                      *)
Parsed(t) == [k \in DOMAIN t.says |-> AsRead[t.says[k]]]

UserWrites(k, v) ==
    /\ at = "down"
    /\ text' = WholeText(Over([j \in {k} |-> v], text.says))
    /\ chosen' = Over([j \in {k} |-> v], chosen)
    /\ UNCHANGED <<at, values>>

(* Mutant: a default takes the place of a value. *)
InitializeConfig_Over(read) ==
    /\ values' = Over(ConfigDefaults, read)
    /\ at' = "save"
    /\ UNCHANGED text

(* What is read, and a default for what is not there.                       *)
InitializeConfig(read) ==
    /\ values' = Over(read, ConfigDefaults)
    /\ at' = "save"
    /\ UNCHANGED text

(* SimulationSetPath, when the file can be opened or does not exist ...      *)
LoadConfig ==
    /\ at = "down"
    /\ InitializeConfig(Parsed(text))
    /\ UNCHANGED chosen

(* ... and when it exists and cannot be opened: its settings are not read,   *)
(* and the next save puts the defaults in their place.                      *)
LoadFails ==
    /\ at = "down" /\ text.is # "absent"
    /\ InitializeConfig(NoSettings)
    /\ chosen' = NoSettings

(* SaveJsonConfig: the file is opened, or not, and then written.  Whether    *)
(* all of it was written is not looked at.                                  *)
OpenToWrite ==
    /\ at = "save"
    /\ text' = CutText
    /\ at' = "write"
    /\ UNCHANGED <<values, chosen>>

SaveFails ==
    /\ at = "save"
    /\ at' = "run"
    /\ UNCHANGED <<values, text, chosen>>

StoreConfig ==
    /\ at = "write"
    /\ text' = WholeText(values)
    /\ at' = "run"
    /\ UNCHANGED <<values, chosen>>

StoreFails ==
    /\ at = "write"
    /\ at' = "run"
    /\ UNCHANGED <<values, text, chosen>>

(* Update saves again when ten seconds have passed.                         *)
SaveAgain ==
    /\ at = "run"
    /\ at' = "save"
    /\ UNCHANGED <<values, text, chosen>>

(* The program ends, or is killed: then also inside a save.  What the file   *)
(* does not say then is lost.                                               *)
EndProgram ==
    /\ at # "down"
    /\ at' = "down" /\ values' = NoSettings
    /\ chosen' = IF text.is = "cut" THEN NoSettings ELSE chosen
    /\ UNCHANGED text

ConfigInit ==
    /\ at = "down" /\ values = NoSettings
    /\ text = [is |-> "absent", says |-> NoSettings]
    /\ chosen = NoSettings

ConfigNext ==
    \/ \E k \in Setting, v \in Choice : UserWrites(k, v)
    \/ LoadConfig \/ LoadFails \/ OpenToWrite \/ SaveFails \/ StoreConfig \/ StoreFails
    \/ SaveAgain \/ EndProgram

-----------------------------------------------------------------------------

(* A setting is lost in two ways only: the program ends, or is killed, while *)
(* its file is cut, since a save was under way (every ten seconds) or failed *)
(* half-way; or it could not open the file when it started.  Whatever the    *)
(* user has written since stays, through every sequence of runs, kills and   *)
(* saves that fail: the program runs with it and with every default there    *)
(* is, and its file says it whenever it is not cut, after a save that failed *)
(* half-way from the next one on.                                            *)
SettingsKept ==
    /\ at # "down" => DOMAIN ConfigDefaults \subseteq DOMAIN values
    /\ \A k \in DOMAIN chosen :
         /\ at # "down" => values[k] = AsRead[chosen[k]]
         /\ text.is # "cut" => text.says[k] \in {chosen[k], AsRead[chosen[k]]}
         /\ at = "down" => text.is = "whole"
=============================================================================
