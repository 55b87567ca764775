------------------------------ MODULE ConfigStore ------------------------------
(***************************************************************************)
(* The configuration on disk: config.toml, which is meant to be shared,    *)
(* and secrets.toml with the booths' debug tokens (tbo-core's config.rs    *)
(* and secrets.rs), written one after the other by the setup of            *)
(* onboarding.rs and by the Settings screen (app.rs). A write empties the  *)
(* file and fills it again; it can fail, and the program can die, at any   *)
(* point of it.                                                            *)
(*                                                                         *)
(* There is one booth, with a token or without (0). Everything else in the *)
(* configuration is one number, 0 for the defaults.                        *)
(***************************************************************************)
EXTENDS Integers

CONSTANTS MaxPrefs, MaxTokens

ASSUME ConfigAssumption == {MaxPrefs, MaxTokens} \subseteq Nat \ {0}

VARIABLES
    configFile, secretsFile,
    phase,          \* what the program is at
    memory,         \* the configuration the program holds
    rebuild,        \* the change that is being saved is one of the booth
    built,          \* the token in the booth's controllers
    saved,          \* the last save went well, or nothing was changed
    amiss           \* a save failed since the program started

configVars == <<configFile, secretsFile, phase, memory, rebuild, built,
                saved, amiss>>

Prefs == 0..MaxPrefs
Tokens == 0..MaxTokens
NoToken == 0

Configs == {c \in [prefs: Prefs, booth: BOOLEAN, token: Tokens] :
              ~c.booth => c.token = NoToken}
Defaults == [prefs |-> 0, booth |-> FALSE, token |-> NoToken]

\* A torn file cannot be parsed; one that is absent or empty is the default.
ConfigFiles == [torn: BOOLEAN, holds: Configs]
SecretsFiles == [torn: BOOLEAN, token: Tokens]

ConfigTypeOK ==
    /\ configFile \in ConfigFiles /\ secretsFile \in SecretsFiles
    /\ phase \in {"off", "setup", "setup secrets", "running", "save", "save secrets"}
    /\ memory \in Configs /\ rebuild \in BOOLEAN /\ built \in Tokens
    /\ saved \in BOOLEAN /\ amiss \in BOOLEAN

\* The files of an earlier version, which had the token in the configuration,
\* or of a run that was cut short.
ConfigInit ==
    /\ configFile \in [torn: {FALSE}, holds: Configs]
    /\ secretsFile \in [torn: BOOLEAN, token: {NoToken, 1}]
    /\ phase = "off"
    /\ memory = Defaults /\ rebuild = FALSE /\ built = NoToken
    /\ saved = TRUE /\ amiss = FALSE

----------------------------------------------------------------------------
(* Config::load_from and merge_secrets: a stored token takes precedence    *)
(* over one in the configuration. Secrets that cannot be read are none.    *)
Merged(c, s) ==
    IF c.booth /\ ~s.torn /\ s.token # NoToken THEN [c EXCEPT !.token = s.token] ELSE c

OnDisk == Merged(configFile.holds, secretsFile)

ShareableAsItIs(c) == c                 \* a slip: the token stays

(* take_secrets: what goes to the one file; the token goes to the other.   *)
Shareable(c) == [c EXCEPT !.token = NoToken]

Start ==
    /\ phase = "off"
    /\ ~configFile.torn
    /\ phase' = "running"
    /\ memory' = OnDisk
    /\ built' = OnDisk.token
    /\ saved' = TRUE /\ amiss' = FALSE
    /\ UNCHANGED <<configFile, secretsFile, rebuild>>

(* onboarding::run collects answers: the booth is kept, left out, or new.  *)
SetUp ==
    /\ phase = "off"
    /\ ~configFile.torn
    /\ phase' = "setup"
    /\ \E prefs \in Prefs, c \in Configs :
         memory' \in {[c EXCEPT !.prefs = prefs], [OnDisk EXCEPT !.prefs = prefs]}
    /\ UNCHANGED <<configFile, secretsFile, rebuild, built, saved, amiss>>

(* A theme, the operator's URL or a poll interval is changed in the        *)
(* program, or the booth's URL or token: at once in memory, then on disk.  *)
Change ==
    /\ phase = "running"
    /\ phase' = "save"
    /\ \/ /\ \E prefs \in Prefs : memory' = [memory EXCEPT !.prefs = prefs]
          /\ rebuild' \in {FALSE, memory.booth}
       \/ /\ memory.booth
          /\ \E token \in Tokens \ {NoToken} : memory' = [memory EXCEPT !.token = token]
          /\ rebuild' = TRUE
    /\ UNCHANGED <<configFile, secretsFile, built, saved, amiss>>

(* persist_config_and_secrets, and the two saves of onboarding: the        *)
(* configuration first.                                                    *)
SaveConfig ==
    /\ phase \in {"save", "setup"}
    /\ configFile' = [torn |-> FALSE, holds |-> Shareable(memory)]
    /\ phase' = IF phase = "save" THEN "save secrets" ELSE "setup secrets"
    /\ UNCHANGED <<secretsFile, memory, rebuild, built, saved, amiss>>

(* rebuild_booth_controllers follows when the booth was changed. A setup   *)
(* is followed by a start.                                                 *)
SaveSecrets ==
    /\ phase \in {"save secrets", "setup secrets"}
    /\ secretsFile' = [torn |-> FALSE, token |-> memory.token]
    /\ phase' = IF phase = "save secrets" THEN "running" ELSE "off"
    /\ saved' = TRUE
    /\ built' = IF phase = "save secrets" /\ rebuild THEN memory.token ELSE built
    /\ UNCHANGED <<configFile, memory, rebuild, amiss>>

(* What a write that is cut short, or fails, leaves of a file.             *)
CutShort ==
    CASE phase \in {"save", "setup"} ->
           /\ configFile' \in {configFile, [torn |-> TRUE, holds |-> Defaults]} \cup
                [torn : {FALSE}, holds : {Defaults, Shareable(memory)}]
           /\ UNCHANGED secretsFile
      [] phase \in {"save secrets", "setup secrets"} ->
           /\ secretsFile' \in {secretsFile, [torn |-> TRUE, token |-> NoToken]} \cup
                [torn : {FALSE}, token : {NoToken, memory.token}]
           /\ UNCHANGED configFile
      [] OTHER -> UNCHANGED <<configFile, secretsFile>>

ErrorIgnored ==         \* a slip: only the last error is looked at
    /\ phase \in {"save", "save secrets"}
    /\ CutShort
    /\ phase' = IF phase = "save" THEN "save secrets" ELSE "running"
    /\ saved' = (phase = "save" /\ saved) /\ amiss' = (phase # "save" \/ amiss)
    /\ UNCHANGED <<memory, rebuild, built>>

(* A save fails in the program, which goes on with the change in memory.   *)
SaveFails ==
    /\ phase \in {"save", "save secrets"}
    /\ CutShort
    /\ phase' = "running"
    /\ saved' = FALSE /\ amiss' = TRUE
    /\ UNCHANGED <<memory, rebuild, built>>

(* The program is left, or dies at any point; a setup that fails ends it.  *)
Leave ==
    /\ phase # "off"
    /\ CutShort
    /\ phase' = "off"
    /\ UNCHANGED <<memory, rebuild, built, saved, amiss>>

(* A configuration that cannot be parsed keeps the program from starting,  *)
(* until it is written anew by hand.                                       *)
Repair ==
    /\ phase = "off"
    /\ configFile.torn
    /\ \E c \in Configs : configFile' = [torn |-> FALSE, holds |-> Shareable(c)]
    /\ UNCHANGED <<secretsFile, phase, memory, rebuild, built, saved, amiss>>

ConfigNext ==
    \/ Start \/ SetUp \/ Change \/ SaveConfig \/ SaveSecrets \/ SaveFails \/ Leave
    \/ Repair

ConfigSpec == ConfigInit /\ [][ConfigNext]_configVars

----------------------------------------------------------------------------
(* secrets.rs: tokens are stored apart "so they never appear in the        *)
(* shareable config", whatever is saved, and however it ends.              *)
NoTokenWritten ==
    [][configFile' # configFile => configFile'.holds.token = NoToken]_configVars

(* A save that is reported to have gone well is durable: a program that    *)
(* starts now has the same configuration, token included, although it is   *)
(* in two files and earlier saves may have failed on either. And so long   *)
(* as no save failed, the booth's controllers use that token.              *)
SavedIsDurable ==
    phase = "running" =>
      /\ saved => ~configFile.torn /\ OnDisk = memory
      /\ ~amiss => built = memory.token
=============================================================================
