---------------------------- MODULE Configuration ----------------------------
(***************************************************************************)
(* Configuration: the settings of the server.  Each has a default; the    *)
(* command line sets some, and the configuration file those that are      *)
(* still at their default.  A setting has the name of its field in        *)
(* Config, also where the option or the key of the file is called         *)
(* otherwise (google_timing is "google-japanese-input").                  *)
(***************************************************************************)
EXTENDS Integers, FiniteSetsExt, SequencesExt

CONSTANTS
    Default,    \* Config::new: the value of each setting
    Valid       \* for each setting with a validator, what it accepts

\* The fields of Config.
Settings == DOMAIN Default

Timings == {"first", "last", "notfound", "disable"}

InsertSwitches ==
    {"google_insert_hiragana_only_candidate", "google_insert_katakana_only_candidate",
     "google_insert_hankaku_katakana_only_candidate"}

\* Options without a value on the command line.
Flags == {"is_http_enabled", "is_google_suggest_enabled"}

\* "enable" or not in the file.
Switches == Flags \cup InsertSwitches

ASSUME ConfigurationAssumption ==
    /\ Switches \cup {"google_timing", "google_cache_full_path", "is_google_cache_enabled",
                      "google_max_candidates_length", "google_cache_entries",
                      "dictionary_full_path", "is_no_daemonize"}
           \subseteq Settings
    /\ \A key \in Switches \cup {"is_google_cache_enabled", "is_no_daemonize"} : Default[key] = FALSE
    /\ Default["google_timing"] \in Timings \ {"disable"}
    /\ Default["dictionary_full_path"] = ""
    /\ DOMAIN Valid \subseteq
           Settings \ (Switches \cup {"google_timing", "is_google_cache_enabled"})
    /\ \A key \in {"google_cache_entries", "google_max_candidates_length"} :
          key \in DOMAIN Valid /\ Valid[key] \cup {Default[key]} \subseteq Nat \ {0}

-----------------------------------------------------------------------------
(***************************************************************************)
(* The command line: the value of each option that is present.            *)
(***************************************************************************)

\* The parser ends the program for a value that is not valid.
IsUsageError(arguments) ==
    \E key \in DOMAIN arguments :
        \/ key \in DOMAIN Valid /\ arguments[key] \notin Valid[key]
        \/ key = "google_timing" /\ arguments[key] \notin Timings

\* Nothing reads the option of google_max_candidates_length.  A file for the cache
\* is what enables it.
CommandLine(arguments) ==
    [key \in Settings |->
        IF key = "is_google_cache_enabled" THEN "google_cache_full_path" \in DOMAIN arguments
        ELSE IF key \in DOMAIN arguments \ {"google_max_candidates_length"} THEN arguments[key]
        ELSE Default[key]]

\* Options of Google without Google show the help.
IsHelpExit(arguments) ==
    /\ CommandLine(arguments)["google_timing"] = "disable"
    /\ Flags \cap DOMAIN arguments # {}

-----------------------------------------------------------------------------
(***************************************************************************)
(* The file: its lines, as records of key and value (comments and what is *)
(* no assignment are passed over), or Unreadable.                         *)
(***************************************************************************)

CONSTANTS NoFile, Unreadable

\* Of two lines with the same key the last counts.
Assignments(file) ==
    [key \in {line.key : line \in Range(file)} |->
        file[Max({i \in DOMAIN file : file[i].key = key})].value]

\* Mutant of IsOpen: the file has the last word.
IsAlwaysOpen(config, file, key) == key \in DOMAIN file

\* A setting that has its default may come from the file.
IsOpen(config, file, key) == key \in DOMAIN file /\ config[key] = Default[key]

\* What a value of the file stands for.
Value(key, value) ==
    CASE key \in Switches -> value = "enable"
      [] key = "google_timing" -> IF value \in Timings THEN value ELSE "notfound"
      [] OTHER -> value

\* The settings with those of the file.
WithFile(config, file) ==
    [key \in DOMAIN config |->
        IF IsOpen(config, file, key) THEN Value(key, file[key]) ELSE config[key]]

\* Mutant of IsIllegal: a switch is not compared with the timing.
IsOnlyInvalid(config, file) ==
    \E key \in DOMAIN Valid : IsOpen(config, file, key) /\ file[key] \notin Valid[key]

\* A value the validator refuses, or a switch of Google enabled without Google.
IsIllegal(config, file) ==
    \/ \E key \in DOMAIN Valid : IsOpen(config, file, key) /\ file[key] \notin Valid[key]
    \/ /\ WithFile(config, file)["google_timing"] = "disable"
       /\ \E key \in Switches : IsOpen(config, file, key) /\ Value(key, file[key])

Refused == [refused |-> TRUE]

\* Yaskkserv2ConfigFile::read: a file that cannot be opened is not missed.
ReadFile(config, file) ==
    IF file = NoFile THEN config
    ELSE IF Unreadable \in Range(file) \/ IsIllegal(config, Assignments(file)) THEN Refused
    ELSE WithFile(config, Assignments(file))
=============================================================================
