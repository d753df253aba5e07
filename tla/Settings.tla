------------------------------ MODULE Settings ------------------------------
(***************************************************************************)
(* From the configuration file to a monitor that works by it: start-up in  *)
(* main() (src/src/main.c), sql_setup_credentials()                        *)
(* (src/src/database/sql_interface_layer.c), the two parameters that are   *)
(* only looked at when they are needed, and the unit that starts and       *)
(* reloads the monitor (src/automation_stack_monitor.service).             *)
(*                                                                         *)
(* Abstractions: of a required parameter only its presence counts, of an   *)
(* optional one the integer that atoi() makes of it.  The file is read in  *)
(* one piece.  Why else a monitor ends is the matter of other modules.     *)
(***************************************************************************)
EXTENDS Integers

CONSTANTS
    File,         \* what the configuration file may contain
    Missing,      \* there is no file
    Option,       \* how the monitor may be called, see CheckArguments
    Burst,        \* how many failed starts systemd tolerates in a row
    MaxReloads    \* bound on reloads

Asserted == {"SQLHOST", "SQLUSER", "SQLPASS"}

Required == Asserted \cup {"SQLDB", "INTERFACE"}

Defaults ==
    [RETRIES |-> 5, TIMEOUT |-> 10, AGGR_RETRIES |-> 5, AGGR_TIMEOUT |-> 5,
     PROBE_TIMEOUT |-> 300]

Number == DOMAIN Defaults

ASSUME FileAssumption ==
    \A f \in File :
        /\ f.has \subseteq Required
        /\ DOMAIN f.number \subseteq Number
        /\ \A key \in DOMAIN f.number : f.number[key] \in Int
ASSUME OptionAssumption == Option \subseteq {"-c", "none", "unknown"}
ASSUME BoundsAssumption == Burst \in Nat /\ MaxReloads \in Nat

VARIABLES
    file,       \* the configuration file, as it is
    option,     \* the options of the command line
    pc,         \* where the process is, if there is one
    read,       \* the file as the process has read it
    config,     \* the values of the map config: are they allocated?
    settings,   \* retries, timeout, aggr_retries, aggr_timeout, probe_timeout
    misread,    \* a value was used after it was freed (history)
    status,     \* how the last process ended
    quick,      \* how many ended since one has sent a request
    reloads     \* how many reloads there were

vars == <<file, option, pc, read, config, settings, misread, status, quick,
          reloads>>

unitVars == <<file, option, status, quick, reloads>>

Entries(f) == f.has \cup DOMAIN f.number

NoConfig == [key \in {} |-> "live"]

(* Past the assertions; past set_global_constants().                       *)
Started == {"cycle", "round", "serving", "lost"}

Running == {"arguments", "file", "credentials", "constants"} \cup Started

Init ==
    /\ file \in File \cup {Missing}
    /\ option \in Option
    /\ pc = "arguments"
    /\ read = Missing /\ config = NoConfig /\ settings = Defaults
    /\ misread = FALSE /\ status = "clean" /\ quick = 0 /\ reloads = 0

Edit(f) ==
    /\ file' = f
    /\ UNCHANGED <<option, pc, read, config, settings, misread, status, quick,
                   reloads>>

-----------------------------------------------------------------------------
(* The process.                                                            *)

(* What a process leaves: its status, and the file.                        *)
Ends(how) ==
    /\ pc' = "ended"
    /\ status' = how
    /\ quick' = IF quick < Burst THEN quick + 1 ELSE quick
    /\ read' = Missing /\ config' = NoConfig /\ settings' = Defaults
    /\ UNCHANGED <<file, option, misread>>

Continues(where) ==
    /\ pc' = where
    /\ UNCHANGED unitVars

(* check_program_arguments(); usage() ends with status 0.                  *)
CheckArguments ==
    /\ pc = "arguments"
    /\ IF option = "unknown" \/ (option = "none" /\ file = Missing)
         THEN Ends("clean") /\ UNCHANGED reloads
         ELSE Continues("file") /\ UNCHANGED <<read, config, settings, misread>>

(* parse_conf_file(): no file and no parameters are the same.              *)
ParseConfFile ==
    /\ pc = "file"
    /\ IF file = Missing \/ (file # Missing /\ Entries(file) = {})
         THEN Ends("clean") /\ UNCHANGED reloads
         ELSE /\ Continues("credentials")
              /\ read' = file
              /\ config' = [key \in Entries(file) |-> "live"]
              /\ UNCHANGED <<settings, misread>>

(* Without the assertions: a mutation.                                     *)
SetupCredentialsAnyway ==
    /\ pc = "credentials"
    /\ Continues("constants")
    /\ UNCHANGED <<read, config, settings, misread>>

(* sql_setup_credentials(): three assertions.                              *)
SetupCredentials ==
    /\ pc = "credentials"
    /\ IF Asserted \subseteq DOMAIN config
         THEN /\ Continues("constants")
              /\ UNCHANGED <<read, config, settings, misread>>
         ELSE Ends("failure") /\ UNCHANGED reloads

(* get_int_from_config().                                                  *)
IntFromConfig(key) == IF key \in DOMAIN config THEN read.number[key] ELSE -1

(* Zero and negative numbers are taken as well: a mutation.                *)
SetAnyConstants ==
    /\ pc = "constants"
    /\ settings' = [key \in Number |-> IF key \in DOMAIN config
                                         THEN IntFromConfig(key)
                                         ELSE settings[key]]
    /\ config' = [key \in DOMAIN config |->
                     IF key \in Number THEN "freed" ELSE config[key]]
    /\ Continues("cycle")
    /\ UNCHANGED <<read, misread>>

(* The whole configuration is freed when it was read: a mutation.          *)
SetConstantsAndFreeConfig ==
    /\ pc = "constants"
    /\ settings' = [key \in Number |-> IF IntFromConfig(key) > 0
                                         THEN IntFromConfig(key)
                                         ELSE settings[key]]
    /\ config' = [key \in DOMAIN config |-> "freed"]
    /\ Continues("cycle")
    /\ UNCHANGED <<read, misread>>

(* set_global_constants() reads each number once, and frees what it read,  *)
(* which stays in the map.                                                 *)
SetGlobalConstants ==
    /\ pc = "constants"
    /\ settings' = [key \in Number |-> IF IntFromConfig(key) > 0
                                         THEN IntFromConfig(key)
                                         ELSE settings[key]]
    /\ config' = [key \in DOMAIN config |->
                     IF key \in Number THEN "freed" ELSE config[key]]
    /\ Continues("cycle")
    /\ UNCHANGED <<read, misread>>

Uses(key) ==
    misread' = (misread \/ (key \in DOMAIN config /\ config[key] = "freed"))

(* sql_send_query(): without a database every query fails, and its results *)
(* are whatever the stack holds (see SqlSession).                          *)
GetDevices ==
    /\ pc = "cycle"
    /\ Uses("SQLDB")
    /\ Continues(IF "SQLDB" \in DOMAIN config THEN "round" ELSE "lost")
    /\ UNCHANGED <<read, config, settings>>

(* get_local_mac_address(): the first request copies a null pointer if     *)
(* there is no interface.  Otherwise the monitor is at work.               *)
SendRequests ==
    /\ pc = "round"
    /\ IF "INTERFACE" \in DOMAIN config
         THEN /\ Uses("INTERFACE")
              /\ pc' = "serving" /\ quick' = 0
              /\ UNCHANGED <<file, option, status, reloads, read, config,
                             settings>>
         ELSE Ends("failure") /\ UNCHANGED reloads

NextCycle ==
    /\ pc = "serving"
    /\ Continues("cycle")
    /\ UNCHANGED <<read, config, settings, misread>>

(* With wild results the process may crash, or not.                        *)
Crash ==
    /\ pc = "lost"
    /\ Ends("failure")
    /\ UNCHANGED reloads

-----------------------------------------------------------------------------
(* The unit.                                                               *)

(* ExecReload sends SIGHUP, which nothing in the program handles.          *)
Reload ==
    /\ pc \in Running /\ reloads < MaxReloads
    /\ reloads' = reloads + 1
    /\ Ends("clean")

(* Only after failures: a mutation.                                        *)
RestartOnFailure ==
    /\ pc = "ended" /\ status = "failure"
    /\ pc' = "arguments"
    /\ UNCHANGED <<unitVars, read, config, settings, misread>>

(* Restart=always.                                                         *)
Restart ==
    /\ pc = "ended"
    /\ pc' = "arguments"
    /\ UNCHANGED <<unitVars, read, config, settings, misread>>

(* systemd stops restarting a unit that ended too often in a short time.   *)
GiveUp ==
    /\ pc = "ended" /\ quick >= Burst
    /\ pc' = "failed"
    /\ UNCHANGED <<unitVars, read, config, settings, misread>>

Process ==
    \/ CheckArguments \/ ParseConfFile \/ SetupCredentials
    \/ SetGlobalConstants \/ GetDevices \/ SendRequests \/ NextCycle

Next ==
    \/ \E f \in File \cup {Missing} : Edit(f)
    \/ Process
    \/ Crash \/ Reload
    \/ Restart \/ GiveUp

(* The process runs and systemd minds the unit; nobody has to reload or    *)
(* to edit, and a process with wild results does not have to crash.        *)
Fairness == WF_vars(Process) /\ WF_vars(Restart \/ GiveUp)

Spec == Init /\ [][Next]_vars /\ Fairness

-----------------------------------------------------------------------------
(* Start-up checks three of the "required parameters"                      *)
(* (conf/settings_conf.example:1).  The other two are not missed before    *)
(* the first query and the first request; still, a monitor that sends      *)
(* requests has all five.                                                  *)
ServesWithAllRequired ==
    pc = "serving" => Required \subseteq read.has

(* get_int_from_config() leaves freed values in the map.  Nothing that     *)
(* runs later, cycle after cycle, reads one of them.                       *)
NothingFreedIsRead == ~misread

(* A monitor that has ended, for a file that was no good or for a reload,  *)
(* comes back and works by the file that is there now, if that is good and *)
(* is left alone.  The one exception is a unit that was given up.          *)
RepairsTakeEffect ==
    \A f \in File :
        Required \subseteq f.has =>
            (pc = "ended" /\ option # "unknown" /\ [](file = f))
                ~> (pc = "serving" /\ read = f) \/ pc = "failed"

-----------------------------------------------------------------------------
TypeOK ==
    /\ file \in File \cup {Missing} /\ option \in Option
    /\ pc \in Running \cup {"ended", "failed"}
    /\ settings \in [Number -> Nat \ {0}]
    /\ misread \in BOOLEAN
    /\ status \in {"clean", "failure"}
    /\ quick \in 0..Burst /\ reloads \in 0..MaxReloads

(* What the process knows is one version of the file.                      *)
ConfigIsOfFile ==
    pc \in {"credentials", "constants"} \cup Started =>
        /\ read \in File
        /\ DOMAIN config = Entries(read)
        /\ \A key \in DOMAIN config :
              config[key] = "freed" => key \in Number /\ pc \in Started

(* It is checked step by step.                                             *)
ChecksSoFar ==
    /\ pc \in {"constants"} \cup Started => Asserted \subseteq read.has
    /\ pc \in {"round", "serving"} => "SQLDB" \in read.has
    /\ pc = "serving" => "INTERFACE" \in read.has

(* The numbers in force are those of the file that the process has read,   *)
(* where they are positive, and the defaults everywhere else; another      *)
(* process takes over none of them.                                        *)
NumbersInForce ==
    \A key \in Number :
        settings[key] =
            IF /\ pc \in Started /\ key \in DOMAIN read.number
               /\ read.number[key] > 0
              THEN read.number[key]
              ELSE Defaults[key]

IInv ==
    /\ TypeOK
    /\ ConfigIsOfFile
    /\ ChecksSoFar
    /\ NumbersInForce
    /\ NothingFreedIsRead
=============================================================================
