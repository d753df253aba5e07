--------------------------- MODULE SettingsProofs ---------------------------
(***************************************************************************)
(* For any contents of the configuration file, edited at any time, a       *)
(* monitor at work has what it requires, from one version of the file.     *)
(***************************************************************************)
EXTENDS Settings, TLAPS

(* A process that ends leaves nothing that the invariant is about.         *)
LEMMA EndKeeps ==
    ASSUME IInv, NEW how \in {"clean", "failure"}, Ends(how),
           reloads' \in 0..MaxReloads
    PROVE  IInv'
<1>1. settings' \in [Number -> Nat \ {0}]
  BY DEF Ends, Defaults, Number
<1>2. quick' \in 0..Burst
  BY BoundsAssumption DEF IInv, TypeOK, Ends
<1>3. TypeOK'
  BY <1>1, <1>2 DEF IInv, TypeOK, Ends
<1> QED BY <1>3 DEF IInv, Ends, ConfigIsOfFile, ChecksSoFar, NumbersInForce,
                    Started, NothingFreedIsRead

LEMMA InitEstablishes == Init => IInv
<1> SUFFICES ASSUME Init PROVE IInv
  OBVIOUS
<1>1. settings \in [Number -> Nat \ {0}]
  BY DEF Init, Defaults, Number
<1>2. quick \in 0..Burst /\ reloads \in 0..MaxReloads
  BY BoundsAssumption DEF Init
<1>3. TypeOK
  BY <1>1, <1>2 DEF Init, TypeOK, Running
<1> QED BY <1>3 DEF Init, IInv, ConfigIsOfFile, ChecksSoFar, NumbersInForce,
                    Started, NothingFreedIsRead

(* The numbers are read from live entries and are positive afterwards.     *)
LEMMA ConstantsKeep ==
    ASSUME IInv, SetGlobalConstants
    PROVE  IInv'
<1> USE DEF SetGlobalConstants, Continues, unitVars
<1>1. /\ read \in File /\ DOMAIN config = Entries(read)
      /\ Asserted \subseteq read.has
  BY DEF IInv, ConfigIsOfFile, ChecksSoFar
<1>2. /\ read.has \subseteq Required /\ DOMAIN read.number \subseteq Number
      /\ \A key \in DOMAIN read.number : read.number[key] \in Int
  BY <1>1, FileAssumption
<1>3. \A key \in Number : key \notin Required
  BY DEF Number, Defaults, Required, Asserted
<1>4. ASSUME NEW key \in Number, IntFromConfig(key) > 0
      PROVE  /\ IntFromConfig(key) \in Nat \ {0}
             /\ key \in DOMAIN read.number
             /\ IntFromConfig(key) = read.number[key]
  <2>1. key \in DOMAIN config
    BY <1>4 DEF IntFromConfig
  <2>2. key \in DOMAIN read.number
    BY <2>1, <1>1, <1>2, <1>3 DEF Entries
  <2> QED BY <1>4, <2>1, <2>2, <1>2 DEF IntFromConfig
<1>5. /\ settings \in [Number -> Nat \ {0}]
      /\ \A key \in Number : settings[key] = Defaults[key]
  BY DEF IInv, TypeOK, NumbersInForce, Started
<1>6. settings' \in [Number -> Nat \ {0}]
  BY <1>4, <1>5
<1>7. TypeOK'
  BY <1>6 DEF IInv, TypeOK, Running, Started
<1>8. ConfigIsOfFile'
  BY <1>1 DEF IInv, ConfigIsOfFile, Started
<1>9. NumbersInForce'
  <2>1. pc' \in Started /\ read' = read
    BY DEF Started
  <2>2. ASSUME NEW key \in Number
        PROVE  settings'[key] =
                  IF key \in DOMAIN read.number /\ read.number[key] > 0
                    THEN read.number[key] ELSE Defaults[key]
    <3>1. CASE IntFromConfig(key) > 0
      BY <3>1, <1>4
    <3>2. CASE ~(IntFromConfig(key) > 0)
      <4>1. key \in DOMAIN read.number => IntFromConfig(key) = read.number[key]
        BY <1>1 DEF Entries, IntFromConfig
      <4>2. ~(key \in DOMAIN read.number /\ read.number[key] > 0)
        BY <3>2, <4>1
      <4> QED BY <3>2, <4>2, <1>5
    <3> QED BY <3>1, <3>2
  <2> QED BY <2>1, <2>2 DEF NumbersInForce
<1> QED BY <1>1, <1>7, <1>8, <1>9
        DEF IInv, ChecksSoFar, Started, NothingFreedIsRead

(* The other steps of the process check what they use, one by one.         *)
LEMMA ProcessKeeps ==
    ASSUME IInv, Process \/ Crash
    PROVE  IInv'
<1>1. ASSUME NEW how \in {"clean", "failure"}, Ends(how), UNCHANGED reloads
      PROVE  IInv'
  BY <1>1, EndKeeps DEF IInv, TypeOK
<1>2. CASE CheckArguments
  <2>1. CASE Continues("file") /\ UNCHANGED <<read, config, settings, misread>>
    BY <1>2, <2>1
       DEF CheckArguments, Continues, unitVars, IInv, TypeOK, Running, Started,
           ConfigIsOfFile, ChecksSoFar, NumbersInForce, NothingFreedIsRead
  <2> QED BY <1>1, <1>2, <2>1 DEF CheckArguments
<1>3. CASE ParseConfFile
  <2>1. CASE /\ file # Missing /\ Continues("credentials") /\ read' = file
             /\ config' = [key \in Entries(file) |-> "live"]
             /\ UNCHANGED <<settings, misread>>
    BY <1>3, <2>1
       DEF ParseConfFile, Continues, unitVars, IInv, TypeOK, Running, Started,
           ConfigIsOfFile, ChecksSoFar, NumbersInForce, NothingFreedIsRead
  <2> QED BY <1>1, <1>3, <2>1 DEF ParseConfFile
<1>4. CASE SetupCredentials
  <2>1. CASE /\ Asserted \subseteq DOMAIN config /\ Continues("constants")
             /\ UNCHANGED <<read, config, settings, misread>>
    <3>1. Asserted \subseteq read.has
      <4>1. read \in File /\ DOMAIN config = Entries(read)
        BY <1>4 DEF SetupCredentials, IInv, ConfigIsOfFile
      <4>2. DOMAIN read.number \subseteq Number
        BY <4>1, FileAssumption
      <4>3. \A key \in Asserted : key \notin Number
        BY DEF Asserted, Number, Defaults
      <4> QED BY <2>1, <4>1, <4>2, <4>3 DEF Entries
    <3> QED
      BY <1>4, <2>1, <3>1
         DEF SetupCredentials, Continues, unitVars, IInv, TypeOK, Running,
             Started, ConfigIsOfFile, ChecksSoFar, NumbersInForce,
             NothingFreedIsRead
  <2> QED BY <1>1, <1>4, <2>1 DEF SetupCredentials
<1>5. CASE SetGlobalConstants
  BY <1>5, ConstantsKeep
<1>6. ASSUME NEW key \in {"SQLDB", "INTERFACE"}, pc \in Started
      PROVE  /\ key \in DOMAIN config => key \in read.has
             /\ Uses(key) => misread' = misread
  <2>1. read \in File /\ DOMAIN config = Entries(read)
    BY <1>6 DEF IInv, ConfigIsOfFile
  <2>2. DOMAIN read.number \subseteq Number /\ key \notin Number
    BY <2>1, FileAssumption DEF Number, Defaults
  <2>3. key \in DOMAIN config => config[key] # "freed"
    BY <1>6, <2>2 DEF IInv, ConfigIsOfFile
  <2> QED BY <2>1, <2>2, <2>3 DEF Entries, Uses, IInv, TypeOK
<1>7. CASE GetDevices
  BY <1>6, <1>7
     DEF GetDevices, Continues, unitVars, IInv, TypeOK, Running, Started,
         ConfigIsOfFile, ChecksSoFar, NumbersInForce, NothingFreedIsRead
<1>8. CASE SendRequests
  <2>1. CASE "INTERFACE" \in DOMAIN config
    BY <1>6, <1>8, <2>1, BoundsAssumption
       DEF SendRequests, IInv, TypeOK, Running, Started, ConfigIsOfFile,
           ChecksSoFar, NumbersInForce, NothingFreedIsRead
  <2> QED BY <1>1, <1>8, <2>1 DEF SendRequests
<1>9. CASE NextCycle
  BY <1>9
     DEF NextCycle, Continues, unitVars, IInv, TypeOK, Running, Started,
         ConfigIsOfFile, ChecksSoFar, NumbersInForce, NothingFreedIsRead
<1>10. CASE Crash
  BY <1>1, <1>10 DEF Crash
<1> QED BY <1>2, <1>3, <1>4, <1>5, <1>7, <1>8, <1>9, <1>10 DEF Process

LEMMA Inductive == IInv /\ [Next]_vars => IInv'
<1> SUFFICES ASSUME IInv, [Next]_vars PROVE IInv'
  OBVIOUS
<1>1. ASSUME NEW f \in File \cup {Missing}, Edit(f) PROVE IInv'
  BY <1>1 DEF Edit, IInv, TypeOK, ConfigIsOfFile, ChecksSoFar, NumbersInForce,
              NothingFreedIsRead
<1>2. CASE Process \/ Crash
  BY <1>2, ProcessKeeps
<1>3. CASE Reload
  <2>1. reloads' \in 0..MaxReloads
    BY <1>3, BoundsAssumption DEF Reload, IInv, TypeOK
  <2> QED BY <1>3, <2>1, EndKeeps DEF Reload
<1>4. CASE Restart \/ GiveUp
  BY <1>4 DEF Restart, GiveUp, unitVars, IInv, TypeOK, Running, Started,
              ConfigIsOfFile, ChecksSoFar, NumbersInForce, NothingFreedIsRead
<1>5. CASE UNCHANGED vars
  BY <1>5 DEF vars, IInv, TypeOK, ConfigIsOfFile, ChecksSoFar, NumbersInForce,
              NothingFreedIsRead
<1> QED BY <1>1, <1>2, <1>3, <1>4, <1>5 DEF Next

-----------------------------------------------------------------------------
(* The inductive invariant of start-up holds for ever.                     *)
THEOREM Invariance == Spec => []IInv
<1> QED BY InitEstablishes, Inductive, PTL DEF Spec

(* Whatever was missing in the file, a monitor that sends requests has all *)
(* five required parameters.                                               *)
THEOREM ServingHasAllRequired == Spec => []ServesWithAllRequired
<1>1. IInv => ServesWithAllRequired
  BY DEF IInv, ChecksSoFar, ServesWithAllRequired, Required, Started
<1> QED BY <1>1, Invariance, PTL

(* No freed value of the configuration is ever used.                       *)
THEOREM FreedIsNeverRead == Spec => []NothingFreedIsRead
<1>1. IInv => NothingFreedIsRead
  BY DEF IInv
<1> QED BY <1>1, Invariance, PTL

(* While a process runs, its numbers are exactly the positive ones of the  *)
(* version of the file that it read, and the defaults; no number of an     *)
(* earlier process, or of an edit that came later, is among them.          *)
THEOREM NumbersAreOfFile == Spec => []NumbersInForce
<1>1. IInv => NumbersInForce
  BY DEF IInv
<1> QED BY <1>1, Invariance, PTL
=============================================================================
