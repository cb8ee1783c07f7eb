---------------------------- MODULE Startup_proofs ----------------------------
(***************************************************************************)
(* What a program has when it serves, for any set of configuration keys:   *)
(* each value is that of the source of highest priority, its secrets were  *)
(* fetched, and its backends can do their work.                            *)
(***************************************************************************)
EXTENDS Startup, TLAPS

-------------------------------------------------------------------------------
(* The inductive invariant.  First the loader.                             *)

Rank == [flag |-> 1, env |-> 2, dotenv |-> 3, yaml |-> 4, default |-> 5]

\* The sources that have been read at each stage of Load.
Read == [yaml |-> {}, dotenv |-> {"yaml"}, env |-> {"yaml", "dotenv"},
         flag |-> {"yaml", "dotenv", "env"}]

Loading == DOMAIN Read

\* The value of a key is that of the source with the highest priority so far.
Decided(k) ==
  IF config[k] = Absent
    THEN \A s \in Sources : given[s][k] = "none"
    ELSE /\ config[k].source \in Sources
         /\ given[config[k].source][k] # "none"
         /\ \A s \in Sources :
              given[s][k] # "none" => Rank[config[k].source] <= Rank[s]

\* A Lambda fetches whatever it is referred to.
Resolved(k) ==
  config[k] = Absent \/ config[k].kind = "literal" \/ config[k].fetched

LoadInv ==
  /\ caller \in DOMAIN Callers
  /\ stage \in Loading \union {"loaded", "failed", "structured"}
  /\ given \in [Sources -> [Keys -> Kinds \union {"none"}]]
  /\ errs \subseteq Keys
  /\ stage # "failed" => ~broken /\ errs = {}
  /\ stage \in Loading =>
       \A s \in Sources \ Read[stage], k \in Keys : given[s][k] = "none"
  /\ stage \in Loading \union {"loaded"} => \A k \in Keys : Decided(k)
  /\ caller = "lambda" => \A k \in Keys : Resolved(k)

\* The program and its values.
ProgramInv ==
  /\ boot \in {"load", "validate", "aws", "build", "serving", "failed"}
  /\ boot = "load" <=> program = None
  /\ boot = "load" <=> stage # "structured"
  /\ boot # "load" => program \in Programs[caller]
  /\ caller = "lambda" => aws
  /\ boot # "load" /\ caller = "lambda" => \A k \in Keys : value[k] # "reference"

SectionNames == {"launcher", "metadata", "signing", "storage", "control", "node"}

\* The section holds what its validation let through.
Checked(section) ==
  \E s \in Choices(section) :
    Valid(section, s) /\ setting[section] = Normalised(section, s)

ValidationInv ==
  /\ setting = [s \in SectionNames |-> setting[s]]
  /\ step \in Nat
  /\ boot = "load" => step = 0
  /\ boot = "validate" =>
       /\ step <= Len(Sections[program])
       /\ \A i \in 1 .. step : Checked(Sections[program][i])
  /\ boot \in {"aws", "build", "serving"} =>
       /\ \A i \in 1 .. Len(Sections[program]) : Checked(Sections[program][i])
       /\ CombinationValid

\* What the creation of a part has made sure of.
Built(part) ==
  /\ part \in {"launcher", "metadata", "signing", "storage", "control", "documents"} =>
       Creatable(part)
  /\ part = "node" => joined = "configured"
  /\ part = "version" => Compatible(remote)
  /\ part = "api" => value[Resource] \notin {"", "reference"}

BuildInv ==
  /\ boot = "aws" => step = 0 /\ Dev
  /\ boot = "build" => step < Len(Plan[program])
  /\ boot = "serving" => step = Len(Plan[program])
  /\ boot \in {"build", "serving"} =>
       /\ Dev /\ NeedsAWS => aws
       /\ \A i \in 1 .. step : Built(Plan[program][i])

StartInv == LoadInv /\ ProgramInv /\ ValidationInv /\ BuildInv

-------------------------------------------------------------------------------
(* The loader.                                                             *)

LEMMA InitStart == StartupInit => StartInv
<1> SUFFICES ASSUME StartupInit PROVE StartInv
  OBVIOUS
<1> USE DEF StartupInit, Init
<1>1. LoadInv
  BY DEF LoadInv, Loading, Read, Decided, Resolved, Sources, Kinds, Absent
<1>2. ProgramInv
  BY DEF ProgramInv, None
<1>3. ValidationInv
  BY DEF ValidationInv, NoSettings, SectionNames
<1>4. BuildInv
  BY DEF BuildInv
<1>5. QED BY <1>1, <1>2, <1>3, <1>4 DEF StartInv

\* A source that is merged over what has been read decides the keys it gives.
LEMMA MergeDecides ==
  ASSUME LoadInv, stage \in {"yaml", "dotenv", "env"},
         NEW values \in [Keys -> Kinds \union {"none"}],
         Given(stage, values), NEW k \in Keys, Decided(k),
         IF values[k] = "none" THEN config'[k] = config[k]
         ELSE config'[k] # Absent /\ config'[k].source = stage
  PROVE  Decided(k)'
<1>1. /\ \A s \in Sources : given'[s][k] = IF s = stage THEN values[k] ELSE given[s][k]
      /\ given[stage][k] = "none" /\ stage \in Sources
  BY DEF LoadInv, Given, Sources, Loading, Read
<1>2. CASE values[k] = "none"
  BY <1>1, <1>2 DEF Decided
<1>3. CASE values[k] # "none"
  <2>1. config'[k] # Absent /\ config'[k].source = stage /\ given'[stage][k] # "none"
    BY <1>1, <1>3
  <2>2. ASSUME NEW s \in Sources, given'[s][k] # "none"
        PROVE  Rank[stage] <= Rank[s]
    <3>1. s = stage \/ given[s][k] # "none"
      BY <1>1, <2>2
    <3>2. s = stage \/ s \in Read[stage]
      BY <3>1 DEF LoadInv, Loading, Read
    <3>3. QED BY <3>2 DEF Rank, Read, Sources
  <2>3. QED BY <1>1, <2>1, <2>2 DEF Decided
<1>4. QED BY <1>2, <1>3

LEMMA FileLoads == LoadInv /\ LoadFile => LoadInv'
<1> SUFFICES ASSUME LoadInv, LoadFile PROVE LoadInv'
  OBVIOUS
<1>1. PICK values \in [Keys -> IF Asks("file") THEN Kinds \union {"none"} ELSE {"none"}] :
        /\ config' = Merge(config,
              [k \in Keys |-> IF values[k] = "none" THEN Absent
                              ELSE [source |-> "yaml", kind |-> values[k],
                                    fetched |-> FALSE]])
        /\ Given("yaml", values)
  BY DEF LoadFile
<1>2. /\ stage = "yaml" /\ stage' = "dotenv"
      /\ UNCHANGED <<caller, errs, broken>>
  BY DEF LoadFile
<1>3. values \in [Keys -> Kinds \union {"none"}]
  OBVIOUS
<1>4. ASSUME NEW k \in Keys
      PROVE  IF values[k] = "none" THEN config'[k] = config[k]
             ELSE config'[k] # Absent /\ config'[k].source = "yaml"
  BY <1>1 DEF Merge, Absent
<1>5. \A k \in Keys : Decided(k)'
  BY <1>1, <1>2, <1>3, <1>4, MergeDecides DEF LoadInv, Loading, Read
<1>6. caller = "lambda" => \A k \in Keys : Resolved(k)'
  BY <1>1, <1>4 DEF LoadInv, Resolved, Asks, Callers
<1>7. given' \in [Sources -> [Keys -> Kinds \union {"none"}]]
        /\ \A s \in Sources \ {"yaml"} : given'[s] = given[s]
  BY <1>1, <1>3 DEF LoadInv, Given, Sources
<1>8. QED BY <1>2, <1>5, <1>6, <1>7 DEF LoadInv, Loading, Read

LEMMA EnvironmentLoads ==
  ASSUME LoadInv, NEW source \in {"dotenv", "env"}, NEW after,
         source = "dotenv" => after = "env",
         source = "env" => after \in {"flag", "loaded"},
         LoadEnvironment(source, after)
  PROVE  LoadInv'
<1>0. PICK values \in [Keys -> Kinds \union {"none"}] :
        \E failing \in SUBSET {k \in Keys : Fetcher(values[k])} :
          /\ config' = Merge(config, Cleaned(source, values, failing))
          /\ errs' = errs \union failing
          /\ broken' = (broken \/ failing # {})
          /\ stage' = IF Err(errs \union failing, config) # {} THEN "failed" ELSE after
          /\ Given(source, values)
  BY DEF LoadEnvironment
<1>1. PICK failing \in SUBSET {k \in Keys : Fetcher(values[k])} :
        /\ config' = Merge(config, Cleaned(source, values, failing))
        /\ errs' = errs \union failing
        /\ broken' = (broken \/ failing # {})
        /\ stage' = IF Err(errs \union failing, config) # {} THEN "failed" ELSE after
        /\ Given(source, values)
  BY <1>0
<1>2. stage = source /\ caller' = caller /\ stage \in {"yaml", "dotenv", "env"}
  BY DEF LoadEnvironment
<1>3. /\ given' \in [Sources -> [Keys -> Kinds \union {"none"}]]
      /\ \A s \in Sources \ {source} : given'[s] = given[s]
      /\ errs' \subseteq Keys
  BY <1>1 DEF LoadInv, Given, Sources
<1>4. stage' \in {"failed", after}
  BY <1>1
<1>5. CASE stage' = "failed"
  <2>1. ASSUME NEW k \in Keys, caller = "lambda" PROVE Resolved(k)'
    BY <1>1, <2>1 DEF LoadInv, Resolved, Merge, Cleaned, Fetcher, Asks, Callers, Kinds
  <2>2. QED BY <1>2, <1>3, <1>5, <2>1 DEF LoadInv, Loading, Read
<1>6. CASE stage' # "failed"
  <2>1. stage' = after /\ failing = {} /\ errs = {} /\ errs' = {} /\ ~broken /\ ~broken'
    BY <1>1, <1>2, <1>6 DEF Err, LoadInv
  <2>2. ASSUME NEW k \in Keys
        PROVE  IF values[k] = "none" THEN config'[k] = config[k]
               ELSE config'[k] # Absent /\ config'[k].source = source
    BY <1>1, <2>1 DEF Merge, Cleaned, Absent
  <2>3. \A k \in Keys : Decided(k)'
    BY <1>1, <1>2, <2>2, MergeDecides DEF LoadInv, Loading, Read
  <2>4. ASSUME NEW k \in Keys, caller = "lambda" PROVE Resolved(k)'
    BY <1>1, <2>4 DEF LoadInv, Resolved, Merge, Cleaned, Fetcher, Asks, Callers, Kinds
  <2>5. QED BY <1>2, <1>3, <2>1, <2>3, <2>4 DEF LoadInv, Loading, Read
<1>7. QED BY <1>5, <1>6

\* The default of a flag only decides a key that has no other value.
LEMMA FlagsLoad == LoadInv /\ LoadFlags => LoadInv'
<1> SUFFICES ASSUME LoadInv, LoadFlags PROVE LoadInv'
  OBVIOUS
<1>0. PICK flagged \in SUBSET Keys, values \in [Keys -> Kinds \union {"none"}] :
        /\ \A k \in Keys \ flagged : values[k] = "none"
        /\ \E failing \in SUBSET {k \in Keys : Fetcher(values[k])} :
          LET unset == {k \in flagged : values[k] = "none"}
              defaults == unset \ KeptDefaults(config, unset)
          IN /\ config' = Merge(Merge(config, Cleaned("flag", values, failing)),
                  [k \in Keys |-> IF k \in defaults
                                    THEN [source |-> "default", kind |-> "literal",
                                          fetched |-> FALSE]
                                    ELSE Absent])
             /\ errs' = errs \union failing
             /\ broken' = (broken \/ failing # {})
             /\ stage' = IF Err(errs \union failing, config) # {} THEN "failed"
                         ELSE "loaded"
             /\ given' = [given EXCEPT !["flag"] = values,
                                       !["default"] = [k \in Keys |->
                                  IF k \in flagged THEN "literal" ELSE "none"]]
  BY DEF LoadFlags
<1>1. PICK failing \in SUBSET {k \in Keys : Fetcher(values[k])} :
        LET unset == {k \in flagged : values[k] = "none"}
            defaults == unset \ KeptDefaults(config, unset)
        IN /\ config' = Merge(Merge(config, Cleaned("flag", values, failing)),
                [k \in Keys |-> IF k \in defaults
                                  THEN [source |-> "default", kind |-> "literal",
                                        fetched |-> FALSE]
                                  ELSE Absent])
           /\ errs' = errs \union failing
           /\ broken' = (broken \/ failing # {})
           /\ stage' = IF Err(errs \union failing, config) # {} THEN "failed"
                       ELSE "loaded"
           /\ given' = [given EXCEPT !["flag"] = values,
                                     !["default"] = [k \in Keys |->
                                  IF k \in flagged THEN "literal" ELSE "none"]]
  BY <1>0
<1>2. stage = "flag" /\ caller' = caller
  BY DEF LoadFlags
<1>3. /\ given' \in [Sources -> [Keys -> Kinds \union {"none"}]]
      /\ \A k \in Keys :
           /\ given'["flag"][k] = values[k]
           /\ given'["default"][k] = IF k \in flagged THEN "literal" ELSE "none"
      /\ \A s \in Sources \ {"flag", "default"} : given'[s] = given[s]
      /\ errs' \subseteq Keys
  BY <1>1 DEF LoadInv, Sources, Kinds
<1>4. ASSUME NEW k \in Keys, caller = "lambda" PROVE Resolved(k)'
  BY <1>1, <1>4 DEF LoadInv, Resolved, Merge, Cleaned, Fetcher, Asks, Callers, Kinds
<1>5. CASE stage' = "failed"
  BY <1>2, <1>3, <1>4, <1>5 DEF LoadInv, Loading, Read
<1>6. CASE stage' # "failed"
  <2>1. stage' = "loaded" /\ failing = {} /\ errs' = {} /\ ~broken'
    BY <1>1, <1>2, <1>6 DEF Err, LoadInv
  <2>2. ASSUME NEW k \in Keys PROVE Decided(k)'
    <3>1. Decided(k) /\ given["flag"][k] = "none" /\ given["default"][k] = "none"
      BY <1>2 DEF LoadInv, Loading, Read, Sources
    <3>2. CASE values[k] # "none"
      <4>1. config'[k] # Absent /\ config'[k].source = "flag"
        BY <1>1, <2>1, <3>2 DEF Merge, Cleaned, Absent, KeptDefaults
      <4>2. QED BY <1>3, <3>2, <4>1 DEF Decided, Rank, Sources
    <3>3. CASE values[k] = "none" /\ config[k] # Absent
      <4>1. config'[k] = config[k]
        BY <1>1, <2>1, <3>3 DEF Merge, Cleaned, Absent, KeptDefaults
      <4>2. config[k].source \in Sources \ {"flag", "default"}
        BY <3>1, <3>3 DEF Decided
      <4>3. QED BY <1>3, <3>1, <3>3, <4>1, <4>2 DEF Decided, Rank, Sources
    <3>4. CASE k \in flagged /\ values[k] = "none" /\ config[k] = Absent
      <4>1. config'[k] # Absent /\ config'[k].source = "default"
        BY <1>1, <2>1, <3>4 DEF Merge, Cleaned, Absent, KeptDefaults
      <4>2. QED BY <1>3, <3>1, <3>4, <4>1 DEF Decided, Rank, Sources
    <3>5. CASE k \notin flagged /\ values[k] = "none" /\ config[k] = Absent
      <4>1. config'[k] = Absent
        BY <1>1, <2>1, <3>5 DEF Merge, Cleaned, KeptDefaults
      <4>2. \A s \in Sources : given'[s][k] = "none"
        BY <1>3, <3>1, <3>5 DEF Decided, Sources
      <4>3. QED BY <4>1, <4>2 DEF Decided
    <3>6. QED BY <1>0, <3>2, <3>3, <3>4, <3>5
  <2>3. QED BY <1>2, <1>3, <1>4, <2>1, <2>2 DEF LoadInv, Loading, Read
<1>7. QED BY <1>5, <1>6

LEMMA LoadNext == LoadInv /\ [Next]_vars => LoadInv'
<1> SUFFICES ASSUME LoadInv, [Next]_vars PROVE LoadInv'
  OBVIOUS
<1>1. CASE LoadFile
  BY <1>1, FileLoads
<1>2. CASE Malformed
  BY <1>2 DEF Malformed, LoadInv, Loading, Read, Resolved
<1>3. CASE LoadDotenv
  BY <1>3, EnvironmentLoads DEF LoadDotenv
<1>4. CASE LoadEnv
  BY <1>4, EnvironmentLoads DEF LoadEnv
<1>5. CASE LoadFlags
  BY <1>5, FlagsLoad
<1>6. CASE UNCHANGED vars
  BY <1>6 DEF vars, LoadInv, Decided, Resolved
<1>7. QED BY <1>1, <1>2, <1>3, <1>4, <1>5, <1>6 DEF Next

LEMMA StructureLoads == LoadInv /\ Structure => LoadInv'
<1> SUFFICES ASSUME LoadInv, Structure PROVE LoadInv'
  OBVIOUS
<1>1. /\ config' = [k \in Keys |-> Absent]
      /\ given' = [s \in Sources |-> [k \in Keys |-> "none"]]
      /\ stage = "loaded" /\ stage' = "structured" /\ UNCHANGED <<caller, errs, broken>>
  BY DEF Structure
<1>2. given' \in [Sources -> [Keys -> Kinds \union {"none"}]]
  BY <1>1
<1>3. \A k \in Keys : Resolved(k)'
  BY <1>1 DEF Resolved
<1>4. ~broken' /\ errs' = {} /\ caller' \in DOMAIN Callers
  BY <1>1 DEF LoadInv
<1>5. QED BY <1>1, <1>2, <1>3, <1>4 DEF LoadInv, Loading, Read

-------------------------------------------------------------------------------
(* The program.                                                            *)

\* After Load only the programs' own steps follow, which leave the loader alone.
OwnStep ==
  \/ Validate \/ Validated \/ LoadAWSConfig
  \/ \E part \in {"launcher", "metadata", "signing", "storage", "control",
                  "documents"} : Create(part)
  \/ Connect \/ VerifyApiVersion
  \/ \E part \in {"api", "frequency"} : Ask(part)

LEMMA OwnStepKeeps ==
  ASSUME OwnStep
  PROVE  UNCHANGED <<vars, program, value>>
BY DEF OwnStep, Validate, Validated, LoadAWSConfig, Create, Connect, VerifyApiVersion, Ask

LEMMA LoadStartNext == StartInv /\ [StartupNext]_startupVars => LoadInv'
<1> SUFFICES ASSUME StartInv, [StartupNext]_startupVars PROVE LoadInv'
  OBVIOUS
<1>1. CASE Loads
  BY <1>1, LoadNext DEF Loads, StartInv
<1>2. CASE Structure
  BY <1>2, StructureLoads DEF StartInv
<1>3. CASE OwnStep \/ UNCHANGED startupVars
  BY <1>3, OwnStepKeeps, LoadNext DEF startupVars, StartInv
<1>4. QED BY <1>1, <1>2, <1>3 DEF StartupNext, OwnStep

\* A reference in a Lambda's configuration was replaced.
LEMMA ValuesResolved ==
  ASSUME LoadInv, Structure, caller = "lambda"
  PROVE  \A k \in Keys : value'[k] # "reference"
BY DEF LoadInv, Structure, Resolved, Texts

LEMMA OwnStepBoots ==
  ASSUME OwnStep, ProgramInv
  PROVE  boot # "load" /\ boot' \in {"validate", "aws", "build", "serving", "failed"}
<1> USE DEF ProgramInv
<1>1. CASE Validate
  BY <1>1 DEF Validate, Fail
<1>2. CASE Validated
  BY <1>2 DEF Validated
<1>3. CASE LoadAWSConfig
  BY <1>3 DEF LoadAWSConfig, Fail
<1>4. ASSUME NEW part, Create(part) \/ Ask(part)
      PROVE  boot # "load" /\ boot' \in {"validate", "aws", "build", "serving", "failed"}
  BY <1>4 DEF Create, Ask, Doing, Advance, Fail
<1>5. CASE Connect
  BY <1>5 DEF Connect, Doing, Advance, Fail
<1>6. CASE VerifyApiVersion
  BY <1>6 DEF VerifyApiVersion, Doing, Advance, Fail
<1>7. QED BY <1>1, <1>2, <1>3, <1>4, <1>5, <1>6 DEF OwnStep

\* Only the development gateway decides whether it needs AWS.
LEMMA OwnStepAWS ==
  ASSUME OwnStep, StartInv, caller = "lambda"
  PROVE  aws' = aws
<1>1. boot # "aws"
  BY DEF StartInv, BuildInv, ProgramInv, Programs, Dev
<1>2. QED
  BY <1>1 DEF OwnStep, Validate, Validated, LoadAWSConfig, Create, Connect,
     VerifyApiVersion, Ask

LEMMA ProgramNext == StartInv /\ [StartupNext]_startupVars => ProgramInv'
<1> SUFFICES ASSUME StartInv, [StartupNext]_startupVars PROVE ProgramInv'
  OBVIOUS
<1>0. LoadInv /\ ProgramInv
  BY DEF StartInv
<1>1. CASE Loads
  <2>1. stage' \in {"dotenv", "env", "flag", "loaded", "failed"} /\ caller' = caller
    BY <1>1 DEF Loads, Next, LoadFile, Malformed, LoadDotenv, LoadEnv,
       LoadEnvironment, LoadFlags, Asks
  <2>2. boot = "load" /\ UNCHANGED bootVars
    BY <1>1 DEF Loads
  <2>3. (caller = "lambda" => aws)'
    BY <1>0, <2>1, <2>2 DEF bootVars, ProgramInv
  <2>4. program' = program /\ boot' = boot /\ value' = value
    BY <2>2 DEF bootVars
  <2>5. QED BY <1>0, <2>1, <2>2, <2>3, <2>4 DEF ProgramInv
<1>2. CASE Structure
  <2>1. /\ caller' = caller /\ boot' \in {"validate", "failed"}
        /\ program' \in Programs[caller] /\ stage' = "structured"
    BY <1>2 DEF Structure
  <2>2. program' # None
    BY <1>0, <2>1 DEF Programs, None, LoadInv, Callers
  <2>3. caller = "lambda" => \A k \in Keys : value'[k] # "reference"
    BY <1>0, <1>2, ValuesResolved
  <2>4. (caller = "lambda" => aws)'
    BY <1>0, <1>2 DEF Structure, ProgramInv
  <2>5. QED BY <2>1, <2>2, <2>3, <2>4 DEF ProgramInv
<1>3. CASE OwnStep
  <2>1. /\ boot # "load" /\ boot' \in {"validate", "aws", "build", "serving", "failed"}
        /\ UNCHANGED <<vars, program, value>>
    BY <1>0, <1>3, OwnStepKeeps, OwnStepBoots
  <2>2. caller' = caller /\ stage' = stage /\ program' = program /\ value' = value
    BY <2>1 DEF vars
  <2>3. (caller = "lambda" => aws)'
    BY <1>0, <1>3, <2>2, OwnStepAWS DEF ProgramInv
  <2>4. QED BY <1>0, <2>1, <2>2, <2>3 DEF ProgramInv
<1>4. CASE UNCHANGED startupVars
  BY <1>0, <1>4 DEF startupVars, bootVars, vars, ProgramInv
<1>5. QED BY <1>1, <1>2, <1>3, <1>4 DEF StartupNext, OwnStep

-------------------------------------------------------------------------------
(* Validation.                                                             *)

Started == {"client", "dev", "initializer", "verifier", "finalizer", "generator"}

LEMMA ProgramStarted ==
  ASSUME LoadInv, ProgramInv, boot # "load"
  PROVE  program \in Started
BY DEF LoadInv, ProgramInv, Programs, Callers, Started

\* A program validates each section once.
LEMMA SectionsDistinct ==
  ASSUME NEW p \in Started
  PROVE  /\ Len(Sections[p]) \in Nat
         /\ \A i \in 1 .. Len(Sections[p]) :
              /\ Sections[p][i] \in SectionNames
              /\ \A j \in 1 .. Len(Sections[p]) :
                   i # j => Sections[p][i] # Sections[p][j]
<1> USE DEF Sections, SectionNames
<1>1. CASE p = "client"
  BY <1>1
<1>2. CASE p = "dev"
  BY <1>2 DEF DevSections
<1>3. CASE p = "initializer"
  BY <1>3 DEF InitializerSections
<1>4. CASE p = "verifier"
  BY <1>4 DEF VerifierSections
<1>5. CASE p = "finalizer"
  BY <1>5 DEF FinalizerSections
<1>6. CASE p = "generator"
  BY <1>6 DEF GeneratorSections
<1>7. QED BY <1>1, <1>2, <1>3, <1>4, <1>5, <1>6 DEF Started

\* What a section may hold depends on the program and its two values.
LEMMA ChoicesKept ==
  ASSUME NEW section, program' = program
  PROVE  Choices(section)' = Choices(section)
BY DEF Choices, Dev

LEMMA ValidKept ==
  ASSUME NEW section, NEW s, program' = program, value' = value
  PROVE  Valid(section, s) => Valid(section, s)'
BY DEF Valid, Dev, DevValid, DevLauncherValid, DevMetadataValid, DevSigningValid,
   DevStorageValid, DevControlValid, OneMethod, LambdaValid, LauncherValid, BucketValid,
   SigningValid, TableValid, ControlValid, NodeValid

LEMMA CheckedKept ==
  ASSUME NEW section, Checked(section), UNCHANGED <<program, value>>,
         setting'[section] = setting[section]
  PROVE  Checked(section)'
BY ChoicesKept, ValidKept DEF Checked, Normalised

LEMMA ValidateNext == LoadInv /\ ProgramInv /\ ValidationInv /\ Validate => ValidationInv'
<1> SUFFICES ASSUME LoadInv, ProgramInv, ValidationInv, Validate PROVE ValidationInv'
  OBVIOUS
<1>1. /\ boot = "validate" /\ step < Len(Sections[program]) /\ step \in Nat
      /\ UNCHANGED <<program, value>>
  BY DEF Validate, ValidationInv
<1>2. PICK section : section = Sections[program][step + 1]
  OBVIOUS
<1>3. PICK s \in Choices(section) :
        IF Valid(section, s)
          THEN /\ setting' = [setting EXCEPT ![section] = Normalised(section, s)]
               /\ step' = step + 1 /\ boot' = boot
          ELSE Fail /\ UNCHANGED <<setting, step>>
  BY <1>2 DEF Validate
<1>4. program \in Started
  BY <1>1, ProgramStarted
<1>5. section \in SectionNames
  BY <1>1, <1>2, <1>4, SectionsDistinct
<1>6. CASE ~Valid(section, s)
  BY <1>1, <1>3, <1>6 DEF Fail, ValidationInv
<1>7. CASE Valid(section, s)
  <2>1. /\ setting' = [setting EXCEPT ![section] = Normalised(section, s)]
        /\ step' = step + 1 /\ boot' = boot
    BY <1>3, <1>7
  <2>2. /\ setting' = [x \in SectionNames |-> setting'[x]]
        /\ setting'[section] = Normalised(section, s)
        /\ \A x \in SectionNames \ {section} : setting'[x] = setting[x]
    BY <2>1, <1>5 DEF ValidationInv
  <2>3. Checked(section)'
    <3>1. s \in Choices(section)'
      BY <1>1, <1>3, ChoicesKept
    <3>2. Valid(section, s)'
      BY <1>1, <1>7, ValidKept
    <3>3. QED BY <2>2, <3>1, <3>2 DEF Checked, Normalised
  <2>4. ASSUME NEW i \in 1 .. step PROVE Checked(Sections[program][i])'
    <3>1. Checked(Sections[program][i])
      BY <1>1 DEF ValidationInv
    <3>2. Sections[program][i] \in SectionNames \ {section}
      BY <1>1, <1>2, <1>4, SectionsDistinct
    <3>3. QED BY <1>1, <2>2, <3>1, <3>2, CheckedKept
  <2>5. ASSUME NEW i \in 1 .. step + 1 PROVE Checked(Sections[program][i])'
    <3>1. CASE i = step + 1
      BY <1>1, <1>2, <2>3, <3>1
    <3>2. CASE i # step + 1
      BY <1>1, <2>4, <3>2
    <3>3. QED BY <3>1, <3>2
  <2>6. Len(Sections[program]) \in Nat
    BY <1>4, SectionsDistinct
  <2>7. QED BY <1>1, <2>1, <2>2, <2>5, <2>6 DEF ValidationInv
<1>8. QED BY <1>6, <1>7

LEMMA ValidatedNext ==
  ASSUME LoadInv, ProgramInv, ValidationInv, Validated
  PROVE  ValidationInv'
<1>1. /\ boot = "validate" /\ step = Len(Sections[program]) /\ step' = 0
      /\ UNCHANGED <<program, value, setting>>
      /\ boot' \in {"aws", "build", "failed"}
      /\ boot' # "failed" => CombinationValid
  BY DEF Validated
<1>2. \A i \in 1 .. Len(Sections[program]) : Checked(Sections[program][i])'
  BY <1>1, CheckedKept DEF ValidationInv
<1>3. boot' # "failed" => CombinationValid'
  BY <1>1 DEF CombinationValid, Dev
<1>4. QED BY <1>1, <1>2, <1>3 DEF ValidationInv

\* The steps after the validation leave the settings alone.
LEMMA CreationValidated ==
  ASSUME ValidationInv, boot \in {"aws", "build"}, step' \in Nat,
         boot' \in {"aws", "build", "serving", "failed"},
         UNCHANGED <<program, value, setting>>
  PROVE  ValidationInv'
<1>1. \A i \in 1 .. Len(Sections[program]) : Checked(Sections[program][i])'
  BY CheckedKept DEF ValidationInv
<1>2. CombinationValid'
  BY DEF ValidationInv, CombinationValid, Dev
<1>3. QED BY <1>1, <1>2 DEF ValidationInv

LEMMA OwnStepCreates ==
  ASSUME OwnStep, StartInv, ~Validate, ~Validated
  PROVE  /\ boot \in {"aws", "build"} /\ step' \in Nat
         /\ boot' \in {"aws", "build", "serving", "failed"}
         /\ UNCHANGED <<program, value, setting>>
<1>1. step \in Nat
  BY DEF StartInv, ValidationInv
<1>2. CASE LoadAWSConfig
  BY <1>1, <1>2 DEF LoadAWSConfig, Fail
<1>3. ASSUME NEW part, Create(part) \/ Ask(part)
      PROVE  /\ boot \in {"aws", "build"} /\ step' \in Nat
             /\ boot' \in {"aws", "build", "serving", "failed"}
             /\ UNCHANGED <<program, value, setting>>
  <2>1. boot = "build" /\ UNCHANGED <<program, value, setting>>
    BY <1>3 DEF Create, Ask, Doing
  <2>2. Advance \/ (Fail /\ step' = step)
    BY <1>3 DEF Create, Ask
  <2>3. QED BY <1>1, <2>1, <2>2 DEF Advance, Fail
<1>4. CASE Connect
  BY <1>1, <1>4 DEF Connect, Doing, Advance, Fail
<1>5. CASE VerifyApiVersion
  <2>1. step' \in {step, step + 1} /\ boot = "build"
        /\ boot' \in {"serving", "build", "failed"}
    BY <1>5 DEF VerifyApiVersion, Doing, Advance, Fail
  <2>2. UNCHANGED <<program, value, setting>>
    BY <1>5 DEF VerifyApiVersion
  <2>3. QED BY <1>1, <2>1, <2>2
<1>6. QED BY <1>2, <1>3, <1>4, <1>5 DEF OwnStep

LEMMA ValidationNext == StartInv /\ [StartupNext]_startupVars => ValidationInv'
<1> SUFFICES ASSUME StartInv, [StartupNext]_startupVars PROVE ValidationInv'
  OBVIOUS
<1>0. LoadInv /\ ProgramInv /\ ValidationInv
  BY DEF StartInv
<1>1. CASE Loads
  BY <1>0, <1>1 DEF Loads, bootVars, ValidationInv
<1>2. CASE Structure
  <2>1. /\ boot' \in {"validate", "failed"} /\ step = 0
        /\ UNCHANGED <<setting, step>> /\ program' \in Programs[caller]
    BY <1>0, <1>2 DEF Structure, ValidationInv
  <2>2. program' \in Started
    BY <1>0, <2>1 DEF LoadInv, Programs, Callers, Started
  <2>3. Len(Sections[program']) \in Nat
    BY <2>2, SectionsDistinct
  <2>4. QED BY <1>0, <2>1, <2>3 DEF ValidationInv
<1>3. CASE Validate
  BY <1>0, <1>3, ValidateNext
<1>4. CASE Validated
  BY <1>0, <1>4, ValidatedNext
<1>5. CASE OwnStep /\ ~Validate /\ ~Validated
  BY <1>0, <1>5, OwnStepCreates, CreationValidated
<1>6. CASE UNCHANGED startupVars
  <2>1. UNCHANGED <<program, value, setting, step, boot>>
    BY <1>6 DEF startupVars, bootVars
  <2>2. \A section : Checked(section) => Checked(section)'
    BY <2>1, CheckedKept
  <2>3. CombinationValid => CombinationValid'
    BY <2>1 DEF CombinationValid, Dev
  <2>4. QED BY <1>0, <2>1, <2>2, <2>3 DEF ValidationInv
<1>7. QED BY <1>1, <1>2, <1>3, <1>4, <1>5, <1>6 DEF StartupNext, OwnStep

-------------------------------------------------------------------------------
(* Backends.                                                               *)

LEMMA PlanStarts ==
  ASSUME NEW p \in Started
  PROVE  Len(Plan[p]) \in Nat /\ Len(Plan[p]) > 0
<1> USE DEF Plan
<1>1. CASE p = "client"
  BY <1>1 DEF ClientPlan
<1>2. CASE p = "dev"
  BY <1>2 DEF DevPlan
<1>3. CASE p = "initializer"
  BY <1>3 DEF InitializerPlan
<1>4. CASE p = "verifier"
  BY <1>4 DEF VerifierPlan
<1>5. CASE p = "finalizer"
  BY <1>5 DEF FinalizerPlan
<1>6. CASE p = "generator"
  BY <1>6 DEF GeneratorPlan
<1>7. QED BY <1>1, <1>2, <1>3, <1>4, <1>5, <1>6 DEF Started

LEMMA CreatableKept ==
  ASSUME NEW part, UNCHANGED <<setting, aws>>
  PROVE  Creatable(part) => Creatable(part)'
BY DEF Creatable, LauncherCreatable, SigningCreatable, StorageCreatable,
   MetadataCreatable, DocumentsWritable, ControlCreatable, HostedCreatable,
   HeadscaleCreatable

\* What was made sure of stays so while the next part is created.
LEMMA BuiltKept ==
  ASSUME NEW part, UNCHANGED <<setting, aws, value>>,
         joined' \in {joined, "configured"}, remote' = remote \/ Compatible(remote')
  PROVE  Built(part) => Built(part)'
<1>1. Compatible(remote) => Compatible(remote')
  OBVIOUS
<1>2. Creatable(part) => Creatable(part)'
  BY CreatableKept
<1>3. (joined = "configured") => (joined' = "configured")
  OBVIOUS
<1>4. QED BY <1>1, <1>2, <1>3 DEF Built, Compatible

\* A part that is created brings the program one step on.
LEMMA PartAdvances ==
  ASSUME StartInv, boot = "build", Advance, UNCHANGED <<program, setting, aws, value>>,
         joined' \in {joined, "configured"}, remote' = remote \/ Compatible(remote'),
         NEW part, Plan[program][step + 1] = part, Built(part)'
  PROVE  BuildInv'
<1>0. /\ step \in Nat /\ step < Len(Plan[program]) /\ program \in Started
      /\ Dev /\ NeedsAWS => aws
  BY ProgramStarted DEF StartInv, ValidationInv, BuildInv
<1>1. step' = step + 1 /\ boot' = IF step' = Len(Plan[program]) THEN "serving" ELSE boot
  BY DEF Advance
<1>2. Len(Plan[program]) \in Nat
  BY <1>0, PlanStarts
<1>3. (Dev /\ NeedsAWS => aws)'
  BY <1>0 DEF Dev, NeedsAWS
<1>4. ASSUME NEW i \in 1 .. step + 1 PROVE Built(Plan[program][i])'
  <2>1. CASE i = step + 1
    <3>1. Plan[program'][i] = part
      BY <2>1
    <3>2. QED BY <3>1
  <2>2. CASE i # step + 1
    <3>1. Built(Plan[program][i])
      BY <1>0, <2>2 DEF StartInv, BuildInv
    <3>2. QED BY <3>1, BuiltKept
  <2>3. QED BY <2>1, <2>2
<1>5. QED BY <1>0, <1>1, <1>2, <1>3, <1>4 DEF BuildInv

LEMMA FailBuilds == boot' \in {"failed", "validate"} => BuildInv'
BY DEF BuildInv

LEMMA BuildNext == StartInv /\ [StartupNext]_startupVars => BuildInv'
<1> SUFFICES ASSUME StartInv, [StartupNext]_startupVars PROVE BuildInv'
  OBVIOUS
<1>1. CASE Loads
  BY <1>1 DEF Loads, bootVars, BuildInv
<1>2. CASE Structure
  BY <1>2, FailBuilds DEF Structure
<1>3. CASE Validate
  BY <1>3, FailBuilds DEF Validate, Fail
<1>4. CASE Validated
  <2>1. /\ step' = 0 /\ UNCHANGED <<program, setting, aws>>
        /\ boot' \in {"failed", IF Dev THEN "aws" ELSE "build"}
    BY <1>4 DEF Validated
  <2>2. Dev' = Dev
    BY <2>1 DEF Dev
  <2>3. program \in Started
    BY <1>4, ProgramStarted DEF StartInv, Validated
  <2>4. QED BY <2>1, <2>2, <2>3, PlanStarts DEF BuildInv
<1>5. CASE LoadAWSConfig
  <2>1. boot' = "build" \/ boot' = "failed"
    BY <1>5 DEF LoadAWSConfig, Fail
  <2>2. CASE boot' = "build"
    <3>1. aws' = NeedsAWS /\ step' = step /\ step = 0 /\ UNCHANGED <<program, setting>>
      BY <1>5, <2>2 DEF LoadAWSConfig, Fail, StartInv, BuildInv
    <3>2. (Dev /\ NeedsAWS => aws)'
      BY <3>1 DEF NeedsAWS
    <3>3. program \in Started
      BY <1>5, ProgramStarted DEF StartInv, LoadAWSConfig
    <3>4. QED BY <2>2, <3>1, <3>2, <3>3, PlanStarts DEF BuildInv
  <2>3. QED BY <2>1, <2>2, FailBuilds
<1>6. ASSUME NEW part \in {"launcher", "metadata", "signing", "storage", "control",
                           "documents"},
             Create(part)
      PROVE  BuildInv'
  <2>1. /\ boot = "build" /\ Plan[program][step + 1] = part
        /\ UNCHANGED <<program, setting, aws, value, joined, remote>>
        /\ (Creatable(part) /\ Advance) \/ boot' = "failed"
    BY <1>6 DEF Create, Doing, Fail
  <2>2. CASE Creatable(part) /\ Advance
    <3>1. Built(part)'
      BY <2>1, <2>2, CreatableKept DEF Built
    <3>2. QED BY <2>1, <2>2, <3>1, PartAdvances
  <2>3. QED BY <2>1, <2>2, FailBuilds
<1>7. CASE Connect
  <2>1. /\ boot = "build" /\ Plan[program][step + 1] = "node"
        /\ UNCHANGED <<program, setting, aws, value, remote>>
        /\ (Advance /\ joined' = "configured") \/ boot' = "failed"
    BY <1>7 DEF Connect, Doing, Fail
  <2>2. CASE Advance /\ joined' = "configured"
    <3>1. Built("node")'
      BY <2>2 DEF Built
    <3>2. QED BY <2>1, <2>2, <3>1, PartAdvances
  <2>3. QED BY <2>1, <2>2, FailBuilds
<1>8. CASE VerifyApiVersion
  <2>1. /\ boot = "build" /\ Plan[program][step + 1] = "version"
        /\ UNCHANGED <<program, setting, aws, value, joined>>
        /\ (Compatible(remote') /\ Advance) \/ boot' = "failed"
    BY <1>8 DEF VerifyApiVersion, Doing, Fail
  <2>2. CASE Compatible(remote') /\ Advance
    <3>1. Built("version")'
      BY <2>2 DEF Built, Compatible
    <3>2. QED BY <2>1, <2>2, <3>1, PartAdvances
  <2>3. QED BY <2>1, <2>2, FailBuilds
<1>9. ASSUME NEW part \in {"api", "frequency"}, Ask(part) PROVE BuildInv'
  <2>1. /\ boot = "build" /\ Plan[program][step + 1] = part
        /\ UNCHANGED <<program, setting, aws, value, joined, remote>>
        /\ \/ (part = "api" => value[Resource] \notin {"", "reference"}) /\ Advance
           \/ boot' = "failed"
    BY <1>9 DEF Ask, Doing, Fail
  <2>2. CASE (part = "api" => value[Resource] \notin {"", "reference"}) /\ Advance
    <3>1. Built(part)'
      BY <2>1, <2>2 DEF Built
    <3>2. QED BY <2>1, <2>2, <3>1, PartAdvances
  <2>3. QED BY <2>1, <2>2, FailBuilds
<1>10. CASE UNCHANGED startupVars
  <2>1. /\ UNCHANGED <<program, setting, aws, value, joined, remote, step, boot>>
        /\ Dev' = Dev /\ NeedsAWS' = NeedsAWS
    BY <1>10 DEF startupVars, bootVars, Dev, NeedsAWS
  <2>2. \A part : Built(part) => Built(part)'
    BY <2>1, BuiltKept
  <2>3. QED BY <2>1, <2>2 DEF StartInv, BuildInv
<1>11. QED
  BY <1>1, <1>2, <1>3, <1>4, <1>5, <1>6, <1>7, <1>8, <1>9, <1>10 DEF StartupNext

\* Theorem.  The invariant holds of every program that starts.
THEOREM StartInvHolds == StartupSpec => []StartInv
<1>1. StartInv /\ [StartupNext]_startupVars => StartInv'
  BY LoadStartNext, ProgramNext, ValidationNext, BuildNext DEF StartInv
<1>2. QED BY <1>1, InitStart, PTL DEF StartupSpec

-------------------------------------------------------------------------------
(* What the loader promises.                                               *)

\* The priorities are the ranks, the other way round.
LEMMA PriorityRank ==
  /\ DOMAIN Priority = 1 .. 5
  /\ \A i \in 1 .. 5 : Priority[i] \in Sources /\ Rank[Priority[i]] = i
  /\ \A s \in Sources : Rank[s] \in 1 .. 5 /\ Priority[Rank[s]] = s
BY DEF Priority, Rank, Sources

\* Theorem.  Whatever the sources say, a loaded configuration has for each key
\* the value of the source of highest priority: the order in which Load merges
\* them, and the flags that keep their defaults back, come to that.
THEOREM LoadsByPrecedence == StartupSpec => []Precedence
<1>1. StartInv => Precedence
  <2> SUFFICES ASSUME StartInv, stage = "loaded", NEW k \in Keys,
                      ~ \A s \in Sources : given[s][k] = "none"
               PROVE  config[k].source = Priority[Deciding(k)]
    <3>1. stage = "loaded" /\ StartInv => \A k \in Keys : Decided(k)
      BY DEF StartInv, LoadInv
    <3>2. QED BY <3>1 DEF Precedence, Decided
  <2>1. Decided(k)
    BY DEF StartInv, LoadInv
  <2> DEFINE has == {i \in DOMAIN Priority : given[Priority[i]][k] # "none"}
             best == Rank[config[k].source]
  <2>2. config[k].source \in Sources /\ given[config[k].source][k] # "none"
    BY <2>1 DEF Decided
  <2>3. \A s \in Sources : given[s][k] # "none" => best <= Rank[s]
    BY <2>1 DEF Decided
  <2>4. best \in has /\ Priority[best] = config[k].source
    BY <2>2, PriorityRank
  <2>5. \A j \in has : best <= j
    BY <2>3, PriorityRank
  <2>6. \A i \in has : (\A j \in has : i <= j) => i = best
    BY <2>4, <2>5, PriorityRank
  <2>7. Deciding(k) = best
    <3> HIDE DEF best
    <3>1. (CHOOSE i \in has : \A j \in has : i <= j) = best
      <4> HIDE DEF has
      <4>1. QED BY <2>4, <2>5, <2>6
    <3>2. QED BY <3>1 DEF Deciding
  <2>8. QED BY <2>4, <2>7
<1>2. QED BY <1>1, StartInvHolds, PTL

\* Theorem.  Err is asked after each source that has references: no program
\* goes on with a configuration of which one could not be fetched.
THEOREM LoadsAllSecrets == StartupSpec => []SecretsFetched
<1>1. StartInv => SecretsFetched
  BY DEF StartInv, LoadInv, SecretsFetched
<1>2. QED BY <1>1, StartInvHolds, PTL

-------------------------------------------------------------------------------
(* Where a value comes from.                                               *)

\* The value of a key is of the kind that its source gave.
Sourced(k) ==
  config[k] # Absent =>
    config[k].source \in Sources /\ config[k].kind = given[config[k].source][k]

\* What was read before is not given again by the sources read now.
LEMMA SourcedKept ==
  ASSUME LoadInv, stage \in Loading, NEW k \in Keys, Sourced(k),
         NEW now \in SUBSET (Sources \ Read[stage]),
         \A s \in Sources \ now : given'[s][k] = given[s][k],
         config'[k] = config[k]
  PROVE  Sourced(k)'
<1>1. config[k] # Absent => config[k].source \in Read[stage]
  BY DEF LoadInv, Decided, Loading
<1>2. Read[stage] \subseteq Sources \ now
  BY DEF Loading, Read, Sources
<1>3. QED BY <1>1, <1>2 DEF Sourced

LEMMA EnvironmentSourced ==
  ASSUME LoadInv, NEW source \in {"dotenv", "env"}, NEW after,
         LoadEnvironment(source, after), NEW k \in Keys, Sourced(k)
  PROVE  Sourced(k)'
<1>1. PICK values \in [Keys -> Kinds \union {"none"}] :
        \E failing \in SUBSET {m \in Keys : Fetcher(values[m])} :
          /\ config' = Merge(config, Cleaned(source, values, failing))
          /\ Given(source, values)
  BY DEF LoadEnvironment
<1>2. PICK failing \in SUBSET {m \in Keys : Fetcher(values[m])} :
        config' = Merge(config, Cleaned(source, values, failing))
  BY <1>1
<1>3. stage = source /\ stage \in Loading
  BY DEF LoadEnvironment, Loading, Read
<1>4. \A s \in Sources : given'[s][k] = IF s = source THEN values[k] ELSE given[s][k]
  BY <1>1 DEF LoadInv, Given, Sources
<1>5. CASE values[k] = "none" \/ k \in failing
  <2>1. config'[k] = config[k]
    BY <1>2, <1>5 DEF Merge, Cleaned
  <2>2. {source} \in SUBSET (Sources \ Read[stage])
    BY <1>3 DEF Sources, Read
  <2>3. QED BY <1>3, <1>4, <2>1, <2>2, SourcedKept
<1>6. CASE ~(values[k] = "none" \/ k \in failing)
  <2>1. config'[k].source = source /\ config'[k].kind = values[k]
    BY <1>2, <1>6 DEF Merge, Cleaned, Absent
  <2>2. QED BY <1>4, <2>1 DEF Sourced, Sources
<1>7. QED BY <1>5, <1>6

LEMMA FlagsSourced ==
  ASSUME LoadInv, LoadFlags, NEW k \in Keys, Sourced(k)
  PROVE  Sourced(k)'
<1>1. PICK flagged \in SUBSET Keys, values \in [Keys -> Kinds \union {"none"}] :
        /\ \A m \in Keys \ flagged : values[m] = "none"
        /\ \E failing \in SUBSET {m \in Keys : Fetcher(values[m])} :
          LET unset == {m \in flagged : values[m] = "none"}
              defaults == unset \ KeptDefaults(config, unset)
          IN /\ config' = Merge(Merge(config, Cleaned("flag", values, failing)),
                  [m \in Keys |-> IF m \in defaults
                                    THEN [source |-> "default", kind |-> "literal",
                                          fetched |-> FALSE]
                                    ELSE Absent])
             /\ given' = [given EXCEPT !["flag"] = values,
                                       !["default"] = [m \in Keys |->
                                  IF m \in flagged THEN "literal" ELSE "none"]]
  BY DEF LoadFlags
<1>2. PICK failing \in SUBSET {m \in Keys : Fetcher(values[m])} :
        LET unset == {m \in flagged : values[m] = "none"}
            defaults == unset \ KeptDefaults(config, unset)
        IN config' = Merge(Merge(config, Cleaned("flag", values, failing)),
                [m \in Keys |-> IF m \in defaults
                                  THEN [source |-> "default", kind |-> "literal",
                                        fetched |-> FALSE]
                                  ELSE Absent])
  BY <1>1
<1>3. stage = "flag" /\ stage \in Loading
  BY DEF LoadFlags, Loading, Read
<1>4. /\ given'["flag"][k] = values[k]
      /\ given'["default"][k] = IF k \in flagged THEN "literal" ELSE "none"
      /\ \A s \in Sources \ {"flag", "default"} : given'[s][k] = given[s][k]
  BY <1>1 DEF LoadInv, Sources
<1>5. \/ config'[k] = config[k]
      \/ config'[k].source = "flag" /\ config'[k].kind = values[k]
      \/ k \in flagged /\ config'[k].source = "default" /\ config'[k].kind = "literal"
  BY <1>2 DEF Merge, Cleaned, Absent, KeptDefaults
<1>6. CASE config'[k] = config[k]
  <2>1. {"flag", "default"} \in SUBSET (Sources \ Read[stage])
    BY <1>3 DEF Sources, Read
  <2>2. QED BY <1>3, <1>4, <1>6, <2>1, SourcedKept
<1>7. CASE config'[k] # config[k]
  BY <1>4, <1>5, <1>7 DEF Sourced, Sources
<1>8. QED BY <1>6, <1>7

LEMMA LoadSourced ==
  ASSUME LoadInv, [Next]_vars, NEW k \in Keys, Sourced(k)
  PROVE  Sourced(k)'
<1>1. CASE LoadFile
  <2>1. PICK values \in [Keys -> IF Asks("file") THEN Kinds \union {"none"} ELSE {"none"}] :
          /\ config' = Merge(config,
                [m \in Keys |-> IF values[m] = "none" THEN Absent
                                ELSE [source |-> "yaml", kind |-> values[m],
                                      fetched |-> FALSE]])
          /\ Given("yaml", values)
    BY <1>1 DEF LoadFile
  <2>2. stage = "yaml" /\ stage \in Loading
    BY <1>1 DEF LoadFile, Loading, Read
  <2>3. \A s \in Sources : given'[s][k] = IF s = "yaml" THEN values[k] ELSE given[s][k]
    BY <2>1 DEF LoadInv, Given, Sources
  <2>4. CASE values[k] = "none"
    <3>1. config'[k] = config[k]
      BY <2>1, <2>4 DEF Merge
    <3>2. {"yaml"} \in SUBSET (Sources \ Read[stage])
      BY <2>2 DEF Sources, Read
    <3>3. QED BY <2>2, <2>3, <3>1, <3>2, SourcedKept
  <2>5. CASE values[k] # "none"
    <3>1. config'[k].source = "yaml" /\ config'[k].kind = values[k]
      BY <2>1, <2>5 DEF Merge, Absent
    <3>2. QED BY <2>3, <3>1 DEF Sourced, Sources
  <2>6. QED BY <2>4, <2>5
<1>2. CASE LoadDotenv \/ LoadEnv
  BY <1>2, EnvironmentSourced DEF LoadDotenv, LoadEnv
<1>3. CASE LoadFlags
  BY <1>3, FlagsSourced
<1>4. CASE Malformed \/ UNCHANGED vars
  BY <1>4 DEF Malformed, vars, Sourced
<1>5. QED BY <1>1, <1>2, <1>3, <1>4 DEF Next

\* Theorem.  The types of the loader; a value is of the kind that its source
\* gave it, whatever was merged over it, and no error is forgotten.
THEOREM LoaderTypeCorrect == StartupSpec => []TypeOK
<1> DEFINE AllSourced == \A k \in Keys : Sourced(k)
<1>1. StartupInit => AllSourced
  BY DEF StartupInit, Init, Sourced
<1>2. StartInv /\ AllSourced /\ [StartupNext]_startupVars => AllSourced'
  <2> SUFFICES ASSUME StartInv, AllSourced, [StartupNext]_startupVars, NEW k \in Keys
               PROVE  Sourced(k)'
    OBVIOUS
  <2>1. CASE Structure
    BY <2>1 DEF Structure, Sourced
  <2>2. CASE Loads \/ OwnStep \/ UNCHANGED startupVars
    <3>1. [Next]_vars
      BY <2>2, OwnStepKeeps DEF Loads, startupVars
    <3>2. QED BY <3>1, LoadSourced DEF StartInv
  <2>3. QED BY <2>1, <2>2 DEF StartupNext, OwnStep
<1>3. StartInv /\ AllSourced => TypeOK
  BY DEF StartInv, LoadInv, Loading, Read, Sourced, TypeOK
<1>4. QED BY <1>1, <1>2, <1>3, StartInvHolds, PTL DEF StartupSpec

-------------------------------------------------------------------------------
(* What each section holds after it was validated.                         *)

LEMMA LauncherHolds ==
  ASSUME Checked("launcher")
  PROVE  /\ ~Dev => setting.launcher.backend = "step-function"
         /\ setting.launcher.backend = "step-function" => setting.launcher.stateMachine
BY DEF Checked, Choices, Valid, Normalised, DevValid, LambdaValid, DevLauncherValid,
   LauncherValid

LEMMA MetadataHolds ==
  ASSUME Checked("metadata")
  PROVE  /\ ~Dev => setting.metadata.backend = "s3" /\ setting.metadata.bucket # ""
         /\ setting.metadata.backend = "filesystem" => setting.metadata.path
BY DEF Checked, Choices, Valid, Normalised, DevValid, LambdaValid, DevMetadataValid,
   BucketValid

LEMMA SigningHolds ==
  ASSUME Checked("signing")
  PROVE  setting.signing.backend = "kms" => setting.signing.key
BY DEF Checked, Choices, Valid, Normalised, DevValid, LambdaValid, DevSigningValid,
   SigningValid

LEMMA StorageHolds ==
  ASSUME Checked("storage")
  PROVE  /\ ~Dev => setting.storage.backend = "dynamo"
         /\ setting.storage.backend = "dynamo" => value[Resource] # ""
         /\ setting.storage.backend = "filesystem" => setting.storage.path
BY DEF Checked, Choices, Valid, Normalised, DevValid, LambdaValid, DevStorageValid,
   TableValid

LEMMA ControlHolds ==
  ASSUME Checked("control")
  PROVE  /\ setting.control.tailnet
         /\ setting.control.oauth \in BOOLEAN
         /\ value[Credential] # "" \/ setting.control.oauth
         /\ Dev => ~(setting.control.backend = "headscale" /\ setting.control.oauth)
<1>1. PICK s \in Choices("control") :
        Valid("control", s) /\ setting["control"] = Normalised("control", s)
  BY DEF Checked
<1>2. /\ s \in [backend : {"hosted", "tailscale", "headscale", "other"},
                url : {"", "http", "other"}, tailnet : BOOLEAN, oauth : BOOLEAN,
                tlsMode : {"full", "other"}]
  BY DEF Choices
<1>3. /\ setting.control.tailnet = s.tailnet /\ setting.control.oauth = s.oauth
      /\ setting.control.backend = s.backend
  BY <1>1, <1>2 DEF Normalised
<1>4. /\ OneMethod(s) /\ s.tailnet
      /\ Dev => ~(s.backend = "headscale" /\ s.oauth)
  BY <1>1 DEF Valid, DevValid, LambdaValid, DevControlValid, ControlValid
<1>5. value[Credential] # "" \/ s.oauth
  BY <1>2, <1>4 DEF OneMethod
<1>6. QED BY <1>2, <1>3, <1>4, <1>5

-------------------------------------------------------------------------------
(* What a program has when it serves.                                      *)

LEMMA ServingHas ==
  ASSUME StartInv, boot = "serving"
  PROVE  /\ program \in Started
         /\ program \in Programs[caller]
         /\ caller \in DOMAIN Callers
         /\ \A i \in 1 .. Len(Sections[program]) : Checked(Sections[program][i])
         /\ \A i \in 1 .. Len(Plan[program]) : Built(Plan[program][i])
         /\ CombinationValid
         /\ Dev /\ NeedsAWS => aws
         /\ caller = "lambda" => aws
BY ProgramStarted DEF StartInv, LoadInv, ProgramInv, ValidationInv, BuildInv

LEMMA ServingLambda ==
  ASSUME StartInv, boot = "serving", program \in Started \ {"client", "dev"}
  PROVE  ~Dev /\ aws /\ \A k \in Keys : value[k] # "reference"
<1>1. caller = "lambda"
  BY ServingHas DEF Programs, Callers, Started
<1>2. QED BY <1>1, ServingHas DEF StartInv, ProgramInv, Dev, Started

\* The development gateway: the parts that may be simulated, and the
\* combination of the launcher with the store.
LEMMA DevEquipped ==
  ASSUME StartInv, boot = "serving", program = "dev", NEW i \in DOMAIN Plan[program]
  PROVE  Equipped(Plan[program][i])
<1>1. /\ Checked("launcher") /\ Checked("metadata") /\ Checked("signing")
      /\ Checked("storage") /\ Checked("control")
  <2>1. \A n \in 1 .. Len(DevSections) : Checked(DevSections[n])
    BY ServingHas DEF Sections
  <2>2. QED BY <2>1 DEF DevSections
<1>2. /\ MetadataCreatable /\ StorageCreatable /\ ControlCreatable /\ DocumentsWritable
  <2>1. \A n \in 1 .. Len(DevPlan) : Built(DevPlan[n])
    BY ServingHas DEF Plan
  <2>2. Built("metadata") /\ Built("storage") /\ Built("control") /\ Built("documents")
    BY <2>1 DEF DevPlan
  <2>3. QED BY <2>2 DEF Built, Creatable
<1>3. NeedsAWS => aws
  BY ServingHas DEF Dev
<1>4. CombinationValid /\ Dev
  BY ServingHas DEF Dev
<1>5. Equipped("launcher")
  BY <1>1, <1>3, <1>4, LauncherHolds DEF Equipped, NeedsAWS, CombinationValid
<1>6. Equipped("metadata") /\ Equipped("documents")
  BY <1>1, <1>2, MetadataHolds DEF Equipped, MetadataCreatable, DocumentsWritable
<1>7. Equipped("signing")
  BY <1>1, <1>3, SigningHolds DEF Equipped, NeedsAWS
<1>8. Equipped("storage")
  BY <1>1, <1>2, <1>3, StorageHolds DEF Equipped, NeedsAWS, StorageCreatable
<1>9. Equipped("control")
  BY <1>1, <1>2, ControlHolds DEF Equipped, ControlCreatable
<1>10. Plan[program][i] \in
         {"launcher", "metadata", "signing", "storage", "control", "documents"}
  BY DEF Plan, DevPlan
<1>11. QED BY <1>5, <1>6, <1>7, <1>8, <1>9, <1>10

\* A Lambda: its backends are those of AWS, which it has.
LEMMA LambdaEquipped ==
  ASSUME StartInv, boot = "serving", program \in Started \ {"client", "dev"},
         NEW i \in DOMAIN Plan[program]
  PROVE  Equipped(Plan[program][i])
<1>0. ~Dev /\ aws
  BY ServingLambda
<1>1. ASSUME NEW p \in {"initializer", "verifier", "finalizer", "generator"}, program = p
      PROVE  /\ \A n \in 1 .. Len(Sections[p]) : Checked(Sections[p][n])
             /\ \A n \in 1 .. Len(Plan[p]) : Built(Plan[p][n])
  BY <1>1, ServingHas
<1>2. Checked("metadata") => Equipped("metadata")
  BY <1>0, MetadataHolds DEF Equipped
<1>3. Checked("signing") => Equipped("signing")
  BY <1>0, SigningHolds DEF Equipped
<1>4. Checked("storage") => Equipped("storage")
  BY <1>0, StorageHolds DEF Equipped
<1>5. Checked("launcher") /\ Checked("storage") => Equipped("launcher")
  BY <1>0, LauncherHolds, StorageHolds DEF Equipped
<1>6. Checked("control") /\ ControlCreatable => Equipped("control")
  BY ControlHolds DEF Equipped, ControlCreatable
<1>7. CASE program = "initializer"
  <2>1. Checked("launcher") /\ Checked("control") /\ Checked("storage")
    BY <1>1, <1>7 DEF Sections, InitializerSections
  <2>2. Built("control")
    BY <1>1, <1>7 DEF Plan, InitializerPlan
  <2>3. ControlCreatable
    BY <2>2 DEF Built, Creatable
  <2>4. Plan[program][i] \in {"control", "launcher", "storage"}
    BY <1>7 DEF Plan, InitializerPlan
  <2>5. QED BY <1>4, <1>5, <1>6, <2>1, <2>3, <2>4
<1>8. CASE program = "verifier"
  <2>1. Checked("storage")
    BY <1>1, <1>8 DEF Sections, VerifierSections
  <2>2. Built("node")
    BY <1>1, <1>8 DEF Plan, VerifierPlan
  <2>3. Equipped("node")
    BY <2>2 DEF Built, Equipped
  <2>4. Plan[program][i] \in {"node", "storage"}
    BY <1>8 DEF Plan, VerifierPlan
  <2>5. QED BY <1>4, <2>1, <2>3, <2>4
<1>9. CASE program = "finalizer"
  <2>1. Checked("signing") /\ Checked("storage")
    BY <1>1, <1>9 DEF Sections, FinalizerSections
  <2>2. Plan[program][i] \in {"signing", "storage"}
    BY <1>9 DEF Plan, FinalizerPlan
  <2>3. QED BY <1>3, <1>4, <2>1, <2>2
<1>10. CASE program = "generator"
  <2>1. Checked("metadata") /\ Checked("signing")
    BY <1>1, <1>10 DEF Sections, GeneratorSections
  <2>2. Plan[program][i] \in {"metadata", "signing"}
    BY <1>10 DEF Plan, GeneratorPlan
  <2>3. QED BY <1>2, <1>3, <2>1, <2>2
<1>11. QED BY <1>7, <1>8, <1>9, <1>10 DEF Started

\* The client: parseBaseUrl refuses an empty URL before anything else is done.
LEMMA ClientEquipped ==
  ASSUME StartInv, boot = "serving", program = "client", NEW i \in DOMAIN Plan[program]
  PROVE  Equipped(Plan[program][i])
<1>1. \A n \in 1 .. Len(ClientPlan) : Built(ClientPlan[n])
  BY ServingHas DEF Plan
<1>2. Built("api") /\ Built("version")
  BY <1>1 DEF ClientPlan
<1>3. Equipped("api") /\ Equipped("version") /\ Equipped("frequency")
  BY <1>2 DEF Built, Equipped
<1>4. Plan[program][i] \in {"api", "version", "frequency"}
  BY DEF Plan, ClientPlan
<1>5. QED BY <1>3, <1>4

\* Theorem.  What a validation leaves open is closed by what is created from
\* it: a program that serves has all it will use.
THEOREM ServingIsEquipped == StartupSpec => []ServesEquipped
<1>1. StartInv => ServesEquipped
  <2> SUFFICES ASSUME StartInv, boot = "serving", NEW i \in DOMAIN Plan[program]
               PROVE  Equipped(Plan[program][i])
    BY DEF ServesEquipped
  <2>1. program \in Started
    BY ServingHas
  <2>2. QED BY <2>1, DevEquipped, LambdaEquipped, ClientEquipped
<1>2. QED BY <1>1, StartInvHolds, PTL

\* Theorem.  A program that serves sends the control plane a credential, and a
\* Lambda one that is not a reference, but for an initializer that uses
\* headscale with OAuth.
THEOREM ServingAuthenticates == StartupSpec => []ServesAuthenticated
<1>1. StartInv => ServesAuthenticated
  <2> SUFFICES ASSUME StartInv, boot = "serving", program \in {"initializer", "dev"}
               PROVE  \/ SentCredential \notin IF Dev THEN {""} ELSE {"", "reference"}
                      \/ ~Dev /\ setting.control.backend = "headscale"
                              /\ setting.control.oauth
    BY DEF ServesAuthenticated
  <2>1. Checked("control")
    <3>1. CASE program = "initializer"
      BY <3>1, ServingHas DEF Sections, InitializerSections
    <3>2. CASE program = "dev"
      BY <3>2, ServingHas DEF Sections, DevSections
    <3>3. QED BY <3>1, <3>2
  <2>2. ~Dev => value[Credential] # "reference"
    BY ServingLambda, StartupAssumption DEF Dev, Started
  <2>3. QED BY <2>1, <2>2, ControlHolds DEF SentCredential
<1>2. QED BY <1>1, StartInvHolds, PTL

=============================================================================
