----------------------------- MODULE Configuration -----------------------------
(***************************************************************************)
(* configloader.Load: the sources are merged one after the other, and a    *)
(* value that refers to a secret is replaced by the secret on the way,     *)
(* except in the YAML file.  What each source says of a key is chosen when *)
(* the source is read, and remembered in given.                            *)
(***************************************************************************)
EXTENDS Naturals

CONSTANTS
  Keys          \* configuration keys

\* A literal value, a reference file://..., or the ARN of a secret.
Kinds == {"literal", "file", "aws"}

\* What the programs ask Load for: a configuration file, command line flags,
\* and secrets from AWS.
Callers == [client |-> {"file", "flags"}, dev |-> {"flags"}, lambda |-> {"aws"}]

Absent == [source |-> "none", kind |-> "none", fetched |-> FALSE]

\* The highest priority first; a flag that was not set has its default.
Priority == <<"flag", "env", "dotenv", "yaml", "default">>
Sources == {"flag", "env", "dotenv", "yaml", "default"}

VARIABLES
  caller,  \* the program
  stage,   \* the source that Load reads next, or how it ended
  config,  \* the value that each key has so far
  errs,    \* keys whose secret could not be fetched
  given,   \* history: the kind of value that each source has for each key
  broken   \* history: a reference that could not be fetched was met

vars == <<caller, stage, config, errs, given, broken>>

Init ==
  /\ caller \in DOMAIN Callers
  /\ stage = "yaml"
  /\ config = [k \in Keys |-> Absent]
  /\ errs = {}
  /\ given = [s \in Sources |-> [k \in Keys |-> "none"]]
  /\ broken = FALSE

-------------------------------------------------------------------------------
Asks(option) == option \in Callers[caller]

\* A file is always read, an ARN only when there is an AWS configuration.
Fetcher(kind) == kind = "file" \/ (kind = "aws" /\ Asks("aws"))

\* The cleaned values of a source: the references among them are replaced
\* by what they refer to, and those that fail leave no value.
Cleaned(source, values, failing) ==
  [k \in Keys |->
     IF values[k] = "none" \/ k \in failing THEN Absent
     ELSE [source |-> source, kind |-> values[k], fetched |-> Fetcher(values[k])]]

\* koanf: what is loaded later overrides what was loaded before.
Merge(old, new) ==
  [k \in Keys |-> IF new[k] = Absent THEN old[k] ELSE new[k]]

Given(source, values) == given' = [given EXCEPT ![source] = values]

\* The file is merged as it is.  A file that does not exist is no error.
LoadFile ==
  /\ stage = "yaml"
  /\ \E values \in [Keys -> IF Asks("file") THEN Kinds \union {"none"} ELSE {"none"}] :
       /\ config' = Merge(config,
            [k \in Keys |-> IF values[k] = "none" THEN Absent
                            ELSE [source |-> "yaml", kind |-> values[k],
                                  fetched |-> FALSE]])
       /\ Given("yaml", values)
  /\ stage' = "dotenv"
  /\ UNCHANGED <<caller, errs, broken>>

\* A source that cannot be read or parsed ends Load.
Malformed ==
  /\ stage \in {"yaml", "dotenv"}
  /\ stage = "yaml" => Asks("file")
  /\ stage' = "failed"
  /\ UNCHANGED <<caller, config, errs, given, broken>>

\* Mutant: Err looks only at the keys that have no value yet.
ErrIfMissing(failing, old) == {k \in failing : old[k] = Absent}

\* Err is asked after each source, and reports every key.
Err(failing, old) == failing

\* The .env file, or the environment: the prefix is cut from the names, and
\* every value is cleaned.
LoadEnvironment(source, after) ==
  /\ stage = source
  /\ \E values \in [Keys -> Kinds \union {"none"}] :
       \E failing \in SUBSET {k \in Keys : Fetcher(values[k])} :
         /\ config' = Merge(config, Cleaned(source, values, failing))
         /\ errs' = errs \union failing
         /\ broken' = (broken \/ failing # {})
         /\ stage' = IF Err(errs \union failing, config) # {} THEN "failed" ELSE after
         /\ Given(source, values)
  /\ caller' = caller

LoadDotenv == LoadEnvironment("dotenv", "env")
LoadEnv == LoadEnvironment("env", IF Asks("flags") THEN "flag" ELSE "loaded")

\* Mutant: a flag that was not set overrides the file with its default.
KeptDefaultsOverriding(old, unset) == {}

\* posflag: a flag that was not set gives way to any value.
KeptDefaults(old, unset) == {k \in unset : old[k] # Absent}

\* Some keys have a flag, which was set, or stands at its literal default.
\* The others, like most keys of cmd/dev, have no value from here.
LoadFlags ==
  /\ stage = "flag"
  /\ \E flagged \in SUBSET Keys, values \in [Keys -> Kinds \union {"none"}] :
     /\ \A k \in Keys \ flagged : values[k] = "none"
     /\ \E failing \in SUBSET {k \in Keys : Fetcher(values[k])} :
         LET unset == {k \in flagged : values[k] = "none"}
             defaults == unset \ KeptDefaults(config, unset)
         IN /\ config' = Merge(Merge(config, Cleaned("flag", values, failing)),
                 [k \in Keys |-> IF k \in defaults
                                   THEN [source |-> "default", kind |-> "literal",
                                         fetched |-> FALSE]
                                   ELSE Absent])
            /\ errs' = errs \union failing
            /\ broken' = (broken \/ failing # {})
            /\ stage' = IF Err(errs \union failing, config) # {} THEN "failed"
                        ELSE "loaded"
            /\ given' = [given EXCEPT !["flag"] = values,
                                      !["default"] = [k \in Keys |->
                                 IF k \in flagged THEN "literal" ELSE "none"]]
  /\ caller' = caller

Next == LoadFile \/ Malformed \/ LoadDotenv \/ LoadEnv \/ LoadFlags

Spec == Init /\ [][Next]_vars
-------------------------------------------------------------------------------
(* Properties.                                                             *)

\* Types; a value comes from a source that gave it, and no error is forgotten.
TypeOK ==
  /\ caller \in DOMAIN Callers
  /\ stage \in {"yaml", "dotenv", "env", "flag", "loaded", "failed", "structured"}
  /\ errs \subseteq Keys /\ (errs # {} => stage = "failed")
  /\ given \in [Sources -> [Keys -> Kinds \union {"none"}]]
  /\ \A k \in Keys : config[k] # Absent =>
       /\ config[k].source \in Sources
       /\ config[k].kind = given[config[k].source][k]

\* The source that decides a key, by priority alone.
Deciding(k) ==
  LET has == {i \in DOMAIN Priority : given[Priority[i]][k] # "none"}
  IN CHOOSE i \in has : \A j \in has : i <= j

\* A loaded configuration has for each key the value of the source of highest
\* priority that gives one: a flag that was set, the environment, .env, the
\* file, and only then the default of a flag.
Precedence ==
  stage = "loaded" =>
    \A k \in Keys :
      IF \A s \in Sources : given[s][k] = "none"
        THEN config[k] = Absent
        ELSE config[k].source = Priority[Deciding(k)]

\* No program starts while one of its secrets could not be fetched, not even
\* one that a later source would have overridden.
SecretsFetched == stage = "loaded" => ~broken
=============================================================================
