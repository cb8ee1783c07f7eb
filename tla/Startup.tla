-------------------------------- MODULE Startup --------------------------------
(***************************************************************************)
(* How each program gets from its sources of configuration to serving:     *)
(* configloader.Load, the validation of one section after the other, and   *)
(* the creation of its backends, the first of which may ask AWS, the       *)
(* tailnet or the API whether what was configured is there.  Two values    *)
(* come through the loader, the name of the table and the credential; the  *)
(* others are chosen when their section is validated.  A value is          *)
(* abstracted to what the code compares it with.                           *)
(***************************************************************************)
EXTENDS Configuration, Sequences

CONSTANTS
  Resource,    \* the key of the table's name, or of the client's URL
  Credential   \* the key of the API key, or of the verifier's auth key

ASSUME StartupAssumption == {Resource, Credential} \subseteq Keys

VARIABLES
  program,   \* the program that is started
  boot,      \* what it does, or how it ended
  value,     \* the text that the program has for each key
  setting,   \* the other settings of each section
  step,      \* sections validated, or backends created, so far
  aws,       \* whether it has the AWS configuration of its environment
  joined,    \* the tailnet the verifier joined
  remote     \* the version that the API publishes

bootVars == <<program, boot, value, setting, step, aws, joined, remote>>
startupVars == <<vars, bootVars>>

Programs == [client |-> {"client"}, dev |-> {"dev"},
             lambda |-> {"initializer", "verifier", "finalizer", "generator"}]

\* The order in which Validate goes through the sections, and what is created,
\* or asked for, before the program serves.
InitializerSections == <<"launcher", "control", "storage">>
InitializerPlan == <<"control", "launcher", "storage">>

VerifierSections == <<"storage", "node">>
VerifierPlan == <<"node", "storage">>

FinalizerSections == <<"signing", "storage">>
FinalizerPlan == <<"signing", "storage">>

GeneratorSections == <<"metadata", "signing">>
GeneratorPlan == <<"metadata", "signing">>

DevSections == <<"launcher", "metadata", "signing", "storage", "control">>
DevPlan ==
  <<"launcher", "metadata", "signing", "storage", "control", "documents">>

ClientPlan == <<"api", "version", "frequency">>

Sections == [
  initializer |-> InitializerSections, verifier |-> VerifierSections,
  finalizer |-> FinalizerSections, generator |-> GeneratorSections,
  dev |-> DevSections, client |-> <<>>]

Plan == [
  initializer |-> InitializerPlan, verifier |-> VerifierPlan,
  finalizer |-> FinalizerPlan, generator |-> GeneratorPlan,
  dev |-> DevPlan, client |-> ClientPlan]

\* A version that parses, a text that does not, or nothing.
Versions == [text : {"", "other"}, major : {0}, pre : {FALSE}]
              \union [text : {"semver"}, major : 0 .. 2, pre : BOOLEAN]
NoVersion == [text |-> "", major |-> 0, pre |-> FALSE]

None == "none"
NoSettings ==
  [s \in {"launcher", "metadata", "signing", "storage", "control", "node"} |-> None]

\* A Lambda has loaded its AWS configuration before it calls Load.
StartupInit ==
  /\ Init
  /\ program = None
  /\ boot = "load"
  /\ value = [k \in Keys |-> ""]
  /\ setting = NoSettings
  /\ step = 0
  /\ aws = (caller = "lambda")
  /\ joined = None
  /\ remote = NoVersion

Loads ==
  /\ boot = "load"
  /\ Next
  /\ UNCHANGED bootVars

Fail == boot' = "failed"

-------------------------------------------------------------------------------
(* Structure.                                                              *)

\* The texts a value may have: a literal may be empty.
Texts(k) ==
  IF config[k] = Absent THEN {""}
  ELSE IF config[k].fetched THEN {"secret"}
  ELSE IF config[k].kind = "literal" THEN {"", "text"}
  ELSE {"reference"}

\* The values are copied into the struct of the program, and the layers are
\* forgotten.  The development gateway and the client set their log level up
\* here, the Lambdas after Validate; an unknown level ends any of them.
Structure ==
  /\ boot = "load" /\ stage = "loaded"
  /\ program' \in Programs[caller]
  /\ value' \in [Keys -> {"", "text", "secret", "reference"}]
  /\ \A k \in Keys : value'[k] \in Texts(k)
  /\ boot' \in {"validate", "failed"}
  /\ stage' = "structured"
  /\ config' = [k \in Keys |-> Absent]
  /\ given' = [s \in Sources |-> [k \in Keys |-> "none"]]
  /\ UNCHANGED <<caller, errs, broken, setting, step, aws, joined, remote>>

-------------------------------------------------------------------------------
(* Validation.                                                             *)

Dev == program = "dev"

\* The settings of a section, but for the two that come through the loader.
\* The Lambdas have one launcher, signer, store and metadata backend each.
Choices(section) ==
  CASE section = "launcher" ->
         [backend : {"step-function"} \union (IF Dev THEN {"local", "other"} ELSE {}),
          stateMachine : BOOLEAN]
    [] section = "metadata" ->
         [backend : {"s3"} \union (IF Dev THEN {"filesystem", "other"} ELSE {}),
          path : IF Dev THEN BOOLEAN ELSE {FALSE},
          bucket : {"", "s3", "tailfed"}]
    [] section = "signing" ->
         [backend : {"kms"} \union (IF Dev THEN {"memory", "other"} ELSE {}),
          key : BOOLEAN,
          audience : IF program = "generator" THEN {TRUE} ELSE BOOLEAN,
          validity : {0, 1}]
    [] section = "storage" ->
         [backend : {"dynamo"} \union (IF Dev THEN {"filesystem", "other"} ELSE {}),
          path : IF Dev THEN BOOLEAN ELSE {FALSE}]
    [] section = "control" ->
         [backend : {"hosted", "tailscale", "headscale", "other"},
          url : {"", "http", "other"}, tailnet : BOOLEAN, oauth : BOOLEAN,
          tlsMode : {"full", "other"}]
    [] section = "node" -> [tailnet : BOOLEAN]

DevLauncherValid(s) == s.backend = "step-function" => s.stateMachine

\* The condition for the bucket asks for a name that is "dynamo" and empty.
DevMetadataValid(s) ==
  /\ s.backend = "filesystem" => s.path
  /\ ~(s.backend = "dynamo" /\ s.backend = "")

DevSigningValid(s) ==
  s.audience /\ s.validity > 0 /\ (s.backend = "kms" => s.key)

DevStorageValid(s) ==
  /\ s.backend = "filesystem" => s.path
  /\ s.backend = "dynamo" => value[Resource] # ""

\* An API key or OAuth, and not both.
OneMethod(s) == (value[Credential] # "") # s.oauth

DevControlValid(s) ==
  /\ s.url # "" /\ s.tailnet /\ OneMethod(s)
  /\ ~(s.backend = "headscale" /\ s.oauth)

DevValid(section, s) ==
  CASE section = "launcher" -> DevLauncherValid(s)
    [] section = "metadata" -> DevMetadataValid(s)
    [] section = "signing"  -> DevSigningValid(s)
    [] section = "storage"  -> DevStorageValid(s)
    [] section = "control"  -> DevControlValid(s)

LauncherValid(s) == s.stateMachine

\* Mutant: a configuration without any authentication is accepted.
ControlValidAnonymous(s) ==
  s.url \in {"", "http"} /\ s.tailnet /\ ~(value[Credential] # "" /\ s.oauth)

\* Nothing is said about headscale.
ControlValid(s) == s.url \in {"", "http"} /\ s.tailnet /\ OneMethod(s)

TableValid == value[Resource] # ""

NodeValid(s) == value[Credential] # "" /\ s.tailnet

BucketValid(s) == s.bucket # ""

\* The generator has no audience.
SigningValid(s) == s.audience /\ s.key /\ s.validity > 0

LambdaValid(section, s) ==
  CASE section = "launcher" -> LauncherValid(s)
    [] section = "metadata" -> BucketValid(s)
    [] section = "signing"  -> SigningValid(s)
    [] section = "storage"  -> TableValid
    [] section = "control"  -> ControlValid(s)
    [] section = "node"     -> NodeValid(s)

Valid(section, s) == IF Dev THEN DevValid(section, s) ELSE LambdaValid(section, s)

\* An empty URL is replaced by that of the hosted API, in the initializer.
Normalised(section, s) ==
  IF section = "control" /\ s.url = "" THEN [s EXCEPT !.url = "http"] ELSE s

Validate ==
  /\ boot = "validate" /\ step < Len(Sections[program])
  /\ LET section == Sections[program][step + 1] IN
       \E s \in Choices(section) :
         IF Valid(section, s)
           THEN /\ setting' = [setting EXCEPT ![section] = Normalised(section, s)]
                /\ step' = step + 1 /\ boot' = boot
           ELSE Fail /\ UNCHANGED <<setting, step>>
  /\ UNCHANGED <<vars, program, value, aws, joined, remote>>

CombinationValid ==
  Dev /\ setting.launcher.backend = "step-function" => setting.storage.backend = "dynamo"

\* The end of Validate; a Lambda goes on to its log level and its backends.
Validated ==
  /\ boot = "validate" /\ step = Len(Sections[program])
  /\ step' = 0
  /\ boot' \in IF CombinationValid THEN {IF Dev THEN "aws" ELSE "build", "failed"}
               ELSE {"failed"}
  /\ UNCHANGED <<vars, program, value, setting, aws, joined, remote>>

-------------------------------------------------------------------------------
(* Backends.                                                               *)

\* Mutant: the store is not asked.
NeedsAWSUnstored ==
  \/ setting.launcher.backend = "step-function"
  \/ setting.metadata.bucket = "s3"
  \/ setting.signing.backend = "kms"

\* As in the code, the bucket and not the backend of the metadata.
NeedsAWS ==
  \/ setting.launcher.backend = "step-function"
  \/ setting.metadata.bucket = "s3"
  \/ setting.signing.backend = "kms"
  \/ setting.storage.backend = "dynamo"

LoadAWSConfig ==
  /\ boot = "aws"
  /\ \/ boot' = "build" /\ aws' = NeedsAWS
     \/ NeedsAWS /\ Fail /\ aws' = aws
  /\ UNCHANGED <<vars, program, value, setting, step, joined, remote>>

\* The state machine must be active and the key enabled: both are asked for.
LauncherCreatable ==
  \/ setting.launcher.backend = "local"
  \/ setting.launcher.backend = "step-function" /\ aws

SigningCreatable ==
  \/ setting.signing.backend = "memory"
  \/ setting.signing.backend = "kms" /\ aws

\* Neither the table nor the bucket is, until a document is written.
StorageCreatable == setting.storage.backend \in {"filesystem", "dynamo"}

MetadataCreatable == setting.metadata.backend \in {"filesystem", "s3"}

DocumentsWritable ==
  setting.metadata.backend = "s3" => aws /\ setting.metadata.bucket # ""

HostedCreatable == setting.control.url = "http"
HeadscaleCreatable == setting.control.tlsMode = "full"

ControlCreatable ==
  \/ setting.control.backend \in {"hosted", "tailscale"} /\ HostedCreatable
  \/ setting.control.backend = "headscale" /\ HeadscaleCreatable

Creatable(part) ==
  CASE part = "launcher"  -> LauncherCreatable
    [] part = "metadata"  -> MetadataCreatable
    [] part = "signing"   -> SigningCreatable
    [] part = "storage"   -> StorageCreatable
    [] part = "control"   -> ControlCreatable
    [] part = "documents" -> DocumentsWritable

Advance ==
  /\ step' = step + 1
  /\ boot' = IF step' = Len(Plan[program]) THEN "serving" ELSE boot

Doing(part) == boot = "build" /\ Plan[program][step + 1] = part

\* Any of them may fail, and ends the program.
Create(part) ==
  /\ Doing(part)
  /\ \/ Creatable(part) /\ Advance
     \/ Fail /\ step' = step
  /\ UNCHANGED <<vars, program, value, setting, aws, joined, remote>>

\* The auth key decides the tailnet.  Connect has five seconds.
Connect ==
  /\ Doing("node")
  /\ \/ Advance /\ joined' = "configured"
     \/ Fail /\ UNCHANGED step /\ joined' \in {None, "another"}
  /\ UNCHANGED <<vars, program, value, setting, aws, remote>>

-------------------------------------------------------------------------------
(* The client.                                                             *)

\* GetInfo: a version set by the linker is taken as it is; the module's loses
\* its pre-release, and leaves nothing when it does not parse.
Published(linked, module) ==
  IF linked.text # "" THEN linked
  ELSE IF module.text = "semver" THEN [module EXCEPT !.pre = FALSE]
  ELSE NoVersion

\* ">= 1.0, < 2.0", which no pre-release satisfies.
Compatible(version) ==
  version.text = "semver" /\ version.major = 1 /\ ~version.pre

\* parseBaseUrl of what was configured, and the frequency, which follows.
Ask(part) ==
  /\ Doing(part)
  /\ \/ (part = "api" => value[Resource] \notin {"", "reference"}) /\ Advance
     \/ Fail /\ step' = step
  /\ UNCHANGED <<vars, program, value, setting, aws, joined, remote>>

VerifyApiVersion ==
  /\ Doing("version")
  /\ \E linked, module \in Versions :
       /\ remote' = Published(linked, module)
       /\ IF Compatible(remote') THEN Advance ELSE Fail /\ step' = step
  /\ UNCHANGED <<vars, program, value, setting, aws, joined>>

\* What a request to the control plane carries: headscale's client adds nothing
\* for OAuth.
SentCredential ==
  IF value[Credential] # "" THEN value[Credential]
  ELSE IF setting.control.oauth /\ setting.control.backend # "headscale" THEN "token"
  ELSE ""

StartupNext ==
  \/ Loads \/ Structure \/ Validate \/ Validated \/ LoadAWSConfig
  \/ \E part \in {"launcher", "metadata", "signing", "storage", "control",
                  "documents"} : Create(part)
  \/ Connect \/ VerifyApiVersion
  \/ \E part \in {"api", "frequency"} : Ask(part)

StartupSpec == StartupInit /\ [][StartupNext]_startupVars
-------------------------------------------------------------------------------
(* Properties.                                                             *)

\* What a part needs to do its work while the program serves.
Equipped(part) ==
  CASE part = "launcher" ->
         \* the verifiers of the state machine read the table
         setting.launcher.backend = "step-function" =>
           aws /\ setting.launcher.stateMachine /\ setting.storage.backend = "dynamo"
    [] part \in {"metadata", "documents"} ->
         IF setting.metadata.backend = "s3"
           THEN aws /\ setting.metadata.bucket # "" ELSE setting.metadata.path
    [] part = "signing" ->
         setting.signing.backend = "kms" => aws /\ setting.signing.key
    [] part = "storage" ->
         IF setting.storage.backend = "dynamo"
           THEN aws /\ value[Resource] # "" ELSE setting.storage.path
    [] part = "control" -> setting.control.backend # "other" /\ setting.control.tailnet
    [] part = "node" -> joined = "configured"
    [] part = "version" -> Compatible(remote)
    [] part \in {"api", "frequency"} -> value[Resource] # ""

\* A program that serves has everything that it will use: what is not checked
\* where it is configured is checked by what is created from it.
ServesEquipped ==
  boot = "serving" => \A i \in DOMAIN Plan[program] : Equipped(Plan[program][i])

\* A program that serves authenticates its requests to the control plane, and a
\* Lambda does not send a reference in place of the key, except for an
\* initializer with headscale and OAuth, which nothing refuses.
ServesAuthenticated ==
  boot = "serving" /\ program \in {"initializer", "dev"} =>
    \/ SentCredential \notin IF Dev THEN {""} ELSE {"", "reference"}
    \/ ~Dev /\ setting.control.backend = "headscale" /\ setting.control.oauth
=============================================================================
