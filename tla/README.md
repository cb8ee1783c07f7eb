# Tailfed in TLA+

Tailfed issues OIDC tokens to Tailscale nodes. A client daemon on the node asks
an API to start a *flow*, the API proves that the caller is the node it claims
to be by sending a challenge to the node's tailnet addresses, and the daemon
polls the API until it is given a signed token, which it writes to a file.

This directory holds TLA+ specifications of that protocol and of the daemon,
the TLC configurations that check them on small instances, and theorems about
them checked by TLAPS. The repository has no Go tests: what is stated here is
stated from the source.

    tlc -workers 2 -config issuance_services.cfg MC_Issuance
    tlapm Issuance_proofs.tla        # theorems, in the modules called *_proofs

## 1. Inventory

| Component | State it keeps | Operations | Interacts with |
|---|---|---|---|
| Initializer (`internal/initializer`) | none | `Serve`: look the node up, create a pending flow, launch its verification | control plane, flow storage, launcher |
| Verifier (`internal/verifier`) | none | `Serve`: read the flow, challenge the node, write the flow back as verified | flow storage, the node's challenge servers |
| Verifier state machine (`terraform/lambda-verifier.tf`) | `$retries`, one Map iteration per address | invoke verifiers, wait, give up, mark the flow failed | verifier, flow storage |
| Finalizer (`internal/finalizer`) | none | `Serve`: read the flow, sign a token, delete the flow | flow storage, signer |
| Flow storage (`internal/storage`, `dynamodb.tf`) | one item per flow, with a time to live | `Get`, `Put`, `Delete` | - |
| Launcher (`internal/launcher`) | none / a channel of three (local) | `Launch` | state machine / development launcher |
| API client (`internal/api`) | none | `Start`, `Finalize`, `Config` | the three handlers over HTTP |
| Scheduler (`internal/scheduler`) | ticker, retry timer, shutdown context, three channels | `RunNow`, `Stop`, the select loop | refresher (its job), main loop |
| Daemon main loop (`internal/cli/run.go`) | signal channel of one | boot, reload, terminate | scheduler, refresher, systemd |
| Refresher (`internal/refresher`) | `inFlight` map, listeners, the token file | `Job`, `complete`, `ShutdownInFlight` | API client, tailscaled, file system |
| Refresh command (`internal/cli/refresh*.go`) | none | signal the daemon, wait for the file to change | pid file, token file |
| Pid file and root command (`internal/cli/root.go`) | the pid file | write at start, remove at the end | refresh command |
| Development gateway and launcher (`cmd/dev`) | goroutines, a channel | the state machine again, in Go, over the filesystem store | filesystem store, local launcher |
| Generator and metadata storage (`internal/generator`, `internal/metadata`) | four documents | write the discovery documents | signer, S3 or files |
| OIDC claims, discovery, signing (`internal/oidc`, `internal/signing`) | keys | pure functions; sign | finalizer, generator |
| Control plane clients (`internal/tailscale`) | an OAuth token source | `NodeInfo` of the hosted API and of headscale | initializer |
| Challenge server and local client (`internal/refresher`, `internal/tailscale/local.go`) | the secret and ports of a flow | sign what tailscaled says of the node | verifier, tailscaled |
| Configuration (`internal/configloader`) | none | merge of sources, secrets | all commands |
| Startup (`cmd/*/config.go`, `cmd/*/main.go`, `cli/run.go`) | the structured configuration, the AWS configuration | validate each section, create each backend | configuration loader, AWS, the tailnet, the API |
| Version information (`internal/version`) | none | `GetInfo` | the API's configuration, the daemon's compatibility check |

### What is hard

* **The handlers are stateless and nothing is conditional.** Each reads the
  item of a flow, awaits something slow, and writes or deletes the item
  without a condition. Two verifiers (one per address), the finalizer and the
  state machine's own `updateItem` run on the same item at once; reads are
  eventually consistent; a write that reports a failure may have been applied.
* **Failures are retried at three levels**: the state machine retries a Lambda
  *service* failure while the first invocation may still be running, it repeats
  rounds with waits, and the client retries 409s and transport errors for three
  minutes. Errors *returned* by the verifier are retried by none.
* **The daemon's goroutines.** The scheduler's select takes any ready case; the
  signal loop does not drain its channel while it waits in `RunNow`; `Stop`
  must wait for the job, since the sweep behind it ranges over a map the job
  writes; goroutines of several refreshes overlap on an unprotected map and on
  the token file; and the process exits under them.
* **Files written in place.** The token, the pid and, in development, the flows
  are truncated and then written, and read by other processes meanwhile.
* **Values read once and used for long.** The daemon's frequency, and the key
  behind an alias, are looked up when a process starts.
* **One identity, three sources.** The daemon learns who it is from tailscaled,
  the initializer from the control plane, and the token is written from what
  the initializer stored. Nodes are renamed, re-keyed, moved to other addresses
  and logged in anew in between, and the three learn of it at different times.
* **Configurations that nobody tried.** The gateway, the Lambdas and the client
  validate the same sections by different rules, and a backend is only created
  from what passed them.

### What makes it correct

* No token for a node that did not prove itself; a refusal has a reason; a
  success of the state machine is visible to the finalizer; every execution
  reaches an end, and so does every client whose requests are answered.
* No job while or after the daemon sweeps its flows; a reload is served; a stop
  ends; a retry happens.
* The challenge servers of a flow are up for as long as it is polled and closed
  afterwards on every path; the token file holds a whole token.
* A refresh signals the daemon that runs, and knows whether a token was written.
* The token in the file has not expired, and verifies with the published key.
* A token carries the identity of the node that answered the challenge, and a
  node about which nothing changes is verified.
* Every failure of the generator is reported; the source of highest priority
  decides each configuration value, and a program that serves has its secrets,
  its backends and a credential for the control plane.

`PROJECT.json` lists every component with its status and every hazard with its
line and the properties that would catch it.

## 2. Modules

    TokenPromise            what issuance promises            (abstract)
      ^ implemented by
    Issuance                server side, table, client calls
      MC_Issuance           symmetry for TLC
      Issuance_proofs       types; tokens, refusals and verdicts; the promise

    IdentityPromise         whose identity a token carries      (abstract)
      ^ implemented by
    Identity                nodes, control plane, challenge, claims
      Identity_proofs       its invariants and the refinement

    Scheduler               the scheduler's goroutine, RunNow, Stop
      ^ extended by
    SignalLoop              main goroutine, signals; any job    (abstract for Daemon)
      ^ implemented by
    Daemon  = SignalLoop + Refresher (Job, complete, ShutdownInFlight)
      MC_Daemon             symmetry for TLC
      Daemon_proofs         StopWaits, refinement and the daemon's invariants

    PidFile                 daemons and their pid file
      ^ extended by
    RefreshCommand          the refresh command, and the token file
      MC_RefreshCommand, RefreshCommand_proofs

    DevGateway              the development gateway, implements TokenPromise
      MC_DevGateway, DevGateway_proofs

    TokenLifetime           lifetime, refresh frequency and the daemon's timers
      TokenLifetime_proofs
    Generator               the four parallel writes of the documents
    Signing                 keys: resolving, signing, publishing
      Publication_proofs    proofs about both
    Configuration           the layers of configloader
      ^ extended by
    Startup                 validation and backends, up to serving
      Startup_proofs        proofs about both

### Issuance: the server side and the calls that drive it

One element of `Flows` is one flow; no variable relates two of them.

| Variables | Code |
|---|---|
| `store`, `replica`, `expired` | the DynamoDB item; the copy that a `GetItem` without `ConsistentRead` may return (`storage/dynamo.go:40`); the passing of `ExpiresAt` |
| `initializer` | where `initializer.Serve` is for this flow |
| `execution`, `retries`, `task` | the step function execution: its state, `$retries`, and its Map iterations with the attempts of each |
| `verifier` | the invocations of `verifier.Serve`; `awaited` tells whether the execution still waits for one |
| `finalizer` | the calls of `finalizer.Serve`; `awaited` tells whether the client still waits |
| `client`, `elapsed`, `listening` | where `Job`/`complete` are for the flow, the three minutes of the backoff, the challenge servers |
| `proved`, `signed`, `delivered`, `marked`, `deleted` | history, read by properties only |

A handler is split exactly where it awaits something: `VerifierGet`,
`ChallengeFails`/`ChallengeAnswered` and `VerifierPut` are the three waits of
`verifier/handler.go:39`, `:58` and `:76`, and between them any other process
steps. An item is abstracted to its status and to `full`, which stands for the
secret, the expiry and the identity that are only written together: that is
what tells a flow from the zero `Flow` that `dynamo.Get` makes of a missing
item, and from the item that `MarkFailed` creates when there is none.

`Faults` names what the environment may do: failing (perhaps applied) writes,
stale reads, failing launches, Lambda service failures and kills, a failing
signer, lost answers, the gateway's own errors, and the daemon's exit.

### Identity: whose identity a token carries

| Variables | Code |
|---|---|
| `backend`, `control` | which control plane, and what it knows of each node id |
| `login` | for each machine, the node that it is and what its tailscaled knows of itself (`self`), which may lag behind `control` until `Sync` |
| `flow` | the request of `Start` with its ports (`api/client.go`), then the item that `initializer.Serve` writes: the node that was looked up, and the target of each address |
| `server` | the listeners that `Job` bound and the challenge server on them |
| `answers` | history: which node answered a challenge of the flow as expected |
| `token` | the claims of `oidc.NewClaimsFromFlow` |

`Issuance` takes a challenge to be answered or not; `Identity` says when it can
be, and leaves out what `Issuance` is about (stale reads, overlapping
invocations, retries). A node is its name, the generation of its key, its
tailnet, its addresses and whether it is approved. `Targets` gives each address
the port of its family, `Signatures` is what the challenge server signs
(`refresher/callback.go`), `Expected` what the verifier computes, and
`Reaches` the network, which is external: packets for an address reach the
machine that has it now. `SelfDNSName` and `ControlDNSName` are the two names
of one node, from `tailscale/local.go` and `tailscale/control.go`. A challenge
that is not answered as expected changes nothing here.

### Scheduler and SignalLoop: the daemon's control

`Scheduler` has one action per case of the select, per timer and per step of
`RunNow` and `Stop`. An unbuffered send is `caller = "runnow"` until
`ReceiveImmediate` takes it. `SignalLoop` adds `cli.run.Run`: its signal channel
(a full one drops), the boot requests, `SIGHUP` as `TakeHup` ... `Reloaded`, and
`SIGTERM` as `TakeTerm`, `Stop`'s three steps and `Exit`. The job returns any
result. `Die` is the end of the process at any moment.

### Refresher and Daemon

`Refresher` has the steps of `Job` (look at the node, bind each listener, start
the flow, write the map) and of `complete` (poll, look the servers up, stop
them, create the file, copy, and the deferred stop). Nothing protects
`inFlight`. The write of the map is therefore two steps, and a read in between
has any outcome in `RaceOutcomes`: the Go runtime aborts the process, or the
read finds or misses the entry (`missed` remembers the flows whose last read
did). `Daemon` plugs `Refresher` into `SignalLoop` as
its job (`Job`, `JobReturn`), runs `complete` of every flow beside it, and adds
the sweep of `ShutdownInFlight` before `Exit`.

### PidFile and RefreshCommand: what a refresh knows of the daemon

The daemon is reduced to its life (`life`): the hooks of the root command, when
it takes over its signals (`Notify`), and its ends, in order, with an error, or
killed. The command is the sequence of `refresh.Run`. They meet in two files and
a signal. `open` is the set of daemons whose descriptor is of the file that
has the name: a daemon writes its pid to the file it *created*, which another may
have truncated or removed since. A signal may meet the daemon (`SignalDaemon`),
end it (`SignalKills`, before `Notify`), meet nobody, or go to a number that was
never a daemon's. Nothing in the code keeps two daemons apart: the systemd unit
does (`nix/module.nix`). `alone` remembers whether any two were alive at once,
for the properties that need them apart. `FileFaults` lets the files fail: the
creation or the write of the pid, after which a daemon runs without a pid file
of its own (`wrotePid`) and part of its pid may be in the file (`Strays`), the
removal, which is only logged, and what the command reads. In `RefreshCommand` a daemon writes tokens whenever it likes, so
what it does about the signal is left to `SignalLoop`, and several goroutines of
one daemon are one.

### DevGateway: the same protocol in one process

`initializer`, `worker`, `marker` and `call` are the goroutines of one flow:
`initializer.Serve`, `performVerifyRequest`, `markFlowFailed` and the calls of
`finalizer.Serve`. Handlers are split at their file operations, and `Put` into
the truncation (`Create`) and the encoding (`Encode`), so that a `Get` may meet
an empty file. `bus` is the launcher's channel; `main` is the process: a shutdown
stops the launcher first and then waits five seconds for its handlers
(`Drained`, `DrainTimesOut`). A crash or an exit loses everything but the files;
`Restart` keeps the files and starts no verification of what it finds there.
`refused` are the flows of which a call was answered with a final error;
`disturbed` those of which a call met a half-written file or a failure of its own.

### Generator, TokenLifetime, Signing: what is published, and how long it holds

* `Generator` is the control of `generator.Serve`: spawning, the wait group, the
  four buffered channels and their combination. `Backend` chooses between the
  two `Save`s: a failing write to a directory leaves the old document or half of
  the new one, a failing put to S3 the old one or the new one.
* `TokenLifetime` has a clock. `validity` is the configured lifetime,
  `published` the frequency in `config.json`, `daemon` the ticker and the retry
  timer, `run` the job inside the scheduler, `flows` the goroutines of
  `complete`, each with the token it was given, and `file` the dates of the
  token in the file. `MaxFlow` is the time from the start of a run to its token
  in the file: the three minutes of the backoff, and the requests and the
  shutdown of the servers around them. It is an assumption: nothing in the code
  bounds a request. Dates are cut to seconds as
  `jwt.NewNumericDate` does. The clock does not pass what is due. The channel
  of a ticker holds one tick, and one that finds it full is dropped: after a
  tick is taken, the next is at any later date of the ticker (`NextTicks`), not
  only at the one that follows.
* `Signing` has the keys with their metadata, the alias, the key that each
  instance resolved, the two documents and the tokens. The table of `newKmsKey`
  is one function; what KMS returns and what RFC 7518 asks for are others, and
  are independent of it. `backend` is chosen in `Init`: only an instance that is
  both a finalizer and a generator, the development gateway, can do without KMS.
  `moves` counts, with the moves of the alias, the keys that are generated while
  another is in use or named by a token or a document (`KnownKeys`).

### Configuration and Startup: from the sources to serving

`Configuration` merges what each source says of each key, for each kind of
program: the client reads a file and flags, the development gateway flags, and
the Lambdas secrets of AWS (`Callers`). The values a source has are chosen when
it is read and kept in `given`, from which `Precedence` computes what should
have come out.

`Startup` extends it by what the six programs do next. Two of the values that
the loader handles are followed on: the name of the table (the URL of the API
in the client), and the credential (the verifier's auth key). `Structure` makes
them the program's own, `Validate` goes through its sections one by one
(`Sections`, each with its `...Valid`), `Validated` is the rest of `Validate`,
`LoadAWSConfig` is what only the development gateway has to decide, and
`Create`, `Connect`, `Ask` and `VerifyApiVersion` are the steps of its `Plan`.
Settings that do not come through the loader are chosen when their section is
validated, from all that the validation or a constructor tells apart. Any of
these steps may also fail. `Published` is `version.GetInfo` of the API, with
`Compatible` the daemon's constraint on it.

## 3. Runs

All runs set `CHECK_DEADLOCK FALSE`: a flow ends, and the daemon exits. That
they end only in the states they should is what the liveness properties say.

| Run | Instance | Properties |
|---|---|---|
| `issuance_services` | two addresses, one retry round; stale reads, and failing store, signer, launch, network and gateway; 341,469 states | `MarkedOnlyUnproved`, `SuccessReachesFinalizer`, `TokenPromiseHolds`, `ClientTerminates` |
| `issuance_overlap` | one address, two overlapping invocations, one retried attempt; Lambda failures, lost answers, the daemon's exit; 237,328 states | `TokenOnlyAfterProof`, `RefusalJustified`, `ExecutionTerminates` |
| `daemon_safety` | two flows, races with any outcome, a disk that may fail; 624,442 states | `DaemonTypeOK`, `SweepNeverRaces`, `ServersUpWhilePolling`, `OverIsReleased`, `FileWholeAtRest`, `ClosedAtReturn` |
| `daemon_live` | one flow, a disk that may fail, a boot and requests that may hang; 24,490 states | `ReloadServed`, `StopTerminates`, `RetryHonoured`, `ListenersReleased` |
| `generator` | the code's four documents in a directory, torn writes; 23,107 states | `FailuresReported`, `NoStraggler`, `ServeReturns` |
| `refresh` | three daemons, apart or at once, one command, two tokens, files that may fail; 3,335,531 states | `RunningIsFindable`, `OnlyDaemonsSignalled`, `NoStaleSuccess` |
| `refresh_missed` | one daemon, two tokens | violates `TimeoutMeansNoToken` |
| `dev` | two flows, a channel of one, two attempts, files and a signer that may fail; 246,340 states | `DeletedStaysDeleted`, `RefusalJustified`, `EveryAddressTried`, `TokenPromiseHolds`, `VerdictReached`, `ShutdownEnds` |
| `lifetime` | lifetimes of 24 and 34 ticks, flows of two; one failure, reload, restart and deployment; 11,516,542 states | `TokenFresh`, `NotMuchOlder` |
| `signing` | two keys of any metadata, a gateway that is both; one move of the alias; 264,248 states | `PublishedKeyVerifies`, `UnverifiableOnlyAfterMove` |
| `startup` | the six programs, two keys, every setting; 2,849,104 states | `Precedence`, `SecretsFetched`, `ServesEquipped`, `ServesAuthenticated` |
| `identity` | two machines, two flows, each control plane, two changes to the nodes; 1,889,066 states | `AnsweredByNode`, `StableNodeVerified`, `IdentityPromiseHolds` |

`DaemonTypeOK` is checked because it also bounds the channel of signals. The
types of the other modules are theorems; `Identity_proofs` has those of
`Identity` in its invariant.

### What they show

* A token is signed only for a flow that was proved, although every write is
  blind: only the verifier ever writes `success`, and it does so after the
  challenge, so any order of stale writes can at worst *repeat* a true verdict.
* `SuccessReachesFinalizer`: since the state machine reports success only after
  some invocation's write was acknowledged, and marks a flow failed only in the
  branch in which none succeeded, the two writers of the verdict do not
  disagree. It is checked with failing writes; the theorem holds under Lambda
  failures too, where an invocation nobody waits for may still be writing.
* `MarkedOnlyUnproved`: an invocation that proved the node either reports
  success, or fails the execution *before* `MarkFailed`. With Lambda failures it
  is false by design, and the property says so.
* `RefusalJustified`: as long as no service fails, the client is refused only if
  the flow was marked, has expired, or was consumed by a call whose answer was
  lost. The converse reading is a fact worth knowing: a gateway error, even
  a throttled request, ends a flow for good (`finalize.go:28` retries 409 only).
* `AnsweredByNode`, `IdentityPromiseHolds`: names and addresses are used again by
  other nodes, and still no token names a node that did not answer. The name
  alone would not do, since a machine that logs in anew may take it over, nor
  would the address; the node key, which no other login has, does. And since
  the verifier signs with its own tailnet, a node shared from another one is
  never verified: no token has `external` among its `amr`.
* `StableNodeVerified`: when nothing changed after the lookup, what the daemon
  and the control plane say of the node agree in every field, and the ports
  have not been swapped between the families. It excepts headscale with
  MagicDNS, where they do not (see below).
* `ServesEquipped`: what the validation of a section lets through that its
  program cannot use, the constructor of its backend refuses. What it does not
  cover is whether the resource exists, which only some constructors ask.
* `ServesAuthenticated`: a reference that was not replaced never reaches the
  control plane as a credential in a Lambda, and neither does none at all, but
  for the initializer with headscale and OAuth (see below).
* `ReloadServed`: dropping a signal when the channel is full loses no reload,
  because a channel that is full already holds a signal that leads to a run, or
  ends the daemon.
* `StopTerminates` needs the fairness of select (section 4): due retries may be
  taken instead of the shutdown, but not for ever. Both properties except a boot
  or a job that hangs (`Hung`), which is a real possibility: the daemon's HTTP
  client has no timeout (`run.go:47`), and then no reload is served and no stop
  ends.
* `ClientTerminates`: rounds, retries and refusals add up to an end of the
  client, but for one whose request is never answered (`AnswerHangs`): the three
  minutes of the backoff do not interrupt a request.
* `ServersUpWhilePolling`, `OverIsReleased`, `ListenersReleased`: the listeners
  of one flow are not touched by another's, and are released on every path of
  `Job` and `complete`, unless the very request of that flow hangs
  (`RequestHangs`), or its last read of the map raced with a write and missed the
  entry (`missed`): that one leaks them until the shutdown.
* `ClosedAtReturn`: even those are closed by the sweep of the shutdown, which
  goes through the whole map.
* `FileWholeAtRest`: whenever no goroutine has the token file open it is whole,
  also on a disk that fails, unless two goroutines had it open at once or a write
  failed (`damaged`), and that only until the next goroutine begins it alone. A
  process that ends between the truncation and the copy leaves it truncated
  too. These exceptions are real in this code.
* `DeletedStaysDeleted` holds in development although it fails in deployment:
  there is one worker, its write is its last, and it marks a flow failed only
  after giving up. `DevGateway` implements `TokenPromise` even when files fail,
  and even then `RefusalJustified` names the flow that was disturbed.
* `VerdictReached`, `ShutdownEnds`: the channel of the launcher delays a handler
  but does not lose a flow, and a handler that is blocked on it when its reader
  has stopped is ended by the timeout of the shutdown.
* `RunningIsFindable`: since every daemon writes the file anew, a file that a
  killed daemon left does no harm to the next, and neither does one that could
  not be removed. It needs the daemons to be apart, and so does
  `OnlyDaemonsSignalled`, which excepts the part of a pid that a failed write
  leaves in the file. That a daemon that ended in order is not named is not
  claimed: the removal may fail (`root.go:111`).
* `NoStaleSuccess`: what `refresh --wait` compares with is read after its signal,
  which can make it miss a token (see the finding below), but never take an
  older one for new. A file that was just truncated is excepted.
* `FailuresReported`, `ServeReturns`: the room for one error in each channel is
  what lets the goroutines end before anybody receives.
* `TokenFresh`: a quarter of the lifetime must hold the slowest flow twice, the
  second time for a reload that wrote the older of two tokens last, and a second
  of rounding, provided that no request hangs for longer than `MaxFlow`. `LifetimeAssumption` states this; with flows of at most three and
  a half minutes it asks for a lifetime of 28 minutes and a few seconds, which
  the default of one hour has and the validation does not ask for. A failed flow
  is not retried before the next tick, so each costs one whole period, during
  part of which the token has expired. A daemon that learnt its frequency under
  a longer lifetime is outside of it (`Maintained`).
* `PublishedKeyVerifies`: `kid` names the key that signs, because both come from
  one resolution of the alias, and for every kind of key the scheme, the
  algorithm and the length agree. After the alias has moved there may be tokens
  whose key is not published, and only then.
* `Precedence`: the defaults of flags come last although flags are read last.
  `SecretsFetched`: an unreadable secret ends the program even when a later
  source would have overridden it.
* `UnverifiableOnlyAfterMove` excepts keys on P-521: `discovery.go:9` lists ES256
  twice and ES512 never, and such a key signs with ES512.

`refresh_missed` is recorded as a finding:

* `TimeoutMeansNoToken`. "new token not issued" (`refresh_run_unix.go:65`), but
  the content to compare with is read after the signal was sent, so a daemon
  that was faster is missed.

### Disagreements

Other texts of the repository that the code does not keep. Their statements are
in the modules, each with a comment that says so, and TLC refutes each of them
when it is put into a configuration; no run is kept for them, so that the runs
stay with what holds.

* `DeletedStaysDeleted` of `Issuance`. `storage/types.go:21` says that `Delete`
  permanently deletes a flow. Both addresses are challenged; the first success
  lets the finalizer sign and delete, and the second verifier then writes back
  the copy it read: the item is there again, with its secret and status
  `success`, until it expires.
* `NoRunAfterStop`. `Stop` "finishes any jobs in progress" (`scheduler.go:101`),
  but a due retry may start a new one after the cancellation.
* `RunNowEnqueues`. "RunNow enqueues a run immediately" (`scheduler.go:79`), but
  it waits for the running job.
* `NothingInFlightAtReturn`. `ShutdownInFlight` "shuts down all the in-flight
  refresh flows" (`refresher.go:54`), but it only stops their servers; the
  goroutines go on until the process ends under them.
* `SuccessMeansToken`. `refresh --wait` waits "for the token to be refreshed"
  (`refresh.go:29`), but a token file that was just truncated is a change too.
* `RefreshKillsNobody`. The command "forces the currently running daemon to
  request a new web identity token" (`refresh.go:21`), but a daemon that has
  written its pid and has not reached `signal.Notify` is ended by it.

Others were met on the way, in the code that `Startup` and `Identity` model.
They are built into the modules as the code has them, and the properties name
them where they matter.

* headscale's `GivenName` is the first label of the name (`control.go`), but a
  node of a headscale with MagicDNS reports its full name: the signatures
  differ, and such a node is never verified.
* The comment of `ChallengeResponse` describes other contents than the tailnet,
  name and key that both sides sign.
* The comment on a node's tags says that they are valid ones; the lookup in
  headscale includes `InvalidTags` (`control.go:222`).
* The initializer accepts headscale together with OAuth, which
  `cmd/dev/config.go:228` and the Terraform variables refuse; headscale's client
  ignores it, so requests go out without a credential. It also asks for an
  http(s) URL, while the NixOS test gives its gRPC client a host and a port.
* `cmd/dev/config.go:34` decides whether AWS is needed from the name of the
  *bucket* instead of the backend, so an S3 backend alone does not load the
  configuration and the first write of a document ends the program; `:110` tests
  for a backend that is both `"dynamo"` and empty, so the bucket is never asked
  for.
* `cmd/verifier/main.go:117` reads a field of `CurrentTailnet` before `:122`
  asks whether there is one.

### Bounds

* `Flows`: one in Issuance, since no variable relates two flows. Two in
  `daemon_safety` and `dev`: what one goroutine can do to another's listeners, map
  entry, file or place in a channel needs two; a third adds no pair. One in
  `daemon_live`, where two take TLC longer than is practical; no part of that
  property relates two flows.
* `Addresses`: two where the verdicts are combined, one where it is the
  *invocations* of one address that overlap.
* `MaxRetries` is 5 in the state machine and `MaxAttempts` 3. With one round to
  repeat there is a first, a repeated and a last one; with one attempt to repeat,
  a retried and an exhausted one. `issuance_services` has no attempts to repeat
  because it has no Lambda failures, the only thing that the service retries.
* `Invocations`, of an address at once: two suffice for an abandoned one to race
  with its successor. `Calls`: one here, since the client makes one call at a
  time; that a call it no longer waits for may run beside the next is covered
  by the theorems, which hold for any set of calls.
* `SigBuffer` is 1 and `Jobs` 4, as in the code. `BusSize` is 1 instead of 3 so
  that two flows fill it. `MaxAttempts` of the development launcher is 2 instead
  of 6: as many as there are addresses, the least for `EveryAddressTried`.
* `Daemons`: a pid file has a writer, one that overwrites it, and a third whose
  file either may be. `Tokens`: two, one before and one after the signal.
* `TokenLifetime`: 24 ticks is the shortest lifetime that `LifetimeAssumption`
  allows with flows of two ticks and seconds (`Unit`) of two. `Horizon`, 44, is
  past the second of the periods of 18 ticks, so that a failed run has a
  successor, a restart and a deployment before and after it.
  `MaxFailures`, `MaxReloads` and `MaxDeploys` are 1 each; `MaxBoots` is 2, a
  start and a restart.
* `Signing`: two keys are an old and a new one; `MaxMoves` is how often the alias
  is moved or a key generated.
* `Startup`: two keys, the table and the credential, so that the error of one
  meets the value of the other. Versions have majors 0, 1 and 2, around the
  constraint `>= 1.0, < 2.0`.
* `Identity`: two machines, since a token is about one node and what can go
  wrong is that another answers in its place; a third id, name and pair of
  addresses to change to; two flows, of one machine or of both; two changes, so
  that a node can take over what another has just left. `Ports`, the two that
  one pair of listeners needs, are used again by the next. At most one node is
  shared or waits for approval. A machine that logs in anew takes over the name
  and the addresses together, or neither.

The theorems hold for all values of the constants of their modules.

## 4. Fairness

* Lambda, Step Functions and the client's goroutine run what they accepted
  (`WF` on the handler steps, on the state machine, on polling). That an answer
  reaches the client that waits for it is not fair. No fault, no
  expiry and no replication is fair: the properties hold whether or not they
  happen. `Elapse` is fair because it is the clock.
* Go's select picks uniformly among the ready cases, so a case that is ready
  again and again is taken: `SF` on each receive. The tick is not fair.
* Nothing makes the boot or a job return, or a request end: the daemon's HTTP
  client has no timeout (`run.go:47`). The properties except the behaviours in
  which one hangs instead of assuming that there are none: `Hung` (the boot or
  the job, in `ReloadServed` and `StopTerminates`), `RequestHangs` (a request of
  that flow, in `ListenersReleased`) and `AnswerHangs` (an answer to that client,
  in `ClientTerminates`).
* `Die` and `Abort` are never fair.
* The development gateway's goroutines and those of the generator run until
  their process ends. Nobody has to call, shut down, crash or restart anything.
  `DrainTimesOut` is fair together with `Drained`: the five seconds pass.
* `TokenLifetime` states no fairness: that a run ends within `MaxFlow` is a guard
  on the clock, and an assumption that a request that hangs breaks. `RefreshCommand`, `Signing`, `Startup` and `Identity` have safety
  properties only; what must eventually happen to a flow is `Issuance`'s.

## 5. Proofs

The theorems hold for any flows, addresses, bounds and sets of faults, under
the `ASSUME`s of the modules, which only say what the constants are. TLC
evaluates them in the runs.

**Issuance_proofs** - `TypeInv` is `TypeOK`, inductive as it stands; one step
per action. `TokenOnlyAfterProof` is not: signing looks at the table, not at
`proved`. `ProofInv` adds where a success can come from:
`StoreProved` (an item or replica that says success belongs to a proved flow),
`VerifierProved` (so does the copy an invocation holds, and an invocation about
to write has proved the flow), `CallsProved` (a call about to sign, delete or
answer 200 belongs to a flow proved, and from there on signed) and
`HistoryOrdered` (delivered within signed within proved). It yields
`TokenSafety`, and with it `IssuanceKeepsPromise`: every step is a `Prove`,
`Sign` or `Deliver` of `TokenPromise` or a stutter.

The other three safety theorems are about one flow at a time: `OthersUntouched` shows
that a step is of one flow, and `StepInv` is the conjunction, over all flows, of
two invariants of one. `RefusalInv` follows the item: once a flow was started it
is there, and not marked, or there is a reason why not (`ItemInv`); what is
written back was read with its secret (`CopyInv`); so a call that refuses has
seen a reason (`RefusedInv`). `OutcomeInv` follows the verdict: the Map awaits at
most one invocation of an address (`AwaitInv`), the execution begins after the
flow was written and ends with a mark (`OrderInv`), an invocation reports success
only once it is written (`VerdictInv`), and an execution of a proved flow has
either succeeded, or crashed unmarked, or still has the proof before it
(`ProvedInv`). They yield `RefusalsAreJustified`, `SuccessIsStored` and, for a
Lambda service that loses no answer, `MarksAreUnproved`.

**Identity_proofs** - `IInv`: each machine is a node of its own, present and in
its tailnet (`LoginInv`); what is stored is what the control plane returned, and
a node once external stays so (`FlowInv`); a flow that succeeded was answered by
its own node (`AnswerInv`), and so was the one of a token (`TokenInv`). That the
answer came from that very node is the uniqueness of node keys and of logins.
It yields `TokenIsAnswered` and `IdentityRefinement`. `UndisturbedIsVerified` needs
the ports besides (`PortInv`): the port of a family in a target is one that the
flow's own server listens on.

**Daemon_proofs** - For the signal loop, `StoppedIsQuiet` needs `LoopInv`: a value
in `shutdownComplete` means that the goroutine is done, and a done goroutine does
not start again. It yields `StopWaits`. `DaemonImplementsLoop` shows that every step of the daemon
is a step of the signal loop, so what is proved of the loop (`StopWaits`) is
inherited instead of proved again. On top of it: `JobInv` (a job that is under
way is inside a running scheduler), `RecordedInv` (what is started, recorded
and running agrees) and `FlowInv` (the listeners of a flow follow from where
its job or goroutine is). They yield `SweepSafe` - Stop waits for the
goroutine, a job is inside it, hence nothing writes the map during the sweep -
`ServersStayUp`, `NoListenerLeaks` and `DaemonTypeCorrect`. `FileInv` says that
at most one goroutine has the file open, which is empty then and whole
otherwise, or else the file is `damaged`, which only a goroutine that truncates
it alone ends; it yields `TokenFileIsWhole`, on a sound disk and on one that
fails. `SweptInv` says that what the sweep has been through stays closed; it
yields `ReturnClosesListeners`: when Run returns every listener is closed,
though goroutines may still poll.

**Publication_proofs** - Of `Generator`, `GenInv` counts: the wait group is the number of
goroutines between their start and `Done` (`CountInv`, with the library's facts
on cardinalities), Serve is past `Wait` only when all have ended
(`ProgressInv`), and an error is in exactly one place (`ErrorInv`,
`CombineInv`). What a save leaves behind is needed only as a fact about both
backends (`SavesDocument`): one that succeeded leaves the new document. It
yields `FailuresReported` and `NoStraggler` for any number of documents.

Of `Signing`, `SigningInv`: keys change in nothing but their enablement
(`KeysInv`), an instance holds a key that it can sign with (`SignerInv`), and what
was published or signed says of its key what the table says (`JwksInv`,
`TokensInv`). Lemma `AlgorithmMatches` compares the table with RFC 7518, for each
kind of key, and `SignatureMatches` what KMS returns, transformed, with the table.
They yield `PublishedKeyVerifies` for any keys, instances and moves of the alias.
For `UnverifiableOnlyAfterMove` the invariant is that, before the first move,
one key is all that instances hold, documents list and tokens name
(`MovesInv`, with `Only(k)`); what `SigningInv` says of one key does the rest.

**RefreshCommand_proofs** - `RefreshInv`: who wrote the file knows it
(`WrittenInv`), a daemon that is alone has no other's descriptor or remains to
fear (`ExclusiveInv`), and has its pid in the file from the write to the removal
(`FindableInv`), whatever files fail. It yields `RunningIsFindable` and
`OnlyDaemonsSignalled`. `PollInv`, that until something is written the file is
as the command found it, or truncated, yields `NoStaleSuccess` (`SuccessIsFresh`).

**DevGateway_proofs** - `DevInv`: a flow is in the channel at most once and only
before its worker (`LaunchInv`); whoever reads success reads what a worker wrote
last, after a proof (`ProofInv`); and what a call that is about to refuse has
seen, which outlives what the others do to the file (`RefusalInv`, kept by each
step by lemma `RefusalKept`). It yields `TokenOnlyAfterProof`,
`DeletedStaysDeleted`, `RefusalJustified`, and that the gateway implements
`TokenPromise`. `TriedInv`, that the second attempt follows one at the second
address and the third one at the first, yields `EveryAddressTried`.

**TokenLifetime_proofs** - `TokenFresh` is about real time: that the ticks a
daemon took were often enough for the token it has, whatever was dropped, came
late or failed. The invariant `LifeInv` has four parts besides the types. The
tick before the one that is due has passed (`TickerInv`). No run and no flow is
late (`RunsInv`). A token is as old as its run, up to the rounding of its dates
(`TokenInv`). And each date of the ticker, taken or dropped, is covered
(`CoverInv`): a run that was in progress then has failed or not ended yet
(`Attempted`), or what is in the file, and whatever can still come into it, was
issued at most a flow before that date (`Recent`). Were the token expired for
longer than the failed runs account for, each of the dates since would need a
failed run of its own: an injection of the dates into `failed`, which has fewer
elements (lemma `EnoughTicks`, with `FS_Injection`). What the dates are needs
facts about `\div` and `%` that are lemmas of their own. It yields
`TokenStaysFresh` for any lifetimes, `Unit` and `MaxFlow` with
`LifetimeAssumption`: a quarter of the lifetime holds two flows and the
rounding. `NeverMuchOlder` is an action property from the same invariant.

**Startup_proofs** - `StartInv` follows a program from its sources to serving.
The loader (`LoadInv`): at each stage, the value of a key is that of the source
of highest priority among those read (`Decided`), and in a Lambda no value is a
reference that was not replaced. One lemma says that a source merged over what
was read decides the keys it gives (`MergeDecides`); the flags need one of their
own, since a default decides only what nothing else does. It yields
`LoadsByPrecedence`, `LoadsAllSecrets` and `LoaderTypeCorrect`. The sections
(`ValidationInv`): each section validated so far holds what its validation let
through (`Checked`), because no program has the same section twice. The
backends (`BuildInv`): each part created so far was one that could be, and
what that looked at has not changed (`Built`). The two theorems then go
through the six programs: `ServingIsEquipped` takes from `Checked` what a
validation guarantees, from `Built` what the constructors do, and the
development gateway needs besides that what asks for AWS is what uses it;
`ServingAuthenticates` is the validation of the control plane, with the
references that `LoadInv` excludes.

**What the liveness rests on** - Liveness under fairness is out of TLAPS's reach,
but its cores are safety, stated with the guards of the actions instead of
ENABLED, and proved for every value of the constants, where the runs can only
show small ones:

- `NobodyWaitsInVain` and `StepsRunOut` (Publication_proofs), for `ServeReturns`:
  whoever has work left can do it - a failed job's send finds room, the wait group
  waits for goroutines that are active, a channel that is received from is full
  or closed (`ClosedInv`) - and every step strictly shrinks the finite sets of
  what each goroutine and Serve still have to do (`Todo`).
- `LoopNeverWaitsInVain`, inherited as `DaemonNeverWaitsInVain` (Daemon_proofs), for
  `ReloadServed`, `StopTerminates` and `RetryHonoured`: an unserved reload is in the
  signal channel, behind what filled it, or in RunNow, whose receiver is alive; a retry
  has its timer; Stop has cancelled before it waits, and finds the completion of
  a goroutine that is gone. `BootInv`, that nothing is started before, makes it
  inductive.
- `NobodyWaitsInVain` (Issuance_proofs), for `ExecutionTerminates` and
  `ClientTerminates`: a running task of the Map has an awaited invocation at work
  (`WorkInv`; `AwaitInv` says at most one), a polling client at most one call, at work, and
  its challenge servers up.
- `NoAcceptedFlowIsLost` (DevGateway_proofs), for `VerdictReached`: an accepted flow
  without a worker is in the channel, whose reader runs for as long as the gateway
  serves, and a flow given up has a marker.

That each of these waits is then over, given fairness, and that progress adds up
to the end, is what the liveness runs show.

Only model-checked: all liveness (out of TLAPS's reach, as is ENABLED). Every
invariant and action property that a run checks is also a theorem. The prover's
other limits, induction over recursive data and `RECURSIVE` operators, are not
met: no module uses recursion.

## 6. What is not modelled

* Inside the modelled components: real time outside `TokenLifetime` (timers fire
  at any later moment; expiry and the three minutes are events), JSON and wire
  formats, the claims copied from the flow, the cryptography of MACs and
  signatures (a MAC is valid exactly when made with the flow's secret, a
  signature when made with the key and scheme), logging, the systemd watchdog.
  `tailscaled`, the control plane, KMS, koanf and pflag are modelled by what
  their callers see.
* A pid is not used again by another process. A daemon in `RefreshCommand` and a
  flow in `TokenLifetime` write the token file in the simplest order their
  module is about; `Refresher` has the overlapping writes.
* The development gateway verifies with one call at a time per flow, as its
  launcher does; its HTTP server's own limits are left out.
* In `Identity`, the claims that are only copied (tags, host name, operating
  system), and more than one answer at a time to one challenge; in `Startup`, the
  settings that no check tells apart, and the texts of the errors.
* How a version is printed, and the version of the command line.
* Never: HTTP gateway adapters, logging and plain resource declarations, which
  keep no state.

## 7. Plan

Done: all modules of section 2, a theorem for each safety property that a run
checks, and the safety cores of the liveness properties. What is left:

1. Composition: the token file of `Refresher` under `RefreshCommand`, so that the
   refresh is answered by the daemon's own steps, and `Generator` under `Signing`,
   so that the two documents are of one run.
2. Proofs about these compositions: that what is proved of the parts is inherited.
