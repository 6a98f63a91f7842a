# Verification of the Azure Key Vault provider for the Secrets Store CSI driver

TLA+ models of the provider in `src/`, TLC configurations that check them on
small instances, and TLAPS proofs of the properties that matter most for every
value of the constants. `PROJECT.json` maps every definition to the source
lines it models and lists runs, mutants, findings, hazards and theorems.

## The system

The CSI driver on a node calls the provider's gRPC `Mount` for every pod that
uses a SecretProviderClass, and again at each rotation poll. The provider reads
the named objects from a Key Vault and returns them as files; the driver writes
the files into the pod and records the object versions. Nothing is persisted.

| Component | Source | State | Operations | Hard because | Correct when |
|---|---|---|---|---|---|
| Mount handler | `pkg/server/server.go`, `pkg/provider/provider.go` | per request: parameters, cloud, client, files | parse and check, set environment file, make client, resolve versions, fetch, reply | requests are concurrent; any request to Key Vault may fail | a success is complete, a failure has no files, every request is answered |
| Environment file | `provider.go` `setAzureEnvironmentFilePath`, `parseAzureEnvironment` | `AZURE_ENVIRONMENT_FILEPATH`, one per process | write, read | written and read by all requests without a lock | a mount resolves the cloud of its own file |
| Authentication | `pkg/auth/auth.go`, `buildAuthConfig` | `proxyTransport`, set once | choose identity mode, token, credential, transport | four modes, two audiences, map iteration order | the credential is the one asked for; a token stays on its channel |
| Versions | `getLatestNKeyVaultObjects`, `pkg/provider/keyvault.go`, `types.go` | none | list, sort, select N | the vault changes between listing and fetching; a listing has no bound but the deadline; sort is unstable | the versions asked for, newest first, none skipped |
| Object content | `getSecret`, `getKey`, `getCertificate`, `splitCertAndKey`, `getContentBytes` | none | convert, split, decode | several files of one fetch | certificate and key belong together |
| PEM chain | `fetchCertChains` | none | decode, link, find leaf, walk | identifiers may be absent, repeated, circular | server first, root last, nothing lost; it ends |
| Validation and getters | `validate.go`, `types/parameters.go` | none | trim, check | unchecked fields | what later code relies on has been checked |
| Lifecycle | `cmd/main.go` | socket file, umask, listener, signal channel | start, listen, serve, stop | kills at any point, a socket that outlives its process, pods that overlap, signals before anyone waits | the Unix socket is private and leads to the server; a signal ends the process and lets mounts finish |
| Health check | `pkg/server/healthz.go` | health port | bind, probe | the port may be taken, the socket may be another's | a node that cannot be reached recovers |
| Proxy transport | `internal/identitybinding` | three environment variables | compute the server name, save, set, build, restore | failures half-way, CA rotation during the call, an API server that does not answer | the environment is as it was; the transport is the flags' and the cluster's; `main` gets on |
| Metrics | `pkg/metrics`, `pkg/utils/grpc.go` | two package variables | export, make a reporter, record | every RPC assigns the variables while others use them, and before it looks at the error | no measurement on a torn instrument, none lost |
| Version, mocks, charts | `pkg/version`, `manifest_staging`, `test` | none | | | not modelled |

Components interact by calls within one handler. What handlers share is the
environment variable, the proxy transport, the metrics instruments and the
vault; what processes share is the socket's path and the health port of the node.

## Modules

`Auth` is the choice of credential as functions of the request's parameters
`a`: `IdentityMode`, `ParsedAudience`, `AuthConfigs` (a set, because Go's map
order decides between keys that differ in case) and `GetCredential`. A token is
represented by its audience, a channel by its name.

`KeyVaultObject` is one entry of the objects array: validation, file name, UID
and permission, `GetLatestNKeyVaultObjects` on a sorted list of versions, and
what parts and bytes each kind of vault value becomes. Versions are numbered in
order of creation; `NoVersion` is "", `LatestVersion` is "latest".

`VersionSelection` is the promise of `resolveObjectVersions` for an entry with a
history: in one step, the newest versions out of a set that has every version
enabled throughout the call and none that was never enabled during it.

`LatestVersions` is the code behind it: one action per page of the listing
(`NextPage`, `NextPageFails`), the unstable `Sort`, and one per round of the loop
(`Scan`, `EndOfVersions`), with the vault's owners between any two of them. The
three listings of `keyvault.go` are the same code and one model. A page may be
empty and have a next link all the same, so the listing need not end by itself;
`Deadline` is the end of the time the driver gave the RPC, after which a page can
only fail. A version without attributes, which the loop passes over, and one
without a creation time, which it gives the epoch's, are not in the model: Key
Vault always sends both. The refinement mapping shows `phase` as calling, done or error, and `objects` once it is done.

`Mount` composes `Auth` and `KeyVaultObject`. Its variables are the handler's
locals (`pc`, `attr`, `cloud`, `cred`, `entry`, `resolved`, `files`), the
process's `envFile` and `proxyTransport`, and the vault's `created` and
`enabled`. A handler's code between two points where another actor can be
observed is one action. A listing begins and ends, and in between `throughout`
and `sometime` follow the vault: this is `VersionSelection` inside the handler,
with the same operators `Listings`, `SortedLists` and `GetLatestNKeyVaultObjects`.
The listing of an object that the vault does not have is empty or fails.

| Action | Code |
|---|---|
| `Arrive` | the driver calls Mount |
| `SetAzureEnvironmentFilePath` | Mount and GetSecretsStoreObjectContent up to the write of the variable, with every rejection before it |
| `InitializeClient` | parseAzureEnvironment (the read of the variable) to the Key Vault client |
| `ResolveObjectVersions` | the next entry, up to the start of its listing |
| `SelectVersions` | the end of the listing, sort and selection |
| `GetKeyVaultObjectContent` | one fetch and the files made of it |
| `ReturnFiles` | the end of the loop and the reply |
| `Rotate`, `Disable`, `Enable` | the vault's owners (external) |

`steady`, `arrival` and `nearby` are auxiliary: what the vault and the other
requests were like while a request was running. They occur in no guard.

`CertChain` is `fetchCertChains`, one action per loop iteration, for every
combination of key identifiers: present, absent (`nil`), empty, repeated and
circular, and blocks that do not parse.

`Lifecycle` is `main` on a node. A process slot is the container of one pod;
`pc` is where its `main` is, `serve` and `health` are the goroutines it starts,
`signalChan` the buffer of one signal, `umask` and `listener` what they say.
`socket` is the file at the path with its owner and mode, and `port` the holder
of the health port, which is the node's: both are shared by the pods. Each
action of `main` is one of its blocks, in its order (`SetProxyTransport`,
`CheckFlags`, `RemoveSocket`, `Umask0077`, `Listen`, `RestoreUmask`, `GoServe`,
`GoHealth`, `ReceiveSignal`, `GracefulStop`, `MainReturns`); `Serve` and
`HealthServe` run beside it. `Exit` is the end of a process: a Unix socket's file
stays. `CloseListener` unlinks the path whoever's socket is there, as Go's
`UnixListener` does. `Probe`, `DialUnixSocket`, `ProbeSucceeds` and `ProbeFails`
are a liveness probe through `HealthZ.ServeHTTP`; a failed one makes the kubelet
send SIGTERM. `Kill`, `Signal`, failed system calls and spurious timeouts are
faults; `Replace` is the DaemonSet's update. A TCP endpoint has no file mode
(`"any"` in `NewSocket`): the umask says nothing of it, and `SocketPrivate` is about
Unix sockets. A panic of `CreateProxyTransport` is a case of `Kill`, and as such
bounded by `MaxFaults`: on a cluster whose certificate makes it panic at every
start, `SelfHeals` does not hold (see the findings). Of a mount only its connection is
modelled here; what it does is `Mount`.

`ProxyTransport` is one call of `CreateProxyTransport`: `Begin`, `ReadCAFile` and
`DialAPIServer` (`computeSNIName`), `SetEnv` (save and set),
`NewWorkloadIdentityCredential` (the SDK reads the environment; then
`extractProxyTransport`) and `RestoreEnv` (the deferred function). A certificate
name is what the code looks at: whether it has the API server's form, and the
identifier in it, which may be empty; in a name whose prefix and suffix share
their dot (`Overlap`) there is no room for one and the slice panics. `RotateCA` is
the kubelet's and the API server's, and `APIServer` makes the latter come and go.
The environment is the three variables the code saves and sets. The SDK may read
others, which the code leaves alone and the model does not have.

`Metrics` is the package variables `keyvaultRequest` and `grpcRequest`, which each
RPC's `NewStatsReporter` assigns without a lock while other RPCs use them. They
are Go interfaces, two words each, and a racing load may see one word of one
store and the other of another, so `Store` and `Load` take a word at a time in
any order. `Float64Histogram` gives a histogram, or an error with a histogram or
nil. `Store` puts either into the variable before `AfterCheck` looks at the error,
so until `Panic` ends the process other RPCs may load a nil and panic themselves
(`RecordPanics`).

`MCMount`, `MCCertChain`, `MCLatestVersions`, `MCLifecycle`, `MCProxyTransport`
and `MCMetrics` give the constants their values. `KeyVaultObjectProofs`,
`MountProofs`, `MountSafetyProofs`, `CertChainProofs`, `LatestVersionsProofs`,
`LifecycleProofs`, `ProxyTransportProofs` and `MetricsProofs` hold the proofs. Definitions marked
"Mutant" change the definition after them the way a plausible bug would; each
property of a passing run is violated under its mutant.

## Runs

| Run | Checks | Bounds |
|---|---|---|
| `versions` | `TypeOK`, `CompleteResponse`, `NoVersionSkipped` | one mount that may be repeated, nine kinds of entry, one of them of an object the vault does not have, four versions |
| `content` | `CertAndKeyBesideSecret`, `MountReplies` | one mount that may be repeated, formats, encodings and refused requests, two versions, separate files on |
| `identity` | `CredentialMatchesRequest`, `EnvironmentFromOverlap` | two mounts, a selection of each mode's tokens and secrets, two readable files and a broken one |
| `chain` | `TypeOK`, `ReorderedIsChain`, `CycleIsReal`, `CompleteChainIsReordered`, `Returns` | four certificates, two key identifiers |
| `latest_versions` | `TypeOK`, `ImplementsSelection`, `CallEnds` | four versions, pages of two, two changes during the call |
| `lifecycle` | `TypeOK`, `SocketPrivate`, `InitializedBeforeServing`, `ServingIsReachable`, `MountsDrained`, `SignalEndsProcess`, `SelfHeals` | two pods, one after the other or at once, one mount, every kind of endpoint, two faults |
| `proxy_transport` | `TypeOK`, `Hermetic`, `TransportAsConfigured`, `ComputedNamePinsCA`, `CallReturns` | two CAs, two clusters, seven certificates, variables unset, empty or stale |
| `metrics` | `TypeOK`, `WholeInstrument`, `NothingLost` | three RPCs |
| `history`, `permission`, `own_environment`, `health` | a statement of a document or a comment, violated | the smallest instance that shows it |

Why the bounds are enough. Four versions are one more than the history of three
with a pinned version, so there is a version newer than the pinned one, and two
may share a creation time on either side of it. Two mounts are one that reads
and one that overlaps it or has ended: requests end and arrive again, so a stale
environment file can occur. Requests share nothing but that file, which is why
`versions` and `content` have one. The parameters of `identity` are a selection:
`CredentialIsRequested` is proved for all of them. Four certificates and two key
identifiers are a server certificate without a subject key, an intermediate, a
root and one that belongs to none of them, or a circle of two behind a leaf with
one left over, without which the counter could not go wrong; the invariants are
proved for any number.
Pages of two out of four versions (`PageSize`, `MaxVersions`) are a listing of
two full pages and, when a version is created meanwhile, a third; two changes
(`MaxChanges`) are a version that is disabled before its page is read and enabled
after it, or the other way round. The number of pages has no bound: empty ones
with a next link may go on until the deadline, which is why `CallEnds` does not
rest on these bounds. Two faults (`MaxFaults`) are a process that is
killed with its socket in place and a successor whose start fails. Two pods are
the one whose listener is closed late and the one whose socket that unlinks and
whose health port is taken; mounts do not act on each other, so one is enough.
Two CAs are the file's before and after a rotation. Three RPCs are one that
loads and two that store the two words in different orders.
Symmetry is over requests and RPCs, which are only compared; no run that checks
liveness uses it.

`CHECK_DEADLOCK FALSE` is used for `CertChain` and `LatestVersions` only: a
function that has returned stops. The others never deadlock.

### Fairness

`FairSpec` of `Mount` assumes weak fairness of each handler: Go schedules every
goroutine, and a request to Key Vault ends with an answer, with the SDK's last
retry or with the deadline of the RPC, which the context carries. Nothing is
assumed of the vault or of the driver: no version need ever be created and no
request need arrive. `FairSpec` of `CertChain` lets a running function run. That of
`LatestVersions` lets the call run, which includes that each request for a page
ends, and time pass (`Deadline`); it does not assume that the listing has a last
page. The deadline is not set in this repository: it is that of the volume operation
the driver's call is part of, which gRPC hands on in the context.
`FairSpec` of `ProxyTransport` lets the call run: its one wait, the dial, has a
timeout of ten seconds. It does not assume that the API server ever answers. `FairSpec` of `Lifecycle` assumes weak fairness of the
kubelet's restarts and probes, of `main` and each of its goroutines, and of the
mounts being handled, which `MountReplies` shows to end. Faults are bounded and
replacements end when every pod has been replaced; nothing is assumed of them.

### Findings

Four statements of the documentation, of comments or of the code itself do not
hold.

* `history`: an `objectVersionHistory` of N is served N+1 versions.
* `permission`: a malformed file permission is not rejected and becomes mode 0.
* `own_environment`: concurrent mounts can resolve each other's environment.
  `EnvironmentFromOverlap` is what remains true: never a file of a mount that
  had ended, for a mount that names one.
* `health`: a health server that cannot bind its port is not fatal, because the
  condition on the error is inverted. `SelfHeals` is what remains true: probes
  that nobody answers, or that find no server at the socket, restart the pod.

Four more are in the model as they are in the code and have no run of their
own, since a single call shows each. `extractClusterID` panics on a certificate
whose first API server name is `hcp-kubernetes.svc.cluster.local`: prefix and
suffix share a dot, both tests pass, and the slice's end is before its start. `GetObjectUID` gives two entries that pin
different versions of one object the same UID, which a comment calls unique. A
client ID without a token is an error in `AuthConfigs` although the mount has a
complete service principal to fall back to. `Validate` refuses a key or
certificate with the format `pfx` and lets `PFX` pass: of its two comparisons only
one ignores case.

## Proofs

All constants are arbitrary, subject to the named assumptions: `MountAssumption`
(parameters have the getters' types; file, cloud and identity names differ from
the words the model reserves and from the token audiences), `FlagAssumption`,
`CertChainAssumption`, `LatestVersionsAssumption` (entries have the code's types
and a history; the pages have room), `LifecycleAssumption`,
`ProxyTransportAssumption` (names differ from the reserved words; the hash of
cluster identifiers is injective) and `MetricsAssumption`. TLC evaluates them in
every run.

* `MountProofs!TypeCorrect`: `Spec => []TypeOK`. `TypeOK` is not inductive: a
  fetch takes the head of `resolved`, and the versions sorted are those that
  exist. `TypeInv` adds `FetchHasObject` and `EnabledExist`. One lemma per
  action.
* `MountSafetyProofs!EnvironmentIsFromOverlap`: `EnvironmentInv` adds that the
  files of all requests in flight are `nearby` each of them (`InFlightNearby`),
  and that between a request's write of the variable and its read the variable
  holds a nearby file (`EnvFileNearby`): any later writer is in flight with it.
* `MountSafetyProofs!CredentialIsRequested`: `CredentialInv` adds that a handler
  that makes a client has had its identity mode checked; the lemma
  `CredentialFitsParameters` goes through the modes, and `ModesExclusive` turns
  the count of enabled modes into their exclusion.
* `MountSafetyProofs!CertAndKeyOfOneVersion`: the files of one fetch are together
  by themselves (`PartsTogether`) and appending them to others separates none
  (`AppendTogether`), so `FilesTogether` holds at any time, not only at the reply.
* `MountSafetyProofs!ResponseIsComplete`, `NothingSkipped`: both speak of a reply
  and are not inductive, since the files of a reply come from listings that have
  long ended and the vault has changed since. `Progress` says what a handler has
  at every point on the way: each entry before the current one has been served
  (`EntryServed`); of the current one, the versions in its files and those still in
  `resolved` are together a right selection, in index order (`EntryFetching`); no
  file belongs to an entry that has not begun; and while a listing is under way,
  what has been enabled since the mount arrived is part of `throughout`.
  `SelectionIsRight` shows that what `getLatestNKeyVaultObjects` picks from any sorted
  listing is such a selection; a fetch moves one object from `resolved` to the
  files and keeps the union; and a change of the vault keeps every selection,
  since versions only get more and what was enabled all the time only gets less
  (`SteadyEnabled`, `KeepsProgress`). A version that is
  disabled between listing and fetch may be served or fail the mount; both
  theorems hold either way. TLC checked `ServingInv` on the instances of
  `versions` and `content` before it was proved.
* `CertChainProofs!TypeCorrect`, `ReorderingIsCorrect`, `CycleErrorIsCorrect`:
  the invariant says the chain follows parents, that every parent is an issuer,
  and that a repetition in the chain means a circle. A chain as long as there
  are nodes without repetition has them all, by counting.
* `CertChainProofs!CompleteChainsAreReordered`: `LoopsInv` adds that a linked node
  without a parent has no issuer and that `isParent` holds the parents, so the
  parents of a complete chain are the next ones in it (`CompleteParents`) and the
  walk is always a prefix of it (`AlongTheChain`).
* `LatestVersionsProofs!Refinement`: `Spec => Selection!Spec`. `ListingInv` says
  that of the versions the pager has been past, none that was enabled throughout
  is missing from `kept`, and that none is there that was never enabled;
  `LoopInv` that the loop has, at every round, an object for each version from the
  first wanted one on. When the loop ends, by its break or by the end of the
  list, its objects are `GetLatestNKeyVaultObjects` of a list in
  `Listings` and `SortedLists`; every other step of the code is a stutter, and the
  vault's steps are the same in both specifications.
* `LifecycleProofs!SocketIsPrivate` (of Unix sockets),
  `HandlersSeeInitializedState`, `StopDrainsMounts`: `SafetyInv` says which phases of `main` come after the
  transport, the umask and the listener, and that a queued or handled mount's
  process is in a phase that late. It needs no bound on pods, mounts or faults
  and holds for overlapping pods too.
* `LifecycleProofs!SocketIsReachable` holds until two pods have overlapped, which
  the auxiliary variable `overlapped` records: `ReachInv` says that until then one
  process runs at a time and the socket is its own from `Listen` to
  `GracefulStop`. After an overlap it is false: closing a listener unlinks the
  successor's socket, and `SelfHeals` is what TLC checks instead.
* `ProxyTransportProofs!CallIsHermetic`, `TransportFollowsFlags`,
  `ComputedNameKeepsCA`: the invariant says what has been saved and set at each
  point, and that a computed server name implies that the CA file is there for
  the rest of the call.
* `ProxyTransportProofs!TypeCorrect`: `TypeOK` needs `NameInv`, without which a
  variable could be set to the empty server name. The identifier comes from the
  first name of the certificate that has the API server's form; that there is a
  first one is `LeastOf`, from the well-foundedness of the naturals.
* `MetricsProofs!RaceIsBenign`, `AllMeasured`: no thread ever has anything of the
  stand-in, since `main` installs the exporter before any reporter is made
  (`ProviderInv`, `NoStandIn`), which is all that `AllMeasured` needs. A thread with
  an error is on its way to the panic (`FailingInv`). As long as there is none
  (`Healthy`), what is stored is of the exporter's kind, what a thread has stored
  stays stored, whoever stores over it (`StoredInv`), and so what it loads is whole
  (`LoadedInv`). The race is harmless because all racing values have the same
  type and meaning, not because it is synchronised: once a histogram cannot be
  made, the value stored before the panic may be nil, and `WholeInstrument` excepts
  the RPCs that run in the moment between.
* `TypeCorrect` of `LatestVersionsProofs`, `LifecycleProofs` and `MetricsProofs`.

Every invariant, every action property and the refinement that a passing run
checks is the statement of a theorem. Model-checked only is liveness
(`MountReplies`, `Returns`, `CallEnds`, `SignalEndsProcess`, `SelfHeals`,
`CallReturns`): it needs fairness and `ENABLED`, which the provers do not handle.
The four findings are counterexamples of TLC's.

## Not modelled, and the plan

Bytes of DER, PEM and PKCS#12, HTTP exchanges and logs are abstracted or left
out. Also left out: the HTTP servers for metrics and profiling, which only read;
the `--version` flag, which ends the process before it does anything; the umask
and paths of Windows; the SDK's retries within one request; mocks, end-to-end
tests, charts and manifests. The `Version`, `List` and `Watch` RPCs return
constants.

Built, in this order: `Auth`, `KeyVaultObject`, `Mount`, `CertChain`, their runs
and proofs; `VersionSelection`, `LatestVersions` and the refinement; `Lifecycle`
with the health check; `ProxyTransport`; `Metrics`; and their proofs. Next:

1. The safety part of the liveness properties: for each loop, a variant that
   every step of the handler decreases (the entries and objects left in `Mount`,
   the names left in `CertChain`, the versions left in the loop of
   `LatestVersions`), as action
   properties, so that only fairness is left to TLC.
2. What remains true of the findings, as theorems: at most N + 1 versions are
   served for a history of N.
