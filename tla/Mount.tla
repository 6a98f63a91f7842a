-------------------------------- MODULE Mount --------------------------------
(***************************************************************************)
(* The provider's Mount RPC: the handlers of concurrent mount requests,    *)
(* what they share inside the process, and the Key Vault they read while   *)
(* its owners rotate and disable versions.                                 *)
(*                                                                         *)
(* A request is one handler goroutine of the gRPC server.  Its code runs   *)
(* as one atomic step between the points where others can be observed:     *)
(* the write of AZURE_ENVIRONMENT_FILEPATH, the read of it, and each       *)
(* request to Key Vault.  A listing of versions is many requests: here it  *)
(* begins and ends, and VersionSelection says what may come of it.         *)
(***************************************************************************)
EXTENDS Auth, KeyVaultObject

CONSTANTS
    Requests,        \* handler goroutines
    Attribs,         \* the parameter sets the CSI driver may send
    Identities,      \* client IDs and client secrets
    Files,           \* cloud environment files named anywhere
    ReadableFiles,   \* the ones that exist and parse
    KnownClouds,     \* names in go-autorest's table of environments
    VaultObjects,    \* the vault's objects, as <<type, name>>
    Bundle,          \* what kind of value each of them holds
    MaxVersions,     \* bound: versions an object may reach
    Names            \* object names and aliases

\* Parameters after the getters of pkg/provider/types have trimmed them.
\* "missing" and "malformed" name the required ones that are empty and the
\* ones that do not parse.
AttribType ==
    [missing : SUBSET {"podName", "podNamespace", "keyvaultName", "tenantID", "objects"},
     malformed : SUBSET {"attributes", "secrets", "permission", "objects", "keyvaultName",
                         "cloudEnvFileName"},
     usePodIdentity : Flags, useVMManagedIdentity : Flags, useAzureTokenProxy : Flags,
     userAssignedIdentityID : Identities \cup {""}, clientID : Identities \cup {""},
     saTokens : SATokens, secrets : Secrets(Identities \cup {""}),
     cloudName : STRING, cloudEnvFileName : Files \cup {""},
     permission : Nat, objects : Seq(KeyVaultObjects(Names))]

ASSUME MountAssumption ==
    /\ Attribs \subseteq AttribType
    /\ ReadableFiles \subseteq Files
    /\ Files \cap {"", "none", "default"} = {}
    /\ KnownClouds \cap (Files \cup {"", "none", "default", "AzureStackCloud"}) = {}
    /\ Identities \cap (Audiences \cup {""}) = {}
    /\ VaultObjects \subseteq VaultObjectTypes \X Names
    /\ Bundle \in [VaultObjects -> Bundles]
    /\ MaxVersions \in Nat \ {0}

VARIABLES
    pc,              \* where each handler is
    attr,            \* the parameters of its request
    cloud,           \* the cloud environment it resolved
    cred,            \* the credential of its Key Vault client
    entry,           \* the objects entry it is working on
    resolved,        \* that entry's versions still to fetch
    files,           \* the files of its response
    throughout,      \* versions enabled ever since its listing began
    sometime,        \* versions enabled at some time since then
    envFile,         \* AZURE_ENVIRONMENT_FILEPATH, one per process
    proxyTransport,  \* set once by main before the server starts
    created,         \* creation time of each version of each vault object
    enabled,         \* the versions of each vault object that are enabled
    steady,          \* aux: versions enabled ever since the request arrived
    arrival,         \* aux: how many versions there were when it arrived
    nearby           \* aux: environment files named by requests it overlapped

handlerVars == <<pc, attr, cloud, cred, entry, resolved, files>>
listingVars == <<throughout, sometime>>
processVars == <<envFile, proxyTransport>>
vaultVars == <<created, enabled>>
auxVars == <<steady, arrival, nearby>>
vars == <<handlerVars, listingVars, processVars, vaultVars, auxVars>>

Running == {"params", "client", "resolve", "list", "fetch"}
Replied == {"ok", "error"}

\* A file of the response.  "entry" is auxiliary: the objects entry it is for.
FileType ==
    [entry : Nat, base : Names, index : {NoIndex} \cup Nat, suffix : FileNameSuffixes,
     content : Contents, mode : Int, uid : [type : STRING, name : Names, index : Int],
     version : Nat]

CloudType == {"none", "default"} \cup KnownClouds \cup Files

HandlerTypeOK ==
    /\ pc \in [Requests -> {"idle"} \cup Running \cup Replied]
    /\ attr \in [Requests -> Attribs]
    /\ cloud \in [Requests -> CloudType]
    /\ cred \in [Requests -> Credentials(Identities)]
    /\ entry \in [Requests -> Nat \ {0}]
    /\ resolved \in [Requests -> Seq(KeyVaultObjects(Names))]
    /\ files \in [Requests -> Seq(FileType)]

ProcessTypeOK == envFile \in Files \cup {""} /\ proxyTransport \in {"ready", "error"}

ListingTypeOK ==
    /\ throughout \in [Requests -> SUBSET Nat]
    /\ sometime \in [Requests -> SUBSET Nat]

VaultTypeOK ==
    /\ created \in [VaultObjects -> Seq(Nat)]
    /\ enabled \in [VaultObjects -> SUBSET Nat]

AuxTypeOK ==
    /\ steady \in [Requests -> [VaultObjects -> SUBSET Nat]]
    /\ arrival \in [Requests -> [VaultObjects -> Nat]]
    /\ nearby \in [Requests -> SUBSET Files]

TypeOK == HandlerTypeOK /\ ListingTypeOK /\ ProcessTypeOK /\ VaultTypeOK /\ AuxTypeOK

\* Every vault object starts with one enabled version.
Init ==
    /\ pc = [r \in Requests |-> "idle"]
    /\ attr \in [Requests -> Attribs]
    /\ cloud = [r \in Requests |-> "none"]
    /\ cred = [r \in Requests |-> NoCredential]
    /\ entry = [r \in Requests |-> 1]
    /\ resolved = [r \in Requests |-> <<>>]
    /\ files = [r \in Requests |-> <<>>]
    /\ throughout = [r \in Requests |-> {}]
    /\ sometime = [r \in Requests |-> {}]
    /\ envFile = ""
    /\ proxyTransport \in {"ready", "error"}
    /\ created = [k \in VaultObjects |-> <<1>>]
    /\ enabled = [k \in VaultObjects |-> {1}]
    /\ steady = [r \in Requests |-> [k \in VaultObjects |-> {}]]
    /\ arrival = [r \in Requests |-> [k \in VaultObjects |-> 0]]
    /\ nearby = [r \in Requests |-> {}]
-----------------------------------------------------------------------------
(***************************************************************************)
(* The handler.                                                            *)
(***************************************************************************)

InFlight == {r \in Requests : pc[r] \in Running}

FilesNamed(S) == {attr[q].cloudEnvFileName : q \in S} \ {""}

\* The CSI driver calls Mount with parameters a, for a new pod or again for its
\* rotation poll.
Arrive(r, a) ==
    /\ pc[r] \notin Running
    /\ pc' = [pc EXCEPT ![r] = "params"]
    /\ attr' = [attr EXCEPT ![r] = a]
    /\ cloud' = [cloud EXCEPT ![r] = "none"]
    /\ cred' = [cred EXCEPT ![r] = NoCredential]
    /\ entry' = [entry EXCEPT ![r] = 1]
    /\ resolved' = [resolved EXCEPT ![r] = <<>>]
    /\ files' = [files EXCEPT ![r] = <<>>]
    /\ steady' = [steady EXCEPT ![r] = enabled]
    /\ arrival' = [arrival EXCEPT ![r] = [k \in VaultObjects |-> Len(created[k])]]
    /\ nearby' = [q \in Requests |->
                    IF q = r THEN ({a.cloudEnvFileName} \ {""}) \cup FilesNamed(InFlight)
                    ELSE IF q \in InFlight THEN nearby[q] \cup ({a.cloudEnvFileName} \ {""})
                    ELSE nearby[q]]
    /\ UNCHANGED <<listingVars, processVars, vaultVars>>

EndListing(r) ==
    /\ throughout' = [throughout EXCEPT ![r] = {}]
    /\ sometime' = [sometime EXCEPT ![r] = {}]

\* Every error path returns no files, whatever has been fetched so far.
Fail(r) ==
    /\ pc' = [pc EXCEPT ![r] = "error"]
    /\ resolved' = [resolved EXCEPT ![r] = <<>>]
    /\ files' = [files EXCEPT ![r] = <<>>]
    /\ EndListing(r)
    /\ UNCHANGED <<attr, cloud, cred, entry>>

Reply(r) ==
    /\ pc' = [pc EXCEPT ![r] = "ok"]
    /\ UNCHANGED <<attr, cloud, cred, entry, resolved, files, listingVars>>

\* The checks before the environment variable is written, and os.Setenv's own.
ParametersRejected(a) ==
    \/ a.malformed \cap {"attributes", "secrets", "permission", "cloudEnvFileName"} # {}
    \/ a.missing \cap {"podName", "podNamespace", "keyvaultName", "tenantID"} # {}
    \/ IdentityModeRejected(a)

\* Mutant: a file that is already set stays.
EnvironmentFilePathSetOnce(a) == IF envFile # "" THEN envFile ELSE a.cloudEnvFileName

\* What setAzureEnvironmentFilePath leaves in the environment variable.
EnvironmentFilePath(a) == IF a.cloudEnvFileName = "" THEN envFile ELSE a.cloudEnvFileName

\* Mount and GetSecretsStoreObjectContent, up to setAzureEnvironmentFilePath.
SetAzureEnvironmentFilePath(r) ==
    LET a == attr[r]
    IN  /\ pc[r] = "params"
        /\ \/ /\ ParametersRejected(a)
              /\ Fail(r)
              /\ UNCHANGED envFile
           \/ /\ ~ParametersRejected(a)
              /\ pc' = [pc EXCEPT ![r] = "client"]
              /\ envFile' = EnvironmentFilePath(a)
              /\ UNCHANGED <<attr, cloud, cred, entry, resolved, files, listingVars>>
        /\ UNCHANGED <<proxyTransport, vaultVars, auxVars>>

\* go-autorest's EnvironmentFromName: "none" for an error.
EnvironmentFromName(name) ==
    IF name = "AzureStackCloud"
    THEN IF envFile \in ReadableFiles THEN envFile ELSE "none"
    ELSE IF name \in KnownClouds THEN name ELSE "none"

ParseAzureEnvironment(cloudName) ==
    IF cloudName = "" THEN "default" ELSE EnvironmentFromName(cloudName)

ObjectsRejected(a) ==
    \/ "objects" \in a.missing \cup a.malformed
    \/ \E i \in DOMAIN a.objects : ~Validate(a.objects[i])

GetVaultURLFails(a) == "keyvaultName" \in a.malformed

\* From parseAzureEnvironment to the Key Vault client.  An objects array with
\* no entry succeeds before the vault's name is looked at; an SDK constructor
\* may refuse its arguments.
InitializeClient(r) ==
    LET a == attr[r]
        env == ParseAzureEnvironment(a.cloudName)
    IN  /\ pc[r] = "client"
        /\ \/ /\ \/ env = "none"
                 \/ AuthConfigMayFail(a)
                 \/ ObjectsRejected(a)
                 \/ a.objects # <<>>
              /\ Fail(r)
           \/ /\ env # "none"
              /\ ~ObjectsRejected(a)
              /\ \E c \in AuthConfigs(a) :
                    \/ /\ a.objects = <<>>
                       /\ pc' = [pc EXCEPT ![r] = "ok"]
                       /\ UNCHANGED cred
                    \/ /\ a.objects # <<>>
                       /\ ~GetVaultURLFails(a)
                       /\ GetCredential(c, proxyTransport) # NoCredential
                       /\ pc' = [pc EXCEPT ![r] = "resolve"]
                       /\ cred' = [cred EXCEPT ![r] = GetCredential(c, proxyTransport)]
              /\ cloud' = [cloud EXCEPT ![r] = env]
              /\ UNCHANGED <<attr, entry, resolved, files, listingVars>>
        /\ UNCHANGED <<processVars, vaultVars, auxVars>>
-----------------------------------------------------------------------------
VaultObject(kv) == <<kv.ObjectType, kv.ObjectName>>

\* The next object to fetch, or the next entry when none is left.
Continue(r, objects) ==
    /\ resolved' = [resolved EXCEPT ![r] = objects]
    /\ pc' = [pc EXCEPT ![r] = IF objects = <<>> THEN "resolve" ELSE "fetch"]
    /\ entry' = [entry EXCEPT ![r] = IF objects = <<>> THEN @ + 1 ELSE @]
    /\ EndListing(r)

\* The entry a handler is working on, and the vault's object it names.
Entry(r) == attr[r].objects[entry[r]]
EntryObject(r) == VaultObject(Entry(r))

\* resolveObjectVersions for the next entry, up to the first page of a listing.
\* The listing of a name the vault does not have may be empty instead of an error:
\* then there is nothing to fetch.
ResolveObjectVersions(r) ==
    /\ pc[r] = "resolve"
    /\ entry[r] <= Len(attr[r].objects)
    /\ \/ /\ IsSyncingSingleVersion(Entry(r))
          /\ Continue(r, <<Entry(r)>>)
          /\ UNCHANGED <<attr, cloud, cred, files>>
       \/ /\ ~IsSyncingSingleVersion(Entry(r))
          /\ EntryObject(r) \in VaultObjects
          /\ pc' = [pc EXCEPT ![r] = "list"]
          /\ throughout' = [throughout EXCEPT ![r] = enabled[EntryObject(r)]]
          /\ sometime' = [sometime EXCEPT ![r] = enabled[EntryObject(r)]]
          /\ UNCHANGED <<attr, cloud, cred, entry, resolved, files>>
       \/ /\ ~IsSyncingSingleVersion(Entry(r))
          /\ EntryObject(r) \notin VaultObjects
          /\ Continue(r, <<>>)
          /\ UNCHANGED <<attr, cloud, cred, files>>
       \/ /\ ~IsSyncingSingleVersion(Entry(r))
          /\ Fail(r)
    /\ UNCHANGED <<processVars, vaultVars, auxVars>>

\* The rest of it: the last page, the sorting and the selection.  Any page may
\* fail.
SelectVersions(r) ==
    /\ pc[r] = "list"
    /\ \/ /\ \E listed \in Listings(throughout[r], sometime[r]) :
                \E list \in SortedLists(listed, created[EntryObject(r)]) :
                    Continue(r, GetLatestNKeyVaultObjects(Entry(r), list))
          /\ UNCHANGED <<attr, cloud, cred, files>>
       \/ Fail(r)
    /\ UNCHANGED <<processVars, vaultVars, auxVars>>

\* The version Key Vault returns: its newest when none is asked for.
VersionRead(kv) ==
    IF kv.ObjectVersion = NoVersion THEN Len(created[VaultObject(kv)]) ELSE kv.ObjectVersion

SecretFile(r, kv, part) ==
    [entry   |-> entry[r],
     base    |-> GetFileName(kv),
     index   |-> kv.ObjectIndex,
     suffix  |-> part.fileNameSuffix,
     content |-> ContentBytes(kv, part.content),
     mode    |-> GetFilePermission(kv, attr[r].permission),
     uid     |-> GetObjectUID(kv),
     version |-> VersionRead(kv)]

\* getKeyVaultObjectContent and the files made of it, for one version.  The
\* request to Key Vault may fail, also because the caller gave up on it.
GetKeyVaultObjectContent(r) ==
    LET kv == Head(resolved[r])
        k == VaultObject(kv)
        parts == ObjectContent(kv, Bundle[k])
    IN  /\ pc[r] = "fetch"
        /\ \/ Fail(r)
           \/ /\ k \in VaultObjects
              /\ VersionRead(kv) \in DOMAIN created[k]
              /\ ~ContentInvalid(kv, parts)
              /\ files' = [files EXCEPT ![r] = @ \o
                              [i \in DOMAIN parts |-> SecretFile(r, kv, parts[i])]]
              /\ Continue(r, Tail(resolved[r]))
              /\ UNCHANGED <<attr, cloud, cred>>
        /\ UNCHANGED <<processVars, vaultVars, auxVars>>

\* Mutant: the loop is expected to pass the end by two.
ReturnFilesTooLate(r) ==
    /\ pc[r] = "resolve"
    /\ entry[r] > Len(attr[r].objects) + 1
    /\ Reply(r)
    /\ UNCHANGED <<processVars, vaultVars, auxVars>>

\* After the last entry.
ReturnFiles(r) ==
    /\ pc[r] = "resolve"
    /\ entry[r] > Len(attr[r].objects)
    /\ Reply(r)
    /\ UNCHANGED <<processVars, vaultVars, auxVars>>

Handler(r) ==
    \/ SetAzureEnvironmentFilePath(r)
    \/ InitializeClient(r)
    \/ ResolveObjectVersions(r)
    \/ SelectVersions(r)
    \/ GetKeyVaultObjectContent(r)
    \/ ReturnFiles(r)
-----------------------------------------------------------------------------
(***************************************************************************)
(* Key Vault.                                                              *)
(***************************************************************************)

\* The handlers that are listing the versions of k.
Listing(k) == {r \in Requests : pc[r] = "list" /\ EntryObject(r) = k}

\* Version v of k is, or is no longer, there for the listings of k to see.
Appears(k, v) ==
    /\ enabled' = [enabled EXCEPT ![k] = @ \cup {v}]
    /\ sometime' = [r \in Requests |->
                       IF r \in Listing(k) THEN sometime[r] \cup {v} ELSE sometime[r]]
    /\ UNCHANGED throughout

Disappears(k, v) ==
    /\ enabled' = [enabled EXCEPT ![k] = @ \ {v}]
    /\ throughout' = [r \in Requests |->
                         IF r \in Listing(k) THEN throughout[r] \ {v} ELSE throughout[r]]
    /\ UNCHANGED sometime

\* A new version.  Creation times have a resolution of a second, so it may
\* have the time of the version before it.
Rotate(k) ==
    /\ Len(created[k]) < MaxVersions
    /\ \E t \in {Last(created[k]), Last(created[k]) + 1} :
          created' = [created EXCEPT ![k] = Append(@, t)]
    /\ Appears(k, Len(created[k]) + 1)
    /\ UNCHANGED <<handlerVars, processVars, auxVars>>

Disable(k, v) ==
    /\ v \in enabled[k]
    /\ Disappears(k, v)
    /\ steady' = [r \in Requests |-> [steady[r] EXCEPT ![k] = @ \ {v}]]
    /\ UNCHANGED <<handlerVars, processVars, created, arrival, nearby>>

Enable(k, v) ==
    /\ v \in DOMAIN created[k] \ enabled[k]
    /\ Appears(k, v)
    /\ UNCHANGED <<handlerVars, processVars, created, auxVars>>

Vault ==
    \E k \in VaultObjects :
        \/ Rotate(k)
        \/ \E v \in DOMAIN created[k] : Disable(k, v) \/ Enable(k, v)

Next ==
    \/ \E r \in Requests : Handler(r) \/ \E a \in Attribs : Arrive(r, a)
    \/ Vault

Spec == Init /\ [][Next]_vars

\* A handler that can run does: Go schedules every goroutine, and a request to
\* Key Vault ends with an answer, the SDK's last retry or the RPC's deadline.
FairSpec == Spec /\ \A r \in Requests : WF_vars(Handler(r))
-----------------------------------------------------------------------------
(***************************************************************************)
(* Properties.                                                             *)
(***************************************************************************)

\* The files of s that entry e gets, one for each of its versions: the ones
\* without a suffix.  What they are named and hold: pairs of index and version.
Served(s, e) == {i \in DOMAIN s : s[i].entry = e /\ s[i].suffix = ""}
Named(s, e) == {<<s[i].index, s[i].version>> : i \in Served(s, e)}

Pinned(kv) == kv.ObjectVersion \notin {NoVersion, LatestVersion}

\* The versions in N have the consecutive indexes 0, 1, 2, ..., are distinct,
\* go from newer to older, and start with the pinned one if kv pins one.  The
\* creation times are those in time.
NewestFirst(kv, N, time) ==
    /\ \A a \in N : /\ a[1] \in Nat
                    /\ \A m \in 0..a[1] : \E b \in N : b[1] = m
                    /\ a[1] = 0 /\ Pinned(kv) => a[2] = kv.ObjectVersion
    /\ \A a, b \in N : a[1] < b[1] => a[2] # b[2] /\ time[a[2]] >= time[b[2]]

InIndexOrder(s, e) == \A i, j \in Served(s, e) : i < j => s[i].index < s[j].index

\* Whatever the vault's owners do during a mount, a successful response holds
\* exactly one version of every entry that syncs a single one, the pinned one
\* if it pins one; and for an entry with a version history, distinct versions
\* under the consecutive names 0, 1, 2, ... from newer to older, starting with
\* the pinned version if it pins one (GetSecretsStoreObjectContent,
\* getLatestNKeyVaultObjects).
CompleteResponse ==
    \A r \in Requests : pc[r] = "ok" =>
        \A e \in DOMAIN attr[r].objects :
            LET kv == attr[r].objects[e]
                s == files[r]
                time == created[VaultObject(kv)]
            IN  IF IsSyncingSingleVersion(kv)
                THEN \E i \in DOMAIN s : /\ Served(s, e) = {i}
                                         /\ Pinned(kv) => s[i].version = kv.ObjectVersion
                ELSE InIndexOrder(s, e) /\ NewestFirst(kv, Named(s, e), time)

\* A version the request was asked to sync.
Wanted(kv, v, time) ==
    ~Pinned(kv) \/ v = kv.ObjectVersion \/ time[v] < time[kv.ObjectVersion]

\* Of the versions in there, N misses a wanted one only if it has its fill of
\* versions at least as new; unless kv pins one that is not there itself.
NoneSkipped(kv, N, there, time) ==
    ~Pinned(kv) \/ kv.ObjectVersion \in there =>
        \A v \in there :
            \/ ~Wanted(kv, v, time)
            \/ \E a \in N : a[2] = v
            \/ /\ \E a \in N : a[1] + 1 = kv.ObjectVersionHistory
               /\ \A a \in N : time[a[2]] >= time[v]

\* A mount never serves something staler than what it could have read when it
\* was called.  An entry without a history gets a version no older than the
\* newest one at that time.  An entry with a history, of an object the vault has,
\* misses a version that was enabled all along (and not newer than the pinned
\* one, if the pinned one was enabled all along) only if it got its fill of
\* versions at least as new.
NoVersionSkipped ==
    \A r \in Requests : pc[r] = "ok" =>
        \A e \in DOMAIN attr[r].objects :
            LET kv == attr[r].objects[e]
                k == VaultObject(kv)
                s == files[r]
            IN  IF IsSyncingSingleVersion(kv)
                THEN kv.ObjectVersion = NoVersion =>
                        \A i \in Served(s, e) : s[i].version >= arrival[r][k]
                ELSE k \in VaultObjects =>
                        NoneSkipped(kv, Named(s, e), steady[r][k], created[k])

\* Whether credential c is one for a mount with the parameters a.
CredentialFits(a, c) ==
    /\ c.transport = "proxy" <=> a.useAzureTokenProxy = "true"
    /\ c.proof = IdentityBindingTokenAudience <=> c.transport = "proxy"
    /\ c.transport = "nmi" <=> a.usePodIdentity = "true"
    /\ c.transport = "imds" <=> a.useVMManagedIdentity = "true"
    /\ c.transport = "imds" => c.identity = a.userAssignedIdentityID
    /\ c.kind = "clientAssertion" =>
         /\ c.identity = a.clientID /\ c.identity # ""
         /\ c.proof \in a.saTokens.audiences
    /\ c.kind = "clientSecret" =>
         /\ c.identity \in a.secrets.clientids
         /\ c.proof \in a.secrets.clientsecrets

\* The credential is the one the parameters ask for, and a service account
\* token leaves the process only on the channel of its audience: the identity
\* binding token only through the token proxy and only when the mount enables
\* it, the workload identity token only directly to Microsoft Entra ID, and a
\* mount that uses a VM or pod identity presents neither (buildAuthConfig,
\* Config.GetCredential).
CredentialMatchesRequest ==
    \A r \in Requests : cred[r] # NoCredential => CredentialFits(attr[r], cred[r])

\* The cloud environment of a mount that names an environment file comes from
\* that file or from one named by a mount that was in progress at the same
\* time: a mount that had ended cannot leave its cloud behind for one that
\* names its own (setAzureEnvironmentFilePath, parseAzureEnvironment).
EnvironmentFromOverlap ==
    \A r \in Requests :
        cloud[r] \in Files /\ attr[r].cloudEnvFileName # "" => cloud[r] \in nearby[r]

\* Whether f is the file of a secret that backs a certificate, and whether g
\* differs from it in suffix and content only.
CertBacked(f) ==
    f.uid.type = "secret" /\ Bundle[<<"secret", f.uid.name>>] \in {"pem", "pfx", "corruptPfx"}
Beside(f, g) ==
    /\ f.entry = g.entry /\ f.base = g.base /\ f.index = g.index
    /\ f.mode = g.mode /\ f.uid = g.uid /\ f.version = g.version

CertAndKeyTogether(s) ==
    \A i \in DOMAIN s :
        /\ s[i].suffix # "" => CertBacked(s[i]) /\ writeCertAndKeyInSeparateFiles
        /\ s[i].suffix = ".crt" =>
             /\ i + 2 \in DOMAIN s
             /\ s[i + 1].suffix = ".key" /\ Beside(s[i], s[i + 1])
             /\ s[i + 2].suffix = "" /\ Beside(s[i], s[i + 2])
        /\ s[i].suffix = "" /\ CertBacked(s[i]) /\ writeCertAndKeyInSeparateFiles =>
             i > 2 /\ s[i - 2].suffix = ".crt"

\* With writeCertAndKeyInSeparateFiles, the file of a secret that backs a
\* certificate never comes without its .crt and .key, and these never without
\* it: all three are of the same version, index and entry, in this order, so a
\* rotation between two requests cannot pair a key with another version's
\* certificate (getSecret).
CertAndKeyBesideSecret ==
    \A r \in Requests : pc[r] = "ok" => CertAndKeyTogether(files[r])

\* Every mount request is answered.
MountReplies ==
    \A r \in Requests : pc[r] \in Running ~> pc[r] \in Replied
-----------------------------------------------------------------------------
(***************************************************************************)
(* What the documentation and the comments say and the code does not do.   *)
(***************************************************************************)

\* sync-multiple-versions.md: the provider places the top N versions, where N
\* is objectVersionHistory, into the folder (getLatestNKeyVaultObjects).
HistoryBound ==
    \A r \in Requests : pc[r] = "ok" =>
        \A e \in DOMAIN attr[r].objects :
            ~IsSyncingSingleVersion(attr[r].objects[e]) =>
                Cardinality(Served(files[r], e)) <= attr[r].objects[e].ObjectVersionHistory

\* provider.go: the validity of the file permission has been checked by
\* validate: no file is made of an entry whose permission is not octal.
FilePermissionChecked ==
    \A r \in Requests : \A i \in DOMAIN files[r] :
        attr[r].objects[files[r][i].entry].FilePermission # InvalidPermission

\* custom-environments.md: AzureStackCloud loads the custom cloud environment
\* from the mount's own cloudEnvFileName.
OwnEnvironment ==
    \A r \in Requests :
        cloud[r] \in Files /\ attr[r].cloudEnvFileName # "" =>
            cloud[r] = attr[r].cloudEnvFileName
=============================================================================
