----------------------------- MODULE MountProofs -----------------------------
(***************************************************************************)
(* Mount, for any number of concurrent handlers, any parameters and any    *)
(* vault: its types, where a mount's cloud environment can come from, and  *)
(* which credential it ends up with.                                       *)
(***************************************************************************)
EXTENDS Mount, KeyVaultObjectProofs

\* The type invariant needs facts that it does not state: a handler that
\* fetches has an object to fetch, every vault object has a version, only
\* versions that exist are enabled, and a listing is one of an entry with a
\* version history and has only seen versions that exist.
FetchHasObject == \A r \in Requests : pc[r] = "fetch" => resolved[r] # <<>>

EnabledExist ==
    \A k \in VaultObjects : created[k] # <<>> /\ enabled[k] \subseteq DOMAIN created[k]

ListingOf(r) ==
    /\ entry[r] <= Len(attr[r].objects)
    /\ ~IsSyncingSingleVersion(Entry(r))
    /\ EntryObject(r) \in VaultObjects
    /\ sometime[r] \subseteq DOMAIN created[EntryObject(r)]

ListingsExist == \A r \in Requests : pc[r] = "list" => ListingOf(r)

TypeInv == TypeOK /\ FetchHasObject /\ EnabledExist /\ ListingsExist
-----------------------------------------------------------------------------
\* A part becomes a file.
LEMMA SecretFileType ==
    ASSUME TypeOK, NEW r \in Requests, NEW kv \in KeyVaultObjects(Names), NEW part \in Parts,
           VaultObject(kv) \in VaultObjects,
           VersionRead(kv) \in DOMAIN created[VaultObject(kv)]
    PROVE  SecretFile(r, kv, part) \in FileType
<1>1. VersionRead(kv) \in Nat
  <2>1. created[VaultObject(kv)] \in Seq(Nat)
    BY DEF TypeOK, VaultTypeOK
  <2> HIDE DEF VersionRead, VaultObject
  <2> QED
    BY <2>1
<1>2. ContentBytes(kv, part.content) \in Contents
  <2>1. part.content \in Contents
    BY DEF Parts
  <2>2. ContentBytes(kv, part.content) \in {part.content, "bytes", "invalid"}
    BY Zenon DEF ContentBytes
  <2> QED
    BY <2>1, <2>2 DEF Contents
<1>3. GetFilePermission(kv, attr[r].permission) \in Int
  <2>1. attr[r].permission \in Nat
    <3>1. attr[r] \in AttribType
      BY MountAssumption DEF TypeOK, HandlerTypeOK
    <3> QED
      BY <3>1 DEF AttribType
  <2>2. kv.FilePermission \in Int
    BY DEF KeyVaultObjects
  <2> QED
    BY <2>1, <2>2 DEF GetFilePermission
<1>4. GetObjectUID(kv) \in [type : STRING, name : Names, index : Int]
  <2>1. kv.ObjectType \in STRING /\ kv.ObjectName \in Names /\ kv.ObjectIndex \in {NoIndex} \cup Nat
    BY DEF KeyVaultObjects
  <2>2. kv.ObjectIndex \in Int /\ NoIndex \in Int
    BY <2>1 DEF NoIndex
  <2> QED
    BY <2>1, <2>2 DEF GetObjectUID, IsSyncingSingleVersion
<1>5. GetFileName(kv) \in Names
  BY FileNameType
<1>6. entry[r] \in Nat /\ kv.ObjectIndex \in {NoIndex} \cup Nat /\ part.fileNameSuffix \in FileNameSuffixes
  BY DEF TypeOK, HandlerTypeOK, KeyVaultObjects, Parts
<1> QED
  BY <1>1, <1>2, <1>3, <1>4, <1>5, <1>6 DEF SecretFile, FileType
-----------------------------------------------------------------------------
(***************************************************************************)
(* Types.  One lemma per action.                                           *)
(***************************************************************************)

\* Requests carry parameters of the declared shape.
LEMMA AttribsType ==
    ASSUME TypeOK, NEW r \in Requests
    PROVE  attr[r] \in AttribType
  BY MountAssumption DEF TypeOK, HandlerTypeOK

\* An error of GetCredential is a credential that is none.
LEMMA NoCredentialType == NoCredential \in Credentials(Identities)
  BY DEF NoCredential, Credential, Credentials

\* A handler starts and fails with nothing resolved and no file.
LEMMA NothingType ==
    /\ <<>> \in Seq(KeyVaultObjects(Names))
    /\ <<>> \in Seq(FileType)
  OBVIOUS

\* A process that has just started, before the first mount.
LEMMA InitType == Init => TypeInv
<1> SUFFICES ASSUME Init PROVE TypeInv
  OBVIOUS
<1>1. HandlerTypeOK
  <2>1. resolved \in [Requests -> Seq(KeyVaultObjects(Names))] /\ files \in [Requests -> Seq(FileType)]
    BY NothingType DEF Init
  <2>2. cred \in [Requests -> Credentials(Identities)]
    BY NoCredentialType DEF Init
  <2>3. cloud \in [Requests -> CloudType]
    BY DEF Init, CloudType
  <2>4. entry \in [Requests -> Nat \ {0}] /\ attr \in [Requests -> Attribs]
    <3>1. 1 \in Nat \ {0}
      OBVIOUS
    <3> QED
      BY <3>1, Zenon DEF Init
  <2>5. pc \in [Requests -> {"idle"} \cup Running \cup Replied]
    BY DEF Init
  <2> QED
    BY <2>1, <2>2, <2>3, <2>4, <2>5 DEF HandlerTypeOK
<1>2. ProcessTypeOK
  BY DEF Init, ProcessTypeOK
<1>3. VaultTypeOK
  <2>1. <<1>> \in Seq(Nat) /\ {1} \in SUBSET Nat
    OBVIOUS
  <2> QED
    BY <2>1 DEF Init, VaultTypeOK
<1>4. AuxTypeOK
  BY DEF Init, AuxTypeOK
<1>5. FetchHasObject /\ ListingsExist /\ ListingTypeOK
  BY DEF Init, FetchHasObject, ListingsExist, ListingTypeOK
<1>6. EnabledExist
  <2>1. 1 \in DOMAIN <<1>> /\ <<1>> # <<>>
    OBVIOUS
  <2> QED
    BY <2>1 DEF Init, EnabledExist
<1> QED
  BY <1>1, <1>2, <1>3, <1>4, <1>5, <1>6 DEF TypeInv, TypeOK

\* A step of one handler that does not begin a listing leaves the listings of
\* the others as they are.
LEMMA KeepsListings ==
    ASSUME TypeInv, NEW r \in Requests, NEW p, p # "list", pc' = [pc EXCEPT ![r] = p],
           \A q \in Requests \ {r} :
              attr'[q] = attr[q] /\ entry'[q] = entry[q] /\ sometime'[q] = sometime[q],
           UNCHANGED created
    PROVE  ListingsExist'
<1> SUFFICES ASSUME NEW q \in Requests, pc'[q] = "list" PROVE ListingOf(q)'
  BY DEF ListingsExist
<1>1. q # r /\ pc[q] = "list"
  BY DEF TypeInv, TypeOK, HandlerTypeOK
<1>2. ListingOf(q)
  BY <1>1 DEF TypeInv, ListingsExist
<1> QED
  BY <1>1, <1>2 DEF ListingOf, Entry, EntryObject

\* A handler that ends its listing.
LEMMA EndListingType ==
    ASSUME TypeInv, NEW r \in Requests, EndListing(r)
    PROVE  /\ ListingTypeOK'
           /\ \A q \in Requests \ {r} : sometime'[q] = sometime[q]
  BY DEF TypeInv, TypeOK, ListingTypeOK, EndListing

\* A mount arrives.
LEMMA ArriveType ==
    ASSUME TypeInv, NEW r \in Requests, NEW a \in Attribs, Arrive(r, a)
    PROVE  TypeInv'
<1> USE DEF TypeInv, TypeOK
<1>1. HandlerTypeOK'
  <2>1. /\ resolved' \in [Requests -> Seq(KeyVaultObjects(Names))]
        /\ files' \in [Requests -> Seq(FileType)]
    BY NothingType DEF Arrive, HandlerTypeOK
  <2>2. cred' \in [Requests -> Credentials(Identities)]
    BY NoCredentialType DEF Arrive, HandlerTypeOK
  <2>3. cloud' \in [Requests -> CloudType]
    BY DEF Arrive, HandlerTypeOK, CloudType
  <2>4. entry' \in [Requests -> Nat \ {0}] /\ attr' \in [Requests -> Attribs]
    <3>1. entry' \in [Requests -> Nat \ {0}]
      <4>1. 1 \in Nat \ {0}
        OBVIOUS
      <4> QED
        BY <4>1, Zenon DEF Arrive, HandlerTypeOK
    <3>2. attr' \in [Requests -> Attribs]
      BY DEF Arrive, HandlerTypeOK
    <3> QED
      BY <3>1, <3>2
  <2>5. pc' \in [Requests -> {"idle"} \cup Running \cup Replied]
    BY DEF Arrive, HandlerTypeOK, Running
  <2> QED
    BY <2>1, <2>2, <2>3, <2>4, <2>5 DEF HandlerTypeOK
<1>2. ProcessTypeOK' /\ VaultTypeOK' /\ EnabledExist'
  BY DEF Arrive, ProcessTypeOK, VaultTypeOK, EnabledExist, processVars, vaultVars
<1>3. nearby' \in [Requests -> SUBSET Files]
  <2>1. \A q \in Requests : attr[q].cloudEnvFileName \in Files \cup {""}
    BY AttribsType DEF AttribType
  <2>2. a.cloudEnvFileName \in Files \cup {""}
    BY MountAssumption DEF AttribType
  <2>3. FilesNamed(InFlight) \subseteq Files
    BY <2>1 DEF FilesNamed, InFlight
  <2> QED
    BY <2>2, <2>3 DEF Arrive, AuxTypeOK
<1>4. arrival' \in [Requests -> [VaultObjects -> Nat]]
  <2>1. \A k \in VaultObjects : Len(created[k]) \in Nat
    <3> SUFFICES ASSUME NEW k \in VaultObjects PROVE Len(created[k]) \in Nat
      OBVIOUS
    <3>1. created[k] \in Seq(Nat)
      BY DEF VaultTypeOK
    <3> QED
      BY <3>1
  <2> QED
    BY <2>1 DEF Arrive, AuxTypeOK
<1>5. steady' \in [Requests -> [VaultObjects -> SUBSET Nat]]
  BY DEF Arrive, AuxTypeOK, VaultTypeOK
<1>6. FetchHasObject'
  BY DEF Arrive, FetchHasObject, HandlerTypeOK
<1>7. ListingTypeOK'
  BY DEF Arrive, ListingTypeOK, listingVars
<1>8. ListingsExist'
  <2>1. /\ pc' = [pc EXCEPT ![r] = "params"] /\ UNCHANGED <<sometime, created>>
        /\ attr' = [attr EXCEPT ![r] = a] /\ entry' = [entry EXCEPT ![r] = 1]
    BY DEF Arrive, listingVars, vaultVars
  <2>2. \A q \in Requests \ {r} : attr'[q] = attr[q] /\ entry'[q] = entry[q]
    BY <2>1 DEF HandlerTypeOK
  <2> QED
    BY <2>1, <2>2, KeepsListings
<1> QED
  BY <1>1, <1>2, <1>3, <1>4, <1>5, <1>6, <1>7, <1>8 DEF AuxTypeOK

\* What the handler's steps leave alone.
LEMMA OthersType ==
    ASSUME TypeInv, UNCHANGED <<vaultVars, auxVars>>
    PROVE  VaultTypeOK' /\ EnabledExist' /\ AuxTypeOK'
  BY DEF TypeInv, TypeOK, VaultTypeOK, EnabledExist, AuxTypeOK, vaultVars, auxVars

\* An error returns no files.
LEMMA FailType ==
    ASSUME TypeInv, NEW r \in Requests, Fail(r), UNCHANGED <<processVars, vaultVars, auxVars>>
    PROVE  TypeInv'
<1> USE DEF TypeInv, TypeOK
<1>1. HandlerTypeOK'
  <2>1. /\ resolved' \in [Requests -> Seq(KeyVaultObjects(Names))]
        /\ files' \in [Requests -> Seq(FileType)]
    BY DEF Fail, HandlerTypeOK
  <2> QED
    BY <2>1 DEF Fail, HandlerTypeOK, Replied
<1>2. ProcessTypeOK'
  BY DEF ProcessTypeOK, processVars
<1>3. FetchHasObject'
  BY DEF Fail, FetchHasObject, HandlerTypeOK
<1>4. ListingTypeOK' /\ ListingsExist'
  BY EndListingType, KeepsListings DEF Fail, vaultVars
<1> QED
  BY <1>1, <1>2, <1>3, <1>4, OthersType

\* The parameters are checked and the environment variable is written.
LEMMA SetAzureEnvironmentFilePathType ==
    ASSUME TypeInv, NEW r \in Requests, SetAzureEnvironmentFilePath(r)
    PROVE  TypeInv'
<1>1. CASE Fail(r) /\ UNCHANGED envFile
  BY <1>1, FailType DEF SetAzureEnvironmentFilePath, processVars
<1>2. CASE /\ pc' = [pc EXCEPT ![r] = "client"]
           /\ envFile' = EnvironmentFilePath(attr[r])
           /\ UNCHANGED <<attr, cloud, cred, entry, resolved, files, listingVars>>
  <2> USE DEF TypeInv, TypeOK
  <2>1. HandlerTypeOK'
    BY <1>2 DEF HandlerTypeOK, Running
  <2>2. ProcessTypeOK'
    <3>1. attr[r].cloudEnvFileName \in Files \cup {""}
      BY AttribsType DEF AttribType
    <3> QED
      BY <1>2, <3>1 DEF SetAzureEnvironmentFilePath, EnvironmentFilePath, ProcessTypeOK
  <2>3. FetchHasObject'
    BY <1>2 DEF FetchHasObject, HandlerTypeOK
  <2>4. ListingTypeOK' /\ ListingsExist'
    BY <1>2, KeepsListings DEF SetAzureEnvironmentFilePath, ListingTypeOK, listingVars, vaultVars
  <2> QED
    BY <2>1, <2>2, <2>3, <2>4, OthersType DEF SetAzureEnvironmentFilePath
<1> QED
  BY <1>1, <1>2 DEF SetAzureEnvironmentFilePath

\* GetCredential returns a credential for whatever buildAuthConfig returned.
LEMMA GetCredentialType ==
    ASSUME TypeOK, NEW r \in Requests, NEW c \in AuthConfigs(attr[r])
    PROVE  GetCredential(c, proxyTransport) \in Credentials(Identities)
<1>1. /\ attr[r].userAssignedIdentityID \in Identities \cup {""}
      /\ attr[r].clientID \in Identities \cup {""}
      /\ attr[r].secrets \in Secrets(Identities \cup {""})
  BY AttribsType DEF AttribType
<1>2. PICK sp \in (Identities \cup {""}) \X (Identities \cup {""}) : c = Config(attr[r], sp)
  <2>1. ServicePrincipals(attr[r].secrets) \subseteq (Identities \cup {""}) \X (Identities \cup {""})
    <3>1. /\ attr[r].secrets.clientids \subseteq Identities \cup {""}
          /\ attr[r].secrets.clientsecrets \subseteq Identities \cup {""}
      BY <1>1 DEF Secrets
    <3>2. /\ LastSeen(attr[r].secrets.clientids) \subseteq Identities \cup {""}
          /\ LastSeen(attr[r].secrets.clientsecrets) \subseteq Identities \cup {""}
      BY <3>1 DEF LastSeen
    <3>3. <<"", "">> \in (Identities \cup {""}) \X (Identities \cup {""})
      OBVIOUS
    <3> QED
      BY <3>2, <3>3 DEF ServicePrincipals
  <2>2. c = Config(attr[r], <<"", "">>) \/ \E sp \in ServicePrincipals(attr[r].secrets) : c = Config(attr[r], sp)
    BY DEF AuthConfigs
  <2> QED
    BY <2>1, <2>2
<1>3. /\ c.UserAssignedIdentityID \in Identities \cup {""}
      /\ c.WorkloadIdentityClientID \in Identities \cup {""}
      /\ c.AADClientID \in Identities \cup {""} /\ c.AADClientSecret \in Identities \cup {""}
      /\ c.ServiceAccountToken \in Audiences \cup {""}
  BY <1>1, <1>2 DEF Config, ParsedAudience, Audiences
<1>4. ASSUME NEW kind \in {"none", "podIdentity", "managedIdentity", "clientAssertion", "clientSecret"},
             NEW identity \in Identities \cup {""},
             NEW proof \in Identities \cup Audiences \cup {""},
             NEW transport \in {"", "nmi", "imds", "proxy", "direct"}
      PROVE  Credential(kind, identity, proof, transport) \in Credentials(Identities)
  BY DEF Credential, Credentials
<1>5. /\ Credential("podIdentity", "", "", "nmi") \in Credentials(Identities)
      /\ Credential("managedIdentity", c.UserAssignedIdentityID, "", "imds") \in Credentials(Identities)
      /\ Credential("clientAssertion", c.WorkloadIdentityClientID,
                    c.ServiceAccountToken, "proxy") \in Credentials(Identities)
      /\ Credential("clientAssertion", c.WorkloadIdentityClientID,
                    c.ServiceAccountToken, "direct") \in Credentials(Identities)
      /\ Credential("clientSecret", c.AADClientID,
                    c.AADClientSecret, "direct") \in Credentials(Identities)
  BY <1>3, <1>4
<1> QED
  BY <1>5, NoCredentialType DEF GetCredential

\* The environment is the default one, a known cloud's or a file's.
LEMMA EnvironmentType ==
    ASSUME TypeOK, NEW name
    PROVE  ParseAzureEnvironment(name) \in CloudType
  BY MountAssumption DEF ParseAzureEnvironment, EnvironmentFromName, CloudType

\* The cloud environment and the client are made.
LEMMA InitializeClientType ==
    ASSUME TypeInv, NEW r \in Requests, InitializeClient(r)
    PROVE  TypeInv'
<1> DEFINE env == ParseAzureEnvironment(attr[r].cloudName)
<1>1. CASE Fail(r)
  BY <1>1, FailType DEF InitializeClient
<1>2. CASE \E c \in AuthConfigs(attr[r]) :
             /\ \/ pc' = [pc EXCEPT ![r] = "ok"] /\ UNCHANGED cred
                \/ /\ pc' = [pc EXCEPT ![r] = "resolve"]
                   /\ cred' = [cred EXCEPT ![r] = GetCredential(c, proxyTransport)]
             /\ cloud' = [cloud EXCEPT ![r] = env]
             /\ UNCHANGED <<attr, entry, resolved, files, listingVars>>
  <2> USE DEF TypeInv, TypeOK
  <2>1. HandlerTypeOK'
    <3>1. cred' \in [Requests -> Credentials(Identities)]
      <4>1. cred' = cred \/ \E d \in Credentials(Identities) : cred' = [cred EXCEPT ![r] = d]
        BY <1>2, GetCredentialType, Zenon
      <4> QED
        BY <4>1 DEF HandlerTypeOK
    <3>2. cloud' \in [Requests -> CloudType]
      BY <1>2, EnvironmentType DEF HandlerTypeOK
    <3>3. pc' \in [Requests -> {"idle"} \cup Running \cup Replied]
      BY <1>2 DEF HandlerTypeOK, Running, Replied
    <3> QED
      BY <1>2, <3>1, <3>2, <3>3 DEF HandlerTypeOK
  <2>2. ProcessTypeOK'
    BY DEF InitializeClient, ProcessTypeOK, processVars
  <2>3. FetchHasObject'
    BY <1>2 DEF FetchHasObject, HandlerTypeOK
  <2>4. ListingTypeOK' /\ ListingsExist'
    <3>1. \E p \in {"ok", "resolve"} : pc' = [pc EXCEPT ![r] = p]
      BY <1>2
    <3>2. UNCHANGED <<attr, entry, listingVars>>
      BY <1>2
    <3> QED
      BY <3>1, <3>2, KeepsListings DEF InitializeClient, ListingTypeOK, listingVars, vaultVars
  <2> QED
    BY <2>1, <2>2, <2>3, <2>4, OthersType DEF InitializeClient
<1> QED
  BY <1>1, <1>2, Zenon DEF InitializeClient

\* Going on to the next object or the next entry.
LEMMA ContinueType ==
    ASSUME TypeInv, NEW r \in Requests, NEW objects \in Seq(KeyVaultObjects(Names)),
           Continue(r, objects), files' \in [Requests -> Seq(FileType)],
           UNCHANGED <<attr, cloud, cred, processVars, vaultVars, auxVars>>
    PROVE  TypeInv'
<1> USE DEF TypeInv, TypeOK
<1>1. pc' \in [Requests -> {"idle"} \cup Running \cup Replied]
  BY DEF Continue, HandlerTypeOK, Running
<1>2. entry' \in [Requests -> Nat \ {0}]
  <2>1. entry[r] \in Nat \ {0} /\ entry[r] + 1 \in Nat \ {0}
    BY DEF HandlerTypeOK
  <2>2. \E e \in Nat \ {0} : entry' = [entry EXCEPT ![r] = e]
    BY <2>1, Zenon DEF Continue
  <2> QED
    BY <2>2 DEF HandlerTypeOK
<1>3. resolved' \in [Requests -> Seq(KeyVaultObjects(Names))]
  BY DEF Continue, HandlerTypeOK
<1>4. HandlerTypeOK'
  BY <1>1, <1>2, <1>3 DEF HandlerTypeOK
<1>5. ProcessTypeOK'
  BY DEF ProcessTypeOK, processVars
<1>6. FetchHasObject'
  BY DEF Continue, FetchHasObject, HandlerTypeOK
<1>7. ListingTypeOK' /\ ListingsExist'
  <2>1. \E p \in {"resolve", "fetch"} : pc' = [pc EXCEPT ![r] = p]
    BY DEF Continue
  <2>2. \A q \in Requests \ {r} : entry'[q] = entry[q]
    BY DEF Continue, HandlerTypeOK
  <2> QED
    BY <2>1, <2>2, EndListingType, KeepsListings DEF Continue, vaultVars
<1> QED
  BY <1>4, <1>5, <1>6, <1>7, OthersType

\* The entry a handler is working on.
LEMMA EntryType ==
    ASSUME TypeInv, NEW r \in Requests, entry[r] <= Len(attr[r].objects)
    PROVE  Entry(r) \in KeyVaultObjects(Names)
<1>1. attr[r].objects \in Seq(KeyVaultObjects(Names))
  BY AttribsType DEF TypeInv, AttribType
<1>2. entry[r] \in 1..Len(attr[r].objects)
  <2>1. entry[r] \in Nat \ {0}
    BY DEF TypeInv, TypeOK, HandlerTypeOK
  <2> QED
    BY <1>1, <2>1
<1> QED
  BY <1>1, <1>2 DEF Entry

\* The next entry is resolved, or its listing begins.
LEMMA ResolveObjectVersionsType ==
    ASSUME TypeInv, NEW r \in Requests, ResolveObjectVersions(r)
    PROVE  TypeInv'
<1>1. CASE Fail(r)
  BY <1>1, FailType DEF ResolveObjectVersions
<1>2. Entry(r) \in KeyVaultObjects(Names)
  BY EntryType DEF ResolveObjectVersions
<1>3. CASE Continue(r, <<Entry(r)>>) /\ UNCHANGED <<attr, cloud, cred, files>>
  <2>1. <<Entry(r)>> \in Seq(KeyVaultObjects(Names))
    BY <1>2, ShortSequences
  <2>2. files' \in [Requests -> Seq(FileType)]
    BY <1>3 DEF TypeInv, TypeOK, HandlerTypeOK
  <2> QED
    BY <1>3, <2>1, <2>2, ContinueType DEF ResolveObjectVersions
<1>4. CASE /\ ~IsSyncingSingleVersion(Entry(r))
           /\ EntryObject(r) \in VaultObjects
           /\ pc' = [pc EXCEPT ![r] = "list"]
           /\ throughout' = [throughout EXCEPT ![r] = enabled[EntryObject(r)]]
           /\ sometime' = [sometime EXCEPT ![r] = enabled[EntryObject(r)]]
           /\ UNCHANGED <<attr, cloud, cred, entry, resolved, files>>
  <2> USE DEF TypeInv, TypeOK
  <2>1. HandlerTypeOK'
    BY <1>4 DEF HandlerTypeOK, Running
  <2>2. ProcessTypeOK'
    BY DEF ResolveObjectVersions, ProcessTypeOK, processVars
  <2>3. FetchHasObject'
    BY <1>4 DEF FetchHasObject, HandlerTypeOK
  <2>4. ListingTypeOK'
    BY <1>4 DEF ListingTypeOK, VaultTypeOK
  <2>5. ListingsExist'
    <3> SUFFICES ASSUME NEW q \in Requests, pc'[q] = "list" PROVE ListingOf(q)'
      BY DEF ListingsExist
    <3>1. CASE q = r
      BY <1>4, <3>1 DEF ResolveObjectVersions, ListingOf, Entry, EntryObject, EnabledExist,
                        ListingTypeOK, vaultVars
    <3>2. CASE q # r
      <4>1. ListingOf(q)
        BY <1>4, <3>2 DEF ListingsExist, HandlerTypeOK
      <4> QED
        BY <1>4, <3>2, <4>1 DEF ResolveObjectVersions, ListingOf, Entry, EntryObject,
                                ListingTypeOK, vaultVars
    <3> QED
      BY <3>1, <3>2
  <2> QED
    BY <2>1, <2>2, <2>3, <2>4, <2>5, OthersType DEF ResolveObjectVersions
<1>5. CASE Continue(r, <<>>) /\ UNCHANGED <<attr, cloud, cred, files>>
  <2>1. <<>> \in Seq(KeyVaultObjects(Names))
    OBVIOUS
  <2>2. files' \in [Requests -> Seq(FileType)]
    BY <1>5 DEF TypeInv, TypeOK, HandlerTypeOK
  <2> QED
    BY <1>5, <2>1, <2>2, ContinueType DEF ResolveObjectVersions
<1> QED
  BY <1>1, <1>3, <1>4, <1>5 DEF ResolveObjectVersions

\* The listed versions are sorted and selected.
LEMMA SelectVersionsType ==
    ASSUME TypeInv, NEW r \in Requests, SelectVersions(r)
    PROVE  TypeInv'
<1>1. CASE Fail(r)
  BY <1>1, FailType DEF SelectVersions
<1>2. CASE /\ \E listed \in Listings(throughout[r], sometime[r]) :
                 \E list \in SortedLists(listed, created[EntryObject(r)]) :
                     Continue(r, GetLatestNKeyVaultObjects(Entry(r), list))
           /\ UNCHANGED <<attr, cloud, cred, files>>
  <2>1. PICK listed \in Listings(throughout[r], sometime[r]) :
            \E list \in SortedLists(listed, created[EntryObject(r)]) :
                Continue(r, GetLatestNKeyVaultObjects(Entry(r), list))
    BY <1>2
  <2>2. PICK list \in SortedLists(listed, created[EntryObject(r)]) :
            Continue(r, GetLatestNKeyVaultObjects(Entry(r), list))
    BY <2>1
  <2>3. ListingOf(r)
    BY DEF SelectVersions, TypeInv, ListingsExist
  <2>4. /\ Len(created[EntryObject(r)]) \in Nat
        /\ DOMAIN created[EntryObject(r)] = 1..Len(created[EntryObject(r)])
    <3>1. created[EntryObject(r)] \in Seq(Nat)
      BY <2>3 DEF ListingOf, TypeInv, TypeOK, VaultTypeOK
    <3> QED
      BY <3>1
  <2>5. listed \in SUBSET (1..Len(created[EntryObject(r)]))
    BY <2>1, <2>3, <2>4 DEF ListingOf, Listings
  <2>6. GetLatestNKeyVaultObjects(Entry(r), list) \in Seq(KeyVaultObjects(Names))
    <3>1. Entry(r) \in KeyVaultObjects(Names) /\ ~IsSyncingSingleVersion(Entry(r))
      BY <2>3, EntryType DEF ListingOf
    <3>2. list \in Seq(Nat) /\ \A m, n \in 1..Len(list) : m # n => list[m] # list[n]
      BY <2>2, <2>4, <2>5, SortedListsType
    <3> QED
      BY <3>1, <3>2, LatestObjects
  <2>7. files' \in [Requests -> Seq(FileType)]
    BY <1>2 DEF TypeInv, TypeOK, HandlerTypeOK
  <2> QED
    BY <1>2, <2>2, <2>6, <2>7, ContinueType DEF SelectVersions
<1> QED
  BY <1>1, <1>2 DEF SelectVersions

\* The parts of one version become files.
LEMMA NewFilesType ==
    ASSUME TypeInv, NEW r \in Requests, NEW kv \in KeyVaultObjects(Names),
           VaultObject(kv) \in VaultObjects,
           VersionRead(kv) \in DOMAIN created[VaultObject(kv)],
           NEW parts, parts = ObjectContent(kv, Bundle[VaultObject(kv)])
    PROVE  [i \in DOMAIN parts |-> SecretFile(r, kv, parts[i])] \in Seq(FileType)
<1>1. parts \in Seq(Parts)
  BY ContentType
<1>2. Len(parts) \in Nat /\ DOMAIN parts = 1..Len(parts)
  BY <1>1
<1>3. \A i \in 1..Len(parts) : SecretFile(r, kv, parts[i]) \in FileType
  BY <1>1, SecretFileType DEF TypeInv
<1> QED
  BY <1>2, <1>3

\* One version is fetched and becomes files.
LEMMA GetKeyVaultObjectContentType ==
    ASSUME TypeInv, NEW r \in Requests, GetKeyVaultObjectContent(r)
    PROVE  TypeInv'
<1> DEFINE kv == Head(resolved[r])
           k == VaultObject(kv)
           parts == ObjectContent(kv, Bundle[k])
           new == [m \in DOMAIN parts |-> SecretFile(r, kv, parts[m])]
<1>1. CASE Fail(r)
  BY <1>1, FailType DEF GetKeyVaultObjectContent
<1>2. CASE /\ k \in VaultObjects
           /\ VersionRead(kv) \in DOMAIN created[k]
           /\ files' = [files EXCEPT ![r] = @ \o new]
           /\ Continue(r, Tail(resolved[r]))
           /\ UNCHANGED <<attr, cloud, cred>>
  <2>1. resolved[r] \in Seq(KeyVaultObjects(Names)) /\ resolved[r] # <<>>
    BY DEF TypeInv, TypeOK, HandlerTypeOK, FetchHasObject, GetKeyVaultObjectContent
  <2>2. kv \in KeyVaultObjects(Names) /\ Tail(resolved[r]) \in Seq(KeyVaultObjects(Names))
    BY <2>1
  <2>3. new \in Seq(FileType)
    BY <1>2, <2>2, NewFilesType
  <2>4. files' \in [Requests -> Seq(FileType)]
    <3> HIDE DEF new
    <3>1. files[r] \o new \in Seq(FileType)
      <4>1. files[r] \in Seq(FileType)
        BY DEF TypeInv, TypeOK, HandlerTypeOK
      <4> QED
        BY <2>3, <4>1
    <3> QED
      BY <1>2, <3>1 DEF TypeInv, TypeOK, HandlerTypeOK
  <2> QED
    BY <1>2, <2>2, <2>4, ContinueType DEF GetKeyVaultObjectContent
<1> QED
  BY <1>1, <1>2 DEF GetKeyVaultObjectContent

\* The reply is sent.
LEMMA ReturnFilesType ==
    ASSUME TypeInv, NEW r \in Requests, ReturnFiles(r)
    PROVE  TypeInv'
<1> USE DEF TypeInv, TypeOK
<1>1. HandlerTypeOK'
  BY DEF ReturnFiles, Reply, HandlerTypeOK, Replied
<1>2. ProcessTypeOK'
  BY DEF ReturnFiles, ProcessTypeOK, processVars
<1>3. FetchHasObject'
  BY DEF ReturnFiles, Reply, FetchHasObject, HandlerTypeOK
<1>4. ListingTypeOK' /\ ListingsExist'
  BY KeepsListings DEF ReturnFiles, Reply, ListingTypeOK, listingVars, vaultVars
<1> QED
  BY <1>1, <1>2, <1>3, <1>4, OthersType DEF ReturnFiles

\* A vault's owner adds, disables or enables a version.
LEMMA VaultType ==
    ASSUME TypeInv, Vault
    PROVE  TypeInv'
<1> USE DEF TypeInv, TypeOK
<1>1. PICK k \in VaultObjects : Rotate(k) \/ \E v \in DOMAIN created[k] : Disable(k, v) \/ Enable(k, v)
  BY DEF Vault
<1>2. /\ created[k] \in Seq(Nat) /\ created[k] # <<>>
      /\ enabled[k] \subseteq DOMAIN created[k] /\ enabled[k] \subseteq Nat
  BY DEF VaultTypeOK, EnabledExist
<1>3. Len(created[k]) \in Nat /\ DOMAIN created[k] = 1..Len(created[k])
  BY <1>2
<1>4. ASSUME UNCHANGED <<handlerVars, processVars, arrival, nearby>>
      PROVE  HandlerTypeOK' /\ ProcessTypeOK' /\ FetchHasObject'
  BY <1>4 DEF HandlerTypeOK, ProcessTypeOK, FetchHasObject, handlerVars, processVars
<1>8. ASSUME NEW v \in Nat, Appears(k, v) PROVE ListingTypeOK'
  BY <1>8 DEF Appears, ListingTypeOK
<1>9. ASSUME NEW v \in Nat, Appears(k, v), UNCHANGED handlerVars,
             \A q \in VaultObjects : DOMAIN created[q] \subseteq DOMAIN created'[q],
             v \in DOMAIN created'[k]
      PROVE  ListingsExist'
  <2> SUFFICES ASSUME NEW q \in Requests, pc[q] = "list" PROVE ListingOf(q)'
    BY <1>9 DEF ListingsExist, handlerVars
  <2>1. ListingOf(q)
    BY DEF ListingsExist
  <2>2. sometime'[q] \subseteq DOMAIN created'[EntryObject(q)]
    <3>1. sometime[q] \subseteq DOMAIN created'[EntryObject(q)]
      BY <1>9, <2>1 DEF ListingOf
    <3>2. sometime'[q] = IF q \in Listing(k) THEN sometime[q] \cup {v} ELSE sometime[q]
      BY <1>9 DEF Appears
    <3> QED
      BY <1>9, <3>1, <3>2 DEF Listing
  <2>3. attr' = attr /\ entry' = entry
    BY <1>9 DEF handlerVars
  <2> QED
    BY <2>1, <2>2, <2>3 DEF ListingOf, Entry, EntryObject
<1>5. CASE Rotate(k)
  <2>1. PICK t \in {Last(created[k]), Last(created[k]) + 1} :
            created' = [created EXCEPT ![k] = Append(created[k], t)]
    BY <1>5 DEF Rotate
  <2>2. t \in Nat
    <3>1. Last(created[k]) \in Nat
      BY <1>2 DEF Last
    <3> QED
      BY <2>1, <3>1
  <2>3. /\ Append(created[k], t) \in Seq(Nat)
        /\ Append(created[k], t) # <<>>
        /\ DOMAIN Append(created[k], t) = 1..(Len(created[k]) + 1)
    BY <1>2, <1>3, <2>2
  <2>4. enabled' = [enabled EXCEPT ![k] = @ \cup {Len(created[k]) + 1}]
    BY <1>5 DEF Rotate, Appears
  <2>5. VaultTypeOK'
    <3>1. created' \in [VaultObjects -> Seq(Nat)]
      BY <2>1, <2>3 DEF VaultTypeOK
    <3>2. enabled' \in [VaultObjects -> SUBSET Nat]
      BY <1>3, <2>4 DEF VaultTypeOK
    <3> QED
      BY <3>1, <3>2 DEF VaultTypeOK
  <2>6. EnabledExist'
    <3> SUFFICES ASSUME NEW q \in VaultObjects
                 PROVE  created'[q] # <<>> /\ enabled'[q] \subseteq DOMAIN created'[q]
      BY DEF EnabledExist
    <3>1. CASE q = k
      <4>1. created'[k] = Append(created[k], t)
        BY <2>1 DEF VaultTypeOK
      <4>2. enabled'[k] = enabled[k] \cup {Len(created[k]) + 1}
        BY <2>4 DEF VaultTypeOK
      <4>3. enabled'[k] \subseteq 1..(Len(created[k]) + 1)
        BY <1>2, <1>3, <4>2
      <4> QED
        BY <2>3, <3>1, <4>1, <4>3
    <3>2. CASE q # k
      BY <2>1, <2>4, <3>2 DEF VaultTypeOK, EnabledExist
    <3> QED
      BY <3>1, <3>2
  <2>7. AuxTypeOK'
    BY <1>5 DEF Rotate, AuxTypeOK, auxVars
  <2>8. UNCHANGED <<handlerVars, processVars, arrival, nearby>>
    BY <1>5 DEF Rotate, auxVars
  <2>9. ListingTypeOK' /\ ListingsExist'
    <3>1. Len(created[k]) + 1 \in Nat /\ Appears(k, Len(created[k]) + 1)
      BY <1>3, <1>5 DEF Rotate
    <3>2. created'[k] = Append(created[k], t) /\ \A q \in VaultObjects \ {k} : created'[q] = created[q]
      BY <2>1 DEF VaultTypeOK
    <3>3. Len(created[k]) + 1 \in DOMAIN created'[k] /\ DOMAIN created[k] \subseteq DOMAIN created'[k]
      BY <1>3, <2>3, <3>2
    <3> QED
      BY <1>8, <1>9, <2>8, <3>1, <3>2, <3>3
  <2> QED
    BY <1>4, <2>5, <2>6, <2>7, <2>8, <2>9
<1>6. ASSUME NEW v \in DOMAIN created[k], Disable(k, v) PROVE TypeInv'
  <2>1. enabled' = [enabled EXCEPT ![k] = @ \ {v}] /\ UNCHANGED created
    BY <1>6 DEF Disable, Disappears
  <2>2. VaultTypeOK' /\ EnabledExist'
    BY <2>1 DEF VaultTypeOK, EnabledExist
  <2>3. AuxTypeOK'
    <3>1. steady' \in [Requests -> [VaultObjects -> SUBSET Nat]]
      BY <1>6 DEF Disable, AuxTypeOK
    <3> QED
      BY <1>6, <3>1 DEF Disable, AuxTypeOK
  <2>4. UNCHANGED <<handlerVars, processVars, arrival, nearby>>
    BY <1>6 DEF Disable
  <2>5. ListingTypeOK'
    BY <1>6 DEF Disable, Disappears, ListingTypeOK
  <2>6. ListingsExist'
    BY <1>6, <2>1, <2>4 DEF Disable, Disappears, ListingsExist, ListingOf, Entry, EntryObject,
                            handlerVars
  <2> QED
    BY <1>4, <2>2, <2>3, <2>4, <2>5, <2>6
<1>7. ASSUME NEW v \in DOMAIN created[k], Enable(k, v) PROVE TypeInv'
  <2>1. enabled' = [enabled EXCEPT ![k] = @ \cup {v}] /\ UNCHANGED created
    BY <1>7 DEF Enable, Appears
  <2>2. v \in Nat
    BY <1>3
  <2>3. VaultTypeOK' /\ EnabledExist'
    BY <2>1, <2>2 DEF VaultTypeOK, EnabledExist
  <2>4. AuxTypeOK'
    BY <1>7 DEF Enable, AuxTypeOK, auxVars
  <2>5. UNCHANGED <<handlerVars, processVars, arrival, nearby>>
    BY <1>7 DEF Enable, auxVars
  <2>6. ListingTypeOK' /\ ListingsExist'
    BY <1>7, <1>8, <1>9, <2>1, <2>2, <2>5 DEF Enable
  <2> QED
    BY <1>4, <2>3, <2>4, <2>5, <2>6
<1> QED
  BY <1>1, <1>5, <1>6, <1>7

\* Steps that change nothing.
LEMMA StutterType == TypeInv /\ UNCHANGED vars => TypeInv'
<1> SUFFICES ASSUME TypeInv, UNCHANGED vars PROVE TypeInv'
  OBVIOUS
<1> USE DEF TypeInv, TypeOK, vars, handlerVars, listingVars, processVars, vaultVars, auxVars
<1>1. HandlerTypeOK' /\ ListingTypeOK' /\ ProcessTypeOK' /\ VaultTypeOK' /\ AuxTypeOK'
  BY DEF HandlerTypeOK, ListingTypeOK, ProcessTypeOK, VaultTypeOK, AuxTypeOK
<1>2. FetchHasObject' /\ EnabledExist' /\ ListingsExist'
  BY DEF FetchHasObject, EnabledExist, ListingsExist, ListingOf, Entry, EntryObject
<1> QED
  BY <1>1, <1>2

\* Every step of a handler, the driver and the vault preserves the types.
LEMMA StepType == TypeInv /\ [Next]_vars => TypeInv'
<1> SUFFICES ASSUME TypeInv, [Next]_vars PROVE TypeInv'
  OBVIOUS
<1>1. ASSUME NEW r \in Requests, Handler(r) PROVE TypeInv'
  BY <1>1, SetAzureEnvironmentFilePathType, InitializeClientType, ResolveObjectVersionsType,
     SelectVersionsType, GetKeyVaultObjectContentType, ReturnFilesType DEF Handler
<1>2. ASSUME NEW r \in Requests, NEW a \in Attribs, Arrive(r, a) PROVE TypeInv'
  BY <1>2, ArriveType
<1> QED
  BY <1>1, <1>2, VaultType, StutterType DEF Next

\* The provider's state keeps its types whatever is mounted and whatever the
\* vault's owners do, and a handler that fetches has an object to fetch.
THEOREM TypeInvariance == Spec => []TypeInv
  BY InitType, StepType, PTL DEF Spec

\* Every variable of the Mount handlers keeps its type.
THEOREM TypeCorrect == Spec => []TypeOK
<1>1. TypeInv => TypeOK
  BY DEF TypeInv
<1> QED
  BY TypeInvariance, <1>1, PTL
=============================================================================
