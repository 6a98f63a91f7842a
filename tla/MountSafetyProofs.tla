-------------------------- MODULE MountSafetyProofs --------------------------
(***************************************************************************)
(* Safety properties of Mount, for any number of concurrent mounts: where  *)
(* the cloud environment of a mount can come from, which credential it     *)
(* presents, that a certificate and its key come together, and that a      *)
(* response is complete and no staler than the vault was at the call.      *)
(***************************************************************************)
EXTENDS MountProofs

\* Every handler step but Arrive touches only its own handler and, when it
\* sets it, the environment variable.
LEMMA StepKinds ==
    ASSUME [Next]_vars
    PROVE  \/ UNCHANGED <<pc, attr, cloud, cred, envFile, nearby>>
           \/ \E r \in Requests : \E a \in Attribs : Arrive(r, a)
           \/ \E r \in Requests : SetAzureEnvironmentFilePath(r)
           \/ \E r \in Requests : InitializeClient(r)
           \/ \E r \in Requests : \E p \in {"resolve", "list", "fetch", "ok", "error"} :
                /\ pc[r] \in {"resolve", "list", "fetch"}
                /\ pc' = [pc EXCEPT ![r] = p]
                /\ UNCHANGED <<attr, cloud, cred, envFile, nearby>>
<1>1. ASSUME UNCHANGED vars PROVE UNCHANGED <<pc, attr, cloud, cred, envFile, nearby>>
  BY <1>1 DEF vars, handlerVars, processVars, auxVars
<1>2. ASSUME Vault PROVE UNCHANGED <<pc, attr, cloud, cred, envFile, nearby>>
  BY <1>2 DEF Vault, Rotate, Disable, Enable, handlerVars, processVars, auxVars
<1>3. ASSUME NEW r \in Requests,
             \/ ResolveObjectVersions(r) \/ SelectVersions(r)
             \/ GetKeyVaultObjectContent(r) \/ ReturnFiles(r)
      PROVE  \E p \in {"resolve", "list", "fetch", "ok", "error"} :
                /\ pc[r] \in {"resolve", "list", "fetch"}
                /\ pc' = [pc EXCEPT ![r] = p]
                /\ UNCHANGED <<attr, cloud, cred, envFile, nearby>>
  <2>1. ASSUME Fail(r) PROVE pc' = [pc EXCEPT ![r] = "error"] /\ UNCHANGED <<attr, cloud, cred>>
    BY <2>1 DEF Fail
  <2>2. ASSUME NEW o, Continue(r, o)
        PROVE  \E p \in {"resolve", "fetch"} : pc' = [pc EXCEPT ![r] = p]
    BY <2>2 DEF Continue
  <2>3. UNCHANGED <<envFile, nearby>> /\ pc[r] \in {"resolve", "list", "fetch"}
    BY <1>3 DEF ResolveObjectVersions, SelectVersions, GetKeyVaultObjectContent, ReturnFiles, processVars, auxVars
  <2>4. CASE ResolveObjectVersions(r)
    BY <2>1, <2>2, <2>3, <2>4 DEF ResolveObjectVersions
  <2>5. CASE GetKeyVaultObjectContent(r)
    BY <2>1, <2>2, <2>3, <2>5 DEF GetKeyVaultObjectContent
  <2>6. CASE ReturnFiles(r)
    BY <2>3, <2>6 DEF ReturnFiles, Reply
  <2>7. CASE SelectVersions(r)
    BY <2>1, <2>2, <2>3, <2>7 DEF SelectVersions
  <2> QED
    BY <1>3, <2>4, <2>5, <2>6, <2>7
<1> QED
  BY <1>1, <1>2, <1>3 DEF Next, Handler
-----------------------------------------------------------------------------
(***************************************************************************)
(* The cloud environment.  A mount about to read the variable has set it,  *)
(* so what it reads is its own file or one that a mount which has not      *)
(* ended set since.                                                        *)
(***************************************************************************)

InFlightNearby ==
    \A r, q \in Requests :
        pc[r] \in Running /\ pc[q] \in Running /\ attr[q].cloudEnvFileName # "" =>
            attr[q].cloudEnvFileName \in nearby[r]

EnvFileNearby ==
    \A r \in Requests :
        pc[r] = "client" /\ attr[r].cloudEnvFileName # "" => envFile \in nearby[r]

EnvironmentInv == TypeInv /\ InFlightNearby /\ EnvFileNearby /\ EnvironmentFromOverlap

\* Before the first mount no environment file is named.
LEMMA InitEnvironment == Init => EnvironmentInv
<1> SUFFICES ASSUME Init PROVE EnvironmentInv
  OBVIOUS
<1>1. InFlightNearby /\ EnvFileNearby
  BY DEF Init, InFlightNearby, EnvFileNearby, Running
<1>2. EnvironmentFromOverlap
  BY MountAssumption DEF Init, EnvironmentFromOverlap
<1> QED
  BY <1>1, <1>2, InitType DEF EnvironmentInv

\* Every step keeps the environment files of a mount among those nearby.
LEMMA StepEnvironment == EnvironmentInv /\ [Next]_vars => EnvironmentInv'
<1> SUFFICES ASSUME EnvironmentInv, [Next]_vars PROVE EnvironmentInv'
  OBVIOUS
<1> USE DEF EnvironmentInv
<1>t. TypeInv'
  BY StepType
<1>h. HandlerTypeOK /\ AuxTypeOK
  BY DEF TypeInv, TypeOK
<1>1. CASE UNCHANGED <<pc, attr, cloud, cred, envFile, nearby>>
  BY <1>t, <1>1 DEF InFlightNearby, EnvFileNearby, EnvironmentFromOverlap
<1>2. ASSUME NEW r \in Requests, NEW a \in Attribs, Arrive(r, a) PROVE EnvironmentInv'
  <2>1. /\ pc' = [pc EXCEPT ![r] = "params"] /\ attr' = [attr EXCEPT ![r] = a]
        /\ cloud' = [cloud EXCEPT ![r] = "none"] /\ envFile' = envFile
        /\ pc[r] \notin Running
    BY <1>2 DEF Arrive, processVars
  <2>2. \A q \in Requests \ {r} :
            /\ pc'[q] = pc[q] /\ attr'[q] = attr[q] /\ cloud'[q] = cloud[q]
            /\ nearby[q] \subseteq nearby'[q]
            /\ pc[q] \in Running /\ a.cloudEnvFileName # "" => a.cloudEnvFileName \in nearby'[q]
    BY <1>2, <1>h, <2>1 DEF Arrive, InFlight, HandlerTypeOK
  <2>3. /\ pc'[r] = "params" /\ attr'[r] = a /\ cloud'[r] = "none"
        /\ nearby'[r] = ({a.cloudEnvFileName} \ {""}) \cup FilesNamed(InFlight)
    BY <1>2, <1>h, <2>1 DEF Arrive, HandlerTypeOK
  <2>4. \A q \in Requests \ {r} :
            pc[q] \in Running /\ attr[q].cloudEnvFileName # "" =>
                attr[q].cloudEnvFileName \in nearby'[r]
    BY <2>3 DEF FilesNamed, InFlight
  <2>5. InFlightNearby'
    BY <2>2, <2>3, <2>4 DEF InFlightNearby
  <2>6. EnvFileNearby'
    BY <2>1, <2>2, <2>3 DEF EnvFileNearby
  <2>7. EnvironmentFromOverlap'
    BY <2>2, <2>3, MountAssumption DEF EnvironmentFromOverlap
  <2> QED
    BY <1>t, <2>5, <2>6, <2>7
<1>3. ASSUME NEW r \in Requests, SetAzureEnvironmentFilePath(r) PROVE EnvironmentInv'
  <2>1. pc[r] = "params" /\ UNCHANGED <<attr, cloud, nearby>>
    BY <1>3 DEF SetAzureEnvironmentFilePath, EnvironmentFilePath, Fail, auxVars
  <2>2. CASE pc' = [pc EXCEPT ![r] = "error"] /\ envFile' = envFile
    BY <1>t, <1>h, <2>1, <2>2
       DEF InFlightNearby, EnvFileNearby, EnvironmentFromOverlap, HandlerTypeOK, Running
  <2>3. CASE /\ pc' = [pc EXCEPT ![r] = "client"]
             /\ envFile' = IF attr[r].cloudEnvFileName = "" THEN envFile
                           ELSE attr[r].cloudEnvFileName
    <3>1. \A q \in Requests : pc'[q] \in Running <=> pc[q] \in Running
      BY <1>h, <2>1, <2>3 DEF HandlerTypeOK, Running
    <3>2. InFlightNearby' /\ EnvironmentFromOverlap'
      BY <2>1, <3>1 DEF InFlightNearby, EnvironmentFromOverlap
    <3>3. EnvFileNearby'
      <4> SUFFICES ASSUME NEW q \in Requests, pc'[q] = "client", attr[q].cloudEnvFileName # ""
                   PROVE  envFile' \in nearby[q]
        BY <2>1 DEF EnvFileNearby
      <4>1. pc[q] \in Running /\ pc[r] \in Running
        BY <2>1, <3>1 DEF Running
      <4>2. CASE attr[r].cloudEnvFileName = ""
        <5>1. q # r /\ pc[q] = "client"
          BY <1>h, <2>3, <4>2 DEF HandlerTypeOK
        <5> QED
          BY <2>3, <4>2, <5>1 DEF EnvFileNearby
      <4>3. CASE attr[r].cloudEnvFileName # ""
        BY <2>3, <4>1, <4>3 DEF InFlightNearby
      <4> QED
        BY <4>2, <4>3
    <3> QED
      BY <1>t, <3>2, <3>3
  <2> QED
    BY <1>3, <2>2, <2>3 DEF SetAzureEnvironmentFilePath, EnvironmentFilePath, Fail
<1>4. ASSUME NEW r \in Requests, InitializeClient(r) PROVE EnvironmentInv'
  <2>1. pc[r] = "client" /\ UNCHANGED <<attr, envFile, nearby>>
    BY <1>4 DEF InitializeClient, Fail, processVars, auxVars
  <2>2. PICK p \in {"ok", "error", "resolve"} : pc' = [pc EXCEPT ![r] = p]
    BY <1>4 DEF InitializeClient, Fail
  <2>3. \A q \in Requests : /\ pc'[q] \in Running => pc[q] \in Running
                            /\ pc'[q] = "client" => pc[q] = "client"
    BY <1>h, <2>1, <2>2 DEF HandlerTypeOK, Running
  <2>4. InFlightNearby' /\ EnvFileNearby'
    BY <2>1, <2>3 DEF InFlightNearby, EnvFileNearby
  <2>5. \/ cloud' = cloud
        \/ cloud' = [cloud EXCEPT ![r] = ParseAzureEnvironment(attr[r].cloudName)]
    BY <1>4 DEF InitializeClient, Fail
  <2>6. ParseAzureEnvironment(attr[r].cloudName) \in Files =>
            ParseAzureEnvironment(attr[r].cloudName) = envFile
    BY MountAssumption DEF ParseAzureEnvironment, EnvironmentFromName
  <2>7. EnvironmentFromOverlap'
    <3> SUFFICES ASSUME NEW q \in Requests, cloud'[q] \in Files, attr[q].cloudEnvFileName # ""
                 PROVE  cloud'[q] \in nearby[q]
      BY <2>1, Zenon DEF EnvironmentFromOverlap
    <3>1. CASE cloud'[q] = cloud[q]
      BY <3>1, Zenon DEF EnvironmentFromOverlap
    <3>2. CASE cloud'[q] # cloud[q]
      <4>1. cloud'[q] = ParseAzureEnvironment(attr[r].cloudName) /\ q = r
        <5> HIDE DEF EnvironmentInv
        <5> QED
          BY <1>h, <2>5, <3>2, Zenon DEF HandlerTypeOK
      <4>2. cloud'[q] = envFile
        BY <2>6, <4>1, Zenon
      <4>3. envFile \in nearby[r]
        BY <2>1, <4>1, Zenon DEF EnvFileNearby
      <4> QED
        BY <4>1, <4>2, <4>3, Zenon
    <3> QED
      BY <3>1, <3>2
  <2> QED
    BY <1>t, <2>4, <2>7
<1>5. ASSUME NEW r \in Requests, NEW p \in {"resolve", "list", "fetch", "ok", "error"},
             pc[r] \in {"resolve", "list", "fetch"}, pc' = [pc EXCEPT ![r] = p],
             UNCHANGED <<attr, cloud, cred, envFile, nearby>>
      PROVE  EnvironmentInv'
  <2>1. \A q \in Requests : /\ pc'[q] \in Running => pc[q] \in Running
                            /\ pc'[q] = "client" => pc[q] = "client"
    BY <1>h, <1>5 DEF HandlerTypeOK, Running
  <2> QED
    BY <1>t, <1>5, <2>1 DEF InFlightNearby, EnvFileNearby, EnvironmentFromOverlap
<1> QED
  BY <1>1, <1>2, <1>3, <1>4, <1>5, StepKinds

\* A mount that names an environment file never works with the cloud of a
\* mount that had ended before it came, however many mounts share the process.
THEOREM EnvironmentIsFromOverlap == Spec => []EnvironmentFromOverlap
<1>1. Spec => []EnvironmentInv
  BY InitEnvironment, StepEnvironment, PTL DEF Spec
<1>2. EnvironmentInv => EnvironmentFromOverlap
  BY DEF EnvironmentInv
<1> QED
  BY <1>1, <1>2, PTL
-----------------------------------------------------------------------------
(***************************************************************************)
(* The credential.  What is proved of it rests on the identity modes being *)
(* exclusive, which is checked long before the credential is made.         *)
(***************************************************************************)

\* A set with two elements has a cardinality above one.
LEMMA TwoModes ==
    ASSUME NEW S, S \subseteq IdentityModes, NEW x \in S, NEW y \in S, x # y
    PROVE  Cardinality(S) > 1
<1>1. IsFiniteSet({x}) /\ Cardinality({x}) = 1
  BY FS_Singleton
<1>2. Cardinality({x} \cup {y}) = 2
  BY <1>1, FS_AddElement
<1>3. IsFiniteSet(IdentityModes)
  <2>1. IsFiniteSet({"None"})
    BY FS_Singleton
  <2>2. IsFiniteSet({"None"} \cup {"PodIdentity"})
    BY <2>1, FS_AddElement
  <2>3. IsFiniteSet(({"None"} \cup {"PodIdentity"}) \cup {"VMManagedIdentity"})
    BY <2>2, FS_AddElement
  <2>4. IsFiniteSet((({"None"} \cup {"PodIdentity"}) \cup {"VMManagedIdentity"}) \cup {"AzureTokenProxy"})
    BY <2>3, FS_AddElement
  <2>5. IdentityModes = (({"None"} \cup {"PodIdentity"}) \cup {"VMManagedIdentity"}) \cup {"AzureTokenProxy"}
    BY DEF IdentityModes
  <2> QED
    BY <2>4, <2>5
<1>4. IsFiniteSet(S)
  BY <1>3, FS_Subset
<1>5. Cardinality({x} \cup {y}) <= Cardinality(S)
  <2>1. {x} \cup {y} \in SUBSET S
    OBVIOUS
  <2> QED
    BY <1>4, <2>1, FS_Subset
<1>6. Cardinality(S) \in Nat
  BY <1>4, FS_CardinalityType
<1> QED
  BY <1>2, <1>5, <1>6

\* Parameters that are not rejected enable at most one identity mode.
LEMMA ModesExclusive ==
    ASSUME NEW a, ~IdentityModeRejected(a)
    PROVE  /\ ~(a.usePodIdentity = "true" /\ a.useVMManagedIdentity = "true")
           /\ ~(a.usePodIdentity = "true" /\ a.useAzureTokenProxy = "true")
           /\ ~(a.useVMManagedIdentity = "true" /\ a.useAzureTokenProxy = "true")
<1>1. ModesEnabled(a) \subseteq IdentityModes
  BY DEF ModesEnabled
<1>2. \A x, y \in ModesEnabled(a) : x = y
  BY <1>1, TwoModes DEF IdentityModeRejected
<1>3. /\ a.usePodIdentity = "true" => "PodIdentity" \in ModesEnabled(a)
      /\ a.useVMManagedIdentity = "true" => "VMManagedIdentity" \in ModesEnabled(a)
      /\ a.useAzureTokenProxy = "true" => "AzureTokenProxy" \in ModesEnabled(a)
  BY DEF ModesEnabled, IdentityModes
<1> QED
  BY <1>2, <1>3

\* CredentialFits, said of the parts a credential is made of.
LEMMA FitsByParts ==
    ASSUME NEW a, NEW k, NEW i, NEW p, NEW t,
           t = "proxy" <=> a.useAzureTokenProxy = "true",
           p = IdentityBindingTokenAudience <=> t = "proxy",
           t = "nmi" <=> a.usePodIdentity = "true",
           t = "imds" <=> a.useVMManagedIdentity = "true",
           t = "imds" => i = a.userAssignedIdentityID,
           k = "clientAssertion" => i = a.clientID /\ i # "" /\ p \in a.saTokens.audiences,
           k = "clientSecret" => i \in a.secrets.clientids /\ p \in a.secrets.clientsecrets
    PROVE  CredentialFits(a, Credential(k, i, p, t))
<1> DEFINE e == Credential(k, i, p, t)
<1>1. e.kind = k /\ e.identity = i /\ e.proof = p /\ e.transport = t
  BY DEF Credential
<1> HIDE DEF e
<1>2. CredentialFits(a, e)
  BY <1>1 DEF CredentialFits
<1> QED
  BY <1>2 DEF e

\* The credential made from a configuration fits the parameters it is for.
LEMMA CredentialFitsParameters ==
    ASSUME NEW a \in AttribType, ~IdentityModeRejected(a), NEW c \in AuthConfigs(a),
           NEW transport, GetCredential(c, transport) # NoCredential
    PROVE  CredentialFits(a, GetCredential(c, transport))
<1> DEFINE d == GetCredential(c, transport)
<1>1. ~TokenRejected(a)
  BY DEF AuthConfigs
<1>2. PICK sp : /\ c = Config(a, sp)
                /\ \/ ~UsesServicePrincipal(a) /\ sp = <<"", "">>
                   \/ /\ UsesServicePrincipal(a) /\ sp \in ServicePrincipals(a.secrets)
                      /\ sp[1] # "" /\ sp[2] # ""
  BY <1>1 DEF AuthConfigs
<1>3. /\ c.IdentityMode = IdentityMode(a)
      /\ c.UserAssignedIdentityID = a.userAssignedIdentityID
      /\ c.WorkloadIdentityClientID = a.clientID
      /\ c.ServiceAccountToken = ParsedAudience(a)
      /\ c.AADClientID = sp[1] /\ c.AADClientSecret = sp[2]
  BY <1>2 DEF Config
<1>4. ParsedAudience(a) # "" => ParsedAudience(a) \in a.saTokens.audiences
  BY <1>1 DEF TokenRejected, TokenFound
<1>5. /\ ~(a.usePodIdentity = "true" /\ a.useVMManagedIdentity = "true")
      /\ ~(a.usePodIdentity = "true" /\ a.useAzureTokenProxy = "true")
      /\ ~(a.useVMManagedIdentity = "true" /\ a.useAzureTokenProxy = "true")
  BY ModesExclusive
<1>6. CASE IdentityMode(a) = "PodIdentity"
  <2>1. d = Credential("podIdentity", "", "", "nmi")
    BY <1>3, <1>6 DEF GetCredential
  <2>2. a.usePodIdentity = "true"
    BY <1>6 DEF IdentityMode
  <2>3. CredentialFits(a, Credential("podIdentity", "", "", "nmi"))
    BY <1>5, <2>2, FitsByParts DEF IdentityBindingTokenAudience
  <2> QED
    BY <2>1, <2>3
<1>7. CASE IdentityMode(a) = "VMManagedIdentity"
  <2>1. d = Credential("managedIdentity", a.userAssignedIdentityID, "", "imds")
    BY <1>3, <1>7 DEF GetCredential
  <2>2. a.useVMManagedIdentity = "true"
    BY <1>7 DEF IdentityMode
  <2>3. CredentialFits(a, Credential("managedIdentity", a.userAssignedIdentityID, "", "imds"))
    BY <1>5, <2>2, FitsByParts DEF IdentityBindingTokenAudience
  <2> QED
    BY <2>1, <2>3
<1>8. CASE IdentityMode(a) = "AzureTokenProxy"
  <2>1. /\ d = Credential("clientAssertion", a.clientID, IdentityBindingTokenAudience, "proxy")
        /\ a.clientID # ""
    BY <1>3, <1>8 DEF GetCredential, ParsedAudience
  <2>2. a.useAzureTokenProxy = "true"
    BY <1>8 DEF IdentityMode
  <2>3. IdentityBindingTokenAudience \in a.saTokens.audiences
    BY <1>4, <1>8 DEF ParsedAudience, IdentityBindingTokenAudience
  <2>4. CredentialFits(a, Credential("clientAssertion", a.clientID,
                                     IdentityBindingTokenAudience, "proxy"))
    BY <1>5, <2>1, <2>2, <2>3, FitsByParts
  <2> QED
    BY <2>1, <2>4
<1>9. CASE IdentityMode(a) = "None"
  <2>1. a.usePodIdentity # "true" /\ a.useVMManagedIdentity # "true" /\ a.useAzureTokenProxy # "true"
    BY <1>9 DEF IdentityMode
  <2>2. CASE a.clientID # "" /\ ParsedAudience(a) # ""
    <3>1. d = Credential("clientAssertion", a.clientID, ParsedAudience(a), "direct")
      BY <1>3, <1>9, <2>2 DEF GetCredential
    <3>2. ParsedAudience(a) = DefaultTokenAudience
      BY <1>9, <2>2 DEF ParsedAudience
    <3>3. CredentialFits(a, Credential("clientAssertion", a.clientID, ParsedAudience(a), "direct"))
      <4>1. ParsedAudience(a) \in a.saTokens.audiences
        BY <1>4, <2>2
      <4>2. ParsedAudience(a) # IdentityBindingTokenAudience
        BY <3>2 DEF DefaultTokenAudience, IdentityBindingTokenAudience
      <4> QED
        BY <2>1, <2>2, <4>1, <4>2, FitsByParts
    <3> QED
      BY <3>1, <3>3
  <2>3. CASE ~(a.clientID # "" /\ ParsedAudience(a) # "")
    <3>1. UsesServicePrincipal(a)
      BY <1>9, <2>3 DEF UsesServicePrincipal
    <3>2. sp \in ServicePrincipals(a.secrets) /\ sp[1] # "" /\ sp[2] # ""
      BY <1>2, <3>1
    <3>3. d = Credential("clientSecret", sp[1], sp[2], "direct")
      BY <1>3, <1>9, <2>3, <3>2 DEF GetCredential
    <3>4. sp[1] \in a.secrets.clientids /\ sp[2] \in a.secrets.clientsecrets
      <4>1. a.secrets.given
        <5>1. ~a.secrets.given => sp = <<"", "">>
          BY <3>2 DEF ServicePrincipals
        <5>2. <<"", "">>[1] = ""
          OBVIOUS
        <5>3. sp # <<"", "">>
          BY <3>2, <5>2
        <5> QED
          BY <5>1, <5>3
      <4>2. sp \in LastSeen(a.secrets.clientids) \X LastSeen(a.secrets.clientsecrets)
        BY <3>2, <4>1 DEF ServicePrincipals
      <4>3. sp[1] \in LastSeen(a.secrets.clientids) /\ sp[2] \in LastSeen(a.secrets.clientsecrets)
        BY <4>2
      <4> QED
        BY <3>2, <4>3 DEF LastSeen
    <3>5. sp[2] # IdentityBindingTokenAudience
      <4>1. a.secrets.clientsecrets \subseteq Identities \cup {""}
        BY DEF AttribType, Secrets
      <4> QED
        BY <3>4, <4>1, MountAssumption DEF Audiences, IdentityBindingTokenAudience
    <3>6. CredentialFits(a, Credential("clientSecret", sp[1], sp[2], "direct"))
      BY <2>1, <3>4, <3>5, FitsByParts
    <3> QED
      BY <3>3, <3>6
  <2> QED
    BY <2>2, <2>3
<1> QED
  BY <1>6, <1>7, <1>8, <1>9 DEF IdentityMode

\* A handler that makes a client has had its identity mode checked.
ModeChecked == \A r \in Requests : pc[r] = "client" => ~IdentityModeRejected(attr[r])

CredentialInv == TypeInv /\ ModeChecked /\ CredentialMatchesRequest

\* Every step keeps the credentials fitting the parameters.
LEMMA StepCredential == CredentialInv /\ [Next]_vars => CredentialInv'
<1> SUFFICES ASSUME CredentialInv, [Next]_vars PROVE CredentialInv'
  OBVIOUS
<1> USE DEF CredentialInv
<1>t. TypeInv'
  BY StepType
<1>h. HandlerTypeOK
  BY DEF TypeInv, TypeOK
<1>1. CASE UNCHANGED <<pc, attr, cloud, cred, envFile, nearby>>
  BY <1>t, <1>1 DEF ModeChecked, CredentialMatchesRequest
<1>2. ASSUME NEW r \in Requests, NEW a \in Attribs, Arrive(r, a) PROVE CredentialInv'
  <2>1. /\ pc' = [pc EXCEPT ![r] = "params"] /\ attr' = [attr EXCEPT ![r] = a]
        /\ cred' = [cred EXCEPT ![r] = NoCredential]
    BY <1>2 DEF Arrive
  <2> QED
    BY <1>t, <1>h, <2>1 DEF ModeChecked, CredentialMatchesRequest, HandlerTypeOK
<1>3. ASSUME NEW r \in Requests, SetAzureEnvironmentFilePath(r) PROVE CredentialInv'
  <2>1. UNCHANGED <<attr, cred>>
    BY <1>3 DEF SetAzureEnvironmentFilePath, Fail
  <2>2. \/ pc' = [pc EXCEPT ![r] = "error"]
        \/ pc' = [pc EXCEPT ![r] = "client"] /\ ~IdentityModeRejected(attr[r])
    BY <1>3 DEF SetAzureEnvironmentFilePath, Fail, ParametersRejected
  <2>3. ModeChecked'
    BY <1>h, <2>1, <2>2 DEF ModeChecked, HandlerTypeOK
  <2> QED
    BY <1>t, <2>1, <2>3 DEF CredentialMatchesRequest
<1>4. ASSUME NEW r \in Requests, InitializeClient(r) PROVE CredentialInv'
  <2>1. pc[r] = "client" /\ UNCHANGED attr
    BY <1>4 DEF InitializeClient, Fail
  <2>2. PICK p \in {"ok", "error", "resolve"} : pc' = [pc EXCEPT ![r] = p]
    BY <1>4 DEF InitializeClient, Fail
  <2>3. ModeChecked'
    BY <1>h, <2>1, <2>2 DEF ModeChecked, HandlerTypeOK
  <2>4. \/ cred' = cred
        \/ \E c \in AuthConfigs(attr[r]) :
             /\ GetCredential(c, proxyTransport) # NoCredential
             /\ cred' = [cred EXCEPT ![r] = GetCredential(c, proxyTransport)]
    BY <1>4 DEF InitializeClient, Fail
  <2>5. \A c \in AuthConfigs(attr[r]) :
            GetCredential(c, proxyTransport) # NoCredential =>
                CredentialFits(attr[r], GetCredential(c, proxyTransport))
    <3>1. attr[r] \in AttribType
      BY AttribsType DEF TypeInv
    <3>2. ~IdentityModeRejected(attr[r])
      BY <2>1 DEF ModeChecked
    <3> QED
      BY <3>1, <3>2, CredentialFitsParameters
  <2>6. cred' = cred \/ \E d : CredentialFits(attr[r], d) /\ cred' = [cred EXCEPT ![r] = d]
    BY <2>4, <2>5
  <2>7. CredentialMatchesRequest'
    BY <1>h, <2>1, <2>6 DEF CredentialMatchesRequest, HandlerTypeOK
  <2> QED
    BY <1>t, <2>3, <2>7
<1>5. ASSUME NEW r \in Requests, NEW p \in {"resolve", "list", "fetch", "ok", "error"},
             pc[r] \in {"resolve", "list", "fetch"}, pc' = [pc EXCEPT ![r] = p],
             UNCHANGED <<attr, cloud, cred, envFile, nearby>>
      PROVE  CredentialInv'
  BY <1>t, <1>h, <1>5 DEF ModeChecked, CredentialMatchesRequest, HandlerTypeOK
<1> QED
  BY <1>1, <1>2, <1>3, <1>4, <1>5, StepKinds

\* Every credential a mount is given is the one its parameters ask for, and
\* each service account token is bound to the channel of its audience.
THEOREM CredentialIsRequested == Spec => []CredentialMatchesRequest
<1>1. Init => CredentialInv
  BY InitType DEF Init, CredentialInv, ModeChecked, CredentialMatchesRequest
<1>2. Spec => []CredentialInv
  BY <1>1, StepCredential, PTL DEF Spec
<1>3. CredentialInv => CredentialMatchesRequest
  BY DEF CredentialInv
<1> QED
  BY <1>2, <1>3, PTL
-----------------------------------------------------------------------------
(***************************************************************************)
(* Certificates and keys.  The files of one fetch are together by          *)
(* themselves (PartsTogether), and appending them to others separates none *)
(* (AppendTogether), so every request's files are together at any time.    *)
(***************************************************************************)

FilesTogether == \A r \in Requests : CertAndKeyTogether(files[r])

\* Two groups of files one after the other.
LEMMA AppendTogether ==
    ASSUME NEW s \in Seq(FileType), NEW t \in Seq(FileType),
           CertAndKeyTogether(s), CertAndKeyTogether(t)
    PROVE  CertAndKeyTogether(s \o t)
<1> DEFINE u == s \o t
           m == Len(s)
           n == Len(t)
           Good(z, i) ==
             /\ z[i].suffix # "" => CertBacked(z[i]) /\ writeCertAndKeyInSeparateFiles
             /\ z[i].suffix = ".crt" =>
                  /\ i + 2 \in DOMAIN z
                  /\ z[i + 1].suffix = ".key" /\ Beside(z[i], z[i + 1])
                  /\ z[i + 2].suffix = "" /\ Beside(z[i], z[i + 2])
             /\ z[i].suffix = "" /\ CertBacked(z[i]) /\ writeCertAndKeyInSeparateFiles =>
                  i > 2 /\ z[i - 2].suffix = ".crt"
<1>1. m \in Nat /\ n \in Nat /\ DOMAIN s = 1..m /\ DOMAIN t = 1..n /\ DOMAIN u = 1..(m + n)
  OBVIOUS
<1>2. /\ \A i \in 1..m : u[i] = s[i]
      /\ \A i \in 1..n : u[m + i] = t[i]
  OBVIOUS
<1>3. (\A i \in 1..m : Good(s, i)) /\ (\A i \in 1..n : Good(t, i))
  BY <1>1 DEF CertAndKeyTogether
<1> HIDE DEF u, m, n
<1>4. ASSUME NEW i \in 1..m PROVE Good(u, i)
  <2>1. Good(s, i) /\ u[i] = s[i]
    BY <1>2, <1>3
  <2>2. ASSUME s[i].suffix = ".crt"
        PROVE  i + 2 \in 1..(m + n) /\ u[i + 1] = s[i + 1] /\ u[i + 2] = s[i + 2]
    <3>0. i + 2 \in 1..m
      BY <1>1, <2>1, <2>2, Zenon
    <3>1. i + 2 \in 1..m /\ i + 1 \in 1..m
      BY <1>1, <3>0
    <3> QED
      BY <1>1, <1>2, <3>1
  <2>3. ASSUME i > 2 PROVE u[i - 2] = s[i - 2]
    <3>1. i - 2 \in 1..m
      BY <1>1, <2>3
    <3> QED
      BY <1>2, <3>1
  <2> QED
    BY <1>1, <2>1, <2>2, <2>3
<1>5. ASSUME NEW i \in 1..n PROVE Good(u, m + i)
  <2>1. Good(t, i) /\ u[m + i] = t[i]
    BY <1>2, <1>3
  <2>2. ASSUME t[i].suffix = ".crt"
        PROVE  /\ (m + i) + 2 \in 1..(m + n)
               /\ u[(m + i) + 1] = t[i + 1] /\ u[(m + i) + 2] = t[i + 2]
    <3>0. i + 2 \in 1..n
      BY <1>1, <2>1, <2>2, Zenon
    <3>1. i + 2 \in 1..n /\ i + 1 \in 1..n /\ (m + i) + 1 = m + (i + 1) /\ (m + i) + 2 = m + (i + 2)
      BY <1>1, <3>0
    <3> QED
      BY <1>1, <1>2, <3>1
  <2>3. ASSUME i > 2 PROVE m + i > 2 /\ u[(m + i) - 2] = t[i - 2]
    <3>1. i - 2 \in 1..n /\ (m + i) - 2 = m + (i - 2) /\ m + i > 2
      BY <1>1, <2>3
    <3> QED
      BY <1>2, <3>1
  <2> QED
    BY <1>1, <2>1, <2>2, <2>3
<1>6. ASSUME NEW j \in 1..(m + n) PROVE Good(u, j)
  <2>1. CASE j \in 1..m
    BY <1>4, <2>1
  <2>2. CASE j > m
    <3>1. j - m \in 1..n /\ m + (j - m) = j
      BY <1>1, <2>2
    <3> QED
      BY <1>5, <3>1
  <2>3. j \in 1..m \/ j > m
    BY <1>1
  <2> QED
    BY <2>1, <2>2, <2>3, Zenon
<1> QED
  BY <1>1, <1>6, Zenon DEF CertAndKeyTogether, u

\* What the vault's answer is split into: three parts if it is a certificate's
\* and the flag is set, else one.
LEMMA PartsOfContent ==
    ASSUME NEW kv, NEW bundle, ObjectContent(kv, bundle) # <<>>
    PROVE  LET parts == ObjectContent(kv, bundle)
               certBacked == kv.ObjectType = "secret" /\ bundle \in {"pem", "pfx", "corruptPfx"}
           IN  \/ /\ ~(certBacked /\ writeCertAndKeyInSeparateFiles)
                  /\ \E x : parts = <<Part(x, "")>>
               \/ /\ certBacked /\ writeCertAndKeyInSeparateFiles
                  /\ \E x, y, z : parts = <<Part(x, ".crt"), Part(y, ".key"), Part(z, "")>>
<1> DEFINE parts == ObjectContent(kv, bundle)
           backed == bundle \in {"pem", "pfx", "corruptPfx"}
           Single(q) == \E x : q = <<Part(x, "")>>
           Triple(q) == \E x, y, z : q = <<Part(x, ".crt"), Part(y, ".key"), Part(z, "")>>
<1>1. ASSUME NEW c
      PROVE  IF writeCertAndKeyInSeparateFiles THEN Triple(CertParts(c)) ELSE Single(CertParts(c))
  BY Zenon DEF CertParts
<1>2. \/ GetSecret(kv, bundle) = <<>>
      \/ ~backed /\ Single(GetSecret(kv, bundle))
      \/ backed /\ GetSecret(kv, bundle) = CertParts(CertContent(kv, bundle))
  <2>1. CASE bundle \in {"text", "base64Text", "hexText"}
    <3>1. ~backed
      BY <2>1
    <3>2. GetSecret(kv, bundle) = <<Part(bundle, "")>>
      BY <2>1, <3>1 DEF GetSecret
    <3> QED
      BY <3>1, <3>2
  <2>2. CASE bundle \notin {"text", "base64Text", "hexText"} /\ backed /\ CertContent(kv, bundle) # "invalid"
    BY <2>2 DEF GetSecret
  <2>3. CASE bundle \notin {"text", "base64Text", "hexText"} /\ ~(backed /\ CertContent(kv, bundle) # "invalid")
    BY <2>3 DEF GetSecret
  <2> QED
    BY <2>1, <2>2, <2>3
<1>3. /\ GetKey(bundle) = <<>> \/ Single(GetKey(bundle))
      /\ GetCertificate(bundle) = <<>> \/ Single(GetCertificate(bundle))
  BY Zenon DEF GetKey, GetCertificate
<1>4. /\ kv.ObjectType = "secret" => parts = GetSecret(kv, bundle)
      /\ kv.ObjectType = "key" => parts = GetKey(bundle)
      /\ kv.ObjectType = "cert" => parts = GetCertificate(bundle)
      /\ kv.ObjectType \notin {"secret", "key", "cert"} => parts = <<>>
  BY DEF ObjectContent
<1> HIDE DEF parts, Single, Triple, backed
<1>5. \/ ~(kv.ObjectType = "secret" /\ backed /\ writeCertAndKeyInSeparateFiles) /\ Single(parts)
      \/ kv.ObjectType = "secret" /\ backed /\ writeCertAndKeyInSeparateFiles /\ Triple(parts)
  <2>1. parts # <<>>
    BY DEF parts
  <2>2. CASE kv.ObjectType = "secret"
    BY <1>1, <1>2, <1>4, <2>1, <2>2
  <2>3. CASE kv.ObjectType # "secret"
    <3>1. Single(parts)
      BY <1>3, <1>4, <2>1, <2>3
    <3> QED
      BY <2>3, <3>1
  <2> QED
    BY <2>2, <2>3
<1> QED
  BY <1>5, Zenon DEF parts, Single, Triple, backed

\* Tuples of one and of three.
LEMMA ShortTuples ==
    ASSUME NEW a, NEW b, NEW c
    PROVE  /\ DOMAIN <<a>> = {1} /\ <<a>>[1] = a
           /\ DOMAIN <<a, b, c>> = {1, 2, 3}
           /\ <<a, b, c>>[1] = a /\ <<a, b, c>>[2] = b /\ <<a, b, c>>[3] = c
  OBVIOUS

\* The files of one fetch.
LEMMA PartsTogether ==
    ASSUME NEW r \in Requests, NEW kv, ObjectContent(kv, Bundle[VaultObject(kv)]) # <<>>
    PROVE  LET parts == ObjectContent(kv, Bundle[VaultObject(kv)])
           IN  CertAndKeyTogether([i \in DOMAIN parts |-> SecretFile(r, kv, parts[i])])
<1> DEFINE parts == ObjectContent(kv, Bundle[VaultObject(kv)])
           File(x, s) == SecretFile(r, kv, Part(x, s))
           new == [i \in DOMAIN parts |-> SecretFile(r, kv, parts[i])]
           backed == kv.ObjectType = "secret" /\ Bundle[VaultObject(kv)] \in {"pem", "pfx", "corruptPfx"}
<1>1. ASSUME NEW x, NEW s
      PROVE  File(x, s).suffix = s /\ (CertBacked(File(x, s)) <=> backed)
  BY DEF SecretFile, Part, CertBacked, GetObjectUID, VaultObject
<1>2. ASSUME NEW x, NEW s, NEW y, NEW t PROVE Beside(File(x, s), File(y, t))
  BY DEF Beside, SecretFile
<1>3. \/ /\ ~(backed /\ writeCertAndKeyInSeparateFiles)
         /\ \E x : parts = <<Part(x, "")>>
      \/ /\ backed /\ writeCertAndKeyInSeparateFiles
         /\ \E x, y, z : parts = <<Part(x, ".crt"), Part(y, ".key"), Part(z, "")>>
  BY PartsOfContent, Zenon
<1> HIDE DEF File, parts, backed
<1>4. CASE ~(backed /\ writeCertAndKeyInSeparateFiles) /\ \E x : parts = <<Part(x, "")>>
  <2>1. PICK x : parts = <<Part(x, "")>>
    BY <1>4
  <2>2. DOMAIN new = {1} /\ new[1] = File(x, "")
    <3>1. DOMAIN parts = {1} /\ parts[1] = Part(x, "")
      BY <2>1, ShortTuples
    <3> QED
      BY <3>1 DEF File
  <2> HIDE DEF new
  <2>3. CertAndKeyTogether(new)
    <3>1. new[1].suffix = "" /\ (CertBacked(new[1]) <=> backed)
      <4>1. File(x, "").suffix = "" /\ (CertBacked(File(x, "")) <=> backed)
        BY <1>1, Zenon
      <4> QED
        BY <2>2, <4>1, Zenon
    <3>2. "" # ".crt"
      OBVIOUS
    <3>3. \A i \in DOMAIN new : i = 1
      BY <2>2
    <3> QED
      BY <1>4, <3>1, <3>2, <3>3, Zenon DEF CertAndKeyTogether
  <2> QED
    BY <2>3 DEF new, parts
<1>5. CASE /\ backed /\ writeCertAndKeyInSeparateFiles
           /\ \E x, y, z : parts = <<Part(x, ".crt"), Part(y, ".key"), Part(z, "")>>
  <2>1. PICK x, y, z : parts = <<Part(x, ".crt"), Part(y, ".key"), Part(z, "")>>
    BY <1>5
  <2>2. /\ DOMAIN new = {1, 2, 3}
        /\ new[1] = File(x, ".crt") /\ new[2] = File(y, ".key") /\ new[3] = File(z, "")
    <3>1. /\ DOMAIN parts = {1, 2, 3}
          /\ parts[1] = Part(x, ".crt") /\ parts[2] = Part(y, ".key") /\ parts[3] = Part(z, "")
      <4> DEFINE a == Part(x, ".crt")
                 b == Part(y, ".key")
                 c == Part(z, "")
      <4> HIDE DEF a, b, c
      <4>1. parts = <<a, b, c>>
        BY <2>1 DEF a, b, c
      <4>2. DOMAIN parts = {1, 2, 3} /\ parts[1] = a /\ parts[2] = b /\ parts[3] = c
        BY <4>1, ShortTuples
      <4> QED
        BY <4>2 DEF a, b, c
    <3> QED
      BY <3>1 DEF File
  <2> HIDE DEF new
  <2>3. CertAndKeyTogether(new)
    <3>1. /\ new[1].suffix = ".crt" /\ new[2].suffix = ".key" /\ new[3].suffix = ""
          /\ CertBacked(new[1]) /\ CertBacked(new[2]) /\ CertBacked(new[3])
      <4>1. /\ File(x, ".crt").suffix = ".crt" /\ CertBacked(File(x, ".crt"))
            /\ File(y, ".key").suffix = ".key" /\ CertBacked(File(y, ".key"))
            /\ File(z, "").suffix = "" /\ CertBacked(File(z, ""))
        BY <1>1, <1>5
      <4> QED
        BY <2>2, <4>1, Zenon
    <3>2. Beside(new[1], new[2]) /\ Beside(new[1], new[3])
      BY <1>2, <2>2
    <3>3. /\ 1 + 1 = 2 /\ 1 + 2 = 3 /\ 3 - 2 = 1 /\ 3 > 2
          /\ "" # ".crt" /\ "" # ".key" /\ ".crt" # ".key"
      OBVIOUS
    <3>4. 3 \in DOMAIN new /\ \A i \in DOMAIN new : i = 1 \/ i = 2 \/ i = 3
      BY <2>2, Zenon
    <3> DEFINE Good(i) ==
                 /\ new[i].suffix # "" => CertBacked(new[i]) /\ writeCertAndKeyInSeparateFiles
                 /\ new[i].suffix = ".crt" =>
                      /\ i + 2 \in DOMAIN new
                      /\ new[i + 1].suffix = ".key" /\ Beside(new[i], new[i + 1])
                      /\ new[i + 2].suffix = "" /\ Beside(new[i], new[i + 2])
                 /\ new[i].suffix = "" /\ CertBacked(new[i]) /\ writeCertAndKeyInSeparateFiles =>
                      i > 2 /\ new[i - 2].suffix = ".crt"
    <3>5. Good(1)
      BY <1>5, <3>1, <3>2, <3>3, <3>4, Zenon
    <3>6. Good(2)
      BY <1>5, <3>1, <3>3, Zenon
    <3>7. Good(3)
      BY <1>5, <3>1, <3>3, Zenon
    <3>8. \A i \in DOMAIN new : Good(i)
      <4> HIDE DEF Good
      <4> QED
        BY <3>4, <3>5, <3>6, <3>7, Zenon
    <3> QED
      BY <3>8, Zenon DEF CertAndKeyTogether
  <2> QED
    BY <2>3 DEF new, parts
<1> QED
  BY <1>3, <1>4, <1>5

\* A fetch appends the files of one version; every other step leaves the files
\* of a request as they are or drops them all.
LEMMA StepTogether == TypeInv /\ FilesTogether /\ [Next]_vars => FilesTogether'
<1> SUFFICES ASSUME TypeInv, FilesTogether, [Next]_vars PROVE FilesTogether'
  OBVIOUS
<1>h. files \in [Requests -> Seq(FileType)]
  BY DEF TypeInv, TypeOK, HandlerTypeOK
<1>e. CertAndKeyTogether(<<>>)
  <2>1. \A i \in DOMAIN <<>> : FALSE
    OBVIOUS
  <2> QED
    BY <2>1, Zenon DEF CertAndKeyTogether
<1>1. ASSUME NEW r \in Requests, NEW s, CertAndKeyTogether(s), files' = [files EXCEPT ![r] = s]
      PROVE  FilesTogether'
  <2> SUFFICES ASSUME NEW q \in Requests PROVE CertAndKeyTogether(files'[q])
    BY DEF FilesTogether, CertAndKeyTogether, CertBacked, Beside
  <2>1. files'[q] = s \/ files'[q] = files[q]
    BY <1>1, <1>h
  <2> QED
    BY <1>1, <2>1 DEF FilesTogether
<1>2. CASE UNCHANGED files
  BY <1>2, Zenon DEF FilesTogether
<1>3. ASSUME NEW r \in Requests, files' = [files EXCEPT ![r] = <<>>] PROVE FilesTogether'
  BY <1>e, <1>1, <1>3
<1>4. ASSUME NEW r \in Requests, GetKeyVaultObjectContent(r) PROVE FilesTogether'
  <2> DEFINE kv == Head(resolved[r])
             parts == ObjectContent(kv, Bundle[VaultObject(kv)])
             new == [i \in DOMAIN parts |-> SecretFile(r, kv, parts[i])]
  <2>1. CASE Fail(r)
    BY <1>3, <2>1 DEF Fail
  <2>2. CASE /\ ~ContentInvalid(kv, parts)
             /\ files' = [files EXCEPT ![r] = @ \o new]
             /\ VaultObject(kv) \in VaultObjects
             /\ VersionRead(kv) \in DOMAIN created[VaultObject(kv)]
    <3>1. CertAndKeyTogether(new)
      BY <2>2, PartsTogether DEF ContentInvalid
    <3>2. new \in Seq(FileType)
      <4>1. kv \in KeyVaultObjects(Names)
        <5>1. pc[r] = "fetch"
          BY <1>4, Zenon DEF GetKeyVaultObjectContent
        <5>2. resolved[r] \in Seq(KeyVaultObjects(Names)) /\ resolved[r] # <<>>
          BY <5>1 DEF TypeInv, TypeOK, HandlerTypeOK, FetchHasObject
        <5> QED
          BY <5>2
      <4> QED
        BY <2>2, <4>1, NewFilesType
    <3> HIDE DEF new
    <3>3. CertAndKeyTogether(files[r] \o new)
      BY <1>h, <3>1, <3>2, AppendTogether DEF FilesTogether
    <3> QED
      BY <1>1, <2>2, <3>3
  <2> QED
    BY <1>4, <2>1, <2>2 DEF GetKeyVaultObjectContent
<1>5. ASSUME NEW r \in Requests,
             \/ SetAzureEnvironmentFilePath(r) \/ InitializeClient(r)
             \/ ResolveObjectVersions(r) \/ SelectVersions(r) \/ ReturnFiles(r)
      PROVE  FilesTogether'
  <2>1. CASE SetAzureEnvironmentFilePath(r)
    BY <1>2, <1>3, <2>1 DEF SetAzureEnvironmentFilePath, Fail
  <2>2. CASE InitializeClient(r)
    BY <1>2, <1>3, <2>2 DEF InitializeClient, Fail
  <2>3. CASE ResolveObjectVersions(r)
    BY <1>2, <1>3, <2>3 DEF ResolveObjectVersions, Fail
  <2>4. CASE SelectVersions(r)
    BY <1>2, <1>3, <2>4 DEF SelectVersions, Fail
  <2>5. CASE ReturnFiles(r)
    BY <1>2, <2>5 DEF ReturnFiles, Reply
  <2> QED
    BY <1>5, <2>1, <2>2, <2>3, <2>4, <2>5
<1>6. ASSUME NEW r \in Requests, NEW a \in Attribs, Arrive(r, a) PROVE FilesTogether'
  BY <1>3, <1>6 DEF Arrive
<1>7. CASE Vault
  BY <1>2, <1>7 DEF Vault, Rotate, Disable, Enable, handlerVars
<1>8. CASE UNCHANGED vars
  BY <1>2, <1>8 DEF vars, handlerVars
<1> QED
  BY <1>4, <1>5, <1>6, <1>7, <1>8 DEF Next, Handler

\* A certificate, its key and the secret they come from are always returned
\* together and of one version, however the vault rotates during the mount.
THEOREM CertAndKeyOfOneVersion == Spec => []CertAndKeyBesideSecret
<1>1. Init => TypeInv /\ FilesTogether
  <2>1. CertAndKeyTogether(<<>>)
    <3>1. \A i \in DOMAIN <<>> : FALSE
      OBVIOUS
    <3> QED
      BY <3>1, Zenon DEF CertAndKeyTogether
  <2>2. Init => FilesTogether
    <3>1. Init => \A r \in Requests : files[r] = <<>>
      BY DEF Init
    <3> QED
      BY <2>1, <3>1, Zenon DEF FilesTogether
  <2> QED
    BY <2>2, InitType
<1>2. TypeInv /\ FilesTogether /\ [Next]_vars => (TypeInv /\ FilesTogether)'
  BY StepType, StepTogether
<1>3. TypeInv /\ FilesTogether => CertAndKeyBesideSecret
  BY DEF FilesTogether, CertAndKeyBesideSecret
<1> QED
  BY <1>1, <1>2, <1>3, PTL DEF Spec
-----------------------------------------------------------------------------
(***************************************************************************)
(* What is served.  The versions an entry has got and the ones it is still *)
(* to get are, together, the selection made from its listing, at any time  *)
(* while they are fetched; and every entry before it has been served.      *)
(***************************************************************************)

\* The indexes and versions of the objects in o.
Coming(o) == {<<o[j].ObjectIndex, o[j].ObjectVersion>> : j \in DOMAIN o}

\* N is a right answer to an entry with a version history.
Selected(kv, N, there, time) ==
    /\ \A a \in N : a[2] \in DOMAIN time
    /\ NewestFirst(kv, N, time)
    /\ NoneSkipped(kv, N, there, time)

\* Entry e, which is kv, has in s what it should have: if it syncs one version,
\* one that is not older than since, and else a selection, or nothing if the
\* vault does not have its object.
EntryServed(kv, e, s, since, there, time) ==
    IF VaultObject(kv) \notin VaultObjects
    THEN ~IsSyncingSingleVersion(kv) /\ Served(s, e) = {}
    ELSE IF IsSyncingSingleVersion(kv)
    THEN \E i \in DOMAIN s :
            /\ Served(s, e) = {i}
            /\ Pinned(kv) => s[i].version = kv.ObjectVersion
            /\ kv.ObjectVersion = NoVersion => s[i].version >= since
    ELSE InIndexOrder(s, e) /\ Selected(kv, Named(s, e), there, time)

\* The files of s for entry e and, after them, the objects in o.
InTurn(s, e, o) ==
    /\ InIndexOrder(s, e)
    /\ \A i \in Served(s, e) : \A j \in DOMAIN o : s[i].index < o[j].ObjectIndex
    /\ \A i, j \in DOMAIN o : i < j => o[i].ObjectIndex < o[j].ObjectIndex

\* The objects in o are versions of the vault's object k.
VersionsOf(o, k) ==
    \A j \in DOMAIN o : VaultObject(o[j]) = k /\ o[j].ObjectVersion # NoVersion

\* Entry e is being fetched: with the objects in o it will have what it should.
EntryFetching(kv, e, s, o, there, time) ==
    IF IsSyncingSingleVersion(kv)
    THEN Served(s, e) = {} /\ o = <<kv>>
    ELSE /\ VaultObject(kv) \in VaultObjects
         /\ InTurn(s, e, o)
         /\ VersionsOf(o, VaultObject(kv))
         /\ Selected(kv, Named(s, e) \cup Coming(o), there, time)

\* The entries that a handler has begun.
Begun(r) == IF pc[r] = "fetch" THEN entry[r] ELSE entry[r] - 1

ServedBefore(r) ==
    \A e \in DOMAIN attr[r].objects : e < entry[r] =>
        LET kv == attr[r].objects[e]
            k == VaultObject(kv)
        IN  EntryServed(kv, e, files[r], arrival[r][k], steady[r][k], created[k])

ServingNow(r) ==
    LET k == EntryObject(r)
    IN  /\ entry[r] \in DOMAIN attr[r].objects
        /\ EntryFetching(Entry(r), entry[r], files[r], resolved[r], steady[r][k], created[k])

Progress(r) ==
    /\ pc[r] \in {"params", "client"} => files[r] = <<>> /\ entry[r] = 1
    /\ pc[r] \in {"resolve", "list", "fetch", "ok"} =>
         ServedBefore(r) /\ \A i \in DOMAIN files[r] : files[r][i].entry <= Begun(r)
    /\ pc[r] = "list" => steady[r][EntryObject(r)] \subseteq throughout[r]
    /\ pc[r] = "fetch" => ServingNow(r)
    /\ pc[r] = "ok" => entry[r] > Len(attr[r].objects)

\* What was enabled all along still is, and versions do not go away.
SteadyEnabled ==
    \A r \in Requests : \A k \in VaultObjects :
        steady[r][k] \subseteq enabled[k] /\ arrival[r][k] <= Len(created[k])

ServingInv == TypeInv /\ SteadyEnabled /\ \A r \in Requests : Progress(r)

\* getLatestNKeyVaultObjects selects what it should from any sorted listing,
\* in particular of the versions in there.
LEMMA SelectionIsRight ==
    ASSUME NEW kv \in KeyVaultObjects(Names), ~IsSyncingSingleVersion(kv),
           NEW time \in Seq(Nat), NEW listed \in SUBSET (DOMAIN time),
           NEW list \in SortedLists(listed, time),
           NEW there \in SUBSET listed,
           NEW o, o = GetLatestNKeyVaultObjects(kv, list)
    PROVE  /\ Selected(kv, Coming(o), there, time)
           /\ VersionsOf(o, VaultObject(kv))
           /\ \A i, j \in DOMAIN o : i < j => o[i].ObjectIndex < o[j].ObjectIndex
<1>1. Len(time) \in Nat /\ DOMAIN time = 1..Len(time)
  OBVIOUS
<1>2. PICK first : first = FirstWanted(kv, list)
  BY Zenon
<1>3. /\ list \in Seq(Nat)
      /\ \A a, b \in 1..Len(list) : a # b => list[a] # list[b]
      /\ \A a \in 1..Len(list) : list[a] \in listed
  BY <1>1, SortedListsType
<1>4. /\ \A v \in listed : \E a \in 1..Len(list) : list[a] = v
      /\ \A a, b \in 1..Len(list) : a < b => time[list[a]] >= time[list[b]]
  BY <1>1, SortedListsAre, Zenon
<1>5. /\ first \in 1..(Len(list) + 1)
      /\ ~Pinned(kv) => first = 1
      /\ Pinned(kv) =>
           /\ first <= Len(list) => list[first] = kv.ObjectVersion
           /\ \A j \in 1..(first - 1) : list[j] # kv.ObjectVersion
  BY <1>2, <1>3, FirstWantedPosition DEF Pinned
<1> DEFINE n == Len(list)
           history == kv.ObjectVersionHistory
           len == Len(o)
<1>6. /\ o \in Seq(KeyVaultObjects(Names))
      /\ len = IF n + 1 - first < history + 1 THEN n + 1 - first ELSE history + 1
      /\ \A j \in 1..len :
            /\ o[j].ObjectIndex = j - 1 /\ o[j].ObjectVersion = list[first + j - 1]
            /\ o[j].ObjectType = kv.ObjectType /\ o[j].ObjectName = kv.ObjectName
  BY <1>2, <1>3, LatestObjects
<1>7. history \in Nat /\ history > 1
  <2>1. history \in Int
    BY DEF KeyVaultObjects
  <2> QED
    BY <2>1 DEF IsSyncingSingleVersion
<1>8. n \in Nat /\ len \in Nat /\ DOMAIN o = 1..len
  BY <1>3, <1>6
<1>9. \A j \in 1..len : first + j - 1 \in 1..n
  BY <1>5, <1>6, <1>7, <1>8
<1>10. VersionsOf(o, VaultObject(kv))
  <2> SUFFICES ASSUME NEW j \in 1..len
               PROVE  VaultObject(o[j]) = VaultObject(kv) /\ o[j].ObjectVersion # NoVersion
    BY <1>8 DEF VersionsOf
  <2>1. VaultObject(o[j]) = VaultObject(kv)
    BY <1>6 DEF VaultObject
  <2>2. list[first + j - 1] \in 1..Len(time)
    BY <1>1, <1>3, <1>9
  <2>3. o[j].ObjectVersion # 0
    BY <1>1, <1>6, <2>2
  <2> QED
    BY <2>1, <2>3 DEF NoVersion
<1>11. \A i, j \in DOMAIN o : i < j => o[i].ObjectIndex < o[j].ObjectIndex
  BY <1>6, <1>8
<1> DEFINE At(j) == <<j - 1, list[first + j - 1]>>
<1>12. \A a \in Coming(o) : \E j \in 1..len : a[1] = j - 1 /\ a[2] = list[first + j - 1]
  <2> SUFFICES ASSUME NEW a \in Coming(o)
               PROVE  \E j \in 1..len : a[1] = j - 1 /\ a[2] = list[first + j - 1]
    OBVIOUS
  <2>1. PICK j \in 1..len : a = <<o[j].ObjectIndex, o[j].ObjectVersion>>
    BY <1>8 DEF Coming
  <2>2. a[1] = o[j].ObjectIndex /\ a[2] = o[j].ObjectVersion
    BY <2>1
  <2> QED
    BY <1>6, <2>2
<1>13. \A j \in 1..len : At(j) \in Coming(o) /\ At(j)[1] = j - 1 /\ At(j)[2] = list[first + j - 1]
  BY <1>6, <1>8 DEF Coming
<1> HIDE DEF At
<1> DEFINE N == Coming(o)
<1> HIDE DEF N
<1>14. \A a \in N : a[2] \in DOMAIN time
  BY <1>3, <1>9, <1>12 DEF N
<1>15. NewestFirst(kv, N, time)
  <2>1. ASSUME NEW a \in N
        PROVE  /\ a[1] \in Nat
               /\ \A m \in 0..a[1] : \E b \in N : b[1] = m
               /\ a[1] = 0 /\ Pinned(kv) => a[2] = kv.ObjectVersion
    <3>1. PICK j \in 1..len : a[1] = j - 1 /\ a[2] = list[first + j - 1]
      BY <1>12 DEF N
    <3>2. a[1] \in Nat
      BY <1>8, <3>1
    <3>3. ASSUME NEW m \in 0..a[1] PROVE \E b \in N : b[1] = m
      <4>1. m + 1 \in 1..len /\ (m + 1) - 1 = m
        BY <1>8, <3>1
      <4>2. At(m + 1) \in N /\ At(m + 1)[1] = m
        BY <1>13, <4>1 DEF N
      <4> QED
        BY <4>2
    <3>4. ASSUME a[1] = 0, Pinned(kv) PROVE a[2] = kv.ObjectVersion
      <4>1. j = 1 /\ first + j - 1 = first /\ first <= n
        BY <1>5, <1>8, <1>9, <3>1, <3>4
      <4> QED
        BY <1>5, <3>1, <3>4, <4>1
    <3> QED
      BY <3>2, <3>3, <3>4
  <2>2. ASSUME NEW a \in N, NEW b \in N, a[1] < b[1]
        PROVE  a[2] # b[2] /\ time[a[2]] >= time[b[2]]
    <3>1. PICK i \in 1..len : a[1] = i - 1 /\ a[2] = list[first + i - 1]
      BY <1>12 DEF N
    <3>2. PICK j \in 1..len : b[1] = j - 1 /\ b[2] = list[first + j - 1]
      BY <1>12 DEF N
    <3>3. /\ first + i - 1 \in 1..n /\ first + j - 1 \in 1..n
          /\ first + i - 1 < first + j - 1 /\ first + i - 1 # first + j - 1
      BY <1>5, <1>8, <1>9, <2>2, <3>1, <3>2
    <3>4. list[first + i - 1] # list[first + j - 1]
      BY <1>3, <3>3, Zenon
    <3>5. time[list[first + i - 1]] >= time[list[first + j - 1]]
      BY <1>4, <3>3, Zenon
    <3> QED
      BY <3>1, <3>2, <3>4, <3>5
  <2> QED
    BY <2>1, <2>2, Zenon DEF NewestFirst
<1>16. NoneSkipped(kv, N, there, time)
  <2> SUFFICES ASSUME ~Pinned(kv) \/ kv.ObjectVersion \in there, NEW v \in there, Wanted(kv, v, time)
               PROVE  \/ \E a \in N : a[2] = v
                      \/ /\ \E a \in N : a[1] + 1 = history
                         /\ \A a \in N : time[a[2]] >= time[v]
    BY Zenon DEF NoneSkipped
  <2>1. PICK p \in 1..n : list[p] = v
    BY <1>4
  <2>2. ASSUME p < first PROVE FALSE
    <3>1. Pinned(kv) /\ v # kv.ObjectVersion
      BY <1>5, <1>8, <2>1, <2>2
    <3>2. PICK q \in 1..n : list[q] = kv.ObjectVersion
      BY <1>4, <3>1
    <3>3. first <= n /\ list[first] = kv.ObjectVersion /\ first \in 1..n
      BY <1>5, <1>8, <3>1, <3>2
    <3>4. time[v] >= time[kv.ObjectVersion]
      BY <1>4, <2>1, <2>2, <3>3
    <3>5. time[v] < time[kv.ObjectVersion]
      BY <3>1 DEF Wanted
    <3>6. v \in DOMAIN time /\ kv.ObjectVersion \in DOMAIN time
      BY <3>1
    <3>7. time[v] \in Nat /\ time[kv.ObjectVersion] \in Nat
      BY <1>1, <3>6
    <3> QED
      BY <3>4, <3>5, <3>7
  <2>3. PICK j \in Nat : j = p - first + 1
    BY <1>5, <1>8, <2>2
  <2>4. j > 0 /\ first + j - 1 = p
    BY <1>5, <1>8, <2>2, <2>3
  <2>5. CASE j <= len
    <3>1. j \in 1..len
      BY <1>8, <2>4, <2>5
    <3>2. At(j) \in N /\ At(j)[2] = v
      BY <1>13, <2>1, <2>4, <3>1 DEF N
    <3> QED
      BY <3>2
  <2>6. CASE j > len
    <3>1. len = history + 1
      BY <1>5, <1>6, <1>7, <1>8, <2>4, <2>6
    <3>2. history \in 1..len /\ (history - 1) + 1 = history
      BY <1>7, <3>1
    <3>3. At(history) \in N /\ At(history)[1] + 1 = history
      BY <1>13, <3>2 DEF N
    <3>4. ASSUME NEW a \in N PROVE time[a[2]] >= time[v]
      <4>1. PICK i \in 1..len : a[1] = i - 1 /\ a[2] = list[first + i - 1]
        BY <1>12 DEF N
      <4>2. first + i - 1 \in 1..n /\ first + i - 1 < p
        BY <1>5, <1>8, <1>9, <2>4, <2>6
      <4>3. time[list[first + i - 1]] >= time[list[p]]
        BY <1>4, <4>2
      <4> QED
        BY <2>1, <4>1, <4>3
    <3> QED
      BY <3>3, <3>4
  <2> QED
    BY <1>8, <2>5, <2>6
<1> QED
  BY <1>10, <1>11, <1>14, <1>15, <1>16 DEF Selected, N

\* A right selection stays right while versions are created and disabled.
LEMMA SelectedStays ==
    ASSUME NEW kv, NEW N, NEW there, NEW left \in SUBSET there, NEW time, NEW later,
           there \subseteq DOMAIN time,
           \A v \in DOMAIN time : v \in DOMAIN later /\ later[v] = time[v],
           Selected(kv, N, there, time)
    PROVE  Selected(kv, N, left, later)
<1>1. /\ \A a \in N : a[2] \in DOMAIN time
      /\ NewestFirst(kv, N, time) /\ NoneSkipped(kv, N, there, time)
  BY DEF Selected
<1>2. \A a \in N : a[2] \in DOMAIN later /\ later[a[2]] = time[a[2]]
  BY <1>1
<1>3. NewestFirst(kv, N, later)
  BY <1>1, <1>2, Zenon DEF NewestFirst
<1>4. NoneSkipped(kv, N, left, later)
  <2> SUFFICES ASSUME ~Pinned(kv) \/ kv.ObjectVersion \in left, NEW v \in left,
                      Wanted(kv, v, later)
               PROVE  \/ \E a \in N : a[2] = v
                      \/ /\ \E a \in N : a[1] + 1 = kv.ObjectVersionHistory
                         /\ \A a \in N : later[a[2]] >= later[v]
    BY Zenon DEF NoneSkipped
  <2>1. /\ v \in there /\ later[v] = time[v]
        /\ Pinned(kv) => kv.ObjectVersion \in there
                         /\ later[kv.ObjectVersion] = time[kv.ObjectVersion]
    BY Zenon
  <2>2. Wanted(kv, v, time)
    BY <2>1, Zenon DEF Wanted
  <2>3. \/ \E a \in N : a[2] = v
        \/ /\ \E a \in N : a[1] + 1 = kv.ObjectVersionHistory
           /\ \A a \in N : time[a[2]] >= time[v]
    BY <1>1, <2>1, <2>2, Zenon DEF NoneSkipped
  <2> QED
    BY <1>2, <2>1, <2>3, Zenon
<1> QED
  BY <1>2, <1>3, <1>4 DEF Selected

\* So does what an entry has, and what it is to have.
LEMMA EntryStays ==
    ASSUME NEW kv, NEW e, NEW s, NEW o, NEW since, NEW there, NEW left,
           NEW time, NEW later,
           VaultObject(kv) \in VaultObjects => left \subseteq there /\ there \subseteq DOMAIN time,
           VaultObject(kv) \in VaultObjects =>
               \A v \in DOMAIN time : v \in DOMAIN later /\ later[v] = time[v]
    PROVE  /\ EntryServed(kv, e, s, since, there, time) =>
                 EntryServed(kv, e, s, since, left, later)
           /\ EntryFetching(kv, e, s, o, there, time) =>
                 EntryFetching(kv, e, s, o, left, later)
<1>1. ASSUME NEW N, VaultObject(kv) \in VaultObjects, Selected(kv, N, there, time)
      PROVE  Selected(kv, N, left, later)
  BY <1>1, SelectedStays
<1>2. ASSUME EntryServed(kv, e, s, since, there, time)
      PROVE  EntryServed(kv, e, s, since, left, later)
  BY <1>1, <1>2, Zenon DEF EntryServed
<1>3. ASSUME EntryFetching(kv, e, s, o, there, time)
      PROVE  EntryFetching(kv, e, s, o, left, later)
  BY <1>1, <1>3, Zenon DEF EntryFetching
<1> QED
  BY <1>2, <1>3

\* A response that has gained no file of entry e.
LEMMA SameServed ==
    ASSUME NEW kv, NEW e, NEW s, NEW u, NEW since, NEW there, NEW time,
           Served(u, e) = Served(s, e),
           \A i \in Served(s, e) : i \in DOMAIN u /\ u[i] = s[i],
           EntryServed(kv, e, s, since, there, time)
    PROVE  EntryServed(kv, e, u, since, there, time)
<1>1. Named(u, e) = Named(s, e)
  BY DEF Named
<1>2. ASSUME InIndexOrder(s, e) PROVE InIndexOrder(u, e)
  <2> SUFFICES ASSUME NEW i \in Served(u, e), NEW j \in Served(u, e), i < j
               PROVE  u[i].index < u[j].index
    BY Zenon DEF InIndexOrder
  <2>1. i \in Served(s, e) /\ j \in Served(s, e) /\ u[i] = s[i] /\ u[j] = s[j]
    BY Zenon
  <2> QED
    BY <1>2, <2>1, Zenon DEF InIndexOrder
<1>3. CASE IsSyncingSingleVersion(kv)
  <2>1. PICK i \in DOMAIN s : /\ Served(s, e) = {i}
                              /\ Pinned(kv) => s[i].version = kv.ObjectVersion
                              /\ kv.ObjectVersion = NoVersion => s[i].version >= since
    BY <1>3, Zenon DEF EntryServed
  <2>2. i \in DOMAIN u /\ u[i] = s[i] /\ Served(u, e) = {i}
    BY <2>1
  <2>3. VaultObject(kv) \in VaultObjects
    BY <1>3 DEF EntryServed
  <2> QED
    BY <1>3, <2>1, <2>2, <2>3, Zenon DEF EntryServed
<1>4. CASE ~IsSyncingSingleVersion(kv)
  <2>1. CASE VaultObject(kv) \in VaultObjects
    BY <1>1, <1>2, <1>4, <2>1, Zenon DEF EntryServed
  <2>2. CASE VaultObject(kv) \notin VaultObjects
    BY <1>4, <2>2, Zenon DEF EntryServed
  <2> QED
    BY <2>1, <2>2
<1> QED
  BY <1>3, <1>4

\* The response u is the response s and files of entry e, of which the last,
\* the m-th, is the one that counts.
OneMore(s, u, e, m) ==
    /\ m \in DOMAIN u /\ ~(m < m)
    /\ \A i \in DOMAIN s : i \in DOMAIN u /\ u[i] = s[i] /\ ~(m < i)
    /\ \A i \in DOMAIN u : i \in DOMAIN s \/ u[i].entry = e
    /\ Served(u, e) = Served(s, e) \cup {m}
    /\ \A f : f # e => Served(u, f) = Served(s, f)

\* One of the versions an entry is to have becomes one that it has.
LEMMA OneFetched ==
    ASSUME NEW kv, ~IsSyncingSingleVersion(kv), NEW e, NEW s, NEW u,
           NEW o, NEW rest, NEW m, NEW since, NEW there, NEW time,
           EntryFetching(kv, e, s, o, there, time),
           o \in Seq(KeyVaultObjects(Names)), o # <<>>, rest = Tail(o),
           OneMore(s, u, e, m),
           u[m].index = Head(o).ObjectIndex, u[m].version = Head(o).ObjectVersion
    PROVE  /\ EntryFetching(kv, e, u, rest, there, time)
           /\ rest = <<>> => EntryServed(kv, e, u, since, there, time)
<1>0. /\ Served(u, e) = Served(s, e) \cup {m} /\ ~(m < m)
      /\ \A i \in Served(s, e) : u[i] = s[i] /\ ~(m < i)
  BY Zenon DEF OneMore, Served
<1>1. /\ VaultObject(kv) \in VaultObjects
      /\ InTurn(s, e, o)
      /\ VersionsOf(o, VaultObject(kv))
      /\ Selected(kv, Named(s, e) \cup Coming(o), there, time)
  BY DEF EntryFetching
<1>2. /\ 1 \in DOMAIN o /\ Head(o) = o[1]
      /\ \A j \in DOMAIN rest : j + 1 \in DOMAIN o /\ rest[j] = o[j + 1] /\ 1 < j + 1
      /\ \A j \in DOMAIN o : j = 1 \/ (j - 1 \in DOMAIN rest /\ rest[j - 1] = o[j])
      /\ \A i, j \in DOMAIN rest : i < j => i + 1 < j + 1
  <2>1. Len(o) \in Nat \ {0} /\ DOMAIN o = 1..Len(o)
    OBVIOUS
  <2>2. DOMAIN rest = 1..(Len(o) - 1) /\ \A j \in 1..(Len(o) - 1) : rest[j] = o[j + 1]
    BY <2>1
  <2>3. ASSUME NEW j \in DOMAIN o, j # 1
        PROVE  j - 1 \in DOMAIN rest /\ rest[j - 1] = o[j]
    <3>1. j - 1 \in 1..(Len(o) - 1) /\ (j - 1) + 1 = j
      BY <2>1, <2>3
    <3> QED
      BY <2>2, <3>1
  <2>4. Head(o) = o[1] /\ 1 \in DOMAIN o
    BY <2>1
  <2>5. \A j \in DOMAIN rest : j + 1 \in DOMAIN o /\ rest[j] = o[j + 1] /\ 1 < j + 1
    BY <2>1, <2>2
  <2>6. \A i, j \in DOMAIN rest : i < j => i + 1 < j + 1
    BY <2>1, <2>2
  <2> QED
    BY <2>3, <2>4, <2>5, <2>6
<1>3. Named(u, e) \cup Coming(rest) = Named(s, e) \cup Coming(o)
  <2> DEFINE h == <<o[1].ObjectIndex, o[1].ObjectVersion>>
  <2>1. Named(u, e) = Named(s, e) \cup {h}
    BY <1>0, <1>2 DEF Named
  <2>2. ASSUME NEW a \in Coming(o) PROVE a \in Coming(rest) \cup {h}
    <3>1. PICK j \in DOMAIN o : a = <<o[j].ObjectIndex, o[j].ObjectVersion>>
      BY <2>2 DEF Coming
    <3>2. CASE j = 1
      BY <3>1, <3>2
    <3>3. CASE j # 1
      <4>1. j - 1 \in DOMAIN rest /\ rest[j - 1] = o[j]
        BY <1>2, <3>3, Zenon
      <4>2. PICK i : i = j - 1
        BY Zenon
      <4> QED
        BY <3>1, <4>1, <4>2, Zenon DEF Coming
    <3> QED
      BY <3>2, <3>3
  <2>3. ASSUME NEW a \in Coming(rest) PROVE a \in Coming(o)
    <3>1. PICK j \in DOMAIN rest : a = <<rest[j].ObjectIndex, rest[j].ObjectVersion>>
      BY <2>3 DEF Coming
    <3>2. PICK i : i = j + 1
      BY Zenon
    <3>3. i \in DOMAIN o /\ rest[j] = o[i]
      BY <1>2, <3>2, Zenon
    <3> QED
      BY <3>1, <3>3, Zenon DEF Coming
  <2>4. h \in Coming(o)
    BY <1>2, Zenon DEF Coming
  <2> QED
    BY <2>1, <2>2, <2>3, <2>4
<1>4. VersionsOf(rest, VaultObject(kv))
  <2> SUFFICES ASSUME NEW j \in DOMAIN rest
               PROVE  VaultObject(rest[j]) = VaultObject(kv) /\ rest[j].ObjectVersion # NoVersion
    BY Zenon DEF VersionsOf
  <2>1. j + 1 \in DOMAIN o /\ rest[j] = o[j + 1]
    BY <1>2, Zenon
  <2> QED
    BY <1>1, <2>1, Zenon DEF VersionsOf
<1>5. InIndexOrder(u, e)
  <2> SUFFICES ASSUME NEW i \in Served(u, e), NEW j \in Served(u, e), i < j
               PROVE  u[i].index < u[j].index
    BY Zenon DEF InIndexOrder
  <2>1. i \in Served(s, e) /\ u[i] = s[i]
    BY <1>0, Zenon
  <2>2. CASE j \in Served(s, e)
    BY <1>0, <1>1, <2>1, <2>2, Zenon DEF InTurn, InIndexOrder
  <2>3. CASE j = m
    BY <1>1, <1>2, <2>1, <2>3, Zenon DEF InTurn
  <2> QED
    BY <1>0, <2>2, <2>3, Zenon
<1>6. InTurn(u, e, rest)
  <2>1. ASSUME NEW i \in Served(u, e), NEW j \in DOMAIN rest
        PROVE  u[i].index < rest[j].ObjectIndex
    <3>0. j + 1 \in DOMAIN o /\ rest[j] = o[j + 1] /\ 1 < j + 1
      BY <1>2, Zenon
    <3>1. CASE i \in Served(s, e)
      BY <1>0, <1>1, <3>0, <3>1, Zenon DEF InTurn
    <3>2. CASE i = m
      <4>1. o[1].ObjectIndex < o[j + 1].ObjectIndex
        BY <1>1, <1>2, <3>0, Zenon DEF InTurn
      <4> QED
        BY <1>2, <3>0, <3>2, <4>1, Zenon
    <3> QED
      BY <1>0, <2>1, <3>1, <3>2, Zenon
  <2>2. ASSUME NEW i \in DOMAIN rest, NEW j \in DOMAIN rest, i < j
        PROVE  rest[i].ObjectIndex < rest[j].ObjectIndex
    <3>1. /\ i + 1 \in DOMAIN o /\ rest[i] = o[i + 1]
          /\ j + 1 \in DOMAIN o /\ rest[j] = o[j + 1]
          /\ i + 1 < j + 1
      BY <1>2, <2>2, Zenon
    <3>2. o[i + 1].ObjectIndex < o[j + 1].ObjectIndex
      BY <1>1, <3>1, Zenon DEF InTurn
    <3> QED
      BY <3>1, <3>2, Zenon
  <2> QED
    BY <1>5, <2>1, <2>2, Zenon DEF InTurn
<1>7. EntryFetching(kv, e, u, rest, there, time)
  BY <1>1, <1>3, <1>4, <1>6, Zenon DEF EntryFetching
<1>8. ASSUME rest = <<>> PROVE EntryServed(kv, e, u, since, there, time)
  <2>1. Coming(rest) = {}
    BY <1>8 DEF Coming
  <2>2. Selected(kv, Named(u, e), there, time)
    <3>1. Named(u, e) = Named(s, e) \cup Coming(o)
      BY <1>3, <2>1
    <3> QED
      BY <1>1, <3>1, Zenon
  <2> QED
    BY <1>1, <1>5, <2>2, Zenon DEF EntryServed
<1> QED
  BY <1>7, <1>8

\* A file, and a part of an object, without a suffix.  The names keep the
\* empty string, which the SMT backend does not take, out of the steps below.
Plain(f) == f.suffix = ""
PlainPart(part) == part.fileNameSuffix = ""

\* What is served, said of them.
LEMMA ServedIsPlain ==
    ASSUME NEW s, NEW e
    PROVE  Served(s, e) = {i \in DOMAIN s : s[i].entry = e /\ Plain(s[i])}
  BY Zenon DEF Served, Plain

\* Of the parts of an object only the last has no suffix.
LEMMA LastPartCounts ==
    ASSUME NEW kv, NEW bundle, NEW parts, parts # <<>>, parts = ObjectContent(kv, bundle)
    PROVE  \E n \in Nat \ {0} :
              /\ DOMAIN parts = 1..n
              /\ PlainPart(parts[n])
              /\ \A i \in 1..(n - 1) : ~PlainPart(parts[i])
<1> DEFINE content == ObjectContent(kv, bundle)
           Single(q) == \E x : q = <<Part(x, "")>>
           Triple(q) == \E x, y, z : q = <<Part(x, ".crt"), Part(y, ".key"), Part(z, "")>>
<1>1. Single(content) \/ Triple(content)
  <2>1. content # <<>>
    BY Zenon
  <2> QED
    BY <2>1, PartsOfContent, Zenon
<1>2. ASSUME NEW x
      PROVE  PlainPart(Part(x, "")) /\ ~PlainPart(Part(x, ".crt")) /\ ~PlainPart(Part(x, ".key"))
  <2>1. ASSUME NEW suffix PROVE Part(x, suffix).fileNameSuffix = suffix
    BY DEF Part
  <2>2. "" # ".crt" /\ "" # ".key"
    BY Zenon
  <2> QED
    BY <2>1, <2>2, Zenon DEF PlainPart
<1>3. ASSUME Single(parts)
      PROVE  \E a : parts = <<a>> /\ PlainPart(a)
  <2>1. PICK x : parts = <<Part(x, "")>>
    BY <1>3, Zenon
  <2>2. PlainPart(Part(x, ""))
    BY <1>2, Zenon
  <2> QED
    BY <2>1, <2>2, Zenon
<1>4. ASSUME Triple(parts)
      PROVE  \E a, b, c : parts = <<a, b, c>> /\ ~PlainPart(a) /\ ~PlainPart(b) /\ PlainPart(c)
  <2>1. PICK x, y, z : parts = <<Part(x, ".crt"), Part(y, ".key"), Part(z, "")>>
    BY <1>4, Zenon
  <2>2. ~PlainPart(Part(x, ".crt")) /\ ~PlainPart(Part(y, ".key")) /\ PlainPart(Part(z, ""))
    BY <1>2, Zenon
  <2> QED
    BY <2>1, <2>2, Zenon
<1>5. Single(parts) \/ Triple(parts)
  BY <1>1, Zenon
<1> HIDE DEF Single, Triple
<1>6. CASE Single(parts)
  <2>1. PICK a : parts = <<a>> /\ PlainPart(a)
    BY <1>3, <1>6
  <2>2. DOMAIN parts = {1} /\ parts[1] = a
    BY <2>1, ShortTuples
  <2>3. {1} = 1..1 /\ 1..(1 - 1) = {} /\ 1 \in Nat \ {0}
    OBVIOUS
  <2> QED
    BY <2>1, <2>2, <2>3
<1>7. CASE Triple(parts)
  <2>1. PICK a, b, c : parts = <<a, b, c>> /\ ~PlainPart(a) /\ ~PlainPart(b) /\ PlainPart(c)
    BY <1>4, <1>7
  <2>2. DOMAIN parts = {1, 2, 3} /\ parts[1] = a /\ parts[2] = b /\ parts[3] = c
    BY <2>1, ShortTuples
  <2>3. {1, 2, 3} = 1..3 /\ 1..(3 - 1) = {1, 2} /\ 3 \in Nat \ {0}
    OBVIOUS
  <2> QED
    BY <2>1, <2>2, <2>3
<1> QED
  BY <1>5, <1>6, <1>7

\* Files of entry e are appended, of which the last is the one that counts.
LEMMA OneMoreServed ==
    ASSUME NEW s \in Seq(FileType), NEW new \in Seq(FileType), NEW e \in Nat, Len(new) > 0,
           \A i \in 1..Len(new) : new[i].entry = e,
           \A i \in 1..(Len(new) - 1) : ~Plain(new[i]),
           Plain(new[Len(new)])
    PROVE  /\ OneMore(s, s \o new, e, Len(s \o new))
           /\ (s \o new)[Len(s \o new)] = new[Len(new)]
<1> DEFINE u == s \o new
           m == Len(u)
           l == Len(s)
           n == Len(new)
<1>1. /\ l \in Nat /\ n \in Nat /\ DOMAIN s = 1..l /\ m = l + n /\ DOMAIN u = 1..m
      /\ \A i \in 1..l : u[i] = s[i]
      /\ \A i \in 1..n : u[l + i] = new[i]
  OBVIOUS
<1>2. /\ n > 0
      /\ \A i \in 1..n : new[i].entry = e
      /\ \A i \in 1..(n - 1) : ~Plain(new[i])
      /\ Plain(new[n])
  OBVIOUS
<1> HIDE DEF u, m, l, n
<1>3. m \in DOMAIN u /\ m \notin DOMAIN s /\ ~(m < m) /\ u[m] = new[n]
  BY <1>1, <1>2
<1>4. \A i \in DOMAIN s : i \in DOMAIN u /\ u[i] = s[i] /\ ~(m < i)
  BY <1>1, <1>2
<1>5. ASSUME NEW j \in DOMAIN u, j \notin DOMAIN s
      PROVE  u[j].entry = e /\ (Plain(u[j]) <=> j = m)
  <2>1. PICK i \in 1..n : j = l + i
    <3>1. j - l \in 1..n /\ j = l + (j - l)
      BY <1>1, <1>5
    <3> QED
      BY <3>1
  <2>2. u[j] = new[i]
    BY <1>1, <2>1
  <2>3. i = n \/ i \in 1..(n - 1)
    BY <1>1
  <2>4. i = n <=> j = m
    BY <1>1, <2>1
  <2>5. n \notin 1..(n - 1)
    BY <1>1
  <2> QED
    BY <1>2, <2>2, <2>3, <2>4, <2>5, Zenon
<1>6. Served(u, e) = Served(s, e) \cup {m}
  <2>1. ASSUME NEW i \in DOMAIN u
        PROVE  u[i].entry = e /\ Plain(u[i]) <=>
                  i = m \/ (i \in DOMAIN s /\ s[i].entry = e /\ Plain(s[i]))
    <3>1. CASE i \in DOMAIN s
      BY <1>3, <1>4, <3>1, Zenon
    <3>2. CASE i \notin DOMAIN s
      BY <1>5, <3>2, Zenon
    <3> QED
      BY <3>1, <3>2
  <2>2. Served(u, e) = {i \in DOMAIN u : u[i].entry = e /\ Plain(u[i])}
    BY ServedIsPlain
  <2>3. Served(s, e) = {i \in DOMAIN s : s[i].entry = e /\ Plain(s[i])}
    BY ServedIsPlain
  <2> QED
    BY <1>3, <1>4, <2>1, <2>2, <2>3
<1>7. ASSUME NEW f, f # e PROVE Served(u, f) = Served(s, f)
  BY <1>4, <1>5, <1>7, ServedIsPlain
<1>8. \A i \in DOMAIN u : i \in DOMAIN s \/ u[i].entry = e
  BY <1>5
<1> QED
  BY <1>3, <1>4, <1>6, <1>7, <1>8, Zenon DEF u, m, n, OneMore

\* The files that one fetch adds to the response of r.
FetchedNow(r, kv) ==
    LET parts == ObjectContent(kv, Bundle[VaultObject(kv)])
    IN  [i \in DOMAIN parts |-> SecretFile(r, kv, parts[i])]

\* To s have been added the files of a version v of entry e, whose index is x.
OneFetchedFile(s, u, e, x, v) ==
    \E m : OneMore(s, u, e, m) /\ u[m].index = x /\ u[m].version = v

\* The files of one fetch follow the others, and one of them counts.
LEMMA FetchedFiles ==
    ASSUME NEW r \in Requests, NEW kv,
           ObjectContent(kv, Bundle[VaultObject(kv)]) # <<>>,
           NEW s \in Seq(FileType), FetchedNow(r, kv) \in Seq(FileType), entry[r] \in Nat
    PROVE  OneFetchedFile(s, s \o FetchedNow(r, kv), entry[r], kv.ObjectIndex, VersionRead(kv))
<1> DEFINE parts == ObjectContent(kv, Bundle[VaultObject(kv)])
           new == FetchedNow(r, kv)
           u == s \o new
           e == entry[r]
<1>0. /\ parts # <<>> /\ parts = ObjectContent(kv, Bundle[VaultObject(kv)])
      /\ new \in Seq(FileType) /\ u = s \o new /\ e \in Nat /\ e = entry[r]
      /\ new = [i \in DOMAIN parts |-> SecretFile(r, kv, parts[i])]
  BY Zenon DEF FetchedNow
<1> HIDE DEF parts, new, u, e
<1>f. new = [i \in DOMAIN parts |-> SecretFile(r, kv, parts[i])]
  BY <1>0
<1>n. new \in Seq(FileType) /\ e \in Nat
  BY <1>0
<1>u. u = s \o new
  BY <1>0
<1>1. PICK n \in Nat \ {0} :
         /\ DOMAIN parts = 1..n
         /\ PlainPart(parts[n]) /\ \A i \in 1..(n - 1) : ~PlainPart(parts[i])
  BY <1>0, LastPartCounts
<1>2. n \in 1..n /\ (\A i \in 1..(n - 1) : i \in 1..n) /\ n > 0
  OBVIOUS
<1>3. ASSUME NEW i \in 1..n
      PROVE  /\ new[i].entry = e /\ new[i].index = kv.ObjectIndex
             /\ new[i].version = VersionRead(kv) /\ (Plain(new[i]) <=> PlainPart(parts[i]))
  <2>1. new[i] = SecretFile(r, kv, parts[i])
    BY <1>f, <1>1, Zenon
  <2>2. /\ new[i].entry = e /\ new[i].index = kv.ObjectIndex
        /\ new[i].version = VersionRead(kv) /\ new[i].suffix = parts[i].fileNameSuffix
    BY <1>0, <2>1 DEF SecretFile
  <2> QED
    BY <2>2, Zenon DEF Plain, PlainPart
<1>4. Len(new) = n /\ Len(u) \in Nat
  <2>1. Len(new) \in Nat /\ DOMAIN new = 1..Len(new) /\ Len(u) \in Nat
    BY <1>n, <1>u
  <2>2. DOMAIN new = 1..n
    <3>1. DOMAIN new = DOMAIN parts
      BY <1>f
    <3> QED
      BY <1>1, <3>1
  <2>3. PICK l \in Nat : l = Len(new)
    BY <2>1, Zenon
  <2>4. 1..l = 1..n
    BY <2>1, <2>2, <2>3, Zenon
  <2>5. l = n
    BY <2>4
  <2> QED
    BY <2>1, <2>3, <2>5
<1>5. PICK m \in Nat : m = Len(u)
  BY <1>4
<1>6. /\ Len(new) > 0
      /\ \A i \in 1..Len(new) : new[i].entry = e
      /\ \A i \in 1..(Len(new) - 1) : ~Plain(new[i])
      /\ Plain(new[Len(new)])
  BY <1>1, <1>2, <1>3, <1>4
<1>7. OneMore(s, u, e, m) /\ u[m] = new[Len(new)]
  <2>1. /\ OneMore(s, s \o new, e, Len(s \o new))
        /\ (s \o new)[Len(s \o new)] = new[Len(new)]
    BY <1>n, <1>6, OneMoreServed, Zenon
  <2> QED
    BY <1>0, <1>5, <2>1, Zenon
<1>8. u[m].index = kv.ObjectIndex /\ u[m].version = VersionRead(kv)
  BY <1>2, <1>3, <1>4, <1>7
<1>9. OneFetchedFile(s, u, e, kv.ObjectIndex, VersionRead(kv))
  BY <1>7, <1>8 DEF OneFetchedFile
<1> QED
  BY <1>9 DEF u, e, new
-----------------------------------------------------------------------------
\* No version of a vault object goes away or changes its time.
VersionsStay ==
    \A k \in VaultObjects : /\ Len(created[k]) <= Len(created'[k])
                            /\ \A v \in DOMAIN created[k] :
                                  v \in DOMAIN created'[k] /\ created'[k][v] = created[k][v]

\* The request r is where it was.
StandsStill(r) ==
    /\ pc'[r] = pc[r] /\ attr'[r] = attr[r] /\ entry'[r] = entry[r]
    /\ resolved'[r] = resolved[r] /\ files'[r] = files[r] /\ arrival'[r] = arrival[r]
    /\ \A k \in VaultObjects : steady'[r][k] \subseteq steady[r][k]
    /\ pc[r] = "list" =>
         (steady[r][EntryObject(r)] \subseteq throughout[r] =>
            steady'[r][EntryObject(r)] \subseteq throughout'[r])

\* A request that others run past keeps what it has been served.
LEMMA KeepsProgress ==
    ASSUME TypeInv, SteadyEnabled, NEW r \in Requests, Progress(r), StandsStill(r), VersionsStay
    PROVE  Progress(r)'
<1>1. ASSUME NEW k \in VaultObjects
      PROVE  /\ steady'[r][k] \subseteq steady[r][k] /\ steady[r][k] \subseteq DOMAIN created[k]
             /\ \A v \in DOMAIN created[k] : v \in DOMAIN created'[k] /\ created'[k][v] = created[k][v]
  BY DEF TypeInv, EnabledExist, SteadyEnabled, StandsStill, VersionsStay
<1>2. ASSUME NEW kv, NEW e, NEW s, NEW o
      PROVE  LET k == VaultObject(kv)
             IN  /\ EntryServed(kv, e, s, arrival[r][k], steady[r][k], created[k]) =>
                      EntryServed(kv, e, s, arrival[r][k], steady'[r][k], created'[k])
                 /\ EntryFetching(kv, e, s, o, steady[r][k], created[k]) =>
                      EntryFetching(kv, e, s, o, steady'[r][k], created'[k])
  BY <1>1, EntryStays, Zenon
<1>3. /\ pc'[r] = pc[r] /\ attr'[r] = attr[r] /\ entry'[r] = entry[r]
      /\ resolved'[r] = resolved[r] /\ files'[r] = files[r] /\ arrival'[r] = arrival[r]
  BY DEF StandsStill
<1>4. ServedBefore(r) => ServedBefore(r)'
  BY <1>2, <1>3 DEF ServedBefore
<1>5. ServingNow(r) => ServingNow(r)'
  BY <1>2, <1>3 DEF ServingNow, Entry, EntryObject
<1>6. Begun(r)' = Begun(r) /\ EntryObject(r)' = EntryObject(r)
  BY <1>3 DEF Begun, Entry, EntryObject
<1>7. pc[r] = "list" =>
         (steady[r][EntryObject(r)] \subseteq throughout[r] =>
            steady'[r][EntryObject(r)] \subseteq throughout'[r])
  BY DEF StandsStill
<1> QED
  BY <1>3, <1>4, <1>5, <1>6, <1>7 DEF Progress

\* A step of one handler leaves the vault and the other handlers alone.
LEMMA OthersStandStill ==
    ASSUME TypeInv, NEW r \in Requests, Handler(r) \/ \E a \in Attribs : Arrive(r, a),
           NEW q \in Requests, q # r
    PROVE  StandsStill(q)
<1>1. HandlerTypeOK /\ ListingTypeOK /\ AuxTypeOK
  BY DEF TypeInv, TypeOK
<1> DEFINE Same == /\ pc'[q] = pc[q] /\ attr'[q] = attr[q] /\ entry'[q] = entry[q]
                   /\ resolved'[q] = resolved[q] /\ files'[q] = files[q]
                   /\ throughout'[q] = throughout[q]
           Aux == arrival'[q] = arrival[q] /\ steady'[q] = steady[q]
<1>2. ASSUME Fail(r) PROVE Same
  BY <1>1, <1>2 DEF Fail, EndListing, HandlerTypeOK, ListingTypeOK
<1>3. ASSUME NEW o, Continue(r, o), UNCHANGED attr, files'[q] = files[q] PROVE Same
  BY <1>1, <1>3 DEF Continue, EndListing, HandlerTypeOK, ListingTypeOK
<1>4. CASE SetAzureEnvironmentFilePath(r)
  <2>1. Same
    BY <1>1, <1>2, <1>4 DEF SetAzureEnvironmentFilePath, HandlerTypeOK, listingVars
  <2> QED
    BY <1>4, <2>1 DEF SetAzureEnvironmentFilePath, auxVars, StandsStill
<1>5. CASE InitializeClient(r)
  <2>1. Same
    BY <1>1, <1>2, <1>5 DEF InitializeClient, HandlerTypeOK, listingVars
  <2> QED
    BY <1>5, <2>1 DEF InitializeClient, auxVars, StandsStill
<1>6. CASE ResolveObjectVersions(r)
  <2>1. Same
    BY <1>1, <1>2, <1>3, <1>6 DEF ResolveObjectVersions, HandlerTypeOK, ListingTypeOK
  <2> QED
    BY <1>6, <2>1 DEF ResolveObjectVersions, auxVars, StandsStill
<1>7. CASE SelectVersions(r)
  <2>1. Same
    <3>1. CASE Fail(r)
      BY <1>2, <3>1
    <3>2. CASE ~Fail(r)
      <4>1. UNCHANGED <<attr, files>> /\ \E o : Continue(r, o)
        BY <1>7, <3>2 DEF SelectVersions
      <4> QED
        BY <1>3, <4>1
    <3> QED
      BY <3>1, <3>2
  <2> QED
    BY <1>7, <2>1 DEF SelectVersions, auxVars, StandsStill
<1>8. CASE GetKeyVaultObjectContent(r)
  <2>1. Same
    <3>1. CASE Fail(r)
      BY <1>2, <3>1
    <3>2. CASE ~Fail(r)
      <4>1. /\ \E s : files' = [files EXCEPT ![r] = s]
            /\ Continue(r, Tail(resolved[r])) /\ UNCHANGED attr
        BY <1>8, <3>2 DEF GetKeyVaultObjectContent
      <4>2. files'[q] = files[q]
        BY <1>1, <4>1 DEF HandlerTypeOK
      <4> QED
        BY <1>3, <4>1, <4>2, Zenon
    <3> QED
      BY <3>1, <3>2
  <2> QED
    BY <1>8, <2>1 DEF GetKeyVaultObjectContent, auxVars, StandsStill
<1>9. CASE ReturnFiles(r)
  <2>1. Same
    BY <1>1, <1>9 DEF ReturnFiles, Reply, HandlerTypeOK, listingVars
  <2> QED
    BY <1>9, <2>1 DEF ReturnFiles, auxVars, StandsStill
<1>10. ASSUME NEW a \in Attribs, Arrive(r, a) PROVE StandsStill(q)
  <2>0. /\ pc' = [pc EXCEPT ![r] = "params"] /\ attr' = [attr EXCEPT ![r] = a]
        /\ entry' = [entry EXCEPT ![r] = 1] /\ resolved' = [resolved EXCEPT ![r] = <<>>]
        /\ files' = [files EXCEPT ![r] = <<>>] /\ UNCHANGED throughout
    BY <1>10, Zenon DEF Arrive, listingVars
  <2>1. Same
    BY <1>1, <2>0 DEF HandlerTypeOK
  <2>2. Aux
    <3>1. /\ steady' = [steady EXCEPT ![r] = enabled]
          /\ \E c : arrival' = [arrival EXCEPT ![r] = c]
      BY <1>10, Zenon DEF Arrive
    <3> QED
      BY <1>1, <3>1 DEF AuxTypeOK
  <2> QED
    BY <2>1, <2>2 DEF StandsStill
<1> QED
  BY <1>4, <1>5, <1>6, <1>7, <1>8, <1>9, <1>10 DEF Handler

\* Nothing a handler does changes the vault.
LEMMA HandlersOnlyRead ==
    ASSUME TypeInv, NEW r \in Requests, Handler(r) \/ \E a \in Attribs : Arrive(r, a)
    PROVE  UNCHANGED vaultVars /\ VersionsStay
<1>1. UNCHANGED vaultVars
  BY Zenon DEF Handler, Arrive, SetAzureEnvironmentFilePath, InitializeClient, ResolveObjectVersions,
         SelectVersions, GetKeyVaultObjectContent, ReturnFiles
<1>2. \A k \in VaultObjects : Len(created[k]) \in Nat
  <2>1. \A k \in VaultObjects : created[k] \in Seq(Nat)
    BY DEF TypeInv, TypeOK, VaultTypeOK
  <2> QED
    BY <2>1
<1> QED
  BY <1>1, <1>2 DEF VersionsStay, vaultVars

\* The vault's owners leave every request where it was, and a version that is
\* disabled is no longer one that was enabled all along.
LEMMA VaultKeeps ==
    ASSUME TypeInv, SteadyEnabled, Vault
    PROVE  VersionsStay /\ SteadyEnabled' /\ \A q \in Requests : StandsStill(q)
<1>1. PICK k \in VaultObjects : Rotate(k) \/ \E v \in DOMAIN created[k] : Disable(k, v) \/ Enable(k, v)
  BY DEF Vault
<1>2. /\ \A j \in VaultObjects : created[j] \in Seq(Nat)
      /\ \A j \in VaultObjects : Len(created[j]) \in Nat /\ DOMAIN created[j] = 1..Len(created[j])
      /\ \A q \in Requests : \A j \in VaultObjects : arrival[q][j] \in Nat
      /\ AuxTypeOK /\ VaultTypeOK
  <2>1. \A j \in VaultObjects : created[j] \in Seq(Nat)
    BY DEF TypeInv, TypeOK, VaultTypeOK
  <2>2. AuxTypeOK /\ VaultTypeOK
    BY DEF TypeInv, TypeOK
  <2>3. \A q \in Requests : \A j \in VaultObjects : arrival[q][j] \in Nat
    BY <2>2 DEF AuxTypeOK
  <2>4. \A j \in VaultObjects : Len(created[j]) \in Nat /\ DOMAIN created[j] = 1..Len(created[j])
    BY <2>1
  <2> QED
    BY <2>1, <2>2, <2>3, <2>4
<1>3. ASSUME UNCHANGED created PROVE VersionsStay
  BY <1>2, <1>3 DEF VersionsStay
<1>4. ASSUME VersionsStay, UNCHANGED <<steady, arrival>>,
             \A j \in VaultObjects : enabled[j] \subseteq enabled'[j]
      PROVE  SteadyEnabled'
  <2> SUFFICES ASSUME NEW q \in Requests, NEW j \in VaultObjects
               PROVE  steady[q][j] \subseteq enabled'[j] /\ arrival[q][j] <= Len(created'[j])
    BY <1>4 DEF SteadyEnabled
  <2>1. /\ arrival[q][j] \in Nat /\ Len(created[j]) \in Nat
        /\ arrival[q][j] <= Len(created[j]) /\ Len(created[j]) <= Len(created'[j])
    BY <1>2, <1>4 DEF SteadyEnabled, VersionsStay
  <2>2. Len(created'[j]) \in Int
    <3>1. created'[j] \in Seq(Nat)
      BY VaultType DEF TypeInv, TypeOK, VaultTypeOK
    <3> QED
      BY <3>1
  <2>3. steady[q][j] \subseteq enabled'[j]
    BY <1>4 DEF SteadyEnabled
  <2> QED
    BY <2>1, <2>2, <2>3
<1>5. ASSUME UNCHANGED <<handlerVars, auxVars, throughout>>, NEW q \in Requests
      PROVE  StandsStill(q)
  BY <1>5 DEF StandsStill, handlerVars, auxVars
<1>6. ASSUME NEW v, Appears(k, v)
      PROVE  UNCHANGED throughout /\ \A j \in VaultObjects : enabled[j] \subseteq enabled'[j]
  BY <1>2, <1>6 DEF Appears, VaultTypeOK
<1>7. CASE Rotate(k)
  <2>1. PICK t \in {Last(created[k]), Last(created[k]) + 1} :
            created' = [created EXCEPT ![k] = Append(created[k], t)]
    BY <1>7 DEF Rotate
  <2>2. /\ Len(Append(created[k], t)) = Len(created[k]) + 1
        /\ DOMAIN Append(created[k], t) = 1..(Len(created[k]) + 1)
        /\ \A v \in 1..Len(created[k]) : Append(created[k], t)[v] = created[k][v]
    <3>1. t \in Nat
      <4>1. created[k] \in Seq(Nat) /\ created[k] # <<>>
        BY <1>2 DEF TypeInv, EnabledExist
      <4>2. Last(created[k]) \in Nat
        BY <4>1 DEF Last
      <4> QED
        BY <2>1, <4>2
    <3>2. created[k] \in Seq(Nat)
      BY <1>2
    <3> QED
      BY <3>1, <3>2
  <2>3. VersionsStay
    <3> SUFFICES ASSUME NEW j \in VaultObjects
                 PROVE  /\ Len(created[j]) <= Len(created'[j])
                        /\ \A v \in DOMAIN created[j] :
                              v \in DOMAIN created'[j] /\ created'[j][v] = created[j][v]
      BY DEF VersionsStay
    <3>1. CASE j # k
      <4>1. created'[j] = created[j]
        BY <1>2, <2>1, <3>1 DEF VaultTypeOK
      <4> QED
        BY <1>2, <4>1
    <3>2. CASE j = k
      <4>1. created'[k] = Append(created[k], t)
        BY <1>2, <2>1 DEF VaultTypeOK
      <4>2. Len(created[k]) \in Nat /\ DOMAIN created[k] = 1..Len(created[k])
        BY <1>2
      <4> QED
        BY <2>2, <3>2, <4>1, <4>2
    <3> QED
      BY <3>1, <3>2
  <2>4. UNCHANGED <<handlerVars, auxVars, throughout>> /\ \A j \in VaultObjects : enabled[j] \subseteq enabled'[j]
    BY <1>6, <1>7 DEF Rotate
  <2> QED
    BY <1>4, <1>5, <2>3, <2>4 DEF auxVars
<1>8. ASSUME NEW v \in DOMAIN created[k], Enable(k, v)
      PROVE  VersionsStay /\ SteadyEnabled' /\ \A q \in Requests : StandsStill(q)
  BY <1>3, <1>4, <1>5, <1>6, <1>8 DEF Enable, auxVars
<1>9. ASSUME NEW v \in DOMAIN created[k], Disable(k, v)
      PROVE  VersionsStay /\ SteadyEnabled' /\ \A q \in Requests : StandsStill(q)
  <2>1. VersionsStay
    BY <1>3, <1>9 DEF Disable
  <2>2. /\ UNCHANGED <<handlerVars, created, arrival>>
        /\ enabled' = [enabled EXCEPT ![k] = @ \ {v}]
        /\ throughout' = [r \in Requests |->
                             IF r \in Listing(k) THEN throughout[r] \ {v} ELSE throughout[r]]
        /\ steady' = [r \in Requests |-> [steady[r] EXCEPT ![k] = @ \ {v}]]
    BY <1>9 DEF Disable, Disappears
  <2>3. ASSUME NEW q \in Requests, NEW j \in VaultObjects
        PROVE  steady'[q][j] = IF j = k THEN steady[q][j] \ {v} ELSE steady[q][j]
    <3>1. steady[q] \in [VaultObjects -> SUBSET Nat]
      BY <1>2 DEF AuxTypeOK
    <3> QED
      BY <2>2, <3>1
  <2>4. SteadyEnabled'
    <3> SUFFICES ASSUME NEW q \in Requests, NEW j \in VaultObjects
                 PROVE  steady'[q][j] \subseteq enabled'[j] /\ arrival'[q][j] <= Len(created'[j])
      BY DEF SteadyEnabled
    <3>1. enabled'[j] = IF j = k THEN enabled[j] \ {v} ELSE enabled[j]
      BY <1>2, <2>2 DEF VaultTypeOK
    <3>2. steady[q][j] \subseteq enabled[j] /\ arrival[q][j] <= Len(created[j])
      BY DEF SteadyEnabled
    <3>3. steady'[q][j] \subseteq enabled'[j]
      BY <2>3, <3>1, <3>2
    <3> QED
      BY <2>2, <3>2, <3>3
  <2>5. ASSUME NEW q \in Requests PROVE StandsStill(q)
    <3>1. ASSUME pc[q] = "list", steady[q][EntryObject(q)] \subseteq throughout[q]
          PROVE  steady'[q][EntryObject(q)] \subseteq throughout'[q]
      <4>1. EntryObject(q) \in VaultObjects
        BY <3>1 DEF TypeInv, ListingsExist, ListingOf
      <4>2. CASE EntryObject(q) = k
        <5>1. throughout'[q] = throughout[q] \ {v}
          BY <2>2, <3>1, <4>2 DEF Listing
        <5>2. steady'[q][k] = steady[q][k] \ {v}
          BY <2>3
        <5> QED
          BY <3>1, <4>2, <5>1, <5>2
      <4>3. CASE EntryObject(q) # k
        BY <2>2, <2>3, <3>1, <4>1, <4>3 DEF Listing
      <4> QED
        BY <4>2, <4>3
    <3>2. \A j \in VaultObjects : steady'[q][j] \subseteq steady[q][j]
      BY <2>3
    <3> QED
      BY <2>2, <3>1, <3>2 DEF StandsStill, handlerVars
  <2> QED
    BY <2>1, <2>4, <2>5
<1> QED
  BY <1>1, <1>7, <1>8, <1>9

\* A mount that has just arrived has been served nothing, and what is enabled
\* is what has been since.
LEMMA ArriveProgress ==
    ASSUME TypeInv, SteadyEnabled, NEW r \in Requests, NEW a \in Attribs, Arrive(r, a)
    PROVE  SteadyEnabled' /\ Progress(r)'
<1>1. HandlerTypeOK /\ AuxTypeOK /\ VaultTypeOK
  BY DEF TypeInv, TypeOK
<1>2. /\ UNCHANGED <<created, enabled>>
      /\ steady' = [steady EXCEPT ![r] = enabled]
      /\ arrival' = [arrival EXCEPT ![r] = [k \in VaultObjects |-> Len(created[k])]]
  BY DEF Arrive, vaultVars
<1>3. SteadyEnabled'
  <2> SUFFICES ASSUME NEW q \in Requests, NEW k \in VaultObjects
               PROVE  steady'[q][k] \subseteq enabled[k] /\ arrival'[q][k] <= Len(created[k])
    BY <1>2 DEF SteadyEnabled
  <2>1. CASE q # r
    BY <1>1, <1>2, <2>1 DEF SteadyEnabled, AuxTypeOK
  <2>2. CASE q = r
    <3>1. steady'[q] = enabled /\ arrival'[q][k] = Len(created[k])
      BY <1>1, <1>2, <2>2 DEF AuxTypeOK
    <3>2. Len(created[k]) \in Nat
      <4>1. created[k] \in Seq(Nat)
        BY <1>1 DEF VaultTypeOK
      <4> QED
        BY <4>1
    <3> QED
      BY <3>1, <3>2
  <2> QED
    BY <2>1, <2>2
<1>4. pc'[r] = "params" /\ files'[r] = <<>> /\ entry'[r] = 1
  BY <1>1 DEF Arrive, HandlerTypeOK
<1> QED
  BY <1>3, <1>4 DEF Progress

\* Before its first entry.
LEMMA NothingServedYet ==
    ASSUME NEW r \in Requests, pc'[r] \in {"resolve", "ok"}, files'[r] = <<>>, entry'[r] = 1,
           attr'[r].objects \in Seq(KeyVaultObjects(Names)),
           pc'[r] = "ok" => attr'[r].objects = <<>>
    PROVE  Progress(r)'
<1>1. \A e \in DOMAIN attr'[r].objects : ~(e < 1)
  OBVIOUS
<1>2. ServedBefore(r)'
  BY <1>1 DEF ServedBefore
<1>3. \A i \in DOMAIN files'[r] : FALSE
  OBVIOUS
<1>4. pc'[r] = "ok" => entry'[r] > Len(attr'[r].objects)
  OBVIOUS
<1> QED
  BY <1>2, <1>3, <1>4 DEF Progress

\* An error response.
LEMMA FailProgress ==
    ASSUME TypeInv, NEW r \in Requests, Fail(r)
    PROVE  Progress(r)'
<1>1. pc'[r] = "error"
  BY DEF TypeInv, TypeOK, HandlerTypeOK, Fail
<1> QED
  BY <1>1 DEF Progress

\* The handler up to its first entry.
LEMMA BeforeFirstEntry ==
    ASSUME TypeInv, NEW r \in Requests, Progress(r),
           SetAzureEnvironmentFilePath(r) \/ InitializeClient(r)
    PROVE  Progress(r)'
<1>1. HandlerTypeOK
  BY DEF TypeInv, TypeOK
<1>2. CASE Fail(r)
  BY <1>2, FailProgress
<1>3. files[r] = <<>> /\ entry[r] = 1
  BY DEF SetAzureEnvironmentFilePath, InitializeClient, Progress
<1>4. CASE SetAzureEnvironmentFilePath(r) /\ ~Fail(r)
  <2>1. pc'[r] = "client" /\ UNCHANGED <<files, entry>>
    BY <1>1, <1>4 DEF SetAzureEnvironmentFilePath, HandlerTypeOK
  <2> QED
    BY <1>3, <2>1 DEF Progress
<1>5. CASE InitializeClient(r) /\ ~Fail(r)
  <2>1. /\ pc'[r] \in {"resolve", "ok"} /\ UNCHANGED <<files, entry, attr>>
        /\ pc'[r] = "ok" => attr[r].objects = <<>>
    BY <1>1, <1>5 DEF InitializeClient, HandlerTypeOK
  <2>2. attr[r].objects \in Seq(KeyVaultObjects(Names))
    BY AttribsType DEF TypeInv, AttribType
  <2> QED
    BY <1>3, <2>1, <2>2, NothingServedYet
<1> QED
  BY <1>2, <1>4, <1>5

\* Going on with the objects in o, and with the next entry when there are none.
LEMMA ContinueProgress ==
    ASSUME TypeInv, NEW r \in Requests, NEW o, Continue(r, o), UNCHANGED <<attr, vaultVars, auxVars>>,
           NEW u, files'[r] = u, NEW n \in Nat, n = entry[r],
           n <= Len(attr[r].objects),
           \A i \in DOMAIN u : u[i].entry \in Nat /\ u[i].entry <= n,
           \A e \in DOMAIN attr[r].objects : e < n =>
              LET kv == attr[r].objects[e]
                  k == VaultObject(kv)
              IN  EntryServed(kv, e, u, arrival[r][k], steady[r][k], created[k]),
           LET kv == attr[r].objects[n]
               k == VaultObject(kv)
           IN  IF o = <<>>
               THEN EntryServed(kv, n, u, arrival[r][k], steady[r][k], created[k])
               ELSE EntryFetching(kv, n, u, o, steady[r][k], created[k])
    PROVE  Progress(r)'
<1>1. /\ pc'[r] = IF o = <<>> THEN "resolve" ELSE "fetch"
      /\ entry'[r] = IF o = <<>> THEN n + 1 ELSE n
      /\ resolved'[r] = o
  BY DEF Continue, TypeInv, TypeOK, HandlerTypeOK
<1>2. UNCHANGED <<attr, created, steady, arrival>>
  BY DEF vaultVars, auxVars
<1>3. attr[r].objects \in Seq(KeyVaultObjects(Names)) /\ n \in Nat \ {0}
  BY AttribsType DEF TypeInv, AttribType, TypeOK, HandlerTypeOK
<1>4. n \in DOMAIN attr[r].objects /\ DOMAIN attr[r].objects \subseteq Nat
  BY <1>3
<1> DEFINE Got(e) == LET kv == attr[r].objects[e]
                         k == VaultObject(kv)
                     IN  EntryServed(kv, e, u, arrival[r][k], steady[r][k], created[k])
<1>5. (\A e \in DOMAIN attr[r].objects : e < n => Got(e)) /\ (o = <<>> => Got(n))
  BY Zenon
<1>6. ASSUME \A e \in DOMAIN attr[r].objects : e < entry'[r] => Got(e) PROVE ServedBefore(r)'
  BY <1>2, <1>6 DEF ServedBefore
<1> HIDE DEF Got
<1>7. CASE o = <<>>
  <2>1. pc'[r] = "resolve" /\ entry'[r] = n + 1
    BY <1>1, <1>7
  <2>2. ASSUME NEW e \in DOMAIN attr[r].objects, e < n + 1 PROVE Got(e)
    <3>1. e < n \/ e = n
      BY <1>4, <2>2
    <3> QED
      BY <1>5, <1>7, <3>1
  <2>3. ServedBefore(r)'
    BY <1>6, <2>1, <2>2
  <2>4. Begun(r)' = n
    BY <2>1 DEF Begun
  <2> QED
    BY <2>1, <2>3, <2>4 DEF Progress
<1>8. CASE o # <<>>
  <2>1. pc'[r] = "fetch" /\ entry'[r] = n /\ Begun(r)' = n
    BY <1>1, <1>8 DEF Begun
  <2>2. ServedBefore(r)'
    BY <1>5, <1>6, <2>1
  <2>3. ServingNow(r)'
    BY <1>1, <1>2, <1>4, <1>8, <2>1 DEF ServingNow, Entry, EntryObject
  <2> QED
    BY <2>1, <2>2, <2>3 DEF Progress
<1> QED
  BY <1>7, <1>8

\* An entry that has not been begun has no file.
LEMMA NothingServed ==
    ASSUME NEW s, NEW e, \A i \in DOMAIN s : s[i].entry # e
    PROVE  Served(s, e) = {} /\ Named(s, e) = {}
<1>1. Served(s, e) = {}
  BY ServedIsPlain
<1> QED
  BY <1>1 DEF Named

\* What a handler at the beginning of an entry, or listing its versions, has.
LEMMA AtEntry ==
    ASSUME TypeInv, NEW r \in Requests, Progress(r), pc[r] \in {"resolve", "list"}
    PROVE  /\ ServedBefore(r)
           /\ Served(files[r], entry[r]) = {} /\ Named(files[r], entry[r]) = {}
           /\ entry[r] \in Nat
           /\ \A i \in DOMAIN files[r] : files[r][i].entry \in Nat /\ files[r][i].entry <= entry[r]
<1>1. files[r] \in Seq(FileType) /\ entry[r] \in Nat
  BY DEF TypeInv, TypeOK, HandlerTypeOK
<1>2. \A i \in DOMAIN files[r] : files[r][i].entry \in Nat
  <2>1. \A i \in DOMAIN files[r] : files[r][i] \in FileType
    BY <1>1
  <2>2. \A f \in FileType : f.entry \in Nat
    BY DEF FileType
  <2> QED
    BY <2>1, <2>2
<1>3. ServedBefore(r) /\ \A i \in DOMAIN files[r] : files[r][i].entry <= entry[r] - 1
  BY DEF Progress, Begun
<1>4. \A i \in DOMAIN files[r] : files[r][i].entry # entry[r] /\ files[r][i].entry <= entry[r]
  BY <1>1, <1>2, <1>3
<1>5. Served(files[r], entry[r]) = {} /\ Named(files[r], entry[r]) = {}
  BY <1>4, NothingServed, Zenon
<1> QED
  BY <1>1, <1>2, <1>3, <1>4, <1>5

\* The next entry is resolved, or its listing begins.
LEMMA ResolveProgress ==
    ASSUME TypeInv, SteadyEnabled, NEW r \in Requests, Progress(r), ResolveObjectVersions(r)
    PROVE  Progress(r)'
<1>1. /\ ServedBefore(r)
      /\ Served(files[r], entry[r]) = {} /\ Named(files[r], entry[r]) = {}
      /\ entry[r] \in Nat
      /\ \A i \in DOMAIN files[r] : files[r][i].entry \in Nat /\ files[r][i].entry <= entry[r]
  BY AtEntry DEF ResolveObjectVersions
<1>2. CASE Fail(r)
  BY <1>2, FailProgress
<1>3. CASE /\ IsSyncingSingleVersion(Entry(r)) /\ Continue(r, <<Entry(r)>>)
           /\ UNCHANGED <<attr, files>>
  <2>1. PICK n \in Nat : n = entry[r]
    BY <1>1
  <2>2. PICK kv : kv = attr[r].objects[n]
    BY Zenon
  <2>3. PICK s : s = files[r]
    BY Zenon
  <2>4. <<kv>> # <<>>
    OBVIOUS
  <2>5. EntryFetching(kv, n, s, <<kv>>, steady[r][VaultObject(kv)], created[VaultObject(kv)])
    BY <1>1, <1>3, <2>1, <2>2, <2>3 DEF EntryFetching, Entry
  <2>6. UNCHANGED <<attr, vaultVars, auxVars>> /\ n <= Len(attr[r].objects)
    BY <1>3, <2>1 DEF ResolveObjectVersions
  <2>7. files'[r] = s /\ Continue(r, <<kv>>) /\ \A i \in DOMAIN s : s[i].entry \in Nat /\ s[i].entry <= n
    BY <1>1, <1>3, <2>1, <2>2, <2>3 DEF Entry
  <2>8. \A e \in DOMAIN attr[r].objects : e < n =>
           LET q == attr[r].objects[e]
               k == VaultObject(q)
           IN  EntryServed(q, e, s, arrival[r][k], steady[r][k], created[k])
    BY <1>1, <2>1, <2>3 DEF ServedBefore
  <2> QED
    BY <2>1, <2>2, <2>4, <2>5, <2>6, <2>7, <2>8, ContinueProgress
<1>4. CASE /\ EntryObject(r) \in VaultObjects
           /\ pc' = [pc EXCEPT ![r] = "list"]
           /\ throughout' = [throughout EXCEPT ![r] = enabled[EntryObject(r)]]
           /\ UNCHANGED <<attr, entry, files>>
  <2>1. pc'[r] = "list" /\ throughout'[r] = enabled[EntryObject(r)]
    BY <1>4 DEF TypeInv, TypeOK, HandlerTypeOK, ListingTypeOK
  <2>2. pc[r] = "resolve" /\ UNCHANGED <<attr, entry, files, created, steady, arrival>>
    BY <1>4 DEF ResolveObjectVersions, vaultVars, auxVars
  <2>3. steady'[r][EntryObject(r)'] \subseteq throughout'[r]
    BY <1>4, <2>1, <2>2 DEF SteadyEnabled, Entry, EntryObject
  <2>4. ServedBefore(r)'
    BY <1>1, <2>2 DEF ServedBefore
  <2>5. Begun(r)' = Begun(r)
    BY <2>1, <2>2 DEF Begun
  <2> QED
    BY <2>1, <2>2, <2>3, <2>4, <2>5 DEF Progress
<1>5. CASE /\ ~IsSyncingSingleVersion(Entry(r)) /\ EntryObject(r) \notin VaultObjects
           /\ Continue(r, <<>>)
           /\ UNCHANGED <<attr, files>>
  <2>1. PICK n \in Nat : n = entry[r]
    BY <1>1
  <2>2. PICK kv : kv = attr[r].objects[n]
    BY Zenon
  <2>3. PICK s : s = files[r]
    BY Zenon
  <2>4. EntryServed(kv, n, s, arrival[r][VaultObject(kv)], steady[r][VaultObject(kv)],
                    created[VaultObject(kv)])
    BY <1>1, <1>5, <2>1, <2>2, <2>3 DEF EntryServed, Entry, EntryObject
  <2>5. UNCHANGED <<attr, vaultVars, auxVars>> /\ n <= Len(attr[r].objects)
    BY <1>5, <2>1 DEF ResolveObjectVersions
  <2>6. files'[r] = s /\ \A i \in DOMAIN s : s[i].entry \in Nat /\ s[i].entry <= n
    BY <1>1, <1>5, <2>1, <2>3
  <2>7. \A e \in DOMAIN attr[r].objects : e < n =>
           LET q == attr[r].objects[e]
               k == VaultObject(q)
           IN  EntryServed(q, e, s, arrival[r][k], steady[r][k], created[k])
    BY <1>1, <2>1, <2>3 DEF ServedBefore
  <2> QED
    BY <1>5, <2>1, <2>2, <2>4, <2>5, <2>6, <2>7, ContinueProgress
<1> QED
  BY <1>2, <1>3, <1>4, <1>5 DEF ResolveObjectVersions

\* The versions listed are sorted and selected: an entry for which none is
\* left has been served already.
LEMMA SelectProgress ==
    ASSUME TypeInv, SteadyEnabled, NEW r \in Requests, Progress(r), SelectVersions(r)
    PROVE  Progress(r)'
<1>1. /\ ServedBefore(r)
      /\ Served(files[r], entry[r]) = {} /\ Named(files[r], entry[r]) = {}
      /\ entry[r] \in Nat
      /\ \A i \in DOMAIN files[r] : files[r][i].entry \in Nat /\ files[r][i].entry <= entry[r]
  BY AtEntry DEF SelectVersions
<1>2. CASE Fail(r)
  BY <1>2, FailProgress
<1>3. CASE ~Fail(r)
  <2>1. ListingOf(r)
    BY DEF SelectVersions, TypeInv, ListingsExist
  <2>2. PICK n \in Nat : n = entry[r]
    BY <1>1
  <2>3. PICK kv \in KeyVaultObjects(Names) : kv = attr[r].objects[n]
    BY <2>1, <2>2, EntryType DEF ListingOf, Entry
  <2>4. PICK k \in VaultObjects : k = VaultObject(kv)
    BY <2>1, <2>2, <2>3 DEF ListingOf, Entry, EntryObject
  <2>5. Entry(r) = kv /\ EntryObject(r) = k /\ ~IsSyncingSingleVersion(kv)
    BY <2>1, <2>2, <2>3, <2>4 DEF ListingOf, Entry, EntryObject
  <2>6. PICK time \in Seq(Nat) : time = created[k]
    BY DEF TypeInv, TypeOK, VaultTypeOK
  <2>7. PICK there \in SUBSET throughout[r] : there = steady[r][k]
    BY <2>5 DEF SelectVersions, Progress
  <2>8. PICK listed \in Listings(throughout[r], sometime[r]) :
            \E list \in SortedLists(listed, created[EntryObject(r)]) :
                Continue(r, GetLatestNKeyVaultObjects(Entry(r), list))
    BY <1>3 DEF SelectVersions
  <2>9. PICK list \in SortedLists(listed, time) : Continue(r, GetLatestNKeyVaultObjects(kv, list))
    BY <2>5, <2>6, <2>8
  <2>10. PICK o : o = GetLatestNKeyVaultObjects(kv, list)
    BY Zenon
  <2>11. listed \in SUBSET (DOMAIN time) /\ there \in SUBSET listed
    BY <2>1, <2>5, <2>6, <2>7, <2>8 DEF ListingOf, Listings
  <2>12. /\ Selected(kv, Coming(o), there, time)
         /\ VersionsOf(o, VaultObject(kv))
         /\ \A i, j \in DOMAIN o : i < j => o[i].ObjectIndex < o[j].ObjectIndex
    BY <2>5, <2>10, <2>11, SelectionIsRight
  <2>13. PICK s : s = files[r]
    BY Zenon
  <2>14. Served(s, n) = {} /\ Named(s, n) = {}
    BY <1>1, <2>2, <2>13
  <2>15. EntryFetching(kv, n, s, o, there, time)
    <3>1. InTurn(s, n, o)
      BY <2>12, <2>14 DEF InTurn, InIndexOrder
    <3>2. Named(s, n) \cup Coming(o) = Coming(o)
      BY <2>14
    <3> QED
      BY <2>4, <2>5, <2>12, <3>1, <3>2 DEF EntryFetching
  <2>16. ASSUME o = <<>> PROVE EntryServed(kv, n, s, arrival[r][k], there, time)
    <3>1. Coming(o) = {}
      BY <2>16 DEF Coming
    <3>2. InIndexOrder(s, n)
      BY <2>14 DEF InIndexOrder
    <3> QED
      BY <2>4, <2>5, <2>12, <2>14, <3>1, <3>2 DEF EntryServed
  <2>17. UNCHANGED <<attr, vaultVars, auxVars, files>> /\ n <= Len(attr[r].objects)
    BY <1>3, <2>1, <2>2 DEF SelectVersions, ListingOf
  <2>18. files'[r] = s /\ Continue(r, o) /\ \A i \in DOMAIN s : s[i].entry \in Nat /\ s[i].entry <= n
    BY <1>1, <2>2, <2>9, <2>10, <2>13, <2>17
  <2>19. \A e \in DOMAIN attr[r].objects : e < n =>
           LET q == attr[r].objects[e]
               j == VaultObject(q)
           IN  EntryServed(q, e, s, arrival[r][j], steady[r][j], created[j])
    BY <1>1, <2>2, <2>13 DEF ServedBefore
  <2>20. LET q == attr[r].objects[n]
             j == VaultObject(q)
         IN  IF o = <<>>
             THEN EntryServed(q, n, s, arrival[r][j], steady[r][j], created[j])
             ELSE EntryFetching(q, n, s, o, steady[r][j], created[j])
    BY <2>3, <2>4, <2>6, <2>7, <2>15, <2>16
  <2> QED
    BY <2>2, <2>17, <2>18, <2>19, <2>20, ContinueProgress
<1> QED
  BY <1>2, <1>3

\* The response is sent after the last entry.
LEMMA ReturnProgress ==
    ASSUME TypeInv, NEW r \in Requests, Progress(r), ReturnFiles(r)
    PROVE  Progress(r)'
<1>1. pc'[r] = "ok" /\ pc[r] = "resolve" /\ UNCHANGED <<attr, entry, files, created, steady, arrival>>
  BY DEF ReturnFiles, Reply, TypeInv, TypeOK, HandlerTypeOK, vaultVars, auxVars
<1>2. ServedBefore(r)'
  BY <1>1 DEF Progress, ServedBefore
<1>3. Begun(r)' = Begun(r) /\ entry[r] > Len(attr[r].objects)
  BY <1>1 DEF Begun, ReturnFiles
<1> QED
  BY <1>1, <1>2, <1>3 DEF Progress

\* One version is fetched, and with it the entry is served or its next version
\* is to be fetched.
LEMMA FetchProgress ==
    ASSUME TypeInv, SteadyEnabled, NEW r \in Requests, Progress(r), GetKeyVaultObjectContent(r)
    PROVE  Progress(r)'
<1>1. CASE Fail(r)
  BY <1>1, FailProgress
<1>2. CASE ~Fail(r)
  <2>1. pc[r] = "fetch" /\ ServedBefore(r) /\ ServingNow(r)
    BY DEF GetKeyVaultObjectContent, Progress
  <2>2. PICK n \in Nat : n = entry[r]
    BY DEF TypeInv, TypeOK, HandlerTypeOK
  <2>3. PICK s \in Seq(FileType) : s = files[r]
    BY DEF TypeInv, TypeOK, HandlerTypeOK
  <2>4. PICK o \in Seq(KeyVaultObjects(Names)) : o = resolved[r] /\ o # <<>>
    BY <2>1 DEF TypeInv, TypeOK, HandlerTypeOK, FetchHasObject
  <2>5. PICK head \in KeyVaultObjects(Names) : head = Head(o)
    BY <2>4
  <2>6. PICK parts : parts = ObjectContent(head, Bundle[VaultObject(head)])
    BY Zenon
  <2>7. /\ VaultObject(head) \in VaultObjects
        /\ VersionRead(head) \in DOMAIN created[VaultObject(head)]
        /\ parts # <<>>
        /\ files' = [files EXCEPT ![r] = s \o FetchedNow(r, head)]
        /\ Continue(r, Tail(o)) /\ UNCHANGED <<attr, vaultVars, auxVars>>
    <3>1. head = Head(resolved[r]) /\ files[r] = s /\ resolved[r] = o
      BY <2>3, <2>4, <2>5
    <3>2. \/ Fail(r)
          \/ /\ VaultObject(head) \in VaultObjects
             /\ VersionRead(head) \in DOMAIN created[VaultObject(head)]
             /\ ~ContentInvalid(head, parts)
             /\ files' = [files EXCEPT ![r] = files[r] \o FetchedNow(r, head)]
             /\ Continue(r, Tail(resolved[r])) /\ UNCHANGED attr
      BY <2>6, <3>1, Zenon DEF GetKeyVaultObjectContent, FetchedNow
    <3>3. UNCHANGED <<vaultVars, auxVars>>
      BY Zenon DEF GetKeyVaultObjectContent
    <3>4. parts = <<>> => ContentInvalid(head, parts)
      BY Zenon DEF ContentInvalid
    <3> QED
      BY <1>2, <3>1, <3>2, <3>3, <3>4
  <2>8. FetchedNow(r, head) \in Seq(FileType)
    BY <2>6, <2>7, NewFilesType DEF FetchedNow
  <2>9. PICK u : u = s \o FetchedNow(r, head)
    BY Zenon
  <2>10. files'[r] = u
    BY <2>7, <2>9 DEF TypeInv, TypeOK, HandlerTypeOK
  <2>11. PICK m : /\ OneMore(s, u, n, m)
                  /\ u[m].index = head.ObjectIndex /\ u[m].version = VersionRead(head)
    <3>1. ObjectContent(head, Bundle[VaultObject(head)]) # <<>> /\ entry[r] \in Nat
      BY <2>2, <2>6, <2>7
    <3>2. OneFetchedFile(s, s \o FetchedNow(r, head), entry[r], head.ObjectIndex, VersionRead(head))
      BY <2>8, <3>1, FetchedFiles
    <3>3. OneFetchedFile(s, u, n, head.ObjectIndex, VersionRead(head))
      BY <2>2, <2>9, <3>2
    <3> QED
      BY <3>3 DEF OneFetchedFile
  <2>12. PICK kv : kv = attr[r].objects[n]
    BY Zenon
  <2>13. PICK k : k = VaultObject(kv)
    BY Zenon
  <2>14. n \in DOMAIN attr[r].objects /\ EntryFetching(kv, n, s, o, steady[r][k], created[k])
    BY <2>1, <2>2, <2>3, <2>4, <2>12, <2>13 DEF ServingNow, Entry, EntryObject
  <2>15. PICK rest : rest = Tail(o)
    BY Zenon
  <2>16. IF rest = <<>>
         THEN EntryServed(kv, n, u, arrival[r][k], steady[r][k], created[k])
         ELSE EntryFetching(kv, n, u, rest, steady[r][k], created[k])
    <3>1. CASE IsSyncingSingleVersion(kv)
      <4>1. Served(s, n) = {} /\ o = <<kv>>
        BY <2>14, <3>1 DEF EntryFetching
      <4>2. head = kv /\ rest = <<>>
        BY <2>5, <2>15, <4>1
      <4>3. Served(u, n) = {m} /\ m \in DOMAIN u
        BY <2>11, <4>1 DEF OneMore
      <4>4. Pinned(kv) => u[m].version = kv.ObjectVersion
        BY <2>11, <4>2 DEF Pinned, VersionRead
      <4>5. kv.ObjectVersion = NoVersion => u[m].version >= arrival[r][k]
        <5>1. k \in VaultObjects
          BY <2>7, <2>13, <4>2
        <5>2. arrival[r][k] <= Len(created[k])
          BY <5>1 DEF SteadyEnabled
        <5>3. arrival[r][k] \in Nat /\ created[k] \in Seq(Nat)
          BY <5>1 DEF TypeInv, TypeOK, AuxTypeOK, VaultTypeOK
        <5>4. Len(created[k]) \in Nat
          BY <5>3
        <5>5. kv.ObjectVersion = NoVersion => u[m].version = Len(created[k])
          BY <2>11, <2>13, <4>2 DEF VersionRead
        <5> QED
          BY <5>2, <5>3, <5>4, <5>5
      <4> QED
        BY <2>7, <2>13, <3>1, <4>2, <4>3, <4>4, <4>5 DEF EntryServed
    <3>2. CASE ~IsSyncingSingleVersion(kv)
      <4>1. VersionsOf(o, k)
        BY <2>13, <2>14, <3>2 DEF EntryFetching
      <4>2. 1 \in DOMAIN o /\ o[1] = head
        BY <2>4, <2>5
      <4>3. u[m].version = head.ObjectVersion
        BY <2>11, <4>1, <4>2 DEF VersionsOf, VersionRead
      <4>4. /\ EntryFetching(kv, n, u, rest, steady[r][k], created[k])
            /\ rest = <<>> => EntryServed(kv, n, u, arrival[r][k], steady[r][k], created[k])
        BY <2>4, <2>5, <2>11, <2>14, <2>15, <3>2, <4>3, OneFetched
      <4> QED
        BY <4>4
    <3> QED
      BY <3>1, <3>2
  <2>17. \A i \in DOMAIN u : u[i].entry \in Nat /\ u[i].entry <= n
    <3> SUFFICES ASSUME NEW i \in DOMAIN u PROVE u[i].entry \in Nat /\ u[i].entry <= n
      OBVIOUS
    <3>1. CASE i \in DOMAIN s
      <4>1. u[i] = s[i] /\ s[i] \in FileType
        BY <2>11, <3>1 DEF OneMore
      <4>2. s[i].entry <= n
        BY <2>1, <2>2, <2>3, <3>1 DEF Progress, Begun
      <4> QED
        BY <4>1, <4>2 DEF FileType
    <3>2. CASE i \notin DOMAIN s
      BY <2>2, <2>11, <3>2 DEF OneMore
    <3> QED
      BY <3>1, <3>2
  <2>18. ASSUME NEW e \in DOMAIN attr[r].objects, e < n
         PROVE  LET q == attr[r].objects[e]
                    j == VaultObject(q)
                IN  EntryServed(q, e, u, arrival[r][j], steady[r][j], created[j])
    <3>1. PICK q : q = attr[r].objects[e]
      BY Zenon
    <3>2. PICK j : j = VaultObject(q)
      BY Zenon
    <3>3. EntryServed(q, e, s, arrival[r][j], steady[r][j], created[j])
      BY <2>1, <2>2, <2>3, <2>18, <3>1, <3>2 DEF ServedBefore
    <3>4. e # n
      BY <2>2, <2>18
    <3>5. Served(u, e) = Served(s, e) /\ \A i \in Served(s, e) : i \in DOMAIN u /\ u[i] = s[i]
      BY <2>11, <3>4, Zenon DEF OneMore, Served
    <3>6. EntryServed(q, e, u, arrival[r][j], steady[r][j], created[j])
      BY <3>3, <3>5, SameServed, Zenon
    <3> QED
      BY <3>1, <3>2, <3>6, Zenon
  <2>19. n <= Len(attr[r].objects)
    <3>1. attr[r].objects \in Seq(KeyVaultObjects(Names))
      BY AttribsType DEF TypeInv, AttribType
    <3> QED
      BY <2>14, <3>1
  <2> QED
    BY <2>2, <2>7, <2>10, <2>12, <2>13, <2>15, <2>16, <2>17, <2>18, <2>19, ContinueProgress
<1> QED
  BY <1>1, <1>2

\* Before the first mount nothing has been served.
LEMMA InitServing == Init => ServingInv
<1> SUFFICES ASSUME Init PROVE ServingInv
  OBVIOUS
<1>1. \A r \in Requests : pc[r] = "idle"
  BY DEF Init
<1>2. \A r \in Requests : Progress(r)
  BY <1>1 DEF Progress
<1>3. SteadyEnabled
  <2> SUFFICES ASSUME NEW r \in Requests, NEW k \in VaultObjects
               PROVE  steady[r][k] \subseteq enabled[k] /\ arrival[r][k] <= Len(created[k])
    BY DEF SteadyEnabled
  <2>1. steady[r][k] = {} /\ arrival[r][k] = 0 /\ created[k] = <<1>>
    BY DEF Init
  <2>2. Len(<<1>>) = 1
    OBVIOUS
  <2> QED
    BY <2>1, <2>2
<1> QED
  BY <1>2, <1>3, InitType DEF ServingInv

\* Every step keeps what every request has been served, and is to be, right.
LEMMA StepServing == ServingInv /\ [Next]_vars => ServingInv'
<1> SUFFICES ASSUME ServingInv, [Next]_vars PROVE ServingInv'
  OBVIOUS
<1>1. TypeInv /\ SteadyEnabled /\ \A r \in Requests : Progress(r)
  BY DEF ServingInv
<1>2. TypeInv'
  BY <1>1, StepType
<1>3. ASSUME NEW r \in Requests, Handler(r) \/ \E a \in Attribs : Arrive(r, a),
             SteadyEnabled', Progress(r)'
      PROVE  ServingInv'
  <2>1. VersionsStay
    BY <1>1, <1>3, HandlersOnlyRead
  <2>2. ASSUME NEW q \in Requests PROVE Progress(q)'
    <3>1. CASE q = r
      BY <1>3, <3>1
    <3>2. CASE q # r
      <4>1. StandsStill(q)
        BY <1>1, <1>3, <3>2, OthersStandStill
      <4> QED
        BY <1>1, <2>1, <4>1, KeepsProgress
    <3> QED
      BY <3>1, <3>2
  <2> QED
    BY <1>2, <1>3, <2>2 DEF ServingInv
<1>4. ASSUME NEW r \in Requests, Handler(r) PROVE ServingInv'
  <2>1. Progress(r)'
    <3>1. Progress(r)
      BY <1>1
    <3>2. CASE SetAzureEnvironmentFilePath(r) \/ InitializeClient(r)
      BY <1>1, <3>1, <3>2, BeforeFirstEntry
    <3>3. CASE ResolveObjectVersions(r)
      BY <1>1, <3>1, <3>3, ResolveProgress
    <3>4. CASE SelectVersions(r)
      BY <1>1, <3>1, <3>4, SelectProgress
    <3>5. CASE GetKeyVaultObjectContent(r)
      BY <1>1, <3>1, <3>5, FetchProgress
    <3>6. CASE ReturnFiles(r)
      BY <1>1, <3>1, <3>6, ReturnProgress, Zenon
    <3> QED
      BY <1>4, <3>2, <3>3, <3>4, <3>5, <3>6 DEF Handler
  <2>2. UNCHANGED auxVars
    BY <1>4, Zenon DEF Handler, SetAzureEnvironmentFilePath, InitializeClient,
                       ResolveObjectVersions, SelectVersions, GetKeyVaultObjectContent, ReturnFiles
  <2>3. UNCHANGED vaultVars
    BY <1>1, <1>4, HandlersOnlyRead
  <2>4. SteadyEnabled'
    BY <1>1, <2>2, <2>3 DEF SteadyEnabled, auxVars, vaultVars
  <2> QED
    BY <1>3, <1>4, <2>1, <2>4
<1>5. ASSUME NEW r \in Requests, NEW a \in Attribs, Arrive(r, a) PROVE ServingInv'
  BY <1>1, <1>3, <1>5, ArriveProgress
<1>6. ASSUME VersionsStay, SteadyEnabled', \A q \in Requests : StandsStill(q) PROVE ServingInv'
  BY <1>1, <1>2, <1>6, KeepsProgress DEF ServingInv
<1>7. CASE Vault
  BY <1>1, <1>6, <1>7, VaultKeeps
<1>8. CASE UNCHANGED vars
  <2>1. UNCHANGED <<pc, attr, entry, resolved, files, throughout, created, enabled, steady, arrival>>
    BY <1>8 DEF vars, handlerVars, listingVars, vaultVars, auxVars
  <2>2. SteadyEnabled' /\ \A q \in Requests : StandsStill(q)
    BY <1>1, <2>1 DEF SteadyEnabled, StandsStill
  <2>3. \A k \in VaultObjects : Len(created[k]) \in Nat
    <3>1. \A k \in VaultObjects : created[k] \in Seq(Nat)
      BY <1>1 DEF TypeInv, TypeOK, VaultTypeOK
    <3> QED
      BY <3>1
  <2>4. VersionsStay
    BY <2>1, <2>3 DEF VersionsStay
  <2> QED
    BY <1>6, <2>2, <2>4
<1> QED
  BY <1>4, <1>5, <1>7, <1>8 DEF Next

\* The invariant from which both properties of a response follow.
LEMMA ServingInvariance == Spec => []ServingInv
  BY InitServing, StepServing, PTL DEF Spec

\* What a successful response has for each entry.
LEMMA OkServed ==
    ASSUME ServingInv, NEW r \in Requests, pc[r] = "ok", NEW e \in DOMAIN attr[r].objects
    PROVE  LET kv == attr[r].objects[e]
               k == VaultObject(kv)
           IN  EntryServed(kv, e, files[r], arrival[r][k], steady[r][k], created[k])
<1>1. ServedBefore(r) /\ entry[r] > Len(attr[r].objects)
  BY DEF ServingInv, Progress
<1>2. attr[r].objects \in Seq(KeyVaultObjects(Names)) /\ entry[r] \in Nat
  BY AttribsType DEF ServingInv, TypeInv, AttribType, TypeOK, HandlerTypeOK
<1>3. e < entry[r]
  BY <1>1, <1>2
<1> QED
  BY <1>1, <1>3 DEF ServedBefore

\* For any number of mounts, entries and versions, a successful response has
\* exactly one version of an entry without a history, and for one with a
\* history distinct versions named 0, 1, 2, ... from newer to older, whatever
\* the vault's owners did between the requests.
THEOREM ResponseIsComplete == Spec => []CompleteResponse
<1>1. Spec => []ServingInv
  BY ServingInvariance
<1>2. ServingInv => CompleteResponse
  <2> SUFFICES ASSUME ServingInv, NEW r \in Requests, pc[r] = "ok", NEW e \in DOMAIN attr[r].objects
               PROVE  LET kv == attr[r].objects[e]
                          s == files[r]
                          time == created[VaultObject(kv)]
                      IN  IF IsSyncingSingleVersion(kv)
                          THEN \E i \in DOMAIN s : /\ Served(s, e) = {i}
                                                   /\ Pinned(kv) => s[i].version = kv.ObjectVersion
                          ELSE InIndexOrder(s, e) /\ NewestFirst(kv, Named(s, e), time)
    BY Zenon DEF CompleteResponse
  <2>1. LET kv == attr[r].objects[e]
            k == VaultObject(kv)
        IN  EntryServed(kv, e, files[r], arrival[r][k], steady[r][k], created[k])
    BY OkServed, Zenon
  <2>2. ASSUME NEW kv, NEW s, NEW time, Served(s, e) = {}
        PROVE  InIndexOrder(s, e) /\ NewestFirst(kv, Named(s, e), time)
    <3>1. Named(s, e) = {}
      BY <2>2 DEF Named
    <3> QED
      BY <2>2, <3>1, Zenon DEF InIndexOrder, NewestFirst
  <2> QED
    BY <2>1, <2>2, Zenon DEF EntryServed, Selected
<1> QED
  BY <1>1, <1>2, PTL

\* Nor does it ever miss a version that was enabled from the call to the reply
\* in favour of an older one, or serve one older than the newest at the call,
\* however long the mount takes and however the vault is rotated meanwhile.
THEOREM NothingSkipped == Spec => []NoVersionSkipped
<1>1. Spec => []ServingInv
  BY ServingInvariance
<1>2. ServingInv => NoVersionSkipped
  <2> SUFFICES ASSUME ServingInv, NEW r \in Requests, pc[r] = "ok", NEW e \in DOMAIN attr[r].objects
               PROVE  LET kv == attr[r].objects[e]
                          k == VaultObject(kv)
                          s == files[r]
                      IN  IF IsSyncingSingleVersion(kv)
                          THEN kv.ObjectVersion = NoVersion =>
                                  \A i \in Served(s, e) : s[i].version >= arrival[r][k]
                          ELSE k \in VaultObjects =>
                                  NoneSkipped(kv, Named(s, e), steady[r][k], created[k])
    BY Zenon DEF NoVersionSkipped
  <2>1. PICK kv : kv = attr[r].objects[e]
    BY Zenon
  <2>2. PICK k : k = VaultObject(kv)
    BY Zenon
  <2>3. PICK s : s = files[r]
    BY Zenon
  <2>4. EntryServed(kv, e, s, arrival[r][k], steady[r][k], created[k])
    BY <2>1, <2>2, <2>3, OkServed, Zenon
  <2>5. CASE IsSyncingSingleVersion(kv)
    <3>1. PICK i \in DOMAIN s : /\ Served(s, e) = {i}
                                /\ kv.ObjectVersion = NoVersion => s[i].version >= arrival[r][k]
      BY <2>4, <2>5, Zenon DEF EntryServed
    <3>2. kv.ObjectVersion = NoVersion => \A j \in Served(s, e) : s[j].version >= arrival[r][k]
      BY <3>1
    <3> QED
      BY <2>1, <2>2, <2>3, <2>5, <3>2, Zenon
  <2>6. CASE ~IsSyncingSingleVersion(kv)
    BY <2>1, <2>2, <2>3, <2>4, <2>6, Zenon DEF EntryServed, Selected
  <2> QED
    BY <2>5, <2>6
<1> QED
  BY <1>1, <1>2, PTL
=============================================================================
