-------------------------------- MODULE Auth --------------------------------
(***************************************************************************)
(* How a mount request chooses the credential it presents to Key Vault     *)
(* (pkg/auth/auth.go and buildAuthConfig in pkg/provider/provider.go).     *)
(*                                                                         *)
(* Everything here is a function of the request's parameters "a" and of    *)
(* the process-wide proxy transport.  A service account token is           *)
(* represented by the audience it was issued for, the one thing about it   *)
(* that the code's choices depend on.                                      *)
(***************************************************************************)
EXTENDS FiniteSets, Naturals

IdentityModes == {"None", "PodIdentity", "VMManagedIdentity", "AzureTokenProxy"}

DefaultTokenAudience == "api://AzureADTokenExchange"
IdentityBindingTokenAudience == "api://AKSIdentityBinding"
Audiences == {DefaultTokenAudience, IdentityBindingTokenAudience}

\* A boolean parameter as the SecretProviderClass spells it.
Flags == {"", "true", "false", "invalid"}

\* The csi.storage.k8s.io/serviceAccount.tokens attribute: absent, not JSON,
\* or a map that has a non-empty token for some audiences.
SATokens == [given : BOOLEAN, wellFormed : BOOLEAN, audiences : SUBSET Audiences]

\* The nodePublishSecretRef secret: null, or a map whose keys spelt "clientid"
\* (in any case) have the values in clientids, and likewise clientsecrets.
Secrets(Values) ==
    [given : BOOLEAN, clientids : SUBSET Values, clientsecrets : SUBSET Values]
-----------------------------------------------------------------------------
(***************************************************************************)
(* The identity mode.                                                      *)
(***************************************************************************)

FlagsOf(a) == {a.usePodIdentity, a.useVMManagedIdentity, a.useAzureTokenProxy}

ModesEnabled(a) ==
    {m \in IdentityModes :
        \/ m = "PodIdentity"       /\ a.usePodIdentity = "true"
        \/ m = "VMManagedIdentity" /\ a.useVMManagedIdentity = "true"
        \/ m = "AzureTokenProxy"   /\ a.useAzureTokenProxy = "true"}

\* The three ifs run in this order and each overwrites the mode; more than one
\* is rejected afterwards.
IdentityMode(a) ==
    IF a.useAzureTokenProxy = "true" THEN "AzureTokenProxy"
    ELSE IF a.useVMManagedIdentity = "true" THEN "VMManagedIdentity"
    ELSE IF a.usePodIdentity = "true" THEN "PodIdentity"
    ELSE "None"

IdentityModeRejected(a) ==
    \/ "invalid" \in FlagsOf(a)
    \/ Cardinality(ModesEnabled(a)) > 1
-----------------------------------------------------------------------------
(***************************************************************************)
(* The auth configuration.                                                 *)
(***************************************************************************)

TokenFound(saTokens, audience) ==
    /\ saTokens.given
    /\ saTokens.wellFormed
    /\ audience \in saTokens.audiences

\* Mutant: the audience of workload identity for identity binding too.
ParsedAudienceAlwaysDefault(a) ==
    IF IdentityMode(a) = "AzureTokenProxy" \/ a.clientID # "" THEN DefaultTokenAudience ELSE ""

\* The audience whose token buildAuthConfig parses, "" when it parses none.
ParsedAudience(a) ==
    IF IdentityMode(a) = "AzureTokenProxy" THEN IdentityBindingTokenAudience
    ELSE IF a.clientID # "" THEN DefaultTokenAudience
    ELSE ""

TokenRejected(a) ==
    \/ /\ IdentityMode(a) = "AzureTokenProxy"
       /\ a.clientID = "" \/ ~a.saTokens.given
    \/ /\ ParsedAudience(a) # ""
       /\ ~TokenFound(a.saTokens, ParsedAudience(a))

\* getCredential ranges over a Go map: when two keys differ only in case, the
\* value the iteration reaches last wins, so any of them may.
LastSeen(values) == IF values = {} THEN {""} ELSE values

ServicePrincipals(secrets) ==
    IF secrets.given
    THEN LastSeen(secrets.clientids) \X LastSeen(secrets.clientsecrets)
    ELSE {<<"", "">>}

UsesServicePrincipal(a) ==
    IdentityMode(a) = "None" /\ ~(a.clientID # "" /\ ParsedAudience(a) # "")

Config(a, sp) ==
    [IdentityMode             |-> IdentityMode(a),
     UserAssignedIdentityID   |-> a.userAssignedIdentityID,
     WorkloadIdentityClientID |-> a.clientID,
     ServiceAccountToken      |-> ParsedAudience(a),
     AADClientID              |-> sp[1],
     AADClientSecret          |-> sp[2]]

\* The configurations buildAuthConfig may return, and whether it may fail.
AuthConfigs(a) ==
    IF TokenRejected(a) THEN {}
    ELSE IF UsesServicePrincipal(a)
         THEN {Config(a, sp) : sp \in {p \in ServicePrincipals(a.secrets) :
                                           p[1] # "" /\ p[2] # ""}}
         ELSE {Config(a, <<"", "">>)}

AuthConfigMayFail(a) ==
    \/ TokenRejected(a)
    \/ /\ UsesServicePrincipal(a)
       /\ \E p \in ServicePrincipals(a.secrets) : p[1] = "" \/ p[2] = ""
-----------------------------------------------------------------------------
(***************************************************************************)
(* The credential (Config.GetCredential).                                  *)
(***************************************************************************)

Credential(kind, identity, proof, transport) ==
    [kind |-> kind, identity |-> identity, proof |-> proof, transport |-> transport]

Credentials(Identities) ==
    [kind : {"none", "podIdentity", "managedIdentity", "clientAssertion", "clientSecret"},
     identity : Identities \cup {""}, proof : Identities \cup Audiences \cup {""},
     transport : {"", "nmi", "imds", "proxy", "direct"}]

NoCredential == Credential("none", "", "", "")

\* The credential, or NoCredential for an error.  Its proof is the token or
\* the client secret that Microsoft Entra ID is shown, its transport the
\* channel that carries it there.
GetCredential(c, proxyTransport) ==
    CASE c.IdentityMode = "PodIdentity" ->
           Credential("podIdentity", "", "", "nmi")
      [] c.IdentityMode = "VMManagedIdentity" ->
           Credential("managedIdentity", c.UserAssignedIdentityID, "", "imds")
      [] c.IdentityMode = "AzureTokenProxy" ->
           IF \/ c.WorkloadIdentityClientID = "" \/ c.ServiceAccountToken = ""
              \/ proxyTransport # "ready"
           THEN NoCredential
           ELSE Credential("clientAssertion", c.WorkloadIdentityClientID,
                           c.ServiceAccountToken, "proxy")
      [] c.IdentityMode = "None" /\ c.WorkloadIdentityClientID # ""
                                 /\ c.ServiceAccountToken # "" ->
           Credential("clientAssertion", c.WorkloadIdentityClientID,
                      c.ServiceAccountToken, "direct")
      [] c.IdentityMode = "None" /\ c.AADClientID # "" /\ c.AADClientSecret # ""
                                 /\ ~(/\ c.WorkloadIdentityClientID # ""
                                      /\ c.ServiceAccountToken # "") ->
           Credential("clientSecret", c.AADClientID, c.AADClientSecret, "direct")
      [] OTHER -> NoCredential
=============================================================================
