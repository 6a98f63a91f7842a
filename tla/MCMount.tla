------------------------------- MODULE MCMount -------------------------------
(***************************************************************************)
(* Instances of Mount for TLC: one set of parameters per question.         *)
(***************************************************************************)
EXTENDS Mount

NoTokens == [given |-> FALSE, wellFormed |-> TRUE, audiences |-> {}]
NoSecrets == [given |-> FALSE, clientids |-> {}, clientsecrets |-> {}]

Object ==
    [ObjectName |-> "db", ObjectAlias |-> "", ObjectIndex |-> NoIndex,
     ObjectVersion |-> NoVersion, ObjectVersionHistory |-> 0,
     ObjectType |-> "secret", ObjectFormat |-> "", ObjectEncoding |-> "",
     FilePermission |-> NoPermission]

\* A mount with the node's managed identity and one secret.
Request ==
    [missing |-> {}, malformed |-> {},
     usePodIdentity |-> "", useVMManagedIdentity |-> "true", useAzureTokenProxy |-> "",
     userAssignedIdentityID |-> "", clientID |-> "",
     saTokens |-> NoTokens, secrets |-> NoSecrets,
     cloudName |-> "", cloudEnvFileName |-> "",
     permission |-> 420, objects |-> <<Object>>]

MCIdentities == {"mi", "wi", "sp1", "sp2", "s1", "s2"}
MCNames == {"db", "tls", "old", "../db"}
MCBadFileNames == {"../db"}
MCKnownClouds == {"AzurePublicCloud"}
MCFiles == {"east.json", "west.json", "broken.json"}
MCReadableFiles == {"east.json", "west.json"}
NoVaultObjects == {}
RequestSymmetry == Permutations(Requests)
OneSecret == {<<"secret", "db">>}
OneText == [k \in OneSecret |-> "text"]
NoBundle == [k \in {} |-> "text"]
-----------------------------------------------------------------------------
(***************************************************************************)
(* Versions: what one mount reads while the vault's versions come and go.  *)
(***************************************************************************)

History(n, version) ==
    [Object EXCEPT !.ObjectVersionHistory = n, !.ObjectVersion = version]

VersionAttribs ==
    {[Request EXCEPT !.objects = s] :
        s \in {<<Object>>,
               <<[Object EXCEPT !.ObjectVersion = 2]>>,
               <<[Object EXCEPT !.ObjectVersion = LatestVersion]>>,
               <<History(2, NoVersion), Object>>,
               <<[History(2, NoVersion) EXCEPT !.ObjectName = "old"], Object>>,
               <<History(2, LatestVersion)>>,
               <<History(2, 2)>>,
               <<History(3, 3)>>,
               <<History(10, NoVersion)>>}}
-----------------------------------------------------------------------------
(***************************************************************************)
(* Environments: mounts that name their own environment file, mounts that  *)
(* name none, and clouds that are in the table or in no table.             *)
(***************************************************************************)

EnvironmentAttribs ==
    {[Request EXCEPT !.cloudName = c[1], !.cloudEnvFileName = c[2]] :
        c \in {<<"AzureStackCloud", "east.json">>, <<"AzureStackCloud", "west.json">>,
               <<"AzureStackCloud", "broken.json">>, <<"AzureStackCloud", "">>,
               <<"AzurePublicCloud", "west.json">>}}
-----------------------------------------------------------------------------
(***************************************************************************)
(* Identities: every way to combine the identity modes, with all that any  *)
(* of them may use; the modes that use a token, with every way the tokens  *)
(* can come; and no mode, with every way a service principal can come.     *)
(* Beside them run the mounts above.                                       *)
(***************************************************************************)

MCFlags ==
    {"", "true"} \X {"", "true"} \X {"", "true"}
        \cup {<<"invalid", "", "">>, <<"false", "true", "invalid">>, <<"false", "false", "true">>}

MCTokens ==
    {NoTokens, [given |-> TRUE, wellFormed |-> FALSE, audiences |-> {}]}
        \cup {[given |-> TRUE, wellFormed |-> TRUE, audiences |-> A] : A \in SUBSET Audiences}

AllTokens == [given |-> TRUE, wellFormed |-> TRUE, audiences |-> Audiences]

MCSecrets ==
    {NoSecrets,
     [given |-> TRUE, clientids |-> {}, clientsecrets |-> {"s1"}],
     [given |-> TRUE, clientids |-> {"sp1", ""}, clientsecrets |-> {"s1"}],
     [given |-> TRUE, clientids |-> {"sp1", "sp2"}, clientsecrets |-> {"s1", "s2"}]}

Identity(flags, clientID, tokens, secrets) ==
    [Request EXCEPT !.usePodIdentity = flags[1], !.useVMManagedIdentity = flags[2],
                    !.useAzureTokenProxy = flags[3], !.userAssignedIdentityID = "mi",
                    !.clientID = clientID, !.saTokens = tokens, !.secrets = secrets]

IdentityAttribs ==
    EnvironmentAttribs
    \cup {Identity(f, "wi", AllTokens, s) :
            f \in MCFlags, s \in {t \in MCSecrets : Cardinality(t.clientsecrets) = 2}}
    \cup {Identity(f, "wi", t, NoSecrets) :
            f \in {<<"", "", "">>, <<"", "", "true">>}, t \in MCTokens}
    \cup {Identity(<<"", "", "">>, "", NoTokens, s) : s \in MCSecrets}
-----------------------------------------------------------------------------
(***************************************************************************)
(* Content: the types, formats and encodings of an entry, what the vault   *)
(* holds under its name, and the ways a request can be refused.            *)
(***************************************************************************)

ContentObjects == {<<"secret", "tls">>, <<"cert", "tls">>}

ContentBundle == [k \in ContentObjects |-> IF k[1] = "secret" THEN "pfx" ELSE "x509"]

Refused ==
    {[Request EXCEPT !.cloudName = "unknown"]} \cup
    {[Request EXCEPT !.missing = {p}] :
        p \in {"podName", "podNamespace", "keyvaultName", "tenantID", "objects"}}
    \cup {[Request EXCEPT !.malformed = {p}] :
        p \in {"attributes", "secrets", "permission", "objects", "keyvaultName",
               "cloudEnvFileName"}}

Tls(type) == [Object EXCEPT !.ObjectType = type, !.ObjectName = "tls"]

ContentAttribs ==
    {[Request EXCEPT !.objects = <<[Tls("secret") EXCEPT !.ObjectFormat = f,
                                                         !.ObjectEncoding = e]>>] :
        f \in {"", "PFX", "der"}, e \in {"", "base64", "HEX"}}
    \cup {[Request EXCEPT !.objects = s] :
            s \in {<<>>,
                   <<Tls("secrets")>>,
                   <<[Tls("cert") EXCEPT !.ObjectFormat = "pfx"]>>,
                   <<[Tls("secret") EXCEPT !.ObjectAlias = "../db"]>>,
                   <<[Tls("secret") EXCEPT !.ObjectVersionHistory = 2], Tls("cert")>>}}
    \cup Refused
-----------------------------------------------------------------------------
(***************************************************************************)
(* The statements of documents and comments.                               *)
(***************************************************************************)

HistoryAttribs == {[Request EXCEPT !.objects = <<History(2, NoVersion)>>]}

PermissionAttribs ==
    {[Request EXCEPT !.objects = <<[Object EXCEPT !.FilePermission = InvalidPermission]>>]}
=============================================================================
