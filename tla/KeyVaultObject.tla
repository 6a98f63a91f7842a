--------------------------- MODULE KeyVaultObject ---------------------------
(***************************************************************************)
(* One entry of a SecretProviderClass's objects array: its defaults, its   *)
(* validation, the versions it resolves to and the files its content turns *)
(* into (pkg/provider/types, pkg/provider/validate.go and the per-object   *)
(* half of pkg/provider/provider.go).                                      *)
(*                                                                         *)
(* Versions of a vault object are numbered 1, 2, ... in the order the      *)
(* vault created them.  A file name is a base name and, below it, the      *)
(* index of a version.  Content is represented by what was read.           *)
(***************************************************************************)
EXTENDS Integers, Sequences, FiniteSets, SequencesExt

CONSTANTS
    BadFileNames,                   \* absolute names and names with ".." in them
    writeCertAndKeyInSeparateFiles  \* the provider's feature flag

ASSUME FlagAssumption == writeCertAndKeyInSeparateFiles \in BOOLEAN

\* ObjectVersion: a version number, or one of the two ways to ask for the newest.
NoVersion == 0
LatestVersion == -1

NoIndex == -1

\* FilePermission: a mode, or absent, or not an octal number.
NoPermission == -1
InvalidPermission == -2

\* The vault's object types, and the ones a SecretProviderClass may spell.
VaultObjectTypes == {"secret", "key", "cert"}

KeyVaultObjects(Names) ==
    [ObjectName : Names, ObjectAlias : Names \cup {""}, ObjectIndex : {NoIndex} \cup Nat,
     ObjectVersion : Int, ObjectVersionHistory : Int,
     ObjectType : STRING, ObjectFormat : STRING, ObjectEncoding : STRING,
     FilePermission : Int]
-----------------------------------------------------------------------------
IsSyncingSingleVersion(kv) == kv.ObjectVersionHistory <= 1

\* The base name; a resolved version's index is kept apart in ObjectIndex.
GetFileName(kv) == IF kv.ObjectAlias # "" THEN kv.ObjectAlias ELSE kv.ObjectName

GetObjectUID(kv) ==
    [type |-> kv.ObjectType, name |-> kv.ObjectName,
     index |-> IF IsSyncingSingleVersion(kv) THEN NoIndex ELSE kv.ObjectIndex]

\* GetFilePermission's first result; the caller discards its error.
GetFilePermission(kv, defaultFilePermission) ==
    IF kv.FilePermission = NoPermission THEN defaultFilePermission
    ELSE IF kv.FilePermission = InvalidPermission THEN 0
    ELSE kv.FilePermission
-----------------------------------------------------------------------------
(***************************************************************************)
(* Validation.                                                             *)
(***************************************************************************)

\* strings.EqualFold(s, word), over the spellings the configurations use.
EqualFold(s, word) ==
    \/ s = word
    \/ <<s, word>> \in {<<"PEM", "pem">>, <<"PFX", "pfx">>, <<"HEX", "hex">>,
                        <<"BASE64", "base64">>, <<"UTF-8", "utf-8">>}

ObjectFormatValid(kv) ==
    \/ kv.ObjectFormat = ""
    \/ /\ EqualFold(kv.ObjectFormat, "pem") \/ EqualFold(kv.ObjectFormat, "pfx")
       /\ ~(kv.ObjectFormat = "pfx" /\ kv.ObjectType # "secret")

ObjectEncodingValid(kv) ==
    \/ kv.ObjectEncoding = ""
    \/ /\ kv.ObjectType = "secret"
       /\ \E e \in {"hex", "base64", "utf-8"} : EqualFold(kv.ObjectEncoding, e)

FileNameValid(fileName) == fileName # "" /\ fileName \notin BadFileNames

Validate(kv) ==
    /\ ObjectFormatValid(kv)
    /\ ObjectEncodingValid(kv)
    /\ FileNameValid(GetFileName(kv))
-----------------------------------------------------------------------------
(***************************************************************************)
(* Versions: getLatestNKeyVaultObjects on a list that sort.Sort has put in *)
(* descending order of creation.                                           *)
(***************************************************************************)

\* Mutant: the pinned version is not looked for.
FirstWantedIsNewest(kv, list) == 1

\* Where the loop's foundFirst turns true; past the end when it never does.
FirstWanted(kv, list) ==
    IF kv.ObjectVersion \in {NoVersion, LatestVersion} THEN 1
    ELSE CHOOSE i \in 1..(Len(list) + 1) :
            /\ i <= Len(list) => list[i] = kv.ObjectVersion
            /\ \A j \in 1..(i - 1) : list[j] # kv.ObjectVersion

\* Mutant: the loop leaves one version before the history is full.
LimitBelowHistory(kv) == kv.ObjectVersionHistory - 1

\* The loop appends and then leaves when the length it had before appending,
\* plus one, exceeds ObjectVersionHistory.
VersionLimit(kv) == kv.ObjectVersionHistory + 1

\* Mutant: the index is taken from where the first wanted version is in the list.
ResolvedObjectListIndex(kv, list, first, i) ==
    [kv EXCEPT !.ObjectAlias = GetFileName(kv), !.ObjectIndex = i - first,
               !.ObjectVersion = list[first + i - 1]]

\* The i-th object the loop appends.
ResolvedObject(kv, list, first, i) ==
    [kv EXCEPT !.ObjectAlias = GetFileName(kv), !.ObjectIndex = i - 1,
               !.ObjectVersion = list[first + i - 1]]

GetLatestNKeyVaultObjects(kv, list) ==
    LET first == FirstWanted(kv, list)
        found == Len(list) + 1 - first
        limit == VersionLimit(kv)
    IN  [i \in 1..(IF found < limit THEN found ELSE limit) |->
            ResolvedObject(kv, list, first, i)]

\* The orders sort.Sort may leave the listed versions in: it is not stable, so
\* versions created in the same second come in any order.
SortedLists(listed, created) ==
    {list \in SetToSeqs(listed) :
        \A i, j \in DOMAIN list : i < j => created[list[i]] >= created[list[j]]}

\* What a listing may have found that went on while versions were created,
\* disabled and enabled: every version that was enabled throughout, and of the
\* ones enabled at some time any.
Listings(throughout, sometime) == {S \in SUBSET sometime : throughout \subseteq S}
-----------------------------------------------------------------------------
(***************************************************************************)
(* Content: what getKeyVaultObjectContent makes of the vault's answer and  *)
(* getContentBytes of that.  A bundle is what the vault holds under a      *)
(* name: for a secret, plain text or a certificate's PEM or PFX; for a key *)
(* its kind.  base64Text decodes as base64 only and hexText as hex only.   *)
(***************************************************************************)

SecretBundles == {"text", "base64Text", "hexText", "pem", "pfx", "corruptPfx", "otherCert"}
KeyBundles == {"rsa", "ec", "otherCurve", "oct"}
CertBundles == {"x509"}
Bundles == SecretBundles \cup KeyBundles \cup CertBundles

Contents == {"text", "base64Text", "hexText", "pem", "pfx", "certs", "privateKey",
             "publicKey", "empty", "bytes", "invalid"}
FileNameSuffixes == {"", ".crt", ".key"}

Part(content, suffix) == [content |-> content, fileNameSuffix |-> suffix]

\* The certificates and the rest of a text's PEM blocks: a PFX has none.
SplitCertAndKey(content) ==
    IF content = "pem" THEN <<"certs", "privateKey">> ELSE <<"empty", "empty">>

\* Mutant: a PFX is not split.
CertPartsOfPem(content) ==
    IF ~writeCertAndKeyInSeparateFiles \/ content = "pfx" THEN <<Part(content, "")>>
    ELSE <<Part(SplitCertAndKey(content)[1], ".crt"),
           Part(SplitCertAndKey(content)[2], ".key"), Part(content, "")>>

\* The parts of a certificate-backed secret.
CertParts(content) ==
    IF ~writeCertAndKeyInSeparateFiles THEN <<Part(content, "")>>
    ELSE <<Part(SplitCertAndKey(content)[1], ".crt"),
           Part(SplitCertAndKey(content)[2], ".key"), Part(content, "")>>

DecodePKCS12(bundle) == IF bundle = "pfx" THEN "pem" ELSE "invalid"

\* What a certificate-backed secret is written as, "invalid" for an error.
CertContent(kv, bundle) ==
    IF bundle = "pem" THEN "pem"
    ELSE IF EqualFold(kv.ObjectFormat, "pfx") THEN "pfx"
    ELSE DecodePKCS12(bundle)

\* The parts of an object, <<>> for an error.
GetSecret(kv, bundle) ==
    CASE bundle \in {"text", "base64Text", "hexText"} -> <<Part(bundle, "")>>
      [] bundle \in {"pem", "pfx", "corruptPfx"} /\ CertContent(kv, bundle) # "invalid" ->
           CertParts(CertContent(kv, bundle))
      [] OTHER -> <<>>

GetKey(bundle) == IF bundle \in {"rsa", "ec"} THEN <<Part("publicKey", "")>> ELSE <<>>

GetCertificate(bundle) == IF bundle = "x509" THEN <<Part("certs", "")>> ELSE <<>>

ObjectContent(kv, bundle) ==
    CASE kv.ObjectType = "secret" -> GetSecret(kv, bundle)
      [] kv.ObjectType = "key" -> GetKey(bundle)
      [] kv.ObjectType = "cert" -> GetCertificate(bundle)
      [] OTHER -> <<>>

Decodes(kv) ==
    kv.ObjectType = "secret" /\ kv.ObjectEncoding # "" /\ ~EqualFold(kv.ObjectEncoding, "utf-8")

\* What getContentBytes returns, "invalid" for a decoding error.
ContentBytes(kv, content) ==
    IF ~Decodes(kv) \/ content = "empty" THEN content
    ELSE IF EqualFold(kv.ObjectEncoding, "base64") /\ content \in {"base64Text", "pfx"}
         THEN "bytes"
    ELSE IF EqualFold(kv.ObjectEncoding, "hex") /\ content = "hexText" THEN "bytes"
    ELSE "invalid"

ContentInvalid(kv, parts) ==
    \/ parts = <<>>
    \/ \E i \in DOMAIN parts : ContentBytes(kv, parts[i].content) = "invalid"
=============================================================================
