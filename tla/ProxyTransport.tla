--------------------------- MODULE ProxyTransport ---------------------------
(***************************************************************************)
(* CreateProxyTransport: main's one call that makes the identity binding   *)
(* transport.  It hands its configuration to the SDK through the process's *)
(* environment variables and has to leave these as it found them, while    *)
(* the kubelet may put a new CA certificate in place.                      *)
(***************************************************************************)
EXTENDS Integers, Sequences

CONSTANTS
    URLs,         \* values of --token-proxy-url
    SNINames,     \* values of --sni-name
    CAs,          \* the cluster's CA certificates
    ClusterIDs,   \* cluster identifiers
    Leaves,       \* the DNS names the API server's certificate may have
    ServerNames,  \* the hash that makes a server name of each identifier
    Inherited     \* values that environment variables may have from outside

TokenProxy == "AZURE_KUBERNETES_TOKEN_PROXY"
SNIName == "AZURE_KUBERNETES_SNI_NAME"
CAFile == "AZURE_KUBERNETES_CA_FILE"
EnvKeys == {TokenProxy, SNIName, CAFile}

DefaultTokenProxyURL == "https://kubernetes.default.svc.cluster.local"
DefaultCAFile == "/var/run/secrets/kubernetes.io/serviceaccount/ca.crt"

\* A DNS name of the API server's certificate.  One with the prefix and the suffix
\* of API server names has a cluster identifier between them, which may be empty;
\* or the two overlap in the dot they share, and there is no between.
Overlap == "overlap"
DNSNames == [apiServer : BOOLEAN, id : ClusterIDs \cup {"", Overlap}]

ResolveServerName(id) == ServerNames[id]

ASSUME ProxyTransportAssumption ==
    /\ Leaves \subseteq Seq(DNSNames)
    /\ "" \notin URLs \cup SNINames \cup CAs \cup ClusterIDs
    /\ Overlap \notin ClusterIDs
    /\ "unset" \notin {DefaultTokenProxyURL, DefaultCAFile} \cup URLs \cup SNINames \cup Inherited
    /\ ServerNames \in [ClusterIDs -> STRING]
    /\ \A id \in ClusterIDs : ServerNames[id] \notin {"", "unset"}
    /\ \A id1, id2 \in ClusterIDs : ServerNames[id1] = ServerNames[id2] => id1 = id2
    /\ CAs \cap ({"absent", "invalid", "system"} \cup Inherited) = {}
    /\ DefaultCAFile \notin Inherited

VARIABLES
    flags,        \* the two flags, "" where not given
    env,          \* the three environment variables
    pc,
    caPool,       \* what was read of the CA file
    sniName,
    savedEnv,
    result,       \* the transport, or the error
    caFile,       \* the CA file: absent, invalid, or with a certificate
    answers,      \* whether the API server answers
    signer,       \* the CA of the API server's certificate
    leaf,         \* the DNS names of that certificate
    envBefore     \* aux: the environment variables at the call

vars == <<flags, env, pc, caPool, sniName, savedEnv, result, caFile, answers, signer, leaf, envBefore>>
world == <<caFile, answers, signer, leaf>>

Envs ==
    [EnvKeys -> {"unset", DefaultTokenProxyURL, DefaultCAFile} \cup Inherited \cup URLs
                    \cup SNINames \cup {ResolveServerName(id) : id \in ClusterIDs}]
NotYet == [status |-> "none"]
Error == [status |-> "error"]

Transport(url, sni, ca) == [status |-> "ready", url |-> url, sni |-> sni, ca |-> ca]

Init ==
    /\ flags \in [url : URLs \cup {""}, sni : SNINames \cup {""}]
    /\ env \in [EnvKeys -> Inherited \cup {"unset"}]
    /\ envBefore = env
    /\ pc = "begin"
    /\ caPool = "none"
    /\ sniName = ""
    /\ savedEnv = [k \in EnvKeys |-> "unset"]
    /\ result = NotYet
    /\ caFile \in CAs \cup {"absent", "invalid"}
    /\ answers \in BOOLEAN
    /\ signer \in CAs
    /\ leaf \in Leaves
-----------------------------------------------------------------------------
TokenProxyURL == IF flags.url = "" THEN DefaultTokenProxyURL ELSE flags.url

\* A return before the environment variables are saved.
ReturnError ==
    /\ pc' = "returned"
    /\ result' = Error
    /\ UNCHANGED <<flags, env, sniName, savedEnv, caPool, world, envBefore>>

Begin ==
    /\ pc = "begin"
    /\ pc' = IF flags.sni = "" THEN "readCA" ELSE "setEnv"
    /\ sniName' = flags.sni
    /\ UNCHANGED <<flags, env, caPool, savedEnv, result, world, envBefore>>

\* extractClusterID, up to the request to the API server.
ReadCAFile ==
    /\ pc = "readCA"
    /\ \/ /\ caFile \in CAs
          /\ caPool' = caFile
          /\ pc' = "dial"
          /\ UNCHANGED <<flags, env, sniName, savedEnv, result, world, envBefore>>
       \/ caFile \notin CAs /\ ReturnError

\* The identifier in the first API server name, "" when it is empty or there is
\* no such name, Overlap when the bounds of the slice are the wrong way round.
ExtractClusterID(sans) ==
    LET names == {i \in DOMAIN sans : sans[i].apiServer}
        first == CHOOSE i \in names : \A j \in names : i <= j
    IN  IF names = {} THEN "" ELSE sans[first].id

\* The connection is there, to a server whose certificate the CA has signed.
Connected == pc = "dial" /\ answers /\ caPool = signer

\* The server name is made of the identifier; without one that is an error, and
\* a slice out of bounds is a panic, which nothing recovers.
UseCertificate ==
    \/ /\ ExtractClusterID(leaf) \notin {"", Overlap}
       /\ sniName' = ResolveServerName(ExtractClusterID(leaf))
       /\ pc' = "setEnv"
       /\ UNCHANGED <<flags, env, caPool, savedEnv, result, world, envBefore>>
    \/ ExtractClusterID(leaf) = "" /\ ReturnError
    \/ /\ ExtractClusterID(leaf) = Overlap
       /\ pc' = "panicked"
       /\ UNCHANGED <<flags, env, caPool, sniName, savedEnv, result, world, envBefore>>

\* Mutant: the dialer has no timeout, and waits for a server that does not answer.
DialFailsOnAnswer == pc = "dial" /\ answers

\* The server refuses the connection, its certificate is of another CA, or it has
\* not answered in time.
DialFails == pc = "dial"

DialAPIServer ==
    \/ Connected /\ UseCertificate
    \/ DialFails /\ ReturnError

\* Mutant: the variable is left alone when the CA file is not there.
CAFileKept == IF caFile = "absent" THEN env[CAFile] ELSE DefaultCAFile

\* Mutant: the variable gets what is in the file.
CAFileContent == IF caFile = "absent" THEN "unset" ELSE caFile

\* Mutant: the CA file goes only with a server name from the flag.
CAFileForFlag == IF flags.sni = "" THEN "unset" ELSE DefaultCAFile

\* os.Stat finds the file whatever is in it.
CAFileVariable == IF caFile = "absent" THEN "unset" ELSE DefaultCAFile

SetEnv ==
    /\ pc = "setEnv"
    /\ savedEnv' = env
    /\ env' = [env EXCEPT ![TokenProxy] = TokenProxyURL, ![SNIName] = sniName,
                          ![CAFile] = CAFileVariable]
    /\ pc' = "construct"
    /\ UNCHANGED <<flags, caPool, sniName, result, world, envBefore>>

\* What the SDK trusts for the proxy's certificate, "invalid" for an error: the
\* certificates of the file the variable names, or the system's.
TrustedCA ==
    IF env[CAFile] = "unset" THEN "system"
    ELSE IF env[CAFile] # DefaultCAFile THEN env[CAFile]
    ELSE IF caFile \in CAs THEN caFile ELSE "invalid"

\* NewWorkloadIdentityCredential reads the environment; it and
\* extractProxyTransport may fail.
NewWorkloadIdentityCredential ==
    /\ pc = "construct"
    /\ \/ /\ TrustedCA # "invalid"
          /\ result' = Transport(env[TokenProxy], env[SNIName], TrustedCA)
       \/ result' = Error
    /\ pc' = "restore"
    /\ UNCHANGED <<flags, env, caPool, sniName, savedEnv, world, envBefore>>

\* Mutant: a variable that was not there is left as it is.
RestoredIfSaved == [k \in EnvKeys |-> IF savedEnv[k] # "unset" THEN savedEnv[k] ELSE env[k]]

\* The deferred function: set what was set, unset what was not.
RestoredEnv == savedEnv

RestoreEnv ==
    /\ pc = "restore"
    /\ env' = RestoredEnv
    /\ pc' = "returned"
    /\ UNCHANGED <<flags, caPool, sniName, savedEnv, result, world, envBefore>>

CreateProxyTransport ==
    \/ Begin \/ ReadCAFile \/ DialAPIServer \/ SetEnv
    \/ NewWorkloadIdentityCredential \/ RestoreEnv

\* The kubelet writes the CA file, at first late and then for each rotation, and
\* the API server gets a certificate of another CA.  The file does not go away.
RotateCA ==
    /\ \/ \E ca \in CAs : caFile' = ca /\ UNCHANGED <<answers, signer, leaf>>
       \/ \E ca \in CAs : signer' = ca /\ UNCHANGED <<caFile, answers, leaf>>
    /\ UNCHANGED <<flags, env, pc, caPool, sniName, savedEnv, result, envBefore>>

\* The API server comes and goes; it need not come.
APIServer ==
    /\ answers' = ~answers
    /\ UNCHANGED <<flags, env, pc, caPool, sniName, savedEnv, result, caFile, signer, leaf, envBefore>>

Next == CreateProxyTransport \/ RotateCA \/ APIServer

Spec == Init /\ [][Next]_vars

\* The dial has a timeout of ten seconds; nothing else waits.
FairSpec == Spec /\ WF_vars(CreateProxyTransport)
-----------------------------------------------------------------------------
TypeOK ==
    /\ flags \in [url : URLs \cup {""}, sni : SNINames \cup {""}]
    /\ env \in Envs /\ savedEnv \in Envs /\ envBefore \in Envs
    /\ pc \in {"begin", "readCA", "dial", "setEnv", "construct", "restore", "returned",
              "panicked"}
    /\ caPool \in CAs \cup {"none"}
    /\ sniName \in SNINames \cup {""} \cup {ResolveServerName(id) : id \in ClusterIDs}
    /\ caFile \in CAs \cup {"absent", "invalid"}
    /\ answers \in BOOLEAN /\ signer \in CAs /\ leaf \in Leaves

\* CreateProxyTransport is hermetic: on every way out, each environment
\* variable it touches has the value it had at the call or is absent as it was.
Hermetic == pc = "returned" => env = envBefore

\* The transport comes from the flags and the cluster, never from what the three
\* environment variables held before: its address is the flag's or the API
\* server's, its server name the flag's or that of the cluster which the API
\* server's first name has, and it trusts the cluster's CA or, without a CA file, the
\* system's.
TransportAsConfigured ==
    result.status = "ready" =>
        /\ result.url = IF flags.url = "" THEN DefaultTokenProxyURL ELSE flags.url
        /\ IF flags.sni # "" THEN result.sni = flags.sni
           ELSE /\ ExtractClusterID(leaf) \notin {"", Overlap}
                /\ result.sni = ResolveServerName(ExtractClusterID(leaf))
        /\ result.ca \in CAs \cup {"system"}

\* A server name that was computed over a connection the cluster's CA vouches
\* for is only used over one that it vouches for: a rotation of the CA in
\* between cannot make the transport fall back to the system's trust.
ComputedNamePinsCA ==
    result.status = "ready" /\ flags.sni = "" => result.ca \in CAs

\* main gets on with its start, with a transport or an error, also when the API
\* server never answers.  The one exception is a certificate whose first API
\* server name has its prefix and suffix overlap: extractClusterID may panic on
\* it, unless a flag gives the server name.
CallReturns ==
    <>(\/ pc = "returned" /\ result # NotYet
       \/ pc = "panicked" /\ flags.sni = "" /\ ExtractClusterID(leaf) = Overlap)
=============================================================================
