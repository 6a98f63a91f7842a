------------------------ MODULE ProxyTransportProofs ------------------------
(***************************************************************************)
(* The safety of CreateProxyTransport, for all flags, environments and CA  *)
(* certificates.                                                           *)
(***************************************************************************)
EXTENDS ProxyTransport, WellFoundedInduction, TLAPS

\* Before the variables are set nothing has changed; after that the saved values
\* are the ones of the call.
EnvInv ==
    /\ pc \in {"begin", "readCA", "dial", "setEnv", "returned"} => env = envBefore
    /\ pc \in {"construct", "restore"} => savedEnv = envBefore

\* The server name is the flag's, or comes of a connection for which the CA file
\* was read; that file is there ever after.
NameInv ==
    /\ pc \in {"readCA", "dial"} => flags.sni = ""
    /\ pc = "dial" => caFile \in CAs
    /\ pc \in {"setEnv", "construct"} =>
          IF flags.sni # "" THEN sniName = flags.sni
          ELSE /\ ExtractClusterID(leaf) \notin {"", Overlap}
               /\ sniName = ResolveServerName(ExtractClusterID(leaf)) /\ caFile \in CAs

\* What the SDK is about to read.
ConstructInv ==
    pc = "construct" =>
        /\ env[TokenProxy] = TokenProxyURL
        /\ env[SNIName] = sniName
        /\ env[CAFile] \in {"unset", DefaultCAFile}
        /\ flags.sni = "" => env[CAFile] = DefaultCAFile

\* What is to be shown of the call's result.
ResultInv ==
    /\ result.status = "ready" => pc \in {"restore", "returned"}
    /\ TransportAsConfigured
    /\ ComputedNamePinsCA

\* The inductive invariant.
IndInv == EnvInv /\ NameInv /\ ConstructInv /\ ResultInv

\* The state that the types of the invariant's variables need.
CallType ==
    /\ pc \in {"begin", "readCA", "dial", "setEnv", "construct", "restore", "returned",
              "panicked"}
    /\ DOMAIN env = EnvKeys
    /\ caFile \in CAs \cup {"absent", "invalid"}

\* The reserved words are no value of the flags or of the cluster.
LEMMA Constants ==
    /\ "absent" \notin CAs /\ "invalid" \notin CAs
    /\ DefaultCAFile # "unset"
  BY ProxyTransportAssumption

\* Nothing has been saved or set when the call begins.
LEMMA InitInv == Init => CallType /\ IndInv
<1> SUFFICES ASSUME Init PROVE CallType /\ IndInv
  OBVIOUS
<1>1. result.status # "ready"
  BY DEF Init, NotYet
<1> QED
  BY <1>1 DEF Init, CallType, IndInv, EnvInv, NameInv, ConstructInv, ResultInv,
             TransportAsConfigured, ComputedNamePinsCA

\* A return before anything is set.
LEMMA ReturnErrorInv ==
    ASSUME CallType, IndInv, ReturnError, pc \in {"readCA", "dial"}
    PROVE  CallType' /\ IndInv'
<1>1. result'.status # "ready"
  BY DEF ReturnError, Error
<1> QED
  BY <1>1 DEF ReturnError, CallType, IndInv, EnvInv, NameInv, ConstructInv, ResultInv,
             TransportAsConfigured, ComputedNamePinsCA, world

\* The way to the environment variables.
LEMMA NameSteps ==
    ASSUME CallType, IndInv, Begin \/ ReadCAFile \/ DialAPIServer
    PROVE  CallType' /\ IndInv'
<1> USE DEF world
<1>1. CASE Begin
  BY <1>1 DEF Begin, CallType, IndInv, EnvInv, NameInv, ConstructInv, ResultInv,
             TransportAsConfigured, ComputedNamePinsCA
<1>2. CASE ReadCAFile
  BY <1>2, ReturnErrorInv DEF ReadCAFile, CallType, IndInv, EnvInv, NameInv, ConstructInv,
             ResultInv, TransportAsConfigured, ComputedNamePinsCA
<1>3. CASE DialAPIServer
  BY <1>3, ReturnErrorInv DEF DialAPIServer, Connected, UseCertificate, DialFails, CallType, IndInv, EnvInv, NameInv, ConstructInv,
             ResultInv, TransportAsConfigured, ComputedNamePinsCA
<1> QED
  BY <1>1, <1>2, <1>3

\* The variables are saved, then set to what the SDK is to read.
LEMMA SetEnvInv ==
    ASSUME CallType, IndInv, SetEnv
    PROVE  CallType' /\ IndInv'
<1> USE DEF SetEnv, world
<1>1. TokenProxyURL' = TokenProxyURL
  BY DEF TokenProxyURL
<1>2. CallType' /\ EnvInv'
  BY DEF CallType, IndInv, EnvInv
<1>3. NameInv'
  BY DEF IndInv, NameInv
<1>4. ConstructInv'
  BY <1>1, Constants DEF CallType, IndInv, NameInv, ConstructInv, EnvKeys, TokenProxy, SNIName, CAFile,
                         CAFileVariable
<1>5. ResultInv'
  BY DEF IndInv, ResultInv, TransportAsConfigured, ComputedNamePinsCA
<1> QED
  BY <1>2, <1>3, <1>4, <1>5 DEF IndInv

\* The SDK makes the transport of what the variables say now.
LEMMA ConstructStep ==
    ASSUME CallType, IndInv, NewWorkloadIdentityCredential
    PROVE  CallType' /\ IndInv'
<1> USE DEF NewWorkloadIdentityCredential, world
<1>1. CallType' /\ EnvInv' /\ NameInv' /\ ConstructInv'
  BY DEF CallType, IndInv, EnvInv, NameInv, ConstructInv
<1>2. ResultInv'
  <2>1. CASE result' = Error
    <3>1. result'.status # "ready"
      BY <2>1 DEF Error
    <3> QED
      BY <3>1 DEF ResultInv, TransportAsConfigured, ComputedNamePinsCA
  <2>2. CASE TrustedCA # "invalid" /\ result' = Transport(env[TokenProxy], env[SNIName], TrustedCA)
    <3>1. result'.url = env[TokenProxy] /\ result'.sni = env[SNIName] /\ result'.ca = TrustedCA
      BY <2>2 DEF Transport
    <3>2. TrustedCA \in CAs \cup {"system"} /\ (flags.sni = "" => TrustedCA \in CAs)
      BY <2>2, Constants DEF IndInv, ConstructInv, TrustedCA
    <3>3. env[TokenProxy] = TokenProxyURL /\ env[SNIName] = sniName
      BY DEF IndInv, ConstructInv
    <3> QED
      BY <3>1, <3>2, <3>3 DEF IndInv, NameInv, ResultInv, TransportAsConfigured,
                                    ComputedNamePinsCA, TokenProxyURL
  <2> QED
    BY <2>1, <2>2
<1> QED
  BY <1>1, <1>2 DEF IndInv

\* The deferred function puts back what was saved.
LEMMA RestoreEnvInv ==
    ASSUME CallType, IndInv, RestoreEnv, DOMAIN savedEnv = EnvKeys
    PROVE  CallType' /\ IndInv'
  BY DEF RestoreEnv, RestoredEnv, world, CallType, IndInv, EnvInv, NameInv, ConstructInv, ResultInv,
             TransportAsConfigured, ComputedNamePinsCA

\* A CA file that is there stays.
LEMMA RotateCAInv ==
    ASSUME CallType, IndInv, RotateCA
    PROVE  CallType' /\ IndInv'
<1>1. TokenProxyURL' = TokenProxyURL
  BY DEF RotateCA, TokenProxyURL
<1> QED
  BY <1>1 DEF RotateCA, CallType, IndInv, EnvInv, NameInv, ConstructInv, ResultInv,
             TransportAsConfigured, ComputedNamePinsCA

\* Nor does the API server's coming and going change anything.
LEMMA APIServerInv ==
    ASSUME CallType, IndInv, APIServer
    PROVE  CallType' /\ IndInv'
<1>1. TokenProxyURL' = TokenProxyURL
  BY DEF APIServer, TokenProxyURL
<1> QED
  BY <1>1 DEF APIServer, CallType, IndInv, EnvInv, NameInv, ConstructInv, ResultInv,
             TransportAsConfigured, ComputedNamePinsCA

\* Every variable that may be set has a saved value or the mark that it had none.
SavedInv == DOMAIN savedEnv = EnvKeys

\* One case per action of the call and of the cluster.
LEMMA Invariance == Spec => [](CallType /\ IndInv)
<1>1. Init => SavedInv
  BY DEF Init, SavedInv
<1>2. CallType /\ SavedInv /\ [Next]_vars => SavedInv'
  BY DEF CallType, SavedInv, Next, CreateProxyTransport, Begin, ReadCAFile, ReturnError, DialAPIServer,
         UseCertificate, SetEnv, NewWorkloadIdentityCredential, RestoreEnv, RotateCA, APIServer, vars
<1>3. CallType /\ IndInv /\ SavedInv /\ [Next]_vars => (CallType /\ IndInv)'
  <2> SUFFICES ASSUME CallType, IndInv, SavedInv, [Next]_vars PROVE (CallType /\ IndInv)'
    OBVIOUS
  <2>1. CASE UNCHANGED vars
    <3>1. TokenProxyURL' = TokenProxyURL
      BY <2>1 DEF vars, TokenProxyURL
    <3> QED
      BY <2>1, <3>1 DEF vars, world, CallType, IndInv, EnvInv, NameInv, ConstructInv, ResultInv,
                        TransportAsConfigured, ComputedNamePinsCA
  <2> QED
    BY <2>1, NameSteps, SetEnvInv, ConstructStep, RestoreEnvInv, RotateCAInv, APIServerInv
       DEF Next, CreateProxyTransport, SavedInv
<1> QED
  BY <1>1, <1>2, <1>3, InitInv, PTL DEF Spec

\* On every way out of CreateProxyTransport the environment is as it was.
THEOREM CallIsHermetic == Spec => []Hermetic
<1>1. IndInv => Hermetic
  BY DEF IndInv, EnvInv, Hermetic
<1> QED
  BY <1>1, Invariance, PTL

\* The transport owes nothing to what the variables held before.
THEOREM TransportFollowsFlags == Spec => []TransportAsConfigured
<1>1. IndInv => TransportAsConfigured
  BY DEF IndInv, ResultInv
<1> QED
  BY <1>1, Invariance, PTL

\* A rotation of the CA during the call never unpins a computed server name.
THEOREM ComputedNameKeepsCA == Spec => []ComputedNamePinsCA
<1>1. IndInv => ComputedNamePinsCA
  BY DEF IndInv, ResultInv
<1> QED
  BY <1>1, Invariance, PTL
-----------------------------------------------------------------------------
(***************************************************************************)
(* Types.  An environment variable is never set to an empty server name:   *)
(* that rests on where the server name comes from, so on the invariant     *)
(* above.                                                                  *)
(***************************************************************************)

\* The server names that a call can use: the flag's and the computed ones.
ServerNameValues == SNINames \cup {ResolveServerName(id) : id \in ClusterIDs}

\* A set of naturals that is not empty has a least element.
LEMMA LeastOf ==
    ASSUME NEW S \in SUBSET Nat, S # {}
    PROVE  \E i \in S : \A j \in S : i <= j
<1> DEFINE Less == OpToRel(<, Nat)
<1>1. \A i, j \in Nat : i < j => <<i, j>> \in Less
  BY DEF OpToRel
<1>2. IsWellFoundedOn(Less, Nat)
  BY NatLessThanWellFounded
<1> HIDE DEF Less
<1>3. PICK i \in S : \A j \in S : ~(<<j, i>> \in Less)
  BY <1>2, WFMin
<1>4. ASSUME NEW j \in S PROVE i <= j
  <2>1. i \in Nat /\ j \in Nat /\ ~(j < i)
    BY <1>1, <1>3
  <2> QED
    BY <2>1
<1> QED
  BY <1>4

\* The identifier is one, empty, or the slice that panics.
LEMMA ClusterIDType ==
    ASSUME NEW sans \in Seq(DNSNames)
    PROVE  ExtractClusterID(sans) \in ClusterIDs \cup {"", Overlap}
<1> DEFINE names == {i \in DOMAIN sans : sans[i].apiServer}
           first == CHOOSE i \in names : \A j \in names : i <= j
<1>1. names \subseteq Nat
  OBVIOUS
<1>2. ASSUME names # {} PROVE first \in names
  <2>1. PICK n \in names : TRUE
    BY <1>2
  <2>2. \E i \in names : \A j \in names : i <= j
    BY <1>1, <2>1, LeastOf
  <2> QED
    BY <2>2
<1>3. \A i \in DOMAIN sans : sans[i].id \in ClusterIDs \cup {"", Overlap}
  <2>1. \A i \in DOMAIN sans : sans[i] \in DNSNames
    OBVIOUS
  <2>2. \A n \in DNSNames : n.id \in ClusterIDs \cup {"", Overlap}
    BY Zenon DEF DNSNames
  <2> QED
    BY <2>1, <2>2, Zenon
<1>4. CASE names = {}
  BY <1>4, Zenon DEF ExtractClusterID
<1>5. CASE names # {}
  <2>1. first \in DOMAIN sans
    BY <1>2, <1>5
  <2>2. ExtractClusterID(sans) = sans[first].id
    BY <1>5, Zenon DEF ExtractClusterID
  <2> QED
    BY <1>3, <2>1, <2>2, Zenon
<1> QED
  BY <1>4, <1>5

\* Where an environment variable's value can come from.
EnvValues ==
    {"unset", DefaultTokenProxyURL, DefaultCAFile} \cup Inherited \cup URLs \cup ServerNameValues

\* The environments, with the names above.
LEMMA EnvsAre == Envs = [EnvKeys -> EnvValues]
  BY DEF Envs, EnvValues, ServerNameValues

\* The server name is the flag's, empty, or computed.
NameType == sniName \in ServerNameValues \cup {""}

\* The types in three parts: what the call works on, its flags, and the cluster.
CallVarsOK ==
    /\ env \in Envs /\ savedEnv \in Envs /\ envBefore \in Envs
    /\ pc \in {"begin", "readCA", "dial", "setEnv", "construct", "restore", "returned",
              "panicked"}
    /\ caPool \in CAs \cup {"none"}
    /\ NameType
\* The two flags that the call is given.
FlagsOK == flags \in [url : URLs \cup {""}, sni : SNINames \cup {""}]
\* The cluster: its CA file and the API server's certificate.
WorldOK ==
    /\ caFile \in CAs \cup {"absent", "invalid"}
    /\ answers \in BOOLEAN /\ signer \in CAs /\ leaf \in Leaves

\* The parts are the type invariant.
LEMMA TypeByParts == TypeOK <=> CallVarsOK /\ FlagsOK /\ WorldOK
<1>1. NameType <=> sniName \in SNINames \cup {""} \cup {ResolveServerName(id) : id \in ClusterIDs}
  BY Zenon DEF NameType, ServerNameValues
<1> QED
  BY <1>1, Zenon DEF TypeOK, CallVarsOK, FlagsOK, WorldOK

\* The environment at the call is one the process may have inherited.
LEMMA InitType == Init => TypeOK
<1> SUFFICES ASSUME Init PROVE CallVarsOK /\ FlagsOK /\ WorldOK
  BY TypeByParts
<1>1. FlagsOK /\ WorldOK
  BY Zenon DEF Init, FlagsOK, WorldOK
<1>2. env \in Envs /\ envBefore \in Envs
  <2>1. env \in [EnvKeys -> Inherited \cup {"unset"}] /\ envBefore = env
    BY Zenon DEF Init
  <2>2. Inherited \cup {"unset"} \subseteq EnvValues
    BY Zenon DEF EnvValues
  <2> QED
    BY <2>1, <2>2, EnvsAre
<1>3. savedEnv \in Envs
  <2>1. savedEnv = [k \in EnvKeys |-> "unset"]
    BY Zenon DEF Init
  <2>2. "unset" \in EnvValues
    BY Zenon DEF EnvValues
  <2> QED
    BY <2>1, <2>2, EnvsAre
<1>4. pc = "begin" /\ caPool = "none" /\ NameType
  BY Zenon DEF Init, NameType
<1> QED
  BY <1>1, <1>2, <1>3, <1>4 DEF CallVarsOK

\* A server name that is used is not empty.
LEMMA NameUsed ==
    ASSUME TypeOK, IndInv, pc = "setEnv"
    PROVE  sniName \in ServerNameValues
<1>1. CASE flags.sni # ""
  <2>1. flags.sni \in SNINames \cup {""} /\ sniName = flags.sni
    BY <1>1, Zenon DEF TypeOK, IndInv, NameInv
  <2> QED
    BY <1>1, <2>1, Zenon DEF ServerNameValues
<1>2. CASE flags.sni = ""
  <2>1. ExtractClusterID(leaf) \notin {"", Overlap} /\ sniName = ResolveServerName(ExtractClusterID(leaf))
    BY <1>2, Zenon DEF IndInv, NameInv
  <2>2. leaf \in Seq(DNSNames)
    BY ProxyTransportAssumption, Zenon DEF TypeOK
  <2>3. ExtractClusterID(leaf) \in ClusterIDs
    BY <2>1, <2>2, ClusterIDType, Zenon
  <2> QED
    BY <2>1, <2>3, Zenon DEF ServerNameValues
<1> QED
  BY <1>1, <1>2, Zenon

\* One step per action, and under it what the action sets.
LEMMA StepType == TypeOK /\ IndInv /\ [Next]_vars => TypeOK'
<1>t. CallVarsOK' /\ FlagsOK' /\ WorldOK' => TypeOK'
  <2>1. NameType' => sniName' \in SNINames \cup {""} \cup {ResolveServerName(id) : id \in ClusterIDs}
    BY Zenon DEF NameType, ServerNameValues
  <2> QED
    BY <2>1, Zenon DEF TypeOK, CallVarsOK, FlagsOK, WorldOK
<1> SUFFICES ASSUME CallVarsOK, FlagsOK, WorldOK, TypeOK, IndInv, [Next]_vars
             PROVE  CallVarsOK' /\ FlagsOK' /\ WorldOK'
  BY <1>t, TypeByParts, Zenon
<1>1. ASSUME UNCHANGED flags PROVE FlagsOK'
  BY <1>1, Zenon DEF FlagsOK
<1>2. ASSUME UNCHANGED world PROVE WorldOK'
  BY <1>2, Zenon DEF WorldOK, world
<1>3. ASSUME UNCHANGED sniName PROVE NameType'
  BY <1>3, Zenon DEF NameType, CallVarsOK
<1> DEFINE Values == /\ env \in Envs /\ savedEnv \in Envs /\ envBefore \in Envs
                     /\ caPool \in CAs \cup {"none"}
<1>v. Values
  BY Zenon DEF CallVarsOK
<1>4. ASSUME ReturnError PROVE CallVarsOK' /\ FlagsOK' /\ WorldOK'
  BY <1>v, <1>1, <1>2, <1>3, <1>4 DEF ReturnError, CallVarsOK
<1>5. CASE Begin
  <2>1. NameType'
    <3>1. flags.sni \in SNINames \cup {""} /\ sniName' = flags.sni
      BY <1>5, Zenon DEF Begin, FlagsOK
    <3> QED
      BY <3>1, Zenon DEF NameType, ServerNameValues
  <2>2. pc' \in {"readCA", "setEnv"}
    BY <1>5, Zenon DEF Begin
  <2>3. UNCHANGED <<flags, env, caPool, savedEnv, world, envBefore>>
    BY <1>5, Zenon DEF Begin
  <2> QED
    BY <1>v, <1>1, <1>2, <2>1, <2>2, <2>3 DEF CallVarsOK
<1>6. CASE ReadCAFile
  BY <1>v, <1>1, <1>2, <1>3, <1>4, <1>6 DEF ReadCAFile, CallVarsOK
<1>7. CASE DialAPIServer
  <2>1. CASE ReturnError
    BY <1>4, <2>1
  <2>2. CASE pc' = "setEnv"
    <3>1. /\ ExtractClusterID(leaf) \notin {"", Overlap}
          /\ sniName' = ResolveServerName(ExtractClusterID(leaf))
          /\ pc' = "setEnv" /\ UNCHANGED <<flags, env, caPool, savedEnv, world, envBefore>>
      BY <1>7, <2>2 DEF DialAPIServer, UseCertificate, ReturnError
    <3>2. leaf \in Seq(DNSNames)
      BY ProxyTransportAssumption, Zenon DEF WorldOK
    <3>3. ExtractClusterID(leaf) \in ClusterIDs
      BY <3>1, <3>2, ClusterIDType, Zenon
    <3>4. NameType'
      BY <3>1, <3>3, Zenon DEF NameType, ServerNameValues
    <3>5. pc' = "setEnv" /\ UNCHANGED <<flags, env, caPool, savedEnv, world, envBefore>>
      BY <3>1, Zenon
    <3> QED
      BY <1>v, <1>1, <1>2, <3>4, <3>5 DEF CallVarsOK
  <2>3. CASE pc' = "panicked"
    <3>1. UNCHANGED <<flags, env, caPool, sniName, savedEnv, world, envBefore>>
      BY <1>7, <2>3 DEF DialAPIServer, UseCertificate, ReturnError
    <3> QED
      BY <1>v, <1>1, <1>2, <1>3, <2>3, <3>1 DEF CallVarsOK
  <2> QED
    BY <1>7, <2>1, <2>2, <2>3, Zenon DEF DialAPIServer, UseCertificate
<1>8. CASE SetEnv
  <2>1. /\ savedEnv' = env /\ pc' = "construct"
        /\ env' = [env EXCEPT ![TokenProxy] = TokenProxyURL, ![SNIName] = sniName,
                              ![CAFile] = CAFileVariable]
        /\ UNCHANGED <<flags, caPool, sniName, world, envBefore>> /\ pc = "setEnv"
    BY <1>8, Zenon DEF SetEnv
  <2>2. TokenProxyURL \in EnvValues
    <3>1. flags.url \in URLs \cup {""}
      BY Zenon DEF FlagsOK
    <3>2. TokenProxyURL = DefaultTokenProxyURL \/ TokenProxyURL \in URLs
      BY <3>1, Zenon DEF TokenProxyURL
    <3> QED
      BY <3>2, Zenon DEF EnvValues
  <2>3. sniName \in EnvValues
    BY <2>1, NameUsed, Zenon DEF EnvValues
  <2>4. CAFileVariable \in EnvValues
    BY Zenon DEF CAFileVariable, EnvValues
  <2>5. env' \in Envs
    BY <1>v, <2>1, <2>2, <2>3, <2>4, EnvsAre
  <2> QED
    BY <1>v, <1>1, <1>2, <1>3, <2>1, <2>5 DEF CallVarsOK
<1>9. CASE NewWorkloadIdentityCredential
  BY <1>v, <1>1, <1>2, <1>3, <1>9 DEF NewWorkloadIdentityCredential, CallVarsOK
<1>10. CASE RestoreEnv
  BY <1>v, <1>1, <1>2, <1>3, <1>10 DEF RestoreEnv, RestoredEnv, CallVarsOK
<1>11. CASE RotateCA
  <2>1. WorldOK'
    BY <1>11, Zenon DEF RotateCA, WorldOK
  <2>2. UNCHANGED <<flags, env, pc, caPool, sniName, savedEnv, envBefore>>
    BY <1>11, Zenon DEF RotateCA
  <2> QED
    BY <1>v, <1>1, <1>3, <2>1, <2>2 DEF CallVarsOK
<1>12. CASE APIServer
  <2>1. answers' \in BOOLEAN
    BY <1>12, Zenon DEF APIServer
  <2>2. WorldOK'
    BY <1>12, <2>1, Zenon DEF APIServer, WorldOK
  <2>3. UNCHANGED <<flags, env, pc, caPool, sniName, savedEnv, envBefore>>
    BY <1>12, Zenon DEF APIServer
  <2> QED
    BY <1>v, <1>1, <1>3, <2>2, <2>3 DEF CallVarsOK
<1>13. CASE UNCHANGED vars
  BY <1>v, <1>1, <1>2, <1>3, <1>13 DEF vars, world, CallVarsOK
<1> QED
  BY <1>5, <1>6, <1>7, <1>8, <1>9, <1>10, <1>11, <1>12, <1>13 DEF Next, CreateProxyTransport

\* Every variable keeps its type; in particular no environment variable is
\* ever set to a value that comes from nowhere, and none to an empty server
\* name.
THEOREM TypeCorrect == Spec => []TypeOK
  BY InitType, StepType, Invariance, PTL DEF Spec
=============================================================================
