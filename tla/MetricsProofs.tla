---------------------------- MODULE MetricsProofs ----------------------------
(***************************************************************************)
(* The race of NewStatsReporter with the reports of other RPCs is benign,  *)
(* for any number of RPCs, as long as every histogram can be made: since   *)
(* main makes the exporter first, all that is stored is of the exporter's  *)
(* kind, and an RPC stores before it loads.  A thread that could not make  *)
(* its histogram is on its way to the panic, so what it stores is seen by  *)
(* others only in a process that is about to end.                          *)
(***************************************************************************)
EXTENDS Metrics, TLAPS

Making == {"makeKeyvault", "makeGrpc"}
Storing == {"storeKeyvault", "storeGrpc"}
Loading == {"loadKeyvault", "loadGrpc"}
Recording == {"recordKeyvault", "recordGrpc"}

\* No thread has a meter of the stand-in.
ProviderInv ==
    /\ step > 1 => meterProvider = "sdk"
    /\ \A t \in Threads : at[t] # "idle" => step > 1
    /\ \A t \in Threads : at[t] \in Making \cup Storing => meter[t] = "sdk"

\* So nothing of the stand-in is made, stored or loaded.
NoStandIn ==
    /\ \A t \in Threads : at[t] \in Storing => made[t] # "global"
    /\ \A i \in Instruments, w \in Words : instrument[i][w] # "global"
    /\ \A t \in Threads, w \in Words : loaded[t][w] # "global"

\* A thread with an error gets to the panic and nowhere else.
FailingInv ==
    /\ \A t \in Threads : err[t] # "nil" => Failing(t)
    /\ \A t \in Threads : at[t] \in Storing => err[t] # "nil" \/ made[t] = "sdk"

BaseInv == ProviderInv /\ NoStandIn /\ FailingInv /\ lost = FALSE

\* Every histogram could be made so far.
Healthy == \A t \in Threads : err[t] = "nil"

\* The words of variable i that have been stored since the process started.
Stored(i) == {w \in Words : instrument[i][w] = "sdk"}

\* What a thread has stored stays, whoever stores over it.
StoredInv ==
    \A t \in Threads :
        /\ at[t] = "storeKeyvault" => Words \ left[t] \subseteq Stored("keyvaultRequest")
        /\ at[t] \in {"makeGrpc", "storeGrpc"} => Stored("keyvaultRequest") = Words
        /\ at[t] = "storeGrpc" => Words \ left[t] \subseteq Stored("grpcRequest")
        /\ at[t] \in {"handler"} \cup Loading \cup Recording =>
              Stored("keyvaultRequest") = Words /\ Stored("grpcRequest") = Words

\* So what it loads is whole.
LoadedInv ==
    \A r \in RPCs :
        /\ at[r] \in Loading => \A w \in Words \ left[r] : loaded[r][w] = "sdk"
        /\ at[r] \in Recording => \A w \in Words : loaded[r][w] = "sdk"

IndInv == BaseInv /\ (Healthy => StoredInv /\ LoadedInv)

LEMMA StepValues ==
    /\ Len(MainSteps) = 3
    /\ MainSteps[1] = "exporter" /\ MainSteps[2] = "provider" /\ MainSteps[3] = "serve"
  BY DEF MainSteps

LEMMA InitType == Init => TypeOK
<1> SUFFICES ASSUME Init PROVE TypeOK
  OBVIOUS
<1>1. lost \in BOOLEAN
  BY Zenon DEF Init
<1> QED
  BY <1>1, StepValues DEF Init, TypeOK, Nil, Providers, Words, Instruments, Phases

LEMMA RestartType ==
    ASSUME TypeOK, Restart
    PROVE  TypeOK'
  BY StepValues DEF Restart, TypeOK, Nil, Providers, Words, Instruments, Phases

LEMMA MainType ==
    ASSUME TypeOK, Main
    PROVE  TypeOK'
<1> USE StepValues DEF TypeOK
<1>1. CASE InitMetricsExporter
  BY <1>1, RestartType DEF InitMetricsExporter, MainAt, Providers, PrometheusProvider, reporterVars
<1>2. CASE NewProvider
  BY <1>2 DEF NewProvider, MainAt, Goto, Threads, Phases, reporterVars
<1>3. CASE Serve
  BY <1>3 DEF Serve, MainAt, reporterVars
<1> QED
  BY <1>1, <1>2, <1>3 DEF Main

LEMMA ReporterType ==
    ASSUME TypeOK, NEW t \in Threads, NewStatsReporter(t)
    PROVE  TypeOK'
<1>1. CASE GetMeterProvider(t)
  BY <1>1 DEF GetMeterProvider, Goto, TypeOK, Phases
<1>2. CASE Float64Histogram(t)
  <2>1. made' \in [Threads -> Providers \cup {"nil"}]
    BY <1>2 DEF Float64Histogram, TypeOK
  <2>2. err' \in [Threads -> {"nil", "error"}]
    BY <1>2 DEF Float64Histogram, TypeOK
  <2>3. left' \in [Threads -> SUBSET Words] /\ at' \in [Threads -> Phases]
    BY <1>2 DEF Float64Histogram, Goto, TypeOK, Phases
  <2> QED
    BY <1>2, <2>1, <2>2, <2>3 DEF Float64Histogram, TypeOK
<1>3. CASE Store(t)
  <2>1. PICK w \in left[t] : instrument' = [instrument EXCEPT ![Using(t)][w] = made[t]]
    BY <1>3 DEF Store
  <2>2. Using(t) \in Instruments /\ w \in Words /\ made[t] \in Providers \cup {"nil"}
    BY <2>1 DEF Using, Instruments, TypeOK
  <2>3. instrument' \in [Instruments -> [Words -> Providers \cup {"nil"}]]
    BY <2>1, <2>2 DEF TypeOK
  <2>4. left' \in [Threads -> SUBSET Words]
    BY <1>3 DEF Store, TypeOK
  <2>5. AfterCheck(t) \in Phases
    BY DEF AfterCheck, AfterStore, Phases
  <2>6. at' \in [Threads -> Phases]
    BY <1>3, <2>5 DEF Store, Goto, TypeOK
  <2> QED
    BY <1>3, <2>3, <2>4, <2>6 DEF Store, TypeOK, reporterVars
<1>4. CASE Panic(t)
  BY <1>4, RestartType DEF Panic
<1> QED
  BY <1>1, <1>2, <1>3, <1>4 DEF NewStatsReporter

LEMMA RpcType ==
    ASSUME TypeOK, NEW r \in RPCs,
           Begin(r) \/ Report(r) \/ Load(r) \/ Record(r) \/ RecordPanics(r)
    PROVE  TypeOK'
<1>0. r \in Threads
  BY DEF Threads
<1>1. CASE Begin(r)
  BY <1>0, <1>1 DEF Begin, Goto, TypeOK, Phases, reporterVars
<1>2. CASE Report(r)
  BY <1>0, <1>2 DEF Report, Goto, TypeOK, Phases, reporterVars
<1>3. CASE Load(r)
  <2>1. PICK w \in left[r] :
            /\ loaded' = [loaded EXCEPT ![r][w] = instrument[Using(r)][w]]
            /\ left' = [left EXCEPT ![r] = @ \ {w}]
    BY <1>3 DEF Load
  <2>2. Using(r) \in Instruments /\ w \in Words
    BY <1>0, <2>1 DEF Using, Instruments, TypeOK
  <2>3. loaded' \in [Threads -> [Words -> Providers \cup {"nil"}]]
    BY <1>0, <2>1, <2>2 DEF TypeOK
  <2>4. left' \in [Threads -> SUBSET Words]
    BY <1>0, <2>1 DEF TypeOK
  <2>5. at' \in [Threads -> Phases]
    BY <1>0, <1>3 DEF Load, Goto, TypeOK, Phases
  <2> QED
    BY <1>3, <2>3, <2>4, <2>5 DEF Load, TypeOK, reporterVars
<1>4. CASE Record(r)
  <2>1. loaded' \in [Threads -> [Words -> Providers \cup {"nil"}]]
    BY <1>0, <1>4 DEF Record, Nil, TypeOK
  <2>2. lost' \in BOOLEAN
    <3>1. lost' = (lost \/ (loaded[r]["data"] = "global" /\ meterProvider = "global"))
      BY <1>4 DEF Record
    <3> QED
      BY <3>1
  <2> QED
    BY <1>0, <1>4, <2>1, <2>2 DEF Record, Goto, TypeOK, Phases, reporterVars
<1>5. CASE RecordPanics(r)
  BY <1>5, RestartType DEF RecordPanics
<1> QED
  BY <1>1, <1>2, <1>3, <1>4, <1>5

\* The variables and every thread's position are well formed.
THEOREM TypeCorrect == Spec => []TypeOK
<1>1. TypeOK /\ [Next]_vars => TypeOK'
  <2>1. TypeOK /\ UNCHANGED vars => TypeOK'
    BY DEF TypeOK, vars, reporterVars
  <2> QED
    BY <2>1, MainType, ReporterType, RpcType DEF Next
<1> QED
  BY <1>1, InitType, PTL DEF Spec
-----------------------------------------------------------------------------
LEMMA InitInv == Init => IndInv
<1> SUFFICES ASSUME Init PROVE IndInv
  OBVIOUS
<1>1. \A t \in Threads : at[t] = "idle" /\ err[t] = "nil"
  BY DEF Init
<1>2. RPCs \subseteq Threads
  BY DEF Threads
<1>3. step = 1
  BY DEF Init
<1>4. NoStandIn
  BY <1>1 DEF Init, Nil, NoStandIn, Storing
<1>5. ProviderInv /\ FailingInv /\ StoredInv /\ LoadedInv
  BY <1>1, <1>2, <1>3
     DEF ProviderInv, FailingInv, StoredInv, LoadedInv, Making, Storing, Loading, Recording
<1>6. lost = FALSE
  BY DEF Init
<1> QED
  BY <1>4, <1>5, <1>6 DEF IndInv, BaseInv

LEMMA RestartInv ==
    ASSUME IndInv, Restart
    PROVE  IndInv'
<1>1. \A t \in Threads : at'[t] = "idle" /\ err'[t] = "nil"
  BY DEF Restart
<1>2. RPCs \subseteq Threads
  BY DEF Threads
<1>3. step' = 1
  BY DEF Restart
<1>4. NoStandIn'
  BY <1>1 DEF Restart, Nil, NoStandIn, Storing
<1>5. ProviderInv' /\ FailingInv' /\ StoredInv' /\ LoadedInv'
  BY <1>1, <1>2, <1>3
     DEF ProviderInv, FailingInv, StoredInv, LoadedInv, Making, Storing, Loading, Recording
<1>6. lost' = FALSE
  BY DEF Restart, IndInv, BaseInv
<1> QED
  BY <1>4, <1>5, <1>6 DEF IndInv, BaseInv

\* A step that changes no more than where a thread is, from a place where it
\* neither makes, stores nor loads to another such place.
LEMMA MovesOn ==
    ASSUME TypeOK, IndInv, NEW t \in Threads, NEW phase \in {"idle", "meter", "handler"},
           step' \in Nat, step' > 1, meterProvider' = "sdk",
           at' = [at EXCEPT ![t] = phase], at[t] \notin Storing \cup {"panic"},
           phase = "handler" => at[t] \in Recording,
           loaded' = loaded \/ loaded' = [loaded EXCEPT ![t] = Nil],
           UNCHANGED <<instrument, meter, made, err, left, lost>>
    PROVE  IndInv'
<1>1. ProviderInv'
  BY DEF IndInv, BaseInv, ProviderInv, Making, Storing, TypeOK
<1>2. NoStandIn'
  <2>1. \A q \in Threads, w \in Words : loaded'[q][w] # "global"
    BY DEF IndInv, BaseInv, NoStandIn, TypeOK, Nil
  <2> QED
    BY <2>1 DEF IndInv, BaseInv, NoStandIn, Storing, TypeOK
<1>3. FailingInv'
  BY DEF IndInv, BaseInv, FailingInv, Failing, Storing, TypeOK
<1>4. lost' = FALSE
  BY DEF IndInv, BaseInv
<1>5. ASSUME Healthy' PROVE StoredInv' /\ LoadedInv'
  <2>1. StoredInv /\ LoadedInv
    BY <1>5 DEF Healthy, IndInv
  <2>2. StoredInv'
    BY <2>1 DEF StoredInv, Stored, Loading, Recording, TypeOK
  <2>3. LoadedInv'
    BY <2>1 DEF LoadedInv, Loading, Recording, TypeOK, Threads
  <2> QED
    BY <2>2, <2>3
<1> QED
  BY <1>1, <1>2, <1>3, <1>4, <1>5 DEF IndInv, BaseInv

LEMMA MainInv ==
    ASSUME TypeOK, IndInv, Main
    PROVE  IndInv'
<1> USE StepValues DEF TypeOK
<1>0. "main" \in Threads
  BY DEF Threads
<1>1. CASE Restart
  BY <1>1, RestartInv
<1>2. CASE (InitMetricsExporter /\ ~Restart) \/ Serve
  <2>1. at["main"] = "idle" /\ at' = [at EXCEPT !["main"] = "idle"]
    BY <1>0, <1>2 DEF InitMetricsExporter, Serve, MainAt
  <2>2. step' \in Nat /\ step' > 1 /\ meterProvider' = "sdk"
    BY <1>2 DEF InitMetricsExporter, Serve, MainAt, PrometheusProvider,
                IndInv, BaseInv, ProviderInv
  <2>3. UNCHANGED <<instrument, meter, made, err, left, loaded, lost>>
    BY <1>2 DEF InitMetricsExporter, Serve, reporterVars
  <2> QED
    BY <1>0, <2>1, <2>2, <2>3, MovesOn DEF Storing
<1>3. CASE NewProvider
  <2>1. at["main"] = "idle" /\ at' = [at EXCEPT !["main"] = "meter"]
    BY <1>3 DEF NewProvider, MainAt, Goto
  <2>2. step' \in Nat /\ step' > 1 /\ meterProvider' = "sdk"
    BY <1>3 DEF NewProvider, MainAt, IndInv, BaseInv, ProviderInv
  <2>3. UNCHANGED <<instrument, meter, made, err, left, loaded, lost>>
    BY <1>3 DEF NewProvider, reporterVars
  <2> QED
    BY <1>0, <2>1, <2>2, <2>3, MovesOn DEF Storing
<1> QED
  BY <1>1, <1>2, <1>3 DEF Main

\* A meter that can make no histogram makes its thread one that fails.
LEMMA MakeInv ==
    ASSUME TypeOK, IndInv, NEW t \in Threads, GetMeterProvider(t) \/ Float64Histogram(t)
    PROVE  IndInv'
<1>1. PICK phase \in {"makeKeyvault"} \cup Storing :
          /\ at' = [at EXCEPT ![t] = phase]
          /\ phase = "makeKeyvault" => at[t] = "meter"
          /\ phase = "storeKeyvault" => at[t] = "makeKeyvault"
          /\ phase = "storeGrpc" => at[t] = "makeGrpc"
          /\ phase \in Storing => left' = [left EXCEPT ![t] = Words]
          /\ phase \notin Storing => UNCHANGED left
  BY DEF GetMeterProvider, Float64Histogram, Goto, Storing
<1>2. UNCHANGED <<step, meterProvider, instrument, loaded, lost>>
  BY DEF GetMeterProvider, Float64Histogram
<1>3. \A q \in Threads \ {t} : /\ at'[q] = at[q] /\ left'[q] = left[q]
                               /\ meter'[q] = meter[q] /\ made'[q] = made[q] /\ err'[q] = err[q]
  BY DEF GetMeterProvider, Float64Histogram, Goto, TypeOK
<1>4. at'[t] = phase /\ at[t] # "idle" /\ at[t] \notin Storing \cup {"panic"}
  BY <1>1 DEF TypeOK, Storing
<1>5. step > 1 /\ meter'[t] = "sdk" /\ err[t] = "nil"
  <2>1. step > 1 /\ meterProvider = "sdk" /\ err[t] = "nil"
    BY <1>4 DEF IndInv, BaseInv, ProviderInv, FailingInv, Failing, Storing
  <2>2. CASE GetMeterProvider(t)
    BY <2>1, <2>2 DEF GetMeterProvider, TypeOK
  <2>3. CASE Float64Histogram(t)
    BY <2>1, <2>3 DEF Float64Histogram, IndInv, BaseInv, ProviderInv, Making
  <2> QED
    BY <2>1, <2>2, <2>3
<1>6. /\ phase \in Storing => /\ made'[t] \in {"nil", "sdk"}
                              /\ err'[t] # "nil" \/ made'[t] = "sdk"
      /\ phase \notin Storing => err'[t] = "nil"
  <2>1. CASE GetMeterProvider(t)
    BY <1>4, <1>5, <2>1 DEF GetMeterProvider, Goto, Storing, TypeOK
  <2>2. CASE Float64Histogram(t)
    <3>1. meter[t] = "sdk"
      BY <1>5, <2>2 DEF Float64Histogram
    <3> QED
      BY <1>4, <2>2, <3>1 DEF Float64Histogram, Goto, Storing, TypeOK
  <2> QED
    BY <2>1, <2>2
<1>7. ProviderInv'
  BY <1>2, <1>3, <1>5 DEF IndInv, BaseInv, ProviderInv
<1>8. NoStandIn'
  BY <1>2, <1>3, <1>4, <1>6 DEF IndInv, BaseInv, NoStandIn
<1>9. FailingInv'
  <2>1. phase \in Storing => phase \in {"storeKeyvault", "storeGrpc", "panic"}
    BY DEF Storing
  <2> QED
    BY <1>3, <1>4, <1>6, <2>1 DEF IndInv, BaseInv, FailingInv, Failing
<1>10. ASSUME Healthy' PROVE StoredInv' /\ LoadedInv'
  <2>1. Healthy
    BY <1>3, <1>5, <1>10 DEF Healthy
  <2>2. StoredInv /\ LoadedInv
    BY <2>1 DEF IndInv
  <2>3. \A i \in Instruments : Stored(i)' = Stored(i)
    BY <1>2 DEF Stored
  <2>4. phase \in Storing => Words \ left'[t] = {}
    BY <1>1 DEF TypeOK
  <2>5. StoredInv'
    <3>1. ASSUME NEW q \in Threads \ {t}
          PROVE  /\ at'[q] = "storeKeyvault" =>
                        Words \ left'[q] \subseteq Stored("keyvaultRequest")'
                 /\ at'[q] \in {"makeGrpc", "storeGrpc"} => Stored("keyvaultRequest")' = Words
                 /\ at'[q] = "storeGrpc" => Words \ left'[q] \subseteq Stored("grpcRequest")'
                 /\ at'[q] \in {"handler"} \cup Loading \cup Recording =>
                        Stored("keyvaultRequest")' = Words /\ Stored("grpcRequest")' = Words
      BY <1>3, <2>2, <2>3 DEF StoredInv, Instruments
    <3>2. phase = "storeGrpc" => Stored("keyvaultRequest")' = Words
      BY <1>1, <2>2, <2>3 DEF StoredInv, Instruments
    <3> QED
      BY <1>4, <2>4, <3>1, <3>2 DEF StoredInv, Storing, Loading, Recording
  <2>6. LoadedInv'
    BY <1>2, <1>3, <1>4, <2>2 DEF LoadedInv, Threads, Storing, Loading, Recording
  <2> QED
    BY <2>5, <2>6
<1> QED
  BY <1>2, <1>7, <1>8, <1>9, <1>10 DEF IndInv, BaseInv

\* A thread stores what every other has stored or would, or it fails.
LEMMA StoreInv ==
    ASSUME TypeOK, IndInv, NEW t \in Threads, Store(t)
    PROVE  IndInv'
<1>1. PICK w \in left[t] :
          /\ instrument' = [instrument EXCEPT ![Using(t)][w] = made[t]]
          /\ left' = [left EXCEPT ![t] = @ \ {w}]
          /\ IF left[t] # {w} THEN UNCHANGED at ELSE Goto(t, AfterCheck(t))
  BY DEF Store
<1>2. /\ at[t] \in Storing /\ step > 1 /\ meter[t] = "sdk" /\ made[t] # "global"
      /\ UNCHANGED <<step, meterProvider, meter, made, err, loaded, lost>>
  BY DEF Store, Storing, IndInv, BaseInv, ProviderInv, NoStandIn, reporterVars
<1>3. PICK u \in Instruments : u = Using(t)
  BY DEF Using, Instruments
<1>4. \A q \in Threads \ {t} : at'[q] = at[q] /\ left'[q] = left[q]
  BY <1>1 DEF Goto, TypeOK
<1>5. /\ left[t] # {w} => at'[t] = at[t]
      /\ left[t] = {w} => at'[t] = AfterCheck(t)
      /\ left'[t] = left[t] \ {w} /\ w \in Words
  BY <1>1 DEF Goto, TypeOK
<1>6. AfterCheck(t) \in {"panic", "makeGrpc", "idle", "handler"}
  BY DEF AfterCheck, AfterStore
<1>7. \A i \in Instruments, x \in Words :
          instrument'[i][x] = IF i = u /\ x = w THEN made[t] ELSE instrument[i][x]
  <2>1. instrument \in [Instruments -> [Words -> Providers \cup {"nil"}]]
    BY DEF TypeOK
  <2> QED
    BY <1>1, <1>3, <1>5, <2>1
<1>8. ProviderInv'
  BY <1>2, <1>4, <1>5, <1>6 DEF IndInv, BaseInv, ProviderInv
<1>9. NoStandIn'
  <2>1. \A i \in Instruments, x \in Words : instrument'[i][x] # "global"
    BY <1>2, <1>7 DEF IndInv, BaseInv, NoStandIn
  <2> QED
    BY <1>2, <1>4, <2>1 DEF IndInv, BaseInv, NoStandIn
<1>10. FailingInv'
  <2>1. err[t] # "nil" => at'[t] \in {"storeKeyvault", "storeGrpc", "panic"}
    BY <1>2, <1>5 DEF AfterCheck, Storing
  <2>2. at'[t] \in Storing => at[t] \in Storing
    BY <1>2
  <2> QED
    BY <1>2, <1>4, <2>1, <2>2 DEF IndInv, BaseInv, FailingInv, Failing
<1>11. ASSUME Healthy' PROVE StoredInv' /\ LoadedInv'
  <2>1. Healthy
    BY <1>2, <1>11 DEF Healthy
  <2>2. StoredInv /\ LoadedInv
    BY <2>1 DEF IndInv
  <2>3. made[t] = "sdk"
    BY <1>2, <2>1 DEF Healthy, IndInv, BaseInv, FailingInv
  <2>4. /\ \A i \in Instruments : Stored(i) \subseteq Stored(i)' /\ Stored(i)' \subseteq Words
        /\ w \in Stored(u)'
    BY <1>5, <1>7, <2>3 DEF Stored
  <2>5. StoredInv'
    <3>1. ASSUME NEW q \in Threads \ {t}
          PROVE  /\ at'[q] = "storeKeyvault" =>
                        Words \ left'[q] \subseteq Stored("keyvaultRequest")'
                 /\ at'[q] \in {"makeGrpc", "storeGrpc"} => Stored("keyvaultRequest")' = Words
                 /\ at'[q] = "storeGrpc" => Words \ left'[q] \subseteq Stored("grpcRequest")'
                 /\ at'[q] \in {"handler"} \cup Loading \cup Recording =>
                        Stored("keyvaultRequest")' = Words /\ Stored("grpcRequest")' = Words
      BY <1>4, <2>2, <2>4 DEF StoredInv, Instruments
    <3>2. Words \ left'[t] \subseteq Stored(u)'
      <4>1. Words \ left[t] \subseteq Stored(u)
        BY <1>2, <1>3, <2>2 DEF StoredInv, Using, Storing
      <4> QED
        BY <1>5, <2>4, <4>1
    <3>3. CASE at[t] = "storeKeyvault"
      <4>1. u = "keyvaultRequest"
        BY <1>3, <3>3 DEF Using
      <4>2. CASE left[t] # {w}
        BY <1>5, <3>1, <3>2, <3>3, <4>1, <4>2 DEF StoredInv, Loading, Recording
      <4>3. CASE left[t] = {w}
        <5>1. at'[t] = "makeGrpc"
          BY <1>5, <2>1, <3>3, <4>3 DEF AfterCheck, AfterStore, Healthy
        <5>2. Stored("keyvaultRequest")' = Words
          BY <1>5, <2>4, <3>2, <4>1, <4>3
        <5> QED
          BY <3>1, <5>1, <5>2 DEF StoredInv, Loading, Recording
      <4> QED
        BY <4>2, <4>3
    <3>4. CASE at[t] = "storeGrpc"
      <4>1. u = "grpcRequest"
        BY <1>3, <3>4 DEF Using
      <4>2. Stored("keyvaultRequest")' = Words
        BY <2>2, <2>4, <3>4 DEF StoredInv, Instruments
      <4>3. CASE left[t] # {w}
        BY <1>5, <3>1, <3>2, <3>4, <4>1, <4>2, <4>3 DEF StoredInv, Loading, Recording
      <4>4. CASE left[t] = {w}
        <5>1. at'[t] \in {"idle", "handler"}
          BY <1>5, <2>1, <3>4, <4>4 DEF AfterCheck, AfterStore, Healthy
        <5>2. Stored("grpcRequest")' = Words
          BY <1>5, <2>4, <3>2, <4>1, <4>4
        <5> QED
          BY <3>1, <4>2, <5>1, <5>2 DEF StoredInv, Loading, Recording
      <4> QED
        BY <4>3, <4>4
    <3> QED
      BY <1>2, <3>3, <3>4 DEF Storing
  <2>6. LoadedInv'
    <3>1. at'[t] \notin Loading \cup Recording
      BY <1>2, <1>5, <1>6 DEF Storing, Loading, Recording
    <3> QED
      BY <1>2, <1>4, <2>2, <3>1 DEF LoadedInv, Threads
  <2> QED
    BY <2>5, <2>6
<1> QED
  BY <1>2, <1>8, <1>9, <1>10, <1>11 DEF IndInv, BaseInv

\* An RPC that reports has stored both variables itself, so what it loads of
\* them is of the exporter's kind.
LEMMA LoadInv ==
    ASSUME TypeOK, IndInv, NEW r \in RPCs, Report(r) \/ Load(r)
    PROVE  IndInv'
<1>0. r \in Threads
  BY DEF Threads
<1>1. /\ at[r] \in {"handler"} \cup Loading
      /\ UNCHANGED <<step, meterProvider, instrument, meter, made, err, lost>>
  BY DEF Report, Load, Loading, reporterVars
<1>2. \A q \in Threads \ {r} : at'[q] = at[q] /\ left'[q] = left[q] /\ loaded'[q] = loaded[q]
  BY DEF Report, Load, Goto, TypeOK
<1>3. at'[r] \in Loading \cup Recording
  BY <1>0 DEF Report, Load, Goto, Loading, Recording, TypeOK
<1>4. Using(r) \in Instruments
  BY DEF Using, Instruments
<1>5. \A x \in Words : loaded'[r][x] = loaded[r][x] \/ loaded'[r][x] = instrument[Using(r)][x]
  <2>1. CASE Report(r)
    BY <2>1 DEF Report
  <2>2. CASE Load(r)
    <3>1. PICK w \in left[r] : loaded' = [loaded EXCEPT ![r][w] = instrument[Using(r)][w]]
      BY <2>2 DEF Load
    <3> QED
      BY <1>0, <3>1 DEF TypeOK
  <2> QED
    BY <2>1, <2>2
<1>6. ProviderInv'
  BY <1>0, <1>1, <1>2, <1>3
     DEF IndInv, BaseInv, ProviderInv, Making, Storing, Loading, Recording
<1>7. NoStandIn'
  <2>1. \A q \in Threads, w \in Words : loaded'[q][w] # "global"
    BY <1>0, <1>2, <1>4, <1>5 DEF IndInv, BaseInv, NoStandIn
  <2> QED
    BY <1>0, <1>1, <1>2, <1>3, <2>1
       DEF IndInv, BaseInv, NoStandIn, Storing, Loading, Recording
<1>8. FailingInv'
  BY <1>0, <1>1, <1>2, <1>3
     DEF IndInv, BaseInv, FailingInv, Failing, Storing, Loading, Recording
<1>9. ASSUME Healthy' PROVE StoredInv' /\ LoadedInv'
  <2>1. StoredInv /\ LoadedInv
    BY <1>1, <1>9 DEF Healthy, IndInv
  <2>2. StoredInv'
    BY <1>0, <1>1, <1>2, <1>3, <2>1 DEF StoredInv, Stored, Loading, Recording
  <2>3. CASE Report(r)
    <3>1. left'[r] = Words /\ at'[r] \in Loading
      BY <1>0, <2>3 DEF Report, Goto, Loading, TypeOK
    <3> QED
      BY <1>2, <2>1, <2>2, <3>1 DEF LoadedInv, Threads, Loading, Recording
  <2>4. CASE Load(r)
    <3>1. PICK w \in left[r] :
              /\ loaded' = [loaded EXCEPT ![r][w] = instrument[Using(r)][w]]
              /\ left' = [left EXCEPT ![r] = @ \ {w}]
              /\ IF left[r] # {w} THEN UNCHANGED at
                 ELSE Goto(r, IF at[r] = "loadKeyvault" THEN "recordKeyvault" ELSE "recordGrpc")
      BY <2>4 DEF Load
    <3>2. at[r] \in Loading /\ w \in Words
      BY <1>0, <2>4, <3>1 DEF Load, Loading, TypeOK
    <3>3. instrument[Using(r)][w] = "sdk"
      BY <1>0, <2>1, <3>2 DEF StoredInv, Stored, Using, Loading
    <3>4. IF left[r] # {w} THEN at'[r] = at[r] ELSE at'[r] \in Recording
      BY <1>0, <3>1 DEF Goto, Recording, TypeOK
    <3>5. \A x \in Words \ left[r] : loaded[r][x] = "sdk"
      BY <2>1, <3>2 DEF LoadedInv
    <3>6. \A x \in Words : loaded'[r][x] = IF x = w THEN "sdk" ELSE loaded[r][x]
      BY <1>0, <3>1, <3>2, <3>3 DEF TypeOK
    <3>7. left'[r] = left[r] \ {w}
      BY <1>0, <3>1 DEF TypeOK
    <3>8. \A x \in Words \ left'[r] : loaded'[r][x] = "sdk"
      BY <3>5, <3>6, <3>7
    <3>9. left[r] = {w} => \A x \in Words : loaded'[r][x] = "sdk"
      BY <3>7, <3>8
    <3> QED
      BY <1>2, <2>1, <2>2, <3>2, <3>4, <3>8, <3>9 DEF LoadedInv, Threads, Loading, Recording
  <2> QED
    BY <2>3, <2>4
<1> QED
  BY <1>1, <1>6, <1>7, <1>8, <1>9 DEF IndInv, BaseInv

LEMMA RpcInv ==
    ASSUME TypeOK, IndInv, NEW r \in RPCs,
           Begin(r) \/ Report(r) \/ Load(r) \/ Record(r) \/ RecordPanics(r)
    PROVE  IndInv'
<1>0. r \in Threads
  BY DEF Threads
<1>1. CASE Begin(r)
  <2>1. at[r] = "idle" /\ at' = [at EXCEPT ![r] = "meter"]
        /\ UNCHANGED <<step, meterProvider, instrument, meter, made, err, left, loaded, lost>>
    BY <1>1 DEF Begin, Goto, reporterVars
  <2>2. step' \in Nat /\ step' > 1
    BY <1>1, <2>1 DEF Begin, Serving, TypeOK
  <2>3. meterProvider' = "sdk"
    BY <2>1, <2>2 DEF IndInv, BaseInv, ProviderInv
  <2> QED
    BY <1>0, <2>1, <2>2, <2>3, MovesOn DEF Storing
<1>2. CASE Report(r) \/ Load(r)
  BY <1>2, LoadInv
<1>3. CASE Record(r)
  <2>1. PICK phase \in {"handler", "idle"} : at' = [at EXCEPT ![r] = phase]
    BY <1>3 DEF Record, Goto
  <2>2. /\ at[r] \in Recording /\ loaded' = [loaded EXCEPT ![r] = Nil]
        /\ UNCHANGED <<step, meterProvider, instrument, meter, made, err, left>>
    BY <1>3 DEF Record, Recording, reporterVars
  <2>3. loaded[r]["data"] # "global" /\ lost = FALSE
    BY <1>0 DEF IndInv, BaseInv, NoStandIn, Words
  <2>4. lost' = lost
    BY <1>3, <2>3 DEF Record
  <2>5. at[r] # "idle" /\ at[r] \notin Storing \cup {"panic"}
    BY <2>2 DEF Storing, Recording
  <2>6. step' \in Nat /\ step' > 1 /\ meterProvider' = "sdk"
    BY <1>0, <2>2, <2>5 DEF IndInv, BaseInv, ProviderInv, TypeOK
  <2> QED
    BY <1>0, <2>1, <2>2, <2>4, <2>5, <2>6, MovesOn
<1>4. CASE RecordPanics(r)
  BY <1>4, RestartInv DEF RecordPanics
<1> QED
  BY <1>1, <1>2, <1>3, <1>4

LEMMA Invariance == Spec => []IndInv
<1>1. TypeOK /\ IndInv /\ [Next]_vars => IndInv'
  <2>1. IndInv /\ UNCHANGED vars => IndInv'
    BY DEF IndInv, BaseInv, ProviderInv, NoStandIn, FailingInv, Failing, Healthy,
           StoredInv, Stored, LoadedInv, vars, reporterVars
  <2>2. ASSUME TypeOK, IndInv, NEW t \in Threads, NewStatsReporter(t) PROVE IndInv'
    BY <2>2, MakeInv, StoreInv, RestartInv DEF NewStatsReporter, Panic
  <2> QED
    BY <2>1, <2>2, MainInv, RpcInv DEF Next
<1> QED
  BY <1>1, InitInv, TypeCorrect, PTL DEF Spec

\* No mixture of one RPC's stores with another's loads gives Record a nil or a
\* torn instrument, unless a thread has failed to make its histogram, stores
\* what it got instead and is about to panic.
THEOREM RaceIsBenign == Spec => []WholeInstrument
<1>1. ASSUME IndInv PROVE WholeInstrument
  <2>1. CASE Healthy
    <3>1. LoadedInv
      BY <1>1, <2>1 DEF IndInv
    <3> QED
      BY <3>1 DEF LoadedInv, Recording, Words, Whole, WholeInstrument
  <2>2. CASE ~Healthy
    <3>1. PICK t \in Threads : Failing(t)
      BY <1>1, <2>2 DEF Healthy, IndInv, BaseInv, FailingInv
    <3> QED
      BY <3>1 DEF WholeInstrument
  <2> QED
    BY <2>1, <2>2
<1> QED
  BY <1>1, Invariance, PTL

\* Since main makes the exporter before any measurement, none is lost.
THEOREM AllMeasured == Spec => []NothingLost
<1>1. IndInv => NothingLost
  BY DEF IndInv, BaseInv, NothingLost
<1> QED
  BY <1>1, Invariance, PTL
=============================================================================
