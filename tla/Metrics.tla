------------------------------- MODULE Metrics -------------------------------
(***************************************************************************)
(* The measurements of RPCs and of requests to Key Vault.  Every RPC makes *)
(* its own reporter, and each reporter assigns the same two package        *)
(* variables anew while other RPCs use them.  No lock guards them: a Go    *)
(* interface is two words, its type and its data, that are stored and      *)
(* loaded one at a time in whatever order the compiler chose.  A histogram *)
(* that cannot be made is stored all the same, before the error is looked  *)
(* at and the process panics.                                              *)
(***************************************************************************)
EXTENDS Naturals, Sequences

CONSTANT RPCs       \* the RPCs the server handles at a time

ASSUME MetricsAssumption == RPCs # {} /\ "main" \notin RPCs

Threads == RPCs \cup {"main"}
Instruments == {"keyvaultRequest", "grpcRequest"}
Words == {"type", "data"}

\* What makes a meter: OpenTelemetry's stand-in, which only passes on what it
\* gets once there is another, or the one of the Prometheus exporter.
Providers == {"global", "sdk"}

VARIABLES
    step,           \* how far main is
    meterProvider,  \* OpenTelemetry's
    instrument,     \* the two package variables, word by word
    at,             \* where each thread is
    meter,          \* who made the meter of its reporter
    made,           \* the histogram it is to store
    err,            \* the error that came with it, or nil
    left,           \* the words it has yet to store, or to load
    loaded,         \* the words it has loaded
    lost            \* aux: whether a measurement has gone nowhere

reporterVars == <<meter, made, err>>
vars == <<step, meterProvider, instrument, at, reporterVars, left, loaded, lost>>

\* Mutant: the exporter comes once the server is up.
ExporterLast == <<"provider", "serve", "exporter">>

\* What main does, in this order.
MainSteps == <<"exporter", "provider", "serve">>

Nil == [w \in Words |-> "nil"]

Init ==
    /\ step = 1
    /\ meterProvider = "global"
    /\ instrument = [i \in Instruments |-> Nil]
    /\ at = [t \in Threads |-> "idle"]
    /\ meter = [t \in Threads |-> "nil"]
    /\ made = [t \in Threads |-> "nil"]
    /\ err = [t \in Threads |-> "nil"]
    /\ left = [t \in Threads |-> {}]
    /\ loaded = [t \in Threads |-> Nil]
    /\ lost = FALSE

\* os.Exit or a panic, after which the kubelet starts the process again.
Restart ==
    /\ step' = 1
    /\ meterProvider' = "global"
    /\ instrument' = [i \in Instruments |-> Nil]
    /\ at' = [t \in Threads |-> "idle"]
    /\ meter' = [t \in Threads |-> "nil"]
    /\ made' = [t \in Threads |-> "nil"]
    /\ err' = [t \in Threads |-> "nil"]
    /\ left' = [t \in Threads |-> {}]
    /\ loaded' = [t \in Threads |-> Nil]
    /\ UNCHANGED lost

Goto(t, phase) == at' = [at EXCEPT ![t] = phase]

\* Whether main has started its Serve goroutine.
Serving == \E i \in 1..(step - 1) : MainSteps[i] = "serve"
-----------------------------------------------------------------------------
\* main does its next step; none is left when it waits for a signal.
MainAt(s) == step <= Len(MainSteps) /\ MainSteps[step] = s /\ at["main"] = "idle"

\* Mutant: the meter provider is made without the exporter as its reader.
ProviderWithoutReader == "noReader"

\* What initPrometheusExporter gives to SetMeterProvider.
PrometheusProvider == "sdk"

\* An unknown backend or an exporter that cannot be made ends main.
InitMetricsExporter ==
    /\ MainAt("exporter")
    /\ \/ /\ meterProvider' = PrometheusProvider
          /\ step' = step + 1
          /\ UNCHANGED <<instrument, at, reporterVars, left, loaded, lost>>
       \/ Restart

\* NewProvider makes a reporter; main goes on when it has.
NewProvider ==
    /\ MainAt("provider")
    /\ Goto("main", "meter")
    /\ step' = step + 1
    /\ UNCHANGED <<meterProvider, instrument, reporterVars, left, loaded, lost>>

Serve ==
    /\ MainAt("serve")
    /\ step' = step + 1
    /\ UNCHANGED <<meterProvider, instrument, at, reporterVars, left, loaded, lost>>

\* LogInterceptor begins with a reporter of the RPC's own.
Begin(r) ==
    /\ Serving /\ at[r] = "idle"
    /\ Goto(r, "meter")
    /\ UNCHANGED <<step, meterProvider, instrument, reporterVars, left, loaded, lost>>
-----------------------------------------------------------------------------
\* NewStatsReporter, from here to the second of its assignments.
GetMeterProvider(t) ==
    /\ at[t] = "meter"
    /\ meter' = [meter EXCEPT ![t] = meterProvider]
    /\ Goto(t, "makeKeyvault")
    /\ UNCHANGED <<step, meterProvider, instrument, made, err, left, loaded, lost>>

\* The meter makes a histogram of its maker's, or there is an error and what
\* comes with it is one that can be used, or nil.
Float64Histogram(t) ==
    /\ at[t] \in {"makeKeyvault", "makeGrpc"}
    /\ \/ made' = [made EXCEPT ![t] = meter[t]] /\ err' = [err EXCEPT ![t] = "nil"]
       \/ /\ \E value \in {"nil", meter[t]} : made' = [made EXCEPT ![t] = value]
          /\ err' = [err EXCEPT ![t] = "error"]
    /\ left' = [left EXCEPT ![t] = Words]
    /\ Goto(t, IF at[t] = "makeKeyvault" THEN "storeKeyvault" ELSE "storeGrpc")
    /\ UNCHANGED <<step, meterProvider, instrument, meter, loaded, lost>>

\* The variable a thread stores to or loads from.
Using(t) ==
    IF at[t] \in {"storeKeyvault", "loadKeyvault", "recordKeyvault"}
    THEN "keyvaultRequest" ELSE "grpcRequest"

\* Where NewStatsReporter goes on once a variable has its histogram.
AfterStore(t) ==
    IF at[t] = "storeKeyvault" THEN "makeGrpc" ELSE IF t = "main" THEN "idle" ELSE "handler"

\* Mutant: the error is not looked at.
ErrorIgnored(t) == AfterStore(t)

AfterCheck(t) == IF err[t] # "nil" THEN "panic" ELSE AfterStore(t)

\* The assignment to the package variable, and then the check of the error.
Store(t) ==
    /\ at[t] \in {"storeKeyvault", "storeGrpc"}
    /\ \E w \in left[t] :
          /\ instrument' = [instrument EXCEPT ![Using(t)][w] = made[t]]
          /\ left' = [left EXCEPT ![t] = @ \ {w}]
          /\ IF left[t] # {w} THEN UNCHANGED at ELSE Goto(t, AfterCheck(t))
    /\ UNCHANGED <<step, meterProvider, reporterVars, loaded, lost>>

\* Until then other RPCs go on, with what the variable holds now.
Panic(t) == at[t] = "panic" /\ Restart
-----------------------------------------------------------------------------
\* The handler asks Key Vault for something, and again, or it has ended.
Report(r) ==
    /\ at[r] = "handler"
    /\ \E phase \in {"loadKeyvault", "loadGrpc"} : Goto(r, phase)
    /\ left' = [left EXCEPT ![r] = Words]
    /\ UNCHANGED <<step, meterProvider, instrument, reporterVars, loaded, lost>>

Load(r) ==
    /\ at[r] \in {"loadKeyvault", "loadGrpc"}
    /\ \E w \in left[r] :
          /\ loaded' = [loaded EXCEPT ![r][w] = instrument[Using(r)][w]]
          /\ left' = [left EXCEPT ![r] = @ \ {w}]
          /\ IF left[r] # {w} THEN UNCHANGED at
             ELSE Goto(r, IF at[r] = "loadKeyvault" THEN "recordKeyvault" ELSE "recordGrpc")
    /\ UNCHANGED <<step, meterProvider, instrument, reporterVars, lost>>

\* An interface value that is not nil and has the data of its type.
Whole(value) == value["type"] = value["data"] /\ value["data"] # "nil"

\* The call of the type word's Record with the data word; on nil it panics.
Record(r) ==
    /\ at[r] \in {"recordKeyvault", "recordGrpc"} /\ Whole(loaded[r])
    /\ lost' = (lost \/ (loaded[r]["data"] = "global" /\ meterProvider = "global"))
    /\ loaded' = [loaded EXCEPT ![r] = Nil]
    /\ Goto(r, IF at[r] = "recordKeyvault" THEN "handler" ELSE "idle")
    /\ UNCHANGED <<step, meterProvider, instrument, reporterVars, left>>

RecordPanics(r) ==
    /\ at[r] \in {"recordKeyvault", "recordGrpc"} /\ ~Whole(loaded[r])
    /\ Restart

NewStatsReporter(t) == GetMeterProvider(t) \/ Float64Histogram(t) \/ Store(t) \/ Panic(t)

Main == InitMetricsExporter \/ NewProvider \/ Serve

Next ==
    \/ Main
    \/ \E t \in Threads : NewStatsReporter(t)
    \/ \E r \in RPCs : Begin(r) \/ Report(r) \/ Load(r) \/ Record(r) \/ RecordPanics(r)

Spec == Init /\ [][Next]_vars
-----------------------------------------------------------------------------
Phases == {"idle", "meter", "makeKeyvault", "storeKeyvault", "makeGrpc", "storeGrpc", "panic",
           "handler", "loadKeyvault", "loadGrpc", "recordKeyvault", "recordGrpc"}

TypeOK ==
    /\ step \in 1..(Len(MainSteps) + 1)
    /\ meterProvider \in Providers
    /\ instrument \in [Instruments -> [Words -> Providers \cup {"nil"}]]
    /\ at \in [Threads -> Phases]
    /\ meter \in [Threads -> Providers \cup {"nil"}]
    /\ made \in [Threads -> Providers \cup {"nil"}]
    /\ err \in [Threads -> {"nil", "error"}]
    /\ left \in [Threads -> SUBSET Words]
    /\ loaded \in [Threads -> [Words -> Providers \cup {"nil"}]]
    /\ lost \in BOOLEAN

\* Thread t has failed to make a histogram and is about to panic.
Failing(t) == err[t] # "nil" /\ at[t] \in {"storeKeyvault", "storeGrpc", "panic"}

\* However the stores of one RPC's NewStatsReporter mix with the loads of
\* another's report, Record is called on a whole instrument: neither on nil nor
\* on the data of one type with the method of another.  The one exception is a
\* process in which a histogram could not be made: between the assignment and
\* the panic that ends it, another RPC may be the first to panic.
WholeInstrument ==
    \A r \in RPCs : at[r] \in {"recordKeyvault", "recordGrpc"} =>
        Whole(loaded[r]) \/ \E t \in Threads : Failing(t)

\* "initialize metrics exporter before creating measurements" (main): every
\* measurement gets to the exporter.
NothingLost == ~lost
=============================================================================
