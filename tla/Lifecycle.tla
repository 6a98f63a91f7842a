------------------------------ MODULE Lifecycle ------------------------------
(***************************************************************************)
(* The provider's process on a node, from main to its exit, with the       *)
(* goroutines main starts, the socket it shares with the CSI driver, the   *)
(* health check and the kubelet that restarts it.                          *)
(*                                                                         *)
(* A process slot is the container of one pod of the DaemonSet.  The       *)
(* socket is a file on the node that outlives a process, and the health    *)
(* port is the node's (the pod uses the host's network), so that two       *)
(* processes meet on both while one pod replaces another.                  *)
(***************************************************************************)
EXTENDS Naturals, FiniteSets

CONSTANTS
    Procs,       \* process slots, one per pod
    Mounts,      \* RPCs of the CSI driver
    Endpoints,   \* what the flags may say
    MaxFaults    \* bound: kills, failed system calls and spurious timeouts

ASSUME LifecycleAssumption ==
    /\ Procs # {} /\ Procs \cap {"free", "nobody"} = {}
    /\ Endpoints \subseteq {"unix", "UNIX", "tcp", "invalid"}
    /\ MaxFaults \in Nat

VARIABLES
    endpoint,    \* the scheme of --endpoint, "invalid" for any flag main refuses
    pc,          \* where main is
    signalChan,  \* whether a signal waits in its buffer of one
    transport,   \* auth's proxyTransport
    umask,
    listener,
    serve,       \* the goroutine of grpc.Server.Serve
    health,      \* the goroutine of HealthZ.Serve
    socket,      \* the file, or for TCP the address, that listeners bind
    port,        \* who holds the health port
    rpc,         \* the driver's Mount calls
    peer,        \* the process each of them is connected to
    probe,       \* the kubelet's liveness probe of each container
    pod,         \* the pod the DaemonSet wants on the node
    retired,     \* the ones it has replaced
    faults,
    overlapped   \* aux: whether a pod has started before another had ended

mainVars == <<pc, signalChan, transport, umask>>
serverVars == <<listener, serve, health>>
nodeVars == <<socket, port>>
clientVars == <<rpc, peer, probe>>
kubeVars == <<pod, retired, faults, overlapped>>
vars == <<endpoint, mainVars, serverVars, nodeVars, clientVars, kubeVars>>

Phases == {"down", "transport", "flags", "remove", "umask", "listen", "restore", "new",
           "goHealth", "wait", "stop", "drain"}

NoSocket == [owner |-> "nobody", mode |-> "none"]
NoProbe == [stage |-> "none", by |-> "nobody", to |-> "nobody"]

TypeOK ==
    /\ endpoint \in Endpoints
    /\ pc \in [Procs -> Phases]
    /\ signalChan \in [Procs -> BOOLEAN]
    /\ transport \in [Procs -> {"unset", "set"}]
    /\ umask \in [Procs -> {"inherited", "0077"}]
    /\ listener \in [Procs -> {"none", "open", "closed"}]
    /\ serve \in [Procs -> {"none", "started", "accepting", "returned"}]
    /\ health \in [Procs -> {"none", "started", "bound", "unbound"}]
    /\ socket \in [owner : Procs \cup {"nobody"}, mode : {"none", "any", "inherited", "0077"}]
    /\ port \in Procs \cup {"free"}
    /\ rpc \in [Mounts -> {"idle", "queued", "handling", "answered", "failed"}]
    /\ peer \in [Mounts -> Procs \cup {"nobody"}]
    /\ probe \in [Procs -> [stage : {"none", "http", "rpc"}, by : Procs \cup {"nobody"},
                            to : Procs \cup {"nobody"}]]
    /\ pod \in Procs /\ retired \subseteq Procs
    /\ faults \in 0..MaxFaults
    /\ overlapped \in BOOLEAN

Init ==
    /\ endpoint \in Endpoints
    /\ pc = [p \in Procs |-> "down"]
    /\ signalChan = [p \in Procs |-> FALSE]
    /\ transport = [p \in Procs |-> "unset"]
    /\ umask = [p \in Procs |-> "inherited"]
    /\ listener = [p \in Procs |-> "none"]
    /\ serve = [p \in Procs |-> "none"]
    /\ health = [p \in Procs |-> "none"]
    /\ socket = NoSocket
    /\ port = "free"
    /\ rpc = [m \in Mounts |-> "idle"]
    /\ peer = [m \in Mounts |-> "nobody"]
    /\ probe = [p \in Procs |-> NoProbe]
    /\ pod \in Procs /\ retired = {}
    /\ faults = 0
    /\ overlapped = FALSE

Fault == faults < MaxFaults /\ faults' = faults + 1
-----------------------------------------------------------------------------
(***************************************************************************)
(* The end of a process, for whatever reason: its goroutines, its memory   *)
(* and its connections are gone.  A Unix socket's file stays.              *)
(***************************************************************************)

\* A probe by way of p has its connection reset.
Cut(p) ==
    [q \in Procs |-> IF p \in {probe[q].by, probe[q].to}
                     THEN [probe[q] EXCEPT !.stage = "rpc", !.to = "nobody"] ELSE probe[q]]

Exit(p) ==
    /\ pc' = [pc EXCEPT ![p] = "down"]
    /\ signalChan' = [signalChan EXCEPT ![p] = FALSE]
    /\ transport' = [transport EXCEPT ![p] = "unset"]
    /\ umask' = [umask EXCEPT ![p] = "inherited"]
    /\ listener' = [listener EXCEPT ![p] = "none"]
    /\ serve' = [serve EXCEPT ![p] = "none"]
    /\ health' = [health EXCEPT ![p] = "none"]
    /\ socket' = IF endpoint = "tcp" /\ socket.owner = p THEN NoSocket ELSE socket
    /\ port' = IF port = p THEN "free" ELSE port
    /\ rpc' = [m \in Mounts |->
                 IF peer[m] = p /\ rpc[m] \in {"queued", "handling"} THEN "failed" ELSE rpc[m]]
    /\ probe' = [Cut(p) EXCEPT ![p] = NoProbe]
    /\ UNCHANGED <<endpoint, peer, pod, retired, overlapped>>

\* os.Exit(1) on an error of main.
Fatal(p) == Exit(p) /\ UNCHANGED faults

\* The node takes the process away: out of memory, the end of its grace period.
Kill(p) == pc[p] # "down" /\ Fault /\ Exit(p)
-----------------------------------------------------------------------------
(***************************************************************************)
(* main.                                                                   *)
(***************************************************************************)

Goto(p, phase) == pc' = [pc EXCEPT ![p] = phase]

\* The kubelet starts the pod's container; main begins with signal.Notify.
Start(p) ==
    /\ p = pod /\ pc[p] = "down"
    /\ Goto(p, "transport")
    /\ overlapped' = (overlapped \/ \E q \in Procs : pc[q] # "down")
    /\ UNCHANGED <<endpoint, signalChan, transport, umask, serverVars, nodeVars, clientVars, pod, retired,
                   faults>>

\* CreateProxyTransport's transport or its error: SetProxyTransport keeps either.
\* If it panics (ProxyTransport) the process ends, which is a case of Kill.
SetProxyTransport(p) ==
    /\ pc[p] = "transport"
    /\ transport' = [transport EXCEPT ![p] = "set"]
    /\ Goto(p, "flags")
    /\ UNCHANGED <<endpoint, signalChan, umask, serverVars, nodeVars, clientVars, kubeVars>>

\* The cloud name, the metrics backend and exporter, and ParseEndpoint, which
\* ignores the scheme's case; main does not.
CheckFlags(p) ==
    /\ pc[p] = "flags"
    /\ \/ /\ endpoint # "invalid"
          /\ Goto(p, IF endpoint = "unix" THEN "remove" ELSE "umask")
          /\ UNCHANGED <<endpoint, signalChan, transport, umask, serverVars, nodeVars, clientVars, kubeVars>>
       \/ endpoint = "invalid" /\ Fatal(p)
       \/ Fault /\ Exit(p)

\* Mutant: the socket of an earlier process stays.
KeptSocket == socket

\* os.Remove takes away whatever is there.
RemovedSocket == NoSocket

RemoveSocket(p) ==
    /\ pc[p] = "remove"
    /\ \/ /\ socket' = RemovedSocket
          /\ Goto(p, "umask")
          /\ UNCHANGED <<endpoint, signalChan, transport, umask, serverVars, port, clientVars, kubeVars>>
       \/ Fault /\ Exit(p)

Umask0077(p) ==
    /\ pc[p] = "umask"
    /\ umask' = [umask EXCEPT ![p] = "0077"]
    /\ Goto(p, "listen")
    /\ UNCHANGED <<endpoint, signalChan, transport, serverVars, nodeVars, clientVars, kubeVars>>

\* Mutant: the mask is written in decimal.
ModeDecimalMask(p) == [owner |-> p, mode |-> "0115"]

\* Mutant: the umask is put back before the socket exists.
ModeAfterRestore(p) == [owner |-> p, mode |-> "inherited"]

\* What net.Listen creates: a Unix socket has what the umask leaves of its mode,
\* and a TCP address is open to anybody.
NewSocket(p) == [owner |-> p, mode |-> IF endpoint = "tcp" THEN "any" ELSE umask[p]]

Listen(p) ==
    /\ pc[p] = "listen"
    /\ \/ /\ socket = NoSocket /\ endpoint # "UNIX"
          /\ socket' = NewSocket(p)
          /\ listener' = [listener EXCEPT ![p] = "open"]
          /\ Goto(p, "restore")
          /\ UNCHANGED <<endpoint, signalChan, transport, umask, serve, health, port, clientVars, kubeVars>>
       \/ (socket # NoSocket \/ endpoint = "UNIX") /\ Fatal(p)
       \/ Fault /\ Exit(p)

\* Mutant: the old umask is lost.
RestoreUmaskForgotten(p) ==
    /\ pc[p] = "restore"
    /\ Goto(p, "new")
    /\ UNCHANGED <<endpoint, signalChan, transport, umask, serverVars, nodeVars, clientVars, kubeVars>>

\* Mutant: the stale socket is removed after net.Listen.
RestoreUmaskAndRemove(p) ==
    /\ pc[p] = "restore"
    /\ umask' = [umask EXCEPT ![p] = "inherited"]
    /\ socket' = NoSocket
    /\ Goto(p, "new")
    /\ UNCHANGED <<endpoint, signalChan, transport, serverVars, port, clientVars, kubeVars>>

RestoreUmask(p) ==
    /\ pc[p] = "restore"
    /\ umask' = [umask EXCEPT ![p] = "inherited"]
    /\ Goto(p, "new")
    /\ UNCHANGED <<endpoint, signalChan, transport, serverVars, nodeVars, clientVars, kubeVars>>

\* The server and its services, and go s.Serve.
GoServe(p) ==
    /\ pc[p] = "new"
    /\ serve' = [serve EXCEPT ![p] = "started"]
    /\ Goto(p, "goHealth")
    /\ UNCHANGED <<endpoint, signalChan, transport, umask, listener, health, nodeVars, clientVars, kubeVars>>

GoHealth(p) ==
    /\ pc[p] = "goHealth"
    /\ health' = [health EXCEPT ![p] = "started"]
    /\ Goto(p, "wait")
    /\ UNCHANGED <<endpoint, signalChan, transport, umask, listener, serve, nodeVars, clientVars, kubeVars>>

\* Mutant: main waits for the health server first.
SignalOnceHealthy(p) == signalChan[p] /\ health[p] = "bound"

SignalReceived(p) == signalChan[p]

ReceiveSignal(p) ==
    /\ pc[p] = "wait" /\ SignalReceived(p)
    /\ signalChan' = [signalChan EXCEPT ![p] = FALSE]
    /\ Goto(p, "stop")
    /\ UNCHANGED <<endpoint, transport, umask, serverVars, nodeVars, clientVars, kubeVars>>

\* Closing p's listener unlinks the path, whoever's socket is there by now, and
\* resets the connections that nobody has accepted.
CloseListener(p) ==
    /\ listener' = [listener EXCEPT ![p] = "closed"]
    /\ serve' = [serve EXCEPT ![p] = "returned"]
    /\ socket' = IF endpoint = "unix" \/ socket.owner = p THEN NoSocket ELSE socket
    /\ rpc' = [m \in Mounts |-> IF peer[m] = p /\ rpc[m] = "queued" THEN "failed" ELSE rpc[m]]
    /\ probe' = [q \in Procs |-> IF probe[q].to = p THEN [probe[q] EXCEPT !.to = "nobody"]
                                ELSE probe[q]]

\* GracefulStop closes the listeners that Serve has been given.
GracefulStop(p) ==
    /\ pc[p] = "stop"
    /\ Goto(p, "drain")
    /\ \/ serve[p] = "accepting" /\ CloseListener(p)
       \/ serve[p] = "started" /\ UNCHANGED <<listener, serve, socket, rpc, probe>>
    /\ UNCHANGED <<endpoint, signalChan, transport, umask, health, port, peer, kubeVars>>

\* Mutant: main does not wait for the mounts in flight.
DrainedAtOnce(p) == TRUE

\* GracefulStop waits for the RPCs that are being handled.
Drained(p) == \A m \in Mounts : ~(peer[m] = p /\ rpc[m] = "handling")

MainReturns(p) == pc[p] = "drain" /\ Drained(p) /\ Exit(p) /\ UNCHANGED faults

Main(p) ==
    \/ SetProxyTransport(p) \/ CheckFlags(p) \/ RemoveSocket(p) \/ Umask0077(p) \/ Listen(p)
    \/ RestoreUmask(p) \/ GoServe(p) \/ GoHealth(p) \/ ReceiveSignal(p) \/ GracefulStop(p)
    \/ MainReturns(p)
-----------------------------------------------------------------------------
(***************************************************************************)
(* The goroutines and the RPCs.                                            *)
(***************************************************************************)

\* A server that was stopped before Serve got to run closes the listener.
Serve(p) ==
    /\ serve[p] = "started"
    /\ \/ /\ pc[p] # "drain"
          /\ serve' = [serve EXCEPT ![p] = "accepting"]
          /\ UNCHANGED <<listener, socket, rpc, probe>>
       \/ pc[p] = "drain" /\ CloseListener(p)
    /\ UNCHANGED <<endpoint, mainVars, health, port, peer, kubeVars>>

\* HealthZ.Serve: ListenAndServe's error is dropped unless it is ErrServerClosed.
HealthServe(p) ==
    /\ health[p] = "started"
    /\ \/ /\ port = "free"
          /\ port' = p
          /\ health' = [health EXCEPT ![p] = "bound"]
       \/ /\ port # "free"
          /\ health' = [health EXCEPT ![p] = "unbound"]
          /\ UNCHANGED port
    /\ UNCHANGED <<endpoint, mainVars, listener, serve, socket, clientVars, kubeVars>>

\* The socket's path leads to a listening process.
Connectable == socket # NoSocket /\ listener[socket.owner] = "open"

\* A connection waits in the listener's backlog until Serve accepts it.
Call(m) ==
    /\ rpc[m] \notin {"queued", "handling"}
    /\ Connectable
    /\ rpc' = [rpc EXCEPT ![m] = "queued"]
    /\ peer' = [peer EXCEPT ![m] = socket.owner]
    /\ UNCHANGED <<endpoint, mainVars, serverVars, nodeVars, probe, kubeVars>>

Accept(m) ==
    /\ rpc[m] = "queued" /\ serve[peer[m]] = "accepting"
    /\ rpc' = [rpc EXCEPT ![m] = "handling"]
    /\ UNCHANGED <<endpoint, mainVars, serverVars, nodeVars, peer, probe, kubeVars>>

Answer(m) ==
    /\ rpc[m] = "handling"
    /\ rpc' = [rpc EXCEPT ![m] = "answered"]
    /\ UNCHANGED <<endpoint, mainVars, serverVars, nodeVars, peer, probe, kubeVars>>
-----------------------------------------------------------------------------
(***************************************************************************)
(* The health check: the kubelet asks the node's health port, and          *)
(* ServeHTTP of whichever process holds it calls Check over the socket.    *)
(***************************************************************************)

Probe(p) ==
    /\ p = pod /\ pc[p] = "wait" /\ probe[p] = NoProbe /\ port # "free"
    /\ probe' = [probe EXCEPT ![p] = [stage |-> "http", by |-> port, to |-> "nobody"]]
    /\ UNCHANGED <<endpoint, mainVars, serverVars, nodeVars, rpc, peer, kubeVars>>

\* dialUnixSocket knows no other kind of address.
DialUnixSocket(p) ==
    /\ probe[p].stage = "http"
    /\ endpoint = "unix" /\ Connectable
    /\ probe' = [probe EXCEPT ![p].stage = "rpc", ![p].to = socket.owner]
    /\ UNCHANGED <<endpoint, mainVars, serverVars, nodeVars, rpc, peer, kubeVars>>

\* Check answers SERVING.
ProbeSucceeds(p) ==
    /\ probe[p].stage = "rpc" /\ probe[p].to # "nobody" /\ serve[probe[p].to] = "accepting"
    /\ probe' = [probe EXCEPT ![p] = NoProbe]
    /\ UNCHANGED <<endpoint, mainVars, serverVars, nodeVars, rpc, peer, kubeVars>>

\* Nobody at the port, nobody at the socket, a connection that was reset, or
\* the RPC timeout.  The kubelet then ends the container with SIGTERM: the
\* channel keeps the first signal and drops the others.
ProbeFails(p) ==
    /\ \/ /\ p = pod /\ pc[p] = "wait" /\ probe[p] = NoProbe /\ port = "free"
          /\ health[p] # "started" /\ UNCHANGED faults
       \/ /\ probe[p].stage = "http" /\ ~(endpoint = "unix" /\ Connectable) /\ UNCHANGED faults
       \/ probe[p].stage = "rpc" /\ probe[p].to = "nobody" /\ UNCHANGED faults
       \/ probe[p].stage = "rpc" /\ Fault
    /\ probe' = [probe EXCEPT ![p] = NoProbe]
    /\ signalChan' = [signalChan EXCEPT ![p] = TRUE]
    /\ UNCHANGED <<endpoint, pc, transport, umask, serverVars, nodeVars, rpc, peer, pod, retired, overlapped>>

\* The DaemonSet replaces the pod: the old one gets SIGTERM.
Replace(q) ==
    /\ q # pod /\ q \notin retired
    /\ pod' = q
    /\ retired' = retired \cup {pod}
    /\ signalChan' = [signalChan EXCEPT ![pod] = pc[pod] # "down"]
    /\ UNCHANGED <<endpoint, pc, transport, umask, serverVars, nodeVars, clientVars, faults, overlapped>>

\* A signal from anywhere else.
Signal(p) ==
    /\ pc[p] # "down" /\ Fault
    /\ signalChan' = [signalChan EXCEPT ![p] = TRUE]
    /\ UNCHANGED <<endpoint, pc, transport, umask, serverVars, nodeVars, clientVars, pod, retired, overlapped>>

HealthCheck(p) == DialUnixSocket(p) \/ ProbeSucceeds(p) \/ ProbeFails(p)

Next ==
    \/ \E p \in Procs : \/ Start(p) \/ Main(p) \/ Serve(p) \/ HealthServe(p)
                        \/ Probe(p) \/ HealthCheck(p)
                        \/ Kill(p) \/ Replace(p) \/ Signal(p)
    \/ \E m \in Mounts : Call(m) \/ Accept(m) \/ Answer(m)

Spec == Init /\ [][Next]_vars

\* The kubelet restarts and probes the container, Go schedules every goroutine,
\* and a mount that is handled ends (MountReplies).
FairSpec ==
    /\ Spec
    /\ \A p \in Procs : /\ WF_vars(Start(p)) /\ WF_vars(Main(p)) /\ WF_vars(Serve(p))
                        /\ WF_vars(HealthServe(p)) /\ WF_vars(Probe(p)) /\ WF_vars(HealthCheck(p))
    /\ \A m \in Mounts : WF_vars(Accept(m)) /\ WF_vars(Answer(m))
-----------------------------------------------------------------------------
(***************************************************************************)
(* Properties.                                                             *)
(***************************************************************************)

\* At no time, also between two starts and while pods overlap, is there a Unix
\* socket at the path that others than its owner may connect to (main's umask).
\* A TCP address, which ParseEndpoint accepts as well, has no such protection.
SocketPrivate == endpoint # "tcp" /\ socket # NoSocket => socket.mode = "0077"

\* What handlers read without synchronisation was written before the first of
\* them could run, and they run with the umask main was started with: auth's
\* proxy transport is set (SetProxyTransport) and the umask is put back.
InitializedBeforeServing ==
    \A m \in Mounts : rpc[m] = "handling" =>
        transport[peer[m]] # "unset" /\ umask[peer[m]] = "inherited"

\* As long as pods have not overlapped they find the path in order, whatever the
\* process before left there: the socket of a process that serves is its own.
ServingIsReachable ==
    ~overlapped => \A p \in Procs : serve[p] = "accepting" => socket.owner = p /\ Connectable

\* Only a kill ends a mount that is being handled; a signal, at whatever time
\* it comes, lets it finish (GracefulStop).
MountsDrained ==
    [][\A m \in Mounts : rpc[m] = "handling" /\ rpc'[m] = "failed" => faults' # faults]_vars

\* A signal ends the process, also one that comes while main still starts up
\* or before Serve has run.
SignalEndsProcess == \A p \in Procs : signalChan[p] ~> pc[p] = "down"

\* A node recovers: once there are no more faults and replacements, the driver
\* finds the pod's own process at the socket for good.  A replaced process may
\* unlink its successor's socket and hold its health port; the health check
\* then has the successor restarted.
SelfHeals ==
    endpoint = "unix" => <>[](socket.owner = pod /\ Connectable /\ serve[pod] = "accepting" /\ port = pod)
-----------------------------------------------------------------------------
\* healthz.go: a health server that fails to start ends the process.
HealthFailureIsFatal == \A p \in Procs : health[p] # "unbound"
=============================================================================
