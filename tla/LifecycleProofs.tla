--------------------------- MODULE LifecycleProofs ---------------------------
(***************************************************************************)
(* The safety properties of Lifecycle, for any number of pods, mounts and  *)
(* faults.  Type correctness is proved apart, so that the steps of the     *)
(* other invariants need not carry it.                                     *)
(***************************************************************************)
EXTENDS Lifecycle, TLAPS

ProbeType == [stage : {"none", "http", "rpc"}, by : Procs \cup {"nobody"},
              to : Procs \cup {"nobody"}]
SocketType == [owner : Procs \cup {"nobody"}, mode : {"none", "any", "inherited", "0077"}]

\* A probe's record with other stages and ends.
LEMMA ProbeUpdate ==
    ASSUME NEW x \in ProbeType, NEW s \in {"none", "http", "rpc"}, NEW t \in Procs \cup {"nobody"}
    PROVE  /\ [x EXCEPT !.to = t] \in ProbeType
           /\ [x EXCEPT !.stage = s, !.to = t] \in ProbeType
           /\ NoProbe \in ProbeType
  BY DEF ProbeType, NoProbe

LEMMA SocketValues ==
    ASSUME NEW p \in Procs, NEW mode \in {"any", "inherited", "0077"}
    PROVE  NoSocket \in SocketType /\ [owner |-> p, mode |-> mode] \in SocketType
  BY DEF SocketType, NoSocket

LEMMA TypeOfInit == Init => TypeOK
<1> SUFFICES ASSUME Init PROVE TypeOK
  OBVIOUS
<1>1. NoSocket \in SocketType /\ NoProbe \in ProbeType
  BY DEF SocketType, NoSocket, ProbeType, NoProbe
<1>2. faults \in 0..MaxFaults
  BY LifecycleAssumption DEF Init
<1> QED
  BY <1>1, <1>2 DEF Init, TypeOK, Phases, SocketType, ProbeType

\* The faults stay within their bound.
LEMMA FaultType ==
    ASSUME TypeOK, Fault \/ UNCHANGED faults
    PROVE  faults' \in 0..MaxFaults
  BY LifecycleAssumption DEF TypeOK, Fault

LEMMA ExitType ==
    ASSUME TypeOK, NEW p \in Procs, Exit(p), Fault \/ UNCHANGED faults
    PROVE  TypeOK'
<1>1. faults' \in 0..MaxFaults
  BY FaultType
<1>2. probe' \in [Procs -> ProbeType]
  <2>1. probe \in [Procs -> ProbeType]
    BY DEF TypeOK, ProbeType
  <2>2. Cut(p) \in [Procs -> ProbeType]
    BY <2>1, ProbeUpdate DEF Cut
  <2>3. NoProbe \in ProbeType
    BY DEF NoProbe, ProbeType
  <2> QED
    BY <2>2, <2>3 DEF Exit
<1>3. socket' \in SocketType
  BY SocketValues DEF TypeOK, SocketType, Exit
<1>4. rpc' \in [Mounts -> {"idle", "queued", "handling", "answered", "failed"}]
  BY DEF TypeOK, Exit
<1> QED
  BY <1>1, <1>2, <1>3, <1>4 DEF TypeOK, Exit, Phases, SocketType, ProbeType

LEMMA CloseListenerType ==
    ASSUME TypeOK, NEW p \in Procs, CloseListener(p)
    PROVE  /\ listener' \in [Procs -> {"none", "open", "closed"}]
           /\ serve' \in [Procs -> {"none", "started", "accepting", "returned"}]
           /\ socket' \in SocketType
           /\ rpc' \in [Mounts -> {"idle", "queued", "handling", "answered", "failed"}]
           /\ probe' \in [Procs -> ProbeType]
<1>1. probe \in [Procs -> ProbeType] /\ socket \in SocketType
  BY DEF TypeOK, ProbeType, SocketType
<1>2. probe' \in [Procs -> ProbeType]
  BY <1>1, ProbeUpdate DEF CloseListener
<1>3. socket' \in SocketType
  BY <1>1, SocketValues DEF CloseListener
<1> QED
  BY <1>2, <1>3 DEF TypeOK, CloseListener

LEMMA MainType ==
    ASSUME TypeOK, NEW p \in Procs, Main(p)
    PROVE  TypeOK'
<1> USE DEF Goto, mainVars, serverVars, nodeVars, clientVars, kubeVars
<1>1. CASE /\ pc' \in [Procs -> Phases]
           /\ UNCHANGED <<endpoint, serverVars, port, clientVars, kubeVars>>
           /\ signalChan' \in [Procs -> BOOLEAN]
           /\ transport' \in [Procs -> {"unset", "set"}]
           /\ umask' \in [Procs -> {"inherited", "0077"}]
           /\ socket' \in SocketType
  BY <1>1 DEF TypeOK, SocketType
<1>2. CASE Exit(p) /\ (Fault \/ UNCHANGED faults)
  BY <1>2, ExitType
<1>3. CASE SetProxyTransport(p)
  BY <1>1, <1>3 DEF SetProxyTransport, TypeOK, Phases, SocketType
<1>4. CASE CheckFlags(p)
  BY <1>1, <1>2, <1>4 DEF CheckFlags, Fatal, TypeOK, Phases, SocketType
<1>5. CASE RemoveSocket(p)
  <2>1. NoSocket \in SocketType
    BY SocketValues
  <2> QED
    BY <1>2, <1>5, <2>1 DEF RemoveSocket, RemovedSocket, TypeOK, Phases, SocketType
<1>6. CASE Umask0077(p)
  BY <1>1, <1>6 DEF Umask0077, TypeOK, Phases, SocketType
<1>7. CASE Listen(p)
  <2>1. umask[p] \in {"inherited", "0077"}
    BY DEF TypeOK
  <2>2. NewSocket(p) \in SocketType
    BY <2>1, SocketValues DEF NewSocket
  <2> QED
    BY <1>2, <1>7, <2>2 DEF Listen, Fatal, TypeOK, Phases, SocketType
<1>8. CASE RestoreUmask(p)
  BY <1>1, <1>8 DEF RestoreUmask, TypeOK, Phases, SocketType
<1>9. CASE GoServe(p)
  BY <1>9 DEF GoServe, TypeOK, Phases
<1>10. CASE GoHealth(p)
  BY <1>10 DEF GoHealth, TypeOK, Phases
<1>11. CASE ReceiveSignal(p)
  BY <1>1, <1>11 DEF ReceiveSignal, TypeOK, Phases, SocketType
<1>12. CASE GracefulStop(p)
  <2>1. CASE CloseListener(p)
    BY <1>12, <2>1, CloseListenerType DEF GracefulStop, TypeOK, Phases, SocketType, ProbeType
  <2>2. CASE UNCHANGED <<listener, serve, socket, rpc, probe>>
    BY <1>12, <2>2 DEF GracefulStop, TypeOK, Phases
  <2> QED
    BY <1>12, <2>1, <2>2 DEF GracefulStop
<1>13. CASE MainReturns(p)
  BY <1>2, <1>13 DEF MainReturns
<1> QED
  BY <1>3, <1>4, <1>5, <1>6, <1>7, <1>8, <1>9, <1>10, <1>11, <1>12, <1>13 DEF Main

LEMMA GoroutineType ==
    ASSUME TypeOK, NEW p \in Procs, Serve(p) \/ HealthServe(p)
    PROVE  TypeOK'
<1> USE DEF mainVars, clientVars, kubeVars
<1>1. CASE Serve(p)
  <2>1. CASE CloseListener(p)
    BY <1>1, <2>1, CloseListenerType DEF Serve, TypeOK, SocketType, ProbeType
  <2>2. CASE serve' = [serve EXCEPT ![p] = "accepting"] /\ UNCHANGED <<listener, socket, rpc, probe>>
    BY <1>1, <2>2 DEF Serve, TypeOK
  <2> QED
    BY <1>1, <2>1, <2>2 DEF Serve
<1>2. CASE HealthServe(p)
  BY <1>2 DEF HealthServe, TypeOK
<1> QED
  BY <1>1, <1>2

LEMMA MountType ==
    ASSUME TypeOK, NEW m \in Mounts, Call(m) \/ Accept(m) \/ Answer(m)
    PROVE  TypeOK'
<1> USE DEF mainVars, serverVars, nodeVars, kubeVars
<1>1. CASE Call(m)
  <2>1. socket.owner \in Procs \cup {"nobody"}
    BY DEF TypeOK
  <2> QED
    BY <1>1, <2>1 DEF Call, TypeOK
<1>2. CASE Accept(m)
  BY <1>2 DEF Accept, TypeOK
<1>3. CASE Answer(m)
  BY <1>3 DEF Answer, TypeOK
<1> QED
  BY <1>1, <1>2, <1>3

LEMMA NodeType ==
    ASSUME TypeOK, NEW p \in Procs,
           Start(p) \/ Probe(p) \/ HealthCheck(p) \/ Kill(p) \/ Replace(p) \/ Signal(p)
    PROVE  TypeOK'
<1> USE DEF mainVars, serverVars, nodeVars, clientVars, kubeVars
<1>0. probe \in [Procs -> ProbeType]
  BY DEF TypeOK, ProbeType
<1>1. CASE Start(p)
  BY <1>1 DEF Start, Goto, TypeOK, Phases
<1>2. CASE Probe(p)
  <2>1. [stage |-> "http", by |-> port, to |-> "nobody"] \in ProbeType
    BY <1>2 DEF Probe, TypeOK, ProbeType
  <2>2. probe' \in [Procs -> ProbeType]
    BY <1>0, <1>2, <2>1 DEF Probe
  <2> QED
    BY <1>2, <2>2 DEF Probe, TypeOK, ProbeType
<1>3. CASE DialUnixSocket(p)
  <2>1. socket.owner \in Procs \cup {"nobody"}
    BY DEF TypeOK
  <2>2. probe' \in [Procs -> ProbeType]
    BY <1>0, <1>3, <2>1 DEF DialUnixSocket, ProbeType
  <2> QED
    BY <1>3, <2>2 DEF DialUnixSocket, TypeOK, ProbeType
<1>4. CASE ProbeSucceeds(p)
  <2>1. probe' \in [Procs -> ProbeType]
    BY <1>0, <1>4 DEF ProbeSucceeds, ProbeType, NoProbe
  <2> QED
    BY <1>4, <2>1 DEF ProbeSucceeds, TypeOK, ProbeType
<1>5. CASE ProbeFails(p)
  <2>1. probe' \in [Procs -> ProbeType]
    BY <1>0, <1>5 DEF ProbeFails, ProbeType, NoProbe
  <2>2. faults' \in 0..MaxFaults
    BY <1>5, FaultType DEF ProbeFails
  <2> QED
    BY <1>5, <2>1, <2>2 DEF ProbeFails, TypeOK, ProbeType
<1>6. CASE Kill(p)
  BY <1>6, ExitType DEF Kill
<1>7. CASE Replace(p)
  BY <1>7 DEF Replace, TypeOK
<1>8. CASE Signal(p)
  <2>1. faults' \in 0..MaxFaults
    BY <1>8, FaultType DEF Signal
  <2> QED
    BY <1>8, <2>1 DEF Signal, TypeOK
<1> QED
  BY <1>1, <1>2, <1>3, <1>4, <1>5, <1>6, <1>7, <1>8 DEF HealthCheck

\* At every step of every process the state is well formed.
THEOREM TypeCorrect == Spec => []TypeOK
<1>1. TypeOK /\ [Next]_vars => TypeOK'
  <2>1. TypeOK /\ UNCHANGED vars => TypeOK'
    BY DEF TypeOK, vars, mainVars, serverVars, nodeVars, clientVars, kubeVars
  <2> QED
    BY <2>1, MainType, GoroutineType, MountType, NodeType DEF Next
<1> QED
  BY <1>1, TypeOfInit, PTL DEF Spec
-----------------------------------------------------------------------------
(***************************************************************************)
(* What main has done when it is at a phase, and what follows for the      *)
(* socket and for the mounts that are handled.                             *)
(***************************************************************************)

Late == {"goHealth", "wait", "stop", "drain"}

SocketInv ==
    socket # NoSocket => /\ socket.owner \in Procs
                         /\ endpoint # "tcp" => socket.mode = "0077"

PhaseInv(p) ==
    /\ pc[p] = "listen" => umask[p] = "0077"
    /\ pc[p] \in {"new"} \cup Late => umask[p] = "inherited"
    /\ pc[p] \notin {"down", "transport"} => transport[p] # "unset"
    /\ serve[p] # "none" => pc[p] \in Late

MountInv(m) ==
    /\ rpc[m] \in {"queued", "handling"} => peer[m] \in Procs
    /\ rpc[m] = "handling" => pc[peer[m]] \in Late

SafetyInv ==
    /\ SocketInv
    /\ \A p \in Procs : PhaseInv(p)
    /\ \A m \in Mounts : MountInv(m)

LEMMA InitSafety == Init => SafetyInv
  BY DEF Init, SafetyInv, SocketInv, PhaseInv, MountInv, Late, NoSocket

LEMMA ExitSafety ==
    ASSUME TypeOK, SafetyInv, NEW p \in Procs, Exit(p)
    PROVE  SafetyInv'
<1>1. SocketInv'
  BY DEF SafetyInv, SocketInv, Exit
<1>2. ASSUME NEW q \in Procs PROVE PhaseInv(q)'
  BY DEF SafetyInv, PhaseInv, Exit, TypeOK, Late
<1>3. ASSUME NEW m \in Mounts PROVE MountInv(m)'
  BY DEF SafetyInv, MountInv, Exit, TypeOK, Late
<1> QED
  BY <1>1, <1>2, <1>3 DEF SafetyInv

\* main goes from one phase to a later one.
LEMMA MainSafety ==
    ASSUME TypeOK, SafetyInv, NEW p \in Procs, Main(p)
    PROVE  SafetyInv'
<1> USE DEF Goto, serverVars, nodeVars, clientVars
<1>1. CASE Exit(p)
  BY <1>1, ExitSafety
<1>2. CASE /\ SocketInv'
           /\ PhaseInv(p)'
           /\ \A q \in Procs \ {p} : /\ pc'[q] = pc[q] /\ umask'[q] = umask[q]
                                     /\ transport'[q] = transport[q] /\ serve'[q] = serve[q]
           /\ pc[p] \in Late => pc'[p] \in Late
           /\ \A m \in Mounts : peer'[m] = peer[m] /\ (rpc'[m] = rpc[m] \/ rpc'[m] = "failed")
  <2>1. ASSUME NEW q \in Procs PROVE PhaseInv(q)'
    BY <1>2 DEF SafetyInv, PhaseInv
  <2>2. ASSUME NEW m \in Mounts PROVE MountInv(m)'
    BY <1>2 DEF SafetyInv, MountInv
  <2> QED
    BY <1>2, <2>1, <2>2 DEF SafetyInv
<1> USE DEF TypeOK, SafetyInv, PhaseInv, SocketInv, Late
<1>3. CASE SetProxyTransport(p)
  BY <1>2, <1>3 DEF SetProxyTransport
<1>4. CASE CheckFlags(p)
  BY <1>1, <1>2, <1>4 DEF CheckFlags, Fatal
<1>5. CASE RemoveSocket(p)
  BY <1>1, <1>2, <1>5 DEF RemoveSocket, RemovedSocket
<1>6. CASE Umask0077(p)
  BY <1>2, <1>6 DEF Umask0077
<1>7. CASE Listen(p)
  BY <1>1, <1>2, <1>7 DEF Listen, Fatal, NewSocket
<1>8. CASE RestoreUmask(p)
  BY <1>2, <1>8 DEF RestoreUmask
<1>9. CASE GoServe(p)
  BY <1>2, <1>9 DEF GoServe
<1>10. CASE GoHealth(p)
  BY <1>2, <1>10 DEF GoHealth
<1>11. CASE ReceiveSignal(p)
  BY <1>2, <1>11 DEF ReceiveSignal
<1>12. CASE GracefulStop(p)
  BY <1>2, <1>12 DEF GracefulStop, CloseListener
<1>13. CASE MainReturns(p)
  BY <1>1, <1>13 DEF MainReturns
<1> QED
  BY <1>3, <1>4, <1>5, <1>6, <1>7, <1>8, <1>9, <1>10, <1>11, <1>12, <1>13 DEF Main

LEMMA GoroutineSafety ==
    ASSUME TypeOK, SafetyInv, NEW p \in Procs, Serve(p) \/ HealthServe(p)
    PROVE  SafetyInv'
<1> USE DEF mainVars, clientVars
<1>1. SocketInv'
  BY DEF SafetyInv, SocketInv, Serve, HealthServe, CloseListener
<1>2. ASSUME NEW q \in Procs PROVE PhaseInv(q)'
  BY DEF SafetyInv, PhaseInv, Serve, HealthServe, CloseListener, TypeOK
<1>3. ASSUME NEW m \in Mounts PROVE MountInv(m)'
  BY DEF SafetyInv, MountInv, Serve, HealthServe, CloseListener
<1> QED
  BY <1>1, <1>2, <1>3 DEF SafetyInv

\* A mount gets into a handler only of a process that serves.
LEMMA MountSafety ==
    ASSUME TypeOK, SafetyInv, NEW m \in Mounts, Call(m) \/ Accept(m) \/ Answer(m)
    PROVE  SafetyInv'
<1> USE DEF mainVars, serverVars, nodeVars
<1>1. SocketInv' /\ \A q \in Procs : PhaseInv(q)'
  BY DEF SafetyInv, SocketInv, PhaseInv, Call, Accept, Answer
<1>2. ASSUME NEW n \in Mounts PROVE MountInv(n)'
  BY DEF SafetyInv, SocketInv, MountInv, PhaseInv, Call, Connectable, Accept, Answer, TypeOK
<1> QED
  BY <1>1, <1>2 DEF SafetyInv

LEMMA NodeSafety ==
    ASSUME TypeOK, SafetyInv, NEW p \in Procs,
           Start(p) \/ Probe(p) \/ HealthCheck(p) \/ Kill(p) \/ Replace(p) \/ Signal(p)
    PROVE  SafetyInv'
<1> USE DEF mainVars, serverVars, nodeVars, clientVars
<1>1. CASE Start(p)
  <2>1. SocketInv'
    BY <1>1 DEF SafetyInv, SocketInv, Start
  <2>2. ASSUME NEW q \in Procs PROVE PhaseInv(q)'
    BY <1>1 DEF SafetyInv, PhaseInv, Start, Goto, TypeOK, Late
  <2>3. ASSUME NEW m \in Mounts PROVE MountInv(m)'
    BY <1>1 DEF SafetyInv, MountInv, Start, Goto, TypeOK, Late
  <2> QED
    BY <2>1, <2>2, <2>3 DEF SafetyInv
<1>2. CASE Kill(p)
  BY <1>2, ExitSafety DEF Kill
<1>3. CASE UNCHANGED <<endpoint, pc, umask, transport, serve, socket, rpc, peer>>
  BY <1>3 DEF SafetyInv, SocketInv, PhaseInv, MountInv
<1> QED
  BY <1>1, <1>2, <1>3 DEF Probe, HealthCheck, DialUnixSocket, ProbeSucceeds, ProbeFails, Replace, Signal

LEMMA Safety == Spec => []SafetyInv
<1>1. TypeOK /\ SafetyInv /\ [Next]_vars => SafetyInv'
  <2>1. SafetyInv /\ UNCHANGED vars => SafetyInv'
    BY DEF SafetyInv, SocketInv, PhaseInv, MountInv, vars, mainVars, serverVars, nodeVars, clientVars
  <2> QED
    BY <2>1, MainSafety, GoroutineSafety, MountSafety, NodeSafety DEF Next
<1> QED
  BY <1>1, InitSafety, TypeCorrect, PTL DEF Spec

\* Whatever the faults and however pods overlap, a Unix socket is never open to
\* others than its owner.
THEOREM SocketIsPrivate == Spec => []SocketPrivate
<1>1. SafetyInv => SocketPrivate
  BY DEF SafetyInv, SocketInv, SocketPrivate
<1> QED
  BY <1>1, Safety, PTL

\* No handler runs before what it reads is written and the umask is put back.
THEOREM HandlersSeeInitializedState == Spec => []InitializedBeforeServing
<1>1. SafetyInv => InitializedBeforeServing
  BY DEF SafetyInv, MountInv, PhaseInv, Late, InitializedBeforeServing
<1> QED
  BY <1>1, Safety, PTL

\* GracefulStop drains: of the steps of a process only a kill fails a mount that
\* is being handled.
THEOREM StopDrainsMounts == Spec => MountsDrained
<1> DEFINE Step == \A m \in Mounts : rpc[m] = "handling" /\ rpc'[m] = "failed" => faults' # faults
<1>1. TypeOK /\ SafetyInv /\ [Next]_vars => [Step]_vars
  <2> SUFFICES ASSUME TypeOK, SafetyInv, Next, NEW m \in Mounts,
                      rpc[m] = "handling", rpc'[m] = "failed"
               PROVE  faults' # faults
    OBVIOUS
  <2>1. peer[m] \in Procs /\ pc[peer[m]] \in Late
    BY DEF SafetyInv, MountInv
  <2>2. ASSUME NEW p \in Procs, Exit(p) PROVE peer[m] = p
    BY <2>2 DEF Exit
  <2>3. Fault => faults' # faults
    BY DEF Fault, TypeOK
  <2>4. ASSUME NEW p \in Procs, CloseListener(p) PROVE FALSE
    BY <2>4 DEF CloseListener
  <2>5. ASSUME NEW p \in Procs, Main(p) PROVE faults' # faults
    BY <2>1, <2>2, <2>3, <2>4, <2>5
       DEF Late, Main, SetProxyTransport, CheckFlags, Fatal, RemoveSocket, Umask0077, Listen,
           RestoreUmask, GoServe, GoHealth, ReceiveSignal, GracefulStop, MainReturns, Drained, clientVars
  <2>6. ASSUME NEW p \in Procs, Kill(p) PROVE faults' # faults
    BY <2>3, <2>6 DEF Kill
  <2>7. ASSUME NEW p \in Procs, \/ Start(p) \/ Serve(p) \/ HealthServe(p) \/ Probe(p)
                                \/ HealthCheck(p) \/ Replace(p) \/ Signal(p)
        PROVE  FALSE
    BY <2>4, <2>7 DEF Start, Serve, HealthServe, Probe, HealthCheck, DialUnixSocket, ProbeSucceeds,
                      ProbeFails, Replace, Signal, clientVars
  <2>8. ASSUME NEW n \in Mounts, Call(n) \/ Accept(n) \/ Answer(n) PROVE FALSE
    BY <2>8 DEF Call, Accept, Answer, TypeOK
  <2> QED
    BY <2>5, <2>6, <2>7, <2>8 DEF Next
<1> QED
  BY <1>1, Safety, TypeCorrect, PTL DEF Spec, MountsDrained
-----------------------------------------------------------------------------
(***************************************************************************)
(* Until pods overlap one process runs at a time, and while it is up       *)
(* nobody else removes its socket.                                         *)
(***************************************************************************)

Up == {"restore", "new", "goHealth", "wait", "stop"}

OneProcess == \A p, q \in Procs : pc[p] # "down" /\ pc[q] # "down" => p = q

BoundInv ==
    \A p \in Procs : /\ pc[p] \in Up => listener[p] = "open" /\ socket.owner = p
                     /\ serve[p] = "accepting" => pc[p] \in Up

ReachInv == OneProcess /\ BoundInv

\* A process that goes down, or on, stays the only one.
LEMMA StaysOne ==
    ASSUME TypeOK, OneProcess, NEW p \in Procs, pc[p] # "down",
           NEW phase, pc' = [pc EXCEPT ![p] = phase]
    PROVE  OneProcess'
  BY DEF OneProcess, TypeOK

LEMMA MainReach ==
    ASSUME TypeOK, SafetyInv, ReachInv, NEW p \in Procs, Main(p) \/ Kill(p)
    PROVE  ReachInv'
<1> USE DEF Goto, mainVars, serverVars, nodeVars
<1>1. pc[p] # "down" /\ \A q \in Procs \ {p} : pc[q] = "down" /\ serve[q] = "none"
  BY DEF Main, Kill, SetProxyTransport, CheckFlags, RemoveSocket, Umask0077, Listen, RestoreUmask,
         GoServe, GoHealth, ReceiveSignal, GracefulStop, MainReturns, ReachInv, OneProcess,
         SafetyInv, PhaseInv, Late
<1>2. \E phase : pc' = [pc EXCEPT ![p] = phase]
  BY DEF Main, Kill, SetProxyTransport, CheckFlags, RemoveSocket, Umask0077, Listen, RestoreUmask,
         GoServe, GoHealth, ReceiveSignal, GracefulStop, MainReturns, Fatal, Exit
<1>3. OneProcess'
  BY <1>1, <1>2, StaysOne DEF ReachInv
<1>4. ASSUME NEW q \in Procs \ {p} PROVE pc'[q] = "down" /\ serve'[q] = "none"
  <2>1. serve'[q] = serve[q]
    BY DEF Main, Kill, SetProxyTransport, CheckFlags, RemoveSocket, Umask0077, Listen, RestoreUmask,
           GoServe, GoHealth, ReceiveSignal, GracefulStop, MainReturns, Fatal, Exit, CloseListener,
           TypeOK
  <2> QED
    BY <1>1, <1>2, <2>1 DEF TypeOK
<1>5. /\ pc'[p] \in Up => listener'[p] = "open" /\ socket'.owner = p
      /\ serve'[p] = "accepting" => pc'[p] \in Up
  <2> USE DEF TypeOK, ReachInv, BoundInv, Up
  <2>1. CASE Exit(p)
    BY <2>1 DEF Exit
  <2>2. CASE Listen(p)
    BY <2>1, <2>2 DEF Listen, Fatal, NewSocket, SafetyInv, PhaseInv, Late
  <2>3. CASE GracefulStop(p)
    BY <2>3 DEF GracefulStop, CloseListener
  <2>4. CASE RestoreUmask(p) \/ GoServe(p) \/ GoHealth(p) \/ ReceiveSignal(p)
    BY <2>4 DEF RestoreUmask, GoServe, GoHealth, ReceiveSignal
  <2>5. CASE SetProxyTransport(p) \/ CheckFlags(p) \/ RemoveSocket(p) \/ Umask0077(p)
    BY <2>1, <2>5 DEF SetProxyTransport, CheckFlags, Fatal, RemoveSocket, Umask0077
  <2> QED
    BY <2>1, <2>2, <2>3, <2>4, <2>5 DEF Main, MainReturns, Kill
<1> QED
  BY <1>3, <1>4, <1>5 DEF ReachInv, BoundInv, Up

LEMMA OthersReach ==
    ASSUME TypeOK, SafetyInv, ReachInv, ~overlapped', NEW p \in Procs,
           \/ Start(p) \/ Serve(p) \/ HealthServe(p)
           \/ Probe(p) \/ HealthCheck(p) \/ Replace(p) \/ Signal(p)
    PROVE  ReachInv'
<1> USE DEF mainVars, serverVars, nodeVars, clientVars
<1>1. CASE Start(p)
  <2>1. OneProcess'
    <3>1. overlapped' = (overlapped \/ \E q \in Procs : pc[q] # "down")
      BY <1>1, Zenon DEF Start
    <3>2. \A q \in Procs : pc[q] = "down"
      BY <3>1, Zenon
    <3>3. pc \in [Procs -> Phases] /\ pc' = [pc EXCEPT ![p] = "transport"]
      BY <1>1 DEF Start, Goto, TypeOK
    <3>4. \A q \in Procs : q # p => pc'[q] = "down"
      BY <3>2, <3>3
    <3> QED
      BY <3>4, Zenon DEF OneProcess
  <2>2. BoundInv'
    BY <1>1 DEF Start, Goto, ReachInv, BoundInv, Up, TypeOK
  <2> QED
    BY <2>1, <2>2 DEF ReachInv
<1>2. CASE Serve(p)
  <2>1. OneProcess'
    BY <1>2 DEF Serve, ReachInv, OneProcess
  <2>2. pc[p] \in Late /\ \A q \in Procs \ {p} : pc[q] = "down"
    BY <1>2 DEF Serve, SafetyInv, PhaseInv, ReachInv, OneProcess, Late
  <2>3. BoundInv'
    BY <1>2, <2>2 DEF Serve, CloseListener, ReachInv, BoundInv, Up, Late, TypeOK
  <2> QED
    BY <2>1, <2>3 DEF ReachInv
<1>3. CASE UNCHANGED <<pc, listener, serve, socket>>
  BY <1>3 DEF ReachInv, OneProcess, BoundInv
<1> QED
  BY <1>1, <1>2, <1>3 DEF HealthServe, Probe, HealthCheck, DialUnixSocket, ProbeSucceeds, ProbeFails,
                          Replace, Signal

\* What has overlapped has overlapped for good.
LEMMA OverlapStays ==
    ASSUME TypeOK, [Next]_vars, overlapped PROVE overlapped'
<1> USE DEF kubeVars
<1>1. ASSUME NEW p \in Procs, Main(p) \/ Kill(p) PROVE overlapped' = overlapped
  BY <1>1 DEF Main, Kill, SetProxyTransport, CheckFlags, RemoveSocket, Umask0077, Listen, RestoreUmask,
         GoServe, GoHealth, ReceiveSignal, GracefulStop, MainReturns, Fatal, Exit
<1>2. ASSUME NEW p \in Procs,
             Serve(p) \/ HealthServe(p) \/ Probe(p) \/ HealthCheck(p) \/ Replace(p) \/ Signal(p)
      PROVE  overlapped' = overlapped
  BY <1>2 DEF Serve, HealthServe, Probe, HealthCheck, DialUnixSocket, ProbeSucceeds, ProbeFails,
              Replace, Signal
<1>3. ASSUME NEW m \in Mounts, Call(m) \/ Accept(m) \/ Answer(m) PROVE overlapped' = overlapped
  BY <1>3 DEF Call, Accept, Answer
<1>4. ASSUME NEW p \in Procs, Start(p) PROVE overlapped'
  BY <1>4, Zenon DEF Start
<1>5. CASE UNCHANGED vars
  BY <1>5 DEF vars
<1> QED
  BY <1>1, <1>2, <1>3, <1>4, <1>5 DEF Next

\* As long as no pod has started beside another, a process that serves is the
\* one at the socket, whatever the process before it left there and however
\* that ended.
THEOREM SocketIsReachable == Spec => []ServingIsReachable
<1> DEFINE Reach == ~overlapped => ReachInv
<1>1. Init => Reach
  BY DEF Init, ReachInv, OneProcess, BoundInv, Up
<1>2. TypeOK /\ SafetyInv /\ Reach /\ [Next]_vars => Reach'
  <2> SUFFICES ASSUME TypeOK, SafetyInv, Reach, [Next]_vars, ~overlapped' PROVE ReachInv'
    OBVIOUS
  <2>1. ReachInv
    BY OverlapStays
  <2>2. CASE UNCHANGED vars
    BY <2>1, <2>2 DEF ReachInv, OneProcess, BoundInv, vars, mainVars, serverVars, nodeVars
  <2>3. CASE \E m \in Mounts : Call(m) \/ Accept(m) \/ Answer(m)
    BY <2>1, <2>3 DEF Call, Accept, Answer, ReachInv, OneProcess, BoundInv, mainVars, serverVars, nodeVars
  <2> QED
    BY <2>1, <2>2, <2>3, MainReach, OthersReach DEF Next
<1>3. Reach => ServingIsReachable
  BY LifecycleAssumption DEF ReachInv, BoundInv, ServingIsReachable, Connectable, NoSocket
<1> QED
  BY <1>1, <1>2, <1>3, Safety, TypeCorrect, PTL DEF Spec
=============================================================================
