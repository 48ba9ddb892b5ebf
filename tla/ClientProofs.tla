---------------------------- MODULE ClientProofs ----------------------------
(***************************************************************************)
(* Proofs about Client, for any number of prefixes and devices, any retry  *)
(* budget and any limits of the delete loops.                              *)
(***************************************************************************)
EXTENDS Client, TLAPS

\* The retry budget derived from the configuration is at least one attempt.
LEMMA BudgetPositive == maxAttempts \in Nat /\ maxAttempts >= 1
  BY ClientAssumption DEF ClientAssumption, maxAttempts

LEMMA InitTypeOK == Init => TypeOK
<1> SUFFICES ASSUME Init PROVE TypeOK
  OBVIOUS
<1>1. HostTypeOK
  BY HostAssumption, ClientAssumption
  DEF Init, HostTypeOK, HostAssumption, ClientAssumption, NoRoutes
<1>2. /\ pc \in [Actors -> RcLabels \cup SigLabels]
      /\ pc["rc"] \in RcLabels /\ pc["sig"] \in SigLabels
  BY DEF Init, StartLabels, Actors, RcLabels, SigLabels
<1>3. attempts \in 0..maxAttempts /\ backoff \in 1..maxBackoff
  BY BudgetPositive DEF Init, maxBackoff
<1>4. iter \in [Actors -> Nat]
  BY DEF Init
<1> QED
  BY <1>1, <1>2, <1>3, <1>4 DEF Init, TypeOK

\* The end of a process leaves a well-typed state.
LEMMA EndTypeOK ==
    ASSUME TypeOK, NEW why \in {"rc", "sig", "fatal", "panic", "killed"},
           ProcessEnd(why)
    PROVE  TypeOK'
<1>1. HostTypeOK'
  BY HostAssumption DEF TypeOK, HostTypeOK, HostAssumption, NoRoutes, ProcessEnd
<1>2. /\ pc' \in [Actors -> RcLabels \cup SigLabels]
      /\ pc'["rc"] \in RcLabels /\ pc'["sig"] \in SigLabels
  BY DEF ProcessEnd, Actors, RcLabels, SigLabels
<1>3. attempts' \in 0..maxAttempts /\ backoff' \in 1..maxBackoff
  BY DEF TypeOK, ProcessEnd, ForgetProcess, maxBackoff
<1>4. iter' \in [Actors -> Nat]
  BY DEF ProcessEnd, ForgetProcess
<1> QED
  BY <1>1, <1>2, <1>3, <1>4 DEF TypeOK, ProcessEnd, ForgetProcess

\* Every step of the reconnect loop, the signal handler, a watcher or the
\* environment, other than the end of the process.
AliveStep ==
    \/ StartReconnect
    \/ DialFails
    \/ ConnectIPFails
    \/ DialSucceeds
    \/ RoutesFail
    \/ RoutesArrive
    \/ TunFails
    \/ \E d \in Devs : TunCreate(d)
    \/ LinkFails
    \/ LinkUp
    \/ \E p \in Prefixes : AddRoute(p)
    \/ \E p \in Prefixes : AddRouteFails(p)
    \/ EnterBootstrap
    \/ BootstrapCleanup
    \/ AddRule
    \/ AddSuppress
    \/ StartSession
    \/ AnnounceUp
    \/ TunnelReturns
    \/ BackoffWait
    \/ \E a \in Actors : GracefullyShutdown(a)
    \/ \E a \in Actors : cancel(a)
    \/ \E d \in Devs : CloseSession(d)
    \/ \E d \in Devs : CollectLeaked(d)
    \/ Age
    \/ SessionError
    \/ Signal
    \/ StopPost
    \/ Restart

\* The next-state relation as the proofs split it: a step of a process that
\* goes on, or the end of a running one.
LEMMA NextSplit ==
    ASSUME TypeOK, LifeInv, Next
    PROVE  \/ AliveStep
           \/ \E why \in {"rc", "sig", "fatal", "panic", "killed"} :
                 /\ ProcessEnd(why)
                 /\ proc = "running"
                 /\ why \in Actors => why = cancelBy
<1>1. CASE StartFails
  <2>1. ProcessEnd("fatal") /\ proc = "running"
    BY <1>1 DEF StartFails, LifeInv
  <2> QED BY <2>1 DEF Actors
<1>2. CASE DialPanics
  <2>1. ProcessEnd("panic") /\ proc = "running"
    BY <1>2 DEF DialPanics, LifeInv
  <2> QED BY <2>1 DEF Actors
<1>3. CASE LinkPanics
  <2>1. ProcessEnd("panic") /\ proc = "running"
    BY <1>3 DEF LinkPanics, LifeInv
  <2> QED BY <2>1 DEF Actors
<1>4. CASE BootstrapFatal
  <2>1. ProcessEnd("fatal") /\ proc = "running"
    BY <1>4 DEF BootstrapFatal, LifeInv
  <2> QED BY <2>1 DEF Actors
<1>5. CASE MainReturns
  <2>1. cancelBy \in {"rc", "sig"} /\ ProcessEnd(cancelBy) /\ proc = "running"
    BY <1>5 DEF MainReturns, LifeInv, TypeOK, cancelled, Actors
  <2> QED BY <2>1 DEF Actors
<1>6. CASE Kill
  <2>1. ProcessEnd("killed") /\ proc = "running"
    BY <1>6 DEF Kill
  <2> QED BY <2>1 DEF Actors
<1>7. CASE \/ GracefullyShutdown("rc") \/ GracefullyShutdown("sig")
           \/ cancel("rc") \/ cancel("sig")
  BY <1>7 DEF AliveStep, Actors
<1>8. CASE \/ \E d \in Devs : TunCreate(d) \/ CloseSession(d) \/ CollectLeaked(d)
           \/ \E p \in Prefixes : AddRoute(p) \/ AddRouteFails(p)
  BY <1>8 DEF AliveStep
<1> QED
  BY <1>1, <1>2, <1>3, <1>4, <1>5, <1>6, <1>7, <1>8
  DEF Next, RcNext, SigNext, Watcher, Environment, Establish, AliveStep

\* Type correctness is preserved by every step but the last of a process.
LEMMA StepTypeOK ==
    ASSUME TypeOK, LifeInv, DevInv, AliveStep
    PROVE  TypeOK'
<1> USE BudgetPositive DEF TypeOK, HostTypeOK, LifeInv, hostVars, procVars, budgetVars, sessVars, Actors, Goto, CountFailure,
            RcLabels, SigLabels, Dialling, Building,
            Bootstrapping, InSession, ShuttingDown, maxBackoff
<1>1. CASE StartReconnect
  BY <1>1 DEF StartReconnect
<1>2. CASE DialFails
  <2>1. orphaned' \in BOOLEAN
    BY <1>2 DEF DialFails
  <2> QED
    BY <1>2, <2>1 DEF DialFails
<1>3. CASE ConnectIPFails
  BY <1>3 DEF ConnectIPFails
<1>4. CASE DialSucceeds
  BY <1>4 DEF DialSucceeds
<1>5. CASE RoutesFail
  BY <1>5 DEF RoutesFail
<1>6. CASE RoutesArrive
  BY <1>6 DEF RoutesArrive
<1>7. CASE TunFails
  BY <1>7 DEF TunFails
<1>8. ASSUME NEW d \in Devs, TunCreate(d) PROVE TypeOK'
  BY <1>8 DEF TunCreate, OpenDevs
<1>9. CASE LinkFails
  BY <1>9 DEF LinkFails, BuildFails, DevInv, Equipped
<1>10. CASE LinkUp
  BY <1>10 DEF LinkUp
<1>11. ASSUME NEW p \in Prefixes, AddRoute(p) PROVE TypeOK'
  BY <1>11 DEF AddRoute, RouteReplace
<1>12. ASSUME NEW p \in Prefixes, AddRouteFails(p) PROVE TypeOK'
  BY <1>12 DEF AddRouteFails, BuildFails, DevInv, Equipped
<1>13. CASE EnterBootstrap
  BY <1>13 DEF EnterBootstrap
<1>14. CASE BootstrapCleanup
  BY <1>14 DEF BootstrapCleanup, delAllTable9000Rules, delSuppressRule
<1>15. CASE AddRule
  BY <1>15 DEF AddRule, RuleAdd, NoteRace
<1>16. CASE AddSuppress
  BY <1>16 DEF AddSuppress, SuppressAdd, NoteRace
<1>17. CASE StartSession
  <2>1. backoff' \in 1..maxBackoff
    BY <1>17 DEF StartSession
  <2> QED
    BY <1>17, <2>1 DEF StartSession
<1>18. CASE AnnounceUp
  BY <1>18 DEF AnnounceUp
<1>19. CASE TunnelReturns
  <2>1. backoff' \in 1..maxBackoff /\ attempts' \in 0..maxAttempts
    BY <1>19 DEF TunnelReturns
  <2>2. aged' \in BOOLEAN
    BY <1>19 DEF TunnelReturns
  <2>3. /\ pc' \in [Actors -> RcLabels \cup SigLabels]
        /\ pc'["rc"] \in RcLabels /\ pc'["sig"] \in SigLabels
    BY <1>19 DEF TunnelReturns
  <2> QED
    BY <1>19, <2>1, <2>2, <2>3 DEF TunnelReturns
<1>20. CASE BackoffWait
  BY <1>20 DEF BackoffWait
<1>21. ASSUME NEW a \in Actors, GracefullyShutdown(a) PROVE TypeOK'
  BY <1>21 DEF GracefullyShutdown, delAllTable9000Rules,
      delSuppressRule, RouteFlush, NoRoutes
<1>22. ASSUME NEW a \in Actors, cancel(a) PROVE TypeOK'
  BY <1>22 DEF cancel, cancelled
<1>23. ASSUME NEW d \in Devs, CloseSession(d) PROVE TypeOK'
  BY <1>23 DEF CloseSession, WithoutDev
<1>24. ASSUME NEW d \in Devs, CollectLeaked(d) PROVE TypeOK'
  BY <1>24 DEF CollectLeaked, WithoutDev
<1>25. CASE Age
  BY <1>25 DEF Age
<1>26. CASE SessionError
  BY <1>26 DEF SessionError
<1>27. CASE Signal
  BY <1>27 DEF Signal
<1>28. CASE StopPost
  BY <1>28 DEF StopPost
<1>29. CASE Restart
  <2>1. backoff' \in 1..maxBackoff /\ attempts' \in 0..maxAttempts
    BY <1>29 DEF Restart, ForgetProcess
  <2>2. /\ pc' \in [Actors -> RcLabels \cup SigLabels]
        /\ pc'["rc"] \in RcLabels /\ pc'["sig"] \in SigLabels
    BY <1>29 DEF Restart, StartLabels
  <2>3. iter' \in [Actors -> Nat]
    BY <1>29 DEF Restart, ForgetProcess
  <2> QED
    BY <1>29, <2>1, <2>2, <2>3 DEF Restart, ForgetProcess
<1> QED
  BY <1>1, <1>2, <1>3, <1>4, <1>5, <1>6, <1>7, <1>8, <1>9, <1>10, <1>11, 
     <1>12, <1>13, <1>14, <1>15, <1>16, <1>17, <1>18, <1>19, <1>20, 
     <1>21, <1>22, <1>23, <1>24, <1>25, <1>26, <1>27, <1>28, <1>29 DEF AliveStep

\* So is the bookkeeping of the process and of its retry budget.
LEMMA StepLifeInv ==
    ASSUME TypeOK, LifeInv, RuleInv, AliveStep
    PROVE  LifeInv'
<1> USE BudgetPositive DEF TypeOK, HostTypeOK, HostClean, LifeInv, RuleInv,
            hostVars, procVars, budgetVars, sessVars, Actors, Goto, CountFailure, ShuttingDown, SigLabels
<1>1. CASE StartReconnect
  BY <1>1 DEF StartReconnect
<1>2. CASE DialFails
  BY <1>2 DEF DialFails
<1>3. CASE ConnectIPFails
  BY <1>3 DEF ConnectIPFails
<1>4. CASE DialSucceeds
  BY <1>4 DEF DialSucceeds
<1>5. CASE RoutesFail
  BY <1>5 DEF RoutesFail
<1>6. CASE RoutesArrive
  BY <1>6 DEF RoutesArrive
<1>7. CASE TunFails
  BY <1>7 DEF TunFails
<1>8. ASSUME NEW d \in Devs, TunCreate(d) PROVE LifeInv'
  BY <1>8 DEF TunCreate, OpenDevs
<1>9. CASE LinkFails
  BY <1>9 DEF LinkFails, BuildFails
<1>10. CASE LinkUp
  BY <1>10 DEF LinkUp
<1>11. ASSUME NEW p \in Prefixes, AddRoute(p) PROVE LifeInv'
  BY <1>11 DEF AddRoute, RouteReplace
<1>12. ASSUME NEW p \in Prefixes, AddRouteFails(p) PROVE LifeInv'
  BY <1>12 DEF AddRouteFails, BuildFails
<1>13. CASE EnterBootstrap
  BY <1>13 DEF EnterBootstrap
<1>14. CASE BootstrapCleanup
  BY <1>14 DEF BootstrapCleanup, delAllTable9000Rules, delSuppressRule
<1>15. CASE AddRule
  BY <1>15 DEF AddRule, RuleAdd
<1>16. CASE AddSuppress
  BY <1>16 DEF AddSuppress, SuppressAdd
<1>17. CASE StartSession
  BY <1>17 DEF StartSession
<1>18. CASE AnnounceUp
  BY <1>18 DEF AnnounceUp
<1>19. CASE TunnelReturns
  BY <1>19 DEF TunnelReturns, cancelled
<1>20. CASE BackoffWait
  BY <1>20 DEF BackoffWait
<1>21. ASSUME NEW a \in Actors, GracefullyShutdown(a) PROVE LifeInv'
  BY <1>21 DEF GracefullyShutdown, delAllTable9000Rules,
      delSuppressRule, RouteFlush, NoRoutes
<1>22. ASSUME NEW a \in Actors, cancel(a) PROVE LifeInv'
  BY <1>22 DEF cancel, cancelled
<1>23. ASSUME NEW d \in Devs, CloseSession(d) PROVE LifeInv'
  BY <1>23 DEF CloseSession, WithoutDev
<1>24. ASSUME NEW d \in Devs, CollectLeaked(d) PROVE LifeInv'
  BY <1>24 DEF CollectLeaked, WithoutDev
<1>25. CASE Age
  BY <1>25 DEF Age
<1>26. CASE SessionError
  BY <1>26 DEF SessionError
<1>27. CASE Signal
  BY <1>27 DEF Signal
<1>28. CASE StopPost
  BY <1>28 DEF StopPost
<1>29. CASE Restart
  BY <1>29 DEF Restart, StartLabels, ForgetProcess
<1> QED
  BY <1>1, <1>2, <1>3, <1>4, <1>5, <1>6, <1>7, <1>8, <1>9, <1>10, <1>11, 
     <1>12, <1>13, <1>14, <1>15, <1>16, <1>17, <1>18, <1>19, <1>20, 
     <1>21, <1>22, <1>23, <1>24, <1>25, <1>26, <1>27, <1>28, <1>29 DEF AliveStep

\* So are the bounds on the number of rules.
LEMMA StepRuleInv ==
    ASSUME TypeOK, RuleInv, AliveStep
    PROVE  RuleInv'
<1> USE ClientAssumption DEF ClientAssumption, TypeOK, HostTypeOK, RuleInv,
            hostVars, procVars, budgetVars, sessVars, Actors, Goto, CountFailure, ShuttingDown, SigLabels
<1>1. CASE StartReconnect
  BY <1>1 DEF StartReconnect
<1>2. CASE DialFails
  BY <1>2 DEF DialFails
<1>3. CASE ConnectIPFails
  BY <1>3 DEF ConnectIPFails
<1>4. CASE DialSucceeds
  BY <1>4 DEF DialSucceeds
<1>5. CASE RoutesFail
  BY <1>5 DEF RoutesFail
<1>6. CASE RoutesArrive
  BY <1>6 DEF RoutesArrive
<1>7. CASE TunFails
  BY <1>7 DEF TunFails
<1>8. ASSUME NEW d \in Devs, TunCreate(d) PROVE RuleInv'
  BY <1>8 DEF TunCreate, OpenDevs
<1>9. CASE LinkFails
  BY <1>9 DEF LinkFails, BuildFails
<1>10. CASE LinkUp
  BY <1>10 DEF LinkUp
<1>11. ASSUME NEW p \in Prefixes, AddRoute(p) PROVE RuleInv'
  BY <1>11 DEF AddRoute, RouteReplace
<1>12. ASSUME NEW p \in Prefixes, AddRouteFails(p) PROVE RuleInv'
  BY <1>12 DEF AddRouteFails, BuildFails
<1>13. CASE EnterBootstrap
  BY <1>13 DEF EnterBootstrap
<1>14. CASE BootstrapCleanup
  BY <1>14 DEF BootstrapCleanup, delAllTable9000Rules, delSuppressRule
<1>15. CASE AddRule
  BY <1>15 DEF AddRule, RuleAdd
<1>16. CASE AddSuppress
  BY <1>16 DEF AddSuppress, SuppressAdd
<1>17. CASE StartSession
  BY <1>17 DEF StartSession
<1>18. CASE AnnounceUp
  BY <1>18 DEF AnnounceUp
<1>19. CASE TunnelReturns
  BY <1>19 DEF TunnelReturns, cancelled
<1>20. CASE BackoffWait
  BY <1>20 DEF BackoffWait
<1>21. ASSUME NEW a \in Actors, GracefullyShutdown(a) PROVE RuleInv'
  BY <1>21 DEF GracefullyShutdown, delAllTable9000Rules,
      delSuppressRule, RouteFlush, NoRoutes
<1>22. ASSUME NEW a \in Actors, cancel(a) PROVE RuleInv'
  BY <1>22 DEF cancel, cancelled
<1>23. ASSUME NEW d \in Devs, CloseSession(d) PROVE RuleInv'
  BY <1>23 DEF CloseSession, WithoutDev
<1>24. ASSUME NEW d \in Devs, CollectLeaked(d) PROVE RuleInv'
  BY <1>24 DEF CollectLeaked, WithoutDev
<1>25. CASE Age
  BY <1>25 DEF Age
<1>26. CASE SessionError
  BY <1>26 DEF SessionError
<1>27. CASE Signal
  BY <1>27 DEF Signal
<1>28. CASE StopPost
  BY <1>28 DEF StopPost
<1>29. CASE Restart
  BY <1>29 DEF Restart, StartLabels, ForgetProcess
<1> QED
  BY <1>1, <1>2, <1>3, <1>4, <1>5, <1>6, <1>7, <1>8, <1>9, <1>10, <1>11, 
     <1>12, <1>13, <1>14, <1>15, <1>16, <1>17, <1>18, <1>19, <1>20, 
     <1>21, <1>22, <1>23, <1>24, <1>25, <1>26, <1>27, <1>28, <1>29 DEF AliveStep

\* Steps that leave the handler, the history and who ended the process alone keep
\* SignalInv, as long as they add no rule.
LEMMA QuietSignalInv ==
    ASSUME TypeOK, TypeOK', SignalInv,
           pc'["sig"] = pc["sig"], iter'["sig"] = iter["sig"],
           UNCHANGED <<raced, cancelBy, exitBy>>,
           rules' <= rules, suppress' <= suppress
    PROVE  SignalInv'
<1>1. /\ rules \in Nat /\ rules' \in Nat /\ suppress \in Nat /\ suppress' \in Nat
      /\ iter["sig"] \in Nat /\ RuleDelLimit \in Nat /\ SuppressDelLimit \in Nat
  BY ClientAssumption DEF ClientAssumption, TypeOK, HostTypeOK, Actors
<1>2. HostClean => HostClean'
  BY <1>1 DEF HostClean
<1>3. rules = 0 => rules' = 0
  BY <1>1
<1>4. /\ rules + iter["sig"] <= RuleDelLimit => rules' + iter["sig"] <= RuleDelLimit
      /\ suppress + iter["sig"] <= SuppressDelLimit
            => suppress' + iter["sig"] <= SuppressDelLimit
  BY <1>1
<1> QED
  BY <1>2, <1>3, <1>4 DEF SignalInv

\* The handler removes everything, unless the loop adds rules behind it.
LEMMA StepSignalInv ==
    ASSUME TypeOK, TypeOK', LifeInv, RuleInv, SignalInv, AliveStep
    PROVE  SignalInv'
<1> USE DEF hostVars, procVars, budgetVars, sessVars, Goto
<1>1. /\ rules \in Nat /\ suppress \in Nat /\ raced \in BOOLEAN
      /\ pc \in [Actors -> RcLabels \cup SigLabels] /\ iter \in [Actors -> Nat]
      /\ "rc" \in Actors /\ "sig" \in Actors
      /\ RuleDelLimit \in Nat \ {0} /\ SuppressDelLimit \in Nat \ {0}
  BY ClientAssumption DEF ClientAssumption, TypeOK, HostTypeOK, Actors
<1>2. CASE \/ StartReconnect \/ DialFails \/ ConnectIPFails \/ DialSucceeds
           \/ RoutesFail \/ RoutesArrive \/ TunFails \/ LinkFails \/ LinkUp
           \/ EnterBootstrap \/ StartSession \/ AnnounceUp \/ TunnelReturns
           \/ BackoffWait \/ Age \/ SessionError
           \/ \E d \in Devs : TunCreate(d) \/ CloseSession(d) \/ CollectLeaked(d)
           \/ \E p \in Prefixes : AddRoute(p) \/ AddRouteFails(p)
  <2>1. /\ pc'["sig"] = pc["sig"] /\ UNCHANGED <<iter, raced, cancelBy, exitBy>>
        /\ UNCHANGED <<rules, suppress>>
    BY <1>1, <1>2
    DEF StartReconnect, DialFails, ConnectIPFails, DialSucceeds, RoutesFail,
        RoutesArrive, TunFails, LinkFails, LinkUp, EnterBootstrap, StartSession,
        AnnounceUp, TunnelReturns, BackoffWait, Age, SessionError, TunCreate,
        CloseSession, CollectLeaked, AddRoute, AddRouteFails, BuildFails, CountFailure
  <2> QED
    BY <1>1, <2>1, QuietSignalInv
<1>3. CASE BootstrapCleanup
  <2>1. /\ pc'["sig"] = pc["sig"] /\ iter'["sig"] = iter["sig"]
        /\ UNCHANGED <<raced, cancelBy, exitBy>>
        /\ rules' <= rules /\ suppress' <= suppress
    BY <1>1, <1>3 DEF BootstrapCleanup, delAllTable9000Rules, delSuppressRule
  <2> QED
    BY <2>1, QuietSignalInv
<1>4. CASE AddRule \/ AddSuppress
  <2>1. /\ pc'["sig"] = pc["sig"] /\ UNCHANGED <<iter, cancelBy, exitBy>>
        /\ raced' <=> (raced \/ pc["sig"] # "wait")
    BY <1>1, <1>4 DEF AddRule, AddSuppress, NoteRace
  <2>2. exitBy = "none"
    BY <1>4 DEF AddRule, AddSuppress, LifeInv
  <2> QED
    BY <2>1, <2>2 DEF SignalInv
<1>5. CASE GracefullyShutdown("rc")
  <2>1. /\ pc'["sig"] = pc["sig"] /\ iter'["sig"] = iter["sig"]
        /\ UNCHANGED <<raced, cancelBy, exitBy>>
        /\ rules' <= rules /\ suppress' <= suppress
    BY <1>1, <1>5 DEF GracefullyShutdown, delAllTable9000Rules, delSuppressRule
  <2> QED
    BY <2>1, QuietSignalInv
<1>6. CASE GracefullyShutdown("sig")
  <2>1. exitBy = "none" /\ UNCHANGED <<raced, cancelBy, exitBy>>
    BY <1>6 DEF GracefullyShutdown, delAllTable9000Rules, delSuppressRule, LifeInv
  <2>2. CASE delAllTable9000Rules("sig", "sdRules", "sdSuppress")
    BY <1>1, <2>1, <2>2 DEF delAllTable9000Rules, SignalInv, RuleInv, HostClean
  <2>3. CASE delSuppressRule("sig", "sdSuppress", "sdFlush")
    BY <1>1, <2>1, <2>3 DEF delSuppressRule, SignalInv, RuleInv, HostClean
  <2>4. CASE pc["sig"] = "sdFlush" /\ Goto("sig", "sdCancel")
             /\ UNCHANGED <<rules, suppress, iter>>
    BY <1>1, <2>1, <2>4 DEF SignalInv, HostClean
  <2> QED
    BY <1>6, <2>2, <2>3, <2>4 DEF GracefullyShutdown
<1>7. ASSUME NEW a \in Actors, cancel(a) PROVE SignalInv'
  BY <1>1, <1>7 DEF cancel, cancelled, SignalInv, HostClean, Actors
<1>8. CASE Signal
  BY <1>1, <1>8 DEF Signal, SignalInv, RuleInv, HostClean
<1>9. CASE StopPost
  <2>1. rules' <= rules /\ UNCHANGED <<pc, iter, raced, cancelBy, exitBy, suppress>>
    BY <1>1, <1>9 DEF StopPost
  <2> QED
    BY <1>1, <2>1, QuietSignalInv
<1>10. CASE Restart
  BY <1>10 DEF Restart, StartLabels, ForgetProcess, SignalInv, Actors
<1> QED
  BY <1>2, <1>3, <1>4, <1>5, <1>6, <1>7, <1>8, <1>9, <1>10 DEF AliveStep, Actors

\* So is the account of who holds a device.
LEMMA StepDevInv ==
    ASSUME TypeOK, LifeInv, DevInv, AliveStep
    PROVE  DevInv'
<1> USE HostAssumption DEF HostAssumption, TypeOK, HostTypeOK, NoRoutes, DevInv,
            Equipped,
            hostVars, procVars, budgetVars, sessVars, Actors, Goto, CountFailure, Bootstrapping, InSession, ShuttingDown, SigLabels
<1>1. CASE StartReconnect
  BY <1>1 DEF StartReconnect
<1>2. CASE DialFails
  BY <1>2 DEF DialFails
<1>3. CASE ConnectIPFails
  BY <1>3 DEF ConnectIPFails
<1>4. CASE DialSucceeds
  BY <1>4 DEF DialSucceeds
<1>5. CASE RoutesFail
  BY <1>5 DEF RoutesFail
<1>6. CASE RoutesArrive
  BY <1>6 DEF RoutesArrive
<1>7. CASE TunFails
  BY <1>7 DEF TunFails
<1>8. ASSUME NEW d \in Devs, TunCreate(d) PROVE DevInv'
  BY <1>8 DEF TunCreate, OpenDevs
<1>9. CASE LinkFails
  BY <1>9 DEF LinkFails, BuildFails
<1>10. CASE LinkUp
  BY <1>10 DEF LinkUp
<1>11. ASSUME NEW p \in Prefixes, AddRoute(p) PROVE DevInv'
  BY <1>11 DEF AddRoute, RouteReplace
<1>12. ASSUME NEW p \in Prefixes, AddRouteFails(p) PROVE DevInv'
  BY <1>12 DEF AddRouteFails, BuildFails
<1>13. CASE EnterBootstrap
  BY <1>13 DEF EnterBootstrap
<1>14. CASE BootstrapCleanup
  BY <1>14 DEF BootstrapCleanup, delAllTable9000Rules, delSuppressRule
<1>15. CASE AddRule
  BY <1>15 DEF AddRule, RuleAdd
<1>16. CASE AddSuppress
  BY <1>16 DEF AddSuppress, SuppressAdd
<1>17. CASE StartSession
  BY <1>17 DEF StartSession
<1>18. CASE AnnounceUp
  BY <1>18 DEF AnnounceUp
<1>19. CASE TunnelReturns
  BY <1>19 DEF TunnelReturns, cancelled
<1>20. CASE BackoffWait
  BY <1>20 DEF BackoffWait
<1>21. ASSUME NEW a \in Actors, GracefullyShutdown(a) PROVE DevInv'
  BY <1>21 DEF GracefullyShutdown, delAllTable9000Rules,
      delSuppressRule, RouteFlush, NoRoutes
<1>22. ASSUME NEW a \in Actors, cancel(a) PROVE DevInv'
  BY <1>22 DEF cancel, cancelled
<1>23. ASSUME NEW d \in Devs, CloseSession(d) PROVE DevInv'
  BY <1>23 DEF CloseSession, WithoutDev
<1>24. ASSUME NEW d \in Devs, CollectLeaked(d) PROVE DevInv'
  BY <1>24 DEF CollectLeaked, WithoutDev
<1>25. CASE Age
  BY <1>25 DEF Age
<1>26. CASE SessionError
  BY <1>26 DEF SessionError
<1>27. CASE Signal
  BY <1>27 DEF Signal
<1>28. CASE StopPost
  BY <1>28 DEF StopPost
<1>29. CASE Restart
  <2>1. pc["rc"] = "off" /\ pc'["rc"] = "init"
    BY <1>29 DEF Restart, StartLabels, LifeInv
  <2> QED
    BY <1>29, <2>1 DEF Restart, ForgetProcess
<1> QED
  BY <1>1, <1>2, <1>3, <1>4, <1>5, <1>6, <1>7, <1>8, <1>9, <1>10, <1>11, 
     <1>12, <1>13, <1>14, <1>15, <1>16, <1>17, <1>18, <1>19, <1>20, 
     <1>21, <1>22, <1>23, <1>24, <1>25, <1>26, <1>27, <1>28, <1>29 DEF AliveStep

\* So is the account of what is installed.
LEMMA StepInstallInv ==
    ASSUME TypeOK, LifeInv, RuleInv, DevInv, InstallInv, AliveStep
    PROVE  InstallInv'
<1> USE HostAssumption DEF HostAssumption, TypeOK, HostTypeOK, InstallInv, Equipped,
            hostVars, procVars, budgetVars, sessVars, Actors, Goto, CountFailure, Bootstrapping, InSession, ShuttingDown, SigLabels
<1>1. CASE StartReconnect
  BY <1>1 DEF StartReconnect
<1>2. CASE DialFails
  BY <1>2 DEF DialFails
<1>3. CASE ConnectIPFails
  BY <1>3 DEF ConnectIPFails
<1>4. CASE DialSucceeds
  BY <1>4 DEF DialSucceeds
<1>5. CASE RoutesFail
  BY <1>5 DEF RoutesFail
<1>6. CASE RoutesArrive
  BY <1>6 DEF RoutesArrive, DevInv
<1>7. CASE TunFails
  BY <1>7 DEF TunFails, DevInv
<1>8. ASSUME NEW d \in Devs, TunCreate(d) PROVE InstallInv'
  BY <1>8 DEF TunCreate, OpenDevs, DevInv
<1>9. CASE LinkFails
  BY <1>9 DEF LinkFails, BuildFails, DevInv
<1>10. CASE LinkUp
  BY <1>10 DEF LinkUp
<1>11. ASSUME NEW p \in Prefixes, AddRoute(p) PROVE InstallInv'
  BY <1>11 DEF AddRoute, RouteReplace
<1>12. ASSUME NEW p \in Prefixes, AddRouteFails(p) PROVE InstallInv'
  BY <1>12 DEF AddRouteFails, BuildFails, DevInv
<1>13. CASE EnterBootstrap
  BY <1>13 DEF EnterBootstrap
<1>14. CASE BootstrapCleanup
  BY <1>14 DEF BootstrapCleanup, delAllTable9000Rules, delSuppressRule, DevInv
<1>15. CASE AddRule
  BY <1>15 DEF AddRule, RuleAdd, RuleInv, DevInv
<1>16. CASE AddSuppress
  BY <1>16 DEF AddSuppress, SuppressAdd, RuleInv, DevInv
<1>17. CASE StartSession
  BY <1>17 DEF StartSession
<1>18. CASE AnnounceUp
  BY <1>18 DEF AnnounceUp
<1>19. CASE TunnelReturns
  BY <1>19 DEF TunnelReturns, cancelled
<1>20. CASE BackoffWait
  BY <1>20 DEF BackoffWait
<1>21. ASSUME NEW a \in Actors, GracefullyShutdown(a) PROVE InstallInv'
  BY <1>21 DEF GracefullyShutdown, delAllTable9000Rules,
      delSuppressRule, RouteFlush, NoRoutes, DevInv
<1>22. ASSUME NEW a \in Actors, cancel(a) PROVE InstallInv'
  BY <1>22 DEF cancel, cancelled
<1>23. ASSUME NEW d \in Devs, CloseSession(d) PROVE InstallInv'
  BY <1>23 DEF CloseSession, WithoutDev, DevInv
<1>24. ASSUME NEW d \in Devs, CollectLeaked(d) PROVE InstallInv'
  BY <1>24 DEF CollectLeaked, WithoutDev, DevInv
<1>25. CASE Age
  BY <1>25 DEF Age
<1>26. CASE SessionError
  BY <1>26 DEF SessionError
<1>27. CASE Signal
  BY <1>27 DEF Signal
<1>28. CASE StopPost
  BY <1>28 DEF StopPost, LifeInv
<1>29. CASE Restart
  BY <1>29 DEF Restart, StartLabels, ForgetProcess
<1> QED
  BY <1>1, <1>2, <1>3, <1>4, <1>5, <1>6, <1>7, <1>8, <1>9, <1>10, <1>11, 
     <1>12, <1>13, <1>14, <1>15, <1>16, <1>17, <1>18, <1>19, <1>20, 
     <1>21, <1>22, <1>23, <1>24, <1>25, <1>26, <1>27, <1>28, <1>29 DEF AliveStep

\* Only AddRule and AddSuppress add a rule, and only where there is none.
AddsWhereNoneIs ==
    /\ rules' > rules => rules = 0
    /\ suppress' > suppress => suppress = 0

LEMMA StepAdds ==
    ASSUME TypeOK, RuleInv, AliveStep
    PROVE  AddsWhereNoneIs
<1> USE DEF TypeOK, HostTypeOK, RuleInv, AddsWhereNoneIs, hostVars
<1>1. CASE StartReconnect
  BY <1>1 DEF StartReconnect
<1>2. CASE DialFails
  BY <1>2 DEF DialFails
<1>3. CASE ConnectIPFails
  BY <1>3 DEF ConnectIPFails
<1>4. CASE DialSucceeds
  BY <1>4 DEF DialSucceeds
<1>5. CASE RoutesFail
  BY <1>5 DEF RoutesFail
<1>6. CASE RoutesArrive
  BY <1>6 DEF RoutesArrive
<1>7. CASE TunFails
  BY <1>7 DEF TunFails
<1>8. ASSUME NEW d \in Devs, TunCreate(d) PROVE AddsWhereNoneIs
  BY <1>8 DEF TunCreate, OpenDevs
<1>9. CASE LinkFails
  BY <1>9 DEF LinkFails, BuildFails
<1>10. CASE LinkUp
  BY <1>10 DEF LinkUp
<1>11. ASSUME NEW p \in Prefixes, AddRoute(p) PROVE AddsWhereNoneIs
  BY <1>11 DEF AddRoute, RouteReplace
<1>12. ASSUME NEW p \in Prefixes, AddRouteFails(p) PROVE AddsWhereNoneIs
  BY <1>12 DEF AddRouteFails, BuildFails
<1>13. CASE EnterBootstrap
  BY <1>13 DEF EnterBootstrap
<1>14. CASE BootstrapCleanup
  BY <1>14 DEF BootstrapCleanup, delAllTable9000Rules, delSuppressRule
<1>15. CASE AddRule
  BY <1>15 DEF AddRule, RuleAdd
<1>16. CASE AddSuppress
  BY <1>16 DEF AddSuppress, SuppressAdd
<1>17. CASE StartSession
  BY <1>17 DEF StartSession
<1>18. CASE AnnounceUp
  BY <1>18 DEF AnnounceUp
<1>19. CASE TunnelReturns
  BY <1>19 DEF TunnelReturns, cancelled
<1>20. CASE BackoffWait
  BY <1>20 DEF BackoffWait
<1>21. ASSUME NEW a \in Actors, GracefullyShutdown(a) PROVE AddsWhereNoneIs
  BY <1>21 DEF GracefullyShutdown, delAllTable9000Rules,
      delSuppressRule, RouteFlush, NoRoutes
<1>22. ASSUME NEW a \in Actors, cancel(a) PROVE AddsWhereNoneIs
  BY <1>22 DEF cancel, cancelled
<1>23. ASSUME NEW d \in Devs, CloseSession(d) PROVE AddsWhereNoneIs
  BY <1>23 DEF CloseSession, WithoutDev
<1>24. ASSUME NEW d \in Devs, CollectLeaked(d) PROVE AddsWhereNoneIs
  BY <1>24 DEF CollectLeaked, WithoutDev
<1>25. CASE Age
  BY <1>25 DEF Age
<1>26. CASE SessionError
  BY <1>26 DEF SessionError
<1>27. CASE Signal
  BY <1>27 DEF Signal
<1>28. CASE StopPost
  BY <1>28 DEF StopPost
<1>29. CASE Restart
  BY <1>29 DEF Restart, StartLabels, ForgetProcess
<1> QED
  BY <1>1, <1>2, <1>3, <1>4, <1>5, <1>6, <1>7, <1>8, <1>9, <1>10, <1>11, 
     <1>12, <1>13, <1>14, <1>15, <1>16, <1>17, <1>18, <1>19, <1>20, 
     <1>21, <1>22, <1>23, <1>24, <1>25, <1>26, <1>27, <1>28, <1>29 DEF AliveStep

\* What the end of a process does to the invariant: nothing is left but the
\* rules, and after a voluntary exit not even those.
LEMMA EndInv ==
    ASSUME Inv, NEW why \in {"rc", "sig", "fatal", "panic", "killed"},
           ProcessEnd(why), proc = "running", why \in Actors => why = cancelBy
    PROVE  Inv'
<1> USE DEF Inv
<1>1. TypeOK'
  BY EndTypeOK
<1>2. pc' = [a \in Actors |-> "off"] /\ pc'["rc"] = "off" /\ pc'["sig"] = "off"
  BY DEF ProcessEnd, Actors
<1>3. LifeInv'
  BY <1>2
  DEF LifeInv, RuleInv, ProcessEnd, ForgetProcess, HostClean, ShuttingDown, Actors
<1>4. RuleInv'
  BY <1>2 DEF RuleInv, ProcessEnd, ForgetProcess, Actors
<1>5. DevInv'
  BY <1>2 DEF DevInv, ProcessEnd, ForgetProcess, NoRoutes, Equipped, Bootstrapping,
              InSession
<1>6. InstallInv'
  BY <1>2 DEF InstallInv, ProcessEnd, ForgetProcess, Equipped, Bootstrapping
<1>7. SignalInv'
  BY <1>2 DEF SignalInv, ProcessEnd, ForgetProcess, HostClean, Actors
<1> QED
  BY <1>1, <1>3, <1>4, <1>5, <1>6, <1>7

LEMMA InitInv == Init => Inv
<1> SUFFICES ASSUME Init PROVE Inv
  OBVIOUS
<1>1. pc["rc"] = "init" /\ pc["sig"] = "wait"
  BY DEF Init, StartLabels, Actors
<1>2. LifeInv
  BY <1>1, BudgetPositive DEF Init, LifeInv, ShuttingDown
<1>3. RuleInv
  BY <1>1, ClientAssumption DEF Init, RuleInv, ClientAssumption, Actors
<1>4. DevInv
  BY <1>1 DEF Init, DevInv, NoRoutes, Equipped, Bootstrapping, InSession
<1>5. InstallInv
  BY <1>1 DEF Init, InstallInv, Equipped, Bootstrapping
<1>6. SignalInv
  BY <1>1 DEF Init, SignalInv, Actors
<1> QED
  BY InitTypeOK, <1>2, <1>3, <1>4, <1>5, <1>6 DEF Inv

LEMMA NextInv == Inv /\ [Next]_vars => Inv'
<1> SUFFICES ASSUME Inv, [Next]_vars PROVE Inv'
  OBVIOUS
<1> USE DEF Inv
<1>1. CASE AliveStep
  BY <1>1, StepTypeOK, StepLifeInv, StepRuleInv, StepSignalInv, StepDevInv,
     StepInstallInv
<1>2. CASE \E why \in {"rc", "sig", "fatal", "panic", "killed"} :
              /\ ProcessEnd(why)
              /\ proc = "running"
              /\ why \in Actors => why = cancelBy
  BY <1>2, EndInv
<1>3. CASE UNCHANGED vars
  BY <1>3 DEF vars, hostVars, procVars, budgetVars, sessVars, TypeOK, HostTypeOK,
     LifeInv, HostClean, RuleInv, SignalInv, DevInv, InstallInv
<1> QED
  BY <1>1, <1>2, <1>3, NextSplit

\* The inductive invariant holds in every reachable state.
THEOREM Invariance == Spec => []Inv
  BY InitInv, NextInv, PTL DEF Spec

\* Every variable of the client keeps its type: the retry counter stays within
\* its budget and the backoff within its ceiling (main.go:436-507).
THEOREM TypeCorrect == Spec => []TypeOK
<1>1. Inv => TypeOK
  BY DEF Inv
<1> QED
  BY <1>1, Invariance, PTL

\* A client that gave up leaves no rule behind, for every interleaving of the
\* reconnect loop with a signal handler (giveUp, main.go:446).
THEOREM GiveUpClean == Spec => []GiveUpLeavesHostClean
<1>1. Inv => GiveUpLeavesHostClean
  BY DEF Inv, LifeInv, GiveUpLeavesHostClean
<1> QED
  BY <1>1, Invariance, PTL

\* An exit on a signal leaves no rule behind, for all limits of the delete loops
\* and every interleaving, unless Bootstrap added one after the signal had come
\* (main.go:216-233, 316).
THEOREM SignalClean == Spec => []UnracedSignalExitIsClean
<1>1. Inv => UnracedSignalExitIsClean
  BY DEF Inv, SignalInv, UnracedSignalExitIsClean
<1> QED
  BY <1>1, Invariance, PTL

\* A live session has exactly its own rules and all of its routes, whatever
\* devices of earlier sessions are still being closed (main.go:473, 776).
THEOREM SessionsAreRouted == Spec => []SessionRouted
<1>1. Inv => SessionRouted
  BY DEF Inv, DevInv, InstallInv, SessionRouted
<1> QED
  BY <1>1, Invariance, PTL

\* Between attempts table 9000 is empty once the dropped session's device is
\* closed, so the host is not blackholed (main.go:424).
THEOREM WaitsFailOpen == Spec => []WaitingFailsOpen
<1>1. Inv => WaitingFailsOpen
  <2> SUFFICES ASSUME Inv, pc["rc"] = "backoff", closing = {}, leaked = {}
               PROVE  table = NoRoutes
    BY DEF WaitingFailsOpen
  <2>1. live = NoDev
    BY DEF Inv, DevInv, InSession
  <2>2. \A p \in Prefixes : table[p] = NoDev
    BY <2>1 DEF Inv, DevInv, Equipped, Bootstrapping
  <2> QED
    BY <2>2 DEF Inv, TypeOK, HostTypeOK, NoRoutes
<1> QED
  BY <1>1, Invariance, PTL

\* Rules never accumulate: a rule is only added when there is none of its kind
\* (Bootstrap, main.go:212).
THEOREM RulesDoNotAccumulate == Spec => OneRuleAtATime
<1>1. Inv /\ [Next]_vars => [AddsWhereNoneIs]_vars
  <2> SUFFICES ASSUME Inv, Next PROVE AddsWhereNoneIs
    OBVIOUS
  <2>1. CASE AliveStep
    BY <2>1, StepAdds DEF Inv
  <2>2. CASE \E why \in {"rc", "sig", "fatal", "panic", "killed"} : ProcessEnd(why)
    BY <2>2 DEF ProcessEnd, AddsWhereNoneIs, Inv, TypeOK, HostTypeOK
  <2> QED
    BY <2>1, <2>2, NextSplit DEF Inv
<1> QED
  BY <1>1, Invariance, PTL DEF Spec, OneRuleAtATime, AddsWhereNoneIs
----------------------------------------------------------------------------
(* Client implements ReconnectPolicy, under the mapping of the client's    *)
(* labels to the phases of the policy defined in Client.                   *)

PolicyStep == Policy!PolicyNext \/ UNCHANGED Policy!pvars

\* A step of a process that goes on is a step of the policy, or none.
LEMMA StepRefines ==
    ASSUME Inv, Inv', AliveStep
    PROVE  PolicyStep
<1> USE BudgetPositive
    DEF Inv, TypeOK, HostTypeOK, LifeInv, PolicyStep, policyPhase,
        policyOutcome, HostClean, ShuttingDown, InSession, Actors, Goto, CountFailure,
        hostVars, procVars, budgetVars, sessVars,
        Policy!PolicyNext, Policy!pvars, Policy!Begin, Policy!Connect,
        Policy!Stabilise, Policy!Fail, Policy!Forgive, Policy!Reconfigure,
        Policy!Abandon, Policy!Again
<1>1. CASE StartReconnect
  BY <1>1 DEF StartReconnect
<1>2. CASE DialFails
  BY <1>2 DEF DialFails
<1>3. CASE ConnectIPFails
  BY <1>3 DEF ConnectIPFails
<1>4. CASE DialSucceeds
  BY <1>4 DEF DialSucceeds
<1>5. CASE RoutesFail
  BY <1>5 DEF RoutesFail
<1>6. CASE RoutesArrive
  BY <1>6 DEF RoutesArrive
<1>7. CASE TunFails
  BY <1>7 DEF TunFails
<1>8. ASSUME NEW d \in Devs, TunCreate(d) PROVE PolicyStep
  BY <1>8 DEF TunCreate, OpenDevs
<1>9. CASE LinkFails
  BY <1>9 DEF LinkFails, BuildFails
<1>10. CASE LinkUp
  BY <1>10 DEF LinkUp
<1>11. ASSUME NEW p \in Prefixes, AddRoute(p) PROVE PolicyStep
  BY <1>11 DEF AddRoute, RouteReplace
<1>12. ASSUME NEW p \in Prefixes, AddRouteFails(p) PROVE PolicyStep
  BY <1>12 DEF AddRouteFails, BuildFails
<1>13. CASE EnterBootstrap
  BY <1>13 DEF EnterBootstrap
<1>14. CASE BootstrapCleanup
  BY <1>14 DEF BootstrapCleanup, delAllTable9000Rules, delSuppressRule
<1>15. CASE AddRule
  BY <1>15 DEF AddRule, RuleAdd
<1>16. CASE AddSuppress
  BY <1>16 DEF AddSuppress, SuppressAdd
<1>17. CASE StartSession
  BY <1>17 DEF StartSession
<1>18. CASE AnnounceUp
  BY <1>18 DEF AnnounceUp
<1>19. CASE TunnelReturns
  BY <1>19 DEF TunnelReturns, cancelled
<1>20. CASE BackoffWait
  BY <1>20 DEF BackoffWait
<1>21. ASSUME NEW a \in Actors, GracefullyShutdown(a) PROVE PolicyStep
  BY <1>21 DEF GracefullyShutdown, delAllTable9000Rules,
      delSuppressRule, RouteFlush, NoRoutes
<1>22. ASSUME NEW a \in Actors, cancel(a) PROVE PolicyStep
  BY <1>22 DEF cancel, cancelled
<1>23. ASSUME NEW d \in Devs, CloseSession(d) PROVE PolicyStep
  BY <1>23 DEF CloseSession, WithoutDev
<1>24. ASSUME NEW d \in Devs, CollectLeaked(d) PROVE PolicyStep
  BY <1>24 DEF CollectLeaked, WithoutDev
<1>25. CASE Age
  BY <1>25 DEF Age
<1>26. CASE SessionError
  BY <1>26 DEF SessionError
<1>27. CASE Signal
  BY <1>27 DEF Signal
<1>28. CASE StopPost
  BY <1>28 DEF StopPost
<1>29. CASE Restart
  BY <1>29 DEF Restart, StartLabels, ForgetProcess
<1> QED
  BY <1>1, <1>2, <1>3, <1>4, <1>5, <1>6, <1>7, <1>8, <1>9, <1>10, <1>11, 
     <1>12, <1>13, <1>14, <1>15, <1>16, <1>17, <1>18, <1>19, <1>20, 
     <1>21, <1>22, <1>23, <1>24, <1>25, <1>26, <1>27, <1>28, <1>29 DEF AliveStep

\* The end of a process is Quit after a voluntary exit, else CutShort.
LEMMA EndRefines ==
    ASSUME Inv, NEW why \in {"rc", "sig", "fatal", "panic", "killed"},
           ProcessEnd(why), proc = "running", why \in Actors => why = cancelBy
    PROVE  PolicyStep
<1>1. policyPhase' = "gone" /\ policyPhase # "gone"
  BY DEF policyPhase, ProcessEnd
<1>2. UNCHANGED <<attempts, HostClean>>
  BY DEF ProcessEnd, HostClean
<1>3. CASE why = "rc"
  <2>1. pc["rc"] = "gaveUp" /\ attempts = maxAttempts /\ HostClean
    BY <1>3 DEF Inv, LifeInv, RuleInv, HostClean, Actors
  <2>2. policyPhase = "quitting" /\ policyOutcome' = "gaveUp"
    BY <1>3, <2>1 DEF policyPhase, policyOutcome, ProcessEnd, InSession
  <2> QED
    BY <1>1, <1>2, <2>1, <2>2 DEF PolicyStep, Policy!PolicyNext, Policy!Quit
<1>4. CASE why # "rc"
  <2>1. policyOutcome' = "cutShort"
    BY <1>4 DEF policyOutcome, ProcessEnd
  <2> QED
    BY <1>1, <1>2, <2>1 DEF PolicyStep, Policy!PolicyNext, Policy!CutShort
<1> QED
  BY <1>3, <1>4

\* The client implements the reconnect policy: the initial states are initial
\* states of the policy and every step is one of its steps or none.
THEOREM Refinement == Spec => ImplementsPolicy
<1>1. Init => Policy!PolicyInit
  <2> SUFFICES ASSUME Init PROVE Policy!PolicyInit
    OBVIOUS
  <2>1. policyPhase = "starting"
    <3>1. proc = "running" /\ pc["rc"] = "init"
      BY DEF Init, StartLabels, Actors
    <3> QED
      BY <3>1 DEF policyPhase, InSession, ShuttingDown
  <2>2. policyOutcome = "none" /\ attempts = 0
    BY DEF Init, policyOutcome
  <2> QED
    BY <2>1, <2>2 DEF Policy!PolicyInit
<1>2. Inv /\ Inv' /\ [Next]_vars => [Policy!PolicyNext]_(Policy!pvars)
  <2> SUFFICES ASSUME Inv, Inv', [Next]_vars PROVE PolicyStep
    BY DEF PolicyStep
  <2>1. CASE AliveStep
    BY <2>1, StepRefines
  <2>2. CASE \E why \in {"rc", "sig", "fatal", "panic", "killed"} :
                /\ ProcessEnd(why)
                /\ proc = "running"
                /\ why \in Actors => why = cancelBy
    BY <2>2, EndRefines
  <2>3. CASE UNCHANGED vars
    BY <2>3 DEF vars, hostVars, procVars, budgetVars, sessVars, PolicyStep,
       Policy!pvars, policyPhase, policyOutcome, HostClean
  <2> QED
    BY <2>1, <2>2, <2>3, NextSplit DEF Inv
<1> QED
  BY <1>1, <1>2, Invariance, PTL DEF Spec, ImplementsPolicy, Policy!PolicySpec
=============================================================================
