------------------------------- MODULE Client -------------------------------
(***************************************************************************)
(* The life of a tmasque process: main() and its goroutines (main.go).     *)
(*                                                                         *)
(*   "rc"   the reconnect loop: dial, build the TUN device, install routes *)
(*          and rules, run the session, count failures, give up;           *)
(*   "sig"  the signal handler: GracefullyShutdown, then cancel;           *)
(*   a watcher per session that closes it after its first error, and main  *)
(*   itself, which returns when the context is cancelled.                  *)
(*                                                                         *)
(* The processes share the host's rules and table 9000 (HostRouting)       *)
(* without any lock: every /sbin/ip command is a step of its own.  Host    *)
(* state survives the process; Restart starts a new one on the same host.  *)
(***************************************************************************)
EXTENDS HostRouting

CONSTANTS
    ReconnectAttempts,  \* RECONNECT_ATTEMPTS; 0 when unset, malformed or < 1
    RuleDelLimit,       \* iterations of delAllTable9000Rules (64)
    SuppressDelLimit,   \* iterations of delSuppressRule (8)
    MaxStaleRules,      \* rules earlier, uncleanly ended runs may have left
    MaxStaleSuppress

ASSUME ClientAssumption ==
    /\ ReconnectAttempts \in Nat
    /\ RuleDelLimit \in Nat \ {0}
    /\ SuppressDelLimit \in Nat \ {0}
    /\ MaxStaleRules \in 0..RuleDelLimit
    /\ MaxStaleSuppress \in 0..SuppressDelLimit

VARIABLES
    proc,        \* the process: "running", "exited", "stopped" (by OpenRC)
    exitBy,      \* what ended it: "rc" (gave up), "sig", "fatal", "panic", ...
    cancelBy,    \* who cancelled the context first, "none" before that
    raced,       \* history: the loop added a rule after a signal had come
    pc,          \* where each goroutine stands
    iter,        \* iterations done of the delete loop a goroutine is in
    attempts,    \* consecutive failures since the last stable session
    backoff,     \* seconds to wait before the next attempt
    adv,         \* prefixes the server advertised for this attempt
    todo,        \* those of adv whose route is not installed yet
    fullTunnel,  \* a default route is among those installed
    dev,         \* TUN device of the current attempt or session
    live,        \* TUN device of the session whose watcher has seen no error
    closing,     \* TUN devices of failed sessions not closed yet
    leaked,      \* TUN devices a failed attempt left open
    orphaned,    \* a failed attempt left a QUIC connection or its socket open
    aged         \* the session has been up for stableUptime

procVars == <<proc, exitBy, cancelBy, raced>>
budgetVars == <<attempts, backoff>>
sessVars == <<adv, todo, fullTunnel, dev, live, closing, leaked, orphaned, aged>>
vars == <<hostVars, procVars, pc, iter, budgetVars, sessVars>>

Actors == {"rc", "sig"}

Dialling == {"dial", "routes"}
Building == {"tun", "link", "addRoutes"}
Bootstrapping == {"bootRules", "bootSuppress", "addRule", "addSuppress"}
InSession == {"up", "tunnel"}
ShuttingDown == {"sdRules", "sdSuppress", "sdFlush", "sdCancel"}

RcLabels == {"init", "start", "backoff", "gaveUp", "returned", "off"}
            \cup Dialling \cup Building \cup Bootstrapping
            \cup InSession \cup ShuttingDown
SigLabels == {"wait", "handled", "off"} \cup ShuttingDown

cancelled == cancelBy # "none"

\* maxAttempts as main() derives it from the configuration.
maxAttempts == IF ReconnectAttempts > 0 THEN ReconnectAttempts ELSE 1

maxBackoff == 15

TypeOK ==
    /\ HostTypeOK
    /\ proc \in {"running", "exited", "stopped"}
    /\ exitBy \in {"none", "rc", "sig", "fatal", "panic", "killed"}
    /\ cancelBy \in {"none"} \cup Actors
    /\ raced \in BOOLEAN
    /\ pc \in [Actors -> RcLabels \cup SigLabels]
    /\ pc["rc"] \in RcLabels /\ pc["sig"] \in SigLabels
    /\ iter \in [Actors -> Nat]
    /\ attempts \in 0..maxAttempts
    /\ backoff \in 1..maxBackoff
    /\ adv \in SUBSET Prefixes /\ todo \in SUBSET Prefixes
    /\ fullTunnel \in BOOLEAN
    /\ dev \in Devs \cup {NoDev} /\ live \in Devs \cup {NoDev}
    /\ closing \in SUBSET Devs /\ leaked \in SUBSET Devs
    /\ orphaned \in BOOLEAN /\ aged \in BOOLEAN

----------------------------------------------------------------------------
StartLabels == [a \in Actors |-> IF a = "rc" THEN "init" ELSE "wait"]

\* The host as earlier runs left it, and a fresh process.
Init ==
    /\ rules \in 0..MaxStaleRules
    /\ suppress \in 0..MaxStaleSuppress
    /\ table = NoRoutes
    /\ proc = "running" /\ exitBy = "none" /\ cancelBy = "none" /\ raced = FALSE
    /\ pc = StartLabels
    /\ iter = [a \in Actors |-> 0]
    /\ attempts = 0 /\ backoff = 1
    /\ adv = {} /\ todo = {} /\ fullTunnel = FALSE
    /\ dev = NoDev /\ live = NoDev /\ closing = {} /\ leaked = {}
    /\ orphaned = FALSE /\ aged = FALSE

\* What a process owns, back at its initial values.
ForgetProcess ==
    /\ cancelBy' = "none"
    /\ iter' = [a \in Actors |-> 0]
    /\ backoff' = 1
    /\ adv' = {} /\ todo' = {} /\ fullTunnel' = FALSE
    /\ dev' = NoDev /\ live' = NoDev /\ closing' = {} /\ leaked' = {}
    /\ orphaned' = FALSE /\ aged' = FALSE

\* The process is gone and with it its goroutines, connections and TUN
\* devices; the kernel drops the routes through those.  Rules stay.
ProcessEnd(why) ==
    /\ proc' = "exited" /\ exitBy' = why
    /\ pc' = [a \in Actors |-> "off"]
    /\ ForgetProcess
    /\ table' = NoRoutes
    /\ UNCHANGED <<rules, suppress, attempts, raced>>

Goto(a, label) == pc' = [pc EXCEPT ![a] = label]

----------------------------------------------------------------------------
(* The delete loops.  `ip rule del' removes one match and fails when there *)
(* is none, which ends the loop; so does the iteration limit.  That it     *)
(* fails for no other reason is what the code assumes too (main.go:48).    *)

delAllTable9000Rules(a, at, next) ==
    /\ pc[a] = at
    /\ \/ /\ rules > 0
          /\ rules' = rules - 1
          /\ iter' = [iter EXCEPT ![a] = IF @ + 1 < RuleDelLimit THEN @ + 1 ELSE 0]
          /\ Goto(a, IF iter[a] + 1 < RuleDelLimit THEN at ELSE next)
       \/ /\ rules = 0
          /\ iter' = [iter EXCEPT ![a] = 0]
          /\ Goto(a, next)
          /\ UNCHANGED rules
    /\ UNCHANGED <<suppress, table, procVars, budgetVars, sessVars>>

delSuppressRule(a, at, next) ==
    /\ pc[a] = at
    /\ \/ /\ suppress > 0
          /\ suppress' = suppress - 1
          /\ iter' = [iter EXCEPT ![a] = IF @ + 1 < SuppressDelLimit THEN @ + 1 ELSE 0]
          /\ Goto(a, IF iter[a] + 1 < SuppressDelLimit THEN at ELSE next)
       \/ /\ suppress = 0
          /\ iter' = [iter EXCEPT ![a] = 0]
          /\ Goto(a, next)
          /\ UNCHANGED suppress
    /\ UNCHANGED <<rules, table, procVars, budgetVars, sessVars>>

(* GracefullyShutdown followed by cancel(), as giveUp and the signal       *)
(* handler both run it, possibly at the same time.                         *)

\* Faulty variant: the suppress_prefixlength rule is forgotten.
ShutdownKeepsSuppress(a) ==
    \/ delAllTable9000Rules(a, "sdRules", "sdFlush")
    \/ /\ pc[a] = "sdFlush"
       /\ RouteFlush
       /\ Goto(a, "sdCancel")
       /\ UNCHANGED <<rules, suppress, procVars, iter, budgetVars, sessVars>>

GracefullyShutdown(a) ==
    \/ delAllTable9000Rules(a, "sdRules", "sdSuppress")
    \/ delSuppressRule(a, "sdSuppress", "sdFlush")
    \/ /\ pc[a] = "sdFlush"
       /\ RouteFlush
       /\ Goto(a, "sdCancel")
       /\ UNCHANGED <<rules, suppress, procVars, iter, budgetVars, sessVars>>

\* Faulty variant: the caller returns without cancelling the context.
CancelForgotten(a) ==
    /\ pc[a] = "sdCancel"
    /\ Goto(a, IF a = "rc" THEN "gaveUp" ELSE "handled")
    /\ UNCHANGED <<hostVars, procVars, iter, budgetVars, sessVars>>

cancel(a) ==
    /\ pc[a] = "sdCancel"
    /\ cancelBy' = IF cancelled THEN cancelBy ELSE a
    /\ Goto(a, IF a = "rc" THEN "gaveUp" ELSE "handled")
    /\ UNCHANGED <<hostVars, proc, exitBy, raced, iter, budgetVars, sessVars>>

----------------------------------------------------------------------------
(* main() up to the point where the reconnect goroutine is running: load   *)
(* and parse the configuration, resolve the server, derive the MTU.        *)

StartReconnect ==
    /\ pc["rc"] = "init"
    /\ Goto("rc", "dial")
    /\ UNCHANGED <<hostVars, procVars, iter, budgetVars, sessVars>>

StartFails ==
    /\ pc["rc"] = "init"
    /\ ProcessEnd("fatal")

(* One more failure: another attempt after a pause, or giveUp. *)

\* Faulty variant: a dropped session is retried without being counted.
CountOnlyFailedDials ==
    /\ attempts' = IF pc["rc"] = "tunnel" THEN attempts ELSE attempts + 1
    /\ Goto("rc", IF attempts' >= maxAttempts THEN "sdRules" ELSE "backoff")

CountFailure ==
    /\ attempts' = attempts + 1
    /\ Goto("rc", IF attempts + 1 >= maxAttempts THEN "sdRules" ELSE "backoff")

----------------------------------------------------------------------------
(* establishMASQUEConn *)

\* No QUIC connection came up (bad FWMARK, no socket, dial timeout, TLS); the
\* UDP socket, if there is one by then, is not closed.
DialFails ==
    /\ pc["rc"] = "dial"
    /\ CountFailure
    /\ orphaned' \in {orphaned, TRUE}
    /\ UNCHANGED <<hostVars, procVars, iter, backoff, adv, todo, fullTunnel,
                   dev, live, closing, leaked, aged>>

\* Certificates that cannot be loaded panic.
DialPanics ==
    /\ pc["rc"] = "dial"
    /\ ProcessEnd("panic")

\* The QUIC connection is up but CONNECT-IP is refused or times out; the
\* function returns without closing the connection.
ConnectIPFails ==
    /\ pc["rc"] = "dial"
    /\ CountFailure
    /\ orphaned' = TRUE
    /\ UNCHANGED <<hostVars, procVars, iter, backoff, adv, todo, fullTunnel,
                   dev, live, closing, leaked, aged>>

\* The dial context is derived from ctx, so nothing connects after cancel.
DialSucceeds ==
    /\ pc["rc"] = "dial"
    /\ ~cancelled
    /\ Goto("rc", "routes")
    /\ UNCHANGED <<hostVars, procVars, iter, budgetVars, sessVars>>

\* Routes(ctx) or LocalPrefixes(ctx) returns an error; the connection stays.
RoutesFail ==
    /\ pc["rc"] = "routes"
    /\ CountFailure
    /\ orphaned' = TRUE
    /\ UNCHANGED <<hostVars, procVars, iter, backoff, adv, todo, fullTunnel,
                   dev, live, closing, leaked, aged>>

RoutesArrive ==
    /\ pc["rc"] = "routes"
    /\ adv' \in SUBSET Prefixes
    /\ Goto("rc", "tun")
    /\ UNCHANGED <<hostVars, procVars, iter, budgetVars, todo, fullTunnel,
                   dev, live, closing, leaked, orphaned, aged>>

----------------------------------------------------------------------------
(* establishTunTapAndRoutes, and establishAllTunnels around it: an error   *)
(* closes the connection, but the device is not among what was returned.   *)

OpenDevs == closing \cup leaked \cup ({dev, live} \ {NoDev})

\* The first queue of the device cannot be opened.
TunFails ==
    /\ pc["rc"] = "tun"
    /\ CountFailure
    /\ adv' = {}
    /\ UNCHANGED <<hostVars, procVars, iter, backoff, todo, fullTunnel,
                   dev, live, closing, leaked, orphaned, aged>>

\* The kernel picks a name that no open device has.
TunCreate(d) ==
    /\ pc["rc"] = "tun"
    /\ d \notin OpenDevs
    /\ dev' = d
    /\ Goto("rc", "link")
    /\ UNCHANGED <<hostVars, procVars, iter, budgetVars, adv, todo, fullTunnel,
                   live, closing, leaked, orphaned, aged>>

\* An error return once the device exists: nobody holds or closes it.
BuildFails ==
    /\ CountFailure
    /\ leaked' = leaked \cup {dev}
    /\ dev' = NoDev
    /\ adv' = {} /\ todo' = {}
    /\ UNCHANGED <<hostVars, procVars, iter, backoff, live, closing, orphaned, aged>>

\* A further queue, the MTU, an address or the link state fails.
LinkFails ==
    /\ pc["rc"] = "link"
    /\ BuildFails
    /\ UNCHANGED fullTunnel

\* LinkByName fails: its nil link goes to LinkSetMTU before err is looked at.
LinkPanics ==
    /\ pc["rc"] = "link"
    /\ ProcessEnd("panic")

LinkUp ==
    /\ pc["rc"] = "link"
    /\ todo' = adv
    /\ fullTunnel' = FALSE
    /\ Goto("rc", "addRoutes")
    /\ UNCHANGED <<hostVars, procVars, iter, budgetVars, adv, dev, live,
                   closing, leaked, orphaned, aged>>

AddRoute(p) ==
    /\ pc["rc"] = "addRoutes" /\ p \in todo
    /\ fullTunnel' = (fullTunnel \/ p = DefaultRoute)
    /\ RouteReplace(p, dev)
    /\ todo' = todo \ {p}
    /\ UNCHANGED <<rules, suppress, procVars, pc, iter, budgetVars, adv, dev,
                   live, closing, leaked, orphaned, aged>>

AddRouteFails(p) ==
    /\ pc["rc"] = "addRoutes" /\ p \in todo
    /\ fullTunnel' = (fullTunnel \/ p = DefaultRoute)
    /\ BuildFails

----------------------------------------------------------------------------
(* Bootstrap: remove what is there, then add the rules of this session.    *)

\* Faulty variant: the stale rules are not removed first.
BootstrapWithoutCleanup ==
    /\ pc["rc"] = "addRoutes" /\ todo = {}
    /\ Goto("rc", "addRule")
    /\ UNCHANGED <<hostVars, procVars, iter, budgetVars, sessVars>>

EnterBootstrap ==
    /\ pc["rc"] = "addRoutes" /\ todo = {}
    /\ Goto("rc", "bootRules")
    /\ UNCHANGED <<hostVars, procVars, iter, budgetVars, sessVars>>

BootstrapCleanup ==
    \/ delAllTable9000Rules("rc", "bootRules", "bootSuppress")
    \/ delSuppressRule("rc", "bootSuppress", "addRule")

NoteRace == raced' = (raced \/ pc["sig"] # "wait")

AddRule ==
    /\ pc["rc"] = "addRule"
    /\ RuleAdd
    /\ NoteRace
    /\ Goto("rc", IF fullTunnel THEN "addSuppress" ELSE "start")
    /\ UNCHANGED <<suppress, table, proc, exitBy, cancelBy, iter, budgetVars, sessVars>>

AddSuppress ==
    /\ pc["rc"] = "addSuppress"
    /\ SuppressAdd
    /\ NoteRace
    /\ Goto("rc", "start")
    /\ UNCHANGED <<rules, table, proc, exitBy, cancelBy, iter, budgetVars, sessVars>>

\* logger.Fatal: exit without GracefullyShutdown.
BootstrapFatal ==
    /\ pc["rc"] \in {"addRule", "addSuppress"}
    /\ ProcessEnd("fatal")

----------------------------------------------------------------------------
(* The session: tunnel(), its watcher, and what follows a drop.            *)

\* Connected: the watcher goroutine and the packet pumps are started.
StartSession ==
    /\ pc["rc"] = "start"
    /\ backoff' = 1
    /\ aged' = FALSE
    /\ live' = dev
    /\ Goto("rc", "up")
    /\ UNCHANGED <<hostVars, procVars, iter, attempts, adv, todo, fullTunnel,
                   dev, closing, leaked, orphaned>>

\* isRunningChan <- true.  The event loop is always back at its receive:
\* RunPostUp only starts a goroutine, and nobody sends it anything else.
AnnounceUp ==
    /\ pc["rc"] = "up"
    /\ Goto("rc", "tunnel")
    /\ UNCHANGED <<hostVars, procVars, iter, budgetVars, sessVars>>

\* stableUptime has passed since the session started.
Age ==
    /\ pc["rc"] \in InSession /\ ~aged
    /\ aged' = TRUE
    /\ UNCHANGED <<hostVars, procVars, pc, iter, budgetVars, adv, todo,
                   fullTunnel, dev, live, closing, leaked, orphaned>>

\* A pump reports its first error: the watcher cancels the session's context
\* and goes on to close the connection and the device.
SessionError ==
    /\ live # NoDev
    /\ closing' = closing \cup {live}
    /\ live' = NoDev
    /\ UNCHANGED <<hostVars, procVars, pc, iter, budgetVars, adv, todo,
                   fullTunnel, dev, leaked, orphaned, aged>>

\* Faulty variant: the watcher closes the connections but not the device.
CloseOnlyConnection(d) ==
    /\ d \in closing
    /\ closing' = closing \ {d}
    /\ UNCHANGED <<hostVars, procVars, pc, iter, budgetVars, adv, todo,
                   fullTunnel, dev, live, leaked, orphaned, aged>>

CloseSession(d) ==
    /\ d \in closing
    /\ closing' = closing \ {d}
    /\ table' = WithoutDev(d)
    /\ UNCHANGED <<rules, suppress, procVars, pc, iter, budgetVars, adv, todo,
                   fullTunnel, dev, live, leaked, orphaned, aged>>

\* The garbage collector closes the descriptor of an unreachable device.
CollectLeaked(d) ==
    /\ d \in leaked
    /\ leaked' = leaked \ {d}
    /\ table' = WithoutDev(d)
    /\ UNCHANGED <<rules, suppress, procVars, pc, iter, budgetVars, adv, todo,
                   fullTunnel, dev, live, closing, orphaned, aged>>

\* tunnel() returns: the session's context or the whole one is cancelled.
TunnelReturns ==
    /\ pc["rc"] = "tunnel"
    /\ \/ /\ cancelled
          /\ Goto("rc", "returned")
          /\ UNCHANGED <<budgetVars, dev, adv, aged>>
       \/ /\ ~cancelled /\ live = NoDev /\ aged
          /\ attempts' = 0 /\ backoff' = 1
          /\ dev' = NoDev /\ adv' = {} /\ aged' = FALSE
          /\ Goto("rc", "dial")
       \/ /\ ~cancelled /\ live = NoDev /\ ~aged
          /\ CountFailure
          /\ dev' = NoDev /\ adv' = {}
          /\ UNCHANGED <<backoff, aged>>
    /\ UNCHANGED <<hostVars, procVars, iter, todo, fullTunnel, live, closing,
                   leaked, orphaned>>

\* Faulty variant: the exponential backoff has no ceiling.
BackoffUncapped ==
    /\ pc["rc"] = "backoff"
    /\ \/ /\ cancelled
          /\ Goto("rc", "returned")
          /\ UNCHANGED backoff
       \/ /\ backoff' = 2 * backoff
          /\ Goto("rc", "dial")
    /\ UNCHANGED <<hostVars, procVars, iter, attempts, sessVars>>

\* select on ctx.Done() and time.After(backoff); either when both are ready.
BackoffWait ==
    /\ pc["rc"] = "backoff"
    /\ \/ /\ cancelled
          /\ Goto("rc", "returned")
          /\ UNCHANGED backoff
       \/ /\ backoff' = IF 2 * backoff < maxBackoff THEN 2 * backoff ELSE maxBackoff
          /\ Goto("rc", "dial")
    /\ UNCHANGED <<hostVars, procVars, iter, attempts, sessVars>>

----------------------------------------------------------------------------
(* Signals, the end of the process, and the next one.                      *)

\* SIGHUP, SIGINT, SIGTERM or SIGQUIT; the handler takes only the first.
Signal ==
    /\ pc["sig"] = "wait"
    /\ Goto("sig", "sdRules")
    /\ UNCHANGED <<hostVars, procVars, iter, budgetVars, sessVars>>

\* main() returns from <-ctx.Done(), wherever the goroutines are.
MainReturns ==
    /\ cancelled
    /\ pc["rc"] # "init"
    /\ ProcessEnd(cancelBy)

\* SIGKILL, power loss of the process.
Kill ==
    /\ proc = "running"
    /\ ProcessEnd("killed")

\* stop_post of the OpenRC script: one `ip rule del table 9000'.
StopPost ==
    /\ proc = "exited"
    /\ proc' = "stopped"
    /\ rules' = IF rules > 0 THEN rules - 1 ELSE 0
    /\ UNCHANGED <<suppress, table, exitBy, cancelBy, raced, pc, iter, budgetVars, sessVars>>

Restart ==
    /\ proc \in {"exited", "stopped"}
    /\ proc' = "running" /\ exitBy' = "none" /\ raced' = FALSE
    /\ pc' = StartLabels
    /\ ForgetProcess
    /\ attempts' = 0
    /\ UNCHANGED hostVars

----------------------------------------------------------------------------
Establish ==
    \/ DialFails \/ DialPanics \/ ConnectIPFails \/ DialSucceeds
    \/ RoutesFail \/ RoutesArrive
    \/ TunFails \/ (\E d \in Devs : TunCreate(d))
    \/ LinkFails \/ LinkPanics \/ LinkUp
    \/ \E p \in Prefixes : AddRoute(p) \/ AddRouteFails(p)
    \/ EnterBootstrap \/ BootstrapCleanup
    \/ AddRule \/ AddSuppress \/ BootstrapFatal

RcNext ==
    \/ StartReconnect \/ StartFails
    \/ Establish
    \/ StartSession \/ AnnounceUp \/ TunnelReturns \/ BackoffWait
    \/ GracefullyShutdown("rc") \/ cancel("rc")

SigNext == GracefullyShutdown("sig") \/ cancel("sig")

Watcher == \E d \in Devs : CloseSession(d)

Environment ==
    \/ SessionError \/ Signal \/ Kill \/ StopPost \/ Restart
    \/ \E d \in Devs : CollectLeaked(d)

Next == RcNext \/ SigNext \/ Watcher \/ MainReturns \/ Age \/ Environment

Spec == Init /\ [][Next]_vars

\* Goroutines that can run do run, calls return, and time passes.  Nothing
\* is assumed of signals, kills, session errors or restarts.
FairSpec ==
    /\ Spec
    /\ WF_vars(RcNext) /\ WF_vars(SigNext) /\ WF_vars(Watcher)
    /\ WF_vars(MainReturns) /\ WF_vars(Age)

----------------------------------------------------------------------------
(* Why the safety properties hold: the parts of the inductive invariant.   *)

\* The process, its context and the retry budget.
LifeInv ==
    /\ proc = "running" <=> pc["rc"] # "off"
    /\ proc = "running" => exitBy = "none"
    /\ proc # "running" => cancelBy = "none" /\ pc["sig"] = "off"
    /\ cancelBy = "rc" => pc["rc"] = "gaveUp"
    /\ pc["rc"] \in ShuttingDown \cup {"gaveUp"} => attempts = maxAttempts
    /\ pc["rc"] \notin ShuttingDown \cup {"gaveUp", "off"} => attempts < maxAttempts
    /\ exitBy = "rc" => HostClean /\ attempts = maxAttempts

\* The reconnect loop alone adds rules, and its delete loops are long enough.
RuleInv ==
    /\ rules <= RuleDelLimit /\ suppress <= SuppressDelLimit
    /\ pc["rc"] \notin {"bootRules", "sdRules", "bootSuppress", "sdSuppress"}
          => iter["rc"] = 0
    /\ pc["rc"] \in {"bootRules", "sdRules"} => rules + iter["rc"] <= RuleDelLimit
    /\ pc["rc"] \in {"bootSuppress", "sdSuppress"}
          => suppress + iter["rc"] <= SuppressDelLimit
    /\ pc["rc"] \in {"bootSuppress", "addRule", "sdSuppress", "sdFlush", "sdCancel", "gaveUp"}
          => rules = 0
    /\ pc["rc"] \in {"addRule", "addSuppress", "sdFlush", "sdCancel", "gaveUp"}
          => suppress = 0

\* From the signal on rules only go away, unless the loop adds some, and the
\* handler's delete loops are long enough as well.
SignalInv ==
    /\ pc["sig"] \in {"wait", "sdFlush", "sdCancel", "handled"} => iter["sig"] = 0
    /\ pc["sig"] = "wait" => ~raced
    /\ cancelBy = "sig" => pc["sig"] = "handled"
    /\ ~raced =>
          /\ pc["sig"] = "sdRules" => rules + iter["sig"] <= RuleDelLimit
          /\ pc["sig"] = "sdSuppress" =>
                rules = 0 /\ suppress + iter["sig"] <= SuppressDelLimit
          /\ pc["sig"] \in {"sdFlush", "sdCancel", "handled"} => HostClean
          /\ exitBy = "sig" => HostClean

\* The loop has a device from TunCreate until its session is up.
Equipped == {"link", "addRoutes", "start"} \cup Bootstrapping

\* Who holds a TUN device, and that table 9000 routes to open devices only.
DevInv ==
    /\ pc["rc"] \in Equipped => dev # NoDev /\ dev \notin closing \cup leaked
    /\ pc["rc"] \notin Equipped \cup InSession \cup {"returned"} => dev = NoDev
    /\ live # NoDev => /\ pc["rc"] \in InSession \cup {"returned"}
                       /\ live = dev /\ dev \notin closing \cup leaked
    /\ pc["rc"] = "off" => table = NoRoutes
    /\ \A p \in Prefixes : \/ table[p] \in closing \cup leaked \cup {live, NoDev}
                           \/ pc["rc"] \in Equipped /\ table[p] = dev

\* What is installed for the attempt or session, as long as no signal came.
InstallInv ==
    /\ pc["rc"] \in Equipped \ {"link"} =>
          /\ todo \subseteq adv
          /\ fullTunnel <=> DefaultRoute \in adv \ todo
    /\ pc["rc"] \in Equipped \ {"link", "addRoutes"} => todo = {}
    /\ pc["rc"] = "addSuppress" => fullTunnel
    /\ pc["sig"] = "wait" =>
          /\ pc["rc"] \in Equipped \ {"link"} =>
                \A p \in adv \ todo : table[p] = dev
          /\ pc["rc"] \in {"addSuppress", "start"} => rules = 1
          /\ pc["rc"] = "start" => suppress = (IF fullTunnel THEN 1 ELSE 0)
          /\ live # NoDev =>
                /\ rules = 1
                /\ suppress = (IF DefaultRoute \in adv THEN 1 ELSE 0)
                /\ \A p \in adv : table[p] = dev

Inv == TypeOK /\ LifeInv /\ RuleInv /\ SignalInv /\ DevInv /\ InstallInv

----------------------------------------------------------------------------
(* Safety *)

\* A rule is only ever added when no rule of its kind is there, whatever
\* earlier runs left and whoever else is deleting: Bootstrap's cleanup keeps
\* retries and unclean exits from accumulating rules (main.go:212).
OneRuleAtATime ==
    [][/\ rules' > rules => rules = 0
       /\ suppress' > suppress => suppress = 0]_vars

\* A client that gave up has used its whole budget and leaves neither the
\* fwmark rule nor the suppress rule behind, even when a signal handler runs
\* GracefullyShutdown at the same time (giveUp, main.go:446).
GiveUpLeavesHostClean ==
    exitBy = "rc" => HostClean /\ attempts = maxAttempts

\* An exit on a signal leaves neither rule behind, wherever the signal found the
\* reconnect loop and however the two shut down together, unless Bootstrap added
\* a rule after the signal had come (main.go:216-233, 316).
UnracedSignalExitIsClean == exitBy = "sig" /\ ~raced => HostClean

\* While a session lives and no shutdown has begun, exactly its rules are
\* installed and every advertised prefix is routed to its own device: the
\* late close of an earlier session's device takes none of them away
\* (`route replace', main.go:776; the watcher, main.go:473).
SessionRouted ==
    live # NoDev /\ pc["sig"] = "wait" =>
        /\ live = dev
        /\ rules = 1
        /\ suppress = (IF DefaultRoute \in adv THEN 1 ELSE 0)
        /\ \A p \in adv : table[p] = dev

\* While the client pauses between attempts, table 9000 is empty as soon as
\* the watcher has closed the dropped session and no device was leaked: the
\* rule that stays in place cannot blackhole the host (main.go:424).
WaitingFailsOpen ==
    pc["rc"] = "backoff" /\ closing = {} /\ leaked = {} => table = NoRoutes

(* The abstract policy, and how a state of the client is read as one of    *)
(* its states.                                                             *)

policyPhase ==
    CASE proc # "running" -> "gone"
      [] proc = "running" /\ pc["rc"] = "init" -> "starting"
      [] proc = "running" /\ pc["rc"] \in InSession /\ ~aged -> "up"
      [] proc = "running" /\ pc["rc"] \in InSession /\ aged -> "stable"
      [] proc = "running" /\ pc["rc"] \in ShuttingDown \cup {"gaveUp"} -> "quitting"
      [] proc = "running" /\ pc["rc"] = "returned" -> "ending"
      [] OTHER -> "trying"

policyOutcome ==
    IF exitBy = "none" THEN "none"
    ELSE IF exitBy = "rc" THEN "gaveUp" ELSE "cutShort"

Policy == INSTANCE ReconnectPolicy WITH
    Budget <- maxAttempts, phase <- policyPhase, failures <- attempts,
    dirty <- ~HostClean, outcome <- policyOutcome

\* The client implements the reconnect policy: failures are counted and
\* forgiven, the budget enforced and the host cleaned as the comment at
\* main.go:420 describes, whatever the interleaving.
ImplementsPolicy == Policy!PolicySpec

(* Liveness *)

\* From every attempt on, the client reaches a stable session or the process
\* ends: a server that cannot be reached, or that keeps dropping sessions,
\* does not keep it alive for ever (main.go:422).
StableOrExit == (pc["rc"] = "dial") ~> (aged \/ proc # "running")

\* A signal ends the process, wherever the reconnect loop is (main.go:316).
SignalEndsProcess == (pc["sig"] = "sdRules") ~> (proc # "running")

(* What the repository says and the code does not do *)

\* "On exit the client removes its `not fwmark table 9000` policy rule"
\* (tmasque.conf.template:15), nor may its suppress rule stay (main.go:62): for
\* an exit on a signal.
SignalExitLeavesHostClean == exitBy = "sig" => HostClean

\* "All-or-nothing: any failure tears down what was opened so the caller can
\* retry cleanly" (establishAllTunnels, main.go:652).
AllOrNothing == pc["rc"] = "backoff" => leaked = {} /\ ~orphaned

============================================================================
