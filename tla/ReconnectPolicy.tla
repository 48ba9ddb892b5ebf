--------------------------- MODULE ReconnectPolicy ---------------------------
(***************************************************************************)
(* What the reconnect loop promises, with no goroutine, device or command  *)
(* in it: consecutive failures are counted, only a stable session forgives *)
(* them, a client whose budget is used up quits, and one that quits leaves *)
(* a clean host.  Everything else that can end a process is "cut short"    *)
(* and promises nothing of the host.  Client implements this module.       *)
(***************************************************************************)
EXTENDS Naturals

CONSTANT Budget

VARIABLES
    phase,     \* what the client is doing
    failures,  \* consecutive failures since the last stable session
    dirty,     \* rules of a client are installed on the host
    outcome    \* how the last process ended

pvars == <<phase, failures, dirty, outcome>>

Phases == {"starting", "trying", "up", "stable", "quitting", "ending", "gone"}

PolicyInit ==
    /\ phase = "starting" /\ failures = 0 /\ outcome = "none"
    /\ dirty \in BOOLEAN

Begin ==
    /\ phase = "starting" /\ phase' = "trying"
    /\ UNCHANGED <<failures, dirty, outcome>>

Connect ==
    /\ phase = "trying" /\ phase' = "up"
    /\ UNCHANGED <<failures, dirty, outcome>>

Stabilise ==
    /\ phase = "up" /\ phase' = "stable"
    /\ UNCHANGED <<failures, dirty, outcome>>

\* A failed attempt or a session dropped before it was stable.
Fail ==
    /\ phase \in {"trying", "up"}
    /\ failures' = failures + 1
    /\ \/ failures' < Budget /\ phase' = "trying"
       \/ failures' = Budget /\ phase' = "quitting"
    /\ UNCHANGED <<dirty, outcome>>

Forgive ==
    /\ phase = "stable" /\ phase' = "trying"
    /\ failures' = 0
    /\ UNCHANGED <<dirty, outcome>>

\* Rules are installed only by an attempt; they may be removed at any time.
Reconfigure ==
    /\ dirty' \in BOOLEAN
    /\ dirty' => dirty \/ phase = "trying"
    /\ UNCHANGED <<phase, failures, outcome>>

Quit ==
    /\ phase = "quitting" /\ failures = Budget /\ ~dirty
    /\ phase' = "gone" /\ outcome' = "gaveUp"
    /\ UNCHANGED <<failures, dirty>>

\* The loop stops because somebody else is ending the process.
Abandon ==
    /\ phase \in {"trying", "up", "stable"} /\ phase' = "ending"
    /\ UNCHANGED <<failures, dirty, outcome>>

CutShort ==
    /\ phase # "gone" /\ phase' = "gone" /\ outcome' = "cutShort"
    /\ UNCHANGED <<failures, dirty>>

Again ==
    /\ phase = "gone" /\ phase' = "starting"
    /\ failures' = 0 /\ outcome' = "none"
    /\ UNCHANGED dirty

PolicyNext ==
    \/ Begin \/ Connect \/ Stabilise \/ Fail \/ Forgive \/ Reconfigure
    \/ Quit \/ Abandon \/ CutShort \/ Again

PolicySpec == PolicyInit /\ [][PolicyNext]_pvars

==============================================================================
