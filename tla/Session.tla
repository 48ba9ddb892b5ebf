------------------------------- MODULE Session -------------------------------
(***************************************************************************)
(* What the reconnect loop relies on when it runs tunnel() (main.go): a    *)
(* session lives until it fails, a failed session is closed, and tunnel()  *)
(* returns once the session has failed or the process is told to quit, and *)
(* never before.  Client takes its sessions to be like this (SessionError, *)
(* CloseSession, TunnelReturns); Pump shows that tunnel() provides it.     *)
(***************************************************************************)

VARIABLES
    phase,  \* "live", "failed" or "closed"
    stage,  \* of tunnel(): "announce", "wait" or "returned"
    quit    \* the process has been told to quit

sessionVars == <<phase, stage, quit>>

SessionInit == phase = "live" /\ stage = "announce" /\ quit = FALSE

Fail == phase = "live" /\ phase' = "failed" /\ UNCHANGED <<stage, quit>>

Close == phase = "failed" /\ phase' = "closed" /\ UNCHANGED <<stage, quit>>

Announce == stage = "announce" /\ stage' = "wait" /\ UNCHANGED <<phase, quit>>

Return ==
    /\ stage = "wait" /\ (quit \/ phase # "live")
    /\ stage' = "returned"
    /\ UNCHANGED <<phase, quit>>

Quit == ~quit /\ quit' = TRUE /\ UNCHANGED <<phase, stage>>

SessionNext == Fail \/ Close \/ Announce \/ Return \/ Quit

SessionSafety == SessionInit /\ [][SessionNext]_sessionVars

\* A failed session is closed and tunnel() returns, unless the process ends
\* first.
SessionSpec ==
    /\ SessionSafety
    /\ WF_sessionVars(~quit /\ Close)
    /\ WF_sessionVars(~quit /\ (Announce \/ Return))
==============================================================================
