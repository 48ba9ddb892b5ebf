---------------------------- MODULE HostRouting ----------------------------
(***************************************************************************)
(* The host state the client edits by running /sbin/ip: the policy rules   *)
(* that point at table 9000, the `suppress_prefixlength 0' rule of         *)
(* full-tunnel mode, and table 9000 itself.  Each operator is one command, *)
(* hence one atomic step of the kernel; the modules that EXTEND this one   *)
(* say who runs which command, and when.                                   *)
(***************************************************************************)
EXTENDS Naturals

CONSTANTS
    Prefixes,      \* prefixes a server may advertise
    DefaultRoute,  \* the prefix 0.0.0.0/0
    Devs,          \* names the kernel may give to TUN devices
    NoDev          \* "no device"

ASSUME HostAssumption ==
    /\ DefaultRoute \in Prefixes
    /\ NoDev \notin Devs

VARIABLES
    rules,     \* number of `not fwmark ... table 9000' rules
    suppress,  \* number of `table main suppress_prefixlength 0' rules
    table      \* table 9000: prefix -> device, NoDev when there is no route

hostVars == <<rules, suppress, table>>

NoRoutes == [p \in Prefixes |-> NoDev]

HostTypeOK ==
    /\ rules \in Nat
    /\ suppress \in Nat
    /\ table \in [Prefixes -> Devs \cup {NoDev}]

\* Nothing of the client is left in the rule database.
HostClean == rules = 0 /\ suppress = 0

----------------------------------------------------------------------------
\* `ip rule add not fwmark <FWMARK> table 9000'
RuleAdd == rules' = rules + 1

\* `ip rule add table main suppress_prefixlength 0'
SuppressAdd == suppress' = suppress + 1

\* Faulty variant: `ip route add' with its "File exists" error ignored.
RouteAddIgnoringExisting(p, d) ==
    table' = [table EXCEPT ![p] = IF @ = NoDev THEN d ELSE @]

\* `ip route replace p dev d table 9000'
RouteReplace(p, d) == table' = [table EXCEPT ![p] = d]

\* `ip route flush table 9000'
RouteFlush == table' = NoRoutes

\* The table once device d is gone: the kernel drops the routes through a
\* TUN device when its last descriptor is closed.
WithoutDev(d) == [p \in Prefixes |-> IF table[p] = d THEN NoDev ELSE table[p]]

============================================================================
