# A TLA+ development of the tmasque client

`tmasque` is the client of a VPN over HTTP/3 CONNECT-IP. One process dials the server,
creates a TUN device, installs the routes the server advertises into routing table 9000,
adds policy rules that send the host's traffic there, pumps packets, reconnects after a
drop, and must leave the host's routing as it found it. This directory holds TLA+ models
of that code, the TLC configurations that check them, and TLAPS proofs about them.
Paths such as `main.go` are relative to the repository's `src/` directory.

## Inventory

| Part | State it keeps | Operations | Interaction | Model |
|---|---|---|---|---|
| Process and reconnect loop (`main.go` 307-511) | context, `attempts`, `backoff`, current session | dial, count, back off, give up, stop on a signal | goroutines share the context and the host, no lock | `Client` |
| Host routing (`main.go` 44-71, 206-257, 769-783) | rules to table 9000, suppress rule, table 9000 | one `/sbin/ip` command at a time | survives the process; edited by the loop, the handler, OpenRC and the kernel | `HostRouting` |
| Establishment (`main.go` 520-785) | QUIC connection, TUN device | dial, CONNECT-IP, routes, queues, link, addresses, routes | called by the loop; every error is a failed attempt | `Client` |
| Packet pumps, `tunnel()` (`main.go` 468-484, 787-944) | `eChan`, session context, queues, buffers | download reader, one upload reader per queue, watcher | first error reaches the watcher, which cancels and closes the session | `Pump`, `Session` |
| Forward resequencer (`utility/reseq.go` 58-248) | per flow: `nextSeq`, `buf`, `lastSeen` | `Push`, `FlushExpired`, `drain`, `skipGap` | called by the download reader only | `Reseq` |
| Reorder observers (`utility/reseq.go` 10-56, 250-308) | high-water marks, ring and set per flow | `Observe` | counters read by the statistics ticker | `Observers`, `SeenWindow` |
| Configuration (`config/`) | the parsed file, the inotify watch | `Load`, `Watch`, `reloadAndApply` | writes the logger's level and the statistics flag | `ConfigWatch` |
| Logger, statistics switch and ticker (`logger/`, `stats/`, `main.go` 797-843) | a level, a flag | read everywhere, written by the watcher | unsynchronised | `ConfigWatch` |
| MTU, host tuning (`main.go` 82-204, 264-305, 747-752) | none, or `/proc` | pure functions; raise-only writes | at start or in `Bootstrap` | `HostTuning` |
| Flow hash (`main.go` 950-984) | none | pure function | picks the tunnel of an uploaded packet | `FlowHash` |

What is hard here: the signal handler, the loop and the watchers edit one routing table
with no lock; every exit path has to undo what was installed and some exits skip that;
attempts fail halfway; the retry budget decides whether a host is blackholed; the
resequencer compares wrapping sequence numbers and is driven by arriving packets only;
errors of many pumps go through one bounded channel to one watcher that takes one of them;
the configuration file is read while editors replace it.
`PROJECT.json` lists these hazards line by line with the properties aimed at them.

## Modules

`HostRouting` holds the host state and one operator per `ip` command.

`Client` extends it with the process. `pc["rc"]` is the position of the reconnect
goroutine and `pc["sig"]` that of the signal handler; each `ip` command is one step, so
all interleavings of the two are explored. The establishment functions are one action
per point at which they can fail. A session is `live` until a pump reports an error;
then its device is in `closing` until the watcher closes it, at any later time, even
while the next session is being built. Devices, and connections or their UDP sockets, that a
failed attempt leaves open are `leaked` and `orphaned`. `ProcessEnd` (exit, `logger.Fatal`, panic, kill)
removes everything the process owned and leaves the rules; `Restart` starts another
process on the same host. `raced` is a history variable: `Bootstrap` added a rule after a
signal had come. Abstracted: TLS, QUIC parameters, addresses, log output, MTU
and sysctl writes. Two things are taken from the code's surroundings: `ip rule del` fails only
when no rule matches, as the comment of the delete loops has it (`main.go:48`), and the
event loop of `main()` (`main.go:383-402`) is always back at its receive, because `RunPostUp`
only starts a goroutine, so `AnnounceUp` never blocks. `tunnelCount` is 1, as the code pins it, so the code for further
tunnels never runs.

`ReconnectPolicy` is the abstract specification behind the comment at `main.go:420-435`:
failures are counted, a stable session forgives them, the budget is final, rules are
installed only by an attempt, and a client that quits leaves none. `Client` maps its
labels to the policy's phases (`policyPhase`) and implements it (`ImplementsPolicy`).

`Reseq` is the download reader with `FORWARD_RESEQ` on. A segment is the stretch
`[pos, len]` of its stream; the code sees `pos` modulo `SeqSpace` only, and `high[f]` is
the stream position whose sequence number is `nextSeq`. Every iteration of `drain`,
`skipGap` and `FlushExpired` is a step; `pc` forces their order. Elapsed time is one bit
per flow, `idle`: `lastSeen` is at least `maxAge` ago. The environment is a TCP sender
and the receiving kernel: any segment of `Segs` from `Late` before to `SendWindow` after the
first missing position may arrive, in any order, any number of times, or never. `Segs` is
how the sender may cut its stream. `WindowAssumption` is TCP's own limit: what is under way
spans less than half of the sequence numbers. `NoOverlap` says that the stream is cut in one
way only; it is a hypothesis of some theorems, never an assumption of the module.

`Pump` is one session from the inside: the download reader, one upload reader per TUN
queue, the watcher goroutine and `tunnel()` itself, each a label. `eChan` is the number of
errors in it; a send drops the error when `Capacity` (`NumCPU + 2`) is reached. Every read may
fail at any time, and a failed read ends its pump; reads of a closed connection or queue can
only fail. Uploaded packets belong to one flow and are numbered; the kernel puts each on any
queue. All packets are as long as the device allows, so that the MTU decides whether the
connection carries or refuses them. `HostTuning` gives the MTU from the link and `TUNNEL_MTU`.
The budget it is compared with, `datagramBudget`, belongs to quic-go and connect-ip, which are
not in the repository; it is the one `main.go:739-743` works out, 39 bytes below the packet
size. `packetSize` starts at what the client pins, and `Probe` is path MTU discovery, which
the client leaves enabled.

`Session` is what `Client` assumes of a session (`SessionError`, `CloseSession`,
`TunnelReturns`): it lives until it fails, a failed one is closed, and `tunnel()` returns
after a failure or the end of the process, never before. `Pump` implements it
(`ImplementsSession`), which is how the two levels are composed.

`ConfigWatch` has inodes, the name at `CONF_PATH`, a backup name, and the inotify watches and
events of each inode. The editor truncates and rewrites, moves away and creates, removes, or
renames over. While it writes, the file says anything of `Drafts`, half a value included
(`WritePart`), and a reload puts in force what it finds. A deleted inode that is still open reports only when `reloadAndApply` closes
it. Events of one kind are merged, as the code merges them within a read, and a read may
return any part of them. `Load` applies the first settings and stands for `main()` up to the
start of the watcher. `InotifyAddWatch` may fail at any time and does when the file is absent.
`unarmed` (the last `addWatch` failed) and `early` (a save before the first watch) are history
variables for the two known ways to miss a save. The ticker of a session is there too: its start depends on the value at boot,
its output on the switch.

`Observers` has both observers of a download reader. The environment sends the segments of
each flow in order, one number each, modulo `SeqSpace`; they arrive late, again, or never,
and only while statistics are on. `lag` and `genLag` are history variables: how far the
newest segment seen is behind the newest sent; a lag of half the space means that the mark
has lost its meaning (too much passed unseen, or the connection is a new one with the old
addresses). `counted` holds the counters the last packet incremented. `SeenWindow` is the
abstract memory of `PreSendGenuineObserver`: a first-in first-out sequence of the latest
distinct numbers.

`HostTuning` and `FlowHash` are pure operators. A write to `/proc` that may fail gives the set
of values the setting may have afterwards. The FNV-1a loop is an arbitrary function of the
bytes it is fed; what matters is the order they are fed in.

`MCClient`, `MCReseq`, `MCPump`, `MCConfigWatch` and `MCObservers` instantiate the modules for
TLC. `ClientProofs`, `ReseqProofs`, `PumpProofs`, `ConfigProofs`, `ObserversProofs`,
`ObserversRefinement` and `TuningProofs` hold the proofs, and `NumberLemmas` the modular
arithmetic that both comparisons of sequence numbers rest on.

Operators commented "Faulty variant" are the plausible mistakes that the properties are
tested against; no specification uses them.

## Runs

| Run | Checks | Result |
|---|---|---|
| `client` | `TypeOK`, `GiveUpLeavesHostClean`, `UnracedSignalExitIsClean`, `SessionRouted`, `WaitingFailsOpen`, `OneRuleAtATime`, `ImplementsPolicy` | hold |
| `client_live` | `StableOrExit`, `SignalEndsProcess` under `FairSpec` | hold |
| `client_signal` | `SignalExitLeavesHostClean` | violated: Bootstrap adds the rule after the handler removed it |
| `client_partial` | `AllOrNothing` | violated: a failed attempt leaves a socket, a connection or a device open |
| `reseq` | `TypeOK`, `BufferBounded`, `NothingReadyHeld`, `WatermarkAdvances`, `HeldReachesTun`, `ReleasedInOrder`, `StreamAdvances` under `BusySpec` | hold |
| `reseq_flows` | `BufferBounded`, `NothingReadyHeld` with overlapping segments and two flows | hold |
| `reseq_stall` | `LossNeverStalls` under `FairSpec` | violated: a flow primed behind data already delivered starves |
| `reseq_overlap` | `ReleasedInOrder` with overlapping segments | violated: an obsolete entry comes back after half the sequence space |
| `pump` | `TypeOK`, `FailureReachesWatcher`, `OneQueueKeepsOrder`, `RefusedOnlyUntilProbed`, `LossEndsSession`, `PumpsReturn`, `ImplementsSession` under `FairSpec` | hold |
| `config` | `TypeOK`, `DeafOnlyIfUnarmed`, `NoSaveMissed`, `LastSaveInForce`, `StatsResume` under `FairSpec` | hold |
| `config_stats` | `HotStatsReported` under `FairSpec` | violated: a client started with statistics off never prints them |
| `observers` | `TypeOK`, `BoundedMemory`, `RingMirrorsSet`, `HighWaterExact`, `CountsReorder`, `ImplementsSeenWindow` | hold |

### Bounds

`client`: two prefixes, the default route and another, so that full and split tunnels
both occur; two devices, so that a session can be built while the former is still
closing (a third would only repeat that); delete limits 3 and 2 with up to 2 and 1 stale
rules, which keeps the code's relation (64 and 8, far above what is stale) and lets a
loop end both by its limit and by a failed delete; six attempts, so that the backoff
reaches 1, 2, 4, 8 and its ceiling 15. `client_live` uses smaller limits and two attempts.
With two devices an attempt can find none free and then only fails, which is what the
kernel would do.

`reseq`: a sequence space of 16 with a stream of 19 positions, so that it wraps; a sender
window of 3 and duplicates up to two positions late, below half the sequence space as TCP's
windows are; a window of 2, so that it overflows; segments of one position (`UnitSegs`).
`reseq_flows` has two flows, segments of length 1 and 2 at every position (`MixedSegs`) of
streams of five positions, and a window of 2, which overflows. `reseq_overlap` uses a
sequence space of 8, half of which stands for 2^31 bytes. All four satisfy
`WindowAssumption`.

`pump`: two CPUs and `TUN_QUEUES` unset or 1, so that there are two queues or one and the
channel holds four errors; up to two packets released at once (`MaxOut`) and two packets
uploaded (`MaxPackets`), the least that can be reordered; `TUNNEL_MTU` unset on a link of 1291
bytes, the smallest on which full packets fit after path MTU discovery, so that they are
refused before it and carried after it. Other links are left to the proof. The run may stop when the session is over, so deadlock is not an error.

`config`: three edits (`MaxEdits`) of three inodes, enough for a replacement, a second
replacement while the first is being read, and an in-place save; versions with a level and
the switch on, an empty level and the switch off, and an unknown level without the switch;
half-written files in which the level or the switch is cut (`CutLines`). After the last edit
nothing need happen, so deadlock is not an error.

`observers`: a sequence space of 6 and segments up to two late (`MaxLate`, below half the
space, as TCP's windows are), so that marks wrap and compare across the wrap; a ring of 2,
which fills and evicts; two symmetric flows with limits of 1, so that each new flow empties
the maps. `NotRound` bounds the sender: a flow does not come round to a number that is
still in its ring unless its mark is meaningless anyway. In the code that is 2^32 bytes
against 1024 segments.

### Fairness

`client_live` assumes weak fairness of the reconnect loop, the signal handler, the
watcher, `main` and of time: goroutines that can run do run, and calls return.
For `Routes` and `LocalPrefixes`, which have no timeout of their own, this rests on the
30 s idle timeout of QUIC; a server that keeps the connection alive and sends nothing is
outside it. Nothing is assumed of signals, kills, errors or restarts.

`reseq` and `reseq_stall` assume that the reader runs, and that a TCP sender repeats the
first unacknowledged segment after pauses longer than `maxAge` (its timeout is at least
200 ms, `maxAge` is 5 ms): strong fairness of `Retransmit` and `GoIdle`. `BusySpec` adds that other
packets arrive during the pauses; without it delivery can stall, which is the
finding of `reseq_stall`.

`pump` assumes that the pumps, the watcher and `tunnel()` run, and that reads of a closed
connection or queue fail, as long as the process is not told to quit: after that it may
end at any time. No other read need ever fail (`DownRuns`, `UpRuns`). Nothing is assumed of
packets, of the peer, of path MTU discovery or of signals. `config` and
`config_stats` assume that `main`, the watcher and the ticker run, and nothing of editors
and sessions.

## Findings

* A signal during `Bootstrap` leaves the fwmark rule, and in full-tunnel mode the suppress
  rule, on the host (`main.go:316`); OpenRC's `stop_post` removes at most one fwmark rule.
  It is the only such race: without a rule added after the signal the exit is clean
  (`UnracedSignalExitIsClean`, proved).
* A failed attempt leaks: the UDP socket after a failed dial, the QUIC connection after a CONNECT-IP, `Routes` or
  `LocalPrefixes` error, the TUN device after any error that follows its creation.
* `RECONNECT_ATTEMPTS` defaults to 1 (`main.go:436`), not to 3 as `main.go:435`,
  `tmasque.conf.template:14` and the repository's README say. This is read off the code;
  no run is spent on it.
* The repository contradicts itself on the size of packets. `datagramOverhead` is 28, so that
  the inner packet "fits one DATAGRAM" (`main.go:300`) and "inner packets never exceed" the
  budget (the repository's README, line 61); `main.go:739-743` puts the budget 39 bytes below
  the packet size. With the latter, a full packet of the derived MTU is 11 bytes too long on
  every link at the pinned size and is refused with an ICMP message until path MTU discovery
  raises it; on links below 1291 bytes it stays so (`BudgetNeedsProbing`, proved). Which of
  the two comments is right depends on the library, so no run states it as a violation.
* A half-written configuration file is put in force as it is read: `LOG_LEVEL=deb` sets `INFO`
  and `ENABLE_STATISTIC=tru` switches off. The save that follows puts it right
  (`NoSaveMissed`, proved).
* Statistics cannot be switched on by saving the configuration, as
  `tmasque.conf.template:1` says: the switch and the observers follow the file, but the
  ticker that prints the lines (and the pprof endpoint) exists only if the value read at
  boot was true (`main.go:798`). Switching off and on again works (`StatsResume`).
* `FlushExpired` runs only after a packet, and never for that packet's own flow. A flow that
  was reaped and primed again by a late segment waits for data the kernel already has;
  the sender's retransmissions are dropped as duplicates and keep the flow from expiring.
* An entry passed by an overlapping segment stays in the buffer, turns into a "future"
  one after 2^31 bytes and moves `nextSeq` back.

## Proofs

`ClientProofs`, from `HostAssumption` and `ClientAssumption` (what was stale on the host
fits the delete loops): the inductive invariant `Inv` of `Client` is the
conjunction of `TypeOK` and five parts. `LifeInv` ties `proc`, the context and the retry
counter to the loop's label; type correctness needs it, because `attempts` stays within
its budget only since a loop that is not giving up has a failure to spare. `RuleInv` says
that rules plus iterations done never exceed a delete loop's limit, so a loop that ends by
its limit has removed everything, and that the loop alone adds rules, so they stay away
until it adds its own; the handler can only help. `SignalInv` is the same argument for the
handler's loops, which holds as long as nothing was added behind them. `DevInv` says who holds each device and
that table 9000 routes to held devices only. `InstallInv` says what an attempt has
installed so far, as long as no signal came. A step either ends the process (`EndInv`) or
is one of the actions of `AliveStep`, and each part is shown to be preserved by
each. `TypeCorrect`, `GiveUpClean`, `SignalClean`, `SessionsAreRouted`, `WaitsFailOpen` and
`RulesDoNotAccumulate` follow. `Refinement` proves `Spec => ImplementsPolicy`: every action is one policy step or
a stutter under the mapping, the end of a process is `Quit` when the loop cancelled the
context and `CutShort` otherwise; `RuleInv` gives the clean host that `Quit` demands.

`ReseqProofs`, from `ReseqAssumption`: `TypeOK` is inductive with two parts. `BoundInv` (only the flow whose gap is about to be
skipped exceeds the window) and `ReadyInv` (only the flow being drained holds the segment
it waits for) give `BuffersAreBounded` and `ReadyIsDelivered` for every window, width and
segmentation, overlapping segments included.

The order of what is released is proved from `WindowAssumption` as well and under
`NoOverlap`, as `NoOverlap /\ Spec => ...`; `reseq_overlap` is the counterexample without it.
The code compares numbers, the properties compare positions, so the proof has to
keep everything it compares within half of the space. `SpanInv` says that neither the
kernel nor a buffer has anything a sender's window after a position the kernel lacks, and
`HighInv` that the kernel has the position before the watermark, nothing much after it, and
that no held segment is behind it. Hence a number's sign tells past from future
(`SerialDifference`, `DistIs`), equal numbers are equal positions, and every held segment is a
"future" one to `skipGap` (`AllFuture`), which therefore sweeps nothing away. `OrderInv` is
inductive with these, and `WatermarkNeverBack`, `HeldIsWritten` and `InOrder` follow for every
stream length, however often the numbers wrap.

`PumpProofs`, from `PumpAssumption`: the invariant adds to `TypeOK` and
`FailureReachesWatcher` the order of the packets (what a pump has in its buffer is below
what waits on its queue, and with one queue what was sent is not above it), and that the context
of the session is cancelled exactly from the watcher's `connCancel` on, which the refinement
needs. `FailureReachesWatcher` is inductive because a report never lowers `eChan` and leaves it
above 0, and only the watcher takes from it. `TypeCorrect`, `PumpsAreHeard`, `StrictOrder`,
`ProbedPathCarries` (`RefusedOnlyUntilProbed`) and `SessionRefinement` (the safety part of
`ImplementsSession`) follow, for any number of queues, CPUs and packets and all MTUs.

`ConfigProofs`, from `ConfigAssumption`: `DeafOnlyIfUnarmed` becomes inductive with `TypeOK`
(the watcher has a file open exactly while it applies one), `NameInv` (path and backup are
different inodes, so a file that loses one name has lost its last) and `StartInv` (no watcher
before `Load`). The argument is in `Attentive`: an inode that loses its last name is reported
at once, or, while a reload has it open, when the reload closes it. `TypeCorrect`
and `StaysAttentive` follow for any number of inodes, versions and edits.
`SavesAreApplied` (`NoSaveMissed`) needs `SyncInv` in addition: only the file at the path is
being written (`WriteInv`), a file that was replaced while the watcher has it open is succeeded
by one that is not watched yet (`OpenInv`), and before the first watch the loaded settings are in
force or the save is `early` (`FirstInv`). A reload of a stale file then leaves an event behind
that brings the watcher back: the old file's deletion is reported when it is closed.

`ObserversProofs`, from `ObserversAssumption`: arithmetic modulo n comes from `NumberLemmas` (two
numbers within half the space compare as their positions do, `Compare`). The invariant
strengthens `RingMirrorsSet` by "no number is in the ring twice" (`RingOK`), without which
an eviction could drop a number that is still there, and `HighWaterExact` by `Unseen`: what
was sent after the newest segment seen is not in the ring, so that a repeated number cannot
hide a newer one. `TypeCorrect`, `MemoryBounded`, `RingAgrees`, `MarksExact` and `Counting`
follow. `ObserversRefinement` shows that the
ring read from its head is the window of `SeenWindow` (`WindowAfter`: one more number appends
it, and drops the oldest of a full ring) and proves `Spec => ImplementsSeenWindow`.

`TuningProofs`: `DeviceFitsBuffer`, `BudgetNeedsProbing` (no link carries a full packet at the
pinned size, and after path MTU discovery exactly those of 1291 bytes or more do), `OuterFits` (a QUIC packet fits the link exactly when its MTU is at
least 1280: the floor of 1252 bytes is too high for smaller links), `MtuMonotone`,
`RaiseOnly`, `RaiseOnlyMax` and `Symmetric`.

Only model-checked: the liveness properties (`StableOrExit`, `SignalEndsProcess`,
`StreamAdvances`, `LossEndsSession`, `PumpsReturn`, the fairness of `ImplementsSession`,
`LastSaveInForce`, `StatsResume`), which are out of the prover's reach. Every invariant and
action property that a passing run checks is also a theorem.

## Not modelled

TLS, QUIC and CONNECT-IP themselves (external libraries), the kernel's packet
forwarding, log output and the creation of the logger, build and packaging scripts other
than `stop_post`, `PrefixToIPNet` (a conversion), `RandomBytes` and `LastIP`, which have no
caller.

In `Client`: an `ip rule del` that fails although a rule matches. In `Pump`: the host shortening its
packets after an ICMP message, and the truncation of packets above 4096 bytes, which only a
`TUNNEL_MTU` above that allows. In `ConfigWatch`: the closing of the inotify descriptor when the process ends, and an overflow
of the kernel's event queue, and a failing read of it. In `Observers`: the cumulative counters (their increments are
there) and packets that `parseTCP` rejects, which are not observed. In `HostTuning`: the
settings are not part of the state of `Client`, where no decision reads them.

A server that answers the handshake and then sends no route capsule holds the loop for as long
as it keeps the connection alive (`main.go:637`); nothing in the repository promises a bound.

## Plan

Done: all modules above with their runs and proofs. Left: order under partial overlap (a
sender that cuts its stream again, but never repeats data half a sequence space old); the
settings of `HostTuning` as state of `Client`; `Client` with the sessions of `Pump` in place of
the abstract ones, on a smaller instance.
